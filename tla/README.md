# Ternuino CPU simulator: a TLA+ verification project

The Ternuino simulator is a C program that assembles a small program, loads it
into a CPU with three registers, 27 instruction slots and 27 words of data, and
steps it until it halts. Two devices hang behind I/O instructions, a terminal
and a file in the `.t3` format, and the devices raise interrupts. This
directory holds TLA+ models of the C code, the TLC configurations that check
them on small instances, and TLAPS proofs that the safety properties the runs
check hold for every program, every file and every size of the tables.

Paths below are relative to the root of the repository (`src/src/ternuino.c` is
the CPU). `PROJECT.json` maps every definition to the lines it models.

    tlc -workers 2 -config MCInterrupts.cfg MCInterrupts    # any run of the table below
    tlapm CpuProofs.tla                                     # the proofs; also
                                                            # InterruptsProofs, TerminalProofs, FileDeviceProofs,
                                                            # CodecProofs, NumbersProofs, AssemblerProofs
                                                            # and DeviceRegistryProofs

## 1. The system

### Components

| component | source | state | operations |
|---|---|---|---|
| CPU core | `src/src/ternuino.c` (`ternuino_step`, `ternuino_run`, `resolve_operand_value`) | `registers`, `data_mem`, `memory`, `memory_valid`, `pc`, `running` | one case of `ternuino_step` per opcode; reset; run loop |
| Interrupt system | `src/src/ternuino.c:521-547` and the interrupt API | `interrupts_enabled`, `in_interrupt`, `pending_irq`, `saved_pc`, `sp`, `irq_table` | `ternuino_check_interrupts` (deliver, poll), `trigger_irq`, `set_irq_handler`, `enable_irq`, `disable_irq`, `init`, `reset`, EI, DI, IRQ, IRET |
| Terminal device | `src/src/devices.c` | one byte `input_buffer` with position and length, `input_ready`, `irq_enabled`, the IRQ bit of `status`; standard input and output | open, close, read, write, tick |
| File device | `src/src/devices.c` | `is_open`, `is_write_mode`, the `FILE` (buffer, offset), the file on disk | open, close, read, write |
| `.t3` codec | `src/src/ternio.c` | none (the file) | header, `t3_write_value`, `t3_read_value`, `int_to_balanced_ternary`, `balanced_ternary_to_int` |
| Arithmetic and logic | `src/src/tritarith.c`, `tritlogic.c` | none | sign, abs, shifts, compare, and, or, not |
| TritWord | `src/src/tritword.c` | an array of trits and its size | from int, to int, init, to string |
| Device registry | `src/src/ternuino.c:549-600` | `devices`, `device_count`, and the memory of the devices | create, register, unregister, get, tick all, clean up |
| Assembler | `src/src/assembler.c` | program, label table, table of unresolved references, data image, section | read a line, resolve a reference, parse a file |
| Front end | `src/src/main.c` | the CPU, the two devices | run a file, list, interactive |
| t3reader | `src/src/t3reader.c` | none | list the values of a `.t3` file |
| Printing | `ternuino_print_state`, listings | none | output only |

### How they interact

Everything is one thread. `ternuino_run` alternates `ternuino_step` and
`ternuino_tick_devices` until a step clears `running`. A step first calls
`ternuino_check_interrupts`, which delivers a latched request (saves `pc`,
disables interrupts, jumps to the handler) and *then* polls the IRQ bit of each
device, latching at most one vector; then it executes the instruction it finds at
`pc`, which may call a device's `open`/`read`/`write`/`close`, and these move
the same IRQ bit. The tick lets the terminal take one byte from standard input,
echo it, buffer it and raise its bit. Keys are typed at any time by somebody
else. The CPU sees a device only through its integer results and that bit; the
device never sees the CPU. An embedder of the library may call the interrupt API
between two steps.

Before any of this `run_program_file` assembles the file: a first pass fills the
program and four tables line by line, a second fills the addresses into the
references to labels. What comes out (`program`, `data_image`) is loaded; if
either pass fails nothing runs.

### What is hard about it

* *One latch, many requests.* Devices, IRQ instructions and the host share
  `pending_irq`; requests that meet are settled by the order of assignments.
* *Delivery, poll, instruction, tick.* Four writers of the same few flags in a
  fixed order inside a step, and keys between any two. A request spends at least
  one step in the latch, during which its byte may be read, its vector disabled
  or interrupts turned off.
* *A guard nobody means to meet.* IRET asks for a stack pointer below its initial
  value, and nothing is there to lower it: only an instruction with the number of a
  register that does not exist gets at it.
* *Buffered files.* Written bytes are with stdio until `fclose`; a trap
  (`INT32_MIN / -1`), a kill or a short `fwrite` leaves a prefix.
* *C arithmetic.* `/` and `%` truncate: addresses, labels, the ternary codec and
  the trits of a word are all computed with them; subtraction overflows.
* *Two passes, one table.* A reference is a hole in an instruction until the
  second pass, which finds it again by index and operand number. Labels of code and
  data share a table and may share a name. Every table has a limit that may
  be met in the middle of a file, and the one of instructions stops the
  reading without a word.
* *A table of pointers.* Unregistering a device shifts the ones behind it, which
  changes the order of polls, and frees memory the next device may be given.
* *No bounds checks.* Register numbers and negative addresses index outside
  their arrays. Behind the registers lie the program counter, the stack pointer and
  the flags, and the array below `data_mem` is the program.

### What makes each component correct

* Interrupt system: entry at an instruction boundary for a request that was
  latched; the return address kept; a latched request neither dropped nor exchanged for
  another; a handler left only to where it was entered; a standing request is served.
* Terminal: bytes reach the program in order and at most once; no request
  without a byte; a byte is lost only where the code means to discard it.
* File: what a file lists are the first of the values written, in order and with the
  values they had but for the sign the codec loses; a closed file has one for each; a
  reader's loop ends.
* Numbers: truncating division; laws of the logic; what fits a numeral or a
  word survives it.
* CPU: it *is* such an interrupt system and uses the devices only so; a program that
  cannot go back ends; statuses say whether a value was taken and where it went.
* Assembler: every file is answered, with the program it stands for if it stands
  for one and a refusal otherwise; no reference is lost, none filled in twice; a
  label is an address inside the instruction memory.
* Registry: it is a directory of live devices in the order of registration, with
  distinct ids; nothing freed stays in it, and nothing open is out of reach.

## 2. The modules

| module | models | lines of code it stands for |
|---|---|---|
| `Interrupts` | the interrupt system with any program and any devices, and the host's interface | `ternuino_check_interrupts`, the flag effects of every instruction, the API of `ternuino.h` |
| `InterruptsProofs` | theorems about `Interrupts` | |
| `TerminalProofs` | theorems about `Terminal` | |
| `FileDeviceProofs` | theorems about `FileDevice` | |
| `CodecProofs` | lemmas about words, division, numerals, and induction over them and over sequences | |
| `NumbersProofs` | theorems about the properties of `MCNumbers` | |
| `AssemblerProofs` | theorems about `Assembler` | |
| `CpuProofs` | theorems about `Cpu`, which carry those of the devices over to every program | |
| `InputChannel` | abstract: a lossy, ordered, non-duplicating channel of bytes | the promise of the terminal |
| `Terminal` | the terminal device under any order of calls, and the keyboard | `devices.c`, first half |
| `FileDevice` | the file device, stdio's buffer and the disk, byte by byte | `devices.c`, second half; `ternio.c`; the loop of `t3reader.c` |
| `BalancedTernary` | the text codec and all of `TritWord` | `ternio.c:6-88`, `tritword.c` |
| `TernaryOps` | `int32_t` arithmetic and logic with the width as parameter | `tritarith.c`, `tritlogic.c`, operators of `ternuino_step` |
| `Instructions` | what assembler and CPU share: opcodes, operands, the memories after a load | `ternuino.h`, `ternuino_load_program` |
| `AssemblySource` | what a line of source is by itself | `parse_operand_with_labels`, conditions of `parse_instruction_line` and `parse_data_directive` |
| `Translation` | abstract: the program a file stands for, defined from the file alone | the promise of the assembler |
| `Assembler` | the two passes, a line or a reference per step | `assembler.c` |
| `DeviceDirectory` | abstract: at most one device for an id, in the order of registration | the promise of the registry |
| `DeviceRegistry` | the device table and the heap behind it | `ternuino.c:549-600`, creation and clean up |
| `DeviceRegistryProofs` | theorems about `DeviceRegistry` | |
| `Cpu` | a whole run: every opcode, operand resolution, devices, loop, set up and clean up | `ternuino_step`, `ternuino_run`, `run_program_file` |
| `MC*` | instances for TLC | |

`Cpu` composes the others: it takes `Interrupts`, `Terminal` and `FileDevice` with
`INSTANCE`, and each instruction is the conjunction of one action of each. That
`Cpu` implements their specifications is checked and proved, not assumed (`Cpu`
does not restrict itself to their `Next`).

`Assembler` ends with a sequence of `Instruction` and a sequence of words, both
defined in `Instructions`; that is what `Cpu` takes as a program, with the
same sequences. The constant `Programs` of `Cpu` therefore stands for what an assembly
may end with. What `AssemblerProofs` shows of it (`TypeOK`: a sequence of
instructions and one of words) is what `Cpu` assumes of its programs
(`ProgramAssumption`). `JumpsLand` adds that their label addresses lie inside the
instruction memory, which is no larger than the data memory in the simulator: the
`% dmem_size` a label address goes through in `resolve_operand_value` then changes nothing.

### State and actions

Variables have the names of the C fields. The following differ:

| model | code |
|---|---|
| `irq_line[d]` | `devices[d]->status & DEVICE_IRQ_PENDING` |
| `irq_pending` (Terminal) | the same bit of the terminal |
| `memory[s] = Empty` | `memory_valid[s] == 0` |
| `input` | `input_buffer[input_pos .. input_len - 1]` |
| `tty`, `typed`, `received` | bytes on standard input, and histories |
| `disk`, `unflushed`, `pos` | the file, stdio's buffer and the offset of the `FILE` |
| `written`, `torn`, `lost` | histories: values accepted, a short write, bytes that never got to disk |
| `source`, `next` | the `FILE` of the assembler after comments and blanks, and the lines read |
| `resolved` | the loop index of `resolve_labels` |
| a hole, that is `Unresolved` | an operand of mode `ADDR_MODE_DIRECT` and value -1 |
| `phase` (Assembler) | first pass, second pass, returned true or false |
| `heap` | which cells hold a `device_t`, its `id`, and whether it is open |
| `phase` (Cpu) | where the loop of `ternuino_run` stands: before a step, before the ticks, after the clean up, killed by a trap, or off the map |

In `Interrupts` a step is one action: `Here`, `Enabled`, `Inside`, `ReturnTo` and
`Latched` are the state between the delivery and the poll, `Polled(p)` says what
the poll may leave in the latch, and the disjuncts of `Step` are the effects an
instruction can have on the flags. In `Cpu` each `case` of `ternuino_step` is an
action or a row of an operator: `Compute` stands for all opcodes that put a
result in a register and go on, with `BinaryResults`, `UnaryResult` and
`LoadResults` for the rows.

A line of source is a label, a first token and the tokens behind it. Texts are
names; `Literals` says which of them are registers, registers in brackets or
numbers, with what they stand for. A label may be spelled like one of these, as in the
code. `parse_instruction` and `parse_data_directive` are the alternatives of
`ReadLine`, each under the condition that makes the C function return true, and
`Malformed` is the rest. The address of a label is computed before its line is, as
in `assembler_parse_file`.

`DeviceRegistry` has a heap of cells so that a freed cell can be handed out
again, with a pointer to it still around: an address that never comes back would hide the
errors that matter. Registering a device that is registered already is refused by its id.

Undefined behaviour is a set of outcomes. `TCMPR` of operands whose difference
overflows may wrap or compare. Division of `INT32_MIN` by -1 kills the process
(`Trap`). An access outside an array is what it is in the layout of `ternuino_t`, which the
ABI of the build fixes (four byte integers and enumerations, one byte `bool`, little endian):

* `registers[3]` is `pc`, `registers[4]` is `sp`, `registers[5]` holds the three flags and a
  byte of padding, and from `registers[6]` on come the instruction slots, six words each, and
  the data memory (`PcAt` .. `Landing`). A write there is followed (`Lands`): it jumps, moves
  the stack pointer (`OverwriteStack`), the flags (`OverwriteFlags`; a byte that is neither 0
  nor 1 makes the flag either), an instruction or a word of data. `MOV 4, 0` assembles, and
  makes the next IRET return.
* `data_mem[d]` with a negative `d` is a word of the last slots, for reads (`ReadData`)
  as for writes (`Store`): a store may change an opcode, a mode or an operand, and a load
  gives their numbers, or what such a store put there (`stray`). A word that names no mode
  resolves to 0, one that names no opcode does nothing. `memory_valid` is elsewhere, so an
  empty slot stays empty.
* What is left are the word of the flags as a register to read, the word of a slot with
  `has_operand1` and `has_operand2`, and reads beyond either end: these yield any word of
  `Garbage`. A write in front of `ternuino_t`, or behind the data memory in use, hits what
  the model does not hold and ends the run (`Wild`).

Operators named `Faulty...` are deliberate faults, one per checked property. They
are used by no specification; putting one in the place of the definition below
it makes the property it belongs to fail.

## 3. The runs

| run | checks | distinct states | time |
|---|---|---|---|
| `interrupts` | `Interrupts!FairSpec`: any program, any lines, any host | 195 264 | 90 s |
| `terminal` | `Terminal!Spec`: any order of calls, ticks and keys | 1 625 | 2 s |
| `numbers` | `TernaryOps`, `BalancedTernary` over every ten bit word | 230 400 | 5 s |
| `numbers_negative` | the documented round trip of negative values (violated) | | 1 s |
| `file` | `FileDevice!BoundedSpec` with failures and kills | 5 794 | 5 s |
| `file_first_read` | the documented write and read back (violated) | | 1 s |
| `cpu` | `Cpu!FairSpec` with programs of eight kinds | 231 354 | 120 s |
| `cpu_iret` | IRET returns (violated) | | 1 s |
| `cpu_nesting` | interrupts nest (violated) | | 1 s |
| `assembler` | `Assembler!Spec` with 47 748 files | 198 137 | 40 s |
| `assembler_data_labels` | data labels can be referenced (violated) | | 1 s |
| `registry` | `DeviceRegistry!Spec`: any embedder | 120 320 | 20 s |

### interrupts

Two instruction slots (`MaxMemory`) and the values -1, 0 and 2, so that a handler, a jump
or a vector is inside, behind or in front of what it indexes; two vectors and two
devices, one per vector, since every hazard here is about *two* requests; every
vector table initially. The same values may be written over the stack pointer, on either
side of the bound of IRET. State space complete: no other bound.

* `ReturnAddressKept`, `EntryIsPrecise`, `HandlerLeftByReturn`: a handler is entered at an
  instruction boundary for a request latched before, keeps its return address whatever
  happens in it, and is left by an IRET that resumes there with interrupts on. A handler
  outside the memory executes nothing. What an instruction that writes over the flags does
  instead is said too: it saves nothing and goes on behind itself.
* `RequestEndsInItsHandler`: a request that is in the latch when a step ends leaves it only
  by the entry of its handler. A poll, an IRQ, DI or a change of the table neither drops
  it nor puts another there: where one of them could latch, the request is delivered
  first, with interrupts then off. Within the step that latches, the
  device polled last wins, and an IRQ instruction after it. The exceptions are a host's:
  `ternuino_trigger_irq` between two steps replaces a request, whatever the vectors, and a reset
  or init drops it. A host that disables the vector of a latched request does not stop
  the entry. For the simulator, whose handlers are registered before the first step,
  a latched request is one of an enabled vector (theorem `LatchedEnabled`).
* `RaisedLineIsTaken`: no line waits for ever while the CPU runs, is outside a
  handler and has interrupts and the vector enabled.

### terminal

Bytes 113 and 200 (one of each sign of `char`), three keys, open modes 0, 1, 2, and
values on both sides of 0..255. `MaxKeys` = 3 lets one byte be in the buffer, one on standard
input and one be handed over. `ImplementsChannel` is the refinement of
`InputChannel` with `chan` = buffered byte followed by standard input;
`LostOnlyByOpen` says which calls are its losses. `RequestHasByte` and
`ReadyIffUnread` tie the four fields of the buffer together.

### numbers

Each state is a triple of words: one runs over every word of a ten bit
(-512 .. 511), two over the edges of the range and -3 .. 7. The width is the only
bound; the definitions use it as a parameter and the edges are where a width
matters. `DivisionTruncates` fixes DIV and says where it traps; `CompareOrders` states TCMPR where the
difference fits; `LawsHold` has associativity, absorption and De Morgan for words,
which docs/book/03 states for trits; `NumeralsRead` is the text codec on
values that are not negative, and the form of the numeral for all; `WordsKeep` is
the word of trits, for every size up to one beyond the array, and covers the odd
fact that trits of negative values leave -1 .. 1 and cancel when read; of a word that is
not negative it also says that its text reads back.

### file

Values of one and of three trits, one of them negative; an earlier file of 21
values, so that a reader that takes the header for data (its first byte, 84, is
rejected, the second, 51, is a length) gets past it and into values; up to two
writes and 18 bytes, that is a header and six bytes of frames, and one short write in a file
(`BoundedNext`; `Next` itself has no bounds, and the theorems are about it). Flush moves any
prefix of the buffer, `Kill` may come at any point, `MayFail` lets `fopen` fail and
`fwrite` come up short.

* `CrashLeavesPrefix`: at any moment, with anything flushed and after a kill,
  t3reader lists the first of the values accepted, in order, as long as no write was short.
  A value listed is the one accepted if that was not negative, and what the codec makes of
  it (`Stored`) if it was: -1 comes back, of -2 the file lists 1, which is `numbers_negative`.
  What a short write leaves need not be so: TWRITE reports -1 and the torn frame stays
  in the file.
* `ClosedIsComplete`: nothing lost means that there is one listed for each accepted.
* `NoStrayBytes`: no bytes wait behind a file that is not open for writing.
* `ReadsAdvance`: a successful read moves on inside the file, wherever it started.

### cpu

Seven slots of instructions and of data. `WordMax` = 63 leaves room for every address, id,
vector and register number that means something. The file of an earlier run may have 21
values; two keys are typed at any time; every set of devices whose creation may have
succeeded. Eight kinds of programs:

* *Protocol*: an EI, opening the terminal or lowering the stack pointer, any two of eight
  instructions (EI, DI, IRET, IRQ, reading and closing the terminal, lowering the stack
  pointer, a jump to the last slot), and a jump back, with handlers in the last two
  slots that return or read and return.
* *Polling*, by label and by number, and *waiting*: a loop of EI and one of EI, DI, NOP,
  IRQ of a vector out of range, TWRITE.
* *Computations* on pairs of words from the edges of the range; *memory accesses* and
  branches through every mode; *odd operands*: numbers for registers, of every part of
  `ternuino_t` and beyond its ends, and reads into A or into no register; *stray stores* into
  each word of the last slot of a full memory, of words that name every kind of opcode that
  matters: none, JMP (6), one with a device behind it, DI (30).
* *Files*: an open and a read or write, then any two of seven file instructions.

Checked are:

* `ImplementsInterrupts`, `ImplementsTerminal`, `ImplementsFile`: refinement by the
  specifications of the modules. What is proved of these holds of these programs.
* `TreadStatus`: 0 in A exactly if a value was taken and a register was given for it, and
  then the register holds the value of the byte or the frame, unless it is A itself, where
  the status overwrites it; -1 if there was nothing to take, but also if the target is
  no register, where a value may be gone. No other register moves.
* `Halts`: a run ends, whatever its stores make of the program, unless some instruction may
  go back: a jump that is not to a number behind it, or a write to the program counter,
  the stack pointer or the flags. A stray store can make a loop of a straight program (JMP
  stored into the last slot does), and that is the exception `Halts` makes, as the
  memory stands at the time; an empty slot never stops the run short of the end.
* `EveryKeyIsRead`: a polling program gets every key.
* `KeyEntersHandler`: a waiting program enters its handler after a key, though DI may
  follow EI at once, because the latch holds the request over a round.
* `TypeOK`: words stay words and slots stay instructions.

`cpu_iret` runs a handler of one IRET that does not return; `cpu_nesting` a handler that
executes EI and an IRQ for the other vector, which is enabled: nothing is latched.

### assembler

Every file of up to four lines of thirteen kinds, and every file of five lines of
seven kinds that have no fault of their own. The kinds: labels alone, on an instruction and on data, one
spelled like a register; forward and backward references, one and two on an
instruction, one to a label that also names data, undefined ones; both section directives; data
of one word, of two and of a negative number of words; a mnemonic short of
operands and an unknown one. Memory, data and label table hold two entries each, so that
a file of five lines meets every limit, in every order. The table of references holds
four, two for each instruction, as in the code, where it holds 256 and 54 are enough
(`AssemblerAssumption`).

* `ImplementsTranslation`: the refinement of `Translation`, liveness included: an answer for
  every file, and the right one. `Translation` defines a program from the file, by
  counting the instructions before a line; it has no tables, passes, or order. It says
  which lines count: those in front of which the memory is not full.
* `HolesRecorded`: at any moment of either pass an operand is a hole exactly when
  the table has one reference for it that is still to come or has failed.
* `OnlyHolesFilled`: of an instruction once parsed only holes change.
* `JumpsLand`: an assembled label is an address of an instruction or of the slot
  behind the last, and always below `MaxMemory`, because the first pass does not see
  a label behind a full memory. With the data memory of the simulator, which has the
  size of the instruction memory, the `%` of `resolve_operand_value` therefore
  never bites in an assembled program.

`assembler_data_labels` assembles programs/memory_demo.asm with the real limits.

### registry

Three slots, four ids and four cells of memory: a fourth device meets the full
table, and a freed cell is handed out again. Every initial content of the ids of free cells.

* `ImplementsDirectory`: refinement of `DeviceDirectory` with the entries read
  through the pointers of the table: a freed cell that is handed out again with its pointer still in
  the table would change an entry without a call.
* `NoDangling`: live devices, distinct ids, and every open device in the table.

### Where documentation and code differ

Each violation run checks one sentence of the documentation and is listed under
"findings". Others were met and are not runs of their own:

| documentation | code |
|---|---|
| docs/book/05-architecture.md:125, lower vectors have priority | the device polled last wins, whatever its vector, and an IRQ instruction after it (`Polled`, `IRQ` in `Interrupts`) |
| docs/book/05-architecture.md:47, code cannot modify itself | a store to a negative address changes it (`Overwritten` in `Cpu`) |
| programs/terminal_irq_demo.asm:33, quits on q | quits on any key: the handler address 25 is its HLT |
| programs/ternary_io_demo.asm | does not assemble: `.section` is no directive, and TJN has one operand |
| src/programs/ternary_io_demo.asm:60, `error` | behind the 27th instruction, so not read, and reported as undefined (`HasLine`) |
| ASSEMBLY.md:139, unknown instructions fail the assembly | not behind the 27th instruction |
| README.md:145, TCMPR is the sign of the difference | the difference may overflow (`CompareOrders` is stated where it does not) |
| docs/book/06-assembly.md:443, TCMPR of a register with a number | the second operand is always a register *index* (`Results` in `Cpu`) |
| ASSEMBLY.md:37, addresses wrap modulo the data memory size | `%` keeps the sign: a negative address reads, or writes, the instructions below `data_mem` (`ReadData`, `Store`) |
| IO_OPERATIONS.md:21, TREAD stores the value in A, B or C | in A the status overwrites it |
| IO_OPERATIONS.md:22, TREAD returns -1 for an error | with a target that is no register it has consumed the value all the same |
| IO_OPERATIONS.md:35, the header holds the number of values | it is always 0 |
| IO_OPERATIONS.md:10, ids 0-7 are files | id 0 is the terminal |
| `tritword.c:30`, a trit is -1, 0 or 1 | of negative values some are not (`Kept`) |

A program that opens the terminal for writing, or closes it, with an unread byte in
the buffer gets no further request until it reads that byte: the request is
withdrawn and the tick does not poll while the byte is there. With signed `char`
a byte above 127 is echoed as a number in brackets when the program writes back
what it read.

### Fairness

`FairSpec` of `Interrupts` and `Cpu` have weak fairness of the CPU alone. The
loop of `ternuino_run` waits for nothing: every call it makes returns (the
terminal's read is non-blocking), so while `running` holds another step follows.
In `Cpu` it is fairness of the whole loop (`Run`: step, tick, clean up). Nothing is
assumed about keys, hosts, or which devices raise their lines, and `terminal` and
`file` have no liveness since their callers owe them none.

`Assembler` has weak fairness of its next step: both passes are loops over what is
there, and neither waits.

CHECK_DEADLOCK is off in the runs of `Cpu`, `Assembler` and `DeviceRegistry`, which
end as the simulator does, and on everywhere else.

## 4. The proofs

### The interrupt system

`InterruptsProofs` proves for every number of slots, data words, vectors, devices
and every assignment of vectors to devices (`InterruptsAssumption`: sizes are
positive, vectors of devices are naturals, possibly out of the table) and for
`HostSpec`, that is with an embedder calling the whole API between steps:

| theorem | statement |
|---|---|
| `TypeCorrect` | `[]TypeOK`: in particular the latch always indexes inside `irq_table` |
| `ReturnAddress` | `ReturnAddressKept` |
| `PreciseEntry` | `EntryIsPrecise` |
| `RequestsEndInHandlers` | `RequestEndsInItsHandler` |
| `HandlersReturn` | `HandlerLeftByReturn` |
| `LatchedEnabled` | `Spec => []PendingEnabled`, for a run without a host |

`TypeOK` is inductive by itself, and all the rest needs: the delivery indexes the table
with the latch, and that a poll can latch something of its own only when the latch is empty
is a consequence of the order in the step, not of an invariant. That order is
the lemma `Busy`: if the step began with a request in the latch, or is inside a handler
after the delivery, then nothing more is accepted, because either the delivery has
just turned interrupts off and entered, or it did not happen, and then interrupts are off
or a handler is running. `StepEffect` says in one statement what every instruction has in
common: how it may leave the latch (`Latches`), and where the program goes and with which
flags (`Goes`), whatever it is. `PollEnabled`: the poll latches enabled vectors. Each
action property follows from `StepEffect` for a step, and from the definitions for a
tick and for each call of the host (`CheckEffect` for `ternuino_check_interrupts` by itself).

Since `Cpu` implements `Interrupts!Spec` (below), the theorems are statements about
runs of programs.

### The device table

`DeviceRegistryProofs` proves for every number of slots, every set of ids and every
heap (`RegistryAssumption`: there is a slot, and NULL is no cell):

| theorem | statement |
|---|---|
| `Inductive` | `Spec => []IInv`, with `IInv == TypeOK /\ NoDangling` |
| `TypeCorrect` | `[]TypeOK`: the slots in use are those below `device_count` |
| `TableIsSound` | `[]NoDangling` |
| `Implements` | `Spec => ImplementsDirectory` |

Neither half of the invariant is inductive alone: unregistering frees the cell of one
slot, and that no other slot points to it follows from the distinct ids of
`NoDangling`; that a slot holds a cell at all is `TypeOK`. The lemma `WithoutSlot` says of
each slot after the shift which slot it came from (`From`); `UnregisterInv` and
`UnregisterRefines` are about that map. For the refinement every call other than register and
unregister must leave the ids behind the pointers alone (`EntriesKept`): creating a
device does because the cell it takes is free, and no free cell is in the table.

### The terminal

`TerminalProofs` proves for every set of bytes, open modes and values, for either
signedness of `char` and any number of keys (`TerminalAssumption`):

| theorem | statement |
|---|---|
| `Inductive` | `Spec => []IInv`, with `IInv == TypeOK /\ RequestHasByte /\ ReadyIffUnread` |
| `TypeCorrect`, `RequestIsHonest`, `BufferIsCoherent` | its three parts |
| `LossOnlyByOpen` | `LostOnlyByOpen` |
| `Implements` | `Spec => ImplementsChannel` |

The parts need each other: a read clears the request because the buffer holds one
byte (`TypeOK`), and leaves the flags agreeing because it was the flag that let it in.
For the refinement the lemmas named `...Transit` say of each call what it does to
the buffered byte followed by standard input: a read takes the first byte, an open for
reading may drop it, a tick moves a byte from one to the other and so changes nothing.

### The file device

`FileDeviceProofs` proves for every set of values, every earlier file made of
words, and files of any length (`FileAssumption`, `WidthAssumption`):

| theorem | statement |
|---|---|
| `Inductive` | `Spec => []IInv` |
| `TypeCorrect`, `BufferIsOfOpenFile` | `[]TypeOK`, `[]NoStrayBytes` |
| `CrashIsHonest` | `[]CrashLeavesPrefix` |
| `CloseIsComplete` | `[]ClosedIsComplete` |
| `ReadsMakeProgress` | `ReadsAdvance` |

`IInv == TypeOK /\ NoStrayBytes /\ LostIsOver /\ FileTells`. What t3reader lists is
no inductive property: it says nothing of the bytes still in the buffer, nor of half a
frame. `FileTells` speaks of bytes instead: disk and buffer together are the first
bytes of a header and the frames of `written`, and all of them while none is `lost`.
`LostIsOver` keeps that so: bytes are lost only when the file is closed, so
nothing is written behind the gap. The other half of the argument is about reading:
`ReadFrame` (a frame is read back as what the codec makes of its value),
`ReadPastFrames` (a frame that is cut short is not read), and `ContentsOfFile`, by induction
over the frames: of the first bytes of a file `Contents` lists the values of the frames that
are whole, as the codec reads them. `ListsPrefix` adds what the codec promises (`NumeralAll`
of `CodecProofs`): a value that is not negative reads back as itself. What TLC checks is
`BoundedSpec`, whose steps are steps of `Next` (lemma `BoundsLeaveOut`).

### Numbers and numerals

`CodecProofs` has the lemmas about words of any width up to 32 bits, `NumbersProofs`
the theorems on the properties of `MCNumbers`:

| theorem | statement |
|---|---|
| `DivisionIsExact` | `[]DivisionTruncates` |
| `ComparisonIsOrder` | `[]CompareOrders` |
| `LogicIsLattice` | `[]LawsHold` |
| `TextIsNumeral` | `[]NumeralsRead` |
| `WordsAreKept` | `[]WordsKeep` |

The states of `MCNumbers` have every word for one of the three and edges for the
others. The lemmas they follow from (`DivisionTruncatesAll`, `ComparesAll`, `LatticeAll`, `ShiftsBackAll`,
`AbsoluteAll`, `NumeralAll`, `KeptAll`, `SpelledAll`) are about all words.

A numeral is defined by recursion on the value (`Digits`), and read by recursion on the text
(`SumOfTrits`). Both are recursive functions, and what they compute is proved
by induction over the set of arguments for which a statement holds
(`SetInduction`, from the well-foundedness of the naturals): the library's induction
theorems take an operator as a parameter and cannot be used here. `WordInduction` is
induction along `Left`, which shrinks a word that is not zero; `DigitsFit` bounds a
numeral by 32 digits, since `Left` halves at least; it is what the 64 bytes of the
buffers in `ternio.c` rest on (`WidthAssumption`: a word has at most 32 bits).

A word of trits is summed from the high end, while `RestAfter` takes its trits off the
low end. `WordSums` ties the two together: after `i` of `n` trits the sum is what was
left of the value there less `3^i` times what was left over at the end, and it is
`Near` what was left. `Near` is the invariant: a sum keeps the sign of a negative rest, and
is either equal to one that is not negative or larger than its negation, so that no
partial sum ever wraps, and a value within the range of the word leaves nothing over.
It holds although the trits of a negative value are -3, -2 or -1 (`TakesOff`).

### The assembler

`AssemblerProofs` proves for every set of files, every spelling of labels and
numbers, and tables of any size (`AssemblerAssumption`, `SourceAssumption`):

| theorem | statement |
|---|---|
| `Inductive` | `Spec => []IInv` |
| `TypeCorrect`, `HolesAreRecorded` | `[]TypeOK`, `[]HolesRecorded` |
| `ReferencesFit` | `[]TableSuffices`: never more than two references for an instruction |
| `LoadedJumpsLand` | `[]JumpsLand` |
| `OnlyHolesAreFilled` | `OnlyHolesFilled` |
| `ReadRightly` | `Spec => [](IInv /\ Translated)` |
| `AnswersRightly` | `Spec => Translation!Safe`: the safety part of `ImplementsTranslation` |

`HolesRecorded` counts the references for an operand. The inductive invariant says the same
without counting: a hole has a reference still to come or failed (`HolesHaveRefs`), a
reference still to come has a hole (`RefsHaveHoles`), and no two are for the same
operand (`RefsDiffer`). `TableSuffices` is needed since `add_unresolved_ref`
drops a reference without a word when the table is full, and the hole of a dropped
reference would be run as address -1. With 27 instructions there are 54 references at
most, and the table has 256 entries; the sizes enter the proof only as `2 * MaxMemory <= MaxUnresolvedRefs`.
`CodeLabelsLand` and `AddressesLand` carry `JumpsLand` through
both passes, and rest on a label being entered only while the memory is not full
(`AddedLabel`). `PassesInOrder` ties the loop index to the phase.

`AnswersRightly` says that the assembler computes `Translation`: the answer is the program
the file stands for, or a refusal, and a refusal only of a file that stands for none.
`Translation` speaks of the whole file and the assembler has read a part of it, so the
invariant `Translated` says what `Translation` says of the lines read so far:

* `LinesRead`: they all count and stand for something, the next instruction goes to the
  address of the next line, and the data are those of these lines;
* `LabelsRead`: the table has their labels, each once;
* `CodeRead`: the instruction at an address is that of the line with this address, and an
  operand that refers to a label is a hole or denotes the address already;
* `RefsRead`: what a reference says of its operand is what the line has there;
* `AllRead`: the second pass starts when all lines that count are read;
* `FailsRightly`: it has failed only if some reference has no label in the code.

`LineIsRead`, `LabelIsRead` and `CodeIsRead` are the step from one line to the next,
`RefuseLabelRight` and `MalformedRight` say that a file refused in the first pass has no
translation. For a label too many that is counting (`FinitelyLabelled`: a file has
finitely many labels); for data too many that the image only grows (`DataGrows`, by
induction over the lines). In the second pass the first match in the label table is
the one line the label denotes (`LabelsOfText`), and at the end no hole is left, so every
operand denotes what `Translation` says (`CodeIsProgram`). A reference names its
instruction by the address; since no two lines share one (`OneLine`), it leads back to its line.

### Runs of programs

`CpuProofs` proves for every set of programs, every size of memory and data, every
assignment of handlers and every width of a word:

| theorem | statement |
|---|---|
| `Inductive` | `Spec => []IInv`, with `IInv == TypeOK /\ TP!IInv /\ FP!IInv` |
| `TypeCorrect` | `[]TypeOK` |
| `FollowsProtocol` | `Spec => ImplementsInterrupts` |
| `UsesTerminal`, `UsesFile` | `Spec => ImplementsTerminal`, `Spec => ImplementsFile` |
| `StatusIsHonest` | `TreadStatus` |
| `RunsServeRequests` | in every run a latched request is one for an enabled vector, and nothing but the entry of its handler changes the latch |
| `ReturnNeedsOverwrite` | no run leaves a handler without an instruction whose register number is that of the stack pointer, before an IRET, or of the flags: an ordinary handler never returns |
| `RunsGetKeysInOrder` | in every run the terminal is the channel, and requests have a byte |
| `RunsLeaveTheirFiles` | in every run `CrashLeavesPrefix`; the file of a run that ends lists a value for each written, unless a write came up short or `fclose` lost some, and those not negative as they were written |

Assumed are the sizes (`CpuAssumption`), that programs are sequences of instructions
and words (`ProgramAssumption`: the C types, and what the assembler returns), and what the
devices assume (`DeviceAssumption`), with the value of a `char` fitting a word. The undefined
reads are any words (`Garbage`).

`NextKeeps` is the centre: from a state with the invariant, every step keeps
the types and is a step of `Interrupts`, one of `Terminal` and one of `FileDevice`, or
leaves these alone (`LawfulStep`). `ExecuteTyped`, `ExecuteIsStep` and
`ExecuteDevices` show it of the instructions, one case for each. That results are
words needs the devices' invariants: what a read delivers is a word only because
the buffer holds keys and the file bytes (`KeyIsWord`, `ReadTyped`). `StoreTyped` covers the stores below
`data_mem`, after which a slot still holds an instruction, with any of the opcodes and modes
a word may stand for; `Reach` that an address reduced by `% dmem_size`, and every register number
that is followed, hits a slot or a word of data; `LandsTyped` and `LandsIsStep` that a
write through such a number is a step of `Interrupts` that keeps the types.
`ReturnNeedsOverwrite` needs no invariant: of every instruction `Steady` says that it leaves
the stack pointer and the handler alone, and `Through` what the exceptions are.

The proof modules of the devices are instances here (`IP`, `TP`, `FP`), so their
theorems are cited for the variables of `Cpu`; the lemmas named `Same...` identify
the definitions of an instance of a module with those of an instance of the proofs
about it. The last four theorems are what this gives.

### What is only model-checked

* Liveness (`RaisedLineIsTaken`, `Halts`, `EveryKeyIsRead`, `KeyEntersHandler`), and whatever
  depends on fairness or ENABLED: out of the prover's reach.
* Of `ImplementsTranslation` that there is an answer for every file; that every answer is the
  right one is `AnswersRightly`.

## 5. What is not modelled

* How a line is taken apart: labels cut at 63 characters, lines of more than 255
  characters that `fgets` delivers in two parts, numbers beyond the range of `strtol`. Any
  text in brackets is copied to a buffer of four bytes before it is compared with the register
  names; the model takes one that is no register for a label, and stops short of what a
  longer one overwrites. The count of `.zero` is a `long` in the code and a word in the
  model: a count of more than a word does not fit the data memory and is refused by either.
  `parse_operand` has no caller.
* Loading twice into one CPU: `ternuino_load_program` leaves the instructions behind a
  shorter second program in memory. `main.c` loads once into a CPU it has just initialised.
* Unregistering a device while its request is in the latch: `Interrupts` keeps the
  devices fixed, and `DeviceRegistry` has no CPU. No tick of a device
  unregisters one, so the loops over the table never see it shift.
* A file that cannot be opened: `run_program_file` and `assembler_parse_file` return.
* Printing of states, listings and the interactive loop of `main.c`: output only.
* The Windows branch of the terminal (`_kbhit`), and how the non-blocking mode of
  standard input is set and reset with `fcntl` around a read.
* `t3_create_file` and the `files` table of `ternuino_t`, which nothing reads.
* Build scripts, demo programs and the book, except as the source of claims.

## 6. Plan

1. *DeviceRegistry with Interrupts*: the devices of the poll become the table, with an
   embedder that unregisters a device whose request is latched.
