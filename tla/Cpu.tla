-------------------------------- MODULE Cpu --------------------------------
(***************************************************************************)
(* A run of the simulator: ternuino_step for every instruction, the loop   *)
(* of ternuino_run around it, the terminal and the file device behind the  *)
(* I/O instructions, and the set up and clean up of run_program_file.  The *)
(* flags of the interrupt system, the terminal and the file device are the *)
(* modules Interrupts, Terminal and FileDevice; an instruction is a        *)
(* conjunction of one action of each.                                      *)
(*                                                                         *)
(* An operator whose name starts with Faulty is the definition after it    *)
(* with a fault; no specification uses one.                                *)
(***************************************************************************)
EXTENDS Instructions

CONSTANTS
  MaxVectors,        \* the size of the vector table in ternuino.h
  DmemSize,          \* the size ternuino_init is asked for, cut to MaxData
  Handlers,          \* device -> handler address main.c registers for it
  DeviceSets,        \* the sets of devices whose creation may have succeeded
  Programs,          \* the programs that may be loaded
  Garbage,           \* words a read may yield that nothing has set
  Bytes, MaxKeys, CharIsSigned,                     \* see Terminal
  Padding, Earlier, MayFail, MaxWrites, MaxBytes    \* see FileDevice

TerminalId == 0   \* device id, registration index and vector in main.c
FileId     == 1
REG_A      == 0

Addresses == 0 .. DmemSize - 1

Binary == {"ADD", "SUB", "MUL", "DIV", "TAND", "TOR", "TCMPR"}
Unary  == {"TNOT", "NEG", "TSIGN", "TABS", "TSHL3", "TSHR3"}
Loads  == {"MOV", "LEA", "LD"}
Jumps  == {"TJZ", "TJN", "TJP"}

ASSUME CpuAssumption ==
  /\ MaxMemory \in Nat \ {0} /\ MaxData \in Nat \ {0} /\ MaxVectors \in Nat
  /\ DmemSize \in 1 .. MaxData
  /\ MaxMemory <= WordMax /\ MaxData <= WordMax /\ MaxData <= 6 * MaxMemory
  /\ Len(Opcodes) <= WordMax
  /\ Handlers \in [{TerminalId, FileId} -> Word]
  /\ MaxVectors > FileId
  /\ \A ids \in DeviceSets : ids \subseteq {TerminalId, FileId}
  /\ Garbage \subseteq Word /\ Garbage # {}

(* The assembler, or a caller of ternuino_load_program, hands over         *)
(* instructions of opcode_t and words of int32_t.                          *)
ASSUME ProgramAssumption ==
  \A p \in Programs : p.code \in Seq(Instruction) /\ p.data \in Seq(Word)

(* What Terminal and FileDevice assume, and a key's value fits a word.     *)
ASSUME DeviceAssumption ==
  /\ Bytes \subseteq 0 .. 255 /\ MaxKeys \in Nat /\ CharIsSigned \in BOOLEAN
  /\ \A b \in Bytes : (IF CharIsSigned /\ b > 127 THEN b - 256 ELSE b) \in Word
  /\ WordMax <= 2147483647 /\ Padding \subseteq 0 .. 255
  /\ \A values \in Earlier : values \in Seq(Word)
  /\ MayFail \in BOOLEAN /\ MaxWrites \in Nat /\ MaxBytes \in Nat

VARIABLES
  phase,                 \* where the loop of ternuino_run stands
  registers, data_mem,
  memory,                \* slot -> instruction, or Empty
  stray,                 \* words stored into the slots, by their distance to data_mem
  devices,               \* ids of the registered devices
  pc, sp, running, interrupts_enabled, in_interrupt, pending_irq, saved_pc, irq_table,
  irq_enabled, irq_pending, input_ready, input, tty, screen, typed, received,
  is_open, is_write_mode, exists, disk, unflushed, pos, written, torn, lost

(* The lines the interrupt system polls: only the terminal raises one.     *)
Lines == [d \in {TerminalId, FileId} |-> d = TerminalId /\ irq_pending]

I == INSTANCE Interrupts
       WITH Devices <- {TerminalId, FileId}, irq_vector <- [d \in {TerminalId, FileId} |-> d],
            Values <- Word, irq_line <- Lines
T == INSTANCE Terminal WITH Modes <- Word, Values <- Word
F == INSTANCE FileDevice WITH Modes <- Word, Written <- Word

core      == <<registers, data_mem, memory, stray>>
interrupt == <<pc, sp, running, interrupts_enabled, in_interrupt, pending_irq,
               saved_pc, irq_table>>
terminal  == <<irq_enabled, irq_pending, input_ready, input, tty, screen, typed, received>>
file      == <<is_open, is_write_mode, exists, disk, unflushed, pos, written, torn, lost>>
vars      == <<phase, core, devices, interrupt, terminal, file>>

-----------------------------------------------------------------------------
(* ternuino_init, the registration of the devices in main.c, and           *)
(* ternuino_load_program of an assembled program.                          *)
Loaded(p) == memory = LoadedCode(p.code) /\ data_mem = LoadedData(p.data, DmemSize)

Init ==
  /\ phase = "step"
  /\ registers = [r \in Registers |-> 0]
  /\ devices \in DeviceSets
  /\ \E p \in Programs : Loaded(p)
  /\ stray = <<>>
  /\ T!Init
  /\ F!Init
  /\ irq_table = [v \in 0 .. MaxVectors - 1 |->
                    IF v \in devices THEN [handler_address |-> Handlers[v], enabled |-> TRUE]
                                     ELSE [handler_address |-> 0, enabled |-> FALSE]]
  /\ I!Init

-----------------------------------------------------------------------------
(* ternuino_t as words.  The program counter, the stack pointer, a word    *)
(* with the three flags, the instruction slots and the data memory follow  *)
(* the registers in this order, so an access with the number of no         *)
(* register, or below data_mem, finds one of these.  A slot is six words:  *)
(* the opcode, a mode and a value for each operand, and a word that only   *)
(* the listing reads.                                                      *)
PcAt    == 3
SpAt    == 4
FlagsAt == 5
SlotsAt == 6
DataAt  == SlotsAt + 6 * MaxMemory
Landing == 0 .. DataAt + DmemSize - 1   \* the part of it that is followed
SlotWords == -6 * MaxMemory .. -1       \* the slots, as seen from data_mem

(* The number of a name in its enumeration.                                *)
ModeNames == <<"imm", "reg", "dir", "ind">>
CodeOf(name, names) == {k - 1 : k \in {n \in DOMAIN names : names[n] = name}}

FieldOf(i, field) ==
  CASE i = Empty -> {0}
    [] i # Empty /\ field = 0 -> CodeOf(i.op, Opcodes)
    [] i # Empty /\ field = 1 -> CodeOf(i.a.mode, ModeNames)
    [] i # Empty /\ field = 2 -> {i.a.value}
    [] i # Empty /\ field = 3 -> CodeOf(i.b.mode, ModeNames)
    [] i # Empty /\ field = 4 -> {i.b.value}
    [] i # Empty /\ field = 5 -> Garbage

(* What a read finds, as a set: more than one word when it is undefined.   *)
ReadData(d) ==
  CASE d \in Addresses -> {data_mem[d]}
    [] d \in DOMAIN stray -> {stray[d]}
    [] d \in SlotWords \ DOMAIN stray -> FieldOf(memory[MaxMemory + (d \div 6)], d % 6)
    [] d \notin Addresses \cup SlotWords \cup DOMAIN stray -> Garbage

(* pc is already that of the next instruction.  The flags share their word *)
(* with a byte that belongs to none.                                       *)
ReadRegister(r) ==
  CASE r \in Registers -> {registers[r]}
    [] r = PcAt -> {I!Here + 1}
    [] r = SpAt -> {sp}
    [] r >= SlotsAt -> ReadData(r - DataAt)
    [] r < 0 \/ r = FlagsAt -> Garbage

Wrapped(x) == Rem(x, DmemSize)

(* resolve_operand_value.  A direct or indirect operand resolves to an     *)
(* address of the data memory, whatever the instruction uses it for.       *)
Resolve(o) ==
  CASE o.mode = "imm"  -> {o.value}
    [] o.mode = "reg"  -> ReadRegister(o.value)
    [] o.mode = "dir"  -> {Wrapped(o.value)}
    [] o.mode = "ind"  -> {Wrapped(x) : x \in ReadRegister(o.value)}
    [] o.mode = "none" -> {0}

AddressOf(o) == {Wrapped(x) : x \in Resolve(o)}

BinaryResults(op, x, y) ==
  CASE op = "ADD"   -> {Wrap(x + y)}
    [] op = "SUB"   -> {Wrap(x - y)}
    [] op = "MUL"   -> {Wrap(x * y)}
    [] op = "DIV"   -> IF DivTraps(x, y) THEN {} ELSE {Division(x, y)}
    [] op = "TAND"  -> {trit_and(x, y)}
    [] op = "TOR"   -> {trit_or(x, y)}
    [] op = "TCMPR" -> tcmpr(x, y)

UnaryResult(op, x) ==
  CASE op = "TNOT"  -> trit_not(x)
    [] op = "NEG"   -> Wrap(-x)
    [] op = "TSIGN" -> tsign(x)
    [] op = "TABS"  -> tabs(x)
    [] op = "TSHL3" -> tshl3(x)
    [] op = "TSHR3" -> tshr3(x)

LoadResults(i) ==
  CASE i.op = "MOV" -> Resolve(i.b)
    [] i.op = "LEA" -> AddressOf(i.b)
    [] i.op = "LD"  -> UNION {ReadData(d) : d \in AddressOf(i.b)}

(* The second operand of a binary operation is the register its value      *)
(* names, whatever its mode.                                               *)
Results(i) ==
  CASE i.op \in Binary -> UNION {BinaryResults(i.op, x, y) :
                                   x \in ReadRegister(i.a.value), y \in ReadRegister(i.b.value)}
    [] i.op \in Unary  -> {UnaryResult(i.op, x) : x \in ReadRegister(i.a.value)}
    [] i.op \in Loads  -> LoadResults(i)

(* The register an instruction writes, besides the status in A.            *)
Target(i) == IF i.op = "TREAD" THEN i.b ELSE i.a

Traps(i) ==
  /\ i.op = "DIV"
  /\ \E x \in ReadRegister(i.a.value), y \in ReadRegister(i.b.value) : DivTraps(x, y)

(* data_mem[d] = w.  Below data_mem it changes an instruction: a number    *)
(* that names no mode resolves to 0, one that names no opcode does nothing.*)
Mode(w)   == IF w + 1 \in DOMAIN ModeNames THEN ModeNames[w + 1] ELSE "none"
Opcode(w) == IF w + 1 \in DOMAIN Opcodes THEN Opcodes[w + 1] ELSE "NOP"

Overwritten(i, field, w) ==
  CASE i = Empty \/ field = 5 -> i
    [] i # Empty /\ field = 0 -> [i EXCEPT !.op = Opcode(w)]
    [] i # Empty /\ field = 1 -> [i EXCEPT !.a.mode = Mode(w)]
    [] i # Empty /\ field = 2 -> [i EXCEPT !.a.value = w]
    [] i # Empty /\ field = 3 -> [i EXCEPT !.b.mode = Mode(w)]
    [] i # Empty /\ field = 4 -> [i EXCEPT !.b.value = w]

Store(d, w) ==
  IF d \in Addresses
  THEN data_mem' = [data_mem EXCEPT ![d] = w] /\ UNCHANGED <<memory, stray>>
  ELSE /\ memory' = [memory EXCEPT ![MaxMemory + (d \div 6)] = Overwritten(@, d % 6, w)]
       /\ stray' = [e \in DOMAIN stray \cup {d} |-> IF e = d THEN w ELSE stray[e]]
       /\ UNCHANGED data_mem

(* registers[n] = w: what it does to the registers, and to all the rest.   *)
(* The flags are the three lowest bytes of their word, true for 1, false   *)
(* for 0 and either for a byte no bool can hold.                           *)
Assigned(n, w) == IF n \in Registers THEN [registers EXCEPT ![n] = w] ELSE registers

Flag(w, k) ==
  LET byte == (w \div 256 ^ k) % 256
  IN  IF byte = 0 THEN {FALSE} ELSE IF byte = 1 THEN {TRUE} ELSE BOOLEAN

Memories == <<data_mem, memory, stray>>

Lands(p, n, w) ==
  \/ n \in Registers /\ I!Plain(p) /\ UNCHANGED Memories
  \/ n = PcAt /\ I!Jump(p, w) /\ UNCHANGED Memories
  \/ n = SpAt /\ I!OverwriteStack(p, w) /\ UNCHANGED Memories
  \/ /\ n = FlagsAt /\ UNCHANGED Memories
     /\ \E run \in Flag(w, 0), enabled \in Flag(w, 1), inside \in Flag(w, 2) :
          I!OverwriteFlags(p, run, enabled, inside)
  \/ n >= SlotsAt /\ Store(n - DataAt, w) /\ I!Plain(p)

-----------------------------------------------------------------------------
(* ternuino_step.  p is the vector the poll left latched; i is the         *)
(* instruction at the address the delivery of an interrupt leaves.         *)
Quiet == UNCHANGED <<terminal, file>>

OutOfBounds(p) == I!OutOfBounds(p) /\ UNCHANGED core /\ Quiet

EmptySlot(p) == I!EmptySlot(p) /\ memory[I!Here] = Empty /\ UNCHANGED core /\ Quiet

(* LEA of an indirect operand is ignored.                                  *)
DoesNothing(i) == i.op = "NOP" \/ (i.op = "LEA" /\ i.b.mode = "ind")

NOP(p, i) == DoesNothing(i) /\ I!Plain(p) /\ UNCHANGED core /\ Quiet

Compute(p, i) ==
  /\ i.op \in Binary \cup Unary \cup Loads /\ ~DoesNothing(i)
  /\ \E w \in Results(i) : registers' = Assigned(i.a.value, w) /\ Lands(p, i.a.value, w)
  /\ Quiet

ST(p, i) ==
  /\ i.op = "ST"
  /\ \E d \in AddressOf(i.b), w \in ReadRegister(i.a.value) : Store(d, w)
  /\ I!Plain(p) /\ UNCHANGED registers /\ Quiet

JMP(p, i) ==
  /\ i.op = "JMP"
  /\ \E target \in Resolve(i.a) : I!Jump(p, target)
  /\ UNCHANGED core /\ Quiet

Taken(op, x) == CASE op = "TJZ" -> x = 0 [] op = "TJN" -> x < 0 [] op = "TJP" -> x > 0

Branch(p, i) ==
  /\ i.op \in Jumps
  /\ \E x \in ReadRegister(i.a.value), target \in Resolve(i.b) :
       IF Taken(i.op, x) THEN I!Jump(p, target) ELSE I!Plain(p)
  /\ UNCHANGED core /\ Quiet

HLT(p, i) == i.op = "HLT" /\ I!HLT(p) /\ UNCHANGED core /\ Quiet
EI(p, i)  == i.op = "EI" /\ I!SetEnable(p, TRUE) /\ UNCHANGED core /\ Quiet

FaultyDI(p, i) ==
  i.op = "DI" /\ I!SetEnable(I!NoIrq, FALSE) /\ UNCHANGED core /\ Quiet
DI(p, i)  == i.op = "DI" /\ I!SetEnable(p, FALSE) /\ UNCHANGED core /\ Quiet

IRQ(p, i) ==
  /\ i.op = "IRQ"
  /\ \E v \in Resolve(i.a) : I!IRQ(p, v)
  /\ UNCHANGED core /\ Quiet

IRET(p, i) == i.op = "IRET" /\ I!IRET(p) /\ UNCHANGED core /\ Quiet

-----------------------------------------------------------------------------
(* The I/O instructions.  Each leaves its status in A.                     *)
Status(s) == registers' = [registers EXCEPT ![REG_A] = s]

OnTerminal(i) == TerminalId \in devices /\ TerminalId \in Resolve(i.a)
OnFile(i)     == FileId \in devices /\ FileId \in Resolve(i.a)
OnNothing(i)  == \E id \in Resolve(i.a) : id \notin devices

IO(p) == I!Plain(p) /\ UNCHANGED Memories

NoDevice(p, i) ==
  /\ i.op \in {"TOPEN", "TREAD", "TWRITE", "TCLOSE"} /\ OnNothing(i)
  /\ Status(-1) /\ IO(p) /\ Quiet

TOPEN(p, i) ==
  /\ i.op = "TOPEN"
  /\ \E mode \in Resolve(i.b) :
       \/ OnTerminal(i) /\ T!terminal_open(mode) /\ Status(0) /\ UNCHANGED file
       \/ /\ OnFile(i) /\ F!file_open(mode)
          /\ Status(IF is_open' THEN 0 ELSE -1) /\ UNCHANGED terminal
  /\ IO(p)

(* A value read goes to the register first and the status to A after it; a *)
(* target that is no register has consumed the value all the same.         *)
FaultyDeliverValue(p, i, v) ==
  IF i.b.mode = "reg"
  THEN registers' = Assigned(i.b.value, v) /\ Lands(p, i.b.value, v)
  ELSE Status(-1) /\ IO(p)
DeliverValue(p, i, v) ==
  IF i.b.mode = "reg"
  THEN registers' = [Assigned(i.b.value, v) EXCEPT ![REG_A] = 0] /\ Lands(p, i.b.value, v)
  ELSE Status(-1) /\ IO(p)

TREAD(p, i) ==
  /\ i.op = "TREAD"
  /\ \/ /\ OnTerminal(i) /\ UNCHANGED file
        /\ \/ T!CanRead /\ LET v == T!CharValue(input[1])
                           IN  T!terminal_read(v) /\ DeliverValue(p, i, v)
           \/ ~T!CanRead /\ Status(-1) /\ IO(p) /\ UNCHANGED terminal
     \/ /\ OnFile(i) /\ UNCHANGED terminal
        /\ \/ F!Readable /\ LET r == F!ReadAt(disk, pos)
                            IN  r.ok /\ F!file_read(r.value) /\ DeliverValue(p, i, r.value)
           \/ F!file_read_fails /\ Status(-1) /\ IO(p)

TWRITE(p, i) ==
  /\ i.op = "TWRITE"
  /\ \E v \in Resolve(i.b) :
       \/ OnTerminal(i) /\ T!terminal_write(v) /\ Status(0) /\ UNCHANGED file
       \/ /\ OnFile(i) /\ UNCHANGED terminal
          /\ \/ F!file_write(v) /\ Status(0)
             \/ F!file_write_fails(v) /\ Status(-1)
  /\ IO(p)

(* A read that a device answers with a value.                              *)
Delivers(i) ==
  \/ OnTerminal(i) /\ T!CanRead
  \/ OnFile(i) /\ F!Readable /\ F!ReadAt(disk, pos).ok

(* The instruction writes in front of ternuino_t or behind data_mem.       *)
GoesWild(i) ==
  /\ \/ i.op \in Binary \cup Unary \cup Loads /\ ~DoesNothing(i)
     \/ i.op = "TREAD" /\ i.b.mode = "reg" /\ Delivers(i)
  /\ Target(i).value \notin Landing

FaultyTCLOSE(p, i) ==
  /\ i.op = "TCLOSE"
  /\ \/ OnTerminal(i) /\ T!terminal_close /\ Status(0) /\ UNCHANGED file
     \/ /\ OnFile(i) /\ UNCHANGED terminal
        /\ is_open' = FALSE /\ unflushed' = <<>> /\ Status(0)
        /\ UNCHANGED <<is_write_mode, exists, disk, pos, written, torn, lost>>
  /\ IO(p)
TCLOSE(p, i) ==
  /\ i.op = "TCLOSE"
  /\ \/ OnTerminal(i) /\ T!terminal_close /\ Status(0) /\ UNCHANGED file
     \/ /\ OnFile(i) /\ UNCHANGED terminal
        /\ \/ F!file_close /\ Status(0)
           \/ ~is_open /\ Status(-1) /\ UNCHANGED file
  /\ IO(p)

Execute(p, i) ==
  \/ NOP(p, i) \/ Compute(p, i) \/ ST(p, i)
  \/ JMP(p, i) \/ Branch(p, i) \/ HLT(p, i)
  \/ EI(p, i) \/ DI(p, i) \/ IRQ(p, i) \/ IRET(p, i)
  \/ TOPEN(p, i) \/ TREAD(p, i) \/ TWRITE(p, i) \/ TCLOSE(p, i) \/ NoDevice(p, i)

-----------------------------------------------------------------------------
(* ternuino_run: step and tick until a step has cleared running; then the  *)
(* clean up of run_program_file closes the devices.                        *)
Stepping == phase = "step" /\ running

(* The instruction the step is about to execute.                           *)
Current == memory[I!Here]
Fetched == I!Here \in Slots /\ Current # Empty

ternuino_step ==
  /\ Stepping
  /\ \E p \in I!Vectors \cup {I!NoIrq} :
       /\ I!Polled(p)
       /\ \/ OutOfBounds(p)
          \/ EmptySlot(p)
          \/ Fetched /\ ~GoesWild(Current) /\ Execute(p, Current)
  /\ phase' = "tick"
  /\ UNCHANGED devices

(* The division instruction of the host faults and the process is killed.  *)
Trap ==
  /\ Stepping /\ Fetched /\ Traps(Current)
  /\ phase' = "trapped"
  /\ F!Kill
  /\ UNCHANGED <<core, devices, interrupt, terminal>>

(* Memory is overwritten that the model does not hold: the run is not      *)
(* followed any further.                                                   *)
Wild ==
  /\ Stepping /\ Fetched /\ GoesWild(Current)
  /\ phase' = "wild"
  /\ UNCHANGED <<core, devices, interrupt, terminal, file>>

(* Only the terminal's tick does anything.                                 *)
ternuino_tick_devices ==
  /\ phase = "tick"
  /\ IF TerminalId \in devices /\ T!Polls /\ tty # <<>>
     THEN T!terminal_tick
     ELSE UNCHANGED terminal
  /\ phase' = "step"
  /\ UNCHANGED <<core, devices, interrupt, file>>

(* device_cleanup of every device.                                         *)
FaultyCleanUp ==
  /\ phase = "step" /\ ~running
  /\ irq_enabled' = FALSE
  /\ UNCHANGED <<irq_pending, input_ready, input, tty, screen, typed, received>>
  /\ IF FileId \in devices /\ is_open THEN F!file_close ELSE UNCHANGED file
  /\ phase' = "done"
  /\ UNCHANGED <<core, devices, interrupt>>
CleanUp ==
  /\ phase = "step" /\ ~running
  /\ IF TerminalId \in devices THEN T!terminal_close ELSE UNCHANGED terminal
  /\ IF FileId \in devices /\ is_open THEN F!file_close ELSE UNCHANGED file
  /\ phase' = "done"
  /\ UNCHANGED <<core, devices, interrupt>>

Key(b) == T!Type(b) /\ UNCHANGED <<phase, core, devices, interrupt, file>>

Run == ternuino_step \/ Trap \/ Wild \/ ternuino_tick_devices \/ CleanUp

Next == Run \/ \E b \in Bytes : Key(b)

Spec == Init /\ [][Next]_vars

(* The loop of ternuino_run waits for nothing.                             *)
FairSpec == Spec /\ WF_vars(Run)

-----------------------------------------------------------------------------
Final == {"done", "trapped", "wild"}

(* The words stay words, an address stored to is inside data_mem or the    *)
(* slots, and what a stray store leaves in a slot is an instruction again. *)
TypeOK ==
  /\ phase \in {"step", "tick"} \cup Final
  /\ registers \in [Registers -> Word]
  /\ sp \in Word
  /\ data_mem \in [Addresses -> Word]
  /\ memory \in [Slots -> Instruction \cup {Empty}]
  /\ DOMAIN stray \subseteq SlotWords /\ \A d \in DOMAIN stray : stray[d] \in Word
  /\ devices \subseteq {TerminalId, FileId}

(* Every run is a behaviour of the interrupt protocol: the instructions    *)
(* and the devices move its flags only in the ways Interrupts allows, so   *)
(* what is proved there holds of every program.                            *)
ImplementsInterrupts == I!Spec

(* Every run uses the devices only in ways their modules allow.            *)
ImplementsTerminal == T!Spec
ImplementsFile     == F!Spec

(* A step of ternuino_step, as opposed to one of the keyboard.             *)
Steps(op) == Stepping /\ phase' = "tick" /\ Fetched /\ Current.op = op

(* The value a step took from a device, if it took one.                    *)
TakenValues ==
  (IF received' # received THEN {T!CharValue(input[1])} ELSE {}) \cup
  (IF pos' # pos /\ F!ReadAt(disk, pos).ok THEN {F!ReadAt(disk, pos).value} ELSE {})

(* TREAD leaves 0 in A exactly if it took a value from the terminal or the *)
(* file and was given a register for it, which then holds that value,      *)
(* unless it is A itself.  It leaves -1, and every other register as it    *)
(* was, if there was nothing to take; but also if the target is no         *)
(* register, and then a value may have been taken and be gone.             *)
TreadStatus ==
  [][Steps("TREAD") =>
       LET target == Current.b
           failed == registers' = [registers EXCEPT ![REG_A] = -1]
       IN  IF TakenValues = {} \/ target.mode # "reg" THEN failed
           ELSE /\ registers'[REG_A] = 0
                /\ target.value \in Registers \ {REG_A} =>
                     registers'[target.value] \in TakenValues
                /\ \A r \in Registers \ {REG_A, target.value} :
                     registers'[r] = registers[r]]_vars

-----------------------------------------------------------------------------
(* What the documentation says of the instructions and the code does not   *)
(* do.                                                                     *)

(* docs/book/05-architecture.md:101, "IRET - Return from interrupt".       *)
IretReturns ==
  [][Steps("IRET") /\ I!Inside => pc' = I!ReturnTo /\ ~in_interrupt']_vars

(* docs/book/05-architecture.md:127, "Interrupts can be nested with proper *)
(* stack management": inside a handler that has enabled interrupts again,  *)
(* an IRQ for an enabled vector is latched.                                *)
NestedRequestLatched ==
  [][Steps("IRQ") /\ I!Inside /\ I!Enabled =>
       \A v \in Resolve(Current.a) \cap I!Vectors :
         irq_table[v].enabled => pending_irq' = v]_vars
=============================================================================
