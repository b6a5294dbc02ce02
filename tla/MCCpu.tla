------------------------------- MODULE MCCpu -------------------------------
(***************************************************************************)
(* Programs for Cpu.  An assembly line is written as it would be in a .asm *)
(* file: op, then operands.                                                *)
(***************************************************************************)
EXTENDS Cpu

Imm(n) == [mode |-> "imm", value |-> n]
Ind(r) == [mode |-> "ind", value |-> r]
Lbl(n) == [mode |-> "dir", value |-> n]
A == [mode |-> "reg", value |-> 0]
B == [mode |-> "reg", value |-> 1]
C == [mode |-> "reg", value |-> 2]

Op0(op)       == [op |-> op, a |-> Unused, b |-> Unused]
Op1(op, a)    == [op |-> op, a |-> a, b |-> Unused]
Op2(op, a, b) == [op |-> op, a |-> a, b |-> b]

Code(code) == [code |-> code, data |-> <<>>]

MCHandlers == [d \in {0, 1} |-> IF d = 0 THEN MaxMemory - 2 ELSE MaxMemory - 1]
Both       == {{0, 1}}
AnyDevices == SUBSET {0, 1}
MCGarbage  == {5}
OneKey     == {7}
NoFile     == {}
MCPadding  == {0}

-----------------------------------------------------------------------------
(* A loop that opens the terminal or lowers the stack pointer and then     *)
(* does any two of the things a program can do to the terminal and to the  *)
(* interrupt system, with a handler for each device in the last two slots. *)
LowerStack == Op2("MOV", Imm(SpAt), Imm(0))
Protocol ==
  {Op0("EI"), Op0("DI"), Op0("IRET"), LowerStack, Op1("IRQ", Imm(1)),
   Op2("TREAD", Imm(0), B), Op1("TCLOSE", Imm(0)), Op1("JMP", Lbl(MaxMemory - 1))}

ProtocolPrograms ==
  {Code(<<Op0("EI"), x, y, z, Op1("JMP", Lbl(1)), handler, Op0("IRET")>>) :
     x \in {Op2("TOPEN", Imm(0), Imm(2)), LowerStack}, y, z \in Protocol,
     handler \in {Op0("IRET"), Op2("TREAD", Imm(0), C)}}

-----------------------------------------------------------------------------
(* A program that polls the terminal and echoes what it reads, jumping by  *)
(* label and by number.                                                    *)
PollPrograms ==
  {Code(<<Op2("TOPEN", Imm(0), Imm(2)), Op2("TREAD", Imm(0), B), Op2("TJN", A, target),
          Op2("TWRITE", Imm(0), B), Op1("JMP", target)>>) : target \in {Lbl(1), Imm(1)}}

(* Programs that wait for a key in a loop which enables interrupts, and    *)
(* may disable them, in each round.                                        *)
Waiting == {Op0("EI"), Op0("DI"), Op0("NOP"), Op1("IRQ", Imm(9)), Op2("TWRITE", Imm(0), Imm(7))}
WaitPrograms ==
  {Code(<<Op0("EI"), Op2("TOPEN", Imm(0), Imm(2)), w[1], w[2], Op1("JMP", Lbl(2))>>) :
     w \in {u \in Waiting \X Waiting : Op0("EI") \in {u[1], u[2]}}}

-----------------------------------------------------------------------------
(* Every operation on pairs of words from the edges of their range, and    *)
(* memory accesses through every mode.                                     *)
Pairs == {<<WordMin, -1>>, <<WordMax, 3>>, <<-7, 0>>, <<-7, 3>>}
Words == {WordMin, -7, 0, WordMax}

ComputePrograms ==
  {Code(<<Op2("MOV", A, Imm(w[1])), Op2("MOV", B, Imm(w[2])), Op2(op, A, B)>>) :
     w \in Pairs, op \in Binary}
  \cup {Code(<<Op2("MOV", A, Imm(x)), Op1(un, A)>>) : x \in Words, un \in Unary}

MemoryPrograms ==
  {[code |-> <<Op2("MOV", B, Imm(x[1])), Op2(op, A, o), Op2("ST", B, o), x[2], Op0("HLT")>>,
    data |-> <<9, -4, 2>>] :
     op \in Loads, o \in {Imm(8), Imm(-3), B, Ind(1), Lbl(2)},
     x \in {<<-7, Op2("TJZ", A, Imm(9))>>, <<-7, Op2("TJN", A, Imm(-1))>>, <<3, Op2("TJP", A, Imm(4))>>}}

(* Operands the assembler accepts and no instruction expects: numbers for  *)
(* registers, of every part of ternuino_t and beyond its ends, and reads   *)
(* into A or into no register.                                             *)
Numbers == {-1, PcAt, SpAt, FlagsAt, SlotsAt, 24, 25, 26, 29, DataAt, DataAt + 6, DataAt + DmemSize}

OddPrograms ==
  {Code(<<Op0("EI"), Op2("MOV", Imm(n), Imm(x)), Op1("IRQ", Imm(1)), Op0("NOP"), Op0("HLT"),
          Op0("NOP"), Op0("IRET")>>) : n \in Numbers, x \in {-1, 0, 1, 6}}
  \cup {Code(<<Op2("ADD", B, Imm(n)), Op2("SUB", Imm(n), B)>>) : n \in Numbers}
  \cup {Code(<<Op2("TOPEN", Imm(0), Imm(0)), Op2("TREAD", Imm(0), o), Op2("TREAD", Imm(0), o),
               Op2("TWRITE", Imm(0), Imm(-9)), Op2("LEA", C, Ind(0))>>) :
          o \in {A, Imm(0), Imm(8), Ind(2)}}

(* Stores that land in the last instruction of a full memory.              *)
StrayStores ==
  {Code(<<Op2("MOV", A, Imm(x)), Op2("ST", A, Imm(d)), Op2("MOV", B, Imm(2)),
          Op2("LD", C, Imm(d)), Op1("TSIGN", C), Op0("NOP"), Op2("MOV", C, B)>>) :
     x \in Words \cup {6, 30}, d \in -6 .. -1}

-----------------------------------------------------------------------------
(* Files: opens in both modes, writes, reads and closes in many orders.     *)
FileInstrs ==
  {Op2("TOPEN", Imm(1), Imm(0)), Op2("TOPEN", Imm(1), Imm(1)), Op2("TWRITE", Imm(1), Imm(4)),
   Op2("TREAD", Imm(1), A), Op2("TREAD", Imm(1), C), Op2("TREAD", Imm(1), Imm(2)),
   Op1("TCLOSE", Imm(1))}

FilePrograms ==
  {Code(<<w[1], w[2], x, y>>) :
     w \in {<<Op2("TOPEN", Imm(1), Imm(0)), Op2("TREAD", Imm(1), C)>>,
            <<Op2("TOPEN", Imm(1), Imm(1)), Op2("TWRITE", Imm(1), Imm(4))>>},
     x, y \in FileInstrs}

LongFile == {[k \in 1 .. 21 |-> 1]}

-----------------------------------------------------------------------------
(* All of these, and what each kind promises.                              *)
AllPrograms ==
  ProtocolPrograms \cup PollPrograms \cup WaitPrograms \cup ComputePrograms
  \cup MemoryPrograms \cup OddPrograms \cup StrayStores \cup FilePrograms

Runs(programs) == \E p \in programs : memory = LoadedCode(p.code)

HasTerminal == TerminalId \in devices

(* The instruction in slot s may go back to an earlier one: a jump not to  *)
(* a number behind it, or a write to pc; or a handler may be entered again *)
(* and again, once the stack pointer or the flags are written over.        *)
MayGoBack(s) ==
  LET i    == memory[s]
      Back(o) == ~(o.mode = "imm" /\ o.value \notin 0 .. s)
  IN  \/ i.op = "JMP" /\ Back(i.a)
      \/ i.op \in Jumps /\ Back(i.b)
      \/ i.op \in Binary \cup Unary \cup Loads /\ i.a.value \in PcAt .. FlagsAt
      \/ i.op = "TREAD" /\ i.b.value \in PcAt .. FlagsAt

(* A program comes to an end, whatever it does with the devices and its    *)
(* own memory and whatever is typed meanwhile, unless it has, or makes by  *)
(* a store, an instruction that may go back.                               *)
Halts == <>(phase \in Final \/ \E s \in Slots : MayGoBack(s))

(* With a polling program every byte typed reaches the program.            *)
EveryKeyIsRead ==
  \A n \in 1 .. MaxKeys :
    (HasTerminal /\ Runs(PollPrograms) /\ Len(typed) >= n) ~> (Len(received) >= n)

(* A program that has the terminal open and enables interrupts in each     *)
(* round of its loop enters the handler after a key press, also if the     *)
(* round disables them again or asks for other interrupts.                 *)
KeyEntersHandler == (HasTerminal /\ Runs(WaitPrograms) /\ typed # <<>>) ~> in_interrupt

-----------------------------------------------------------------------------
(* Programs the documentation and the demos lead one to write.             *)

(* A handler for IRQ 1 that returns.                                       *)
ReturningHandler ==
  {Code(<<Op0("EI"), Op1("IRQ", Imm(1)), Op0("NOP"), Op0("NOP"), Op0("NOP"), Op0("HLT"),
          Op0("IRET")>>)}

(* A handler for IRQ 1 that enables interrupts and asks for IRQ 0.         *)
NestingHandler ==
  {Code(<<Op0("EI"), Op1("IRQ", Imm(1)), Op0("HLT"), Op0("EI"), Op1("IRQ", Imm(0)),
          Op0("HLT"), Op1("JMP", Imm(3))>>)}
=============================================================================
