---------------------------- MODULE Instructions ----------------------------
(***************************************************************************)
(* The instructions of the CPU as ternuino.h declares them: what the       *)
(* assembler produces, the loader copies and ternuino_step executes.       *)
(***************************************************************************)
EXTENDS TernaryOps, Sequences

CONSTANTS MaxMemory, MaxData   \* the sizes of ternuino.h

Slots     == 0 .. MaxMemory - 1
Registers == 0 .. 2
Modes     == {"imm", "reg", "dir", "ind", "none"}

(* opcode_t, in order.                                                     *)
Opcodes ==
  <<"NOP", "MOV", "ADD", "SUB", "MUL", "DIV", "JMP", "HLT", "LEA", "LD", "ST",
    "TAND", "TOR", "TNOT", "NEG", "TSIGN", "TABS", "TSHL3", "TSHR3", "TCMPR",
    "TJZ", "TJN", "TJP", "TOPEN", "TREAD", "TWRITE", "TCLOSE", "IRQ", "IRET",
    "EI", "DI">>

OpcodeNames == {Opcodes[k] : k \in DOMAIN Opcodes}

(* An operand is its mode and the word its value union holds: a number, a  *)
(* register or an address.  Empty stands for a slot that is not valid.     *)
Operand     == [mode : Modes, value : Word]
Instruction == [op : OpcodeNames, a : Operand, b : Operand]
Unused      == [mode |-> "imm", value |-> 0]
Empty       == [op |-> "EMPTY", a |-> Unused, b |-> Unused]

(* ternuino_load_program into a CPU that ternuino_init has just cleared:   *)
(* its instruction memory, and its data memory of the given size.          *)
LoadedCode(code) == [s \in Slots |-> IF s < Len(code) THEN code[s + 1] ELSE Empty]
LoadedData(data, size) ==
  [d \in 0 .. size - 1 |-> IF d < Len(data) THEN data[d + 1] ELSE 0]
=============================================================================
