--------------------------- MODULE AssemblySource ---------------------------
(***************************************************************************)
(* The lines of an .asm file, after comments and blanks are gone, and what *)
(* each is by itself: the part of assembler.c that both its passes and the *)
(* translation they compute rest on.  A line is a label, possibly absent,  *)
(* a directive or mnemonic, possibly absent, and the tokens behind it.     *)
(***************************************************************************)
EXTENDS Instructions

CONSTANTS
  Texts,      \* what labels and operands may be spelled as
  Literals,   \* the texts that are registers, registers in brackets or numbers
  Others      \* first tokens that are neither mnemonic nor directive

None       == ""
Directives == {".data", ".text", ".word", ".zero"}

Line == [label : Texts \cup {None},
         op    : OpcodeNames \cup Directives \cup Others \cup {None},
         args  : Seq(Texts)]

ASSUME SourceAssumption ==
  /\ DOMAIN Literals \subseteq Texts /\ None \notin Texts
  /\ \A t \in DOMAIN Literals : Literals[t] \in [mode : {"imm", "reg", "ind"}, value : Word]
  /\ Others \cap (OpcodeNames \cup Directives \cup {None}) = {}

(* A register, a register in brackets, or a number.                        *)
IsLiteral(text) == text \in DOMAIN Literals

(* The address a label reference holds until the label is resolved.        *)
Unresolved == [mode |-> "dir", value |-> -1]

(* parse_operand_with_labels: a text that is a register or a number is     *)
(* never taken for a label, even where a label is spelled like it.         *)
parse_operand(text) == IF IsLiteral(text) THEN Literals[text] ELSE Unresolved

(* The number of operands of an opcode; further tokens are ignored.        *)
Arity(op) ==
  CASE op \in {"NOP", "HLT", "IRET", "EI", "DI"} -> 0
    [] op \in {"TNOT", "NEG", "TSIGN", "TABS", "TSHL3", "TSHR3", "JMP", "IRQ", "TCLOSE"} -> 1
    [] OTHER -> 2

IsInstruction(line) == line.op \in OpcodeNames /\ Len(line.args) >= Arity(line.op)

IsSection(line) == line.op \in {".data", ".text"} /\ line.args = <<>>

(* The instruction of a line, its label references unresolved.             *)
Parsed(line) ==
  LET operand(n) == IF Arity(line.op) >= n THEN parse_operand(line.args[n]) ELSE Unused
  IN  [op |-> line.op, a |-> operand(1), b |-> operand(2)]

(* .word and .zero take one integer, .zero one that is not negative.       *)
IsInteger(line) ==
  /\ Len(line.args) = 1
  /\ IsLiteral(line.args[1]) /\ Literals[line.args[1]].mode = "imm"
IntegerOf(line) == Literals[line.args[1]].value

IsData(line) ==
  /\ line.op \in {".word", ".zero"} /\ IsInteger(line)
  /\ line.op = ".zero" => IntegerOf(line) >= 0

(* The words a data directive asks for.                                    *)
WordsOf(line) ==
  IF line.op = ".word" THEN <<IntegerOf(line)>> ELSE [k \in 1 .. IntegerOf(line) |-> 0]
=============================================================================
