---------------------------- MODULE Translation ----------------------------
(***************************************************************************)
(* What assembler_parse_file promises, without its passes and tables: the  *)
(* program a source file stands for, defined line by line from the file    *)
(* alone, and one step that answers with it or with a refusal.             *)
(***************************************************************************)
EXTENDS AssemblySource, FiniteSets

CONSTANT MaxLabels

VARIABLES source, result

(* A data section reaches from a .data to the next .text.                  *)
InData(k) ==
  \E i \in 1 .. k - 1 :
    /\ IsSection(source[i]) /\ source[i].op = ".data"
    /\ \A j \in i + 1 .. k - 1 : ~(IsSection(source[j]) /\ source[j].op = ".text")

(* The lines with an instruction, and those before one.                    *)
CodeLines        == {k \in DOMAIN source : ~InData(k) /\ IsInstruction(source[k])}
CodeBefore(k)    == {i \in CodeLines : i < k}
AddressOfLine(k) == Cardinality(CodeBefore(k))

(* The lines that count: those behind a full instruction memory do not.    *)
Counted == {k \in DOMAIN source : AddressOfLine(k) < MaxMemory}

DataLines == {k \in Counted : InData(k) /\ IsData(source[k])}
Labelled(text) == {k \in Counted : source[k].label = text /\ ~InData(k)}

(* An operand stands for itself, or for the address of the line its label  *)
(* is on: the number of instructions before that line.                     *)
Denoted(text) ==
  IF IsLiteral(text) THEN Literals[text]
  ELSE [mode |-> "dir", value |-> AddressOfLine(CHOOSE k \in Labelled(text) : TRUE)]

InstructionOf(line) ==
  LET operand(n) == IF Arity(line.op) >= n THEN Denoted(line.args[n]) ELSE Unused
  IN  [op |-> line.op, a |-> operand(1), b |-> operand(2)]

(* The program: the instruction at an address is that of the line with so  *)
(* many before it.                                                         *)
LineOf(address) == CHOOSE k \in CodeLines : AddressOfLine(k) = address
Code == [i \in 1 .. Cardinality(CodeLines \cap Counted) |-> InstructionOf(source[LineOf(i - 1)])]

(* The data image: the words of the data lines, one after the other.       *)
DataUpTo[k \in 0 .. Len(source)] ==
  IF k = 0 THEN <<>>
  ELSE IF k \in DataLines THEN DataUpTo[k - 1] \o WordsOf(source[k]) ELSE DataUpTo[k - 1]
Data == DataUpTo[Len(source)]

(* A reference needs a label in the code; labels of data do not serve.     *)
References ==
  (UNION {{source[k].args[n] : n \in 1 .. Arity(source[k].op)} : k \in CodeLines \cap Counted})
    \ DOMAIN Literals

WellFormed ==
  LET labelled == {k \in Counted : source[k].label # None}
  IN  /\ \A k \in Counted : \/ source[k].op = None
                            \/ IsSection(source[k])
                            \/ k \in CodeLines \cup DataLines
      /\ Cardinality(labelled) <= MaxLabels
      /\ \A i, j \in labelled :
           source[i].label = source[j].label /\ (InData(i) <=> InData(j)) => i = j
      /\ Len(Data) <= MaxData
      /\ \A text \in References : Labelled(text) # {}

-----------------------------------------------------------------------------
Answer(status, code, data) == [status |-> status, code |-> code, data |-> data]

Init == source \in Seq(Line) /\ result = Answer("pending", <<>>, <<>>)

Assemble ==
  /\ result.status = "pending"
  /\ result' = IF WellFormed THEN Answer("assembled", Code, Data) ELSE Answer("refused", <<>>, <<>>)
  /\ UNCHANGED source

Next == Assemble

(* Nothing but the right answer, and an answer in the end.                 *)
Safe == Init /\ [][Next]_<<source, result>>
Spec == Safe /\ <>(result.status # "pending")
=============================================================================
