-------------------------- MODULE AssemblerProofs --------------------------
(***************************************************************************)
(* Theorems about Assembler, for every set of source files, every spelling *)
(* of labels and numbers and any size of the tables, as long as the table  *)
(* of references holds two for each instruction: what the tables hold, and *)
(* that the assembler computes Translation.                                *)
(***************************************************************************)
EXTENDS Assembler, CodecProofs, FiniteSetTheorems

(* The table of references never overflows: what is in it is at most two   *)
(* for each instruction.                                                   *)
TableSuffices == Len(unresolved_refs) <= 2 * Len(program)

(* A label of the code is an address of the program or the one behind it,  *)
(* and inside the instruction memory.                                      *)
Lands(address) == address \in Slots /\ address <= Len(program)
CodeLabelsLand ==
  \A j \in DOMAIN labels : ~labels[j].is_data_label => Lands(labels[j].address)

(* An address in the program is a hole or was taken from such a label.     *)
AddressesLand ==
  \A k \in DOMAIN program, n \in {1, 2} :
    OperandAt(k, n).mode = "dir" =>
      OperandAt(k, n) = Unresolved \/ Lands(OperandAt(k, n).value)

(* The second pass starts from the first reference and ends at the last.   *)
PassesInOrder ==
  /\ phase = "read" => resolved = 0 /\ success
  /\ phase = "done" => resolved = Len(unresolved_refs) /\ success

(* HolesRecorded, operand by operand.                                      *)
IsHole(k, n) == OperandAt(k, n) = Unresolved
HolesHaveRefs ==
  \A k \in DOMAIN program, n \in {1, 2} :
    IsHole(k, n) => \E i \in DOMAIN unresolved_refs : IsFor(i, k, n) /\ (i <= resolved => ~success)
RefsHaveHoles ==
  \A i \in DOMAIN unresolved_refs :
    \E k \in DOMAIN program, n \in {1, 2} : IsFor(i, k, n) /\ (i > resolved => IsHole(k, n))
RefsDiffer ==
  \A i, j \in DOMAIN unresolved_refs :
    /\ unresolved_refs[i].instruction_address = unresolved_refs[j].instruction_address
    /\ unresolved_refs[i].operand_number = unresolved_refs[j].operand_number
    => i = j

IInv ==
  /\ TypeOK
  /\ HolesHaveRefs /\ RefsHaveHoles /\ RefsDiffer
  /\ TableSuffices /\ CodeLabelsLand /\ AddressesLand /\ PassesInOrder

-----------------------------------------------------------------------------
(* What a line stands for.                                                 *)
LEMMA OperandTypes ==
  /\ Unused \in Operand /\ Unused.mode # "dir"
  /\ Unresolved \in Operand /\ Unresolved.mode = "dir" /\ Unresolved.value = -1
  BY WordAssumption DEF Unused, Unresolved, Operand, Modes, Word, WordMin

LEMMA ParsedOperand ==
  ASSUME NEW text \in Texts
  PROVE  /\ parse_operand(text) \in Operand
         /\ parse_operand(text).mode = "dir" => parse_operand(text) = Unresolved
<1>1. CASE IsLiteral(text)
  <2>1. Literals[text] \in [mode : {"imm", "reg", "ind"}, value : Word]
    BY <1>1, SourceAssumption DEF IsLiteral
  <2> QED  BY <1>1, <2>1 DEF parse_operand, Operand, Modes
<1>2. CASE ~IsLiteral(text)
  BY <1>2, OperandTypes DEF parse_operand
<1> QED  BY <1>1, <1>2

LEMMA Arities == ASSUME NEW op PROVE Arity(op) \in {0, 1, 2}
  BY DEF Arity

OperandOf(instruction, n) == IF n = 1 THEN instruction.a ELSE instruction.b

LEMMA ParsedLine ==
  ASSUME NEW line \in Line, IsInstruction(line)
  PROVE  /\ Parsed(line) \in Instruction
         /\ \A n \in {1, 2} :
              /\ OperandOf(Parsed(line), n) =
                   IF Arity(line.op) >= n THEN parse_operand(line.args[n]) ELSE Unused
              /\ OperandOf(Parsed(line), n).mode = "dir" =>
                   OperandOf(Parsed(line), n) = Unresolved
<1> DEFINE operand(n) == IF Arity(line.op) >= n THEN parse_operand(line.args[n]) ELSE Unused
<1>1. \A n \in {1, 2} : Arity(line.op) >= n => line.args[n] \in Texts
  BY Arities DEF Line, IsInstruction
<1>2. \A n \in {1, 2} :
        operand(n) \in Operand /\ (operand(n).mode = "dir" => operand(n) = Unresolved)
  BY <1>1, ParsedOperand, OperandTypes
<1>3. Parsed(line) = [op |-> line.op, a |-> operand(1), b |-> operand(2)]
  BY DEF Parsed
<1>4. line.op \in OpcodeNames
  BY DEF IsInstruction
<1> HIDE DEF operand
<1>5. /\ Parsed(line) \in Instruction
      /\ Parsed(line).a = operand(1) /\ Parsed(line).b = operand(2)
  BY <1>2, <1>3, <1>4 DEF Instruction
<1>6. \A n \in {1, 2} : OperandOf(Parsed(line), n) = operand(n)
  BY <1>5 DEF OperandOf
<1> QED  BY <1>2, <1>5, <1>6 DEF operand

LEMMA Joined ==
  ASSUME NEW a \in Ref, NEW b \in Ref, NEW ab, ab = <<a>> \o <<b>>
  PROVE  ab \in Seq(Ref) /\ Len(ab) = 2 /\ ab[1] = a /\ ab[2] = b
  OBVIOUS

LEMMA JoinedToNone ==
  ASSUME NEW a \in Ref
  PROVE  <<a>> \o <<>> = <<a>> /\ <<>> \o <<a>> = <<a>>
  OBVIOUS

(* The references of a line: one for each operand that is a hole.          *)
LEMMA RefsOfLine ==
  ASSUME NEW line \in Line, IsInstruction(line), Len(program) \in Slots
  PROVE  /\ RefsOf(line) \in Seq(Ref) /\ Len(RefsOf(line)) <= 2
         /\ \A i \in DOMAIN RefsOf(line) :
              /\ RefsOf(line)[i].instruction_address = Len(program)
              /\ OperandOf(Parsed(line), RefsOf(line)[i].operand_number) = Unresolved
         /\ \A n \in {1, 2} :
              OperandOf(Parsed(line), n) = Unresolved =>
                \E i \in DOMAIN RefsOf(line) : RefsOf(line)[i].operand_number = n
         /\ \A i, j \in DOMAIN RefsOf(line) :
              RefsOf(line)[i].operand_number = RefsOf(line)[j].operand_number => i = j
<1> DEFINE hole(n) == OperandOf(Parsed(line), n) = Unresolved
<1> DEFINE ref(n) == [label_name |-> line.args[n], instruction_address |-> Len(program),
                      operand_number |-> n]
<1>1. \A n \in {1, 2} : Arity(line.op) >= n => line.args[n] \in Texts
  BY Arities DEF Line, IsInstruction
<1>2. \A n \in {1, 2} : hole(n) => Arity(line.op) >= n
  BY ParsedLine, OperandTypes
<1>3. \A n \in {1, 2} : RefOf(line, n) = IF hole(n) THEN <<ref(n)>> ELSE <<>>
  BY ParsedLine, <1>2 DEF RefOf
<1>4. \A n \in {1, 2} : hole(n) => ref(n) \in Ref
  BY <1>1, <1>2 DEF Ref
<1>5. \A n \in {1, 2} : ref(n).instruction_address = Len(program) /\ ref(n).operand_number = n
  OBVIOUS
<1> HIDE DEF ref, hole
<1>6. CASE hole(1) /\ hole(2)
  <2>1. /\ RefsOf(line) \in Seq(Ref) /\ Len(RefsOf(line)) = 2
        /\ RefsOf(line)[1] = ref(1) /\ RefsOf(line)[2] = ref(2)
    <3>1. RefsOf(line) = <<ref(1)>> \o <<ref(2)>>
      BY <1>3, <1>6 DEF RefsOf
    <3>2. ref(1) \in Ref /\ ref(2) \in Ref
      BY <1>4, <1>6
    <3> HIDE DEF RefsOf
    <3> QED  BY <3>1, <3>2, Joined
  <2> QED  BY <2>1, <1>4, <1>5, <1>6 DEF hole
<1>7. CASE hole(1) /\ ~hole(2)
  <2>1. RefsOf(line) = <<ref(1)>>
    BY <1>3, <1>4, <1>7, JoinedToNone DEF RefsOf
  <2> QED  BY <2>1, <1>4, <1>5, <1>7 DEF hole
<1>8. CASE ~hole(1) /\ hole(2)
  <2>1. RefsOf(line) = <<ref(2)>>
    BY <1>3, <1>4, <1>8, JoinedToNone DEF RefsOf
  <2> QED  BY <2>1, <1>4, <1>5, <1>8 DEF hole
<1>9. CASE ~hole(1) /\ ~hole(2)
  <2>1. RefsOf(line) = <<>>
    BY <1>3, <1>9 DEF RefsOf
  <2> QED  BY <2>1, <1>9 DEF hole
<1> QED  BY <1>6, <1>7, <1>8, <1>9

LEMMA DataWords ==
  ASSUME NEW line \in Line, IsData(line)
  PROVE  WordsOf(line) \in Seq(Word) /\ Len(WordsOf(line)) \in Nat
<1>1. IntegerOf(line) \in Word
  BY SourceAssumption DEF IsData, IsInteger, IntegerOf, IsLiteral
<1>2. 0 \in Word /\ Word \subseteq Int
  BY WordAssumption DEF Word, WordMin
<1>3. CASE line.op = ".word"
  BY <1>1, <1>3 DEF WordsOf
<1>4. CASE line.op # ".word"
  <2>3. IntegerOf(line) >= 0
    BY <1>4 DEF IsData
  <2>1. IntegerOf(line) \in Nat
    BY <1>1, <2>3, WordAssumption DEF Word, WordMin
  <2>2. WordsOf(line) = [k \in 1 .. IntegerOf(line) |-> 0]
    BY <1>4 DEF WordsOf
  <2> QED  BY <2>1, <2>2, <1>2
<1> QED  BY <1>3, <1>4

-----------------------------------------------------------------------------
(* The parts of the invariant that speak of the program and the references *)
(* to it.                                                                  *)
CodeInv ==
  /\ program \in Seq(Instruction) /\ Len(program) <= MaxMemory
  /\ unresolved_refs \in Seq(Ref) /\ Len(unresolved_refs) <= MaxUnresolvedRefs
  /\ resolved \in 0 .. Len(unresolved_refs) /\ success \in BOOLEAN
  /\ HolesHaveRefs /\ RefsHaveHoles /\ RefsDiffer
  /\ TableSuffices /\ AddressesLand

LEMMA InitInv == Init => IInv
<1> SUFFICES ASSUME Init PROVE IInv
  OBVIOUS
<1>1. source \in Seq(Line) /\ Len(source) \in Nat
  BY AssemblerAssumption DEF Init
<1>2. TypeOK
  <2>1. /\ labels \in Seq(Label) /\ data_image \in Seq(Word)
        /\ unresolved_refs \in Seq(Ref) /\ program \in Seq(Instruction)
    BY DEF Init
  <2>2. /\ Len(labels) = 0 /\ Len(data_image) = 0
        /\ Len(unresolved_refs) = 0 /\ Len(program) = 0
    BY DEF Init
  <2>3. labels \in Seq(Label) /\ Len(labels) <= MaxLabels
    BY <2>1, <2>2, AssemblerAssumption
  <2>4. data_image \in Seq(Word) /\ Len(data_image) <= MaxData
    BY <2>1, <2>2, AssemblerAssumption
  <2>5. unresolved_refs \in Seq(Ref) /\ Len(unresolved_refs) <= MaxUnresolvedRefs
    BY <2>1, <2>2, AssemblerAssumption
  <2>6. program \in Seq(Instruction) /\ Len(program) <= MaxMemory
    BY <2>1, <2>2, AssemblerAssumption
  <2>7. /\ phase \in {"read", "resolve", "done", "failed"} /\ success \in BOOLEAN
        /\ in_data_section \in BOOLEAN
    BY DEF Init
  <2>8. next \in 0 .. Len(source) /\ resolved \in 0 .. Len(unresolved_refs)
    BY <1>1, <2>2 DEF Init
  <2> QED  BY <1>1, <2>3, <2>4, <2>5, <2>6, <2>7, <2>8, Zenon DEF TypeOK
<1>3. DOMAIN program = {} /\ DOMAIN unresolved_refs = {} /\ DOMAIN labels = {}
  BY DEF Init
<1>4. HolesHaveRefs /\ RefsHaveHoles /\ RefsDiffer /\ CodeLabelsLand /\ AddressesLand
  BY <1>3 DEF HolesHaveRefs, RefsHaveHoles, RefsDiffer, CodeLabelsLand, AddressesLand
<1>5. TableSuffices /\ PassesInOrder
  BY DEF Init, TableSuffices, PassesInOrder
<1> QED  BY <1>2, <1>4, <1>5 DEF IInv

LEMMA SameCode ==
  ASSUME IInv, UNCHANGED <<program, unresolved_refs, resolved, success>> PROVE CodeInv'
  BY DEF IInv, TypeOK, CodeInv, HolesHaveRefs, RefsHaveHoles, RefsDiffer, IsHole, IsFor,
         OperandAt, TableSuffices, AddressesLand, Lands

(* A label that is added is an address where the next instruction goes.    *)
LEMMA AddedLabel ==
  ASSUME IInv, Len(program) < MaxMemory, NEW name \in Texts \cup {None}, add_label(name),
         program' \in Seq(Instruction), Len(program') >= Len(program)
  PROVE  labels' \in Seq(Label) /\ Len(labels') <= MaxLabels /\ CodeLabelsLand'
<1>1. /\ Len(program) \in Nat /\ Len(data_image) \in Nat /\ Len(labels) \in Nat
      /\ Len(program') \in Nat
  BY DEF IInv, TypeOK
<1>4. \A a : Lands(a) => Lands(a)'
  BY <1>1, AssemblerAssumption DEF Lands, Slots
<1>2. CASE name = None
  BY <1>1, <1>2, <1>4 DEF add_label, IInv, TypeOK, CodeLabelsLand
<1>3. CASE name # None
  <2> DEFINE new == [name |-> name, address |-> Address, is_data_label |-> in_data_section]
  <2>1. new \in Label
    BY <1>1, <1>3 DEF Address, Label, IInv, TypeOK
  <2>2. labels' = Append(labels, new)
    BY <1>3 DEF add_label
  <2>3. ~new.is_data_label => Lands(new.address)
    BY <1>1, AssemblerAssumption DEF Address, Lands, Slots
  <2>4. Len(labels) < MaxLabels
    BY <1>1, <1>3, AssemblerAssumption DEF add_label, Refused
  <2> HIDE DEF new
  <2>5. labels' \in Seq(Label) /\ Len(labels') = Len(labels) + 1
    BY <2>1, <2>2 DEF IInv, TypeOK
  <2>6. \A j \in DOMAIN labels' : ~labels'[j].is_data_label => Lands(labels'[j].address)
    BY <1>1, <2>1, <2>2, <2>3 DEF IInv, TypeOK, CodeLabelsLand
  <2>7. Len(labels') <= MaxLabels
    BY <1>1, <2>4, <2>5, AssemblerAssumption
  <2> QED  BY <1>4, <2>5, <2>6, <2>7 DEF CodeLabelsLand
<1> QED  BY <1>2, <1>3

(* What is there stays, and what is added comes behind it.                 *)
LEMMA Grown ==
  ASSUME NEW S, NEW s \in Seq(S), NEW t \in Seq(S), NEW st, st = s \o t
  PROVE  /\ st \in Seq(S) /\ Len(st) = Len(s) + Len(t)
         /\ \A i \in DOMAIN s : i \in DOMAIN st /\ st[i] = s[i]
         /\ \A i \in DOMAIN t : i + Len(s) \in DOMAIN st /\ st[i + Len(s)] = t[i]
         /\ \A i \in DOMAIN st : i \in DOMAIN s \/ (i - Len(s) \in DOMAIN t /\ i > Len(s))
  OBVIOUS

(* The table of references has room for those of a line.                   *)
LEMMA AllRecorded ==
  ASSUME IInv, Len(program) < MaxMemory, NEW line \in Line, IsInstruction(line)
  PROVE  Recorded(RefsOf(line)) = unresolved_refs \o RefsOf(line)
<1>1. PICK refs : refs = RefsOf(line)
  OBVIOUS
<1>2. Len(program) \in Slots
  BY AssemblerAssumption DEF IInv, TypeOK, Slots
<1>3. refs \in Seq(Ref) /\ Len(refs) <= 2
  BY <1>1, <1>2, RefsOfLine
<1>4. PICK was \in Nat, here \in Nat, new \in Nat :
        was = Len(unresolved_refs) /\ here = Len(program) /\ new = Len(refs)
  BY <1>3 DEF IInv, TypeOK
<1>5. Len(unresolved_refs \o refs) = was + new
  BY <1>3, <1>4 DEF IInv, TypeOK
<1>6. Len(unresolved_refs \o refs) <= MaxUnresolvedRefs
  BY <1>3, <1>4, <1>5, AssemblerAssumption DEF IInv, TableSuffices
<1> QED  BY <1>1, <1>6 DEF Recorded

(* An instruction and its references, in the first pass.                   *)
LEMMA ParsedInstruction ==
  ASSUME IInv, phase = "read", Len(program) < MaxMemory,
         NEW line \in Line, IsInstruction(line),
         program' = Append(program, Parsed(line)),
         unresolved_refs' = Recorded(RefsOf(line)),
         UNCHANGED <<resolved, success>>
  PROVE  CodeInv'
<1>a. PICK refs : refs = RefsOf(line)
  OBVIOUS
<1>b. PICK here : here = Len(program) + 1
  OBVIOUS
<1>c. PICK was : was = Len(unresolved_refs)
  OBVIOUS
<1>1. /\ Len(program) \in Nat /\ was \in Nat /\ here \in Nat
      /\ Len(program) \in Slots /\ resolved = 0 /\ success
      /\ unresolved_refs \in Seq(Ref) /\ program \in Seq(Instruction)
  BY <1>b, <1>c, AssemblerAssumption DEF IInv, TypeOK, Slots, PassesInOrder
<1>2. /\ refs \in Seq(Ref) /\ Len(refs) <= 2 /\ Len(refs) \in Nat
      /\ \A i \in DOMAIN refs :
           /\ refs[i].instruction_address = Len(program)
           /\ OperandOf(Parsed(line), refs[i].operand_number) = Unresolved
      /\ \A n \in {1, 2} :
           OperandOf(Parsed(line), n) = Unresolved =>
             \E i \in DOMAIN refs : refs[i].operand_number = n
      /\ \A i, j \in DOMAIN refs : refs[i].operand_number = refs[j].operand_number => i = j
  BY <1>1, <1>a, RefsOfLine
<1>3. unresolved_refs' = unresolved_refs \o refs
  BY <1>a, AllRecorded
<1>4. /\ unresolved_refs' \in Seq(Ref) /\ Len(unresolved_refs') = was + Len(refs)
      /\ \A i \in DOMAIN unresolved_refs :
           i \in DOMAIN unresolved_refs' /\ unresolved_refs'[i] = unresolved_refs[i]
      /\ \A i \in DOMAIN refs :
           /\ i + was \in DOMAIN unresolved_refs'
           /\ unresolved_refs'[i + was] = refs[i]
      /\ \A i \in DOMAIN unresolved_refs' :
           i \in DOMAIN unresolved_refs \/ (i - was \in DOMAIN refs /\ i > was)
  BY <1>1, <1>2, <1>3, <1>c, Grown
<1>5. Parsed(line) \in Instruction
  BY ParsedLine
<1>6. /\ program' \in Seq(Instruction) /\ Len(program') = here
      /\ DOMAIN program' = DOMAIN program \cup {here} /\ here \notin DOMAIN program
      /\ \A k \in DOMAIN program : program'[k] = program[k]
      /\ program'[here] = Parsed(line)
  BY <1>1, <1>5, <1>b
<1>7. /\ \A k \in DOMAIN program, n \in {1, 2} : OperandAt(k, n)' = OperandAt(k, n)
      /\ \A n \in {1, 2} : OperandAt(here, n)' = OperandOf(Parsed(line), n)
  BY <1>6 DEF OperandAt, OperandOf
<1>8. \A i \in DOMAIN unresolved_refs : \A k, n : IsFor(i, k, n) => IsFor(i, k, n)'
  BY <1>4 DEF IsFor
<1>9. \A i \in DOMAIN refs, n \in {1, 2} :
        refs[i].operand_number = n <=> IsFor(i + was, here, n)'
  BY <1>1, <1>2, <1>4, <1>b DEF IsFor
<1>10. HolesHaveRefs'
  <2> SUFFICES ASSUME NEW k \in DOMAIN program', NEW n \in {1, 2}, IsHole(k, n)'
               PROVE  \E i \in DOMAIN unresolved_refs' :
                        IsFor(i, k, n)' /\ (i <= resolved' => ~success')
    BY DEF HolesHaveRefs
  <2>1. \A i \in DOMAIN unresolved_refs' : ~(i <= resolved')
    BY <1>1, <1>4
  <2>2. CASE k \in DOMAIN program
    BY <1>4, <1>7, <1>8, <2>1, <2>2 DEF IInv, HolesHaveRefs, IsHole
  <2>3. CASE k = here
    BY <1>2, <1>4, <1>7, <1>9, <2>1, <2>3 DEF IsHole
  <2> QED  BY <1>6, <2>2, <2>3
<1>11. RefsHaveHoles'
  <2> SUFFICES ASSUME NEW i \in DOMAIN unresolved_refs'
               PROVE  \E k \in DOMAIN program', n \in {1, 2} : IsFor(i, k, n)' /\ IsHole(k, n)'
    BY DEF RefsHaveHoles
  <2>1. CASE i \in DOMAIN unresolved_refs
    <3>1. i > resolved
      BY <1>1, <2>1
    <3> QED  BY <1>6, <1>7, <1>8, <2>1, <3>1 DEF IInv, RefsHaveHoles, IsHole
  <2>2. CASE i - was \in DOMAIN refs
    <3> DEFINE r == refs[i - was]
    <3>4. r \in Ref
      BY <1>2, <2>2
    <3>1. r.operand_number \in {1, 2} /\ OperandOf(Parsed(line), r.operand_number) = Unresolved
      BY <1>2, <2>2, <3>4 DEF Ref
    <3>2. (i - was) + was = i
      BY <1>1, <1>4
    <3>3. IsFor(i, here, r.operand_number)'
      BY <1>9, <2>2, <3>1, <3>2
    <3> QED  BY <1>6, <1>7, <3>1, <3>3 DEF IsHole
  <2> QED  BY <1>4, <2>1, <2>2
<1>12. RefsDiffer'
  <2>1. \A i \in DOMAIN unresolved_refs : unresolved_refs[i].instruction_address # Len(program)
    BY <1>1 DEF IInv, RefsHaveHoles, IsFor
  <2>2. \A i \in DOMAIN unresolved_refs' :
          \/ i \in DOMAIN unresolved_refs /\ unresolved_refs'[i] = unresolved_refs[i]
          \/ /\ i - was \in DOMAIN refs
             /\ unresolved_refs'[i] = refs[i - was]
    <3> SUFFICES ASSUME NEW i \in DOMAIN unresolved_refs', i - was \in DOMAIN refs
                 PROVE  unresolved_refs'[i] = refs[i - was]
      BY <1>4
    <3>1. (i - was) + was = i
      BY <1>1, <1>4
    <3> QED  BY <1>4, <3>1
  <2>3. \A i, j \in DOMAIN unresolved_refs' : i - was = j - was => i = j
    BY <1>1, <1>4
  <2> SUFFICES ASSUME NEW i \in DOMAIN unresolved_refs', NEW j \in DOMAIN unresolved_refs',
                      unresolved_refs'[i].instruction_address = unresolved_refs'[j].instruction_address,
                      unresolved_refs'[i].operand_number = unresolved_refs'[j].operand_number
               PROVE  i = j
    BY DEF RefsDiffer
  <2>4. CASE i \in DOMAIN unresolved_refs /\ unresolved_refs'[i] = unresolved_refs[i]
    BY <1>2, <2>1, <2>2, <2>4 DEF IInv, RefsDiffer
  <2>5. CASE /\ i - was \in DOMAIN refs
             /\ unresolved_refs'[i] = refs[i - was]
    BY <1>2, <2>1, <2>2, <2>3, <2>5
  <2> QED  BY <2>2, <2>4, <2>5
<1>13. AddressesLand'
  <2> SUFFICES ASSUME NEW k \in DOMAIN program', NEW n \in {1, 2}, OperandAt(k, n).mode' = "dir"
               PROVE  OperandAt(k, n)' = Unresolved \/ Lands(OperandAt(k, n).value)'
    BY DEF AddressesLand
  <2>1. \A a : Lands(a) => Lands(a)'
    BY <1>1, <1>6, <1>b, AssemblerAssumption DEF Lands, Slots
  <2>2. CASE k \in DOMAIN program
    BY <1>7, <2>1, <2>2 DEF IInv, AddressesLand
  <2>3. CASE k = here
    BY <1>7, <2>3, ParsedLine
  <2> QED  BY <1>6, <2>2, <2>3
<1>14. TableSuffices'
  BY <1>1, <1>2, <1>4, <1>6, <1>b, <1>c DEF IInv, TableSuffices
<1>15. /\ Len(program') <= MaxMemory /\ Len(unresolved_refs') <= MaxUnresolvedRefs
       /\ resolved' \in 0 .. Len(unresolved_refs') /\ success' \in BOOLEAN
  BY <1>1, <1>2, <1>4, <1>6, <1>b, <1>c, AssemblerAssumption DEF IInv, TypeOK, TableSuffices
<1> QED  BY <1>4, <1>6, <1>10, <1>11, <1>12, <1>13, <1>14, <1>15 DEF CodeInv

-----------------------------------------------------------------------------
LEMMA ReadLineInv == ASSUME IInv, ReadLine PROVE IInv'
<1>1. /\ phase = "read" /\ next < Len(source) /\ Len(program) < MaxMemory
      /\ next' = next + 1 /\ UNCHANGED <<source, resolved, success>>
  BY DEF ReadLine, HasLine
<1>2. PICK line : line = source[next + 1]
  OBVIOUS
<1>3. line \in Line /\ line.label \in Texts \cup {None}
  <2>1. line \in Line
    BY <1>1, <1>2 DEF IInv, TypeOK
  <2> QED  BY <2>1 DEF Line
<1>4. add_label(line.label)
  BY <1>2 DEF ReadLine
<1>5. next' \in 0 .. Len(source')
  BY <1>1 DEF IInv, TypeOK
<1>6. ASSUME UNCHANGED <<program, unresolved_refs>>, phase' \in {"read", "failed"},
             data_image' \in Seq(Word), Len(data_image') <= MaxData, in_data_section' \in BOOLEAN
      PROVE  IInv'
  <2>1. CodeInv'
    BY <1>1, <1>6, SameCode
  <2>2. labels' \in Seq(Label) /\ Len(labels') <= MaxLabels /\ CodeLabelsLand'
    <3>1. program' \in Seq(Instruction) /\ Len(program') >= Len(program)
      BY <1>6 DEF IInv, TypeOK
    <3> QED  BY <1>1, <1>3, <1>4, <3>1, AddedLabel
  <2>3. PassesInOrder'
    BY <1>1, <1>6 DEF IInv, PassesInOrder
  <2> QED  BY <1>1, <1>5, <1>6, <2>1, <2>2, <2>3 DEF CodeInv, IInv, TypeOK
<1>7. CASE Blank(line)
  BY <1>1, <1>6, <1>7 DEF Blank, IInv, TypeOK
<1>8. CASE Section(line)
  BY <1>1, <1>6, <1>8 DEF Section, IInv, TypeOK
<1>9. CASE parse_data_directive(line)
  <2>1. WordsOf(line) \in Seq(Word) /\ data_image \in Seq(Word)
    BY <1>3, <1>9, DataWords DEF parse_data_directive, IInv, TypeOK
  <2>2. data_image' \in Seq(Word) /\ Len(data_image') = Len(data_image) + Len(WordsOf(line))
    BY <1>9, <2>1, Grown DEF parse_data_directive
  <2> QED  BY <1>1, <1>6, <1>9, <2>2 DEF parse_data_directive, Fits, IInv, TypeOK
<1>10. CASE Malformed(line)
  BY <1>6, <1>10 DEF Malformed, IInv, TypeOK
<1>11. CASE parse_instruction(line)
  <2>1. CodeInv'
    BY <1>1, <1>3, <1>11, ParsedInstruction DEF parse_instruction
  <2>2. labels' \in Seq(Label) /\ Len(labels') <= MaxLabels /\ CodeLabelsLand'
    <3>1. Parsed(line) \in Instruction
      BY <1>3, <1>11, ParsedLine DEF parse_instruction
    <3>2. program' \in Seq(Instruction) /\ Len(program') >= Len(program)
      BY <1>11, <3>1 DEF parse_instruction, IInv, TypeOK
    <3> QED  BY <1>1, <1>3, <1>4, <3>2, AddedLabel
  <2>3. PassesInOrder'
    BY <1>1, <1>11 DEF parse_instruction, IInv, PassesInOrder
  <2> QED  BY <1>1, <1>5, <1>11, <2>1, <2>2, <2>3
           DEF parse_instruction, CodeInv, IInv, TypeOK
<1> QED  BY <1>2, <1>7, <1>8, <1>9, <1>10, <1>11 DEF ReadLine

(* A step that leaves the tables alone and at most ends a pass.            *)
LEMMA PhaseInv ==
  ASSUME IInv, UNCHANGED <<source, asm, program, resolved, success>>,
         next' \in 0 .. Len(source), phase' \in {"read", "resolve", "done", "failed"},
         PassesInOrder'
  PROVE  IInv'
<1>1. CodeInv'
  BY SameCode DEF asm
<1> QED  BY <1>1 DEF asm, CodeInv, IInv, TypeOK, CodeLabelsLand, Lands

-----------------------------------------------------------------------------
(* The second pass: the hole of the next reference, and what resolve_labels *)
(* finds for it.                                                           *)
LEMMA NextHole ==
  ASSUME IInv, resolved < Len(unresolved_refs)
  PROVE  LET ref == unresolved_refs[resolved + 1]
         IN  /\ resolved + 1 \in DOMAIN unresolved_refs /\ ref \in Ref
             /\ ref.operand_number \in {1, 2}
             /\ ref.instruction_address + 1 \in DOMAIN program
             /\ IsFor(resolved + 1, ref.instruction_address + 1, ref.operand_number)
             /\ IsHole(ref.instruction_address + 1, ref.operand_number)
<1> DEFINE i == resolved + 1
<1>1. i \in DOMAIN unresolved_refs /\ unresolved_refs[i] \in Ref /\ i > resolved
  BY DEF IInv, TypeOK
<1> HIDE DEF i
<1>2. PICK k \in DOMAIN program, n \in {1, 2} : IsFor(i, k, n) /\ IsHole(k, n)
  BY <1>1 DEF IInv, RefsHaveHoles
<1>3. k \in Int
  BY DEF IInv, TypeOK
<1>4. unresolved_refs[i].operand_number = n /\ unresolved_refs[i].instruction_address + 1 = k
  BY <1>2, <1>3 DEF IsFor
<1> QED  BY <1>1, <1>2, <1>4 DEF i

LEMMA FoundLands ==
  ASSUME IInv, NEW name, Matches(name) # {}
  PROVE  Lands(Found(name).address) /\ Found(name).address \in Word
<1>1. Matches(name) \subseteq DOMAIN labels /\ DOMAIN labels \subseteq Nat
  BY DEF Matches, IInv, TypeOK
<1>2. PICK j \in Matches(name) : \A k \in Matches(name) : j <= k
  BY <1>1, LeastNatural
<1>3. PICK m \in Matches(name) : Found(name) = labels[m]
  BY <1>2 DEF Found
<1>4. Lands(labels[m].address)
  BY <1>3 DEF Matches, IInv, CodeLabelsLand
<1>5. Slots \subseteq Word
  BY AssemblerAssumption, WordAssumption DEF Slots, Word, WordMin
<1> QED  BY <1>3, <1>4, <1>5 DEF Lands

(* Filling a hole changes the value of one operand.                        *)
LEMMA PatchedOperand ==
  ASSUME IInv, NEW ref \in Ref, NEW k \in DOMAIN program, NEW n \in {1, 2}, NEW a \in Word,
         ref.instruction_address + 1 = k, ref.operand_number = n,
         a = Found(ref.label_name).address, program' = Patched(ref)
  PROVE  /\ program' \in Seq(Instruction) /\ Len(program') = Len(program)
         /\ DOMAIN program' = DOMAIN program
         /\ OperandAt(k, n)' = [OperandAt(k, n) EXCEPT !.value = a]
         /\ \A j \in DOMAIN program : program'[j].op = program[j].op
         /\ \A j \in DOMAIN program, m \in {1, 2} :
              j # k \/ m # n => OperandAt(j, m)' = OperandAt(j, m)
<1> DEFINE i == program[k]
<1>1. i \in Instruction /\ program \in Seq(Instruction)
  BY DEF IInv, TypeOK
<1>2. CASE n = 1
  <2> DEFINE new == [i EXCEPT !.a = [i.a EXCEPT !.value = a]]
  <2>1. program' = [program EXCEPT ![k] = new]
    BY <1>1, <1>2 DEF Patched
  <2>2. /\ new \in Instruction /\ new.op = i.op /\ new.b = i.b
        /\ new.a = [i.a EXCEPT !.value = a]
    BY <1>1 DEF Instruction, Operand
  <2> HIDE DEF new
  <2> QED  BY <1>1, <1>2, <2>1, <2>2 DEF OperandAt
<1>3. CASE n = 2
  <2> DEFINE new == [i EXCEPT !.b = [i.b EXCEPT !.value = a]]
  <2>1. program' = [program EXCEPT ![k] = new]
    <3>1. ref.operand_number # 1
      BY <1>3
    <3>2. Patched(ref) = [program EXCEPT ![k].b.value = a]
      BY <3>1 DEF Patched
    <3> QED  BY <1>1, <3>2
  <2>2. /\ new \in Instruction /\ new.op = i.op /\ new.a = i.a
        /\ new.b = [i.b EXCEPT !.value = a]
    BY <1>1 DEF Instruction, Operand
  <2> HIDE DEF new
  <2> QED  BY <1>1, <1>3, <2>1, <2>2 DEF OperandAt
<1> QED  BY <1>2, <1>3

LEMMA FilledHole ==
  ASSUME IInv, NEW k \in DOMAIN program, NEW n \in {1, 2}, NEW a \in Word, Lands(a),
         resolved < Len(unresolved_refs), IsFor(resolved + 1, k, n), IsHole(k, n),
         OperandAt(k, n)' = [OperandAt(k, n) EXCEPT !.value = a],
         program' \in Seq(Instruction), Len(program') = Len(program),
         DOMAIN program' = DOMAIN program,
         \A j \in DOMAIN program, m \in {1, 2} : j # k \/ m # n => OperandAt(j, m)' = OperandAt(j, m),
         resolved' = resolved + 1, UNCHANGED <<unresolved_refs, success>>
  PROVE  CodeInv'
<1>1. /\ resolved \in Nat /\ Len(unresolved_refs) \in Nat /\ DOMAIN unresolved_refs \subseteq Nat
      /\ resolved + 1 \in DOMAIN unresolved_refs
  BY DEF IInv, TypeOK
<1>2. OperandAt(k, n)' # Unresolved /\ OperandAt(k, n)'.value = a
  BY AssemblerAssumption DEF IsHole, Unresolved, Lands, Slots
<1>3. \A i, j, m : IsFor(i, j, m)' <=> IsFor(i, j, m)
  BY DEF IsFor
<1>4. \A j, m : IsFor(resolved + 1, j, m) => j - 1 = k - 1 /\ m = n
  BY DEF IsFor
<1>5. \A j \in DOMAIN program, m \in {1, 2} : IsHole(j, m)' => IsHole(j, m) /\ (j # k \/ m # n)
  BY <1>2 DEF IsHole
<1>6. HolesHaveRefs'
  <2> SUFFICES ASSUME NEW j \in DOMAIN program, NEW m \in {1, 2}, IsHole(j, m)'
               PROVE  \E i \in DOMAIN unresolved_refs :
                        IsFor(i, j, m) /\ (i <= resolved' => ~success)
    BY <1>3 DEF HolesHaveRefs
  <2>1. PICK i \in DOMAIN unresolved_refs : IsFor(i, j, m) /\ (i <= resolved => ~success)
    BY <1>5 DEF IInv, HolesHaveRefs
  <2>2. i # resolved + 1
    <3>1. j \in Int /\ k \in Int
      BY DEF IInv, TypeOK
    <3> QED  BY <1>4, <1>5, <2>1, <3>1
  <2> QED  BY <1>1, <2>1, <2>2
<1>7. RefsHaveHoles'
  <2> SUFFICES ASSUME NEW i \in DOMAIN unresolved_refs
               PROVE  \E j \in DOMAIN program, m \in {1, 2} :
                        IsFor(i, j, m) /\ (i > resolved' => IsHole(j, m)')
    BY <1>3 DEF RefsHaveHoles
  <2>1. PICK j \in DOMAIN program, m \in {1, 2} : IsFor(i, j, m) /\ (i > resolved => IsHole(j, m))
    BY DEF IInv, RefsHaveHoles
  <2>2. ASSUME i > resolved' PROVE IsHole(j, m)'
    <3>1. i # resolved + 1 /\ IsHole(j, m)
      BY <1>1, <2>1, <2>2
    <3>2. j # k \/ m # n
      BY <1>1, <2>1, <3>1 DEF IsFor, IInv, RefsDiffer
    <3> QED  BY <3>1, <3>2 DEF IsHole
  <2> QED  BY <2>1, <2>2
<1>8. RefsDiffer'
  BY DEF IInv, RefsDiffer
<1>9. AddressesLand'
  <2>1. \A b : Lands(b)' <=> Lands(b)
    BY DEF Lands
  <2> SUFFICES ASSUME NEW j \in DOMAIN program, NEW m \in {1, 2}, OperandAt(j, m).mode' = "dir"
               PROVE  OperandAt(j, m)' = Unresolved \/ Lands(OperandAt(j, m).value')
    BY <2>1 DEF AddressesLand
  <2> QED  BY <1>2 DEF IInv, AddressesLand
<1>10. TableSuffices'
  BY DEF IInv, TableSuffices
<1>11. resolved' \in 0 .. Len(unresolved_refs')
  BY <1>1
<1> QED  BY <1>6, <1>7, <1>8, <1>9, <1>10, <1>11 DEF IInv, TypeOK, CodeInv

(* A reference that fails leaves its hole, and the assembly has failed.    *)
LEMMA UnfilledHole ==
  ASSUME IInv, resolved < Len(unresolved_refs), resolved' = resolved + 1, success' = FALSE,
         UNCHANGED <<program, unresolved_refs>>
  PROVE  CodeInv'
<1>1. resolved \in Nat /\ Len(unresolved_refs) \in Nat /\ DOMAIN unresolved_refs \subseteq Nat
  BY DEF IInv, TypeOK
<1>2. HolesHaveRefs'
  BY DEF IInv, HolesHaveRefs, IsFor, IsHole, OperandAt
<1>3. RefsHaveHoles'
  BY <1>1 DEF IInv, RefsHaveHoles, IsFor, IsHole, OperandAt
<1>4. RefsDiffer' /\ TableSuffices' /\ AddressesLand'
  BY DEF IInv, RefsDiffer, TableSuffices, AddressesLand, OperandAt, Lands
<1>5. resolved' \in 0 .. Len(unresolved_refs')
  BY <1>1
<1>6. success' \in BOOLEAN
  OBVIOUS
<1> QED  BY <1>2, <1>3, <1>4, <1>5, <1>6 DEF IInv, TypeOK, CodeInv

LEMMA ResolveInv == ASSUME IInv, Resolve PROVE IInv'
<1> DEFINE ref == unresolved_refs[resolved + 1]
<1>1. /\ phase = "resolve" /\ resolved < Len(unresolved_refs) /\ resolved' = resolved + 1
      /\ UNCHANGED <<source, next, phase, asm>>
  BY DEF Resolve
<1>2. PICK k \in DOMAIN program, n \in {1, 2} :
        /\ ref \in Ref /\ ref.instruction_address + 1 = k /\ ref.operand_number = n
        /\ IsFor(resolved + 1, k, n) /\ IsHole(k, n)
  BY <1>1, NextHole
<1>3. CodeInv' /\ Len(program') = Len(program)
  <2>1. CASE Matches(ref.label_name) # {} /\ program' = Patched(ref) /\ UNCHANGED success
    <3>1. PICK a \in Word : a = Found(ref.label_name).address /\ Lands(a)
      BY <2>1, FoundLands
    <3> HIDE DEF ref
    <3>2. UNCHANGED <<unresolved_refs, success>>
      BY <1>1, <2>1 DEF asm
    <3>3. /\ program' \in Seq(Instruction) /\ Len(program') = Len(program)
          /\ DOMAIN program' = DOMAIN program
          /\ OperandAt(k, n)' = [OperandAt(k, n) EXCEPT !.value = a]
          /\ \A j \in DOMAIN program, m \in {1, 2} :
               j # k \/ m # n => OperandAt(j, m)' = OperandAt(j, m)
      BY <1>2, <2>1, <3>1, PatchedOperand
    <3> QED  BY <1>1, <1>2, <3>1, <3>2, <3>3, FilledHole
  <2>2. CASE success' = FALSE /\ UNCHANGED program
    BY <1>1, <2>2, UnfilledHole DEF asm
  <2> QED  BY <2>1, <2>2 DEF Resolve
<1> QED  BY <1>1, <1>3
         DEF asm, CodeInv, IInv, TypeOK, CodeLabelsLand, Lands, PassesInOrder

LEMMA NextInv == IInv /\ [Next]_vars => IInv'
<1> SUFFICES ASSUME IInv, [Next]_vars PROVE IInv'
  OBVIOUS
<1>1. CASE ReadLine
  BY <1>1, ReadLineInv
<1>2. CASE RefuseLabel
  <2>1. next' \in 0 .. Len(source) /\ PassesInOrder'
    BY <1>2 DEF RefuseLabel, HasLine, IInv, TypeOK, PassesInOrder
  <2> QED  BY <1>2, <2>1, PhaseInv DEF RefuseLabel
<1>3. CASE EndOfFile
  <2>1. next' \in 0 .. Len(source) /\ PassesInOrder'
    BY <1>3 DEF EndOfFile, IInv, TypeOK, PassesInOrder
  <2> QED  BY <1>3, <2>1, PhaseInv DEF EndOfFile
<1>4. CASE Resolve
  BY <1>4, ResolveInv
<1>5. CASE Finish
  <2>1. next' \in 0 .. Len(source)
    BY <1>5 DEF Finish, IInv, TypeOK
  <2>2. /\ phase' \in {"done", "failed"} /\ (phase' = "done" => success)
        /\ resolved = Len(unresolved_refs)
    BY <1>5 DEF Finish
  <2>3. PassesInOrder'
    BY <1>5, <2>2 DEF Finish, asm, PassesInOrder
  <2> QED  BY <1>5, <2>1, <2>2, <2>3, PhaseInv DEF Finish
<1>6. CASE UNCHANGED vars
  <2>1. next' \in 0 .. Len(source) /\ PassesInOrder' /\ phase' = phase
    BY <1>6 DEF vars, asm, IInv, TypeOK, PassesInOrder
  <2> QED  BY <1>6, <2>1, PhaseInv DEF vars, IInv, TypeOK
<1> QED  BY <1>1, <1>2, <1>3, <1>4, <1>5, <1>6 DEF Next

-----------------------------------------------------------------------------
(* The invariant holds, whatever the file.                                 *)
THEOREM Inductive == Spec => []IInv
  BY InitInv, NextInv, PTL DEF Spec

(* Every table keeps to its size, and what is in it has its type.          *)
THEOREM TypeCorrect == Spec => []TypeOK
  BY Inductive, PTL DEF IInv

(* An operand is a hole exactly while the table has the one reference for  *)
(* it that resolve_labels has not come to or has found undefined.          *)
THEOREM HolesAreRecorded == Spec => []HolesRecorded
<1>1. IInv => HolesRecorded
  <2> SUFFICES ASSUME IInv PROVE HolesRecorded
    OBVIOUS
  <2>1. \A h \in Holes : /\ h[1] \in DOMAIN program /\ h[2] \in {1, 2}
                         /\ IsHole(h[1], h[2])
    BY DEF Holes, IsHole
  <2>2. \A k \in DOMAIN program, n \in {1, 2} : IsHole(k, n) => <<k, n>> \in Holes
    BY DEF Holes, IsHole
  <2>3. \A i, j \in DOMAIN unresolved_refs : \A k, n : IsFor(i, k, n) /\ IsFor(j, k, n) => j = i
    BY DEF IInv, RefsDiffer, IsFor
  <2>4. \A h \in Holes : \E i \in DOMAIN unresolved_refs :
          IsFor(i, h[1], h[2]) /\ (i <= resolved => ~success)
    BY <2>1 DEF IInv, HolesHaveRefs
  <2>5. \A i \in DOMAIN unresolved_refs :
          \E k \in DOMAIN program, n \in {1, 2} :
            /\ IsFor(i, k, n)
            /\ i > resolved => <<k, n>> \in Holes
            /\ \A j \in DOMAIN unresolved_refs : IsFor(j, k, n) => j = i
    BY <2>2, <2>3 DEF IInv, RefsHaveHoles
  <2> QED  BY <2>4, <2>5 DEF HolesRecorded
<1> QED  BY <1>1, Inductive, PTL

(* No reference is ever dropped: the table is never full.                  *)
THEOREM ReferencesFit == Spec => []TableSuffices
  BY Inductive, PTL DEF IInv

(* A program that is loaded jumps to its own instructions, or to the empty *)
(* slot behind them inside the memory.                                     *)
THEOREM LoadedJumpsLand == Spec => []JumpsLand
<1>1. IInv => JumpsLand
  <2> SUFFICES ASSUME IInv, phase = "done", NEW k \in DOMAIN program, NEW n \in {1, 2},
                      OperandAt(k, n).mode = "dir"
               PROVE  Lands(OperandAt(k, n).value)
    BY DEF JumpsLand, Lands
  <2>1. resolved = Len(unresolved_refs) /\ success /\ unresolved_refs \in Seq(Ref)
    BY DEF IInv, PassesInOrder, TypeOK
  <2>2. ~IsHole(k, n)
    BY <2>1 DEF IInv, HolesHaveRefs
  <2> QED  BY <2>2 DEF IInv, AddressesLand, IsHole
<1> QED  BY <1>1, Inductive, PTL

(* Data and instructions are only added to, and of an instruction only an  *)
(* operand that is a hole changes.                                         *)
THEOREM OnlyHolesAreFilled == Spec => OnlyHolesFilled
<1> DEFINE Grows ==
      /\ Len(data_image') >= Len(data_image)
      /\ \A d \in DOMAIN data_image : data_image'[d] = data_image[d]
      /\ Len(program') >= Len(program)
      /\ \A k \in DOMAIN program :
           /\ program'[k].op = program[k].op
           /\ program'[k].a # program[k].a => <<k, 1>> \in Holes
           /\ program'[k].b # program[k].b => <<k, 2>> \in Holes
<1>1. IInv /\ [Next]_vars => [Grows]_vars
  <2> SUFFICES ASSUME IInv, Next PROVE Grows
    OBVIOUS
  <2>1. /\ data_image \in Seq(Word) /\ Len(data_image) \in Nat
        /\ program \in Seq(Instruction) /\ Len(program) \in Nat
    BY DEF IInv, TypeOK
  <2>2. ASSUME UNCHANGED <<data_image, program>> PROVE Grows
    BY <2>1, <2>2
  <2>3. CASE ReadLine
    <3>1. PICK line \in Line :
            \/ Blank(line) \/ Section(line) \/ parse_data_directive(line)
            \/ parse_instruction(line) \/ Malformed(line)
      <4>1. source[next + 1] \in Line
        BY <2>3 DEF ReadLine, HasLine, IInv, TypeOK
      <4> QED  BY <2>3, <4>1 DEF ReadLine
    <3>2. CASE Blank(line) \/ Section(line) \/ Malformed(line)
      BY <2>2, <3>2 DEF Blank, Section, Malformed
    <3>3. CASE parse_data_directive(line)
      <4>1. /\ WordsOf(line) \in Seq(Word) /\ data_image' = data_image \o WordsOf(line)
            /\ UNCHANGED program
        BY <3>3, DataWords DEF parse_data_directive
      <4> QED  BY <2>1, <4>1
    <3>4. CASE parse_instruction(line)
      <4>1. /\ Parsed(line) \in Instruction /\ program' = Append(program, Parsed(line))
            /\ UNCHANGED data_image
        BY <3>4, ParsedLine DEF parse_instruction
      <4> QED  BY <2>1, <4>1
    <3> QED  BY <3>1, <3>2, <3>3, <3>4
  <2>4. CASE Resolve
    <3> DEFINE ref == unresolved_refs[resolved + 1]
    <3>1. UNCHANGED data_image
      BY <2>4 DEF Resolve, asm
    <3>2. CASE UNCHANGED program
      BY <2>2, <3>1, <3>2
    <3>3. CASE Matches(ref.label_name) # {} /\ program' = Patched(ref)
      <4>1. PICK k \in DOMAIN program, n \in {1, 2} :
              /\ ref \in Ref /\ ref.instruction_address + 1 = k /\ ref.operand_number = n
              /\ IsHole(k, n)
        BY <2>4, NextHole DEF Resolve
      <4>2. PICK a \in Word : a = Found(ref.label_name).address
        BY <3>3, FoundLands
      <4> HIDE DEF ref
      <4>3. /\ Len(program') = Len(program)
            /\ \A j \in DOMAIN program : program'[j].op = program[j].op
            /\ \A j \in DOMAIN program, m \in {1, 2} :
                 j # k \/ m # n => OperandAt(j, m)' = OperandAt(j, m)
        BY <3>3, <4>1, <4>2, PatchedOperand
      <4>4. <<k, n>> \in Holes
        BY <4>1 DEF Holes, IsHole
      <4>5. \A j \in DOMAIN program :
              /\ program'[j].a # program[j].a => <<j, 1>> \in Holes
              /\ program'[j].b # program[j].b => <<j, 2>> \in Holes
        BY <4>3, <4>4 DEF OperandAt
      <4>6. Len(data_image') >= Len(data_image) /\ Len(program') >= Len(program)
        BY <2>1, <3>1, <4>3
      <4> QED  BY <3>1, <4>3, <4>5, <4>6
    <3> QED  BY <2>4, <3>2, <3>3 DEF Resolve
  <2>5. CASE RefuseLabel \/ EndOfFile \/ Finish
    BY <2>2, <2>5 DEF RefuseLabel, EndOfFile, Finish, asm
  <2> QED  BY <2>3, <2>4, <2>5 DEF Next
<1> QED  BY <1>1, Inductive, PTL DEF Spec, OnlyHolesFilled

-----------------------------------------------------------------------------
(***************************************************************************)
(* The assembler computes Translation.  While it reads, its tables are     *)
(* what Translation says of the lines read so far: Translated.             *)
(***************************************************************************)
(* What has been read of the file so far is what Translation says of these *)
(* lines, each of which counts and stands for something.                   *)
Accepted(k) ==
  \/ source[k].op = None
  \/ IsSection(source[k])
  \/ k \in Translation!CodeLines \cup Translation!DataLines

LinesRead ==
  /\ \A k \in 1 .. next : k \in Translation!Counted /\ Accepted(k)
  /\ in_data_section <=> Translation!InData(next + 1)
  /\ Len(program) = Translation!AddressOfLine(next + 1)
  /\ data_image = Translation!DataUpTo[next]

(* The label table has the labels of these lines, each once.               *)
HasLabel(k) == source[k].label # None
IsLabelOf(label, k) ==
  /\ HasLabel(k) /\ label.name = source[k].label
  /\ label.is_data_label <=> Translation!InData(k)
  /\ ~Translation!InData(k) => label.address = Translation!AddressOfLine(k)

LabelsDiffer(i, k) ==
  /\ HasLabel(i) /\ source[i].label = source[k].label
  /\ Translation!InData(i) <=> Translation!InData(k)
  => i = k

LabelsRead ==
  /\ \A j \in DOMAIN labels : \E k \in 1 .. next : IsLabelOf(labels[j], k)
  /\ \A k \in 1 .. next : HasLabel(k) => \E j \in DOMAIN labels : IsLabelOf(labels[j], k)
  /\ \A i, k \in 1 .. next : LabelsDiffer(i, k)
  /\ Len(labels) = Cardinality({k \in 1 .. next : HasLabel(k)})

(* The program has their instructions: an operand that refers to a label   *)
(* is a hole or denotes the address already.                               *)
Denotes(operand, k, n) ==
  LET text == source[k].args[n]
  IN  IF n > Arity(source[k].op) THEN operand = Unused
      ELSE IF IsLiteral(text) THEN operand = Literals[text]
      ELSE \/ operand = Unresolved
           \/ Translation!Labelled(text) # {} /\ operand = Translation!Denoted(text)

IsCodeOf(a, k) ==
  /\ program[a].op = source[k].op
  /\ \A n \in {1, 2} : Denotes(OperandAt(a, n), k, n)

CodeRead ==
  \A a \in DOMAIN program : \E k \in Translation!CodeLines :
    k <= next /\ Translation!AddressOfLine(k) = a - 1 /\ IsCodeOf(a, k)

(* The table of references has operands of these lines.                    *)
IsRefOf(ref, k) ==
  LET n == ref.operand_number
  IN  /\ ref.instruction_address = Translation!AddressOfLine(k)
      /\ n <= Arity(source[k].op)
      /\ ref.label_name = source[k].args[n] /\ ~IsLiteral(ref.label_name)

RefsRead ==
  \A i \in DOMAIN unresolved_refs : \E k \in Translation!CodeLines :
    k <= next /\ IsRefOf(unresolved_refs[i], k)

(* The second pass starts when all lines that count have been read, and    *)
(* fails only for a label that is not there.                               *)
AllRead == phase = "resolve" => Translation!Counted \subseteq 1 .. next
FailsRightly ==
  ~success => \E text \in Translation!References : Translation!Labelled(text) = {}

Translated ==
  phase \in {"read", "resolve"} =>
    LinesRead /\ LabelsRead /\ CodeRead /\ RefsRead /\ AllRead /\ FailsRightly

-----------------------------------------------------------------------------
(* Translation has the definitions of AssemblySource as its own; they are  *)
(* the same.                                                               *)
LEMMA SameLines ==
  /\ Translation!None = None /\ Translation!Unused = Unused
  /\ \A line : /\ Translation!IsSection(line) <=> IsSection(line)
               /\ Translation!IsInstruction(line) <=> IsInstruction(line)
               /\ Translation!IsData(line) <=> IsData(line)
               /\ Translation!WordsOf(line) = WordsOf(line)
  /\ \A op : Translation!Arity(op) = Arity(op)
  /\ \A text : Translation!IsLiteral(text) <=> IsLiteral(text)
  BY DEF Translation!None, None, Translation!Unused, Unused, Translation!IsSection, IsSection,
         Translation!IsInstruction, IsInstruction, Translation!OpcodeNames, OpcodeNames,
         Translation!Opcodes, Opcodes, Translation!IsData, IsData, Translation!IsInteger, IsInteger,
         Translation!IntegerOf, IntegerOf, Translation!WordsOf, WordsOf,
         Translation!Arity, Arity, Translation!IsLiteral, IsLiteral

LEMMA SameCardinality == \A S : Translation!Cardinality(S) = Cardinality(S)
  BY DEF Translation!Cardinality, Cardinality

LEMMA AddressIsCount ==
  ASSUME NEW k PROVE Translation!AddressOfLine(k) = Cardinality(Translation!CodeBefore(k))
  BY SameCardinality DEF Translation!AddressOfLine

LEMMA CodeOfLines ==
  \A k : k \in Translation!CodeLines
          <=> k \in DOMAIN source /\ ~Translation!InData(k) /\ IsInstruction(source[k])
  BY SameLines DEF Translation!CodeLines

LEMMA DataOfLines ==
  \A k : k \in Translation!DataLines
          <=> k \in Translation!Counted /\ Translation!InData(k) /\ IsData(source[k])
  BY SameLines DEF Translation!DataLines

(* Lines and the instructions before them.                                 *)
LEMMA LinesBefore ==
  ASSUME source \in Seq(Line), NEW k \in Nat
  PROVE  /\ IsFiniteSet(Translation!CodeBefore(k))
         /\ Translation!AddressOfLine(k) \in Nat
<1>1. Translation!CodeBefore(k) \in SUBSET (1 .. k)
  BY DEF Translation!CodeBefore, Translation!CodeLines
<1>2. IsFiniteSet(1 .. k)
  BY FS_Interval
<1>3. IsFiniteSet(Translation!CodeBefore(k))
  BY <1>1, <1>2, FS_Subset
<1> QED  BY <1>3, FS_CardinalityType, AddressIsCount

LEMMA FirstLine ==
  ASSUME source \in Seq(Line)
  PROVE  ~Translation!InData(1) /\ Translation!AddressOfLine(1) = 0
<1>1. ~Translation!InData(1)
  BY DEF Translation!InData
<1>2. Translation!CodeBefore(1) = {}
  BY DEF Translation!CodeBefore, Translation!CodeLines
<1> QED  BY <1>1, <1>2, FS_EmptySet, AddressIsCount

LEMMA NextLine ==
  ASSUME source \in Seq(Line), NEW k \in DOMAIN source
  PROVE  /\ Translation!InData(k + 1) <=>
              IF IsSection(source[k]) THEN source[k].op = ".data" ELSE Translation!InData(k)
         /\ Translation!AddressOfLine(k + 1) =
              Translation!AddressOfLine(k) + (IF k \in Translation!CodeLines THEN 1 ELSE 0)
<1>1. k \in Nat /\ k >= 1
  OBVIOUS
<1>2. Translation!InData(k + 1) <=>
        IF IsSection(source[k]) THEN source[k].op = ".data" ELSE Translation!InData(k)
  <2> DEFINE starts(i) == IsSection(source[i]) /\ source[i].op = ".data"
             ends(i)   == IsSection(source[i]) /\ source[i].op = ".text"
  <2>1. ~(starts(k) /\ ends(k)) /\ (IsSection(source[k]) => starts(k) \/ ends(k))
    BY DEF IsSection
  <2>2. Translation!InData(k)
          <=> \E i \in 1 .. k - 1 : starts(i) /\ \A j \in i + 1 .. k - 1 : ~ends(j)
    BY SameLines DEF Translation!InData
  <2>3. Translation!InData(k + 1)
          <=> \E i \in 1 .. (k + 1) - 1 : starts(i) /\ \A j \in i + 1 .. (k + 1) - 1 : ~ends(j)
    BY SameLines DEF Translation!InData
  <2> HIDE DEF starts, ends
  <2>4. (k + 1) - 1 = k /\ 1 .. k = (1 .. k - 1) \cup {k}
    BY <1>1
  <2>5. \A i \in 1 .. k - 1 : i + 1 .. k = (i + 1 .. k - 1) \cup {k}
    BY <1>1
  <2>6. k + 1 .. k = {}
    BY <1>1
  <2>7. Translation!InData(k + 1) <=> starts(k) \/ (Translation!InData(k) /\ ~ends(k))
    BY <2>2, <2>3, <2>4, <2>5, <2>6
  <2>8. starts(k) => IsSection(source[k]) /\ source[k].op = ".data"
    BY DEF starts
  <2>9. ends(k) => IsSection(source[k]) /\ source[k].op # ".data"
    BY DEF ends
  <2> QED  BY <2>1, <2>7, <2>8, <2>9
<1>3. Translation!CodeBefore(k + 1) =
        IF k \in Translation!CodeLines THEN Translation!CodeBefore(k) \cup {k}
        ELSE Translation!CodeBefore(k)
  BY <1>1 DEF Translation!CodeBefore, Translation!CodeLines
<1>4. k \notin Translation!CodeBefore(k)
  BY <1>1 DEF Translation!CodeBefore
<1>5. Translation!AddressOfLine(k + 1) =
        Translation!AddressOfLine(k) + (IF k \in Translation!CodeLines THEN 1 ELSE 0)
  <2>1. CASE k \in Translation!CodeLines
    <3>1. PICK before : before = Translation!CodeBefore(k)
      OBVIOUS
    <3>2. Cardinality(before \cup {k}) = Cardinality(before) + 1
      BY <1>1, <1>4, <3>1, LinesBefore, FS_AddElement
    <3>3. Translation!AddressOfLine(k) = Cardinality(before)
      BY <3>1, AddressIsCount
    <3>4. Translation!AddressOfLine(k + 1) = Cardinality(before \cup {k})
      BY <1>3, <2>1, <3>1, AddressIsCount
    <3> QED  BY <2>1, <3>2, <3>3, <3>4
  <2>2. CASE k \notin Translation!CodeLines
    BY <1>1, <1>3, <2>2, LinesBefore, AddressIsCount
  <2> QED  BY <2>1, <2>2
<1> QED  BY <1>2, <1>5

(* Addresses grow with the lines, and each instruction has its own.        *)
LEMMA AddressesGrow ==
  ASSUME source \in Seq(Line), NEW i \in Nat, NEW k \in Nat, i <= k
  PROVE  Translation!AddressOfLine(i) <= Translation!AddressOfLine(k)
<1>1. Translation!CodeBefore(i) \in SUBSET Translation!CodeBefore(k)
  BY DEF Translation!CodeBefore, Translation!CodeLines
<1>2. Cardinality(Translation!CodeBefore(i)) <= Cardinality(Translation!CodeBefore(k))
  BY <1>1, LinesBefore, FS_Subset
<1> QED  BY <1>2, AddressIsCount

LEMMA OwnAddress ==
  ASSUME source \in Seq(Line), NEW i \in Translation!CodeLines, NEW k \in Nat, i < k
  PROVE  Translation!AddressOfLine(i) < Translation!AddressOfLine(k)
<1>1. i \in Nat /\ i \in DOMAIN source
  BY DEF Translation!CodeLines
<1>2. Translation!AddressOfLine(i + 1) = Translation!AddressOfLine(i) + 1
  BY <1>1, NextLine
<1>3. Translation!AddressOfLine(i + 1) <= Translation!AddressOfLine(k)
  BY <1>1, AddressesGrow
<1> QED  BY <1>1, <1>2, <1>3, LinesBefore

LEMMA OneLine ==
  ASSUME source \in Seq(Line), NEW i \in Translation!CodeLines, NEW k \in Translation!CodeLines,
         Translation!AddressOfLine(i) = Translation!AddressOfLine(k)
  PROVE  i = k
<1>1. i \in Nat /\ k \in Nat
  BY DEF Translation!CodeLines
<1>2. ~(i < k) /\ ~(k < i)
  BY <1>1, OwnAddress, LinesBefore
<1> QED  BY <1>1, <1>2

(* Lines before one that counts count too.                                 *)
LEMMA CountedIsPrefix ==
  ASSUME source \in Seq(Line), NEW k \in Translation!Counted, NEW i \in 1 .. k
  PROVE  i \in Translation!Counted
<1>1. k \in Nat /\ i \in Nat /\ i <= k /\ i \in DOMAIN source
  BY DEF Translation!Counted
<1>2. Translation!AddressOfLine(i) <= Translation!AddressOfLine(k)
  BY <1>1, AddressesGrow
<1> QED  BY <1>1, <1>2, LinesBefore, AssemblerAssumption DEF Translation!Counted

(* The data image grows with the lines.                                    *)
LEMMA DataDefined ==
  ASSUME source \in Seq(Line)
  PROVE  /\ Translation!DataUpTo[0] = <<>>
         /\ \A k \in 1 .. Len(source) : Translation!DataUpTo[k] =
              IF k \in Translation!DataLines THEN Translation!DataUpTo[k - 1] \o WordsOf(source[k])
              ELSE Translation!DataUpTo[k - 1]
         /\ \A k \in 0 .. Len(source) : Translation!DataUpTo[k] \in Seq(Word)
<1>1. PICK n \in Nat : n = Len(source)
  OBVIOUS
<1>2. PICK V : V = Seq(Word)
  OBVIOUS
<1>3. PICK e : e = <<>> /\ e \in V
  <2>1. <<>> \in V
    BY <1>2
  <2> QED  BY <2>1
<1>4. PICK step : step = [p \in (1 .. n) \X V |->
                            IF p[1] \in Translation!DataLines THEN p[2] \o WordsOf(source[p[1]])
                            ELSE p[2]]
  OBVIOUS
<1>5. \A i \in 1 .. n, b \in V :
        step[<<i, b>>] = IF i \in Translation!DataLines THEN b \o WordsOf(source[i]) ELSE b
  BY <1>4
<1>6. \A i \in 1 .. n, b \in V : i \in Translation!DataLines => b \o WordsOf(source[i]) \in V
  <2> SUFFICES ASSUME NEW i \in 1 .. n, NEW b \in V, i \in Translation!DataLines
               PROVE  b \o WordsOf(source[i]) \in V
    OBVIOUS
  <2>1. source[i] \in Line /\ IsData(source[i])
    BY <1>1, DataOfLines
  <2>2. WordsOf(source[i]) \in Seq(Word)
    BY <2>1, DataWords
  <2> QED  BY <1>2, <2>2, Grown
<1>7. step \in [(1 .. n) \X V -> V]
  BY <1>4, <1>6
<1>8. PICK g : Runs(g, n, V, e, step)
  BY <1>3, <1>7, FollowsExists
<1> DEFINE upTo == CHOOSE f : f = [k \in 0 .. n |->
                      IF k = 0 THEN <<>>
                      ELSE IF k \in Translation!DataLines THEN f[k - 1] \o WordsOf(source[k])
                           ELSE f[k - 1]]
<1>9. g = [k \in 0 .. n |->
             IF k = 0 THEN <<>>
             ELSE IF k \in Translation!DataLines THEN g[k - 1] \o WordsOf(source[k])
                  ELSE g[k - 1]]
  <2>1. DOMAIN g = 0 .. n /\ g[0] = <<>> /\ g = [k \in 0 .. n |-> g[k]]
    BY <1>3, <1>8 DEF Runs
  <2>2. ASSUME NEW k \in 1 .. n
        PROVE  g[k] = IF k \in Translation!DataLines THEN g[k - 1] \o WordsOf(source[k])
                      ELSE g[k - 1]
    <3>1. k - 1 \in 0 .. n
      OBVIOUS
    <3>2. g[k - 1] \in V /\ g[k] = step[<<k, g[k - 1]>>]
      BY <1>8, <3>1 DEF Runs
    <3> QED  BY <1>5, <3>2
  <2>3. \A k \in 0 .. n : k # 0 => k \in 1 .. n
    OBVIOUS
  <2>4. \A k \in 0 .. n : g[k] = IF k = 0 THEN <<>>
             ELSE IF k \in Translation!DataLines THEN g[k - 1] \o WordsOf(source[k])
                  ELSE g[k - 1]
    BY <2>1, <2>2, <2>3, Zenon
  <2> QED  BY <2>1, <2>4
<1>10. upTo = [k \in 0 .. n |->
             IF k = 0 THEN <<>>
             ELSE IF k \in Translation!DataLines THEN upTo[k - 1] \o WordsOf(source[k])
                  ELSE upTo[k - 1]]
  BY <1>9
<1>11. Translation!DataUpTo = upTo
  BY <1>1, SameLines DEF Translation!DataUpTo
<1> HIDE DEF upTo
<1>12. PICK f : f = upTo
  OBVIOUS
<1>13. f = [k \in 0 .. n |->
             IF k = 0 THEN <<>>
             ELSE IF k \in Translation!DataLines THEN f[k - 1] \o WordsOf(source[k])
                  ELSE f[k - 1]]
  BY <1>10, <1>12
<1>14. DOMAIN f = 0 .. n /\ f[0] = <<>>
  BY <1>13
<1>15. \A k \in 1 .. n :
         f[k] = IF k \in Translation!DataLines THEN f[k - 1] \o WordsOf(source[k]) ELSE f[k - 1]
  <2> SUFFICES ASSUME NEW k \in 1 .. n
               PROVE  f[k] = IF k \in Translation!DataLines THEN f[k - 1] \o WordsOf(source[k])
                             ELSE f[k - 1]
    OBVIOUS
  <2>1. k \in 0 .. n /\ k # 0
    OBVIOUS
  <2> QED  BY <1>13, <2>1, Zenon
<1>16. \A k \in 1 .. n : f[k - 1] \in V => f[k] = step[<<k, f[k - 1]>>]
  BY <1>5, <1>15
<1>17. Follows(f, n, V, e, step)
  BY <1>3, <1>14, <1>16 DEF Follows
<1>18. \A k \in 0 .. n : f[k] \in V
  BY <1>3, <1>7, <1>17, FollowsTyped
<1>19. f = Translation!DataUpTo
  BY <1>11, <1>12
<1> QED  BY <1>1, <1>2, <1>14, <1>15, <1>18, <1>19

(* It only grows, and not behind the last line that counts.                *)
LEMMA DataGrows ==
  ASSUME source \in Seq(Line), NEW k \in 0 .. Len(source)
  PROVE  /\ Len(Translation!DataUpTo[k]) <= Len(Translation!Data)
         /\ Translation!Counted \subseteq 1 .. k => Translation!Data = Translation!DataUpTo[k]
<1>1. PICK n \in Nat : n = Len(source)
  OBVIOUS
<1>2. PICK f : f = Translation!DataUpTo
  OBVIOUS
<1>3. /\ \A i \in 1 .. n : \/ i \in Translation!DataLines /\ f[i] = f[i - 1] \o WordsOf(source[i])
                           \/ i \notin Translation!DataLines /\ f[i] = f[i - 1]
      /\ \A i \in 0 .. n : f[i] \in Seq(Word)
  BY <1>1, <1>2, DataDefined
<1> DEFINE Reaches(i) == /\ Len(f[k]) <= Len(f[i])
                         /\ Translation!Counted \subseteq 1 .. k => f[i] = f[k]
           S == {d \in Nat : k + d <= n => Reaches(k + d)}
<1>4. Len(f[k]) \in Nat
  BY <1>1, <1>3
<1>5. 0 \in S
  BY <1>4
<1>6. ASSUME NEW d \in Nat, d \in S PROVE d + 1 \in S
  <2> SUFFICES ASSUME k + (d + 1) <= n PROVE Reaches(k + (d + 1))
    OBVIOUS
  <2>1. PICK i \in 1 .. n : i = k + (d + 1) /\ i - 1 = k + d /\ i - 1 \in 0 .. n
    BY <1>1
  <2>2. Reaches(i - 1)
    BY <1>6, <2>1
  <2>3. CASE i \in Translation!DataLines /\ f[i] = f[i - 1] \o WordsOf(source[i])
    <3>1. i \in Translation!Counted /\ i \notin 1 .. k
      BY <2>1, <2>3, DataOfLines
    <3>2. WordsOf(source[i]) \in Seq(Word)
      <4>1. source[i] \in Line
        BY <1>1, <2>1
      <4> QED  BY <2>3, <4>1, DataOfLines, DataWords
    <3>3. Len(f[i]) = Len(f[i - 1]) + Len(WordsOf(source[i]))
      BY <1>3, <2>1, <2>3, <3>2, Grown
    <3>4. Len(f[i - 1]) \in Nat /\ Len(WordsOf(source[i])) \in Nat
      BY <1>3, <2>1, <3>2
    <3>5. Len(f[k]) <= Len(f[i])
      <4>1. PICK x \in Nat, y \in Nat, z \in Nat :
              x = Len(f[k]) /\ y = Len(f[i - 1]) /\ z = Len(WordsOf(source[i]))
        BY <1>4, <3>4
      <4>2. x <= y
        BY <2>2, <4>1
      <4>3. Len(f[i]) = y + z
        BY <3>3, <4>1
      <4>4. x <= y + z
        BY <4>2
      <4> QED  BY <4>1, <4>3, <4>4
    <3> QED  BY <2>1, <3>1, <3>5
  <2>4. CASE f[i] = f[i - 1]
    BY <2>1, <2>2, <2>4
  <2> QED  BY <1>3, <2>1, <2>3, <2>4
<1>7. \A d \in Nat : d \in S
  <2> HIDE DEF S
  <2> QED  BY <1>5, <1>6, SetInduction
<1>8. PICK d \in Nat : k + d = n
  <2>1. n - k \in Nat /\ k + (n - k) = n
    BY <1>1
  <2> QED  BY <2>1
<1>9. Reaches(n)
  <2>1. d \in S /\ k + d <= n
    BY <1>7, <1>8
  <2>2. Reaches(k + d)
    BY <2>1
  <2> QED  BY <1>8, <2>2
<1> QED  BY <1>1, <1>2, <1>9 DEF Translation!Data

-----------------------------------------------------------------------------
(* What a file stands for does not change while it is read.                *)
LEMMA FileStays ==
  ASSUME UNCHANGED source
  PROVE  /\ UNCHANGED <<Translation!Counted, Translation!CodeLines, Translation!DataLines,
                        Translation!References, Translation!DataUpTo>>
         /\ \A k : /\ Translation!InData(k)' <=> Translation!InData(k)
                   /\ Translation!AddressOfLine(k)' = Translation!AddressOfLine(k)
                   /\ Accepted(k)' <=> Accepted(k)
                   /\ HasLabel(k)' <=> HasLabel(k)
         /\ \A text : /\ Translation!Labelled(text)' = Translation!Labelled(text)
                      /\ Translation!Denoted(text)' = Translation!Denoted(text)
<1>1. \A k : Translation!InData(k)' <=> Translation!InData(k)
  BY DEF Translation!InData
<1>2. UNCHANGED Translation!CodeLines
  BY <1>1 DEF Translation!CodeLines
<1>3. \A k : Translation!AddressOfLine(k)' = Translation!AddressOfLine(k)
  BY <1>2 DEF Translation!AddressOfLine, Translation!CodeBefore
<1>4. UNCHANGED Translation!Counted
  BY <1>3 DEF Translation!Counted
<1>5. UNCHANGED Translation!DataLines
  BY <1>1, <1>4 DEF Translation!DataLines
<1>6. UNCHANGED Translation!References
  BY <1>2, <1>4 DEF Translation!References
<1>7. UNCHANGED Translation!DataUpTo
  BY <1>5 DEF Translation!DataUpTo
<1>8. \A k : (Accepted(k)' <=> Accepted(k)) /\ (HasLabel(k)' <=> HasLabel(k))
  BY <1>2, <1>5 DEF Accepted, HasLabel
<1>9. \A text : Translation!Labelled(text)' = Translation!Labelled(text)
  BY <1>1, <1>4 DEF Translation!Labelled
<1>10. \A text : Translation!Denoted(text)' = Translation!Denoted(text)
  BY <1>3, <1>9 DEF Translation!Denoted
<1> QED  BY <1>1, <1>2, <1>3, <1>4, <1>5, <1>6, <1>7, <1>8, <1>9, <1>10

(* The kinds of a line exclude each other.                                 *)
LEMMA KindsDiffer ==
  ASSUME NEW line
  PROVE  /\ line.op = None => ~IsSection(line) /\ ~IsData(line) /\ ~IsInstruction(line)
         /\ IsSection(line) => ~IsData(line) /\ ~IsInstruction(line)
<1> DEFINE names == {"NOP", "MOV", "ADD", "SUB", "MUL", "DIV", "JMP", "HLT", "LEA", "LD", "ST",
                     "TAND", "TOR", "TNOT", "NEG", "TSIGN", "TABS", "TSHL3", "TSHR3", "TCMPR",
                     "TJZ", "TJN", "TJP", "TOPEN", "TREAD", "TWRITE", "TCLOSE", "IRQ", "IRET",
                     "EI", "DI"}
<1>1. Opcodes \in Seq(names)
  BY DEF Opcodes
<1>2. None \notin names /\ ".data" \notin names /\ ".text" \notin names
  BY DEF None
<1> HIDE DEF names
<1>3. OpcodeNames \subseteq names
  BY <1>1 DEF OpcodeNames
<1>4. None \notin OpcodeNames /\ ".data" \notin OpcodeNames /\ ".text" \notin OpcodeNames
  BY <1>2, <1>3
<1> QED  BY <1>4 DEF IsSection, IsData, IsInstruction, None

(* The next line counts, and stands where the assembler takes it to stand. *)
LEMMA LineAhead ==
  ASSUME IInv, Translated, phase = "read", HasLine
  PROVE  /\ next \in Nat /\ next + 1 \in DOMAIN source /\ next + 1 \in 1 .. Len(source)
         /\ next \in 0 .. Len(source)
         /\ source \in Seq(Line) /\ source[next + 1] \in Line
         /\ in_data_section \in BOOLEAN
         /\ in_data_section <=> Translation!InData(next + 1)
         /\ Len(program) = Translation!AddressOfLine(next + 1)
         /\ next + 1 \in Translation!Counted
         /\ 1 .. next + 1 = (1 .. next) \cup {next + 1} /\ next + 1 \notin 1 .. next
<1>1. /\ next \in Nat /\ next + 1 \in DOMAIN source /\ next + 1 \in 1 .. Len(source)
      /\ next \in 0 .. Len(source)
      /\ source \in Seq(Line) /\ source[next + 1] \in Line
      /\ in_data_section \in BOOLEAN /\ Len(program) < MaxMemory
  BY DEF HasLine, IInv, TypeOK
<1>2. /\ in_data_section <=> Translation!InData(next + 1)
      /\ Len(program) = Translation!AddressOfLine(next + 1)
  BY DEF Translated, LinesRead
<1>3. next + 1 \in Translation!Counted
  BY <1>1, <1>2 DEF Translation!Counted
<1>4. 1 .. next + 1 = (1 .. next) \cup {next + 1} /\ next + 1 \notin 1 .. next
  BY <1>1
<1> QED  BY <1>1, <1>2, <1>3, <1>4

(* A line that is accepted is one more of the lines read.                  *)
LEMMA LineIsRead ==
  ASSUME IInv, Translated, phase = "read", HasLine, next' = next + 1, UNCHANGED source,
         NEW line, line = source[next + 1],
         Blank(line) \/ Section(line) \/ parse_data_directive(line) \/ parse_instruction(line)
  PROVE  LinesRead'
<1>1. PICK k : k = next + 1
  OBVIOUS
<1>2. /\ k \in DOMAIN source /\ k \in 1 .. Len(source) /\ k - 1 = next
      /\ source \in Seq(Line) /\ line \in Line
      /\ in_data_section \in BOOLEAN /\ (in_data_section <=> Translation!InData(k))
      /\ Len(program) = Translation!AddressOfLine(k)
      /\ k \in Translation!Counted /\ 1 .. next' = (1 .. next) \cup {k}
  BY <1>1, LineAhead
<1>3. /\ Translation!InData(k + 1) <=>
           IF IsSection(line) THEN line.op = ".data" ELSE Translation!InData(k)
      /\ Translation!AddressOfLine(k + 1) =
           Translation!AddressOfLine(k) + (IF k \in Translation!CodeLines THEN 1 ELSE 0)
  BY <1>1, <1>2, NextLine
<1>4. /\ k \in Translation!DataLines =>
           Translation!DataUpTo[k] = Translation!DataUpTo[next] \o WordsOf(line)
      /\ k \notin Translation!DataLines => Translation!DataUpTo[k] = Translation!DataUpTo[next]
  BY <1>1, <1>2, DataDefined
<1>5. /\ k \in Translation!CodeLines <=> ~in_data_section /\ IsInstruction(line)
      /\ k \in Translation!DataLines <=> in_data_section /\ IsData(line)
  BY <1>1, <1>2, CodeOfLines, DataOfLines
<1>6. data_image = Translation!DataUpTo[next] /\ Len(program) \in Nat
  BY DEF Translated, LinesRead, IInv, TypeOK
<1>7. ASSUME Accepted(k), in_data_section' <=> Translation!InData(k + 1),
             Len(program') = Translation!AddressOfLine(k + 1),
             data_image' = Translation!DataUpTo[k]
      PROVE  LinesRead'
  <2>1. \A i \in 1 .. next : i \in Translation!Counted /\ Accepted(i)
    BY DEF Translated, LinesRead
  <2> QED  BY <1>1, <1>2, <1>7, <2>1, FileStays DEF LinesRead
<1>8. CASE Blank(line)
  <2>1. k \notin Translation!CodeLines /\ k \notin Translation!DataLines /\ ~IsSection(line)
    BY <1>5, <1>8, KindsDiffer DEF Blank
  <2>2. Accepted(k)
    BY <1>1, <1>8 DEF Blank, Accepted
  <2>3. UNCHANGED <<in_data_section, program, data_image>>
    BY <1>8 DEF Blank
  <2>4. Translation!AddressOfLine(k + 1) = Len(program)
    BY <1>2, <1>3, <1>6, <2>1
  <2> QED  BY <1>2, <1>3, <1>4, <1>6, <1>7, <2>1, <2>2, <2>3, <2>4
<1>9. CASE Section(line)
  <2>1. k \notin Translation!CodeLines /\ k \notin Translation!DataLines /\ IsSection(line)
    BY <1>5, <1>9, KindsDiffer DEF Section
  <2>2. Accepted(k)
    BY <1>1, <2>1 DEF Accepted
  <2>3. UNCHANGED <<program, data_image>> /\ in_data_section' = (line.op = ".data")
    BY <1>9 DEF Section
  <2>4. Translation!AddressOfLine(k + 1) = Len(program)
    BY <1>2, <1>3, <1>6, <2>1
  <2> QED  BY <1>2, <1>3, <1>4, <1>6, <1>7, <2>1, <2>2, <2>3, <2>4
<1>10. CASE parse_data_directive(line)
  <2>1. k \notin Translation!CodeLines /\ k \in Translation!DataLines /\ ~IsSection(line)
    BY <1>5, <1>10, KindsDiffer DEF parse_data_directive
  <2>2. Accepted(k)
    BY <2>1 DEF Accepted
  <2>3. UNCHANGED <<in_data_section, program>> /\ data_image' = data_image \o WordsOf(line)
    BY <1>10 DEF parse_data_directive
  <2>4. Translation!AddressOfLine(k + 1) = Len(program)
    BY <1>2, <1>3, <1>6, <2>1
  <2> QED  BY <1>2, <1>3, <1>4, <1>6, <1>7, <2>1, <2>2, <2>3, <2>4
<1>11. CASE parse_instruction(line)
  <2>1. k \in Translation!CodeLines /\ k \notin Translation!DataLines /\ ~IsSection(line)
    BY <1>5, <1>11, KindsDiffer DEF parse_instruction
  <2>2. Accepted(k)
    BY <2>1 DEF Accepted
  <2>3. UNCHANGED <<in_data_section, data_image>> /\ program' = Append(program, Parsed(line))
    BY <1>11 DEF parse_instruction
  <2>4. Len(program') = Len(program) + 1
    BY <2>3 DEF IInv, TypeOK
  <2>5. Translation!AddressOfLine(k + 1) = Len(program')
    BY <1>2, <1>3, <1>6, <2>1, <2>4
  <2> QED  BY <1>2, <1>3, <1>4, <1>6, <1>7, <2>1, <2>2, <2>3, <2>5
<1> QED  BY <1>8, <1>9, <1>10, <1>11

-----------------------------------------------------------------------------
(* Nor does what is said of the tables.                                    *)
LEMMA LabelsStay ==
  ASSUME UNCHANGED source
  PROVE  /\ \A label, k : IsLabelOf(label, k)' <=> IsLabelOf(label, k)
         /\ \A i, k : LabelsDiffer(i, k)' <=> LabelsDiffer(i, k)
         /\ \A ref, k : IsRefOf(ref, k)' <=> IsRefOf(ref, k)
         /\ \A operand, k, n : Denotes(operand, k, n)' <=> Denotes(operand, k, n)
  BY FileStays DEF IsLabelOf, LabelsDiffer, IsRefOf, Denotes, HasLabel

(* The lines with a label are finitely many.                               *)
LEMMA LabelledLines ==
  ASSUME IInv
  PROVE  IsFiniteSet({k \in 1 .. next : HasLabel(k)})
<1>1. PICK labelled : labelled = {k \in 1 .. next : HasLabel(k)}
  OBVIOUS
<1>2. IsFiniteSet(1 .. next)
  <2>1. 1 \in Int /\ next \in Int
    BY DEF IInv, TypeOK
  <2> QED  BY <2>1, FS_Interval
<1>3. labelled \in SUBSET (1 .. next)
  BY <1>1
<1>4. IsFiniteSet(labelled)
  BY <1>2, <1>3, FS_Subset
<1> QED  BY <1>1, <1>4

(* The label of a line that is accepted is one more of the labels read: it *)
(* is refused if there is one of its name and kind.                        *)
LEMMA LabelIsRead ==
  ASSUME IInv, Translated, phase = "read", HasLine, next' = next + 1, UNCHANGED source,
         add_label(source[next + 1].label)
  PROVE  LabelsRead'
<1>1. PICK k : k = next + 1
  OBVIOUS
<1>2. /\ k \in DOMAIN source /\ in_data_section \in BOOLEAN
      /\ (in_data_section <=> Translation!InData(k))
      /\ Len(program) = Translation!AddressOfLine(k)
      /\ 1 .. next' = (1 .. next) \cup {k} /\ k \notin 1 .. next
  BY <1>1, LineAhead
<1>3. /\ \A j \in DOMAIN labels : \E i \in 1 .. next : IsLabelOf(labels[j], i)
      /\ \A i \in 1 .. next : HasLabel(i) => \E j \in DOMAIN labels : IsLabelOf(labels[j], i)
      /\ \A i, m \in 1 .. next : LabelsDiffer(i, m)
      /\ Len(labels) = Cardinality({i \in 1 .. next : HasLabel(i)})
  BY DEF Translated, LabelsRead
<1>4. PICK name : name = source[k].label
  OBVIOUS
<1>5. add_label(name)
  BY <1>1, <1>4
<1>6. HasLabel(k) <=> name # None
  BY <1>4 DEF HasLabel
<1>7. PICK before : before = {i \in 1 .. next : HasLabel(i)} /\ IsFiniteSet(before)
  BY LabelledLines
<1>8. PICK after : after = {i \in 1 .. next' : HasLabel(i)}
  OBVIOUS
<1>9. {i \in 1 .. next' : HasLabel(i)'} = after
  BY <1>8, FileStays
<1>10. CASE name = None
  <2>1. labels' = labels
    BY <1>5, <1>10 DEF add_label
  <2>2. ~HasLabel(k) /\ after = before
    BY <1>2, <1>6, <1>7, <1>8, <1>10
  <2>3. \A i, m \in 1 .. next' : LabelsDiffer(i, m)
    BY <1>2, <1>3, <2>2 DEF LabelsDiffer, HasLabel
  <2> QED  BY <1>2, <1>3, <1>7, <1>9, <2>1, <2>2, <2>3, FileStays, LabelsStay DEF LabelsRead
<1>11. CASE name # None
  <2>1. PICK new : new = [name |-> name, address |-> Address, is_data_label |-> in_data_section]
    OBVIOUS
  <2>2. labels' = Append(labels, new) /\ labels \in Seq(Label)
    BY <1>5, <1>11, <2>1 DEF add_label, IInv, TypeOK
  <2>3. IsLabelOf(new, k)
    BY <1>2, <1>4, <1>6, <1>11, <2>1 DEF IsLabelOf, Address
  <2>4. /\ Len(labels') = Len(labels) + 1
        /\ DOMAIN labels' = DOMAIN labels \cup {Len(labels) + 1}
        /\ \A j \in DOMAIN labels : labels'[j] = labels[j]
        /\ labels'[Len(labels) + 1] = new
    BY <2>2
  <2>5. \A j \in DOMAIN labels' : \E i \in 1 .. next' : IsLabelOf(labels'[j], i)
    BY <1>2, <1>3, <2>3, <2>4
  <2>6. \A i \in 1 .. next' : HasLabel(i) => \E j \in DOMAIN labels' : IsLabelOf(labels'[j], i)
    BY <1>2, <1>3, <2>3, <2>4
  <2>7. ASSUME NEW i \in 1 .. next, HasLabel(i), source[i].label = name,
               Translation!InData(i) <=> Translation!InData(k)
        PROVE  FALSE
    <3>1. PICK j \in DOMAIN labels : IsLabelOf(labels[j], i)
      BY <1>3, <2>7
    <3>2. labels[j] \in Label
      BY <2>2
    <3>3. labels[j].is_data_label \in BOOLEAN
      BY <3>2 DEF Label
    <3>4. labels[j].is_data_label <=> in_data_section
      BY <1>2, <2>7, <3>1 DEF IsLabelOf
    <3>5. labels[j].is_data_label = in_data_section
      BY <1>2, <3>3, <3>4
    <3>6. labels[j].name = name
      BY <2>7, <3>1 DEF IsLabelOf
    <3> QED  BY <1>5, <1>11, <3>5, <3>6 DEF add_label, Refused
  <2>8. \A i, m \in 1 .. next' : LabelsDiffer(i, m)
    BY <1>2, <1>3, <1>4, <1>6, <1>11, <2>7 DEF LabelsDiffer, HasLabel
  <2>9. after = before \cup {k} /\ k \notin before
    BY <1>2, <1>6, <1>7, <1>8, <1>11
  <2>10. Cardinality(after) = Cardinality(before) + 1
    BY <1>7, <2>9, FS_AddElement
  <2> QED  BY <1>3, <1>7, <1>9, <2>4, <2>5, <2>6, <2>8, <2>10, FileStays, LabelsStay DEF LabelsRead
<1> QED  BY <1>10, <1>11

-----------------------------------------------------------------------------
(* The references of a line are operands of it that are no literals.       *)
LEMMA RefsReadOfLine ==
  ASSUME NEW line, NEW i \in DOMAIN RefsOf(line)
  PROVE  \E n \in {1, 2} :
           /\ n <= Arity(line.op) /\ ~IsLiteral(line.args[n])
           /\ RefsOf(line)[i] = [label_name |-> line.args[n], instruction_address |-> Len(program),
                                 operand_number |-> n]
<1> DEFINE ref(n) == [label_name |-> line.args[n], instruction_address |-> Len(program),
                      operand_number |-> n]
           is(n)  == n <= Arity(line.op) /\ ~IsLiteral(line.args[n])
           Refs   == {ref(n) : n \in {m \in {1, 2} : is(m)}}
<1>1. ASSUME NEW n \in {1, 2}
      PROVE  RefOf(line, n) \in Seq(Refs)
  <2>1. CASE Arity(line.op) >= n /\ parse_operand(line.args[n]) = Unresolved
    <3>1. RefOf(line, n) = <<ref(n)>>
      BY <2>1 DEF RefOf
    <3>2. ~IsLiteral(line.args[n])
      <4>1. ASSUME IsLiteral(line.args[n]) PROVE FALSE
        <5>1. Literals[line.args[n]] \in [mode : {"imm", "reg", "ind"}, value : Word]
          BY <4>1, SourceAssumption DEF IsLiteral
        <5> QED  BY <2>1, <4>1, <5>1 DEF parse_operand, Unresolved
      <4> QED  BY <4>1
    <3>3. ref(n) \in Refs
      <4>1. is(n)
        BY <2>1, <3>2, Arities
      <4> QED  BY <4>1
    <3> HIDE DEF Refs, ref
    <3> QED  BY <3>1, <3>3
  <2>2. CASE ~(Arity(line.op) >= n /\ parse_operand(line.args[n]) = Unresolved)
    BY <2>2 DEF RefOf
  <2> QED  BY <2>1, <2>2
<1> HIDE DEF Refs
<1>2. RefOf(line, 1) \in Seq(Refs) /\ RefOf(line, 2) \in Seq(Refs)
  BY <1>1
<1>3. PICK refs : refs = RefsOf(line)
  OBVIOUS
<1>4. refs \in Seq(Refs)
  BY <1>2, <1>3, Grown DEF RefsOf
<1>5. refs[i] \in Refs
  BY <1>3, <1>4
<1> QED  BY <1>3, <1>5 DEF Refs

(* The instruction of a line is one more of the program, and its           *)
(* references of the table.                                                *)
LEMMA CodeIsRead ==
  ASSUME IInv, Translated, phase = "read", HasLine, next' = next + 1, UNCHANGED source,
         NEW line, line = source[next + 1],
         Blank(line) \/ Section(line) \/ parse_data_directive(line) \/ parse_instruction(line)
  PROVE  CodeRead' /\ RefsRead'
<1>1. PICK k : k = next + 1
  OBVIOUS
<1>2. /\ k \in DOMAIN source /\ line \in Line /\ line = source[k]
      /\ in_data_section \in BOOLEAN /\ (in_data_section <=> Translation!InData(k))
      /\ Len(program) = Translation!AddressOfLine(k)
      /\ next \in Nat /\ k \in Nat /\ next' = k /\ source \in Seq(Line)
  BY <1>1, LineAhead
<1>3. \A i \in Translation!CodeLines : i \in Nat
  BY <1>2 DEF Translation!CodeLines
<1>4. \A i \in Translation!CodeLines : i <= next => i <= next'
  BY <1>1, <1>2, <1>3
<1>5. CodeRead /\ RefsRead
  BY DEF Translated
<1>6. CASE Blank(line) \/ Section(line) \/ parse_data_directive(line)
  <2>1. UNCHANGED <<program, unresolved_refs>>
    BY <1>6 DEF Blank, Section, parse_data_directive
  <2>2. \A a, i : IsCodeOf(a, i)' <=> IsCodeOf(a, i)
    BY <2>1, LabelsStay DEF IsCodeOf, OperandAt
  <2> QED  BY <1>4, <1>5, <2>1, <2>2, FileStays, LabelsStay DEF CodeRead, RefsRead
<1>7. CASE parse_instruction(line)
  <2>1. /\ IsInstruction(line) /\ k \in Translation!CodeLines
        /\ program' = Append(program, Parsed(line))
        /\ unresolved_refs' = Recorded(RefsOf(line))
    BY <1>2, <1>7, CodeOfLines DEF parse_instruction
  <2>2. PICK here \in Nat : here = Len(program) + 1
    BY DEF IInv, TypeOK
  <2>3. /\ DOMAIN program' = DOMAIN program \cup {here}
        /\ \A a \in DOMAIN program : program'[a] = program[a]
        /\ program'[here] = Parsed(line) /\ here \notin DOMAIN program
    BY <2>1, <2>2 DEF IInv, TypeOK
  <2>4. /\ \A a \in DOMAIN program, n \in {1, 2} : OperandAt(a, n)' = OperandAt(a, n)
        /\ \A n \in {1, 2} : OperandAt(here, n)' = OperandOf(Parsed(line), n)
    BY <2>3 DEF OperandAt, OperandOf
  <2>5. \A a \in DOMAIN program : \A i : IsCodeOf(a, i) => IsCodeOf(a, i)'
    BY <2>3, <2>4, LabelsStay DEF IsCodeOf
  <2>6. IsCodeOf(here, k)'
    <3>1. program'[here].op = source[k].op
      BY <1>2, <2>3 DEF Parsed
    <3>2. ASSUME NEW n \in {1, 2} PROVE Denotes(OperandOf(Parsed(line), n), k, n)
      <4>1. OperandOf(Parsed(line), n) =
              IF Arity(line.op) >= n THEN parse_operand(line.args[n]) ELSE Unused
        BY <1>2, <2>1, ParsedLine
      <4>2. Arity(line.op) >= n <=> ~(n > Arity(line.op))
        BY Arities
      <4> QED  BY <1>2, <4>1, <4>2 DEF Denotes, parse_operand
    <3> QED  BY <2>4, <3>1, <3>2, LabelsStay DEF IsCodeOf
  <2>7. Translation!AddressOfLine(k) = here - 1 /\ k <= next'
    BY <1>2, <2>2
  <2>8. CodeRead'
    BY <1>4, <1>5, <2>1, <2>3, <2>5, <2>6, <2>7, FileStays DEF CodeRead
  <2>9. PICK refs : refs = RefsOf(line)
    OBVIOUS
  <2>10. /\ refs \in Seq(Ref) /\ unresolved_refs \in Seq(Ref)
         /\ unresolved_refs' = unresolved_refs \o refs
    <3>1. Len(program) < MaxMemory /\ Len(program) \in Slots
      BY AssemblerAssumption DEF HasLine, IInv, TypeOK, Slots
    <3> QED  BY <1>2, <2>1, <2>9, <3>1, AllRecorded, RefsOfLine DEF IInv, TypeOK
  <2>11. \A i \in DOMAIN refs : IsRefOf(refs[i], k)
    <3> SUFFICES ASSUME NEW i \in DOMAIN refs PROVE IsRefOf(refs[i], k)
      OBVIOUS
    <3>1. PICK n \in {1, 2} :
            /\ n <= Arity(line.op) /\ ~IsLiteral(line.args[n])
            /\ refs[i] = [label_name |-> line.args[n], instruction_address |-> Len(program),
                          operand_number |-> n]
      BY <2>9, RefsReadOfLine
    <3> QED  BY <1>2, <3>1 DEF IsRefOf
  <2>12. \A i \in DOMAIN unresolved_refs' :
           \/ i \in DOMAIN unresolved_refs /\ unresolved_refs'[i] = unresolved_refs[i]
           \/ \E j \in DOMAIN refs : unresolved_refs'[i] = refs[j]
    BY <2>10
  <2>13. RefsRead'
    BY <1>4, <1>5, <2>1, <2>7, <2>11, <2>12, FileStays, LabelsStay DEF RefsRead
  <2> QED  BY <2>8, <2>13
<1> QED  BY <1>6, <1>7

-----------------------------------------------------------------------------
(* A step that leaves the tables alone.                                    *)
LEMMA TablesStay ==
  ASSUME Translated, phase \in {"read", "resolve"},
         UNCHANGED <<source, next, labels, data_image, in_data_section, unresolved_refs, program>>
  PROVE  LinesRead' /\ LabelsRead' /\ CodeRead' /\ RefsRead'
<1>1. \A a, i : IsCodeOf(a, i)' <=> IsCodeOf(a, i)
  BY LabelsStay DEF IsCodeOf, OperandAt
<1>2. LinesRead' /\ CodeRead' /\ RefsRead'
  BY <1>1, FileStays, LabelsStay DEF Translated, LinesRead, CodeRead, RefsRead
<1>3. {k \in 1 .. next' : HasLabel(k)'} = {k \in 1 .. next : HasLabel(k)}
  BY FileStays
<1>4. LabelsRead'
  BY <1>3, FileStays, LabelsStay DEF Translated, LabelsRead
<1> QED  BY <1>2, <1>4

(* The steps of the first pass.                                            *)
LEMMA ReadLineRight == ASSUME IInv, Translated, ReadLine PROVE Translated'
<1>1. /\ phase = "read" /\ HasLine /\ add_label(source[next + 1].label)
      /\ next' = next + 1 /\ UNCHANGED <<source, success>>
  BY DEF ReadLine
<1>2. PICK line : line = source[next + 1]
  OBVIOUS
<1>3. CASE Malformed(line)
  BY <1>3 DEF Malformed, Translated
<1>4. CASE Blank(line) \/ Section(line) \/ parse_data_directive(line) \/ parse_instruction(line)
  <2>1. LinesRead' /\ LabelsRead' /\ CodeRead' /\ RefsRead'
    BY <1>1, <1>2, <1>4, LineIsRead, LabelIsRead, CodeIsRead
  <2>2. phase' = "read" /\ success'
    BY <1>1, <1>4 DEF Blank, Section, parse_data_directive, parse_instruction, IInv, PassesInOrder
  <2> QED  BY <2>1, <2>2 DEF Translated, AllRead, FailsRightly
<1> QED  BY <1>2, <1>3, <1>4 DEF ReadLine

(* The first pass ends where no further line counts.                       *)
LEMMA EndOfFileRight == ASSUME IInv, Translated, EndOfFile PROVE Translated'
<1>1. /\ phase = "read" /\ ~HasLine /\ phase' = "resolve"
      /\ UNCHANGED <<source, next, asm, program, resolved, success>>
  BY DEF EndOfFile
<1>2. LinesRead' /\ LabelsRead' /\ CodeRead' /\ RefsRead'
  BY <1>1, TablesStay DEF asm
<1>3. FailsRightly'
  BY <1>1 DEF IInv, PassesInOrder, FailsRightly
<1>4. ASSUME NEW k \in Translation!Counted, k \notin 1 .. next PROVE FALSE
  <2>1. /\ source \in Seq(Line) /\ k \in Nat /\ next + 1 \in Nat /\ next \in Nat
        /\ Len(source) \in Nat
        /\ k >= 1 /\ k <= Len(source) /\ Len(program) \in Nat
        /\ Translation!AddressOfLine(k) < MaxMemory
    BY <1>4 DEF IInv, TypeOK, Translation!Counted
  <2>2. next + 1 <= k /\ next < Len(source)
    BY <1>4, <2>1
  <2>3. Len(program) >= MaxMemory
    BY <1>1, <2>1, <2>2, AssemblerAssumption DEF HasLine
  <2>4. Translation!AddressOfLine(next + 1) <= Translation!AddressOfLine(k)
    BY <2>1, <2>2, AddressesGrow
  <2>5. Len(program) = Translation!AddressOfLine(next + 1)
    BY <1>1 DEF Translated, LinesRead
  <2> QED  BY <2>1, <2>3, <2>4, <2>5, LinesBefore, AssemblerAssumption
<1>5. AllRead'
  BY <1>1, <1>4, FileStays DEF AllRead
<1> QED  BY <1>2, <1>3, <1>5 DEF Translated

(* What resolve_labels finds is what the reference denotes.                *)
LEMMA LabelsOfText ==
  ASSUME IInv, Translated, phase = "resolve", NEW text \in Texts
  PROVE  /\ Matches(text) = {} <=> Translation!Labelled(text) = {}
         /\ Matches(text) # {} /\ ~IsLiteral(text) =>
              Translation!Denoted(text) = [mode |-> "dir", value |-> Found(text).address]
<1>1. text # None
  BY SourceAssumption
<1>2. /\ \A k \in 1 .. next : k \in Translation!Counted
      /\ \A j \in DOMAIN labels : \E k \in 1 .. next : IsLabelOf(labels[j], k)
      /\ \A k \in 1 .. next : HasLabel(k) => \E j \in DOMAIN labels : IsLabelOf(labels[j], k)
      /\ \A i, k \in 1 .. next : LabelsDiffer(i, k)
      /\ Translation!Counted \subseteq 1 .. next
  BY DEF Translated, LinesRead, LabelsRead, AllRead
<1>3. \A k \in Translation!Labelled(text) :
        k \in 1 .. next /\ HasLabel(k) /\ source[k].label = text /\ ~Translation!InData(k)
  BY <1>1, <1>2 DEF Translation!Labelled, HasLabel
<1>4. ASSUME NEW j \in Matches(text)
      PROVE  \E k \in Translation!Labelled(text) : labels[j].address = Translation!AddressOfLine(k)
  <2>1. j \in DOMAIN labels /\ labels[j].name = text /\ ~labels[j].is_data_label
    BY <1>4 DEF Matches
  <2>2. PICK k \in 1 .. next : IsLabelOf(labels[j], k)
    BY <1>2, <2>1
  <2>3. k \in Translation!Labelled(text)
    BY <1>2, <2>1, <2>2 DEF IsLabelOf, Translation!Labelled
  <2> QED  BY <2>1, <2>2, <2>3 DEF IsLabelOf
<1>5. ASSUME NEW k \in Translation!Labelled(text) PROVE Matches(text) # {}
  <2>1. PICK j \in DOMAIN labels : IsLabelOf(labels[j], k)
    BY <1>2, <1>3
  <2> QED  BY <1>3, <2>1 DEF IsLabelOf, Matches
<1>6. \A i, k \in Translation!Labelled(text) : i = k
  BY <1>2, <1>3 DEF LabelsDiffer
<1>7. ASSUME Matches(text) # {}, ~IsLiteral(text)
      PROVE  Translation!Denoted(text) = [mode |-> "dir", value |-> Found(text).address]
  <2>1. Matches(text) \subseteq DOMAIN labels /\ DOMAIN labels \subseteq Nat
    BY DEF Matches, IInv, TypeOK
  <2>2. PICK j \in Matches(text) : \A k \in Matches(text) : j <= k
    BY <1>7, <2>1, LeastNatural
  <2>3. PICK m \in Matches(text) : Found(text) = labels[m]
    BY <2>2 DEF Found
  <2>4. PICK k \in Translation!Labelled(text) : labels[m].address = Translation!AddressOfLine(k)
    BY <1>4
  <2>5. (CHOOSE i \in Translation!Labelled(text) : TRUE) = k
    BY <1>6, <2>4
  <2> QED  BY <1>7, <2>3, <2>4, <2>5, SameLines DEF Translation!Denoted
<1> QED  BY <1>4, <1>5, <1>7

(* The next reference is to a text that is no literal, from an operand of  *)
(* the line of its instruction.                                            *)
LEMMA NextReference ==
  ASSUME IInv, Translated, phase = "resolve", resolved < Len(unresolved_refs),
         NEW ref, ref = unresolved_refs[resolved + 1],
         NEW i \in Translation!CodeLines, i <= next,
         Translation!AddressOfLine(i) = ref.instruction_address
  PROVE  /\ ref.operand_number <= Arity(source[i].op)
         /\ ref.label_name = source[i].args[ref.operand_number]
         /\ ref.label_name \in Texts /\ ~IsLiteral(ref.label_name)
         /\ ref.label_name \in Translation!References
<1>1. /\ resolved + 1 \in DOMAIN unresolved_refs /\ ref \in Ref /\ source \in Seq(Line)
      /\ next \in Nat
  BY NextHole DEF IInv, TypeOK
<1>2. PICK k \in Translation!CodeLines : k <= next /\ IsRefOf(ref, k)
  BY <1>1 DEF Translated, RefsRead
<1>3. i = k
  BY <1>1, <1>2, OneLine DEF IsRefOf
<1>4. /\ ref.operand_number <= Arity(source[i].op) /\ ref.operand_number \in {1, 2}
      /\ ref.label_name = source[i].args[ref.operand_number]
      /\ ref.label_name \in Texts /\ ~IsLiteral(ref.label_name)
  BY <1>1, <1>2, <1>3 DEF IsRefOf, Ref
<1>5. i \in Translation!Counted
  <2>1. i \in 1 .. next
    BY <1>1 DEF Translation!CodeLines
  <2> QED  BY <2>1 DEF Translated, LinesRead
<1>6. ref.operand_number \in 1 .. Translation!Arity(source[i].op)
  BY <1>4, SameLines, Arities
<1>7. ref.label_name \notin DOMAIN Literals
  BY <1>4 DEF IsLiteral
<1>8. i \in Translation!CodeLines \cap Translation!Counted
  BY <1>5
<1> QED  BY <1>4, <1>6, <1>7, <1>8 DEF Translation!References

(* The second pass puts in what the operand denotes, or has found a        *)
(* reference without a label.                                              *)
LEMMA ResolveRight == ASSUME IInv, Translated, Resolve PROVE Translated'
<1>1. PICK ref : ref = unresolved_refs[resolved + 1]
  OBVIOUS
<1>2. /\ phase = "resolve" /\ phase' = "resolve" /\ resolved < Len(unresolved_refs)
      /\ UNCHANGED <<source, next, labels, data_image, in_data_section, unresolved_refs>>
      /\ \/ Matches(ref.label_name) # {} /\ program' = Patched(ref) /\ UNCHANGED success
         \/ Matches(ref.label_name) = {} /\ success' = FALSE /\ UNCHANGED program
  BY <1>1 DEF Resolve, asm
<1>3. PICK k \in DOMAIN program, n \in {1, 2} :
        /\ ref \in Ref /\ ref.instruction_address + 1 = k /\ ref.operand_number = n
        /\ IsHole(k, n)
  BY <1>1, <1>2, NextHole
<1>4. PICK i \in Translation!CodeLines :
        i <= next /\ Translation!AddressOfLine(i) = k - 1 /\ IsCodeOf(k, i)
  BY <1>2 DEF Translated, CodeRead
<1>5. ref.instruction_address = k - 1
  BY <1>3 DEF Ref, Slots
<1>6. /\ n <= Arity(source[i].op) /\ ref.label_name = source[i].args[n]
      /\ ref.label_name \in Texts /\ ~IsLiteral(ref.label_name)
      /\ ref.label_name \in Translation!References
  BY <1>1, <1>2, <1>3, <1>4, <1>5, NextReference
<1>7. AllRead'
  BY <1>2, FileStays DEF Translated, AllRead
<1>8. CASE Matches(ref.label_name) # {} /\ program' = Patched(ref) /\ UNCHANGED success
  <2>1. PICK a \in Word : a = Found(ref.label_name).address /\ Lands(a)
    BY <1>8, FoundLands
  <2>2. /\ Len(program') = Len(program) /\ DOMAIN program' = DOMAIN program
        /\ OperandAt(k, n)' = [OperandAt(k, n) EXCEPT !.value = a]
        /\ \A j \in DOMAIN program : program'[j].op = program[j].op
        /\ \A j \in DOMAIN program, m \in {1, 2} :
             j # k \/ m # n => OperandAt(j, m)' = OperandAt(j, m)
    BY <1>3, <1>8, <2>1, PatchedOperand
  <2>3. OperandAt(k, n)' = Translation!Denoted(ref.label_name)
    <3>1. OperandAt(k, n)' = [mode |-> "dir", value |-> a]
      BY <1>3, <2>2 DEF IsHole, Unresolved
    <3> QED  BY <1>2, <1>6, <1>8, <2>1, <3>1, LabelsOfText
  <2>4. Translation!Labelled(ref.label_name) # {}
    BY <1>2, <1>6, <1>8, LabelsOfText
  <2>5. Denotes(OperandAt(k, n)', i, n)
    <3>1. ~(n > Arity(source[i].op))
      BY <1>6, Arities
    <3> QED  BY <1>6, <2>3, <2>4, <3>1 DEF Denotes
  <2>6. CodeRead'
    <3> SUFFICES ASSUME NEW j \in DOMAIN program
                 PROVE  \E h \in Translation!CodeLines :
                          h <= next /\ Translation!AddressOfLine(h) = j - 1 /\ IsCodeOf(j, h)'
      BY <1>2, <2>2, FileStays DEF CodeRead
    <3>1. CASE j # k
      <4>1. PICK h \in Translation!CodeLines :
              h <= next /\ Translation!AddressOfLine(h) = j - 1 /\ IsCodeOf(j, h)
        BY <1>2 DEF Translated, CodeRead
      <4> QED  BY <1>2, <2>2, <3>1, <4>1, LabelsStay DEF IsCodeOf
    <3>2. CASE j = k
      <4>1. \A m \in {1, 2} : Denotes(OperandAt(k, m)', i, m)
        BY <1>4, <2>2, <2>5 DEF IsCodeOf
      <4>2. program'[k].op = source[i].op
        BY <1>4, <2>2 DEF IsCodeOf
      <4>3. IsCodeOf(k, i)'
        BY <1>2, <4>1, <4>2, LabelsStay DEF IsCodeOf
      <4> QED  BY <1>4, <3>2, <4>3
    <3> QED  BY <3>1, <3>2
  <2>7. LinesRead' /\ RefsRead'
    BY <1>2, <2>2, FileStays, LabelsStay DEF Translated, LinesRead, RefsRead
  <2>8. LabelsRead'
    <3>1. {j \in 1 .. next' : HasLabel(j)'} = {j \in 1 .. next : HasLabel(j)}
      BY <1>2, FileStays
    <3> QED  BY <1>2, <3>1, FileStays, LabelsStay DEF Translated, LabelsRead
  <2>9. FailsRightly'
    BY <1>2, <1>8, FileStays DEF Translated, FailsRightly
  <2> QED  BY <1>7, <2>6, <2>7, <2>8, <2>9 DEF Translated
<1>9. CASE Matches(ref.label_name) = {} /\ success' = FALSE /\ UNCHANGED program
  <2>1. LinesRead' /\ LabelsRead' /\ CodeRead' /\ RefsRead'
    BY <1>2, <1>9, TablesStay
  <2>2. Translation!Labelled(ref.label_name) = {}
    BY <1>2, <1>6, <1>9, LabelsOfText
  <2>3. FailsRightly'
    BY <1>2, <1>6, <2>2, FileStays DEF FailsRightly
  <2> QED  BY <1>7, <2>1, <2>3 DEF Translated
<1> QED  BY <1>2, <1>8, <1>9

LEMMA InitRight == Init => Translated
<1> SUFFICES ASSUME Init PROVE Translated
  OBVIOUS
<1>1. /\ source \in Seq(Line) /\ next = 0 /\ 1 .. next = {} /\ Len(program) = 0 /\ Len(labels) = 0
      /\ DOMAIN program = {} /\ DOMAIN labels = {} /\ DOMAIN unresolved_refs = {}
      /\ phase = "read" /\ success /\ ~in_data_section /\ data_image = <<>>
  BY AssemblerAssumption DEF Init
<1>2. LinesRead
  BY <1>1, FirstLine, DataDefined DEF LinesRead
<1>3. LabelsRead
  <2>1. {k \in 1 .. next : HasLabel(k)} = {}
    BY <1>1
  <2> QED  BY <1>1, <2>1, FS_EmptySet DEF LabelsRead
<1>4. CodeRead /\ RefsRead /\ AllRead /\ FailsRightly
  BY <1>1 DEF CodeRead, RefsRead, AllRead, FailsRightly
<1> QED  BY <1>2, <1>3, <1>4 DEF Translated

-----------------------------------------------------------------------------
(* WellFormed, in the definitions of Assembler.                            *)
Labelling == {k \in Translation!Counted : HasLabel(k)}

LEMMA WellFormedIs ==
  Translation!WellFormed <=>
    /\ \A k \in Translation!Counted : Accepted(k)
    /\ Cardinality(Labelling) <= MaxLabels
    /\ \A i, k \in Translation!Counted : LabelsDiffer(i, k) \/ ~HasLabel(k)
    /\ Len(Translation!Data) <= MaxData
    /\ \A text \in Translation!References : Translation!Labelled(text) # {}
<1>1. Labelling = {k \in Translation!Counted : source[k].label # Translation!None}
  BY SameLines DEF Labelling, HasLabel
<1>2. \A k : Accepted(k) <=> \/ source[k].op = Translation!None
                             \/ Translation!IsSection(source[k])
                             \/ k \in Translation!CodeLines \cup Translation!DataLines
  BY SameLines DEF Accepted
<1>3. (\A i, k \in Translation!Counted : LabelsDiffer(i, k) \/ ~HasLabel(k))
        <=> \A i, k \in Labelling :
              source[i].label = source[k].label /\ (Translation!InData(i) <=> Translation!InData(k))
                => i = k
  BY DEF Labelling, LabelsDiffer
<1> QED  BY <1>1, <1>2, <1>3, SameCardinality DEF Translation!WellFormed

LEMMA FinitelyLabelled == ASSUME source \in Seq(Line) PROVE IsFiniteSet(Labelling)
<1>1. Labelling \in SUBSET (1 .. Len(source))
  BY DEF Labelling, Translation!Counted
<1>2. IsFiniteSet(1 .. Len(source))
  <2>1. 1 \in Int /\ Len(source) \in Int
    OBVIOUS
  <2> QED  BY <2>1, FS_Interval
<1> QED  BY <1>1, <1>2, FS_Subset

(* A label is refused, and a line is malformed, only in a file that has no *)
(* translation.                                                            *)
LEMMA RefuseLabelRight ==
  ASSUME IInv, Translated, RefuseLabel PROVE ~Translation!WellFormed
<1> SUFFICES ASSUME Translation!WellFormed PROVE FALSE
  OBVIOUS
<1>1. PICK k : k = next + 1
  OBVIOUS
<1>2. phase = "read" /\ HasLine /\ Refused(source[k].label)
  BY <1>1 DEF RefuseLabel
<1>3. /\ in_data_section \in BOOLEAN /\ (in_data_section <=> Translation!InData(k))
      /\ k \in Translation!Counted /\ k \notin 1 .. next /\ source \in Seq(Line)
  BY <1>1, <1>2, LineAhead
<1>4. HasLabel(k)
  BY <1>2 DEF Refused, HasLabel
<1>5. /\ \A j \in DOMAIN labels : \E i \in 1 .. next : IsLabelOf(labels[j], i)
      /\ Len(labels) = Cardinality({i \in 1 .. next : HasLabel(i)})
      /\ \A i \in 1 .. next : i \in Translation!Counted
  BY <1>2 DEF Translated, LabelsRead, LinesRead
<1>6. CASE Len(labels) >= MaxLabels
  <2>1. PICK before : before = {i \in 1 .. next : HasLabel(i)} /\ IsFiniteSet(before)
    BY LabelledLines
  <2>2. k \notin before /\ before \cup {k} \in SUBSET Labelling
    BY <1>3, <1>4, <1>5, <2>1 DEF Labelling
  <2>3. Cardinality(before \cup {k}) = Len(labels) + 1
    BY <1>5, <2>1, <2>2, FS_AddElement
  <2>4. Cardinality(before \cup {k}) <= Cardinality(Labelling)
    BY <1>3, <2>2, FinitelyLabelled, FS_Subset
  <2>5. Cardinality(Labelling) \in Nat /\ Cardinality(Labelling) <= MaxLabels /\ Len(labels) \in Nat
    BY <1>3, FinitelyLabelled, FS_CardinalityType, WellFormedIs DEF IInv, TypeOK
  <2> QED  BY <1>6, <2>3, <2>4, <2>5, AssemblerAssumption
<1>7. CASE \E j \in DOMAIN labels :
             labels[j].name = source[k].label /\ labels[j].is_data_label = in_data_section
  <2>1. PICK j \in DOMAIN labels :
          labels[j].name = source[k].label /\ labels[j].is_data_label = in_data_section
    BY <1>7
  <2>2. PICK i \in 1 .. next : IsLabelOf(labels[j], i)
    BY <1>5, <2>1
  <2>3. /\ HasLabel(i) /\ source[i].label = source[k].label
        /\ Translation!InData(i) <=> Translation!InData(k)
    BY <1>3, <2>1, <2>2 DEF IsLabelOf
  <2>4. LabelsDiffer(i, k) \/ ~HasLabel(k)
    BY <1>3, <1>5, WellFormedIs
  <2> QED  BY <1>3, <1>4, <2>3, <2>4 DEF LabelsDiffer
<1> QED  BY <1>2, <1>6, <1>7 DEF Refused

LEMMA MalformedRight ==
  ASSUME IInv, Translated, phase = "read", HasLine, Malformed(source[next + 1])
  PROVE  ~Translation!WellFormed
<1> SUFFICES ASSUME Translation!WellFormed PROVE FALSE
  OBVIOUS
<1>1. PICK k : k = next + 1
  OBVIOUS
<1>2. PICK line : line = source[k]
  OBVIOUS
<1>3. /\ in_data_section \in BOOLEAN /\ (in_data_section <=> Translation!InData(k))
      /\ k \in Translation!Counted /\ source \in Seq(Line) /\ line \in Line
      /\ k \in 1 .. Len(source) /\ k \in 0 .. Len(source) /\ k - 1 = next
      /\ k - 1 \in 0 .. Len(source) /\ k \in DOMAIN source
  BY <1>1, <1>2, LineAhead
<1>4. /\ line.op # None /\ ~IsSection(line)
      /\ ~(in_data_section /\ IsData(line) /\ Fits(line))
      /\ ~(~in_data_section /\ IsInstruction(line))
  BY <1>1, <1>2 DEF Malformed
<1>5. Accepted(k)
  BY <1>3, WellFormedIs
<1>6. k \in Translation!DataLines /\ in_data_section /\ IsData(line) /\ ~Fits(line)
  BY <1>2, <1>3, <1>4, <1>5, CodeOfLines, DataOfLines DEF Accepted
<1>7. data_image = Translation!DataUpTo[next] /\ data_image \in Seq(Word)
  BY DEF Translated, LinesRead, IInv, TypeOK
<1>8. PICK words : words = WordsOf(line) /\ words \in Seq(Word)
  BY <1>3, <1>6, DataWords
<1>9. Translation!DataUpTo[k] = data_image \o words
  BY <1>2, <1>3, <1>6, <1>7, <1>8, DataDefined
<1>10. PICK x \in Nat, y \in Nat : x = Len(data_image) /\ y = Len(words)
  BY <1>7, <1>8
<1>11. Len(data_image \o words) = x + y
  BY <1>7, <1>8, <1>10
<1>12. x + y > MaxData
  BY <1>6, <1>8, <1>10, AssemblerAssumption DEF Fits
<1>13. x + y <= Len(Translation!Data) /\ Len(Translation!Data) <= MaxData
  BY <1>3, <1>9, <1>11, DataGrows, WellFormedIs
<1>14. Len(Translation!Data) \in Nat
  <2>1. Len(source) \in 0 .. Len(source)
    BY <1>3
  <2>2. Translation!Data \in Seq(Word)
    BY <1>3, <2>1, DataDefined DEF Translation!Data
  <2> QED  BY <2>2
<1> QED  BY <1>12, <1>13, <1>14, AssemblerAssumption

(* What is loaded is the translation: every line that counts is in the     *)
(* program, and no operand is a hole.                                      *)
LEMMA AllLoaded ==
  ASSUME IInv, Translated, phase = "resolve", resolved = Len(unresolved_refs), success
  PROVE  /\ Translation!Counted = 1 .. next
         /\ Translation!CodeLines \cap Translation!Counted = Translation!CodeBefore(next + 1)
         /\ Cardinality(Translation!CodeLines \cap Translation!Counted) = Len(program)
         /\ \A a \in DOMAIN program, n \in {1, 2} : OperandAt(a, n) # Unresolved
<1>1. source \in Seq(Line) /\ next \in Nat /\ unresolved_refs \in Seq(Ref)
  BY DEF IInv, TypeOK
<1>2. Translation!Counted = 1 .. next
  BY DEF Translated, LinesRead, AllRead
<1>3. Translation!CodeLines \cap Translation!Counted = Translation!CodeBefore(next + 1)
  BY <1>1, <1>2 DEF Translation!CodeBefore, Translation!CodeLines
<1>4. Len(program) = Translation!AddressOfLine(next + 1)
  BY DEF Translated, LinesRead
<1>5. \A i \in DOMAIN unresolved_refs : i <= resolved
  BY <1>1
<1>6. \A a \in DOMAIN program, n \in {1, 2} : OperandAt(a, n) # Unresolved
  BY <1>5 DEF IInv, HolesHaveRefs, IsHole
<1> QED  BY <1>2, <1>3, <1>4, <1>6, AddressIsCount

(* The instruction at an address is that of the line with this address.    *)
LEMMA CodeIsProgram ==
  ASSUME IInv, Translated, phase = "resolve", resolved = Len(unresolved_refs), success
  PROVE  Translation!Code = program
<1>1. PICK len \in Nat :
        len = Len(program) /\ program \in Seq(Instruction) /\ DOMAIN program = 1 .. len
  BY DEF IInv, TypeOK
<1>2. source \in Seq(Line)
  BY DEF IInv, TypeOK
<1>3. Translation!Cardinality(Translation!CodeLines \cap Translation!Counted) = len
  BY <1>1, AllLoaded, SameCardinality
<1>4. Translation!Code = [a \in 1 .. len |->
                            Translation!InstructionOf(source[Translation!LineOf(a - 1)])]
  BY <1>3 DEF Translation!Code
<1>5. ASSUME NEW a \in 1 .. len
      PROVE  Translation!InstructionOf(source[Translation!LineOf(a - 1)]) = program[a]
  <2>1. PICK k \in Translation!CodeLines :
          k <= next /\ Translation!AddressOfLine(k) = a - 1 /\ IsCodeOf(a, k)
    BY <1>1 DEF Translated, CodeRead
  <2>2. \A i \in Translation!CodeLines : Translation!AddressOfLine(i) = a - 1 => i = k
    BY <1>2, <2>1, OneLine
  <2>3. Translation!LineOf(a - 1) = k
    BY <2>1, <2>2 DEF Translation!LineOf
  <2> DEFINE operand(n) == IF Translation!Arity(source[k].op) >= n
                           THEN Translation!Denoted(source[k].args[n]) ELSE Translation!Unused
  <2>4. Translation!InstructionOf(source[k])
          = [op |-> source[k].op, a |-> operand(1), b |-> operand(2)]
    BY DEF Translation!InstructionOf
  <2>5. ASSUME NEW n \in {1, 2} PROVE OperandAt(a, n) = operand(n)
    <3>1. Denotes(OperandAt(a, n), k, n) /\ OperandAt(a, n) # Unresolved
      BY <1>1, <2>1, AllLoaded DEF IsCodeOf
    <3>2. Arity(source[k].op) >= n <=> ~(n > Arity(source[k].op))
      BY Arities
    <3> QED  BY <3>1, <3>2, SameLines DEF Denotes, Translation!Denoted
  <2>6. program[a] \in Instruction
    BY <1>1
  <2>7. program[a] = [op |-> program[a].op, a |-> OperandAt(a, 1), b |-> OperandAt(a, 2)]
    BY <2>6 DEF Instruction, OperandAt
  <2>8. program[a].op = source[k].op
    BY <2>1 DEF IsCodeOf
  <2> HIDE DEF operand
  <2> QED  BY <2>3, <2>4, <2>5, <2>7, <2>8
<1>6. program = [a \in 1 .. len |-> program[a]]
  BY <1>1
<1> QED  BY <1>4, <1>5, <1>6

(* Both ways the second pass may end.                                      *)
LEMMA FinishRight ==
  ASSUME IInv, Translated, Finish
  PROVE  IF success
         THEN Translation!WellFormed /\ Translation!Code = program /\ Translation!Data = data_image
         ELSE ~Translation!WellFormed
<1>1. phase = "resolve" /\ resolved = Len(unresolved_refs)
  BY DEF Finish
<1>2. CASE ~success
  BY <1>1, <1>2, WellFormedIs DEF Translated, FailsRightly
<1>3. CASE success
  <2>1. /\ source \in Seq(Line) /\ next \in 0 .. Len(source) /\ Translation!Counted = 1 .. next
        /\ next \in Nat /\ next + 1 \in Nat
        /\ \A a \in DOMAIN program, n \in {1, 2} : OperandAt(a, n) # Unresolved
    <3>1. source \in Seq(Line) /\ next \in 0 .. Len(source) /\ next \in Nat /\ next + 1 \in Nat
      BY DEF IInv, TypeOK
    <3>2. /\ Translation!Counted = 1 .. next
          /\ \A a \in DOMAIN program, n \in {1, 2} : OperandAt(a, n) # Unresolved
      BY <1>1, <1>3, AllLoaded
    <3> QED  BY <3>1, <3>2
  <2>2. /\ \A k \in 1 .. next : Accepted(k)
        /\ \A i, k \in 1 .. next : LabelsDiffer(i, k)
        /\ Len(labels) = Cardinality({k \in 1 .. next : HasLabel(k)})
        /\ data_image = Translation!DataUpTo[next]
        /\ Len(program) = Translation!AddressOfLine(next + 1)
    BY <1>1 DEF Translated, LinesRead, LabelsRead
  <2>3. Translation!Data = data_image
    BY <2>1, <2>2, DataGrows
  <2>4. Cardinality(Labelling) <= MaxLabels
    BY <2>1, <2>2 DEF Labelling, IInv, TypeOK
  <2>5. Len(Translation!Data) <= MaxData
    BY <2>3 DEF IInv, TypeOK
  <2>6. ASSUME NEW text \in Translation!References PROVE Translation!Labelled(text) # {}
    <3>1. PICK i \in Translation!CodeLines \cap Translation!Counted :
            /\ \E n \in 1 .. Translation!Arity(source[i].op) : text = source[i].args[n]
            /\ text \notin DOMAIN Literals
      BY <2>6 DEF Translation!References
    <3>2. PICK n \in {1, 2} : n <= Arity(source[i].op) /\ text = source[i].args[n]
      <4>1. PICK n \in 1 .. Arity(source[i].op) : text = source[i].args[n]
        BY <3>1, SameLines
      <4> QED  BY <4>1, Arities
    <3>3. i \in Nat /\ i < next + 1
      BY <2>1, <3>1
    <3>4. Translation!AddressOfLine(i) \in Nat /\ Translation!AddressOfLine(i) < Len(program)
      BY <2>1, <2>2, <3>1, <3>3, OwnAddress, LinesBefore
    <3>5. PICK a \in DOMAIN program : a - 1 = Translation!AddressOfLine(i)
      <4>1. Translation!AddressOfLine(i) + 1 \in DOMAIN program
        BY <3>4 DEF IInv, TypeOK
      <4>2. (Translation!AddressOfLine(i) + 1) - 1 = Translation!AddressOfLine(i)
        BY <3>4
      <4> QED  BY <4>1, <4>2
    <3>6. PICK k \in Translation!CodeLines :
            k <= next /\ Translation!AddressOfLine(k) = a - 1 /\ IsCodeOf(a, k)
      BY <1>1 DEF Translated, CodeRead
    <3>7. k = i
      BY <2>1, <3>1, <3>5, <3>6, OneLine
    <3>8. Denotes(OperandAt(a, n), i, n) /\ OperandAt(a, n) # Unresolved
      BY <2>1, <3>6, <3>7 DEF IsCodeOf
    <3>9. ~(n > Arity(source[i].op))
      BY <3>2, Arities
    <3> QED  BY <3>1, <3>2, <3>8, <3>9 DEF Denotes, IsLiteral
  <2>7. Translation!WellFormed
    BY <2>1, <2>2, <2>4, <2>5, <2>6, WellFormedIs
  <2> QED  BY <1>1, <1>3, <2>3, <2>7, CodeIsProgram
<1> QED  BY <1>2, <1>3

-----------------------------------------------------------------------------
LEMMA NextRight == IInv /\ Translated /\ [Next]_vars => Translated'
<1> SUFFICES ASSUME IInv, Translated, [Next]_vars PROVE Translated'
  OBVIOUS
<1>1. CASE RefuseLabel
  BY <1>1 DEF RefuseLabel, Translated
<1>2. CASE Finish
  <2>1. phase' \notin {"read", "resolve"}
    BY <1>2 DEF Finish
  <2> QED  BY <2>1 DEF Translated
<1>3. CASE UNCHANGED vars
  <2>1. UNCHANGED <<source, next, labels, data_image, in_data_section, unresolved_refs,
                    program, phase, success>>
    BY <1>3 DEF vars, asm
  <2>2. CASE phase \in {"read", "resolve"}
    <3>1. LinesRead' /\ LabelsRead' /\ CodeRead' /\ RefsRead'
      BY <2>1, <2>2, TablesStay
    <3>2. AllRead' /\ FailsRightly'
      BY <2>1, <2>2, FileStays DEF Translated, AllRead, FailsRightly
    <3> QED  BY <3>1, <3>2 DEF Translated
  <2>3. CASE phase \notin {"read", "resolve"}
    BY <2>1, <2>3 DEF Translated
  <2> QED  BY <2>2, <2>3
<1> QED  BY <1>1, <1>2, <1>3, ReadLineRight, EndOfFileRight, ResolveRight DEF Next

(* While it runs, the tables are what Translation says of the lines read,  *)
(* and assembler_parse_file has failed only if a reference has no label.   *)
THEOREM ReadRightly == Spec => [](IInv /\ Translated)
  BY InitInv, NextInv, InitRight, NextRight, PTL DEF Spec

LEMMA SameFile == Translation!Line = Line
  BY DEF Translation!Line, Line, Translation!None, None, Translation!OpcodeNames, OpcodeNames,
         Translation!Opcodes, Opcodes, Translation!Directives, Directives

(* A step answers as Translation does, or leaves the answer pending.       *)
LEMMA StepIsTranslation ==
  ASSUME IInv, Translated, Next
  PROVE  Translation!Next \/ UNCHANGED <<source, Result>>
<1>1. phase \in {"read", "resolve"} => Result.status = "pending"
  BY DEF Result
<1>2. ASSUME UNCHANGED source, phase \in {"read", "resolve"}, phase' \in {"read", "resolve"}
      PROVE  UNCHANGED <<source, Result>>
  <2>1. phase # "done" /\ phase' # "done" /\ phase # "failed" /\ phase' # "failed"
    BY <1>2
  <2> QED  BY <1>2, <2>1 DEF Result
<1>3. ASSUME UNCHANGED source, phase \in {"read", "resolve"}, phase' = "failed",
             ~Translation!WellFormed
      PROVE  Translation!Next
  <2>1. Result' = [status |-> "refused", code |-> <<>>, data |-> <<>>]
    BY <1>3 DEF Result
  <2> QED  BY <1>1, <1>3, <2>1 DEF Translation!Next, Translation!Assemble, Translation!Answer
<1>4. CASE ReadLine
  <2>1. /\ phase = "read" /\ HasLine /\ UNCHANGED source
        /\ \/ Malformed(source[next + 1]) /\ phase' = "failed"
           \/ phase' = phase
    BY <1>4 DEF ReadLine, Blank, Section, parse_data_directive, parse_instruction, Malformed
  <2> QED  BY <1>2, <1>3, <2>1, MalformedRight
<1>5. CASE RefuseLabel
  BY <1>3, <1>5, RefuseLabelRight DEF RefuseLabel
<1>6. CASE EndOfFile \/ Resolve
  BY <1>2, <1>6 DEF EndOfFile, Resolve
<1>7. CASE Finish
  <2>1. phase = "resolve" /\ UNCHANGED <<source, program, data_image>>
    BY <1>7 DEF Finish, asm
  <2>2. CASE success
    <3>1. phase' = "done"
      BY <1>7, <2>2 DEF Finish
    <3>2. Result' = [status |-> "assembled", code |-> program, data |-> data_image]
      BY <2>1, <3>1 DEF Result
    <3>3. /\ Translation!WellFormed /\ Translation!Code = program
          /\ Translation!Data = data_image
      BY <1>7, <2>2, FinishRight
    <3> QED  BY <1>1, <2>1, <3>2, <3>3
             DEF Translation!Next, Translation!Assemble, Translation!Answer
  <2>3. CASE ~success
    <3>1. phase' = "failed" /\ ~Translation!WellFormed
      BY <1>7, <2>3, FinishRight DEF Finish
    <3> QED  BY <1>3, <2>1, <3>1
  <2> QED  BY <2>2, <2>3
<1> QED  BY <1>4, <1>5, <1>6, <1>7 DEF Next

(* The assembler's answer is the program the file stands for or, for       *)
(* exactly the files that stand for none, a refusal.                       *)
THEOREM AnswersRightly == Spec => Translation!Safe
<1>1. Init => Translation!Init
  BY SameFile, AssemblerAssumption DEF Init, Result, Translation!Init, Translation!Answer
<1>2. IInv /\ Translated /\ [Next]_vars => [Translation!Next]_<<source, Result>>
  <2> SUFFICES ASSUME IInv, Translated, [Next]_vars
               PROVE  Translation!Next \/ UNCHANGED <<source, Result>>
    OBVIOUS
  <2>1. CASE UNCHANGED vars
    <3>1. UNCHANGED <<source, phase, program, data_image>>
      BY <2>1 DEF vars, asm
    <3> QED  BY <3>1 DEF Result
  <2> QED  BY <2>1, StepIsTranslation
<1> QED  BY <1>1, <1>2, ReadRightly, PTL DEF Spec, Translation!Safe
=============================================================================
