----------------------------- MODULE Assembler -----------------------------
(***************************************************************************)
(* assembler_parse_file: a first pass that reads a line per step, collects *)
(* the labels and the data and leaves a hole for every label reference,    *)
(* and a second that fills one hole per step.  What it is to compute is    *)
(* Translation; what comes out is loaded and run by Cpu.                   *)
(*                                                                         *)
(* An operator whose name starts with Faulty is the definition after it    *)
(* with a fault; no specification uses one.                                *)
(***************************************************************************)
EXTENDS AssemblySource

CONSTANTS
  MaxLabels, MaxUnresolvedRefs,   \* the sizes of assembler.h
  Sources                         \* the files that may be assembled

ASSUME AssemblerAssumption ==
  /\ MaxMemory \in Nat /\ MaxData \in Nat /\ MaxLabels \in Nat
  /\ MaxUnresolvedRefs \in Nat /\ 2 * MaxMemory <= MaxUnresolvedRefs
  /\ MaxMemory <= WordMax   \* an address is an int32_t
  /\ \A s \in Sources : s \in Seq(Line)

VARIABLES
  source, next,     \* the file, and the number of lines read
  phase,            \* "read", "resolve", then "done" or "failed"
  labels, data_image, in_data_section, unresolved_refs, program,
  resolved, success \* how many references the second pass has looked up

asm  == <<labels, data_image, in_data_section, unresolved_refs>>
vars == <<source, next, phase, asm, program, resolved, success>>

(* assembler_init.                                                         *)
Init ==
  /\ source \in Sources /\ next = 0
  /\ phase = "read"
  /\ labels = <<>> /\ data_image = <<>> /\ in_data_section = FALSE
  /\ unresolved_refs = <<>> /\ program = <<>>
  /\ resolved = 0 /\ success = TRUE

-----------------------------------------------------------------------------
(* add_label.                                                              *)
Address == IF in_data_section THEN Len(data_image) ELSE Len(program)

FaultyRefused(name) == name # None /\ Len(labels) >= MaxLabels
Refused(name) ==
  /\ name # None
  /\ \/ Len(labels) >= MaxLabels
     \/ \E i \in DOMAIN labels :
          labels[i].name = name /\ labels[i].is_data_label = in_data_section

add_label(name) ==
  /\ ~Refused(name)
  /\ labels' = IF name = None THEN labels
               ELSE Append(labels, [name |-> name, address |-> Address,
                                    is_data_label |-> in_data_section])

(* The reference of operand n of a line, if it is one, to the instruction  *)
(* it becomes.                                                             *)
FaultyRefOf(line, n) ==
  IF Arity(line.op) >= n /\ parse_operand(line.args[n]) = Unresolved
  THEN <<[label_name |-> line.args[n], instruction_address |-> Len(program),
          operand_number |-> 1]>>
  ELSE <<>>
RefOf(line, n) ==
  IF Arity(line.op) >= n /\ parse_operand(line.args[n]) = Unresolved
  THEN <<[label_name |-> line.args[n], instruction_address |-> Len(program),
          operand_number |-> n]>>
  ELSE <<>>
RefsOf(line) == RefOf(line, 1) \o RefOf(line, 2)

(* References that do not fit the table are dropped, without the line      *)
(* failing.                                                                *)
Recorded(refs) ==
  LET all == unresolved_refs \o refs
  IN  IF Len(all) <= MaxUnresolvedRefs THEN all ELSE SubSeq(all, 1, MaxUnresolvedRefs)

-----------------------------------------------------------------------------
(* The first pass stops at the end of the file, or when the instruction    *)
(* memory is full, whatever follows.                                       *)
FaultyHasLine == next < Len(source) /\ Len(program) <= MaxMemory
HasLine == next < Len(source) /\ Len(program) < MaxMemory

(* The rest of a line, each alternative under the condition that takes it. *)
Blank(line) ==
  /\ line.op = None
  /\ UNCHANGED <<data_image, in_data_section, unresolved_refs, program, phase>>

Section(line) ==
  /\ IsSection(line)
  /\ in_data_section' = (line.op = ".data")
  /\ UNCHANGED <<data_image, unresolved_refs, program, phase>>

Fits(line) == Len(data_image) + Len(WordsOf(line)) <= MaxData

parse_data_directive(line) ==
  /\ in_data_section /\ IsData(line) /\ Fits(line)
  /\ data_image' = data_image \o WordsOf(line)
  /\ UNCHANGED <<in_data_section, unresolved_refs, program, phase>>

parse_instruction(line) ==
  /\ ~in_data_section /\ IsInstruction(line)
  /\ program' = Append(program, Parsed(line))
  /\ unresolved_refs' = Recorded(RefsOf(line))
  /\ UNCHANGED <<data_image, in_data_section, phase>>

(* Anything else ends the assembly.                                        *)
Malformed(line) ==
  /\ line.op # None /\ ~IsSection(line)
  /\ ~(in_data_section /\ IsData(line) /\ Fits(line))
  /\ ~(~in_data_section /\ IsInstruction(line))
  /\ phase' = "failed"
  /\ UNCHANGED <<data_image, in_data_section, unresolved_refs, program>>

ReadLine ==
  /\ phase = "read" /\ HasLine
  /\ LET line == source[next + 1]
     IN  /\ add_label(line.label)
         /\ \/ Blank(line) \/ Section(line) \/ parse_data_directive(line)
            \/ parse_instruction(line) \/ Malformed(line)
  /\ next' = next + 1
  /\ UNCHANGED <<source, resolved, success>>

RefuseLabel ==
  /\ phase = "read" /\ HasLine /\ Refused(source[next + 1].label)
  /\ next' = next + 1
  /\ phase' = "failed"
  /\ UNCHANGED <<source, asm, program, resolved, success>>

EndOfFile ==
  /\ phase = "read" /\ ~HasLine
  /\ phase' = "resolve"
  /\ UNCHANGED <<source, next, asm, program, resolved, success>>

-----------------------------------------------------------------------------
(* resolve_labels: the first label of the code with the name of the next   *)
(* reference.  A label of the data section is never found.                 *)
FaultyMatches(name) == {j \in DOMAIN labels : labels[j].name = name}
Matches(name) ==
  {j \in DOMAIN labels : labels[j].name = name /\ ~labels[j].is_data_label}
Found(name) == labels[CHOOSE j \in Matches(name) : \A k \in Matches(name) : j <= k]

FaultyPatched(ref) ==
  [program EXCEPT ![ref.instruction_address + 1].a.value = Found(ref.label_name).address]
Patched(ref) ==
  IF ref.operand_number = 1
  THEN [program EXCEPT ![ref.instruction_address + 1].a.value = Found(ref.label_name).address]
  ELSE [program EXCEPT ![ref.instruction_address + 1].b.value = Found(ref.label_name).address]

Resolve ==
  /\ phase = "resolve" /\ resolved < Len(unresolved_refs)
  /\ LET ref == unresolved_refs[resolved + 1]
     IN  \/ /\ Matches(ref.label_name) # {}
            /\ program' = Patched(ref)
            /\ UNCHANGED success
         \/ /\ Matches(ref.label_name) = {}
            /\ success' = FALSE
            /\ UNCHANGED program
  /\ resolved' = resolved + 1
  /\ UNCHANGED <<source, next, phase, asm>>

(* run_program_file goes on to load the program, or gives up.              *)
Finish ==
  /\ phase = "resolve" /\ resolved = Len(unresolved_refs)
  /\ phase' = IF success THEN "done" ELSE "failed"
  /\ UNCHANGED <<source, next, asm, program, resolved, success>>

Next == ReadLine \/ RefuseLabel \/ EndOfFile \/ Resolve \/ Finish

(* Nothing waits: each pass is a loop over what is there.                  *)
Spec == Init /\ [][Next]_vars /\ WF_vars(Next)

-----------------------------------------------------------------------------
Label == [name : Texts, address : Nat, is_data_label : BOOLEAN]
Ref   == [label_name : Texts, instruction_address : Slots, operand_number : {1, 2}]

(* Every table keeps to its size, and what is in it has its type.          *)
TypeOK ==
  /\ source \in Seq(Line) /\ next \in 0 .. Len(source)
  /\ phase \in {"read", "resolve", "done", "failed"}
  /\ labels \in Seq(Label) /\ Len(labels) <= MaxLabels
  /\ data_image \in Seq(Word) /\ Len(data_image) <= MaxData
  /\ in_data_section \in BOOLEAN
  /\ unresolved_refs \in Seq(Ref) /\ Len(unresolved_refs) <= MaxUnresolvedRefs
  /\ program \in Seq(Instruction) /\ Len(program) <= MaxMemory
  /\ resolved \in 0 .. Len(unresolved_refs) /\ success \in BOOLEAN

OperandAt(k, n) == IF n = 1 THEN program[k].a ELSE program[k].b

Holes == {h \in (DOMAIN program) \X {1, 2} : OperandAt(h[1], h[2]) = Unresolved}

(* The reference at index i of the table is for operand n of instruction k. *)
IsFor(i, k, n) ==
  unresolved_refs[i].instruction_address = k - 1 /\ unresolved_refs[i].operand_number = n

(* No reference is lost and none is filled in twice: an operand is a hole  *)
(* exactly when the table has a reference for it that the second pass has  *)
(* not come to, or has found undefined; and one reference only.            *)
HolesRecorded ==
  /\ \A h \in Holes : \E i \in DOMAIN unresolved_refs :
       IsFor(i, h[1], h[2]) /\ (i <= resolved => ~success)
  /\ \A i \in DOMAIN unresolved_refs :
       \E k \in DOMAIN program, n \in {1, 2} :
         /\ IsFor(i, k, n)
         /\ i > resolved => <<k, n>> \in Holes
         /\ \A j \in DOMAIN unresolved_refs : IsFor(j, k, n) => j = i

(* A program that is loaded has no hole left, and its labels are addresses *)
(* of its own instructions or of the empty slot behind them, always inside *)
(* the instruction memory: a full one hides the labels behind it.          *)
JumpsLand ==
  phase = "done" =>
    \A k \in DOMAIN program, n \in {1, 2} :
      OperandAt(k, n).mode = "dir" =>
        OperandAt(k, n).value \in Slots /\ OperandAt(k, n).value <= Len(program)

(* What is assembled stays: data and instructions are only added to, and   *)
(* of an instruction only a hole changes.                                  *)
OnlyHolesFilled ==
  [][/\ Len(data_image') >= Len(data_image)
     /\ \A d \in DOMAIN data_image : data_image'[d] = data_image[d]
     /\ Len(program') >= Len(program)
     /\ \A k \in DOMAIN program :
          /\ program'[k].op = program[k].op
          /\ program'[k].a # program[k].a => <<k, 1>> \in Holes
          /\ program'[k].b # program[k].b => <<k, 2>> \in Holes]_vars

(* The two passes answer every file, with the program it stands for or,    *)
(* for exactly the files that stand for none, with a refusal.              *)
Result ==
  IF phase = "done" THEN [status |-> "assembled", code |-> program, data |-> data_image]
  ELSE [status |-> IF phase = "failed" THEN "refused" ELSE "pending",
        code |-> <<>>, data |-> <<>>]

Translation == INSTANCE Translation WITH result <- Result
ImplementsTranslation == Translation!Spec

-----------------------------------------------------------------------------
(* ASSEMBLY.md:22, "Data labels declared in `.data` can be referenced by   *)
(* memory instructions and `LEA`": a reference that fails has no label of  *)
(* either kind.                                                            *)
DataLabelsServe ==
  phase = "resolve" /\ ~success =>
    \E i \in 1 .. resolved : \A j \in DOMAIN labels :
      labels[j].name # unresolved_refs[i].label_name
=============================================================================
