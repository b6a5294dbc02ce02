---------------------------- MODULE MCAssembler ----------------------------
(***************************************************************************)
(* Files for Assembler.                                                    *)
(***************************************************************************)
EXTENDS Assembler, TLC

Ln(label, op, args) == [label |-> label, op |-> op, args |-> args]

Names     == {"x", "y", "sum", "scratch"}
Plain == [A |-> 0, B |-> 1, C |-> 2]
Brackets  == ("[A]" :> 0) @@ ("[B]" :> 1) @@ ("[C]" :> 2)
Numbers   == ("-1" :> -1) @@ ("0" :> 0) @@ ("1" :> 1) @@ ("2" :> 2) @@ ("3" :> 3)

Spelled(mode, spelling) == [t \in DOMAIN spelling |-> [mode |-> mode, value |-> spelling[t]]]

MCLiterals == Spelled("reg", Plain) @@ Spelled("ind", Brackets) @@ Spelled("imm", Numbers)
MCTexts    == Names \cup DOMAIN MCLiterals
MCOthers   == {"FOO"}

(* Lines of every kind, well-formed and not.                               *)
Lines ==
  {Ln("x", "", <<>>), Ln("y", "HLT", <<>>), Ln("A", "JMP", <<"A", "x">>),
   Ln("", "JMP", <<"x">>), Ln("", "TJZ", <<"A", "y">>), Ln("", "MOV", <<"x", "y">>),
   Ln("", ".data", <<>>), Ln("", ".text", <<>>), Ln("x", ".word", <<"1">>),
   Ln("y", ".zero", <<"2">>), Ln("", ".zero", <<"-1">>), Ln("", "JMP", <<>>),
   Ln("", "FOO", <<"x">>)}

Files(lines, n) == UNION {[1 .. k -> lines] : k \in 0 .. n}

(* Lines without a fault of their own, for longer files.                   *)
PlainLines ==
  {Ln("x", "", <<>>), Ln("y", "HLT", <<>>), Ln("", "JMP", <<"x">>), Ln("", "MOV", <<"x", "y">>),
   Ln("", ".data", <<>>), Ln("", ".text", <<>>), Ln("x", ".word", <<"1">>)}

(* Every file of up to four lines of any kind, and of five plain ones.     *)
ShortFiles == Files(Lines, 4) \cup Files(PlainLines, 5)

(* programs/memory_demo.asm.                                               *)
MemoryDemo ==
  {<<Ln("", ".data", <<>>), Ln("x", ".word", <<"1">>), Ln("y", ".word", <<"-1">>),
     Ln("sum", ".word", <<"0">>), Ln("scratch", ".zero", <<"3">>),
     Ln("", ".text", <<>>),
     Ln("", "LEA", <<"A", "x">>), Ln("", "LD", <<"B", "[A]">>),
     Ln("", "LEA", <<"A", "y">>), Ln("", "LD", <<"C", "[A]">>),
     Ln("", "ADD", <<"B", "C">>), Ln("", "ST", <<"B", "sum">>), Ln("", "HLT", <<>>)>>}
=============================================================================
