----------------------------- MODULE MCNumbers -----------------------------
(***************************************************************************)
(* The operations on words, the text codec and the words of trits, over    *)
(* every word of ten bits, with two further operands from the edges of the *)
(* range and around zero; each triple is a state.                          *)
(***************************************************************************)
EXTENDS BalancedTernary

VARIABLES a, b, c

vars == <<a, b, c>>

Edges == {WordMin, WordMin + 1, WordMax - 1, WordMax} \cup ((-3 .. 7) \cap Word)

(* The words are enumerated from zero outward: 0, -1, 1, -2, 2, ...        *)
Init == a = 0 /\ b \in Edges /\ c \in Edges

Next ==
  /\ a' = (IF a >= 0 THEN -(a + 1) ELSE IF a = WordMin THEN 0 ELSE -a)
  /\ UNCHANGED <<b, c>>

Spec == Init /\ [][Next]_vars

(* Division truncates toward zero, whatever the signs, and does not fit a  *)
(* word exactly where the host traps.                                      *)
DivisionTruncates == Truncates(a, b)

(* TCMPR is the order of the words when the difference fits.               *)
CompareOrders == Compares(a, b)

(* The laws of the documentation for the logic, shifts and TABS.           *)
LawsHold == Lattice(a, b, c) /\ ShiftsBack(a) /\ Absolute(a)

(* The text of a value is a numeral, and reads back if it is not negative. *)
NumeralsRead == b = 0 /\ c = 0 => Numeral(a)

(* A value survives a word that is wide enough for it, for every size up   *)
(* to one beyond the array, and the text of one that is not negative reads *)
(* back.                                                                   *)
WordsKeep == b \in 1 .. 7 /\ c = 0 => Kept(a, b) /\ Spelled(a, b)

(* Every value survives the codec of .t3 files.                            *)
CodecRoundTrip == Survives(a)
=============================================================================
