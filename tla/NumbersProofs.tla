--------------------------- MODULE NumbersProofs ---------------------------
(***************************************************************************)
(* Theorems of MCNumbers: what its runs check for words of ten bits holds  *)
(* for words of every width up to 32 bits.                                 *)
(***************************************************************************)
EXTENDS MCNumbers, CodecProofs

IInv == a \in Word /\ b \in Edges /\ c \in Edges

LEMMA EdgesAreWords == Edges \subseteq Word
<1>1. WordMax >= 1
  BY WordAssumption
<1>2. {WordMin, WordMin + 1, WordMax - 1, WordMax} \subseteq Word
  BY <1>1, Words
<1> QED  BY <1>2 DEF Edges

(* The enumeration stays among the words.                                  *)
LEMMA Enumerates == Spec => []IInv
<1>1. Init => IInv
  BY Words DEF Init, IInv
<1>2. IInv /\ [Next]_vars => IInv'
  <2> SUFFICES ASSUME IInv, [Next]_vars PROVE IInv'
    OBVIOUS
  <2>1. CASE Next
    <3>1. a' \in Word
      BY <2>1, Words DEF IInv, Next
    <3> QED  BY <2>1, <3>1 DEF IInv, Next
  <2>2. CASE UNCHANGED vars
    BY <2>2 DEF IInv, vars
  <2> QED  BY <2>1, <2>2
<1> QED  BY <1>1, <1>2, PTL DEF Spec

(* DIV rounds toward zero for operands of any sign, and its quotient fits  *)
(* a word except where the host traps.                                     *)
THEOREM DivisionIsExact == Spec => []DivisionTruncates
<1>1. IInv => DivisionTruncates
  <2> SUFFICES ASSUME IInv PROVE Truncates(a, b)
    BY DEF DivisionTruncates
  <2>1. b \in Int
    BY EdgesAreWords, Words DEF IInv
  <2> QED  BY <2>1, DivisionTruncatesAll DEF IInv
<1> QED  BY <1>1, Enumerates, PTL

(* TCMPR is the order of two words whose difference fits, whichever way    *)
(* the compiler builds it.                                                 *)
THEOREM ComparisonIsOrder == Spec => []CompareOrders
<1>1. IInv => CompareOrders
  <2> SUFFICES ASSUME IInv PROVE Compares(a, b)
    BY DEF CompareOrders
  <2>1. a \in Int /\ b \in Int
    BY EdgesAreWords, Words DEF IInv
  <2> QED  BY <2>1, ComparesAll
<1> QED  BY <1>1, Enumerates, PTL

(* TAND, TOR and TNOT are a De Morgan lattice on words, not only on trits; *)
(* TSHR3 undoes TSHL3 and TABS is the larger of a word and its negation.   *)
THEOREM LogicIsLattice == Spec => []LawsHold
<1>1. IInv => LawsHold
  <2> SUFFICES ASSUME IInv PROVE LawsHold
    OBVIOUS
  <2>1. a \in Word /\ b \in Word /\ c \in Word
    BY EdgesAreWords DEF IInv
  <2> QED  BY <2>1, LatticeAll, ShiftsBackAll, AbsoluteAll DEF LawsHold
<1> QED  BY <1>1, Enumerates, PTL

(* The text of every word is a numeral that fits the buffers of ternio.c,  *)
(* and that of a word which is not negative reads back as the word.        *)
THEOREM TextIsNumeral == Spec => []NumeralsRead
<1>1. IInv => NumeralsRead
  BY NumeralAll DEF IInv, NumeralsRead
<1> QED  BY <1>1, Enumerates, PTL

(* A value that fits the trits of a word survives it, and the text of one  *)
(* that is not negative reads back, for words of every width.              *)
THEOREM WordsAreKept == Spec => []WordsKeep
<1>1. IInv => WordsKeep
  <2> SUFFICES ASSUME IInv, b \in 1 .. 7 PROVE Kept(a, b) /\ Spelled(a, b)
    BY DEF WordsKeep
  <2>1. b \in Sizes
    BY DEF Sizes, TRITWORD_SIZE
  <2> QED  BY <2>1, KeptAll, SpelledAll DEF IInv
<1> QED  BY <1>1, Enumerates, PTL
=============================================================================
