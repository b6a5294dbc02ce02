-------------------------- MODULE BalancedTernary --------------------------
(***************************************************************************)
(* Balanced ternary numerals: the text codec of ternio.c, in which .t3     *)
(* files keep their values, and the fixed size words of tritword.c.  A     *)
(* character is its code.                                                  *)
(*                                                                         *)
(* An operator whose name starts with Faulty is the definition after it    *)
(* with a fault; no specification uses one.                                *)
(***************************************************************************)
EXTENDS TernaryOps, SequencesExt

(* The longest numeral is that of an int32_t.                              *)
ASSUME WidthAssumption == WordMax <= 2147483647

trit_to_char(t) == CASE t = -1 -> 84 [] t = 0 -> 48 [] t = 1 -> 49

(* Anything that is no trit's character counts as zero.                    *)
char_to_trit(c) ==
  CASE c \in {84, 116, 45} -> -1
    [] c \in {49, 43}      -> 1
    [] OTHER               -> 0

(* One round of the loop of int_to_balanced_ternary: the digit it puts     *)
(* down and what is left of n.                                             *)
Remainder(n) == (Rem(n, 3) + 3) % 3
Digit(n)     == IF Remainder(n) = 2 THEN -1 ELSE Remainder(n)
FaultyLeft(n) == Quot(n, 3)
Left(n)      == IF Remainder(n) = 2 THEN Quot(n + 1, 3) ELSE Quot(n, 3)

Digits[n \in Word] == IF n = 0 THEN <<>> ELSE Append(Digits[Left(n)], Digit(n))

(* The most significant trit comes first.  The buffers of ternio.c hold 63 *)
(* characters, more than any int32_t needs, so nothing is cut off.         *)
int_to_balanced_ternary(v) ==
  LET trits == IF v = 0 THEN <<0>> ELSE Digits[v]
  IN  [i \in DOMAIN trits |-> trit_to_char(trits[i])]

(* The string in a buffer ends at its first zero byte.                     *)
Zeros(s)   == {i \in DOMAIN s : s[i] = 0}
CString(s) == IF Zeros(s) = {} THEN s ELSE SubSeq(s, 1, Min(Zeros(s)) - 1)

(* The sum of trits times powers of three, in int32_t.  The loops of both  *)
(* files add the powers up from the low end, with the same result.         *)
SumOfTrits(trits) ==
  LET sum[i \in 0 .. Len(trits)] == IF i = 0 THEN 0 ELSE Wrap(3 * sum[i - 1] + trits[i])
  IN  sum[Len(trits)]

TritsIn(s) == [i \in DOMAIN s |-> char_to_trit(s[i])]
balanced_ternary_to_int(s) == SumOfTrits(TritsIn(CString(s)))

is_valid_balanced_ternary(s) ==
  \A i \in DOMAIN s : s[i] \in {84, 116, 45, 48, 49, 43}

-----------------------------------------------------------------------------
(* tritword.c.  TRITWORD_SIZE is the size of the array; the trits beyond   *)
(* the size in use are zero and are left out.                              *)
TRITWORD_SIZE == 6
SizeOf(size) == IF size > TRITWORD_SIZE THEN TRITWORD_SIZE ELSE size

TritOf(value) == Rem(Wrap(value + 1), 3) - 1
FaultyAbove(value) == Quot(value, 3)
Above(value) == Quot(value - TritOf(value), 3)

(* What is left of value once i trits are taken off its low end.           *)
RestAfter(value, i) ==
  LET rest[k \in 0 .. i] == IF k = 0 THEN value ELSE Above(rest[k - 1]) IN rest[i]

tritword_from_int(value, size) ==
  [i \in 1 .. SizeOf(size) |-> TritOf(RestAfter(value, SizeOf(size) - i))]

(* A word made of the first trits of an array; an empty one is all zeros.  *)
tritword_init(trits, size)  == SubSeq(trits, 1, SizeOf(size))
tritword_init_empty(size)   == [i \in 1 .. SizeOf(size) |-> 0]

(* The text of a word, nothing if the buffer has no room for all of it.    *)
tritword_to_string(trits, buffer_size) ==
  IF buffer_size < Len(trits) + 1 THEN <<>>
  ELSE [i \in DOMAIN trits |->
          CASE trits[i] = -1 -> 45 [] trits[i] = 0 -> 48 [] trits[i] = 1 -> 43 [] OTHER -> 63]

tritword_to_int(trits) == SumOfTrits(trits)

-----------------------------------------------------------------------------
(* A non-negative value survives the codec, and its text is a numeral a    *)
(* reader accepts: trits only, no leading zero, short enough for a buffer. *)
Numeral(v) ==
  LET s == int_to_balanced_ternary(v)
  IN  /\ is_valid_balanced_ternary(s)
      /\ s[1] # 48 \/ s = <<48>>
      /\ Len(s) < 64
      /\ v >= 0 => balanced_ternary_to_int(s) = v

(* A value that fits the trits of a word survives it, negative ones        *)
(* included, although their trits then leave the range -1 .. 1 that the    *)
(* comment of tritword.c:30 gives them; one that does not fit loses a      *)
(* multiple of the first power of three the word cannot hold.  At WordMax  *)
(* value + 1 overflows.                                                    *)
Kept(v, size) ==
  LET power == 3 ^ SizeOf(size)
      word  == tritword_to_int(tritword_from_int(v, size))
  IN  v < WordMax => /\ (v - word) % power = 0
                     /\ 2 * v \in 1 - power .. power - 1 => word = v

(* The text of a word that is not negative reads back as the word, in a    *)
(* buffer with room for it and its final zero; and the leading trits of    *)
(* such a word are its value divided by three and rounded to the nearest.  *)
Spelled(v, size) ==
  LET trits == tritword_from_int(v, size)
      text  == tritword_to_string(trits, SizeOf(size) + 1)
      third == tritword_to_int(tritword_init(trits, SizeOf(size) - 1))
  IN  /\ v \in 0 .. WordMax - 1 =>
           /\ is_valid_balanced_ternary(text)
           /\ balanced_ternary_to_int(text) = tritword_to_int(trits)
           /\ tritword_to_int(trits) - 3 * third \in Trit
      /\ tritword_to_string(trits, SizeOf(size)) = <<>>
      /\ tritword_to_int(tritword_init_empty(size)) = 0

(* IO_OPERATIONS.md:74 tabulates negative values too: "-2" is "T1".        *)
Survives(v) == balanced_ternary_to_int(int_to_balanced_ternary(v)) = v
=============================================================================
