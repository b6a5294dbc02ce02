----------------------------- MODULE TernaryOps -----------------------------
(***************************************************************************)
(* The arithmetic of the CPU on int32_t words: the C operators that        *)
(* ternuino_step applies to registers and the helpers of tritarith.c and   *)
(* tritlogic.c.  The width is a parameter; a result that does not fit      *)
(* wraps, except where the build may do something else (tcmpr, Divisions). *)
(*                                                                         *)
(* An operator whose name starts with Faulty is the definition after it    *)
(* with a fault; no specification uses one.                                *)
(***************************************************************************)
EXTENDS Integers

CONSTANT WordMax   \* INT32_MAX

ASSUME WordAssumption == WordMax \in Nat \ {0}

WordMin == -WordMax - 1
Word    == WordMin .. WordMax
Modulus == 2 * WordMax + 2

Wrap(x) == ((x - WordMin) % Modulus) + WordMin

(* C division and remainder truncate toward zero.                          *)
Quot(a, b) ==
  IF a >= 0 THEN IF b > 0 THEN a \div b ELSE -(a \div (-b))
            ELSE IF b > 0 THEN -((-a) \div b) ELSE (-a) \div (-b)
Rem(a, b) == a - b * Quot(a, b)

(* The result of DIV: zero for a zero divisor, and none when the quotient  *)
(* does not fit, where the division instruction of the host traps.         *)
DivTraps(a, b) == a = WordMin /\ b = -1
FaultyDivision(a, b) ==
  IF b = 0 THEN 0 ELSE IF b > 0 THEN a \div b ELSE (-a) \div (-b)
Division(a, b) == IF b = 0 THEN 0 ELSE Quot(a, b)

-----------------------------------------------------------------------------
(* tritarith.c                                                             *)
tsign(v) == IF v < 0 THEN -1 ELSE IF v > 0 THEN 1 ELSE 0

tabs(v) == IF v < 0 THEN Wrap(-v) ELSE v

FaultyTshl3Wide(v) == 3 * v
tshl3(v) == Wrap(3 * v)
tshr3(v) == Quot(v, 3)

(* a - b is computed in int32_t: when it overflows the compiler may let it *)
(* wrap or compare a with b directly.                                      *)
FaultyTcmpr(a, b) == {tsign(Wrap(b - a)), tsign(b - a)}
tcmpr(a, b) == {tsign(Wrap(a - b)), tsign(a - b)}

-----------------------------------------------------------------------------
(* tritlogic.c                                                             *)
FaultyTritAnd(a, b) == IF a > b THEN a ELSE b
trit_and(a, b) == IF a < b THEN a ELSE b
trit_or(a, b)  == IF a > b THEN a ELSE b
trit_not(a)    == Wrap(-a)

-----------------------------------------------------------------------------
Trit == -1 .. 1

(* DIV truncates: the quotient is the one whose remainder has the sign of  *)
(* the dividend and is smaller than the divisor.  It fits a word, except   *)
(* where the host traps.                                                   *)
Truncates(a, b) ==
  /\ b # 0 => LET r == a - b * Division(a, b)
             IN  /\ (IF r < 0 THEN -r ELSE r) < (IF b < 0 THEN -b ELSE b)
                 /\ r = 0 \/ (r < 0 <=> a < 0)
  /\ DivTraps(a, b) <=> Division(a, b) \notin Word

(* The identities of docs/book/03-ternary-logic.md hold not only for trits *)
(* but for all words, De Morgan's law excepted at WordMin, the word whose  *)
(* negation does not fit.                                                  *)
Lattice(a, b, c) ==
  /\ trit_and(trit_and(a, b), c) = trit_and(a, trit_and(b, c))
  /\ trit_or(trit_or(a, b), c) = trit_or(a, trit_or(b, c))
  /\ trit_or(a, trit_and(a, b)) = a /\ trit_and(a, trit_or(a, b)) = a
  /\ WordMin \notin {a, b} =>
       trit_not(trit_and(a, b)) = trit_or(trit_not(a), trit_not(b))

(* TSHR3 undoes TSHL3 as long as the product fits a word, and TABS is the  *)
(* larger of a word and its negation everywhere but at WordMin.            *)
ShiftsBack(a) == 3 * a \in Word => tshr3(tshl3(a)) = a
Absolute(a)   == a # WordMin => tabs(a) = trit_or(a, trit_not(a))

(* TCMPR orders two words when their difference fits a word; README.md:145 *)
(* has reg1 := sign(reg1 - reg2) for all words, which does not hold.       *)
Compares(a, b) ==
  a - b \in Word => \A s \in tcmpr(a, b) : (s = -1 <=> a < b) /\ (s = 0 <=> a = b)
=============================================================================
