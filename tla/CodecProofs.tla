---------------------------- MODULE CodecProofs ----------------------------
(***************************************************************************)
(* Lemmas about the words of the CPU, the codec of .t3 files and words of  *)
(* trits, for every width of a word.                                       *)
(***************************************************************************)
EXTENDS BalancedTernary, WellFoundedInduction, TLAPS

LEMMA DivMod ==
  ASSUME NEW a \in Int, NEW b \in Nat \ {0}
  PROVE  /\ a \div b \in Int /\ a % b \in Int
         /\ 0 <= a % b /\ a % b < b
         /\ a = b * (a \div b) + (a % b)
  OBVIOUS

LEMMA SmallMod ==
  ASSUME NEW a \in Nat, NEW b \in Nat \ {0}, a < b
  PROVE  a % b = a
  OBVIOUS

LEMMA Words == 
  /\ WordMax \in Nat /\ WordMin \in Int /\ WordMin = -WordMax - 1
  /\ Modulus \in Nat \ {0} /\ Modulus = 2 * WordMax + 2
  /\ Word \subseteq Int /\ \A x \in Int : x \in Word <=> WordMin <= x /\ x <= WordMax
  BY WordAssumption DEF WordMin, Word, Modulus

LEMMA WrapIsWord == ASSUME NEW x \in Int PROVE Wrap(x) \in Word
<1>1. x - WordMin \in Int
  BY Words
<1>2. (x - WordMin) % Modulus \in Int /\ 0 <= (x - WordMin) % Modulus /\ (x - WordMin) % Modulus < Modulus
  BY <1>1, Words, DivMod
<1> QED  BY <1>2, Words DEF Wrap

LEMMA WrapOfWord == ASSUME NEW x \in Word PROVE Wrap(x) = x
<1>1. x - WordMin \in Nat /\ x - WordMin < Modulus
  BY Words
<1>2. (x - WordMin) % Modulus = x - WordMin
  BY <1>1, Words, SmallMod
<1> QED  BY <1>2, Words DEF Wrap

(* C division, by the sign of each operand.                                *)
Divides(a, b, q, r) ==
  /\ a = b * q + r
  /\ (IF r < 0 THEN -r ELSE r) < (IF b < 0 THEN -b ELSE b)
  /\ r = 0 \/ (r < 0 <=> a < 0)

LEMMA QuotRem ==
  ASSUME NEW a \in Int, NEW b \in Int, b # 0
  PROVE  \E q \in Int, r \in Int : q = Quot(a, b) /\ Divides(a, b, q, r)
<1>1. CASE a >= 0 /\ b > 0
  <2>1. PICK q \in Int, m \in Int : a = b * q + m /\ 0 <= m /\ m < b /\ q = a \div b
    BY <1>1, DivMod
  <2>2. Quot(a, b) = q
    BY <1>1, <2>1 DEF Quot
  <2> WITNESS q \in Int, m \in Int
  <2> QED  BY <1>1, <2>1, <2>2 DEF Divides
<1>2. CASE a >= 0 /\ b < 0
  <2>1. PICK d \in Nat \ {0} : d = -b
    BY <1>2
  <2>2. PICK q \in Int, m \in Int : a = d * q + m /\ 0 <= m /\ m < d /\ q = a \div d
    BY DivMod
  <2>3. Quot(a, b) = -q
    BY <1>2, <2>1, <2>2 DEF Quot
  <2>4. b * (-q) = d * q
    BY <2>1
  <2>5. a = b * (-q) + m
    BY <2>2, <2>4
  <2>6. (IF m < 0 THEN -m ELSE m) < (IF b < 0 THEN -b ELSE b) /\ (m = 0 \/ (m < 0 <=> a < 0))
    BY <1>2, <2>1, <2>2
  <2> WITNESS -q \in Int, m \in Int
  <2> QED  BY <2>3, <2>5, <2>6 DEF Divides
<1>3. CASE a < 0 /\ b > 0
  <2>1. PICK n \in Nat : n = -a
    BY <1>3
  <2>2. PICK q \in Int, m \in Int : n = b * q + m /\ 0 <= m /\ m < b /\ q = n \div b
    BY <1>3, DivMod
  <2>3. Quot(a, b) = -q
    BY <1>3, <2>1, <2>2 DEF Quot
  <2>4. PICK p \in Int : p = b * q /\ b * (-q) = -p
    OBVIOUS
  <2>5. a = b * (-q) + (-m)
    <3>1. n = p + m
      BY <2>2, <2>4
    <3>2. a = -p + (-m)
      BY <2>1, <3>1
    <3> QED  BY <2>4, <3>2
  <2>6. (IF -m < 0 THEN m ELSE -m) < (IF b < 0 THEN -b ELSE b) /\ (-m = 0 \/ (-m < 0 <=> a < 0))
    BY <1>3, <2>2
  <2> WITNESS -q \in Int, -m \in Int
  <2> QED  BY <2>2, <2>3, <2>5, <2>6 DEF Divides
<1>4. CASE a < 0 /\ b < 0
  <2>1. PICK d \in Nat \ {0} : d = -b
    BY <1>4
  <2>6. PICK n \in Nat : n = -a
    BY <1>4
  <2>2. PICK q \in Int, m \in Int : n = d * q + m /\ 0 <= m /\ m < d /\ q = n \div d
    BY DivMod
  <2>3. Quot(a, b) = q
    BY <1>4, <2>1, <2>2, <2>6 DEF Quot
  <2>4. d * q \in Int /\ b * q = -(d * q)
    BY <2>1
  <2>5. a = b * q + (-m)
    BY <2>2, <2>4, <2>6
  <2>7. (IF -m < 0 THEN m ELSE -m) < (IF b < 0 THEN -b ELSE b) /\ (-m = 0 \/ (-m < 0 <=> a < 0))
    BY <1>4, <2>1, <2>2
  <2> WITNESS q \in Int, -m \in Int
  <2> QED  BY <2>2, <2>3, <2>5, <2>7 DEF Divides
<1> QED  BY <1>1, <1>2, <1>3, <1>4

(* A divisor other than 1, 0 and -1 at least halves the dividend.          *)
LEMMA DivHalves ==
  ASSUME NEW a \in Nat, NEW d \in Nat, d >= 2
  PROVE  a \div d \in Nat /\ 2 * (a \div d) <= a
<1>1. PICK q \in Int, m \in Int : a = d * q + m /\ 0 <= m /\ m < d /\ q = a \div d
  BY DivMod
<1>2. q >= 0
  <2>1. q < 0 => d * q <= -d
    OBVIOUS
  <2> QED  BY <1>1, <2>1
<1>3. d * q >= 2 * q
  BY <1>2
<1> QED  BY <1>1, <1>2, <1>3

LEMMA QuotHalves ==
  ASSUME NEW a \in Int, NEW b \in Int, b >= 2 \/ b <= -2
  PROVE  /\ Quot(a, b) \in Int
         /\ a >= 0 => 2 * Quot(a, b) <= a /\ -a <= 2 * Quot(a, b)
         /\ a < 0 => 2 * Quot(a, b) <= -a /\ a <= 2 * Quot(a, b)
<1>1. PICK m \in Nat, d \in Nat :
        m = (IF a >= 0 THEN a ELSE -a) /\ d = (IF b >= 0 THEN b ELSE -b) /\ d >= 2
  OBVIOUS
<1>2. PICK q \in Nat : q = m \div d /\ 2 * q <= m
  BY <1>1, DivHalves
<1>3. Quot(a, b) = q \/ Quot(a, b) = -q
  BY <1>1, <1>2 DEF Quot
<1> QED  BY <1>1, <1>2, <1>3

LEMMA DivisionIsWord ==
  ASSUME NEW a \in Word, NEW b \in Int
  PROVE  DivTraps(a, b) <=> Division(a, b) \notin Word
<1>1. CASE b = 0
  BY <1>1, Words DEF DivTraps, Division
<1>2. CASE b = 1
  <2>1. PICK q \in Int, r \in Int : q = Quot(a, b) /\ Divides(a, b, q, r)
    <3>1. a \in Int /\ b # 0
      BY <1>2, Words
    <3> QED  BY <3>1, QuotRem
  <2>2. Quot(a, b) = a
    BY <1>2, <2>1 DEF Divides
  <2> QED  BY <1>2, <2>2 DEF DivTraps, Division
<1>3. CASE b = -1
  <2>1. PICK q \in Int, r \in Int : q = Quot(a, b) /\ Divides(a, b, q, r)
    <3>1. a \in Int /\ b # 0
      BY <1>3, Words
    <3> QED  BY <3>1, QuotRem
  <2>2. Quot(a, b) = -a
    BY <1>3, <2>1 DEF Divides
  <2> QED  BY <1>3, <2>2, Words DEF DivTraps, Division
<1>4. CASE b >= 2 \/ b <= -2
  <2>1. Quot(a, b) \in Word
    <3>1. PICK q \in Int : q = Quot(a, b)
      BY <1>4, Words, QuotHalves
    <3>2. /\ a \in Int
          /\ a >= 0 => 2 * q <= a /\ -a <= 2 * q
          /\ a < 0 => 2 * q <= -a /\ a <= 2 * q
      BY <1>4, <3>1, Words, QuotHalves
    <3>3. WordMin <= a /\ a <= WordMax /\ WordMax >= 1
      BY Words, WordAssumption
    <3>4. WordMin <= q /\ q <= WordMax
      BY <3>2, <3>3, Words
    <3> QED  BY <3>1, <3>4, Words
  <2> QED  BY <1>4, <2>1 DEF DivTraps, Division
<1> QED  BY <1>1, <1>2, <1>3, <1>4

LEMMA DivisionTruncatesAll ==
  ASSUME NEW a \in Word, NEW b \in Int PROVE Truncates(a, b)
<1>1. ASSUME b # 0
      PROVE  LET r == a - b * Division(a, b)
             IN  /\ (IF r < 0 THEN -r ELSE r) < (IF b < 0 THEN -b ELSE b)
                 /\ r = 0 \/ (r < 0 <=> a < 0)
  <2>1. PICK q \in Int, r \in Int : q = Quot(a, b) /\ Divides(a, b, q, r)
    BY <1>1, Words, QuotRem
  <2>2. b * q \in Int
    OBVIOUS
  <2>3. r = a - b * q
    BY <2>1, <2>2, Words DEF Divides
  <2>4. Division(a, b) = q
    BY <1>1, <2>1 DEF Division
  <2> QED  BY <2>1, <2>3, <2>4 DEF Divides
<1> QED  BY <1>1, DivisionIsWord DEF Truncates

LEMMA ComparesAll ==
  ASSUME NEW a \in Int, NEW b \in Int PROVE Compares(a, b)
<1> SUFFICES ASSUME a - b \in Word PROVE \A s \in tcmpr(a, b) : (s = -1 <=> a < b) /\ (s = 0 <=> a = b)
  BY DEF Compares
<1>1. tcmpr(a, b) = {tsign(a - b)}
  BY WrapOfWord DEF tcmpr
<1> QED  BY <1>1 DEF tsign

LEMMA NotOfWord ==
  ASSUME NEW a \in Word, a # WordMin PROVE trit_not(a) = -a /\ -a \in Word
<1>1. -a \in Word
  BY Words
<1> QED  BY <1>1, WrapOfWord DEF trit_not

LEMMA LatticeAll ==
  ASSUME NEW a \in Word, NEW b \in Word, NEW c \in Word PROVE Lattice(a, b, c)
<1>1. a \in Int /\ b \in Int /\ c \in Int
  BY Words
<1>2. trit_and(trit_and(a, b), c) = trit_and(a, trit_and(b, c))
  BY <1>1 DEF trit_and
<1>3. trit_or(trit_or(a, b), c) = trit_or(a, trit_or(b, c))
  BY <1>1 DEF trit_or
<1>4. trit_or(a, trit_and(a, b)) = a /\ trit_and(a, trit_or(a, b)) = a
  BY <1>1 DEF trit_or, trit_and
<1>5. WordMin \notin {a, b} => trit_not(trit_and(a, b)) = trit_or(trit_not(a), trit_not(b))
  BY <1>1, NotOfWord DEF trit_or, trit_and
<1> QED  BY <1>2, <1>3, <1>4, <1>5 DEF Lattice

LEMMA ShiftsBackAll == ASSUME NEW a \in Word PROVE ShiftsBack(a)
<1> SUFFICES ASSUME 3 * a \in Word PROVE Quot(3 * a, 3) = a
  BY WrapOfWord DEF ShiftsBack, tshl3, tshr3
<1>1. a \in Int
  BY Words
<1> QED  BY <1>1 DEF Quot

LEMMA AbsoluteAll == ASSUME NEW a \in Word PROVE Absolute(a)
<1> SUFFICES ASSUME a # WordMin PROVE tabs(a) = trit_or(a, trit_not(a))
  BY DEF Absolute
<1>1. a \in Int /\ trit_not(a) = -a /\ Wrap(-a) = -a
  BY Words, NotOfWord DEF trit_not
<1> QED  BY <1>1 DEF tabs, trit_or

-----------------------------------------------------------------------------
(* Induction over the naturals, as a fact about a set of them.             *)
Less == {p \in Nat \X Nat : p[1] < p[2]}

LEMMA LessIsWellFounded == IsWellFoundedOn(Less, Nat)
<1>1. OpToRel(<, Nat) = Less
  BY DEF OpToRel, Less
<1> QED  BY <1>1, NatLessThanWellFounded

LEMMA LeastNatural ==
  ASSUME NEW T, T \subseteq Nat, T # {}
  PROVE  \E x \in T : \A y \in T : x <= y
<1>1. PICK x \in T : \A y \in T : <<y, x>> \notin Less
  BY LessIsWellFounded, WFMin
<1>2. \A m, n \in Nat : m < n => <<m, n>> \in Less
  BY DEF Less
<1>3. \A y \in T : ~(y < x)
  BY <1>1, <1>2
<1> QED  BY <1>3

LEMMA SetInduction ==
  ASSUME NEW S, 0 \in S, \A n \in Nat : n \in S => n + 1 \in S
  PROVE  \A n \in Nat : n \in S
<1> DEFINE T == Nat \ S
<1> SUFFICES ASSUME T # {} PROVE FALSE
  OBVIOUS
<1>1. PICK x \in T : \A y \in T : x <= y
  <2>1. T \subseteq Nat
    OBVIOUS
  <2> HIDE DEF T
  <2> QED  BY <2>1, LeastNatural
<1>2. x \in Nat /\ x # 0 /\ x \notin S
  OBVIOUS
<1>3. x - 1 \in Nat /\ ~(x <= x - 1)
  BY <1>2
<1>4. x - 1 \in S
  BY <1>1, <1>3
<1> QED  BY <1>2, <1>3, <1>4

(* A function defined by its values before: it exists, and a definition    *)
(* that follows the same rule has values of the same set.                  *)
Follows(f, n, V, v, step) ==
  /\ DOMAIN f = 0 .. n
  /\ f[0] = v
  /\ \A i \in 1 .. n : f[i - 1] \in V => f[i] = step[<<i, f[i - 1]>>]

LEMMA FollowsTyped ==
  ASSUME NEW V, NEW v \in V, NEW n \in Nat, NEW step \in [(1 .. n) \X V -> V], NEW f,
         Follows(f, n, V, v, step)
  PROVE  \A i \in 0 .. n : f[i] \in V
<1> DEFINE S == {i \in Nat : i <= n => f[i] \in V}
<1>1. 0 \in S
  BY DEF Follows
<1>2. ASSUME NEW i \in Nat, i \in S PROVE i + 1 \in S
  <2> SUFFICES ASSUME i + 1 <= n PROVE f[i + 1] \in V
    OBVIOUS
  <2>1. i + 1 \in 1 .. n /\ (i + 1) - 1 = i /\ f[i] \in V
    BY <1>2
  <2>2. f[i + 1] = step[<<i + 1, f[i]>>]
    BY <2>1 DEF Follows
  <2> QED  BY <2>1, <2>2
<1>3. \A i \in Nat : i \in S
  <2> HIDE DEF S
  <2> QED  BY <1>1, <1>2, SetInduction
<1> QED  BY <1>3

Runs(f, n, V, v, step) ==
  /\ f \in [0 .. n -> V]
  /\ f[0] = v
  /\ \A i \in 1 .. n : f[i] = step[<<i, f[i - 1]>>]

LEMMA FollowsExists ==
  ASSUME NEW V, NEW v \in V, NEW n \in Nat, NEW step \in [(1 .. n) \X V -> V]
  PROVE  \E f : Runs(f, n, V, v, step)
<1> DEFINE S == {k \in Nat : k <= n => \E f : Runs(f, k, V, v, step)}
<1>1. 0 \in S
  <2> DEFINE f == [i \in 0 .. 0 |-> v]
  <2>1. Runs(f, 0, V, v, step)
    BY DEF Runs
  <2> QED  BY <2>1
<1>2. ASSUME NEW k \in Nat, k \in S PROVE k + 1 \in S
  <2> SUFFICES ASSUME k + 1 <= n PROVE \E f : Runs(f, k + 1, V, v, step)
    OBVIOUS
  <2>1. PICK f : Runs(f, k, V, v, step)
    BY <1>2
  <2>2. PICK w \in V : w = step[<<k + 1, f[k]>>]
    <3>1. f[k] \in V /\ k + 1 \in 1 .. n
      BY <2>1 DEF Runs
    <3> QED  BY <3>1
  <2>3. PICK g : g = [i \in 0 .. k + 1 |-> IF i = k + 1 THEN w ELSE f[i]]
    OBVIOUS
  <2>4. \A i \in 0 .. k : g[i] = f[i] /\ f[i] \in V
    BY <2>1, <2>3 DEF Runs
  <2>5. g \in [0 .. k + 1 -> V] /\ g[0] = v /\ g[k + 1] = w
    BY <2>1, <2>3, <2>4 DEF Runs
  <2>6. ASSUME NEW i \in 1 .. k + 1 PROVE g[i] = step[<<i, g[i - 1]>>]
    <3>1. CASE i = k + 1
      <4>1. g[i - 1] = f[k]
        BY <2>4, <3>1
      <4> QED  BY <2>2, <2>5, <3>1, <4>1
    <3>2. CASE i # k + 1
      <4>1. i \in 1 .. k /\ i \in 0 .. k /\ i - 1 \in 0 .. k
        BY <3>2
      <4>2. f[i] = step[<<i, f[i - 1]>>]
        BY <2>1, <4>1 DEF Runs
      <4> QED  BY <2>4, <4>1, <4>2
    <3> QED  BY <3>1, <3>2
  <2>7. Runs(g, k + 1, V, v, step)
    BY <2>5, <2>6 DEF Runs
  <2> QED  BY <2>7
<1> HIDE DEF S
<1>3. \A k \in Nat : k \in S
  BY <1>1, <1>2, SetInduction
<1>4. \E f : Runs(f, n, V, v, step)
  BY <1>3 DEF S
<1> QED  BY <1>4

-----------------------------------------------------------------------------
LEMMA AppendTyped ==
  ASSUME NEW T, NEW s \in Seq(T), NEW t \in T
  PROVE  Append(s, t) \in Seq(T)
  OBVIOUS

(* A digit is a trit, what is left is closer to zero, and the last digit   *)
(* of a numeral, the leading one, is not zero.                             *)
LEMMA DigitAndLeft ==
  ASSUME NEW n \in Int
  PROVE  /\ Digit(n) \in Trit /\ Left(n) \in Int
         /\ 2 * Left(n) <= (IF n < 0 THEN -n ELSE n) /\ -2 * Left(n) <= (IF n < 0 THEN -n ELSE n)
         /\ n >= 0 => Left(n) >= 0 /\ n = 3 * Left(n) + Digit(n)
         /\ n # 0 /\ Left(n) = 0 => Digit(n) # 0
<1>1. CASE n >= 0
  <2>1. PICK q \in Int, r \in Int : n = 3 * q + r /\ 0 <= r /\ r < 3 /\ q = n \div 3
    BY DivMod
  <2>2. Quot(n, 3) = q
    BY <1>1, <2>1 DEF Quot
  <2>3. Rem(n, 3) = r
    BY <2>1, <2>2 DEF Rem
  <2>4. Remainder(n) = r
    BY <2>1, <2>3 DEF Remainder
  <2>5. CASE r = 2
    <3>1. Quot(n + 1, 3) = q + 1
      BY <1>1, <2>1, <2>5 DEF Quot
    <3> QED  BY <1>1, <2>1, <2>4, <2>5, <3>1 DEF Digit, Left, Trit
  <2>6. CASE r # 2
    BY <1>1, <2>1, <2>2, <2>4, <2>6 DEF Digit, Left, Trit
  <2> QED  BY <2>5, <2>6
<1>2. CASE n < 0
  <2>1. PICK m \in Nat : m = -n
    BY <1>2
  <2>2. PICK q \in Int, r \in Int : m = 3 * q + r /\ 0 <= r /\ r < 3 /\ q = m \div 3
    BY DivMod
  <2>3. Quot(n, 3) = -q
    BY <1>2, <2>1, <2>2 DEF Quot
  <2>4. Rem(n, 3) = -r
    BY <2>1, <2>2, <2>3 DEF Rem
  <2>5. CASE r = 0
    <3>1. Remainder(n) = 0
      BY <2>4, <2>5 DEF Remainder
    <3> QED  BY <1>2, <2>1, <2>2, <2>3, <2>5, <3>1 DEF Digit, Left, Trit
  <2>6. CASE r = 1
    <3>1. Remainder(n) = 2
      BY <2>4, <2>6 DEF Remainder
    <3>2. Quot(n + 1, 3) = -q
      BY <1>2, <2>1, <2>2, <2>6 DEF Quot
    <3> QED  BY <1>2, <2>1, <2>2, <2>3, <2>6, <3>1, <3>2 DEF Digit, Left, Trit
  <2>7. CASE r = 2
    <3>1. Remainder(n) = 1
      BY <2>4, <2>7 DEF Remainder
    <3> QED  BY <1>2, <2>1, <2>2, <2>3, <2>7, <3>1 DEF Digit, Left, Trit
  <2> QED  BY <2>2, <2>5, <2>6, <2>7
<1> QED  BY <1>1, <1>2

(* Digits is well defined: a function on the words up to k in size extends *)
(* to those up to k + 1, as what is left of a word is smaller.             *)
Ball(k) == {n \in Word : n <= k /\ -n <= k}
DigitsFrom(f, n) == IF n = 0 THEN <<>> ELSE Append(f[Left(n)], Digit(n))

LEMMA LeftInBall ==
  ASSUME NEW k \in Nat, NEW n \in Ball(k + 1), n # 0
  PROVE  Left(n) \in Ball(k)
<1>1. n \in Int /\ WordMin <= n /\ n <= WordMax
  BY Words DEF Ball
<1>2. /\ Left(n) \in Int
      /\ 2 * Left(n) <= (IF n < 0 THEN -n ELSE n) /\ -2 * Left(n) <= (IF n < 0 THEN -n ELSE n)
  BY <1>1, DigitAndLeft
<1>3. n <= k + 1 /\ -n <= k + 1
  BY DEF Ball
<1>4. Left(n) <= k /\ -Left(n) <= k /\ WordMin <= Left(n) /\ Left(n) <= WordMax
  BY <1>1, <1>2, <1>3, Words
<1> QED  BY <1>2, <1>4, Words DEF Ball

LEMMA DigitsUpTo ==
  \A k \in Nat : \E f \in [Ball(k) -> Seq(Trit)] : \A n \in Ball(k) : f[n] = DigitsFrom(f, n)
<1> DEFINE S == {k \in Nat : \E f \in [Ball(k) -> Seq(Trit)] :
                                \A n \in Ball(k) : f[n] = DigitsFrom(f, n)}
<1>1. 0 \in S
  <2> DEFINE f == [n \in Ball(0) |-> <<>>]
  <2>1. \A n \in Ball(0) : n = 0
    BY Words DEF Ball
  <2>2. f \in [Ball(0) -> Seq(Trit)] /\ \A n \in Ball(0) : f[n] = DigitsFrom(f, n)
    BY <2>1 DEF DigitsFrom
  <2> QED  BY <2>2
<1>2. ASSUME NEW k \in Nat, k \in S PROVE k + 1 \in S
  <2>1. PICK f \in [Ball(k) -> Seq(Trit)] : \A n \in Ball(k) : f[n] = DigitsFrom(f, n)
    BY <1>2
  <2> DEFINE g == [n \in Ball(k + 1) |-> DigitsFrom(f, n)]
  <2>2. \A n \in Ball(k) : n \in Ball(k + 1) /\ g[n] = f[n]
    BY <2>1, Words DEF Ball
  <2>3. ASSUME NEW n \in Ball(k + 1) PROVE g[n] \in Seq(Trit) /\ g[n] = DigitsFrom(g, n)
    <3>1. CASE n = 0
      BY <3>1 DEF DigitsFrom
    <3>2. CASE n # 0
      <4>1. Left(n) \in Ball(k)
        BY <3>2, LeftInBall
      <4>2. g[Left(n)] = f[Left(n)] /\ f[Left(n)] \in Seq(Trit)
        BY <2>2, <4>1
      <4>3. n \in Int
        BY Words DEF Ball
      <4>4. Digit(n) \in Trit
        BY <4>3, DigitAndLeft
      <4>5. g[n] = Append(f[Left(n)], Digit(n))
        BY <3>2 DEF DigitsFrom
      <4>6. g[n] \in Seq(Trit)
        <5>1. Append(f[Left(n)], Digit(n)) \in Seq(Trit)
          BY <4>2, <4>4, AppendTyped
        <5> HIDE DEF g
        <5> QED  BY <4>5, <5>1
      <4>7. g[n] = Append(g[Left(n)], Digit(n))
        BY <4>2, <4>5
      <4> HIDE DEF g
      <4>8. g[n] = DigitsFrom(g, n)
        BY <3>2, <4>7 DEF DigitsFrom
      <4> QED  BY <4>6, <4>8
    <3> QED  BY <3>1, <3>2
  <2>4. g \in [Ball(k + 1) -> Seq(Trit)]
    BY <2>3
  <2> HIDE DEF g
  <2> QED  BY <2>3, <2>4
<1> HIDE DEF S
<1>3. \A k \in Nat : k \in S
  BY <1>1, <1>2, SetInduction
<1> QED  BY <1>3 DEF S

LEMMA WholeBall == Ball(WordMax + 1) = Word
<1>1. \A n \in Word : n <= WordMax + 1 /\ -n <= WordMax + 1
  BY Words
<1> QED  BY <1>1 DEF Ball

(* A fact about every word, from the same about what is left of it.        *)
LEMMA WordInduction ==
  ASSUME NEW S, 0 \in S, \A n \in Word \ {0} : Left(n) \in S => n \in S
  PROVE  \A n \in Word : n \in S
<1> DEFINE T == {k \in Nat : \A n \in Ball(k) : n \in S}
<1>1. 0 \in T
  <2>1. \A n \in Ball(0) : n = 0
    BY Words DEF Ball
  <2> QED  BY <2>1
<1>2. ASSUME NEW k \in Nat, k \in T PROVE k + 1 \in T
  <2>1. ASSUME NEW n \in Ball(k + 1) PROVE n \in S
    <3>1. CASE n = 0
      BY <3>1
    <3>2. CASE n # 0
      <4>1. Left(n) \in Ball(k)
        BY <3>2, LeftInBall
      <4>2. n \in Word \ {0}
        BY <3>2 DEF Ball
      <4> QED  BY <1>2, <4>1, <4>2
    <3> QED  BY <3>1, <3>2
  <2> QED  BY <2>1
<1> HIDE DEF T
<1>3. \A k \in Nat : k \in T
  BY <1>1, <1>2, SetInduction
<1>4. WordMax + 1 \in T
  BY <1>3, Words
<1> QED  BY <1>4, WholeBall DEF T

LEMMA DigitsDefined ==
  /\ Digits \in [Word -> Seq(Trit)]
  /\ \A n \in Word : Digits[n] = DigitsFrom(Digits, n)
<1>1. PICK f \in [Word -> Seq(Trit)] : \A n \in Word : f[n] = DigitsFrom(f, n)
  BY WholeBall, Words, DigitsUpTo
<1>2. f = [n \in Word |-> IF n = 0 THEN <<>> ELSE Append(f[Left(n)], Digit(n))]
  BY <1>1 DEF DigitsFrom
<1>3. Digits = [n \in Word |-> IF n = 0 THEN <<>> ELSE Append(Digits[Left(n)], Digit(n))]
  BY <1>2 DEF Digits
<1>4. \A n \in Word : Digits[n] = DigitsFrom(Digits, n)
  BY <1>3 DEF DigitsFrom
<1> DEFINE S == {n \in Word : Digits[n] \in Seq(Trit)}
<1>5. 0 \in S
  <2>1. 0 \in Word /\ <<>> \in Seq(Trit)
    BY Words
  <2>2. Digits[0] = <<>>
    BY <1>4, <2>1 DEF DigitsFrom
  <2> QED  BY <2>1, <2>2
<1>6. ASSUME NEW n \in Word \ {0}, Left(n) \in S PROVE n \in S
  <2>1. Digit(n) \in Trit
    BY Words, DigitAndLeft
  <2>2. Digits[n] = Append(Digits[Left(n)], Digit(n))
    BY <1>4 DEF DigitsFrom
  <2>3. Append(Digits[Left(n)], Digit(n)) \in Seq(Trit)
    BY <1>6, <2>1, AppendTyped
  <2> QED  BY <2>2, <2>3
<1>7. \A n \in Word : n \in S
  <2> HIDE DEF S
  <2> QED  BY <1>5, <1>6, WordInduction
<1> QED  BY <1>3, <1>4, <1>7

LEMMA DigitsOfLeft ==
  ASSUME NEW n \in Word, n # 0
  PROVE  /\ Left(n) \in Word /\ Digits[Left(n)] \in Seq(Trit) /\ Digit(n) \in Trit
         /\ Digits[n] = Append(Digits[Left(n)], Digit(n))
<1>1. n \in Ball(WordMax + 1)
  BY WholeBall
<1>2. Left(n) \in Word
  BY <1>1, LeftInBall, Words DEF Ball
<1>3. Digit(n) \in Trit
  BY Words, DigitAndLeft
<1> QED  BY <1>2, <1>3, DigitsDefined DEF DigitsFrom

-----------------------------------------------------------------------------
(* The length of a numeral: one more trit more than doubles the reach.     *)
Within(m, l) == \A n \in Word : n <= m /\ -n <= m => Len(Digits[n]) <= l

LEMMA Twice ==
  ASSUME NEW m \in Nat, NEW l \in Nat, Within(m, l)
  PROVE  Within(2 * m + 1, l + 1)
<1> SUFFICES ASSUME NEW n \in Word, n <= 2 * m + 1, -n <= 2 * m + 1
             PROVE  Len(Digits[n]) <= l + 1
  BY DEF Within
<1>1. CASE n = 0
  <2>1. Digits[n] = <<>>
    BY <1>1, DigitsDefined DEF DigitsFrom
  <2> QED  BY <2>1
<1>2. CASE n # 0
  <2>1. PICK s \in Seq(Trit) : s = Digits[Left(n)] /\ Digits[n] = Append(s, Digit(n))
    BY <1>2, DigitsOfLeft
  <2>2. Len(Digits[n]) = Len(s) + 1
    BY <2>1
  <2>3. n \in Int
    BY Words
  <2>4. PICK p \in Int :
           p = Left(n) /\ 2 * p <= (IF n < 0 THEN -n ELSE n) /\ -2 * p <= (IF n < 0 THEN -n ELSE n)
    BY <2>3, DigitAndLeft
  <2>5. p <= m /\ -p <= m
    BY <2>3, <2>4
  <2>6. Len(s) <= l
    BY <1>2, <2>1, <2>4, <2>5, DigitsOfLeft DEF Within
  <2> QED  BY <2>1, <2>2, <2>6
<1> QED  BY <1>1, <1>2

LEMMA FourTimes ==
  ASSUME NEW m \in Nat, NEW l \in Nat, Within(m, l)
  PROVE  Within(4 * m + 3, l + 2)
<1>1. PICK p \in Nat, k \in Nat : p = 2 * m + 1 /\ k = l + 1 /\ Within(p, k)
  BY Twice
<1>2. PICK q \in Nat, j \in Nat : q = 2 * p + 1 /\ j = k + 1 /\ Within(q, j)
  BY <1>1, Twice
<1>3. q = 4 * m + 3 /\ j = l + 2
  BY <1>1, <1>2
<1> QED  BY <1>2, <1>3

LEMMA SixteenTimes ==
  ASSUME NEW m \in Nat, NEW l \in Nat, Within(m, l)
  PROVE  Within(16 * m + 15, l + 4)
<1>1. PICK p \in Nat, k \in Nat : p = 4 * m + 3 /\ k = l + 2 /\ Within(p, k)
  BY FourTimes
<1>2. PICK q \in Nat, j \in Nat : q = 4 * p + 3 /\ j = k + 2 /\ Within(q, j)
  BY <1>1, FourTimes
<1>3. q = 16 * m + 15 /\ j = l + 4
  BY <1>1, <1>2
<1> QED  BY <1>2, <1>3

(* Every int32_t but the least is within 2 ^ 31 - 1 of zero; the least has *)
(* at most one trit more.                                                  *)
LEMMA DigitsFit == \A n \in Word : Len(Digits[n]) <= 32
<1>1. Within(0, 0)
  <2>1. \A n \in Word : n <= 0 /\ -n <= 0 => n = 0
    BY Words
  <2>2. Digits[0] = <<>>
    BY Words, DigitsDefined DEF DigitsFrom
  <2> QED  BY <2>1, <2>2 DEF Within
<1>2. Within(15, 4)
  <2>1. Within(16 * 0 + 15, 0 + 4)
    BY <1>1, SixteenTimes
  <2> QED  BY <2>1
<1>3. Within(255, 8)
  <2>1. Within(16 * 15 + 15, 4 + 4)
    BY <1>2, SixteenTimes
  <2> QED  BY <2>1
<1>4. Within(4095, 12)
  <2>1. Within(16 * 255 + 15, 8 + 4)
    BY <1>3, SixteenTimes
  <2> QED  BY <2>1
<1>5. Within(65535, 16)
  <2>1. Within(16 * 4095 + 15, 12 + 4)
    BY <1>4, SixteenTimes
  <2> QED  BY <2>1
<1>6. Within(1048575, 20)
  <2>1. Within(16 * 65535 + 15, 16 + 4)
    BY <1>5, SixteenTimes
  <2> QED  BY <2>1
<1>7. Within(16777215, 24)
  <2>1. Within(16 * 1048575 + 15, 20 + 4)
    BY <1>6, SixteenTimes
  <2> QED  BY <2>1
<1>8. Within(268435455, 28)
  <2>1. Within(16 * 16777215 + 15, 24 + 4)
    BY <1>7, SixteenTimes
  <2> QED  BY <2>1
<1>9. Within(4294967295, 32)
  <2>1. Within(16 * 268435455 + 15, 28 + 4)
    BY <1>8, SixteenTimes
  <2> QED  BY <2>1
<1>10. \A n \in Word : n <= 4294967295 /\ -n <= 4294967295
  BY Words, WidthAssumption
<1> QED  BY <1>9, <1>10 DEF Within

(* The leading trit of a numeral is not zero.                              *)
LEMMA LeadingTrit ==
  \A n \in Word \ {0} : Len(Digits[n]) >= 1 /\ Digits[n][1] # 0
<1> DEFINE S == {n \in Word : n # 0 => Len(Digits[n]) >= 1 /\ Digits[n][1] # 0}
<1>1. 0 \in S
  BY Words
<1>2. ASSUME NEW n \in Word \ {0}, Left(n) \in S PROVE n \in S
  <2>1. PICK s \in Seq(Trit), d \in Trit :
           s = Digits[Left(n)] /\ d = Digit(n) /\ Digits[n] = Append(s, d)
    BY DigitsOfLeft
  <2>2. CASE Left(n) = 0
    <3>1. s = <<>>
      BY <2>1, <2>2, Words, DigitsDefined DEF DigitsFrom
    <3>2. d # 0
      BY <2>1, <2>2, Words, DigitAndLeft
    <3>3. Len(Append(s, d)) >= 1 /\ Append(s, d)[1] = d
      BY <3>1
    <3> HIDE DEF S
    <3>4. Len(Digits[n]) >= 1 /\ Digits[n][1] # 0
      BY <2>1, <3>2, <3>3
    <3> QED  BY <3>4 DEF S
  <2>3. CASE Left(n) # 0
    <3>1. Len(s) >= 1 /\ s[1] # 0
      BY <1>2, <2>1, <2>3
    <3>2. Len(Append(s, d)) >= 1 /\ Append(s, d)[1] = s[1]
      BY <3>1
    <3> HIDE DEF S
    <3>3. Len(Digits[n]) >= 1 /\ Digits[n][1] # 0
      BY <2>1, <3>1, <3>2
    <3> QED  BY <3>3 DEF S
  <2> QED  BY <2>2, <2>3
<1> HIDE DEF S
<1>3. \A n \in Word : n \in S
  BY <1>1, <1>2, WordInduction
<1> QED  BY <1>3 DEF S

-----------------------------------------------------------------------------
(* The sum of trits: its partial sums are words, determined by the trits.  *)
Sums(f, s, k) ==
  /\ f \in [0 .. k -> Word]
  /\ f[0] = 0
  /\ \A i \in 1 .. k : f[i] = Wrap(3 * f[i - 1] + s[i])

LEMMA NextSum ==
  ASSUME NEW w \in Word, NEW t \in Int
  PROVE  Wrap(3 * w + t) \in Word
<1>1. w \in Int
  BY Words
<1>2. 3 * w + t \in Int
  BY <1>1
<1> QED  BY <1>2, WrapIsWord

LEMMA TritsAreInts == ASSUME NEW s \in Seq(Trit) PROVE s \in Seq(Int)
  BY DEF Trit

LEMMA SumsExist ==
  ASSUME NEW s \in Seq(Int)
  PROVE  \E f : Sums(f, s, Len(s))
<1>1. PICK n \in Nat : n = Len(s) /\ \A i \in 1 .. n : s[i] \in Int
  OBVIOUS
<1>2. PICK step : step = [p \in (1 .. n) \X Word |-> Wrap(3 * p[2] + s[p[1]])]
  OBVIOUS
<1>3. \A i \in 1 .. n, w \in Word : step[<<i, w>>] = Wrap(3 * w + s[i]) /\ step[<<i, w>>] \in Word
  BY <1>1, <1>2, NextSum
<1>4. step \in [(1 .. n) \X Word -> Word]
  BY <1>2, <1>3
<1>5. 0 \in Word
  BY Words
<1>6. PICK f : Runs(f, n, Word, 0, step)
  BY <1>4, <1>5, FollowsExists
<1>7. ASSUME NEW i \in 1 .. n PROVE f[i] = Wrap(3 * f[i - 1] + s[i])
  <2>1. i - 1 \in 0 .. n
    OBVIOUS
  <2>2. f[i - 1] \in Word /\ f[i] = step[<<i, f[i - 1]>>]
    BY <1>6, <2>1 DEF Runs
  <2> QED  BY <1>3, <2>2
<1>8. Sums(f, s, n)
  BY <1>6, <1>7 DEF Runs, Sums
<1> QED  BY <1>1, <1>8

(* Trits that agree up to a shorter end have the same sums up to there.    *)
SamePrefix(s, t, m) == \A i \in 1 .. m : s[i] = t[i]

LEMMA SumsAgree ==
  ASSUME NEW s, NEW t, NEW m \in Nat, NEW n \in Nat, NEW f, NEW g,
         Sums(f, s, m), Sums(g, t, n), m <= n, SamePrefix(s, t, m)
  PROVE  f[m] = g[m]
<1> DEFINE S == {k \in Nat : k <= m => f[k] = g[k]}
<1>1. 0 \in S
  BY DEF Sums
<1>2. ASSUME NEW k \in Nat, k \in S PROVE k + 1 \in S
  <2> SUFFICES ASSUME k + 1 <= m PROVE f[k + 1] = g[k + 1]
    OBVIOUS
  <2>1. k + 1 \in 1 .. m /\ k + 1 \in 1 .. n /\ (k + 1) - 1 = k
    OBVIOUS
  <2>2. f[k] = g[k] /\ s[k + 1] = t[k + 1]
    BY <1>2, <2>1 DEF SamePrefix
  <2>3. f[k + 1] = Wrap(3 * f[k] + s[k + 1])
    BY <2>1 DEF Sums
  <2>4. g[k + 1] = Wrap(3 * g[k] + t[k + 1])
    BY <2>1 DEF Sums
  <2> QED  BY <2>2, <2>3, <2>4
<1>3. \A k \in Nat : k \in S
  <2> HIDE DEF S
  <2> QED  BY <1>1, <1>2, SetInduction
<1> QED  BY <1>3

LEMMA SumIsLast ==
  ASSUME NEW s \in Seq(Int)
  PROVE  \E f : Sums(f, s, Len(s)) /\ SumOfTrits(s) = f[Len(s)]
<1>1. PICK k \in Nat : k = Len(s) /\ \A i \in 1 .. k : s[i] \in Int
  OBVIOUS
<1>2. PICK f : Sums(f, s, k)
  BY <1>1, SumsExist
<1> DEFINE sum == CHOOSE g : g = [i \in 0 .. k |->
                      IF i = 0 THEN 0 ELSE Wrap(3 * g[i - 1] + s[i])]
<1>3. f = [i \in 0 .. k |-> IF i = 0 THEN 0 ELSE Wrap(3 * f[i - 1] + s[i])]
  BY <1>2 DEF Sums
<1>4. sum = [i \in 0 .. k |-> IF i = 0 THEN 0 ELSE Wrap(3 * sum[i - 1] + s[i])]
  BY <1>3
<1>5. SumOfTrits(s) = sum[k]
  BY <1>1 DEF SumOfTrits
<1> HIDE DEF sum
<1>6. PICK g : g = sum
  OBVIOUS
<1>7. g = [i \in 0 .. k |-> IF i = 0 THEN 0 ELSE Wrap(3 * g[i - 1] + s[i])]
  BY <1>4, <1>6
<1>8. g[0] = 0 /\ \A i \in 1 .. k : g[i] = Wrap(3 * g[i - 1] + s[i])
  BY <1>7
<1> DEFINE S == {i \in Nat : i <= k => g[i] \in Word}
<1>9. 0 \in S
  BY <1>8, Words
<1>10. ASSUME NEW i \in Nat, i \in S PROVE i + 1 \in S
  <2> SUFFICES ASSUME i + 1 <= k PROVE g[i + 1] \in Word
    OBVIOUS
  <2>1. g[i] \in Word
    BY <1>10
  <2>2. i + 1 \in 1 .. k /\ (i + 1) - 1 = i
    OBVIOUS
  <2>3. g[i + 1] = Wrap(3 * g[i] + s[i + 1]) /\ s[i + 1] \in Int
    BY <1>1, <1>8, <2>2
  <2> QED  BY <2>1, <2>3, NextSum
<1>11. \A i \in Nat : i \in S
  <2> HIDE DEF S
  <2> QED  BY <1>9, <1>10, SetInduction
<1>12. \A i \in 0 .. k : g[i] \in Word
  BY <1>11
<1>13. g \in [0 .. k -> Word]
  BY <1>7, <1>12
<1>14. Sums(g, s, k)
  BY <1>8, <1>13 DEF Sums
<1> QED  BY <1>1, <1>5, <1>6, <1>14

LEMMA SumIsWord == ASSUME NEW s \in Seq(Int) PROVE SumOfTrits(s) \in Word
<1>1. PICK k, f : k \in Nat /\ k = Len(s) /\ Sums(f, s, k) /\ SumOfTrits(s) = f[k]
  BY SumIsLast
<1> QED  BY <1>1 DEF Sums

-----------------------------------------------------------------------------
(* The text of trits.                                                      *)
Letters == {84, 48, 49}
Spell(trits) == [i \in DOMAIN trits |-> trit_to_char(trits[i])]

LEMMA LetterOfTrit ==
  ASSUME NEW t \in Trit
  PROVE  /\ trit_to_char(t) \in Letters /\ char_to_trit(trit_to_char(t)) = t
         /\ trit_to_char(t) = 48 => t = 0
<1>1. t = -1 \/ t = 0 \/ t = 1
  BY DEF Trit
<1>2. CASE t = -1
  <2>1. trit_to_char(t) = 84
    BY <1>2 DEF trit_to_char
  <2> QED  BY <1>2, <2>1 DEF Letters, char_to_trit
<1>3. CASE t = 0
  <2>1. trit_to_char(t) = 48
    BY <1>3 DEF trit_to_char
  <2> QED  BY <1>3, <2>1 DEF Letters, char_to_trit
<1>4. CASE t = 1
  <2>1. trit_to_char(t) = 49
    BY <1>4 DEF trit_to_char
  <2> QED  BY <1>4, <2>1 DEF Letters, char_to_trit
<1> QED  BY <1>1, <1>2, <1>3, <1>4

LEMMA SpellTyped ==
  ASSUME NEW s \in Seq(Trit)
  PROVE  /\ Spell(s) \in Seq(Letters) /\ Len(Spell(s)) = Len(s)
         /\ \A i \in 1 .. Len(s) : Spell(s)[i] = trit_to_char(s[i])
<1>1. DOMAIN s = 1 .. Len(s) /\ Len(s) \in Nat /\ \A i \in 1 .. Len(s) : s[i] \in Trit
  OBVIOUS
<1>2. Spell(s) = [i \in 1 .. Len(s) |-> trit_to_char(s[i])]
  BY <1>1 DEF Spell
<1>3. \A i \in 1 .. Len(s) : trit_to_char(s[i]) \in Letters
  BY <1>1, LetterOfTrit
<1> QED  BY <1>1, <1>2, <1>3

LEMMA TritsReadBack == ASSUME NEW s \in Seq(Trit) PROVE TritsIn(Spell(s)) = s
<1>1. PICK n \in Nat : /\ n = Len(s) /\ DOMAIN s = 1 .. n
                       /\ \A i \in 1 .. n : s[i] \in Trit
                       /\ s = [i \in 1 .. n |-> s[i]]
  OBVIOUS
<1>2. PICK t : t = Spell(s)
  OBVIOUS
<1>3. DOMAIN t = 1 .. n /\ \A i \in 1 .. n : char_to_trit(t[i]) = s[i]
  BY <1>1, <1>2, LetterOfTrit DEF Spell
<1>4. TritsIn(t) = [i \in 1 .. n |-> s[i]]
  BY <1>3 DEF TritsIn
<1> QED  BY <1>1, <1>2, <1>4

(* The trits of a value that is not negative sum up to it.                 *)
LEMMA SumOfDigits == \A n \in Word : n >= 0 => SumOfTrits(Digits[n]) = n
<1> DEFINE S == {n \in Word : n >= 0 => SumOfTrits(Digits[n]) = n}
<1>1. 0 \in S
  <2>1. Digits[0] = <<>> /\ 0 \in Word /\ <<>> \in Seq(Int) /\ Len(<<>>) = 0
    BY Words, DigitsDefined DEF DigitsFrom
  <2>2. PICK f : Sums(f, <<>>, 0) /\ SumOfTrits(<<>>) = f[0]
    BY <2>1, SumIsLast
  <2> QED  BY <2>1, <2>2 DEF Sums
<1>2. ASSUME NEW n \in Word \ {0}, Left(n) \in S PROVE n \in S
  <2> SUFFICES ASSUME n >= 0 PROVE SumOfTrits(Digits[n]) = n
    OBVIOUS
  <2>1. n \in Int
    BY Words
  <2>2. PICK p \in Int, d \in Trit :
          /\ p = Left(n) /\ d = Digit(n)
          /\ p >= 0 /\ n = 3 * p + d
    BY <2>1, DigitAndLeft
  <2>3. PICK s \in Seq(Trit) : s = Digits[p] /\ Digits[n] = Append(s, d)
    BY <2>2, DigitsOfLeft
  <2>4. PICK k \in Nat : k = Len(s)
    OBVIOUS
  <2>5. PICK r \in Seq(Trit) :
          r = Append(s, d) /\ Len(r) = k + 1 /\ r[k + 1] = d /\ \A i \in 1 .. k : r[i] = s[i]
    <3>1. PICK r : r = Append(s, d) /\ r \in Seq(Trit)
      BY AppendTyped
    <3>2. Len(r) = k + 1 /\ r[k + 1] = d
      BY <2>4, <3>1
    <3>3. \A i \in 1 .. k : r[i] = s[i]
      BY <2>4, <3>1
    <3> QED  BY <3>1, <3>2, <3>3
  <2>6. PICK f : Sums(f, s, k) /\ SumOfTrits(s) = f[k]
    BY <2>4, SumIsLast, TritsAreInts
  <2>7. PICK g : Sums(g, r, k + 1) /\ SumOfTrits(r) = g[k + 1]
    BY <2>5, SumIsLast, TritsAreInts
  <2>8. f[k] = g[k]
    <3>1. SamePrefix(s, r, k)
      BY <2>5 DEF SamePrefix
    <3> QED  BY <2>6, <2>7, <3>1, SumsAgree
  <2>9. f[k] = p
    BY <1>2, <2>2, <2>3, <2>6
  <2>10. g[k + 1] = Wrap(3 * g[k] + d)
    <3>1. k + 1 \in 1 .. k + 1 /\ (k + 1) - 1 = k
      OBVIOUS
    <3> QED  BY <2>5, <2>7, <3>1 DEF Sums
  <2>11. g[k + 1] = n
    BY <2>2, <2>8, <2>9, <2>10, WrapOfWord
  <2> QED  BY <2>3, <2>5, <2>7, <2>11
<1> HIDE DEF S
<1>3. \A n \in Word : n \in S
  BY <1>1, <1>2, WordInduction
<1> QED  BY <1>3 DEF S

(* The trits that int_to_balanced_ternary spells.                          *)
TritsOf(v) == IF v = 0 THEN <<0>> ELSE Digits[v]

LEMMA TritsOfWord ==
  ASSUME NEW v \in Word
  PROVE  /\ TritsOf(v) \in Seq(Trit) /\ Len(TritsOf(v)) >= 1 /\ Len(TritsOf(v)) <= 32
         /\ TritsOf(v)[1] = 0 => v = 0
         /\ int_to_balanced_ternary(v) = Spell(TritsOf(v))
<1>1. CASE v = 0
  <2>1. TritsOf(v) = <<0>>
    BY <1>1 DEF TritsOf
  <2>2. int_to_balanced_ternary(v) = Spell(TritsOf(v))
    BY DEF int_to_balanced_ternary, Spell, TritsOf
  <2>3. <<0>> \in Seq(Trit) /\ Len(<<0>>) = 1
    BY DEF Trit
  <2>4. Len(TritsOf(v)) >= 1 /\ Len(TritsOf(v)) <= 32
    BY <2>1, <2>3
  <2> QED  BY <1>1, <2>1, <2>2, <2>3, <2>4
<1>2. CASE v # 0
  <2>1. TritsOf(v) = Digits[v] /\ Digits[v] \in Seq(Trit)
    BY <1>2, DigitsDefined DEF TritsOf
  <2>2. int_to_balanced_ternary(v) = Spell(TritsOf(v))
    BY DEF int_to_balanced_ternary, Spell, TritsOf
  <2>3. Len(Digits[v]) >= 1 /\ Digits[v][1] # 0 /\ Len(Digits[v]) <= 32
    BY <1>2, LeadingTrit, DigitsFit
  <2>5. Len(TritsOf(v)) >= 1 /\ Len(TritsOf(v)) <= 32
    BY <2>1, <2>3
  <2>6. ~(TritsOf(v)[1] = 0)
    BY <2>1, <2>3
  <2> QED  BY <2>1, <2>2, <2>5, <2>6
<1> QED  BY <1>1, <1>2

(* A text of trits and digits has no zero byte.                            *)
LEMMA NoZeroByte ==
  ASSUME NEW s \in Seq(Letters) PROVE CString(s) = s
<1>1. \A i \in DOMAIN s : s[i] \in Letters
  OBVIOUS
<1>2. Zeros(s) = {}
  BY <1>1 DEF Zeros, Letters
<1> QED  BY <1>2 DEF CString

(* The text of a word: what the file device puts into a frame.             *)
LEMMA TextOfWord ==
  ASSUME NEW v \in Word
  PROVE  /\ int_to_balanced_ternary(v) \in Seq(Letters)
         /\ Len(int_to_balanced_ternary(v)) >= 1 /\ Len(int_to_balanced_ternary(v)) <= 32
  BY TritsOfWord, SpellTyped

LEMMA NumeralAll == ASSUME NEW v \in Word PROVE Numeral(v)
<1>1. PICK t \in Seq(Trit) : /\ t = TritsOf(v) /\ Len(t) >= 1 /\ Len(t) <= 32
                             /\ t[1] = 0 => v = 0
  BY TritsOfWord
<1>2. PICK s \in Seq(Letters) : /\ s = int_to_balanced_ternary(v) /\ s = Spell(t)
                                /\ Len(s) = Len(t) /\ s[1] = trit_to_char(t[1])
  BY <1>1, TritsOfWord, SpellTyped
<1>3. is_valid_balanced_ternary(s)
  <2>1. \A i \in DOMAIN s : s[i] \in Letters
    OBVIOUS
  <2> QED  BY <2>1 DEF is_valid_balanced_ternary, Letters
<1>4. s[1] # 48 \/ s = <<48>>
  <2> SUFFICES ASSUME s[1] = 48 PROVE s = <<48>>
    OBVIOUS
  <2>1. t[1] \in Trit
    BY <1>1
  <2>2. v = 0
    BY <1>1, <1>2, <2>1, LetterOfTrit
  <2>3. t = <<0>>
    BY <1>1, <2>2 DEF TritsOf
  <2> QED  BY <1>2, <2>3
<1>5. Len(s) < 64
  <2>1. PICK k \in Nat : k = Len(s) /\ k <= 32
    BY <1>1, <1>2
  <2> QED  BY <2>1
<1>6. v >= 0 => balanced_ternary_to_int(s) = v
  <2> SUFFICES ASSUME v >= 0 PROVE SumOfTrits(t) = v
    BY <1>1, <1>2, NoZeroByte, TritsReadBack DEF balanced_ternary_to_int
  <2>1. CASE v = 0
    <3>1. t = <<0>>
      BY <1>1, <2>1 DEF TritsOf
    <3>2. <<0>> \in Seq(Int) /\ Len(<<0>>) = 1 /\ <<0>>[1] = 0
      OBVIOUS
    <3>3. PICK f : Sums(f, <<0>>, 1) /\ SumOfTrits(<<0>>) = f[1]
      BY <3>2, SumIsLast
    <3>4. f[0] = 0 /\ f[1] = Wrap(3 * f[0] + 0)
      BY <3>2, <3>3 DEF Sums
    <3>5. f[1] = 0
      BY <3>4, Words, WrapOfWord
    <3> QED  BY <2>1, <3>1, <3>3, <3>5
  <2>2. CASE v # 0
    BY <1>1, <2>2, SumOfDigits DEF TritsOf
  <2> QED  BY <2>1, <2>2
<1> HIDE DEF Numeral
<1>7. LET x == int_to_balanced_ternary(v)
      IN  /\ is_valid_balanced_ternary(x)
          /\ x[1] # 48 \/ x = <<48>>
          /\ Len(x) < 64
          /\ v >= 0 => balanced_ternary_to_int(x) = v
  BY <1>2, <1>3, <1>4, <1>5, <1>6
<1> QED  BY <1>7 DEF Numeral

(* Whatever the bytes of a buffer, they are read as a word.                *)
LEMMA TritsTyped == ASSUME NEW s, NEW n \in Nat, DOMAIN s = 1 .. n PROVE TritsIn(s) \in Seq(Trit)
<1>1. \A c : char_to_trit(c) \in Trit
  BY DEF char_to_trit, Trit
<1>2. TritsIn(s) = [i \in 1 .. n |-> char_to_trit(s[i])]
  BY DEF TritsIn
<1> QED  BY <1>1, <1>2

LEMMA ReadIsWord ==
  ASSUME NEW T, NEW s \in Seq(T) PROVE balanced_ternary_to_int(s) \in Word
<1>1. PICK n \in Nat : DOMAIN CString(s) = 1 .. n
  <2>1. CASE Zeros(s) = {}
    BY <2>1 DEF CString
  <2>2. CASE Zeros(s) # {}
    <3>1. Zeros(s) \subseteq Nat
      BY DEF Zeros
    <3>2. PICK x \in Zeros(s) : \A y \in Zeros(s) : x <= y
      BY <2>2, <3>1, LeastNatural
    <3>3. Min(Zeros(s)) \in Zeros(s)
      BY <3>2 DEF Min
    <3>4. PICK m \in 1 .. Len(s) : m = Min(Zeros(s))
      <4>1. Zeros(s) \subseteq 1 .. Len(s)
        BY DEF Zeros
      <4> QED  BY <3>3, <4>1
    <3>5. CString(s) = SubSeq(s, 1, m - 1)
      BY <2>2, <3>4 DEF CString
    <3>6. m - 1 \in Nat /\ DOMAIN SubSeq(s, 1, m - 1) = 1 .. m - 1
      BY <3>4
    <3> QED  BY <3>5, <3>6
  <2> QED  BY <2>1, <2>2
<1>2. TritsIn(CString(s)) \in Seq(Trit)
  BY <1>1, TritsTyped
<1> QED  BY <1>1, <1>2, SumIsWord, TritsAreInts DEF balanced_ternary_to_int

-----------------------------------------------------------------------------
(* Words of trits.  At WordMax value + 1 overflows, so that value is left  *)
(* out.                                                                    *)
Below == Word \ {WordMax}

LEMMA BelowWords ==
  /\ \A x \in Below : x \in Int
  /\ \A x \in Int : x \in Below <=> WordMin <= x /\ x < WordMax
  BY Words DEF Below

LEMMA ByThree ==
  ASSUME NEW x \in Int
  PROVE  \E q \in Int, m \in Int : q = Quot(x, 3) /\ Divides(x, 3, q, m)
<1>1. ASSUME NEW d \in Int, d # 0
      PROVE  \E q \in Int, m \in Int : q = Quot(x, d) /\ Divides(x, d, q, m)
  BY <1>1, QuotRem
<1>2. 3 \in Int /\ ~(3 = 0)
  OBVIOUS
<1> QED  BY <1>1, <1>2

(* A trit taken off the low end, and what is left: the trits of a negative *)
(* value are not balanced.                                                 *)
TakesOff(n, r, t) ==
  /\ n = 3 * r + t
  /\ n >= 0 => 0 <= r /\ r <= n /\ t \in Trit
  /\ n < 0  => n <= r /\ r <= 0 /\ t \in -3 .. -1

LEMMA TakesOffTrit ==
  ASSUME NEW n \in Below
  PROVE  Above(n) \in Below /\ TritOf(n) \in -3 .. 1 /\ TakesOff(n, Above(n), TritOf(n))
<1>1. n \in Int /\ WordMin <= n /\ n < WordMax /\ WordMin \in Int /\ WordMax \in Int
  BY Words, BelowWords
<1>2. Wrap(n + 1) = n + 1
  <2>1. n + 1 \in Word
    BY <1>1, Words
  <2> QED  BY <2>1, WrapOfWord
<1>3. PICK q \in Int, m \in Int : q = Quot(n + 1, 3) /\ Divides(n + 1, 3, q, m)
  <2>1. n + 1 \in Int
    BY <1>1
  <2> QED  BY <2>1, ByThree
<1>4. n + 1 = 3 * q + m /\ m < 3 /\ -m < 3 /\ (m = 0 \/ (m < 0 <=> n + 1 < 0))
  BY <1>1, <1>3 DEF Divides
<1>5. Rem(n + 1, 3) = m
  BY <1>1, <1>3, <1>4 DEF Rem
<1>6. PICK t \in Int : t = TritOf(n) /\ t = m - 1
  BY <1>2, <1>5 DEF TritOf
<1>7. n - t = 3 * q
  BY <1>1, <1>4, <1>6
<1>8. PICK p \in Int, k \in Int : p = Quot(3 * q, 3) /\ Divides(3 * q, 3, p, k)
  <2>1. 3 * q \in Int
    OBVIOUS
  <2> QED  BY <2>1, ByThree
<1>9. p = q
  BY <1>8 DEF Divides
<1>10. Above(n) = q
  BY <1>6, <1>7, <1>8, <1>9 DEF Above
<1>11. TakesOff(n, q, t)
  <2>1. CASE n >= 0
    BY <1>1, <1>4, <1>6, <2>1 DEF TakesOff, Trit
  <2>2. CASE n < 0
    BY <1>1, <1>4, <1>6, <2>2 DEF TakesOff
  <2> QED  BY <1>1, <2>1, <2>2
<1>12. q \in Below /\ t \in -3 .. 1
  <2>1. CASE n >= 0
    <3>1. 0 <= q /\ q <= n /\ t \in -1 .. 1
      BY <1>11, <2>1 DEF TakesOff, Trit
    <3>2. WordMin <= q /\ q < WordMax
      BY <1>1, <3>1, Words
    <3> QED  BY <3>1, <3>2, BelowWords
  <2>2. CASE n < 0
    <3>1. n <= q /\ q <= 0 /\ t \in -3 .. -1
      BY <1>11, <2>2 DEF TakesOff
    <3>2. WordMin <= q /\ q < WordMax
      BY <1>1, <3>1, WordAssumption
    <3> QED  BY <3>1, <3>2, BelowWords
  <2> QED  BY <1>1, <2>1, <2>2
<1> QED  BY <1>6, <1>10, <1>11, <1>12

(* What RestAfter leaves, all the way down.                                *)
Rests(r, v) ==
  /\ r \in [0 .. TRITWORD_SIZE -> Below]
  /\ r[0] = v
  /\ \A i \in 1 .. TRITWORD_SIZE : r[i] = Above(r[i - 1])

LEMMA RestsExist == ASSUME NEW v \in Below PROVE \E r : Rests(r, v)
<1>1. PICK step : step = [p \in (1 .. TRITWORD_SIZE) \X Below |-> Above(p[2])]
  OBVIOUS
<1>2. \A i \in 1 .. TRITWORD_SIZE, w \in Below : step[<<i, w>>] = Above(w)
  BY <1>1
<1>3. step \in [(1 .. TRITWORD_SIZE) \X Below -> Below]
  BY <1>1, TakesOffTrit
<1>4. TRITWORD_SIZE \in Nat
  BY DEF TRITWORD_SIZE
<1>5. PICK r : Runs(r, TRITWORD_SIZE, Below, v, step)
  BY <1>3, <1>4, FollowsExists
<1>6. ASSUME NEW i \in 1 .. TRITWORD_SIZE PROVE r[i] = Above(r[i - 1])
  <2>1. i - 1 \in 0 .. TRITWORD_SIZE
    BY <1>4
  <2>2. r[i - 1] \in Below /\ r[i] = step[<<i, r[i - 1]>>]
    BY <1>5, <2>1 DEF Runs
  <2> QED  BY <1>2, <2>2
<1>7. Rests(r, v)
  BY <1>5, <1>6 DEF Rests, Runs
<1> QED  BY <1>7

LEMMA RestIs ==
  ASSUME NEW v \in Below, NEW r, Rests(r, v), NEW i \in 0 .. TRITWORD_SIZE
  PROVE  RestAfter(v, i) = r[i]
<1> DEFINE rest == CHOOSE g : g = [k \in 0 .. i |-> IF k = 0 THEN v ELSE Above(g[k - 1])]
<1>1. TRITWORD_SIZE \in Nat /\ i \in Nat
  BY DEF TRITWORD_SIZE
<1>2. PICK f : f = [k \in 0 .. i |-> r[k]]
  OBVIOUS
<1>3. f = [k \in 0 .. i |-> IF k = 0 THEN v ELSE Above(f[k - 1])]
  <2>1. ASSUME NEW k \in 0 .. i PROVE f[k] = IF k = 0 THEN v ELSE Above(f[k - 1])
    <3>1. CASE k = 0
      BY <1>1, <1>2, <3>1 DEF Rests
    <3>2. CASE k # 0
      <4>1. k \in 1 .. TRITWORD_SIZE /\ k - 1 \in 0 .. i
        BY <1>1, <3>2
      <4> QED  BY <1>2, <3>2, <4>1 DEF Rests
    <3> QED  BY <3>1, <3>2
  <2> QED  BY <1>2, <2>1
<1>4. rest = [k \in 0 .. i |-> IF k = 0 THEN v ELSE Above(rest[k - 1])]
  BY <1>3
<1>5. RestAfter(v, i) = rest[i]
  BY DEF RestAfter
<1> HIDE DEF rest
<1>6. PICK g : g = rest
  OBVIOUS
<1>7. g[0] = v /\ \A k \in 1 .. i : g[k] = Above(g[k - 1])
  <2>1. g = [k \in 0 .. i |-> IF k = 0 THEN v ELSE Above(g[k - 1])]
    BY <1>4, <1>6
  <2> QED  BY <1>1, <2>1
<1> DEFINE S == {k \in Nat : k <= i => g[k] = r[k]}
<1>8. 0 \in S
  BY <1>7 DEF Rests
<1>9. ASSUME NEW k \in Nat, k \in S PROVE k + 1 \in S
  <2> SUFFICES ASSUME k + 1 <= i PROVE g[k + 1] = r[k + 1]
    OBVIOUS
  <2>1. k + 1 \in 1 .. i /\ k + 1 \in 1 .. TRITWORD_SIZE /\ (k + 1) - 1 = k /\ k <= i
    BY <1>1
  <2>2. g[k] = r[k]
    BY <1>9, <2>1
  <2>3. g[k + 1] = Above(g[k])
    BY <1>7, <2>1
  <2>4. r[k + 1] = Above(r[k])
    BY <2>1 DEF Rests
  <2> QED  BY <2>2, <2>3, <2>4
<1>10. \A k \in Nat : k \in S
  <2> HIDE DEF S
  <2> QED  BY <1>8, <1>9, SetInduction
<1> QED  BY <1>1, <1>5, <1>6, <1>10

(* The sum of the trits so far and what was left when the next one was     *)
(* taken off: the sum is no further from zero.                             *)
Near(x, r) ==
  /\ r >= 0 => x <= r /\ (x = r \/ x >= 1 - r)
  /\ r <= 0 => r <= x /\ x <= 0

LEMMA NearStep ==
  ASSUME NEW n \in Below, NEW x \in Int, Near(x, Above(n))
  PROVE  3 * x + TritOf(n) \in Word /\ Near(3 * x + TritOf(n), n)
<1>1. PICK r \in Int, t \in Int :
         r = Above(n) /\ t = TritOf(n) /\ TakesOff(n, r, t) /\ Near(x, r)
  <2>1. Above(n) \in Below /\ TritOf(n) \in -3 .. 1 /\ TakesOff(n, Above(n), TritOf(n))
    BY TakesOffTrit
  <2>2. Above(n) \in Int /\ TritOf(n) \in Int
    BY <2>1, BelowWords
  <2> QED  BY <2>1, <2>2
<1>2. PICK m \in Int : m = n /\ WordMin <= m /\ m < WordMax /\ WordMin = -WordMax - 1 /\ WordMax \in Int
  <2>1. n \in Int /\ WordMin <= n /\ n < WordMax
    BY BelowWords
  <2>2. WordMin = -WordMax - 1 /\ WordMax \in Int
    BY Words
  <2> QED  BY <2>1, <2>2
<1>3. CASE m >= 0
  <2>1. m = 3 * r + t /\ 0 <= r /\ r <= m /\ -1 <= t /\ t <= 1 /\ x <= r /\ (x = r \/ x >= 1 - r)
    BY <1>1, <1>2, <1>3 DEF TakesOff, Near, Trit
  <2>2. 3 * x + t <= m /\ (3 * x + t = m \/ 3 * x + t >= 1 - m)
    BY <2>1
  <2>3. m <= 0 => 3 * x + t = 0
    BY <1>3, <2>1
  <2>4. Near(3 * x + t, m)
    BY <1>3, <2>2, <2>3 DEF Near
  <2>5. 3 * x + t \in Int /\ WordMin <= 3 * x + t /\ 3 * x + t <= WordMax
    BY <1>2, <1>3, <2>2
  <2> QED  BY <1>1, <1>2, <2>4, <2>5, Words
<1>4. CASE m < 0
  <2>1. m = 3 * r + t /\ m <= r /\ r <= 0 /\ -3 <= t /\ t <= -1 /\ r <= x /\ x <= 0
    BY <1>1, <1>2, <1>4 DEF TakesOff, Near
  <2>2. m <= 3 * x + t /\ 3 * x + t <= 0
    BY <2>1
  <2>4. Near(3 * x + t, m)
    BY <1>4, <2>2 DEF Near
  <2>5. 3 * x + t \in Int /\ WordMin <= 3 * x + t /\ 3 * x + t <= WordMax
    BY <1>2, <1>4, <2>2
  <2> QED  BY <1>1, <1>2, <2>4, <2>5, Words
<1> QED  BY <1>3, <1>4

Power(i) == 3 ^ i

LEMMA Powers ==
  /\ Power(0) = 1
  /\ \A i \in 1 .. TRITWORD_SIZE : Power(i) \in Nat /\ Power(i) = 3 * Power(i - 1)
<1>1. Power(0) = 1 /\ Power(1) = 3 /\ Power(2) = 9 /\ Power(3) = 27 /\ Power(4) = 81
      /\ Power(5) = 243 /\ Power(6) = 729
  BY DEF Power
<1>2. ASSUME NEW i \in 1 .. TRITWORD_SIZE PROVE Power(i) \in Nat /\ Power(i) = 3 * Power(i - 1)
  <2>1. i = 1 \/ i = 2 \/ i = 3 \/ i = 4 \/ i = 5 \/ i = 6
    BY DEF TRITWORD_SIZE
  <2>2. CASE i = 1
    BY <1>1, <2>2
  <2>3. CASE i = 2
    BY <1>1, <2>3
  <2>4. CASE i = 3
    BY <1>1, <2>4
  <2>5. CASE i = 4
    BY <1>1, <2>5
  <2>6. CASE i = 5
    BY <1>1, <2>6
  <2>7. CASE i = 6
    BY <1>1, <2>7
  <2> QED  BY <2>1, <2>2, <2>3, <2>4, <2>5, <2>6, <2>7
<1> QED  BY <1>1, <1>2

LEMMA PowersPositive == \A i \in 1 .. TRITWORD_SIZE : Power(i) \in Nat \ {0}
<1> DEFINE S == {i \in Nat : i <= TRITWORD_SIZE => Power(i) \in Nat \ {0}}
<1>1. 0 \in S
  BY Powers
<1>2. ASSUME NEW i \in Nat, i \in S PROVE i + 1 \in S
  <2> SUFFICES ASSUME i + 1 <= TRITWORD_SIZE PROVE Power(i + 1) \in Nat \ {0}
    OBVIOUS
  <2>1. i + 1 \in 1 .. TRITWORD_SIZE /\ (i + 1) - 1 = i /\ i <= TRITWORD_SIZE
    BY DEF TRITWORD_SIZE
  <2>2. PICK p \in Nat \ {0} : p = Power(i)
    BY <1>2, <2>1
  <2>3. Power(i + 1) = 3 * p
    BY <2>1, <2>2, Powers
  <2> QED  BY <2>3
<1>3. \A i \in Nat : i \in S
  <2> HIDE DEF S
  <2> QED  BY <1>1, <1>2, SetInduction
<1> QED  BY <1>3 DEF TRITWORD_SIZE

(* The trits of a word of n trits, and their partial sums.                 *)
TritsOfRests(w, r, n) ==
  /\ w \in Seq(Int) /\ Len(w) = n
  /\ \A i \in 1 .. n : w[i] = TritOf(r[n - i])

LEMMA WordSums ==
  ASSUME NEW v \in Below, NEW r, Rests(r, v), NEW n \in 1 .. TRITWORD_SIZE,
         NEW w, TritsOfRests(w, r, n), NEW f, Sums(f, w, n)
  PROVE  /\ \A i \in 0 .. n : Near(f[i], r[n - i]) /\ f[i] = r[n - i] - Power(i) * r[n]
         /\ \A i \in 1 .. n : f[i] = 3 * f[i - 1] + w[i]
<1>1. n \in Nat /\ n >= 1 /\ n <= TRITWORD_SIZE /\ TRITWORD_SIZE \in Nat
  BY DEF TRITWORD_SIZE
<1>2. r[n] \in Int /\ r \in [0 .. TRITWORD_SIZE -> Below]
  <2>1. r \in [0 .. TRITWORD_SIZE -> Below]
    BY DEF Rests
  <2>2. n \in 0 .. TRITWORD_SIZE
    BY <1>1
  <2>3. r[n] \in Below
    BY <2>1, <2>2
  <2> QED  BY <2>1, <2>3, BelowWords
<1>3. ASSUME NEW i \in 1 .. n
      PROVE  /\ r[n - i] \in Below /\ r[n - (i - 1)] = Above(r[n - i])
             /\ w[i] = TritOf(r[n - i]) /\ f[i] = Wrap(3 * f[i - 1] + w[i])
             /\ f[i - 1] \in Int
  <2>1. n - i \in 0 .. TRITWORD_SIZE /\ n - (i - 1) \in 1 .. TRITWORD_SIZE
        /\ (n - (i - 1)) - 1 = n - i /\ i - 1 \in 0 .. n
    BY <1>1
  <2>2. r[n - i] \in Below
    BY <1>2, <2>1
  <2>3. r[n - (i - 1)] = Above(r[n - i])
    BY <2>1 DEF Rests
  <2>4. f[i - 1] \in Int
    <3>1. f[i - 1] \in Word
      BY <2>1 DEF Sums
    <3> QED  BY <3>1, Words
  <2>5. f[i] = Wrap(3 * f[i - 1] + w[i])
    BY DEF Sums
  <2>6. w[i] = TritOf(r[n - i])
    BY DEF TritsOfRests
  <2> QED  BY <2>2, <2>3, <2>4, <2>5, <2>6
<1>4. ASSUME NEW i \in 1 .. n, Near(f[i - 1], r[n - (i - 1)])
      PROVE  Near(f[i], r[n - i]) /\ f[i] = 3 * f[i - 1] + w[i]
  <2>1. PICK x \in Int, m \in Below :
           x = f[i - 1] /\ m = r[n - i] /\ r[n - (i - 1)] = Above(m) /\ w[i] = TritOf(m)
    BY <1>3
  <2>2. 3 * x + TritOf(m) \in Word /\ Near(3 * x + TritOf(m), m)
    BY <1>4, <2>1, NearStep
  <2>3. f[i] = Wrap(3 * x + TritOf(m))
    BY <1>3, <2>1
  <2>4. f[i] = 3 * x + TritOf(m)
    BY <2>2, <2>3, WrapOfWord
  <2> QED  BY <2>1, <2>2, <2>4
<1> DEFINE S == {i \in Nat : i <= n => Near(f[i], r[n - i]) /\ f[i] = r[n - i] - Power(i) * r[n]}
<1>5. 0 \in S
  <2>1. f[0] = 0 /\ n - 0 = n /\ Power(0) = 1
    BY <1>1, Powers DEF Sums
  <2>2. Near(0, r[n])
    BY <1>2 DEF Near
  <2>3. 0 = r[n] - 1 * r[n]
    BY <1>2
  <2> QED  BY <2>1, <2>2, <2>3
<1>6. ASSUME NEW i \in Nat, i \in S PROVE i + 1 \in S
  <2> SUFFICES ASSUME i + 1 <= n
               PROVE  /\ Near(f[i + 1], r[n - (i + 1)])
                      /\ f[i + 1] = r[n - (i + 1)] - Power(i + 1) * r[n]
    OBVIOUS
  <2>1. PICK j \in 1 .. n : j = i + 1 /\ j - 1 = i /\ i <= n
    BY <1>1
  <2>2. Near(f[i], r[n - i]) /\ f[i] = r[n - i] - Power(i) * r[n]
    BY <1>6, <2>1
  <2>3. Near(f[j], r[n - j]) /\ f[j] = 3 * f[i] + w[j]
    BY <1>4, <2>1, <2>2
  <2>4. PICK m \in Int, a \in Int, t \in Int, z \in Int :
           m = r[n - j] /\ a = r[n - i] /\ t = w[j] /\ z = r[n] /\ m = 3 * a + t
    <3>1. r[n - j] \in Below /\ r[n - i] = Above(r[n - j]) /\ w[j] = TritOf(r[n - j])
      BY <1>3, <2>1
    <3>2. TakesOff(r[n - j], r[n - i], w[j]) /\ r[n - i] \in Below /\ w[j] \in -3 .. 1
      BY <3>1, TakesOffTrit
    <3>3. r[n - j] = 3 * r[n - i] + w[j]
      BY <3>2 DEF TakesOff
    <3>4. r[n - j] \in Int /\ r[n - i] \in Int
      BY <3>1, <3>2, BelowWords
    <3>5. w[j] \in Int
      BY <3>2
    <3> QED  BY <1>2, <3>3, <3>4, <3>5
  <2>5. PICK p \in Int : p = Power(i) /\ Power(j) = 3 * p
    <3>1. j \in 1 .. TRITWORD_SIZE
      BY <1>1, <2>1
    <3>2. Power(j) = 3 * Power(i)
      BY <2>1, <3>1, Powers
    <3>3. Power(i) \in Int
      <4>1. CASE i = 0
        BY <4>1, Powers
      <4>2. CASE i # 0
        <5>1. i \in 1 .. TRITWORD_SIZE
          BY <1>1, <2>1, <4>2
        <5>2. Power(i) \in Nat
          BY <5>1, Powers
        <5> QED  BY <5>2
      <4> QED  BY <4>1, <4>2
    <3> QED  BY <3>2, <3>3
  <2>6. PICK d \in Int : d = p * z
    OBVIOUS
  <2>7. (3 * p) * z = 3 * d
    BY <2>6
  <2>8. 3 * (a - d) + t = m - 3 * d
    BY <2>4
  <2>9. f[j] = m - (3 * p) * z
    <3>1. f[i] = a - d
      BY <2>2, <2>4, <2>5, <2>6
    <3> QED  BY <2>3, <2>4, <2>7, <2>8, <3>1
  <2> QED  BY <2>1, <2>3, <2>4, <2>5, <2>9
<1>7. \A i \in Nat : i \in S
  <2> HIDE DEF S
  <2> QED  BY <1>5, <1>6, SetInduction
<1>8. \A i \in 0 .. n : Near(f[i], r[n - i]) /\ f[i] = r[n - i] - Power(i) * r[n]
  BY <1>7
<1>9. ASSUME NEW i \in 1 .. n PROVE f[i] = 3 * f[i - 1] + w[i]
  <2>1. i - 1 \in 0 .. n
    BY <1>1
  <2>2. Near(f[i - 1], r[n - (i - 1)])
    BY <1>8, <2>1
  <2> QED  BY <1>4, <2>2
<1> QED  BY <1>8, <1>9

Sizes == 1 .. TRITWORD_SIZE + 1

LEMMA SizeIs == ASSUME NEW size \in Sizes PROVE SizeOf(size) \in 1 .. TRITWORD_SIZE
  BY DEF Sizes, SizeOf, TRITWORD_SIZE

LEMMA TritsOfWordAre ==
  ASSUME NEW v \in Below, NEW size \in Sizes
  PROVE  \E r : Rests(r, v) /\ TritsOfRests(tritword_from_int(v, size), r, SizeOf(size))
<1>1. PICK r : Rests(r, v)
  BY RestsExist
<1>2. PICK n \in 1 .. TRITWORD_SIZE : n = SizeOf(size)
  BY SizeIs
<1>3. TRITWORD_SIZE \in Nat
  BY DEF TRITWORD_SIZE
<1>4. ASSUME NEW i \in 1 .. n
      PROVE  TritOf(RestAfter(v, n - i)) = TritOf(r[n - i]) /\ TritOf(r[n - i]) \in Int
  <2>1. n - i \in 0 .. TRITWORD_SIZE
    BY <1>3
  <2>2. RestAfter(v, n - i) = r[n - i]
    BY <1>1, <2>1, RestIs
  <2>3. r[n - i] \in Below
    BY <1>1, <2>1 DEF Rests
  <2>4. TritOf(r[n - i]) \in -3 .. 1
    BY <2>3, TakesOffTrit
  <2> QED  BY <2>2, <2>4
<1>5. PICK w : w = tritword_from_int(v, size)
  OBVIOUS
<1>6. w = [i \in 1 .. n |-> TritOf(r[n - i])]
  BY <1>2, <1>4, <1>5 DEF tritword_from_int
<1>7. w \in Seq(Int) /\ Len(w) = n /\ \A i \in 1 .. n : w[i] = TritOf(r[n - i])
  BY <1>4, <1>6
<1> QED  BY <1>1, <1>2, <1>5, <1>7 DEF TritsOfRests

(* A value that fits the trits of a word survives it; one that does not    *)
(* loses a multiple of the power of three.                                 *)
KeptAs(v, word, power) ==
  /\ (v - word) % power = 0
  /\ 2 * v \in 1 - power .. power - 1 => word = v

LEMMA NearIsKept ==
  ASSUME NEW v \in Int, NEW z \in Int, NEW p \in Nat \ {0}, NEW x \in Int,
         x = v - p * z, Near(x, v), (v >= 0 => z >= 0) /\ (v < 0 => z <= 0)
  PROVE  KeptAs(v, x, p)
<1>1. PICK d \in Int : d = p * z
  OBVIOUS
<1>2. v - x = p * z
  BY <1>1
<1>3. (v - x) % p = 0
  BY <1>2
<1>4. ASSUME 2 * v \in 1 - p .. p - 1 PROVE x = v
  <2>1. CASE z = 0
    BY <2>1
  <2>2. CASE z >= 1
    <3>1. d >= p
      BY <1>1, <2>2
    <3>2. v >= 0
      BY <2>2
    <3>3. x = v \/ x >= 1 - v
      BY <3>2 DEF Near
    <3> QED  BY <1>1, <1>4, <3>1, <3>3
  <2>3. CASE z <= -1
    <3>1. d <= -p
      BY <1>1, <2>3
    <3>2. v < 0
      BY <2>3
    <3>3. x <= 0
      BY <3>2 DEF Near
    <3> QED  BY <1>1, <1>4, <3>1, <3>3
  <2> QED  BY <2>1, <2>2, <2>3
<1> QED  BY <1>3, <1>4 DEF KeptAs

(* Taking trits off never crosses zero.                                    *)
LEMMA RestsKeepSign ==
  ASSUME NEW v \in Below, NEW r, Rests(r, v), NEW n \in 0 .. TRITWORD_SIZE
  PROVE  r[n] \in Below /\ (v >= 0 => r[n] >= 0) /\ (v < 0 => r[n] <= 0)
<1> DEFINE Signed(k) == (v >= 0 => r[k] >= 0) /\ (v < 0 => r[k] <= 0)
           S == {k \in Nat : k <= TRITWORD_SIZE => r[k] \in Below /\ Signed(k)}
<1>1. TRITWORD_SIZE \in Nat /\ v \in Int
  BY BelowWords DEF TRITWORD_SIZE
<1>2. 0 \in S
  <2>1. r[0] = v
    BY DEF Rests
  <2> QED  BY <1>1, <2>1
<1>3. ASSUME NEW k \in Nat, k \in S PROVE k + 1 \in S
  <2> SUFFICES ASSUME k + 1 <= TRITWORD_SIZE PROVE r[k + 1] \in Below /\ Signed(k + 1)
    OBVIOUS
  <2>1. r[k] \in Below /\ Signed(k)
    BY <1>1, <1>3
  <2>2. r[k + 1] = Above(r[k])
    <3>1. k + 1 \in 1 .. TRITWORD_SIZE /\ (k + 1) - 1 = k
      BY <1>1
    <3> QED  BY <3>1 DEF Rests
  <2>3. r[k + 1] \in Below /\ TakesOff(r[k], r[k + 1], TritOf(r[k])) /\ r[k] \in Int
    BY <2>1, <2>2, TakesOffTrit, BelowWords
  <2>4. r[k + 1] \in Int
    BY <2>3, BelowWords
  <2>5. (r[k] >= 0 => 0 <= r[k + 1] /\ r[k + 1] <= r[k]) /\ (r[k] < 0 => r[k + 1] <= 0)
    BY <2>3 DEF TakesOff
  <2> QED  BY <1>1, <2>1, <2>3, <2>4, <2>5
<1>4. \A k \in Nat : k \in S
  <2> HIDE DEF S
  <2> QED  BY <1>2, <1>3, SetInduction
<1> QED  BY <1>1, <1>4

LEMMA KeptAll == ASSUME NEW v \in Word, NEW size \in Sizes PROVE Kept(v, size)
<1> SUFFICES ASSUME v < WordMax
             PROVE  KeptAs(v, tritword_to_int(tritword_from_int(v, size)), 3 ^ SizeOf(size))
  BY DEF Kept, KeptAs
<1>1. v \in Below /\ v \in Int
  BY Words, BelowWords
<1>2. PICK n \in 1 .. TRITWORD_SIZE : n = SizeOf(size)
  BY SizeIs
<1>3. PICK r : Rests(r, v) /\ TritsOfRests(tritword_from_int(v, size), r, SizeOf(size))
  BY <1>1, TritsOfWordAre
<1>4. PICK w : /\ w = tritword_from_int(v, size) /\ n = SizeOf(size)
               /\ Rests(r, v) /\ TritsOfRests(w, r, n)
  BY <1>2, <1>3
<1>5. PICK f : Sums(f, w, n) /\ SumOfTrits(w) = f[n]
  BY <1>4, SumIsLast DEF TritsOfRests
<1>6. n \in 0 .. n /\ n \in 0 .. TRITWORD_SIZE /\ n - n = 0
  BY DEF TRITWORD_SIZE
<1>7. Near(f[n], r[n - n]) /\ f[n] = r[n - n] - Power(n) * r[n]
  BY <1>1, <1>4, <1>5, <1>6, WordSums
<1>8. r[n - n] = v
  BY <1>4, <1>6 DEF Rests
<1>9. PICK z \in Int : z = r[n] /\ (v >= 0 => z >= 0) /\ (v < 0 => z <= 0)
  <2>1. r[n] \in Below /\ (v >= 0 => r[n] >= 0) /\ (v < 0 => r[n] <= 0)
    BY <1>1, <1>4, <1>6, RestsKeepSign
  <2>2. r[n] \in Int
    BY <2>1, BelowWords
  <2> QED  BY <2>1, <2>2
<1>10. PICK p \in Nat \ {0} : p = Power(n)
  BY PowersPositive
<1>11. PICK x \in Int : x = f[n] /\ x = v - p * z /\ Near(x, v)
  BY <1>1, <1>7, <1>8, <1>9, <1>10
<1>12. KeptAs(v, x, p)
  BY <1>1, <1>9, <1>11, NearIsKept
<1> QED  BY <1>4, <1>5, <1>10, <1>11, <1>12 DEF tritword_to_int, Power

(* The characters of a word that is not negative.                          *)
TextOf(w) == tritword_to_string(w, Len(w) + 1)

LEMMA TextOfTrits ==
  ASSUME NEW w \in Seq(Trit)
  PROVE  /\ is_valid_balanced_ternary(TextOf(w))
         /\ balanced_ternary_to_int(TextOf(w)) = tritword_to_int(w)
<1>1. PICK n \in Nat : /\ n = Len(w) /\ DOMAIN w = 1 .. n
                       /\ \A i \in 1 .. n : w[i] \in Trit
                       /\ w = [i \in 1 .. n |-> w[i]]
  OBVIOUS
<1>2. ~(n + 1 < Len(w) + 1)
  BY <1>1
<1>3. PICK s : s = TextOf(w)
  OBVIOUS
<1>4. s = [i \in 1 .. n |-> CASE w[i] = -1 -> 45 [] w[i] = 0 -> 48 [] w[i] = 1 -> 43 [] OTHER -> 63]
  BY <1>1, <1>2, <1>3 DEF TextOf, tritword_to_string
<1>5. ASSUME NEW i \in 1 .. n PROVE s[i] \in {45, 48, 43} /\ char_to_trit(s[i]) = w[i]
  <2>1. w[i] = -1 \/ w[i] = 0 \/ w[i] = 1
    BY <1>1 DEF Trit
  <2>2. CASE w[i] = -1
    <3>1. s[i] = 45
      BY <1>4, <2>2
    <3> QED  BY <2>2, <3>1 DEF char_to_trit
  <2>3. CASE w[i] = 0
    <3>1. s[i] = 48
      BY <1>4, <2>3
    <3> QED  BY <2>3, <3>1 DEF char_to_trit
  <2>4. CASE w[i] = 1
    <3>1. s[i] = 43
      BY <1>4, <2>4
    <3> QED  BY <2>4, <3>1 DEF char_to_trit
  <2> QED  BY <2>1, <2>2, <2>3, <2>4
<1>6. DOMAIN s = 1 .. n
  BY <1>4
<1>7. is_valid_balanced_ternary(s)
  BY <1>5, <1>6 DEF is_valid_balanced_ternary
<1>8. CString(s) = s
  <2>1. Zeros(s) = {}
    BY <1>5, <1>6 DEF Zeros
  <2> QED  BY <2>1 DEF CString
<1>9. TritsIn(s) = [i \in 1 .. n |-> w[i]]
  BY <1>5, <1>6 DEF TritsIn
<1>10. balanced_ternary_to_int(s) = SumOfTrits(w)
  BY <1>1, <1>8, <1>9 DEF balanced_ternary_to_int
<1> QED  BY <1>3, <1>7, <1>10 DEF tritword_to_int

LEMMA BalancedTrits ==
  ASSUME NEW v \in Below, v >= 0, NEW r, Rests(r, v), NEW n \in 1 .. TRITWORD_SIZE,
         NEW w, TritsOfRests(w, r, n)
  PROVE  w \in Seq(Trit)
<1>1. n \in Nat /\ TRITWORD_SIZE \in Nat
  BY DEF TRITWORD_SIZE
<1>2. ASSUME NEW i \in 1 .. n PROVE w[i] \in Trit
  <2>1. n - i \in 0 .. TRITWORD_SIZE
    BY <1>1
  <2>2. r[n - i] \in Below /\ r[n - i] >= 0
    BY <2>1, RestsKeepSign
  <2>3. TritOf(r[n - i]) \in Trit
    BY <2>2, TakesOffTrit DEF TakesOff
  <2> QED  BY <2>3 DEF TritsOfRests
<1>3. w \in Seq(Int) /\ Len(w) = n
  BY DEF TritsOfRests
<1>4. w = [i \in 1 .. n |-> w[i]]
  BY <1>3
<1> QED  BY <1>1, <1>2, <1>4

(* The leading trits of a word hold its value divided by three.            *)
LEMMA LeadingTrits ==
  ASSUME NEW v \in Below, v >= 0, NEW r, Rests(r, v), NEW n \in 1 .. TRITWORD_SIZE,
         NEW w, TritsOfRests(w, r, n)
  PROVE  tritword_to_int(w) - 3 * tritword_to_int(tritword_init(w, n - 1)) \in Trit
<1>1. w \in Seq(Int) /\ Len(w) = n /\ n \in Nat /\ n - 1 \in Nat /\ n - 1 <= n /\ n \in 1 .. n
  BY DEF TritsOfRests
<1>2. PICK f : Sums(f, w, n) /\ SumOfTrits(w) = f[n]
  BY <1>1, SumIsLast
<1>3. SizeOf(n - 1) = n - 1
  BY DEF SizeOf, TRITWORD_SIZE
<1>4. PICK u : u = tritword_init(w, n - 1) /\ u = SubSeq(w, 1, n - 1)
  BY <1>3 DEF tritword_init
<1>5. u \in Seq(Int) /\ Len(u) = n - 1 /\ \A i \in 1 .. n - 1 : u[i] = w[i]
  BY <1>1, <1>4
<1>6. PICK g : Sums(g, u, n - 1) /\ SumOfTrits(u) = g[n - 1]
  BY <1>5, SumIsLast
<1>7. g[n - 1] = f[n - 1]
  <2>1. SamePrefix(u, w, n - 1)
    BY <1>5 DEF SamePrefix
  <2> QED  BY <1>1, <1>2, <1>6, <2>1, SumsAgree
<1>8. f[n] = 3 * f[n - 1] + w[n]
  BY <1>1, <1>2, WordSums
<1>9. w[n] \in Trit
  <2>1. w \in Seq(Trit)
    BY BalancedTrits
  <2> QED  BY <1>1, <2>1
<1>10. PICK x \in Int : x = f[n - 1]
  <2>1. n - 1 \in 0 .. n
    BY <1>1
  <2>2. f[n - 1] \in Word
    BY <1>2, <2>1 DEF Sums
  <2> QED  BY <2>2, Words
<1>11. PICK t \in Trit : t = w[n]
  BY <1>9
<1>12. (3 * x + t) - 3 * x = t
  BY <1>11 DEF Trit
<1>13. SumOfTrits(w) = 3 * x + t /\ SumOfTrits(u) = x
  BY <1>2, <1>6, <1>7, <1>8, <1>10, <1>11
<1> QED  BY <1>4, <1>11, <1>12, <1>13 DEF tritword_to_int

LEMMA NothingSums ==
  ASSUME NEW n \in Nat PROVE SumOfTrits([i \in 1 .. n |-> 0]) = 0
<1>1. PICK w : w = [i \in 1 .. n |-> 0] /\ w \in Seq(Int) /\ Len(w) = n
               /\ \A i \in 1 .. n : w[i] = 0
  <2>1. PICK w : w = [i \in 1 .. n |-> 0]
    OBVIOUS
  <2>2. w \in Seq(Int) /\ Len(w) = n
    BY <2>1
  <2> QED  BY <2>1, <2>2
<1>2. PICK f : Sums(f, w, n) /\ SumOfTrits(w) = f[n]
  BY <1>1, SumIsLast
<1> DEFINE S == {i \in Nat : i <= n => f[i] = 0}
<1>3. 0 \in S
  BY <1>2 DEF Sums
<1>4. ASSUME NEW i \in Nat, i \in S PROVE i + 1 \in S
  <2> SUFFICES ASSUME i + 1 <= n PROVE f[i + 1] = 0
    OBVIOUS
  <2>1. i + 1 \in 1 .. n /\ (i + 1) - 1 = i /\ f[i] = 0
    BY <1>4
  <2>2. f[i + 1] = Wrap(3 * f[i] + w[i + 1])
    BY <1>2, <2>1 DEF Sums
  <2>3. 3 * f[i] + w[i + 1] = 0
    BY <1>1, <2>1
  <2>4. Wrap(0) = 0
    <3>1. 0 \in Word
      BY Words
    <3> QED  BY <3>1, WrapOfWord
  <2> QED  BY <2>2, <2>3, <2>4
<1>5. \A i \in Nat : i \in S
  <2> HIDE DEF S
  <2> QED  BY <1>3, <1>4, SetInduction
<1> QED  BY <1>1, <1>2, <1>5

LEMMA SpelledAll == ASSUME NEW v \in Word, NEW size \in Sizes PROVE Spelled(v, size)
<1>1. PICK n \in 1 .. TRITWORD_SIZE : n = SizeOf(size) /\ n \in Nat
  <2>1. SizeOf(size) \in 1 .. TRITWORD_SIZE
    BY SizeIs
  <2> QED  BY <2>1
<1>2. PICK w : w = tritword_from_int(v, size) /\ DOMAIN w = 1 .. n /\ Len(w) = n
  <2>1. DOMAIN tritword_from_int(v, size) = 1 .. n
    BY <1>1 DEF tritword_from_int
  <2>2. Len(tritword_from_int(v, size)) = n
    BY <1>1, <2>1 DEF tritword_from_int
  <2> QED  BY <2>1, <2>2
<1>3. ASSUME v \in 0 .. WordMax - 1
      PROVE  /\ is_valid_balanced_ternary(tritword_to_string(w, n + 1))
             /\ balanced_ternary_to_int(tritword_to_string(w, n + 1)) = tritword_to_int(w)
             /\ tritword_to_int(w) - 3 * tritword_to_int(tritword_init(w, n - 1)) \in Trit
  <2>1. v \in Below /\ v >= 0
    BY <1>3, Words, BelowWords
  <2>2. PICK r : Rests(r, v) /\ TritsOfRests(w, r, n)
    BY <1>1, <1>2, <2>1, TritsOfWordAre
  <2>3. w \in Seq(Trit)
    BY <2>1, <2>2, BalancedTrits
  <2>4. tritword_to_string(w, n + 1) = TextOf(w)
    BY <1>2 DEF TextOf
  <2>5. tritword_to_int(w) - 3 * tritword_to_int(tritword_init(w, n - 1)) \in Trit
    BY <2>1, <2>2, LeadingTrits
  <2> QED  BY <2>3, <2>4, <2>5, TextOfTrits
<1>4. tritword_to_string(w, n) = <<>>
  <2>1. n < Len(w) + 1
    BY <1>1, <1>2
  <2> QED  BY <2>1 DEF tritword_to_string
<1>5. tritword_to_int(tritword_init_empty(size)) = 0
  BY <1>1, NothingSums DEF tritword_to_int, tritword_init_empty
<1> HIDE DEF Spelled
<1> QED  BY <1>1, <1>2, <1>3, <1>4, <1>5 DEF Spelled
=============================================================================
