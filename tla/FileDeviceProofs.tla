------------------------- MODULE FileDeviceProofs -------------------------
(***************************************************************************)
(* Theorems of FileDevice, for every set of values a program writes, every *)
(* earlier file and any bounds.                                            *)
(***************************************************************************)
EXTENDS FileDevice, CodecProofs

Byte == 0 .. 255

LEMMA Concat ==
  ASSUME NEW T, NEW s \in Seq(T), NEW t \in Seq(T)
  PROVE  /\ s \o t \in Seq(T) /\ Len(s \o t) = Len(s) + Len(t)
         /\ \A k \in 1 .. Len(s) : (s \o t)[k] = s[k]
         /\ \A k \in 1 .. Len(t) : (s \o t)[Len(s) + k] = t[k]
  OBVIOUS

LEMMA ConcatEmpty ==
  ASSUME NEW T, NEW s \in Seq(T)
  PROVE  <<>> \in Seq(T) /\ s \o <<>> = s /\ <<>> \o s = s
  OBVIOUS

LEMMA ConcatAssociates ==
  ASSUME NEW T, NEW s \in Seq(T), NEW t \in Seq(T), NEW u \in Seq(T)
  PROVE  (s \o t) \o u = s \o (t \o u)
  OBVIOUS

LEMMA SubSeqTyped ==
  ASSUME NEW T, NEW s \in Seq(T), NEW i \in Nat, NEW j \in Nat, i >= 1, j <= Len(s), i <= j + 1
  PROVE  /\ SubSeq(s, i, j) \in Seq(T) /\ Len(SubSeq(s, i, j)) = j - i + 1
         /\ \A k \in 1 .. j - i + 1 : SubSeq(s, i, j)[k] = s[i + k - 1]
  OBVIOUS

LEMMA SameSequence ==
  ASSUME NEW T, NEW s \in Seq(T), NEW t \in Seq(T), Len(s) = Len(t),
         \A k \in 1 .. Len(s) : s[k] = t[k]
  PROVE  s = t
  OBVIOUS

LEMMA Split ==
  ASSUME NEW T, NEW s \in Seq(T), NEW k \in Nat, k <= Len(s)
  PROVE  /\ SubSeq(s, 1, k) \in Seq(T) /\ SubSeq(s, k + 1, Len(s)) \in Seq(T)
         /\ SubSeq(s, 1, k) \o SubSeq(s, k + 1, Len(s)) = s
<1>1. PICK n \in Nat : n = Len(s)
  OBVIOUS
<1>2. PICK p \in Seq(T) : p = SubSeq(s, 1, k) /\ Len(p) = k /\ \A i \in 1 .. k : p[i] = s[i]
  <2>1. SubSeq(s, 1, k) \in Seq(T) /\ Len(SubSeq(s, 1, k)) = k
    BY SubSeqTyped
  <2>2. \A i \in 1 .. k : SubSeq(s, 1, k)[i] = s[i]
    OBVIOUS
  <2> QED  BY <2>1, <2>2
<1>3. PICK q \in Seq(T) :
        q = SubSeq(s, k + 1, n) /\ Len(q) = n - k /\ \A i \in 1 .. n - k : q[i] = s[k + i]
  <2>1. SubSeq(s, k + 1, n) \in Seq(T) /\ Len(SubSeq(s, k + 1, n)) = n - k
    <3>1. k + 1 \in Nat /\ k + 1 >= 1 /\ n <= Len(s) /\ k + 1 <= n + 1 /\ n - (k + 1) + 1 = n - k
      BY <1>1
    <3> QED  BY <3>1, SubSeqTyped
  <2>2. \A i \in 1 .. n - k : SubSeq(s, k + 1, n)[i] = s[k + i]
    BY <1>1
  <2> QED  BY <2>1, <2>2
<1>4. PICK r \in Seq(T) :
        /\ r = p \o q
        /\ Len(r) = Len(p) + Len(q)
        /\ \A i \in 1 .. Len(p) : r[i] = p[i]
        /\ \A i \in 1 .. Len(q) : r[Len(p) + i] = q[i]
  <2>1. p \o q \in Seq(T)
    BY Concat
  <2> WITNESS p \o q \in Seq(T)
  <2> QED  BY Concat
<1>5. /\ Len(r) = n
      /\ \A i \in 1 .. k : r[i] = p[i]
      /\ \A i \in 1 .. n - k : r[k + i] = q[i]
  <2>1. Len(r) = n
    <3>1. Len(p) = k /\ Len(q) = n - k /\ Len(r) = Len(p) + Len(q)
      BY <1>2, <1>3, <1>4
    <3>2. Len(r) = k + (n - k)
      BY <3>1
    <3> QED  BY <3>2
  <2>2. \A i \in 1 .. k : r[i] = p[i]
    BY <1>2, <1>4
  <2>3. \A i \in 1 .. n - k : r[k + i] = q[i]
    BY <1>2, <1>3, <1>4
  <2> QED  BY <2>1, <2>2, <2>3
<1>6. \A i \in 1 .. n : r[i] = s[i]
  <2>1. ASSUME NEW i \in 1 .. n PROVE r[i] = s[i]
    <3>1. CASE i <= k
      BY <1>2, <1>5, <3>1
    <3>2. CASE i > k
      <4>1. i - k \in 1 .. n - k /\ k + (i - k) = i
        BY <3>2
      <4> QED  BY <1>3, <1>5, <4>1
    <3> QED  BY <3>1, <3>2
  <2> QED  BY <2>1
<1>7. r = s
  BY <1>1, <1>5, <1>6, SameSequence
<1> QED  BY <1>1, <1>2, <1>3, <1>4, <1>7

-----------------------------------------------------------------------------
(* The frame of a word is bytes: a length that t3_read_value accepts and   *)
(* the numeral.                                                            *)
LEMMA FrameOfWord ==
  ASSUME NEW v \in Word
  PROVE  \E s \in Seq(Letters), l \in Nat :
           /\ s = int_to_balanced_ternary(v)
           /\ l = Len(s)
           /\ l >= 1 /\ l <= 32
           /\ Frame(v) \in Seq(Byte)
           /\ Len(Frame(v)) = l + 1
           /\ Frame(v)[1] = l
           /\ \A k \in 1 .. l : Frame(v)[1 + k] = s[k]
<1>1. PICK s \in Seq(Letters) : s = int_to_balanced_ternary(v) /\ Len(s) >= 1 /\ Len(s) <= 32
  BY TextOfWord
<1>2. PICK l \in Nat : l = Len(s) /\ l >= 1 /\ l <= 32
  BY <1>1
<1>3. <<l>> \in Seq(Byte) /\ Len(<<l>>) = 1
  <2>1. l \in Byte
    <3>1. l <= 255
      BY <1>2
    <3> QED  BY <3>1 DEF Byte
  <2> QED  BY <2>1
<1>4. s \in Seq(Byte)
  BY DEF Letters, Byte
<1>5. Frame(v) = <<l>> \o s
  BY <1>1, <1>2 DEF Frame
<1>6. /\ <<l>> \o s \in Seq(Byte) /\ Len(<<l>> \o s) = 1 + Len(s)
      /\ (<<l>> \o s)[1] = l
      /\ \A k \in 1 .. Len(s) : (<<l>> \o s)[1 + k] = s[k]
  BY <1>3, <1>4, Concat
<1>7. Len(Frame(v)) = l + 1
  BY <1>2, <1>5, <1>6
<1>8. \A k \in 1 .. l : Frame(v)[1 + k] = s[k]
  BY <1>2, <1>5, <1>6
<1> WITNESS s \in Seq(Letters), l \in Nat
<1> QED  BY <1>1, <1>2, <1>5, <1>6, <1>7, <1>8

AreFrames(f, values, n) ==
  /\ f \in [0 .. n -> Seq(Byte)]
  /\ f[0] = <<>>
  /\ \A i \in 1 .. n : f[i] = f[i - 1] \o Frame(values[i])

LEMMA FramesDefined ==
  ASSUME NEW values \in Seq(Word), NEW n \in Nat, n = Len(values)
  PROVE  \E f : AreFrames(f, values, n) /\ Frames(values) = f[n]
<1>1. \A i \in 1 .. n : values[i] \in Word
  OBVIOUS
<1>2. PICK V : V = Seq(Byte)
  OBVIOUS
<1>3. PICK step : step = [p \in (1 .. n) \X V |-> p[2] \o Frame(values[p[1]])]
  OBVIOUS
<1>4. \A i \in 1 .. n, b \in V : b \o Frame(values[i]) \in V
  <2>1. ASSUME NEW i \in 1 .. n, NEW b \in V PROVE b \o Frame(values[i]) \in V
    <3>1. Frame(values[i]) \in Seq(Byte)
      BY <1>1, FrameOfWord
    <3> QED  BY <1>2, <3>1, Concat
  <2> QED  BY <2>1
<1>5. step \in [(1 .. n) \X V -> V]
  BY <1>3, <1>4
<1>6. PICK e : e = <<>> /\ e \in V
  <2>1. <<>> \in V
    BY <1>2
  <2> QED  BY <2>1
<1>7. PICK g : Runs(g, n, V, e, step)
  BY <1>5, <1>6, FollowsExists
<1>8. \A i \in 1 .. n : g[i] = g[i - 1] \o Frame(values[i])
  <2>1. ASSUME NEW i \in 1 .. n PROVE g[i] = g[i - 1] \o Frame(values[i])
    <3>1. i - 1 \in 0 .. n
      OBVIOUS
    <3>2. g[i - 1] \in V /\ g[i] = step[<<i, g[i - 1]>>]
      BY <1>7, <3>1 DEF Runs
    <3>3. step[<<i, g[i - 1]>>] = g[i - 1] \o Frame(values[i])
      BY <1>3, <3>2
    <3> QED  BY <3>2, <3>3
  <2> QED  BY <2>1
<1> DEFINE upTo == CHOOSE f : f = [i \in 0 .. n |-> IF i = 0 THEN <<>>
                                                     ELSE f[i - 1] \o Frame(values[i])]
<1>9. g = [i \in 0 .. n |-> IF i = 0 THEN <<>> ELSE g[i - 1] \o Frame(values[i])]
  BY <1>6, <1>7, <1>8 DEF Runs
<1>10. upTo = [i \in 0 .. n |-> IF i = 0 THEN <<>> ELSE upTo[i - 1] \o Frame(values[i])]
  BY <1>9
<1>11. Frames(values) = upTo[n]
  BY DEF Frames
<1> HIDE DEF upTo
<1>12. PICK f : f = upTo
  OBVIOUS
<1>13. f = [i \in 0 .. n |-> IF i = 0 THEN <<>> ELSE f[i - 1] \o Frame(values[i])]
  BY <1>10, <1>12
<1>14. /\ DOMAIN f = 0 .. n
       /\ f[0] = <<>>
       /\ \A i \in 1 .. n : f[i] = f[i - 1] \o Frame(values[i])
  <2>1. DOMAIN f = 0 .. n /\ f[0] = <<>>
    BY <1>13
  <2>2. ASSUME NEW i \in 1 .. n PROVE f[i] = f[i - 1] \o Frame(values[i])
    <3>1. i \in 0 .. n /\ i # 0
      OBVIOUS
    <3> QED  BY <1>13, <3>1, Zenon
  <2> QED  BY <2>1, <2>2
<1>15. \A i \in 1 .. n : f[i - 1] \in V => f[i] = step[<<i, f[i - 1]>>]
  <2>1. ASSUME NEW i \in 1 .. n, f[i - 1] \in V PROVE f[i] = step[<<i, f[i - 1]>>]
    <3>1. step[<<i, f[i - 1]>>] = f[i - 1] \o Frame(values[i])
      BY <1>3, <2>1
    <3> QED  BY <1>14, <3>1
  <2> QED  BY <2>1
<1>16. Follows(f, n, V, e, step)
  BY <1>6, <1>14, <1>15 DEF Follows
<1>17. \A i \in 0 .. n : f[i] \in V
  BY <1>5, <1>6, <1>16, FollowsTyped
<1>18. f \in [0 .. n -> Seq(Byte)]
  BY <1>2, <1>13, <1>17
<1>19. AreFrames(f, values, n)
  BY <1>14, <1>18 DEF AreFrames
<1> QED  BY <1>11, <1>12, <1>19

LEMMA FramesAgree ==
  ASSUME NEW s, NEW t, NEW m \in Nat, NEW n \in Nat, NEW f, NEW g,
         AreFrames(f, s, m), AreFrames(g, t, n), m <= n, SamePrefix(s, t, m)
  PROVE  f[m] = g[m]
<1> DEFINE S == {k \in Nat : k <= m => f[k] = g[k]}
<1>1. 0 \in S
  BY DEF AreFrames
<1>2. ASSUME NEW k \in Nat, k \in S PROVE k + 1 \in S
  <2> SUFFICES ASSUME k + 1 <= m PROVE f[k + 1] = g[k + 1]
    OBVIOUS
  <2>1. k + 1 \in 1 .. m /\ k + 1 \in 1 .. n /\ (k + 1) - 1 = k
    OBVIOUS
  <2>2. f[k] = g[k] /\ s[k + 1] = t[k + 1]
    BY <1>2, <2>1 DEF SamePrefix
  <2>3. f[k + 1] = f[k] \o Frame(s[k + 1])
    BY <2>1 DEF AreFrames
  <2>4. g[k + 1] = g[k] \o Frame(t[k + 1])
    BY <2>1 DEF AreFrames
  <2> QED  BY <2>2, <2>3, <2>4
<1>3. \A k \in Nat : k \in S
  <2> HIDE DEF S
  <2> QED  BY <1>1, <1>2, SetInduction
<1> QED  BY <1>3

LEMMA FramesTyped ==
  ASSUME NEW values \in Seq(Word) PROVE Frames(values) \in Seq(Byte)
<1>1. PICK n \in Nat : n = Len(values)
  OBVIOUS
<1>2. PICK f : AreFrames(f, values, n) /\ Frames(values) = f[n]
  BY <1>1, FramesDefined
<1> QED  BY <1>2 DEF AreFrames

LEMMA NoFrames == Frames(<<>>) = <<>>
<1>1. <<>> \in Seq(Word) /\ Len(<<>>) = 0
  OBVIOUS
<1>2. PICK f : AreFrames(f, <<>>, 0) /\ Frames(<<>>) = f[0]
  BY <1>1, FramesDefined
<1> QED  BY <1>2 DEF AreFrames

(* A write adds the frame of its value.                                    *)
LEMMA FramesAppend ==
  ASSUME NEW values \in Seq(Word), NEW v \in Word
  PROVE  Frames(Append(values, v)) = Frames(values) \o Frame(v)
<1>1. PICK n \in Nat : n = Len(values)
  OBVIOUS
<1>2. PICK more \in Seq(Word) : more = Append(values, v)
  BY AppendTyped
<1>3. Len(more) = n + 1 /\ more[n + 1] = v /\ SamePrefix(values, more, n)
  BY <1>1, <1>2 DEF SamePrefix
<1>4. PICK f : AreFrames(f, values, n) /\ Frames(values) = f[n]
  BY <1>1, FramesDefined
<1>5. PICK g : AreFrames(g, more, n + 1) /\ Frames(more) = g[n + 1]
  BY <1>3, FramesDefined
<1>6. f[n] = g[n]
  BY <1>3, <1>4, <1>5, FramesAgree
<1>7. g[n + 1] = g[n] \o Frame(more[n + 1])
  <2>1. n + 1 \in 1 .. n + 1 /\ (n + 1) - 1 = n
    OBVIOUS
  <2> QED  BY <1>5, <2>1 DEF AreFrames
<1> QED  BY <1>2, <1>3, <1>4, <1>5, <1>6, <1>7

-----------------------------------------------------------------------------
(* t3_read_value.                                                          *)
LEMMA ReadAtFacts ==
  ASSUME NEW bytes \in Seq(Byte), NEW p \in Nat
  PROVE  /\ ReadAt(bytes, p).ok \in BOOLEAN
         /\ ReadAt(bytes, p).next \in Nat
         /\ p <= Len(bytes) => ReadAt(bytes, p).next <= Len(bytes)
         /\ ReadAt(bytes, p).ok <=>
              /\ p < Len(bytes)
              /\ bytes[p + 1] >= 1 /\ bytes[p + 1] <= 63
              /\ p + 1 + bytes[p + 1] <= Len(bytes)
         /\ ReadAt(bytes, p).ok =>
              /\ ReadAt(bytes, p).next = p + 1 + bytes[p + 1]
              /\ ReadAt(bytes, p).value =
                   balanced_ternary_to_int(SubSeq(bytes, p + 2, p + 1 + bytes[p + 1]))
              /\ ReadAt(bytes, p).value \in Word
<1>1. PICK n \in Nat : n = Len(bytes)
  OBVIOUS
<1>2. CASE p >= n
  <2>1. ReadAt(bytes, p) = [ok |-> FALSE, next |-> p]
    BY <1>1, <1>2 DEF ReadAt
  <2> QED  BY <1>1, <1>2, <2>1
<1>3. CASE p < n
  <2>1. PICK b \in Byte : b = bytes[p + 1]
    <3>1. p + 1 \in 1 .. Len(bytes)
      BY <1>1, <1>3
    <3>2. bytes[p + 1] \in Byte
      BY <3>1
    <3> QED  BY <3>2
  <2>2. b \in Nat
    BY DEF Byte
  <2>3. CASE b \notin 1 .. 63
    <3>1. ReadAt(bytes, p) = [ok |-> FALSE, next |-> p + 1]
      BY <1>1, <1>3, <2>1, <2>3 DEF ReadAt
    <3>2. ~(b >= 1 /\ b <= 63)
      BY <2>2, <2>3
    <3>3. p + 1 <= n
      BY <1>3
    <3> QED  BY <1>1, <1>3, <2>1, <3>1, <3>2, <3>3
  <2>4. CASE b \in 1 .. 63 /\ p + 1 + b > n
    <3>1. ReadAt(bytes, p) = [ok |-> FALSE, next |-> n]
      BY <1>1, <1>3, <2>1, <2>4 DEF ReadAt, CutOff
    <3>2. ~(p + 1 + b <= n)
      BY <2>2, <2>4
    <3> QED  BY <1>1, <2>1, <3>1, <3>2
  <2>5. CASE b \in 1 .. 63 /\ ~(p + 1 + b > n)
    <3>1. PICK x : x = SubSeq(bytes, p + 2, p + 1 + b)
      OBVIOUS
    <3>2. ReadAt(bytes, p) =
            [ok |-> TRUE, next |-> p + 1 + b, value |-> balanced_ternary_to_int(x)]
      BY <1>1, <1>3, <2>1, <2>5, <3>1 DEF ReadAt, End
    <3>3. x \in Seq(Byte)
      <4>1. p + 2 \in Nat /\ p + 1 + b \in Nat /\ p + 2 >= 1 /\ p + 1 + b <= Len(bytes) /\ p + 2 <= (p + 1 + b) + 1
        BY <1>1, <2>2, <2>5
      <4> QED  BY <3>1, <4>1, SubSeqTyped
    <3>4. balanced_ternary_to_int(x) \in Word
      BY <3>3, ReadIsWord
    <3>5. b >= 1 /\ b <= 63 /\ p + 1 + b <= n /\ p + 1 + b \in Nat
      BY <2>2, <2>5
    <3> QED  BY <1>1, <1>3, <2>1, <3>1, <3>2, <3>4, <3>5
  <2> QED  BY <2>3, <2>4, <2>5
<1> QED  BY <1>1, <1>2, <1>3

-----------------------------------------------------------------------------
(* The bytes of a file, on disk and still in the buffer, are the header    *)
(* and the frames of what was written, or as much of them as is not lost.  *)
Whole(values, pad) == Header(pad) \o Frames(values)
Begins(s, t) == Len(s) <= Len(t) /\ \A k \in 1 .. Len(s) : s[k] = t[k]

Begun(bytes, values) == \E pad \in Byte : Begins(bytes, Whole(values, pad))
Full(bytes, values)  == \E pad \in Byte : bytes = Whole(values, pad)

LEMMA HeaderTyped ==
  ASSUME NEW pad \in Byte
  PROVE  /\ Header(pad) \in Seq(Byte) /\ Len(Header(pad)) = HeaderSize
         /\ \A k \in 1 .. 6 : Header(pad)[k] = Magic[k]
         /\ Header(pad)[7] = TERNARY_FORMAT_VERSION
<1>1. PICK m \in Seq(Byte) : m = Magic /\ Len(m) = 6
  <2>1. {84, 51, 70, 77, 0} \subseteq Byte
    BY DEF Byte
  <2>2. Magic \in Seq(Byte) /\ Len(Magic) = 6
    BY <2>1 DEF Magic
  <2> QED  BY <2>2
<1>2. PICK t \in Seq(Byte) :
        t = <<TERNARY_FORMAT_VERSION, pad, 0, 0, 0, 0>> /\ Len(t) = 6 /\ t[1] = TERNARY_FORMAT_VERSION
  <2>1. {0, TERNARY_FORMAT_VERSION, pad} \subseteq Byte
    BY DEF Byte, TERNARY_FORMAT_VERSION
  <2>2. /\ <<TERNARY_FORMAT_VERSION, pad, 0, 0, 0, 0>> \in Seq(Byte)
        /\ Len(<<TERNARY_FORMAT_VERSION, pad, 0, 0, 0, 0>>) = 6
    BY <2>1
  <2> QED  BY <2>2
<1>3. PICK h : h = m \o t
  OBVIOUS
<1>4. /\ h \in Seq(Byte)
      /\ Len(h) = Len(m) + Len(t)
      /\ \A k \in 1 .. Len(m) : h[k] = m[k]
      /\ \A k \in 1 .. Len(t) : h[Len(m) + k] = t[k]
  BY <1>3, Concat
<1>5. Len(m) = 6 /\ Len(t) = 6
  BY <1>1, <1>2
<1>6. Len(h) = HeaderSize
  BY <1>4, <1>5 DEF HeaderSize
<1>7. \A k \in 1 .. 6 : h[k] = m[k]
  BY <1>4, <1>5
<1>8. h[7] = t[1]
  <2>1. 1 \in 1 .. Len(t) /\ Len(m) + 1 = 7
    BY <1>5
  <2> QED  BY <1>4, <2>1
<1>9. Header(pad) = h
  BY <1>1, <1>2, <1>3 DEF Header
<1> QED
  <2>1. m = Magic /\ t[1] = TERNARY_FORMAT_VERSION
    BY <1>1, <1>2
  <2> QED  BY <1>4, <1>6, <1>7, <1>8, <1>9, <2>1

LEMMA WholeTyped ==
  ASSUME NEW values \in Seq(Word), NEW pad \in Byte
  PROVE  /\ Whole(values, pad) \in Seq(Byte)
         /\ Len(Whole(values, pad)) = HeaderSize + Len(Frames(values))
<1>1. PICK h \in Seq(Byte), f \in Seq(Byte) :
        h = Header(pad) /\ f = Frames(values) /\ Len(h) = HeaderSize
  BY HeaderTyped, FramesTyped
<1>2. h \o f \in Seq(Byte) /\ Len(h \o f) = HeaderSize + Len(f)
  BY <1>1, Concat
<1> QED  BY <1>1, <1>2 DEF Whole

LEMMA FullIsBegun ==
  ASSUME NEW bytes, NEW values \in Seq(Word), Full(bytes, values) PROVE Begun(bytes, values)
<1>1. PICK pad \in Byte : bytes = Whole(values, pad)
  BY DEF Full
<1>2. Begins(bytes, bytes)
  BY <1>1, WholeTyped DEF Begins
<1> QED  BY <1>1, <1>2 DEF Begun

LEMMA FullWhenCreated == ASSUME NEW pad \in Byte PROVE Full(Header(pad), <<>>)
<1>1. Whole(<<>>, pad) = Header(pad)
  BY NoFrames, HeaderTyped, ConcatEmpty DEF Whole
<1> QED  BY <1>1 DEF Full

LEMMA FullWhenWritten ==
  ASSUME NEW bytes, NEW values \in Seq(Word), NEW v \in Word, Full(bytes, values)
  PROVE  Full(bytes \o Frame(v), Append(values, v))
<1>1. PICK pad \in Byte : bytes = Whole(values, pad)
  BY DEF Full
<1>2. Header(pad) \in Seq(Byte) /\ Frames(values) \in Seq(Byte) /\ Frame(v) \in Seq(Byte)
  BY HeaderTyped, FramesTyped, FrameOfWord
<1>3. bytes \o Frame(v) = Header(pad) \o (Frames(values) \o Frame(v))
  BY <1>1, <1>2, ConcatAssociates DEF Whole
<1>4. bytes \o Frame(v) = Whole(Append(values, v), pad)
  BY <1>3, FramesAppend DEF Whole
<1> QED  BY <1>4 DEF Full

(* What is left of a file when the end of it is lost.                      *)
LEMMA BegunWhenCut ==
  ASSUME NEW d \in Seq(Byte), NEW e \in Seq(Byte), NEW values \in Seq(Word),
         Begun(d \o e, values)
  PROVE  Begun(d, values)
<1>1. PICK pad \in Byte : Begins(d \o e, Whole(values, pad))
  BY DEF Begun
<1>2. PICK m \in Nat, n \in Nat : m = Len(d) /\ n = Len(d \o e) /\ m <= n
  BY Concat
<1>3. \A k \in 1 .. m : k \in 1 .. n /\ (d \o e)[k] = d[k]
  BY <1>2, Concat
<1>4. Len(d) <= Len(Whole(values, pad))
  <2>1. n <= Len(Whole(values, pad))
    BY <1>1, <1>2 DEF Begins
  <2>2. Len(Whole(values, pad)) \in Nat
    BY WholeTyped
  <2> QED  BY <1>2, <2>1, <2>2
<1>5. Begins(d, Whole(values, pad))
  BY <1>1, <1>2, <1>3, <1>4 DEF Begins
<1> QED  BY <1>5 DEF Begun

-----------------------------------------------------------------------------
(* A file that was not torn has the bytes of what was written, all of them *)
(* unless some are lost, and a file with lost bytes is not written again.  *)
FileTells ==
  exists /\ ~torn =>
    /\ Begun(disk \o unflushed, written)
    /\ ~lost => Full(disk \o unflushed, written)
LostIsOver == lost => ~Writable

IInv == TypeOK /\ NoStrayBytes /\ LostIsOver /\ FileTells

LEMMA TypesOfIInv ==
  ASSUME IInv
  PROVE  /\ disk \in Seq(Byte) /\ unflushed \in Seq(Byte)
         /\ pos \in Nat /\ pos <= Len(disk)
         /\ written \in Seq(Word)
  BY DEF IInv, TypeOK, Byte

LEMMA FlushRange == ASSUME NEW k \in MayFlush, IInv PROVE k \in Nat /\ k <= Len(unflushed)
<1>1. PICK n \in Nat : n = Len(unflushed)
  BY TypesOfIInv
<1> QED  BY <1>1 DEF MayFlush

(* fclose leaves the disk with the first bytes of the buffer, and says     *)
(* nothing of the others.                                                  *)
LEMMA AfterFlush ==
  ASSUME IInv, NEW k \in Nat, k <= Len(unflushed)
  PROVE  /\ Flushed(k) \in Seq(Byte) /\ Len(disk) <= Len(Flushed(k))
         /\ exists /\ ~torn =>
              /\ Begun(Flushed(k), written)
              /\ ~lost /\ ~(k < Len(unflushed)) => Full(Flushed(k), written)
<1>1. PICK d \in Seq(Byte), u \in Seq(Byte) : d = disk /\ u = unflushed
  BY TypesOfIInv
<1>2. PICK p \in Seq(Byte), q \in Seq(Byte) :
        p = SubSeq(u, 1, k) /\ q = SubSeq(u, k + 1, Len(u)) /\ p \o q = u
  <2>1. k <= Len(u)
    BY <1>1
  <2>2. /\ SubSeq(u, 1, k) \in Seq(Byte) /\ SubSeq(u, k + 1, Len(u)) \in Seq(Byte)
        /\ SubSeq(u, 1, k) \o SubSeq(u, k + 1, Len(u)) = u
    BY <2>1, Split
  <2> QED  BY <2>2
<1>3. (d \o p) \o q = d \o (p \o q)
  BY ConcatAssociates
<1>4. PICK f \in Seq(Byte) : f = d \o p /\ Len(f) = Len(d) + Len(p)
  <2>1. d \o p \in Seq(Byte) /\ Len(d \o p) = Len(d) + Len(p)
    BY Concat
  <2> QED  BY <2>1
<1>5. Flushed(k) = f
  BY <1>1, <1>2, <1>4 DEF Flushed
<1>6. Len(d) <= Len(f)
  BY <1>4
<1>7. f \o q = d \o u
  BY <1>2, <1>4, <1>3
<1>8. ASSUME exists, ~torn PROVE Begun(f, written)
  <2>1. Begun(f \o q, written)
    BY <1>1, <1>7, <1>8 DEF IInv, FileTells
  <2> QED  BY <2>1, TypesOfIInv, BegunWhenCut
<1>9. ASSUME exists, ~torn, ~lost, ~(k < Len(u)) PROVE Full(f, written)
  <2>1. k = Len(u)
    <3>1. PICK n \in Nat : n = Len(u)
      OBVIOUS
    <3> QED  BY <1>1, <1>9, <3>1
  <2>2. p = u
    BY <1>2, <2>1
  <2> QED  BY <1>1, <1>4, <1>9, <2>2 DEF IInv, FileTells
<1> QED  BY <1>1, <1>5, <1>6, <1>8, <1>9

LEMMA InitIInv == Init => IInv
<1> SUFFICES ASSUME Init PROVE IInv
  OBVIOUS
<1>1. /\ is_open = FALSE /\ is_write_mode = FALSE /\ unflushed = <<>> /\ pos = 0
      /\ torn = FALSE /\ lost = FALSE
  BY DEF Init
<1>2. NoStrayBytes /\ LostIsOver
  BY <1>1 DEF NoStrayBytes, LostIsOver
<1>3. CASE exists = FALSE /\ disk = <<>> /\ written = <<>>
  <2>1. FileTells
    BY <1>3 DEF FileTells
  <2>2. disk \in Seq(Byte) /\ unflushed \in Seq(Byte) /\ written \in Seq(Word)
    BY <1>1, <1>3
  <2>3. pos \in 0 .. Len(disk)
    BY <1>1, <1>3
  <2>4. TypeOK
    BY <1>1, <1>3, <2>2, <2>3 DEF TypeOK, Byte
  <2> QED  BY <1>2, <2>1, <2>4 DEF IInv
<1>4. ASSUME NEW values \in Earlier, NEW pad \in Padding,
             exists = TRUE, disk = Header(pad) \o Frames(values), written = values
      PROVE  IInv
  <2>1. values \in Seq(Word) /\ pad \in Byte
    BY FileAssumption DEF Byte
  <2>2. disk = Whole(values, pad) /\ disk \in Seq(Byte)
    BY <1>4, <2>1, WholeTyped DEF Whole
  <2>3. disk \o unflushed = disk
    BY <1>1, <2>2, ConcatEmpty
  <2>4. Full(disk \o unflushed, written)
    BY <1>4, <2>1, <2>2, <2>3 DEF Full
  <2>5. Begun(disk \o unflushed, written)
    BY <1>4, <2>1, <2>4, FullIsBegun
  <2>6. TypeOK
    <3>1. 0 \in 0 .. Len(disk)
      <4>1. Len(disk) \in Nat
        BY <2>2
      <4> QED  BY <4>1
    <3>2. pos \in 0 .. Len(disk) /\ unflushed \in Seq(Byte) /\ written \in Seq(Word)
      BY <1>1, <1>4, <2>1, <3>1
    <3> QED  BY <1>1, <1>4, <2>2, <3>2 DEF TypeOK, Byte
  <2> QED  BY <1>2, <2>4, <2>5, <2>6 DEF IInv, FileTells
<1> QED  BY <1>3, <1>4 DEF Init

(* A file that is closed, or opened without being truncated.               *)
LEMMA ClosingKeepsIInv ==
  ASSUME IInv, NEW k \in MayFlush, disk' = Flushed(k),
         lost' = (lost \/ k < Len(unflushed)), unflushed' = <<>>, pos' \in {0, pos},
         is_open' \in BOOLEAN, is_write_mode' \in BOOLEAN, ~Writable',
         UNCHANGED <<exists, written, torn>>
  PROVE  IInv'
<1>1. k \in Nat /\ k <= Len(unflushed)
  BY FlushRange
<1>2. /\ disk' \in Seq(Byte) /\ Len(disk) <= Len(disk')
      /\ exists /\ ~torn =>
           Begun(disk', written) /\ (~lost /\ ~(k < Len(unflushed)) => Full(disk', written))
  BY <1>1, AfterFlush
<1>3. disk' \o unflushed' = disk'
  BY <1>2, ConcatEmpty
<1>4. TypeOK'
  <2>1. pos' \in 0 .. Len(disk')
    <3>1. PICK m \in Nat, n \in Nat : m = Len(disk) /\ n = Len(disk') /\ m <= n
      BY <1>2, TypesOfIInv
    <3> QED  BY <3>1, TypesOfIInv
  <2>2. lost' \in BOOLEAN /\ unflushed' \in Seq(Byte)
    OBVIOUS
  <2> QED  BY <1>2, <2>1, <2>2 DEF IInv, TypeOK, Byte
<1>5. FileTells'
  BY <1>2, <1>3 DEF FileTells
<1>6. NoStrayBytes' /\ LostIsOver'
  BY DEF NoStrayBytes, LostIsOver
<1> QED  BY <1>4, <1>5, <1>6 DEF IInv

(* The actions.                                                            *)
LEMMA OpenKeepsIInv ==
  ASSUME IInv, NEW mode \in Modes, file_open(mode) PROVE IInv'
<1>1. is_write_mode' = (mode # 0) /\ pos' = 0
  BY DEF file_open
<1>2. PICK ok \in MayOpen(mode) :
        /\ is_open' = ok
        /\ IF Recreates(mode, ok)
           THEN /\ exists' = TRUE /\ disk' = <<>> /\ written' = <<>> /\ lost' = FALSE
                /\ \E pad \in Padding, k \in (IF MayFail THEN 0 .. HeaderSize ELSE {HeaderSize}) :
                     unflushed' = SubSeq(Header(pad), 1, k) /\ torn' = (k < HeaderSize)
           ELSE /\ \E k \in MayFlush : disk' = Flushed(k) /\ lost' = (lost \/ k < Len(unflushed))
                /\ unflushed' = <<>>
                /\ UNCHANGED <<exists, written, torn>>
  BY DEF file_open
<1>3. ok \in BOOLEAN
  BY DEF MayOpen, IInv, TypeOK
<1>4. CASE Recreates(mode, ok)
  <2>1. PICK pad \in Padding, k \in (IF MayFail THEN 0 .. HeaderSize ELSE {HeaderSize}) :
          unflushed' = SubSeq(Header(pad), 1, k) /\ torn' = (k < HeaderSize)
    BY <1>2, <1>4
  <2>2. pad \in Byte
    BY FileAssumption DEF Byte
  <2>3. k \in Nat /\ k <= HeaderSize
    BY DEF HeaderSize
  <2>4. PICK h \in Seq(Byte) : h = Header(pad) /\ Len(h) = HeaderSize
    BY <2>2, HeaderTyped
  <2>5. unflushed' \in Seq(Byte)
    <3>1. k <= Len(h)
      BY <2>3, <2>4
    <3>2. SubSeq(h, 1, k) \in Seq(Byte)
      BY <2>3, <3>1, Split
    <3> QED  BY <2>1, <2>4, <3>2
  <2>6. exists' = TRUE /\ disk' = <<>> /\ written' = <<>> /\ lost' = FALSE /\ ok /\ mode # 0
    BY <1>2, <1>4 DEF Recreates
  <2>7. TypeOK'
    <3>1. disk' \in Seq(Byte) /\ written' \in Seq(Word) /\ pos' \in 0 .. Len(disk')
      BY <1>1, <2>6
    <3>2. is_open' \in BOOLEAN /\ is_write_mode' \in BOOLEAN /\ torn' \in BOOLEAN
      BY <1>1, <1>2, <1>3, <2>1
    <3> QED  BY <2>5, <2>6, <3>1, <3>2 DEF TypeOK, Byte
  <2>8. NoStrayBytes' /\ LostIsOver'
    BY <1>1, <1>2, <2>6 DEF NoStrayBytes, LostIsOver, Writable
  <2>9. ASSUME ~torn' PROVE Full(disk' \o unflushed', written')
    <3>1. k = HeaderSize
      <4>1. ~(k < HeaderSize)
        BY <2>1, <2>9
      <4> QED  BY <2>3, <4>1 DEF HeaderSize
    <3>2. unflushed' = h
      <4>1. SubSeq(h, 1, Len(h)) = h
        OBVIOUS
      <4> QED  BY <2>1, <2>4, <3>1, <4>1
    <3>3. disk' \o unflushed' = h
      BY <2>6, <3>2, ConcatEmpty
    <3> QED  BY <2>2, <2>4, <2>6, <3>3, FullWhenCreated
  <2>10. ASSUME ~torn' PROVE Begun(disk' \o unflushed', written')
    BY <2>7, <2>9, <2>10, FullIsBegun DEF TypeOK
  <2>11. FileTells'
    BY <2>9, <2>10 DEF FileTells
  <2> QED  BY <2>7, <2>8, <2>11 DEF IInv
<1>5. CASE ~Recreates(mode, ok)
  <2>1. PICK k \in MayFlush : disk' = Flushed(k) /\ lost' = (lost \/ k < Len(unflushed))
    BY <1>2, <1>5
  <2>2. unflushed' = <<>> /\ UNCHANGED <<exists, written, torn>>
    BY <1>2, <1>5
  <2>3. ~Writable'
    BY <1>1, <1>2, <1>3, <1>5 DEF Recreates, Writable
  <2>4. is_open' \in BOOLEAN /\ is_write_mode' \in BOOLEAN
    BY <1>1, <1>2, <1>3
  <2> QED  BY <1>1, <2>1, <2>2, <2>3, <2>4, ClosingKeepsIInv
<1> QED  BY <1>4, <1>5

LEMMA CloseKeepsIInv == ASSUME IInv, file_close PROVE IInv'
<1>1. PICK k \in MayFlush : disk' = Flushed(k) /\ lost' = (lost \/ k < Len(unflushed))
  BY DEF file_close
<1>2. /\ is_open' = FALSE /\ unflushed' = <<>>
      /\ UNCHANGED <<is_write_mode, exists, pos, written, torn>>
  BY DEF file_close
<1>3. ~Writable' /\ is_open' \in BOOLEAN /\ is_write_mode' \in BOOLEAN
  BY <1>2 DEF Writable, IInv, TypeOK
<1> QED  BY <1>1, <1>2, <1>3, ClosingKeepsIInv

LEMMA ReadKeepsIInv == ASSUME IInv, Reads PROVE IInv'
<1>1. UNCHANGED <<handle, exists, disk, unflushed, written, torn, lost>>
  BY DEF Reads, file_read, file_read_fails
<1>2. pos' = ReadAt(disk, pos).next \/ pos' = pos
  BY DEF Reads, file_read, file_read_fails
<1>3. PICK n \in Nat, p \in Nat :
        n = ReadAt(disk, pos).next /\ p = pos /\ n <= Len(disk) /\ p <= Len(disk)
  BY TypesOfIInv, ReadAtFacts
<1>4. pos' \in 0 .. Len(disk)
  <2>1. PICK l \in Nat : l = Len(disk)
    BY TypesOfIInv
  <2> QED  BY <1>2, <1>3, <2>1
<1>5. TypeOK'
  BY <1>1, <1>4 DEF IInv, TypeOK, handle
<1>6. NoStrayBytes' /\ LostIsOver' /\ FileTells'
  BY <1>1 DEF IInv, NoStrayBytes, LostIsOver, FileTells, Writable, handle
<1> QED  BY <1>5, <1>6 DEF IInv

LEMMA WriteKeepsIInv == ASSUME IInv, NEW v \in Written, file_write(v) PROVE IInv'
<1>1. /\ Writable /\ unflushed' = unflushed \o Frame(v) /\ written' = Append(written, v)
      /\ UNCHANGED <<handle, exists, disk, pos, torn, lost>>
  BY DEF file_write
<1>2. v \in Word
  BY FileAssumption
<1>3. PICK d \in Seq(Byte), u \in Seq(Byte), f \in Seq(Byte), w \in Seq(Word) :
        d = disk /\ u = unflushed /\ f = Frame(v) /\ w = written
  BY <1>2, TypesOfIInv, FrameOfWord
<1>4. u \o f \in Seq(Byte) /\ Append(w, v) \in Seq(Word)
  BY <1>2, Concat, AppendTyped
<1>5. TypeOK'
  BY <1>1, <1>3, <1>4 DEF IInv, TypeOK, Byte, handle
<1>6. ~lost
  BY <1>1 DEF IInv, LostIsOver
<1>7. d \o (u \o f) = (d \o u) \o f
  BY ConcatAssociates
<1>8. ASSUME exists, ~torn PROVE Full(disk' \o unflushed', written')
  <2>1. Full(d \o u, w)
    BY <1>3, <1>6, <1>8 DEF IInv, FileTells
  <2>2. Full((d \o u) \o f, Append(w, v))
    BY <1>2, <1>3, <2>1, FullWhenWritten
  <2> QED  BY <1>1, <1>3, <1>7, <2>2 DEF handle
<1>9. FileTells'
  <2>1. written' \in Seq(Word)
    BY <1>1, <1>3, <1>4
  <2>2. ASSUME exists', ~torn'
        PROVE  Begun(disk' \o unflushed', written') /\ Full(disk' \o unflushed', written')
    BY <1>1, <1>8, <2>1, <2>2, FullIsBegun
  <2> QED  BY <2>2 DEF FileTells
<1>10. NoStrayBytes' /\ LostIsOver'
  BY <1>1, <1>6 DEF NoStrayBytes, LostIsOver, Writable, handle
<1> QED  BY <1>5, <1>9, <1>10 DEF IInv

LEMMA FailedWriteKeepsIInv == ASSUME IInv, NEW v \in Written, file_write_fails(v) PROVE IInv'
<1>1. CASE UNCHANGED vars
  BY <1>1 DEF IInv, TypeOK, NoStrayBytes, LostIsOver, FileTells, Writable, vars, handle
<1>2. CASE ~UNCHANGED vars
  <2>1. /\ Writable /\ torn' = TRUE
        /\ UNCHANGED <<handle, exists, disk, pos, written, lost>>
    BY <1>2 DEF file_write_fails
  <2>2. PICK k \in 0 .. Len(Frame(v)) - 1 : unflushed' = unflushed \o SubSeq(Frame(v), 1, k)
    BY <1>2 DEF file_write_fails
  <2>3. PICK f \in Seq(Byte), l \in Nat : f = Frame(v) /\ Len(f) = l
    BY FileAssumption, FrameOfWord
  <2>4. k \in Nat /\ k <= Len(f)
    BY <2>3
  <2>5. SubSeq(f, 1, k) \in Seq(Byte)
    BY <2>4, Split
  <2>6. unflushed' \in Seq(Byte)
    BY <2>2, <2>3, <2>5, TypesOfIInv, Concat
  <2>7. TypeOK'
    BY <2>1, <2>6 DEF IInv, TypeOK, Byte, handle
  <2>8. NoStrayBytes' /\ LostIsOver' /\ FileTells'
    BY <2>1 DEF IInv, NoStrayBytes, LostIsOver, FileTells, Writable, handle
  <2> QED  BY <2>7, <2>8 DEF IInv
<1> QED  BY <1>1, <1>2

LEMMA FlushKeepsIInv == ASSUME IInv, Flush PROVE IInv'
<1>1. PICK k \in 1 .. Len(unflushed) :
        /\ disk' = Flushed(k)
        /\ unflushed' = SubSeq(unflushed, k + 1, Len(unflushed))
        /\ UNCHANGED <<handle, exists, pos, written, torn, lost>>
  BY DEF Flush
<1>2. PICK d \in Seq(Byte), u \in Seq(Byte) : d = disk /\ u = unflushed
  BY TypesOfIInv
<1>3. k \in Nat /\ k <= Len(u) /\ u # <<>>
  BY <1>1, <1>2
<1>4. PICK p \in Seq(Byte), q \in Seq(Byte) :
        p = SubSeq(u, 1, k) /\ q = SubSeq(u, k + 1, Len(u)) /\ p \o q = u
  <2>1. /\ SubSeq(u, 1, k) \in Seq(Byte) /\ SubSeq(u, k + 1, Len(u)) \in Seq(Byte)
        /\ SubSeq(u, 1, k) \o SubSeq(u, k + 1, Len(u)) = u
    BY <1>3, Split
  <2> QED  BY <2>1
<1>5. disk' = d \o p /\ unflushed' = q
  BY <1>1, <1>2, <1>4 DEF Flushed
<1>6. d \o p \in Seq(Byte) /\ Len(d) <= Len(d \o p)
  BY Concat
<1>7. (d \o p) \o q = d \o (p \o q)
  BY ConcatAssociates
<1>8. disk' \o unflushed' = disk \o unflushed
  BY <1>2, <1>4, <1>5, <1>7
<1>9. TypeOK'
  <2>1. pos' \in 0 .. Len(disk')
    <3>1. PICK m \in Nat, n \in Nat : m = Len(disk) /\ n = Len(disk') /\ m <= n
      BY <1>2, <1>5, <1>6
    <3> QED  BY <1>1, <3>1, TypesOfIInv
  <2>2. disk' \in Seq(Byte) /\ unflushed' \in Seq(Byte)
    BY <1>5, <1>6
  <2> QED  BY <1>1, <2>1, <2>2 DEF IInv, TypeOK, Byte, handle
<1>10. NoStrayBytes' /\ LostIsOver'
  BY <1>1, <1>2, <1>3 DEF IInv, NoStrayBytes, LostIsOver, Writable, handle
<1>11. FileTells'
  BY <1>1, <1>8 DEF IInv, FileTells
<1> QED  BY <1>9, <1>10, <1>11 DEF IInv

LEMMA KillKeepsIInv == ASSUME IInv, Kill PROVE IInv'
<1>1. /\ is_open' = FALSE /\ is_write_mode' = FALSE /\ unflushed' = <<>> /\ pos' = 0
      /\ lost' = (lost \/ unflushed # <<>>)
      /\ UNCHANGED <<exists, disk, written, torn>>
  BY DEF Kill
<1>2. disk \o <<>> = disk
  BY TypesOfIInv, ConcatEmpty
<1>3. ASSUME exists, ~torn
      PROVE  Begun(disk, written) /\ (~lost' => Full(disk, written))
  <2>1. Begun(disk, written)
    BY <1>3, TypesOfIInv, BegunWhenCut DEF IInv, FileTells
  <2>2. ASSUME ~lost' PROVE Full(disk, written)
    BY <1>1, <1>2, <1>3, <2>2 DEF IInv, FileTells
  <2> QED  BY <2>1, <2>2
<1>4. FileTells'
  BY <1>1, <1>2, <1>3 DEF FileTells
<1>5. TypeOK'
  <2>1. pos' \in 0 .. Len(disk') /\ unflushed' \in Seq(Byte)
    <3>1. PICK n \in Nat : n = Len(disk)
      BY TypesOfIInv
    <3> QED  BY <1>1, <3>1
  <2> QED  BY <1>1, <2>1 DEF IInv, TypeOK, Byte
<1>6. NoStrayBytes' /\ LostIsOver'
  BY <1>1 DEF NoStrayBytes, LostIsOver, Writable
<1> QED  BY <1>4, <1>5, <1>6 DEF IInv

-----------------------------------------------------------------------------
(* Where a frame lies in a file.                                           *)
LEMMA FramesGrow ==
  ASSUME NEW f, NEW values \in Seq(Word), NEW n \in Nat, n = Len(values),
         AreFrames(f, values, n), NEW m \in Nat, NEW j \in Nat, m <= j, j <= n
  PROVE  Begins(f[m], f[j])
<1> DEFINE S == {k \in Nat : m + k <= n => Begins(f[m], f[m + k])}
<1>1. \A i \in 0 .. n : f[i] \in Seq(Byte)
  BY DEF AreFrames
<1>2. 0 \in S
  <2>1. m \in 0 .. n
    OBVIOUS
  <2> QED  BY <1>1, <2>1 DEF Begins
<1>3. ASSUME NEW k \in Nat, k \in S PROVE k + 1 \in S
  <2> SUFFICES ASSUME m + (k + 1) <= n PROVE Begins(f[m], f[m + (k + 1)])
    OBVIOUS
  <2>1. m \in 0 .. n /\ m + k \in 0 .. n /\ m + (k + 1) \in 1 .. n /\ (m + (k + 1)) - 1 = m + k
    OBVIOUS
  <2>2. Begins(f[m], f[m + k])
    BY <1>3, <2>1
  <2>3. f[m + (k + 1)] = f[m + k] \o Frame(values[m + (k + 1)])
    BY <2>1 DEF AreFrames
  <2>4. PICK a \in Seq(Byte), b \in Seq(Byte), c \in Seq(Byte) :
          a = f[m] /\ b = f[m + k] /\ c = Frame(values[m + (k + 1)])
    <3>1. values[m + (k + 1)] \in Word
      BY <2>1
    <3> QED  BY <1>1, <2>1, <3>1, FrameOfWord
  <2>5. PICK r :
          /\ r = b \o c
          /\ Len(r) = Len(b) + Len(c)
          /\ \A x \in 1 .. Len(b) : r[x] = b[x]
    <3>1. PICK r : r = b \o c
      OBVIOUS
    <3>2. Len(r) = Len(b) + Len(c) /\ \A x \in 1 .. Len(b) : r[x] = b[x]
      BY <3>1, Concat
    <3> QED  BY <3>1, <3>2
  <2>6. Begins(a, b)
    BY <2>2, <2>4
  <2>7. Begins(a, r)
    BY <2>5, <2>6 DEF Begins
  <2> QED  BY <2>3, <2>4, <2>5, <2>7
<1>4. \A k \in Nat : k \in S
  <2> HIDE DEF S
  <2> QED  BY <1>2, <1>3, SetInduction
<1>5. j - m \in Nat /\ m + (j - m) = j
  OBVIOUS
<1> QED  BY <1>4, <1>5

FrameAt(f, n, m, frame) ==
  /\ Len(f[m + 1]) = Len(f[m]) + Len(frame)
  /\ \A k \in 1 .. Len(frame) : f[n][Len(f[m]) + k] = frame[k]

LEMMA FrameInside ==
  ASSUME NEW f, NEW values \in Seq(Word), NEW n \in Nat, n = Len(values),
         AreFrames(f, values, n), NEW m \in Nat, m < n
  PROVE  FrameAt(f, n, m, Frame(values[m + 1]))
<1>1. m \in 0 .. n /\ m + 1 \in 1 .. n /\ (m + 1) - 1 = m
  OBVIOUS
<1>2. PICK a \in Seq(Byte), c \in Seq(Byte) : a = f[m] /\ c = Frame(values[m + 1])
  <2>1. values[m + 1] \in Word
    BY <1>1
  <2> QED  BY <1>1, <2>1, FrameOfWord DEF AreFrames
<1>3. f[m + 1] = a \o c
  BY <1>1, <1>2 DEF AreFrames
<1>4. PICK r \in Seq(Byte) :
        /\ r = f[m + 1]
        /\ Len(r) = Len(a) + Len(c)
        /\ \A k \in 1 .. Len(c) : r[Len(a) + k] = c[k]
  <2>1. /\ a \o c \in Seq(Byte)
        /\ Len(a \o c) = Len(a) + Len(c)
        /\ \A k \in 1 .. Len(c) : (a \o c)[Len(a) + k] = c[k]
    BY Concat
  <2> QED  BY <1>3, <2>1
<1>5. Begins(r, f[n])
  <2>1. m + 1 \in Nat /\ m + 1 <= n /\ n <= n
    OBVIOUS
  <2>2. Begins(f[m + 1], f[n])
    BY <2>1, FramesGrow
  <2> QED  BY <1>4, <2>2
<1>6. ASSUME NEW k \in 1 .. Len(c) PROVE f[n][Len(a) + k] = c[k]
  <2>1. PICK x \in Nat, y \in Nat : x = Len(a) /\ y = Len(c)
    OBVIOUS
  <2>2. x + k \in 1 .. Len(r)
    BY <1>4, <2>1
  <2>3. f[n][x + k] = r[x + k]
    BY <1>5, <2>2 DEF Begins
  <2> QED  BY <1>4, <2>1, <2>3
<1> QED  BY <1>2, <1>4, <1>6 DEF FrameAt

(* What t3_read_value gives for a value.                                   *)
ReadBack(v) == balanced_ternary_to_int(int_to_balanced_ternary(v))

(* At the start of a frame a read succeeds if all of the frame is there,   *)
(* and gives the stored value; at the end of the frames it fails.          *)
LEMMA ReadFrame ==
  ASSUME NEW f, NEW values \in Seq(Word), NEW n \in Nat, n = Len(values),
         AreFrames(f, values, n), NEW pad \in Byte, Frames(values) = f[n],
         NEW bytes \in Seq(Byte), Begins(bytes, Whole(values, pad)),
         NEW m \in Nat, m < n, HeaderSize + Len(f[m]) <= Len(bytes)
  PROVE  LET r    == ReadAt(bytes, HeaderSize + Len(f[m]))
             next == HeaderSize + Len(f[m + 1])
         IN  /\ r.ok <=> next <= Len(bytes)
             /\ r.ok => r.next = next /\ r.value = ReadBack(values[m + 1])
<1>1. PICK v \in Word : v = values[m + 1]
  <2>1. m + 1 \in 1 .. Len(values)
    OBVIOUS
  <2> QED  BY <2>1
<1>2. PICK s \in Seq(Letters), l \in Nat :
        /\ s = int_to_balanced_ternary(v) /\ l = Len(s) /\ l >= 1 /\ l <= 32
        /\ Len(Frame(v)) = l + 1
        /\ Frame(v)[1] = l
        /\ \A k \in 1 .. l : Frame(v)[1 + k] = s[k]
  BY FrameOfWord
<1>3. PICK a \in Nat, o \in Nat : a = Len(f[m]) /\ o = HeaderSize + a
  <2>1. f[m] \in Seq(Byte)
    BY DEF AreFrames
  <2> QED  BY <2>1 DEF HeaderSize
<1>4. FrameAt(f, n, m, Frame(v))
  BY <1>1, FrameInside
<1>5. Len(f[m + 1]) = a + (l + 1)
  BY <1>2, <1>3, <1>4 DEF FrameAt
<1>6. o = 12 + a
  BY <1>3 DEF HeaderSize
<1>7. HeaderSize + Len(f[m + 1]) = o + 1 + l
  BY <1>5, <1>6 DEF HeaderSize
<1>8. \A k \in 1 .. l + 1 : f[n][a + k] = Frame(v)[k]
  BY <1>2, <1>3, <1>4 DEF FrameAt
<1>9. f[n] \in Seq(Byte) /\ a + (l + 1) <= Len(f[n])
  <2>1. f[n] \in Seq(Byte)
    BY DEF AreFrames
  <2>2. m + 1 \in Nat /\ m + 1 <= n /\ n <= n
    OBVIOUS
  <2>3. Begins(f[m + 1], f[n])
    BY <2>2, FramesGrow
  <2> QED  BY <1>5, <2>1, <2>3 DEF Begins
<1>10. PICK w : /\ w = Whole(values, pad)
               /\ \A k \in 1 .. Len(f[n]) : w[HeaderSize + k] = f[n][k]
  <2>1. PICK h \in Seq(Byte) : h = Header(pad) /\ Len(h) = HeaderSize
    BY HeaderTyped
  <2>2. \A k \in 1 .. Len(f[n]) : (h \o f[n])[Len(h) + k] = f[n][k]
    BY <1>9, Concat
  <2> QED  BY <2>1, <2>2 DEF Whole
<1>11. \A k \in 1 .. l + 1 : w[o + k] = Frame(v)[k]
  <2>1. ASSUME NEW k \in 1 .. l + 1 PROVE w[o + k] = Frame(v)[k]
    <3>1. PICK x \in Nat : x = Len(f[n])
      BY <1>9
    <3>2. a + k \in 1 .. x
      BY <1>9, <3>1
    <3>3. HeaderSize + (a + k) = o + k
      BY <1>3 DEF HeaderSize
    <3> QED  BY <1>8, <1>10, <3>1, <3>2, <3>3
  <2> QED  BY <2>1
<1>12. PICK b \in Nat : b = Len(bytes)
  OBVIOUS
<1>13. \A k \in 1 .. l + 1 : o + k <= b => bytes[o + k] = Frame(v)[k]
  <2>1. ASSUME NEW k \in 1 .. l + 1, o + k <= b PROVE bytes[o + k] = Frame(v)[k]
    <3>1. o + k \in 1 .. b
      BY <2>1
    <3>2. bytes[o + k] = w[o + k]
      BY <1>10, <1>12, <3>1 DEF Begins
    <3> QED  BY <1>11, <3>2
  <2> QED  BY <2>1
<1>14. o < b => bytes[o + 1] = l
  <2>1. 1 \in 1 .. l + 1 /\ (o < b => o + 1 <= b)
    BY <1>2
  <2> QED  BY <1>2, <1>13, <2>1
<1>15. ReadAt(bytes, o).ok <=> o + 1 + l <= b
  <2>1. ReadAt(bytes, o).ok <=>
          /\ o < b
          /\ bytes[o + 1] >= 1 /\ bytes[o + 1] <= 63
          /\ o + 1 + bytes[o + 1] <= b
    BY <1>12, ReadAtFacts
  <2>2. CASE o < b
    <3>1. l <= 63
      BY <1>2
    <3> QED  BY <1>2, <1>14, <2>1, <2>2, <3>1
  <2>3. CASE ~(o < b)
    <3>1. ~(o + 1 + l <= b)
      BY <2>3
    <3> QED  BY <2>1, <2>3, <3>1
  <2> QED  BY <2>2, <2>3
<1>16. ASSUME ReadAt(bytes, o).ok
       PROVE  ReadAt(bytes, o).next = o + 1 + l /\ ReadAt(bytes, o).value = ReadBack(v)
  <2>1. o + 1 + l <= b /\ o < b
    BY <1>15, <1>16
  <2>2. bytes[o + 1] = l
    BY <1>14, <2>1
  <2>3. /\ ReadAt(bytes, o).next = o + 1 + l
        /\ ReadAt(bytes, o).value = balanced_ternary_to_int(SubSeq(bytes, o + 2, o + 1 + l))
    BY <1>16, <2>2, ReadAtFacts
  <2>4. PICK x \in Nat, y \in Nat : x = o + 2 /\ y = o + 1 + l
    OBVIOUS
  <2>5. /\ SubSeq(bytes, x, y) \in Seq(Byte) /\ Len(SubSeq(bytes, x, y)) = l
        /\ \A k \in 1 .. l : SubSeq(bytes, x, y)[k] = bytes[x + k - 1]
    <3>1. x >= 1 /\ y <= Len(bytes) /\ x <= y + 1
      BY <1>12, <2>1, <2>4
    <3>2. y - x + 1 = l
      BY <2>4
    <3> QED  BY <3>1, <3>2, SubSeqTyped
  <2>6. ASSUME NEW k \in 1 .. l PROVE SubSeq(bytes, x, y)[k] = s[k]
    <3>1. 1 + k \in 1 .. l + 1 /\ o + (1 + k) <= b /\ x + k - 1 = o + (1 + k)
      BY <2>1, <2>4
    <3>2. bytes[o + (1 + k)] = Frame(v)[1 + k]
      BY <1>13, <3>1
    <3> QED  BY <1>2, <2>5, <3>1, <3>2
  <2>7. s \in Seq(Byte)
    BY DEF Letters, Byte
  <2>8. SubSeq(bytes, x, y) = s
    BY <1>2, <2>5, <2>6, <2>7, SameSequence
  <2> QED  BY <1>2, <2>3, <2>4, <2>8 DEF ReadBack
<1> QED  BY <1>1, <1>3, <1>7, <1>12, <1>15, <1>16

LEMMA ReadPastFrames ==
  ASSUME NEW values \in Seq(Word), NEW pad \in Byte,
         NEW bytes \in Seq(Byte), Begins(bytes, Whole(values, pad))
  PROVE  ~ReadAt(bytes, HeaderSize + Len(Frames(values))).ok
<1>1. PICK o \in Nat : o = HeaderSize + Len(Frames(values))
  <2>1. Frames(values) \in Seq(Byte)
    BY FramesTyped
  <2> QED  BY <2>1 DEF HeaderSize
<1>2. Len(bytes) <= o
  BY <1>1, WholeTyped DEF Begins
<1>3. ReadAt(bytes, o).ok => o < Len(bytes)
  BY ReadAtFacts
<1>4. PICK b \in Nat : b = Len(bytes)
  OBVIOUS
<1> QED  BY <1>1, <1>2, <1>3, <1>4

-----------------------------------------------------------------------------
(* What t3reader lists.                                                    *)
Round(bytes, l) ==
  LET r == ReadAt(bytes, l.next)
  IN  IF r.ok THEN [values |-> Append(l.values, r.value), next |-> r.next] ELSE l

AreListed(g, bytes, n) ==
  /\ g[0] = [values |-> <<>>, next |-> HeaderSize]
  /\ \A i \in 1 .. n : g[i] = Round(bytes, g[i - 1])

LEMMA RoundTyped ==
  ASSUME NEW bytes \in Seq(Byte), NEW l \in [values : Seq(Word), next : Nat]
  PROVE  Round(bytes, l) \in [values : Seq(Word), next : Nat]
<1>1. PICK r : r = ReadAt(bytes, l.next) /\ r.ok \in BOOLEAN /\ r.next \in Nat /\ (r.ok => r.value \in Word)
  BY ReadAtFacts
<1>2. CASE r.ok
  <2>1. Append(l.values, r.value) \in Seq(Word)
    BY <1>1, <1>2, AppendTyped
  <2>2. Round(bytes, l) = [values |-> Append(l.values, r.value), next |-> r.next]
    BY <1>1, <1>2 DEF Round
  <2> QED  BY <1>1, <2>1, <2>2
<1>3. CASE ~r.ok
  BY <1>1, <1>3 DEF Round
<1> QED  BY <1>2, <1>3

LEMMA ContentsDefined ==
  ASSUME NEW bytes \in Seq(Byte), NEW n \in Nat, n = Len(bytes)
  PROVE  \E g : AreListed(g, bytes, n) /\ Contents(bytes) = g[n].values
<1>1. PICK V : V = [values : Seq(Word), next : Nat]
  OBVIOUS
<1>2. PICK step : step = [p \in (1 .. n) \X V |-> Round(bytes, p[2])]
  OBVIOUS
<1>3. \A l \in V : Round(bytes, l) \in V
  BY <1>1, RoundTyped
<1>4. step \in [(1 .. n) \X V -> V]
  BY <1>2, <1>3
<1>5. PICK e : e = [values |-> <<>>, next |-> HeaderSize] /\ e \in V
  <2>1. [values |-> <<>>, next |-> HeaderSize] \in V
    BY <1>1 DEF HeaderSize
  <2> QED  BY <2>1
<1>6. PICK g : Runs(g, n, V, e, step)
  BY <1>4, <1>5, FollowsExists
<1>7. \A i \in 1 .. n : g[i] = Round(bytes, g[i - 1])
  <2>1. ASSUME NEW i \in 1 .. n PROVE g[i] = Round(bytes, g[i - 1])
    <3>1. i - 1 \in 0 .. n
      OBVIOUS
    <3>2. g[i - 1] \in V /\ g[i] = step[<<i, g[i - 1]>>]
      BY <1>6, <3>1 DEF Runs
    <3>3. step[<<i, g[i - 1]>>] = Round(bytes, g[i - 1])
      BY <1>2, <3>2
    <3> QED  BY <3>2, <3>3
  <2> QED  BY <2>1
<1>8. g = [i \in 0 .. n |-> IF i = 0 THEN e ELSE Round(bytes, g[i - 1])]
  BY <1>6, <1>7 DEF Runs
<1> DEFINE listed ==
      CHOOSE f : f = [i \in 0 .. n |->
        IF i = 0 THEN [values |-> <<>>, next |-> HeaderSize]
        ELSE LET l == f[i - 1]
                 r == ReadAt(bytes, l.next)
             IN  IF r.ok THEN [values |-> Append(l.values, r.value), next |-> r.next] ELSE l]
<1>9. Contents(bytes) = listed[n].values
  BY DEF Contents
<1>10. listed = CHOOSE f : f = [i \in 0 .. n |-> IF i = 0 THEN e ELSE Round(bytes, f[i - 1])]
  BY <1>5 DEF Round
<1> HIDE DEF listed
<1>11. listed = [i \in 0 .. n |-> IF i = 0 THEN e ELSE Round(bytes, listed[i - 1])]
  BY <1>8, <1>10
<1>12. PICK f : f = listed
  OBVIOUS
<1>13. f = [i \in 0 .. n |-> IF i = 0 THEN e ELSE Round(bytes, f[i - 1])]
  BY <1>11, <1>12
<1>14. AreListed(f, bytes, n)
  <2>1. f[0] = e
    BY <1>13
  <2>2. ASSUME NEW i \in 1 .. n PROVE f[i] = Round(bytes, f[i - 1])
    <3>1. i \in 0 .. n /\ i # 0
      OBVIOUS
    <3> QED  BY <1>13, <3>1, Zenon
  <2> QED  BY <1>5, <2>1, <2>2 DEF AreListed
<1> QED  BY <1>9, <1>12, <1>14

StoredOf(values) == [i \in DOMAIN values |-> ReadBack(values[i])]

LEMMA StoredTyped ==
  ASSUME NEW values \in Seq(Word)
  PROVE  /\ StoredOf(values) \in Seq(Word) /\ Len(StoredOf(values)) = Len(values)
         /\ \A i \in 1 .. Len(values) : StoredOf(values)[i] = ReadBack(values[i])
<1>1. \A i \in 1 .. Len(values) : ReadBack(values[i]) \in Word
  <2>1. ASSUME NEW i \in 1 .. Len(values) PROVE ReadBack(values[i]) \in Word
    <3>1. values[i] \in Word
      OBVIOUS
    <3>2. int_to_balanced_ternary(values[i]) \in Seq(Letters)
      BY <3>1, TextOfWord
    <3> QED  BY <3>2, ReadIsWord DEF ReadBack
  <2> QED  BY <2>1
<1>2. StoredOf(values) = [i \in 1 .. Len(values) |-> ReadBack(values[i])]
  BY DEF StoredOf
<1> QED  BY <1>1, <1>2

LEMMA FirstAppend ==
  ASSUME NEW T, NEW s \in Seq(T), NEW m \in Nat, m < Len(s)
  PROVE  Append(SubSeq(s, 1, m), s[m + 1]) = SubSeq(s, 1, m + 1)
<1>1. PICK a \in Seq(T) : a = SubSeq(s, 1, m) /\ Len(a) = m /\ \A i \in 1 .. m : a[i] = s[i]
  <2>1. SubSeq(s, 1, m) \in Seq(T) /\ Len(SubSeq(s, 1, m)) = m
    BY SubSeqTyped
  <2>2. \A i \in 1 .. m : SubSeq(s, 1, m)[i] = s[i]
    OBVIOUS
  <2> QED  BY <2>1, <2>2
<1>2. PICK b \in Seq(T) : b = SubSeq(s, 1, m + 1) /\ Len(b) = m + 1 /\ \A i \in 1 .. m + 1 : b[i] = s[i]
  <2>1. SubSeq(s, 1, m + 1) \in Seq(T) /\ Len(SubSeq(s, 1, m + 1)) = m + 1
    OBVIOUS
  <2>2. \A i \in 1 .. m + 1 : SubSeq(s, 1, m + 1)[i] = s[i]
    OBVIOUS
  <2> QED  BY <2>1, <2>2
<1>3. PICK c \in Seq(T) : /\ c = Append(a, s[m + 1]) /\ Len(c) = m + 1
                          /\ c[m + 1] = s[m + 1]
                          /\ \A i \in 1 .. m : c[i] = a[i]
  <2>1. s[m + 1] \in T
    OBVIOUS
  <2>2. PICK c \in Seq(T) : c = Append(a, s[m + 1])
    BY <2>1, AppendTyped
  <2>3. Len(c) = m + 1 /\ c[m + 1] = s[m + 1]
    BY <1>1, <2>2
  <2>4. \A i \in 1 .. m : c[i] = a[i]
    BY <1>1, <2>2
  <2> QED  BY <2>2, <2>3, <2>4
<1>4. \A i \in 1 .. m + 1 : c[i] = b[i]
  <2>1. ASSUME NEW i \in 1 .. m + 1 PROVE c[i] = b[i]
    <3>1. CASE i = m + 1
      BY <1>2, <1>3, <3>1
    <3>2. CASE i # m + 1
      <4>1. i \in 1 .. m
        BY <3>2
      <4> QED  BY <1>1, <1>2, <1>3, <4>1
    <3> QED  BY <3>1, <3>2
  <2> QED  BY <2>1
<1>5. c = b
  BY <1>2, <1>3, <1>4, SameSequence
<1> QED  BY <1>1, <1>2, <1>3, <1>5

(* After i rounds t3reader has listed m values and stands behind the m-th  *)
(* frame; m is i as long as every read has succeeded.                      *)
Reached(l, f, st, bytes, i, m) ==
  /\ l = [values |-> SubSeq(st, 1, m), next |-> HeaderSize + Len(f[m])]
  /\ m <= Len(f[m])
  /\ HeaderSize + Len(f[m]) <= Len(bytes)
  /\ m = i \/ ~ReadAt(bytes, HeaderSize + Len(f[m])).ok

LEMMA RoundAdvances ==
  ASSUME NEW f, NEW values \in Seq(Word), NEW n \in Nat, n = Len(values),
         AreFrames(f, values, n), NEW pad \in Byte, Frames(values) = f[n],
         NEW bytes \in Seq(Byte), Begins(bytes, Whole(values, pad)),
         NEW i \in Nat, NEW m \in Nat, m <= n, NEW l,
         Reached(l, f, StoredOf(values), bytes, i, m)
  PROVE  \E k \in Nat : k <= n /\ Reached(Round(bytes, l), f, StoredOf(values), bytes, i + 1, k)
<1>1. PICK st \in Seq(Word) :
        /\ st = StoredOf(values)
        /\ Len(st) = n
        /\ \A k \in 1 .. n : st[k] = ReadBack(values[k])
  BY StoredTyped
<1>2. PICK o : o = HeaderSize + Len(f[m])
  OBVIOUS
<1>3. /\ l = [values |-> SubSeq(st, 1, m), next |-> o]
      /\ m <= Len(f[m]) /\ o <= Len(bytes) /\ (m = i \/ ~ReadAt(bytes, o).ok)
  BY <1>1, <1>2 DEF Reached
<1>4. CASE ~ReadAt(bytes, o).ok
  <2>1. Round(bytes, l) = l
    BY <1>3, <1>4 DEF Round
  <2>2. Reached(l, f, st, bytes, i + 1, m)
    BY <1>2, <1>3, <1>4 DEF Reached
  <2> QED  BY <1>1, <2>1, <2>2
<1>5. CASE ReadAt(bytes, o).ok
  <2>1. m # n
    BY <1>2, <1>5, ReadPastFrames
  <2>2. m < n
    BY <2>1
  <2>3. PICK r, p : r = ReadAt(bytes, o) /\ p = HeaderSize + Len(f[m + 1])
    OBVIOUS
  <2>4. r.ok /\ p <= Len(bytes) /\ r.next = p /\ r.value = ReadBack(values[m + 1])
    BY <1>2, <1>3, <1>5, <2>2, <2>3, ReadFrame
  <2>5. m + 1 <= Len(f[m + 1])
    <3>1. FrameAt(f, n, m, Frame(values[m + 1]))
      BY <2>2, FrameInside
    <3>2. values[m + 1] \in Word
      BY <2>2
    <3>3. PICK y \in Nat : y = Len(Frame(values[m + 1])) /\ y >= 1
      BY <3>2, FrameOfWord
    <3>4. f[m] \in Seq(Byte)
      BY DEF AreFrames
    <3>5. PICK x \in Nat : x = Len(f[m]) /\ m <= x
      BY <1>3, <3>4
    <3>6. Len(f[m + 1]) = x + y
      BY <3>1, <3>3, <3>5 DEF FrameAt
    <3>7. m <= x /\ 1 <= y
      BY <3>3, <3>5
    <3>8. m + 1 <= x + y
      BY <3>7
    <3> QED  BY <3>6, <3>8
  <2>6. Append(SubSeq(st, 1, m), r.value) = SubSeq(st, 1, m + 1)
    <3>1. st[m + 1] = r.value
      BY <1>1, <2>2, <2>4
    <3>2. Append(SubSeq(st, 1, m), st[m + 1]) = SubSeq(st, 1, m + 1)
      BY <1>1, <2>2, FirstAppend
    <3> QED  BY <3>1, <3>2
  <2>7. Round(bytes, l) = [values |-> SubSeq(st, 1, m + 1), next |-> p]
    <3>1. Round(bytes, l) = [values |-> Append(SubSeq(st, 1, m), r.value), next |-> r.next]
      BY <1>3, <2>3, <2>4 DEF Round
    <3> QED  BY <2>4, <2>6, <3>1
  <2>8. m = i
    BY <1>3, <1>5
  <2>9. Reached(Round(bytes, l), f, st, bytes, i + 1, m + 1)
    BY <2>3, <2>4, <2>5, <2>7, <2>8 DEF Reached
  <2>10. m + 1 \in Nat /\ m + 1 <= n
    BY <2>2
  <2> QED  BY <1>1, <2>9, <2>10
<1> QED  BY <1>4, <1>5

LEMMA ContentsOfFile ==
  ASSUME NEW values \in Seq(Word), NEW pad \in Byte,
         NEW bytes \in Seq(Byte), Begins(bytes, Whole(values, pad)), HeaderSize <= Len(bytes)
  PROVE  /\ Contents(bytes) \in Seq(Word) /\ IsPrefix(Contents(bytes), StoredOf(values))
         /\ bytes = Whole(values, pad) => Contents(bytes) = StoredOf(values)
<1>1. PICK n \in Nat, b \in Nat : n = Len(values) /\ b = Len(bytes)
  OBVIOUS
<1>2. PICK f : AreFrames(f, values, n) /\ Frames(values) = f[n]
  BY <1>1, FramesDefined
<1>3. PICK g : AreListed(g, bytes, b) /\ Contents(bytes) = g[b].values
  BY <1>1, ContentsDefined
<1>4. PICK st \in Seq(Word) : st = StoredOf(values) /\ Len(st) = n
  BY <1>1, StoredTyped
<1> DEFINE S == {i \in Nat : i <= b => \E m \in Nat : m <= n /\ Reached(g[i], f, st, bytes, i, m)}
<1>5. 0 \in S
  <2>1. f[0] = <<>> /\ Len(f[0]) = 0
    BY <1>2 DEF AreFrames
  <2>2. SubSeq(st, 1, 0) = <<>>
    OBVIOUS
  <2>3. HeaderSize + Len(f[0]) = HeaderSize
    BY <2>1 DEF HeaderSize
  <2>4. g[0] = [values |-> SubSeq(st, 1, 0), next |-> HeaderSize + Len(f[0])]
    BY <1>3, <2>2, <2>3 DEF AreListed
  <2>5. Reached(g[0], f, st, bytes, 0, 0)
    BY <2>1, <2>3, <2>4 DEF Reached
  <2> QED  BY <2>5
<1>6. ASSUME NEW i \in Nat, i \in S PROVE i + 1 \in S
  <2> SUFFICES ASSUME i + 1 <= b
               PROVE  \E m \in Nat : m <= n /\ Reached(g[i + 1], f, st, bytes, i + 1, m)
    OBVIOUS
  <2>1. PICK m \in Nat : m <= n /\ Reached(g[i], f, st, bytes, i, m)
    BY <1>6
  <2>2. g[i + 1] = Round(bytes, g[i])
    <3>1. i + 1 \in 1 .. b /\ (i + 1) - 1 = i
      OBVIOUS
    <3> QED  BY <1>3, <3>1 DEF AreListed
  <2>3. PICK l : l = g[i]
    OBVIOUS
  <2>4. \E k \in Nat : k <= n /\ Reached(Round(bytes, l), f, StoredOf(values), bytes, i + 1, k)
    BY <1>1, <1>2, <1>4, <2>1, <2>3, RoundAdvances
  <2> QED  BY <1>4, <2>2, <2>3, <2>4
<1>7. \A i \in Nat : i \in S
  <2> HIDE DEF S
  <2> QED  BY <1>5, <1>6, SetInduction
<1>8. PICK m \in Nat : m <= n /\ Reached(g[b], f, st, bytes, b, m)
  <2>1. b \in S
    BY <1>7
  <2> QED  BY <2>1
<1> HIDE DEF S
<1>9. Contents(bytes) = SubSeq(st, 1, m)
  BY <1>3, <1>8 DEF Reached
<1>10. PICK x \in Nat : x = Len(f[m]) /\ m <= x /\ HeaderSize + x <= b
  <2>1. f[m] \in Seq(Byte)
    BY <1>2, <1>8 DEF AreFrames
  <2> QED  BY <1>1, <1>8, <2>1 DEF Reached
<1>11. ~ReadAt(bytes, HeaderSize + x).ok
  <2>1. m # b
    BY <1>10 DEF HeaderSize
  <2> QED  BY <1>8, <1>10, <2>1 DEF Reached
<1>12. Contents(bytes) \in Seq(Word) /\ IsPrefix(Contents(bytes), st)
  <2>1. Len(SubSeq(st, 1, m)) = m /\ SubSeq(st, 1, m) \in Seq(Word)
    BY <1>4, <1>8, SubSeqTyped
  <2>2. PICK c \in Seq(Word) : c = SubSeq(st, 1, m) /\ Len(c) = m
    BY <2>1
  <2>3. SubSeq(c, 1, Len(c)) = c
    OBVIOUS
  <2>4. Len(c) <= Len(st) /\ SubSeq(c, 1, Len(c)) = SubSeq(st, 1, Len(c))
    BY <1>4, <1>8, <2>2, <2>3
  <2> QED  BY <1>9, <2>2, <2>4 DEF IsPrefix
<1>13. ASSUME bytes = Whole(values, pad) PROVE Contents(bytes) = st
  <2>1. Len(bytes) = HeaderSize + Len(f[n])
    BY <1>2, <1>13, WholeTyped
  <2>2. CASE m < n
    <3>1. ReadAt(bytes, HeaderSize + Len(f[m])).ok <=> HeaderSize + Len(f[m + 1]) <= Len(bytes)
      BY <1>1, <1>2, <1>10, <2>2, ReadFrame
    <3>2. Begins(f[m + 1], f[n])
      <4>1. m + 1 \in Nat /\ m + 1 <= n /\ n <= n
        BY <2>2
      <4> QED  BY <1>1, <1>2, <4>1, FramesGrow
    <3>3. f[m + 1] \in Seq(Byte) /\ f[n] \in Seq(Byte)
      BY <1>2, <2>2 DEF AreFrames
    <3>4. HeaderSize + Len(f[m + 1]) <= HeaderSize + Len(f[n])
      BY <3>2, <3>3 DEF Begins, HeaderSize
    <3> QED  BY <1>10, <1>11, <2>1, <3>1, <3>4
  <2>3. CASE m = n
    <3>1. SubSeq(st, 1, Len(st)) = st
      OBVIOUS
    <3> QED  BY <1>4, <1>9, <2>3, <3>1
  <2> QED  BY <1>8, <2>2, <2>3
<1> QED  BY <1>4, <1>12, <1>13

LEMMA HeaderOfFile ==
  ASSUME NEW values \in Seq(Word), NEW pad \in Byte,
         NEW bytes \in Seq(Byte), Begins(bytes, Whole(values, pad)), HeaderSize <= Len(bytes)
  PROVE  HeaderIsValid(bytes)
<1>1. PICK h \in Seq(Byte), f \in Seq(Byte) :
        /\ h = Header(pad) /\ f = Frames(values)
        /\ Len(h) = HeaderSize
        /\ \A k \in 1 .. 6 : h[k] = Magic[k]
        /\ h[7] = TERNARY_FORMAT_VERSION
  BY HeaderTyped, FramesTyped
<1>2. \A k \in 1 .. HeaderSize : bytes[k] = h[k]
  <2>1. PICK w : w = h \o f /\ \A k \in 1 .. Len(h) : w[k] = h[k]
    <3>1. \A k \in 1 .. Len(h) : (h \o f)[k] = h[k]
      BY Concat
    <3> QED  BY <3>1
  <2>2. Begins(bytes, w)
    BY <1>1, <2>1 DEF Whole
  <2>3. PICK b \in Nat : b = Len(bytes)
    OBVIOUS
  <2>4. \A k \in 1 .. HeaderSize : bytes[k] = w[k]
    BY <2>2, <2>3 DEF Begins, HeaderSize
  <2> QED  BY <1>1, <2>1, <2>4
<1>3. PICK b \in Nat : b = Len(bytes) /\ 12 <= b
  BY DEF HeaderSize
<1>4. SubSeq(bytes, 1, 6) = Magic
  <2>1. PICK s \in Seq(Byte) : s = SubSeq(bytes, 1, 6) /\ Len(s) = 6 /\ \A k \in 1 .. 6 : s[k] = bytes[k]
    <3>1. 6 <= Len(bytes) /\ 6 \in Nat
      BY <1>3
    <3>2. SubSeq(bytes, 1, 6) \in Seq(Byte) /\ Len(SubSeq(bytes, 1, 6)) = 6
      BY <3>1, SubSeqTyped
    <3>3. \A k \in 1 .. 6 : SubSeq(bytes, 1, 6)[k] = bytes[k]
      BY <3>1
    <3> QED  BY <3>2, <3>3
  <2>2. Magic \in Seq(Byte) /\ Len(Magic) = 6
    <3>1. {84, 51, 70, 77, 0} \subseteq Byte
      BY DEF Byte
    <3> QED  BY <3>1 DEF Magic
  <2>3. \A k \in 1 .. 6 : s[k] = Magic[k]
    <3>1. \A k \in 1 .. 6 : k \in 1 .. HeaderSize
      BY DEF HeaderSize
    <3> QED  BY <1>1, <1>2, <2>1, <3>1
  <2>4. s = Magic
    BY <2>1, <2>2, <2>3, SameSequence
  <2> QED  BY <2>1, <2>4
<1>5. bytes[7] = TERNARY_FORMAT_VERSION
  BY <1>1, <1>2 DEF HeaderSize
<1> QED  BY <1>4, <1>5 DEF HeaderIsValid

-----------------------------------------------------------------------------
LEMMA NextIInv == IInv /\ [Next]_vars => IInv'
<1> SUFFICES ASSUME IInv, [Next]_vars PROVE IInv'
  OBVIOUS
<1>1. ASSUME NEW mode \in Modes, file_open(mode) PROVE IInv'
  BY <1>1, OpenKeepsIInv
<1>2. CASE file_close
  BY <1>2, CloseKeepsIInv
<1>3. CASE Reads
  BY <1>3, ReadKeepsIInv
<1>4. ASSUME NEW v \in Written, file_write(v) PROVE IInv'
  BY <1>4, WriteKeepsIInv
<1>5. ASSUME NEW v \in Written, file_write_fails(v) PROVE IInv'
  BY <1>5, FailedWriteKeepsIInv
<1>6. CASE Flush
  BY <1>6, FlushKeepsIInv
<1>7. CASE Kill
  BY <1>7, KillKeepsIInv
<1>8. CASE UNCHANGED vars
  BY <1>8 DEF IInv, TypeOK, NoStrayBytes, LostIsOver, FileTells, Writable, vars, handle
<1> QED  BY <1>1, <1>2, <1>3, <1>4, <1>5, <1>6, <1>7, <1>8 DEF Next, Others

(* The invariant holds: a file that was not torn is the header and the     *)
(* frames of what was written to it, as far as the bytes were kept.        *)
THEOREM Inductive == Spec => []IInv
  BY InitIInv, NextIInv, PTL DEF Spec

(* What is checked on a small instance is a part of what is proved here:   *)
(* the bounds only leave steps out.                                        *)
LEMMA BoundsLeaveOut == BoundedSpec => Spec
<1>1. [BoundedNext]_vars => [Next]_vars
  BY DEF BoundedNext, Next
<1> QED  BY <1>1, PTL DEF BoundedSpec, Spec

(* The device keeps its types, and its position is inside the file.        *)
THEOREM TypeCorrect == Spec => []TypeOK
<1>1. IInv => TypeOK
  BY DEF IInv
<1> QED  BY <1>1, Inductive, PTL

(* No sequence of opens, failed opens, closes and kills leaves bytes of    *)
(* one file in the buffer of another.                                      *)
THEOREM BufferIsOfOpenFile == Spec => []NoStrayBytes
<1>1. IInv => NoStrayBytes
  BY DEF IInv
<1> QED  BY <1>1, Inductive, PTL

LEMMA StoredIsStoredOf == Stored = StoredOf(written)
  BY DEF Stored, StoredOf, ReadBack

(* A list that is a prefix of what the codec makes of the values written   *)
(* has the values themselves where they are not negative.                  *)
LEMMA ListsPrefix ==
  ASSUME IInv, NEW values \in Seq(Word), IsPrefix(values, Stored) PROVE Lists(values)
<1>1. PICK n \in Nat, m \in Nat : n = Len(values) /\ m = Len(written)
  BY TypesOfIInv
<1>2. Stored \in Seq(Word) /\ Len(Stored) = m
  BY <1>1, TypesOfIInv, StoredIsStoredOf, StoredTyped
<1>3. PICK s \in Seq(Word) : s = Stored /\ Len(s) = m
  BY <1>2
<1>4. n <= m /\ SubSeq(values, 1, n) = SubSeq(s, 1, n)
  BY <1>1, <1>3 DEF IsPrefix
<1>5. \A k \in 1 .. n : values[k] = s[k]
  <2>1. \A k \in 1 .. n : SubSeq(values, 1, n)[k] = values[k]
    BY <1>1
  <2>2. \A k \in 1 .. n : SubSeq(s, 1, n)[k] = s[k]
    BY <1>3, <1>4
  <2> QED  BY <1>4, <2>1, <2>2
<1>6. ASSUME NEW k \in DOMAIN values, written[k] >= 0 PROVE values[k] = written[k]
  <2>1. k \in 1 .. n /\ k \in 1 .. m /\ k \in DOMAIN written
    BY <1>1, <1>4, TypesOfIInv
  <2>2. written[k] \in Word
    BY <2>1, TypesOfIInv
  <2>3. Numeral(written[k])
    BY <2>2, NumeralAll
  <2>4. s[k] = balanced_ternary_to_int(int_to_balanced_ternary(written[k]))
    BY <1>3, <2>1 DEF Stored
  <2>5. s[k] = written[k]
    BY <1>6, <2>3, <2>4 DEF Numeral
  <2> QED  BY <1>5, <2>1, <2>5
<1> QED  BY <1>6 DEF Lists

(* After a kill at any moment, with any part of the bytes flushed, what    *)
(* t3reader lists are the first of the values that were written, the       *)
(* negative ones as the codec reads them.                                  *)
THEOREM CrashIsHonest == Spec => []CrashLeavesPrefix
<1>1. IInv => CrashLeavesPrefix
  <2> SUFFICES ASSUME IInv, exists, Len(disk) >= HeaderSize, ~torn
               PROVE  HeaderIsValid(disk) /\ Lists(Contents(disk))
    BY DEF CrashLeavesPrefix
  <2>1. Begun(disk, written)
    BY TypesOfIInv, BegunWhenCut DEF IInv, FileTells
  <2>2. PICK pad \in Byte : Begins(disk, Whole(written, pad))
    BY <2>1 DEF Begun
  <2>3. HeaderSize <= Len(disk)
    <3>1. PICK n \in Nat : n = Len(disk)
      BY TypesOfIInv
    <3> QED  BY <3>1 DEF HeaderSize
  <2>4. Contents(disk) \in Seq(Word) /\ IsPrefix(Contents(disk), Stored)
    BY <2>2, <2>3, TypesOfIInv, ContentsOfFile, StoredIsStoredOf
  <2> QED  BY <2>2, <2>3, <2>4, TypesOfIInv, HeaderOfFile, ListsPrefix
<1> QED  BY <1>1, Inductive, PTL

(* For a closed file of which nothing was lost t3reader lists as many      *)
(* values as were written, and each that was not negative is what was      *)
(* written.                                                                *)
THEOREM CloseIsComplete == Spec => []ClosedIsComplete
<1>1. IInv => ClosedIsComplete
  <2> SUFFICES ASSUME IInv, exists, ~is_open, ~torn, ~lost
               PROVE  /\ HeaderIsValid(disk)
                      /\ Lists(Contents(disk)) /\ Len(Contents(disk)) = Len(written)
    BY DEF ClosedIsComplete
  <2>1. disk \o unflushed = disk
    <3>1. unflushed = <<>>
      BY DEF IInv, NoStrayBytes, Writable
    <3> QED  BY <3>1, TypesOfIInv, ConcatEmpty
  <2>2. PICK pad \in Byte : disk = Whole(written, pad)
    BY <2>1 DEF IInv, FileTells, Full
  <2>3. Begins(disk, Whole(written, pad))
    BY <2>2, TypesOfIInv DEF Begins
  <2>4. HeaderSize <= Len(disk)
    <3>1. PICK n \in Nat : n = Len(Frames(written))
      BY TypesOfIInv, FramesTyped
    <3>2. Len(disk) = HeaderSize + n
      BY <2>2, <3>1, TypesOfIInv, WholeTyped
    <3> QED  BY <3>2 DEF HeaderSize
  <2>5. Contents(disk) \in Seq(Word) /\ IsPrefix(Contents(disk), Stored) /\ Contents(disk) = Stored
    BY <2>2, <2>3, <2>4, TypesOfIInv, ContentsOfFile, StoredIsStoredOf
  <2>6. Len(Stored) = Len(written)
    BY TypesOfIInv, StoredTyped, StoredIsStoredOf
  <2> QED  BY <2>2, <2>3, <2>4, <2>5, <2>6, TypesOfIInv, HeaderOfFile, ListsPrefix
<1> QED  BY <1>1, Inductive, PTL

(* A successful read passes a length byte and at least one trit, and stays *)
(* inside the file.                                                        *)
THEOREM ReadsMakeProgress == Spec => ReadsAdvance
<1> DEFINE A == Readable /\ ReadAt(disk, pos).ok /\ file_read(ReadAt(disk, pos).value)
                  => pos + 2 <= pos' /\ pos' <= Len(disk)
<1>1. IInv => [A]_vars
  <2> SUFFICES ASSUME IInv, ReadAt(disk, pos).ok, pos' = ReadAt(disk, pos).next
               PROVE  pos + 2 <= pos' /\ pos' <= Len(disk)
    BY DEF file_read
  <2>1. PICK p \in Nat, n \in Nat : p = pos /\ n = Len(disk) /\ p <= n
    BY TypesOfIInv
  <2>2. p < n
    BY <2>1, TypesOfIInv, ReadAtFacts
  <2>3. PICK b \in Nat : b = disk[p + 1]
    <3>1. p + 1 \in 1 .. Len(disk)
      BY <2>1, <2>2
    <3>2. disk[p + 1] \in Byte
      BY <3>1, TypesOfIInv
    <3> QED  BY <3>2 DEF Byte
  <2>4. b >= 1 /\ p + 1 + b <= n /\ pos' = p + 1 + b
    BY <2>1, <2>3, TypesOfIInv, ReadAtFacts
  <2> QED  BY <2>1, <2>4
<1> QED  BY <1>1, Inductive, PTL DEF Spec, ReadsAdvance
=============================================================================
