--------------------------- MODULE TerminalProofs ---------------------------
(***************************************************************************)
(* Theorems about Terminal, for every set of bytes, open modes and values, *)
(* either signedness of char and any number of keys.                       *)
(***************************************************************************)
EXTENDS Terminal, TLAPS

(* Each part needs the others: the request stands for the buffered byte    *)
(* because ready and buffer agree, and they agree after a read because the *)
(* buffer holds one byte.                                                  *)
IInv == TypeOK /\ RequestHasByte /\ ReadyIffUnread

-----------------------------------------------------------------------------
(* The bytes of a sequence before and after its first one is moved over.   *)
LEMMA HeadAndTail ==
  ASSUME NEW s \in Seq(Bytes), s # <<>>
  PROVE  /\ Head(s) \in Bytes /\ Tail(s) \in Seq(Bytes)
         /\ <<Head(s)>> \o Tail(s) = s
         /\ Len(Tail(s)) = Len(s) - 1
  OBVIOUS

(* The buffer of one byte in front of the bytes on standard input.         *)
LEMMA OneBuffered ==
  ASSUME NEW b \in Bytes, NEW s \in Seq(Bytes)
  PROVE  /\ Head(<<b>>) = b /\ Tail(<<b>>) = <<>> /\ <<b>> # <<>>
         /\ <<b>> \o s \in Seq(Bytes) /\ <<b>> \o s # <<>>
         /\ Head(<<b>> \o s) = b /\ Tail(<<b>> \o s) = s
         /\ Len(<<b>> \o s) = Len(s) + 1
  OBVIOUS

LEMMA NothingBuffered == ASSUME NEW s \in Seq(Bytes) PROVE <<>> \o s = s
  OBVIOUS

(* What the device may show.                                               *)
LEMMA Shown ==
  /\ Blank \in Screens
  /\ \A b \in 0 .. 255 : Char(b) \in Screens
  /\ \A v \in Values : v \notin 0 .. 255 => Number(v) \in Screens
  BY Zenon DEF Screens

LEMMA InitInv == Init => IInv
<1> SUFFICES ASSUME Init PROVE IInv
  OBVIOUS
<1>1. screen \in Screens
  BY Shown DEF Init
<1>2. tty \in Seq(Bytes) /\ typed \in Seq(Bytes) /\ received \in Seq(Bytes)
  BY DEF Init
<1> QED  BY <1>1, <1>2 DEF Init, IInv, TypeOK, RequestHasByte, ReadyIffUnread

LEMMA TypeInv == ASSUME IInv, NEW b \in Bytes, Type(b) PROVE IInv'
  BY DEF Type, device, IInv, TypeOK, RequestHasByte, ReadyIffUnread

LEMMA ReadInv == ASSUME IInv, NEW v, terminal_read(v) PROVE IInv'
<1>1. PICK b \in Bytes : input = <<b>>
  BY DEF terminal_read, CanRead, IInv, TypeOK
<1>2. input' = <<>>
  BY <1>1, OneBuffered DEF terminal_read, Remaining
<1>4. input_ready' = FALSE /\ irq_pending' = FALSE
  BY <1>2 DEF terminal_read
<1>3. received' \in Seq(Bytes)
  BY <1>1 DEF terminal_read, IInv, TypeOK
<1> QED  BY <1>2, <1>3, <1>4 DEF terminal_read, IInv, TypeOK, RequestHasByte, ReadyIffUnread

LEMMA WriteInv == ASSUME IInv, NEW value \in Values, terminal_write(value) PROVE IInv'
<1>1. Printed(value) \in Screens
  <2>1. CASE value \in 0 .. 255
    BY <2>1, Shown DEF Printed
  <2>2. CASE value \notin 0 .. 255
    BY <2>2, Shown, TerminalAssumption DEF Printed
  <2> QED  BY <2>1, <2>2
<1> QED  BY <1>1 DEF terminal_write, device, IInv, TypeOK, RequestHasByte, ReadyIffUnread

LEMMA OpenInv == ASSUME IInv, NEW mode, terminal_open(mode) PROVE IInv'
  BY DEF terminal_open, IInv, TypeOK, RequestHasByte, ReadyIffUnread

LEMMA CloseInv == ASSUME IInv, terminal_close PROVE IInv'
  BY DEF terminal_close, IInv, TypeOK, RequestHasByte, ReadyIffUnread

LEMMA TickInv == ASSUME IInv, terminal_tick PROVE IInv'
<1>1. Head(tty) \in Bytes /\ Tail(tty) \in Seq(Bytes) /\ Head(tty) \in 0 .. 255
  BY HeadAndTail, TerminalAssumption DEF terminal_tick, IInv, TypeOK
<1>2. screen' \in Screens
  BY <1>1 DEF terminal_tick, Screens, Char
<1>3. input' # <<>>
  BY <1>1, OneBuffered DEF terminal_tick, IInv, TypeOK
<1> QED  BY <1>1, <1>2, <1>3
         DEF terminal_tick, Polls, IInv, TypeOK, RequestHasByte, ReadyIffUnread

LEMMA NextInv == IInv /\ [Next]_vars => IInv'
<1> SUFFICES ASSUME IInv, [Next]_vars PROVE IInv'
  OBVIOUS
<1>1. ASSUME NEW b \in Bytes, Type(b) PROVE IInv'
  BY <1>1, TypeInv
<1>2. CASE Reads
  BY <1>2, ReadInv DEF Reads
<1>3. ASSUME NEW value \in Values, terminal_write(value) PROVE IInv'
  BY <1>3, WriteInv
<1>4. ASSUME NEW mode \in Modes, terminal_open(mode) PROVE IInv'
  BY <1>4, OpenInv
<1>5. CASE terminal_close
  BY <1>5, CloseInv
<1>6. CASE terminal_tick
  BY <1>6, TickInv
<1>7. CASE UNCHANGED vars
  BY <1>7 DEF vars, device, IInv, TypeOK, RequestHasByte, ReadyIffUnread
<1> QED  BY <1>1, <1>2, <1>3, <1>4, <1>5, <1>6, <1>7 DEF Next

(* The inductive invariant.                                                *)
THEOREM Inductive == Spec => []IInv
  BY InitInv, NextInv, PTL DEF Spec

(* The buffer never holds more than one byte, and every byte anywhere is   *)
(* one a key may produce.                                                  *)
THEOREM TypeCorrect == Spec => []TypeOK
  BY Inductive, PTL DEF IInv

(* No request is raised without a byte to read on an open device.          *)
THEOREM RequestIsHonest == Spec => []RequestHasByte
  BY Inductive, PTL DEF IInv

(* The ready flag, the position and the length of the buffer agree.        *)
THEOREM BufferIsCoherent == Spec => []ReadyIffUnread
  BY Inductive, PTL DEF IInv

-----------------------------------------------------------------------------
(* What each operation does to the bytes in transit.                       *)
InTransit == input \o tty

LEMMA Transit == ASSUME IInv PROVE InTransit \in Seq(Bytes) /\ (input = <<>> => InTransit = tty)
  BY NothingBuffered, OneBuffered DEF IInv, TypeOK, InTransit

LEMMA TypeTransit ==
  ASSUME IInv, NEW b \in Bytes, Type(b) PROVE InTransit' = Append(InTransit, b)
<1>1. tty \in Seq(Bytes) /\ tty' = Append(tty, b) /\ tty' \in Seq(Bytes) /\ input' = input
  BY DEF Type, device, IInv, TypeOK
<1>2. CASE input = <<>>
  BY <1>1, <1>2 DEF InTransit
<1>3. ASSUME NEW c \in Bytes, input = <<c>> PROVE InTransit' = Append(InTransit, b)
  BY <1>1, <1>3 DEF InTransit
<1> QED  BY <1>2, <1>3 DEF IInv, TypeOK

LEMMA ReadTransit ==
  ASSUME IInv, NEW v, terminal_read(v)
  PROVE  /\ InTransit # <<>> /\ received' = Append(received, Head(InTransit))
         /\ InTransit' = Tail(InTransit) /\ typed' = typed
<1>1. PICK b \in Bytes : input = <<b>>
  BY DEF terminal_read, CanRead, IInv, TypeOK
<1>2. tty \in Seq(Bytes) /\ tty' = tty /\ input' = <<>>
  BY <1>1, OneBuffered DEF terminal_read, Remaining, IInv, TypeOK
<1> QED  BY <1>1, <1>2, OneBuffered, NothingBuffered DEF terminal_read, InTransit

LEMMA OpenTransit ==
  ASSUME IInv, NEW mode, terminal_open(mode)
  PROVE  /\ UNCHANGED <<typed, received>>
         /\ \/ InTransit' = InTransit
            \/ mode \in {0, 2} /\ InTransit # <<>> /\ InTransit' = Tail(InTransit)
<1>1. UNCHANGED <<typed, received, tty>> /\ tty \in Seq(Bytes)
  BY DEF terminal_open, IInv, TypeOK
<1>2. CASE mode \notin {0, 2} \/ input = <<>>
  BY <1>1, <1>2 DEF terminal_open, InTransit
<1>3. ASSUME NEW b \in Bytes, input = <<b>>, mode \in {0, 2}
      PROVE  InTransit # <<>> /\ InTransit' = Tail(InTransit)
  BY <1>1, <1>3, OneBuffered, NothingBuffered DEF terminal_open, InTransit
<1> QED  BY <1>1, <1>2, <1>3 DEF IInv, TypeOK

LEMMA TickTransit ==
  ASSUME IInv, terminal_tick PROVE InTransit' = InTransit
<1>1. input = <<>> /\ tty \in Seq(Bytes) /\ tty # <<>>
  BY DEF terminal_tick, Polls, IInv, TypeOK, ReadyIffUnread
<1> QED  BY <1>1, HeadAndTail, NothingBuffered DEF terminal_tick, InTransit

(* Bytes in transit become fewer only by a read or an open for reading:    *)
(* not by a close, an open for writing, or a tick with the buffer full.    *)
THEOREM LossOnlyByOpen == Spec => LostOnlyByOpen
<1> DEFINE Lost == received' = received /\ Len(input' \o tty') < Len(input \o tty)
                     => \E mode \in {0, 2} : terminal_open(mode)
<1>1. IInv /\ [Next]_vars => [Lost]_vars
  <2> SUFFICES ASSUME IInv, Next, received' = received, Len(InTransit') < Len(InTransit)
               PROVE  \E mode \in {0, 2} : terminal_open(mode)
    BY DEF InTransit
  <2>1. InTransit \in Seq(Bytes) /\ Len(InTransit) \in Nat
    BY Transit
  <2>2. InTransit' # InTransit
    BY <2>1
  <2>3. ASSUME NEW b \in Bytes, Type(b) PROVE FALSE
    BY <2>1, <2>3, TypeTransit
  <2>4. ASSUME NEW v, terminal_read(v) PROVE FALSE
    <3>1. received \in Seq(Bytes) /\ InTransit # <<>> /\ received' = Append(received, Head(InTransit))
      BY <2>4, ReadTransit DEF IInv, TypeOK
    <3> QED  BY <2>1, <3>1, HeadAndTail
  <2>5. ASSUME NEW value \in Values, terminal_write(value) PROVE FALSE
    BY <2>2, <2>5 DEF terminal_write, device, InTransit
  <2>6. ASSUME NEW mode \in Modes, terminal_open(mode) PROVE mode \in {0, 2}
    BY <2>2, <2>6, OpenTransit
  <2>7. CASE terminal_close
    BY <2>2, <2>7 DEF terminal_close, InTransit
  <2>8. CASE terminal_tick
    BY <2>2, <2>8, TickTransit
  <2> QED  BY <2>3, <2>4, <2>5, <2>6, <2>7, <2>8 DEF Next, Reads
<1> QED  BY <1>1, Inductive, PTL DEF Spec, LostOnlyByOpen

(* The terminal is a channel: with the buffered byte and those on standard *)
(* input in transit, each step is a key, a byte received, a byte lost, or  *)
(* a stutter.                                                              *)
THEOREM Implements == Spec => ImplementsChannel
<1>1. Init => Channel!Init
  BY DEF Init, Channel!Init
<1>2. IInv /\ [Next]_vars => [Channel!Next]_(Channel!channelVars)
  <2> SUFFICES ASSUME IInv, [Next]_vars
               PROVE  Channel!Next \/ UNCHANGED <<typed, InTransit, received>>
    BY DEF Channel!channelVars, InTransit
  <2>1. ASSUME NEW b \in Bytes, Type(b) PROVE Channel!Type(b)
    BY <2>1, TypeTransit DEF Type, Channel!Type, InTransit
  <2>2. ASSUME NEW v, terminal_read(v) PROVE Channel!Receive
    BY <2>2, ReadTransit DEF Channel!Receive, InTransit
  <2>3. ASSUME NEW value \in Values, terminal_write(value)
        PROVE  UNCHANGED <<typed, InTransit, received>>
    BY <2>3 DEF terminal_write, device, InTransit
  <2>4. ASSUME NEW mode \in Modes, terminal_open(mode)
        PROVE  Channel!Lose \/ UNCHANGED <<typed, InTransit, received>>
    BY <2>4, OpenTransit DEF Channel!Lose, InTransit
  <2>5. CASE terminal_close
    BY <2>5 DEF terminal_close, InTransit
  <2>6. CASE terminal_tick
    BY <2>6, TickTransit DEF terminal_tick
  <2>7. CASE UNCHANGED vars
    BY <2>7 DEF vars, device, InTransit
  <2> QED  BY <2>1, <2>2, <2>3, <2>4, <2>5, <2>6, <2>7 DEF Next, Reads, Channel!Next
<1> QED  BY <1>1, <1>2, Inductive, PTL DEF Spec, ImplementsChannel, Channel!Spec
=============================================================================
