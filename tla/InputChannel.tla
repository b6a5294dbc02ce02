---------------------------- MODULE InputChannel ----------------------------
(***************************************************************************)
(* What the terminal device promises of its keyboard input: a channel that *)
(* hands the bytes to the program in the order they were typed, each at    *)
(* most once, and may lose the ones it has not handed over yet.            *)
(***************************************************************************)
EXTENDS Sequences, Naturals

CONSTANTS
  Bytes,     \* the bytes a key may produce
  MaxKeys    \* bound on the number of bytes typed

VARIABLES
  typed,     \* every byte typed so far
  chan,      \* the bytes in transit
  received   \* the bytes handed to the program

channelVars == <<typed, chan, received>>

Init == typed = <<>> /\ chan = <<>> /\ received = <<>>

Type(b) ==
  /\ Len(typed) < MaxKeys
  /\ typed' = Append(typed, b)
  /\ chan' = Append(chan, b)
  /\ UNCHANGED received

Receive ==
  /\ chan # <<>>
  /\ received' = Append(received, Head(chan))
  /\ chan' = Tail(chan)
  /\ UNCHANGED typed

Lose ==
  /\ chan # <<>>
  /\ chan' = Tail(chan)
  /\ UNCHANGED <<typed, received>>

Next == (\E b \in Bytes : Type(b)) \/ Receive \/ Lose

Spec == Init /\ [][Next]_channelVars
=============================================================================
