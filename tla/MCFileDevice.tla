---------------------------- MODULE MCFileDevice ----------------------------
(***************************************************************************)
(* A small instance of FileDevice: values of one and of three trits, one   *)
(* of them negative, two opens the code tells apart, and an earlier file   *)
(* long enough that the reads which take its header for data get past it.  *)
(***************************************************************************)
EXTENDS FileDevice

MCWritten == {-1, 13}
MCModes   == {0, 1}
MCPadding == {84}
MCEarlier == {[i \in 1 .. 21 |-> 1]}
NoEarlier == {}
=============================================================================
