---------------------------- MODULE MCInterrupts ----------------------------
(***************************************************************************)
(* A small instance of Interrupts: two instruction slots, two vectors, two *)
(* devices polled in the order of main.c, and values on both sides of the  *)
(* memory, of the vector table and of the initial stack pointer.           *)
(***************************************************************************)
EXTENDS Interrupts

MCDevices   == {0, 1}
MCIrqVector == [d \in MCDevices |-> d]
MCValues    == {-1, 0, 2}
=============================================================================
