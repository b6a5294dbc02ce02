----------------------------- MODULE MCTerminal -----------------------------
(***************************************************************************)
(* A small instance of Terminal: three keystrokes from an ASCII byte and   *)
(* one above 127, every open mode the code tells apart and one it does     *)
(* not, and written values on both sides of the limits of a byte.          *)
(***************************************************************************)
EXTENDS Terminal

MCBytes  == {113, 200}
MCModes  == {0, 1, 2}
MCValues == {-56, 113, 256}
=============================================================================
