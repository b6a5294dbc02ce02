----------------------------- MODULE MCRegistry -----------------------------
(***************************************************************************)
(* One id and one cell more than the table has slots: the table may be     *)
(* full, an id in use, and a freed cell handed out under another id.       *)
(***************************************************************************)
EXTENDS DeviceRegistry

MCIds == 0 .. 3
=============================================================================
