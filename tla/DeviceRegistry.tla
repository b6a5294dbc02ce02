--------------------------- MODULE DeviceRegistry ---------------------------
(***************************************************************************)
(* The device table of ternuino_t and the memory of the devices in it:     *)
(* the embedder creates devices and registers them, the CPU finds them by  *)
(* id, unregistering closes and frees one, and the clean up of             *)
(* run_program_file all.  A freed cell of the heap may be handed out again.*)
(*                                                                         *)
(* An operator whose name starts with Faulty is the definition after it    *)
(* with a fault; no specification uses one.                                *)
(***************************************************************************)
EXTENDS Naturals

CONSTANTS
  MaxDevices,   \* MAX_DEVICES
  Ids,          \* device ids
  Objects,      \* cells of the heap a device_t may occupy
  NULL

ASSUME RegistryAssumption == MaxDevices \in Nat \ {0} /\ NULL \notin Objects

VARIABLES
  heap,                   \* object -> is it allocated, its id, is it open
  devices, device_count,  \* the table, and the number of slots in use
  phase                   \* "run", and "done" after the clean up

vars == <<heap, devices, device_count, phase>>

Slots  == 0 .. MaxDevices - 1
InUse  == 0 .. device_count - 1
Object == [allocated : BOOLEAN, device_id : Ids, open : BOOLEAN]

Init ==
  /\ heap \in {h \in [Objects -> Object] : \A o \in Objects : ~h[o].allocated /\ ~h[o].open}
  /\ devices = [i \in Slots |-> NULL]
  /\ device_count = 0
  /\ phase = "run"

(* The slot of an id: the first device of the table that has it.           *)
SlotsOf(id) == {i \in InUse : devices[i] # NULL /\ heap[devices[i]].device_id = id}

Freed(o) == [heap[o] EXCEPT !.allocated = FALSE, !.open = FALSE]

-----------------------------------------------------------------------------
(* terminal_device_create and file_device_create, when memory is left.     *)
Create(o, id) ==
  /\ phase = "run" /\ ~heap[o].allocated
  /\ heap' = [heap EXCEPT ![o] = [allocated |-> TRUE, device_id |-> id, open |-> FALSE]]
  /\ UNCHANGED <<devices, device_count, phase>>

(* The table is full, or has the id; the device then stays with the caller. *)
FaultyRefused(o) == device_count >= MaxDevices \/ \E i \in InUse : devices[i] = o
Refused(o) == device_count >= MaxDevices \/ SlotsOf(heap[o].device_id) # {}

ternuino_register_device(o) ==
  /\ phase = "run" /\ heap[o].allocated /\ ~Refused(o)
  /\ devices' = [devices EXCEPT ![device_count] = o]
  /\ device_count' = device_count + 1
  /\ UNCHANGED <<heap, phase>>

(* The table without slot i: what is behind it moves down by one.          *)
FaultyWithoutShift(i) == [devices EXCEPT ![i] = devices[device_count - 1],
                                         ![device_count - 1] = NULL]
FaultyWithoutKept(i) ==
  [j \in Slots |-> IF j \in i .. device_count - 2 THEN devices[j + 1] ELSE devices[j]]
Without(i) ==
  [j \in Slots |-> CASE j \in i .. device_count - 2 -> devices[j + 1]
                     [] j = device_count - 1        -> NULL
                     [] OTHER                       -> devices[j]]

ternuino_unregister_device(id) ==
  /\ phase = "run"
  /\ \E i \in SlotsOf(id) :
       /\ \A j \in SlotsOf(id) : i <= j
       /\ heap' = [heap EXCEPT ![devices[i]] = Freed(devices[i])]
       /\ devices' = Without(i)
  /\ device_count' = device_count - 1
  /\ UNCHANGED phase

(* TOPEN and TCLOSE of the device ternuino_get_device finds.               *)
SetOpen(id, open) ==
  /\ phase = "run"
  /\ \E i \in SlotsOf(id) :
       /\ \A j \in SlotsOf(id) : i <= j
       /\ heap' = [heap EXCEPT ![devices[i]].open = open]
  /\ UNCHANGED <<devices, device_count, phase>>

(* The pointers stay in the table, which goes out of scope.                *)
CleanUp ==
  /\ phase = "run"
  /\ heap' = [o \in Objects |-> IF \E i \in InUse : devices[i] = o THEN Freed(o) ELSE heap[o]]
  /\ phase' = "done"
  /\ UNCHANGED <<devices, device_count>>

Next ==
  \/ \E o \in Objects, id \in Ids : Create(o, id)
  \/ \E o \in Objects : ternuino_register_device(o)
  \/ \E id \in Ids : ternuino_unregister_device(id)
  \/ \E id \in Ids, open \in BOOLEAN : SetOpen(id, open)
  \/ CleanUp

Spec == Init /\ [][Next]_vars

-----------------------------------------------------------------------------
(* The slots in use are those below device_count, and they hold a device.  *)
TypeOK ==
  /\ heap \in [Objects -> Object]
  /\ device_count \in 0 .. MaxDevices
  /\ devices \in [Slots -> Objects \cup {NULL}]
  /\ \A i \in Slots : devices[i] = NULL <=> i >= device_count
  /\ phase \in {"run", "done"}

(* While the CPU runs the table holds no device that has been freed, none  *)
(* twice and no two with one id; and a device that is open can be reached, *)
(* so that no file is left open behind a freed device.                     *)
NoDangling ==
  phase = "run" =>
    /\ \A i \in InUse : heap[devices[i]].allocated
    /\ \A i, j \in InUse : heap[devices[i]].device_id = heap[devices[j]].device_id => i = j
    /\ \A o \in Objects : heap[o].open => \E i \in InUse : devices[i] = o

(* The table with its shifts, its count and its pointers is a directory,   *)
(* whatever is registered, unregistered and allocated again.               *)
Entries ==
  [k \in 1 .. device_count |-> [device_id |-> heap[devices[k - 1]].device_id,
                                object    |-> devices[k - 1]]]

Directory == INSTANCE DeviceDirectory WITH entries <- Entries
ImplementsDirectory == Directory!Spec
=============================================================================
