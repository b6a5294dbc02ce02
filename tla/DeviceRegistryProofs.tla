------------------------ MODULE DeviceRegistryProofs ------------------------
(***************************************************************************)
(* Theorems about DeviceRegistry, for every number of slots, every set of  *)
(* ids and every heap.                                                     *)
(***************************************************************************)
EXTENDS DeviceRegistry, Sequences, TLAPS

(* Both parts are needed for each other: that no slot below the count is   *)
(* empty, to follow its pointer, and that a pointer occurs once, to free   *)
(* what it points to without leaving it in another slot.                   *)
IInv == TypeOK /\ NoDangling

-----------------------------------------------------------------------------
LEMMA InitInv == Init => IInv
  BY RegistryAssumption DEF Init, IInv, TypeOK, NoDangling, Slots, InUse, Object

(* The device in a slot is an object, and different slots have different   *)
(* ones.                                                                   *)
LEMMA SlotHoldsObject ==
  ASSUME IInv, NEW i \in InUse
  PROVE  i \in Slots /\ devices[i] \in Objects
  BY RegistryAssumption DEF IInv, TypeOK, InUse, Slots

LEMMA OneSlot ==
  ASSUME IInv, phase = "run", NEW i \in InUse, NEW j \in InUse, devices[i] = devices[j]
  PROVE  i = j
  BY DEF IInv, NoDangling

LEMMA CreateInv ==
  ASSUME IInv, NEW o \in Objects, NEW id \in Ids, Create(o, id)
  PROVE  IInv'
<1>1. TypeOK'
  BY DEF IInv, TypeOK, Create, Object
<1>2. InUse' = InUse
  BY DEF Create, InUse
<1>3. \A i \in InUse : devices[i] \in Objects /\ devices[i] # o
  BY SlotHoldsObject DEF Create, IInv, NoDangling
<1>4. \A p \in Objects : heap'[p] = IF p = o THEN [allocated |-> TRUE, device_id |-> id, open |-> FALSE]
                                             ELSE heap[p]
  BY DEF Create, IInv, TypeOK
<1>5. NoDangling'
  BY <1>2, <1>3, <1>4 DEF Create, IInv, NoDangling
<1> QED  BY <1>1, <1>5 DEF IInv

LEMMA RegisterInv ==
  ASSUME IInv, NEW o \in Objects, ternuino_register_device(o)
  PROVE  IInv'
<1> USE DEF ternuino_register_device, Refused
<1>1. device_count \in Nat /\ device_count < MaxDevices /\ device_count \in Slots
  BY RegistryAssumption DEF IInv, TypeOK, Slots
<1>2. \A i \in Slots : devices'[i] = IF i = device_count THEN o ELSE devices[i]
  BY <1>1 DEF IInv, TypeOK
<1>3. TypeOK'
  BY <1>1, <1>2, RegistryAssumption DEF IInv, TypeOK, Slots
<1>4. InUse' = InUse \cup {device_count} /\ device_count \notin InUse
  BY <1>1 DEF InUse
<1>5. \A i \in InUse : devices[i] # NULL /\ i \in Slots /\ devices[i] \in Objects
  BY SlotHoldsObject, RegistryAssumption
<1>6. \A i \in InUse : heap[devices[i]].device_id # heap[o].device_id
  BY <1>5 DEF SlotsOf
<1>7. NoDangling'
  BY <1>1, <1>2, <1>4, <1>5, <1>6 DEF IInv, NoDangling
<1> QED  BY <1>3, <1>7 DEF IInv

(* What is left of the table when slot i is taken out: the slot each       *)
(* remaining device came from.                                             *)
From(i, j) == IF j < i THEN j ELSE j + 1

LEMMA WithoutSlot ==
  ASSUME IInv, NEW i \in InUse
  PROVE  \A j \in Slots :
           Without(i)[j] = IF j < device_count - 1 THEN devices[From(i, j)] ELSE NULL
<1>1. device_count \in Nat /\ device_count <= MaxDevices /\ i \in Nat /\ i < device_count
  BY RegistryAssumption DEF IInv, TypeOK, InUse
<1>2. \A j \in Slots : j >= device_count => devices[j] = NULL
  BY DEF IInv, TypeOK
<1> QED  BY <1>1, <1>2, RegistryAssumption DEF Without, From, Slots

LEMMA UnregisterInv ==
  ASSUME IInv, NEW id \in Ids, ternuino_unregister_device(id)
  PROVE  IInv'
<1>1. PICK i \in SlotsOf(id) : /\ heap' = [heap EXCEPT ![devices[i]] = Freed(devices[i])]
                               /\ devices' = Without(i)
  BY DEF ternuino_unregister_device
<1>2. /\ phase = "run" /\ phase' = "run" /\ device_count' = device_count - 1
      /\ i \in InUse /\ i \in Slots /\ devices[i] \in Objects
  BY SlotHoldsObject DEF ternuino_unregister_device, SlotsOf
<1>3. /\ device_count \in Nat /\ device_count <= MaxDevices
      /\ i \in Nat /\ i < device_count
  BY <1>2, RegistryAssumption DEF IInv, TypeOK, InUse
<1>4. \A j \in InUse' : j \in InUse /\ j \in Slots /\ From(i, j) \in InUse /\ From(i, j) # i
  BY <1>2, <1>3, RegistryAssumption DEF InUse, From, Slots
<1>5. \A j \in InUse' : devices'[j] = devices[From(i, j)]
  BY <1>1, <1>2, <1>3, <1>4, WithoutSlot DEF InUse
<1>6. \A j \in InUse' : devices'[j] \in Objects /\ devices'[j] # devices[i]
  BY <1>2, <1>4, <1>5, SlotHoldsObject, OneSlot
<1>7. \A o \in Objects : heap'[o] = IF o = devices[i] THEN Freed(o) ELSE heap[o]
  BY <1>1, <1>2 DEF IInv, TypeOK
<1>8. TypeOK'
  <2>1. heap' \in [Objects -> Object]
    BY <1>1, <1>2 DEF IInv, TypeOK, Object, Freed
  <2>2. device_count' \in 0 .. MaxDevices
    BY <1>2, <1>3, RegistryAssumption
  <2>3. \A j \in Slots : devices'[j] = IF j \in InUse' THEN devices[From(i, j)] ELSE NULL
    BY <1>1, <1>2, <1>3, WithoutSlot DEF InUse, Slots
  <2>4. devices' \in [Slots -> Objects \cup {NULL}]
    <3>1. devices' = [j \in Slots |-> devices'[j]]
      BY <1>1 DEF Without
    <3> QED  BY <3>1, <2>3, <1>5, <1>6
  <2>5. \A j \in Slots : devices'[j] = NULL <=> j >= device_count'
    <3> SUFFICES ASSUME NEW j \in Slots PROVE devices'[j] = NULL <=> j >= device_count'
      OBVIOUS
    <3>1. j \in InUse' <=> ~(j >= device_count')
      BY <1>2, <1>3, RegistryAssumption DEF Slots, InUse
    <3>2. j \in InUse' => devices'[j] # NULL
      BY <1>6, RegistryAssumption
    <3> QED  BY <3>1, <3>2, <2>3
  <2> QED  BY <1>2, <2>1, <2>2, <2>4, <2>5 DEF TypeOK
<1>9. NoDangling'
  <2>1. \A j \in InUse' : heap'[devices'[j]] = heap[devices[From(i, j)]]
    BY <1>5, <1>6, <1>7
  <2>2. \A j \in InUse' : heap'[devices'[j]].allocated
    BY <2>1, <1>2, <1>4 DEF IInv, NoDangling
  <2>3. \A j, k \in InUse' :
          heap'[devices'[j]].device_id = heap'[devices'[k]].device_id => j = k
    <3> SUFFICES ASSUME NEW j \in InUse', NEW k \in InUse',
                        heap'[devices'[j]].device_id = heap'[devices'[k]].device_id
                 PROVE  j = k
      OBVIOUS
    <3>1. From(i, j) = From(i, k)
      BY <2>1, <1>2, <1>4 DEF IInv, NoDangling
    <3> QED  BY <3>1, <1>3, <1>2 DEF From, InUse
  <2>4. ASSUME NEW o \in Objects, heap'[o].open
        PROVE  \E j \in InUse' : devices'[j] = o
    <3>1. o # devices[i] /\ heap[o].open
      BY <2>4, <1>7, <1>2 DEF Freed, IInv, TypeOK, Object
    <3>2. PICK k \in InUse : devices[k] = o /\ k # i
      BY <3>1, <1>2 DEF IInv, NoDangling
    <3> DEFINE j == IF k < i THEN k ELSE k - 1
    <3>3. j \in InUse' /\ From(i, j) = k
      BY <3>2, <1>2, <1>3 DEF InUse, From
    <3> QED  BY <3>2, <3>3, <1>5
  <2> QED  BY <2>2, <2>3, <2>4, <1>2 DEF NoDangling
<1> QED  BY <1>8, <1>9 DEF IInv

LEMMA SetOpenInv ==
  ASSUME IInv, NEW id \in Ids, NEW open \in BOOLEAN, SetOpen(id, open)
  PROVE  IInv'
<1>1. PICK i \in SlotsOf(id) : heap' = [heap EXCEPT ![devices[i]].open = open]
  BY DEF SetOpen
<1>2. i \in InUse /\ devices[i] \in Objects
  BY SlotHoldsObject DEF SlotsOf
<1>3. \A o \in Objects : /\ heap'[o].allocated = heap[o].allocated
                         /\ heap'[o].device_id = heap[o].device_id
                         /\ o # devices[i] => heap'[o].open = heap[o].open
  BY <1>1, <1>2 DEF IInv, TypeOK, Object
<1>4. InUse' = InUse /\ UNCHANGED <<devices, device_count, phase>>
  BY DEF SetOpen, InUse
<1>5. TypeOK'
  BY <1>1, <1>2, <1>4 DEF IInv, TypeOK, Object
<1>6. NoDangling'
  BY <1>2, <1>3, <1>4, SlotHoldsObject DEF IInv, NoDangling, SetOpen
<1> QED  BY <1>5, <1>6 DEF IInv

LEMMA CleanUpInv == ASSUME IInv, CleanUp PROVE IInv'
<1>1. \A o \in Objects : Freed(o) \in Object
  BY DEF IInv, TypeOK, Freed, Object
<1>2. heap' \in [Objects -> Object]
  BY <1>1 DEF CleanUp, IInv, TypeOK
<1> QED  BY <1>2 DEF IInv, TypeOK, NoDangling, CleanUp

(* The inductive invariant.                                                *)
THEOREM Inductive == Spec => []IInv
<1>1. Init => IInv
  BY InitInv
<1>2. IInv /\ [Next]_vars => IInv'
  <2> SUFFICES ASSUME IInv, [Next]_vars PROVE IInv'
    OBVIOUS
  <2>1. ASSUME NEW o \in Objects, NEW id \in Ids, Create(o, id) PROVE IInv'
    BY <2>1, CreateInv
  <2>2. ASSUME NEW o \in Objects, ternuino_register_device(o) PROVE IInv'
    BY <2>2, RegisterInv
  <2>3. ASSUME NEW id \in Ids, ternuino_unregister_device(id) PROVE IInv'
    BY <2>3, UnregisterInv
  <2>4. ASSUME NEW id \in Ids, NEW open \in BOOLEAN, SetOpen(id, open) PROVE IInv'
    BY <2>4, SetOpenInv
  <2>5. CASE CleanUp
    BY <2>5, CleanUpInv
  <2>6. CASE UNCHANGED vars
    BY <2>6 DEF vars, IInv, TypeOK, NoDangling, InUse
  <2> QED  BY <2>1, <2>2, <2>3, <2>4, <2>5, <2>6 DEF Next
<1> QED  BY <1>1, <1>2, PTL DEF Spec

(* The slots in use are exactly those below the count.                     *)
THEOREM TypeCorrect == Spec => []TypeOK
<1>1. IInv => TypeOK
  BY DEF IInv
<1> QED  BY <1>1, Inductive, PTL

(* While the CPU runs no pointer of the table dangles, no two devices have *)
(* one id, and no open device is out of reach.                             *)
THEOREM TableIsSound == Spec => []NoDangling
<1>1. IInv => NoDangling
  BY DEF IInv
<1> QED  BY <1>1, Inductive, PTL

-----------------------------------------------------------------------------
(* The table implements the directory.  Only registering and unregistering *)
(* change an entry: the others leave the table and every id in it alone.   *)
LEMMA EntriesKept ==
  ASSUME IInv, UNCHANGED <<devices, device_count>>,
         \A i \in InUse : heap'[devices[i]].device_id = heap[devices[i]].device_id
  PROVE  Entries' = Entries
<1>1. \A k \in 1 .. device_count : k - 1 \in InUse
  BY RegistryAssumption DEF IInv, TypeOK, InUse
<1> QED  BY <1>1 DEF Entries

LEMMA RegisterRefines ==
  ASSUME IInv, NEW o \in Objects, ternuino_register_device(o)
  PROVE  \E e \in Directory!Entry : Directory!Register(e)
<1> USE DEF ternuino_register_device, Refused
<1> DEFINE e == [device_id |-> heap[o].device_id, object |-> o]
<1>1. device_count \in Nat /\ device_count < MaxDevices /\ device_count \in Slots
  BY RegistryAssumption DEF IInv, TypeOK, Slots
<1>2. \A i \in Slots : devices'[i] = IF i = device_count THEN o ELSE devices[i]
  BY <1>1 DEF IInv, TypeOK
<1>3. e \in Directory!Entry
  BY DEF IInv, TypeOK, Object, Directory!Entry
<1>4. Len(Entries) = device_count /\ DOMAIN Entries = 1 .. device_count
  BY <1>1 DEF Entries
<1>5. \A k \in 1 .. device_count : k - 1 \in InUse /\ k - 1 \in Slots /\ k - 1 # device_count
  BY <1>1, RegistryAssumption DEF InUse, Slots
<1>6. ~Directory!Has(e.device_id)
  <2>1. \A i \in InUse : heap[devices[i]].device_id # heap[o].device_id
    BY SlotHoldsObject, RegistryAssumption DEF SlotsOf
  <2> QED  BY <2>1, <1>4, <1>5 DEF Directory!Has, Entries
<1>7. Entries' = Append(Entries, e)
  BY <1>1, <1>2, <1>4, <1>5 DEF Entries
<1> QED  BY <1>1, <1>3, <1>4, <1>6, <1>7 DEF Directory!Register

LEMMA UnregisterRefines ==
  ASSUME IInv, NEW id \in Ids, ternuino_unregister_device(id)
  PROVE  Directory!Unregister(id)
<1>1. PICK i \in SlotsOf(id) : /\ heap' = [heap EXCEPT ![devices[i]] = Freed(devices[i])]
                               /\ devices' = Without(i)
  BY DEF ternuino_unregister_device
<1>2. /\ device_count' = device_count - 1
      /\ i \in InUse /\ devices[i] \in Objects /\ heap[devices[i]].device_id = id
  BY SlotHoldsObject DEF ternuino_unregister_device, SlotsOf
<1>3. /\ device_count \in Nat /\ device_count <= MaxDevices
      /\ i \in Nat /\ i < device_count
  BY <1>2, RegistryAssumption DEF IInv, TypeOK, InUse
<1>4. \A o \in Objects : heap'[o].device_id = heap[o].device_id
  BY <1>1, <1>2 DEF IInv, TypeOK, Object, Freed
<1>5. Len(Entries) = device_count /\ DOMAIN Entries = 1 .. device_count
  BY <1>3 DEF Entries
<1>6. i + 1 \in DOMAIN Entries /\ Entries[i + 1].device_id = id
  BY <1>2, <1>3, <1>5 DEF Entries
<1>7. \A k \in 1 .. device_count - 1 :
        /\ From(i, k - 1) \in InUse /\ k - 1 \in Slots
        /\ devices'[k - 1] = devices[From(i, k - 1)]
        /\ From(i, k - 1) = IF k < i + 1 THEN k - 1 ELSE k
  BY <1>1, <1>2, <1>3, WithoutSlot, RegistryAssumption DEF From, InUse, Slots
<1>8. Entries' = Directory!Without(i + 1)
  <2>1. Entries' = [k \in 1 .. device_count - 1 |->
                      [device_id |-> heap[devices[From(i, k - 1)]].device_id,
                       object    |-> devices[From(i, k - 1)]]]
    BY <1>2, <1>4, <1>7, SlotHoldsObject DEF Entries
  <2>2. \A k \in 1 .. device_count - 1 :
          (IF k < i + 1 THEN Entries[k] ELSE Entries[k + 1])
            = [device_id |-> heap[devices[From(i, k - 1)]].device_id,
               object    |-> devices[From(i, k - 1)]]
    BY <1>3, <1>7 DEF Entries
  <2> QED  BY <2>1, <2>2, <1>5 DEF Directory!Without
<1> QED  BY <1>6, <1>8 DEF Directory!Unregister

(* The table with its shifts, counts and pointers is a directory in the    *)
(* order of registration, for every number of slots, ids and cells.        *)
THEOREM Implements == Spec => ImplementsDirectory
<1>1. Init => Directory!Init
  BY DEF Init, Directory!Init, Entries
<1>2. IInv /\ [Next]_vars => [Directory!Next]_Entries
  <2> SUFFICES ASSUME IInv, [Next]_vars PROVE Directory!Next \/ UNCHANGED Entries
    OBVIOUS
  <2>1. ASSUME NEW o \in Objects, NEW id \in Ids, Create(o, id) PROVE UNCHANGED Entries
    <3>1. \A i \in InUse : devices[i] # o \/ phase # "run"
      BY <2>1 DEF Create, IInv, NoDangling
    <3>2. \A i \in InUse : heap'[devices[i]].device_id = heap[devices[i]].device_id
      BY <2>1, <3>1, SlotHoldsObject DEF Create, IInv, TypeOK
    <3> QED  BY <2>1, <3>2, EntriesKept DEF Create
  <2>2. ASSUME NEW o \in Objects, ternuino_register_device(o) PROVE Directory!Next
    BY <2>2, RegisterRefines DEF Directory!Next
  <2>3. ASSUME NEW id \in Ids, ternuino_unregister_device(id) PROVE Directory!Next
    BY <2>3, UnregisterRefines DEF Directory!Next
  <2>4. ASSUME NEW id \in Ids, NEW open \in BOOLEAN, SetOpen(id, open) PROVE UNCHANGED Entries
    <3>1. \A i \in InUse : heap'[devices[i]].device_id = heap[devices[i]].device_id
      BY <2>4, SlotHoldsObject DEF SetOpen, SlotsOf, IInv, TypeOK, Object
    <3> QED  BY <2>4, <3>1, EntriesKept DEF SetOpen
  <2>5. CASE CleanUp
    <3>1. \A i \in InUse : heap'[devices[i]].device_id = heap[devices[i]].device_id
      BY <2>5, SlotHoldsObject DEF CleanUp, Freed, IInv, TypeOK, Object
    <3> QED  BY <2>5, <3>1, EntriesKept DEF CleanUp
  <2>6. CASE UNCHANGED vars
    BY <2>6 DEF vars, Entries
  <2> QED  BY <2>1, <2>2, <2>3, <2>4, <2>5, <2>6 DEF Next
<1> QED  BY <1>1, <1>2, Inductive, PTL DEF Spec, ImplementsDirectory, Directory!Spec
=============================================================================
