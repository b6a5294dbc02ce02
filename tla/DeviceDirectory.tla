-------------------------- MODULE DeviceDirectory --------------------------
(***************************************************************************)
(* What the device table promises the programs and the devices: at most    *)
(* one device for each id, no more than fit, and the order in which they   *)
(* are polled and ticked is the order in which they were registered.       *)
(***************************************************************************)
EXTENDS Naturals, Sequences

CONSTANTS MaxDevices, Ids, Objects

VARIABLE entries   \* the devices, in the order they are polled

Entry == [device_id : Ids, object : Objects]

Has(id) == \E k \in DOMAIN entries : entries[k].device_id = id

Init == entries = <<>>

Register(e) ==
  /\ Len(entries) < MaxDevices /\ ~Has(e.device_id)
  /\ entries' = Append(entries, e)

(* The entries without the k-th.                                           *)
Without(k) == [j \in 1 .. Len(entries) - 1 |-> IF j < k THEN entries[j] ELSE entries[j + 1]]

Unregister(id) ==
  \E k \in DOMAIN entries : entries[k].device_id = id /\ entries' = Without(k)

Next == (\E e \in Entry : Register(e)) \/ (\E id \in Ids : Unregister(id))

Spec == Init /\ [][Next]_entries
=============================================================================
