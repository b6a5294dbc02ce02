-------------------------- MODULE InterruptsProofs --------------------------
(***************************************************************************)
(* Proofs about the interrupt protocol, for every size of the memories and *)
(* of the vector table and every set of devices, with a host that may use  *)
(* the whole interface between two steps (HostSpec).  A run of the         *)
(* simulator (Spec) is a special case.                                     *)
(*                                                                         *)
(* The flags and the stack pointer may be written over by an instruction,  *)
(* so no relation between them is kept and the inductive invariant is the  *)
(* type invariant; what the action properties need on top of it is Busy.   *)
(***************************************************************************)
EXTENDS Interrupts, TLAPS

(* A poll with a request latched, or in a step that is inside a handler,   *)
(* accepts no request: were the flags to allow one, the latched request    *)
(* would have been delivered first.                                        *)
LEMMA Busy ==
  ASSUME pending_irq # NoIrq \/ Inside
  PROVE  /\ \A v : ~Accepts(v)
         /\ \A p : Polled(p) => p = Latched
<1>1. \A v : ~Accepts(v)
  BY DEF Accepts, Triggers, Inside, Enabled, Deliver
<1>2. Raised = {}
  BY <1>1 DEF Raised
<1> QED BY <1>1, <1>2 DEF Polled

(* In a run of the simulator the poll latches an enabled vector.           *)
LEMMA PollEnabled ==
  ASSUME PendingEnabled, NEW p, Polled(p), p # NoIrq
  PROVE  irq_table[p].enabled
<1>1. CASE Raised = {}
  BY <1>1 DEF Polled, Latched, PendingEnabled
<1>2. CASE Raised # {}
  BY <1>2 DEF Polled, Raised, Accepts, Triggers
<1> QED BY <1>1, <1>2

(* The address the step works at is a number.                              *)
LEMMA HereInt == ASSUME TypeOK PROVE Here \in Int
<1>1. CASE Deliver
  <2>1. pending_irq \in Vectors
    BY <1>1 DEF TypeOK, Deliver
  <2>2. irq_table[pending_irq].handler_address \in Values
    BY <2>1 DEF TypeOK, Entry
  <2> QED BY <1>1, <2>2, InterruptsAssumption DEF Here
<1>2. CASE ~Deliver
  BY <1>2 DEF Here, TypeOK
<1> QED BY <1>1, <1>2

-----------------------------------------------------------------------------
(* What every instruction has in common.  The return address and the table *)
(* are those the delivery left, and the latch holds what the poll put      *)
(* there unless an IRQ instruction was accepted.  A handler is left by an  *)
(* IRET that returns, or by an instruction inside the memory that goes on  *)
(* behind itself; outside the memory nothing is executed.                  *)
Latches == \E p \in Vectors \cup {NoIrq} :
             /\ Polled(p)
             /\ pending_irq' = p \/ \E v : Accepts(v) /\ pending_irq' = v

Goes == /\ \/ in_interrupt' = Inside
           \/ MayReturn /\ pc' = ReturnTo /\ interrupts_enabled' /\ ~in_interrupt'
           \/ Here \in Slots /\ pc' = Here + 1
        /\ Here \notin Slots => pc' = Here /\ in_interrupt' = Inside

Effect == /\ pc' \in Int /\ sp' \in Int
          /\ running' \in BOOLEAN
          /\ interrupts_enabled' \in BOOLEAN
          /\ in_interrupt' \in BOOLEAN
          /\ irq_table' = irq_table
          /\ saved_pc' = ReturnTo
          /\ Latches
          /\ Goes

LEMMA StepEffect == ASSUME TypeOK, Step PROVE Effect
<1>1. Here \in Int /\ Here + 1 \in Int /\ sp \in Int /\ ReturnTo \in Int
  BY HereInt DEF ReturnTo, TypeOK
<1>2. Enabled \in BOOLEAN /\ Inside \in BOOLEAN
  <2>1. Deliver \in BOOLEAN
    BY DEF Deliver
  <2> QED BY <2>1, Zenon DEF Enabled, Inside, TypeOK
<1>3. PICK p \in Vectors \cup {NoIrq} :
       /\ Polled(p)
       /\ \/ OutOfBounds(p)
          \/ EmptySlot(p)
          \/ Plain(p)
          \/ \E target \in Values : Jump(p, target)
          \/ HLT(p)
          \/ \E flag \in BOOLEAN : SetEnable(p, flag)
          \/ \E v \in Values : IRQ(p, v)
          \/ IRET(p)
          \/ \E word \in Values : OverwriteStack(p, word)
          \/ \E run, enabled, inside \in BOOLEAN : OverwriteFlags(p, run, enabled, inside)
  BY DEF Step
<1>4. ASSUME NEW q, NEW next \in Int, NEW run \in BOOLEAN, NEW enabled \in BOOLEAN,
             NEW inside \in BOOLEAN, Leaves(q, next, run, enabled, inside), sp' \in Int,
             q = p \/ \E v : Accepts(v) /\ q = v
      PROVE  Goes => Effect
  BY <1>1, <1>3, <1>4 DEF Leaves, Effect, Latches
<1>5. ASSUME NEW q, NEW next \in Int, NEW run \in BOOLEAN, Retire(q, next, run),
             q = p \/ \E v : Accepts(v) /\ q = v,
             Here \in Slots \/ next = Here
      PROVE  Effect
  <2>1. Leaves(q, next, run, Enabled, Inside) /\ sp' \in Int
    BY <1>1, <1>5 DEF Retire
  <2>2. Goes
    BY <1>5, <2>1 DEF Goes, Leaves
  <2> QED BY <1>2, <1>4, <1>5, <2>1, <2>2
<1>6. CASE OutOfBounds(p)
  BY <1>1, <1>5, <1>6 DEF OutOfBounds
<1>7. CASE EmptySlot(p)
  <2>1. (Here < MaxMemory - 1) \in BOOLEAN
    OBVIOUS
  <2> QED BY <1>1, <1>5, <1>7, <2>1 DEF EmptySlot
<1>8. CASE Plain(p)
  BY <1>1, <1>5, <1>8 DEF Plain
<1>9. CASE \E target \in Values : Jump(p, target)
  BY <1>1, <1>5, <1>9, InterruptsAssumption DEF Jump
<1>10. CASE HLT(p)
  BY <1>1, <1>5, <1>10 DEF HLT
<1>11. CASE \E flag \in BOOLEAN : SetEnable(p, flag)
  <2>1. PICK flag \in BOOLEAN : SetEnable(p, flag)
    BY <1>11
  <2>2. Goes
    BY <2>1 DEF SetEnable, Goes, Leaves
  <2> QED BY <1>1, <1>2, <1>4, <2>1, <2>2 DEF SetEnable
<1>12. CASE \E v \in Values : IRQ(p, v)
  <2>1. PICK v \in Values : IRQ(p, v)
    BY <1>12
  <2>2. CASE Accepts(v)
    BY <1>1, <1>5, <2>1, <2>2 DEF IRQ
  <2>3. CASE ~Accepts(v)
    BY <1>1, <1>5, <2>1, <2>3 DEF IRQ
  <2> QED BY <2>2, <2>3
<1>13. CASE IRET(p)
  <2>1. CASE MayReturn
    <3>1. Leaves(p, ReturnTo, TRUE, TRUE, FALSE) /\ Here \in Slots /\ sp' \in Int
      BY <1>1, <1>13, <2>1 DEF IRET
    <3>2. Goes
      BY <2>1, <3>1 DEF Goes, Leaves
    <3> QED BY <1>1, <1>4, <3>1, <3>2
  <2>2. CASE ~MayReturn
    BY <1>1, <1>5, <1>13, <2>2 DEF IRET, Retire
  <2> QED BY <2>1, <2>2
<1>14. CASE \E word \in Values : OverwriteStack(p, word)
  <2>1. PICK word \in Values : OverwriteStack(p, word)
    BY <1>14
  <2>2. sp' \in Int
    BY <2>1, InterruptsAssumption DEF OverwriteStack
  <2>3. Goes
    BY <2>1 DEF OverwriteStack, Goes, Leaves
  <2> QED BY <1>1, <1>2, <1>4, <2>1, <2>2, <2>3 DEF OverwriteStack
<1>15. CASE \E run, enabled, inside \in BOOLEAN : OverwriteFlags(p, run, enabled, inside)
  <2>1. PICK run, enabled, inside \in BOOLEAN : OverwriteFlags(p, run, enabled, inside)
    BY <1>15
  <2>2. Goes
    BY <2>1 DEF OverwriteFlags, Goes, Leaves
  <2> QED BY <1>1, <1>4, <2>1, <2>2 DEF OverwriteFlags
<1> QED
  BY <1>3, <1>6, <1>7, <1>8, <1>9, <1>10, <1>11, <1>12, <1>13, <1>14, <1>15

(* The same of ternuino_check_interrupts by itself.                        *)
LEMMA CheckEffect ==
  ASSUME TypeOK, ternuino_check_interrupts
  PROVE  /\ pc' = Here /\ sp' = sp /\ running' = running /\ irq_line' = irq_line
         /\ interrupts_enabled' = Enabled /\ in_interrupt' = Inside
         /\ irq_table' = irq_table /\ saved_pc' = ReturnTo
         /\ \E p \in Vectors \cup {NoIrq} : Polled(p) /\ pending_irq' = p
<1>1. PICK p \in Vectors \cup {NoIrq} : Polled(p) /\ Leaves(p, Here, running, Enabled, Inside)
  BY DEF ternuino_check_interrupts
<1> QED BY <1>1 DEF ternuino_check_interrupts, Leaves

-----------------------------------------------------------------------------
LEMMA RestartTypes ==
  ASSUME Restart, irq_table' \in [Vectors -> Entry], irq_line' \in Lines
  PROVE  TypeOK'
<1>1. sp' \in Int /\ pc' \in Int /\ saved_pc' \in Int
  BY InterruptsAssumption DEF Restart
<1>2. running' \in BOOLEAN /\ interrupts_enabled' \in BOOLEAN /\ in_interrupt' \in BOOLEAN
  BY Zenon DEF Restart
<1>3. pending_irq' \in Vectors \cup {NoIrq}
  BY DEF Restart
<1> QED BY <1>1, <1>2, <1>3, Zenon DEF TypeOK, Vectors, Entry, Lines, NoIrq

LEMMA InitTypes == Init => TypeOK
<1> SUFFICES ASSUME Init PROVE TypeOK
  OBVIOUS
<1>1. sp \in Int /\ pc \in Int /\ saved_pc \in Int /\ pending_irq \in Vectors \cup {NoIrq}
  BY InterruptsAssumption DEF Init
<1>2. irq_table \in [Vectors -> Entry] /\ irq_line \in Lines
  BY DEF Init, Lines
<1>3. running \in BOOLEAN /\ interrupts_enabled \in BOOLEAN /\ in_interrupt \in BOOLEAN
  BY Zenon DEF Init
<1> QED BY <1>1, <1>2, <1>3, Zenon DEF TypeOK

LEMMA StepTypes == TypeOK /\ CpuStep => TypeOK'
<1> SUFFICES ASSUME TypeOK, CpuStep PROVE TypeOK'
  OBVIOUS
<1>1. Effect /\ irq_line' \in Lines
  BY StepEffect DEF CpuStep
<1>2. pending_irq' \in Vectors \cup {NoIrq}
  BY <1>1 DEF Effect, Latches, Accepts, Triggers
<1>3. saved_pc' \in Int
  BY <1>1 DEF Effect, ReturnTo, TypeOK
<1> QED BY <1>1, <1>2, <1>3 DEF Effect, TypeOK, Lines, Entry, Vectors, NoIrq

LEMMA HostTypes == TypeOK /\ Host => TypeOK'
<1> SUFFICES ASSUME TypeOK, Host PROVE TypeOK'
  OBVIOUS
<1>1. ASSUME NEW v \in Vectors, NEW address \in Values, NEW flag \in BOOLEAN,
             SetEntry(v, address, flag)
      PROVE  TypeOK'
  <2>1. irq_table' \in [Vectors -> Entry]
    BY <1>1 DEF SetEntry, TypeOK, Entry
  <2> QED BY <1>1, <2>1 DEF SetEntry, TypeOK
<1>2. ASSUME NEW v \in Vectors PROVE irq_table[v].handler_address \in Values
  BY DEF TypeOK, Entry
<1>3. CASE \E v \in Vectors, address \in Values : ternuino_set_irq_handler(v, address)
  BY <1>1, <1>3 DEF ternuino_set_irq_handler
<1>4. CASE \E v \in Vectors : ternuino_enable_irq(v)
  BY <1>1, <1>2, <1>4 DEF ternuino_enable_irq
<1>5. CASE \E v \in Vectors : ternuino_disable_irq(v)
  BY <1>1, <1>2, <1>5 DEF ternuino_disable_irq
<1>6. CASE \E v \in Vectors : ternuino_trigger_irq(v)
  BY <1>6 DEF ternuino_trigger_irq, TypeOK, Vectors, NoIrq
<1>7. CASE ternuino_check_interrupts
  <2>1. pc' \in Int /\ sp' \in Int /\ saved_pc' \in Int /\ pending_irq' \in Vectors \cup {NoIrq}
    BY <1>7, CheckEffect, HereInt DEF ReturnTo, TypeOK
  <2>2. running' \in BOOLEAN /\ interrupts_enabled' \in BOOLEAN /\ in_interrupt' \in BOOLEAN
    <3>1. Deliver \in BOOLEAN
      BY DEF Deliver
    <3> QED BY <1>7, <3>1, CheckEffect, Zenon DEF Enabled, Inside, TypeOK
  <2>3. irq_table' \in [Vectors -> Entry] /\ irq_line' \in Lines
    BY <1>7, CheckEffect DEF TypeOK
  <2> QED BY <2>1, <2>2, <2>3, Zenon DEF TypeOK, Vectors, Entry, Lines, NoIrq
<1>8. CASE ternuino_reset
  BY <1>8, RestartTypes DEF ternuino_reset, TypeOK
<1>9. CASE ternuino_init
  <2>1. irq_table' \in [Vectors -> Entry]
    BY <1>9, InterruptsAssumption DEF ternuino_init, Entry
  <2>2. irq_line' \in Lines
    BY <1>9 DEF ternuino_init, Lines
  <2> QED BY <1>9, <2>1, <2>2, RestartTypes DEF ternuino_init
<1> QED BY <1>3, <1>4, <1>5, <1>6, <1>7, <1>8, <1>9 DEF Host

LEMMA NextTypes == TypeOK /\ [HostNext]_vars => TypeOK'
<1>1. ASSUME TypeOK, Tick PROVE TypeOK'
  BY <1>1 DEF Tick, core, TypeOK, Lines, Vectors, NoIrq
<1>2. ASSUME TypeOK, UNCHANGED vars PROVE TypeOK'
  BY <1>2 DEF vars, core, TypeOK, Lines, Vectors, NoIrq
<1> QED BY <1>1, <1>2, StepTypes, HostTypes DEF HostNext, Next

(* A run of the simulator is a run in which the host makes no further      *)
(* call, so what is proved of HostSpec holds of it.                        *)
LEMMA SimulatorRun == Spec => HostSpec
<1>1. [Next]_vars => [HostNext]_vars
  BY DEF HostNext
<1> QED BY <1>1, PTL DEF Spec, HostSpec

-----------------------------------------------------------------------------
(* Every field keeps its type under every use of the interface: the vector *)
(* ternuino_check_interrupts indexes irq_table with is inside the table.   *)
THEOREM TypeCorrect == HostSpec => []TypeOK
BY InitTypes, NextTypes, PTL DEF HostSpec

(* The return address of a handler is never overwritten under it.          *)
THEOREM ReturnAddress == HostSpec => ReturnAddressKept
<1>1. TypeOK /\ [HostNext]_vars => [in_interrupt /\ in_interrupt' => saved_pc' = saved_pc]_vars
  <2> SUFFICES ASSUME TypeOK, HostNext, in_interrupt, in_interrupt'
               PROVE  saved_pc' = saved_pc
    OBVIOUS
  <2>1. ReturnTo = saved_pc
    BY DEF ReturnTo, Deliver
  <2>2. CASE CpuStep
    BY <2>1, <2>2, StepEffect DEF CpuStep, Effect
  <2>3. CASE Tick
    BY <2>3 DEF Tick, core
  <2>4. CASE Host
    BY <2>1, <2>4, CheckEffect
       DEF Host, SetEntry, ternuino_set_irq_handler, ternuino_enable_irq,
           ternuino_disable_irq, ternuino_trigger_irq, ternuino_reset, ternuino_init, Restart
  <2> QED BY <2>2, <2>3, <2>4 DEF HostNext, Next
<1> QED BY <1>1, TypeCorrect, PTL DEF HostSpec, ReturnAddressKept

(* A handler is entered only for a latched request, with interrupts        *)
(* enabled, at an instruction boundary and with the latch left empty; a    *)
(* handler outside the memory runs nothing.                                *)
Precise ==
  ~in_interrupt /\ in_interrupt' =>
    IF Deliver
    THEN LET handler == irq_table[pending_irq].handler_address
         IN  /\ saved_pc' = pc /\ pending_irq' = NoIrq
             /\ handler \notin Slots => pc' = handler
    ELSE saved_pc' = saved_pc /\ pc \in Slots /\ pc' = pc + 1

THEOREM PreciseEntry == HostSpec => EntryIsPrecise
<1>1. TypeOK /\ [HostNext]_vars => [Precise]_vars
  <2> SUFFICES ASSUME TypeOK, HostNext, ~in_interrupt, in_interrupt' PROVE Precise
    BY DEF Precise
  <2>1. CASE CpuStep /\ Deliver
    <3>1. Inside /\ Latched = NoIrq /\ ReturnTo = pc /\ Effect
          /\ Here = irq_table[pending_irq].handler_address
      BY <2>1, StepEffect DEF Inside, Latched, ReturnTo, CpuStep, Here
    <3>2. pending_irq' = NoIrq
      BY <3>1, Busy DEF Effect, Latches
    <3> QED BY <2>1, <3>1, <3>2 DEF Precise, Effect, Goes
  <2>2. CASE CpuStep /\ ~Deliver
    BY <2>2, StepEffect DEF CpuStep, Effect, Goes, Precise, Inside, Here, ReturnTo
  <2>3. CASE Tick
    BY <2>3 DEF Tick, core
  <2>4. CASE ternuino_check_interrupts
    <3>1. Deliver /\ Inside
      BY <2>4, CheckEffect DEF Inside
    <3>2. pending_irq' = NoIrq
      BY <2>4, <3>1, CheckEffect, Busy DEF Latched
    <3> QED BY <2>4, <3>1, <3>2, CheckEffect DEF Precise, Here, ReturnTo
  <2>5. CASE Host /\ ~ternuino_check_interrupts
    BY <2>5 DEF Host, SetEntry, ternuino_set_irq_handler, ternuino_enable_irq,
                ternuino_disable_irq, ternuino_trigger_irq, ternuino_reset, ternuino_init,
                Restart
  <2> QED BY <2>1, <2>2, <2>3, <2>4, <2>5 DEF HostNext, Next
<1> QED BY <1>1, TypeCorrect, PTL DEF HostSpec, EntryIsPrecise, Precise

(* A latched request leaves the latch, for another value or for none, only *)
(* by the entry of its handler or by a call of the host.                   *)
Served ==
  pending_irq # NoIrq /\ pending_irq' # pending_irq =>
    \/ Enters /\ saved_pc' = pc
    \/ \E v \in Vectors : ternuino_trigger_irq(v)
    \/ Restart

THEOREM RequestsEndInHandlers == HostSpec => RequestEndsInItsHandler
<1>1. TypeOK /\ [HostNext]_vars => [Served]_vars
  <2> SUFFICES ASSUME TypeOK, HostNext, pending_irq # NoIrq, pending_irq' # pending_irq
               PROVE  \/ Enters /\ saved_pc' = pc
                      \/ \E v \in Vectors : ternuino_trigger_irq(v)
                      \/ Restart
    BY DEF Served
  <2>1. ASSUME pending_irq' = Latched, saved_pc' = ReturnTo
        PROVE  Enters /\ saved_pc' = pc
    BY <2>1 DEF Latched, ReturnTo, Enters
  <2>2. CASE CpuStep
    <3>1. pending_irq' = Latched
      BY <2>2, StepEffect, Busy DEF CpuStep, Effect, Latches
    <3> QED BY <2>1, <2>2, <3>1, StepEffect DEF CpuStep, Effect
  <2>3. CASE Tick
    BY <2>3 DEF Tick, core
  <2>4. CASE ternuino_check_interrupts
    BY <2>1, <2>4, CheckEffect, Busy
  <2>5. CASE Host /\ ~ternuino_check_interrupts
    BY <2>5 DEF Host, SetEntry, ternuino_set_irq_handler, ternuino_enable_irq,
                ternuino_disable_irq, ternuino_reset, ternuino_init
  <2> QED BY <2>2, <2>3, <2>4, <2>5 DEF HostNext, Next
<1> QED BY <1>1, TypeCorrect, PTL DEF HostSpec, RequestEndsInItsHandler, Served

(* A handler is left only by an IRET, at the instruction it was entered at *)
(* and with the stack pointer written over; by an instruction that writes  *)
(* over the flags; or by a host that starts afresh.                        *)
Left ==
  in_interrupt /\ ~in_interrupt' =>
    \/ pc' = saved_pc /\ interrupts_enabled' /\ sp < MaxData - 1
    \/ pc \in Slots /\ pc' = pc + 1
    \/ Restart

THEOREM HandlersReturn == HostSpec => HandlerLeftByReturn
<1>1. TypeOK /\ [HostNext]_vars => [Left]_vars
  <2> SUFFICES ASSUME TypeOK, HostNext, in_interrupt, ~in_interrupt' PROVE Left
    BY DEF Left
  <2>1. Inside /\ ReturnTo = saved_pc /\ Here = pc
    BY DEF Inside, ReturnTo, Here, Deliver
  <2>2. CASE CpuStep
    BY <2>1, <2>2, StepEffect DEF CpuStep, Effect, Goes, Left, MayReturn
  <2>3. CASE Tick
    BY <2>3 DEF Tick, core
  <2>4. CASE Host
    BY <2>1, <2>4, CheckEffect
       DEF Host, SetEntry, ternuino_set_irq_handler, ternuino_enable_irq,
           ternuino_disable_irq, ternuino_trigger_irq, ternuino_reset, ternuino_init, Left
  <2> QED BY <2>2, <2>3, <2>4 DEF HostNext, Next
<1> QED BY <1>1, TypeCorrect, PTL DEF HostSpec, HandlerLeftByReturn, Left

(* In a run of the simulator a latched request is for an enabled vector.   *)
(* The theorem is about Spec: ternuino_disable_irq breaks it.              *)
THEOREM LatchedEnabled == Spec => []PendingEnabled
<1>1. Init => PendingEnabled
  BY DEF Init, PendingEnabled
<1>2. TypeOK /\ PendingEnabled /\ [Next]_vars => PendingEnabled'
  <2> SUFFICES ASSUME TypeOK, PendingEnabled, [Next]_vars, pending_irq' # NoIrq
               PROVE  irq_table'[pending_irq'].enabled
    BY DEF PendingEnabled, NoIrq
  <2>1. CASE CpuStep
    <3>1. Effect
      BY <2>1, StepEffect DEF CpuStep
    <3>2. irq_table[pending_irq'].enabled
      BY <3>1, PollEnabled DEF Effect, Latches, Accepts, Triggers
    <3> QED BY <3>1, <3>2 DEF Effect
  <2>2. CASE Tick
    BY <2>2 DEF Tick, core, PendingEnabled
  <2>3. CASE UNCHANGED vars
    BY <2>3 DEF vars, core, PendingEnabled
  <2> QED BY <2>1, <2>2, <2>3 DEF Next
<1> QED BY <1>1, <1>2, SimulatorRun, TypeCorrect, PTL DEF Spec
=============================================================================
