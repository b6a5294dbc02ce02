----------------------------- MODULE Interrupts -----------------------------
(***************************************************************************)
(* The interrupt protocol of the Ternuino CPU: the part of ternuino_t that *)
(* ternuino_step, ternuino_check_interrupts and the interrupt API of       *)
(* ternuino.h share.  The program in instruction memory and the devices    *)
(* behind the IRQ lines are left arbitrary: any instruction may sit at the *)
(* program counter and any line may change after any step.  Module Cpu     *)
(* fixes both and implements this specification.                           *)
(*                                                                         *)
(* An operator whose name starts with Faulty is the definition after it    *)
(* with a fault; no specification uses one.                                *)
(***************************************************************************)
EXTENDS Integers

CONSTANTS
  MaxMemory,   \* MAX_MEMORY_SIZE, number of instruction slots
  MaxData,     \* MAX_DATA_MEMORY_SIZE, one more than the initial stack pointer
  MaxVectors,  \* MAX_IRQ_VECTORS
  Devices,     \* indices of the registered devices, in registration order
  irq_vector,  \* the vector each device was created with
  Values       \* what an operand may resolve to: jump targets, handler
               \* addresses, the vectors named by IRQ, and what may be
               \* written over the stack pointer

ASSUME InterruptsAssumption ==
  /\ MaxMemory \in Nat \ {0}
  /\ MaxData \in Nat \ {0}
  /\ MaxVectors \in Nat \ {0}
  /\ Devices \subseteq Nat
  /\ irq_vector \in [Devices -> Nat]
  /\ Values \subseteq Int /\ 0 \in Values

VARIABLES
  pc, sp, running,
  interrupts_enabled,  \* global enable flag
  in_interrupt,        \* a handler has been entered
  pending_irq,         \* latched vector, or NoIrq
  saved_pc,            \* return address of the handler
  irq_table,           \* vector -> [handler_address, enabled]
  irq_line             \* device -> status & DEVICE_IRQ_PENDING

core == <<pc, sp, running, interrupts_enabled, in_interrupt, pending_irq,
          saved_pc, irq_table>>
vars == <<core, irq_line>>

NoIrq   == -1
Vectors == 0 .. MaxVectors - 1
Slots   == 0 .. MaxMemory - 1
Entry   == [handler_address : Values, enabled : BOOLEAN]
Lines   == [Devices -> BOOLEAN]

Init ==
  /\ pc = 0
  /\ sp = MaxData - 1
  /\ running = TRUE
  /\ interrupts_enabled = FALSE
  /\ in_interrupt = FALSE
  /\ pending_irq = NoIrq
  /\ saved_pc = 0
  /\ irq_table \in [Vectors -> Entry]
  /\ irq_line = [d \in Devices |-> FALSE]

-----------------------------------------------------------------------------
(* ternuino_check_interrupts, which every step runs first: a latched       *)
(* request is delivered, then every device line is polled.  The state the  *)
(* instruction at Here then sees is given by Here and the four operators   *)
(* after it; what the poll leaves latched is a p with Polled(p).           *)

Deliver == pending_irq # NoIrq /\ interrupts_enabled /\ ~in_interrupt

Here      == IF Deliver THEN irq_table[pending_irq].handler_address ELSE pc
Enabled   == interrupts_enabled /\ ~Deliver
Inside    == in_interrupt \/ Deliver

FaultyReturnToEager    == IF interrupts_enabled THEN pc ELSE saved_pc
FaultyReturnToFollowing == IF Deliver THEN pc + 1 ELSE saved_pc
ReturnTo  == IF Deliver THEN pc ELSE saved_pc

Latched   == IF Deliver THEN NoIrq ELSE pending_irq

(* The condition of ternuino_trigger_irq, for the flags it is called with. *)
FaultyTriggersUnbounded(v, enabled, inside) ==
  v >= 0 /\ enabled /\ ~inside /\ (v \in Vectors => irq_table[v].enabled)
FaultyTriggersMasked(v, enabled, inside) ==
  v \in Vectors /\ ~inside /\ irq_table[v].enabled
Triggers(v, enabled, inside) ==
  v \in Vectors /\ enabled /\ ~inside /\ irq_table[v].enabled

(* The same during a step, after the delivery.                             *)
Accepts(v) == Triggers(v, Enabled, Inside)

(* The devices whose request the poll latches; the last one wins.          *)
FaultyRaised == {d \in Devices \ {0} : irq_line[d] /\ Accepts(irq_vector[d])}
Raised == {d \in Devices : irq_line[d] /\ Accepts(irq_vector[d])}

Polled(p) ==
  \/ Raised = {} /\ p = Latched
  \/ \E d \in Raised : (\A e \in Raised : e <= d) /\ p = irq_vector[d]

-----------------------------------------------------------------------------
(* What the rest of ternuino_step does to this state.  p is what the poll  *)
(* left latched, next the address of the following instruction; the flags  *)
(* are those the delivery left, unless the instruction moves them.         *)

Leaves(p, next, run, enabled, inside) ==
  /\ pc' = next
  /\ running' = run
  /\ pending_irq' = p
  /\ interrupts_enabled' = enabled
  /\ in_interrupt' = inside
  /\ saved_pc' = ReturnTo
  /\ UNCHANGED irq_table

Retire(p, next, run) == Leaves(p, next, run, Enabled, Inside) /\ UNCHANGED sp

OutOfBounds(p) == Here \notin Slots /\ Retire(p, Here, FALSE)

FaultyEmptySlot(p) == Here \in Slots /\ Retire(p, Here, Here < MaxMemory - 1)
EmptySlot(p) == Here \in Slots /\ Retire(p, Here + 1, Here < MaxMemory - 1)

Plain(p) == Here \in Slots /\ Retire(p, Here + 1, TRUE)

Jump(p, target) == Here \in Slots /\ Retire(p, target, TRUE)

HLT(p) == Here \in Slots /\ Retire(p, Here + 1, FALSE)

SetEnable(p, flag) ==
  Here \in Slots /\ Leaves(p, Here + 1, TRUE, flag, Inside) /\ UNCHANGED sp

IRQ(p, v) == Here \in Slots /\ Retire(IF Accepts(v) THEN v ELSE p, Here + 1, TRUE)

(* The guard of IRET also asks for a stack pointer below its initial       *)
(* value, which no instruction is there to lower.                          *)
MayReturn == Inside /\ sp < MaxData - 1

FaultyIRET(p) ==
  /\ Here \in Slots
  /\ IF MayReturn THEN Leaves(p, ReturnTo, TRUE, Enabled, FALSE)
                  ELSE Leaves(p, Here + 1, TRUE, Enabled, Inside)
  /\ UNCHANGED sp
IRET(p) ==
  /\ Here \in Slots
  /\ IF MayReturn THEN Leaves(p, ReturnTo, TRUE, TRUE, FALSE)
                  ELSE Leaves(p, Here + 1, TRUE, Enabled, Inside)
  /\ UNCHANGED sp

(* In ternuino_t the stack pointer and the word with the three flags lie   *)
(* behind pc and the registers: an instruction with a register number of   *)
(* their own, which no register has, writes them (one that writes pc is a  *)
(* Jump).                                                                  *)
OverwriteStack(p, word) ==
  Here \in Slots /\ Leaves(p, Here + 1, TRUE, Enabled, Inside) /\ sp' = word

OverwriteFlags(p, run, enabled, inside) ==
  Here \in Slots /\ Leaves(p, Here + 1, run, enabled, inside) /\ UNCHANGED sp

(* ternuino_step, with any instruction at Here.                            *)
Step ==
  /\ running
  /\ \E p \in Vectors \cup {NoIrq} :
       /\ Polled(p)
       /\ \/ OutOfBounds(p)
          \/ EmptySlot(p)
          \/ Plain(p)
          \/ \E target \in Values : Jump(p, target)
          \/ HLT(p)
          \/ \E flag \in BOOLEAN : SetEnable(p, flag)
          \/ \E v \in Values : IRQ(p, v)
          \/ IRET(p)
          \/ \E word \in Values : OverwriteStack(p, word)
          \/ \E run, enabled, inside \in BOOLEAN : OverwriteFlags(p, run, enabled, inside)

(* The instruction may call a device, which may move its line.             *)
CpuStep == Step /\ irq_line' \in Lines

(* ternuino_tick_devices moves nothing but the lines.                      *)
Tick == irq_line' \in Lines /\ UNCHANGED core

Next == CpuStep \/ Tick

(* A run of the simulator: main registers the handlers, then calls         *)
(* ternuino_run, which is the only caller of the functions above.          *)
Spec == Init /\ [][Next]_vars

-----------------------------------------------------------------------------
(* The rest of the interface of ternuino.h.  An embedder may call these    *)
(* between two steps; a vector out of range makes each of them return.     *)

SetEntry(v, address, flag) ==
  /\ irq_table' = [irq_table EXCEPT ![v] = [handler_address |-> address, enabled |-> flag]]
  /\ UNCHANGED <<pc, sp, running, interrupts_enabled, in_interrupt, pending_irq,
                 saved_pc, irq_line>>

ternuino_set_irq_handler(v, address) == SetEntry(v, address, TRUE)

ternuino_enable_irq(v) == SetEntry(v, irq_table[v].handler_address, TRUE)

ternuino_disable_irq(v) == SetEntry(v, irq_table[v].handler_address, FALSE)

ternuino_trigger_irq(v) ==
  /\ Triggers(v, interrupts_enabled, in_interrupt)
  /\ pending_irq' = v
  /\ UNCHANGED <<pc, sp, running, interrupts_enabled, in_interrupt, saved_pc,
                 irq_table, irq_line>>

(* What a step begins with, called by itself: no instruction follows.      *)
ternuino_check_interrupts ==
  /\ \E p \in Vectors \cup {NoIrq} :
       Polled(p) /\ Leaves(p, Here, running, Enabled, Inside)
  /\ UNCHANGED <<sp, irq_line>>

Restart ==
  /\ pc' = 0
  /\ sp' = MaxData - 1
  /\ running' = TRUE
  /\ interrupts_enabled' = FALSE
  /\ in_interrupt' = FALSE
  /\ pending_irq' = NoIrq
  /\ saved_pc' = 0

(* Neither the vector table nor the devices are reset.                     *)
ternuino_reset == Restart /\ UNCHANGED <<irq_table, irq_line>>

(* Here both are.  A device that is not registered is one whose line is    *)
(* down; the host may register it again at any time, which is a Tick.      *)
ternuino_init ==
  /\ Restart
  /\ irq_table' = [v \in Vectors |-> [handler_address |-> 0, enabled |-> FALSE]]
  /\ irq_line' = [d \in Devices |-> FALSE]

Host ==
  \/ \E v \in Vectors, address \in Values : ternuino_set_irq_handler(v, address)
  \/ \E v \in Vectors : ternuino_enable_irq(v)
  \/ \E v \in Vectors : ternuino_disable_irq(v)
  \/ \E v \in Vectors : ternuino_trigger_irq(v)
  \/ ternuino_check_interrupts
  \/ ternuino_reset
  \/ ternuino_init

HostNext == Next \/ Host

HostSpec == Init /\ [][HostNext]_vars

(* ternuino_run keeps stepping while the CPU is running.                   *)
FairSpec == HostSpec /\ WF_vars(CpuStep)

-----------------------------------------------------------------------------
(* Every field keeps its type: the latch holds a vector of the table or    *)
(* NoIrq, so the delivery of ternuino_check_interrupts indexes irq_table   *)
(* inside its bounds.                                                      *)
TypeOK ==
  /\ pc \in Int /\ sp \in Int /\ saved_pc \in Int
  /\ running \in BOOLEAN
  /\ interrupts_enabled \in BOOLEAN
  /\ in_interrupt \in BOOLEAN
  /\ pending_irq \in Vectors \cup {NoIrq}
  /\ irq_table \in [Vectors -> Entry]
  /\ irq_line \in Lines

(* During a run of the simulator, whose handlers are registered before the *)
(* first step, a latched request is one of an enabled vector.  A host may  *)
(* disable the vector of a latched request, which is delivered all the     *)
(* same.                                                                   *)
PendingEnabled == pending_irq # NoIrq => irq_table[pending_irq].enabled

(* The return address of a handler survives whatever the handler does: no  *)
(* step inside it, the devices' requests it meets included, overwrites     *)
(* saved_pc (ternuino_check_interrupts writes it only when it enters).     *)
ReturnAddressKept ==
  [][in_interrupt /\ in_interrupt' => saved_pc' = saved_pc]_vars

(* A handler is entered only for a request latched in an earlier state,    *)
(* with interrupts enabled, at an instruction boundary: the saved pc is    *)
(* the instruction that would have run next, the latch is empty after, and *)
(* of a handler outside the memory nothing is executed.  in_interrupt      *)
(* rises in no other way but by an instruction that writes over the flags, *)
(* which saves nothing and goes on behind itself.                          *)
EntryIsPrecise ==
  [][~in_interrupt /\ in_interrupt' =>
       IF Deliver
       THEN LET handler == irq_table[pending_irq].handler_address
            IN  /\ saved_pc' = pc /\ pending_irq' = NoIrq
                /\ handler \notin Slots => pc' = handler
       ELSE saved_pc' = saved_pc /\ pc \in Slots /\ pc' = pc + 1]_vars

(* A request that is latched when a step ends is the next to be served: it *)
(* leaves the latch by the entry of its handler.  No poll, no IRQ          *)
(* instruction, no DI and no change of the vector table drops it or puts   *)
(* another in its place (which device of a poll, or IRQ instruction of the *)
(* same step, gets the latch is decided before); only a host can, with     *)
(* ternuino_trigger_irq or by starting afresh.                             *)
Enters == Deliver /\ pending_irq' = NoIrq

RequestEndsInItsHandler ==
  [][pending_irq # NoIrq /\ pending_irq' # pending_irq =>
       \/ Enters /\ saved_pc' = pc
       \/ \E v \in Vectors : ternuino_trigger_irq(v)
       \/ Restart]_vars

(* A handler is left by an IRET, which resumes the instruction the handler *)
(* was entered at and enables interrupts; an instruction that writes over  *)
(* the flags goes on behind itself.  The code lets an IRET return only     *)
(* after something has written over the stack pointer.                     *)
HandlerLeftByReturn ==
  [][in_interrupt /\ ~in_interrupt' =>
       \/ pc' = saved_pc /\ interrupts_enabled' /\ sp < MaxData - 1
       \/ pc \in Slots /\ pc' = pc + 1
       \/ Restart]_vars

(* No line waits for ever: while the CPU runs with interrupts enabled and  *)
(* outside a handler, a line that stays up and whose vector stays enabled  *)
(* makes it enter a handler, at most one step to latch and one to deliver. *)
(* The handler is that of the line polled last.                            *)
Waiting(d) ==
  /\ running /\ interrupts_enabled /\ ~in_interrupt /\ irq_line[d]
  /\ irq_vector[d] \in Vectors /\ irq_table[irq_vector[d]].enabled

RaisedLineIsTaken == \A d \in Devices : []<>~Waiting(d) \/ []<><<Enters>>_vars
=============================================================================
