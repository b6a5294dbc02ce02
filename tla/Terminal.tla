------------------------------ MODULE Terminal ------------------------------
(***************************************************************************)
(* The terminal device of devices.c: a one byte input buffer filled by the *)
(* tick from standard input, a request line raised with it, and a screen.  *)
(* The calls may come in any order, as a program may issue them in any     *)
(* order; a keyboard types while they run.                                 *)
(*                                                                         *)
(* An operator whose name starts with Faulty is the definition after it    *)
(* with a fault; no specification uses one.                                *)
(***************************************************************************)
EXTENDS Integers, Sequences

CONSTANTS
  Bytes,         \* the bytes a key may produce
  MaxKeys,       \* bound on the number of bytes typed
  CharIsSigned,  \* the signedness of char in the build
  Modes,         \* the open modes a program may name
  Values         \* the values a program may write

ASSUME TerminalAssumption ==
  /\ Bytes \subseteq 0 .. 255
  /\ MaxKeys \in Nat
  /\ CharIsSigned \in BOOLEAN
  /\ Modes \subseteq Int
  /\ Values \subseteq Int

VARIABLES
  irq_enabled,  \* dev->irq_enabled, the device is open
  irq_pending,  \* dev->status & DEVICE_IRQ_PENDING
  input_ready,  \* tdata->input_ready
  input,        \* input_buffer from input_pos up to input_len
  tty,          \* bytes typed and not yet read from standard input
  screen,       \* the last thing printed on standard output
  typed,        \* history: every byte typed
  received      \* history: every byte handed to the program

device == <<irq_enabled, irq_pending, input_ready, input>>
vars   == <<device, tty, screen, typed, received>>

Blank      == [kind |-> "nothing", value |-> 0]
Char(b)    == [kind |-> "char", value |-> b]
Number(n)  == [kind |-> "number", value |-> n]
Screens    == {Blank} \cup {Char(b) : b \in 0 .. 255}
                      \cup {Number(v) : v \in Values \ (0 .. 255)}

(* (int32_t) of a char holding b.                                          *)
CharValue(b) == IF CharIsSigned /\ b > 127 THEN b - 256 ELSE b

Init ==
  /\ irq_enabled = FALSE
  /\ irq_pending = FALSE
  /\ input_ready = FALSE
  /\ input = <<>>
  /\ tty = <<>>
  /\ screen = Blank
  /\ typed = <<>>
  /\ received = <<>>

-----------------------------------------------------------------------------
(* A key is pressed: the byte waits on standard input.                     *)
Type(b) ==
  /\ Len(typed) < MaxKeys
  /\ tty' = Append(tty, b)
  /\ typed' = Append(typed, b)
  /\ UNCHANGED <<device, screen, received>>

CanRead == input_ready /\ input # <<>>

FaultyRemaining == input
Remaining == Tail(input)

(* A read that succeeds with value v.  The byte that empties the buffer    *)
(* also lowers the request.                                                *)
FaultyTerminalReadStuck(v) ==
  /\ CanRead
  /\ v = CharValue(Head(input))
  /\ received' = Append(received, Head(input))
  /\ input' = Remaining
  /\ irq_pending' = (irq_pending /\ Remaining # <<>>)
  /\ UNCHANGED <<irq_enabled, input_ready, tty, screen, typed>>

FaultyTerminalReadPending(v) ==
  /\ CanRead
  /\ v = CharValue(Head(input))
  /\ received' = Append(received, Head(input))
  /\ input' = Remaining
  /\ input_ready' = (Remaining # <<>>)
  /\ UNCHANGED <<irq_enabled, irq_pending, tty, screen, typed>>

terminal_read(v) ==
  /\ CanRead
  /\ v = CharValue(Head(input))
  /\ received' = Append(received, Head(input))
  /\ input' = Remaining
  /\ input_ready' = (Remaining # <<>>)
  /\ irq_pending' = (irq_pending /\ Remaining # <<>>)
  /\ UNCHANGED <<irq_enabled, tty, screen, typed>>

FaultyPrinted(value) == IF value >= 0 /\ value <= 256 THEN Char(value) ELSE Number(value)
Printed(value) == IF value >= 0 /\ value <= 255 THEN Char(value) ELSE Number(value)

terminal_write(value) ==
  /\ screen' = Printed(value)
  /\ UNCHANGED <<device, tty, typed, received>>

(* Opening to read discards what is buffered; every mode clears the        *)
(* request and enables the next.                                           *)
FaultyOpen(mode) ==
  /\ input_ready' = (input_ready /\ mode \notin {0, 2})
  /\ irq_enabled' = TRUE
  /\ irq_pending' = FALSE
  /\ UNCHANGED <<input, tty, screen, typed, received>>

terminal_open(mode) ==
  /\ IF mode \in {0, 2}
     THEN input_ready' = FALSE /\ input' = <<>>
     ELSE UNCHANGED <<input_ready, input>>
  /\ irq_enabled' = TRUE
  /\ irq_pending' = FALSE
  /\ UNCHANGED <<tty, screen, typed, received>>

terminal_close ==
  /\ irq_enabled' = FALSE
  /\ irq_pending' = FALSE
  /\ UNCHANGED <<input_ready, input, tty, screen, typed, received>>

FaultyPolls == irq_enabled
Polls == irq_enabled /\ ~input_ready

(* The non-blocking read of the tick found a byte: it is buffered, echoed  *)
(* and signalled.  Without one, or when Polls is false, the tick does      *)
(* nothing.                                                                *)
terminal_tick ==
  /\ Polls /\ tty # <<>>
  /\ input' = <<Head(tty)>>
  /\ tty' = Tail(tty)
  /\ input_ready' = TRUE
  /\ irq_pending' = TRUE
  /\ screen' = Char(Head(tty))
  /\ UNCHANGED <<irq_enabled, typed, received>>

-----------------------------------------------------------------------------
Reads  == \E b \in Bytes : terminal_read(CharValue(b))

Next ==
  \/ \E b \in Bytes : Type(b)
  \/ Reads
  \/ \E value \in Values : terminal_write(value)
  \/ \E mode \in Modes : terminal_open(mode)
  \/ terminal_close
  \/ terminal_tick

Spec == Init /\ [][Next]_vars

-----------------------------------------------------------------------------
(* The fields keep their types; the buffer never holds more than one byte, *)
(* and what goes to the screen is a byte or a number outside that range.   *)
TypeOK ==
  /\ irq_enabled \in BOOLEAN
  /\ irq_pending \in BOOLEAN
  /\ input_ready \in BOOLEAN
  /\ input = <<>> \/ \E b \in Bytes : input = <<b>>
  /\ screen \in Screens
  /\ tty \in Seq(Bytes) /\ typed \in Seq(Bytes) /\ received \in Seq(Bytes)

(* A raised request always stands for a byte the program can read, on a    *)
(* device it has open: no interrupt is raised for nothing, whatever order  *)
(* opens, closes, reads and ticks come in.                                 *)
RequestHasByte == irq_pending => irq_enabled /\ input_ready /\ input # <<>>

(* The three fields that describe the buffer agree between calls.          *)
ReadyIffUnread == input_ready <=> input # <<>>

(* A typed byte is lost only by an open for reading, which discards the    *)
(* buffer: neither a close, nor an open for writing, nor a tick that finds *)
(* the buffer full loses one.                                              *)
LostOnlyByOpen ==
  [][received' = received /\ Len(input' \o tty') < Len(input \o tty)
       => \E mode \in {0, 2} : terminal_open(mode)]_vars

(* The device behaves as the abstract channel, with the buffered byte and  *)
(* the bytes on standard input in transit: the program gets the bytes in   *)
(* the order they were typed, each at most once.                           *)
Channel == INSTANCE InputChannel WITH chan <- input \o tty
ImplementsChannel == Channel!Spec
=============================================================================
