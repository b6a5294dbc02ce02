----------------------------- MODULE FileDevice -----------------------------
(***************************************************************************)
(* The file device of devices.c over the .t3 format of ternio.c, byte by   *)
(* byte.  The C library holds written bytes back in a buffer and moves any *)
(* prefix of them to the disk when it likes; the process may be killed     *)
(* with bytes still in the buffer, a write may come up short, a file may   *)
(* not open.  stdio and the disk are external; their behaviour is the one  *)
(* devices.c and ternio.c rely on.                                         *)
(*                                                                         *)
(* An operator whose name starts with Faulty is the definition after it    *)
(* with a fault; no specification uses one.                                *)
(***************************************************************************)
EXTENDS BalancedTernary

CONSTANTS
  Written,       \* the values a program writes
  Modes,         \* the open modes a program names
  Padding,       \* what the unset byte of the header structure may hold
  Earlier,       \* the values an earlier run may have left in the file
  MayFail,       \* writes may come up short and files may fail to open
  MaxWrites,     \* bound on the values written to one file
  MaxBytes       \* bound on the bytes of one file

ASSUME FileAssumption ==
  /\ Written \subseteq Word /\ Modes \subseteq Int /\ Padding \subseteq 0 .. 255
  /\ \A values \in Earlier : values \in Seq(Word)
  /\ MayFail \in BOOLEAN /\ MaxWrites \in Nat /\ MaxBytes \in Nat

VARIABLES
  is_open, is_write_mode,
  exists, disk,  \* the file on disk
  unflushed,     \* bytes written and still in the buffer of the open file
  pos,           \* offset of the open file
  written,       \* history: values written with success since the truncation
  torn,          \* history: a write of the current file has come up short
  lost           \* history: bytes of the current file never got to the disk

handle == <<is_open, is_write_mode>>
vars   == <<handle, exists, disk, unflushed, pos, written, torn, lost>>

-----------------------------------------------------------------------------
(* The format.                                                             *)
Magic == <<84, 51, 70, 77, 84, 0>>          \* "T3FMT" and its terminator
TERNARY_FORMAT_VERSION == 1
HeaderSize == 12                            \* sizeof(t3_header_t)

(* t3_write_header(file, 0): data_size is a little endian 32 bit zero that *)
(* starts after a byte of padding.                                         *)
Header(pad) == Magic \o <<TERNARY_FORMAT_VERSION, pad, 0, 0, 0, 0>>

(* t3_read_header accepts the file.                                        *)
HeaderIsValid(bytes) ==
  /\ Len(bytes) >= HeaderSize
  /\ SubSeq(bytes, 1, 6) = Magic
  /\ bytes[7] = TERNARY_FORMAT_VERSION

(* t3_write_value: one length byte, then the numeral.                      *)
FaultyFrame(v) ==
  LET s == int_to_balanced_ternary(v) IN <<Len(s) + 1>> \o s
Frame(v) ==
  LET s == int_to_balanced_ternary(v) IN <<Len(s)>> \o s

Frames(values) ==
  LET upTo[i \in 0 .. Len(values)] ==
        IF i = 0 THEN <<>> ELSE upTo[i - 1] \o Frame(values[i])
  IN  upTo[Len(values)]

(* t3_read_value at offset p: a rejected length is consumed, and so is     *)
(* what is left of a file that ends inside a numeral.                      *)
FaultyEnd(bytes, p) == p + 1
End(bytes, p) == p + 1 + bytes[p + 1]

FaultyCutOff(bytes, p) == p + 1 + bytes[p + 1]
CutOff(bytes, p) == Len(bytes)

ReadAt(bytes, p) ==
  CASE p >= Len(bytes) -> [ok |-> FALSE, next |-> p]
    [] p < Len(bytes) /\ bytes[p + 1] \notin 1 .. 63 -> [ok |-> FALSE, next |-> p + 1]
    [] p < Len(bytes) /\ bytes[p + 1] \in 1 .. 63 ->
         IF p + 1 + bytes[p + 1] > Len(bytes)
         THEN [ok |-> FALSE, next |-> CutOff(bytes, p)]
         ELSE [ok |-> TRUE, next |-> End(bytes, p),
               value |-> balanced_ternary_to_int(SubSeq(bytes, p + 2, p + 1 + bytes[p + 1]))]

(* What t3reader lists of a file with a valid header: what it has after so *)
(* many rounds of its loop that none can still succeed.                    *)
Contents(bytes) ==
  LET listed[n \in 0 .. Len(bytes)] ==
        IF n = 0 THEN [values |-> <<>>, next |-> HeaderSize]
        ELSE LET l == listed[n - 1]
                 r == ReadAt(bytes, l.next)
             IN  IF r.ok THEN [values |-> Append(l.values, r.value), next |-> r.next] ELSE l
  IN  listed[Len(bytes)].values

-----------------------------------------------------------------------------
Init ==
  /\ is_open = FALSE /\ is_write_mode = FALSE
  /\ \/ exists = FALSE /\ disk = <<>> /\ written = <<>>
     \/ \E values \in Earlier, pad \in Padding :
          exists = TRUE /\ disk = Header(pad) \o Frames(values) /\ written = values
  /\ unflushed = <<>> /\ pos = 0
  /\ torn = FALSE /\ lost = FALSE

(* The disk after fclose has moved the first k bytes of the buffer to it.  *)
(* file_open and file_close ignore whether that was all.                   *)
Flushed(k) == disk \o SubSeq(unflushed, 1, k)
MayFlush == IF MayFail THEN 0 .. Len(unflushed) ELSE {Len(unflushed)}

MayOpen(mode) ==
  LET wants == IF mode = 0 THEN {exists} ELSE {TRUE}
  IN  IF MayFail THEN wants \cup {FALSE} ELSE wants

FaultyRecreates(mode, ok) == mode # 0
Recreates(mode, ok) == ok /\ mode # 0

(* file_open closes what is open, then opens for reading, or truncates and *)
(* writes the header, of which it does not check the outcome either.       *)
file_open(mode) ==
  /\ is_write_mode' = (mode # 0)
  /\ pos' = 0
  /\ \E ok \in MayOpen(mode) :
       /\ is_open' = ok
       /\ IF Recreates(mode, ok)
          THEN /\ exists' = TRUE /\ disk' = <<>> /\ written' = <<>> /\ lost' = FALSE
               /\ \E pad \in Padding, k \in (IF MayFail THEN 0 .. HeaderSize ELSE {HeaderSize}) :
                    unflushed' = SubSeq(Header(pad), 1, k) /\ torn' = (k < HeaderSize)
          ELSE /\ \E k \in MayFlush : disk' = Flushed(k) /\ lost' = (lost \/ k < Len(unflushed))
               /\ unflushed' = <<>>
               /\ UNCHANGED <<exists, written, torn>>

(* file_close, with 0 for result when a file was open.                     *)
FaultyFileClose ==
  /\ is_open
  /\ is_open' = FALSE
  /\ unflushed' = <<>>
  /\ UNCHANGED <<is_write_mode, exists, disk, pos, written, torn, lost>>
file_close ==
  /\ is_open
  /\ \E k \in MayFlush :
       /\ disk' = Flushed(k)
       /\ lost' = (lost \/ k < Len(unflushed))
  /\ is_open' = FALSE
  /\ unflushed' = <<>>
  /\ UNCHANGED <<is_write_mode, exists, pos, written, torn>>

Readable == is_open /\ ~is_write_mode
Writable == is_open /\ is_write_mode

file_read(v) ==
  LET r == ReadAt(disk, pos)
  IN  /\ Readable /\ r.ok /\ v = r.value
      /\ pos' = r.next
      /\ UNCHANGED <<handle, exists, disk, unflushed, written, torn, lost>>

file_read_fails ==
  LET r == ReadAt(disk, pos)
  IN  /\ Readable => ~r.ok
      /\ pos' = (IF Readable THEN r.next ELSE pos)
      /\ UNCHANGED <<handle, exists, disk, unflushed, written, torn, lost>>

file_write(v) ==
  /\ Writable
  /\ unflushed' = unflushed \o Frame(v)
  /\ written' = Append(written, v)
  /\ UNCHANGED <<handle, exists, disk, pos, torn, lost>>

(* A refused write, or one that fwrite cuts short after k bytes.           *)
file_write_fails(v) ==
  \/ ~Writable /\ UNCHANGED vars
  \/ /\ Writable /\ MayFail
     /\ \E k \in 0 .. Len(Frame(v)) - 1 : unflushed' = unflushed \o SubSeq(Frame(v), 1, k)
     /\ torn' = TRUE
     /\ UNCHANGED <<handle, exists, disk, pos, written, lost>>

(* stdio empties part of its buffer.                                       *)
Flush ==
  \E k \in 1 .. Len(unflushed) :
    /\ disk' = Flushed(k)
    /\ unflushed' = SubSeq(unflushed, k + 1, Len(unflushed))
    /\ UNCHANGED <<handle, exists, pos, written, torn, lost>>

(* The process dies; the next one starts from file_device_create.          *)
Kill ==
  /\ is_open' = FALSE /\ is_write_mode' = FALSE
  /\ unflushed' = <<>> /\ pos' = 0
  /\ lost' = (lost \/ unflushed # <<>>)
  /\ UNCHANGED <<exists, disk, written, torn>>

Reads == file_read_fails \/ (ReadAt(disk, pos).ok /\ file_read(ReadAt(disk, pos).value))

(* What happens to the device besides writes.                              *)
Others ==
  \/ \E mode \in Modes : file_open(mode)
  \/ file_close
  \/ Reads
  \/ Flush
  \/ Kill

Next == Others \/ \E v \in Written : file_write(v) \/ file_write_fails(v)

Spec == Init /\ [][Next]_vars

(* Bounds for model checking: the size of a file, and one short write in   *)
(* each file.                                                              *)
HasRoom(v) ==
  /\ Len(written) < MaxWrites
  /\ Len(disk) + Len(unflushed) + Len(Frame(v)) <= MaxBytes

BoundedNext ==
  \/ Others
  \/ \E v \in Written : HasRoom(v) /\ (file_write(v) \/ (~torn /\ file_write_fails(v)))

BoundedSpec == Init /\ [][BoundedNext]_vars

-----------------------------------------------------------------------------
(* What the codec makes of the values written.                             *)
Stored == [i \in DOMAIN written |->
             balanced_ternary_to_int(int_to_balanced_ternary(written[i]))]

TypeOK ==
  /\ is_open \in BOOLEAN /\ is_write_mode \in BOOLEAN /\ exists \in BOOLEAN
  /\ disk \in Seq(0 .. 255) /\ unflushed \in Seq(0 .. 255)
  /\ pos \in 0 .. Len(disk)
  /\ written \in Seq(Word)
  /\ torn \in BOOLEAN /\ lost \in BOOLEAN

(* Bytes wait in a buffer only behind a file that is open for writing: no  *)
(* order of opens, failed opens and closes leaves some to a later file.    *)
NoStrayBytes == unflushed # <<>> => Writable

(* Every value listed stands in the place of one that was written, and is  *)
(* that value unless it was negative, when it is what the codec makes of   *)
(* it.                                                                     *)
Lists(values) ==
  /\ IsPrefix(values, Stored)
  /\ \A k \in DOMAIN values : written[k] >= 0 => values[k] = written[k]

(* A crash never makes a file lie but for the sign: as long as no write    *)
(* has come up short, t3reader lists the first of the values written, in   *)
(* their order, at any moment, with any part of the bytes flushed and      *)
(* after any kill.  The negative ones it lists as the codec reads them.    *)
CrashLeavesPrefix ==
  exists /\ Len(disk) >= HeaderSize /\ ~torn =>
    HeaderIsValid(disk) /\ Lists(Contents(disk))

(* t3reader lists a value for each one written to a closed file of which   *)
(* nothing was lost: the value itself if it was not negative.              *)
ClosedIsComplete ==
  exists /\ ~is_open /\ ~torn /\ ~lost =>
    /\ HeaderIsValid(disk)
    /\ Lists(Contents(disk)) /\ Len(Contents(disk)) = Len(written)

(* A read that succeeds moves forward inside the file, by a length byte    *)
(* and at least one trit, so a program that reads until a read fails stops.*)
ReadsAdvance ==
  [][Readable /\ ReadAt(disk, pos).ok /\ file_read(ReadAt(disk, pos).value)
       => pos + 2 <= pos' /\ pos' <= Len(disk)]_vars

-----------------------------------------------------------------------------
(* IO_OPERATIONS.md:19 has TREAD "read a value from file", and             *)
(* programs/ternary_io_demo.asm:3 "writes some values to a file and then   *)
(* reads them back": the first read of a complete file that holds a value  *)
(* succeeds.  file_open leaves the position on the header, whose first     *)
(* byte t3_read_value takes for a length and rejects.                      *)
FirstReadSucceeds ==
  [][Readable /\ pos = 0 /\ written # <<>> /\ ~torn /\ ~lost => ~file_read_fails]_vars
=============================================================================
