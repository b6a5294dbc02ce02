----------------------------- MODULE CpuProofs -----------------------------
(***************************************************************************)
(* Theorems about Cpu, for every program, every size of the memories and   *)
(* every width of a word.  A run implements the interrupt protocol, the    *)
(* terminal and the file device, so what is proved of these modules holds  *)
(* of every run.                                                           *)
(***************************************************************************)
EXTENDS Cpu, CodecProofs

IP == INSTANCE InterruptsProofs
        WITH Devices <- {TerminalId, FileId}, irq_vector <- [d \in {TerminalId, FileId} |-> d],
             Values <- Word, irq_line <- Lines
TP == INSTANCE TerminalProofs WITH Modes <- Word, Values <- Word
FP == INSTANCE FileDeviceProofs WITH Modes <- Word, Written <- Word

-----------------------------------------------------------------------------
(* What the three modules assume of their constants holds.                 *)
LEMMA InterruptsFit ==
  /\ MaxMemory \in Nat \ {0}
  /\ MaxData \in Nat \ {0}
  /\ MaxVectors \in Nat \ {0}
  /\ {TerminalId, FileId} \subseteq Nat
  /\ [d \in {TerminalId, FileId} |-> d] \in [{TerminalId, FileId} -> Nat]
  /\ Word \subseteq Int /\ 0 \in Word
  BY CpuAssumption, Words DEF TerminalId, FileId

LEMMA TerminalFits ==
  /\ Bytes \subseteq 0 .. 255
  /\ MaxKeys \in Nat
  /\ CharIsSigned \in BOOLEAN
  /\ Word \subseteq Int
  BY DeviceAssumption, Words

LEMMA FilesFit ==
  /\ Word \subseteq Word /\ Word \subseteq Int /\ Padding \subseteq 0 .. 255
  /\ \A values \in Earlier : values \in Seq(Word)
  /\ MayFail \in BOOLEAN /\ MaxWrites \in Nat /\ MaxBytes \in Nat
  BY DeviceAssumption, Words

LEMMA SameInterruptsInit == I!Init <=> IP!Init
  BY DEF I!Init, IP!Init, I!NoIrq, IP!NoIrq, I!Vectors, IP!Vectors, I!Entry, IP!Entry

LEMMA SameInterruptsState ==
  /\ I!vars = IP!vars /\ I!vars' = IP!vars' /\ I!core = IP!core /\ I!core' = IP!core'
  /\ I!Lines = IP!Lines /\ I!NoIrq = IP!NoIrq /\ I!Vectors = IP!Vectors /\ I!Slots = IP!Slots
  /\ I!Here = IP!Here /\ I!Enabled = IP!Enabled /\ I!Inside = IP!Inside
  /\ I!ReturnTo = IP!ReturnTo /\ I!Latched = IP!Latched
  /\ I!MayReturn = IP!MayReturn /\ (I!Deliver <=> IP!Deliver)
  BY DEF I!vars, IP!vars, I!core, IP!core, I!Lines, IP!Lines, I!NoIrq, IP!NoIrq,
         I!Vectors, IP!Vectors, I!Slots, IP!Slots, I!Here, IP!Here, I!Enabled, IP!Enabled,
         I!Inside, IP!Inside, I!ReturnTo, IP!ReturnTo, I!Latched, IP!Latched,
         I!MayReturn, IP!MayReturn, I!Deliver, IP!Deliver

LEMMA SameLeaves ==
  \A p, next, run, enabled, inside :
    I!Leaves(p, next, run, enabled, inside) <=> IP!Leaves(p, next, run, enabled, inside)
  BY SameInterruptsState DEF I!Leaves, IP!Leaves

LEMMA SamePoll ==
  /\ \A v : I!Accepts(v) <=> IP!Accepts(v)
  /\ \A p : I!Polled(p) <=> IP!Polled(p)
<1>1. \A v : I!Accepts(v) <=> IP!Accepts(v)
  BY SameInterruptsState DEF I!Accepts, IP!Accepts, I!Triggers, IP!Triggers
<1>2. I!Raised = IP!Raised
  BY <1>1 DEF I!Raised, IP!Raised
<1> QED  BY <1>1, <1>2, SameInterruptsState DEF I!Polled, IP!Polled

LEMMA SameInterruptsNext == [I!Next]_I!vars <=> [IP!Next]_IP!vars
<1>1. \A p, next, run : I!Retire(p, next, run) <=> IP!Retire(p, next, run)
  BY SameInterruptsState, SameLeaves DEF I!Retire, IP!Retire
<1>2. \A p : /\ I!OutOfBounds(p) <=> IP!OutOfBounds(p)
             /\ I!EmptySlot(p) <=> IP!EmptySlot(p)
             /\ I!Plain(p) <=> IP!Plain(p)
             /\ I!HLT(p) <=> IP!HLT(p)
             /\ \A target : I!Jump(p, target) <=> IP!Jump(p, target)
  BY <1>1, SameInterruptsState
     DEF I!OutOfBounds, IP!OutOfBounds, I!EmptySlot, IP!EmptySlot, I!Plain, IP!Plain,
         I!HLT, IP!HLT, I!Jump, IP!Jump
<1>3. \A p : /\ \A flag : I!SetEnable(p, flag) <=> IP!SetEnable(p, flag)
             /\ \A word : I!OverwriteStack(p, word) <=> IP!OverwriteStack(p, word)
             /\ \A run, enabled, inside :
                  I!OverwriteFlags(p, run, enabled, inside) <=> IP!OverwriteFlags(p, run, enabled, inside)
             /\ I!IRET(p) <=> IP!IRET(p)
  BY SameInterruptsState, SameLeaves
     DEF I!SetEnable, IP!SetEnable, I!OverwriteStack, IP!OverwriteStack,
         I!OverwriteFlags, IP!OverwriteFlags, I!IRET, IP!IRET
<1>4. \A p, v : I!IRQ(p, v) <=> IP!IRQ(p, v)
  BY <1>1, SamePoll, SameInterruptsState DEF I!IRQ, IP!IRQ
<1>5. I!Step <=> IP!Step
  BY <1>2, <1>3, <1>4, SamePoll, SameInterruptsState DEF I!Step, IP!Step
<1> QED  BY <1>5, SameInterruptsState
         DEF I!Next, IP!Next, I!CpuStep, IP!CpuStep, I!Tick, IP!Tick

LEMMA SameTerminalInit == T!Init <=> TP!Init
  BY DEF T!Init, TP!Init, T!Blank, TP!Blank

LEMMA SameTerminalNext == [T!Next]_T!vars <=> [TP!Next]_TP!vars
  BY DEF T!vars, TP!vars, T!device, TP!device, T!Next, TP!Next, T!Type, TP!Type,
         T!Reads, TP!Reads, T!CharValue, TP!CharValue, T!CanRead, TP!CanRead,
         T!Remaining, TP!Remaining, T!terminal_read, TP!terminal_read,
         T!terminal_write, TP!terminal_write, T!Printed, TP!Printed,
         T!Char, TP!Char, T!Number, TP!Number, T!terminal_open, TP!terminal_open,
         T!terminal_close, TP!terminal_close, T!Polls, TP!Polls,
         T!terminal_tick, TP!terminal_tick

LEMMA SameWord == FP!Word = Word
  BY DEF FP!Word, Word, FP!WordMin, WordMin

LEMMA SameReadAt == \A bytes, p : F!ReadAt(bytes, p) = FP!ReadAt(bytes, p)
<1>1. \A x : F!Wrap(x) = FP!Wrap(x)
  BY DEF F!Wrap, FP!Wrap, F!Modulus, FP!Modulus, F!WordMin, FP!WordMin
<1>2. \A c : F!char_to_trit(c) = FP!char_to_trit(c)
  BY DEF F!char_to_trit, FP!char_to_trit
<1>3. \A s : F!SumOfTrits(s) = FP!SumOfTrits(s)
  BY <1>1 DEF F!SumOfTrits, FP!SumOfTrits
<1>4. \A s : F!CString(s) = FP!CString(s)
  BY DEF F!CString, FP!CString, F!Zeros, FP!Zeros, F!Min, FP!Min
<1>5. \A s : F!TritsIn(s) = FP!TritsIn(s)
  BY <1>2 DEF F!TritsIn, FP!TritsIn
<1>6. \A s : F!balanced_ternary_to_int(s) = FP!balanced_ternary_to_int(s)
  BY <1>3, <1>4, <1>5 DEF F!balanced_ternary_to_int, FP!balanced_ternary_to_int
<1> QED  BY <1>6 DEF F!ReadAt, FP!ReadAt, F!CutOff, FP!CutOff, F!End, FP!End

LEMMA SameFrame == \A v : F!Frame(v) = FP!Frame(v)
<1>1. F!Digits = FP!Digits
  BY SameWord DEF F!Digits, FP!Digits, F!Left, FP!Left, F!Digit, FP!Digit,
         F!Remainder, FP!Remainder, F!Rem, FP!Rem, F!Quot, FP!Quot, F!Word, Word, F!WordMin, WordMin
<1>2. \A v : F!int_to_balanced_ternary(v) = FP!int_to_balanced_ternary(v)
  BY <1>1 DEF F!int_to_balanced_ternary, FP!int_to_balanced_ternary,
              F!trit_to_char, FP!trit_to_char
<1> QED  BY <1>2 DEF F!Frame, FP!Frame

LEMMA SameFrames == \A values : F!Frames(values) = FP!Frames(values)
  BY SameFrame DEF F!Frames, FP!Frames

LEMMA SameHeader == \A pad : F!Header(pad) = FP!Header(pad)
  BY DEF F!Header, FP!Header, F!Magic, FP!Magic,
         F!TERNARY_FORMAT_VERSION, FP!TERNARY_FORMAT_VERSION

LEMMA SameFileInit == F!Init <=> FP!Init
  BY SameHeader, SameFrames DEF F!Init, FP!Init

LEMMA SameFileNext == [F!Next]_F!vars <=> [FP!Next]_FP!vars
<1>1. F!vars = FP!vars /\ F!vars' = FP!vars' /\ F!handle = FP!handle /\ F!handle' = FP!handle'
  BY DEF F!vars, FP!vars, F!handle, FP!handle
<1>2. F!MayFlush = FP!MayFlush /\ \A k : F!Flushed(k) = FP!Flushed(k)
  BY DEF F!MayFlush, FP!MayFlush, F!Flushed, FP!Flushed
<1>3. \A mode : F!file_open(mode) <=> FP!file_open(mode)
  BY <1>2, SameHeader DEF F!file_open, FP!file_open, F!MayOpen, FP!MayOpen,
         F!Recreates, FP!Recreates, F!HeaderSize, FP!HeaderSize
<1>4. F!file_close <=> FP!file_close
  BY <1>2 DEF F!file_close, FP!file_close
<1>5. F!Readable = FP!Readable /\ F!Writable = FP!Writable
  BY DEF F!Readable, FP!Readable, F!Writable, FP!Writable
<1>6. F!Reads <=> FP!Reads
  BY <1>1, <1>5, SameReadAt DEF F!Reads, FP!Reads, F!file_read, FP!file_read,
         F!file_read_fails, FP!file_read_fails
<1>7. \A v : F!file_write(v) <=> FP!file_write(v)
  BY <1>1, <1>5, SameFrame DEF F!file_write, FP!file_write
<1>8. \A v : F!file_write_fails(v) <=> FP!file_write_fails(v)
  BY <1>1, <1>5, SameFrame DEF F!file_write_fails, FP!file_write_fails
<1>9. (F!Flush <=> FP!Flush) /\ (F!Kill <=> FP!Kill)
  BY <1>1, <1>2 DEF F!Flush, FP!Flush, F!Kill, FP!Kill
<1> QED  BY <1>1, <1>3, <1>4, <1>6, <1>7, <1>8, <1>9
         DEF F!Next, FP!Next, F!Others, FP!Others

-----------------------------------------------------------------------------
(* The remainder has the sign of the dividend: a negative address stays so *)
(* and lies less than the size of the data memory below its start.         *)
LEMMA WrappedRange ==
  ASSUME NEW x \in Word
  PROVE  /\ Wrapped(x) \in Word
         /\ -DmemSize < Wrapped(x) /\ Wrapped(x) < DmemSize
         /\ x >= 0 => Wrapped(x) \in Addresses
         /\ x \in Addresses => Wrapped(x) = x
<1>1. PICK size \in Nat \ {0} : size = DmemSize
  BY CpuAssumption
<1>2. PICK v \in Int : v = x /\ WordMin <= v /\ v <= WordMax
  BY Words
<1>3. PICK q \in Int, r \in Int : q = Quot(v, size) /\ Divides(v, size, q, r)
  <2>1. size \in Int /\ size # 0
    OBVIOUS
  <2> QED  BY <2>1, QuotRem
<1>4. PICK m \in Int : m = size * q
  OBVIOUS
<1>5. Wrapped(x) = r
  BY <1>1, <1>2, <1>3, <1>4 DEF Wrapped, Rem, Divides
<1>6. v = m + r /\ -size < r /\ r < size /\ (r = 0 \/ (r < 0 <=> v < 0))
  BY <1>3, <1>4 DEF Divides
<1>7. WordMin <= r /\ r <= WordMax
  <2>1. v >= 0 => r <= v
    <3>1. q < 0 => m <= -size
      BY <1>4
    <3> QED  BY <3>1, <1>6, <1>4
  <2>2. v < 0 => v <= r
    <3>1. q > 0 => m >= size
      BY <1>4
    <3> QED  BY <3>1, <1>6, <1>4
  <2> QED  BY <2>1, <2>2, <1>2, <1>6, Words
<1>8. 0 <= v /\ v < size => r = v
  <2>1. q > 0 => m >= size
    BY <1>4
  <2>2. q < 0 => m <= -size
    BY <1>4
  <2>3. q = 0 => m = 0
    BY <1>4
  <2> QED  BY <2>1, <2>2, <2>3, <1>6
<1>9. r \in Word
  BY <1>7, Words
<1> QED  BY <1>1, <1>2, <1>5, <1>6, <1>8, <1>9 DEF Addresses

(* The words of the slots, as seen from data_mem, are six to a slot.       *)
StraySlot(d) == MaxMemory + (d \div 6)

LEMMA StraySlotInside ==
  ASSUME NEW d \in SlotWords PROVE d \in Int /\ StraySlot(d) \in Slots /\ d % 6 \in 0 .. 5
<1>1. PICK slots \in Int : slots = MaxMemory /\ slots >= 1
  BY CpuAssumption
<1>2. PICK n \in Int : n = d /\ -6 * slots <= n /\ n < 0
  BY <1>1 DEF SlotWords
<1>3. PICK q \in Int, r \in Int : q = n \div 6 /\ r = n % 6 /\ 0 <= r /\ r < 6 /\ n = 6 * q + r
  <2>1. 6 \in Nat \ {0}
    OBVIOUS
  <2> QED  BY <2>1, DivMod
<1>4. -slots <= q /\ q < 0
  BY <1>2, <1>3
<1> QED  BY <1>1, <1>2, <1>3, <1>4 DEF StraySlot, Slots

(* What data_mem[d] and registers[n] mean when d or n is no index, as long *)
(* as it is followed.                                                      *)
LEMMA Reach ==
  /\ \A d \in Int : -DmemSize < d /\ d < DmemSize => d \in SlotWords \cup Addresses
  /\ \A n \in Landing : n >= SlotsAt => n - DataAt \in SlotWords \cup Addresses
<1>1. PICK size \in Int, memories \in Int, slots \in Int :
        /\ size = DmemSize /\ memories = MaxData /\ slots = MaxMemory
        /\ 1 <= size /\ size <= memories /\ memories <= 6 * slots /\ slots >= 1
  BY CpuAssumption
<1>2. SlotWords = -6 * slots .. -1 /\ Addresses = 0 .. size - 1
  BY <1>1 DEF SlotWords, Addresses
<1>3. Landing = 0 .. 6 + 6 * slots + size - 1 /\ SlotsAt = 6 /\ DataAt = 6 + 6 * slots
  BY <1>1 DEF Landing, SlotsAt, DataAt
<1> QED  BY <1>1, <1>2, <1>3

LEMMA CodeWords ==
  /\ \A op : CodeOf(op, Opcodes) \subseteq Word
  /\ \A mode : CodeOf(mode, ModeNames) \subseteq Word
<1>1. DOMAIN Opcodes = 1 .. 31 /\ Len(Opcodes) = 31
  BY DEF Opcodes
<1>2. DOMAIN ModeNames = 1 .. 4
  BY DEF ModeNames
<1>3. PICK max \in Int : max = WordMax /\ 31 <= max
  BY <1>1, CpuAssumption, WordAssumption
<1>4. \A k \in 1 .. 31 : k - 1 \in Word
  BY <1>3, Words
<1> QED  BY <1>1, <1>2, <1>4 DEF CodeOf

LEMMA FieldWords ==
  ASSUME NEW i \in Instruction \cup {Empty}, NEW field \in 0 .. 5
  PROVE  FieldOf(i, field) \subseteq Word
<1>1. CASE i = Empty
  BY <1>1, Words DEF FieldOf
<1>2. CASE i # Empty
  <2>1. i.a.value \in Word /\ i.b.value \in Word
    BY <1>2 DEF Instruction, Operand
  <2>2. Garbage \subseteq Word
    BY CpuAssumption
  <2> QED  BY <1>2, <2>1, <2>2, CodeWords DEF FieldOf
<1> QED  BY <1>1, <1>2

(* Operands and results are words.                                         *)
LEMMA ReadDataWords ==
  ASSUME TypeOK, NEW d PROVE ReadData(d) \subseteq Word
<1>1. CASE d \in Addresses
  BY <1>1 DEF ReadData, TypeOK, Addresses, SlotWords
<1>2. CASE d \in DOMAIN stray /\ d \notin Addresses
  BY <1>2 DEF ReadData, TypeOK
<1>3. CASE d \in SlotWords \ DOMAIN stray /\ d \notin Addresses
  <2>1. memory[StraySlot(d)] \in Instruction \cup {Empty} /\ d % 6 \in 0 .. 5
    BY <1>3, StraySlotInside DEF TypeOK
  <2>2. FieldOf(memory[StraySlot(d)], d % 6) \subseteq Word
    BY <2>1, FieldWords
  <2>3. ReadData(d) = FieldOf(memory[StraySlot(d)], d % 6)
    BY <1>3 DEF ReadData, StraySlot
  <2> QED  BY <2>2, <2>3
<1>4. CASE d \notin Addresses \cup SlotWords \cup DOMAIN stray
  BY <1>4, CpuAssumption DEF ReadData
<1> QED  BY <1>1, <1>2, <1>3, <1>4

LEMMA ReadRegisterWords ==
  ASSUME TypeOK, Fetched, NEW r \in Word PROVE ReadRegister(r) \subseteq Word
<1>1. r \in Int
  BY Words
<1>2. I!Here + 1 \in Word
  <2>1. PICK slots \in Int, max \in Int : slots = MaxMemory /\ max = WordMax /\ slots <= max
    BY CpuAssumption, WordAssumption
  <2>2. PICK h \in Int : h = I!Here /\ 0 <= h /\ h < slots
    BY <2>1 DEF Fetched, Slots
  <2> QED  BY <2>1, <2>2, Words
<1>3. sp \in Word /\ Garbage \subseteq Word
  BY CpuAssumption DEF TypeOK
<1>4. CASE r \in Registers
  BY <1>1, <1>4 DEF ReadRegister, TypeOK, Registers, PcAt, SpAt, SlotsAt, FlagsAt
<1>5. CASE r = PcAt
  BY <1>2, <1>5 DEF ReadRegister, Registers, PcAt, SpAt, SlotsAt, FlagsAt
<1>6. CASE r = SpAt
  BY <1>3, <1>6 DEF ReadRegister, Registers, PcAt, SpAt, SlotsAt, FlagsAt
<1>7. CASE r >= SlotsAt
  BY <1>1, <1>7, ReadDataWords DEF ReadRegister, Registers, PcAt, SpAt, SlotsAt, FlagsAt
<1>8. CASE r < 0 \/ r = FlagsAt
  BY <1>1, <1>3, <1>8 DEF ReadRegister, Registers, PcAt, SpAt, SlotsAt, FlagsAt
<1> QED  BY <1>1, <1>4, <1>5, <1>6, <1>7, <1>8 DEF Registers, PcAt, SpAt, SlotsAt, FlagsAt

LEMMA ResolveWords ==
  ASSUME TypeOK, Fetched, NEW o \in Operand PROVE Resolve(o) \subseteq Word
<1>1. o.mode \in Modes /\ o.value \in Word
  BY DEF Operand
<1>2. 0 \in Word
  BY Words
<1> QED  BY <1>1, <1>2, ReadRegisterWords, WrappedRange DEF Resolve, Modes

LEMMA AddressOfWords ==
  ASSUME TypeOK, Fetched, NEW o \in Operand, NEW d \in AddressOf(o)
  PROVE  d \in Word /\ -DmemSize < d /\ d < DmemSize
  BY ResolveWords, WrappedRange DEF AddressOf

LEMMA BinaryWords ==
  ASSUME NEW op \in Binary, NEW x \in Word, NEW y \in Word
  PROVE  BinaryResults(op, x, y) \subseteq Word
<1>1. x \in Int /\ y \in Int /\ {-1, 0, 1} \subseteq Word
  BY Words, WordAssumption
<1>2. CASE op \in {"ADD", "SUB", "MUL"}
  <2>1. x + y \in Int /\ x - y \in Int /\ x * y \in Int
    BY <1>1
  <2>2. Wrap(x + y) \in Word /\ Wrap(x - y) \in Word /\ Wrap(x * y) \in Word
    BY <2>1, WrapIsWord
  <2> QED  BY <1>2, <2>2 DEF BinaryResults
<1>3. CASE op = "DIV"
  BY <1>1, <1>3, DivisionIsWord DEF BinaryResults
<1>4. CASE op \in {"TAND", "TOR"}
  BY <1>4 DEF BinaryResults, trit_and, trit_or
<1>5. CASE op = "TCMPR"
  <2>1. \A s : tsign(s) \in {-1, 0, 1}
    BY DEF tsign
  <2> QED  BY <1>1, <1>5, <2>1 DEF BinaryResults, tcmpr
<1> QED  BY <1>2, <1>3, <1>4, <1>5 DEF Binary

LEMMA UnaryWord ==
  ASSUME NEW op \in Unary, NEW x \in Word
  PROVE  UnaryResult(op, x) \in Word
<1>1. x \in Int /\ {-1, 0, 1} \subseteq Word
  BY Words, WordAssumption
<1>2. CASE op \in {"TNOT", "NEG"}
  BY <1>1, <1>2, WrapIsWord DEF UnaryResult, trit_not
<1>3. CASE op = "TSIGN"
  BY <1>1, <1>3 DEF UnaryResult, tsign
<1>4. CASE op = "TABS"
  BY <1>1, <1>4, WrapIsWord DEF UnaryResult, tabs
<1>5. CASE op = "TSHL3"
  BY <1>1, <1>5, WrapIsWord DEF UnaryResult, tshl3
<1>6. CASE op = "TSHR3"
  <2>1. ~DivTraps(x, 3) /\ Division(x, 3) = Quot(x, 3)
    BY <1>1 DEF DivTraps, Division
  <2> QED  BY <1>6, <2>1, DivisionIsWord DEF UnaryResult, tshr3
<1> QED  BY <1>2, <1>3, <1>4, <1>5, <1>6 DEF Unary

(* What an instruction computes is a word, whatever its operands are.      *)
LEMMA ResultsWords ==
  ASSUME TypeOK, Fetched, NEW i \in Instruction, i.op \in Binary \cup Unary \cup Loads
  PROVE  Results(i) \subseteq Word
<1>1. /\ i.a \in Operand /\ i.b \in Operand
      /\ i.a.value \in Word /\ i.b.value \in Word
  BY DEF Instruction, Operand
<1>2. CASE i.op \in Binary
  <2>1. i.op \notin Unary /\ i.op \notin Loads
    BY <1>2 DEF Unary, Binary, Loads
  <2>2. Results(i) = UNION {BinaryResults(i.op, x, y) :
                              x \in ReadRegister(i.a.value), y \in ReadRegister(i.b.value)}
    BY <1>2, <2>1 DEF Results
  <2>3. \A x \in ReadRegister(i.a.value), y \in ReadRegister(i.b.value) :
          BinaryResults(i.op, x, y) \subseteq Word
    BY <1>1, <1>2, BinaryWords, ReadRegisterWords
  <2> QED  BY <2>2, <2>3
<1>3. CASE i.op \in Unary
  <2>1. i.op \notin Binary /\ i.op \notin Loads
    BY <1>3 DEF Unary, Binary, Loads
  <2>2. Results(i) = {UnaryResult(i.op, x) : x \in ReadRegister(i.a.value)}
    BY <1>3, <2>1 DEF Results
  <2> QED  BY <1>1, <1>3, <2>2, UnaryWord, ReadRegisterWords
<1>4. CASE i.op \in Loads
  <2>1. i.op \notin Binary /\ i.op \notin Unary
    BY <1>4 DEF Unary, Binary, Loads
  <2>2. Results(i) = LoadResults(i)
    BY <1>4, <2>1 DEF Results
  <2>3. CASE i.op = "MOV"
    BY <1>1, <2>2, <2>3, ResolveWords DEF LoadResults
  <2>4. CASE i.op = "LEA"
    BY <1>1, <2>2, <2>4, AddressOfWords DEF LoadResults
  <2>5. CASE i.op = "LD"
    BY <2>2, <2>5, ReadDataWords DEF LoadResults
  <2> QED  BY <1>4, <2>3, <2>4, <2>5 DEF Loads
<1> QED  BY <1>2, <1>3, <1>4

-----------------------------------------------------------------------------
(* Stores keep both memories typed, the stray ones included.               *)
LEMMA OpcodeTyped == \A w : Opcode(w) \in OpcodeNames
<1>1. 1 \in DOMAIN Opcodes /\ Opcodes[1] = "NOP"
  BY DEF Opcodes
<1> QED  BY <1>1 DEF Opcode, OpcodeNames

LEMMA ModeTyped == \A w : Mode(w) \in Modes
<1>1. \A k \in DOMAIN ModeNames : ModeNames[k] \in Modes
  BY DEF ModeNames, Modes
<1> QED  BY <1>1 DEF Mode, Modes

LEMMA OverwrittenTyped ==
  ASSUME NEW i \in Instruction \cup {Empty}, NEW field \in 0 .. 5, NEW w \in Word
  PROVE  Overwritten(i, field, w) \in Instruction \cup {Empty}
<1>1. CASE i = Empty \/ field = 5
  BY <1>1 DEF Overwritten
<1>2. CASE i # Empty /\ field # 5
  <2>1. i \in Instruction /\ i.a \in Operand /\ i.b \in Operand
    BY <1>2 DEF Instruction
  <2>2. CASE field = 0
    <3>1. Overwritten(i, field, w) = [i EXCEPT !.op = Opcode(w)]
      BY <1>2, <2>2 DEF Overwritten
    <3> QED  BY <2>1, <3>1, OpcodeTyped DEF Instruction
  <2>3. CASE field = 1
    <3>1. Overwritten(i, field, w) = [i EXCEPT !.a = [@ EXCEPT !.mode = Mode(w)]]
      BY <1>2, <2>3 DEF Overwritten
    <3>2. [i.a EXCEPT !.mode = Mode(w)] \in Operand
      BY <2>1, ModeTyped DEF Operand
    <3> QED  BY <2>1, <3>1, <3>2 DEF Instruction
  <2>4. CASE field = 2
    <3>1. Overwritten(i, field, w) = [i EXCEPT !.a = [@ EXCEPT !.value = w]]
      BY <1>2, <2>4 DEF Overwritten
    <3>2. [i.a EXCEPT !.value = w] \in Operand
      BY <2>1 DEF Operand
    <3> QED  BY <2>1, <3>1, <3>2 DEF Instruction
  <2>5. CASE field = 3
    <3>1. Overwritten(i, field, w) = [i EXCEPT !.b = [@ EXCEPT !.mode = Mode(w)]]
      BY <1>2, <2>5 DEF Overwritten
    <3>2. [i.b EXCEPT !.mode = Mode(w)] \in Operand
      BY <2>1, ModeTyped DEF Operand
    <3> QED  BY <2>1, <3>1, <3>2 DEF Instruction
  <2>6. CASE field = 4
    <3>1. Overwritten(i, field, w) = [i EXCEPT !.b = [@ EXCEPT !.value = w]]
      BY <1>2, <2>6 DEF Overwritten
    <3>2. [i.b EXCEPT !.value = w] \in Operand
      BY <2>1 DEF Operand
    <3> QED  BY <2>1, <3>1, <3>2 DEF Instruction
  <2> QED  BY <1>2, <2>2, <2>3, <2>4, <2>5, <2>6
<1> QED  BY <1>1, <1>2

LEMMA StoreTyped ==
  ASSUME TypeOK, NEW d \in SlotWords \cup Addresses, NEW w \in Word, Store(d, w)
  PROVE  /\ data_mem' \in [Addresses -> Word]
         /\ memory' \in [Slots -> Instruction \cup {Empty}]
         /\ DOMAIN stray' \subseteq SlotWords /\ \A e \in DOMAIN stray' : stray'[e] \in Word
<1>1. CASE d \in Addresses
  BY <1>1 DEF Store, TypeOK
<1>2. CASE d \notin Addresses
  <2>1. StraySlot(d) \in Slots /\ d % 6 \in 0 .. 5
    BY <1>2, StraySlotInside
  <2>2. memory[StraySlot(d)] \in Instruction \cup {Empty}
    BY <2>1 DEF TypeOK
  <2>3. Overwritten(memory[StraySlot(d)], d % 6, w) \in Instruction \cup {Empty}
    BY <2>1, <2>2, OverwrittenTyped
  <2>4. /\ memory' = [memory EXCEPT ![StraySlot(d)] = Overwritten(@, d % 6, w)]
        /\ data_mem' = data_mem
        /\ stray' = [e \in DOMAIN stray \cup {d} |-> IF e = d THEN w ELSE stray[e]]
    BY <1>2 DEF Store, StraySlot
  <2>5. DOMAIN stray' \subseteq SlotWords /\ \A e \in DOMAIN stray' : stray'[e] \in Word
    BY <1>2, <2>4 DEF TypeOK
  <2> QED  BY <2>3, <2>4, <2>5 DEF TypeOK
<1> QED  BY <1>1, <1>2

-----------------------------------------------------------------------------
(* A value read from a device is a word only because the buffer of the     *)
(* terminal holds keys and the file holds bytes, and these stay so only as *)
(* long as the devices are used as their modules say.                      *)
IInv == TypeOK /\ TP!IInv /\ FP!IInv

LEMMA KeyIsWord ==
  ASSUME IInv, T!CanRead
  PROVE  /\ input[1] \in Bytes /\ Head(input) = input[1]
         /\ T!CharValue(input[1]) \in Word
<1>1. PICK b \in Bytes : input = <<b>>
  BY DEF IInv, TP!IInv, TP!TypeOK, T!CanRead
<1> QED  BY <1>1, DeviceAssumption DEF T!CharValue

LEMMA FileTyped ==
  ASSUME IInv PROVE disk \in Seq(FP!Byte) /\ pos \in Nat /\ pos <= Len(disk)
  BY DEF IInv, FP!IInv, FP!TypeOK, FP!Byte

LEMMA ValueIsWord ==
  ASSUME IInv, F!ReadAt(disk, pos).ok
  PROVE  F!ReadAt(disk, pos).value \in Word
<1>1. FP!ReadAt(disk, pos).ok => FP!ReadAt(disk, pos).value \in FP!Word
  BY FileTyped, FP!ReadAtFacts, FilesFit, SameWord, WordAssumption, WidthAssumption, SMT
<1> QED  BY <1>1, SameReadAt, SameWord

-----------------------------------------------------------------------------
(* Every instruction keeps the words words.                                *)
LEMMA StatusTyped ==
  ASSUME IInv, NEW s \in Word, Status(s) PROVE registers' \in [Registers -> Word]
  BY DEF Status, IInv, TypeOK

LEMMA Statuses == 0 \in Word /\ -1 \in Word
  BY Words

(* The memories and the stack pointer, which an assignment to registers[n] *)
(* may change.                                                             *)
MemoriesTyped ==
  /\ sp \in Word
  /\ data_mem \in [Addresses -> Word]
  /\ memory \in [Slots -> Instruction \cup {Empty}]
  /\ DOMAIN stray \subseteq SlotWords /\ \A d \in DOMAIN stray : stray[d] \in Word

LEMMA MemoriesKept ==
  ASSUME TypeOK, UNCHANGED <<sp, data_mem, memory, stray>> PROVE MemoriesTyped'
  BY DEF TypeOK, MemoriesTyped

LEMMA SpKept ==
  ASSUME NEW p, \/ I!Plain(p) \/ I!HLT(p) \/ I!IRET(p) \/ I!OutOfBounds(p) \/ I!EmptySlot(p)
                \/ \E target : I!Jump(p, target)
                \/ \E flag : I!SetEnable(p, flag)
                \/ \E v : I!IRQ(p, v)
  PROVE  sp' = sp
  BY DEF I!Plain, I!HLT, I!IRET, I!OutOfBounds, I!EmptySlot, I!Jump, I!SetEnable, I!IRQ, I!Retire

LEMMA LandsTyped ==
  ASSUME TypeOK, NEW p, NEW n \in Landing, NEW w \in Word, Lands(p, n, w)
  PROVE  MemoriesTyped'
<1>1. CASE n \in Registers /\ I!Plain(p) /\ UNCHANGED Memories
  BY <1>1, SpKept, MemoriesKept DEF Memories
<1>2. CASE n = PcAt /\ I!Jump(p, w) /\ UNCHANGED Memories
  BY <1>2, SpKept, MemoriesKept DEF Memories
<1>3. CASE n = SpAt /\ I!OverwriteStack(p, w) /\ UNCHANGED Memories
  BY <1>3 DEF I!OverwriteStack, Memories, MemoriesTyped, TypeOK
<1>4. CASE UNCHANGED Memories /\ \E run, enabled, inside : I!OverwriteFlags(p, run, enabled, inside)
  BY <1>4, MemoriesKept DEF I!OverwriteFlags, Memories
<1>5. CASE n >= SlotsAt /\ Store(n - DataAt, w) /\ I!Plain(p)
  <2>1. n - DataAt \in SlotWords \cup Addresses
    BY <1>5, Reach
  <2> QED  BY <1>5, <2>1, SpKept, StoreTyped DEF MemoriesTyped, TypeOK
<1> QED  BY <1>1, <1>2, <1>3, <1>4, <1>5 DEF Lands

LEMMA AssignedTyped ==
  ASSUME TypeOK, NEW n, NEW w \in Word PROVE Assigned(n, w) \in [Registers -> Word]
  BY DEF Assigned, TypeOK

LEMMA IOKept == ASSUME TypeOK, NEW p, IO(p) PROVE MemoriesTyped'
  BY SpKept, MemoriesKept DEF IO, Memories

LEMMA DeliverTyped ==
  ASSUME IInv, NEW p, NEW i, NEW v \in Word, DeliverValue(p, i, v),
         i.b.mode = "reg" => i.b.value \in Landing
  PROVE  registers' \in [Registers -> Word] /\ MemoriesTyped'
<1>1. CASE i.b.mode = "reg"
  <2>1. registers' = [Assigned(i.b.value, v) EXCEPT ![REG_A] = 0] /\ Lands(p, i.b.value, v)
    BY <1>1 DEF DeliverValue
  <2>2. Assigned(i.b.value, v) \in [Registers -> Word]
    BY AssignedTyped DEF IInv
  <2> QED  BY <1>1, <2>1, <2>2, Statuses, LandsTyped DEF IInv
<1>2. CASE i.b.mode # "reg"
  BY <1>2, StatusTyped, Statuses, IOKept DEF DeliverValue, IInv
<1> QED  BY <1>1, <1>2

LEMMA ReadTyped ==
  ASSUME IInv, NEW p, NEW i, TREAD(p, i), ~GoesWild(i)
  PROVE  registers' \in [Registers -> Word] /\ MemoriesTyped'
<1>1. \/ T!CanRead /\ Delivers(i) /\ DeliverValue(p, i, T!CharValue(input[1]))
      \/ F!ReadAt(disk, pos).ok /\ Delivers(i) /\ DeliverValue(p, i, F!ReadAt(disk, pos).value)
      \/ Status(-1) /\ IO(p)
  BY DEF TREAD, Delivers
<1>2. Delivers(i) /\ i.b.mode = "reg" => i.b.value \in Landing
  BY DEF GoesWild, Target, TREAD
<1>3. TypeOK
  BY DEF IInv
<1> QED  BY <1>1, <1>2, <1>3, KeyIsWord, ValueIsWord, DeliverTyped, StatusTyped, Statuses, IOKept

LEMMA ExecuteTyped ==
  ASSUME IInv, Fetched, NEW p, NEW i \in Instruction, Execute(p, i), ~GoesWild(i)
  PROVE  registers' \in [Registers -> Word] /\ MemoriesTyped'
<1> DEFINE Typed == registers' \in [Registers -> Word] /\ MemoriesTyped'
<1>1. TypeOK
  BY DEF IInv
<1>2. UNCHANGED <<core, sp>> => Typed
  BY <1>1, MemoriesKept DEF core, TypeOK
<1>3. ASSUME IO(p), registers' \in [Registers -> Word] PROVE Typed
  BY <1>1, <1>3, IOKept
<1>4. CASE Compute(p, i)
  <2>1. i.op \in Binary \cup Unary \cup Loads /\ ~DoesNothing(i)
    BY <1>4 DEF Compute
  <2>2. PICK w \in Results(i) : registers' = Assigned(i.a.value, w) /\ Lands(p, i.a.value, w)
    BY <1>4 DEF Compute
  <2>3. w \in Word
    BY <1>1, <2>1, ResultsWords
  <2>4. i.op # "TREAD"
    BY <2>1 DEF Binary, Unary, Loads
  <2>5. i.a.value \in Landing
    BY <2>1, <2>4 DEF GoesWild, Target
  <2> QED  BY <1>1, <2>2, <2>3, <2>5, AssignedTyped, LandsTyped
<1>5. CASE ST(p, i)
  <2>1. PICK d \in AddressOf(i.b), w \in ReadRegister(i.a.value) : Store(d, w)
    BY <1>5 DEF ST
  <2>2. i.b \in Operand /\ i.a.value \in Word
    BY DEF Instruction, Operand
  <2>3. d \in Word /\ -DmemSize < d /\ d < DmemSize /\ w \in Word
    BY <1>1, <2>2, AddressOfWords, ReadRegisterWords
  <2>4. d \in SlotWords \cup Addresses
    BY <2>3, Reach, Words
  <2>5. registers' = registers /\ sp' = sp
    BY <1>5, SpKept DEF ST
  <2> QED  BY <1>1, <2>1, <2>3, <2>4, <2>5, StoreTyped DEF TypeOK, MemoriesTyped
<1>6. CASE TREAD(p, i)
  BY <1>6, ReadTyped
<1>7. CASE NoDevice(p, i)
  BY <1>3, <1>7, StatusTyped, Statuses DEF NoDevice
<1>8. CASE TOPEN(p, i)
  <2>1. Status(0) \/ Status(-1)
    BY <1>8 DEF TOPEN
  <2> QED  BY <1>3, <1>8, <2>1, StatusTyped, Statuses DEF TOPEN
<1>9. CASE TWRITE(p, i)
  <2>1. Status(0) \/ Status(-1)
    BY <1>9 DEF TWRITE
  <2> QED  BY <1>3, <1>9, <2>1, StatusTyped, Statuses DEF TWRITE
<1>10. CASE TCLOSE(p, i)
  <2>1. Status(0) \/ Status(-1)
    BY <1>10 DEF TCLOSE
  <2> QED  BY <1>3, <1>10, <2>1, StatusTyped, Statuses DEF TCLOSE
<1>11. CASE NOP(p, i) \/ JMP(p, i) \/ Branch(p, i) \/ HLT(p, i) \/ EI(p, i) \/ DI(p, i)
             \/ IRQ(p, i) \/ IRET(p, i)
  BY <1>2, <1>11, SpKept DEF NOP, JMP, Branch, HLT, EI, DI, IRQ, IRET
<1> QED  BY <1>4, <1>5, <1>6, <1>7, <1>8, <1>9, <1>10, <1>11 DEF Execute

(* Every instruction moves the flags of the interrupt system as one of the *)
(* kinds of steps of Interrupts.                                           *)
LEMMA FlagBoolean == \A w, k : Flag(w, k) \subseteq BOOLEAN
  BY Zenon DEF Flag

LEMMA LandsIsStep ==
  ASSUME running, NEW p \in I!Vectors \cup {I!NoIrq}, I!Polled(p), NEW n, NEW w \in Word,
         Lands(p, n, w)
  PROVE  I!Step
<1>1. CASE I!Plain(p)
  BY <1>1 DEF I!Step
<1>2. CASE I!Jump(p, w)
  BY <1>2 DEF I!Step
<1>3. CASE I!OverwriteStack(p, w)
  BY <1>3 DEF I!Step
<1>4. CASE \E run \in Flag(w, 0), enabled \in Flag(w, 1), inside \in Flag(w, 2) :
             I!OverwriteFlags(p, run, enabled, inside)
  <2>1. PICK run \in BOOLEAN, enabled \in BOOLEAN, inside \in BOOLEAN :
          I!OverwriteFlags(p, run, enabled, inside)
    BY <1>4, FlagBoolean
  <2> QED  BY <2>1 DEF I!Step
<1> QED  BY <1>1, <1>2, <1>3, <1>4 DEF Lands

LEMMA ExecuteIsStep ==
  ASSUME IInv, Fetched, running, NEW p \in I!Vectors \cup {I!NoIrq}, I!Polled(p),
         NEW i \in Instruction, Execute(p, i)
  PROVE  I!Step
<1>1. i.a \in Operand /\ i.b \in Operand /\ TypeOK
  BY DEF Instruction, IInv
<1>2. CASE I!Plain(p)
  BY <1>2 DEF I!Step
<1>3. CASE JMP(p, i)
  BY <1>1, <1>3, ResolveWords DEF JMP, I!Step
<1>4. CASE Branch(p, i)
  <2>1. I!Plain(p) \/ \E target \in Resolve(i.b) : I!Jump(p, target)
    BY <1>4 DEF Branch
  <2> QED  BY <1>1, <1>2, <2>1, ResolveWords DEF I!Step
<1>5. CASE HLT(p, i)
  BY <1>5 DEF HLT, I!Step
<1>6. CASE EI(p, i)
  BY <1>6 DEF EI, I!Step
<1>7. CASE DI(p, i)
  BY <1>7 DEF DI, I!Step
<1>8. CASE IRQ(p, i)
  BY <1>1, <1>8, ResolveWords DEF IRQ, I!Step
<1>9. CASE IRET(p, i)
  BY <1>9 DEF IRET, I!Step
<1>10. CASE Compute(p, i)
  <2>1. PICK w \in Results(i) : Lands(p, i.a.value, w)
    BY <1>10 DEF Compute
  <2>2. w \in Word
    BY <1>1, <1>10, ResultsWords DEF Compute
  <2> QED  BY <2>1, <2>2, LandsIsStep
<1>11. CASE TREAD(p, i)
  <2>1. \/ \E v \in Word : DeliverValue(p, i, v)
        \/ IO(p)
    BY <1>11, KeyIsWord, ValueIsWord DEF TREAD
  <2>2. IO(p) \/ \E v \in Word : Lands(p, i.b.value, v)
    BY <2>1 DEF DeliverValue
  <2> QED  BY <1>2, <2>2, LandsIsStep DEF IO
<1>12. CASE NOP(p, i) \/ ST(p, i) \/ TOPEN(p, i) \/ TWRITE(p, i) \/ TCLOSE(p, i) \/ NoDevice(p, i)
  BY <1>2, <1>12 DEF NOP, ST, TOPEN, TWRITE, TCLOSE, NoDevice, IO
<1> QED  BY <1>3, <1>4, <1>5, <1>6, <1>7, <1>8, <1>9, <1>10, <1>11, <1>12 DEF Execute

-----------------------------------------------------------------------------
(* Every instruction uses the devices as their modules say.                *)
LEMMA QuietDevices == ASSUME Quiet PROVE UNCHANGED T!vars /\ UNCHANGED F!vars
  BY DEF Quiet, terminal, file, T!vars, T!device, F!vars, F!handle

LEMMA SameTerminal == ASSUME UNCHANGED terminal PROVE UNCHANGED T!vars
  BY DEF terminal, T!vars, T!device

LEMMA SameFile == ASSUME UNCHANGED file PROVE UNCHANGED F!vars
  BY DEF file, F!vars, F!handle

LEMMA ExecuteDevices ==
  ASSUME IInv, Fetched, NEW p, NEW i \in Instruction, Execute(p, i)
  PROVE  [T!Next]_T!vars /\ [F!Next]_F!vars
<1>1. Resolve(i.b) \subseteq Word
  BY ResolveWords DEF Instruction, IInv
<1>2. CASE Quiet
  BY <1>2, QuietDevices
<1>3. CASE TOPEN(p, i)
  <2>1. PICK mode \in Word : \/ T!terminal_open(mode) /\ UNCHANGED file
                             \/ F!file_open(mode) /\ UNCHANGED terminal
    BY <1>1, <1>3 DEF TOPEN
  <2> QED  BY <2>1, SameTerminal, SameFile DEF T!Next, F!Next, F!Others
<1>4. CASE TREAD(p, i)
  <2>1. CASE T!CanRead /\ T!terminal_read(T!CharValue(input[1])) /\ UNCHANGED file
    <3>1. T!Reads
      BY <2>1, KeyIsWord DEF T!Reads
    <3> QED  BY <2>1, <3>1, SameFile DEF T!Next
  <2>2. CASE F!ReadAt(disk, pos).ok /\ F!file_read(F!ReadAt(disk, pos).value) /\ UNCHANGED terminal
    BY <2>2, SameTerminal DEF F!Next, F!Others, F!Reads
  <2>3. CASE F!file_read_fails /\ UNCHANGED terminal
    BY <2>3, SameTerminal DEF F!Next, F!Others, F!Reads
  <2>4. CASE UNCHANGED terminal /\ UNCHANGED file
    BY <2>4, SameTerminal, SameFile
  <2> QED  BY <1>4, <2>1, <2>2, <2>3, <2>4 DEF TREAD
<1>5. CASE TWRITE(p, i)
  <2>1. PICK v \in Word : \/ T!terminal_write(v) /\ UNCHANGED file
                          \/ (F!file_write(v) \/ F!file_write_fails(v)) /\ UNCHANGED terminal
    BY <1>1, <1>5 DEF TWRITE
  <2> QED  BY <2>1, SameTerminal, SameFile DEF T!Next, F!Next
<1>6. CASE TCLOSE(p, i)
  <2>1. \/ T!terminal_close /\ UNCHANGED file
        \/ F!file_close /\ UNCHANGED terminal
        \/ UNCHANGED terminal /\ UNCHANGED file
    BY <1>6 DEF TCLOSE
  <2> QED  BY <2>1, SameTerminal, SameFile DEF T!Next, F!Next, F!Others
<1> QED  BY <1>2, <1>3, <1>4, <1>5, <1>6
         DEF Execute, NOP, Compute, ST, JMP, Branch, HLT, EI, DI, IRQ, IRET, NoDevice

-----------------------------------------------------------------------------
(* The invariant holds at the start and is kept.                           *)
LEMMA InitTyped == Init => TypeOK
<1> SUFFICES ASSUME Init PROVE TypeOK
  OBVIOUS
<1>1. 0 \in Word
  BY Words
<1>2. PICK p \in Programs : Loaded(p)
  BY DEF Init
<1>3. PICK code, data : code = p.code /\ data = p.data
                        /\ code \in Seq(Instruction) /\ data \in Seq(Word)
  BY ProgramAssumption
<1>4. memory \in [Slots -> Instruction \cup {Empty}]
  <2>1. memory = [s \in Slots |-> IF s < Len(code) THEN code[s + 1] ELSE Empty]
    BY <1>2, <1>3 DEF Loaded, LoadedCode
  <2>2. ASSUME NEW s \in Slots, s < Len(code) PROVE code[s + 1] \in Instruction
    <3>1. s \in Nat /\ s + 1 \in 1 .. Len(code)
      BY <1>3, <2>2 DEF Slots
    <3> QED  BY <1>3, <3>1
  <2> QED  BY <2>1, <2>2
<1>5. data_mem \in [Addresses -> Word]
  <2>1. data_mem = [d \in Addresses |-> IF d < Len(data) THEN data[d + 1] ELSE 0]
    BY <1>2, <1>3 DEF Loaded, LoadedData, Addresses
  <2>2. ASSUME NEW d \in Addresses, d < Len(data) PROVE data[d + 1] \in Word
    <3>1. d \in Nat /\ d + 1 \in 1 .. Len(data)
      BY <1>3, <2>2 DEF Addresses
    <3> QED  BY <1>3, <3>1
  <2> QED  BY <1>1, <2>1, <2>2
<1>6. registers \in [Registers -> Word]
  BY <1>1 DEF Init
<1>7. devices \subseteq {TerminalId, FileId} /\ phase = "step"
  BY CpuAssumption DEF Init
<1>8. sp \in Word
  <2>1. PICK size \in Nat \ {0} : size = MaxData /\ size <= WordMax
    BY CpuAssumption
  <2>2. sp = size - 1
    BY <2>1 DEF Init, I!Init
  <2> QED  BY <2>1, <2>2, Words, WordAssumption
<1>9. DOMAIN stray = {}
  BY DEF Init
<1> QED  BY <1>4, <1>5, <1>6, <1>7, <1>8, <1>9 DEF TypeOK

LEMMA InitIInv == Init => IInv
<1> SUFFICES ASSUME Init PROVE IInv
  OBVIOUS
<1>1. TP!IInv
  BY SameTerminalInit, TP!InitInv, TerminalFits DEF Init
<1>2. FP!IInv
  BY SameFileInit, FP!InitIInv, FilesFit, SameWord, WordAssumption, WidthAssumption, SMT DEF Init
<1> QED  BY <1>1, <1>2, InitTyped DEF IInv

(* The instruction ternuino_step executes is one of opcode_t with operands *)
(* that are words.                                                         *)
LEMMA CurrentTyped == ASSUME TypeOK, Fetched PROVE Current \in Instruction
  BY DEF Fetched, Current, TypeOK

(* The lines of the interrupt system are always Boolean.                   *)
LEMMA LinesTyped == Lines' \in I!Lines
<1>1. \A d : (d = TerminalId /\ irq_pending') \in BOOLEAN
  OBVIOUS
<1> QED  BY <1>1 DEF Lines, I!Lines

(* What a step of the run does to the four parts of the state.             *)
LawfulStep == TypeOK' /\ [I!Next]_I!vars /\ [T!Next]_T!vars /\ [F!Next]_F!vars

LEMMA InterruptsKept == ASSUME UNCHANGED interrupt PROVE [I!Next]_I!vars /\ sp' = sp
<1>1. UNCHANGED I!core /\ sp' = sp
  BY DEF interrupt, I!core
<1> QED  BY <1>1, LinesTyped DEF I!Next, I!Tick

LEMMA CoreKept ==
  ASSUME TypeOK, UNCHANGED <<core, devices, sp>>, phase' \in {"step", "tick"} \cup Final
  PROVE  TypeOK'
  BY DEF TypeOK, core

LEMMA CpuKeeps == ASSUME IInv, ternuino_step PROVE LawfulStep
<1>1. TypeOK /\ running /\ phase' = "tick" /\ UNCHANGED devices
  BY DEF IInv, ternuino_step, Stepping
<1>2. PICK p \in I!Vectors \cup {I!NoIrq} :
        /\ I!Polled(p)
        /\ \/ OutOfBounds(p) \/ EmptySlot(p)
           \/ Fetched /\ ~GoesWild(Current) /\ Execute(p, Current)
  BY DEF ternuino_step
<1>3. CASE OutOfBounds(p) \/ EmptySlot(p)
  <2>1. UNCHANGED <<core, sp>> /\ Quiet /\ I!Step
    BY <1>1, <1>2, <1>3, SpKept DEF OutOfBounds, EmptySlot, I!Step
  <2>2. TypeOK'
    BY <1>1, <2>1, CoreKept
  <2>3. I!Next
    BY <2>1, LinesTyped DEF I!Next, I!CpuStep
  <2> QED  BY <2>1, <2>2, <2>3, QuietDevices DEF LawfulStep
<1>4. CASE Fetched /\ ~GoesWild(Current) /\ Execute(p, Current)
  <2>1. PICK i \in Instruction : i = Current
    BY <1>1, <1>4, CurrentTyped
  <2>2. Execute(p, i) /\ ~GoesWild(i)
    BY <1>4, <2>1
  <2>3. TypeOK'
    BY <1>1, <1>4, <2>2, ExecuteTyped DEF TypeOK, MemoriesTyped
  <2>4. I!Next
    BY <1>1, <1>2, <1>4, <2>2, ExecuteIsStep, LinesTyped DEF I!Next, I!CpuStep
  <2> QED  BY <1>4, <2>2, <2>3, <2>4, ExecuteDevices DEF LawfulStep
<1> QED  BY <1>2, <1>3, <1>4

LEMMA NextKeeps == ASSUME IInv, [Next]_vars PROVE LawfulStep
<1>1. TypeOK
  BY DEF IInv
<1>2. CASE ternuino_step
  BY <1>2, CpuKeeps
<1>3. CASE Trap
  <2>1. UNCHANGED <<core, devices, interrupt, terminal>> /\ phase' \in Final /\ F!Kill
    BY <1>3 DEF Trap, Final
  <2> QED  BY <1>1, <2>1, CoreKept, InterruptsKept, SameTerminal DEF LawfulStep, F!Next, F!Others
<1>4. CASE Wild
  <2>1. UNCHANGED <<core, devices, interrupt, terminal, file>> /\ phase' \in Final
    BY <1>4 DEF Wild, Final
  <2> QED  BY <1>1, <2>1, CoreKept, InterruptsKept, SameTerminal, SameFile DEF LawfulStep
<1>5. CASE ternuino_tick_devices
  <2>1. UNCHANGED <<core, devices, interrupt, file>> /\ phase' = "step"
    BY <1>5 DEF ternuino_tick_devices
  <2>2. T!terminal_tick \/ UNCHANGED terminal
    BY <1>5 DEF ternuino_tick_devices
  <2> QED  BY <1>1, <2>1, <2>2, CoreKept, InterruptsKept, SameTerminal, SameFile
           DEF LawfulStep, T!Next
<1>6. CASE CleanUp
  <2>1. UNCHANGED <<core, devices, interrupt>> /\ phase' \in Final
    BY <1>6 DEF CleanUp, Final
  <2>2. T!terminal_close \/ UNCHANGED terminal
    BY <1>6 DEF CleanUp
  <2>3. F!file_close \/ UNCHANGED file
    BY <1>6 DEF CleanUp
  <2> QED  BY <1>1, <2>1, <2>2, <2>3, CoreKept, InterruptsKept, SameTerminal, SameFile
           DEF LawfulStep, T!Next, F!Next, F!Others
<1>7. ASSUME NEW b \in Bytes, Key(b) PROVE LawfulStep
  <2>1. UNCHANGED <<phase, core, devices, interrupt, file>> /\ T!Type(b)
    BY <1>7 DEF Key
  <2>2. phase' \in {"step", "tick"} \cup Final
    BY <1>1, <2>1 DEF TypeOK
  <2> QED  BY <1>1, <2>1, <2>2, CoreKept, InterruptsKept, SameFile DEF LawfulStep, T!Next
<1>8. CASE UNCHANGED vars
  <2>1. UNCHANGED <<phase, core, devices, interrupt, terminal, file>>
    BY <1>8 DEF vars
  <2>2. phase' \in {"step", "tick"} \cup Final
    BY <1>1, <2>1 DEF TypeOK
  <2> QED  BY <1>1, <2>1, <2>2, CoreKept, InterruptsKept, SameTerminal, SameFile DEF LawfulStep
<1> QED  BY <1>2, <1>3, <1>4, <1>5, <1>6, <1>7, <1>8 DEF Next, Run

LEMMA NextIInv == IInv /\ [Next]_vars => IInv'
<1> SUFFICES ASSUME IInv, [Next]_vars PROVE IInv'
  OBVIOUS
<1>1. LawfulStep
  BY NextKeeps
<1>2. TP!IInv'
  BY <1>1, SameTerminalNext, TP!NextInv, TerminalFits DEF LawfulStep, IInv
<1>3. FP!IInv'
  BY <1>1, SameFileNext, FP!NextIInv, FilesFit, SameWord, WordAssumption, WidthAssumption, SMT
     DEF LawfulStep, IInv
<1> QED  BY <1>1, <1>2, <1>3 DEF LawfulStep, IInv

-----------------------------------------------------------------------------
(* The inductive invariant.                                                *)
THEOREM Inductive == Spec => []IInv
  BY InitIInv, NextIInv, PTL DEF Spec

(* Whatever the program computes, stores and reads, registers and memory   *)
(* hold words and every slot an instruction or nothing.                    *)
THEOREM TypeCorrect == Spec => []TypeOK
<1>1. IInv => TypeOK
  BY DEF IInv
<1> QED  BY <1>1, Inductive, PTL

(* A run of any program is a behaviour of the interrupt protocol.          *)
THEOREM FollowsProtocol == Spec => ImplementsInterrupts
<1>1. Init => I!Init
  BY DEF Init
<1>2. IInv /\ [Next]_vars => [I!Next]_I!vars
  BY NextKeeps DEF LawfulStep
<1> QED  BY <1>1, <1>2, Inductive, PTL DEF Spec, ImplementsInterrupts, I!Spec

(* ... and uses the terminal as its module allows ...                      *)
THEOREM UsesTerminal == Spec => ImplementsTerminal
<1>1. Init => T!Init
  BY DEF Init
<1>2. IInv /\ [Next]_vars => [T!Next]_T!vars
  BY NextKeeps DEF LawfulStep
<1> QED  BY <1>1, <1>2, Inductive, PTL DEF Spec, ImplementsTerminal, T!Spec

(* ... and the file device as its module allows.                           *)
THEOREM UsesFile == Spec => ImplementsFile
<1>1. Init => F!Init
  BY DEF Init
<1>2. IInv /\ [Next]_vars => [F!Next]_F!vars
  BY NextKeeps DEF LawfulStep
<1> QED  BY <1>1, <1>2, Inductive, PTL DEF Spec, ImplementsFile, F!Spec

-----------------------------------------------------------------------------
(* A step that executes an instruction is the action of that instruction.  *)
LEMMA StepExecutes ==
  ASSUME IInv, [Next]_vars, NEW op, Steps(op)
  PROVE  /\ Current \in Instruction /\ Current.op = op
         /\ ~GoesWild(Current)
         /\ \E p : Execute(p, Current)
<1>1. phase = "step" /\ phase' = "tick" /\ Fetched /\ Current.op = op
  BY DEF Steps, Stepping
<1>2. ternuino_step
  BY <1>1 DEF Next, Run, Trap, Wild, ternuino_tick_devices, CleanUp, Key, vars
<1>3. PICK p : OutOfBounds(p) \/ EmptySlot(p) \/ (~GoesWild(Current) /\ Execute(p, Current))
  BY <1>2 DEF ternuino_step
<1>4. ~OutOfBounds(p)
  BY <1>1 DEF OutOfBounds, I!OutOfBounds, Fetched, I!Slots, Slots
<1>5. ~EmptySlot(p)
  BY <1>1 DEF EmptySlot, Fetched, Current
<1>6. Current \in Instruction
  BY <1>1, CurrentTyped DEF IInv
<1> QED  BY <1>1, <1>3, <1>4, <1>5, <1>6

(* A read that the file device answers with a value moves the offset.      *)
LEMMA ReadMoves ==
  ASSUME IInv, F!ReadAt(disk, pos).ok PROVE F!ReadAt(disk, pos).next # pos
<1>1. PICK p \in Nat, n \in Nat : p = pos /\ n = Len(disk)
  BY FileTyped
<1>2. FP!ReadAt(disk, p).ok =>
        /\ p < n /\ disk[p + 1] >= 1
        /\ FP!ReadAt(disk, p).next = p + 1 + disk[p + 1]
  BY <1>1, FileTyped, FP!ReadAtFacts, FilesFit, SameWord, WordAssumption, WidthAssumption, SMT
<1>3. p < n => disk[p + 1] \in Int
  <2>1. p < n => p + 1 \in 1 .. Len(disk)
    BY <1>1
  <2>2. p < n => disk[p + 1] \in FP!Byte
    BY <2>1, FileTyped
  <2> QED  BY <2>2 DEF FP!Byte
<1> QED  BY <1>1, <1>2, <1>3, SameReadAt

(* TREAD leaves 0 in A exactly if a value was taken from the terminal or   *)
(* the file and given to a register, and then the register holds the value *)
(* of the byte or of the frame that was read; and it touches no other.     *)
Honest ==
  LET target == Current.b
      failed == registers' = [registers EXCEPT ![REG_A] = -1]
  IN  IF TakenValues = {} \/ target.mode # "reg" THEN failed
      ELSE /\ registers'[REG_A] = 0
           /\ target.value \in Registers \ {REG_A} =>
                registers'[target.value] \in TakenValues
           /\ \A r \in Registers \ {REG_A, target.value} :
                registers'[r] = registers[r]

LEMMA DeliveredHonestly ==
  ASSUME IInv, NEW p, NEW v, DeliverValue(p, Current, v), TakenValues = {v} PROVE Honest
<1>1. registers \in [Registers -> Word] /\ REG_A \in Registers
  BY DEF IInv, TypeOK, REG_A, Registers
<1>2. CASE Current.b.mode = "reg"
  <2>1. registers' = [Assigned(Current.b.value, v) EXCEPT ![REG_A] = 0]
    BY <1>2 DEF DeliverValue
  <2>2. CASE Current.b.value \in Registers
    BY <1>1, <1>2, <2>1, <2>2 DEF Assigned, Honest
  <2>3. CASE Current.b.value \notin Registers
    BY <1>1, <1>2, <2>1, <2>3 DEF Assigned, Honest
  <2> QED  BY <2>2, <2>3
<1>3. CASE Current.b.mode # "reg"
  BY <1>3 DEF DeliverValue, Status, Honest
<1> QED  BY <1>2, <1>3

THEOREM StatusIsHonest == Spec => TreadStatus
<1>1. ASSUME IInv, [Next]_vars, Steps("TREAD") PROVE Honest
  <2>1. PICK p : Execute(p, Current)
    BY <1>1, StepExecutes
  <2>2. Current.op = "TREAD"
    BY <1>1, StepExecutes
  <2>3. TREAD(p, Current) \/ NoDevice(p, Current)
    BY <2>1, <2>2 DEF Execute, NOP, DoesNothing, Compute, ST, JMP, Branch, HLT, EI, DI, IRQ, IRET,
       TOPEN, TWRITE, TCLOSE, Binary, Unary, Loads, Jumps
  <2>4. CASE T!CanRead /\ T!terminal_read(T!CharValue(input[1])) /\ UNCHANGED file
             /\ DeliverValue(p, Current, T!CharValue(input[1]))
    <3>1. received' # received
      <4>1. received \in Seq(Bytes) /\ Head(input) \in Bytes
        BY <1>1, <2>4, KeyIsWord DEF IInv, TP!IInv, TP!TypeOK
      <4>2. received' = Append(received, Head(input))
        BY <2>4 DEF T!terminal_read
      <4>3. Len(received') = Len(received) + 1 /\ Len(received) \in Nat
        BY <4>1, <4>2
      <4> QED  BY <4>3
    <3>2. TakenValues = {T!CharValue(input[1])}
      BY <2>4, <3>1 DEF TakenValues, file
    <3> QED  BY <1>1, <2>4, <3>2, DeliveredHonestly
  <2>5. CASE F!ReadAt(disk, pos).ok /\ F!file_read(F!ReadAt(disk, pos).value) /\ UNCHANGED terminal
             /\ DeliverValue(p, Current, F!ReadAt(disk, pos).value)
    <3>1. received' = received /\ pos' = F!ReadAt(disk, pos).next
      BY <2>5 DEF terminal, F!file_read
    <3>2. TakenValues = {F!ReadAt(disk, pos).value}
      BY <1>1, <2>5, <3>1, ReadMoves DEF TakenValues
    <3> QED  BY <1>1, <2>5, <3>2, DeliveredHonestly
  <2>6. ASSUME Status(-1), TakenValues = {} PROVE Honest
    BY <2>6 DEF Status, Honest
  <2>7. CASE F!file_read_fails /\ UNCHANGED terminal /\ Status(-1)
    <3>1. F!ReadAt(disk, pos).ok => pos' = pos
      BY <2>7 DEF F!file_read_fails
    <3>2. received' = received
      BY <2>7 DEF terminal
    <3> QED  BY <2>6, <2>7, <3>1, <3>2 DEF TakenValues
  <2>8. CASE UNCHANGED terminal /\ UNCHANGED file /\ Status(-1)
    BY <2>6, <2>8 DEF TakenValues, terminal, file
  <2>9. CASE NoDevice(p, Current)
    BY <2>8, <2>9 DEF NoDevice, Quiet
  <2> QED  BY <2>3, <2>4, <2>5, <2>7, <2>8, <2>9 DEF TREAD
<1>2. IInv /\ [Next]_vars => [Steps("TREAD") => Honest]_vars
  BY <1>1
<1> QED  BY <1>2, Inductive, PTL DEF Spec, TreadStatus, Honest

-----------------------------------------------------------------------------
(* What is proved of the modules therefore holds of a run of any program.  *)
LEMMA ProtocolRun == Spec => IP!Spec /\ IP!HostSpec
<1>1. IP!Spec <=> I!Spec
  BY SameInterruptsInit, SameInterruptsNext, PTL DEF IP!Spec, I!Spec
<1>2. IP!Spec => IP!HostSpec
  BY IP!SimulatorRun, InterruptsFit
<1> QED  BY <1>1, <1>2, FollowsProtocol DEF ImplementsInterrupts

(* What a step of a run does to the interrupt system.                      *)
LEMMA ProtocolStep ==
  ASSUME IInv, IP!TypeOK, [Next]_vars
  PROVE  \/ /\ IP!Effect
            /\ (pending_irq # IP!NoIrq \/ IP!Inside) => pending_irq' = IP!Latched
         \/ UNCHANGED interrupt
<1>1. [IP!Next]_IP!vars
  BY NextKeeps, SameInterruptsNext DEF LawfulStep
<1>2. CASE IP!Step
  <2>1. IP!Effect
    BY <1>2, IP!StepEffect, InterruptsFit
  <2>2. (pending_irq # IP!NoIrq \/ IP!Inside) => pending_irq' = IP!Latched
    BY <2>1, IP!Busy, InterruptsFit DEF IP!Effect, IP!Latches
  <2> QED  BY <2>1, <2>2
<1>3. CASE UNCHANGED IP!core
  BY <1>3 DEF IP!core, interrupt
<1> QED  BY <1>1, <1>2, <1>3 DEF IP!Next, IP!CpuStep, IP!Tick, IP!vars

(* Whatever the program and the devices do, a latched request is one for   *)
(* an enabled vector, and it stays latched until its handler is entered:   *)
(* in a run nothing but the entry changes a latch that is not empty.       *)
THEOREM RunsServeRequests ==
  Spec => /\ []IP!PendingEnabled
          /\ [][pending_irq # I!NoIrq /\ pending_irq' # pending_irq
                  => I!Enters /\ saved_pc' = pc /\ irq_table[pending_irq].enabled]_vars
<1>1. IP!HostSpec => []IP!TypeOK
  BY IP!TypeCorrect, InterruptsFit
<1>2. IP!Spec => []IP!PendingEnabled
  BY IP!LatchedEnabled, InterruptsFit
<1>3. IInv /\ IP!TypeOK /\ IP!PendingEnabled /\ [Next]_vars
        => [pending_irq # I!NoIrq /\ pending_irq' # pending_irq
              => I!Enters /\ saved_pc' = pc /\ irq_table[pending_irq].enabled]_vars
  <2> SUFFICES ASSUME IInv, IP!TypeOK, IP!PendingEnabled, [Next]_vars,
                      pending_irq # I!NoIrq, pending_irq' # pending_irq
               PROVE  I!Enters /\ saved_pc' = pc /\ irq_table[pending_irq].enabled
    OBVIOUS
  <2>1. IP!Effect /\ pending_irq' = IP!Latched
    BY ProtocolStep, SameInterruptsState DEF interrupt
  <2>2. IP!Deliver /\ pending_irq' = IP!NoIrq
    BY <2>1 DEF IP!Latched
  <2>3. saved_pc' = pc
    BY <2>1, <2>2 DEF IP!Effect, IP!ReturnTo
  <2> QED  BY <2>2, <2>3, SameInterruptsState DEF I!Enters, IP!PendingEnabled
<1> QED  BY <1>1, <1>2, <1>3, ProtocolRun, Inductive, PTL DEF Spec

(* A program leaves a handler only through an instruction that names a     *)
(* register it does not have: only such a one writes over the stack        *)
(* pointer, without which IRET does not return, or over the flags.         *)
THEOREM ReturnNeedsOverwrite ==
  Spec => [][/\ sp' # sp => Fetched /\ Target(Current).value = SpAt
             /\ in_interrupt /\ ~in_interrupt' =>
                  /\ Fetched
                  /\ \/ Current.op = "IRET" /\ sp < MaxData - 1
                     \/ Target(Current).value = FlagsAt]_vars
<1> DEFINE Steady == sp' = sp /\ (in_interrupt => in_interrupt')
           Through(i) == /\ sp' # sp => Target(i).value = SpAt
                         /\ in_interrupt /\ ~in_interrupt' =>
                              \/ i.op = "IRET" /\ sp < MaxData - 1
                              \/ Target(i).value = FlagsAt
<1>1. ASSUME NEW p, NEW next, NEW run, I!Retire(p, next, run) PROVE Steady
  BY <1>1 DEF I!Retire, I!Leaves, I!Inside
<1>2. ASSUME NEW p, \/ I!Plain(p) \/ I!HLT(p) \/ I!OutOfBounds(p) \/ I!EmptySlot(p)
                    \/ \E target : I!Jump(p, target)
                    \/ \E v : I!IRQ(p, v)
      PROVE  Steady
  BY <1>1, <1>2 DEF I!Plain, I!HLT, I!OutOfBounds, I!EmptySlot, I!Jump, I!IRQ
<1>3. ASSUME NEW p, NEW flag, I!SetEnable(p, flag) PROVE Steady
  BY <1>3 DEF I!SetEnable, I!Leaves, I!Inside
<1>4. ASSUME NEW p, NEW i, NEW w, Lands(p, Target(i).value, w) PROVE Through(i)
  <2>1. CASE I!Plain(p) \/ I!Jump(p, w)
    BY <1>2, <2>1
  <2>2. CASE Target(i).value = SpAt /\ I!OverwriteStack(p, w)
    BY <2>2 DEF I!OverwriteStack, I!Leaves, I!Inside
  <2>3. CASE /\ Target(i).value = FlagsAt
             /\ \E run, enabled, inside : I!OverwriteFlags(p, run, enabled, inside)
    BY <2>3 DEF I!OverwriteFlags
  <2> QED  BY <1>4, <2>1, <2>2, <2>3 DEF Lands
<1>5. ASSUME NEW p, NEW i, Execute(p, i) PROVE Through(i)
  <2>1. CASE Compute(p, i)
    <3>1. i.op # "TREAD"
      BY <2>1 DEF Compute, Binary, Unary, Loads
    <3> QED  BY <1>4, <2>1, <3>1 DEF Compute, Target
  <2>2. CASE TREAD(p, i)
    <3>1. IO(p) \/ \E v : Lands(p, i.b.value, v)
      BY <2>2 DEF TREAD, DeliverValue
    <3>2. Target(i) = i.b
      BY <2>2 DEF TREAD, Target
    <3> QED  BY <1>2, <1>4, <3>1, <3>2 DEF IO
  <2>3. CASE IRET(p, i)
    BY <2>3 DEF IRET, I!IRET, I!MayReturn, I!Leaves, I!Inside
  <2>4. CASE EI(p, i) \/ DI(p, i)
    BY <1>3, <2>4 DEF EI, DI
  <2>5. CASE NOP(p, i) \/ ST(p, i) \/ JMP(p, i) \/ Branch(p, i) \/ HLT(p, i) \/ IRQ(p, i)
             \/ TOPEN(p, i) \/ TWRITE(p, i) \/ TCLOSE(p, i) \/ NoDevice(p, i)
    BY <1>2, <2>5 DEF NOP, ST, JMP, Branch, HLT, IRQ, TOPEN, TWRITE, TCLOSE, NoDevice, IO
  <2> QED  BY <1>5, <2>1, <2>2, <2>3, <2>4, <2>5 DEF Execute
<1>6. ASSUME [Next]_vars, ~(Fetched /\ \E p : Execute(p, Current)) PROVE Steady
  <2>1. CASE ternuino_step
    BY <1>2, <1>6, <2>1 DEF ternuino_step, OutOfBounds, EmptySlot
  <2>2. CASE ~ternuino_step
    BY <1>6, <2>2 DEF Next, Run, Trap, Wild, ternuino_tick_devices, CleanUp, Key, vars, interrupt
  <2> QED  BY <2>1, <2>2
<1>7. [Next]_vars
        => [/\ sp' # sp => Fetched /\ Target(Current).value = SpAt
            /\ in_interrupt /\ ~in_interrupt' =>
                 /\ Fetched
                 /\ \/ Current.op = "IRET" /\ sp < MaxData - 1
                    \/ Target(Current).value = FlagsAt]_vars
  BY <1>5, <1>6
<1> QED  BY <1>7, PTL DEF Spec

LEMMA TerminalRun == Spec => TP!Spec
<1>1. TP!Spec <=> T!Spec
  BY SameTerminalInit, SameTerminalNext, PTL DEF TP!Spec, T!Spec
<1> QED  BY <1>1, UsesTerminal DEF ImplementsTerminal

(* A program gets the bytes in the order they were typed, each at most     *)
(* once, and an interrupt of the terminal always finds one.                *)
THEOREM RunsGetKeysInOrder == Spec => TP!ImplementsChannel /\ []TP!RequestHasByte
<1>1. TP!Spec => TP!ImplementsChannel
  BY TP!Implements, TerminalFits
<1>2. TP!Spec => []TP!RequestHasByte
  BY TP!RequestIsHonest, TerminalFits
<1> QED  BY <1>1, <1>2, TerminalRun

LEMMA FileRun == Spec => FP!Spec
<1>1. FP!Spec <=> F!Spec
  BY SameFileInit, SameFileNext, PTL DEF FP!Spec, F!Spec
<1> QED  BY <1>1, UsesFile DEF ImplementsFile

(* Only a registered file device is ever open, and the clean up closes it. *)
Closed ==
  /\ is_open => FileId \in devices
  /\ phase = "done" => ~is_open

LEMMA OnlyRegisteredOpens ==
  ASSUME NEW p, NEW i, Execute(p, i), is_open', ~is_open PROVE FileId \in devices
<1>1. CASE TOPEN(p, i)
  BY <1>1 DEF TOPEN, OnFile, file
<1>2. CASE UNCHANGED file
  BY <1>2 DEF file
<1>3. CASE TREAD(p, i)
  BY <1>2, <1>3 DEF TREAD, F!file_read, F!file_read_fails, F!handle
<1>4. CASE TWRITE(p, i)
  BY <1>2, <1>4 DEF TWRITE, F!file_write, F!file_write_fails, F!vars, F!handle
<1>5. CASE TCLOSE(p, i)
  BY <1>2, <1>5 DEF TCLOSE, F!file_close
<1> QED  BY <1>1, <1>2, <1>3, <1>4, <1>5
         DEF Execute, NOP, Compute, ST, JMP, Branch, HLT, EI, DI, IRQ, IRET, NoDevice, Quiet

LEMMA ClosedKept == Closed /\ [Next]_vars => Closed'
<1> SUFFICES ASSUME Closed, [Next]_vars PROVE Closed'
  OBVIOUS
<1>1. CASE ternuino_step
  <2>1. phase' = "tick" /\ devices' = devices
    BY <1>1 DEF ternuino_step
  <2>2. PICK p : OutOfBounds(p) \/ EmptySlot(p) \/ Execute(p, Current)
    BY <1>1 DEF ternuino_step
  <2>3. CASE OutOfBounds(p) \/ EmptySlot(p)
    BY <2>1, <2>3 DEF OutOfBounds, EmptySlot, Quiet, file, Closed
  <2>4. CASE Execute(p, Current)
    BY <2>1, <2>4, OnlyRegisteredOpens DEF Closed
  <2> QED  BY <2>2, <2>3, <2>4
<1>2. CASE Trap
  BY <1>2 DEF Trap, F!Kill, Closed
<1>3. CASE CleanUp
  BY <1>3 DEF CleanUp, F!file_close, file, Closed
<1>4. CASE Wild \/ ternuino_tick_devices \/ \E b \in Bytes : Key(b)
  BY <1>4 DEF Wild, ternuino_tick_devices, Key, file, Closed
<1>5. CASE UNCHANGED vars
  BY <1>5 DEF vars, file, Closed
<1> QED  BY <1>1, <1>2, <1>3, <1>4, <1>5 DEF Next, Run

(* Whatever program runs, at any moment what t3reader lists are the first  *)
(* of the values it wrote, and when the run has come to its end, by itself *)
(* and not by a trap, there is one listed for each of them, unless a write *)
(* came up short or closing lost bytes.  A value that was not negative is  *)
(* listed as it was written, a negative one as the codec reads it.         *)
THEOREM RunsLeaveTheirFiles ==
  Spec => [](/\ FP!CrashLeavesPrefix
             /\ phase = "done" /\ exists /\ ~torn /\ ~lost =>
                  FP!Lists(FP!Contents(disk)) /\ Len(FP!Contents(disk)) = Len(written))
<1>1. FP!Spec => []FP!CrashLeavesPrefix
  BY FP!CrashIsHonest, FilesFit, SameWord, WordAssumption, WidthAssumption
<1>2. FP!Spec => []FP!ClosedIsComplete
  BY FP!CloseIsComplete, FilesFit, SameWord, WordAssumption, WidthAssumption
<1>3. Init => Closed
  BY DEF Init, F!Init, Closed
<1>4. Closed /\ FP!ClosedIsComplete
        => (phase = "done" /\ exists /\ ~torn /\ ~lost =>
              FP!Lists(FP!Contents(disk)) /\ Len(FP!Contents(disk)) = Len(written))
  BY DEF Closed, FP!ClosedIsComplete
<1> QED  BY <1>1, <1>2, <1>3, <1>4, ClosedKept, FileRun, PTL DEF Spec
=============================================================================
