----------------------------- MODULE FlashSpool -----------------------------
(***************************************************************************)
(* The flash log behind the measurement spool (storage/spool/flash.rs on   *)
(* the ROM flash driver of drivers/flash.rs).  Records and acknowledgement *)
(* entries are programmed one after the other into an erased region; when  *)
(* the next entry does not fit, the pending records are rewritten from the *)
(* start of the region after erasing all of it; after a reset the queue is *)
(* rebuilt by scanning the region.                                         *)
(*                                                                         *)
(* Every call of the driver blocks the single executor, so an append or an *)
(* acknowledgement that writes one entry is one step.  A compaction is one *)
(* step per sector erased and per record written, since power may be lost  *)
(* between any two.  Faults says which faults a configuration lets happen: *)
(*   "idle"      power is lost while no driver call is in progress         *)
(*   "write"     power is lost while an entry is being programmed          *)
(*   "compact"   power is lost during a compaction                         *)
(*   "driver"    the driver returns an error part way through a call       *)
(***************************************************************************)
EXTENDS SpoolRecords

CONSTANTS
    SectorWords,  \* sector_size() in words
    Faults,       \* the kinds of fault that may happen
    MaxFaults,    \* bound: faults in a behaviour
    MaxAppends    \* bound: appends in a behaviour

ASSUME FlashAssumption ==
    /\ SectorWords \in Nat \ {0}
    /\ RegionWords % SectorWords = 0
    /\ Faults \subseteq {"idle", "write", "compact", "driver"}
    /\ MaxFaults \in Nat
    /\ MaxAppends \in Nat

VARIABLES
    flash,          \* the region, word by word
    mode,           \* what the storage task is doing
    queue,          \* spool.queue; during recovery the local `records`
    next_sequence,  \* spool.next_sequence
    write_offset,   \* write_offset; during recovery the local `cursor`
    max_seen,       \* recovery's max_sequence_seen
    plan,           \* the records a compaction writes back
    plan_next,      \* the next_sequence it installs
    progress,       \* words erased, then records written back
    replay,         \* history: what recovery should know after each entry of the log
    spoiled,        \* history: the log no longer holds what was written to it (see Spoils)
    appends,        \* history: number of appends, for MaxAppends
    faults          \* history: number of faults, for MaxFaults

flashVars == <<flash, mode, queue, next_sequence, write_offset>>
compactionVars == <<plan, plan_next, progress>>
historyVars == <<replay, spoiled, appends, faults>>
vars == <<flashVars, max_seen, compactionVars, historyVars>>

-----------------------------------------------------------------------------
(* Words of the region.  A cell tells apart what decoding tells apart.     *)

Word(kind, value, part) == [kind |-> kind, value |-> value, part |-> part]

Blank == Word("ones", 0, 0)  \* erased: 0xffffffff
Junk == Word("junk", 0, 0)   \* two different words programmed over each other

RecordMagic == Word("record magic", 0, 0)
AckMagic == Word("ack magic", 0, 0)

\* encode_record: magic, version and flags, the sequence number on two words,
\* then the payload length, its checksum and the payload itself.
RecordImage(r) ==
    [i \in 1 .. RecordWords(r) |->
        CASE i = 1 -> RecordMagic
          [] i = 2 -> Word("version", 0, 0)
          [] i \in {3, 4} -> Word("sequence", r.sequence, i)
          [] OTHER -> Word("payload", r.payload, i)]

\* A digit of an acknowledged sequence number: all ones is an erased word.
DigitWord(d) == IF d = Radix - 1 THEN Blank ELSE Word("digit", d, 0)

\* encode_ack: magic, version with the low digit, middle digit, high digit.
\* Nothing protects it: an unwritten digit decodes as the digit of all ones.
AckImage(s) ==
    [i \in 1 .. AckWords |->
        CASE i = 1 -> AckMagic
          [] i = 2 -> Word("ack version", s % Radix, 0)
          [] i = 3 -> DigitWord((s \div Radix) % Radix)
          [] OTHER -> DigitWord((s \div Radix) \div Radix)]

Images == {RecordImage(r) : r \in Record} \cup {AckImage(s) : s \in Sequence}
Cell == {Blank, Junk} \cup UNION {Range(image) : image \in Images}

\* Programming only clears bits.
Overlay(cell, word) ==
    IF cell = Blank THEN word
    ELSE IF word = Blank \/ word = cell THEN cell ELSE Junk

\* flash.write of the first n words of an image
Program(at, image, n) ==
    [w \in DOMAIN flash |->
        IF w \in at .. at + n - 1
          THEN Overlay(flash[w], image[w - at + 1])
          ELSE flash[w]]

\* A write cut short: a prefix was programmed, or part of the first word.
Torn(at, image) ==
    {Program(at, image, n) : n \in 1 .. Len(image) - 1}
        \cup {[flash EXCEPT ![at] = Junk]}

\* Mutant of ErasedSector: the last word of the sector is left out.
ErasedSectorShort ==
    [w \in DOMAIN flash |->
        IF w \in progress .. progress + SectorWords - 2 THEN Blank ELSE flash[w]]

\* flash.erase of one sector
ErasedSector ==
    [w \in DOMAIN flash |->
        IF w \in progress .. progress + SectorWords - 1 THEN Blank ELSE flash[w]]

\* An erase cut short leaves the sector as it was or unreadable.
TornErase ==
    {flash, [w \in DOMAIN flash |->
        IF w \in progress .. progress + SectorWords - 1 THEN Junk ELSE flash[w]]}

Fits(n) == write_offset + n <= RegionWords

\* History: an entry written at the write offset that recovery cannot read
\* back, because its words are not erased or, for an acknowledgement in the
\* last words of the region, because recovery reads a whole record header.
Erased(n) == \A w \in write_offset .. write_offset + n - 1 : flash[w] = Blank
Spoils(n) == ~Erased(n) \/ ~Fits(HeaderWords)

\* History: recovery before the first entry, and after one more entry that
\* ends at cursor, leaves the queue q and carries the sequence number s.
Nothing == [cursor |-> 0, queue |-> <<>>, max_seen |-> -1]
Recovered == replay[Len(replay)]
Larger(a, b) == IF a > b THEN a ELSE b
Logged(cursor, q, s) ==
    Append(replay, [cursor |-> cursor, queue |-> q,
                    max_seen |-> Larger(Recovered.max_seen, s)])

\* The records appended and neither dropped nor acknowledged.
Promise == Recovered.queue

NoPlan == plan' = <<>> /\ plan_next' = 0 /\ progress' = 0

-----------------------------------------------------------------------------
(* Recovery: recover_with_report, one step per round of its loop.          *)

Cursor == write_offset

\* The loop's condition, the test for erased flash and the test for a header.
HeaderAtCursor ==
    /\ Fits(1)
    /\ flash[Cursor] # Blank
    /\ Fits(HeaderWords)

\* The numbers that the sequence words at the cursor can be read as.  The
\* checksum covers the payload only: words that are not the two of one number
\* read as any number.
NumbersAtCursor ==
    LET whole == {s \in Sequence : /\ flash[Cursor + 2] = Word("sequence", s, 3)
                                   /\ flash[Cursor + 3] = Word("sequence", s, 4)}
    IN  IF whole = {} THEN Sequence ELSE whole

\* decode_record at the cursor: the records it can return, none unless the
\* header and the payload are complete, intact and inside the region.
RecordsAtCursor ==
    {r \in [sequence : NumbersAtCursor, payload : Payloads] :
        /\ Fits(RecordWords(r))
        /\ \A i \in 1 .. RecordWords(r) :
              i \in {3, 4} \/ flash[Cursor + i - 1] = RecordImage(r)[i]}

\* decode_ack of the words of f at the write offset or the cursor: the numbers
\* it can return, none when the version is wrong.  It has no checksum: a word
\* that was overwritten, or was never a digit, reads as any digit.
Digits == 0 .. Radix - 1

LowDigits(cell) ==
    IF cell.kind = "ack version" THEN {cell.value} ELSE IF cell = Junk THEN Digits ELSE {}

DigitsOf(cell) ==
    IF cell = Blank THEN {Radix - 1} ELSE IF cell.kind = "digit" THEN {cell.value} ELSE Digits

AckedSequences(f) ==
    {s \in Sequence :
        /\ f[write_offset] = AckMagic
        /\ s % Radix \in LowDigits(f[write_offset + 1])
        /\ (s \div Radix) % Radix \in DigitsOf(f[write_offset + 2])
        /\ (s \div Radix) \div Radix \in DigitsOf(f[write_offset + 3])}

\* History: the words at the write offset acknowledge a record that is not
\* the oldest.
Misread(f) == \E i \in 2 .. Len(queue) : queue[i].sequence \in AckedSequences(f)

\* History: they acknowledge a record, the oldest or another one.
Acknowledges(f) == \E i \in 1 .. Len(queue) : queue[i].sequence \in AckedSequences(f)

Scanning == mode = "scan" /\ HeaderAtCursor

ScanRecord ==
    /\ Scanning
    /\ \E r \in RecordsAtCursor :
        /\ queue' = Push(queue, r)
        /\ max_seen' = Larger(max_seen, r.sequence)
        /\ write_offset' = Cursor + RecordWords(r)
    /\ UNCHANGED <<flash, mode, next_sequence, compactionVars, historyVars>>

\* Mutant of ScanAck: an acknowledgement is passed over.
ScanAckIgnored ==
    /\ Scanning
    /\ \E s \in AckedSequences(flash) : max_seen' = Larger(max_seen, s)
    /\ write_offset' = Cursor + AckWords
    /\ UNCHANGED <<flash, mode, queue, next_sequence, compactionVars, historyVars>>

ScanAck ==
    /\ Scanning
    /\ \E s \in AckedSequences(flash) :
        /\ queue' = Without(queue, s)
        /\ max_seen' = Larger(max_seen, s)
    /\ write_offset' = Cursor + AckWords
    /\ UNCHANGED <<flash, mode, next_sequence, compactionVars, historyVars>>

\* Mutant of ScanSkip: the cursor is not moved.
ScanSkipStuck ==
    /\ Scanning
    /\ flash[Cursor] \notin {RecordMagic, AckMagic}
    /\ UNCHANGED vars

\* BadMagic: look for a magic word at the next word.
ScanSkip ==
    /\ Scanning
    /\ flash[Cursor] \notin {RecordMagic, AckMagic}
    /\ write_offset' = Cursor + 1
    /\ UNCHANGED <<flash, mode, queue, next_sequence, max_seen, compactionVars, historyVars>>

\* A magic word whose entry does not decode.
Undecodable ==
    \/ flash[Cursor] = RecordMagic /\ RecordsAtCursor = {}
    \/ flash[Cursor] = AckMagic /\ flash[Cursor + 1] = Junk
    \/ flash[Cursor] = AckMagic /\ AckedSequences(flash) = {}

\* Mutant of ScanStop: the highest number found is given again.
ScanStopReusing ==
    /\ mode = "scan"
    /\ HeaderAtCursor => Undecodable
    /\ mode' = "ready"
    /\ next_sequence' = IF max_seen = -1 THEN 0 ELSE max_seen
    /\ max_seen' = -1
    /\ UNCHANGED <<flash, queue, write_offset, compactionVars, historyVars>>

\* The end of the region, of the log or of what can be read.
ScanStop ==
    /\ mode = "scan"
    /\ HeaderAtCursor => Undecodable
    /\ mode' = "ready"
    /\ next_sequence' = IF max_seen = -1 THEN 0 ELSE NextOf(max_seen)
    /\ max_seen' = -1
    /\ UNCHANGED <<flash, queue, write_offset, compactionVars, historyVars>>

Scan == ScanRecord \/ ScanAck \/ ScanSkip \/ ScanStop

-----------------------------------------------------------------------------
(* Operations of a recovered spool.                                        *)

Incoming(p) == [sequence |-> next_sequence, payload |-> p]

Appending == mode = "ready" /\ appends < MaxAppends

\* append when the entry fits behind the log
AppendEntry(p) ==
    LET r == Incoming(p) IN
    /\ Appending
    /\ Fits(RecordWords(r))
    /\ flash' = Program(write_offset, RecordImage(r), RecordWords(r))
    /\ spoiled' = (spoiled \/ Spoils(RecordWords(r)))
    /\ write_offset' = write_offset + RecordWords(r)
    /\ queue' = Push(queue, r)
    /\ next_sequence' = NextOf(next_sequence)
    /\ replay' = Logged(write_offset', queue', r.sequence)
    /\ appends' = appends + 1
    /\ UNCHANGED <<mode, max_seen, compactionVars, faults>>

\* append_with_compaction up to its call of rewrite_records
AppendCompacting(p) ==
    LET r == Incoming(p) IN
    /\ Appending
    /\ ~Fits(RecordWords(r))
    /\ mode' = "erase"
    /\ plan' = Fitting(Push(queue, r))
    /\ plan_next' = NextOf(next_sequence)
    /\ progress' = 0
    /\ appends' = appends + 1
    /\ UNCHANGED <<flash, queue, next_sequence, write_offset, max_seen, replay, spoiled, faults>>

\* acknowledge when the entry fits behind the log
AcknowledgeEntry ==
    /\ mode = "ready"
    /\ queue # <<>>
    /\ Fits(AckWords)
    /\ flash' = Program(write_offset, AckImage(Head(queue).sequence), AckWords)
    /\ spoiled' = (spoiled \/ Spoils(AckWords))
    /\ write_offset' = write_offset + AckWords
    /\ queue' = Tail(queue)
    /\ replay' = Logged(write_offset', queue', Head(queue).sequence)
    /\ UNCHANGED <<mode, next_sequence, max_seen, compactionVars, appends, faults>>

\* Mutant of AcknowledgeCompacting: the acknowledged record is written back.
AcknowledgeCompactingKept ==
    /\ mode = "ready"
    /\ queue # <<>>
    /\ ~Fits(AckWords)
    /\ mode' = "erase"
    /\ queue' = Tail(queue)
    /\ plan' = queue
    /\ plan_next' = next_sequence
    /\ progress' = 0
    /\ UNCHANGED <<flash, next_sequence, write_offset, max_seen, historyVars>>

\* acknowledge otherwise: the record leaves memory before the region is
\* rewritten without it (rewrite_pending_records)
AcknowledgeCompacting ==
    /\ mode = "ready"
    /\ queue # <<>>
    /\ ~Fits(AckWords)
    /\ mode' = "erase"
    /\ queue' = Tail(queue)
    /\ plan' = queue'
    /\ plan_next' = next_sequence
    /\ progress' = 0
    /\ UNCHANGED <<flash, next_sequence, write_offset, max_seen, historyVars>>

-----------------------------------------------------------------------------
(* rewrite_records: erase the region sector by sector, write the records.  *)

EraseSector ==
    /\ mode = "erase"
    /\ progress < RegionWords
    /\ flash' = ErasedSector
    /\ progress' = progress + SectorWords
    /\ UNCHANGED <<mode, queue, next_sequence, write_offset, max_seen, plan, plan_next, historyVars>>

\* Mutant of StartRewrite: the records go where the old log ended.
StartRewriteBehind ==
    /\ mode = "erase"
    /\ progress >= RegionWords
    /\ mode' = "rewrite"
    /\ progress' = 0
    /\ replay' = <<Nothing>>
    /\ spoiled' = FALSE
    /\ UNCHANGED <<flash, queue, next_sequence, write_offset, max_seen, plan, plan_next, appends, faults>>

StartRewrite ==
    /\ mode = "erase"
    /\ progress >= RegionWords
    /\ mode' = "rewrite"
    /\ write_offset' = 0
    /\ progress' = 0
    /\ replay' = <<Nothing>>
    /\ spoiled' = FALSE
    /\ UNCHANGED <<flash, queue, next_sequence, max_seen, plan, plan_next, appends, faults>>

NextRecord == plan[progress + 1]
NextImage == RecordImage(NextRecord)

RewriteRecord ==
    /\ mode = "rewrite"
    /\ progress < Len(plan)
    /\ Fits(Len(NextImage))
    /\ flash' = Program(write_offset, NextImage, Len(NextImage))
    /\ spoiled' = (spoiled \/ Spoils(Len(NextImage)))
    /\ write_offset' = write_offset + Len(NextImage)
    /\ progress' = progress + 1
    /\ replay' = Logged(write_offset', Push(Promise, NextRecord), NextRecord.sequence)
    /\ UNCHANGED <<mode, queue, next_sequence, max_seen, plan, plan_next, appends, faults>>

RewriteDone ==
    /\ mode = "rewrite"
    /\ progress = Len(plan)
    /\ mode' = "ready"
    /\ queue' = plan
    /\ next_sequence' = plan_next
    /\ NoPlan
    /\ UNCHANGED <<flash, write_offset, max_seen, historyVars>>

Compact == EraseSector \/ StartRewrite \/ RewriteRecord \/ RewriteDone

-----------------------------------------------------------------------------
(* Power loss, and the reset that follows it: recovery starts again with   *)
(* nothing but the flash.                                                  *)

Reset ==
    /\ mode' = "scan"
    /\ queue' = <<>>
    /\ write_offset' = 0
    /\ max_seen' = -1
    /\ NoPlan
    /\ UNCHANGED <<next_sequence, replay, appends>>

Fault(kind) ==
    /\ kind \in Faults
    /\ faults < MaxFaults
    /\ faults' = faults + 1

PowerLoss ==
    /\ Fault("idle")
    /\ mode \in {"scan", "ready"}
    /\ Reset
    /\ UNCHANGED <<flash, spoiled>>

\* The entry an append or an acknowledgement would write now.
PendingImages ==
    {RecordImage(Incoming(p)) : p \in Payloads}
        \cup (IF queue = <<>> THEN {} ELSE {AckImage(Head(queue).sequence)})

PowerLossInWrite ==
    /\ Fault("write")
    /\ mode = "ready"
    /\ \E image \in PendingImages :
        /\ Fits(Len(image))
        /\ flash' \in Torn(write_offset, image) \ {Program(write_offset, image, Len(image))}
        /\ spoiled' = (spoiled \/ Spoils(Len(image)) \/ Misread(flash'))
    /\ Reset

PowerLossInErase ==
    /\ Fault("compact")
    /\ mode = "erase"
    /\ flash' \in TornErase
    /\ spoiled' = TRUE
    /\ Reset

PowerLossInRewrite ==
    /\ Fault("compact")
    /\ mode = "rewrite"
    /\ progress < Len(plan)
    /\ Fits(Len(NextImage))
    /\ flash' \in {flash} \cup Torn(write_offset, NextImage)
    /\ spoiled' = TRUE
    /\ Reset

-----------------------------------------------------------------------------
(* Driver errors: the call returns early, the firmware keeps running.      *)

\* flash.write of append or acknowledge fails: nothing in memory changes.
\* What was programmed may read as an acknowledgement all the same.
WriteFails ==
    /\ Fault("driver")
    /\ mode = "ready"
    /\ \E image \in PendingImages :
        /\ Fits(Len(image))
        /\ flash' \in Torn(write_offset, image)
        /\ spoiled' = (spoiled \/ Spoils(Len(image)) \/ Acknowledges(flash'))
    /\ UNCHANGED <<mode, queue, next_sequence, write_offset, max_seen, compactionVars, replay, appends>>

\* flash.erase fails: write_offset still points behind the old log.
EraseFails ==
    /\ Fault("driver")
    /\ mode = "erase"
    /\ progress < RegionWords
    /\ flash' \in TornErase
    /\ spoiled' = TRUE
    /\ mode' = "ready"
    /\ NoPlan
    /\ UNCHANGED <<queue, next_sequence, write_offset, max_seen, replay, appends>>

\* flash.write of rewrite_records fails: the records not yet written back are
\* in memory only.
RewriteFails ==
    /\ Fault("driver")
    /\ mode = "rewrite"
    /\ progress < Len(plan)
    /\ Fits(Len(NextImage))
    /\ flash' \in Torn(write_offset, NextImage)
    /\ spoiled' = TRUE
    /\ mode' = "ready"
    /\ NoPlan
    /\ UNCHANGED <<queue, next_sequence, write_offset, max_seen, replay, appends>>

-----------------------------------------------------------------------------
Init ==
    /\ flash = [w \in 0 .. RegionWords - 1 |-> Blank]
    /\ mode = "scan"
    /\ queue = <<>>
    /\ next_sequence = 0
    /\ write_offset = 0
    /\ max_seen = -1
    /\ plan = <<>>
    /\ plan_next = 0
    /\ progress = 0
    /\ replay = <<Nothing>>
    /\ spoiled = FALSE
    /\ appends = 0
    /\ faults = 0

Operation ==
    \/ \E p \in Payloads : AppendEntry(p) \/ AppendCompacting(p)
    \/ AcknowledgeEntry
    \/ AcknowledgeCompacting

Failure ==
    \/ PowerLoss
    \/ PowerLossInWrite
    \/ PowerLossInErase
    \/ PowerLossInRewrite
    \/ WriteFails
    \/ EraseFails
    \/ RewriteFails

Next == Scan \/ Operation \/ Compact \/ Failure

\* Recovery and compaction are loops of the storage task without an await:
\* once begun they run on.  Nothing makes a client call append or acknowledge.
Fairness == WF_vars(Scan) /\ WF_vars(Compact)

Spec == Init /\ [][Next]_vars /\ Fairness

-----------------------------------------------------------------------------
(* Properties.                                                             *)

TypeOK ==
    /\ flash \in [0 .. RegionWords - 1 -> Cell]
    /\ mode \in {"scan", "ready", "erase", "rewrite"}
    /\ queue \in Seq(Record) /\ Len(queue) <= Capacity
    /\ next_sequence \in Sequence
    /\ write_offset \in 0 .. RegionWords
    /\ max_seen \in Sequence \cup {-1}
    /\ plan \in Seq(Record) /\ Len(plan) <= Capacity
    /\ plan_next \in Sequence
    /\ progress \in Nat
    /\ replay \in Seq([cursor : 0 .. RegionWords, queue : Seq(Record),
                       max_seen : Sequence \cup {-1}])
    /\ spoiled \in BOOLEAN
    /\ appends \in 0 .. MaxAppends
    /\ faults \in 0 .. MaxFaults

\* Whatever restarts and cut-off writes happened, the queue a recovery
\* rebuilds is the queue the clients were promised, unless an entry was
\* written where recovery cannot read it, a cut-off acknowledgement reads as
\* one of another record, one whose write failed reads as whole, or a
\* compaction was interrupted.
RecoveredExactly ==
    mode = "ready" /\ ~spoiled => queue = Promise

\* Pending records are in the order of their sequence numbers, and the next
\* number is above all of them, across restarts between calls.
SequenceOrder ==
    mode = "ready" /\ ~spoiled =>
        /\ \A i, j \in DOMAIN queue : i < j => queue[i].sequence < queue[j].sequence
        /\ \A i \in DOMAIN queue : queue[i].sequence < next_sequence

\* What a cut-off or failed write leaves behind begins at the write offset,
\* also after a restart: when the word there is erased, so is every word behind
\* it, and the next entry is not programmed over old words.
TailErased ==
    mode = "ready" /\ ~spoiled /\ write_offset < RegionWords /\ flash[write_offset] = Blank =>
        \A w \in write_offset .. RegionWords - 1 : flash[w] = Blank

\* The entry between two steps of the replay is in flash where the first one
\* ends, and reading it turns the first into the second.
RecordStep(a, b) ==
    \E r \in Record :
        /\ b.cursor = a.cursor + RecordWords(r)
        /\ b.cursor <= RegionWords
        /\ \A k \in 1 .. RecordWords(r) : flash[a.cursor + k - 1] = RecordImage(r)[k]
        /\ b.queue = Push(a.queue, r)
        /\ b.max_seen = Larger(a.max_seen, r.sequence)

AckStep(a, b) ==
    \E s \in Sequence :
        /\ b.cursor = a.cursor + AckWords
        /\ a.cursor + HeaderWords <= RegionWords
        /\ \A k \in 1 .. AckWords : flash[a.cursor + k - 1] = AckImage(s)[k]
        /\ b.queue = Without(a.queue, s)
        /\ b.max_seen = Larger(a.max_seen, s)

LogWritten ==
    /\ replay[1] = Nothing
    /\ \A i \in 1 .. Len(replay) - 1 :
          RecordStep(replay[i], replay[i + 1]) \/ AckStep(replay[i], replay[i + 1])
    /\ \A i \in 1 .. Len(replay) : replay[i].cursor <= Recovered.cursor
    /\ \A w \in Recovered.cursor .. RegionWords - 1 : flash[w] = Blank

\* While no write is cut off, the log is at every moment a sequence of whole
\* entries followed by erased words; memory agrees with its end when the spool
\* is ready, with one of its entries while recovery reads it, and with the part
\* written back during a compaction.
LogReplays ==
    /\ mode # "erase" /\ ~spoiled => LogWritten
    /\ mode = "ready" /\ ~spoiled =>
          write_offset = Recovered.cursor /\ queue = Promise
    /\ mode = "scan" /\ ~spoiled =>
          \E j \in 1 .. Len(replay) :
              /\ write_offset = replay[j].cursor
              /\ queue = replay[j].queue
              /\ max_seen = replay[j].max_seen
    /\ mode = "erase" => \A w \in 0 .. RegionWords - 1 : w < progress => flash[w] = Blank
    /\ mode = "rewrite" /\ ~spoiled =>
          /\ write_offset = Recovered.cursor
          /\ Promise = SubSeq(plan, 1, progress)
          /\ progress <= Len(plan)

\* While the firmware runs, whatever fails, records enter the queue only at its
\* end, with the next sequence number, and leave it only from its front.
OnlyOldestLeave ==
    [][mode # "scan" /\ mode' # "scan" =>
        \E k \in 1 .. Len(queue) + 1 :
            \/ queue' = From(queue, k)
            \/ \E p \in Payloads : queue' = From(queue, k) \o <<Incoming(p)>>]_vars

\* A sequence number, once given to a record, is never given again
\* (docs/10-firmware/00-architecture.md: "`sequence` is monotonic").
SequenceMonotonic == [][next_sequence' >= next_sequence]_vars

\* Nothing is lost by a restart or a cut-off write.
Durable == mode = "ready" => queue = Promise

\* Every recovery and every compaction ends: an interrupted write never leaves
\* a region on which recovery runs forever.
EventuallyReady == mode # "ready" ~> mode = "ready"

\* The spool implements the log its clients see.
Fifo == INSTANCE SpoolFifo WITH
    queue <- (IF mode = "scan" THEN Promise ELSE queue),
    next <- next_sequence
ImplementsFifo == Fifo!Spec
=============================================================================
