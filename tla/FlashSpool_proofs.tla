------------------------- MODULE FlashSpool_proofs -------------------------
(***************************************************************************)
(* Theorems about FlashSpool, for every capacity, region and payload set.  *)
(*                                                                         *)
(* The second part proves that the log replays to the promised queue, and  *)
(* that the region behind it is erased, when power may be lost at any time *)
(* but inside the programming of one entry, and the driver does not fail   *)
(* in one.  Its inductive invariant is LogReplays: the flash holds an      *)
(* entry for each step of the replay, and memory agrees with one of them.  *)
(*                                                                         *)
(* The third part proves that the numbers of the pending records ascend,   *)
(* when power may be lost between calls.                                   *)
(*                                                                         *)
(* The fourth part proves that recovery rebuilds exactly the promised      *)
(* queue whatever fails, cut-off writes and driver errors included.  Its   *)
(* inductive invariant is TornInv: the words recovery reads are a log that *)
(* is longer than the replay and leaves the same queue.                    *)
(*                                                                         *)
(* The last part proves that the spool implements SpoolFifo, the log its   *)
(* clients see, as long as the log is not spoiled and the numbers ascend.  *)
(***************************************************************************)
EXTENDS FlashSpool, SpoolRecords_proofs

-----------------------------------------------------------------------------
(* Words and images.                                                       *)

\* What the words are told apart by.
LEMMA WordKinds ==
    /\ Blank.kind = "ones" /\ Junk.kind = "junk"
    /\ RecordMagic.kind = "record magic" /\ AckMagic.kind = "ack magic"
BY DEF Blank, Junk, RecordMagic, AckMagic, Word

\* A record is encoded on record_words cells of the region.
LEMMA RecordImageType ==
    ASSUME NEW r \in Record
    PROVE  /\ RecordImage(r) \in Seq(Cell)
           /\ Len(RecordImage(r)) = RecordWords(r)
           /\ DOMAIN RecordImage(r) = 1 .. RecordWords(r)
<1>1. RecordWords(r) \in Nat
  BY RecordWordsType
<1>2. DOMAIN RecordImage(r) = 1 .. RecordWords(r)
  BY DEF RecordImage
<1>3. \A i \in 1 .. RecordWords(r) : RecordImage(r)[i] \in Cell
  <2>1. RecordImage(r) \in Images
    BY DEF Images
  <2>2. Range(RecordImage(r)) \in {Range(image) : image \in Images}
    BY <2>1
  <2>3. \A i \in 1 .. RecordWords(r) : RecordImage(r)[i] \in Range(RecordImage(r))
    BY <1>2 DEF Range
  <2>. QED
    BY <2>2, <2>3 DEF Cell
<1>4. RecordImage(r) \in [1 .. RecordWords(r) -> Cell]
  <2>1. RecordImage(r) = [i \in 1 .. RecordWords(r) |-> RecordImage(r)[i]]
    BY DEF RecordImage
  <2>. QED
    BY <2>1, <1>3
<1>5. RecordImage(r) \in Seq(Cell)
  BY <1>1, <1>4, SeqDef
<1>. QED
  BY <1>1, <1>2, <1>5, LenProperties

\* An acknowledgement is encoded on four cells of the region.
LEMMA AckImageType ==
    ASSUME NEW s \in Sequence
    PROVE  /\ AckImage(s) \in Seq(Cell)
           /\ Len(AckImage(s)) = AckWords
           /\ DOMAIN AckImage(s) = 1 .. AckWords
<1>1. AckWords \in Nat
  BY DEF AckWords
<1>2. DOMAIN AckImage(s) = 1 .. AckWords
  BY DEF AckImage
<1>3. \A i \in 1 .. AckWords : AckImage(s)[i] \in Cell
  <2>1. AckImage(s) \in Images
    BY DEF Images
  <2>2. Range(AckImage(s)) \in {Range(image) : image \in Images}
    BY <2>1
  <2>3. \A i \in 1 .. AckWords : AckImage(s)[i] \in Range(AckImage(s))
    BY <1>2 DEF Range
  <2>. QED
    BY <2>2, <2>3 DEF Cell
<1>4. AckImage(s) \in [1 .. AckWords -> Cell]
  <2>1. AckImage(s) = [i \in 1 .. AckWords |-> AckImage(s)[i]]
    BY DEF AckImage
  <2>. QED
    BY <2>1, <1>3
<1>5. AckImage(s) \in Seq(Cell)
  BY <1>1, <1>4, SeqDef
<1>. QED
  BY <1>1, <1>2, <1>5, LenProperties

Region == 0 .. RegionWords - 1

\* Programming words of the region leaves words of the region, whole or cut
\* short.
LEMMA ProgramType ==
    ASSUME flash \in [Region -> Cell], NEW image \in Seq(Cell), NEW at \in Nat,
           NEW n \in Nat, n <= Len(image)
    PROVE  Program(at, image, n) \in [Region -> Cell]
<1>1. ASSUME NEW w \in Region
      PROVE  (IF w \in at .. at + n - 1
                THEN Overlay(flash[w], image[w - at + 1]) ELSE flash[w]) \in Cell
  <2>1. CASE w \in at .. at + n - 1
    <3>1. w - at + 1 \in 1 .. Len(image)
      BY <2>1, SpoolAssumption DEF Region
    <3>2. image[w - at + 1] \in Cell
      BY <3>1
    <3>3. Junk \in Cell
      BY DEF Cell
    <3>. QED
      BY <2>1, <3>2, <3>3 DEF Overlay
  <2>2. CASE w \notin at .. at + n - 1
    BY <2>2
  <2>. QED
    BY <2>1, <2>2
<1>2. DOMAIN flash = Region
  OBVIOUS
<1>. QED
  BY <1>1, <1>2 DEF Program

LEMMA TornType ==
    ASSUME flash \in [Region -> Cell], NEW image \in Seq(Cell), NEW at \in Nat
    PROVE  Torn(at, image) \subseteq [Region -> Cell]
<1>1. ASSUME NEW n \in 1 .. Len(image) - 1
      PROVE  Program(at, image, n) \in [Region -> Cell]
  BY ProgramType
<1>2. [flash EXCEPT ![at] = Junk] \in [Region -> Cell]
  BY DEF Cell
<1>. QED
  BY <1>1, <1>2 DEF Torn

-----------------------------------------------------------------------------
(* Type correctness, whatever faults happen.                               *)

Entry == [cursor : 0 .. RegionWords, queue : Seq(Record), max_seen : Sequence \cup {-1}]

TypeInv == TypeOK /\ replay # <<>>

\* The history of the log, and the queue it promises, stay typed.
LEMMA LoggedType ==
    ASSUME replay \in Seq(Entry), replay # <<>>,
           NEW c \in 0 .. RegionWords, NEW q \in Seq(Record), NEW s \in Sequence
    PROVE  /\ Logged(c, q, s) \in Seq(Entry)
           /\ Logged(c, q, s) # <<>>
<1>1. Recovered \in Entry
  BY DEF Recovered
<1>2. Larger(Recovered.max_seen, s) \in Sequence \cup {-1}
  BY <1>1 DEF Entry, Larger
<1>3. [cursor |-> c, queue |-> q, max_seen |-> Larger(Recovered.max_seen, s)] \in Entry
  BY <1>2 DEF Entry
<1>. QED
  BY <1>3 DEF Logged

\* DropOldestQueue::push on a queue of any length.
LEMMA PushType ==
    ASSUME NEW q \in Seq(Record), NEW r \in Record
    PROVE  Push(q, r) \in Seq(Record)
<1>1. CASE Len(q) < Capacity
  BY <1>1 DEF Push
<1>2. CASE ~(Len(q) < Capacity)
  <2>1. q # <<>>
    BY <1>2, SpoolAssumption
  <2>. QED
    BY <1>2, <2>1 DEF Push
<1>. QED
  BY <1>1, <1>2

LEMMA TypeInit == Init => TypeInv
<1>. SUFFICES ASSUME Init PROVE TypeInv
  OBVIOUS
<1>1. flash \in [0 .. RegionWords - 1 -> Cell]
  BY DEF Init, Cell
<1>2. Nothing \in [cursor : 0 .. RegionWords, queue : Seq(Record), max_seen : Sequence \cup {-1}]
  BY SpoolAssumption DEF Nothing
<1>3. <<Nothing>> \in Seq([cursor : 0 .. RegionWords, queue : Seq(Record), max_seen : Sequence \cup {-1}])
  BY <1>2
<1>4. <<>> \in Seq(Record) /\ Len(<<>>) <= Capacity
  BY SpoolAssumption
<1>5. 0 \in 0 .. RegionWords /\ 0 \in 0 .. MaxAppends /\ 0 \in 0 .. MaxFaults
  BY SpoolAssumption, FlashAssumption
<1>6. TypeOK
  BY <1>1, <1>3, <1>4, <1>5, SequenceType DEF Init, TypeOK
<1>. QED
  BY <1>6 DEF Init, TypeInv

\* A reset, and a plan given up, leave typed values.
LEMMA ResetType ==
    ASSUME TypeInv, Reset, flash' \in [Region -> Cell], spoiled' \in BOOLEAN,
           faults' \in 0 .. MaxFaults
    PROVE  TypeInv'
BY SequenceType, SpoolAssumption DEF Reset, NoPlan, TypeInv, TypeOK, Region

\* A record that recovery decodes is one, and begins with its magic word.
LEMMA ReadTyped ==
    ASSUME TypeInv, NEW r \in RecordsAtCursor
    PROVE  r \in Record /\ Fits(RecordWords(r)) /\ flash[Cursor] = RecordMagic
<1>1. NumbersAtCursor \subseteq Sequence
  BY DEF NumbersAtCursor
<1>2. r \in Record
  BY <1>1 DEF RecordsAtCursor, Record
<1>3. /\ Fits(RecordWords(r))
      /\ \A i \in 1 .. RecordWords(r) : i \in {3, 4} \/ flash[Cursor + i - 1] = RecordImage(r)[i]
  BY DEF RecordsAtCursor
<1>4. 1 \in 1 .. RecordWords(r) /\ RecordImage(r)[1] = RecordMagic
  BY <1>2, RecordWordsType DEF RecordImage, HeaderWords
<1>5. Cursor \in Nat
  BY SpoolAssumption DEF TypeInv, TypeOK, Cursor
<1>6. Cursor + 1 - 1 = Cursor
  BY <1>5
<1>7. flash[Cursor + 1 - 1] = RecordImage(r)[1]
  BY <1>3, <1>4
<1>. QED
  BY <1>2, <1>3, <1>4, <1>6, <1>7

LEMMA ScanType == TypeInv /\ Scan => TypeInv'
<1>. SUFFICES ASSUME TypeInv, Scan PROVE TypeInv'
  OBVIOUS
<1>. USE DEF TypeInv, TypeOK
<1>1. CASE ScanRecord
  <2>1. PICK r \in RecordsAtCursor :
            /\ queue' = Push(queue, r)
            /\ max_seen' = Larger(max_seen, r.sequence)
            /\ write_offset' = Cursor + RecordWords(r)
    BY <1>1 DEF ScanRecord
  <2>2. r \in Record /\ Fits(RecordWords(r)) /\ RecordWords(r) \in Nat
    BY <2>1, ReadTyped, RecordWordsType
  <2>3. write_offset' \in 0 .. RegionWords
    BY <2>1, <2>2 DEF Fits, Cursor
  <2>4. queue' \in Seq(Record) /\ Len(queue') <= Capacity
    BY <2>1, <2>2, PushProperties, SpoolAssumption
  <2>5. r.sequence \in Sequence
    BY <2>2 DEF Record
  <2>6. max_seen' \in Sequence \cup {-1}
    BY <2>1, <2>5 DEF Larger
  <2>. QED
    BY <1>1, <2>3, <2>4, <2>6 DEF ScanRecord, compactionVars, historyVars
<1>2. CASE ScanAck
  <2>1. Fits(HeaderWords)
    BY <1>2 DEF ScanAck, Scanning, HeaderAtCursor
  <2>2. PICK s \in AckedSequences(flash) :
            queue' = Without(queue, s) /\ max_seen' = Larger(max_seen, s)
    BY <1>2 DEF ScanAck
  <2>3. s \in Sequence
    BY <2>2 DEF AckedSequences
  <2>4. write_offset' \in 0 .. RegionWords
    BY <1>2, <2>1, SpoolAssumption DEF ScanAck, Fits, Cursor, AckWords, HeaderWords
  <2>5. queue' \in Seq(Record) /\ Len(queue') <= Capacity
    BY <2>2, <2>3, WithoutProperties, SpoolAssumption
  <2>6. max_seen' \in Sequence \cup {-1}
    BY <2>2, <2>3 DEF Larger
  <2>. QED
    BY <1>2, <2>4, <2>5, <2>6 DEF ScanAck, compactionVars, historyVars
<1>3. CASE ScanSkip
  <2>1. write_offset' \in 0 .. RegionWords
    BY <1>3, SpoolAssumption DEF ScanSkip, Scanning, HeaderAtCursor, Fits, Cursor
  <2>. QED
    BY <1>3, <2>1 DEF ScanSkip, compactionVars, historyVars
<1>4. CASE ScanStop
  <2>1. next_sequence' \in Sequence
    BY <1>4, SequenceType DEF ScanStop
  <2>. QED
    BY <1>4, <2>1 DEF ScanStop, compactionVars, historyVars
<1>. QED
  BY <1>1, <1>2, <1>3, <1>4 DEF Scan

LEMMA IncomingType ==
    ASSUME TypeInv, NEW p \in Payloads
    PROVE  /\ Incoming(p) \in Record
           /\ Incoming(p).sequence \in Sequence
BY DEF TypeInv, TypeOK, Incoming, Record

LEMMA OperationType == TypeInv /\ Operation => TypeInv'
<1>. SUFFICES ASSUME TypeInv, Operation PROVE TypeInv'
  OBVIOUS
<1>. USE DEF TypeInv, TypeOK
<1>1. ASSUME NEW p \in Payloads, AppendEntry(p)  PROVE TypeInv'
  <2>. DEFINE r == Incoming(p)
  <2>1. r \in Record /\ r.sequence \in Sequence
    BY IncomingType
  <2>2. RecordWords(r) \in Nat /\ Fits(RecordWords(r))
    BY <1>1, <2>1, RecordWordsType DEF AppendEntry
  <2>3. flash' \in [Region -> Cell]
    <3>1. flash' = Program(write_offset, RecordImage(r), RecordWords(r))
      BY <1>1 DEF AppendEntry
    <3>2. RecordImage(r) \in Seq(Cell) /\ Len(RecordImage(r)) = RecordWords(r)
      BY <2>1, RecordImageType
    <3>3. flash \in [Region -> Cell] /\ write_offset \in Nat
      BY SpoolAssumption DEF Region
    <3>. HIDE DEF r, TypeInv, TypeOK
    <3>. QED
      BY <3>1, <3>2, <3>3, <2>2, ProgramType
  <2>4. write_offset' \in 0 .. RegionWords
    BY <1>1, <2>2, SpoolAssumption DEF AppendEntry, Fits
  <2>5. queue' \in Seq(Record) /\ Len(queue') <= Capacity
    BY <1>1, <2>1, PushProperties, SpoolAssumption DEF AppendEntry
  <2>6. replay' \in Seq(Entry) /\ replay' # <<>>
    BY <1>1, <2>1, <2>4, <2>5, LoggedType DEF AppendEntry, Entry
  <2>7. next_sequence' \in Sequence
    BY <1>1, SequenceType DEF AppendEntry
  <2>8. appends' \in 0 .. MaxAppends
    BY <1>1, FlashAssumption DEF AppendEntry, Appending
  <2>9. spoiled' \in BOOLEAN
    BY <1>1 DEF AppendEntry, Spoils, Erased, Fits
  <2>. HIDE DEF r
  <2>. QED
    BY <1>1, <2>3, <2>4, <2>5, <2>6, <2>7, <2>8, <2>9
    DEF AppendEntry, compactionVars, Region, Entry
<1>2. ASSUME NEW p \in Payloads, AppendCompacting(p)  PROVE TypeInv'
  <2>. DEFINE q == Push(queue, Incoming(p))
  <2>1. q \in Seq(Record) /\ Len(q) \in 1 .. Capacity
    BY IncomingType, PushProperties
  <2>2. plan' \in Seq(Record) /\ Len(plan') <= Capacity
    <3>1. q # <<>>
      BY <2>1
    <3>2. plan' = Fitting(q)
      BY <1>2 DEF AppendCompacting
    <3>. HIDE DEF q
    <3>. QED
      BY <2>1, <3>1, <3>2, FittingProperties, SpoolAssumption
  <2>3. plan_next' \in Sequence
    BY <1>2, SequenceType DEF AppendCompacting
  <2>4. appends' \in 0 .. MaxAppends
    BY <1>2, FlashAssumption DEF AppendCompacting, Appending
  <2>. QED
    BY <1>2, <2>2, <2>3, <2>4 DEF AppendCompacting
<1>3. CASE AcknowledgeEntry
  <2>. DEFINE s == Head(queue).sequence
  <2>1. queue # <<>> /\ Head(queue) \in Record
    BY <1>3 DEF AcknowledgeEntry
  <2>2. s \in Sequence
    BY <2>1 DEF Record
  <2>3. flash' \in [Region -> Cell]
    <3>1. flash' = Program(write_offset, AckImage(s), AckWords)
      BY <1>3 DEF AcknowledgeEntry
    <3>2. AckImage(s) \in Seq(Cell) /\ Len(AckImage(s)) = AckWords
      BY <2>2, AckImageType
    <3>3. flash \in [Region -> Cell] /\ write_offset \in Nat /\ AckWords \in Nat
      BY SpoolAssumption DEF Region, AckWords
    <3>. HIDE DEF s, TypeInv, TypeOK
    <3>. QED
      BY <3>1, <3>2, <3>3, ProgramType
  <2>4. write_offset' \in 0 .. RegionWords
    BY <1>3, SpoolAssumption DEF AcknowledgeEntry, Fits, AckWords
  <2>5. queue' \in Seq(Record) /\ Len(queue') <= Capacity
    BY <1>3, <2>1, SpoolAssumption DEF AcknowledgeEntry
  <2>6. replay' \in Seq(Entry) /\ replay' # <<>>
    BY <1>3, <2>2, <2>4, <2>5, LoggedType DEF AcknowledgeEntry, Entry
  <2>7. spoiled' \in BOOLEAN
    BY <1>3 DEF AcknowledgeEntry, Spoils, Erased, Fits
  <2>. HIDE DEF s
  <2>. QED
    BY <1>3, <2>3, <2>4, <2>5, <2>6, <2>7
    DEF AcknowledgeEntry, compactionVars, Region, Entry
<1>4. CASE AcknowledgeCompacting
  <2>1. queue' \in Seq(Record) /\ Len(queue') <= Capacity
    BY <1>4, SpoolAssumption DEF AcknowledgeCompacting
  <2>. QED
    BY <1>4, <2>1 DEF AcknowledgeCompacting, historyVars
<1>. QED
  BY <1>1, <1>2, <1>3, <1>4 DEF Operation

\* The record a compaction writes next.
LEMMA NextRecordType ==
    ASSUME TypeInv, progress < Len(plan)
    PROVE  /\ NextRecord \in Record
           /\ NextRecord.sequence \in Sequence
           /\ NextImage \in Seq(Cell)
           /\ Len(NextImage) = RecordWords(NextRecord)
           /\ RecordWords(NextRecord) \in Nat
<1>1. progress + 1 \in 1 .. Len(plan)
  BY DEF TypeInv, TypeOK
<1>2. NextRecord \in Record
  BY <1>1 DEF TypeInv, TypeOK, NextRecord
<1>3. NextRecord.sequence \in Sequence
  BY <1>2 DEF Record
<1>. QED
  BY <1>2, <1>3, RecordImageType, RecordWordsType DEF NextImage

LEMMA CompactType == TypeInv /\ Compact => TypeInv'
<1>. SUFFICES ASSUME TypeInv, Compact PROVE TypeInv'
  OBVIOUS
<1>1. CASE EraseSector
  <2>1. flash' \in [Region -> Cell]
    BY <1>1 DEF EraseSector, ErasedSector, TypeInv, TypeOK, Region, Cell
  <2>2. progress' \in Nat
    BY <1>1, FlashAssumption DEF EraseSector, TypeInv, TypeOK
  <2>. QED
    BY <1>1, <2>1, <2>2 DEF EraseSector, historyVars, TypeInv, TypeOK, Region
<1>2. CASE StartRewrite
  <2>1. Nothing \in Entry
    BY SpoolAssumption DEF Nothing, Entry
  <2>2. replay' \in Seq(Entry) /\ replay' # <<>>
    BY <1>2, <2>1 DEF StartRewrite
  <2>3. 0 \in 0 .. RegionWords /\ 0 \in Nat /\ FALSE \in BOOLEAN
    BY SpoolAssumption
  <2>4. /\ mode' = "rewrite" /\ write_offset' = 0 /\ progress' = 0 /\ spoiled' = FALSE
        /\ UNCHANGED <<flash, queue, next_sequence, max_seen, plan, plan_next, appends, faults>>
    BY <1>2 DEF StartRewrite
  <2>. QED
    BY <2>2, <2>3, <2>4 DEF TypeInv, TypeOK, Entry
<1>3. CASE RewriteRecord
  <2>. DEFINE r == NextRecord
  <2>1. /\ r \in Record /\ r.sequence \in Sequence
        /\ NextImage \in Seq(Cell)
        /\ Len(NextImage) = RecordWords(r) /\ RecordWords(r) \in Nat
    BY <1>3, NextRecordType DEF RewriteRecord
  <2>2. flash \in [Region -> Cell] /\ write_offset \in Nat
    BY SpoolAssumption DEF TypeInv, TypeOK, Region
  <2>3. flash' = Program(write_offset, NextImage, Len(NextImage)) /\ Fits(Len(NextImage))
    BY <1>3 DEF RewriteRecord
  <2>4. flash' \in [Region -> Cell]
    BY <2>1, <2>2, <2>3, ProgramType
  <2>5. write_offset' \in 0 .. RegionWords
    BY <1>3, <2>1, <2>2, <2>3, SpoolAssumption DEF RewriteRecord, Fits
  <2>6. Push(Promise, r) \in Seq(Record)
    <3>1. Recovered \in Entry
      <4>1. replay \in Seq(Entry) /\ replay # <<>>
        BY DEF TypeInv, TypeOK, Entry
      <4>. QED
        BY <4>1 DEF Recovered
    <3>2. Promise \in Seq(Record)
      BY <3>1 DEF Promise, Entry
    <3>. QED
      BY <2>1, <3>2, PushType
  <2>7. replay \in Seq(Entry) /\ replay # <<>>
    BY DEF TypeInv, TypeOK, Entry
  <2>8. replay' \in Seq(Entry) /\ replay' # <<>>
    <3>1. replay' = Logged(write_offset', Push(Promise, r), r.sequence)
      BY <1>3 DEF RewriteRecord
    <3>. HIDE DEF r
    <3>. QED
      BY <2>1, <2>5, <2>6, <2>7, <3>1, LoggedType
  <2>9. progress' \in Nat /\ spoiled' \in BOOLEAN
    BY <1>3 DEF RewriteRecord, TypeInv, TypeOK, Spoils, Erased, Fits
  <2>. QED
    BY <1>3, <2>4, <2>5, <2>8, <2>9 DEF RewriteRecord, TypeInv, TypeOK, Region, Entry
<1>4. CASE RewriteDone
  BY <1>4, SequenceType, SpoolAssumption DEF RewriteDone, NoPlan, historyVars, TypeInv, TypeOK
<1>. QED
  BY <1>1, <1>2, <1>3, <1>4 DEF Compact

\* The images of pending writes fit their words.
LEMMA PendingImagesType ==
    ASSUME TypeInv, NEW image \in PendingImages
    PROVE  image \in Seq(Cell)
<1>1. CASE \E p \in Payloads : image = RecordImage(Incoming(p))
  BY <1>1, IncomingType, RecordImageType
<1>2. CASE queue # <<>> /\ image = AckImage(Head(queue).sequence)
  <2>1. Head(queue).sequence \in Sequence
    <3>1. Head(queue) \in Record
      BY <1>2 DEF TypeInv, TypeOK
    <3>. QED
      BY <3>1 DEF Record
  <2>. QED
    BY <1>2, <2>1, AckImageType
<1>. QED
  BY <1>1, <1>2 DEF PendingImages

\* A write cut short leaves words of the region.
LEMMA TornRegion ==
    ASSUME TypeInv, NEW image \in Seq(Cell)
    PROVE  Torn(write_offset, image) \subseteq [Region -> Cell]
<1>1. flash \in [Region -> Cell] /\ write_offset \in Nat
  BY SpoolAssumption DEF TypeInv, TypeOK, Region
<1>. QED
  BY <1>1, TornType

LEMMA TornEraseType ==
    ASSUME TypeInv
    PROVE  TornErase \subseteq [Region -> Cell]
BY DEF TornErase, TypeInv, TypeOK, Region, Cell

LEMMA FailureType == TypeInv /\ Failure => TypeInv'
<1>. SUFFICES ASSUME TypeInv, Failure PROVE TypeInv'
  OBVIOUS
<1>1. ASSUME NEW kind, Fault(kind)  PROVE faults' \in 0 .. MaxFaults
  BY <1>1, FlashAssumption DEF Fault, TypeInv, TypeOK
<1>2. flash \in [Region -> Cell] /\ spoiled \in BOOLEAN
  BY DEF TypeInv, TypeOK, Region
<1>3. CASE PowerLoss
  BY <1>1, <1>2, <1>3, ResetType DEF PowerLoss
<1>4. CASE PowerLossInWrite
  <2>1. PICK image \in PendingImages :
            /\ flash' \in Torn(write_offset, image)
            /\ spoiled' = (spoiled \/ Spoils(Len(image)) \/ Misread(flash'))
    BY <1>4 DEF PowerLossInWrite
  <2>2. flash' \in [Region -> Cell]
    BY <2>1, PendingImagesType, TornRegion
  <2>3. spoiled' \in BOOLEAN
    BY <2>1, <1>2 DEF Spoils, Misread, Erased, Fits
  <2>. QED
    BY <1>1, <1>4, <2>2, <2>3, ResetType DEF PowerLossInWrite
<1>5. CASE PowerLossInErase
  <2>1. flash' \in [Region -> Cell] /\ spoiled' \in BOOLEAN
    BY <1>5, TornEraseType DEF PowerLossInErase
  <2>. QED
    BY <1>1, <1>5, <2>1, ResetType DEF PowerLossInErase
<1>6. CASE PowerLossInRewrite
  <2>1. NextImage \in Seq(Cell)
    BY <1>6, NextRecordType DEF PowerLossInRewrite
  <2>2. flash' \in [Region -> Cell] /\ spoiled' \in BOOLEAN
    BY <1>2, <1>6, <2>1, TornRegion DEF PowerLossInRewrite
  <2>. QED
    BY <1>1, <1>6, <2>2, ResetType DEF PowerLossInRewrite
<1>7. CASE WriteFails
  <2>1. PICK image \in PendingImages :
            /\ flash' \in Torn(write_offset, image)
            /\ spoiled' = (spoiled \/ Spoils(Len(image)) \/ Acknowledges(flash'))
    BY <1>7 DEF WriteFails
  <2>2. flash' \in [Region -> Cell]
    BY <2>1, PendingImagesType, TornRegion
  <2>3. spoiled' \in BOOLEAN
    BY <2>1, <1>2 DEF Spoils, Erased, Fits, Acknowledges
  <2>4. faults' \in 0 .. MaxFaults
    BY <1>1, <1>7 DEF WriteFails
  <2>. QED
    BY <1>7, <2>2, <2>3, <2>4 DEF WriteFails, compactionVars, TypeInv, TypeOK, Region
<1>8. CASE EraseFails
  <2>1. flash' \in [Region -> Cell] /\ spoiled' \in BOOLEAN
    BY <1>8, TornEraseType DEF EraseFails
  <2>2. faults' \in 0 .. MaxFaults
    BY <1>1, <1>8 DEF EraseFails
  <2>. QED
    BY <1>8, <2>1, <2>2, SequenceType, SpoolAssumption
    DEF EraseFails, NoPlan, TypeInv, TypeOK, Region
<1>9. CASE RewriteFails
  <2>1. NextImage \in Seq(Cell)
    BY <1>9, NextRecordType DEF RewriteFails
  <2>2. flash' \in [Region -> Cell] /\ spoiled' \in BOOLEAN
    BY <1>2, <1>9, <2>1, TornRegion DEF RewriteFails
  <2>3. faults' \in 0 .. MaxFaults
    BY <1>1, <1>9 DEF RewriteFails
  <2>. QED
    BY <1>9, <2>2, <2>3, SequenceType, SpoolAssumption
    DEF RewriteFails, NoPlan, TypeInv, TypeOK, Region
<1>. QED
  BY <1>3, <1>4, <1>5, <1>6, <1>7, <1>8, <1>9 DEF Failure

LEMMA TypeStep == TypeInv /\ [Next]_vars => TypeInv'
<1>1. TypeInv /\ UNCHANGED vars => TypeInv'
  BY DEF vars, flashVars, compactionVars, historyVars, TypeInv, TypeOK
<1>. QED
  BY <1>1, ScanType, OperationType, CompactType, FailureType DEF Next

\* Whatever power losses and driver errors happen, the state of the spool has
\* its type: the queue never exceeds the capacity and the write offset never
\* leaves the region (FlashBackedSpool).
THEOREM TypeCorrect == Spec => []TypeOK
<1>1. Spec => []TypeInv
  BY TypeInit, TypeStep, PTL DEF Spec
<1>2. TypeInv => TypeOK
  BY DEF TypeInv
<1>. QED
  BY <1>1, <1>2, PTL

-----------------------------------------------------------------------------
(* Order: records leave from the front only.                               *)

\* What a compaction will install is what an acknowledgement left, or the
\* queue with a new record behind and perhaps older ones gone.
PlanFollows ==
    mode \in {"erase", "rewrite"} =>
        \/ plan = queue
        \/ \E k \in 1 .. Len(queue) + 1 :
              \E p \in Payloads : plan = From(queue, k) \o <<Incoming(p)>>

KeepsOrder ==
    \E k \in 1 .. Len(queue) + 1 :
        \/ queue' = From(queue, k)
        \/ \E p \in Payloads : queue' = From(queue, k) \o <<Incoming(p)>>

\* The queue stays as it is.
LEMMA OrderIdle ==
    ASSUME TypeInv, queue' = queue
    PROVE  KeepsOrder
<1>1. 1 \in 1 .. Len(queue) + 1 /\ From(queue, 1) = queue
  BY FromEnds DEF TypeInv, TypeOK
<1>. QED
  BY <1>1 DEF KeepsOrder

\* The oldest record is acknowledged.
LEMMA OrderAcknowledge ==
    ASSUME TypeInv, queue # <<>>, queue' = Tail(queue)
    PROVE  KeepsOrder
<1>1. 2 \in 1 .. Len(queue) + 1 /\ From(queue, 2) = Tail(queue)
  BY FromEnds DEF TypeInv, TypeOK
<1>. QED
  BY <1>1 DEF KeepsOrder

\* A step that leaves the queue, the plan and the numbering alone.
LEMMA PlanKept ==
    ASSUME PlanFollows, UNCHANGED <<queue, plan, next_sequence>>,
           mode' \in {"erase", "rewrite"} => mode \in {"erase", "rewrite"}
    PROVE  PlanFollows'
BY DEF PlanFollows, Incoming

LEMMA OrderOperation ==
    ASSUME TypeInv, Operation
    PROVE  KeepsOrder /\ PlanFollows'
<1>1. queue \in Seq(Record) /\ Len(queue) <= Capacity /\ mode = "ready"
  BY DEF TypeInv, TypeOK, Operation, AppendEntry, AppendCompacting, Appending, AcknowledgeEntry,
         AcknowledgeCompacting
<1>2. ASSUME NEW p \in Payloads, AppendEntry(p)
      PROVE  KeepsOrder /\ PlanFollows'
  <2>1. PICK k \in 1 .. Len(queue) + 1 : Push(queue, Incoming(p)) = From(queue, k) \o <<Incoming(p)>>
    BY <1>1, IncomingType, PushKeeps
  <2>2. queue' = Push(queue, Incoming(p)) /\ mode' = "ready"
    BY <1>1, <1>2 DEF AppendEntry
  <2>. QED
    BY <2>1, <2>2 DEF KeepsOrder, PlanFollows
<1>3. ASSUME NEW p \in Payloads, AppendCompacting(p)
      PROVE  KeepsOrder /\ PlanFollows'
  <2>1. PICK k \in 1 .. Len(queue) + 1 :
            Fitting(Push(queue, Incoming(p))) = From(queue, k) \o <<Incoming(p)>>
    BY <1>1, IncomingType, FittingKeeps
  <2>2. plan' = From(queue, k) \o <<Incoming(p)>> /\ queue' = queue /\ next_sequence' = next_sequence
    BY <1>3, <2>1 DEF AppendCompacting
  <2>3. Incoming(p)' = Incoming(p)
    BY <2>2 DEF Incoming
  <2>. QED
    BY <2>2, <2>3, OrderIdle DEF PlanFollows
<1>4. CASE AcknowledgeEntry
  <2>1. queue # <<>> /\ queue' = Tail(queue) /\ mode' = "ready"
    BY <1>1, <1>4 DEF AcknowledgeEntry
  <2>. QED
    BY <2>1, OrderAcknowledge DEF PlanFollows
<1>5. CASE AcknowledgeCompacting
  <2>1. queue # <<>> /\ queue' = Tail(queue) /\ plan' = queue'
    BY <1>5 DEF AcknowledgeCompacting
  <2>. QED
    BY <2>1, OrderAcknowledge DEF PlanFollows
<1>. QED
  BY <1>2, <1>3, <1>4, <1>5 DEF Operation

LEMMA OrderCompact ==
    ASSUME TypeInv, PlanFollows, Compact
    PROVE  KeepsOrder /\ PlanFollows'
<1>1. CASE EraseSector \/ StartRewrite \/ RewriteRecord
  <2>1. UNCHANGED <<queue, plan, next_sequence>> /\ mode \in {"erase", "rewrite"}
    BY <1>1 DEF EraseSector, StartRewrite, RewriteRecord
  <2>. QED
    BY <2>1, OrderIdle, PlanKept
<1>2. CASE RewriteDone
  <2>1. queue' = plan /\ mode = "rewrite" /\ mode' = "ready"
    BY <1>2 DEF RewriteDone
  <2>2. CASE plan = queue
    BY <2>1, <2>2, OrderIdle DEF PlanFollows
  <2>3. CASE plan # queue
    BY <2>1, <2>3 DEF PlanFollows, KeepsOrder
  <2>. QED
    BY <2>2, <2>3
<1>. QED
  BY <1>1, <1>2 DEF Compact

LEMMA OrderFailure ==
    ASSUME TypeInv, PlanFollows, Failure
    PROVE  (mode' # "scan" => KeepsOrder) /\ PlanFollows'
<1>1. CASE PowerLoss \/ PowerLossInWrite \/ PowerLossInErase \/ PowerLossInRewrite
  <2>1. mode' = "scan"
    BY <1>1 DEF PowerLoss, PowerLossInWrite, PowerLossInErase, PowerLossInRewrite, Reset
  <2>. QED
    BY <2>1 DEF PlanFollows
<1>2. CASE WriteFails \/ EraseFails \/ RewriteFails
  <2>1. queue' = queue /\ mode' = "ready"
    BY <1>2 DEF WriteFails, EraseFails, RewriteFails
  <2>. QED
    BY <2>1, OrderIdle DEF PlanFollows
<1>. QED
  BY <1>1, <1>2 DEF Failure

LEMMA OrderScan ==
    ASSUME Scan
    PROVE  mode = "scan" /\ PlanFollows'
<1>1. mode = "scan" /\ mode' \in {"scan", "ready"}
  BY DEF Scan, ScanRecord, ScanAck, ScanSkip, ScanStop, Scanning
<1>. QED
  BY <1>1 DEF PlanFollows

LEMMA OrderStep ==
    ASSUME TypeInv, PlanFollows, [Next]_vars
    PROVE  /\ PlanFollows'
           /\ [mode # "scan" /\ mode' # "scan" => KeepsOrder]_vars
<1>1. CASE UNCHANGED vars
  <2>1. UNCHANGED <<queue, plan, next_sequence, mode>>
    BY <1>1 DEF vars, flashVars, compactionVars
  <2>. QED
    BY <1>1, <2>1, PlanKept
<1>2. CASE Scan
  BY <1>2, OrderScan
<1>. QED
  BY <1>1, <1>2, OrderOperation, OrderCompact, OrderFailure DEF Next

\* While the firmware runs, under every fault of the model, records enter the
\* queue only at its end, with the next sequence number, and leave it only
\* from its front: neither a failing driver nor the pop loop of
\* append_with_compaction gives up a record before an older one.
THEOREM OldestLeaveFirst == Spec => OnlyOldestLeave
<1>1. Init => PlanFollows
  BY DEF Init, PlanFollows
<1>2. TypeInv /\ PlanFollows /\ [Next]_vars =>
          PlanFollows' /\ [mode # "scan" /\ mode' # "scan" => KeepsOrder]_vars
  BY OrderStep
<1>3. Spec => [][mode # "scan" /\ mode' # "scan" => KeepsOrder]_vars
  BY <1>1, <1>2, TypeInit, TypeStep, PTL DEF Spec
<1>. QED
  BY <1>3 DEF OnlyOldestLeave, KeepsOrder

-----------------------------------------------------------------------------
(* The log in the flash.                                                   *)

LogInv == TypeInv /\ LogReplays

-----------------------------------------------------------------------------
(* What is in the replay.                                                  *)

LEMMA ReplayType ==
    ASSUME TypeInv
    PROVE  /\ replay \in Seq(Entry)
           /\ Len(replay) \in Nat \ {0}
           /\ \A i \in 1 .. Len(replay) :
                /\ replay[i] \in Entry
                /\ replay[i].cursor \in 0 .. RegionWords
                /\ replay[i].queue \in Seq(Record)
           /\ Recovered = replay[Len(replay)]
<1>1. replay \in Seq(Entry) /\ replay # <<>>
  BY DEF TypeInv, TypeOK, Entry
<1>2. Len(replay) \in Nat \ {0}
  BY <1>1
<1>3. \A i \in 1 .. Len(replay) : replay[i] \in Entry
  BY <1>1
<1>. QED
  BY <1>1, <1>2, <1>3 DEF Entry, Recovered

\* The replay grows by one entry.
LEMMA LoggedReplay ==
    ASSUME TypeInv, NEW c \in 0 .. RegionWords, NEW q \in Seq(Record), NEW s \in Sequence,
           replay' = Logged(c, q, s)
    PROVE  /\ Len(replay') = Len(replay) + 1
           /\ \A i \in 1 .. Len(replay) : replay'[i] = replay[i]
           /\ replay'[Len(replay) + 1] =
                [cursor |-> c, queue |-> q, max_seen |-> Larger(Recovered.max_seen, s)]
           /\ Recovered' = replay'[Len(replay) + 1]
<1>. DEFINE e == [cursor |-> c, queue |-> q, max_seen |-> Larger(Recovered.max_seen, s)]
<1>1. replay \in Seq(Entry) /\ Recovered \in Entry /\ Len(replay) \in Nat \ {0}
  BY ReplayType
<1>2. e \in Entry
  BY <1>1 DEF Entry, Larger
<1>3. replay' = Append(replay, e)
  BY DEF Logged
<1>. HIDE DEF e
<1>4. /\ Len(replay') = Len(replay) + 1
      /\ \A i \in 1 .. Len(replay) : replay'[i] = replay[i]
      /\ replay'[Len(replay) + 1] = e
  BY <1>1, <1>2, <1>3, AppendProperties
<1>5. Recovered' = replay'[Len(replay) + 1]
  BY <1>4 DEF Recovered
<1>. QED
  BY <1>4, <1>5 DEF e

-----------------------------------------------------------------------------
(* Programming an entry on erased words behind the log.                    *)

\* The words of the entry, or its first n, are those of the image; the others
\* do not change.
LEMMA ProgramErased ==
    ASSUME TypeInv, NEW image \in Seq(Cell), NEW n \in Nat, n > 0,
           Fits(n), Erased(n), flash' = Program(write_offset, image, n)
    PROVE  /\ \A k \in 1 .. n : flash'[write_offset + k - 1] = image[k]
           /\ \A w \in 0 .. write_offset - 1 : flash'[w] = flash[w]
           /\ \A w \in write_offset + n .. RegionWords - 1 : flash'[w] = flash[w]
<1>1. /\ write_offset \in Nat /\ RegionWords \in Nat /\ write_offset + n <= RegionWords
      /\ DOMAIN flash = 0 .. RegionWords - 1
  BY SpoolAssumption DEF TypeInv, TypeOK, Fits
<1>2. ASSUME NEW k \in 1 .. n
      PROVE  flash'[write_offset + k - 1] = image[k]
  <2>. DEFINE w == write_offset + k - 1
  <2>1. /\ w \in DOMAIN flash /\ w \in write_offset .. write_offset + n - 1
        /\ w - write_offset + 1 = k
    BY <1>1
  <2>2. flash[w] = Blank
    BY <2>1 DEF Erased
  <2>3. flash'[w] = Overlay(flash[w], image[w - write_offset + 1])
    <3>. HIDE DEF w
    <3>. QED
      BY <2>1 DEF Program
  <2>. QED
    BY <2>1, <2>2, <2>3 DEF Overlay
<1>3. ASSUME NEW w \in DOMAIN flash, w \notin write_offset .. write_offset + n - 1
      PROVE  flash'[w] = flash[w]
  BY <1>3 DEF Program
<1>4. ASSUME NEW w \in 0 .. write_offset - 1
      PROVE  flash'[w] = flash[w]
  <2>1. w \in DOMAIN flash /\ w \notin write_offset .. write_offset + n - 1
    BY <1>1
  <2>. QED
    BY <1>3, <2>1
<1>5. ASSUME NEW w \in write_offset + n .. RegionWords - 1
      PROVE  flash'[w] = flash[w]
  <2>1. w \in DOMAIN flash /\ w \notin write_offset .. write_offset + n - 1
    BY <1>1
  <2>. QED
    BY <1>3, <2>1
<1>. QED
  BY <1>2, <1>4, <1>5

\* A step of the replay only depends on the words of its own entry.
LEMMA StepKept ==
    ASSUME TypeInv, NEW a \in Entry, NEW b \in Entry, NEW c \in 0 .. RegionWords,
           b.cursor <= c, \A w \in 0 .. c - 1 : flash'[w] = flash[w],
           RecordStep(a, b) \/ AckStep(a, b)
    PROVE  RecordStep(a, b)' \/ AckStep(a, b)'
<1>1. a.cursor \in Nat /\ b.cursor \in Nat /\ RegionWords \in Nat
  BY SpoolAssumption DEF Entry
<1>2. CASE RecordStep(a, b)
  <2>1. PICK r \in Record :
            /\ b.cursor = a.cursor + RecordWords(r)
            /\ b.cursor <= RegionWords
            /\ \A k \in 1 .. RecordWords(r) : flash[a.cursor + k - 1] = RecordImage(r)[k]
            /\ b.queue = Push(a.queue, r)
            /\ b.max_seen = Larger(a.max_seen, r.sequence)
    BY <1>2 DEF RecordStep
  <2>2. ASSUME NEW k \in 1 .. RecordWords(r)
        PROVE  flash'[a.cursor + k - 1] = RecordImage(r)[k]
    <3>1. RecordWords(r) \in Nat
      BY RecordWordsType
    <3>2. a.cursor + k - 1 \in 0 .. c - 1
      BY <1>1, <2>1, <3>1
    <3>. QED
      BY <2>1, <3>2
  <2>3. RecordStep(a, b)'
    BY <2>1, <2>2 DEF RecordStep
  <2>. QED
    BY <2>3
<1>3. CASE AckStep(a, b)
  <2>1. PICK s \in Sequence :
            /\ b.cursor = a.cursor + AckWords
            /\ a.cursor + HeaderWords <= RegionWords
            /\ \A k \in 1 .. AckWords : flash[a.cursor + k - 1] = AckImage(s)[k]
            /\ b.queue = Without(a.queue, s)
            /\ b.max_seen = Larger(a.max_seen, s)
    BY <1>3 DEF AckStep
  <2>2. ASSUME NEW k \in 1 .. AckWords
        PROVE  flash'[a.cursor + k - 1] = AckImage(s)[k]
    <3>1. AckWords \in Nat
      BY DEF AckWords
    <3>2. a.cursor + k - 1 \in 0 .. c - 1
      BY <1>1, <2>1, <3>1
    <3>. QED
      BY <2>1, <3>2
  <2>3. AckStep(a, b)'
    BY <2>1, <2>2 DEF AckStep
  <2>. QED
    BY <2>3
<1>. QED
  BY <1>2, <1>3

\* One more entry, programmed on erased words, behind a log that replays.
LEMMA LogGrows ==
    ASSUME TypeInv, LogWritten, write_offset = Recovered.cursor,
           NEW image \in Seq(Cell), NEW n \in Nat, Len(image) = n, n > 0,
           Fits(n), Erased(n), flash' = Program(write_offset, image, n),
           NEW q \in Seq(Record), NEW s \in Sequence,
           replay' = Logged(write_offset + n, q, s),
           NEW a \in Entry, NEW b \in Entry, a = Recovered,
           b = [cursor |-> write_offset + n, queue |-> q,
                max_seen |-> Larger(Recovered.max_seen, s)],
           RecordStep(a, b)' \/ AckStep(a, b)'
    PROVE  LogWritten'
<1>1. /\ write_offset \in Nat /\ RegionWords \in Nat
      /\ write_offset + n \in 0 .. RegionWords /\ write_offset \in 0 .. RegionWords
  <2>1. write_offset \in 0 .. RegionWords
    BY DEF TypeInv, TypeOK
  <2>2. write_offset + n <= RegionWords
    BY DEF Fits
  <2>. QED
    BY <2>1, <2>2, SpoolAssumption
<1>2. /\ Len(replay) \in Nat \ {0}
      /\ \A i \in 1 .. Len(replay) : replay[i] \in Entry /\ replay[i].cursor \in 0 .. RegionWords
      /\ Recovered = replay[Len(replay)]
  BY ReplayType
<1>3. /\ Len(replay') = Len(replay) + 1
      /\ \A i \in 1 .. Len(replay) : replay'[i] = replay[i]
      /\ replay'[Len(replay) + 1] = b
      /\ Recovered' = b
  BY <1>1, LoggedReplay
<1>4. /\ \A w \in 0 .. write_offset - 1 : flash'[w] = flash[w]
      /\ \A w \in write_offset + n .. RegionWords - 1 : flash'[w] = flash[w]
  BY ProgramErased
<1>5. b.cursor = write_offset + n
  OBVIOUS
<1>6. replay'[1] = Nothing
  BY <1>2, <1>3 DEF LogWritten
<1>7. ASSUME NEW i \in 1 .. Len(replay') - 1
      PROVE  RecordStep(replay[i], replay[i + 1])' \/ AckStep(replay[i], replay[i + 1])'
  <2>1. CASE i = Len(replay)
    <3>1. replay'[i] = a /\ replay'[i + 1] = b
      BY <1>2, <1>3, <2>1
    <3>. QED
      BY <3>1 DEF RecordStep, AckStep
  <2>2. CASE i # Len(replay)
    <3>1. i \in 1 .. Len(replay) /\ i + 1 \in 1 .. Len(replay) /\ i \in 1 .. Len(replay) - 1
      BY <1>2, <1>3, <2>2
    <3>2. PICK x \in Entry, y \in Entry : x = replay[i] /\ y = replay[i + 1]
      BY <1>2, <3>1
    <3>3. /\ RecordStep(x, y) \/ AckStep(x, y)
          /\ y.cursor <= write_offset
      BY <3>1, <3>2 DEF LogWritten
    <3>4. RecordStep(x, y)' \/ AckStep(x, y)'
      BY <1>1, <1>4, <3>3, StepKept
    <3>5. replay'[i] = x /\ replay'[i + 1] = y
      BY <1>3, <3>1, <3>2
    <3>. QED
      BY <3>4, <3>5 DEF RecordStep, AckStep
  <2>. QED
    BY <2>1, <2>2
<1>8. ASSUME NEW i \in 1 .. Len(replay')
      PROVE  replay'[i].cursor <= Recovered'.cursor
  <2>1. CASE i = Len(replay) + 1
    BY <1>1, <1>3, <1>5, <2>1
  <2>2. CASE i # Len(replay) + 1
    <3>1. i \in 1 .. Len(replay)
      BY <1>2, <1>3, <2>2
    <3>2. replay[i].cursor <= write_offset
      BY <3>1 DEF LogWritten
    <3>. QED
      BY <1>1, <1>2, <1>3, <1>5, <3>1, <3>2
  <2>. QED
    BY <2>1, <2>2
<1>9. ASSUME NEW w \in Recovered'.cursor .. RegionWords - 1
      PROVE  flash'[w] = Blank
  <2>1. w \in write_offset + n .. RegionWords - 1 /\ w \in write_offset .. RegionWords - 1
    BY <1>1, <1>3, <1>5
  <2>2. flash[w] = Blank
    BY <2>1 DEF LogWritten
  <2>. QED
    BY <1>4, <2>1, <2>2
<1>. QED
  BY <1>6, <1>7, <1>8, <1>9 DEF LogWritten

-----------------------------------------------------------------------------
(* What recovery reads at the cursor of a step of the replay.              *)

\* The magic words are not erased words, and tell records from acknowledgements.
LEMMA Magics ==
    /\ RecordMagic # Blank /\ AckMagic # Blank /\ RecordMagic # AckMagic
    /\ \A s : AckImage(s)[1] = AckMagic
    /\ \A r \in Record : RecordImage(r)[1] = RecordMagic
<1>1. RecordMagic # Blank /\ AckMagic # Blank /\ RecordMagic # AckMagic
  BY WordKinds
<1>2. ASSUME NEW s PROVE AckImage(s)[1] = AckMagic
  BY DEF AckImage, AckWords
<1>3. ASSUME NEW r \in Record PROVE RecordImage(r)[1] = RecordMagic
  BY RecordWordsType DEF RecordImage, HeaderWords
<1>. QED
  BY <1>1, <1>2, <1>3

LEMMA RecordImagePayload ==
    ASSUME NEW r \in Record
    PROVE  RecordImage(r)[5].value = r.payload
<1>1. RecordImage(r)[5] = Word("payload", r.payload, 5)
  BY RecordWordsType DEF RecordImage, HeaderWords
<1>. QED
  BY <1>1 DEF Word

\* A record in the log is decoded as it was encoded.
LEMMA ReadRecord ==
    ASSUME TypeInv, NEW r \in Record, write_offset + RecordWords(r) <= RegionWords,
           \A k \in 1 .. RecordWords(r) : flash[write_offset + k - 1] = RecordImage(r)[k]
    PROVE  /\ HeaderAtCursor /\ RecordsAtCursor = {r}
           /\ flash[Cursor] = RecordMagic
<1>1. RecordWords(r) \in Nat /\ RecordWords(r) > HeaderWords /\ HeaderWords = 6
  BY RecordWordsType DEF HeaderWords
<1>2. write_offset \in Nat /\ RegionWords \in Nat
  BY SpoolAssumption DEF TypeInv, TypeOK
<1>3. /\ flash[write_offset] = RecordImage(r)[1]
      /\ flash[write_offset + 2] = RecordImage(r)[3]
      /\ flash[write_offset + 3] = RecordImage(r)[4]
  <2>1. 1 \in 1 .. RecordWords(r) /\ 3 \in 1 .. RecordWords(r) /\ 4 \in 1 .. RecordWords(r)
    BY <1>1
  <2>2. /\ write_offset + 1 - 1 = write_offset
        /\ write_offset + 3 - 1 = write_offset + 2
        /\ write_offset + 4 - 1 = write_offset + 3
    BY <1>2
  <2>. QED
    BY <2>1, <2>2
<1>4. /\ RecordImage(r)[3] = Word("sequence", r.sequence, 3)
      /\ RecordImage(r)[4] = Word("sequence", r.sequence, 4)
  BY <1>1 DEF RecordImage
<1>5. NumbersAtCursor = {r.sequence}
  <2>1. \A s, t, k : Word("sequence", s, k) = Word("sequence", t, k) => s = t
    BY DEF Word
  <2>2. r.sequence \in Sequence
    BY DEF Record
  <2>3. {s \in Sequence : /\ flash[Cursor + 2] = Word("sequence", s, 3)
                          /\ flash[Cursor + 3] = Word("sequence", s, 4)} = {r.sequence}
    BY <1>3, <1>4, <2>1, <2>2 DEF Cursor
  <2>. QED
    BY <2>3 DEF NumbersAtCursor
<1>6. flash[Cursor] = RecordMagic /\ RecordMagic # Blank
  BY <1>3, Magics DEF Cursor
<1>7. Fits(1) /\ Fits(HeaderWords) /\ Fits(RecordWords(r))
  BY <1>1, <1>2 DEF Fits
<1>8. r \in RecordsAtCursor
  <2>1. r \in [sequence : NumbersAtCursor, payload : Payloads]
    BY <1>5 DEF Record
  <2>. QED
    BY <1>7, <2>1 DEF RecordsAtCursor, Cursor
<1>9. ASSUME NEW x \in RecordsAtCursor  PROVE x = r
  <2>1. x \in Record /\ x.sequence = r.sequence
    BY <1>5, ReadTyped DEF RecordsAtCursor
  <2>2. /\ 5 \in 1 .. RecordWords(x) /\ 5 \in 1 .. RecordWords(r) /\ 5 \notin {3, 4}
    BY <1>1, <2>1, RecordWordsType
  <2>3. \A i \in 1 .. RecordWords(x) : i \in {3, 4} \/ flash[Cursor + i - 1] = RecordImage(x)[i]
    BY <1>9 DEF RecordsAtCursor
  <2>4. RecordImage(x)[5] = RecordImage(r)[5]
    BY <2>2, <2>3 DEF Cursor
  <2>5. x.payload = r.payload
    BY <2>1, <2>4, RecordImagePayload
  <2>. QED
    BY <2>1, <2>5 DEF Record
<1>. QED
  BY <1>6, <1>7, <1>8, <1>9 DEF HeaderAtCursor

\* The four words of an acknowledgement (encode_ack).
LEMMA AckImageWords ==
    ASSUME NEW s \in Sequence
    PROVE  /\ AckImage(s)[1] = AckMagic
           /\ AckImage(s)[2] = Word("ack version", s % Radix, 0)
           /\ AckImage(s)[3] = DigitWord((s \div Radix) % Radix)
           /\ AckImage(s)[4] = DigitWord((s \div Radix) \div Radix)
BY DEF AckImage, AckWords

\* The words of an acknowledgement are decoded as they were encoded.
LEMMA AckRead ==
    ASSUME NEW f, NEW s \in Sequence,
           f[write_offset] = AckMagic,
           f[write_offset + 1] = Word("ack version", s % Radix, 0),
           f[write_offset + 2] = DigitWord((s \div Radix) % Radix),
           f[write_offset + 3] = DigitWord((s \div Radix) \div Radix)
    PROVE  AckedSequences(f) = {s}
<1>. DEFINE mid == (s \div Radix) % Radix
            high == (s \div Radix) \div Radix
<1>1. LowDigits(f[write_offset + 1]) = {s % Radix}
  <2>1. /\ Word("ack version", s % Radix, 0).kind = "ack version"
        /\ Word("ack version", s % Radix, 0).value = s % Radix
    BY DEF Word
  <2>. QED
    BY <2>1 DEF LowDigits
<1>2. ASSUME NEW d \in Digits  PROVE DigitsOf(DigitWord(d)) = {d}
  <2>1. CASE d = Radix - 1
    BY <2>1 DEF DigitWord, DigitsOf
  <2>2. CASE d # Radix - 1
    <3>1. DigitWord(d) = Word("digit", d, 0)
      BY <2>2 DEF DigitWord
    <3>2. Word("digit", d, 0).kind = "digit" /\ Word("digit", d, 0).value = d
      BY DEF Word
    <3>3. Word("digit", d, 0) # Blank
      BY <3>2, WordKinds
    <3>. QED
      BY <3>1, <3>2, <3>3 DEF DigitsOf
  <2>. QED
    BY <2>1, <2>2
<1>3. mid \in Digits /\ high \in Digits
  BY DigitsOfSequence DEF Digits
<1>4. DigitsOf(f[write_offset + 2]) = {mid} /\ DigitsOf(f[write_offset + 3]) = {high}
  <2>1. f[write_offset + 2] = DigitWord(mid) /\ f[write_offset + 3] = DigitWord(high)
    OBVIOUS
  <2>. HIDE DEF mid, high
  <2>. QED
    BY <1>2, <1>3, <2>1
<1>5. s \in AckedSequences(f)
  BY <1>1, <1>4 DEF AckedSequences
<1>6. ASSUME NEW x \in AckedSequences(f)  PROVE x = s
  <2>1. /\ x \in Sequence /\ x % Radix = s % Radix
        /\ (x \div Radix) % Radix = mid
        /\ (x \div Radix) \div Radix = high
    BY <1>1, <1>4 DEF AckedSequences
  <2>2. /\ x = (x % Radix) + Radix * (((x \div Radix) % Radix)
                              + Radix * ((x \div Radix) \div Radix))
        /\ s = (s % Radix) + Radix * (mid + Radix * high)
    BY <2>1, DigitsOfSequence
  <2>. QED
    BY <2>1, <2>2
<1>. QED
  BY <1>5, <1>6

\* So is an acknowledgement in the log.
LEMMA ReadAck ==
    ASSUME TypeInv, NEW s \in Sequence, write_offset + HeaderWords <= RegionWords,
           \A k \in 1 .. AckWords : flash[write_offset + k - 1] = AckImage(s)[k]
    PROVE  /\ HeaderAtCursor
           /\ AckedSequences(flash) = {s}
           /\ flash[Cursor] = AckMagic
           /\ flash[Cursor + 1] # Junk
<1>1. write_offset \in Nat /\ RegionWords \in Nat
  BY SpoolAssumption DEF TypeInv, TypeOK
<1>2. /\ flash[write_offset] = AckMagic
      /\ flash[write_offset + 1] = Word("ack version", s % Radix, 0)
      /\ flash[write_offset + 2] = DigitWord((s \div Radix) % Radix)
      /\ flash[write_offset + 3] = DigitWord((s \div Radix) \div Radix)
  <2>1. /\ 1 \in 1 .. AckWords /\ 2 \in 1 .. AckWords
        /\ 3 \in 1 .. AckWords /\ 4 \in 1 .. AckWords
    BY DEF AckWords
  <2>2. /\ write_offset + 1 - 1 = write_offset
        /\ write_offset + 2 - 1 = write_offset + 1
        /\ write_offset + 3 - 1 = write_offset + 2
        /\ write_offset + 4 - 1 = write_offset + 3
    BY <1>1
  <2>. QED
    BY <2>1, <2>2, AckImageWords
<1>3. flash[write_offset + 1] # Junk
  <2>1. Word("ack version", s % Radix, 0).kind = "ack version"
    BY DEF Word
  <2>. QED
    BY <1>2, <2>1, WordKinds
<1>4. AckedSequences(flash) = {s}
  BY <1>2, AckRead
<1>5. Fits(1) /\ Fits(HeaderWords)
  BY <1>1 DEF Fits, HeaderWords
<1>. QED
  BY <1>2, <1>3, <1>4, <1>5, Magics DEF HeaderAtCursor, Cursor

-----------------------------------------------------------------------------
(* Every step keeps the invariant.                                         *)

LEMMA LogInit == Init => LogReplays
<1>. SUFFICES ASSUME Init PROVE LogReplays
  OBVIOUS
<1>1. /\ replay = <<Nothing>> /\ mode = "scan" /\ queue = <<>>
      /\ write_offset = 0 /\ max_seen = -1
      /\ flash = [w \in 0 .. RegionWords - 1 |-> Blank]
  BY DEF Init
<1>2. Len(replay) = 1 /\ replay[1] = Nothing /\ Recovered = Nothing
  BY <1>1 DEF Recovered
<1>3. Nothing.cursor = 0 /\ Nothing.queue = <<>> /\ Nothing.max_seen = -1
  BY DEF Nothing
<1>4. LogWritten
  BY <1>1, <1>2, <1>3 DEF LogWritten
<1>5. 1 \in 1 .. Len(replay)
  BY <1>2
<1>. QED
  BY <1>1, <1>2, <1>3, <1>4, <1>5 DEF LogReplays

\* While nothing in flash or in the replay changes, the log still replays.
LEMMA LogKept ==
    ASSUME LogWritten, UNCHANGED <<flash, replay>>
    PROVE  LogWritten'
<1>1. \A i \in 1 .. Len(replay) - 1 :
        \/ RecordStep(replay[i], replay[i + 1])'
        \/ AckStep(replay[i], replay[i + 1])'
  BY DEF LogWritten, RecordStep, AckStep
<1>. QED
  BY <1>1 DEF LogWritten, Recovered

\* At a step of the replay that is not the last, recovery can only read its
\* entry, and comes to the next step.
LEMMA ReadStep ==
    ASSUME TypeInv, Scan, mode = "scan", NEW a \in Entry, NEW b \in Entry,
           RecordStep(a, b) \/ AckStep(a, b),
           write_offset = a.cursor, queue = a.queue, max_seen = a.max_seen
    PROVE  /\ mode' = "scan"
           /\ write_offset' = b.cursor /\ queue' = b.queue /\ max_seen' = b.max_seen
<1>1. CASE RecordStep(a, b)
  <2>1. PICK r \in Record :
            /\ b.cursor = a.cursor + RecordWords(r)
            /\ b.cursor <= RegionWords
            /\ \A k \in 1 .. RecordWords(r) : flash[a.cursor + k - 1] = RecordImage(r)[k]
            /\ b.queue = Push(a.queue, r)
            /\ b.max_seen = Larger(a.max_seen, r.sequence)
    BY <1>1 DEF RecordStep
  <2>2. /\ HeaderAtCursor /\ RecordsAtCursor = {r}
        /\ flash[Cursor] = RecordMagic
    BY <2>1, ReadRecord
  <2>3. RecordMagic # AckMagic
    BY Magics
  <2>4. ~ScanAck
    BY <2>2, <2>3 DEF ScanAck, AckedSequences, Cursor
  <2>5. ~ScanSkip
    BY <2>2 DEF ScanSkip
  <2>6. ~ScanStop
    BY <2>2, <2>3 DEF ScanStop, Undecodable
  <2>7. ScanRecord
    BY <2>4, <2>5, <2>6 DEF Scan
  <2>. QED
    BY <2>1, <2>2, <2>7 DEF ScanRecord, Cursor
<1>2. CASE AckStep(a, b)
  <2>1. PICK s \in Sequence :
            /\ b.cursor = a.cursor + AckWords
            /\ a.cursor + HeaderWords <= RegionWords
            /\ \A k \in 1 .. AckWords : flash[a.cursor + k - 1] = AckImage(s)[k]
            /\ b.queue = Without(a.queue, s)
            /\ b.max_seen = Larger(a.max_seen, s)
    BY <1>2 DEF AckStep
  <2>2. /\ HeaderAtCursor /\ AckedSequences(flash) = {s}
        /\ flash[Cursor] = AckMagic /\ flash[Cursor + 1] # Junk
    BY <2>1, ReadAck
  <2>3. RecordMagic # AckMagic
    BY Magics
  <2>4. ~ScanRecord
    BY <2>2, <2>3, ReadTyped DEF ScanRecord
  <2>5. ~ScanSkip
    BY <2>2 DEF ScanSkip
  <2>6. ~ScanStop
    BY <2>2, <2>3 DEF ScanStop, Undecodable
  <2>7. ScanAck
    BY <2>4, <2>5, <2>6 DEF Scan
  <2>. QED
    BY <2>1, <2>2, <2>7 DEF ScanAck, Cursor
<1>. QED
  BY <1>1, <1>2

\* Recovery follows the replay step by step, and stops behind its last one.
LEMMA ScanStep ==
    ASSUME LogInv, Scan, ~spoiled
    PROVE  LogReplays'
<1>1. mode = "scan" /\ UNCHANGED <<flash, replay, spoiled>>
  BY DEF Scan, ScanRecord, ScanAck, ScanSkip, ScanStop, Scanning, historyVars
<1>2. TypeInv /\ LogWritten
  BY <1>1 DEF LogInv, LogReplays
<1>3. LogWritten'
  BY <1>1, <1>2, LogKept
<1>4. PICK j \in 1 .. Len(replay) :
          /\ write_offset = replay[j].cursor
          /\ queue = replay[j].queue
          /\ max_seen = replay[j].max_seen
  BY <1>1 DEF LogInv, LogReplays
<1>5. /\ Len(replay) \in Nat \ {0}
      /\ \A i \in 1 .. Len(replay) : replay[i] \in Entry
      /\ Recovered = replay[Len(replay)]
  BY <1>2, ReplayType
<1>6. CASE j = Len(replay)
  <2>1. \A w \in write_offset .. RegionWords - 1 : flash[w] = Blank
    BY <1>2, <1>4, <1>5, <1>6 DEF LogWritten
  <2>2. write_offset \in Nat /\ RegionWords \in Nat
    BY <1>2, SpoolAssumption DEF TypeInv, TypeOK
  <2>3. ~HeaderAtCursor
    BY <2>1, <2>2 DEF HeaderAtCursor, Fits, Cursor
  <2>4. ScanStop
    BY <2>3 DEF Scan, ScanRecord, ScanAck, ScanSkip, Scanning
  <2>5. mode' = "ready" /\ UNCHANGED <<queue, write_offset>>
    BY <2>4 DEF ScanStop
  <2>6. queue' = Promise' /\ write_offset' = Recovered'.cursor
    BY <1>1, <1>4, <1>5, <1>6, <2>5 DEF Promise, Recovered
  <2>. QED
    BY <1>3, <2>5, <2>6 DEF LogReplays
<1>7. CASE j # Len(replay)
  <2>1. j \in 1 .. Len(replay) - 1 /\ j + 1 \in 1 .. Len(replay)
    BY <1>5, <1>7
  <2>2. PICK a \in Entry, b \in Entry : a = replay[j] /\ b = replay[j + 1]
    BY <1>5, <2>1
  <2>3. RecordStep(a, b) \/ AckStep(a, b)
    BY <1>2, <2>1, <2>2 DEF LogWritten
  <2>4. write_offset = a.cursor /\ queue = a.queue /\ max_seen = a.max_seen
    BY <1>4, <2>2
  <2>5. /\ mode' = "scan"
        /\ write_offset' = b.cursor /\ queue' = b.queue /\ max_seen' = b.max_seen
    BY <1>1, <1>2, <2>3, <2>4, ReadStep
  <2>6. \E i \in 1 .. Len(replay') :
            /\ write_offset' = replay'[i].cursor
            /\ queue' = replay'[i].queue
            /\ max_seen' = replay'[i].max_seen
    BY <1>1, <2>1, <2>2, <2>5
  <2>. QED
    BY <1>3, <2>5, <2>6 DEF LogReplays
<1>. QED
  BY <1>6, <1>7

\* A record programmed behind the log, on erased words, is its next step.
LEMMA RecordLogged ==
    ASSUME TypeInv, LogWritten, write_offset = Recovered.cursor,
           NEW r \in Record, ~Spoils(RecordWords(r)), Fits(RecordWords(r)),
           flash' = Program(write_offset, RecordImage(r), RecordWords(r)),
           NEW q \in Seq(Record), q = Push(Promise, r),
           replay' = Logged(write_offset + RecordWords(r), q, r.sequence)
    PROVE  /\ LogWritten'
           /\ Recovered'.cursor = write_offset + RecordWords(r)
           /\ Promise' = q
<1>. DEFINE n == RecordWords(r)
            image == RecordImage(r)
<1>1. n \in Nat /\ n > 0 /\ image \in Seq(Cell) /\ Len(image) = n /\ r.sequence \in Sequence
  BY RecordWordsType, RecordImageType DEF HeaderWords, Record
<1>2. Erased(n)
  BY DEF Spoils
<1>3. Recovered \in Entry /\ write_offset + n \in 0 .. RegionWords
  <2>1. write_offset \in 0 .. RegionWords /\ write_offset + n <= RegionWords
    BY DEF TypeInv, TypeOK, Fits
  <2>. QED
    BY <1>1, <2>1, ReplayType, SpoolAssumption
<1>. DEFINE e == [cursor |-> write_offset + n, queue |-> q,
                  max_seen |-> Larger(Recovered.max_seen, r.sequence)]
<1>4. e \in Entry
  BY <1>1, <1>3 DEF Entry, Larger
<1>5. PICK a \in Entry, b \in Entry : a = Recovered /\ b = e
  BY <1>3, <1>4
<1>6. \A k \in 1 .. n : flash'[write_offset + k - 1] = image[k]
  <2>. HIDE DEF n, image
  <2>1. Fits(n) /\ flash' = Program(write_offset, image, n)
    BY DEF n, image
  <2>. QED
    BY <1>1, <1>2, <2>1, ProgramErased
<1>7. RecordStep(a, b)'
  <2>1. /\ b.cursor = a.cursor + RecordWords(r)
        /\ b.queue = Push(a.queue, r)
        /\ b.max_seen = Larger(a.max_seen, r.sequence)
    BY <1>5 DEF Promise
  <2>2. b.cursor <= RegionWords
    BY <1>3, <1>5
  <2>3. \A k \in 1 .. RecordWords(r) : flash'[a.cursor + k - 1] = RecordImage(r)[k]
    BY <1>5, <1>6
  <2>. QED
    BY <2>1, <2>2, <2>3 DEF RecordStep
<1>8. LogWritten'
  <2>1. Fits(n) /\ flash' = Program(write_offset, image, n)
    OBVIOUS
  <2>2. replay' = Logged(write_offset + n, q, r.sequence)
    OBVIOUS
  <2>3. b = [cursor |-> write_offset + n, queue |-> q,
             max_seen |-> Larger(Recovered.max_seen, r.sequence)]
    BY <1>5
  <2>. HIDE DEF n, image, e
  <2>. QED
    BY <1>1, <1>2, <1>5, <1>7, <2>1, <2>2, <2>3, LogGrows
<1>9. Recovered' = e
  BY <1>1, <1>3, LoggedReplay
<1>. QED
  BY <1>8, <1>9 DEF Promise

\* An acknowledgement programmed behind the log, likewise.
LEMMA AckLogged ==
    ASSUME TypeInv, LogWritten, write_offset = Recovered.cursor,
           NEW s \in Sequence, ~Spoils(AckWords), Fits(AckWords),
           flash' = Program(write_offset, AckImage(s), AckWords),
           NEW q \in Seq(Record), q = Without(Promise, s),
           replay' = Logged(write_offset + AckWords, q, s)
    PROVE  /\ LogWritten'
           /\ Recovered'.cursor = write_offset + AckWords
           /\ Promise' = q
<1>. DEFINE n == AckWords
            image == AckImage(s)
<1>1. n \in Nat /\ n > 0 /\ image \in Seq(Cell) /\ Len(image) = n
  BY AckImageType DEF AckWords
<1>2. Erased(n) /\ Fits(HeaderWords)
  BY DEF Spoils
<1>3. /\ Recovered \in Entry /\ write_offset + n \in 0 .. RegionWords
      /\ write_offset + HeaderWords <= RegionWords
  <2>1. /\ write_offset \in 0 .. RegionWords /\ write_offset + n <= RegionWords
        /\ write_offset + HeaderWords <= RegionWords
    BY <1>2 DEF TypeInv, TypeOK, Fits
  <2>. QED
    BY <1>1, <2>1, ReplayType, SpoolAssumption
<1>. DEFINE e == [cursor |-> write_offset + n, queue |-> q,
                  max_seen |-> Larger(Recovered.max_seen, s)]
<1>4. e \in Entry
  BY <1>1, <1>3 DEF Entry, Larger
<1>5. PICK a \in Entry, b \in Entry : a = Recovered /\ b = e
  BY <1>3, <1>4
<1>6. \A k \in 1 .. n : flash'[write_offset + k - 1] = image[k]
  <2>. HIDE DEF n, image
  <2>1. Fits(n) /\ flash' = Program(write_offset, image, n)
    BY DEF n, image
  <2>. QED
    BY <1>1, <1>2, <2>1, ProgramErased
<1>7. AckStep(a, b)'
  <2>1. /\ b.cursor = a.cursor + AckWords
        /\ b.queue = Without(a.queue, s)
        /\ b.max_seen = Larger(a.max_seen, s)
    BY <1>5 DEF Promise
  <2>2. a.cursor + HeaderWords <= RegionWords
    BY <1>3, <1>5
  <2>3. \A k \in 1 .. AckWords : flash'[a.cursor + k - 1] = AckImage(s)[k]
    BY <1>5, <1>6
  <2>. QED
    BY <2>1, <2>2, <2>3 DEF AckStep
<1>8. LogWritten'
  <2>1. Fits(n) /\ flash' = Program(write_offset, image, n)
    OBVIOUS
  <2>2. replay' = Logged(write_offset + n, q, s)
    OBVIOUS
  <2>3. b = [cursor |-> write_offset + n, queue |-> q,
             max_seen |-> Larger(Recovered.max_seen, s)]
    BY <1>5
  <2>. HIDE DEF n, image, e
  <2>. QED
    BY <1>1, <1>2, <1>5, <1>7, <2>1, <2>2, <2>3, LogGrows
<1>9. Recovered' = e
  BY <1>1, <1>3, LoggedReplay
<1>. QED
  BY <1>8, <1>9 DEF Promise

LEMMA OperationStep ==
    ASSUME LogInv, Operation
    PROVE  LogReplays'
<1>1. mode = "ready" /\ TypeInv
  BY DEF LogInv, Operation, AppendEntry, AppendCompacting, AcknowledgeEntry,
         AcknowledgeCompacting, Appending
<1>2. ASSUME ~spoiled
      PROVE  LogWritten /\ write_offset = Recovered.cursor /\ queue = Promise
  BY <1>1, <1>2 DEF LogInv, LogReplays
<1>3. queue \in Seq(Record) /\ Len(queue) <= Capacity
  BY <1>1 DEF TypeInv, TypeOK
<1>4. ASSUME NEW p \in Payloads, AppendEntry(p)  PROVE LogReplays'
  <2>. DEFINE r == Incoming(p)
  <2>1. mode' = "ready"
    BY <1>1, <1>4 DEF AppendEntry
  <2>2. ASSUME ~spoiled'
        PROVE  LogWritten' /\ write_offset' = Recovered'.cursor /\ queue' = Promise'
    <3>1. ~spoiled /\ ~Spoils(RecordWords(r))
      BY <1>4, <2>2 DEF AppendEntry
    <3>2. /\ Fits(RecordWords(r))
          /\ flash' = Program(write_offset, RecordImage(r), RecordWords(r))
          /\ write_offset' = write_offset + RecordWords(r)
          /\ queue' = Push(queue, r)
          /\ replay' = Logged(write_offset + RecordWords(r), queue', r.sequence)
      BY <1>4 DEF AppendEntry
    <3>3. r \in Record
      BY <1>1, IncomingType
    <3>4. PICK q \in Seq(Record) : q = queue'
      BY <1>3, <3>2, <3>3, PushProperties
    <3>. HIDE DEF r
    <3>. QED
      BY <1>1, <1>2, <3>1, <3>2, <3>3, <3>4, RecordLogged
  <2>. QED
    BY <2>1, <2>2 DEF LogReplays
<1>5. CASE AcknowledgeEntry
  <2>. DEFINE s == Head(queue).sequence
  <2>1. mode' = "ready"
    BY <1>1, <1>5 DEF AcknowledgeEntry
  <2>2. ASSUME ~spoiled'
        PROVE  LogWritten' /\ write_offset' = Recovered'.cursor /\ queue' = Promise'
    <3>1. ~spoiled /\ ~Spoils(AckWords)
      BY <1>5, <2>2 DEF AcknowledgeEntry
    <3>2. /\ queue # <<>> /\ Fits(AckWords)
          /\ flash' = Program(write_offset, AckImage(s), AckWords)
          /\ write_offset' = write_offset + AckWords
          /\ queue' = Tail(queue)
          /\ replay' = Logged(write_offset + AckWords, queue', s)
      BY <1>5 DEF AcknowledgeEntry
    <3>3. s \in Sequence
      <4>1. Head(queue) \in Record
        BY <1>3, <3>2
      <4>. QED
        BY <4>1 DEF Record
    <3>4. PICK q \in Seq(Record) : q = queue'
      BY <1>3, <3>2
    <3>5. q = Without(queue, s)
      BY <1>3, <3>2, <3>4, WithoutHead
    <3>. HIDE DEF s
    <3>. QED
      BY <1>1, <1>2, <3>1, <3>2, <3>3, <3>4, <3>5, AckLogged
  <2>. QED
    BY <2>1, <2>2 DEF LogReplays
<1>6. ASSUME \/ \E p \in Payloads : AppendCompacting(p)
             \/ AcknowledgeCompacting
      PROVE  LogReplays'
  <2>1. mode' = "erase" /\ progress' = 0
    BY <1>6 DEF AppendCompacting, AcknowledgeCompacting
  <2>. QED
    BY <2>1 DEF LogReplays
<1>. QED
  BY <1>4, <1>5, <1>6 DEF Operation

\* A sector erased is erased, those before it stay so.
LEMMA SectorErased ==
    ASSUME TypeInv, EraseSector,
           \A w \in 0 .. RegionWords - 1 : w < progress => flash[w] = Blank
    PROVE  \A w \in 0 .. RegionWords - 1 : w < progress' => flash'[w] = Blank
<1>. SUFFICES ASSUME NEW w \in 0 .. RegionWords - 1, w < progress'
              PROVE  flash'[w] = Blank
  OBVIOUS
<1>1. /\ w \in DOMAIN flash /\ progress \in Nat /\ w \in Nat
      /\ progress' = progress + SectorWords /\ SectorWords \in Nat
      /\ flash' = ErasedSector
  BY FlashAssumption DEF TypeInv, TypeOK, EraseSector
<1>2. CASE w < progress
  <2>1. flash'[w] = flash[w]
    BY <1>1, <1>2 DEF ErasedSector
  <2>. QED
    BY <1>2, <2>1
<1>3. CASE w >= progress
  <2>1. w \in progress .. progress + SectorWords - 1
    BY <1>1, <1>3
  <2>. QED
    BY <1>1, <2>1 DEF ErasedSector
<1>. QED
  BY <1>1, <1>2, <1>3

LEMMA CompactStep ==
    ASSUME LogInv, Compact
    PROVE  LogReplays'
<1>1. TypeInv
  BY DEF LogInv
<1>2. CASE EraseSector
  <2>1. mode = "erase" /\ mode' = "erase"
    BY <1>2 DEF EraseSector
  <2>2. \A w \in 0 .. RegionWords - 1 : w < progress' => flash'[w] = Blank
    BY <1>1, <1>2, <2>1, SectorErased DEF LogInv, LogReplays
  <2>. QED
    BY <2>1, <2>2 DEF LogReplays
<1>3. CASE StartRewrite
  <2>1. /\ mode = "erase" /\ progress >= RegionWords /\ mode' = "rewrite"
        /\ write_offset' = 0 /\ progress' = 0 /\ replay' = <<Nothing>>
        /\ UNCHANGED <<flash, plan>>
    BY <1>3 DEF StartRewrite
  <2>2. \A w \in 0 .. RegionWords - 1 : flash'[w] = Blank
    <3>1. progress \in Nat /\ RegionWords \in Nat
      BY <1>1, SpoolAssumption DEF TypeInv, TypeOK
    <3>. QED
      BY <2>1, <3>1 DEF LogInv, LogReplays
  <2>3. Len(replay') = 1 /\ replay'[1] = Nothing /\ Recovered' = Nothing
    BY <2>1 DEF Recovered
  <2>4. Nothing.cursor = 0 /\ Nothing.queue = <<>>
    BY DEF Nothing
  <2>5. LogWritten'
    BY <2>2, <2>3, <2>4 DEF LogWritten
  <2>6. plan \in Seq(Record) /\ SubSeq(plan, 1, 0) = <<>>
    BY <1>1, SubSeqEmpty DEF TypeInv, TypeOK
  <2>7. Promise' = SubSeq(plan', 1, progress') /\ progress' <= Len(plan')
    BY <2>1, <2>3, <2>4, <2>6 DEF Promise
  <2>. QED
    BY <2>1, <2>3, <2>4, <2>5, <2>7 DEF LogReplays
<1>4. CASE RewriteRecord
  <2>. DEFINE r == NextRecord
  <2>1. /\ mode = "rewrite" /\ mode' = "rewrite" /\ progress < Len(plan)
        /\ progress' = progress + 1 /\ plan' = plan
    BY <1>4 DEF RewriteRecord
  <2>2. ASSUME ~spoiled'
        PROVE  /\ LogWritten' /\ write_offset' = Recovered'.cursor
               /\ Promise' = SubSeq(plan', 1, progress') /\ progress' <= Len(plan')
    <3>1. r \in Record /\ Len(NextImage) = RecordWords(r) /\ NextImage = RecordImage(r)
      BY <1>1, <2>1, NextRecordType DEF NextImage
    <3>2. /\ ~spoiled /\ ~Spoils(RecordWords(r)) /\ Fits(RecordWords(r))
          /\ flash' = Program(write_offset, RecordImage(r), RecordWords(r))
          /\ write_offset' = write_offset + RecordWords(r)
          /\ replay' = Logged(write_offset + RecordWords(r), Push(Promise, r), r.sequence)
      BY <1>4, <2>2, <3>1 DEF RewriteRecord
    <3>3. /\ LogWritten /\ write_offset = Recovered.cursor
          /\ Promise = SubSeq(plan, 1, progress)
      BY <2>1, <3>2 DEF LogInv, LogReplays
    <3>4. /\ plan \in Seq(Record) /\ Len(plan) <= Capacity /\ progress \in Nat
          /\ Len(plan) \in Nat /\ progress + 1 \in 1 .. Len(plan)
      BY <1>1, <2>1 DEF TypeInv, TypeOK
    <3>5. Promise \in Seq(Record) /\ Len(Promise) = progress
      BY <3>3, <3>4, SubSeqProperties
    <3>6. Push(Promise, r) = Append(Promise, r)
      BY <2>1, <3>4, <3>5, SpoolAssumption DEF Push
    <3>7. Push(Promise, r) = SubSeq(plan, 1, progress + 1)
      <4>1. SubSeq(plan, 1, progress + 1) = Append(SubSeq(plan, 1, progress), plan[progress + 1])
        BY <3>4, SubSeqRecursiveSecond
      <4>. QED
        BY <3>3, <3>6, <4>1 DEF NextRecord
    <3>8. PICK q \in Seq(Record) : q = Push(Promise, r)
      BY <3>1, <3>5, PushType
    <3>9. /\ LogWritten'
          /\ Recovered'.cursor = write_offset + RecordWords(r)
          /\ Promise' = q
      <4>. HIDE DEF r
      <4>. QED
        BY <1>1, <3>1, <3>2, <3>3, <3>8, RecordLogged
    <3>. QED
      BY <2>1, <3>2, <3>4, <3>7, <3>8, <3>9
  <2>. QED
    BY <2>1, <2>2 DEF LogReplays
<1>5. CASE RewriteDone
  <2>1. /\ mode = "rewrite" /\ progress = Len(plan) /\ mode' = "ready" /\ queue' = plan
        /\ UNCHANGED <<flash, write_offset, replay, spoiled>>
    BY <1>5 DEF RewriteDone, historyVars
  <2>2. ASSUME ~spoiled
        PROVE  LogWritten' /\ write_offset' = Recovered'.cursor /\ queue' = Promise'
    <3>1. LogWritten /\ write_offset = Recovered.cursor /\ Promise = SubSeq(plan, 1, Len(plan))
      BY <2>1, <2>2 DEF LogInv, LogReplays
    <3>2. SubSeq(plan, 1, Len(plan)) = plan
      BY <1>1, SubSeqFull DEF TypeInv, TypeOK
    <3>3. LogWritten'
      BY <2>1, <3>1, LogKept
    <3>4. Recovered' = Recovered
      BY <2>1 DEF Recovered
    <3>. QED
      BY <2>1, <3>1, <3>2, <3>3, <3>4 DEF Promise
  <2>. QED
    BY <2>1, <2>2 DEF LogReplays
<1>. QED
  BY <1>2, <1>3, <1>4, <1>5 DEF Compact

\* An interrupted compaction spoils the log; any other power loss leaves it.
LEMMA FailureStep ==
    ASSUME LogInv, Failure, Faults \subseteq {"idle", "compact"}
    PROVE  LogReplays'
<1>1. CASE PowerLoss
  <2>1. /\ mode \in {"scan", "ready"} /\ mode' = "scan" /\ write_offset' = 0
        /\ queue' = <<>> /\ max_seen' = -1
        /\ UNCHANGED <<flash, replay, spoiled>>
    BY <1>1 DEF PowerLoss, Reset
  <2>2. ASSUME ~spoiled
        PROVE  /\ LogWritten'
               /\ \E i \in 1 .. Len(replay') :
                    /\ write_offset' = replay'[i].cursor
                    /\ queue' = replay'[i].queue
                    /\ max_seen' = replay'[i].max_seen
    <3>1. LogWritten
      BY <2>1, <2>2 DEF LogInv, LogReplays
    <3>2. LogWritten'
      BY <2>1, <3>1, LogKept
    <3>3. replay'[1] = Nothing /\ 1 \in 1 .. Len(replay')
      BY <2>1, <3>1, ReplayType DEF LogWritten, LogInv
    <3>4. Nothing.cursor = 0 /\ Nothing.queue = <<>> /\ Nothing.max_seen = -1
      BY DEF Nothing
    <3>. QED
      BY <2>1, <3>2, <3>3, <3>4
  <2>. QED
    BY <2>1, <2>2 DEF LogReplays
<1>2. CASE PowerLossInErase \/ PowerLossInRewrite
  <2>1. spoiled' = TRUE /\ mode' = "scan"
    BY <1>2 DEF PowerLossInErase, PowerLossInRewrite, Reset
  <2>. QED
    BY <2>1 DEF LogReplays
<1>3. ~PowerLossInWrite /\ ~WriteFails /\ ~EraseFails /\ ~RewriteFails
  BY DEF PowerLossInWrite, WriteFails, EraseFails, RewriteFails, Fault
<1>. QED
  BY <1>1, <1>2, <1>3 DEF Failure

LEMMA LogStep ==
    ASSUME Faults \subseteq {"idle", "compact"}, LogInv, [Next]_vars
    PROVE  LogInv'
<1>1. TypeInv'
  BY TypeStep DEF LogInv
<1>2. CASE UNCHANGED vars
  <2>1. UNCHANGED <<flash, replay, mode, queue, write_offset, max_seen, plan, progress, spoiled>>
    BY <1>2 DEF vars, flashVars, compactionVars, historyVars
  <2>2. Recovered' = Recovered /\ Promise' = Promise
    BY <2>1 DEF Recovered, Promise
  <2>3. LogWritten => LogWritten'
    BY <2>1, LogKept
  <2>. QED
    BY <1>1, <2>1, <2>2, <2>3 DEF LogInv, LogReplays
<1>3. CASE Scan
  <2>1. CASE ~spoiled
    BY <1>1, <1>3, <2>1, ScanStep DEF LogInv
  <2>2. CASE spoiled
    <3>1. mode' \in {"scan", "ready"} /\ spoiled' = spoiled
      BY <1>3 DEF Scan, ScanRecord, ScanAck, ScanSkip, ScanStop, Scanning, historyVars
    <3>. QED
      BY <1>1, <2>2, <3>1 DEF LogInv, LogReplays
  <2>. QED
    BY <2>1, <2>2
<1>4. CASE Operation
  BY <1>1, <1>4, OperationStep DEF LogInv
<1>5. CASE Compact
  BY <1>1, <1>5, CompactStep DEF LogInv
<1>6. CASE Failure
  BY <1>1, <1>6, FailureStep DEF LogInv
<1>. QED
  BY <1>2, <1>3, <1>4, <1>5, <1>6 DEF Next

\* The log always replays.
THEOREM LogAlwaysReplays ==
    ASSUME Faults \subseteq {"idle", "compact"}
    PROVE  Spec => []LogReplays
<1>1. Init => LogInv
  BY TypeInit, LogInit DEF LogInv
<1>2. LogInv /\ [Next]_vars => LogInv'
  BY LogStep
<1>3. LogInv => LogReplays
  BY DEF LogInv
<1>. QED
  BY <1>1, <1>2, <1>3, PTL DEF Spec

-----------------------------------------------------------------------------
(* Numbers ascend while power is lost only between calls.  An              *)
(* acknowledgement in the last words of the region is not read back then,  *)
(* and no step of the replay behind it: recovery ends in front of it, with *)
(* the numbers of the steps before.                                        *)

Ascending(q) == \A i, j \in 1 .. Len(q) : i < j => q[i].sequence < q[j].sequence
Below(q, n) == \A i \in 1 .. Len(q) : q[i].sequence < n

\* The records a step of the replay leaves, and the numbers it has seen.
StepNumbers(e) ==
    /\ Ascending(e.queue) /\ Below(e.queue, e.max_seen + 1)
    /\ e.max_seen < appends

\* The replay up to step m is in flash, and recovery reads nothing behind it.
ReadableTo(m) ==
    /\ replay[1] = Nothing
    /\ \A i \in 1 .. m - 1 :
          RecordStep(replay[i], replay[i + 1]) \/ AckStep(replay[i], replay[i + 1])
    /\ \A i \in 1 .. m : replay[i].cursor <= replay[m].cursor /\ StepNumbers(replay[i])
    /\ replay[m].cursor + HeaderWords > RegionWords

AtStep(m) ==
    \E j \in 1 .. m :
        /\ write_offset = replay[j].cursor
        /\ queue = replay[j].queue
        /\ max_seen = replay[j].max_seen

NumbersInv ==
    /\ mode = "ready" =>
          Ascending(queue) /\ Below(queue, next_sequence) /\ next_sequence <= appends
    /\ mode \in {"erase", "rewrite"} =>
          Ascending(plan) /\ Below(plan, plan_next) /\ plan_next <= appends
    /\ mode = "rewrite" => ~spoiled
    /\ mode # "erase" /\ ~spoiled => \A i \in 1 .. Len(replay) : StepNumbers(replay[i])
    /\ mode \in {"scan", "ready"} /\ spoiled =>
          \E m \in 1 .. Len(replay) :
              /\ ReadableTo(m)
              /\ mode = "ready" => replay[m].cursor <= write_offset
              /\ mode = "scan" => AtStep(m)

LEMMA NumbersNatural == \A r \in Record : r.sequence \in Nat
<1>1. SequenceMod \in Nat
  BY SequenceType
<1>. QED
  BY <1>1 DEF Record, Sequence

\* Numbers of a part of an ascending queue, and of one more record.
LEMMA FromAscends ==
    ASSUME NEW q \in Seq(Record), NEW n \in Int, Ascending(q), Below(q, n),
           NEW k \in 1 .. Len(q) + 1
    PROVE  Ascending(From(q, k)) /\ Below(From(q, k), n)
<1>1. /\ Len(From(q, k)) = Len(q) - k + 1
      /\ \A i \in 1 .. Len(q) - k + 1 : From(q, k)[i] = q[i + k - 1]
  BY FromProperties
<1>2. Len(q) \in Nat /\ k \in Int
  OBVIOUS
<1>3. ASSUME NEW i \in 1 .. Len(From(q, k))
      PROVE  i + k - 1 \in 1 .. Len(q) /\ From(q, k)[i] = q[i + k - 1] /\ i \in Int
  BY <1>1, <1>2
<1>4. ASSUME NEW i \in 1 .. Len(From(q, k)), NEW j \in 1 .. Len(From(q, k)), i < j
      PROVE  From(q, k)[i].sequence < From(q, k)[j].sequence
  <2>1. i + k - 1 < j + k - 1
    BY <1>2, <1>3, <1>4
  <2>. QED
    BY <1>3, <2>1 DEF Ascending
<1>. QED
  BY <1>3, <1>4 DEF Ascending, Below

LEMMA AppendAscends ==
    ASSUME NEW q \in Seq(Record), NEW r \in Record, Ascending(q), Below(q, r.sequence),
           NEW n \in Int, r.sequence < n
    PROVE  Ascending(Append(q, r)) /\ Below(Append(q, r), n)
<1>1. /\ Len(Append(q, r)) = Len(q) + 1
      /\ \A i \in 1 .. Len(q) : Append(q, r)[i] = q[i]
      /\ Append(q, r)[Len(q) + 1] = r
      /\ Len(q) \in Nat
  OBVIOUS
<1>2. \A i \in 1 .. Len(q) : q[i].sequence \in Int /\ r.sequence \in Int
  <2>1. r.sequence \in Int
    BY NumbersNatural
  <2>2. \A i \in 1 .. Len(q) : q[i] \in Record
    OBVIOUS
  <2>. QED
    BY <2>1, <2>2, NumbersNatural
<1>3. ASSUME NEW i \in 1 .. Len(q) + 1
      PROVE  /\ i # Len(q) + 1 =>
                  i \in 1 .. Len(q) /\ Append(q, r)[i] = q[i] /\ q[i].sequence < r.sequence
             /\ i = Len(q) + 1 => Append(q, r)[i] = r
  BY <1>1 DEF Below
<1>4. Below(Append(q, r), n)
  BY <1>1, <1>2, <1>3 DEF Below
<1>5. Ascending(Append(q, r))
  <2>. SUFFICES ASSUME NEW i \in 1 .. Len(q) + 1, NEW j \in 1 .. Len(q) + 1, i < j
                PROVE  Append(q, r)[i].sequence < Append(q, r)[j].sequence
    BY <1>1 DEF Ascending
  <2>1. i # Len(q) + 1
    BY <1>1
  <2>2. CASE j = Len(q) + 1
    BY <1>3, <2>1, <2>2
  <2>3. CASE j # Len(q) + 1
    BY <1>3, <2>1, <2>3 DEF Ascending
  <2>. QED
    BY <2>2, <2>3
<1>. QED
  BY <1>4, <1>5

\* Dropping the oldest changes nothing of that.
LEMMA KeptAscends ==
    ASSUME NEW q \in Seq(Record), NEW r \in Record, Ascending(q), Below(q, r.sequence),
           NEW n \in Int, r.sequence < n, NEW k \in 1 .. Len(q) + 1
    PROVE  Ascending(From(q, k) \o <<r>>) /\ Below(From(q, k) \o <<r>>, n)
<1>1. From(q, k) \in Seq(Record)
  BY FromProperties
<1>2. Ascending(From(q, k)) /\ Below(From(q, k), r.sequence)
  <2>1. r.sequence \in Int
    BY NumbersNatural
  <2>. QED
    BY <2>1, FromAscends
<1>3. From(q, k) \o <<r>> = Append(From(q, k), r)
  BY <1>1
<1>. QED
  BY <1>1, <1>2, <1>3, AppendAscends

LEMMA NumbersTyped ==
    ASSUME TypeInv
    PROVE  /\ queue \in Seq(Record) /\ Len(queue) <= Capacity
           /\ plan \in Seq(Record) /\ Len(plan) <= Capacity
           /\ next_sequence \in Nat /\ plan_next \in Nat /\ appends \in Nat
           /\ max_seen \in Int /\ -1 <= max_seen
           /\ appends <= MaxAppends /\ MaxAppends \in Nat
           /\ RegionWords \in Nat /\ write_offset \in 0 .. RegionWords
           /\ progress \in Nat
           /\ \A r \in Record : r.sequence \in Nat
           /\ \A e \in Entry : e.max_seen \in Int /\ e.cursor \in Nat /\ e.queue \in Seq(Record)
           /\ \A i \in 1 .. Len(replay) : replay[i] \in Entry
           /\ Len(replay) \in Nat \ {0} /\ Recovered = replay[Len(replay)]
<1>1. \A s \in Sequence : s \in Nat
  <2>1. SequenceMod \in Nat
    BY SequenceType
  <2>. QED
    BY <2>1 DEF Sequence
<1>2. /\ queue \in Seq(Record) /\ Len(queue) <= Capacity
      /\ plan \in Seq(Record) /\ Len(plan) <= Capacity
      /\ next_sequence \in Sequence /\ plan_next \in Sequence
      /\ appends \in 0 .. MaxAppends
      /\ max_seen \in Sequence \cup {-1}
      /\ write_offset \in 0 .. RegionWords /\ progress \in Nat
  BY DEF TypeInv, TypeOK
<1>3. MaxAppends \in Nat /\ RegionWords \in Nat
  BY SpoolAssumption, FlashAssumption
<1>4. \A e \in Entry : e.max_seen \in Int /\ e.cursor \in Nat /\ e.queue \in Seq(Record)
  BY <1>1, <1>3 DEF Entry
<1>5. /\ \A i \in 1 .. Len(replay) : replay[i] \in Entry
      /\ Len(replay) \in Nat \ {0} /\ Recovered = replay[Len(replay)]
  BY ReplayType
<1>. QED
  BY <1>1, <1>2, <1>3, <1>4, <1>5, NumbersNatural

\* Numbers do not wrap.
LEMMA NextAbove ==
    ASSUME TypeInv, MaxAppends < SequenceMod, NEW s \in Int, -1 <= s, s < MaxAppends
    PROVE  NextOf(s) = s + 1
<1>1. SequenceMod \in Nat \ {0} /\ MaxAppends \in Nat
  BY NumbersTyped, SequenceType
<1>2. s + 1 \in 0 .. SequenceMod - 1
  BY <1>1
<1>. QED
  BY <1>1, <1>2 DEF NextOf

LEMMA NumbersInit == Init => NumbersInv
<1>. SUFFICES ASSUME Init PROVE NumbersInv
  OBVIOUS
<1>1. mode = "scan" /\ ~spoiled /\ replay = <<Nothing>> /\ appends = 0
  BY DEF Init
<1>2. Nothing.queue = <<>> /\ Nothing.max_seen = -1
  BY DEF Nothing
<1>3. StepNumbers(Nothing)
  BY <1>1, <1>2 DEF StepNumbers, Ascending, Below
<1>4. \A i \in 1 .. Len(replay) : replay[i] = Nothing
  BY <1>1
<1>. QED
  BY <1>1, <1>3, <1>4 DEF NumbersInv

\* Recovery ends with the numbers of a step of the replay.
LEMMA NumbersScan ==
    ASSUME LogInv, NumbersInv, Scan, MaxAppends < SequenceMod
    PROVE  NumbersInv'
<1>1. mode = "scan" /\ UNCHANGED <<flash, replay, spoiled, appends, plan, plan_next>>
  BY DEF Scan, ScanRecord, ScanAck, ScanSkip, ScanStop, Scanning, historyVars, compactionVars
<1>2. TypeInv
  BY DEF LogInv
<1>3. mode' \in {"scan", "ready"}
  BY <1>1 DEF Scan, ScanRecord, ScanAck, ScanSkip, ScanStop
<1>4. ASSUME NEW i, StepNumbers(replay[i])
      PROVE  StepNumbers(replay[i])'
  BY <1>1, <1>4 DEF StepNumbers
<1>5. ~spoiled => \A i \in 1 .. Len(replay) : StepNumbers(replay[i])
  BY <1>1 DEF NumbersInv
<1>6. ASSUME NEW j \in 1 .. Len(replay), StepNumbers(replay[j]),
             queue = replay[j].queue, max_seen = replay[j].max_seen, ScanStop
      PROVE  /\ mode' = "ready"
             /\ Ascending(queue') /\ Below(queue', next_sequence') /\ next_sequence' <= appends'
  <2>1. /\ mode' = "ready" /\ queue' = queue
        /\ next_sequence' = IF max_seen = -1 THEN 0 ELSE NextOf(max_seen)
    BY <1>6 DEF ScanStop
  <2>2. /\ Ascending(queue) /\ Below(queue, max_seen + 1) /\ max_seen < appends
        /\ max_seen \in Int /\ -1 <= max_seen /\ appends \in Nat /\ appends <= MaxAppends
        /\ MaxAppends \in Nat
    BY <1>2, <1>6, NumbersTyped DEF StepNumbers
  <2>3. NextOf(max_seen) = max_seen + 1
    BY <1>2, <2>2, NextAbove
  <2>4. next_sequence' = max_seen + 1
    BY <2>1, <2>2, <2>3
  <2>5. next_sequence' <= appends'
    BY <1>1, <2>2, <2>4
  <2>. QED
    BY <2>1, <2>2, <2>4, <2>5
<1>7. CASE ~spoiled
  <2>1. PICK j \in 1 .. Len(replay) :
            /\ write_offset = replay[j].cursor
            /\ queue = replay[j].queue
            /\ max_seen = replay[j].max_seen
    BY <1>1, <1>7 DEF LogInv, LogReplays
  <2>2. mode' = "ready" => ScanStop
    BY <1>1 DEF Scan, ScanRecord, ScanAck, ScanSkip
  <2>3. mode' = "ready" =>
          Ascending(queue') /\ Below(queue', next_sequence') /\ next_sequence' <= appends'
    BY <1>5, <1>6, <1>7, <2>1, <2>2
  <2>4. ~spoiled' /\ \A i \in 1 .. Len(replay') : StepNumbers(replay[i])'
    BY <1>1, <1>4, <1>5, <1>7
  <2>. QED
    BY <1>3, <2>3, <2>4 DEF NumbersInv
<1>8. CASE spoiled
  <2>1. PICK m \in 1 .. Len(replay) : ReadableTo(m) /\ AtStep(m)
    BY <1>1, <1>8 DEF NumbersInv
  <2>2. PICK j \in 1 .. m :
            /\ write_offset = replay[j].cursor
            /\ queue = replay[j].queue
            /\ max_seen = replay[j].max_seen
    BY <2>1 DEF AtStep
  <2>3. Len(replay) \in Nat /\ m \in Int /\ j \in 1 .. Len(replay)
    BY <1>2, NumbersTyped
  <2>4. ReadableTo(m)'
    <3>1. \A i \in 1 .. m - 1 :
            RecordStep(replay[i], replay[i + 1])' \/ AckStep(replay[i], replay[i + 1])'
      BY <1>1, <2>1 DEF ReadableTo, RecordStep, AckStep
    <3>2. \A i \in 1 .. m : StepNumbers(replay[i])'
      BY <1>4, <2>1 DEF ReadableTo
    <3>. QED
      BY <1>1, <2>1, <3>1, <3>2 DEF ReadableTo
  <2>5. StepNumbers(replay[j]) /\ replay[j].cursor <= replay[m].cursor
    BY <2>1 DEF ReadableTo
  <2>6. CASE j = m
    <3>1. ~HeaderAtCursor
      <4>1. write_offset + HeaderWords > RegionWords
        BY <2>1, <2>2, <2>6 DEF ReadableTo
      <4>2. write_offset \in Int /\ RegionWords \in Int /\ HeaderWords \in Int
        BY <1>2, NumbersTyped DEF HeaderWords
      <4>. QED
        BY <4>1, <4>2 DEF HeaderAtCursor, Fits
    <3>2. ScanStop
      BY <3>1 DEF Scan, ScanRecord, ScanAck, ScanSkip, Scanning
    <3>3. /\ mode' = "ready" /\ write_offset' = write_offset
          /\ Ascending(queue') /\ Below(queue', next_sequence') /\ next_sequence' <= appends'
      BY <1>6, <2>2, <2>3, <2>5, <3>2 DEF ScanStop
    <3>4. replay'[m].cursor <= write_offset'
      <4>1. replay'[m].cursor = write_offset' /\ write_offset' \in Int
        BY <1>1, <1>2, <2>2, <2>6, <3>3, NumbersTyped
      <4>. QED
        BY <4>1
    <3>5. m \in 1 .. Len(replay')
      BY <1>1
    <3>. QED
      BY <1>1, <1>8, <2>4, <3>3, <3>4, <3>5 DEF NumbersInv
  <2>7. CASE j # m
    <3>1. j \in 1 .. m - 1 /\ j + 1 \in 1 .. m /\ j + 1 \in 1 .. Len(replay)
      BY <2>3, <2>7
    <3>2. PICK a \in Entry, b \in Entry : a = replay[j] /\ b = replay[j + 1]
      BY <1>2, <2>3, <3>1, NumbersTyped
    <3>3. RecordStep(a, b) \/ AckStep(a, b)
      BY <2>1, <3>1, <3>2 DEF ReadableTo
    <3>4. /\ mode' = "scan"
          /\ write_offset' = b.cursor /\ queue' = b.queue /\ max_seen' = b.max_seen
      BY <1>1, <1>2, <2>2, <3>2, <3>3, ReadStep
    <3>5. AtStep(m)'
      BY <1>1, <3>1, <3>2, <3>4 DEF AtStep
    <3>6. m \in 1 .. Len(replay')
      BY <1>1
    <3>. QED
      BY <1>1, <1>8, <2>4, <3>4, <3>5, <3>6 DEF NumbersInv
  <2>. QED
    BY <2>6, <2>7
<1>. QED
  BY <1>7, <1>8

\* The steps of the replay keep their numbers, as appends only grows.
LEMMA StepKeepsNumbers ==
    ASSUME TypeInv, appends' \in Nat, appends <= appends', NEW e \in Entry, StepNumbers(e)
    PROVE  StepNumbers(e)'
<1>1. e.max_seen \in Int /\ appends \in Nat
  BY NumbersTyped
<1>. QED
  BY <1>1 DEF StepNumbers

\* One more step with numbers below those appended.
LEMMA NumbersLogged ==
    ASSUME TypeInv, \A i \in 1 .. Len(replay) : StepNumbers(replay[i]),
           NEW c \in 0 .. RegionWords, NEW q \in Seq(Record), NEW s \in Sequence,
           replay' = Logged(c, q, s), appends' \in Nat, appends <= appends',
           Ascending(q), Below(q, Larger(Recovered.max_seen, s) + 1),
           Larger(Recovered.max_seen, s) < appends'
    PROVE  \A i \in 1 .. Len(replay') : StepNumbers(replay[i])'
<1>0. PICK e : e = [cursor |-> c, queue |-> q, max_seen |-> Larger(Recovered.max_seen, s)]
  OBVIOUS
<1>1. /\ Len(replay') = Len(replay) + 1
      /\ \A i \in 1 .. Len(replay) : replay'[i] = replay[i]
      /\ replay'[Len(replay) + 1] = e
  BY <1>0, LoggedReplay
<1>2. StepNumbers(e)'
  <2>1. e.queue = q /\ e.max_seen = Larger(Recovered.max_seen, s)
    BY <1>0
  <2>2. Ascending(e.queue) /\ Below(e.queue, e.max_seen + 1) /\ e.max_seen < appends'
    BY <2>1
  <2>. QED
    BY <2>2 DEF StepNumbers, Ascending, Below
<1>3. Len(replay) \in Nat /\ \A i \in 1 .. Len(replay) : replay[i] \in Entry
  BY NumbersTyped
<1>4. ASSUME NEW i \in 1 .. Len(replay') PROVE StepNumbers(replay[i])'
  <2>1. CASE i = Len(replay) + 1
    <3>1. replay'[i] = e
      BY <1>1, <2>1
    <3>. QED
      BY <1>2, <3>1 DEF StepNumbers
  <2>2. CASE i # Len(replay) + 1
    <3>1. i \in 1 .. Len(replay)
      BY <1>1, <1>3, <2>2
    <3>2. PICK x \in Entry : x = replay[i] /\ StepNumbers(x)
      BY <1>3, <3>1
    <3>3. StepNumbers(x)'
      BY <3>2, StepKeepsNumbers
    <3>4. replay'[i] = x
      BY <1>1, <3>1, <3>2
    <3>. QED
      BY <3>3, <3>4 DEF StepNumbers
  <2>. QED
    BY <2>1, <2>2
<1>. QED
  BY <1>4

\* What is written behind a readable part of the log leaves it readable.
LEMMA ReadableKept ==
    ASSUME TypeInv, NEW m \in 1 .. Len(replay),
           replay[1] = Nothing,
           \A i \in 1 .. m - 1 :
              RecordStep(replay[i], replay[i + 1]) \/ AckStep(replay[i], replay[i + 1]),
           \A i \in 1 .. m : replay[i].cursor <= replay[m].cursor /\ StepNumbers(replay[i]),
           replay[m].cursor + HeaderWords > RegionWords,
           \A w \in 0 .. replay[m].cursor - 1 : flash'[w] = flash[w],
           \A i \in 1 .. Len(replay) : replay'[i] = replay[i],
           appends' \in Nat, appends <= appends'
    PROVE  ReadableTo(m)'
<1>1. /\ Len(replay) \in Nat \ {0} /\ m \in Int
      /\ \A i \in 1 .. Len(replay) : replay[i] \in Entry /\ replay[i].cursor \in 0 .. RegionWords
  BY ReplayType
<1>2. ASSUME NEW i \in 1 .. m PROVE i \in 1 .. Len(replay) /\ replay'[i] = replay[i]
  BY <1>1
<1>3. ASSUME NEW i \in 1 .. m - 1
      PROVE  RecordStep(replay[i], replay[i + 1])' \/ AckStep(replay[i], replay[i + 1])'
  <2>1. i \in 1 .. m /\ i + 1 \in 1 .. m
    BY <1>1
  <2>2. PICK x \in Entry, y \in Entry : x = replay[i] /\ y = replay[i + 1]
    BY <1>1, <1>2, <2>1
  <2>3. (RecordStep(x, y) \/ AckStep(x, y)) /\ y.cursor <= replay[m].cursor
    BY <2>1, <2>2
  <2>4. replay[m].cursor \in 0 .. RegionWords
    BY <1>1
  <2>5. RecordStep(x, y)' \/ AckStep(x, y)'
    BY <2>3, <2>4, StepKept
  <2>6. replay'[i] = x /\ replay'[i + 1] = y
    BY <1>2, <2>1, <2>2
  <2>. QED
    BY <2>5, <2>6 DEF RecordStep, AckStep
<1>4. ASSUME NEW i \in 1 .. m PROVE StepNumbers(replay[i])'
  <2>1. PICK x \in Entry : x = replay[i] /\ StepNumbers(x)
    BY <1>1, <1>2
  <2>2. StepNumbers(x)'
    BY <2>1, StepKeepsNumbers
  <2>3. replay'[i] = x
    BY <1>2, <2>1
  <2>. QED
    BY <2>2, <2>3 DEF StepNumbers
<1>5. replay'[1] = Nothing
  BY <1>1
<1>6. m \in 1 .. m
  BY <1>1
<1>. QED
  BY <1>2, <1>3, <1>4, <1>5, <1>6 DEF ReadableTo

\* Programming at the write offset leaves the words before it alone.
LEMMA ProgramBehind ==
    ASSUME TypeInv, NEW image, NEW n \in Nat, flash' = Program(write_offset, image, n)
    PROVE  \A w \in 0 .. write_offset - 1 : flash'[w] = flash[w]
<1>1. DOMAIN flash = 0 .. RegionWords - 1 /\ write_offset \in 0 .. RegionWords /\ RegionWords \in Nat
  BY SpoolAssumption DEF TypeInv, TypeOK
<1>2. ASSUME NEW w \in 0 .. write_offset - 1 PROVE flash'[w] = flash[w]
  <2>1. w \in DOMAIN flash /\ w \notin write_offset .. write_offset + n - 1
    BY <1>1
  <2>. QED
    BY <2>1 DEF Program
<1>. QED
  BY <1>2

\* Behind a whole log every word that fits is erased.
LEMMA TailErases ==
    ASSUME TypeInv, LogWritten, write_offset = Recovered.cursor, NEW n \in Nat, Fits(n)
    PROVE  Erased(n)
<1>1. write_offset \in 0 .. RegionWords /\ RegionWords \in Nat /\ write_offset + n <= RegionWords
  BY NumbersTyped DEF Fits
<1>2. ASSUME NEW w \in write_offset .. write_offset + n - 1 PROVE flash[w] = Blank
  <2>1. w \in write_offset .. RegionWords - 1
    BY <1>1
  <2>. QED
    BY <2>1 DEF LogWritten
<1>. QED
  BY <1>2 DEF Erased

LEMMA NumbersAppend ==
    ASSUME LogInv, NumbersInv, NEW p \in Payloads, AppendEntry(p), MaxAppends < SequenceMod
    PROVE  NumbersInv'
<1>. DEFINE r == Incoming(p)
            n == RecordWords(r)
<1>1. /\ mode = "ready" /\ mode' = "ready" /\ appends < MaxAppends /\ appends' = appends + 1
      /\ Fits(n) /\ spoiled' = (spoiled \/ Spoils(n)) /\ write_offset' = write_offset + n
      /\ queue' = Push(queue, r) /\ next_sequence' = NextOf(next_sequence)
      /\ replay' = Logged(write_offset', queue', r.sequence)
  BY DEF AppendEntry, Appending
<1>2. TypeInv /\ r \in Record /\ r.sequence = next_sequence
  BY IncomingType DEF LogInv, TypeInv, TypeOK, Incoming
<1>3. n \in Nat /\ n > HeaderWords
  BY <1>2, RecordWordsType
<1>4. /\ Ascending(queue) /\ Below(queue, next_sequence) /\ next_sequence <= appends
      /\ queue \in Seq(Record) /\ Len(queue) <= Capacity
      /\ next_sequence \in Nat /\ appends \in Nat /\ MaxAppends \in Nat
      /\ RegionWords \in Nat /\ write_offset \in 0 .. RegionWords
  BY <1>1, <1>2, NumbersTyped DEF NumbersInv
<1>. HIDE DEF n, r
<1>5. next_sequence' = next_sequence + 1
  BY <1>1, <1>2, <1>4, NextAbove
<1>6. queue' \in Seq(Record) /\ Ascending(queue') /\ Below(queue', next_sequence + 1)
  <2>1. PICK k \in 1 .. Len(queue) + 1 : Push(queue, r) = From(queue, k) \o <<r>>
    BY <1>2, <1>4, PushKeeps
  <2>2. Push(queue, r) \in Seq(Record)
    BY <1>2, <1>4, PushProperties
  <2>3. next_sequence + 1 \in Int /\ r.sequence < next_sequence + 1 /\ Below(queue, r.sequence)
    BY <1>2, <1>4
  <2>4. /\ Ascending(From(queue, k) \o <<r>>)
        /\ Below(From(queue, k) \o <<r>>, next_sequence + 1)
    BY <1>2, <1>4, <2>3, KeptAscends
  <2>. QED
    BY <1>1, <2>1, <2>2, <2>4
<1>7. Fits(HeaderWords)
  BY <1>1, <1>3, <1>4 DEF Fits, HeaderWords
<1>8. ~spoiled
  <2>. SUFFICES ASSUME spoiled PROVE FALSE
    OBVIOUS
  <2>1. PICK m \in 1 .. Len(replay) : ReadableTo(m) /\ replay[m].cursor <= write_offset
    BY <1>1 DEF NumbersInv
  <2>2. replay[m].cursor + HeaderWords > RegionWords /\ replay[m].cursor \in 0 .. RegionWords
    BY <1>2, <2>1, ReplayType DEF ReadableTo
  <2>3. replay[m].cursor <= write_offset
    BY <2>1
  <2>. QED
    BY <1>4, <1>7, <2>2, <2>3 DEF Fits, HeaderWords
<1>9. LogWritten /\ write_offset = Recovered.cursor /\ queue = Promise
  BY <1>1, <1>8 DEF LogInv, LogReplays
<1>10. ~spoiled'
  <2>1. Erased(n)
    BY <1>1, <1>2, <1>3, <1>9, TailErases
  <2>. QED
    BY <1>1, <1>7, <1>8, <2>1 DEF Spoils
<1>11. \A i \in 1 .. Len(replay) : StepNumbers(replay[i])
  BY <1>1, <1>8 DEF NumbersInv
<1>12. Recovered.max_seen \in Int /\ Recovered.max_seen < appends
  <2>1. Recovered \in Entry /\ StepNumbers(Recovered)
    BY <1>2, <1>11, NumbersTyped
  <2>. QED
    BY <1>2, <2>1, NumbersTyped DEF StepNumbers
<1>13. \A i \in 1 .. Len(replay') : StepNumbers(replay[i])'
  <2>1. write_offset' \in 0 .. RegionWords
    BY <1>1, <1>3, <1>4 DEF Fits
  <2>2. r.sequence \in Sequence
    BY <1>2 DEF Record
  <2>3. /\ Larger(Recovered.max_seen, r.sequence) < appends'
        /\ next_sequence <= Larger(Recovered.max_seen, r.sequence)
        /\ Larger(Recovered.max_seen, r.sequence) \in Int
    BY <1>1, <1>2, <1>4, <1>12 DEF Larger
  <2>4. Below(queue', Larger(Recovered.max_seen, r.sequence) + 1)
    <3>1. \A i \in 1 .. Len(queue') : queue'[i].sequence \in Nat
      <4>1. \A i \in 1 .. Len(queue') : queue'[i] \in Record
        BY <1>6
      <4>. QED
        BY <4>1, NumbersNatural
    <3>. QED
      BY <1>4, <1>6, <2>3, <3>1 DEF Below
  <2>5. appends' \in Nat /\ appends <= appends'
    BY <1>1, <1>4
  <2>. QED
    BY <1>1, <1>2, <1>6, <1>11, <2>1, <2>2, <2>3, <2>4, <2>5, NumbersLogged
<1>14. next_sequence' <= appends'
  BY <1>1, <1>4, <1>5
<1>. QED
  BY <1>1, <1>5, <1>6, <1>10, <1>13, <1>14 DEF NumbersInv

LEMMA NumbersAcknowledge ==
    ASSUME LogInv, NumbersInv, AcknowledgeEntry
    PROVE  NumbersInv'
<1>1. /\ mode = "ready" /\ mode' = "ready" /\ appends' = appends /\ queue # <<>>
      /\ Fits(AckWords) /\ spoiled' = (spoiled \/ Spoils(AckWords))
      /\ write_offset' = write_offset + AckWords
      /\ queue' = Tail(queue) /\ next_sequence' = next_sequence
      /\ replay' = Logged(write_offset', queue', Head(queue).sequence)
      /\ flash' = Program(write_offset, AckImage(Head(queue).sequence), AckWords)
  BY DEF AcknowledgeEntry
<1>2. /\ TypeInv
      /\ Ascending(queue) /\ Below(queue, next_sequence) /\ next_sequence <= appends
      /\ queue \in Seq(Record) /\ next_sequence \in Nat /\ appends \in Nat
      /\ RegionWords \in Nat /\ write_offset \in 0 .. RegionWords /\ AckWords \in Nat
  BY <1>1, NumbersTyped DEF NumbersInv, LogInv, AckWords
<1>3. queue' \in Seq(Record) /\ Ascending(queue') /\ Below(queue', next_sequence)
  <2>1. From(queue, 2) = Tail(queue) /\ 2 \in 1 .. Len(queue) + 1
    BY <1>1, <1>2, FromEnds
  <2>2. Ascending(From(queue, 2)) /\ Below(From(queue, 2), next_sequence)
    BY <1>2, <2>1, FromAscends
  <2>3. Tail(queue) \in Seq(Record)
    BY <1>1, <1>2
  <2>. QED
    BY <1>1, <2>1, <2>2, <2>3, Zenon
<1>4. write_offset' \in 0 .. RegionWords /\ write_offset <= write_offset'
  BY <1>1, <1>2 DEF Fits
<1>5. Head(queue) \in Record /\ Head(queue).sequence \in Sequence
  <2>1. Head(queue) \in Record
    BY <1>1, <1>2
  <2>. QED
    BY <2>1 DEF Record
<1>6. /\ Len(replay') = Len(replay) + 1
      /\ \A i \in 1 .. Len(replay) : replay'[i] = replay[i]
      /\ Len(replay) \in Nat \ {0}
      /\ \A i \in 1 .. Len(replay) : replay[i].cursor \in 0 .. RegionWords
  BY <1>1, <1>2, <1>3, <1>4, <1>5, LoggedReplay, ReplayType
<1>7. \A w \in 0 .. write_offset - 1 : flash'[w] = flash[w]
  BY <1>1, <1>2, ProgramBehind
<1>8. ASSUME NEW m \in 1 .. Len(replay), replay[m].cursor <= write_offset,
             replay[1] = Nothing,
             \A i \in 1 .. m - 1 :
                RecordStep(replay[i], replay[i + 1]) \/ AckStep(replay[i], replay[i + 1]),
             \A i \in 1 .. m : replay[i].cursor <= replay[m].cursor /\ StepNumbers(replay[i]),
             replay[m].cursor + HeaderWords > RegionWords, spoiled'
      PROVE  NumbersInv'
  <2>1. \A w \in 0 .. replay[m].cursor - 1 : flash'[w] = flash[w]
    <3>1. replay[m].cursor \in 0 .. RegionWords
      BY <1>6
    <3>. QED
      BY <1>2, <1>7, <1>8, <3>1
  <2>2. appends' \in Nat /\ appends <= appends'
    BY <1>1, <1>2
  <2>3. ReadableTo(m)'
    BY <1>2, <1>6, <1>8, <2>1, <2>2, ReadableKept
  <2>4. m \in 1 .. Len(replay') /\ replay'[m].cursor <= write_offset'
    <3>1. replay[m].cursor \in 0 .. RegionWords
      BY <1>6
    <3>. QED
      BY <1>2, <1>4, <1>6, <1>8, <3>1
  <2>. QED
    BY <1>1, <1>2, <1>3, <1>8, <2>3, <2>4 DEF NumbersInv
<1>9. CASE spoiled
  <2>1. PICK m \in 1 .. Len(replay) : ReadableTo(m) /\ replay[m].cursor <= write_offset
    BY <1>1, <1>9 DEF NumbersInv
  <2>. QED
    BY <1>1, <1>8, <1>9, <2>1 DEF ReadableTo
<1>10. CASE ~spoiled
  <2>1. LogWritten /\ write_offset = Recovered.cursor /\ queue = Promise
    BY <1>1, <1>10 DEF LogInv, LogReplays
  <2>2. \A i \in 1 .. Len(replay) : StepNumbers(replay[i])
    BY <1>1, <1>10 DEF NumbersInv
  <2>3. Recovered = replay[Len(replay)] /\ Len(replay) \in 1 .. Len(replay)
    BY <1>2, <1>6, NumbersTyped
  <2>4. CASE Fits(HeaderWords)
    <3>1. Erased(AckWords)
      BY <1>1, <1>2, <2>1, TailErases
    <3>2. ~spoiled'
      BY <1>1, <1>10, <2>4, <3>1 DEF Spoils
    <3>3. /\ Recovered.max_seen \in Int /\ Recovered.max_seen < appends
          /\ Below(queue, Recovered.max_seen + 1)
      <4>1. Recovered \in Entry /\ StepNumbers(Recovered)
        BY <1>2, <2>2, <2>3, NumbersTyped
      <4>. QED
        BY <1>2, <2>1, <4>1, NumbersTyped DEF StepNumbers, Promise
    <3>4. Head(queue).sequence \in Nat /\ Head(queue).sequence <= Recovered.max_seen
      <4>1. 1 \in 1 .. Len(queue) /\ Head(queue) = queue[1]
        BY <1>1, <1>2
      <4>2. Head(queue).sequence \in Nat
        BY <1>5, NumbersNatural
      <4>. QED
        BY <3>3, <4>1, <4>2 DEF Below
    <3>5. Larger(Recovered.max_seen, Head(queue).sequence) = Recovered.max_seen
      BY <3>3, <3>4 DEF Larger
    <3>6. Below(queue', Recovered.max_seen + 1)
      <4>1. From(queue, 2) = Tail(queue) /\ 2 \in 1 .. Len(queue) + 1
        BY <1>1, <1>2, FromEnds
      <4>2. Recovered.max_seen + 1 \in Int
        BY <3>3
      <4>3. Below(From(queue, 2), Recovered.max_seen + 1)
        BY <1>2, <3>3, <4>1, <4>2, FromAscends
      <4>. QED
        BY <1>1, <4>1, <4>3
    <3>7. \A i \in 1 .. Len(replay') : StepNumbers(replay[i])'
      <4>1. appends' \in Nat /\ appends <= appends'
        BY <1>1, <1>2
      <4>2. /\ Below(queue', Larger(Recovered.max_seen, Head(queue).sequence) + 1)
            /\ Larger(Recovered.max_seen, Head(queue).sequence) < appends'
        BY <1>1, <3>3, <3>5, <3>6
      <4>. QED
        BY <1>1, <1>2, <1>3, <1>4, <1>5, <2>2, <4>1, <4>2, NumbersLogged
    <3>. QED
      BY <1>1, <1>2, <1>3, <3>2, <3>7 DEF NumbersInv
  <2>5. CASE ~Fits(HeaderWords)
    <3>1. spoiled'
      BY <1>1, <2>5 DEF Spoils
    <3>2. replay[Len(replay)].cursor + HeaderWords > RegionWords
      BY <1>2, <2>1, <2>3, <2>5 DEF Fits, HeaderWords
    <3>3. /\ replay[1] = Nothing
          /\ \A i \in 1 .. Len(replay) - 1 :
               RecordStep(replay[i], replay[i + 1]) \/ AckStep(replay[i], replay[i + 1])
          /\ \A i \in 1 .. Len(replay) : replay[i].cursor <= replay[Len(replay)].cursor
      BY <2>1, <2>3 DEF LogWritten
    <3>4. replay[Len(replay)].cursor <= write_offset
      BY <1>2, <2>1, <2>3
    <3>. QED
      BY <1>8, <2>2, <2>3, <3>1, <3>2, <3>3, <3>4
  <2>. QED
    BY <2>4, <2>5
<1>. QED
  BY <1>9, <1>10

\* What a compaction will write back ascends, with the numbers to go on from.
LEMMA NumbersPlanned ==
    ASSUME LogInv, NumbersInv, MaxAppends < SequenceMod,
           (\E p \in Payloads : AppendCompacting(p)) \/ AcknowledgeCompacting
    PROVE  NumbersInv'
<1>1. mode = "ready" /\ mode' = "erase"
  BY DEF AppendCompacting, AcknowledgeCompacting, Appending
<1>2. /\ TypeInv
      /\ Ascending(queue) /\ Below(queue, next_sequence) /\ next_sequence <= appends
      /\ queue \in Seq(Record) /\ Len(queue) <= Capacity
      /\ next_sequence \in Nat /\ appends \in Nat /\ MaxAppends \in Nat
  BY <1>1, NumbersTyped DEF NumbersInv, LogInv
<1>3. ASSUME NEW p \in Payloads, AppendCompacting(p)
      PROVE  Ascending(plan') /\ Below(plan', plan_next') /\ plan_next' <= appends'
  <2>. DEFINE r == Incoming(p)
  <2>1. /\ plan' = Fitting(Push(queue, r)) /\ plan_next' = NextOf(next_sequence)
        /\ appends' = appends + 1 /\ appends < MaxAppends
    BY <1>3 DEF AppendCompacting, Appending
  <2>2. r \in Record /\ r.sequence = next_sequence
    BY <1>2, IncomingType DEF TypeInv, TypeOK, Incoming
  <2>. HIDE DEF r
  <2>3. plan_next' = next_sequence + 1
    BY <1>2, <2>1, NextAbove
  <2>4. PICK k \in 1 .. Len(queue) + 1 : Fitting(Push(queue, r)) = From(queue, k) \o <<r>>
    BY <1>2, <2>2, FittingKeeps
  <2>5. next_sequence + 1 \in Int /\ r.sequence < next_sequence + 1 /\ Below(queue, r.sequence)
    BY <1>2, <2>2
  <2>6. /\ Ascending(From(queue, k) \o <<r>>)
        /\ Below(From(queue, k) \o <<r>>, next_sequence + 1)
    BY <1>2, <2>2, <2>5, KeptAscends
  <2>7. plan_next' <= appends'
    BY <1>2, <2>1, <2>3
  <2>. QED
    BY <2>1, <2>3, <2>4, <2>6, <2>7
<1>4. ASSUME AcknowledgeCompacting
      PROVE  Ascending(plan') /\ Below(plan', plan_next') /\ plan_next' <= appends'
  <2>1. /\ queue # <<>> /\ plan' = Tail(queue) /\ plan_next' = next_sequence
        /\ appends' = appends
    BY <1>4 DEF AcknowledgeCompacting, historyVars
  <2>2. From(queue, 2) = Tail(queue) /\ 2 \in 1 .. Len(queue) + 1
    BY <1>2, <2>1, FromEnds
  <2>3. Ascending(From(queue, 2)) /\ Below(From(queue, 2), next_sequence)
    BY <1>2, <2>2, FromAscends
  <2>4. Ascending(plan') /\ Below(plan', plan_next')
    BY <2>1, <2>2, <2>3, Zenon
  <2>. QED
    BY <1>2, <2>1, <2>4
<1>5. Ascending(plan') /\ Below(plan', plan_next') /\ plan_next' <= appends'
  <2>1. CASE \E p \in Payloads : AppendCompacting(p)
    BY <1>3, <2>1, Zenon
  <2>. QED
    BY <1>4, <2>1, Zenon
<1>. QED
  BY <1>1, <1>5 DEF NumbersInv

\* The numbers of what is written back are those of the plan.
LEMMA NumbersCompact ==
    ASSUME LogInv, NumbersInv, Compact
    PROVE  NumbersInv'
<1>1. /\ TypeInv
      /\ mode \in {"erase", "rewrite"} /\ appends' = appends
      /\ Ascending(plan) /\ Below(plan, plan_next) /\ plan_next <= appends
      /\ plan \in Seq(Record) /\ Len(plan) <= Capacity /\ plan_next \in Nat /\ appends \in Nat
      /\ RegionWords \in Nat /\ write_offset \in 0 .. RegionWords /\ progress \in Nat
  <2>1. mode \in {"erase", "rewrite"} /\ appends' = appends
    BY DEF Compact, EraseSector, StartRewrite, RewriteRecord, RewriteDone, historyVars
  <2>. QED
    BY <2>1, NumbersTyped DEF NumbersInv, LogInv
<1>2. CASE EraseSector
  <2>1. mode' = "erase" /\ plan' = plan /\ plan_next' = plan_next
    BY <1>2 DEF EraseSector
  <2>. QED
    BY <1>1, <2>1 DEF NumbersInv
<1>3. CASE StartRewrite
  <2>1. /\ mode' = "rewrite" /\ plan' = plan /\ plan_next' = plan_next
        /\ ~spoiled' /\ replay' = <<Nothing>>
    BY <1>3 DEF StartRewrite
  <2>2. Nothing.queue = <<>> /\ Nothing.max_seen = -1
    BY DEF Nothing
  <2>3. StepNumbers(Nothing)'
    BY <1>1, <2>2 DEF StepNumbers, Ascending, Below, Nothing
  <2>4. ASSUME NEW i \in 1 .. Len(replay') PROVE StepNumbers(replay[i])'
    <3>1. replay'[i] = Nothing
      BY <2>1
    <3>. QED
      BY <2>3, <3>1 DEF StepNumbers, Nothing
  <2>. QED
    BY <1>1, <2>1, <2>4 DEF NumbersInv
<1>4. CASE RewriteRecord
  <2>. DEFINE r == NextRecord
              n == RecordWords(r)
  <2>1. /\ mode = "rewrite" /\ mode' = "rewrite" /\ progress < Len(plan)
        /\ plan' = plan /\ plan_next' = plan_next
        /\ progress + 1 \in 1 .. Len(plan) /\ r = plan[progress + 1]
    BY <1>1, <1>4 DEF RewriteRecord, NextRecord
  <2>2. r \in Record /\ Len(NextImage) = n /\ NextImage = RecordImage(r)
    BY <1>1, <2>1, NextRecordType DEF NextImage
  <2>3. /\ Fits(n) /\ spoiled' = (spoiled \/ Spoils(n))
        /\ write_offset' = write_offset + n
        /\ replay' = Logged(write_offset', Push(Promise, r), r.sequence)
    BY <1>4, <2>2 DEF RewriteRecord
  <2>4. n \in Nat /\ n > HeaderWords
    BY <2>2, RecordWordsType
  <2>. HIDE DEF r, n
  <2>5. ~spoiled /\ \A i \in 1 .. Len(replay) : StepNumbers(replay[i])
    BY <2>1 DEF NumbersInv
  <2>6. /\ LogWritten /\ write_offset = Recovered.cursor
        /\ Promise = SubSeq(plan, 1, progress)
    BY <2>1, <2>5 DEF LogInv, LogReplays
  <2>7. ~spoiled'
    <3>1. Erased(n)
      BY <1>1, <2>3, <2>4, <2>6, TailErases
    <3>2. Fits(HeaderWords)
      BY <1>1, <2>3, <2>4 DEF Fits, HeaderWords
    <3>. QED
      BY <2>3, <2>5, <3>1, <3>2 DEF Spoils
  <2>8. /\ Promise \in Seq(Record) /\ Len(Promise) = progress
        /\ \A i \in 1 .. progress : Promise[i] = plan[i]
    BY <1>1, <2>1, <2>6, SubSeqProperties
  <2>9. Push(Promise, r) = Append(Promise, r)
    BY <1>1, <2>1, <2>8, SpoolAssumption DEF Push
  <2>10. Ascending(Promise) /\ Below(Promise, r.sequence)
    <3>1. ASSUME NEW i \in 1 .. progress
          PROVE  i \in 1 .. Len(plan) /\ i < progress + 1 /\ Promise[i] = plan[i]
      BY <1>1, <2>1, <2>8
    <3>2. Below(Promise, r.sequence)
      BY <1>1, <2>1, <2>8, <3>1 DEF Ascending, Below
    <3>3. Ascending(Promise)
      BY <1>1, <2>8, <3>1 DEF Ascending
    <3>. QED
      BY <3>2, <3>3
  <2>11. r.sequence \in Nat /\ r.sequence < plan_next /\ r.sequence \in Sequence
    <3>1. r.sequence < plan_next
      BY <1>1, <2>1 DEF Below
    <3>. QED
      BY <2>2, <3>1, NumbersNatural DEF Record
  <2>12. Recovered.max_seen \in Int /\ Recovered.max_seen < appends
    <3>1. Recovered \in Entry /\ StepNumbers(Recovered)
      BY <1>1, <2>5, NumbersTyped
    <3>. QED
      BY <1>1, <3>1, NumbersTyped DEF StepNumbers
  <2>13. PICK top \in Int : top = Larger(Recovered.max_seen, r.sequence)
    BY <2>11, <2>12 DEF Larger
  <2>14. r.sequence < top + 1 /\ top < appends' /\ top + 1 \in Int
    BY <1>1, <2>11, <2>12, <2>13 DEF Larger
  <2>15. PICK q \in Seq(Record) : q = Push(Promise, r)
    BY <2>2, <2>8, <2>9
  <2>16. Ascending(q) /\ Below(q, top + 1)
    <3>1. Ascending(Append(Promise, r)) /\ Below(Append(Promise, r), top + 1)
      BY <2>2, <2>8, <2>10, <2>14, AppendAscends
    <3>. QED
      BY <2>9, <2>15, <3>1, Zenon
  <2>17. write_offset' \in 0 .. RegionWords
    BY <1>1, <2>3, <2>4 DEF Fits
  <2>18. \A i \in 1 .. Len(replay') : StepNumbers(replay[i])'
    <3>1. appends' \in Nat /\ appends <= appends'
      BY <1>1
    <3>. QED
      BY <1>1, <2>3, <2>5, <2>11, <2>13, <2>14, <2>15, <2>16, <2>17, <3>1, NumbersLogged
  <2>. QED
    BY <1>1, <2>1, <2>7, <2>18 DEF NumbersInv
<1>5. CASE RewriteDone
  <2>1. /\ mode = "rewrite" /\ mode' = "ready" /\ queue' = plan /\ next_sequence' = plan_next
        /\ spoiled' = spoiled /\ replay' = replay
    BY <1>5 DEF RewriteDone, historyVars
  <2>2. ~spoiled' /\ \A i \in 1 .. Len(replay') : StepNumbers(replay[i])'
    <3>1. ~spoiled /\ \A i \in 1 .. Len(replay) : StepNumbers(replay[i])
      BY <2>1 DEF NumbersInv
    <3>. QED
      BY <1>1, <2>1, <3>1 DEF StepNumbers
  <2>. QED
    BY <1>1, <2>1, <2>2 DEF NumbersInv
<1>. QED
  BY <1>2, <1>3, <1>4, <1>5 DEF Compact

\* After a power loss between calls recovery begins at the first step.
LEMMA NumbersFailure ==
    ASSUME LogInv, NumbersInv, Failure, Faults \subseteq {"idle"}
    PROVE  NumbersInv'
<1>1. PowerLoss
  BY DEF Failure, PowerLossInWrite, PowerLossInErase, PowerLossInRewrite,
         WriteFails, EraseFails, RewriteFails, Fault
<1>2. /\ mode \in {"scan", "ready"} /\ mode' = "scan" /\ write_offset' = 0
      /\ queue' = <<>> /\ max_seen' = -1
      /\ UNCHANGED <<flash, replay, spoiled, appends>>
  BY <1>1 DEF PowerLoss, Reset
<1>3. CASE ~spoiled
  <2>1. \A i \in 1 .. Len(replay) : StepNumbers(replay[i])
    BY <1>2, <1>3 DEF NumbersInv
  <2>2. \A i \in 1 .. Len(replay') : StepNumbers(replay[i])'
    BY <1>2, <2>1 DEF StepNumbers
  <2>. QED
    BY <1>2, <1>3, <2>2 DEF NumbersInv
<1>4. CASE spoiled
  <2>1. PICK m \in 1 .. Len(replay) : ReadableTo(m)
    BY <1>2, <1>4 DEF NumbersInv
  <2>2. TypeInv /\ appends \in Nat
    BY NumbersTyped DEF LogInv
  <2>3. ReadableTo(m)'
    BY <1>2, <2>1, <2>2, ReadableKept DEF ReadableTo
  <2>4. AtStep(m)'
    <3>1. replay'[1] = Nothing /\ 1 \in 1 .. m
      BY <1>2, <2>1, <2>2, NumbersTyped DEF ReadableTo
    <3>2. Nothing.cursor = 0 /\ Nothing.queue = <<>> /\ Nothing.max_seen = -1
      BY DEF Nothing
    <3>. QED
      BY <1>2, <3>1, <3>2 DEF AtStep
  <2>5. m \in 1 .. Len(replay')
    BY <1>2
  <2>. QED
    BY <1>2, <1>4, <2>3, <2>4, <2>5 DEF NumbersInv
<1>. QED
  BY <1>3, <1>4

LEMMA NumbersStep ==
    ASSUME Faults \subseteq {"idle"}, MaxAppends < SequenceMod, LogInv, NumbersInv, [Next]_vars
    PROVE  NumbersInv'
<1>1. CASE UNCHANGED vars
  <2>1. UNCHANGED <<flash, mode, queue, next_sequence, write_offset, max_seen, plan, plan_next,
                    replay, spoiled, appends>>
    BY <1>1 DEF vars, flashVars, compactionVars, historyVars
  <2>. QED
    BY <2>1 DEF NumbersInv, StepNumbers, ReadableTo, AtStep, RecordStep, AckStep
<1>2. CASE Scan
  BY <1>2, NumbersScan
<1>3. CASE Operation
  BY <1>3, NumbersAppend, NumbersAcknowledge, NumbersPlanned DEF Operation
<1>4. CASE Compact
  BY <1>4, NumbersCompact
<1>5. CASE Failure
  BY <1>5, NumbersFailure
<1>. QED
  BY <1>1, <1>2, <1>3, <1>4, <1>5 DEF Next

\* Pending records ascend in their numbers and the next number is above them,
\* through recoveries, compactions and acknowledgements that are not read back
\* (recover_with_report, append, rewrite_records), if power is lost only between
\* calls and fewer records are appended than there are numbers.
THEOREM NumbersAscend ==
    ASSUME Faults \subseteq {"idle"}, MaxAppends < SequenceMod
    PROVE  Spec => []SequenceOrder
<1>1. Init => LogInv /\ NumbersInv
  BY TypeInit, LogInit, NumbersInit DEF LogInv
<1>2. LogInv /\ NumbersInv /\ [Next]_vars => LogInv' /\ NumbersInv'
  BY LogStep, NumbersStep
<1>3. LogInv /\ NumbersInv => SequenceOrder
  <2>. SUFFICES ASSUME LogInv, NumbersInv, mode = "ready"
                PROVE  Ascending(queue) /\ Below(queue, next_sequence) /\ queue \in Seq(Record)
    BY DEF SequenceOrder, Ascending, Below
  <2>. QED
    BY NumbersTyped DEF NumbersInv, LogInv
<1>. QED
  BY <1>1, <1>2, <1>3, PTL DEF Spec

-----------------------------------------------------------------------------
(* Recovery after every fault.  A cut-off write leaves words that belong   *)
(* to no entry of the replay: recovery passes over an unreadable word, it  *)
(* reads the words of a cut-off acknowledgement as one of another number,  *)
(* and stops at any other part of an entry.  So there is a log, longer     *)
(* than the replay, that follows the flash from its start to where         *)
(* recovery stops, and leaves the promised queue.                          *)

JunkStep(a, b) ==
    /\ flash[a.cursor] = Junk
    /\ a.cursor + HeaderWords <= RegionWords
    /\ b.cursor = a.cursor + 1 /\ b.queue = a.queue /\ b.max_seen = a.max_seen

LogStepTo(a, b) == RecordStep(a, b) \/ AckStep(a, b) \/ JunkStep(a, b)

BlankFrom(e) == \A w \in e .. RegionWords - 1 : flash[w] = Blank

\* Part of a record, or the magic word of an acknowledgement and nothing else.
Unreadable(e) ==
    /\ e + HeaderWords <= RegionWords
    /\ \/ /\ flash[e] = RecordMagic
          /\ \A r \in Record : e + RecordWords(r) <= RegionWords =>
                \E k \in 1 .. RecordWords(r) :
                    k \notin {3, 4} /\ flash[e + k - 1] # RecordImage(r)[k]
       \/ flash[e] = AckMagic /\ flash[e + 1] = Blank

End(log) == log[Len(log)].cursor

LogRead(log) ==
    /\ log # <<>> /\ log[1] = Nothing
    /\ \A i \in 1 .. Len(log) - 1 : LogStepTo(log[i], log[i + 1])
    /\ \A i \in 1 .. Len(log) : log[i].cursor <= End(log)
    /\ log[Len(log)].queue = Promise
    /\ TotalWords(Promise) <= End(log)
    /\ BlankFrom(End(log)) \/ Unreadable(End(log))

\* Where the storage task is in it.  After a failed write the next entry
\* would still go in front of the end, on words that are not erased.
InLog(log) ==
    /\ mode = "ready" =>
          queue = Promise /\ (write_offset = End(log) \/ flash[write_offset] # Blank)
    /\ mode = "scan" =>
          \E j \in 1 .. Len(log) :
              /\ write_offset = log[j].cursor
              /\ queue = log[j].queue
              /\ max_seen = log[j].max_seen
    /\ mode = "rewrite" =>
          /\ write_offset = End(log) /\ BlankFrom(End(log))
          /\ Promise = SubSeq(plan, 1, progress)
          /\ progress <= Len(plan)

TornInv ==
    /\ TypeInv
    /\ mode # "erase" /\ ~spoiled => \E log \in Seq(Entry) : LogRead(log) /\ InLog(log)
    /\ mode = "erase" => \A w \in 0 .. RegionWords - 1 : w < progress => flash[w] = Blank

\* The parts of a log.
LEMMA LogParts ==
    ASSUME NEW log \in Seq(Entry), log # <<>>
    PROVE  /\ Len(log) \in Nat \ {0}
           /\ \A i \in 1 .. Len(log) :
                log[i] \in Entry /\ log[i].cursor \in 0 .. RegionWords /\ log[i].cursor \in Nat
           /\ End(log) \in 0 .. RegionWords
<1>1. Len(log) \in Nat \ {0}
  OBVIOUS
<1>2. \A i \in 1 .. Len(log) : log[i] \in Entry
  OBVIOUS
<1>3. \A e \in Entry : e.cursor \in 0 .. RegionWords /\ e.cursor \in Nat
  BY SpoolAssumption DEF Entry
<1>. QED
  BY <1>1, <1>2, <1>3 DEF End

\* A step only depends on the words in front of its end.
LEMMA LogStepKept ==
    ASSUME TypeInv, NEW a \in Entry, NEW b \in Entry, NEW c \in 0 .. RegionWords,
           b.cursor <= c, \A w \in 0 .. c - 1 : flash'[w] = flash[w],
           LogStepTo(a, b)
    PROVE  LogStepTo(a, b)'
<1>1. CASE RecordStep(a, b) \/ AckStep(a, b)
  <2>1. RecordStep(a, b)' \/ AckStep(a, b)'
    BY <1>1, StepKept
  <2>. QED
    BY <2>1 DEF LogStepTo
<1>2. CASE JunkStep(a, b)
  <2>1. a.cursor \in 0 .. RegionWords /\ b.cursor = a.cursor + 1 /\ RegionWords \in Nat
    BY <1>2, SpoolAssumption DEF JunkStep, Entry
  <2>2. a.cursor \in 0 .. c - 1
    BY <2>1
  <2>3. flash'[a.cursor] = flash[a.cursor]
    BY <2>2
  <2>4. JunkStep(a, b)'
    BY <1>2, <2>3 DEF JunkStep
  <2>. QED
    BY <2>4 DEF LogStepTo
<1>. QED
  BY <1>1, <1>2 DEF LogStepTo

\* One more step at the end of a log.
LEMMA LogExtended ==
    ASSUME TypeInv, NEW log \in Seq(Entry), LogRead(log), NEW b \in Entry,
           \A w \in 0 .. End(log) - 1 : flash'[w] = flash[w],
           End(log) <= b.cursor, LogStepTo(log[Len(log)], b)',
           Promise' = b.queue, TotalWords(b.queue) <= b.cursor,
           BlankFrom(b.cursor)' \/ Unreadable(b.cursor)'
    PROVE  \E longer \in Seq(Entry) :
              /\ LogRead(longer)' /\ End(longer) = b.cursor
              /\ Len(longer) = Len(log) + 1
<1>. DEFINE n == Len(log)
            t == Append(log, b)
<1>1. log # <<>> /\ n \in Nat \ {0} /\ End(log) \in 0 .. RegionWords /\ RegionWords \in Nat
  BY LogParts, SpoolAssumption DEF LogRead
<1>2. /\ t \in Seq(Entry) /\ Len(t) = n + 1 /\ t # <<>> /\ t[n + 1] = b
      /\ \A i \in 1 .. n : t[i] = log[i]
  BY AppendProperties
<1>3. \A i \in 1 .. n : log[i] \in Entry /\ log[i].cursor \in Nat /\ log[i].cursor <= End(log)
  BY <1>1, LogParts DEF LogRead
<1>. HIDE DEF t
<1>4. End(t) = b.cursor /\ t[1] = Nothing /\ t[Len(t)].queue = Promise'
  BY <1>1, <1>2 DEF End, LogRead
<1>5. ASSUME NEW i \in 1 .. Len(t) - 1  PROVE LogStepTo(t[i], t[i + 1])'
  <2>1. CASE i = n
    <3>1. t[i] = log[n] /\ t[i + 1] = b
      BY <1>1, <1>2, <2>1
    <3>. QED
      BY <3>1
  <2>2. CASE i # n
    <3>1. i \in 1 .. n - 1 /\ i \in 1 .. n /\ i + 1 \in 1 .. n
      BY <1>1, <1>2, <2>2
    <3>2. LogStepTo(log[i], log[i + 1]) /\ log[i] \in Entry /\ log[i + 1] \in Entry
          /\ log[i + 1].cursor <= End(log)
      BY <1>3, <3>1 DEF LogRead
    <3>3. LogStepTo(log[i], log[i + 1])'
      BY <1>1, <3>2, LogStepKept
    <3>4. t[i] = log[i] /\ t[i + 1] = log[i + 1]
      BY <1>2, <3>1
    <3>. QED
      BY <3>3, <3>4
  <2>. QED
    BY <2>1, <2>2
<1>6. ASSUME NEW i \in 1 .. Len(t)  PROVE t[i].cursor <= End(t)
  <2>1. b.cursor \in Nat
    BY SpoolAssumption DEF Entry
  <2>2. CASE i = n + 1
    BY <1>2, <1>4, <2>1, <2>2
  <2>3. CASE i # n + 1
    <3>1. i \in 1 .. n
      BY <1>1, <1>2, <2>3
    <3>. QED
      BY <1>1, <1>2, <1>3, <1>4, <2>1, <3>1
  <2>. QED
    BY <2>2, <2>3
<1>7. LogRead(t)'
  BY <1>2, <1>4, <1>5, <1>6 DEF LogRead
<1>. QED
  BY <1>2, <1>4, <1>7

\* Nothing in flash and in the replay has changed.
LEMMA LogUnchanged ==
    ASSUME NEW log, LogRead(log), UNCHANGED <<flash, replay>>
    PROVE  LogRead(log)'
<1>1. Promise' = Promise
  BY DEF Promise, Recovered
<1>2. \A a, b : LogStepTo(a, b) => LogStepTo(a, b)'
  BY DEF LogStepTo, RecordStep, AckStep, JunkStep
<1>3. BlankFrom(End(log)) \/ Unreadable(End(log)) => BlankFrom(End(log))' \/ Unreadable(End(log))'
  BY DEF BlankFrom, Unreadable
<1>. QED
  BY <1>1, <1>2, <1>3 DEF LogRead

\* An entry that spoils nothing goes to the end of the log, on erased words.
LEMMA EntryAtEnd ==
    ASSUME TypeInv, NEW log \in Seq(Entry), LogRead(log), NEW n \in Nat, n > 0,
           Fits(n), ~Spoils(n), write_offset = End(log) \/ flash[write_offset] # Blank
    PROVE  write_offset = End(log) /\ BlankFrom(End(log)) /\ Erased(n) /\ Fits(HeaderWords)
<1>1. Erased(n) /\ Fits(HeaderWords)
  BY DEF Spoils
<1>2. write_offset \in Nat
  BY SpoolAssumption DEF TypeInv, TypeOK
<1>3. flash[write_offset] = Blank
  BY <1>1, <1>2 DEF Erased
<1>4. ~Unreadable(write_offset)
  BY <1>3, Magics DEF Unreadable
<1>. QED
  BY <1>1, <1>3, <1>4 DEF LogRead

\* An entry of a log with these parts.
LEMMA EntryOf ==
    ASSUME NEW c \in 0 .. RegionWords, NEW q \in Seq(Record), NEW a \in Entry, NEW s \in Sequence
    PROVE  \E b \in Entry : b.cursor = c /\ b.queue = q /\ b.max_seen = Larger(a.max_seen, s)
<1>. DEFINE m == Larger(a.max_seen, s)
            b == [cursor |-> c, queue |-> q, max_seen |-> m]
<1>1. m \in Sequence \cup {-1}
  BY DEF Entry, Larger
<1>. HIDE DEF m
<1>2. b \in Entry /\ b.cursor = c /\ b.queue = q /\ b.max_seen = m
  BY <1>1 DEF Entry
<1>. QED
  BY <1>2 DEF m

\* An entry programmed behind the log is its next step.
LEMMA EntryAdded ==
    ASSUME TypeInv, NEW log \in Seq(Entry), LogRead(log),
           write_offset = End(log), BlankFrom(End(log)),
           NEW image \in Seq(Cell), NEW n \in Nat, Len(image) = n, n > 0, Fits(n),
           flash' = Program(write_offset, image, n),
           NEW q \in Seq(Record), NEW s \in Sequence, TotalWords(q) <= write_offset + n,
           replay' = Logged(write_offset + n, q, s),
           NEW b \in Entry, b.cursor = write_offset + n, b.queue = q,
           (\A k \in 1 .. n : flash'[write_offset + k - 1] = image[k])
             => LogStepTo(log[Len(log)], b)'
    PROVE  \E longer \in Seq(Entry) :
              /\ LogRead(longer)' /\ End(longer) = write_offset + n
              /\ BlankFrom(End(longer))' /\ Promise' = q
<1>1. /\ write_offset \in Nat /\ RegionWords \in Nat
      /\ write_offset + n \in 0 .. RegionWords
  <2>1. write_offset \in 0 .. RegionWords /\ write_offset + n <= RegionWords
    BY DEF TypeInv, TypeOK, Fits
  <2>. QED
    BY <2>1, SpoolAssumption
<1>2. Erased(n)
  <2>1. \A w \in write_offset .. write_offset + n - 1 : w \in write_offset .. RegionWords - 1
    BY <1>1
  <2>. QED
    BY <2>1 DEF Erased, BlankFrom
<1>3. /\ \A k \in 1 .. n : flash'[write_offset + k - 1] = image[k]
      /\ \A w \in 0 .. write_offset - 1 : flash'[w] = flash[w]
      /\ \A w \in write_offset + n .. RegionWords - 1 : flash'[w] = flash[w]
  BY <1>2, ProgramErased
<1>4. Promise' = q
  <2>1. Recovered' = [cursor |-> write_offset + n, queue |-> q,
                      max_seen |-> Larger(Recovered.max_seen, s)]
    BY <1>1, LoggedReplay
  <2>2. Recovered'.queue = q
    BY <2>1
  <2>. QED
    BY <2>2 DEF Promise
<1>5. BlankFrom(b.cursor)'
  <2>1. ASSUME NEW w \in b.cursor .. RegionWords - 1  PROVE flash'[w] = Blank
    <3>1. w \in write_offset .. RegionWords - 1 /\ w \in write_offset + n .. RegionWords - 1
      BY <1>1
    <3>. QED
      BY <1>3, <3>1 DEF BlankFrom
  <2>. QED
    BY <2>1 DEF BlankFrom
<1>6. PICK longer \in Seq(Entry) : LogRead(longer)' /\ End(longer) = b.cursor
  <2>1. End(log) <= b.cursor /\ TotalWords(b.queue) <= b.cursor /\ Promise' = b.queue
    BY <1>1, <1>4
  <2>2. BlankFrom(b.cursor)'
    BY <1>5
  <2>3. \A w \in 0 .. End(log) - 1 : flash'[w] = flash[w]
    BY <1>3
  <2>4. LogStepTo(log[Len(log)], b)'
    BY <1>3
  <2>. QED
    BY <2>1, <2>2, <2>3, <2>4, LogExtended
<1>. QED
  BY <1>4, <1>5, <1>6

\* Which it is for a record,
LEMMA RecordAdded ==
    ASSUME TypeInv, NEW log \in Seq(Entry), LogRead(log),
           write_offset = End(log), BlankFrom(End(log)),
           NEW r \in Record, Fits(RecordWords(r)),
           flash' = Program(write_offset, RecordImage(r), RecordWords(r)),
           NEW q \in Seq(Record), q = Push(Promise, r),
           replay' = Logged(write_offset + RecordWords(r), q, r.sequence)
    PROVE  \E longer \in Seq(Entry) :
              /\ LogRead(longer)' /\ End(longer) = write_offset + RecordWords(r)
              /\ BlankFrom(End(longer))' /\ Promise' = q
<1>1. PICK n \in Nat, image \in Seq(Cell) :
         n = RecordWords(r) /\ image = RecordImage(r) /\ n > 0 /\ Len(image) = n
  BY RecordWordsType, RecordImageType DEF HeaderWords
<1>2. r.sequence \in Sequence
  BY DEF Record
<1>3. PICK a \in Entry : a = log[Len(log)] /\ a.cursor = write_offset /\ a.queue = Promise
  BY LogParts DEF LogRead, End
<1>4. write_offset + n \in 0 .. RegionWords
  <2>1. write_offset \in 0 .. RegionWords /\ write_offset + n <= RegionWords
    BY <1>1 DEF TypeInv, TypeOK, Fits
  <2>. QED
    BY <2>1, SpoolAssumption
<1>5. PICK b \in Entry :
         b.cursor = write_offset + n /\ b.queue = q /\ b.max_seen = Larger(a.max_seen, r.sequence)
  BY <1>2, <1>4, EntryOf
<1>6. TotalWords(q) <= write_offset + n
  <2>1. Promise \in Seq(Record)
    BY ReplayType DEF Promise
  <2>2. TotalWords(Promise) \in Nat /\ TotalWords(q) \in Nat
    BY <2>1, WordsAppended
  <2>3. TotalWords(q) <= TotalWords(Promise) + n
    BY <1>1, <2>1, WordsPushed
  <2>4. TotalWords(Promise) <= write_offset
    BY DEF LogRead
  <2>5. write_offset \in Nat
    BY SpoolAssumption DEF TypeInv, TypeOK
  <2>. QED
    BY <2>2, <2>3, <2>4, <2>5
<1>7. ASSUME \A k \in 1 .. n : flash'[write_offset + k - 1] = image[k]
      PROVE  LogStepTo(log[Len(log)], b)'
  <2>1. /\ b.cursor = a.cursor + RecordWords(r) /\ b.cursor <= RegionWords
        /\ \A k \in 1 .. RecordWords(r) : flash'[a.cursor + k - 1] = RecordImage(r)[k]
        /\ b.queue = Push(a.queue, r)
    BY <1>1, <1>3, <1>4, <1>5, <1>7
  <2>2. RecordStep(a, b)'
    BY <1>5, <2>1 DEF RecordStep
  <2>. QED
    BY <1>3, <2>2 DEF LogStepTo
<1>. QED
  BY <1>1, <1>2, <1>5, <1>6, <1>7, EntryAdded

\* and for an acknowledgement.
LEMMA AckAdded ==
    ASSUME TypeInv, NEW log \in Seq(Entry), LogRead(log),
           write_offset = End(log), BlankFrom(End(log)), Fits(HeaderWords),
           Promise # <<>>, NEW s \in Sequence, s = Head(Promise).sequence,
           flash' = Program(write_offset, AckImage(s), AckWords),
           replay' = Logged(write_offset + AckWords, Tail(Promise), s)
    PROVE  \E longer \in Seq(Entry) :
              /\ LogRead(longer)' /\ End(longer) = write_offset + AckWords
              /\ BlankFrom(End(longer))' /\ Promise' = Tail(Promise)
<1>1. PICK n \in Nat, image \in Seq(Cell) :
         n = AckWords /\ image = AckImage(s) /\ n > 0 /\ Len(image) = n /\ n < HeaderWords
  <2>1. AckWords \in Nat /\ AckWords > 0 /\ AckWords < HeaderWords
    BY DEF AckWords, HeaderWords
  <2>. QED
    BY <2>1, AckImageType
<1>2. PICK a \in Entry : a = log[Len(log)] /\ a.cursor = write_offset /\ a.queue = Promise
  BY LogParts DEF LogRead, End
<1>3. write_offset + n \in 0 .. RegionWords /\ write_offset + HeaderWords <= RegionWords
      /\ write_offset \in Nat
  <2>1. write_offset \in 0 .. RegionWords /\ write_offset + HeaderWords <= RegionWords
    BY DEF TypeInv, TypeOK, Fits
  <2>. QED
    BY <1>1, <2>1, SpoolAssumption DEF HeaderWords
<1>4. Fits(n)
  BY <1>3 DEF Fits
<1>5. PICK q \in Seq(Record) : q = Tail(Promise) /\ q = Without(Promise, s)
  <2>1. Promise \in Seq(Record)
    BY ReplayType DEF Promise
  <2>2. Tail(Promise) \in Seq(Record)
    BY <2>1
  <2>. QED
    BY <2>1, <2>2, WithoutHead
<1>6. PICK b \in Entry :
         b.cursor = write_offset + n /\ b.queue = q /\ b.max_seen = Larger(a.max_seen, s)
  BY <1>3, EntryOf
<1>7. TotalWords(q) <= write_offset + n
  <2>1. Promise \in Seq(Record)
    BY ReplayType DEF Promise
  <2>2. TotalWords(Promise) \in Nat /\ TotalWords(q) \in Nat
    BY <2>1, WordsAppended
  <2>3. TotalWords(q) <= TotalWords(Promise)
    BY <1>5, <2>1, WordsOfTail
  <2>4. TotalWords(Promise) <= write_offset
    BY DEF LogRead
  <2>. QED
    BY <1>1, <1>3, <2>2, <2>3, <2>4
<1>8. ASSUME \A k \in 1 .. n : flash'[write_offset + k - 1] = image[k]
      PROVE  LogStepTo(log[Len(log)], b)'
  <2>1. /\ b.cursor = a.cursor + AckWords /\ a.cursor + HeaderWords <= RegionWords
        /\ \A k \in 1 .. AckWords : flash'[a.cursor + k - 1] = AckImage(s)[k]
        /\ b.queue = Without(a.queue, s)
    BY <1>1, <1>2, <1>3, <1>5, <1>6, <1>8
  <2>2. AckStep(a, b)'
    BY <1>6, <2>1 DEF AckStep
  <2>. QED
    BY <1>2, <2>2 DEF LogStepTo
<1>9. flash' = Program(write_offset, image, n) /\ replay' = Logged(write_offset + n, q, s)
  BY <1>1, <1>5
<1>10. \E longer \in Seq(Entry) :
          /\ LogRead(longer)' /\ End(longer) = write_offset + n
          /\ BlankFrom(End(longer))' /\ Promise' = q
  BY <1>1, <1>4, <1>6, <1>7, <1>8, <1>9, EntryAdded
<1>. QED
  BY <1>1, <1>5, <1>10

-----------------------------------------------------------------------------
(* A write cut off at the end of the log.                                  *)

\* No word of a record is an erased word, and its fifth tells the payload.
LEMMA RecordImageMarked ==
    ASSUME NEW r \in Record, NEW k \in 1 .. RecordWords(r)
    PROVE  RecordImage(r)[k] # Blank
<1>1. RecordImage(r)[k].kind \in {"record magic", "version", "sequence", "payload"}
  <2>1. CASE k = 1
    BY <2>1 DEF RecordImage, RecordMagic, Word
  <2>2. CASE k = 2
    <3>1. RecordImage(r)[k] = Word("version", 0, 0)
      BY <2>2 DEF RecordImage
    <3>. QED
      BY <3>1 DEF Word
  <2>3. CASE k \in {3, 4}
    <3>1. RecordImage(r)[k] = Word("sequence", r.sequence, k)
      BY <2>3 DEF RecordImage
    <3>. QED
      BY <3>1 DEF Word
  <2>4. CASE k \notin {1, 2, 3, 4}
    BY <2>4 DEF RecordImage, Word
  <2>. QED
    BY <2>1, <2>2, <2>3, <2>4
<1>. QED
  BY <1>1, WordKinds

\* A prefix of a record is no record: a word of it is missing, or those that
\* tell its size.
LEMMA TornRecord ==
    ASSUME TypeInv, NEW r \in Record, NEW n \in 1 .. RecordWords(r) - 1,
           Fits(RecordWords(r)), Erased(RecordWords(r)),
           flash' = Program(write_offset, RecordImage(r), n)
    PROVE  \A e : e = write_offset => Unreadable(e)' /\ flash'[e] = RecordMagic
<1>1. /\ RecordWords(r) \in Nat /\ RecordWords(r) > HeaderWords /\ HeaderWords = 6
      /\ RecordImage(r) \in Seq(Cell)
  BY RecordWordsType, RecordImageType DEF HeaderWords
<1>2. /\ write_offset \in Nat /\ RegionWords \in Nat
      /\ write_offset + RecordWords(r) <= RegionWords
  BY SpoolAssumption DEF TypeInv, TypeOK, Fits
<1>3. /\ \A k \in 1 .. n : flash'[write_offset + k - 1] = RecordImage(r)[k]
      /\ \A w \in write_offset + n .. RegionWords - 1 : flash'[w] = flash[w]
  <2>1. n \in Nat /\ n > 0 /\ Fits(n)
    BY <1>1, <1>2 DEF Fits
  <2>2. Erased(n)
    <3>1. \A w \in write_offset .. write_offset + n - 1 :
             w \in write_offset .. write_offset + RecordWords(r) - 1
      BY <1>1, <1>2
    <3>. QED
      BY <3>1 DEF Erased
  <2>. QED
    BY <1>1, <2>1, <2>2, ProgramErased
<1>4. flash'[write_offset] = RecordMagic
  <2>1. 1 \in 1 .. n /\ write_offset + 1 - 1 = write_offset
    BY <1>1, <1>2
  <2>. QED
    BY <1>3, <2>1, Magics
<1>5. ASSUME NEW k \in n + 1 .. RecordWords(r)  PROVE flash'[write_offset + k - 1] = Blank
  <2>1. /\ write_offset + k - 1 \in write_offset + n .. RegionWords - 1
        /\ write_offset + k - 1 \in write_offset .. write_offset + RecordWords(r) - 1
    BY <1>1, <1>2
  <2>. QED
    BY <1>3, <2>1 DEF Erased
<1>6. ASSUME NEW x \in Record,
             \A k \in 1 .. RecordWords(x) :
                 k \in {3, 4} \/ flash'[write_offset + k - 1] = RecordImage(x)[k]
      PROVE  FALSE
  <2>1. RecordWords(x) \in Nat /\ RecordWords(x) > 6
    BY RecordWordsType DEF HeaderWords
  <2>2. 5 \in 1 .. RecordWords(x) /\ 5 \in 1 .. RecordWords(r) /\ 5 \notin {3, 4}
    BY <1>1, <2>1
  <2>3. flash'[write_offset + 5 - 1] = RecordImage(x)[5]
    BY <1>6, <2>2
  <2>4. CASE n < 5
    <3>1. 5 \in n + 1 .. RecordWords(r)
      BY <1>1, <2>4
    <3>2. RecordImage(x)[5] = Blank
      BY <1>5, <2>3, <3>1
    <3>. QED
      BY <2>2, <3>2, RecordImageMarked
  <2>5. CASE ~(n < 5)
    <3>1. 5 \in 1 .. n
      BY <2>5
    <3>2. RecordImage(x)[5] = RecordImage(r)[5]
      BY <1>3, <2>3, <3>1
    <3>3. x.payload = r.payload
      BY <3>2, RecordImagePayload
    <3>4. RecordWords(x) = RecordWords(r)
      BY <3>3 DEF RecordWords
    <3>5. PICK k : k = RecordWords(r)
      OBVIOUS
    <3>6. k \in n + 1 .. RecordWords(r) /\ k \in 1 .. RecordWords(x) /\ k \notin {3, 4}
      BY <1>1, <3>4, <3>5
    <3>7. RecordImage(x)[k] = Blank
      BY <1>5, <1>6, <3>6
    <3>. QED
      BY <3>6, <3>7, RecordImageMarked
  <2>. QED
    BY <2>4, <2>5
<1>7. ASSUME NEW e, e = write_offset  PROVE Unreadable(e)'
  <2>1. e + HeaderWords <= RegionWords
    BY <1>1, <1>2, <1>7
  <2>2. flash'[e] = RecordMagic
    BY <1>4, <1>7
  <2>3. ASSUME NEW x \in Record
        PROVE  \E k \in 1 .. RecordWords(x) :
                  k \notin {3, 4} /\ flash'[e + k - 1] # RecordImage(x)[k]
    BY <1>6, <1>7
  <2>. QED
    BY <2>1, <2>2, <2>3 DEF Unreadable
<1>. QED
  BY <1>4, <1>7


\* A prefix of an acknowledgement is its magic word, or a whole one of the
\* number whose unwritten digits are all ones.
LEMMA TornAck ==
    ASSUME TypeInv, NEW s \in Sequence, NEW n \in 1 .. AckWords - 1,
           Fits(AckWords), Erased(AckWords), flash' = Program(write_offset, AckImage(s), n)
    PROVE  \/ flash'[write_offset] = AckMagic /\ flash'[write_offset + 1] = Blank
           \/ \E t \in Sequence :
                /\ AckedSequences(flash') = {t}
                /\ flash' = Program(write_offset, AckImage(t), AckWords)
<1>1. /\ write_offset \in Nat /\ RegionWords \in Nat /\ write_offset + 4 <= RegionWords
      /\ AckWords = 4 /\ n \in {1, 2, 3} /\ DOMAIN flash = 0 .. RegionWords - 1
  BY SpoolAssumption DEF TypeInv, TypeOK, Fits, AckWords
<1>2. AckImage(s) \in Seq(Cell)
  BY AckImageType
<1>3. /\ \A k \in 1 .. n : flash'[write_offset + k - 1] = AckImage(s)[k]
      /\ \A w \in write_offset + n .. RegionWords - 1 : flash'[w] = flash[w]
  <2>1. n \in Nat /\ n > 0 /\ Fits(n)
    BY <1>1 DEF Fits
  <2>2. Erased(n)
    <3>1. \A w \in write_offset .. write_offset + n - 1 :
             w \in write_offset .. write_offset + AckWords - 1
      BY <1>1
    <3>. QED
      BY <3>1 DEF Erased
  <2>. QED
    BY <1>2, <2>1, <2>2, ProgramErased
<1>4. ASSUME NEW k \in 1 .. 4, n < k  PROVE flash'[write_offset + k - 1] = Blank
  <2>1. /\ write_offset + k - 1 \in write_offset + n .. RegionWords - 1
        /\ write_offset + k - 1 \in write_offset .. write_offset + AckWords - 1
    BY <1>1, <1>4
  <2>. QED
    BY <1>3, <2>1 DEF Erased
<1>5. CASE n = 1
  <2>1. 1 \in 1 .. n /\ write_offset + 1 - 1 = write_offset /\ write_offset + 2 - 1 = write_offset + 1
        /\ 2 \in 1 .. 4 /\ n < 2
    BY <1>1, <1>5
  <2>2. flash'[write_offset] = AckMagic
    BY <1>3, <2>1, Magics
  <2>3. flash'[write_offset + 1] = Blank
    BY <1>4, <2>1
  <2>. QED
    BY <2>2, <2>3
<1>6. CASE n # 1
  <2>. DEFINE low == s % Radix
              mid == IF n = 2 THEN Radix - 1 ELSE (s \div Radix) % Radix
              high == Radix - 1
  <2>1. low \in 0 .. Radix - 1 /\ mid \in 0 .. Radix - 1 /\ high \in 0 .. Radix - 1
    BY DigitsOfSequence, SpoolAssumption
  <2>2. PICK t \in Sequence :
           t % Radix = low /\ (t \div Radix) % Radix = mid /\ (t \div Radix) \div Radix = high
    <3>. HIDE DEF low, mid, high
    <3>. QED
      BY <2>1, NumberOfDigits
  <2>3. DigitWord(Radix - 1) = Blank
    BY DEF DigitWord
  <2>4. ASSUME NEW k \in 1 .. 4
        PROVE  AckImage(t)[k] = IF k <= n THEN AckImage(s)[k] ELSE Blank
    <3>1. CASE k = 1
      <4>1. AckImage(t)[1] = AckImage(s)[1]
        BY Magics
      <4>2. 1 <= n
        BY <1>1
      <4>. QED
        BY <3>1, <4>1, <4>2
    <3>2. CASE k = 2
      <4>1. AckImage(t)[2] = AckImage(s)[2]
        BY <2>2, AckImageWords
      <4>2. 2 <= n
        BY <1>1, <1>6
      <4>. QED
        BY <3>2, <4>1, <4>2
    <3>3. CASE k = 3
      <4>1. AckImage(t)[3] = DigitWord(mid) /\ AckImage(s)[3] = DigitWord((s \div Radix) % Radix)
        BY <2>2, AckImageWords
      <4>2. CASE n = 2
        BY <2>3, <3>3, <4>1, <4>2
      <4>3. CASE n = 3
        BY <3>3, <4>1, <4>3
      <4>. QED
        BY <1>1, <1>6, <4>2, <4>3
    <3>4. CASE k = 4
      <4>1. AckImage(t)[4] = Blank
        BY <2>2, <2>3, AckImageWords
      <4>. QED
        BY <1>1, <3>4, <4>1
    <3>. QED
      BY <3>1, <3>2, <3>3, <3>4
  <2>5. ASSUME NEW k \in 1 .. 4  PROVE flash'[write_offset + k - 1] = AckImage(t)[k]
    <3>1. CASE k <= n
      <4>1. k \in 1 .. n
        BY <1>1, <3>1
      <4>. QED
        BY <1>3, <2>4, <3>1, <4>1
    <3>2. CASE ~(k <= n)
      <4>1. n < k
        BY <1>1, <3>2
      <4>. QED
        BY <1>4, <2>4, <3>2, <4>1
    <3>. QED
      BY <3>1, <3>2
  <2>6. AckedSequences(flash') = {t}
    <3>1. /\ flash'[write_offset] = AckImage(t)[1] /\ flash'[write_offset + 1] = AckImage(t)[2]
          /\ flash'[write_offset + 2] = AckImage(t)[3] /\ flash'[write_offset + 3] = AckImage(t)[4]
      <4>1. /\ write_offset + 1 - 1 = write_offset /\ write_offset + 2 - 1 = write_offset + 1
            /\ write_offset + 3 - 1 = write_offset + 2 /\ write_offset + 4 - 1 = write_offset + 3
        BY <1>1
      <4>2. 1 \in 1 .. 4 /\ 2 \in 1 .. 4 /\ 3 \in 1 .. 4 /\ 4 \in 1 .. 4
        OBVIOUS
      <4>. QED
        BY <2>5, <4>1, <4>2
    <3>. QED
      BY <3>1, AckImageWords, AckRead
  <2>7. flash' = Program(write_offset, AckImage(t), AckWords)
    <3>. DEFINE full == Program(write_offset, AckImage(t), AckWords)
    <3>1. ASSUME NEW w \in DOMAIN flash  PROVE flash'[w] = full[w]
      <4>1. CASE w \in write_offset .. write_offset + AckWords - 1
        <5>1. w - write_offset + 1 \in 1 .. 4 /\ write_offset + (w - write_offset + 1) - 1 = w
          BY <1>1, <4>1
        <5>2. flash'[w] = AckImage(t)[w - write_offset + 1]
          BY <2>5, <5>1
        <5>3. flash[w] = Blank
          BY <4>1 DEF Erased
        <5>4. full[w] = Overlay(flash[w], AckImage(t)[w - write_offset + 1])
          BY <4>1 DEF Program
        <5>. QED
          BY <5>2, <5>3, <5>4 DEF Overlay
      <4>2. CASE w \notin write_offset .. write_offset + AckWords - 1
        <5>1. full[w] = flash[w]
          BY <4>2 DEF Program
        <5>2. w \notin write_offset .. write_offset + n - 1
          BY <1>1, <4>2
        <5>3. flash'[w] = flash[w]
          BY <5>2 DEF Program
        <5>. QED
          BY <5>1, <5>3
      <4>. QED
        BY <4>1, <4>2
    <3>2. flash' = Program(write_offset, AckImage(s), n)
      OBVIOUS
    <3>. QED
      BY <3>1, <3>2, SMT DEF Program
  <2>. QED
    BY <2>6, <2>7
<1>. QED
  BY <1>5, <1>6


\* What may be written now is a record or an acknowledgement of the oldest.
LEMMA PendingImageKinds ==
    ASSUME TypeInv, NEW image, image \in PendingImages
    PROVE  \/ \E r \in Record : image = RecordImage(r)
           \/ /\ queue # <<>> /\ Head(queue).sequence \in Sequence
              /\ image = AckImage(Head(queue).sequence)
<1>1. CASE \E p \in Payloads : image = RecordImage(Incoming(p))
  BY <1>1, IncomingType
<1>2. CASE queue # <<>> /\ image = AckImage(Head(queue).sequence)
  <2>1. Head(queue) \in Record
    BY <1>2 DEF TypeInv, TypeOK
  <2>. QED
    BY <1>2, <2>1 DEF Record
<1>. QED
  BY <1>1, <1>2 DEF PendingImages

\* Recovery reads no more records from what a cut-off write leaves behind the
\* log than it found before, if it acknowledges none of them.
LEMMA TornAtEnd ==
    ASSUME TypeInv, NEW log \in Seq(Entry), LogRead(log),
           write_offset = End(log), BlankFrom(End(log)), queue = Promise,
           NEW image, image \in PendingImages, ~Spoils(Len(image)), Fits(Len(image)),
           flash' \in Torn(write_offset, image), replay' = replay, ~Acknowledges(flash')
    PROVE  (\E longer \in Seq(Entry) : LogRead(longer)') /\ \A e : e = write_offset => flash'[e] # Blank
<1>1. /\ write_offset \in Nat /\ RegionWords \in Nat
      /\ write_offset + HeaderWords <= RegionWords /\ HeaderWords = 6
      /\ DOMAIN flash = 0 .. RegionWords - 1
  BY SpoolAssumption DEF TypeInv, TypeOK, Fits, Spoils, HeaderWords
<1>2. Promise' = Promise /\ Promise \in Seq(Record)
  BY ReplayType DEF Promise, Recovered
<1>3. PICK a \in Entry : a = log[Len(log)] /\ a.cursor = write_offset /\ a.queue = Promise
  BY LogParts DEF LogRead, End
<1>4. Erased(Len(image))
  BY DEF Spoils
<1>5. TotalWords(Promise) \in Nat /\ TotalWords(Promise) <= write_offset
  BY <1>2, WordsType DEF LogRead
<1>6. ASSUME NEW b \in Entry, LogStepTo(a, b)', b.queue = Promise, b.cursor \in Nat,
             write_offset <= b.cursor, BlankFrom(b.cursor)',
             \A w \in 0 .. write_offset - 1 : flash'[w] = flash[w]
      PROVE  \E longer \in Seq(Entry) : LogRead(longer)'
  <2>1. TotalWords(b.queue) <= b.cursor
    BY <1>1, <1>5, <1>6
  <2>. QED
    BY <1>2, <1>3, <1>6, <2>1, LogExtended
<1>7. CASE flash' = [flash EXCEPT ![write_offset] = Junk]
  <2>1. /\ flash'[write_offset] = Junk
        /\ \A w \in 0 .. RegionWords - 1 : w # write_offset => flash'[w] = flash[w]
    BY <1>1, <1>7
  <2>2. PICK b \in Entry :
           b.cursor = write_offset + 1 /\ b.queue = a.queue /\ b.max_seen = a.max_seen
    <3>. DEFINE b == [cursor |-> write_offset + 1, queue |-> a.queue, max_seen |-> a.max_seen]
    <3>1. write_offset + 1 \in 0 .. RegionWords
      BY <1>1
    <3>2. b \in Entry /\ b.cursor = write_offset + 1 /\ b.queue = a.queue /\ b.max_seen = a.max_seen
      BY <3>1 DEF Entry
    <3>. HIDE DEF b
    <3>. QED
      BY <3>2
  <2>3. LogStepTo(a, b)'
    <3>1. flash'[a.cursor] = Junk /\ a.cursor + HeaderWords <= RegionWords /\ b.cursor = a.cursor + 1
      BY <1>1, <1>3, <2>1, <2>2
    <3>2. JunkStep(a, b)'
      BY <2>2, <3>1 DEF JunkStep
    <3>. QED
      BY <3>2 DEF LogStepTo
  <2>4. BlankFrom(b.cursor)'
    <3>1. ASSUME NEW w \in b.cursor .. RegionWords - 1  PROVE flash'[w] = Blank
      <4>1. w \in write_offset .. RegionWords - 1 /\ w \in 0 .. RegionWords - 1 /\ w # write_offset
        BY <1>1, <2>2
      <4>. QED
        BY <2>1, <4>1 DEF BlankFrom
    <3>. QED
      BY <3>1 DEF BlankFrom
  <2>5. \A w \in 0 .. write_offset - 1 : flash'[w] = flash[w]
    <3>1. \A w \in 0 .. write_offset - 1 : w \in 0 .. RegionWords - 1 /\ w # write_offset
      BY <1>1
    <3>. QED
      BY <2>1, <3>1
  <2>6. b.queue = Promise /\ b.cursor \in Nat /\ write_offset <= b.cursor
    BY <1>1, <1>3, <2>2
  <2>7. Junk # Blank
    BY WordKinds
  <2>. QED
    BY <1>6, <2>1, <2>3, <2>4, <2>5, <2>6, <2>7
<1>8. ASSUME \A e : e = write_offset => Unreadable(e)' /\ flash'[e] # Blank,
             \A w \in 0 .. write_offset - 1 : flash'[w] = flash[w]
      PROVE  (\E longer \in Seq(Entry) : LogRead(longer)') /\ \A e : e = write_offset => flash'[e] # Blank
  <2>1. log # <<>> /\ log[1] = Nothing /\ log[Len(log)].queue = Promise'
        /\ TotalWords(Promise') <= End(log)
    BY <1>2 DEF LogRead
  <2>2. ASSUME NEW i \in 1 .. Len(log) - 1  PROVE LogStepTo(log[i], log[i + 1])'
    <3>1. i + 1 \in 1 .. Len(log) /\ i \in 1 .. Len(log)
      BY LogParts DEF LogRead
    <3>2. /\ log[i] \in Entry /\ log[i + 1] \in Entry /\ log[i + 1].cursor <= End(log)
          /\ LogStepTo(log[i], log[i + 1]) /\ End(log) \in 0 .. RegionWords
      BY <3>1, LogParts DEF LogRead
    <3>. QED
      BY <1>8, <3>2, LogStepKept
  <2>3. Unreadable(End(log))'
    BY <1>8
  <2>4. LogRead(log)'
    BY <2>1, <2>2, <2>3 DEF LogRead
  <2>. QED
    BY <1>8, <2>4
<1>9. ASSUME NEW n \in 1 .. Len(image) - 1, flash' = Program(write_offset, image, n)
      PROVE  (\E longer \in Seq(Entry) : LogRead(longer)') /\ \A e : e = write_offset => flash'[e] # Blank
  <2>1. image \in Seq(Cell) /\ Len(image) \in Nat /\ write_offset + Len(image) <= RegionWords
    BY PendingImagesType DEF Fits
  <2>2. \A w \in 0 .. write_offset - 1 : flash'[w] = flash[w]
    <3>1. n \in Nat /\ n > 0 /\ Fits(n)
      BY <1>1, <2>1 DEF Fits
    <3>2. \A w \in write_offset .. write_offset + n - 1 :
             w \in write_offset .. write_offset + Len(image) - 1
      BY <1>1, <2>1
    <3>3. Erased(n)
      BY <1>4, <3>2 DEF Erased
    <3>. QED
      BY <1>9, <2>1, <3>1, <3>3, ProgramErased
  <2>3. ASSUME NEW r \in Record, image = RecordImage(r)
        PROVE  (\E longer \in Seq(Entry) : LogRead(longer)') /\ \A e : e = write_offset => flash'[e] # Blank
    <3>1. Len(image) = RecordWords(r)
      BY <2>3, RecordImageType
    <3>2. \A e : e = write_offset => Unreadable(e)' /\ flash'[e] = RecordMagic
      BY <1>4, <1>9, <2>3, <3>1, TornRecord
    <3>. QED
      BY <1>8, <2>2, <3>2, Magics
  <2>4. ASSUME NEW s \in Sequence, image = AckImage(s)
        PROVE  (\E longer \in Seq(Entry) : LogRead(longer)') /\ \A e : e = write_offset => flash'[e] # Blank
    <3>1. Len(image) = AckWords /\ AckWords = 4
      BY <2>4, AckImageType DEF AckWords
    <3>2. \/ flash'[write_offset] = AckMagic /\ flash'[write_offset + 1] = Blank
          \/ \E t \in Sequence :
                /\ AckedSequences(flash') = {t}
                /\ flash' = Program(write_offset, AckImage(t), AckWords)
      BY <1>4, <1>9, <2>4, <3>1, TornAck
    <3>3. CASE flash'[write_offset] = AckMagic /\ flash'[write_offset + 1] = Blank
      <4>1. ASSUME NEW e, e = write_offset  PROVE Unreadable(e)' /\ flash'[e] # Blank
        <5>1. e + HeaderWords <= RegionWords /\ flash'[e] = AckMagic /\ flash'[e + 1] = Blank
          BY <1>1, <3>3, <4>1
        <5>. QED
          BY <5>1, Magics DEF Unreadable
      <4>. QED
        BY <1>8, <2>2, <4>1
    <3>4. ASSUME NEW t \in Sequence, AckedSequences(flash') = {t},
                 flash' = Program(write_offset, AckImage(t), AckWords)
          PROVE  (\E longer \in Seq(Entry) : LogRead(longer)') /\ \A e : e = write_offset => flash'[e] # Blank
      <4>1. AckImage(t) \in Seq(Cell) /\ Fits(AckWords) /\ Erased(AckWords)
        BY <1>4, <3>1, AckImageType
      <4>2. /\ \A k \in 1 .. AckWords : flash'[write_offset + k - 1] = AckImage(t)[k]
            /\ \A w \in write_offset + AckWords .. RegionWords - 1 : flash'[w] = flash[w]
        BY <3>1, <3>4, <4>1, ProgramErased
      <4>3. Without(Promise, t) = Promise
        <5>1. \A i \in DOMAIN Promise : Promise[i].sequence # t
          BY <1>2, <3>4 DEF Acknowledges
        <5>. QED
          BY <5>1 DEF Without
      <4>4. write_offset + AckWords \in 0 .. RegionWords
        BY <1>1, <3>1
      <4>5. PICK b \in Entry :
               /\ b.cursor = write_offset + AckWords /\ b.queue = Promise
               /\ b.max_seen = Larger(a.max_seen, t)
        BY <1>2, <4>4, EntryOf
      <4>6. LogStepTo(a, b)'
        <5>1. /\ b.cursor = a.cursor + AckWords /\ a.cursor + HeaderWords <= RegionWords
              /\ \A k \in 1 .. AckWords : flash'[a.cursor + k - 1] = AckImage(t)[k]
              /\ b.queue = Without(a.queue, t)
          BY <1>1, <1>3, <4>2, <4>3, <4>5
        <5>2. AckStep(a, b)'
          BY <4>5, <5>1 DEF AckStep
        <5>. QED
          BY <5>2 DEF LogStepTo
      <4>7. BlankFrom(b.cursor)'
        <5>1. ASSUME NEW w \in b.cursor .. RegionWords - 1  PROVE flash'[w] = Blank
          <6>1. /\ w \in write_offset + AckWords .. RegionWords - 1
                /\ w \in write_offset .. RegionWords - 1
            BY <1>1, <3>1, <4>5
          <6>. QED
            BY <4>2, <6>1 DEF BlankFrom
        <5>. QED
          BY <5>1 DEF BlankFrom
      <4>8. b.cursor \in Nat /\ write_offset <= b.cursor
        BY <1>1, <3>1, <4>5
      <4>9. flash'[write_offset] # Blank
        <5>1. 1 \in 1 .. AckWords /\ write_offset + 1 - 1 = write_offset
          BY <1>1, <3>1
        <5>. QED
          BY <4>2, <5>1, Magics
      <4>. QED
        BY <1>6, <2>2, <4>5, <4>6, <4>7, <4>8, <4>9
    <3>. QED
      BY <3>2, <3>3, <3>4
  <2>5. \/ \E r \in Record : image = RecordImage(r)
        \/ \E s \in Sequence : image = AckImage(s)
    BY PendingImageKinds
  <2>. QED
    BY <2>3, <2>4, <2>5
<1>. QED
  BY <1>7, <1>9 DEF Torn

\* An acknowledgement that was cut off does not acknowledge the oldest record:
\* it would be the whole acknowledgement.
LEMMA HeadKept ==
    ASSUME TypeInv, NEW image, image \in PendingImages, Fits(Len(image)), ~Spoils(Len(image)),
           flash' \in Torn(write_offset, image),
           flash' # Program(write_offset, image, Len(image)), ~Misread(flash')
    PROVE  ~Acknowledges(flash')
<1>1. /\ write_offset \in Nat /\ RegionWords \in Nat
      /\ DOMAIN flash = 0 .. RegionWords - 1 /\ write_offset + HeaderWords <= RegionWords
      /\ HeaderWords = 6 /\ Erased(Len(image))
  BY SpoolAssumption DEF TypeInv, TypeOK, Fits, Spoils, HeaderWords
<1>2. queue \in Seq(Record)
  BY DEF TypeInv, TypeOK
<1>3. SUFFICES ASSUME queue # <<>>, queue[1].sequence \in AckedSequences(flash')  PROVE FALSE
  <2>. SUFFICES ASSUME NEW i \in 1 .. Len(queue), queue[i].sequence \in AckedSequences(flash')
                PROVE  FALSE
    BY DEF Acknowledges
  <2>1. i # 1
    BY <1>2, <1>3
  <2>2. i \in 2 .. Len(queue)
    BY <1>2, <2>1
  <2>. QED
    BY <2>2 DEF Misread
<1>4. flash'[write_offset] = AckMagic
  BY <1>3 DEF AckedSequences
<1>5. flash' # [flash EXCEPT ![write_offset] = Junk]
  <2>1. write_offset \in 0 .. RegionWords - 1
    BY <1>1
  <2>2. AckMagic # Junk
    BY WordKinds
  <2>. QED
    BY <1>1, <1>4, <2>1, <2>2
<1>6. PICK n \in 1 .. Len(image) - 1 : flash' = Program(write_offset, image, n)
  BY <1>5 DEF Torn
<1>7. ASSUME NEW r \in Record, image = RecordImage(r)  PROVE FALSE
  <2>1. Len(image) = RecordWords(r)
    BY <1>7, RecordImageType
  <2>2. \A e : e = write_offset => flash'[e] = RecordMagic
    BY <1>1, <1>6, <1>7, <2>1, TornRecord
  <2>. QED
    BY <1>4, <2>2, Magics
<1>8. ASSUME queue # <<>>, Head(queue).sequence \in Sequence,
             image = AckImage(Head(queue).sequence)
      PROVE  FALSE
  <2>. DEFINE s == Head(queue).sequence
  <2>1. Len(image) = AckWords /\ s = queue[1].sequence
    BY <1>2, <1>8, AckImageType
  <2>2. n \in 1 .. AckWords - 1 /\ Fits(AckWords) /\ Erased(AckWords)
        /\ flash' = Program(write_offset, AckImage(s), n)
    BY <1>1, <1>6, <1>8, <2>1
  <2>. HIDE DEF s
  <2>3. \/ flash'[write_offset + 1] = Blank
        \/ \E t \in Sequence :
              /\ AckedSequences(flash') = {t}
              /\ flash' = Program(write_offset, AckImage(t), AckWords)
    <3>1. s \in Sequence
      BY <1>8 DEF s
    <3>. QED
      BY <2>2, <3>1, TornAck
  <2>4. CASE flash'[write_offset + 1] = Blank
    <3>1. LowDigits(Blank) = {}
      BY WordKinds DEF LowDigits
    <3>. QED
      BY <1>3, <2>4, <3>1 DEF AckedSequences
  <2>5. ASSUME NEW t \in Sequence, AckedSequences(flash') = {t},
               flash' = Program(write_offset, AckImage(t), AckWords)
        PROVE  FALSE
    <3>1. t = s
      BY <1>3, <2>1, <2>5
    <3>. QED
      BY <1>8, <2>1, <2>5, <3>1 DEF s
  <2>. QED
    BY <2>3, <2>4, <2>5
<1>. QED
  BY <1>7, <1>8, PendingImageKinds

-----------------------------------------------------------------------------
(* Every step keeps the invariant.                                         *)

RegionErased == \A w \in 0 .. RegionWords - 1 : flash[w] = Blank

\* An erased region holds no entry.
LEMMA LogStart ==
    RegionErased /\ replay = <<Nothing>>
        => LogRead(<<Nothing>>) /\ End(<<Nothing>>) = 0 /\ Promise = <<>> /\ BlankFrom(0)
<1>. SUFFICES ASSUME RegionErased, replay = <<Nothing>>
              PROVE  LogRead(<<Nothing>>) /\ End(<<Nothing>>) = 0 /\ Promise = <<>> /\ BlankFrom(0)
  OBVIOUS
<1>1. Nothing.cursor = 0 /\ Nothing.queue = <<>>
  BY DEF Nothing
<1>2. Recovered = Nothing /\ Promise = <<>>
  BY <1>1 DEF Recovered, Promise
<1>3. End(<<Nothing>>) = 0 /\ BlankFrom(0)
  BY <1>1 DEF End, BlankFrom, RegionErased
<1>. QED
  BY <1>1, <1>2, <1>3, WordsNone DEF LogRead

LEMMA LogBegins ==
    /\ <<Nothing>> \in Seq(Entry) /\ Len(<<Nothing>>) = 1 /\ <<Nothing>>[1] = Nothing
    /\ Nothing.cursor = 0 /\ Nothing.queue = <<>> /\ Nothing.max_seen = -1
<1>1. /\ Nothing \in Entry
      /\ Nothing.cursor = 0 /\ Nothing.queue = <<>> /\ Nothing.max_seen = -1
  BY SpoolAssumption DEF Nothing, Entry
<1>. QED
  BY <1>1

LEMMA TornInit == Init => TornInv
<1>. SUFFICES ASSUME Init PROVE TornInv
  OBVIOUS
<1>1. TypeInv
  BY TypeInit
<1>2. /\ replay = <<Nothing>> /\ mode = "scan" /\ queue = <<>>
      /\ write_offset = 0 /\ max_seen = -1
      /\ \A w \in 0 .. RegionWords - 1 : flash[w] = Blank
  BY DEF Init
<1>3. LogRead(<<Nothing>>)
  BY <1>2, LogStart DEF RegionErased
<1>4. InLog(<<Nothing>>)
  <2>1. 1 \in 1 .. Len(<<Nothing>>)
    BY LogBegins
  <2>. QED
    BY <1>2, <2>1, LogBegins DEF InLog
<1>. QED
  BY <1>1, <1>2, <1>3, <1>4, LogBegins DEF TornInv

\* At an unreadable word recovery goes on at the next word.
LEMMA ReadJunk ==
    ASSUME TypeInv, Scan, mode = "scan", NEW a \in Entry, NEW b \in Entry, JunkStep(a, b),
           write_offset = a.cursor, queue = a.queue, max_seen = a.max_seen
    PROVE  /\ mode' = "scan"
           /\ write_offset' = b.cursor /\ queue' = b.queue /\ max_seen' = b.max_seen
<1>1. /\ flash[Cursor] = Junk /\ write_offset + HeaderWords <= RegionWords
      /\ b.cursor = write_offset + 1 /\ b.queue = queue /\ b.max_seen = max_seen
  BY DEF JunkStep, Cursor
<1>2. Junk # Blank /\ Junk # RecordMagic /\ Junk # AckMagic
  BY WordKinds
<1>3. Fits(1) /\ Fits(HeaderWords)
  <2>1. write_offset \in Nat /\ RegionWords \in Nat
    BY SpoolAssumption DEF TypeInv, TypeOK
  <2>. QED
    BY <1>1, <2>1 DEF Fits, HeaderWords
<1>4. HeaderAtCursor
  BY <1>1, <1>2, <1>3 DEF HeaderAtCursor
<1>5. ~ScanRecord /\ ~ScanAck
  BY <1>1, <1>2, ReadTyped DEF ScanRecord, ScanAck, AckedSequences, Cursor
<1>6. ~ScanStop
  BY <1>1, <1>2, <1>4 DEF ScanStop, Undecodable
<1>7. ScanSkip
  BY <1>5, <1>6 DEF Scan
<1>. QED
  BY <1>1, <1>7 DEF ScanSkip, Cursor

\* At the end of the log it can only stop.
LEMMA ReadEnd ==
    ASSUME TypeInv, Scan, mode = "scan", BlankFrom(write_offset) \/ Unreadable(write_offset)
    PROVE  ScanStop
<1>1. write_offset \in Nat /\ RegionWords \in Nat
  BY SpoolAssumption DEF TypeInv, TypeOK
<1>2. CASE BlankFrom(write_offset)
  <2>1. ~HeaderAtCursor
    BY <1>1, <1>2 DEF HeaderAtCursor, Fits, Cursor, BlankFrom
  <2>. QED
    BY <2>1 DEF Scan, ScanRecord, ScanAck, ScanSkip, Scanning
<1>3. CASE Unreadable(write_offset)
  <2>1. flash[Cursor] \in {RecordMagic, AckMagic} /\ RecordMagic # AckMagic
    BY <1>3, Magics DEF Unreadable, Cursor
  <2>2. ~ScanSkip
    BY <2>1 DEF ScanSkip
  <2>3. CASE flash[Cursor] = RecordMagic
    <3>1. ~ScanAck
      BY <2>1, <2>3 DEF ScanAck, AckedSequences, Cursor
    <3>2. RecordsAtCursor = {}
      <4>. SUFFICES ASSUME NEW r \in RecordsAtCursor  PROVE FALSE
        OBVIOUS
      <4>1. /\ r \in Record /\ write_offset + RecordWords(r) <= RegionWords
            /\ \A k \in 1 .. RecordWords(r) :
                  k \in {3, 4} \/ flash[write_offset + k - 1] = RecordImage(r)[k]
        BY ReadTyped DEF RecordsAtCursor, Fits, Cursor
      <4>. QED
        BY <1>3, <2>1, <2>3, <4>1 DEF Unreadable, Cursor
    <3>. QED
      BY <2>2, <3>1, <3>2 DEF Scan, ScanRecord
  <2>4. CASE flash[Cursor] = AckMagic
    <3>1. ~ScanRecord
      BY <2>1, <2>4, ReadTyped DEF ScanRecord
    <3>2. flash[write_offset + 1] = Blank
      BY <1>3, <2>1, <2>4 DEF Unreadable, Cursor
    <3>3. LowDigits(Blank) = {}
      BY WordKinds DEF LowDigits
    <3>4. ~ScanAck
      BY <3>2, <3>3 DEF ScanAck, AckedSequences
    <3>. QED
      BY <2>2, <3>1, <3>4 DEF Scan
  <2>. QED
    BY <2>1, <2>3, <2>4
<1>. QED
  BY <1>2, <1>3

\* Recovery follows the log.
LEMMA TornScan ==
    ASSUME TornInv, Scan, ~spoiled
    PROVE  \E log \in Seq(Entry) : LogRead(log)' /\ InLog(log)'
<1>1. mode = "scan" /\ UNCHANGED <<flash, replay, spoiled>>
  BY DEF Scan, ScanRecord, ScanAck, ScanSkip, ScanStop, Scanning, historyVars
<1>2. TypeInv /\ Promise' = Promise
  BY <1>1 DEF TornInv, Promise, Recovered
<1>3. PICK log \in Seq(Entry) : LogRead(log) /\ InLog(log)
  BY <1>1 DEF TornInv
<1>4. LogRead(log)'
  BY <1>1, <1>3, LogUnchanged
<1>5. PICK j \in 1 .. Len(log) :
          /\ write_offset = log[j].cursor
          /\ queue = log[j].queue
          /\ max_seen = log[j].max_seen
  BY <1>1, <1>3 DEF InLog
<1>6. Len(log) \in Nat \ {0} /\ \A i \in 1 .. Len(log) : log[i] \in Entry
  BY <1>3, LogParts DEF LogRead
<1>7. CASE j = Len(log)
  <2>1. write_offset = End(log) /\ queue = Promise
    BY <1>3, <1>5, <1>7 DEF End, LogRead
  <2>2. ScanStop
    BY <1>1, <1>2, <1>3, <2>1, ReadEnd DEF LogRead
  <2>3. mode' = "ready" /\ UNCHANGED <<queue, write_offset>>
    BY <2>2 DEF ScanStop
  <2>4. InLog(log)'
    BY <1>2, <2>1, <2>3 DEF InLog
  <2>. QED
    BY <1>4, <2>4
<1>8. CASE j # Len(log)
  <2>1. j \in 1 .. Len(log) - 1 /\ j + 1 \in 1 .. Len(log)
    BY <1>6, <1>8
  <2>2. PICK a \in Entry, b \in Entry : a = log[j] /\ b = log[j + 1]
    BY <1>6, <2>1
  <2>3. LogStepTo(a, b)
    BY <1>3, <2>1, <2>2 DEF LogRead
  <2>4. write_offset = a.cursor /\ queue = a.queue /\ max_seen = a.max_seen
    BY <1>5, <2>2
  <2>5. /\ mode' = "scan"
        /\ write_offset' = b.cursor /\ queue' = b.queue /\ max_seen' = b.max_seen
    <3>1. CASE RecordStep(a, b) \/ AckStep(a, b)
      BY <1>1, <1>2, <2>4, <3>1, ReadStep
    <3>2. CASE JunkStep(a, b)
      BY <1>1, <1>2, <2>4, <3>2, ReadJunk
    <3>. QED
      BY <2>3, <3>1, <3>2 DEF LogStepTo
  <2>6. InLog(log)'
    BY <2>1, <2>2, <2>5 DEF InLog
  <2>. QED
    BY <1>4, <2>6
<1>. QED
  BY <1>7, <1>8

\* An append or an acknowledgement that spoils nothing is the log's next step.
LEMMA TornOperation ==
    ASSUME TornInv, Operation, ~spoiled', mode' # "erase"
    PROVE  \E log \in Seq(Entry) : LogRead(log)' /\ InLog(log)'
<1>1. mode = "ready" /\ TypeInv
  BY DEF TornInv, Operation, AppendEntry, AppendCompacting, AcknowledgeEntry,
         AcknowledgeCompacting, Appending
<1>2. queue \in Seq(Record) /\ Len(queue) <= Capacity
  BY <1>1 DEF TypeInv, TypeOK
<1>3. ASSUME ~spoiled
      PROVE  \E log \in Seq(Entry) :
                /\ LogRead(log) /\ queue = Promise
                /\ write_offset = End(log) \/ flash[write_offset] # Blank
  BY <1>1, <1>3 DEF TornInv, InLog
<1>4. ASSUME NEW p \in Payloads, AppendEntry(p)
      PROVE  \E log \in Seq(Entry) : LogRead(log)' /\ InLog(log)'
  <2>. DEFINE r == Incoming(p)
  <2>1. r \in Record /\ RecordWords(r) \in Nat /\ RecordWords(r) > 0
    BY <1>1, IncomingType, RecordWordsType DEF HeaderWords
  <2>2. /\ mode' = "ready" /\ ~spoiled /\ ~Spoils(RecordWords(r)) /\ Fits(RecordWords(r))
        /\ flash' = Program(write_offset, RecordImage(r), RecordWords(r))
        /\ write_offset' = write_offset + RecordWords(r)
        /\ queue' = Push(queue, r)
        /\ replay' = Logged(write_offset + RecordWords(r), queue', r.sequence)
    BY <1>1, <1>4 DEF AppendEntry
  <2>. HIDE DEF r
  <2>3. PICK log \in Seq(Entry) :
           /\ LogRead(log) /\ queue = Promise
           /\ write_offset = End(log) \/ flash[write_offset] # Blank
    BY <1>3, <2>2
  <2>4. write_offset = End(log) /\ BlankFrom(End(log))
    BY <1>1, <2>1, <2>2, <2>3, EntryAtEnd
  <2>5. PICK q \in Seq(Record) : q = queue'
    BY <1>2, <2>1, <2>2, PushProperties
  <2>6. PICK longer \in Seq(Entry) :
           LogRead(longer)' /\ End(longer) = write_offset + RecordWords(r) /\ Promise' = q
    BY <1>1, <2>1, <2>2, <2>3, <2>4, <2>5, RecordAdded
  <2>7. InLog(longer)'
    BY <2>2, <2>5, <2>6 DEF InLog
  <2>. QED
    BY <2>6, <2>7
<1>5. CASE AcknowledgeEntry
  <2>. DEFINE s == Head(queue).sequence
  <2>1. AckWords \in Nat /\ AckWords > 0
    BY DEF AckWords
  <2>2. /\ mode' = "ready" /\ ~spoiled /\ ~Spoils(AckWords) /\ Fits(AckWords)
        /\ queue # <<>>
        /\ flash' = Program(write_offset, AckImage(s), AckWords)
        /\ write_offset' = write_offset + AckWords
        /\ queue' = Tail(queue)
        /\ replay' = Logged(write_offset + AckWords, Tail(queue), s)
    BY <1>1, <1>5 DEF AcknowledgeEntry
  <2>3. s \in Sequence
    <3>1. Head(queue) \in Record
      BY <1>2, <2>2
    <3>. QED
      BY <3>1 DEF Record
  <2>4. PICK log \in Seq(Entry) :
           /\ LogRead(log) /\ queue = Promise
           /\ write_offset = End(log) \/ flash[write_offset] # Blank
    BY <1>3, <2>2
  <2>5. s = Head(Promise).sequence /\ Promise # <<>>
        /\ replay' = Logged(write_offset + AckWords, Tail(Promise), s)
    BY <2>2, <2>4
  <2>. HIDE DEF s
  <2>6. write_offset = End(log) /\ BlankFrom(End(log)) /\ Fits(HeaderWords)
    BY <1>1, <2>1, <2>2, <2>4, EntryAtEnd
  <2>7. PICK longer \in Seq(Entry) :
           LogRead(longer)' /\ End(longer) = write_offset + AckWords /\ Promise' = Tail(Promise)
    BY <1>1, <2>2, <2>3, <2>4, <2>5, <2>6, AckAdded
  <2>8. InLog(longer)'
    BY <2>2, <2>4, <2>7 DEF InLog
  <2>. QED
    BY <2>7, <2>8
<1>6. ~AcknowledgeCompacting /\ \A p \in Payloads : ~AppendCompacting(p)
  BY DEF AcknowledgeCompacting, AppendCompacting
<1>. QED
  BY <1>4, <1>5, <1>6 DEF Operation

\* A compaction begins a log on an erased region and makes it longer.
LEMMA TornCompact ==
    ASSUME TornInv, Compact, ~spoiled', mode' # "erase"
    PROVE  \E log \in Seq(Entry) : LogRead(log)' /\ InLog(log)'
<1>1. TypeInv
  BY DEF TornInv
<1>2. CASE StartRewrite
  <2>1. /\ mode = "erase" /\ progress >= RegionWords /\ mode' = "rewrite"
        /\ write_offset' = 0 /\ progress' = 0 /\ replay' = <<Nothing>>
        /\ UNCHANGED <<flash, plan>>
    BY <1>2 DEF StartRewrite
  <2>2. \A w \in 0 .. RegionWords - 1 : flash'[w] = Blank
    <3>1. progress \in Nat /\ RegionWords \in Nat
      BY <1>1, SpoolAssumption DEF TypeInv, TypeOK
    <3>. QED
      BY <2>1, <3>1 DEF TornInv
  <2>3. /\ LogRead(<<Nothing>>)' /\ End(<<Nothing>>) = 0
        /\ Promise' = <<>> /\ BlankFrom(0)'
    <3>1. (RegionErased /\ replay = <<Nothing>>)'
      BY <2>1, <2>2 DEF RegionErased
    <3>2. (LogRead(<<Nothing>>) /\ End(<<Nothing>>) = 0 /\ Promise = <<>> /\ BlankFrom(0))'
      BY <3>1, LogStart, PTL
    <3>. QED
      BY <3>2
  <2>4. plan \in Seq(Record) /\ SubSeq(plan, 1, 0) = <<>>
    BY <1>1, SubSeqEmpty DEF TypeInv, TypeOK
  <2>5. InLog(<<Nothing>>)'
    BY <2>1, <2>3, <2>4 DEF InLog
  <2>. QED
    BY <2>3, <2>5, LogBegins
<1>3. CASE RewriteRecord
  <2>. DEFINE r == NextRecord
  <2>1. /\ mode = "rewrite" /\ mode' = "rewrite" /\ progress < Len(plan)
        /\ progress' = progress + 1 /\ plan' = plan
    BY <1>3 DEF RewriteRecord
  <2>2. r \in Record /\ Len(NextImage) = RecordWords(r) /\ NextImage = RecordImage(r)
        /\ RecordWords(r) \in Nat /\ RecordWords(r) > 0
    BY <1>1, <2>1, NextRecordType, RecordWordsType DEF NextImage, HeaderWords
  <2>3. /\ ~spoiled /\ ~Spoils(RecordWords(r)) /\ Fits(RecordWords(r))
        /\ flash' = Program(write_offset, RecordImage(r), RecordWords(r))
        /\ write_offset' = write_offset + RecordWords(r)
        /\ replay' = Logged(write_offset + RecordWords(r), Push(Promise, r), r.sequence)
    BY <1>3, <2>2 DEF RewriteRecord
  <2>4. PICK log \in Seq(Entry) :
           /\ LogRead(log) /\ write_offset = End(log) /\ BlankFrom(End(log))
           /\ Promise = SubSeq(plan, 1, progress)
    BY <2>1, <2>3 DEF TornInv, InLog
  <2>5. /\ plan \in Seq(Record) /\ Len(plan) <= Capacity /\ progress \in Nat
        /\ Len(plan) \in Nat /\ progress + 1 \in 1 .. Len(plan)
    BY <1>1, <2>1 DEF TypeInv, TypeOK
  <2>6. Promise \in Seq(Record) /\ Len(Promise) = progress
    BY <2>4, <2>5, SubSeqProperties
  <2>7. Push(Promise, r) = Append(Promise, r)
    BY <2>1, <2>5, <2>6, SpoolAssumption DEF Push
  <2>8. Push(Promise, r) = SubSeq(plan, 1, progress + 1)
    <3>1. SubSeq(plan, 1, progress + 1) = Append(SubSeq(plan, 1, progress), plan[progress + 1])
      BY <2>5, SubSeqRecursiveSecond
    <3>. QED
      BY <2>4, <2>7, <3>1 DEF NextRecord
  <2>9. PICK q \in Seq(Record) : q = Push(Promise, r)
    BY <2>2, <2>6, PushType
  <2>. HIDE DEF r
  <2>10. PICK longer \in Seq(Entry) :
           /\ LogRead(longer)' /\ End(longer) = write_offset + RecordWords(r)
           /\ BlankFrom(End(longer))' /\ Promise' = q
    BY <1>1, <2>2, <2>3, <2>4, <2>9, RecordAdded
  <2>11. InLog(longer)'
    BY <2>1, <2>3, <2>5, <2>8, <2>9, <2>10 DEF InLog
  <2>. QED
    BY <2>10, <2>11
<1>4. CASE RewriteDone
  <2>1. /\ mode = "rewrite" /\ progress = Len(plan) /\ mode' = "ready" /\ queue' = plan
        /\ UNCHANGED <<flash, write_offset, replay, spoiled>>
    BY <1>4 DEF RewriteDone, historyVars
  <2>2. PICK log \in Seq(Entry) :
           LogRead(log) /\ write_offset = End(log) /\ Promise = SubSeq(plan, 1, Len(plan))
    BY <2>1 DEF TornInv, InLog
  <2>3. SubSeq(plan, 1, Len(plan)) = plan
    BY <1>1, SubSeqFull DEF TypeInv, TypeOK
  <2>4. LogRead(log)'
    BY <2>1, <2>2, LogUnchanged
  <2>5. Promise' = Promise
    BY <2>1 DEF Promise, Recovered
  <2>6. InLog(log)'
    BY <2>1, <2>2, <2>3, <2>5 DEF InLog
  <2>. QED
    BY <2>4, <2>6
<1>5. ~EraseSector
  BY DEF EraseSector
<1>. QED
  BY <1>2, <1>3, <1>4, <1>5 DEF Compact

\* After a reset recovery starts with the first step of the log.
LEMMA TornReset ==
    ASSUME NEW log \in Seq(Entry), LogRead(log)', Reset
    PROVE  InLog(log)'
<1>1. mode' = "scan" /\ write_offset' = 0 /\ queue' = <<>> /\ max_seen' = -1
  BY DEF Reset
<1>2. log # <<>> /\ log[1] = Nothing
  BY DEF LogRead
<1>3. 1 \in 1 .. Len(log)
  BY <1>2
<1>. QED
  BY <1>1, <1>2, <1>3, LogBegins DEF InLog

\* So does what a lost power or a failed write leaves, unless it spoils the log.
LEMMA TornFailure ==
    ASSUME TornInv, Failure, ~spoiled'
    PROVE  \E log \in Seq(Entry) : LogRead(log)' /\ InLog(log)'
<1>1. TypeInv
  BY DEF TornInv
<1>2. CASE PowerLoss
  <2>1. mode # "erase" /\ ~spoiled /\ Reset /\ UNCHANGED <<flash, replay>>
    BY <1>2 DEF PowerLoss, Reset
  <2>2. PICK log \in Seq(Entry) : LogRead(log)
    BY <2>1 DEF TornInv
  <2>3. LogRead(log)'
    BY <2>1, <2>2, LogUnchanged
  <2>. QED
    BY <2>1, <2>3, TornReset
<1>3. ASSUME mode = "ready", ~spoiled, replay' = replay,
             NEW image, image \in PendingImages, Fits(Len(image)), ~Spoils(Len(image)),
             flash' \in Torn(write_offset, image), ~Acknowledges(flash')
      PROVE  /\ \E log \in Seq(Entry) : LogRead(log)'
             /\ queue = Promise /\ \A e : e = write_offset => flash'[e] # Blank
  <2>1. PICK log \in Seq(Entry) :
           /\ LogRead(log) /\ queue = Promise
           /\ write_offset = End(log) \/ flash[write_offset] # Blank
    BY <1>3 DEF TornInv, InLog
  <2>2. Len(image) \in Nat /\ Len(image) > 0
    <3>1. CASE \E r \in Record : image = RecordImage(r)
      BY <3>1, RecordImageType, RecordWordsType DEF HeaderWords
    <3>2. CASE \E s \in Sequence : image = AckImage(s)
      BY <3>2, AckImageType DEF AckWords
    <3>. QED
      BY <1>1, <1>3, <3>1, <3>2, PendingImageKinds
  <2>3. write_offset = End(log) /\ BlankFrom(End(log))
    BY <1>1, <1>3, <2>1, <2>2, EntryAtEnd
  <2>4. /\ \E longer \in Seq(Entry) : LogRead(longer)'
        /\ \A e : e = write_offset => flash'[e] # Blank
    BY <1>1, <1>3, <2>1, <2>3, TornAtEnd
  <2>. QED
    BY <2>1, <2>4
<1>4. CASE PowerLossInWrite
  <2>1. PICK image \in PendingImages :
           /\ Fits(Len(image))
           /\ flash' \in Torn(write_offset, image) \ {Program(write_offset, image, Len(image))}
           /\ spoiled' = (spoiled \/ Spoils(Len(image)) \/ Misread(flash'))
    BY <1>4 DEF PowerLossInWrite
  <2>2. mode = "ready" /\ Reset /\ replay' = replay
    BY <1>4 DEF PowerLossInWrite, Reset
  <2>3. ~spoiled /\ ~Spoils(Len(image)) /\ ~Misread(flash')
    BY <2>1
  <2>4. ~Acknowledges(flash')
    BY <1>1, <2>1, <2>3, HeadKept
  <2>5. PICK log \in Seq(Entry) : LogRead(log)'
    BY <1>3, <2>1, <2>2, <2>3, <2>4
  <2>. QED
    BY <2>2, <2>5, TornReset
<1>5. CASE WriteFails
  <2>1. PICK image \in PendingImages :
           /\ Fits(Len(image))
           /\ flash' \in Torn(write_offset, image)
           /\ spoiled' = (spoiled \/ Spoils(Len(image)) \/ Acknowledges(flash'))
    BY <1>5 DEF WriteFails
  <2>2. mode = "ready" /\ UNCHANGED <<mode, queue, write_offset, replay>>
    BY <1>5 DEF WriteFails
  <2>3. ~spoiled /\ ~Spoils(Len(image)) /\ ~Acknowledges(flash')
    BY <2>1
  <2>4. /\ \E log \in Seq(Entry) : LogRead(log)'
        /\ queue = Promise /\ \A e : e = write_offset => flash'[e] # Blank
    BY <1>3, <2>1, <2>2, <2>3
  <2>5. PICK log \in Seq(Entry) : LogRead(log)'
    BY <2>4
  <2>6. Promise' = Promise
    BY <2>2 DEF Promise, Recovered
  <2>7. InLog(log)'
    BY <2>2, <2>4, <2>6 DEF InLog
  <2>. QED
    BY <2>5, <2>7
<1>6. ~PowerLossInErase /\ ~PowerLossInRewrite /\ ~EraseFails /\ ~RewriteFails
  BY DEF PowerLossInErase, PowerLossInRewrite, EraseFails, RewriteFails
<1>. QED
  BY <1>2, <1>4, <1>5, <1>6 DEF Failure

LEMMA TornStep == TornInv /\ [Next]_vars => TornInv'
<1>. SUFFICES ASSUME TornInv, [Next]_vars PROVE TornInv'
  OBVIOUS
<1>1. TypeInv /\ TypeInv'
  BY TypeStep DEF TornInv
<1>2. CASE UNCHANGED vars
  <2>1. UNCHANGED <<flash, replay, mode, queue, write_offset, max_seen, plan, progress, spoiled>>
    BY <1>2 DEF vars, flashVars, compactionVars, historyVars
  <2>2. Promise' = Promise
    BY <2>1 DEF Recovered, Promise
  <2>3. \A log : LogRead(log) /\ InLog(log) => LogRead(log)' /\ InLog(log)'
    BY <2>1, <2>2, LogUnchanged DEF InLog, BlankFrom
  <2>. QED
    BY <1>1, <2>1, <2>3 DEF TornInv
<1>3. CASE Scan
  <2>1. spoiled' = spoiled /\ mode' # "erase"
    BY <1>3 DEF Scan, ScanRecord, ScanAck, ScanSkip, ScanStop, Scanning, historyVars
  <2>. QED
    BY <1>1, <1>3, <2>1, TornScan DEF TornInv
<1>4. CASE Operation
  <2>1. mode' = "erase" => progress' = 0
    BY <1>4 DEF Operation, AppendEntry, AppendCompacting, AcknowledgeEntry,
                AcknowledgeCompacting, Appending
  <2>. QED
    BY <1>1, <1>4, <2>1, TornOperation DEF TornInv
<1>5. CASE Compact
  <2>1. mode' = "erase" => EraseSector
    BY <1>5 DEF Compact, StartRewrite, RewriteRecord, RewriteDone
  <2>2. mode' = "erase" =>
           \A w \in 0 .. RegionWords - 1 : w < progress' => flash'[w] = Blank
    <3>1. EraseSector => mode = "erase"
      BY DEF EraseSector
    <3>. QED
      BY <1>1, <2>1, <3>1, SectorErased DEF TornInv
  <2>. QED
    BY <1>1, <1>5, <2>2, TornCompact DEF TornInv
<1>6. CASE Failure
  <2>1. mode' # "erase"
    BY <1>6 DEF Failure, PowerLoss, PowerLossInWrite, PowerLossInErase, PowerLossInRewrite,
                WriteFails, EraseFails, RewriteFails, Reset
  <2>. QED
    BY <1>1, <1>6, <2>1, TornFailure DEF TornInv
<1>. QED
  BY <1>2, <1>3, <1>4, <1>5, <1>6 DEF Next

\* A recovered queue is the promised queue: every record appended and neither
\* dropped nor acknowledged, oldest first (recover_with_report), whatever fails
\* and whenever the power is lost, unless the log is spoiled.
THEOREM RecoveryExact == Spec => []RecoveredExactly
<1>1. Init => TornInv
  BY TornInit
<1>2. TornInv /\ [Next]_vars => TornInv'
  BY TornStep
<1>3. TornInv => RecoveredExactly
  BY DEF TornInv, InLog, RecoveredExactly
<1>. QED
  BY <1>1, <1>2, <1>3, PTL DEF Spec

\* Remains of a cut-off or failed write begin at the write offset, whatever
\* fails and whenever the power is lost: in a log that is not spoiled, an
\* erased word at the write offset means that append and acknowledge find
\* erased words up to the end of the region (recover_with_report, flash.write).
THEOREM TailAlwaysErased == Spec => []TailErased
<1>1. Init => TornInv
  BY TornInit
<1>2. TornInv /\ [Next]_vars => TornInv'
  BY TornStep
<1>3. TornInv => TailErased
  <2>. SUFFICES ASSUME TornInv, mode = "ready", ~spoiled, flash[write_offset] = Blank
                PROVE  BlankFrom(write_offset)
    BY DEF TailErased, BlankFrom
  <2>1. PICK log \in Seq(Entry) : LogRead(log) /\ InLog(log)
    BY DEF TornInv
  <2>2. write_offset = End(log)
    BY <2>1 DEF InLog
  <2>3. ~Unreadable(write_offset)
    BY Magics DEF Unreadable
  <2>. QED
    BY <2>1, <2>2, <2>3 DEF LogRead
<1>. QED
  BY <1>1, <1>2, <1>3, PTL DEF Spec

-----------------------------------------------------------------------------
(* The log the clients see.  Every step of the spool is one of SpoolFifo    *)
(* or none: an append adds the record that was given the next number, the   *)
(* front leaves, or a restart chooses the next number.                      *)

\* SpoolFifo computes with its own instances of the queue operations; they are
\* the operations of SpoolRecords.
LEMMA SameFitting == \A q : Fifo!Fitting(q) = Fitting(q)
<1>1. \A r : Fifo!RecordWords(r) = RecordWords(r)
  BY DEF RecordWords, Fifo!RecordWords, HeaderWords, Fifo!HeaderWords
<1>2. \A f : Fifo!SumFunction(f) = SumFunction(f)
  BY DEF SumFunction, Fifo!SumFunction, SumFunctionOnSet, Fifo!SumFunctionOnSet,
         FoldFunctionOnSet, Fifo!FoldFunctionOnSet, MapThenFoldSet, Fifo!MapThenFoldSet
<1>3. \A q : Fifo!TotalWords(q) = TotalWords(q)
  BY <1>1, <1>2 DEF TotalWords, Fifo!TotalWords
<1>4. \A q, k : Fifo!From(q, k) = From(q, k)
  BY DEF From, Fifo!From
<1>. QED
  BY <1>3, <1>4 DEF Fitting, Fifo!Fitting, FirstFitting, Fifo!FirstFitting, FitsRegion, Fifo!FitsRegion

LEMMA SamePush == \A q, r : Fifo!Push(q, r) = Push(q, r)
BY DEF Push, Fifo!Push

LEMMA SameNext == \A s : Fifo!NextOf(s) = NextOf(s) /\ Fifo!Sequence = Sequence
BY DEF NextOf, Fifo!NextOf, Sequence, Fifo!Sequence, SequenceMod, Fifo!SequenceMod

\* What a compaction will install is what it leaves in memory, or the queue
\* with one more record and the numbering one further.
PlanExact ==
    mode \in {"erase", "rewrite"} =>
        \/ plan = queue /\ plan_next = next_sequence
        \/ \E p \in Payloads :
              plan = Fitting(Push(queue, Incoming(p))) /\ plan_next = NextOf(next_sequence)

LEMMA PlanExactInit == Init => PlanExact
BY DEF Init, PlanExact

LEMMA PlanExactStep ==
    ASSUME PlanExact, [Next]_vars
    PROVE  PlanExact'
<1>1. ASSUME UNCHANGED <<queue, next_sequence, plan, plan_next>>,
             mode' \in {"erase", "rewrite"} => mode \in {"erase", "rewrite"}
      PROVE  PlanExact'
  <2>1. \A p : Incoming(p)' = Incoming(p)
    BY <1>1 DEF Incoming
  <2>. QED
    BY <1>1, <2>1 DEF PlanExact
<1>2. CASE UNCHANGED vars
  BY <1>1, <1>2 DEF vars, flashVars, compactionVars
<1>3. ASSUME mode' \in {"scan", "ready"}  PROVE PlanExact'
  BY <1>3 DEF PlanExact
<1>4. CASE Scan
  BY <1>3, <1>4 DEF Scan, ScanRecord, ScanAck, ScanSkip, ScanStop, Scanning
<1>5. ASSUME NEW p \in Payloads, AppendEntry(p)  PROVE PlanExact'
  BY <1>3, <1>5 DEF AppendEntry, Appending
<1>6. ASSUME NEW p \in Payloads, AppendCompacting(p)  PROVE PlanExact'
  <2>1. /\ plan' = Fitting(Push(queue, Incoming(p))) /\ plan_next' = NextOf(next_sequence)
        /\ queue' = queue /\ next_sequence' = next_sequence
    BY <1>6 DEF AppendCompacting
  <2>2. Incoming(p)' = Incoming(p)
    BY <2>1 DEF Incoming
  <2>. QED
    BY <2>1, <2>2 DEF PlanExact
<1>7. CASE AcknowledgeEntry
  BY <1>3, <1>7 DEF AcknowledgeEntry
<1>8. CASE AcknowledgeCompacting
  BY <1>8 DEF AcknowledgeCompacting, PlanExact
<1>9. CASE EraseSector \/ StartRewrite \/ RewriteRecord
  BY <1>1, <1>9 DEF EraseSector, StartRewrite, RewriteRecord
<1>10. CASE RewriteDone
  BY <1>3, <1>10 DEF RewriteDone
<1>11. CASE Failure
  BY <1>3, <1>11 DEF Failure, PowerLoss, PowerLossInWrite, PowerLossInErase, PowerLossInRewrite,
                     WriteFails, EraseFails, RewriteFails, Reset
<1>. QED
  BY <1>2, <1>4, <1>5, <1>6, <1>7, <1>8, <1>9, <1>10, <1>11 DEF Next, Operation, Compact

-----------------------------------------------------------------------------
(* What the clients see of a step.                                         *)

Shown == IF mode = "scan" THEN Promise ELSE queue

FifoStep ==
    \/ Shown' = Shown /\ next_sequence' = next_sequence
    \/ \E p \in Payloads :
          Shown' = Fitting(Push(Shown, Incoming(p))) /\ next_sequence' = NextOf(next_sequence)
    \/ Shown # <<>> /\ Shown' = Tail(Shown) /\ next_sequence' = next_sequence
    \/ /\ next_sequence' \in Sequence /\ Shown' = Shown
       /\ \A i \in DOMAIN Shown : Shown[i].sequence < next_sequence'

LEMMA FifoStepMaps == FifoStep => [Fifo!Next]_Fifo!vars
<1>1. CASE Shown' = Shown /\ next_sequence' = next_sequence
  BY <1>1 DEF Shown, Fifo!vars
<1>2. ASSUME NEW p \in Payloads,
             Shown' = Fitting(Push(Shown, Incoming(p))), next_sequence' = NextOf(next_sequence)
      PROVE  [Fifo!Next]_Fifo!vars
  <2>1. Fifo!AppendRecord(p)
    BY <1>2, SameFitting, SamePush, SameNext DEF Fifo!AppendRecord, Shown, Incoming
  <2>. QED
    BY <2>1 DEF Fifo!Next
<1>3. CASE Shown # <<>> /\ Shown' = Tail(Shown) /\ next_sequence' = next_sequence
  <2>1. Fifo!AcknowledgeOldest
    BY <1>3 DEF Fifo!AcknowledgeOldest, Shown
  <2>. QED
    BY <2>1 DEF Fifo!Next
<1>4. CASE /\ next_sequence' \in Sequence /\ Shown' = Shown
           /\ \A i \in DOMAIN Shown : Shown[i].sequence < next_sequence'
  <2>1. Fifo!Restart
    BY <1>4, SameNext DEF Fifo!Restart, Shown
  <2>. QED
    BY <2>1 DEF Fifo!Next
<1>. QED
  BY <1>1, <1>2, <1>3, <1>4 DEF FifoStep

LEMMA FifoOperation ==
    ASSUME TornInv, ~spoiled, ~spoiled', Operation
    PROVE  FifoStep
<1>1. mode = "ready" /\ mode' # "scan" /\ TypeInv
  BY DEF TornInv, Operation, AppendEntry, AppendCompacting, AcknowledgeEntry,
         AcknowledgeCompacting, Appending
<1>2. Shown = queue /\ Shown' = queue'
  BY <1>1 DEF Shown
<1>3. queue \in Seq(Record) /\ Len(queue) <= Capacity
  BY <1>1 DEF TypeInv, TypeOK
<1>4. ASSUME NEW p \in Payloads, AppendEntry(p)  PROVE FifoStep
  <2>. DEFINE r == Incoming(p)
  <2>1. r \in Record /\ RecordWords(r) \in Nat /\ RecordWords(r) > 0
    BY <1>1, IncomingType, RecordWordsType DEF HeaderWords
  <2>2. /\ ~Spoils(RecordWords(r)) /\ Fits(RecordWords(r))
        /\ queue' = Push(queue, r) /\ next_sequence' = NextOf(next_sequence)
    BY <1>4 DEF AppendEntry
  <2>. HIDE DEF r
  <2>3. PICK log \in Seq(Entry) :
           /\ LogRead(log) /\ queue = Promise
           /\ write_offset = End(log) \/ flash[write_offset] # Blank
    BY <1>1 DEF TornInv, InLog
  <2>4. TotalWords(queue) <= write_offset
    BY <1>1, <2>1, <2>2, <2>3, EntryAtEnd DEF LogRead
  <2>5. PICK q \in Seq(Record) : q = Push(queue, r) /\ q # <<>>
    BY <1>3, <2>1, PushProperties
  <2>6. FitsRegion(q)
    <3>1. TotalWords(q) <= TotalWords(queue) + RecordWords(r)
      BY <1>3, <2>1, <2>5, WordsPushed
    <3>2. TotalWords(q) \in Nat /\ TotalWords(queue) \in Nat
      BY <1>3, WordsType
    <3>3. write_offset \in Nat /\ RegionWords \in Nat /\ write_offset + RecordWords(r) <= RegionWords
      BY <1>1, <2>2, SpoolAssumption DEF TypeInv, TypeOK, Fits
    <3>. QED
      BY <2>1, <2>4, <3>1, <3>2, <3>3 DEF FitsRegion
  <2>7. Fitting(q) = q
    BY <2>5, <2>6, FittingWhole
  <2>. QED
    BY <1>2, <2>2, <2>5, <2>7 DEF FifoStep, r
<1>5. ASSUME NEW p \in Payloads, AppendCompacting(p)  PROVE FifoStep
  BY <1>2, <1>5 DEF AppendCompacting, FifoStep
<1>6. CASE AcknowledgeEntry \/ AcknowledgeCompacting
  BY <1>2, <1>6 DEF AcknowledgeEntry, AcknowledgeCompacting, FifoStep
<1>. QED
  BY <1>4, <1>5, <1>6 DEF Operation

LEMMA FifoCompact ==
    ASSUME PlanExact, Compact
    PROVE  FifoStep
<1>1. CASE EraseSector \/ StartRewrite \/ RewriteRecord
  <2>1. mode # "scan" /\ mode' # "scan" /\ UNCHANGED <<queue, next_sequence>>
    BY <1>1 DEF EraseSector, StartRewrite, RewriteRecord
  <2>. QED
    BY <2>1 DEF FifoStep, Shown
<1>2. CASE RewriteDone
  <2>1. /\ mode = "rewrite" /\ mode' = "ready" /\ queue' = plan /\ next_sequence' = plan_next
    BY <1>2 DEF RewriteDone
  <2>2. Shown = queue /\ Shown' = plan
    BY <2>1 DEF Shown
  <2>. QED
    BY <2>1, <2>2 DEF FifoStep, PlanExact
<1>. QED
  BY <1>1, <1>2 DEF Compact

LEMMA FifoFailure ==
    ASSUME TornInv, ~spoiled, ~spoiled', Failure
    PROVE  FifoStep
<1>1. UNCHANGED <<replay, next_sequence>> /\ Promise' = Promise
  BY DEF Failure, PowerLoss, PowerLossInWrite, PowerLossInErase, PowerLossInRewrite,
         WriteFails, EraseFails, RewriteFails, Reset, Promise, Recovered
<1>2. CASE PowerLoss \/ PowerLossInWrite
  <2>1. mode \in {"scan", "ready"} /\ mode' = "scan"
    BY <1>2 DEF PowerLoss, PowerLossInWrite, Reset
  <2>2. Shown = Promise
    BY <2>1 DEF TornInv, InLog, Shown
  <2>. QED
    BY <1>1, <2>1, <2>2 DEF FifoStep, Shown
<1>3. CASE WriteFails
  <2>1. mode = "ready" /\ UNCHANGED <<mode, queue>>
    BY <1>3 DEF WriteFails
  <2>. QED
    BY <1>1, <2>1 DEF FifoStep, Shown
<1>4. ~PowerLossInErase /\ ~PowerLossInRewrite /\ ~EraseFails /\ ~RewriteFails
  BY DEF PowerLossInErase, PowerLossInRewrite, EraseFails, RewriteFails
<1>. QED
  BY <1>2, <1>3, <1>4 DEF Failure

LEMMA FifoScan ==
    ASSUME TornInv', ~spoiled', SequenceOrder', Scan
    PROVE  FifoStep
<1>1. mode = "scan" /\ Promise' = Promise
  BY DEF Scan, ScanRecord, ScanAck, ScanSkip, ScanStop, Scanning, historyVars, Promise, Recovered
<1>2. CASE ScanRecord \/ ScanAck \/ ScanSkip
  <2>1. mode' = "scan" /\ next_sequence' = next_sequence
    BY <1>1, <1>2 DEF ScanRecord, ScanAck, ScanSkip
  <2>. QED
    BY <1>1, <2>1 DEF FifoStep, Shown
<1>3. CASE ScanStop
  <2>1. mode' = "ready"
    BY <1>3 DEF ScanStop
  <2>2. queue' = Promise' /\ next_sequence' \in Sequence
    BY <2>1 DEF TornInv, InLog, TypeInv, TypeOK
  <2>3. Shown = queue' /\ Shown' = queue'
    BY <1>1, <2>1, <2>2 DEF Shown
  <2>4. \A i \in DOMAIN queue' : queue'[i].sequence < next_sequence'
    BY <2>1 DEF SequenceOrder
  <2>. QED
    BY <2>2, <2>3, <2>4 DEF FifoStep
<1>. QED
  BY <1>2, <1>3 DEF Scan

LEMMA FifoNext ==
    TornInv /\ TornInv' /\ PlanExact /\ ~spoiled /\ ~spoiled' /\ SequenceOrder' /\ [Next]_vars
        => [Fifo!Next]_Fifo!vars
<1>. SUFFICES ASSUME TornInv, TornInv', PlanExact, ~spoiled, ~spoiled', SequenceOrder', [Next]_vars
              PROVE  FifoStep
  BY FifoStepMaps
<1>1. CASE UNCHANGED vars
  BY <1>1 DEF vars, flashVars, historyVars, FifoStep, Shown, Promise, Recovered
<1>. QED
  BY <1>1, FifoScan, FifoOperation, FifoCompact, FifoFailure DEF Next

LEMMA FifoInit == Init => Fifo!Init
<1>. SUFFICES ASSUME Init PROVE Fifo!Init
  OBVIOUS
<1>1. Recovered = Nothing
  BY DEF Init, Recovered
<1>. QED
  BY <1>1 DEF Init, Fifo!Init, Promise, Nothing

\* As long as the log is not spoiled and the numbers ascend, the spool is the
\* FIFO its clients see, whatever fails and whenever the power is lost.
THEOREM SpoolIsFifo == Spec /\ [](~spoiled /\ SequenceOrder) => ImplementsFifo
<1>1. Init => TornInv /\ PlanExact
  BY TornInit, PlanExactInit
<1>2. TornInv /\ PlanExact /\ [Next]_vars => TornInv' /\ PlanExact'
  BY TornStep, PlanExactStep
<1>3. TornInv /\ TornInv' /\ PlanExact /\ ~spoiled /\ ~spoiled' /\ SequenceOrder' /\ [Next]_vars
        => [Fifo!Next]_Fifo!vars
  BY FifoNext
<1>4. Spec /\ [](~spoiled /\ SequenceOrder) => Fifo!Spec
  BY <1>1, <1>2, <1>3, FifoInit, PTL DEF Spec, Fifo!Spec
<1>. QED
  BY <1>4 DEF ImplementsFifo

\* The numbers ascend while power is lost only between calls, so the spool is
\* that FIFO then, except behind an acknowledgement in the last words of the
\* region.
THEOREM SpoolIsFifoWhenIdle ==
    ASSUME Faults \subseteq {"idle"}, MaxAppends < SequenceMod
    PROVE  Spec /\ []~spoiled => ImplementsFifo
BY SpoolIsFifo, NumbersAscend, PTL
=============================================================================
