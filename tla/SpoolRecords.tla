---------------------------- MODULE SpoolRecords ----------------------------
(***************************************************************************)
(* The data of the measurement spool: sequence numbers, records, their     *)
(* size in flash words and the bounded drop-oldest queue that holds them.  *)
(*                                                                         *)
(* A flash word is FLASH_WRITE_ALIGNMENT = 4 bytes; every length of the    *)
(* codec is a whole number of words (align_up).  A payload is an opaque    *)
(* value: only its size and its identity matter to the spool.              *)
(***************************************************************************)
EXTENDS Integers, Sequences, Functions

CONSTANTS
    Capacity,      \* records the in-memory queue holds (PERSISTENT_SPOOL_CAPACITY, 32)
    RegionWords,   \* size of the spool's flash region, in words (0x10000)
    Payloads,      \* the payloads a measurement can encode to
    PayloadWords,  \* PayloadWords[p]: words p adds to the record header
    Radix          \* a sequence number is three digits of this radix (see AckImage)

\* ENCODED_RECORD_HEADER_LEN (24 bytes) and ENCODED_ACK_RECORD_LEN (16 bytes).
HeaderWords == 6
AckWords == 4

\* A record always fits in the region: MEASUREMENT_PAYLOAD_SIZE is 384 bytes
\* and the region 256 KiB.
ASSUME SpoolAssumption ==
    /\ Capacity \in Nat \ {0}
    /\ RegionWords \in Nat
    /\ PayloadWords \in [Payloads -> Nat \ {0}]
    /\ \A p \in Payloads : HeaderWords + PayloadWords[p] <= RegionWords
    /\ Radix \in Nat \ {0, 1}

\* u64, scaled down to Radix^3.
SequenceMod == Radix * Radix * Radix
Sequence == 0 .. SequenceMod - 1

\* u64::wrapping_add(1)
NextOf(s) == (s + 1) % SequenceMod

Record == [sequence : Sequence, payload : Payloads]

\* encoded_record_len, in words
RecordWords(r) == HeaderWords + PayloadWords[r.payload]

\* records_encoded_len and queue_encoded_len, in words
TotalWords(records) ==
    SumFunction([i \in DOMAIN records |-> RecordWords(records[i])])

FitsRegion(records) == TotalWords(records) <= RegionWords

\* The records of q from position k to its end.
From(q, k) == SubSeq(q, k, Len(q))

\* Mutants of Push: nothing makes room, or the newest record makes room.
PushWithoutDrop(q, r) == Append(q, r)
PushOverNewest(q, r) ==
    IF Len(q) < Capacity THEN Append(q, r) ELSE Append(SubSeq(q, 1, Len(q) - 1), r)

\* DropOldestQueue::push: a full queue loses its front.
Push(q, r) ==
    IF Len(q) < Capacity THEN Append(q, r) ELSE Append(Tail(q), r)

\* The pop loop of append_with_compaction: the oldest records are dropped
\* until what is left fits in the region.  The newest record always stays.
FirstFitting(q) ==
    CHOOSE k \in 1 .. Len(q) :
        /\ k = Len(q) \/ FitsRegion(From(q, k))
        /\ \A j \in 1 .. k - 1 : ~FitsRegion(From(q, j))

Fitting(q) == From(q, FirstFitting(q))

\* remove_stored_record_by_sequence: the first record with this sequence
\* number leaves, the others keep their order.
FirstWith(q, s) ==
    CHOOSE i \in DOMAIN q :
        /\ q[i].sequence = s
        /\ \A j \in 1 .. i - 1 : q[j].sequence # s

Without(q, s) ==
    IF \E i \in DOMAIN q : q[i].sequence = s
      THEN SubSeq(q, 1, FirstWith(q, s) - 1) \o From(q, FirstWith(q, s) + 1)
      ELSE q
=============================================================================
