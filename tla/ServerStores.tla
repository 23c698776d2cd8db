----------------------------- MODULE ServerStores -----------------------------
(***************************************************************************)
(* The record stores of the server (server storage.py).  An upload is      *)
(* written into each store in turn and answered by the acknowledgement     *)
(* policy; a maintenance thread copies what one store lacks from the       *)
(* other, resolves conflicts and enforces the retention limits.            *)
(*                                                                         *)
(* Each store has a lock of its own, held for one write or one rewrite     *)
(* only; lists are read without it.  One store operation is one step, and  *)
(* the thread that handles uploads and the maintenance thread interleave.  *)
(* A store is its canonical records: the JSONL file may hold superseded    *)
(* lines, which compaction removes without changing what is canonical.     *)
(***************************************************************************)
EXTENDS Naturals, FiniteSets, Sequences

CONSTANTS
    Keys,         \* (device_id, sequence)
    Versions,     \* payloads a key may be uploaded with
    Strategy,     \* deduplication.strategy of each store
    Conflict,     \* backfill.conflict of each store
    BackfillFrom, \* backfill.source of each store: a store or "all"
    Exclude,      \* backfill.exclude of each store
    Required,     \* stores with ack.required_for_ack
    Sufficient,   \* stores with ack.sufficient_for_ack
    Room,         \* size_limit of each store, in records; 0 is no limit
    MaxTime,      \* bound: times a record may be of
    MaxUploads,   \* bound: uploads in a behaviour
    MaxFailures   \* bound: failed store operations and restarts

StoreOrder == <<"sqlite", "jsonl">>
Stores == {"sqlite", "jsonl"}

ASSUME StoresAssumption ==
    /\ Strategy \in [Stores -> {"keep_first", "keep_last", "reject"}]
    /\ Conflict \in [Stores -> {"error", "keep", "overwrite", "earliest", "latest"}]
    /\ BackfillFrom \in [Stores -> Stores \cup {"all"}]
    /\ Exclude \in [Stores -> SUBSET Stores]
    /\ Required \subseteq Stores
    /\ Sufficient \subseteq Stores
    /\ Room \in [Stores -> Nat]
    /\ MaxTime \in Nat
    /\ MaxUploads \in Nat
    /\ MaxFailures \in Nat

VARIABLES
    stored,       \* stored[s]: the canonical records of store s
    upload,       \* the record being accepted, in a sequence; empty when idle
    results,      \* accept_upload: the outcome of each store written so far
    phase,        \* what the maintenance thread does next
    target,       \* index of the store the maintenance thread works on
    listed,       \* its list of that store, kept up while it reconciles
    todo,         \* source records not yet reconciled
    keeping,      \* the records it is about to leave in the store
    candidate,    \* the source record that replaces a stored one
    uploads,      \* history: number of uploads
    acked,        \* history: the records answered with 204
    failures      \* history: number of failures and restarts

uploadVars == <<upload, results, uploads, acked>>
maintenanceVars == <<phase, target, listed, todo, keeping, candidate>>
vars == <<stored, uploadVars, maintenanceVars, failures>>

-----------------------------------------------------------------------------
(* Stores.                                                                 *)

\* MeasurementRecord: time is display_unix_ms, the wall clock the device
\* reports or that of the server, which may be set back.
Record == [key : Keys, version : Versions, time : 1 .. MaxTime]

With(records, key) == {r \in records : r.key = key}

KeysOf(records) == {r.key : r \in records}

\* write of a record: a new key is added, a known one with another payload is
\* treated by the strategy of the store.
Written(s, records, r) ==
    LET known == With(records, r.key)
        replaced == \E k \in known : k.version # r.version /\ Strategy[s] = "keep_last"
    IN IF known = {} THEN records \cup {r}
       ELSE IF replaced THEN (records \ known) \cup {r} ELSE records

\* The result of the write: stored unless a conflict is rejected.
Outcome(s, records, r) ==
    IF Strategy[s] = "reject" /\ \E k \in With(records, r.key) : k.version # r.version
      THEN "conflict" ELSE "stored"

\* retain_records: SQLite deletes by key, JSONL writes the given list.
Retained(s, records, kept) ==
    IF s = "sqlite" THEN {r \in records : r.key \in KeysOf(kept)} ELSE kept

\* The sets of at most n records with none left out that is newer.  Where the
\* time is the same the code goes by the key.
Retainable(records, n) ==
    {kept \in SUBSET records :
        /\ Cardinality(kept) <= n
        /\ kept = records \/ Cardinality(kept) = n
        /\ \A k \in kept, gone \in records \ kept : gone.time <= k.time}

\* Mutant of Newest: one too many.
NewestOneMore(s, records) ==
    IF Room[s] = 0 THEN {records} ELSE Retainable(records, Room[s] + 1)

\* _retained_records: the newest ones that fit.
Newest(s, records) ==
    IF Room[s] = 0 THEN {records} ELSE Retainable(records, Room[s])

Failure ==
    /\ failures < MaxFailures
    /\ failures' = failures + 1

-----------------------------------------------------------------------------
(* Uploads: ConfiguredMeasurementSink.accept_upload.                       *)

Receive(key, version, time) ==
    /\ upload = <<>>
    /\ uploads < MaxUploads
    /\ uploads' = uploads + 1
    /\ upload' = <<[key |-> key, version |-> version, time |-> time]>>
    /\ results' = <<>>
    /\ UNCHANGED <<stored, acked, maintenanceVars, failures>>

Writing == upload # <<>> /\ Len(results) < Len(StoreOrder)

\* Mutant of WriteStore: a rejected record is stored beside the other one.
WriteStoreBeside ==
    LET s == StoreOrder[Len(results) + 1] IN
    /\ Writing
    /\ stored' = [stored EXCEPT ![s] = @ \cup {upload[1]}]
    /\ results' = Append(results, Outcome(s, stored[s], upload[1]))
    /\ UNCHANGED <<upload, uploads, acked, maintenanceVars, failures>>

\* _write_store
WriteStore ==
    LET s == StoreOrder[Len(results) + 1] IN
    /\ Writing
    /\ stored' = [stored EXCEPT ![s] = Written(s, @, upload[1])]
    /\ results' = Append(results, Outcome(s, stored[s], upload[1]))
    /\ UNCHANGED <<upload, uploads, acked, maintenanceVars, failures>>

\* The store raised an exception.
WriteStoreFails ==
    /\ Writing
    /\ Failure
    /\ results' = Append(results, "failed")
    /\ UNCHANGED <<stored, upload, uploads, acked, maintenanceVars>>

Stored(s) == \E i \in DOMAIN StoreOrder : StoreOrder[i] = s /\ results[i] = "stored"

\* Mutant of AckSatisfied: one of the required stores is enough.
AckSatisfiedOne == \E s \in Sufficient \cup Required : Stored(s)

\* _ack_satisfied, when storage is required for the acknowledgement
AckSatisfied ==
    \/ \E s \in Sufficient : Stored(s)
    \/ Required # {} /\ \A s \in Required : Stored(s)

\* 204, or 409 or 503.
Respond ==
    /\ upload # <<>>
    /\ Len(results) = Len(StoreOrder)
    /\ upload' = <<>>
    /\ results' = <<>>
    /\ acked' = IF AckSatisfied THEN acked \cup {upload[1]} ELSE acked
    /\ UNCHANGED <<stored, uploads, maintenanceVars, failures>>

Upload ==
    \/ WriteStore \/ WriteStoreFails \/ Respond

-----------------------------------------------------------------------------
(* Maintenance: reconcile_once, then enforce_retention_once.               *)

Store == StoreOrder[target]

\* The stores d is filled from.
Sources(d) == {s \in Stores \ (Exclude[d] \cup {d}) : BackfillFrom[d] \in {"all", s}}

Waiting == phase = "waiting"

StartRound ==
    /\ Waiting
    /\ phase' = "list"
    /\ target' = 1
    /\ UNCHANGED <<stored, uploadVars, listed, todo, keeping, candidate, failures>>

\* reconcile_once: destination_records
ListDestination ==
    /\ phase = "list"
    /\ phase' = "source"
    /\ listed' = stored[Store]
    /\ UNCHANGED <<stored, uploadVars, target, todo, keeping, candidate, failures>>

\* _backfill_source_records; two stores have one source at most.
ListSource ==
    /\ phase = "source"
    /\ phase' = "reconcile"
    /\ todo' = UNION {stored[s] : s \in Sources(Store)}
    /\ UNCHANGED <<stored, uploadVars, target, listed, keeping, candidate, failures>>

\* The next source record; their order does not matter here.
Reconciling(r) ==
    /\ phase = "reconcile"
    /\ r \in todo
    /\ todo' = todo \ {r}

Taken(r) == IF Outcome(Store, stored[Store], r) = "stored" THEN {r} ELSE {}

\* Mutant of CopyMissing: the copy is noted but not written.
CopyMissingUnwritten(r) ==
    /\ Reconciling(r)
    /\ With(listed, r.key) = {}
    /\ listed' = listed \cup {r}
    /\ UNCHANGED <<stored, uploadVars, phase, target, keeping, candidate, failures>>

CopyMissing(r) ==
    /\ Reconciling(r)
    /\ With(listed, r.key) = {}
    /\ stored' = [stored EXCEPT ![Store] = Written(Store, @, r)]
    /\ listed' = listed \cup Taken(r)
    /\ UNCHANGED <<uploadVars, phase, target, keeping, candidate, failures>>

\* _resolve_record_conflict selects r for the store.
Prevails(r) ==
    \E existing \in With(listed, r.key) :
        /\ r.version # existing.version
        /\ \/ Conflict[Store] = "overwrite"
           \/ Conflict[Store] = "earliest" /\ r.time < existing.time
           \/ Conflict[Store] = "latest" /\ r.time > existing.time

KeepExisting(r) ==
    /\ Reconciling(r)
    /\ With(listed, r.key) # {}
    /\ ~Prevails(r)
    /\ UNCHANGED <<stored, uploadVars, phase, target, listed, keeping, candidate, failures>>

\* _replace_store_record: list the others, retain them, write the record.
ReplaceList(r) ==
    /\ Reconciling(r)
    /\ Prevails(r)
    /\ phase' = "retain others"
    /\ keeping' = stored[Store] \ With(stored[Store], r.key)
    /\ candidate' = <<r>>
    /\ UNCHANGED <<stored, uploadVars, target, listed, failures>>

ReplaceRetain ==
    /\ phase = "retain others"
    /\ phase' = "write back"
    /\ stored' = [stored EXCEPT ![Store] = Retained(Store, @, keeping)]
    /\ keeping' = {}
    /\ UNCHANGED <<uploadVars, target, listed, todo, candidate, failures>>

ReplaceWrite ==
    /\ phase = "write back"
    /\ phase' = "reconcile"
    /\ stored' = [stored EXCEPT ![Store] = Written(Store, @, candidate[1])]
    /\ listed' = IF Taken(candidate[1]) = {} THEN listed
                 ELSE (listed \ With(listed, candidate[1].key)) \cup Taken(candidate[1])
    /\ candidate' = <<>>
    /\ UNCHANGED <<uploadVars, target, todo, keeping, failures>>

\* On to the next store, and after the last to retention.
NextDestination ==
    /\ phase = "reconcile"
    /\ todo = {}
    /\ phase' = IF target < Len(StoreOrder) THEN "list" ELSE "limit"
    /\ target' = IF target < Len(StoreOrder) THEN target + 1 ELSE 1
    /\ listed' = {}
    /\ UNCHANGED <<stored, uploadVars, todo, keeping, candidate, failures>>

\* _enforce_store_retention: list and decide
LimitList ==
    /\ phase = "limit"
    /\ phase' = "retain newest"
    /\ keeping' \in Newest(Store, stored[Store])
    /\ listed' = stored[Store]
    /\ UNCHANGED <<stored, uploadVars, target, todo, candidate, failures>>

\* ... and rewrite the store if some record has to go; then the next store.
LimitRetain ==
    /\ phase = "retain newest"
    /\ stored' = IF keeping = listed THEN stored
                 ELSE [stored EXCEPT ![Store] = Retained(Store, @, keeping)]
    /\ phase' = IF target < Len(StoreOrder) THEN "limit" ELSE "waiting"
    /\ target' = IF target < Len(StoreOrder) THEN target + 1 ELSE 1
    /\ keeping' = {}
    /\ listed' = {}
    /\ UNCHANGED <<uploadVars, todo, candidate, failures>>

\* A store raises an exception: nothing catches it and the thread is gone.
MaintenanceDies ==
    /\ phase \notin {"waiting", "dead"}
    /\ Failure
    /\ phase' = "dead"
    /\ target' = 1 /\ listed' = {} /\ todo' = {} /\ keeping' = {} /\ candidate' = <<>>
    /\ UNCHANGED <<stored, uploadVars>>

Maintenance ==
    \/ StartRound \/ ListDestination \/ ListSource
    \/ \E r \in todo : CopyMissing(r) \/ KeepExisting(r) \/ ReplaceList(r)
    \/ ReplaceRetain \/ ReplaceWrite \/ NextDestination
    \/ LimitList \/ LimitRetain

-----------------------------------------------------------------------------
\* The server process ends and starts again: the device hears nothing.
RestartServer ==
    /\ Failure
    /\ upload' = <<>>
    /\ results' = <<>>
    /\ phase' = "waiting"
    /\ target' = 1 /\ listed' = {} /\ todo' = {} /\ keeping' = {} /\ candidate' = <<>>
    /\ UNCHANGED <<stored, uploads, acked>>

Init ==
    /\ stored = [s \in Stores |-> {}]
    /\ upload = <<>> /\ results = <<>>
    /\ uploads = 0 /\ acked = {}
    /\ phase = "waiting"
    /\ target = 1 /\ listed = {} /\ todo = {} /\ keeping = {} /\ candidate = <<>>
    /\ failures = 0

Next ==
    \/ \E key \in Keys, version \in Versions, time \in 1 .. MaxTime :
            Receive(key, version, time)
    \/ Upload
    \/ Maintenance
    \/ MaintenanceDies
    \/ RestartServer

\* Both threads run, and the maintenance thread's interval always ends.
Fairness == WF_vars(Upload) /\ WF_vars(Maintenance)

Spec == Init /\ [][Next]_vars /\ Fairness

-----------------------------------------------------------------------------
(* Properties.                                                             *)

OnePerKey(records) == \A a, b \in records : a.key = b.key => a = b

TypeOK ==
    /\ \A s \in Stores : stored[s] \subseteq Record /\ OnePerKey(stored[s])
    /\ upload = <<>> \/ \E r \in Record : upload = <<r>>
    /\ Len(results) <= Len(StoreOrder)
    /\ \A i \in DOMAIN results : results[i] \in {"stored", "conflict", "failed"}
    /\ uploads \in 0 .. MaxUploads
    /\ acked \subseteq Record
    /\ phase \in {"waiting", "list", "source", "reconcile", "retain others", "write back",
                  "limit", "retain newest", "dead"}
    /\ target \in DOMAIN StoreOrder
    /\ listed \subseteq Record /\ todo \subseteq Record /\ keeping \subseteq Record
    /\ candidate = <<>> \/ \E r \in Record : candidate = <<r>>
    /\ failures \in 0 .. MaxFailures

\* The stores whose records nothing replaces and no limit removes.
Archives == {s \in Stores : Strategy[s] = "reject" /\ Conflict[s] \in {"error", "keep"} /\ Room[s] = 0}

\* What was answered with 204 stays, with that payload, in every required
\* store that is an archive, whatever maintenance copies, replaces and limits
\* elsewhere ("If no sufficient backend succeeds, every enabled backend marked
\* required_for_ack = true must store the record successfully").
AckedArchived ==
    Sufficient = {} =>
        \A r \in acked, s \in Archives \cap Required :
            \E k \in stored[s] : k.key = r.key /\ k.version = r.version

\* Maintenance, while it lives, makes an unlimited store complete: again and
\* again it holds every key of the stores it is filled from.
ArchiveCompleted ==
    \A s \in Stores : \A t \in Sources(s) :
        Room[s] = 0 => []<>(phase = "dead" \/ KeysOf(stored[t]) \subseteq KeysOf(stored[s]))

\* Maintenance, while it lives, brings a limited store back under its limit
\* again and again, though backfill keeps refilling it.
LimitEnforced ==
    \A s \in Stores :
        Room[s] # 0 => []<>(phase = "dead" \/ Cardinality(stored[s]) <= Room[s])

\* Retention gives up the oldest records and keeps the newest
\* (docs/20-server/04-persistence-configuration.md: "retains newest canonical
\* records first").  It fails: a record written between the list and the
\* rewrite is deleted.
NewestRetained ==
    [][phase = "retain newest" /\ phase' # "dead" /\ stored' # stored =>
        \A gone \in stored[Store] \ stored'[Store], r \in stored'[Store] : gone.time <= r.time]_vars
===============================================================================
