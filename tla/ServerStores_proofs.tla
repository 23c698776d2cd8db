-------------------------- MODULE ServerStores_proofs --------------------------
(***************************************************************************)
(* Proofs about ServerStores, for all strategies, conflict rules, limits   *)
(* and acknowledgement flags: what is acknowledged stays in the archives.  *)
(* Then the types, with one record per key in every store.                 *)
(***************************************************************************)
EXTENDS ServerStores, TLAPS

\* Store s has the payload of r under its key.
Holds(s, r) == \E k \in stored[s] : k.key = r.key /\ k.version = r.version

\* A store that reported success of the upload in progress has it.
WrittenHeld ==
    \A i \in DOMAIN results :
        results[i] = "stored" /\ StoreOrder[i] \in Archives => Holds(StoreOrder[i], upload[1])

\* Maintenance replaces no record of an archive, and limits none.
ArchivesSpared ==
    /\ phase \in {"retain others", "write back"} => Store \notin Archives
    /\ phase = "retain newest" /\ Room[Store] = 0 => keeping = listed

TypeSmall ==
    /\ DOMAIN stored = Stores
    /\ results \in Seq({"stored", "conflict", "failed"})
    /\ Len(results) <= Len(StoreOrder)
    /\ target \in DOMAIN StoreOrder

ArchiveInv == TypeSmall /\ WrittenHeld /\ ArchivesSpared /\ AckedArchived

\* An archive only grows in this step.
ArchivesGrow == \A s \in Archives : stored[s] \subseteq stored'[s]

LEMMA OrderOfStores ==
    /\ Len(StoreOrder) = 2 /\ DOMAIN StoreOrder = {1, 2}
    /\ StoreOrder[1] = "sqlite" /\ StoreOrder[2] = "jsonl"
    /\ Archives \subseteq Stores
BY DEF StoreOrder, Stores, Archives

\* What an archive holds it still holds after it grew.
LEMMA HeldStays ==
    ASSUME ArchivesGrow, NEW s \in Archives, NEW r, Holds(s, r)
    PROVE  Holds(s, r)'
BY DEF ArchivesGrow, Holds

LEMMA AckedStays ==
    ASSUME AckedArchived, ArchivesGrow, acked' = acked
    PROVE  AckedArchived'
BY DEF AckedArchived, ArchivesGrow

LEMMA WrittenStays ==
    ASSUME WrittenHeld, ArchivesGrow, results' = results, upload' = upload
    PROVE  WrittenHeld'
BY DEF WrittenHeld, ArchivesGrow, Holds

\* An archive keeps what it has when a record is written.
LEMMA WriteGrows ==
    ASSUME NEW s \in Archives, NEW records, NEW r
    PROVE  records \subseteq Written(s, records, r)
BY DEF Archives, Written, With

\* When an archive accepts a record it holds its payload.
LEMMA WriteHolds ==
    ASSUME NEW s \in Archives, NEW records, NEW r, Outcome(s, records, r) = "stored"
    PROVE  \E k \in Written(s, records, r) : k.key = r.key /\ k.version = r.version
<1>1. Strategy[s] = "reject"
  BY DEF Archives
<1>2. \A k \in With(records, r.key) : k.version = r.version
  BY <1>1 DEF Outcome
<1>3. CASE With(records, r.key) = {}
  BY <1>3 DEF Written
<1>4. CASE With(records, r.key) # {}
  <2>1. PICK k \in With(records, r.key) : TRUE
    BY <1>4
  <2>2. k \in records /\ k.key = r.key /\ k.version = r.version
    BY <1>2, <2>1 DEF With
  <2>. QED
    BY <2>2, WriteGrows
<1>. QED
  BY <1>3, <1>4

-----------------------------------------------------------------------------
(* Uploads.                                                                *)

LEMMA ReceiveArchive ==
    ASSUME ArchiveInv, NEW key \in Keys, NEW version \in Versions, NEW time \in 1 .. MaxTime,
           Receive(key, version, time)
    PROVE  ArchiveInv'
<1>1. /\ results' = <<>> /\ stored' = stored /\ acked' = acked
      /\ UNCHANGED <<phase, target, listed, keeping>>
  BY DEF Receive, maintenanceVars
<1>2. results' \in Seq({"stored", "conflict", "failed"}) /\ Len(results') = 0 /\ DOMAIN results' = {}
  BY <1>1
<1>3. TypeSmall'
  BY <1>1, <1>2, OrderOfStores DEF ArchiveInv, TypeSmall
<1>4. WrittenHeld'
  BY <1>2 DEF WrittenHeld
<1>5. ArchivesSpared'
  BY <1>1 DEF ArchiveInv, ArchivesSpared, Store
<1>6. AckedArchived'
  BY <1>1, AckedStays DEF ArchiveInv, ArchivesGrow
<1>. QED
  BY <1>3, <1>4, <1>5, <1>6 DEF ArchiveInv

\* _write_store
LEMMA WriteArchive ==
    ASSUME ArchiveInv, WriteStore \/ WriteStoreFails
    PROVE  ArchiveInv'
<1>. DEFINE n == Len(results) + 1
            s == StoreOrder[n]
<1>1. /\ results \in Seq({"stored", "conflict", "failed"})
      /\ n \in {1, 2} /\ s \in Stores
  BY OrderOfStores DEF ArchiveInv, TypeSmall, WriteStore, WriteStoreFails, Writing, Stores
<1>2. /\ upload' = upload /\ acked' = acked
      /\ UNCHANGED <<phase, target, listed, keeping>>
  BY DEF WriteStore, WriteStoreFails, maintenanceVars
<1>3. PICK outcome \in {"stored", "conflict", "failed"} : results' = Append(results, outcome)
  BY DEF WriteStore, WriteStoreFails, Outcome
<1>4. /\ results' \in Seq({"stored", "conflict", "failed"})
      /\ Len(results') = n
      /\ \A i \in DOMAIN results' : (i \in DOMAIN results /\ results'[i] = results[i]) \/ i = n
  BY <1>1, <1>3
<1>5. DOMAIN stored' = Stores
  BY DEF WriteStore, WriteStoreFails, ArchiveInv, TypeSmall
<1>6. TypeSmall'
  BY <1>1, <1>2, <1>4, <1>5, OrderOfStores DEF ArchiveInv, TypeSmall
<1>7. ArchivesGrow
  <2>1. CASE WriteStore
    <3>1. stored' = [stored EXCEPT ![s] = Written(s, @, upload[1])]
      BY <2>1 DEF WriteStore
    <3>2. \A t \in Stores : t # s => stored'[t] = stored[t]
      BY <1>1, <3>1 DEF ArchiveInv, TypeSmall
    <3>3. stored'[s] = Written(s, stored[s], upload[1])
      BY <1>1, <3>1 DEF ArchiveInv, TypeSmall
    <3>. HIDE DEF s
    <3>. QED
      BY <3>2, <3>3, WriteGrows, OrderOfStores DEF ArchivesGrow
  <2>2. CASE WriteStoreFails
    BY <2>2 DEF WriteStoreFails, ArchivesGrow
  <2>. QED
    BY <2>1, <2>2
<1>8. WrittenHeld'
  <2>. SUFFICES ASSUME NEW i \in DOMAIN results', results'[i] = "stored", StoreOrder[i] \in Archives
                PROVE  Holds(StoreOrder[i], upload[1])'
    BY DEF WrittenHeld
  <2>1. CASE i \in DOMAIN results /\ results'[i] = results[i]
    <3>1. Holds(StoreOrder[i], upload[1])
      BY <2>1 DEF ArchiveInv, WrittenHeld
    <3>. QED
      BY <1>2, <1>7, <3>1 DEF ArchivesGrow, Holds
  <2>2. CASE i = n
    <3>1. results'[i] = outcome /\ outcome = "stored"
      BY <1>1, <1>3, <2>2
    <3>2. WriteStore /\ Outcome(s, stored[s], upload[1]) = "stored"
      <4>1. CASE WriteStore
        <5>1. results' = Append(results, Outcome(s, stored[s], upload[1]))
          BY <4>1 DEF WriteStore
        <5>2. results'[n] = Outcome(s, stored[s], upload[1])
          BY <1>1, <5>1
        <5>. QED
          BY <2>2, <3>1, <4>1, <5>2
      <4>2. CASE WriteStoreFails
        <5>1. results' = Append(results, "failed")
          BY <4>2 DEF WriteStoreFails
        <5>2. results'[n] = "failed"
          BY <1>1, <5>1
        <5>. QED
          BY <2>2, <3>1, <5>2
      <4>. QED
        BY <4>1, <4>2
    <3>3. stored'[s] = Written(s, stored[s], upload[1])
      BY <1>1, <3>2 DEF WriteStore, ArchiveInv, TypeSmall
    <3>4. s \in Archives
      BY <2>2
    <3>. QED
      BY <1>2, <2>2, <3>2, <3>3, <3>4, WriteHolds DEF Holds
  <2>. QED
    BY <1>4, <2>1, <2>2
<1>9. ArchivesSpared' /\ AckedArchived'
  BY <1>2, <1>7, AckedStays DEF ArchiveInv, ArchivesSpared, Store
<1>. QED
  BY <1>6, <1>8, <1>9 DEF ArchiveInv

\* The answer is 204 only when every required store has the payload.
LEMMA RespondArchive ==
    ASSUME ArchiveInv, Respond
    PROVE  ArchiveInv'
<1>1. /\ results' = <<>> /\ stored' = stored /\ UNCHANGED <<phase, target, listed, keeping>>
      /\ Len(results) = Len(StoreOrder)
  BY DEF Respond, maintenanceVars
<1>2. results' \in Seq({"stored", "conflict", "failed"}) /\ Len(results') = 0 /\ DOMAIN results' = {}
  BY <1>1
<1>3. TypeSmall' /\ WrittenHeld' /\ ArchivesSpared'
  <2>1. TypeSmall'
    BY <1>1, <1>2, OrderOfStores DEF ArchiveInv, TypeSmall
  <2>2. WrittenHeld'
    BY <1>2 DEF WrittenHeld
  <2>3. ArchivesSpared'
    BY <1>1 DEF ArchiveInv, ArchivesSpared, Store
  <2>. QED
    BY <2>1, <2>2, <2>3
<1>4. AckedArchived'
  <2>. SUFFICES ASSUME Sufficient = {}, NEW r \in acked', NEW s \in Archives \cap Required
                PROVE  Holds(s, r)
    BY <1>1 DEF AckedArchived, Holds
  <2>1. CASE r \in acked
    BY <2>1 DEF ArchiveInv, AckedArchived, Holds
  <2>2. CASE r \notin acked
    <3>1. AckSatisfied /\ r = upload[1]
      BY <2>2 DEF Respond
    <3>2. PICK i \in DOMAIN StoreOrder : StoreOrder[i] = s /\ results[i] = "stored"
      BY <3>1 DEF AckSatisfied, Stored
    <3>3. i \in DOMAIN results
      BY <1>1, OrderOfStores DEF ArchiveInv, TypeSmall
    <3>. QED
      BY <3>1, <3>2, <3>3 DEF ArchiveInv, WrittenHeld
  <2>. QED
    BY <2>1, <2>2
<1>. QED
  BY <1>3, <1>4 DEF ArchiveInv

\* A maintenance step or an end of one of the threads.
LEMMA ArchiveKept ==
    ASSUME ArchiveInv, ArchivesGrow, DOMAIN stored' = Stores, target' \in DOMAIN StoreOrder,
           UNCHANGED <<upload, results, acked>>, ArchivesSpared'
    PROVE  ArchiveInv'
BY AckedStays, WrittenStays DEF ArchiveInv, TypeSmall

-----------------------------------------------------------------------------
(* Maintenance: it changes an archive only by copying what it lacks.       *)

LEMMA MaintenanceArchive ==
    ASSUME ArchiveInv, Maintenance
    PROVE  ArchiveInv'
<1>1. UNCHANGED <<upload, results, acked>>
  BY DEF Maintenance, StartRound, ListDestination, ListSource, CopyMissing, KeepExisting,
         ReplaceList, ReplaceRetain, ReplaceWrite, NextDestination, LimitList, LimitRetain,
         uploadVars
<1>2. Store \in Stores /\ target \in {1, 2}
  BY OrderOfStores DEF Store, Stores, ArchiveInv, TypeSmall
<1>3. CASE stored' = stored /\ ArchivesSpared' /\ target' \in DOMAIN StoreOrder
  BY <1>1, <1>3, ArchiveKept DEF ArchivesGrow, ArchiveInv, TypeSmall
<1>4. CASE StartRound \/ ListDestination \/ ListSource \/ NextDestination
  <2>1. stored' = stored /\ phase' \in {"list", "source", "reconcile", "limit"}
    BY <1>4 DEF StartRound, ListDestination, ListSource, NextDestination
  <2>2. target' \in DOMAIN StoreOrder
    BY <1>2, <1>4, OrderOfStores DEF StartRound, ListDestination, ListSource, NextDestination
  <2>. QED
    BY <1>3, <2>1, <2>2 DEF ArchivesSpared
<1>5. ASSUME NEW r \in todo, CopyMissing(r)
      PROVE  ArchiveInv'
  <2>1. /\ stored' = [stored EXCEPT ![Store] = Written(Store, @, r)]
        /\ phase' = phase /\ phase = "reconcile" /\ target' = target
    BY <1>5 DEF CopyMissing, Reconciling
  <2>2. /\ DOMAIN stored' = Stores
        /\ \A t \in Stores : t # Store => stored'[t] = stored[t]
        /\ stored'[Store] = Written(Store, stored[Store], r)
    BY <1>2, <2>1 DEF ArchiveInv, TypeSmall
  <2>3. ArchivesGrow
    BY <2>2, WriteGrows, OrderOfStores DEF ArchivesGrow
  <2>4. ArchivesSpared'
    BY <2>1 DEF ArchivesSpared
  <2>. QED
    BY <1>1, <1>2, <2>1, <2>2, <2>3, <2>4, ArchiveKept, OrderOfStores
<1>6. ASSUME NEW r \in todo, KeepExisting(r)
      PROVE  ArchiveInv'
  <2>1. stored' = stored /\ phase' = "reconcile" /\ target' = target
    BY <1>6 DEF KeepExisting, Reconciling
  <2>. QED
    BY <1>2, <1>3, <2>1, OrderOfStores DEF ArchivesSpared
<1>7. ASSUME NEW r \in todo, ReplaceList(r)
      PROVE  ArchiveInv'
  <2>1. stored' = stored /\ phase' = "retain others" /\ target' = target /\ Prevails(r)
    BY <1>7 DEF ReplaceList
  <2>2. Store \notin Archives
    BY <2>1 DEF Prevails, Archives
  <2>3. ArchivesSpared'
    BY <2>1, <2>2 DEF ArchivesSpared, Store, Archives
  <2>. QED
    BY <1>2, <1>3, <2>1, <2>3, OrderOfStores
<1>8. CASE ReplaceRetain \/ ReplaceWrite
  <2>1. Store \notin Archives
    BY <1>8 DEF ArchiveInv, ArchivesSpared, ReplaceRetain, ReplaceWrite
  <2>2. target' = target /\ phase' \in {"write back", "reconcile"}
    BY <1>8 DEF ReplaceRetain, ReplaceWrite
  <2>3. DOMAIN stored' = Stores /\ \A t \in Stores : t # Store => stored'[t] = stored[t]
    BY <1>2, <1>8 DEF ArchiveInv, TypeSmall, ReplaceRetain, ReplaceWrite
  <2>4. ArchivesGrow
    BY <2>1, <2>3, OrderOfStores DEF ArchivesGrow
  <2>5. ArchivesSpared'
    BY <2>1, <2>2 DEF ArchivesSpared, Store, Archives
  <2>. QED
    BY <1>1, <1>2, <2>2, <2>3, <2>4, <2>5, ArchiveKept, OrderOfStores
<1>9. CASE LimitList
  <2>1. /\ stored' = stored /\ target' = target /\ phase' = "retain newest"
        /\ keeping' \in Newest(Store, stored[Store]) /\ listed' = stored[Store]
    BY <1>9 DEF LimitList
  <2>2. ArchivesSpared'
    BY <2>1 DEF ArchivesSpared, Store, Newest
  <2>. QED
    BY <1>2, <1>3, <2>1, <2>2, OrderOfStores
<1>10. CASE LimitRetain
  <2>1. /\ phase = "retain newest" /\ phase' \in {"limit", "waiting"}
        /\ target' = IF target < Len(StoreOrder) THEN target + 1 ELSE 1
        /\ stored' = IF keeping = listed THEN stored
                     ELSE [stored EXCEPT ![Store] = Retained(Store, @, keeping)]
    BY <1>10 DEF LimitRetain
  <2>2. target' \in DOMAIN StoreOrder
    <3>1. target' = IF target < 2 THEN target + 1 ELSE 1
      <4>1. Len(StoreOrder) = 2
        BY OrderOfStores
      <4>. QED
        BY <1>10, <4>1 DEF LimitRetain
    <3>2. target' \in {1, 2}
      BY <1>2, <3>1
    <3>. QED
      BY <3>2, OrderOfStores
  <2>3. ArchivesSpared'
    BY <2>1 DEF ArchivesSpared
  <2>4. CASE keeping = listed
    BY <1>3, <2>1, <2>2, <2>3, <2>4
  <2>5. CASE keeping # listed
    <3>1. Store \notin Archives
      BY <2>1, <2>5 DEF ArchiveInv, ArchivesSpared, Archives
    <3>2. DOMAIN stored' = Stores /\ \A t \in Stores : t # Store => stored'[t] = stored[t]
      BY <1>2, <2>1, <2>5 DEF ArchiveInv, TypeSmall
    <3>3. ArchivesGrow
      BY <3>1, <3>2, OrderOfStores DEF ArchivesGrow
    <3>. QED
      BY <1>1, <2>2, <2>3, <3>2, <3>3, ArchiveKept
  <2>. QED
    BY <2>4, <2>5
<1>. QED
  BY <1>4, <1>5, <1>6, <1>7, <1>8, <1>9, <1>10 DEF Maintenance

LEMMA EndsArchive ==
    ASSUME ArchiveInv, MaintenanceDies \/ RestartServer
    PROVE  ArchiveInv'
<1>1. stored' = stored /\ acked' = acked /\ phase' \in {"dead", "waiting"} /\ target' = 1
  BY DEF MaintenanceDies, RestartServer, uploadVars
<1>2. ArchivesSpared' /\ ArchivesGrow /\ target' \in DOMAIN StoreOrder /\ DOMAIN stored' = Stores
  BY <1>1, OrderOfStores DEF ArchivesSpared, ArchivesGrow, ArchiveInv, TypeSmall
<1>3. CASE MaintenanceDies
  <2>1. UNCHANGED <<upload, results, acked>>
    BY <1>3 DEF MaintenanceDies, uploadVars
  <2>. QED
    BY <1>2, <2>1, ArchiveKept
<1>4. CASE RestartServer
  <2>1. results' = <<>>
    BY <1>4 DEF RestartServer
  <2>2. results' \in Seq({"stored", "conflict", "failed"}) /\ Len(results') = 0 /\ DOMAIN results' = {}
    BY <2>1
  <2>3. TypeSmall' /\ WrittenHeld'
    BY <1>2, <2>2, OrderOfStores DEF TypeSmall, WrittenHeld
  <2>4. AckedArchived'
    BY <1>1, <1>2, AckedStays DEF ArchiveInv
  <2>. QED
    BY <1>2, <2>3, <2>4 DEF ArchiveInv
<1>. QED
  BY <1>3, <1>4

LEMMA ArchiveInit == Init => ArchiveInv
<1>. SUFFICES ASSUME Init PROVE ArchiveInv
  OBVIOUS
<1>1. results = <<>> /\ DOMAIN stored = Stores /\ target = 1 /\ phase = "waiting" /\ acked = {}
  BY DEF Init
<1>2. results \in Seq({"stored", "conflict", "failed"}) /\ Len(results) = 0 /\ DOMAIN results = {}
  BY <1>1
<1>. QED
  BY <1>1, <1>2, OrderOfStores
  DEF ArchiveInv, TypeSmall, WrittenHeld, ArchivesSpared, AckedArchived

LEMMA ArchiveStep == ArchiveInv /\ [Next]_vars => ArchiveInv'
<1>. SUFFICES ASSUME ArchiveInv, [Next]_vars PROVE ArchiveInv'
  OBVIOUS
<1>1. CASE UNCHANGED vars
  <2>1. UNCHANGED <<stored, upload, results, acked, phase, target, listed, keeping>>
    BY <1>1 DEF vars, uploadVars, maintenanceVars
  <2>2. ArchivesSpared' /\ ArchivesGrow /\ target' \in DOMAIN StoreOrder /\ DOMAIN stored' = Stores
    BY <2>1 DEF ArchivesSpared, ArchivesGrow, ArchiveInv, TypeSmall, Store
  <2>. QED
    BY <2>1, <2>2, ArchiveKept
<1>. QED
  BY <1>1, ReceiveArchive, WriteArchive, RespondArchive, MaintenanceArchive, EndsArchive
  DEF Next, Upload

\* When no store is sufficient by itself, an upload answered with 204 stays,
\* with its payload, in every required store that is an archive (strategy
\* reject, conflicts kept or left alone, no limit), for
\* any configuration of the other store, whatever backfill and retention do,
\* whichever store fails and whenever the server restarts (accept_upload,
\* reconcile_once, enforce_retention_once).
THEOREM AcknowledgedStaysArchived == Spec => []AckedArchived
<1>1. ArchiveInv => AckedArchived
  BY DEF ArchiveInv
<1>. QED
  BY <1>1, ArchiveInit, ArchiveStep, PTL DEF Spec

-----------------------------------------------------------------------------
(* Types, and one record per key.                                          *)

StoresInv ==
    /\ TypeOK
    /\ results \in Seq({"stored", "conflict", "failed"})
    /\ DOMAIN stored = Stores
    /\ OnePerKey(keeping)
    /\ phase \in {"retain others", "write back"} => candidate # <<>>

\* A write leaves one record per key, whatever the strategy.
LEMMA WriteOnePerKey ==
    ASSUME NEW s, NEW records, OnePerKey(records), records \subseteq Record, NEW r \in Record
    PROVE  Written(s, records, r) \subseteq Record /\ OnePerKey(Written(s, records, r))
<1>1. CASE With(records, r.key) = {}
  <2>1. Written(s, records, r) = records \cup {r}
    BY <1>1 DEF Written
  <2>2. \A k \in records : k.key # r.key
    BY <1>1 DEF With
  <2>. QED
    BY <2>1, <2>2 DEF OnePerKey
<1>2. CASE With(records, r.key) # {}
  <2>1. Written(s, records, r) \in {records, (records \ With(records, r.key)) \cup {r}}
    BY <1>2 DEF Written
  <2>2. OnePerKey((records \ With(records, r.key)) \cup {r})
    BY DEF OnePerKey, With
  <2>. QED
    BY <2>1, <2>2
<1>. QED
  BY <1>1, <1>2

LEMMA SomeOfThem ==
    ASSUME NEW records, NEW some \in SUBSET records, OnePerKey(records), records \subseteq Record
    PROVE  some \subseteq Record /\ OnePerKey(some)
BY DEF OnePerKey

\* Only the store the operation is on changes, and it stays well-formed.
LEMMA StoreChanged ==
    ASSUME StoresInv, NEW s \in Stores, NEW records,
           records \subseteq Record, OnePerKey(records),
           stored' = [stored EXCEPT ![s] = records]
    PROVE  /\ DOMAIN stored' = Stores
           /\ \A t \in Stores : stored'[t] \subseteq Record /\ OnePerKey(stored'[t])
<1>1. DOMAIN stored' = Stores /\ stored'[s] = records
      /\ \A t \in Stores : t # s => stored'[t] = stored[t]
  BY DEF StoresInv
<1>2. ASSUME NEW t \in Stores PROVE stored'[t] \subseteq Record /\ OnePerKey(stored'[t])
  <2>1. CASE t = s
    BY <1>1, <2>1
  <2>2. CASE t # s
    BY <1>1, <2>2 DEF StoresInv, TypeOK
  <2>. QED
    BY <2>1, <2>2
<1>. QED
  BY <1>1, <1>2

LEMMA StoresInit == Init => StoresInv
<1>. SUFFICES ASSUME Init PROVE StoresInv
  OBVIOUS
<1>1. \A s \in Stores : stored[s] = {}
  BY DEF Init
<1>2. /\ uploads \in 0 .. MaxUploads /\ failures \in 0 .. MaxFailures
      /\ target \in DOMAIN StoreOrder
      /\ Len(results) <= Len(StoreOrder) /\ DOMAIN results = {}
      /\ results \in Seq({"stored", "conflict", "failed"})
      /\ DOMAIN stored = Stores
  BY StoresAssumption, OrderOfStores DEF Init
<1>. QED
  BY <1>1, <1>2 DEF Init, StoresInv, TypeOK, OnePerKey

\* The counters, the store an operation of the maintenance thread is on, and
\* the records in the sequences of at most one.
LEMMA StoresTypes ==
    ASSUME StoresInv
    PROVE  /\ uploads \in Nat /\ failures \in Nat /\ target \in {1, 2}
           /\ upload # <<>> => upload[1] \in Record
           /\ candidate # <<>> => candidate[1] \in Record
           /\ Store \in Stores
<1>1. uploads \in 0 .. MaxUploads /\ failures \in 0 .. MaxFailures /\ target \in {1, 2}
  BY OrderOfStores, Zenon DEF StoresInv, TypeOK
<1>2. /\ upload = <<>> \/ \E r \in Record : upload = <<r>>
      /\ candidate = <<>> \/ \E r \in Record : candidate = <<r>>
  BY Zenon DEF StoresInv, TypeOK
<1>3. upload # <<>> => upload[1] \in Record
  BY <1>2
<1>4. candidate # <<>> => candidate[1] \in Record
  BY <1>2
<1>5. Store \in Stores
  BY <1>1, OrderOfStores DEF Store, Stores
<1>. QED
  BY <1>1, <1>3, <1>4, <1>5

LEMMA UploadTypes ==
    ASSUME StoresInv,
           \/ \E key \in Keys, version \in Versions, time \in 1 .. MaxTime :
                   Receive(key, version, time)
           \/ Upload
    PROVE  StoresInv'
<1>0. UNCHANGED maintenanceVars
  BY DEF Receive, Upload, WriteStore, WriteStoreFails, Respond
<1>1. ASSUME NEW key \in Keys, NEW version \in Versions, NEW time \in 1 .. MaxTime,
             Receive(key, version, time)
      PROVE  StoresInv'
  <2>. DEFINE r == [key |-> key, version |-> version, time |-> time]
  <2>1. uploads' \in 0 .. MaxUploads
    BY <1>1, StoresAssumption, StoresTypes DEF Receive
  <2>2. r \in Record /\ upload' = <<r>>
    BY <1>1 DEF Receive, Record
  <2>3. results' \in Seq({"stored", "conflict", "failed"}) /\ DOMAIN results' = {}
        /\ Len(results') <= Len(StoreOrder)
    BY <1>1, OrderOfStores DEF Receive
  <2>4. UNCHANGED <<stored, acked, failures>>
    BY <1>1 DEF Receive
  <2>. HIDE DEF r
  <2>. QED
    BY <1>0, <2>1, <2>2, <2>3, <2>4 DEF StoresInv, TypeOK, maintenanceVars
<1>2. CASE WriteStore
  <2>. DEFINE s == StoreOrder[Len(results) + 1]
              now == Written(s, stored[s], upload[1])
  <2>1. /\ upload # <<>> /\ Len(results) < 2 /\ results \in Seq({"stored", "conflict", "failed"})
    BY <1>2, OrderOfStores DEF WriteStore, Writing, StoresInv
  <2>2. s \in Stores
    BY <2>1, OrderOfStores DEF Stores
  <2>3. upload[1] \in Record
    BY <2>1, StoresTypes
  <2>4. stored' = [stored EXCEPT ![s] = now]
        /\ UNCHANGED <<upload, uploads, acked, failures>>
        /\ results' = Append(results, Outcome(s, stored[s], upload[1]))
    BY <1>2 DEF WriteStore
  <2>5. Outcome(s, stored[s], upload[1]) \in {"stored", "conflict", "failed"}
    BY DEF Outcome
  <2>. HIDE DEF s
  <2>6. now \subseteq Record /\ OnePerKey(now)
    BY <2>2, <2>3, WriteOnePerKey DEF StoresInv, TypeOK
  <2>. HIDE DEF now
  <2>7. /\ DOMAIN stored' = Stores
        /\ \A t \in Stores : stored'[t] \subseteq Record /\ OnePerKey(stored'[t])
    BY <2>2, <2>4, <2>6, StoreChanged
  <2>8. results' \in Seq({"stored", "conflict", "failed"}) /\ Len(results') <= Len(StoreOrder)
        /\ \A i \in DOMAIN results' : results'[i] \in {"stored", "conflict", "failed"}
    BY <2>1, <2>4, <2>5, OrderOfStores
  <2>. QED
    BY <1>0, <2>4, <2>7, <2>8 DEF StoresInv, TypeOK, maintenanceVars
<1>3. CASE WriteStoreFails
  <2>1. /\ Len(results) < 2 /\ results \in Seq({"stored", "conflict", "failed"})
        /\ results' = Append(results, "failed")
        /\ UNCHANGED <<stored, upload, uploads, acked>>
    BY <1>3, OrderOfStores DEF WriteStoreFails, Writing, StoresInv
  <2>2. results' \in Seq({"stored", "conflict", "failed"}) /\ Len(results') <= Len(StoreOrder)
        /\ \A i \in DOMAIN results' : results'[i] \in {"stored", "conflict", "failed"}
    BY <2>1, OrderOfStores
  <2>3. failures' \in 0 .. MaxFailures
    BY <1>3, StoresAssumption, StoresTypes DEF WriteStoreFails, Failure
  <2>. QED
    BY <1>0, <2>1, <2>2, <2>3 DEF StoresInv, TypeOK, maintenanceVars
<1>4. CASE Respond
  <2>1. upload[1] \in Record /\ results' = <<>> /\ upload' = <<>>
        /\ UNCHANGED <<stored, uploads, failures>> /\ acked' \subseteq acked \cup {upload[1]}
    BY <1>4, StoresTypes DEF Respond
  <2>2. results' \in Seq({"stored", "conflict", "failed"}) /\ DOMAIN results' = {}
        /\ Len(results') <= Len(StoreOrder)
    BY <2>1, OrderOfStores
  <2>. QED
    BY <1>0, <2>1, <2>2 DEF StoresInv, TypeOK, maintenanceVars
<1>. QED
  BY <1>1, <1>2, <1>3, <1>4 DEF Upload

LEMMA MaintenanceTypes == ASSUME StoresInv, Maintenance PROVE StoresInv'
<1>0. UNCHANGED <<uploadVars, failures>>
  BY DEF Maintenance, StartRound, ListDestination, ListSource, CopyMissing, KeepExisting,
         ReplaceList, ReplaceRetain, ReplaceWrite, NextDestination, LimitList, LimitRetain
<1>1. Store \in Stores
  BY StoresTypes
<1>2. /\ stored[Store] \subseteq Record /\ OnePerKey(stored[Store])
      /\ UNION {stored[s] : s \in Sources(Store)} \subseteq Record
      /\ listed \subseteq Record /\ todo \subseteq Record /\ keeping \subseteq Record
      /\ OnePerKey(keeping)
  BY <1>1 DEF StoresInv, TypeOK, Sources
<1>3. OnePerKey({})
  BY DEF OnePerKey
<1>4. target' \in DOMAIN StoreOrder
  <2>1. \/ target' \in {target, 1}
        \/ target' = target + 1 /\ target < Len(StoreOrder)
    BY DEF Maintenance, StartRound, ListDestination, ListSource, CopyMissing, KeepExisting,
           ReplaceList, ReplaceRetain, ReplaceWrite, NextDestination, LimitList, LimitRetain
  <2>. QED
    BY <2>1, OrderOfStores, StoresTypes
<1>5. \* What is left to show of a step that keeps or empties what is not named.
      ASSUME phase' \in {"waiting", "list", "source", "reconcile", "retain others", "write back",
                         "limit", "retain newest", "dead"},
             listed' \subseteq Record, todo' \subseteq Record, keeping' \subseteq Record,
             OnePerKey(keeping'),
             candidate' = <<>> \/ \E r \in Record : candidate' = <<r>>,
             phase' \in {"retain others", "write back"} => candidate' # <<>>,
             \/ stored' = stored
             \/ \E records : /\ records \subseteq Record /\ OnePerKey(records)
                             /\ stored' = [stored EXCEPT ![Store] = records]
      PROVE  StoresInv'
  <2>1. /\ DOMAIN stored' = Stores
        /\ \A t \in Stores : stored'[t] \subseteq Record /\ OnePerKey(stored'[t])
    BY <1>1, <1>5, StoreChanged DEF StoresInv, TypeOK
  <2>. QED
    BY <1>0, <1>4, <1>5, <2>1 DEF StoresInv, TypeOK, uploadVars
<1>6. candidate = <<>> \/ \E r \in Record : candidate = <<r>>
  BY DEF StoresInv, TypeOK
<1>7. CASE StartRound \/ ListDestination \/ ListSource
  BY <1>2, <1>5, <1>6, <1>7 DEF StartRound, ListDestination, ListSource
<1>8. ASSUME NEW r \in todo, CopyMissing(r) \/ KeepExisting(r) PROVE StoresInv'
  <2>1. /\ phase = "reconcile" /\ todo' \subseteq todo /\ listed' \subseteq listed \cup {r}
        /\ UNCHANGED <<phase, keeping, candidate>>
    BY <1>8 DEF CopyMissing, KeepExisting, Reconciling, Taken
  <2>2. /\ Written(Store, stored[Store], r) \subseteq Record
        /\ OnePerKey(Written(Store, stored[Store], r))
    BY <1>2, WriteOnePerKey
  <2>3. \/ stored' = stored
        \/ stored' = [stored EXCEPT ![Store] = Written(Store, stored[Store], r)]
    BY <1>8 DEF CopyMissing, KeepExisting
  <2>. QED
    BY <1>2, <1>5, <1>6, <2>1, <2>2, <2>3
<1>9. ASSUME NEW r \in todo, ReplaceList(r) PROVE StoresInv'
  <2>1. keeping' \subseteq Record /\ OnePerKey(keeping')
    BY <1>2, <1>9, SomeOfThem DEF ReplaceList
  <2>2. r \in Record /\ candidate' = <<r>> /\ candidate' # <<>>
    BY <1>2, <1>9 DEF ReplaceList
  <2>3. /\ phase' = "retain others" /\ stored' = stored /\ listed' = listed
        /\ todo' \subseteq todo
    BY <1>9 DEF ReplaceList, Reconciling
  <2>. QED
    BY <1>2, <1>5, <2>1, <2>2, <2>3
<1>10. CASE ReplaceRetain
  <2>1. /\ Retained(Store, stored[Store], keeping) \subseteq Record
        /\ OnePerKey(Retained(Store, stored[Store], keeping))
    BY <1>2, SomeOfThem DEF Retained
  <2>2. /\ stored' = [stored EXCEPT ![Store] = Retained(Store, stored[Store], keeping)]
        /\ phase' = "write back" /\ candidate' = candidate /\ candidate # <<>>
        /\ keeping' = {} /\ UNCHANGED <<listed, todo>>
    BY <1>10 DEF ReplaceRetain, StoresInv
  <2>. QED
    BY <1>2, <1>3, <1>5, <1>6, <2>1, <2>2
<1>11. CASE ReplaceWrite
  <2>1. candidate[1] \in Record
    BY <1>11, StoresTypes DEF ReplaceWrite, StoresInv
  <2>2. /\ Written(Store, stored[Store], candidate[1]) \subseteq Record
        /\ OnePerKey(Written(Store, stored[Store], candidate[1]))
    BY <1>2, <2>1, WriteOnePerKey
  <2>3. /\ stored' = [stored EXCEPT ![Store] = Written(Store, stored[Store], candidate[1])]
        /\ phase' = "reconcile" /\ candidate' = <<>>
        /\ listed' \subseteq listed \cup {candidate[1]} /\ UNCHANGED <<todo, keeping>>
    BY <1>11 DEF ReplaceWrite, Taken
  <2>. QED
    BY <1>2, <1>5, <2>1, <2>2, <2>3
<1>12. CASE NextDestination
  BY <1>2, <1>5, <1>6, <1>12 DEF NextDestination
<1>13. CASE LimitList
  <2>1. \A kept \in Newest(Store, stored[Store]) : kept \subseteq stored[Store]
    BY DEF Newest, Retainable
  <2>2. /\ keeping' \in Newest(Store, stored[Store]) /\ phase' = "retain newest"
        /\ listed' = stored[Store] /\ UNCHANGED <<stored, todo, candidate>>
    BY <1>13 DEF LimitList
  <2>3. keeping' \subseteq Record /\ OnePerKey(keeping')
    BY <1>2, <2>1, <2>2, SomeOfThem
  <2>. QED
    BY <1>2, <1>5, <1>6, <2>2, <2>3
<1>14. CASE LimitRetain
  <2>1. /\ Retained(Store, stored[Store], keeping) \subseteq Record
        /\ OnePerKey(Retained(Store, stored[Store], keeping))
    BY <1>2, SomeOfThem DEF Retained
  <2>2. /\ \/ stored' = stored
           \/ stored' = [stored EXCEPT ![Store] = Retained(Store, stored[Store], keeping)]
        /\ phase' \in {"limit", "waiting"} /\ keeping' = {} /\ listed' = {}
        /\ UNCHANGED <<todo, candidate>>
    BY <1>14 DEF LimitRetain
  <2>. QED
    BY <1>2, <1>3, <1>5, <1>6, <2>1, <2>2
<1>. QED
  BY <1>7, <1>8, <1>9, <1>10, <1>11, <1>12, <1>13, <1>14 DEF Maintenance

LEMMA StoresStep == StoresInv /\ [Next]_vars => StoresInv'
<1>. SUFFICES ASSUME StoresInv, [Next]_vars PROVE StoresInv'
  OBVIOUS
<1>1. CASE UNCHANGED vars
  BY <1>1 DEF vars, uploadVars, maintenanceVars, StoresInv, TypeOK
<1>2. CASE MaintenanceDies \/ RestartServer
  <2>1. /\ failures' \in 0 .. MaxFailures
        /\ phase' \in {"dead", "waiting"} /\ target' = 1
        /\ listed' = {} /\ todo' = {} /\ keeping' = {} /\ candidate' = <<>>
        /\ UNCHANGED <<stored, uploads, acked>>
    BY <1>2, StoresAssumption, StoresTypes DEF MaintenanceDies, RestartServer, Failure, uploadVars
  <2>2. upload' \in {upload, <<>>} /\ results' \in {results, <<>>}
    BY <1>2 DEF MaintenanceDies, RestartServer, uploadVars
  <2>3. /\ results' \in Seq({"stored", "conflict", "failed"})
        /\ Len(results') <= Len(StoreOrder)
        /\ \A i \in DOMAIN results' : results'[i] \in {"stored", "conflict", "failed"}
    <3>1. /\ results \in Seq({"stored", "conflict", "failed"})
          /\ Len(results) <= Len(StoreOrder)
          /\ \A i \in DOMAIN results : results[i] \in {"stored", "conflict", "failed"}
      BY Zenon DEF StoresInv, TypeOK
    <3>2. CASE results' = results
      BY <3>1, <3>2
    <3>3. CASE results' = <<>>
      <4>1. results' \in Seq({"stored", "conflict", "failed"}) /\ DOMAIN results' = {} /\ Len(results') = 0
        BY <3>3
      <4>. QED
        BY <4>1, OrderOfStores
    <3>. QED
      BY <2>2, <3>2, <3>3
  <2>. QED
    BY <2>1, <2>2, <2>3, OrderOfStores DEF StoresInv, TypeOK, OnePerKey
<1>. QED
  BY <1>1, <1>2, UploadTypes, MaintenanceTypes DEF Next

\* Each store has one record per key and nothing but records, and the two
\* threads keep their state in its types, for any limits and failures (write,
\* retain_records, _replace_store_record).
THEOREM StoresTypeCorrect == Spec => []TypeOK
<1>1. StoresInv => TypeOK
  BY DEF StoresInv
<1>. QED
  BY <1>1, StoresInit, StoresStep, PTL DEF Spec
=============================================================================
