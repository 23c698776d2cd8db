------------------------ MODULE UploadSession_proofs ------------------------
(***************************************************************************)
(* Every wall clock the server archives is true: for every timeout, every  *)
(* offset of the clocks and any number of faults.                          *)
(*                                                                         *)
(* A stamp is as good as the synchronisation it was made from, and that is *)
(* as good as the answer it was taken from is fresh.  So the induction     *)
(* follows an answer while it is read: how old it is by now is bounded by  *)
(* the reads it took so far and the time the current one has lasted.       *)
(***************************************************************************)
EXTENDS UploadSession, TLAPS

\* How far a wall clock may be from the truth.
Tolerance == 2 * ReadTimeout

Near(unix, true) == unix =< true + Tolerance /\ true =< unix + Tolerance

SyncTrue(sync) ==
    /\ sync.boot \in Nat /\ sync.unix \in Nat
    /\ Near(sync.unix, Offset + sync.boot)

PayloadTrue(payload) ==
    \A unix \in payload.wall :
        /\ unix \in Nat /\ payload.record.uptime \in Nat
        /\ payload.record.current
        /\ Near(unix, Offset + payload.record.uptime)

TimeWaiting == upload \in {"sntp", "rest"}

\* The answer with the time, which is read now: it is no older than the reads
\* it took and the time this one has lasted.
Fresh ==
    /\ Arrived.unix \in Nat /\ Arrived.pieces \in {1, 2} /\ Arrived.sized
    /\ received =< Arrived.pieces
    /\ Arrived.unix =< Offset + now
    /\ received = 0 => Offset + now =< Arrived.unix + waited
    /\ received = 1 => Offset + now =< Arrived.unix + ReadTimeout + waited
    /\ received = 2 => Offset + now =< Arrived.unix + Tolerance

\* The types of what the induction looks at.
StampTypes ==
    /\ now \in 0 .. MaxTime
    /\ measured \in Nat
    /\ queue \in Seq(Record)
    /\ received \in Nat
    /\ waited \in 0 .. ReadTimeout

\* Only the answer to the one question asked can be read as the time.
TimeAsked ==
    TimeWaiting =>
        /\ \A r \in request : r.kind # "post" /\ request = {r}
        /\ request \intersect wire # {} => response = {} /\ received = 0
        /\ response # {} => Fresh

\* A connection that has ended has brought something.
ClosedAnswered == closed => response # {}

\* A post is of a pending record.
PostPending == upload \in {"post", "answer"} => queue # <<>>

StampInv ==
    /\ StampTypes /\ ClosedAnswered /\ PostPending
    /\ \A sync \in time_sync : SyncTrue(sync)
    /\ \A payload \in kept : PayloadTrue(payload)
    /\ \A r \in wire : \A payload \in r.payload : PayloadTrue(payload)
    /\ TimeAsked

stampVars == <<now, queue, measured, upload, time_sync, request, wire, response, received,
               closed, waited, kept>>

-----------------------------------------------------------------------------
(* Stamps.                                                                 *)

LEMMA ConstantTypes ==
    /\ MaxRecords \in Nat /\ Offset \in Nat /\ ReadTimeout \in Nat /\ MaxTime \in Nat
    /\ Recovered \in Seq(Record)
BY UploadAssumption

\* A record stamped from a true synchronisation is stamped truly.
LEMMA StampTrue ==
    ASSUME \A sync \in time_sync : SyncTrue(sync), NEW record \in Record
    PROVE  PayloadTrue(Payload(record))
<1>1. record.uptime \in Nat
  BY ConstantTypes DEF Record
<1>2. ASSUME NEW unix \in Stamp(record)
      PROVE  /\ unix \in Nat /\ record.current
             /\ Near(unix, Offset + record.uptime)
  <2>1. record.current
    BY <1>2, Zenon DEF Stamp
  <2>2. PICK sync \in time_sync : unix \in WallClock(sync, record.uptime)
    BY <1>2, <2>1, Zenon DEF Stamp
  <2>3. unix = sync.unix + (record.uptime - sync.boot) /\ unix >= 0
    BY <2>2 DEF WallClock
  <2>4. SyncTrue(sync)
    BY <2>2, Zenon
  <2>5. /\ sync.boot \in Nat /\ sync.unix \in Nat
        /\ sync.unix =< (Offset + sync.boot) + Tolerance
        /\ Offset + sync.boot =< sync.unix + Tolerance
    BY <2>4, Zenon DEF SyncTrue, Near
  <2>6. Offset \in Nat /\ Tolerance \in Nat
    BY ConstantTypes DEF Tolerance
  <2>7. /\ unix \in Nat
        /\ unix =< (Offset + record.uptime) + Tolerance
        /\ Offset + record.uptime =< unix + Tolerance
    BY <1>1, <2>3, <2>5, <2>6
  <2>. QED BY <2>1, <2>7, Zenon DEF Near
<1>3. Payload(record).record = record /\ Payload(record).wall = Stamp(record)
  BY DEF Payload
<1>. QED BY <1>1, <1>2, <1>3, Zenon DEF PayloadTrue

\* Complete, unread answers are there.
LEMMA CompleteArrived ==
    ASSUME ClosedAnswered, Complete
    PROVE  response # {}
BY Zenon DEF ClosedAnswered, Complete, Whole

LEMMA StampInit == Init => StampInv
<1>. SUFFICES ASSUME Init PROVE StampInv
  OBVIOUS
<1>1. StampTypes
  <2>1. /\ now = 0 /\ measured = Len(Recovered) /\ queue = Recovered /\ received = 0
        /\ waited = 0
    BY Zenon DEF Init
  <2>2. Len(Recovered) \in Nat
    BY ConstantTypes
  <2>. QED BY <2>1, <2>2, ConstantTypes DEF StampTypes
<1>. QED BY <1>1, Zenon DEF Init, StampInv, ClosedAnswered, PostPending, TimeAsked, TimeWaiting

\* What the induction looks at stays the same.
LEMMA StampKept == StampInv /\ UNCHANGED stampVars => StampInv'
<1>. SUFFICES ASSUME StampInv, UNCHANGED stampVars PROVE StampInv'
  OBVIOUS
<1>1. StampTypes'
  BY DEF StampInv, StampTypes, stampVars
<1>2. (\A sync \in time_sync : SyncTrue(sync))'
  BY Zenon DEF StampInv, SyncTrue, Near, stampVars
<1>3. /\ (\A payload \in kept : PayloadTrue(payload))'
      /\ (\A r \in wire : \A payload \in r.payload : PayloadTrue(payload))'
  BY Zenon DEF StampInv, PayloadTrue, Near, stampVars
<1>4. TimeAsked'
  BY Zenon DEF StampInv, TimeAsked, TimeWaiting, Fresh, Arrived, stampVars
<1>. QED BY <1>1, <1>2, <1>3, <1>4, Zenon DEF StampInv, ClosedAnswered, PostPending, stampVars

-----------------------------------------------------------------------------
(* Requests and answers.                                                   *)

LEMMA Exchange ==
    ASSUME NEW kind \in {"sntp", "time", "post"}, NEW place, NEW payload,
           StampInv, Sent(kind, place, payload),
           \A p \in payload : PayloadTrue(p),
           upload' \in {"sntp", "rest"} => kind # "post",
           upload' = "answer" => queue' # <<>>, upload' # "post",
           now' = now, measured' = measured, queue' \in Seq(Record),
           time_sync' = time_sync, kept' = kept
    PROVE  StampInv'
<1>1. /\ request' = {[kind |-> kind, to |-> place, payload |-> payload]}
      /\ wire' = {r \in wire : r.kind = "post"} \union request'
      /\ response' = {} /\ received' = 0 /\ closed' = FALSE /\ waited' = 0
  BY Zenon DEF Sent
<1>2. StampTypes'
  BY <1>1, ConstantTypes DEF StampInv, StampTypes
<1>3. ASSUME NEW r \in wire', NEW p \in r.payload
      PROVE  PayloadTrue(p)'
  <2>1. PayloadTrue(p)
    <3>1. CASE r \in wire
      BY <1>3, <3>1, Zenon DEF StampInv
    <3>2. CASE r \in request'
      BY <1>1, <1>3, <3>2
    <3>. QED BY <1>1, <3>1, <3>2, Zenon
  <2>. QED BY <2>1, Zenon DEF PayloadTrue, Near
<1>4. TimeAsked'
  BY <1>1 DEF TimeAsked, TimeWaiting
<1>5. /\ (\A sync \in time_sync : SyncTrue(sync))'
      /\ (\A p \in kept : PayloadTrue(p))'
  BY Zenon DEF StampInv, SyncTrue, PayloadTrue, Near
<1>. QED BY <1>1, <1>2, <1>3, <1>4, <1>5, Zenon DEF StampInv, ClosedAnswered, PostPending

LEMMA ExchangeEnds ==
    ASSUME StampInv, NoExchange, upload' \in {"network", "peek"},
           now' = now, measured' = measured, queue' \in Seq(Record),
           \A sync \in time_sync' : SyncTrue(sync)', kept' = kept
    PROVE  StampInv'
<1>1. /\ request' = {} /\ wire' = {r \in wire : r.kind = "post"}
      /\ response' = {} /\ received' = 0 /\ closed' = FALSE /\ waited' = 0
  BY Zenon DEF NoExchange
<1>2. StampTypes'
  BY <1>1, ConstantTypes DEF StampInv, StampTypes
<1>3. (\A r \in wire : \A p \in r.payload : PayloadTrue(p))'
  BY <1>1, Zenon DEF StampInv, PayloadTrue, Near
<1>4. TimeAsked'
  BY Zenon DEF TimeAsked, TimeWaiting
<1>5. (\A p \in kept : PayloadTrue(p))'
  BY Zenon DEF StampInv, PayloadTrue, Near
<1>. QED BY <1>1, <1>2, <1>3, <1>4, <1>5, Zenon DEF StampInv, ClosedAnswered, PostPending

\* What is taken for the time is no older than two reads.
LEMMA AnswerFresh ==
    ASSUME StampInv, TimeWaiting, Complete, Synchronised, now' = now
    PROVE  \A sync \in time_sync' : SyncTrue(sync)'
<1>1. response # {} /\ Fresh
  BY CompleteArrived, Zenon DEF StampInv, TimeAsked
<1>2. /\ now \in Nat /\ waited \in Nat /\ waited =< ReadTimeout /\ received \in Nat
  BY ConstantTypes DEF StampInv, StampTypes
<1>3. received > 0
  BY DEF Complete
<1>4. /\ Arrived.unix \in Nat
      /\ Arrived.unix =< Offset + now /\ Offset + now =< Arrived.unix + Tolerance
  BY <1>1, <1>2, <1>3, ConstantTypes DEF Fresh, Tolerance
<1>5. time_sync' = {[boot |-> now, unix |-> Arrived.unix]}
  BY Zenon DEF Synchronised
<1>6. SyncTrue([boot |-> now, unix |-> Arrived.unix])
  BY <1>2, <1>4, ConstantTypes DEF SyncTrue, Near, Tolerance
<1>. QED BY <1>5, <1>6, Zenon DEF SyncTrue, Near

-----------------------------------------------------------------------------
(* The steps of the uploader.                                              *)

\* The uploader goes on to something that is no exchange.
LEMMA UploadMoves ==
    ASSUME StampInv, upload' \in {"network", "discover", "time", "peek", "post"},
           upload' = "post" => queue # <<>>,
           UNCHANGED <<now, queue, measured, time_sync, request, wire, response, received,
                       closed, waited, kept>>
    PROVE  StampInv'
<1>1. StampTypes'
  BY DEF StampInv, StampTypes
<1>2. /\ (\A sync \in time_sync : SyncTrue(sync))'
      /\ (\A payload \in kept : PayloadTrue(payload))'
      /\ (\A r \in wire : \A payload \in r.payload : PayloadTrue(payload))'
  BY Zenon DEF StampInv, SyncTrue, PayloadTrue, Near
<1>3. TimeAsked' /\ PostPending'
  BY Zenon DEF TimeAsked, TimeWaiting, PostPending
<1>4. ClosedAnswered'
  BY Zenon DEF StampInv, ClosedAnswered
<1>. QED BY <1>1, <1>2, <1>3, <1>4, Zenon DEF StampInv

LEMMA SessionKept ==
    SessionStep => UNCHANGED <<now, kept>>
BY Zenon DEF SessionStep, clockVars, serverVars

LEMMA UploaderStep == StampInv /\ Uploader => StampInv'
<1>. SUFFICES ASSUME StampInv, Uploader PROVE StampInv'
  OBVIOUS
<1>0. queue \in Seq(Record)
  BY Zenon DEF StampInv, StampTypes
<1>1. CASE LoopHead
  BY <1>1, UploadMoves, Zenon DEF LoopHead, spoolVars, exchangeVars, serverVars
<1>2. CASE Discover
  BY <1>2, UploadMoves, SessionKept, Zenon DEF Discover, spoolVars, exchangeVars
<1>3. CASE StartTimeSync
  <2>1. /\ UNCHANGED <<now, kept, queue, measured, time_sync>>
        /\ queue' \in Seq(Record)
    BY <1>0, <1>3, SessionKept, Zenon DEF StartTimeSync, spoolVars
  <2>2. CASE "time" \in due
    <3>1. Sent("sntp", "ntp", {}) /\ upload' = "sntp"
      BY <1>3, <2>2, Zenon DEF StartTimeSync
    <3>. QED BY <2>1, <3>1, Exchange
  <2>3. CASE "time" \notin due
    BY <1>3, <2>1, <2>3, UploadMoves, Zenon DEF StartTimeSync, exchangeVars
  <2>. QED BY <2>2, <2>3, Zenon
<1>4. CASE SntpAnswered
  <2>1. UNCHANGED <<now, kept, queue, measured>> /\ queue' \in Seq(Record)
    BY <1>0, <1>4, SessionKept, Zenon DEF SntpAnswered, spoolVars
  <2>2. \A sync \in time_sync' : SyncTrue(sync)'
    BY <1>4, <2>1, AnswerFresh, Zenon DEF SntpAnswered, TimeWaiting
  <2>. QED BY <1>4, <2>1, <2>2, ExchangeEnds, Zenon DEF SntpAnswered
<1>5. CASE RestTimeAnswered
  <2>1. UNCHANGED <<now, kept, queue, measured>> /\ queue' \in Seq(Record)
    BY <1>0, <1>5, SessionKept, Zenon DEF RestTimeAnswered, spoolVars
  <2>2. \A sync \in time_sync' : SyncTrue(sync)'
    <3>1. CASE Synchronised
      BY <1>5, <2>1, <3>1, AnswerFresh, Zenon DEF RestTimeAnswered, TimeWaiting
    <3>2. CASE time_sync' = time_sync
      BY <3>2, Zenon DEF StampInv, SyncTrue, Near
    <3>. QED BY <1>5, <3>1, <3>2, Zenon DEF RestTimeAnswered
  <2>. QED BY <1>5, <2>1, <2>2, ExchangeEnds, Zenon DEF RestTimeAnswered
<1>6. CASE Peek
  BY <1>6, UploadMoves, SessionKept, Zenon DEF Peek, spoolVars, exchangeVars
<1>7. CASE Post
  <2>1. /\ UNCHANGED <<now, kept, queue, measured, time_sync>>
        /\ queue' \in Seq(Record)
    BY <1>0, <1>7, SessionKept, Zenon DEF Post, spoolVars
  <2>2. queue # <<>>
    BY <1>7, Zenon DEF StampInv, PostPending, Post
  <2>3. Head(queue) \in Record
    BY <1>0, <2>2
  <2>4. PayloadTrue(Payload(Head(queue)))
    BY <2>3, StampTrue, Zenon DEF StampInv
  <2>5. \A p \in {Payload(Head(queue))} : PayloadTrue(p)
    BY <2>4, Zenon
  <2>6. Sent("post", Endpoint, {Payload(Head(queue))}) /\ upload' = "answer"
    BY <1>7, Zenon DEF Post
  <2>. QED BY <2>1, <2>2, <2>5, <2>6, Exchange
<1>8. CASE PostAnswered
  <2>1. UNCHANGED <<now, kept, measured, time_sync>>
    BY <1>8, SessionKept, Zenon DEF PostAnswered
  <2>2. queue # <<>>
    BY <1>8, Zenon DEF StampInv, PostPending, PostAnswered
  <2>3. Tail(queue) \in Seq(Record)
    BY <1>0, <2>2
  <2>4. queue' \in Seq(Record)
    BY <1>0, <1>8, <2>3, Zenon DEF PostAnswered
  <2>5. \A sync \in time_sync' : SyncTrue(sync)'
    BY <2>1, Zenon DEF StampInv, SyncTrue, Near
  <2>. QED BY <1>8, <2>1, <2>4, <2>5, ExchangeEnds, Zenon DEF PostAnswered
<1>9. CASE ExchangeFails \/ SntpMalformed
  <2>1. /\ UNCHANGED <<now, kept, queue, measured, time_sync>>
        /\ queue' \in Seq(Record)
    BY <1>0, <1>9, SessionKept, Zenon DEF ExchangeFails, SntpMalformed, spoolVars
  <2>2. CASE upload = "sntp"
    <3>1. Sent("time", Endpoint, {}) /\ upload' = "rest"
      BY <1>9, <2>2, Zenon DEF ExchangeFails, SntpMalformed, Failed
    <3>. QED BY <2>1, <3>1, Exchange
  <2>3. CASE upload # "sntp"
    <3>1. NoExchange /\ upload' \in {"network", "peek"}
      BY <1>9, <2>3, Zenon DEF ExchangeFails, SntpMalformed, Failed
    <3>2. \A sync \in time_sync' : SyncTrue(sync)'
      BY <2>1, Zenon DEF StampInv, SyncTrue, Near
    <3>. QED BY <2>1, <3>1, <3>2, ExchangeEnds, Zenon
  <2>. QED BY <2>2, <2>3, Zenon
<1>. QED BY <1>1, <1>2, <1>3, <1>4, <1>5, <1>6, <1>7, <1>8, <1>9, Zenon DEF Uploader

-----------------------------------------------------------------------------
(* The steps of the network and of time.                                   *)

\* Nothing but the exchange in progress and what the server keeps changes.
LEMMA NetworkKeeps ==
    NetworkStep => UNCHANGED <<now, queue, measured, upload, time_sync, request>>
BY Zenon DEF NetworkStep, clockVars, spoolVars

LEMMA NetworkTypes ==
    ASSUME StampInv, NetworkStep, received' \in Nat, waited' \in 0 .. ReadTimeout
    PROVE  /\ StampTypes' /\ PostPending'
           /\ \A sync \in time_sync' : SyncTrue(sync)'
<1>1. UNCHANGED <<now, queue, measured, upload, time_sync, request>>
  BY NetworkKeeps
<1>2. StampTypes'
  BY <1>1 DEF StampInv, StampTypes
<1>. QED BY <1>1, <1>2, Zenon DEF StampInv, PostPending, SyncTrue, Near

\* A step that takes something from the wire and perhaps brings an answer.
LEMMA WireShrinks ==
    ASSUME StampInv, NetworkStep, wire' \subseteq wire,
           UNCHANGED <<received, closed, waited>>,
           \A payload \in kept' : PayloadTrue(payload),
           \/ response' = response
           \/ TimeWaiting =>
                 /\ request \intersect wire # {} /\ request \intersect wire' = {}
                 /\ Fresh',
           response # {} => response' # {}
    PROVE  StampInv'
<1>1. UNCHANGED <<now, queue, measured, upload, time_sync, request>>
  BY NetworkKeeps
<1>2. /\ StampTypes' /\ PostPending'
      /\ \A sync \in time_sync' : SyncTrue(sync)'
  BY NetworkTypes DEF StampInv, StampTypes
<1>3. /\ (\A payload \in kept : PayloadTrue(payload))'
      /\ (\A r \in wire : \A payload \in r.payload : PayloadTrue(payload))'
  BY Zenon DEF StampInv, PayloadTrue, Near
<1>4. ClosedAnswered'
  BY Zenon DEF StampInv, ClosedAnswered
<1>5. TimeAsked'
  <2>. SUFFICES ASSUME TimeWaiting'
                PROVE  /\ \A r \in request' : r.kind # "post" /\ request' = {r}
                       /\ request' \intersect wire' # {} => response' = {} /\ received' = 0
                       /\ response' # {} => Fresh'
    BY Zenon DEF TimeAsked
  <2>1. TimeWaiting
    BY <1>1, Zenon DEF TimeWaiting
  <2>2. /\ \A r \in request : r.kind # "post" /\ request = {r}
        /\ request \intersect wire # {} => response = {} /\ received = 0
        /\ response # {} => Fresh
    BY <2>1, Zenon DEF StampInv, TimeAsked
  <2>3. CASE response' = response
    <3>1. Fresh => Fresh'
      BY <1>1, <2>3, Zenon DEF Fresh, Arrived
    <3>. QED BY <1>1, <2>2, <2>3, <3>1, Zenon
  <2>4. CASE response' # response
    BY <1>1, <2>1, <2>2, <2>4, Zenon
  <2>. QED BY <2>3, <2>4, Zenon
<1>. QED BY <1>2, <1>3, <1>4, <1>5, Zenon DEF StampInv

LEMMA ClockStep ==
    ASSUME StampInv, NEW r \in wire, ClockAnswers(r)
    PROVE  StampInv'
<1>1. NetworkStep /\ UNCHANGED <<now, upload, request, kept>>
  BY NetworkKeeps, Zenon DEF ClockAnswers, serverVars
<1>2. PICK ok \in BOOLEAN, pieces \in {1, 2} : Answer(r, TimeAnswer(ok, pieces))
  BY Zenon DEF ClockAnswers
<1>3. /\ wire' = wire \ {r}
      /\ response' = IF r \in request /\ response = {} THEN {TimeAnswer(ok, pieces)} ELSE response
      /\ UNCHANGED <<received, closed, waited>>
  BY <1>2, Zenon DEF Answer
<1>4. CASE r \in request /\ response = {}
  <2>. SUFFICES ASSUME TimeWaiting
                PROVE  /\ request \intersect wire # {} /\ request \intersect wire' = {}
                       /\ Fresh'
    BY <1>1, <1>3, <1>4, WireShrinks, Zenon DEF StampInv
  <2>1. request = {r} /\ received = 0
    BY <1>4, Zenon DEF StampInv, TimeAsked
  <2>2. Arrived' = TimeAnswer(ok, pieces)
    BY <1>3, <1>4, Zenon DEF Arrived
  <2>3. now \in Nat /\ waited \in Nat /\ now' = now /\ waited' = waited /\ received' = 0
    BY <1>1, <1>3, <2>1, ConstantTypes DEF StampInv, StampTypes
  <2>4. /\ TimeAnswer(ok, pieces).unix = Offset + now
        /\ TimeAnswer(ok, pieces).pieces = pieces /\ TimeAnswer(ok, pieces).sized = TRUE
    BY Zenon DEF TimeAnswer
  <2>5. Arrived'.sized
    BY <2>2, <2>4, Zenon
  <2>6. Fresh'
    BY <2>2, <2>3, <2>4, <2>5, ConstantTypes DEF Fresh
  <2>. QED BY <1>3, <2>1, <2>6, Zenon
<1>5. CASE ~(r \in request /\ response = {})
  BY <1>1, <1>3, <1>5, WireShrinks, Zenon DEF StampInv
<1>. QED BY <1>4, <1>5, Zenon

LEMMA IngestStep ==
    ASSUME StampInv, NEW r \in wire, ServerIngests(r)
    PROVE  StampInv'
<1>1. NetworkStep /\ r.kind = "post"
  BY Zenon DEF ServerIngests
<1>2. PICK payload \in r.payload :
        /\ kept' \subseteq kept \union {payload}
        /\ Answer(r, Accepted) \/ Answer(r, Refused)
  BY Zenon DEF ServerIngests
<1>3. PICK answer : Answer(r, answer)
  BY <1>2, Zenon
<1>4. /\ wire' = wire \ {r}
      /\ response' = IF r \in request /\ response = {} THEN {answer} ELSE response
      /\ UNCHANGED <<received, closed, waited>>
  BY <1>3, Zenon DEF Answer
<1>5. \A p \in kept' : PayloadTrue(p)
  BY <1>2, Zenon DEF StampInv
<1>6. TimeWaiting => r \notin request
  BY <1>1, Zenon DEF StampInv, TimeAsked
<1>. QED BY <1>1, <1>4, <1>5, <1>6, WireShrinks, Zenon

LEMMA LostStep ==
    ASSUME StampInv, NEW r \in wire, RequestLost(r)
    PROVE  StampInv'
BY WireShrinks, Zenon DEF RequestLost, serverVars, StampInv

\* The answer in progress goes on, ends or is lost.
LEMMA AnswerMoves ==
    ASSUME StampInv, NetworkStep, wire' = wire, kept' = kept, response # {},
           received' \in Nat, waited' \in 0 .. ReadTimeout,
           \/ response' = {} /\ closed' = closed /\ ~closed
           \/ response' = response /\ (TimeWaiting => Fresh')
    PROVE  StampInv'
<1>1. UNCHANGED <<now, queue, measured, upload, time_sync, request>>
  BY NetworkKeeps
<1>2. /\ StampTypes' /\ PostPending'
      /\ \A sync \in time_sync' : SyncTrue(sync)'
  BY NetworkTypes, Zenon
<1>3. /\ (\A payload \in kept : PayloadTrue(payload))'
      /\ (\A r \in wire : \A payload \in r.payload : PayloadTrue(payload))'
  BY Zenon DEF StampInv, PayloadTrue, Near
<1>4. ClosedAnswered'
  BY Zenon DEF StampInv, ClosedAnswered
<1>5. TimeWaiting => request \intersect wire = {}
  BY Zenon DEF StampInv, TimeAsked
<1>6. TimeAsked'
  BY <1>1, <1>5, Zenon DEF StampInv, TimeAsked, TimeWaiting
<1>. QED BY <1>2, <1>3, <1>4, <1>6, Zenon DEF StampInv

LEMMA PieceStep == StampInv /\ PieceArrives => StampInv'
<1>. SUFFICES ASSUME StampInv, PieceArrives PROVE StampInv'
  OBVIOUS
<1>1. /\ NetworkStep /\ response # {} /\ received' \in received + 1 .. Arrived.pieces
      /\ waited' = 0 /\ UNCHANGED <<wire, response, closed, kept>>
  BY Zenon DEF PieceArrives, serverVars
<1>2. received \in Nat /\ waited \in Nat /\ waited =< ReadTimeout /\ now \in Nat
  BY ConstantTypes DEF StampInv, StampTypes
<1>3. received' \in Nat /\ waited' \in 0 .. ReadTimeout
  BY <1>1, <1>2, ConstantTypes
<1>4. now' = now /\ Arrived' = Arrived
  BY <1>1, NetworkKeeps, Zenon DEF Arrived
<1>5. ASSUME TimeWaiting PROVE Fresh'
  <2>1. Fresh
    BY <1>1, <1>5, Zenon DEF StampInv, TimeAsked
  <2>2. Arrived'.sized
    BY <1>4, <2>1, Zenon DEF Fresh
  <2>. QED BY <1>1, <1>2, <1>4, <2>1, <2>2, ConstantTypes DEF Fresh, Tolerance
<1>. QED BY <1>1, <1>3, <1>5, AnswerMoves, Zenon

LEMMA EndStep ==
    StampInv /\ (PeerCloses \/ PeerClosesEarly \/ AnswerLost) => StampInv'
<1>. SUFFICES ASSUME StampInv, PeerCloses \/ PeerClosesEarly \/ AnswerLost PROVE StampInv'
  OBVIOUS
<1>0. received \in Nat /\ waited \in 0 .. ReadTimeout
  BY Zenon DEF StampInv, StampTypes
<1>1. CASE PeerCloses \/ PeerClosesEarly
  <2>1. /\ NetworkStep /\ response # {}
        /\ UNCHANGED <<wire, response, received, waited, kept>>
    BY <1>1, Zenon DEF PeerCloses, PeerClosesEarly, Whole, serverVars
  <2>2. now' = now /\ Arrived' = Arrived
    BY <2>1, NetworkKeeps, Zenon DEF Arrived
  <2>3. TimeWaiting => Fresh'
    BY <2>1, <2>2, Zenon DEF StampInv, TimeAsked, Fresh
  <2>. QED BY <1>0, <2>1, <2>3, AnswerMoves, Zenon
<1>2. CASE AnswerLost
  BY <1>0, <1>2, AnswerMoves, Zenon DEF AnswerLost, serverVars
<1>. QED BY <1>1, <1>2, Zenon

LEMMA ElapseStep == StampInv /\ Elapse => StampInv'
<1>. SUFFICES ASSUME StampInv, Elapse PROVE StampInv'
  OBVIOUS
<1>1. /\ UNCHANGED <<queue, measured, upload, time_sync, request, wire, response, received,
                      closed, kept>>
      /\ now' = (IF now < MaxTime THEN now + 1 ELSE now)
      /\ ~Complete
      /\ IF Waiting THEN waited < ReadTimeout /\ waited' = waited + 1 ELSE waited' = waited
  BY Zenon DEF Elapse, WaitElapses, spoolVars, serverVars
<1>2. /\ now \in 0 .. MaxTime /\ waited \in 0 .. ReadTimeout
      /\ received \in Nat /\ measured \in Nat /\ queue \in Seq(Record)
  BY Zenon DEF StampInv, StampTypes
<1>3. now' \in 0 .. MaxTime /\ now =< now' /\ now' =< now + 1 /\ waited' \in 0 .. ReadTimeout
  BY <1>1, <1>2, ConstantTypes
<1>4. StampTypes'
  BY <1>1, <1>2, <1>3 DEF StampTypes
<1>5. /\ (\A sync \in time_sync : SyncTrue(sync))'
      /\ (\A payload \in kept : PayloadTrue(payload))'
      /\ (\A r \in wire : \A payload \in r.payload : PayloadTrue(payload))'
  BY <1>1, Zenon DEF StampInv, SyncTrue, PayloadTrue, Near
<1>6. ASSUME TimeWaiting, response # {} PROVE Fresh'
  <2>1. Fresh /\ Waiting
    BY <1>6, Zenon DEF StampInv, TimeAsked, TimeWaiting, Waiting
  <2>2. waited' = waited + 1
    BY <1>1, <2>1, Zenon
  <2>3. Arrived' = Arrived /\ received' = received
    BY <1>1, Zenon DEF Arrived
  <2>4. ~(received > 0 /\ received = Arrived.pieces)
    BY <1>1, <1>6, <2>1, Zenon DEF Complete, Whole, Fresh
  <2>5. received # 2
    BY <1>2, <2>1, <2>4 DEF Fresh
  <2>6. Arrived'.sized
    BY <2>1, <2>3, Zenon DEF Fresh
  <2>7. /\ Arrived.unix \in Nat /\ Arrived.unix =< Offset + now
        /\ received = 0 => Offset + now =< Arrived.unix + waited
        /\ received = 1 => Offset + now =< Arrived.unix + ReadTimeout + waited
    BY <2>1, Zenon DEF Fresh
  <2>8. now \in Nat /\ waited \in Nat /\ now' \in Nat /\ now =< now' /\ now' =< now + 1
    BY <1>2, <1>3, ConstantTypes
  <2>9. /\ Arrived.unix =< Offset + now'
        /\ received = 0 => Offset + now' =< Arrived.unix + waited'
        /\ received = 1 => Offset + now' =< Arrived.unix + ReadTimeout + waited'
    BY <2>2, <2>7, <2>8, ConstantTypes
  <2>. QED BY <2>1, <2>3, <2>5, <2>6, <2>9, Zenon DEF Fresh
<1>7. TimeAsked'
  BY <1>1, <1>6, Zenon DEF StampInv, TimeAsked, TimeWaiting
<1>8. ClosedAnswered' /\ PostPending'
  BY <1>1, Zenon DEF StampInv, ClosedAnswered, PostPending
<1>. QED BY <1>4, <1>5, <1>7, <1>8, Zenon DEF StampInv

LEMMA MeasureStep == StampInv /\ Measure => StampInv'
<1>. SUFFICES ASSUME StampInv, Measure PROVE StampInv'
  OBVIOUS
<1>1. /\ UNCHANGED <<now, upload, time_sync, request, wire, response, received, closed,
                      waited, kept>>
      /\ measured < MaxRecords /\ measured' = measured + 1
      /\ queue' = Append(queue, [sequence |-> measured, current |-> TRUE, uptime |-> now])
  BY Zenon DEF Measure, clockVars, exchangeVars, serverVars
<1>2. /\ now \in 0 .. MaxTime /\ measured \in Nat /\ queue \in Seq(Record)
      /\ received \in Nat /\ waited \in 0 .. ReadTimeout
  BY Zenon DEF StampInv, StampTypes
<1>3. measured \in 0 .. MaxRecords - 1
  BY <1>1, <1>2, ConstantTypes
<1>4. [sequence |-> measured, current |-> TRUE, uptime |-> now] \in Record
  BY <1>2, <1>3, Zenon DEF Record
<1>5. queue' \in Seq(Record) /\ queue' # <<>>
  BY <1>1, <1>2, <1>4
<1>6. StampTypes'
  BY <1>1, <1>2, <1>5 DEF StampTypes
<1>7. /\ (\A sync \in time_sync : SyncTrue(sync))'
      /\ (\A payload \in kept : PayloadTrue(payload))'
      /\ (\A r \in wire : \A payload \in r.payload : PayloadTrue(payload))'
  BY <1>1, Zenon DEF StampInv, SyncTrue, PayloadTrue, Near
<1>8. TimeAsked' /\ ClosedAnswered' /\ PostPending'
  BY <1>1, <1>5, Zenon
     DEF StampInv, TimeAsked, TimeWaiting, Fresh, Arrived, ClosedAnswered, PostPending
<1>. QED BY <1>6, <1>7, <1>8, Zenon DEF StampInv

LEMMA StampStep == StampInv /\ [Next]_vars => StampInv'
<1>. SUFFICES ASSUME StampInv, [Next]_vars PROVE StampInv'
  OBVIOUS
<1>1. CASE WifiConnect \/ WifiDisconnect \/ BackoffEnds \/ ConfigChanges \/ AirChanges
  <2>1. LinkStep
    BY <1>1, Zenon DEF WifiConnect, WifiDisconnect, BackoffEnds, ConfigChanges, AirChanges
  <2>. QED BY <2>1, StampKept, Zenon
         DEF LinkStep, clockVars, spoolVars, exchangeVars, serverVars, stampVars
<1>2. CASE Uploader
  BY <1>2, UploaderStep, Zenon
<1>3. CASE Network
  BY <1>3, ClockStep, IngestStep, PieceStep, EndStep, Zenon DEF Network
<1>4. CASE \E r \in wire : RequestLost(r)
  BY <1>4, LostStep, Zenon
<1>5. CASE AnswerLost \/ PeerClosesEarly
  BY <1>5, EndStep, Zenon
<1>6. CASE ServerMoves
  <2>1. NetworkStep /\ UNCHANGED <<kept, wire, response, received, closed, waited>>
    BY <1>6, Zenon DEF ServerMoves
  <2>. QED BY <2>1, NetworkKeeps, StampKept, Zenon DEF stampVars
<1>7. CASE Elapse
  BY <1>7, ElapseStep, Zenon
<1>8. CASE Measure
  BY <1>8, MeasureStep, Zenon
<1>9. CASE UNCHANGED vars
  BY <1>9, StampKept, Zenon
     DEF vars, clockVars, spoolVars, linkVars, exchangeVars, serverVars, stampVars
<1>. QED BY <1>1, <1>2, <1>3, <1>4, <1>5, <1>6, <1>7, <1>8, <1>9, Zenon DEF Next

\* No record is archived with a wrong wall clock: whatever is lost, late or
\* asked twice, a stamp is off by no more than the two reads of an answer, and
\* only a record of this boot has one (select_payload_timestamp, tasks/upload/time.rs).
THEOREM StampsAlwaysTrue == Spec => []StampsTrue
<1>1. StampInv => StampsTrue
  <2>. SUFFICES ASSUME StampInv,
                       NEW payload \in kept, NEW unix \in payload.wall
                PROVE  /\ payload.record.current
                       /\ Distance(unix, Offset + payload.record.uptime) =< 2 * ReadTimeout
    BY Zenon DEF StampsTrue
  <2>1. PayloadTrue(payload)
    BY Zenon DEF StampInv
  <2>2. /\ unix \in Nat /\ payload.record.uptime \in Nat
        /\ payload.record.current
        /\ Near(unix, Offset + payload.record.uptime)
    BY <2>1, Zenon DEF PayloadTrue
  <2>3. Distance(unix, Offset + payload.record.uptime) =< 2 * ReadTimeout
    BY <2>2, ConstantTypes DEF Distance, Near, Tolerance
  <2>. QED BY <2>2, <2>3, Zenon
<1>. QED BY <1>1, StampInit, StampStep, PTL DEF Spec
===============================================================================
