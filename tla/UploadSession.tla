---------------------------- MODULE UploadSession ----------------------------
(***************************************************************************)
(* The uploader in detail (tasks/upload, tasks/wifi.rs): finding the       *)
(* server, synchronising the time, stamping a stored measurement with the  *)
(* wall clock when it is sent, and reading an answer that comes in pieces. *)
(* The uploader is alone with the spool here; RecordDelivery has both      *)
(* clients, the channel and resets.                                        *)
(*                                                                         *)
(* An option is a set of at most one element.  Uptime is counted in ticks  *)
(* since this boot, and the wall clock is Offset ahead of it; records of   *)
(* an earlier boot carry an uptime that says nothing of either.  The place *)
(* of the server may change, and it may run without its discovery.         *)
(***************************************************************************)
EXTENDS Integers, Sequences

CONSTANTS
    Recovered,       \* the records found in the spool at boot, oldest first
    MaxRecords,      \* bound: records, recovered and measured
    Offset,          \* wall clock at boot
    Places,          \* addresses the server may have
    Fallback,        \* the one in the configuration
    Answering,       \* which of discovery and NTP may be there, besides the server
    ReadTimeout,     \* READ_TIMEOUT_SECS, in ticks
    DiscoveryRetry,  \* DISCOVERY_RETRY_SECS
    TimeRetry,       \* TIME_SYNC_RETRY_SECS
    Strategies,      \* the dedup strategies the server may be configured with;
                     \* those that replace a payload answer like keep_first
    MaxTime,         \* bound: the clock stops there
    MaxFaults        \* bound: faults and changes of the network in a behaviour

Record == [sequence : 0 .. MaxRecords - 1, current : BOOLEAN, uptime : 0 .. MaxTime]

ASSUME UploadAssumption ==
    /\ Recovered \in Seq(Record)
    /\ \A i \in 1 .. Len(Recovered) : ~Recovered[i].current
    /\ Fallback \in Places /\ "ntp" \notin Places
    /\ Answering \subseteq SUBSET {"discovery", "ntp"}
    /\ {MaxRecords, Offset, ReadTimeout, DiscoveryRetry, TimeRetry, MaxTime, MaxFaults}
         \subseteq Nat
    /\ Strategies \subseteq {"keep_first", "reject"}

VARIABLES
    now,             \* uptime
    queue, measured, \* the spool, and how many records there were
    air,             \* the access point can be reached
    wifi,            \* where wifi_task is
    config_up,       \* the stack has an address
    network_state,   \* as published
    upload,          \* where the uploader is in its loop
    due,             \* what this turn of the loop will try
    since_discovery, \* option: time since the last attempt, up to DiscoveryRetry
    since_time,      \* option: time since the last attempt, up to TimeRetry
    discovered,      \* option: the place discovery gave
    time_sync,       \* option: boot_ms_at_sync, unix_ms_at_sync
    request,         \* option: the request the uploader waits on
    wire,            \* requests on their way to a server
    response,        \* option: the answer to the request, as the server sends it
    received,        \* pieces of it that were read
    closed,          \* the server has closed the connection
    waited,          \* ticks in the current read
    serving,         \* the place where the server is
    answering,       \* its discovery responder runs, an NTP server can be reached
    strategy,        \* its dedup strategy
    kept,            \* the payloads it keeps
    faults           \* history, for MaxFaults

clockVars == <<now, since_discovery, since_time>>
spoolVars == <<queue, measured>>
linkVars == <<air, wifi, config_up>>
exchangeVars == <<request, wire, response, received, closed, waited>>
serverVars == <<serving, answering, strategy, kept>>
vars == <<clockVars, spoolVars, linkVars, network_state, upload, due, discovered,
          time_sync, exchangeVars, serverVars, faults>>

Fault ==
    /\ faults < MaxFaults
    /\ faults' = faults + 1

-----------------------------------------------------------------------------
(* Pure parts.                                                             *)

\* A plausible bug: the first attempt is the only one.
TryOnce(since, interval) == since = {}

\* should_retry, of the time since the last attempt
ShouldRetry(since, interval) == \A t \in since : t >= interval

\* resolve_endpoint; nothing is ever provisioned.
Endpoint == IF discovered = {} THEN Fallback ELSE CHOOSE place \in discovered : TRUE

\* wall_clock_for_uptime: none where the difference is not representable
WallClock(sync, uptime) ==
    {t \in {sync.unix + (uptime - sync.boot)} : t >= 0}

\* A plausible bug: the record's boot is not looked at.
StampAny(record) == UNION {WallClock(sync, record.uptime) : sync \in time_sync}

\* select_payload_timestamp
Stamp(record) ==
    IF record.current THEN UNION {WallClock(sync, record.uptime) : sync \in time_sync} ELSE {}

Payload(record) == [record |-> record, wall |-> Stamp(record)]

-----------------------------------------------------------------------------
(* wifi_task and the stack.                                                *)

LinkStep ==
    UNCHANGED <<clockVars, spoolVars, upload, due, discovered, time_sync, exchangeVars,
                serverVars>>

\* The credentials are valid; a failed set_config is a failed connection.
WifiConnect ==
    /\ wifi = "connecting"
    /\ IF air THEN wifi' = "connected" /\ network_state' = "Connected"
              ELSE wifi' = "backoff" /\ network_state' = "Disconnected"
    /\ UNCHANGED <<air, config_up, faults>>
    /\ LinkStep

WifiDisconnect ==
    /\ wifi = "connected"
    /\ ~air
    /\ wifi' = "backoff"
    /\ network_state' = "Disconnected"
    /\ UNCHANGED <<air, config_up, faults>>
    /\ LinkStep

BackoffEnds ==
    /\ wifi = "backoff"
    /\ wifi' = "connecting"
    /\ network_state' = "Connecting"
    /\ UNCHANGED <<air, config_up, faults>>
    /\ LinkStep

\* The stack learns of it a little later.
ConfigChanges ==
    /\ config_up # (wifi = "connected")
    /\ config_up' = (wifi = "connected")
    /\ UNCHANGED <<air, wifi, network_state, faults>>
    /\ LinkStep

\* It may come back, at no charge.
AirChanges ==
    /\ IF air THEN Fault ELSE UNCHANGED faults
    /\ air' = ~air
    /\ UNCHANGED <<wifi, config_up, network_state>>
    /\ LinkStep

-----------------------------------------------------------------------------
(* uploader_task.                                                          *)

\* The socket is closed.  A post still on its way may be ingested later; nobody
\* would read the time.
NoExchange ==
    /\ request' = {} /\ response' = {} /\ received' = 0 /\ closed' = FALSE /\ waited' = 0
    /\ wire' = {r \in wire : r.kind = "post"}

Due == (IF ShouldRetry(since_discovery, DiscoveryRetry) THEN {"discovery"} ELSE {})
         \union (IF ShouldRetry(since_time, TimeRetry) THEN {"time"} ELSE {})

\* A plausible bug: the loop does not wait for an address.
LoopHeadAtOnce ==
    /\ upload = "network"
    /\ network_state' = "IpReady"
    /\ due' = Due
    /\ since_discovery' = IF "discovery" \in Due THEN {0} ELSE since_discovery
    /\ since_time' = IF "time" \in Due THEN {0} ELSE since_time
    /\ upload' = "discover"
    /\ UNCHANGED <<now, spoolVars, linkVars, discovered, time_sync, exchangeVars, serverVars,
                   faults>>

\* wait_config_up; both retries are decided by the time of this moment.
LoopHead ==
    /\ upload = "network"
    /\ config_up
    /\ network_state' = "IpReady"
    /\ due' = Due
    /\ since_discovery' = IF "discovery" \in Due THEN {0} ELSE since_discovery
    /\ since_time' = IF "time" \in Due THEN {0} ELSE since_time
    /\ upload' = "discover"
    /\ UNCHANGED <<now, spoolVars, linkVars, discovered, time_sync, exchangeVars, serverVars,
                   faults>>

SessionStep ==
    UNCHANGED <<clockVars, linkVars, network_state, due, serverVars>>

\* An old result stays when nobody answers.
Discover ==
    /\ upload = "discover"
    /\ upload' = "time"
    /\ \/ /\ "discovery" \in due \intersect answering /\ config_up
          /\ discovered' = {serving}
          /\ UNCHANGED faults
       \/ /\ "discovery" \in due \intersect answering => ~config_up
          /\ UNCHANGED <<discovered, faults>>
       \/ /\ "discovery" \in due /\ Fault
          /\ UNCHANGED discovered
    /\ UNCHANGED <<spoolVars, time_sync, exchangeVars>>
    /\ SessionStep

\* A request leaves for a place; payload is used by a post only.
Sent(kind, place, payload) ==
    /\ request' = {[kind |-> kind, to |-> place, payload |-> payload]}
    /\ wire' = {r \in wire : r.kind = "post"} \union request'
    /\ response' = {} /\ received' = 0 /\ closed' = FALSE /\ waited' = 0

StartTimeSync ==
    /\ upload = "time"
    /\ IF "time" \in due
       THEN Sent("sntp", "ntp", {}) /\ upload' = "sntp"
       ELSE UNCHANGED exchangeVars /\ upload' = "peek"
    /\ UNCHANGED <<spoolVars, discovered, time_sync, faults>>
    /\ SessionStep

Arrived == CHOOSE answer \in response : TRUE

Whole == response # {} /\ received = Arrived.pieces

\* read_http_response ends when the announced length is there, or at the end of
\* the connection whatever came before it; a UDP answer is one piece.
Complete ==
    /\ received > 0
    /\ closed \/ (Whole /\ Arrived.sized)

Waiting == upload \in {"sntp", "rest", "answer"}

\* SNTP falls back on the server's clock; a failed post is tried again.
Failed ==
    IF upload = "sntp" THEN Sent("time", Endpoint, {}) /\ upload' = "rest"
    ELSE /\ NoExchange
         /\ upload' = IF upload = "rest" THEN "peek" ELSE "network"

Synchronised == time_sync' = {[boot |-> now, unix |-> Arrived.unix]}

SntpAnswered ==
    /\ upload = "sntp" /\ Complete /\ Arrived.ok
    /\ Synchronised
    /\ upload' = "peek"
    /\ NoExchange
    /\ UNCHANGED <<spoolVars, discovered, faults>>
    /\ SessionStep

\* parse_sntp_unix_ms takes no time from the packet.
SntpMalformed ==
    /\ upload = "sntp" /\ Complete /\ ~Arrived.ok
    /\ Failed
    /\ UNCHANGED <<spoolVars, discovered, time_sync, faults>>
    /\ SessionStep

RestTimeAnswered ==
    /\ upload = "rest" /\ Complete  \* the second piece holds unix_ms
    /\ IF Arrived.ok /\ Whole THEN Synchronised ELSE UNCHANGED time_sync
    /\ upload' = "peek"
    /\ NoExchange
    /\ UNCHANGED <<spoolVars, discovered, faults>>
    /\ SessionStep

\* Nothing pending: the loop starts over after a moment.
Peek ==
    /\ upload = "peek"
    /\ upload' = IF queue = <<>> THEN "network" ELSE "post"
    /\ UNCHANGED <<spoolVars, discovered, time_sync, exchangeVars, faults>>
    /\ SessionStep

Post ==
    /\ upload = "post"
    /\ Sent("post", Endpoint, {Payload(Head(queue))})
    /\ upload' = "answer"
    /\ UNCHANGED <<spoolVars, discovered, time_sync, faults>>
    /\ SessionStep

\* http_response_is_success looks at the status, which the first piece holds;
\* the acknowledgement follows.
PostAnswered ==
    /\ upload = "answer" /\ Complete
    /\ queue' = IF Arrived.ok THEN Tail(queue) ELSE queue
    /\ upload' = "network"
    /\ NoExchange
    /\ UNCHANGED <<measured, discovered, time_sync, faults>>
    /\ SessionStep

\* A plausible bug: a read has no timeout once something was received.
TimedOutAtHead == waited = ReadTimeout /\ received = 0

TimedOut == waited = ReadTimeout

\* A read takes too long, or there is no connection to that place.
ExchangeFails ==
    /\ Waiting /\ ~Complete
    /\ \/ TimedOut
       \/ ~config_up
       \/ upload # "sntp" /\ \E r \in request : r.to # serving
    /\ Failed
    /\ UNCHANGED <<spoolVars, discovered, time_sync, faults>>
    /\ SessionStep

Uploader ==
    \/ LoopHead \/ Discover \/ StartTimeSync \/ SntpAnswered \/ SntpMalformed
    \/ RestTimeAnswered \/ Peek \/ Post \/ PostAnswered \/ ExchangeFails

-----------------------------------------------------------------------------
(* The servers and the network.                                            *)

NetworkStep ==
    UNCHANGED <<clockVars, spoolVars, linkVars, network_state, upload, due, discovered,
                time_sync, request>>

\* The addresses where somebody answers.
Served == {serving} \union (answering \intersect {"ntp"})

\* What the device hears of the answer to r, if it still waits for it.
Answer(r, answer) ==
    /\ wire' = wire \ {r}
    /\ response' = IF r \in request /\ response = {} THEN {answer} ELSE response
    /\ UNCHANGED <<received, closed, waited>>

Clash(payload) ==
    \E other \in kept : other.record.sequence = payload.record.sequence /\ other # payload

Known(payload) == \E other \in kept : other.record.sequence = payload.record.sequence

\* 204 announces no length, a refusal that there is no body; the body of the
\* time comes in a piece of its own.
Accepted == [ok |-> TRUE, unix |-> 0, pieces |-> 1, sized |-> FALSE]
Refused == [ok |-> FALSE, unix |-> 0, pieces |-> 1, sized |-> TRUE]
TimeAnswer(ok, pieces) == [ok |-> ok, unix |-> Offset + now, pieces |-> pieces, sized |-> TRUE]

\* The NTP packet may be none the device can read.
ClockAnswers(r) ==
    /\ r \in wire
    /\ \/ /\ r.kind = "sntp" /\ "ntp" \in answering
          /\ \E ok \in BOOLEAN : Answer(r, TimeAnswer(ok, 1))
       \/ r.kind = "time" /\ r.to = serving /\ Answer(r, TimeAnswer(TRUE, 2))
    /\ UNCHANGED <<serverVars, faults>>
    /\ NetworkStep

\* keep_first takes any payload of a known number for a duplicate.  reject
\* refuses one that differs from what it keeps.
ServerIngests(r) ==
    /\ r \in wire /\ r.kind = "post" /\ r.to = serving
    /\ \E payload \in r.payload :
         IF strategy = "reject" /\ Clash(payload)
         THEN Answer(r, Refused) /\ UNCHANGED kept
         ELSE /\ Answer(r, Accepted)
              /\ kept' = IF Known(payload) THEN kept ELSE kept \union {payload}
    /\ UNCHANGED <<serving, answering, strategy, faults>>
    /\ NetworkStep

\* Lost, or sent to a place where no server is any more.
RequestLost(r) ==
    /\ r \in wire
    /\ IF r.to \in Served THEN Fault ELSE UNCHANGED faults
    /\ wire' = wire \ {r}
    /\ UNCHANGED <<response, received, closed, waited, serverVars>>
    /\ NetworkStep

PieceArrives ==
    /\ response # {}
    /\ ~closed /\ received < Arrived.pieces
    /\ received' \in received + 1 .. Arrived.pieces
    /\ waited' = 0
    /\ UNCHANGED <<wire, response, closed, serverVars, faults>>
    /\ NetworkStep

\* The request said "Connection: close".
PeerCloses ==
    /\ Whole /\ ~Arrived.sized /\ ~closed
    /\ closed' = TRUE
    /\ UNCHANGED <<wire, response, received, waited, serverVars, faults>>
    /\ NetworkStep

\* The server goes away between two pieces.
PeerClosesEarly ==
    /\ response # {} /\ received > 0 /\ ~Whole /\ ~closed
    /\ Fault
    /\ closed' = TRUE
    /\ UNCHANGED <<wire, response, received, waited, serverVars>>
    /\ NetworkStep

\* The rest of an answer is lost.
AnswerLost ==
    /\ response # {} /\ ~closed /\ ~Complete
    /\ Fault
    /\ response' = {}
    /\ UNCHANGED <<wire, received, closed, waited, serverVars>>
    /\ NetworkStep

ServerMoves ==
    /\ Fault
    /\ serving' \in Places \ {serving}
    /\ UNCHANGED <<answering, strategy, kept, wire, response, received, closed, waited>>
    /\ NetworkStep

Network ==
    \/ \E r \in wire : ClockAnswers(r) \/ ServerIngests(r)
    \/ PieceArrives \/ PeerCloses

-----------------------------------------------------------------------------
(* Time and measurements.                                                  *)

Later(since, interval) == {IF t < interval THEN t + 1 ELSE t : t \in since}

\* Nothing more will be heard.
Silent ==
    /\ \A r \in request \intersect wire : r.to \notin Served
    /\ response = {}

\* A read fills its time when nothing is on its way, or by a fault; what is
\* there is taken within a tick.
WaitElapses ==
    /\ ~Complete
    /\ IF Waiting
       THEN /\ waited < ReadTimeout
            /\ waited' = waited + 1
            /\ IF waited' = ReadTimeout /\ ~Silent THEN Fault ELSE UNCHANGED faults
       ELSE UNCHANGED <<waited, faults>>

Elapse ==
    /\ WaitElapses
    /\ now' = IF now < MaxTime THEN now + 1 ELSE now
    /\ since_discovery' = Later(since_discovery, DiscoveryRetry)
    /\ since_time' = Later(since_time, TimeRetry)
    /\ UNCHANGED <<spoolVars, linkVars, network_state, upload, due, discovered, time_sync,
                   request, wire, response, received, closed, serverVars>>

Measure ==
    /\ measured < MaxRecords
    /\ queue' = Append(queue, [sequence |-> measured, current |-> TRUE, uptime |-> now])
    /\ measured' = measured + 1
    /\ UNCHANGED <<clockVars, linkVars, network_state, upload, due, discovered, time_sync,
                   exchangeVars, serverVars, faults>>

Init ==
    /\ now = 0 /\ since_discovery = {} /\ since_time = {}
    /\ queue = Recovered /\ measured = Len(Recovered)
    /\ air = TRUE /\ wifi = "connecting" /\ config_up = FALSE
    /\ network_state = "Disconnected"
    /\ upload = "network" /\ due = {} /\ discovered = {} /\ time_sync = {}
    /\ request = {} /\ wire = {} /\ response = {} /\ received = 0 /\ closed = FALSE /\ waited = 0
    /\ serving \in Places /\ answering \in Answering /\ strategy \in Strategies /\ kept = {}
    /\ faults = 0

Next ==
    \/ WifiConnect \/ WifiDisconnect \/ BackoffEnds \/ ConfigChanges \/ AirChanges
    \/ Uploader
    \/ Network
    \/ \E r \in wire : RequestLost(r)
    \/ AnswerLost \/ PeerClosesEarly \/ ServerMoves
    \/ Elapse \/ Measure

\* The tasks run, time passes and what is on its way arrives.
Fairness ==
    /\ WF_vars(WifiConnect) /\ WF_vars(WifiDisconnect) /\ WF_vars(BackoffEnds)
    /\ WF_vars(ConfigChanges)
    /\ WF_vars(Uploader)
    /\ WF_vars(Network)
    /\ WF_vars(Elapse)

Spec == Init /\ [][Next]_vars /\ Fairness

-----------------------------------------------------------------------------
(* Properties.                                                             *)

Distance(a, b) == IF a < b THEN b - a ELSE a - b

\* A wall clock the server archives is when the measurement was made, up to the
\* time an answer may take in its two reads; a record of an earlier boot gets
\* none, however often it was tried before and after a synchronisation
\* (docs/10-firmware/03-network.md: "must not receive a synthesized wall-clock
\* timestamp from the current boot's sync state").
StampsTrue ==
    \A payload \in kept, unix \in UNION {p.wall : p \in kept} :
        unix \in payload.wall =>
            /\ payload.record.current
            /\ Distance(unix, Offset + payload.record.uptime) =< 2 * ReadTimeout

\* The server can be found: it answers discovery, or it is where the
\* configuration says and the uploader was never told of another place.
Reachable == air /\ ("discovery" \in answering \/ (serving = Fallback /\ discovered = {}))

\* Every record reaches the server once that lasts, whatever was lost before,
\* wherever the server moved and however old the synchronisation is.  The one
\* way to be stuck is a server that rejects: a retry is stamped anew, so it
\* may be another payload than the one stored when the answer was lost.
Drains ==
    <>[]Reachable =>
        [](queue # <<>> ~>
             (queue = <<>> \/ (strategy = "reject" /\ Clash(Payload(Head(queue))))))

\* Whatever a server leaves unanswered or half answered, the uploader comes back
\* to the head of its loop.
Retries == <>[]config_up => []<><<LoopHead>>_vars

\* The loop may publish IpReady when the link is already gone; that does not
\* last, even if the link never comes back.
ReadyEnds == <>[]~air => <>[](network_state # "IpReady")
===============================================================================
