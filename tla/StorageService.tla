--------------------------- MODULE StorageService ---------------------------
(***************************************************************************)
(* The storage task and the tasks around it: the aggregator, which puts    *)
(* measurements into the storage task's bounded request channel without    *)
(* waiting, and the clients (the uploader and the BLE session), which send *)
(* a peek or an acknowledgement and wait for the answer on a signal of     *)
(* their own.                                                              *)
(*                                                                         *)
(* The spool is what SpoolFifo promises (FlashSpool is checked to keep the *)
(* promise); a payload is the number of its measurement.  All tasks run on *)
(* one cooperative executor, flash calls block it, and no mutex is held    *)
(* across an await, so the handling of one command is one step.            *)
(***************************************************************************)
EXTENDS SpoolRecords

CONSTANTS
    Clients,          \* StorageClient
    ChannelCapacity,  \* STORAGE_REQUEST_CAPACITY (8)
    MayForget,        \* a restart with nothing pending may restart the numbering
    MaxMeasurements,  \* bound: measurements in a behaviour
    MaxTroubles       \* bound: restarts and flash errors in a behaviour

ASSUME ServiceAssumption ==
    /\ "aggregator" \notin Clients
    /\ ChannelCapacity \in Nat \ {0}
    /\ MayForget \in BOOLEAN
    /\ MaxMeasurements \in Nat
    /\ MaxTroubles \in Nat
    /\ Payloads = 1 .. MaxMeasurements

VARIABLES
    queue,          \* the spool's pending records
    next_sequence,  \* the spool's next_sequence
    storage,        \* the storage task: recovering, ready or unavailable
    first_of_boot,  \* backlog.current_boot_first_sequence
    pending_count,  \* metrics.pending_record_count, published to the status
    requests,       \* the StorageRequestChannel
    reply,          \* reply[c]: the StorageResponseSignal of c
    stage,          \* stage[c]: idle, sending (channel full) or waiting
    command,        \* command[c]: what c is sending or waiting for
    held,           \* held[c]: the payload c last peeked
    measured,       \* number of the last measurement
    booted_at,      \* history: measured at the last restart
    diverged,       \* history: whether the log and memory may differ (see Divergence)
    troubles        \* history: number of restarts and errors, for MaxTroubles

spoolVars == <<queue, next_sequence>>
taskVars == <<storage, first_of_boot, pending_count>>
clientVars == <<reply, stage, command, held>>
historyVars == <<booted_at, diverged, troubles>>
serviceVars == <<spoolVars, taskVars, requests, clientVars, measured, historyVars>>

Spool == INSTANCE SpoolFifo WITH next <- next_sequence

-----------------------------------------------------------------------------
\* StorageCommand: about is a measurement's number or a sequence number.
Command == [op : {"append", "peek", "ack"}, from : Clients \cup {"aggregator"}, about : Nat]

AppendOf(m) == [op |-> "append", from |-> "aggregator", about |-> m]
PeekBy(c) == [op |-> "peek", from |-> c, about |-> 0]
AckBy(c, s) == [op |-> "ack", from |-> c, about |-> s]

StoredPayload == [record : Record, current_boot : BOOLEAN]

\* StorageResponse; payload holds at most one StoredPayload.
Response == [kind : {"peeked", "acked", "error"}, payload : Seq(StoredPayload), acked : BOOLEAN]

Peeked(payload) == [kind |-> "peeked", payload |-> payload, acked |-> FALSE]
Acked(removed) == [kind |-> "acked", payload |-> <<>>, acked |-> removed]
Error == [kind |-> "error", payload |-> <<>>, acked |-> FALSE]

\* sequence_is_from_current_boot: u64::wrapping_sub and half the range
FromCurrentBoot(s) == (s - first_of_boot) % SequenceMod < SequenceMod \div 2

\* peek_payload
Oldest ==
    IF queue = <<>> THEN <<>>
    ELSE <<[record |-> Head(queue), current_boot |-> FromCurrentBoot(Head(queue).sequence)]>>

-----------------------------------------------------------------------------
(* The aggregator: enqueue_measurement, try_send on the channel.           *)

\* Mutant of Measure: the measurement overtakes what is in the channel.
MeasureInFront ==
    /\ measured < MaxMeasurements
    /\ measured' = measured + 1
    /\ requests' = IF Len(requests) < ChannelCapacity
                     THEN <<AppendOf(measured')>> \o requests
                     ELSE requests
    /\ UNCHANGED <<spoolVars, taskVars, clientVars, historyVars>>

\* Mutant of Measure: the channel is not bounded.
MeasureUnbounded ==
    /\ measured < MaxMeasurements
    /\ measured' = measured + 1
    /\ requests' = Append(requests, AppendOf(measured'))
    /\ UNCHANGED <<spoolVars, taskVars, clientVars, historyVars>>

\* A full channel loses the measurement.
Measure ==
    /\ measured < MaxMeasurements
    /\ measured' = measured + 1
    /\ requests' = IF Len(requests) < ChannelCapacity
                     THEN Append(requests, AppendOf(measured'))
                     ELSE requests
    /\ UNCHANGED <<spoolVars, taskVars, clientVars, historyVars>>

-----------------------------------------------------------------------------
(* A client: send(...).await, then wait().await.                           *)

Ask(c, request) ==
    /\ stage[c] = "idle"
    /\ stage' = [stage EXCEPT ![c] = "sending"]
    /\ command' = [command EXCEPT ![c] = request]
    /\ UNCHANGED <<spoolVars, taskVars, requests, reply, held, measured, historyVars>>

Send(c) ==
    /\ stage[c] = "sending"
    /\ Len(requests) < ChannelCapacity
    /\ requests' = Append(requests, command[c])
    /\ stage' = [stage EXCEPT ![c] = "waiting"]
    /\ UNCHANGED <<spoolVars, taskVars, reply, command, held, measured, historyVars>>

\* The answer to a peek, whatever it is, replaces what the client held: an
\* error counts as nothing pending.
Take(c) ==
    /\ stage[c] = "waiting"
    /\ reply[c] # <<>>
    /\ stage' = [stage EXCEPT ![c] = "idle"]
    /\ reply' = [reply EXCEPT ![c] = <<>>]
    /\ command' = [command EXCEPT ![c] = PeekBy(c)]
    /\ held' = [held EXCEPT ![c] = IF command[c].op = "peek" THEN reply[c][1].payload ELSE @]
    /\ UNCHANGED <<spoolVars, taskVars, requests, measured, historyVars>>

\* The BLE session drops its payload when the central disconnects.
Forget(c) ==
    /\ stage[c] = "idle"
    /\ held' = [held EXCEPT ![c] = <<>>]
    /\ UNCHANGED <<spoolVars, taskVars, requests, reply, stage, command, measured, historyVars>>

-----------------------------------------------------------------------------
(* The storage task: recovery, then one command after the other.           *)

\* Mutant of RecoverSucceeds: every record counts as one of this boot.
RecoverSucceedsUnmarked ==
    /\ storage = "recovering"
    /\ storage' = "ready"
    /\ next_sequence' \in {next_sequence} \cup (IF MayForget /\ queue = <<>> THEN {0} ELSE {})
    /\ pending_count' = Len(queue)
    /\ UNCHANGED <<queue, first_of_boot, requests, clientVars, measured, historyVars>>

\* MeasurementStorageBacklog::recover.  The newest number in the log is the
\* newest record's while one is pending; with none pending the log may have
\* been compacted to nothing, and the numbering starts again.
RecoverSucceeds ==
    /\ storage = "recovering"
    /\ storage' = "ready"
    /\ next_sequence' \in {next_sequence} \cup (IF MayForget /\ queue = <<>> THEN {0} ELSE {})
    /\ first_of_boot' = next_sequence'
    /\ pending_count' = Len(queue)
    /\ UNCHANGED <<queue, requests, clientVars, measured, historyVars>>

\* What an error of the flash driver may have left behind:
\*   "no"      recovery of the log would give the queue and the numbering
\*   "flash"   the log may lack what memory has, or show what it gave up
\*   "memory"  memory gave up a record whose removal was reported as an error
Divergence == {"no", "flash", "memory"}

\* A write, an erase or a write back that fails: nothing was programmed, or
\* the region is no longer what memory believes it to be.
FlashDisturbed == diverged' \in {diverged, IF diverged = "no" THEN "flash" ELSE diverged}

Trouble ==
    /\ troubles < MaxTroubles
    /\ troubles' = troubles + 1

\* The flash driver cannot be set up, or recovery returns an error: the task
\* answers every command with an error until the next restart.
RecoverFails ==
    /\ Trouble
    /\ storage = "recovering"
    /\ storage' = "unavailable"
    /\ UNCHANGED <<spoolVars, first_of_boot, pending_count, requests, clientVars, measured,
                   booted_at, diverged>>

Current == Head(requests)

\* requests.receive() returned a command of this kind.
Receive(state, ops) ==
    /\ storage = state
    /\ requests # <<>>
    /\ Current.op \in ops
    /\ requests' = Tail(requests)

\* Mutant of Answer: the answer goes to the signal of another client.
AnswerOther(response) ==
    /\ \E c \in Clients \ {Current.from} : reply' = [reply EXCEPT ![c] = <<response>>]
    /\ UNCHANGED <<stage, command, held>>

\* signal_storage_response: a signal keeps the latest value only.
Answer(response) ==
    /\ reply' = [reply EXCEPT ![Current.from] = <<response>>]
    /\ UNCHANGED <<stage, command, held>>

\* Mutant of AppendHandled: the count is incremented, though the append may
\* have dropped the oldest record.
AppendHandledCounting ==
    /\ Receive("ready", {"append"})
    /\ Spool!AppendRecord(Current.about)
    /\ pending_count' = pending_count + 1
    /\ UNCHANGED <<storage, first_of_boot, clientVars, measured, historyVars>>

AppendHandled ==
    /\ Receive("ready", {"append"})
    /\ Spool!AppendRecord(Current.about)
    /\ pending_count' = Len(queue')
    /\ UNCHANGED <<storage, first_of_boot, clientVars, measured, historyVars>>

\* The entry cannot be written, or the compaction that would make room for it
\* cannot be completed: memory keeps what it had.
AppendFails ==
    /\ Trouble
    /\ Receive("ready", {"append"})
    /\ FlashDisturbed
    /\ UNCHANGED <<spoolVars, taskVars, clientVars, measured, booted_at>>

PeekHandled ==
    /\ Receive("ready", {"peek"})
    /\ Answer(Peeked(Oldest))
    /\ UNCHANGED <<spoolVars, taskVars, measured, historyVars>>

\* Mutant of Named: any acknowledgement removes the oldest record.
NamedAny == queue # <<>>

\* acknowledge_sequence's test: the oldest record has the given number.
Named == queue # <<>> /\ Head(queue).sequence = Current.about

AckHandled ==
    /\ Receive("ready", {"ack"})
    /\ Named
    /\ Spool!AcknowledgeOldest
    /\ pending_count' = Len(queue')
    /\ Answer(Acked(TRUE))
    /\ UNCHANGED <<storage, first_of_boot, measured, historyVars>>

\* Mutant of AckStale: nobody is told.
AckStaleSilent ==
    /\ Receive("ready", {"ack"})
    /\ ~Named
    /\ UNCHANGED <<spoolVars, taskVars, clientVars, measured, historyVars>>

AckStale ==
    /\ Receive("ready", {"ack"})
    /\ ~Named
    /\ Answer(Acked(FALSE))
    /\ UNCHANGED <<spoolVars, taskVars, measured, historyVars>>

\* The acknowledgement entry cannot be written: the record stays.
AckFails ==
    /\ Trouble
    /\ Receive("ready", {"ack"})
    /\ Named
    /\ Answer(Error)
    /\ FlashDisturbed
    /\ UNCHANGED <<spoolVars, taskVars, measured, booted_at>>

\* The acknowledgement had to compact the log and that failed: the record has
\* left memory, the error is reported, and the count is not refreshed.
AckFailsPopped ==
    /\ Trouble
    /\ Receive("ready", {"ack"})
    /\ Named
    /\ Spool!AcknowledgeOldest
    /\ diverged' = "memory"
    /\ Answer(Error)
    /\ UNCHANGED <<taskVars, measured, booted_at>>

\* Without a backlog an append is dropped and every question gets an error.
AppendRefused ==
    /\ Receive("unavailable", {"append"})
    /\ UNCHANGED <<spoolVars, taskVars, clientVars, measured, historyVars>>

QuestionRefused ==
    /\ Receive("unavailable", {"peek", "ack"})
    /\ Answer(Error)
    /\ UNCHANGED <<spoolVars, taskVars, measured, historyVars>>

Handle ==
    \/ AppendHandled \/ AppendFails \/ AppendRefused
    \/ PeekHandled \/ QuestionRefused
    \/ AckHandled \/ AckStale \/ AckFails \/ AckFailsPopped

StorageTask == RecoverSucceeds \/ RecoverFails \/ Handle

-----------------------------------------------------------------------------
Idle == [c \in Clients |-> "idle"]
Empty == [c \in Clients |-> <<>>]
NoCommand == [c \in Clients |-> PeekBy(c)]

\* Reset or power loss: everything in memory is gone, the log is not.  What
\* recovery makes of a log that a failed write or a failed compaction disturbed
\* is the subject of FlashSpool.
RestartService ==
    /\ Trouble
    /\ diverged = "no"
    /\ storage' = "recovering"
    /\ first_of_boot' = 0
    /\ pending_count' = 0
    /\ requests' = <<>>
    /\ reply' = Empty
    /\ stage' = Idle
    /\ command' = NoCommand
    /\ held' = Empty
    /\ booted_at' = measured
    /\ UNCHANGED <<spoolVars, measured, diverged>>

InitService ==
    /\ Spool!Init
    /\ storage = "recovering"
    /\ first_of_boot = 0
    /\ pending_count = 0
    /\ requests = <<>>
    /\ reply = Empty
    /\ stage = Idle
    /\ command = NoCommand
    /\ held = Empty
    /\ measured = 0
    /\ booted_at = 0
    /\ diverged = "no"
    /\ troubles = 0

\* Clients that peek whenever they like and acknowledge what they hold.
AnyClient(c) ==
    \/ Ask(c, PeekBy(c))
    \/ held[c] # <<>> /\ Ask(c, AckBy(c, held[c][1].record.sequence))
    \/ Forget(c)

NextService ==
    \/ Measure
    \/ \E c \in Clients : AnyClient(c) \/ Send(c) \/ Take(c)
    \/ StorageTask
    \/ RestartService

\* The storage task waits for nothing but the next command.  A client that
\* waits for room gets it, since the task keeps emptying the channel and the
\* executor polls every task that was woken.
FairService ==
    /\ WF_serviceVars(StorageTask)
    /\ \A c \in Clients : SF_serviceVars(Send(c)) /\ WF_serviceVars(Take(c))

SpecService == InitService /\ [][NextService]_serviceVars /\ FairService

-----------------------------------------------------------------------------
(* Properties.                                                             *)

TypeService ==
    /\ queue \in Seq(Record) /\ Len(queue) <= Capacity
    /\ next_sequence \in Sequence
    /\ storage \in {"recovering", "ready", "unavailable"}
    /\ first_of_boot \in Sequence
    /\ pending_count \in 0 .. Capacity
    /\ requests \in Seq(Command) /\ Len(requests) <= ChannelCapacity
    /\ reply \in [Clients -> Seq(Response)]
    /\ stage \in [Clients -> {"idle", "sending", "waiting"}]
    /\ command \in [Clients -> Command]
    /\ held \in [Clients -> Seq(StoredPayload)]
    /\ measured \in 0 .. MaxMeasurements
    /\ booted_at \in 0 .. measured
    /\ diverged \in Divergence
    /\ troubles \in 0 .. MaxTroubles

InChannel(c) == {i \in DOMAIN requests : requests[i].from = c}

Answers(response, request) ==
    \/ response.kind = "error"
    \/ response.kind = "peeked" /\ request.op = "peek"
    \/ response.kind = "acked" /\ request.op = "ack"

\* A waiting client has its one command in the channel or the answer to that
\* very command in its signal, never both, and a client that does not wait
\* has neither: no answer is overwritten, lost or taken for another's.
OneOutstanding ==
    \A c \in Clients :
        IF stage[c] # "waiting" THEN InChannel(c) = {} /\ reply[c] = <<>>
        ELSE IF reply[c] = <<>>
               THEN \E i \in DOMAIN requests : InChannel(c) = {i} /\ requests[i] = command[c]
               ELSE InChannel(c) = {} /\ Answers(reply[c][1], command[c])

\* Measurements are kept in the order they were made, each at most once, from
\* the channel to the front of the spool, across restarts and lost records.
MeasurementOrder ==
    LET coming == {i \in DOMAIN requests : requests[i].op = "append"}
    IN  /\ \A i, j \in DOMAIN queue : i < j => queue[i].payload < queue[j].payload
        /\ \A i, j \in coming : i < j => requests[i].about < requests[j].about
        /\ \A i \in DOMAIN queue, j \in coming : queue[i].payload < requests[j].about

\* An acknowledgement removes nothing but the record its client peeked, though
\* the other client's acknowledgements and full-spool drops come in between
\* ("a stale Wi-Fi or BLE ACK does not delete a different oldest record").
AckRemovesHeld ==
    [][requests # <<>> /\ requests' = Tail(requests) /\ Current.op = "ack" /\ queue' # queue =>
        /\ queue' = Tail(queue)
        /\ held[Current.from] # <<>>
        /\ held[Current.from][1].record = Head(queue)]_serviceVars

\* The payloads that clients hold or are about to take.
Given ==
    (UNION {Range(held[c]) : c \in Clients})
        \cup UNION {UNION {Range(r.payload) : r \in Range(reply[c])} : c \in Clients}

\* A payload is marked as one of this boot exactly when it was measured since
\* the last restart: the mark decides whether it may get a wall-clock time.
CurrentBootExact ==
    \A payload \in Given : payload.current_boot <=> payload.record.payload > booted_at

\* The published number of pending records is right, but for a failed
\* compacting acknowledgement.
PendingCountExact == storage = "ready" /\ diverged # "memory" => pending_count = Len(queue)

\* Every question is answered, also when the storage is not available.
Answered == \A c \in Clients : stage[c] # "idle" ~> stage[c] = "idle"
=============================================================================
