--------------------------- MODULE RecordDelivery ---------------------------
(***************************************************************************)
(* A measurement on its way off the device: the storage service with its   *)
(* two real clients, the uploader, which posts the oldest record to the    *)
(* server and acknowledges it after a 2xx answer, and the BLE session,     *)
(* which hands the oldest record to a central fragment by fragment and     *)
(* acknowledges it when the central asks to and the ack policy lets it.    *)
(*                                                                         *)
(* A request may be lost, answered late or stored although the device gave *)
(* up on it; the network may go away; the device may restart at any time.  *)
(* The central is arbitrary: it may connect, ask, confirm and disconnect   *)
(* as it likes.  The server keeps the first record of a sequence number    *)
(* (keep_first, the default).                                              *)
(***************************************************************************)
EXTENDS StorageService

CONSTANTS
    Fragments,   \* a payload is this many fragments long
    MaxMishaps   \* bound: network and server faults in a behaviour

ASSUME DeliveryAssumption ==
    /\ Clients = {"wifi", "ble"}
    /\ Fragments \in Nat \ {0}
    /\ MaxMishaps \in Nat

VARIABLES
    wifi,        \* wifi task: the station is connected
    config_up,   \* the IP stack has a configuration
    online,      \* network_state is Connected or IpReady
    succeeded,   \* upload_result is Success
    upload,      \* where the uploader is in its loop
    wire,        \* requests on their way to the server
    answer,      \* the answer to the request the uploader waits on
    kept,        \* the records the server keeps
    mishaps,     \* history: number of faults, for MaxMishaps
    connected,   \* a central is connected
    delivered,   \* session: delivered_until, in fragments
    complete,    \* session: complete
    ack_sent,    \* session: ack_sent
    handed       \* history: fragments handed over since the last metadata request

uploadVars == <<wifi, config_up, online, succeeded, upload, wire, answer, kept, mishaps>>
sessionVars == <<connected, delivered, complete, ack_sent, handed>>
vars == <<serviceVars, uploadVars, sessionVars>>

-----------------------------------------------------------------------------
(* Wi-Fi and IP: wifi_task and the network stack.                          *)

NetworkStep == UNCHANGED <<serviceVars, succeeded, upload, wire, answer, kept, sessionVars>>

Mishap ==
    /\ mishaps < MaxMishaps
    /\ mishaps' = mishaps + 1

WifiConnects ==
    /\ ~wifi
    /\ wifi' = TRUE
    /\ online' = TRUE
    /\ UNCHANGED <<config_up, mishaps>>
    /\ NetworkStep

WifiDisconnects ==
    /\ wifi
    /\ Mishap
    /\ wifi' = FALSE
    /\ online' = FALSE
    /\ UNCHANGED config_up
    /\ NetworkStep

\* The stack learns of both a little later.
ConfigChanges ==
    /\ config_up # wifi
    /\ config_up' = wifi
    /\ UNCHANGED <<wifi, online, mishaps>>
    /\ NetworkStep

-----------------------------------------------------------------------------
(* uploader_task.                                                          *)

\* wait_config_up, then NetworkState::IpReady is published
LoopHead ==
    /\ upload = "network"
    /\ config_up
    /\ online' = TRUE
    /\ upload' = "prepare"
    /\ UNCHANGED <<serviceVars, wifi, config_up, succeeded, wire, answer, kept, mishaps, sessionVars>>

\* Discovery and time synchronisation, when they are due: a failure of either
\* is published and the loop goes on.
Prepare ==
    /\ upload = "prepare"
    /\ succeeded' \in {succeeded, FALSE}
    /\ Ask("wifi", PeekBy("wifi"))
    /\ upload' = "peek"
    /\ UNCHANGED <<wifi, config_up, online, wire, answer, kept, mishaps, sessionVars>>

PeekAnswered ==
    /\ upload = "peek"
    /\ Take("wifi")
    /\ upload' = IF held'["wifi"] = <<>> THEN "network" ELSE "post"
    /\ UNCHANGED <<wifi, config_up, online, succeeded, wire, answer, kept, mishaps, sessionVars>>

Posted == held["wifi"][1].record

PostSent ==
    /\ upload = "post"
    /\ wire' = wire \cup {Posted}
    /\ answer' = "none"
    /\ upload' = "answer"
    /\ UNCHANGED <<serviceVars, wifi, config_up, online, succeeded, kept, mishaps, sessionVars>>

\* A failure is published and the uploader starts over after a delay.
UploadFailed ==
    /\ succeeded' = FALSE
    /\ upload' = "network"
    /\ answer' = "none"
    /\ UNCHANGED <<wifi, config_up, online, kept, sessionVars>>

\* Connecting or writing fails, or the answer does not come in time: the
\* request may reach the server all the same.
PostAbandoned ==
    /\ upload \in {"post", "answer"}
    /\ answer = "none"
    /\ Mishap
    /\ UploadFailed
    /\ UNCHANGED <<wire, serviceVars>>

\* The answer to a lost request does not come in time.
PostTimesOut ==
    /\ upload = "answer"
    /\ answer = "none"
    /\ Posted \notin wire
    /\ UploadFailed
    /\ UNCHANGED <<wire, serviceVars, mishaps>>

PostRefused ==
    /\ upload = "answer"
    /\ answer = "refused"
    /\ UploadFailed
    /\ UNCHANGED <<wire, serviceVars, mishaps>>

\* Mutant of PostAccepted: any answer is taken for a success.
PostAcceptedAnyAnswer ==
    /\ upload = "answer"
    /\ answer # "none"
    /\ Ask("wifi", AckBy("wifi", Posted.sequence))
    /\ upload' = "ack"
    /\ answer' = "none"
    /\ UNCHANGED <<wifi, config_up, online, succeeded, wire, kept, mishaps, sessionVars>>

PostAccepted ==
    /\ upload = "answer"
    /\ answer = "stored"
    /\ Ask("wifi", AckBy("wifi", Posted.sequence))
    /\ upload' = "ack"
    /\ answer' = "none"
    /\ UNCHANGED <<wifi, config_up, online, succeeded, wire, kept, mishaps, sessionVars>>

\* Mutant of AckAnswered: the uploader stops after its first success.
AckAnsweredLast ==
    /\ upload = "ack"
    /\ Take("wifi")
    /\ succeeded' = TRUE
    /\ upload' = "ack"
    /\ UNCHANGED <<wifi, config_up, online, wire, answer, kept, mishaps, sessionVars>>

\* Success is published whether the record was still there or not.
AckAnswered ==
    /\ upload = "ack"
    /\ Take("wifi")
    /\ succeeded' = TRUE
    /\ upload' = "network"
    /\ UNCHANGED <<wifi, config_up, online, wire, answer, kept, mishaps, sessionVars>>

Uploader ==
    \/ LoopHead \/ Prepare \/ PeekAnswered
    \/ PostSent \/ PostTimesOut \/ PostRefused \/ PostAccepted
    \/ AckAnswered

-----------------------------------------------------------------------------
(* The server and the way to it.                                           *)

KeepFirst(r) ==
    IF \E k \in kept : k.sequence = r.sequence THEN kept ELSE kept \cup {r}

\* What the device hears of the handling of r, if it still waits for it.
Heard(r, outcome) ==
    answer' = IF upload = "answer" /\ Posted = r THEN outcome ELSE answer

ServerStores(r) ==
    /\ r \in wire
    /\ wire' = wire \ {r}
    /\ kept' = KeepFirst(r)
    /\ Heard(r, "stored")
    /\ UNCHANGED <<serviceVars, wifi, config_up, online, succeeded, upload, mishaps, sessionVars>>

\* A non-2xx answer; one of the server's stores may have the record.
ServerRefuses(r) ==
    /\ r \in wire
    /\ Mishap
    /\ wire' = wire \ {r}
    /\ kept' \in {kept, KeepFirst(r)}
    /\ Heard(r, "refused")
    /\ UNCHANGED <<serviceVars, wifi, config_up, online, succeeded, upload, sessionVars>>

RequestLost(r) ==
    /\ r \in wire
    /\ Mishap
    /\ wire' = wire \ {r}
    /\ UNCHANGED <<serviceVars, wifi, config_up, online, succeeded, upload, answer, kept,
                   sessionVars>>

-----------------------------------------------------------------------------
(* The BLE session: run_gatt_connection handles one event after the other, *)
(* an authorized central's control write or a disconnect.                  *)

Free == connected /\ stage["ble"] = "idle"
Session == Free /\ held["ble"] # <<>>

FreshSession ==
    /\ delivered' = 0
    /\ complete' = FALSE
    /\ ack_sent' = FALSE
    /\ handed' = {}

BleConnects ==
    /\ ~connected
    /\ connected' = TRUE
    /\ UNCHANGED <<delivered, complete, ack_sent, handed, serviceVars, uploadVars>>

\* Mutant of BleDisconnects: it does not wait for the handler in progress.
BleDisconnectsAtOnce ==
    /\ connected
    /\ connected' = FALSE
    /\ FreshSession
    /\ held' = [held EXCEPT !["ble"] = <<>>]
    /\ stage' = [stage EXCEPT !["ble"] = "idle"]
    /\ UNCHANGED <<spoolVars, taskVars, requests, reply, command, measured, historyVars, uploadVars>>

BleDisconnects ==
    /\ Free
    /\ connected' = FALSE
    /\ FreshSession
    /\ held' = [held EXCEPT !["ble"] = <<>>]
    /\ UNCHANGED <<spoolVars, taskVars, requests, reply, stage, command, measured, historyVars,
                   uploadVars>>

RequestMetadata ==
    /\ Free
    /\ Ask("ble", PeekBy("ble"))
    /\ UNCHANGED <<sessionVars, uploadVars>>

\* start_record, or reset_after_disconnect when nothing is pending
MetadataAnswered ==
    /\ command["ble"].op = "peek"
    /\ Take("ble")
    /\ FreshSession
    /\ UNCHANGED <<connected, uploadVars>>

\* Mutant of InOrder: a fragment ahead of what was delivered is handed over.
InOrderAny(offset) == offset <= Fragments

\* FragmentOutOfBounds and FragmentOutOfOrder
InOrder(offset) == offset <= Fragments /\ offset <= delivered

RequestFragment(offset, length) ==
    LET end == IF offset + length < Fragments THEN offset + length ELSE Fragments IN
    /\ Session
    /\ InOrder(offset)
    /\ delivered' = IF end > delivered THEN end ELSE delivered
    /\ handed' = handed \cup offset .. end - 1
    /\ UNCHANGED <<connected, complete, ack_sent, serviceVars, uploadVars>>

CompleteRecord ==
    /\ Session
    /\ delivered = Fragments
    /\ complete' = TRUE
    /\ UNCHANGED <<connected, delivered, ack_sent, handed, serviceVars, uploadVars>>

CopyOnly == online /\ succeeded

AckRecord ==
    /\ Session
    /\ complete
    /\ ~CopyOnly
    /\ ~ack_sent
    /\ ack_sent' = TRUE
    /\ Ask("ble", AckBy("ble", held["ble"][1].record.sequence))
    /\ UNCHANGED <<connected, delivered, complete, handed, uploadVars>>

AckRecordAnswered ==
    /\ command["ble"].op = "ack"
    /\ Take("ble")
    /\ UNCHANGED <<sessionVars, uploadVars>>

Central ==
    \/ BleConnects \/ BleDisconnects
    \/ RequestMetadata
    \/ \E offset \in 0 .. Fragments, length \in 1 .. Fragments : RequestFragment(offset, length)
    \/ CompleteRecord \/ AckRecord

BleAnswered == MetadataAnswered \/ AckRecordAnswered

-----------------------------------------------------------------------------
\* A restart of the device; what is on the wire and on the server stays.
Restart ==
    /\ RestartService
    /\ wifi' = FALSE
    /\ config_up' = FALSE
    /\ online' = FALSE
    /\ succeeded' = FALSE
    /\ upload' = "network"
    /\ answer' = "none"
    /\ connected' = FALSE
    /\ FreshSession
    /\ UNCHANGED <<wire, kept, mishaps>>

\* A step of the storage service by itself.
ServiceStep(A) == A /\ UNCHANGED <<uploadVars, sessionVars>>

Init ==
    /\ InitService
    /\ wifi = FALSE /\ config_up = FALSE /\ online = FALSE
    /\ succeeded = FALSE
    /\ upload = "network"
    /\ wire = {} /\ answer = "none" /\ kept = {} /\ mishaps = 0
    /\ connected = FALSE
    /\ delivered = 0 /\ complete = FALSE /\ ack_sent = FALSE
    /\ handed = {}

Next ==
    \/ ServiceStep(Measure)
    \/ ServiceStep(StorageTask)
    \/ \E c \in Clients : ServiceStep(Send(c))
    \/ WifiConnects \/ WifiDisconnects \/ ConfigChanges
    \/ Uploader \/ PostAbandoned
    \/ \E r \in wire : ServerStores(r) \/ ServerRefuses(r) \/ RequestLost(r)
    \/ Central \/ BleAnswered
    \/ Restart

\* The tasks run; Wi-Fi comes back, the stack follows it and the server
\* handles what reaches it.  Nothing is asked of the central.
Fairness ==
    /\ WF_vars(ServiceStep(StorageTask))
    /\ \A c \in Clients : SF_vars(ServiceStep(Send(c)))
    /\ WF_vars(WifiConnects) /\ WF_vars(ConfigChanges)
    /\ WF_vars(Uploader)
    /\ WF_vars(\E r \in wire : ServerStores(r))
    /\ WF_vars(BleAnswered)

Spec == Init /\ [][Next]_vars /\ Fairness

-----------------------------------------------------------------------------
(* Properties.                                                             *)

\* The server answered for r: it keeps that very measurement or, when restarts
\* forget the numbering, an earlier one that it knew under r's number.
AnsweredFor(r) ==
    \E k \in kept : /\ k.sequence = r.sequence
                   /\ k.payload <= r.payload
                   /\ ~MayForget => k = r

\* A record is acknowledged out of the spool only when the server has answered
\* for it or the central was handed every byte of it
\* (docs/10-firmware/00-architecture.md: "A record is removed from the spool
\* only after Wi-Fi upload returns HTTP 2xx, or after BLE upload receives
\* authorized-central complete-record confirmation").
RemovedOnlyDelivered ==
    [][requests # <<>> /\ requests' = Tail(requests) /\ Current.op = "ack" /\ queue' # queue =>
        \/ AnsweredFor(Head(queue))
        \/ Current.from = "ble" /\ handed = 0 .. Fragments - 1]_vars

\* The uploader and the BLE session are clients as StorageService takes them
\* to be: one question at a time, an acknowledgement only of what they hold,
\* never walking away from an answer.
ImplementsService == InitService /\ [][NextService]_serviceVars

\* Every record gets off the device once the faults stop, whatever the
\* central does, unless the storage cannot be recovered: no retry, late
\* answer, stale acknowledgement or full channel stops the uploader for good.
EventuallyDrained == queue # <<>> ~> queue = <<>> \/ storage = "unavailable"
=============================================================================
