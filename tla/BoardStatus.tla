----------------------------- MODULE BoardStatus -----------------------------
(***************************************************************************)
(* How the device tells that something is wrong: the sampling tasks, the   *)
(* aggregator and the storage task raise error flags, which reach the      *)
(* status LED over a signal that keeps the latest value only, and the      *)
(* status a BLE central reads over a mutex that three tasks write.  The    *)
(* LED shows them unless BLE has something to indicate.                    *)
(*                                                                         *)
(* A signal is the set of the value it holds: empty, or one value.  A      *)
(* sample is its error flags, since a value is missing when its flag is    *)
(* set.  Time is counted in ticks of the LED task (100 ms).                *)
(***************************************************************************)
EXTENDS Naturals

CONSTANTS
    Boots,            \* the sets of tasks a boot may manage to start
    RequestCapacity,  \* REQUEST_CAPACITY
    BootTicks,        \* BLE_BOOT_STATUS_WINDOW_SECS
    TriggerTicks,     \* BLE_TRIGGER_STATUS_WINDOW_SECS
    Results,          \* the upload results published
    Runtimes,         \* the states of the BLE runtime published
    MaxEvents         \* bound: changes the environment makes in a behaviour

\* Tasks that may fail to start; "wifi" stands for the tasks of the upload.
Task == {"sensor", "mic", "storage", "wifi", "pairing"}

UploadResult == {"Idle", "Success", "Failed", "DiscoveryFailed", "TimeFailed",
                 "TransportFailed", "HttpFailed"}
RuntimeState == {"Disabled", "Idle", "Advertising", "Connected", "Error"}

ASSUME BoardAssumption ==
    /\ Boots \subseteq SUBSET Task
    /\ RequestCapacity \in Nat \ {0}
    /\ BootTicks \in Nat
    /\ TriggerTicks \in Nat
    /\ Results \subseteq UploadResult
    /\ Runtimes \subseteq RuntimeState
    /\ MaxEvents \in Nat

VARIABLES
    started,        \* the tasks that run
    broken,         \* the sensors whose reads fail
    storage_fails,  \* flash calls fail
    backlog,        \* the storage task's: opening, open, lost or without a driver
    env_samples,    \* signal
    mic_samples,    \* signal
    aggregator,     \* what the aggregator waits for
    latest_env,     \* flags of the latest sample of the I2C sensors
    requests,       \* measurements in the request channel
    error_flags,    \* signal
    status,         \* error_flags of the firmware status snapshot
    upload_result,  \* signal
    ble_runtime,    \* signal
    button,         \* what the pairing task has published last
    pairing,        \* signal
    led,            \* the LED task
    settled,        \* a tick has come since the last window was worked off
    unseen,         \* history: the LED has not yet got the last append failure
    events          \* history: changes made by the environment, for MaxEvents

samplingVars == <<started, broken, env_samples, mic_samples, aggregator, latest_env>>
ledVars == <<upload_result, ble_runtime, button, pairing, led>>
vars == <<samplingVars, storage_fails, backlog, requests, error_flags, status,
          ledVars, settled, unseen, events>>

-----------------------------------------------------------------------------
(* Flags and patterns (types.rs, util/status.rs).                          *)

EnvFlags == {"SHT40", "OPT3001"}
SensorMask == EnvFlags \union {"MIC"}
UploadMask == {"UPLOAD", "TRANSPORT", "HTTP"}
NetworkMask == {"DISCOVERY"}
ErrorFlag == SensorMask \union UploadMask \union NetworkMask \union {"STORAGE", "TIME"}

PairingStatus == [open : BOOLEAN, pressed : BOOLEAN]

ResultFlags(result) ==
    CASE result \in {"Idle", "Success"}  -> {}
      [] result = "Failed"               -> {"UPLOAD"}
      [] result = "DiscoveryFailed"      -> {"DISCOVERY"}
      [] result = "TimeFailed"           -> {"TIME"}
      [] result = "TransportFailed"      -> {"UPLOAD", "TRANSPORT"}
      [] result = "HttpFailed"           -> {"UPLOAD", "HTTP"}

\* status_to_leds; the hint that Wi-Fi is not ready is configured off.
StatusPattern(flags) ==
    CASE flags \intersect SensorMask # {}                            -> "FastBlink"
      [] flags \intersect ({"STORAGE", "TIME"} \union UploadMask) # {} -> "On"
      [] flags \intersect NetworkMask # {}                           -> "SlowBlink"
      [] OTHER                                                       -> "Off"

\* ble_status_to_led, while there is something to indicate
BlePattern(runtime, open) ==
    CASE open                                  -> "FastBlink"
      [] runtime \in {"Advertising", "Connected"} -> "SlowBlink"
      [] runtime = "Error"                     -> "On"
      [] OTHER                                 -> "Off"

\* try_take, with the value to keep if there is none
Taken(signal, latest) == IF signal = {} THEN latest ELSE CHOOSE value \in signal : TRUE

-----------------------------------------------------------------------------
(* Boot: main runs up to its idle loop before any other task does.         *)

\* A plausible bug: a missing sensor task is reported to the LED only.
NoFirstEnvSample(tasks) == {}

\* The sample of a sensor task that could not be started.
FirstEnvSample(tasks) == IF "sensor" \in tasks THEN {} ELSE {EnvFlags}

FirstMicSample(tasks) == IF "mic" \in tasks THEN {} ELSE {{"MIC"}}

\* The signal keeps what was reported last.
FirstErrorFlags(tasks) ==
    CASE "mic" \notin tasks    -> {{"MIC"}}
      [] "sensor" \notin tasks -> {EnvFlags}
      [] OTHER                 -> {}

LedAtBoot ==
    [flags |-> {}, upload |-> "Idle", runtime |-> "Disabled",
     pairing |-> [open |-> FALSE, pressed |-> FALSE], remaining |-> BootTicks,
     pattern |-> "Off", overlay |-> FALSE, age |-> 0, since |-> TriggerTicks]

Init ==
    /\ started \in Boots
    /\ broken = {}
    /\ storage_fails \in BOOLEAN
    /\ backlog = "opening"
    /\ env_samples = FirstEnvSample(started)
    /\ mic_samples = FirstMicSample(started)
    /\ aggregator = "env"
    /\ latest_env = {}
    /\ requests = 0
    /\ error_flags = FirstErrorFlags(started)
    /\ status = {}
    /\ upload_result = IF "wifi" \in started THEN {} ELSE {"Failed"}
    /\ ble_runtime = {}
    /\ button = [open |-> FALSE, pressed |-> FALSE]
    /\ pairing = {}
    /\ led = LedAtBoot
    /\ settled = FALSE
    /\ unseen = FALSE
    /\ events = 0

-----------------------------------------------------------------------------
(* Sampling and aggregation.                                               *)

\* read_env_sample reads either sensor whatever the other answered.
SensorSample ==
    /\ "sensor" \in started
    /\ env_samples' = {broken \intersect EnvFlags}
    /\ UNCHANGED <<started, broken, mic_samples, aggregator, latest_env, storage_fails,
                   backlog, requests, error_flags, status, ledVars, settled, unseen, events>>

\* A window takes at least ten ticks, in which everything woken by the one
\* before it has run; the first sample of the sensors comes before its end.
MicWindow ==
    /\ "mic" \in started
    /\ settled
    /\ mic_samples' = {broken \intersect {"MIC"}}
    /\ settled' = FALSE
    /\ UNCHANGED <<started, broken, env_samples, aggregator, latest_env, storage_fails,
                   backlog, requests, error_flags, status, ledVars, unseen, events>>

FirstEnv ==
    /\ aggregator = "env"
    /\ env_samples # {}
    /\ latest_env' = Taken(env_samples, latest_env)
    /\ env_samples' = {}
    /\ aggregator' = "mic"
    /\ UNCHANGED <<started, broken, mic_samples, storage_fails, backlog, requests,
                   error_flags, status, ledVars, settled, unseen, events>>

\* A plausible bug: the flags of one of the samples win.
EnvFirst(env, mic) == IF env = {} THEN mic ELSE env

\* merge_measurement, as far as flags go
Merged(env, mic) == env \union mic

\* One turn of the aggregator: flags replace those in signal and snapshot.
Measure ==
    /\ aggregator = "mic"
    /\ mic_samples # {}
    /\ LET env == Taken(env_samples, latest_env)
           stored == requests < RequestCapacity
           flags == Merged(env, Taken(mic_samples, {}))
                      \union (IF stored THEN {} ELSE {"STORAGE"})
       IN  /\ latest_env' = env
           /\ requests' = IF stored THEN requests + 1 ELSE requests
           /\ error_flags' = {flags}
           /\ status' = flags
    /\ env_samples' = {}
    /\ mic_samples' = {}
    /\ UNCHANGED <<started, broken, aggregator, storage_fails, backlog, ledVars,
                   settled, unseen, events>>

-----------------------------------------------------------------------------
(* The storage task, as far as flags go.                                   *)

\* A plausible bug: the signal is left alone while it holds something.
SignalIfFree ==
    /\ error_flags' = IF error_flags = {} THEN {{"STORAGE"}} ELSE error_flags
    /\ status' = status \union {"STORAGE"}

\* publish_storage_error
PublishStorageError ==
    /\ error_flags' = {{"STORAGE"}}
    /\ status' = status \union {"STORAGE"}

StorageFails == storage_fails \/ backlog \in {"lost", "no driver"}

\* RomSpoolFlash::new and recover: after a failure of either every append fails.
OpenStorage ==
    /\ "storage" \in started
    /\ backlog = "opening"
    /\ IF storage_fails
       THEN backlog' \in {"lost", "no driver"} /\ PublishStorageError
       ELSE backlog' = "open" /\ UNCHANGED <<error_flags, status>>
    /\ UNCHANGED <<samplingVars, storage_fails, requests, ledVars, settled, unseen, events>>

StoreMeasurement ==
    /\ "storage" \in started
    /\ backlog # "opening"
    /\ requests > 0
    /\ requests' = requests - 1
    /\ IF StorageFails
       THEN PublishStorageError /\ unseen' = TRUE
       ELSE UNCHANGED <<error_flags, status, unseen>>
    /\ UNCHANGED <<samplingVars, storage_fails, backlog, ledVars, settled, events>>

\* An acknowledgement of a client fails; without a driver it is answered with
\* an error and nothing is published.
AckFails ==
    /\ "storage" \in started
    /\ backlog \in {"open", "lost"} /\ StorageFails
    /\ PublishStorageError
    /\ UNCHANGED <<samplingVars, storage_fails, backlog, requests, ledVars, settled,
                   unseen, events>>

-----------------------------------------------------------------------------
(* What BLE, the uploader and the button have to show.                     *)

Event ==
    /\ events < MaxEvents
    /\ events' = events + 1

StatusStep ==
    UNCHANGED <<samplingVars, storage_fails, backlog, requests, error_flags, status,
                settled, unseen>>

\* publish_upload_result
PublishUploadResult(result) ==
    /\ "wifi" \in started
    /\ Event
    /\ upload_result' = {result}
    /\ UNCHANGED <<ble_runtime, button, pairing, led>>
    /\ StatusStep

\* set_gatt_status
PublishRuntime(runtime) ==
    /\ Event
    /\ ble_runtime' = {runtime}
    /\ UNCHANGED <<upload_result, button, pairing, led>>
    /\ StatusStep

\* A poll of the pairing task publishes what it finds, changed or not.
PublishPairing(found) ==
    /\ "pairing" \in started
    /\ IF found = button THEN UNCHANGED events ELSE Event
    /\ button' = found
    /\ pairing' = {found}
    /\ UNCHANGED <<upload_result, ble_runtime, led>>
    /\ StatusStep

\* A plausible bug: every published status starts the window anew.
AlwaysExtended(remaining, now) == IF TriggerTicks > remaining THEN TriggerTicks ELSE remaining

\* update_ble_indication_until_millis, counted from now
Extended(remaining, now) ==
    IF (now.pressed \/ now.open) /\ TriggerTicks > remaining THEN TriggerTicks ELSE remaining

Less(n) == IF n = 0 THEN 0 ELSE n - 1

\* Nothing is left to do for the tasks a window or a sample wakes.
Quiet ==
    /\ aggregator = "mic" /\ mic_samples = {}
    /\ "storage" \in started => backlog # "opening" /\ requests = 0

\* One turn of status_task.  age and since are history: ticks since boot, and
\* since the task last got a status with the button pressed or the window open.
Tick ==
    LET flags == Taken(error_flags, led.flags)
        upload == Taken(upload_result, led.upload)
        runtime == Taken(ble_runtime, led.runtime)
        now == Taken(pairing, led.pairing)
        until == IF pairing = {} THEN led.remaining ELSE Extended(led.remaining, now)
        overlay == until > 0 \/ now.open
        trigger == pairing # {} /\ (now.pressed \/ now.open)
    IN  /\ led' = [flags |-> flags, upload |-> upload, runtime |-> runtime, pairing |-> now,
                   remaining |-> Less(until), overlay |-> overlay,
                   pattern |-> IF overlay THEN BlePattern(runtime, now.open)
                               ELSE StatusPattern(flags \union ResultFlags(upload)),
                   age |-> IF led.age < BootTicks + 1 THEN led.age + 1 ELSE led.age,
                   since |-> IF trigger THEN 0
                             ELSE IF led.since < TriggerTicks THEN led.since + 1 ELSE led.since]
        /\ unseen' = (unseen /\ "STORAGE" \notin flags)
        /\ settled' = (settled \/ Quiet)
        /\ error_flags' = {} /\ upload_result' = {} /\ ble_runtime' = {} /\ pairing' = {}
        /\ UNCHANGED <<samplingVars, storage_fails, backlog, requests, status, button, events>>

-----------------------------------------------------------------------------
(* The hardware.                                                           *)

SensorChanges(sensor) ==
    /\ Event
    /\ broken' = IF sensor \in broken THEN broken \ {sensor} ELSE broken \union {sensor}
    /\ UNCHANGED <<started, env_samples, mic_samples, aggregator, latest_env, storage_fails,
                   backlog, requests, error_flags, status, ledVars, settled, unseen>>

FlashChanges ==
    /\ Event
    /\ storage_fails' = ~storage_fails
    /\ UNCHANGED <<samplingVars, backlog, requests, error_flags, status, ledVars,
                   settled, unseen>>

Next ==
    \/ SensorSample \/ MicWindow \/ FirstEnv \/ Measure
    \/ OpenStorage \/ StoreMeasurement \/ AckFails
    \/ \E result \in Results : PublishUploadResult(result)
    \/ \E runtime \in Runtimes : PublishRuntime(runtime)
    \/ \E found \in PairingStatus : PublishPairing(found)
    \/ Tick
    \/ \E sensor \in SensorMask : SensorChanges(sensor)
    \/ FlashChanges

\* The tasks run whenever their timer or signal is due.
Fairness ==
    /\ WF_vars(SensorSample) /\ WF_vars(MicWindow) /\ WF_vars(FirstEnv) /\ WF_vars(Measure)
    /\ WF_vars(OpenStorage) /\ WF_vars(StoreMeasurement)
    /\ WF_vars(PublishPairing(button)) /\ WF_vars(Tick)

Spec == Init /\ [][Next]_vars /\ Fairness

-----------------------------------------------------------------------------
(* Properties.                                                             *)

\* BLE has the LED in the window after boot, for the promised time after the
\* task was told of a press or an open window, and while the window is open, but
\* not one tick longer: then the LED is back to the state of the board.
OverlayExact ==
    led.age > 0 =>
        (led.overlay <=> \/ led.age =< BootTicks
                         \/ led.since < TriggerTicks
                         \/ led.pairing.open)

\* The signal still holds the news of a failed append, which nobody else
\* reports to the LED, until the LED takes it.
AppendFailureSeen == unseen => "STORAGE" \in UNION error_flags

\* The aggregator goes on measuring whatever sensors and flash do, and whatever
\* else has not started, if only the microphone task runs.
MeasuringGoesOn == "mic" \in started => []<><<Measure>>_vars

\* What is wrong with the sensors, as the aggregator can know it.
Faults == broken \union (IF "sensor" \in started THEN {} ELSE EnvFlags)

Stores == "storage" \in started /\ ~StorageFails

\* When nothing changes any more and storage works, snapshot and LED name
\* exactly what is wrong: no fault is lost, none is shown that is over; and once
\* the button is left alone the LED blinks fast for a sensor, and for nothing
\* else.  While storage fails, both name it again and again, and the snapshot
\* keeps naming the sensors, whose flags storage errors replace in the signal.
StatusSettles ==
    "mic" \in started =>
        /\ <>[]Stores => <>[](status = Faults /\ led.flags = Faults)
        /\ <>[]Stores /\ <>[](~button.pressed /\ ~button.open) =>
               <>[](led.pattern = "FastBlink" <=> Faults # {})
        /\ <>[]~Stores => /\ []<>("STORAGE" \in status)
                          /\ []<>("STORAGE" \in led.flags)
                          /\ <>[](Faults \subseteq status)
===============================================================================
