------------------------- MODULE BoardStatus_proofs -------------------------
(***************************************************************************)
(* The news of a failed append reaches the LED, and BLE has the LED for    *)
(* exactly as long as it should, for every window, every set of tasks that *)
(* start and however often sensors, flash, button and radio change.        *)
(***************************************************************************)
EXTENDS BoardStatus, TLAPS

-----------------------------------------------------------------------------
(* Failed appends.                                                         *)

\* A signal holds one value.
OneValue == \A flags, others \in error_flags : flags = others

\* A measurement is stored, and the aggregator sleeps again, before the next
\* window ends: so nothing is overwritten that the LED has not taken.
WindowInv ==
    /\ mic_samples # {} => ~settled
    /\ "storage" \in started /\ requests > 0 => mic_samples = {} /\ ~settled
    /\ unseen => mic_samples = {} /\ ~settled

SeenInv ==
    /\ requests \in Nat
    /\ OneValue
    /\ WindowInv
    /\ AppendFailureSeen

seenVars == <<started, mic_samples, requests, error_flags, settled, unseen>>

LEMMA SeenKept == SeenInv /\ UNCHANGED seenVars => SeenInv'
<1>. SUFFICES ASSUME SeenInv, UNCHANGED seenVars PROVE SeenInv'
  OBVIOUS
<1>1. requests' \in Nat /\ OneValue'
  BY Zenon DEF SeenInv, OneValue, seenVars
<1>2. WindowInv' /\ AppendFailureSeen'
  BY Zenon DEF SeenInv, WindowInv, AppendFailureSeen, seenVars
<1>. QED BY <1>1, <1>2, Zenon DEF SeenInv

LEMMA SeenInit == Init => SeenInv
<1>. SUFFICES ASSUME Init PROVE SeenInv
  OBVIOUS
<1>1. requests = 0 /\ ~settled /\ ~unseen /\ error_flags = FirstErrorFlags(started)
  BY Zenon DEF Init
<1>2. OneValue
  <2>1. \/ FirstErrorFlags(started) = {}
        \/ \E flags : FirstErrorFlags(started) = {flags}
    <3>1. \/ FirstErrorFlags(started) = {{"MIC"}}
          \/ FirstErrorFlags(started) = {EnvFlags}
          \/ FirstErrorFlags(started) = {}
      BY DEF FirstErrorFlags
    <3>. QED BY <3>1, Zenon
  <2>. QED BY <1>1, <2>1, Zenon DEF OneValue
<1>3. requests \in Nat /\ ~(requests > 0)
  BY <1>1
<1>. QED BY <1>1, <1>2, <1>3, Zenon DEF SeenInv, WindowInv, AppendFailureSeen

\* Publishing a storage error does no harm to an older one.
LEMMA SeenPublished ==
    ASSUME SeenInv, PublishStorageError, UNCHANGED <<started, mic_samples, settled>>,
           requests' \in Nat, requests' > 0 => requests > 0,
           unseen' => unseen \/ (mic_samples = {} /\ ~settled)
    PROVE  SeenInv'
<1>1. error_flags' = {{"STORAGE"}}
  BY Zenon DEF PublishStorageError
<1>2. "STORAGE" \in UNION error_flags' /\ OneValue'
  BY <1>1, Zenon DEF OneValue
<1>. QED BY <1>2, Zenon DEF SeenInv, WindowInv, AppendFailureSeen

LEMMA SeenStep == SeenInv /\ [Next]_vars => SeenInv'
<1>. SUFFICES ASSUME SeenInv, [Next]_vars PROVE SeenInv'
  OBVIOUS
<1>0. requests \in Nat
  BY Zenon DEF SeenInv
<1>1. CASE SensorSample \/ FirstEnv
  BY <1>1, SeenKept, Zenon DEF SensorSample, FirstEnv, seenVars
<1>2. CASE MicWindow
  <2>1. /\ settled /\ ~settled'
        /\ UNCHANGED <<started, requests, error_flags, unseen>>
    BY <1>2, Zenon DEF MicWindow
  <2>. QED BY <2>1, Zenon DEF SeenInv, OneValue, WindowInv, AppendFailureSeen
<1>3. CASE Measure
  <2>1. /\ mic_samples # {} /\ mic_samples' = {}
        /\ UNCHANGED <<started, settled, unseen>>
    BY <1>3, Zenon DEF Measure
  <2>2. ~unseen /\ ~settled
    BY <2>1, Zenon DEF SeenInv, WindowInv
  <2>3. requests' = requests + 1 \/ requests' = requests
    BY <1>3, Zenon DEF Measure
  <2>4. requests' \in Nat
    BY <1>0, <2>3
  <2>5. \E flags : error_flags' = {flags}
    BY <1>3, Zenon DEF Measure
  <2>6. OneValue'
    BY <2>5, Zenon DEF OneValue
  <2>. QED BY <2>1, <2>2, <2>4, <2>6, Zenon DEF SeenInv, WindowInv, AppendFailureSeen
<1>4. CASE OpenStorage
  <2>1. UNCHANGED <<started, mic_samples, requests, settled, unseen>>
    BY <1>4, Zenon DEF OpenStorage, samplingVars
  <2>2. PublishStorageError \/ UNCHANGED error_flags
    BY <1>4, Zenon DEF OpenStorage
  <2>. QED BY <1>0, <2>1, <2>2, SeenPublished, SeenKept, Zenon DEF seenVars
<1>5. CASE StoreMeasurement
  <2>1. /\ "storage" \in started /\ requests > 0 /\ requests' = requests - 1
        /\ UNCHANGED <<started, mic_samples, settled>>
        /\ \/ PublishStorageError
           \/ UNCHANGED <<error_flags, unseen>>
    BY <1>5, Zenon DEF StoreMeasurement, samplingVars
  <2>2. requests' \in Nat
    BY <1>0, <2>1
  <2>3. mic_samples = {} /\ ~settled
    BY <2>1, Zenon DEF SeenInv, WindowInv
  <2>4. CASE PublishStorageError
    BY <2>1, <2>2, <2>3, <2>4, SeenPublished, Zenon
  <2>5. CASE UNCHANGED <<error_flags, unseen>>
    BY <2>1, <2>2, <2>3, <2>5, Zenon DEF SeenInv, OneValue, WindowInv, AppendFailureSeen
  <2>. QED BY <2>1, <2>4, <2>5, Zenon
<1>6. CASE AckFails
  BY <1>0, <1>6, SeenPublished, Zenon DEF AckFails, samplingVars
<1>7. CASE \/ \E result \in Results : PublishUploadResult(result)
           \/ \E runtime \in Runtimes : PublishRuntime(runtime)
           \/ \E found \in PairingStatus : PublishPairing(found)
  <2>1. StatusStep
    BY <1>7, Zenon DEF PublishUploadResult, PublishRuntime, PublishPairing
  <2>. QED BY <2>1, SeenKept, Zenon DEF StatusStep, samplingVars, seenVars
<1>8. CASE Tick
  <2>1. /\ UNCHANGED <<started, mic_samples, requests>>
        /\ error_flags' = {}
        /\ settled' = (settled \/ Quiet)
        /\ unseen' = (unseen /\ "STORAGE" \notin Taken(error_flags, led.flags))
    BY <1>8, Zenon DEF Tick, samplingVars
  <2>2. ASSUME unseen PROVE "STORAGE" \in Taken(error_flags, led.flags)
    <3>1. PICK flags \in error_flags : "STORAGE" \in flags
      BY <2>2, Zenon DEF SeenInv, AppendFailureSeen
    <3>2. Taken(error_flags, led.flags) \in error_flags
      BY <3>1, Zenon DEF Taken
    <3>. QED BY <3>1, <3>2, Zenon DEF SeenInv, OneValue
  <2>3. ~unseen'
    BY <2>1, <2>2, Zenon
  <2>4. Quiet => mic_samples = {} /\ ("storage" \in started => requests = 0)
    BY Zenon DEF Quiet
  <2>5. Quiet => ~("storage" \in started /\ requests > 0)
    BY <1>0, <2>4
  <2>6. WindowInv'
    BY <2>1, <2>3, <2>4, <2>5, Zenon DEF SeenInv, WindowInv
  <2>. QED BY <1>0, <2>1, <2>3, <2>6, Zenon DEF SeenInv, OneValue, AppendFailureSeen
<1>9. CASE (\E sensor \in SensorMask : SensorChanges(sensor)) \/ FlashChanges
  BY <1>9, SeenKept, Zenon DEF SensorChanges, FlashChanges, samplingVars, seenVars
<1>10. CASE UNCHANGED vars
  BY <1>10, SeenKept, Zenon DEF vars, samplingVars, seenVars
<1>. QED BY <1>1, <1>2, <1>3, <1>4, <1>5, <1>6, <1>7, <1>8, <1>9, <1>10, Zenon DEF Next

\* The storage error of a lost measurement is not overwritten before the status
\* task takes it (publish_storage_error, publish_error_flags).
THEOREM FailureReachesLed == Spec => []AppendFailureSeen
<1>1. SeenInv => AppendFailureSeen
  BY Zenon DEF SeenInv
<1>. QED BY <1>1, SeenInit, SeenStep, PTL DEF Spec

-----------------------------------------------------------------------------
(* The overlay.                                                            *)

\* What is left of a window of so many ticks, after some.
Left(window, ticks) == IF ticks < window THEN window - ticks ELSE 0

\* What remains is the longer of what is left of the two windows: of the one
\* after boot, and of the one after the last trigger, whose tick was one of it.
OverlayInv ==
    /\ led.age \in 0 .. BootTicks + 1
    /\ led.since \in 0 .. TriggerTicks
    /\ led.remaining \in Nat
    /\ Left(BootTicks, led.age) =< led.remaining
    /\ Left(TriggerTicks, led.since + 1) =< led.remaining
    /\ \/ led.remaining = Left(BootTicks, led.age)
       \/ led.remaining = Left(TriggerTicks, led.since + 1)

LEMMA OverlayInit == Init => OverlayInv /\ OverlayExact
<1>. SUFFICES ASSUME Init PROVE OverlayInv /\ OverlayExact
  OBVIOUS
<1>1. led = LedAtBoot
  BY Zenon DEF Init
<1>2. led.age = 0 /\ led.since = TriggerTicks /\ led.remaining = BootTicks
  BY <1>1 DEF LedAtBoot
<1>3. BootTicks \in Nat /\ TriggerTicks \in Nat
  BY BoardAssumption
<1>. QED BY <1>2, <1>3 DEF OverlayInv, OverlayExact, Left

\* One turn of the status task, as far as the overlay goes.
LEMMA OverlayTick ==
    ASSUME OverlayInv, Tick
    PROVE  OverlayInv' /\ OverlayExact'
<1>. DEFINE now == Taken(pairing, led.pairing)
            trigger == pairing # {} /\ (now.pressed \/ now.open)
            until == IF trigger /\ TriggerTicks > led.remaining THEN TriggerTicks
                                                                ELSE led.remaining
<1>0. /\ BootTicks \in Nat /\ TriggerTicks \in Nat
      /\ led.age \in 0 .. BootTicks + 1 /\ led.since \in 0 .. TriggerTicks
      /\ led.remaining \in Nat
  BY BoardAssumption DEF OverlayInv
<1>1. (IF pairing = {} THEN led.remaining ELSE Extended(led.remaining, now)) = until
  BY Zenon DEF Extended
<1>2. /\ led'.pairing = now
      /\ led'.remaining = Less(until)
      /\ led'.age = (IF led.age < BootTicks + 1 THEN led.age + 1 ELSE led.age)
      /\ led'.since = (IF trigger THEN 0
                       ELSE IF led.since < TriggerTicks THEN led.since + 1 ELSE led.since)
      /\ led'.overlay = (until > 0 \/ now.open)
  BY <1>1 DEF Tick
<1>. HIDE DEF now
<1>3. until \in Nat
  BY <1>0
<1>4. led'.remaining = (IF until = 0 THEN 0 ELSE until - 1)
  BY <1>2, Zenon DEF Less
<1>5. CASE trigger
  <2>1. until = (IF TriggerTicks > led.remaining THEN TriggerTicks ELSE led.remaining)
    BY <1>5, Zenon
  <2>2. led'.since = 0
    BY <1>2, <1>5, Zenon
  <2>3. OverlayInv'
    BY <1>0, <1>2, <1>4, <2>1, <2>2 DEF OverlayInv, Left
  <2>4. until > 0 <=> (led'.age =< BootTicks \/ led'.since < TriggerTicks)
    BY <1>0, <1>2, <2>1, <2>2 DEF OverlayInv, Left
  <2>. QED BY <1>2, <2>3, <2>4, Zenon DEF OverlayExact
<1>6. CASE ~trigger
  <2>1. until = led.remaining
    BY <1>6, Zenon
  <2>2. led'.since = (IF led.since < TriggerTicks THEN led.since + 1 ELSE led.since)
    BY <1>2, <1>6, Zenon
  <2>3. OverlayInv'
    BY <1>0, <1>2, <1>4, <2>1, <2>2 DEF OverlayInv, Left
  <2>4. until > 0 <=> (led'.age =< BootTicks \/ led'.since < TriggerTicks)
    BY <1>0, <1>2, <2>1, <2>2 DEF OverlayInv, Left
  <2>. QED BY <1>2, <2>3, <2>4, Zenon DEF OverlayExact
<1>. QED BY <1>5, <1>6, Zenon

LEMMA OverlayStep ==
    OverlayInv /\ OverlayExact /\ [Next]_vars => OverlayInv' /\ OverlayExact'
<1>. SUFFICES ASSUME OverlayInv, OverlayExact, [Next]_vars
              PROVE  OverlayInv' /\ OverlayExact'
  OBVIOUS
<1>1. CASE Tick
  BY <1>1, OverlayTick, Zenon
<1>2. CASE UNCHANGED led
  BY <1>2, Zenon DEF OverlayInv, OverlayExact, Left
<1>3. Tick \/ UNCHANGED led
  BY Zenon DEF Next, vars, ledVars, SensorSample, MicWindow, FirstEnv, Measure, OpenStorage,
     StoreMeasurement, AckFails, PublishUploadResult, PublishRuntime, PublishPairing,
     SensorChanges, FlashChanges
<1>. QED BY <1>1, <1>2, <1>3, Zenon

\* The overlay is on exactly in the two windows and while pairing is open
\* (update_ble_indication_until_millis, status_task).
THEOREM OverlayAlwaysExact == Spec => []OverlayExact
BY OverlayInit, OverlayStep, PTL DEF Spec
===============================================================================
