# Verification of the sleep environment monitor

TLA+ models of the monitor's firmware and server, TLC runs that check them on
small instances, and TLAPS proofs of what holds for every size. Paths are
relative to the repository (`firmware/` is `src/firmware/src/`, `storage.py` is
`src/server/src/sleep_env_server/storage.py`). `PROJECT.json` maps each
definition to the lines it models.

## 1. The system

The device samples temperature, humidity, light and sound once a period, stores
each measurement in a flash log and gets it off the device by HTTP upload over
Wi-Fi or by a BLE transfer to an authorized central. The server archives what it
is sent in one or two stores. The firmware is a set of async tasks on **one
cooperative executor**: tasks interleave only at `await`s, flash calls block
them all, and a reset may come anywhere.

| Component | State | Operations | Talks to | Module |
|---|---|---|---|---|
| Measurement spool (`firmware/storage/spool`) | flash region, in-memory queue of 32, `next_sequence`, `write_offset` | append, acknowledge oldest, compact (erase all, write back), recover | storage service, flash driver | `FlashSpool` |
| Flash driver (`firmware/drivers/flash.rs`, `storage/flash_model.rs`) | layout of the chip, its words | validate, read, write, erase | spool, bond store | `FlashRegions`, `FlashSpool` |
| Storage service (`firmware/tasks/storage`) | backlog, first number of this boot, metrics, request channel (8), one answer signal per client | append, peek, acknowledge by number | aggregator, uploader, BLE session | `StorageService` |
| Aggregator (`tasks/aggregator.rs`) | latest samples, board status | merge samples, `try_send` a measurement | service, LED | `BoardStatus`, `StorageService` |
| Sampling (`tasks/sensor.rs`, `mic.rs`, drivers) | none kept | I2C and ADC reads | aggregator, by latest-value signals | `BoardStatus` (errors) |
| Status LEDs (`tasks/led.rs`) | latest values, BLE window | take signals, choose a pattern | everyone, by latest-value signals | `BoardStatus` |
| Boot (`bin/main.rs`) | — | start the tasks, signal for those that do not start | all tasks | `BoardStatus` |
| Wi-Fi (`tasks/wifi.rs`, `net.rs`) | connection, published network state | connect, back off | uploader, ack policy | `UploadSession`, `RecordDelivery` |
| Uploader (`tasks/upload`) | loop position, discovered server, synchronised time, published result | discover, synchronise, peek, stamp, post, acknowledge, retry | service, server | `UploadSession`, `RecordDelivery` |
| BLE transfer and GATT (`tasks/ble`) | session: record, `delivered_until`, `complete`, `ack_sent` | metadata, fragment, complete, acknowledge, disconnect | service, central | `RecordDelivery` |
| BLE pairing gesture (`tasks/ble/pairing.rs`) | hold timer, pairing window | button samples | GATT, bond store | `PairingGesture` |
| BLE authorization and bond store (`tasks/ble/auth.rs`, `storage/ble_auth`) | one flash page of slots | upsert, clear, load | GATT | `BleAuthorization` |
| Server ingest (`app.py`, `models.py`) | — | validate, accept, answer 204/409/503, tell the time | uploader, stores | its answers |
| Server stores (`storage.py`) | SQLite table, JSONL file, a lock each; maintenance thread | write, list, retain; backfill, retention, compaction | ingest | `ServerStores` |
| Server configuration, discovery responder, CLI, TUI; `tools/ble-watch`; hardware files | — | — | | — |

What is hard here, and what makes each part correct (the hazards of
`PROJECT.json` name the lines):

* **Spool**: power lost between any two flash words; the boundary between what
  the writer may write and the reader can read; acknowledgements with no
  checksum; recovery that must end on any region. Correct when the queue after a
  restart is the queue promised before it, and only the oldest records leave.
* **Flash driver**: offsets relative to a region, sums that may wrap, calls cut
  into chunks of which any may fail. Correct when no call of one region touches
  the other, and a call that succeeds did exactly what it was asked.
* **Service**: three producers share one bounded channel and answers come on
  single-value signals with no question in them. Correct when each question gets
  its own answer, an acknowledgement removes only the record its client was
  shown, and order and boot of measurements are kept.
* **Delivery**: between a peek and its acknowledgement there are awaits in
  which the other client, a full spool, a disconnect or a reset may act; the
  network loses and delays. Correct when a record leaves the device only once
  someone has it, and every record does leave.
* **Upload session**: answers come in pieces, late, half or never; a wall clock
  is computed from an old synchronisation; the published network state is
  written by two tasks. Correct when every archived time is true, the loop comes
  back to its head whatever happens, and nothing stale lasts.
* **Board status**: three tasks overwrite one signal of one value, three write
  one status field, and BLE takes the LED away. Correct when no fault is hidden
  for good, none is shown that is over, and measuring goes on without the tasks
  that could not be started.
* **Server stores**: the upload handler and the maintenance thread interleave
  between locked store operations, one store of two may fail. Correct when an
  acknowledged payload stays where the policy promised it.
* **Bond store, pairing**: one flash page erased and rewritten in place, a
  window that is read once and used for as long as the link lasts, and records
  kept in three places (page, workspace, BLE host) by two tasks. Correct when
  only a central that was let in reads measurements, no cleared bond comes back,
  and a device with no bond can always be paired.

## 2. Modules

```
SpoolRecords        records, sizes, bounded queue          SpoolRecords_proofs
  +- SpoolFifo      abstract: a bounded FIFO of measurements
  +- FlashSpool     the flash log, word by word, with its faults  --implements--> SpoolFifo
  |    +- MCFlashSpool, FlashSpool_proofs
  +- StorageService the storage task, its channel and any clients (on SpoolFifo)
       +- MCStorageService
       +- RecordDelivery   uploader, BLE session, network, server --implements--> StorageService
            +- MCRecordDelivery
            +- RecordDelivery_proofs   (about StorageService, then RecordDelivery)
UploadSession       the uploader's loop, its clocks, and answers in pieces
  +- MCUploadSession, UploadSession_proofs
FlashRegions        the layout of the chip and the calls of the driver
  +- MCFlashRegions, FlashRegions_proofs
BoardStatus         boot, sampling, aggregation, error flags and the status LED
  +- MCBoardStatus, BoardStatus_proofs
ServerStores        stores, acknowledgement policy, maintenance thread
  +- MCServerStores, ServerStores_proofs
PairingGesture      the button and the window, poll by poll
  +- BleAuthorization   bonds in flash, memory and host; links; the two tasks
       +- MCBleAuthorization, BleAuthorization_proofs
```

The argument for a measurement's way is compositional by refinement.
`FlashSpool` is shown to implement `SpoolFifo`; `StorageService` takes
`SpoolFifo`'s actions as its spool; `RecordDelivery` is shown to implement
`StorageService` with arbitrary clients, so what holds for any client holds for
the uploader and the BLE session. `UploadSession` opens up the one step in which
`RecordDelivery` finds the server, stamps and posts; `FlashRegions` opens up the
driver calls that `FlashSpool` and `BleAuthorization` take as words programmed
and erased; `BoardStatus` shows what becomes of the errors the others return.

**SpoolRecords / FlashSpool.** A cell is one 4-byte flash word, told apart as
finely as decoding tells it apart: magic, version, a sequence digit, a payload
word, erased, or junk (two words programmed over each other). A sequence number
is three digits of base `Radix`, as an acknowledgement stores it on three words,
so a torn acknowledgement decodes as the number whose missing digits are all
ones, and the numbering wraps at `Radix^3` where the code wraps at 2^64. An
append or acknowledgement that writes one entry is one step (driver calls block
the executor); a compaction is one step per sector erased and record written
back; recovery is one step per entry. `replay`, `spoiled`, `appends`, `faults` are history.

Recovery may take any number where the words of one are not whole, since the
checksum covers the payload only.

**FlashRegions.** `Valid` is `validate_flash_region_layout` with its checked
sums; a call is one step per ROM call, which covers at most `ChunkWords` words or
one sector and may fail after any part of its work. `call.touched` is history.

**StorageService.** `requests`, `reply`, `stage`, `command` are the channel, the
signals and the position of each client in `send.await`/`wait.await`. One
command is handled in one step: the code holds no lock across an await. `Trouble` covers
failing flash calls; `diverged` marks that a failing append or acknowledgement
may have left flash without what memory has, or, after a failed compacting
acknowledgement, memory without what flash had. What a restart then finds is
`FlashSpool`'s subject, so `RestartService` is not taken afterwards. `MayForget` lets a restart with an
empty spool restart the numbering, which `spool_sequence_reuse` shows the log does.

**RecordDelivery.** Adds Wi-Fi, the uploader's loop, requests on the wire, a
server that keeps the first record of a number (`keep_first`, the default), and
a BLE central that may do anything at any time.

**UploadSession.** One action per await of `uploader_task`: waiting for an
address, discovery, SNTP, the server's clock as a fallback, peek, post, each read
of an answer. An SNTP packet may be none the device can read. An answer comes in pieces with or without an announced length, and
a read has a timeout but the answer has none, as in the code. `wifi_task`, the
stack and the uploader each have their own view of the link; the uploader is
alone with the spool. Uptime is counted in ticks since boot and a recovered
record carries an uptime that means nothing now.

**BoardStatus.** A latest-value signal is a set of at most one value. `Boots` are
the sets of tasks that start; the aggregator, storage task, LED task and pairing
task are an action per turn. `backlog` tells a log that failed to recover ("lost"), after
which errors are published, from a driver that could not be opened, after which
the task answers without publishing. The flags of a sample stand for its values, since a
value is missing exactly when its flag is set. `age`, `since`, `unseen` are
history; `settled` says that a LED tick has come since the microphone's last
window was worked off, which the lengths of the window (1 s) and of the tick
(100 ms) guarantee before the next window ends.

**ServerStores.** A store is its set of canonical records. One locked store
operation, or one read, is one step of the upload handler or of the maintenance
thread. Strategy, conflict rule, backfill source and exclusions, limit and
acknowledgement flags are constants. A record's time is its `display_unix_ms`:
what the device reports or the server's clock at reception, so times may be equal
or go back.

**PairingGesture, BleAuthorization.** Time is counted in polls of the pairing
task. `page` is what `load_auth_records` finds: erased, the records of the last
store, or anything else (`Torn`), which it rejects; `saved` is the workspace,
`host` the bonds of the BLE host, which is external: it pairs, encrypts with a
key both ends know, and reports. A handler is one step, since the driver calls
in it block the executor and no lock is held across an await; power may be lost
in the middle of one that writes the page (`ResetUnsaved`, `ResetInClear`, which
count as faults, unlike `Reset`). `link[1].bondable` is the one reading of the
window a link lives by. `admitted`, `offered`, `misread` are history.

## 3. Runs

| Run | Configuration | Question |
|---|---|---|
| `spool_faults` | 2 sectors of 12 words, queue of 2, 3 appends, 2 faults of every kind | which guarantees survive power loss at any word and driver errors |
| `spool_fifo` | queue of 3, 8 appends, 3 orderly resets | the log implements the FIFO, numbers ascend |
| `spool_sequence_reuse`, `spool_region_end` | smallest instance that shows it | finding, see section 6 |
| `storage_service` | 2 clients, channel of 2, 3 measurements, 2 troubles | questions, answers, order, boot marks |
| `delivery` | 2 measurements, room for 1, 1 reset or flash error, 1 network fault, 2 fragments | removal only after delivery; eventual delivery; refinement of the service |
| `upload_session` | 2 records, one of them recovered; 3 ticks, reads of 1, retries every 2; two places; discovery and NTP both there or neither; `keep_first` or `reject`; 1 fault | true wall clocks, records that get through, a loop that comes back, a network state that is not stale for ever |
| `flash_regions` | addresses 0..15, words of 2, chunks of 2 words; every layout over a small grid of offsets and sizes, misaligned, overlapping, empty and past the end | which layouts are accepted, which bytes a call touches |
| `board_status` | everything started, or all but one task, or no radio; channel of 1; a boot window of 3 ticks, a trigger window of 2; 2 changes of the environment | what LED and status say, and that measuring goes on |
| `server_stores` | SQLite unlimited/`reject`, JSONL one record/`keep_last`, both required; 2 keys, 2 payloads, 3 uploads, 1 failure | acknowledged payloads, completeness, limits |
| `server_retention` | 3 keys, no failure | finding |
| `ble_authorization` | 3 centrals, 2 records, thresholds of 1 and 3 polls, a window of 2, 3 bonds, 1 reset, 1 fault | who gets access, what a reset restores, when the window opens and closes |

*Bounds.* A region of 24 words holds two or three short records, so with the
given appends it fills, compacts, drops the oldest and ends exactly at, or short
of, the header size; the long payload makes one append drop several records.
`Radix` 5 or 6 keeps every digit of an acknowledgement significant: no behaviour
uses more numbers than the small values have, and the digit of all ones appears
only when torn. Two faults let a fault hit the recovery or the retry after a fault. `Radix` 3
with 3 measurements in the service keeps numbers below half the range, as 2^63
does in the code, except after a restart in which they restart at 0. A channel of two is full as soon as both
clients, or a client and the aggregator, have a command in it. Two fragments
separate "some" from "all", and with room for one record the second measurement
pushes the first out while a client may be on its way with it; a restart may
forget the numbers there. One recovered and one measured record are stamped
differently; time enough passes for a read to time out, for both retries to come
due again and for a synchronisation to be older than the record it stamps; one
fault is a lost request or answer, a server that moves or goes away between two
pieces, a read that lasts too long, or a link that drops. Sixteen addresses hold
two regions of several chunks and sectors, a protected range between or over
them, and sums that do not fit. One change of the environment breaks something
and the next mends it, or a second breaks meanwhile. In the server, a limit of
one with two keys makes backfill and retention undo each other every round;
three uploads with two times let a duplicate, a conflicting and a new record meet. Three
centrals for two records make one replace another; three bonds are enough for
that, or for a central to bond twice; a window of two polls is seen at full
length, shorter, and closed, while the longer threshold lies past the shorter
one, so that one press can reach both.

*Fairness.* Spool: `Scan` and `Compact` are loops without an await, so they run on;
nothing makes a client call. Service: the storage task awaits only the next
command (weak); a sender waiting for room is woken each time a place gets free
(strong on `Send`, since the place may be taken again before it runs; the
embassy channel wakes senders and the executor polls every woken task); a client
whose answer is there takes it (weak). Delivery: in addition Wi-Fi reconnects,
the stack follows, the uploader runs, and the server handles a request that
stays on the wire; the faults that spoil this are bounded by `MaxMishaps` and
`MaxTroubles`, so liveness is about what happens after the last one. Nothing is
assumed of the central. Upload session: the uploader, the Wi-Fi task and the
stack run, what is on its way arrives unless a fault takes it, and time passes
(each weak); a read that has something to take ends within a tick, so only a
fault makes it time out then. Nothing brings the access point back. Board: each
task runs when its timer or signal is due (weak); sensors, flash, button and
radio belong to the environment, so `StatusSettles` supposes they are left alone
in the end. Server: both threads run and the maintenance interval ends;
liveness says nothing once the maintenance thread has died. BLE: the executor
runs the pairing task whenever its timer is due (weak on `PairingTask`); the
button belongs to the user, so `WindowCloses` supposes it is left alone in the end.

*Deadlock checking* is off where appends, measurements, uploads or events are
bounded and run out, after which the system rightly waits for ever.

Every property of a passing run has a mutant: a definition changed the way a
plausible bug would change it (defined just before the original, and so
commented), under which TLC finds the property violated.

## 4. Properties

| Property | Says | Proved |
|---|---|---|
| `RecoveredExactly` | the queue a recovery rebuilds is the promised one, unless an entry was written where it cannot be read, a torn acknowledgement reads as another record's, or a compaction was interrupted | yes |
| `SequenceOrder` | with orderly resets, pending numbers ascend and the next one is above them | yes |
| `OnlyOldestLeave` | whatever fails, records leave from the front and enter at the end | yes |
| `EventuallyReady` | recovery and compaction end on any region | |
| `TailErased` | what a cut-off or failed write leaves begins where the next entry goes, never hidden behind erased words | yes |
| `LogReplays` | while no write is cut off, the log is whole entries and then erased words, and its replay is the promised queue | yes |
| `ImplementsFifo` | with orderly resets the log is `SpoolFifo` | while the log is not spoiled |
| `OwnRegionOnly` | a call touches its own region, none of the other's bytes and no protected one | yes |
| `CallExact` | a call that succeeds touched exactly the bytes it was asked for | yes |
| `ValidationExact` | the validation accepts exactly the layouts whose regions are whole sectors, apart from each other and from what is protected | yes |
| `OneOutstanding` | each waiting client has its one command in the channel or its answer in its signal, never both | yes |
| `MeasurementOrder`, `CurrentBootExact`, `PendingCountExact` | order, boot mark and count are right across restarts and errors | yes |
| `AckRemovesHeld` | an acknowledgement removes only the record its client holds | yes |
| `Answered` | every question is answered | |
| `RemovedOnlyDelivered` | an acknowledgement removes only what the server has answered for, or a central was handed completely | yes |
| `ImplementsService` | uploader and BLE session are clients of the service | yes |
| `EventuallyDrained` | the spool is drained once faults end | |
| `StampsTrue` | an archived wall clock is when the measurement was taken, up to two reads; a record of an earlier boot has none | yes |
| `Drains` | every record gets to a reachable server, unless a `reject` policy meets a retry with another time | |
| `Retries` | the uploader comes back to the head of its loop | |
| `ReadyEnds` | `IpReady` does not last without a link | |
| `OverlayExact` | BLE has the LED for its windows and not a tick longer | yes |
| `AppendFailureSeen` | the LED gets the news of a failed append | yes |
| `MeasuringGoesOn` | missing tasks and broken sensors do not stop the aggregator | |
| `StatusSettles` | when nothing changes any more, status and LED name exactly what is wrong; a storage error does not push the sensor flags out of the status | |
| `AckedArchived` | an acknowledged payload stays in the archives | yes |
| `ArchiveCompleted`, `LimitEnforced` | maintenance completes the archives and enforces the limits | |
| `AccessFromWindow` | with the window closed, only a central that connected in an open window since the last clear reads measurements | yes |
| `RestoresForce` | the page holds the records in force, or none that would be restored | yes |
| `SavedUsable` | one record per peer, which is its latest key and known to the host | yes |
| `OfferedWhenEmpty` | a device that restored no bond has offered a window | yes |
| `OpensOncePerPress` | a press opens the window once per threshold it passes | yes |
| `WindowCloses` | left alone, the window closes | |

`SequenceMonotonic`, `Durable` and `NewestRetained` are what the repository says
and the three findings refute (section 6).

## 5. Proofs

TLAPS checks these for every value of the constants that satisfies the named
assumption of the module, and what is said here.

* `SpoolRecords_proofs`: what `Push`, `Without`, `From` and `Fitting` return; that
  three digits and a number determine each other; and how many words a queue
  takes when a record enters or leaves. The last is about `SumFunction`, a
  recursive function over sets. The library's induction theorems cannot be used
  (they take an operator), so the induction is an argument about a smallest set
  for which the claim fails (`SmallestSet`, from the well-foundedness of strict
  inclusion). It shows that a sum exists (`SumsExist`) and does not depend on the
  order it is taken in (`SumOfAny`), whatever `CHOOSE` picks.
* `FlashSpool_proofs!TypeCorrect` and `OldestLeaveFirst`, **under all faults**.
  `TypeInv` adds to the types that a record always fits the region and that
  `progress` stays within the plan or the region. A compaction installs its
  result several steps after it was planned, so the order of leaving needs
  `PlanFollows`: what it will install is what remains behind some position of
  the queue, perhaps with the new record behind.
* `LogAlwaysReplays`, **assuming `Faults` is within
  `{"idle", "compact"}`** (power may be lost between calls and during
  compactions, but no entry is cut short). The inductive invariant `LogInv` is
  `TypeInv` with `LogReplays`, which ties each element of the history `replay`
  to the image of an entry in flash and the scan to one element. The hard steps
  are that a scan reads exactly the entry `replay` says is there (images of
  different entries differ, and erased words are no entry), and that an append
  leaves earlier entries alone. Both are false where a write may be cut off.
* `RecoveryExact` (`RecoveredExactly`), **under all faults**. The property is not
  inductive: in mode "ready" it says nothing of the flash, and recovery is many
  steps. After a cut-off write `LogReplays` is false too, since the flash holds
  words that are no entry of the replay. `TornInv` says that there still is *a*
  log, longer than the replay, that recovery follows from word 0 and that leaves
  the promised queue: its steps are records, acknowledgements (one that was cut
  off is one of another number, which removes nothing, or the log is spoiled) and
  single unreadable words (junk left by a write over a residue); it ends where
  the rest is erased or cannot be read (`Unreadable`: the magic word of a record
  without the image of any record behind it, or the one of an acknowledgement
  alone). `TornAtEnd` shows that a cut-off or failed write at the end
  of such a log leaves one that ends in front of, in or behind the written words;
  `EntryAtEnd` that a whole entry is only ever accepted on erased words. Ready,
  `write_offset` is the end of the log, or in front of a word that is not erased,
  after a failed write (`InLog`): then the next entry spoils the log.
* `TailAlwaysErased` (`TailErased`), **under all faults**, from the same `TornInv`:
  a ready spool stands where the scan of such a log ends, and a log ends in
  front of erased words or of one that is not erased.
* `SpoolIsFifo` (`ImplementsFifo`), **under all faults, for behaviours in which the log
  is never spoiled and numbers ascend**, and `SpoolIsFifoWhenIdle`, where numbers do
  ascend because `Faults` is within `{"idle"}` and there are fewer appends than
  numbers. Each step maps to one of `SpoolFifo` or to none (`FifoStep`). Recovery
  shows the clients the queue they were promised (`TornInv`); a compaction ends in
  the queue as it is or with one more record (`PlanExact`); an append that fits
  behind the log drops nothing that `SpoolFifo` would keep, because the pending
  records take no more words than the log (`LogRead`). Both conditions are needed:
  finding 2 spoils the log, after which the record acknowledged last comes back,
  and after other faults a restart may go on from a number below those pending
  (section 6), which `SpoolFifo` does not allow.
* `NumbersAscend` (`SequenceOrder`), **assuming `Faults` is within
  `{"idle"}`** and fewer appends than numbers. `NumbersInv` bounds every number by
  the appends made and orders the queue of each step of the replay. Its hard
  case is finding 2: behind an acknowledgement that is not read back, the log in
  flash is only a prefix of the replay (`ReadableTo`), at whose end every later
  recovery stops.
* `FlashRegions_proofs`: `CallsKeepToRegion` (`RegionInv`: a running call started
  inside its region, and what is left of it ends where the request does),
  `SuccessfulCallsExact` (`WorkInv`: what was touched is the part before what is
  left) and `ValidationAlwaysExact` (arithmetic of whole sectors, and that
  ranges with an end overlap exactly when they share a byte).
* `RecordDelivery_proofs!TypeServiceCorrect`, `QuestionsAnswered`: the types and
  `OneOutstanding`, for any clients, channel and queue. An answer is only ever
  signalled for the command just taken from the channel, and while that command
  was there its client's signal was empty.
* `MeasurementsInOrder`, `BootMarkExact`, `AcksRemoveHeld`, `CountAlwaysExact`
  (all of the service). Their invariant `NamingInv` says in one that the
  measurements in queue and channel are in the order they were made in, that
  numbers ascend with them, that a number someone may still use names one
  record, and that the first number of this boot separates the records of
  earlier boots. It needs `NumbersLast`: fewer than `SequenceMod / 2`
  measurements are ever made (2^63 in the code).
* `DeliveryImplementsService` (`Spec => ImplementsService`) and with it
  `DeliveryAnswers`, the above for the real clients. A step of the uploader asks
  only while it is no one's turn to answer it; that rests on `UploadHolds`: while
  it posts, it has no question outstanding and holds a record.
* `OnlyDeliveredLeave` (`RemovedOnlyDelivered`), with `NumbersLast` alone. `SentInv`
  follows an acknowledgement backwards: the record it names is the one the client
  holds, and the client asked only after the server had answered for it or the
  session had handed out all its fragments. "Answered for" (`AnsweredFor`) is that
  the server keeps that very record or, when restarts forget the numbers, one of
  the same number made no later, which is what finding 1 leaves of the promise.
  For that the induction orders everything that carries a number, wherever it is:
  records in the spool and on the wire (`OlderInv`), and what a session holds.
* `UploadSession_proofs!StampsAlwaysTrue`, for any timeout, offset of the clocks
  and number of faults. A stamp is as good as its synchronisation, which is as
  good as its answer was fresh; so `StampInv` follows an answer while it is read
  (`Fresh`): it is no older than the pieces read took, plus the present wait.
* `BoardStatus_proofs!FailureReachesLed`: between a failed append and the next
  overwriting of the signal lies a tick of the LED task (`WindowInv`), since a
  window is worked off before the next ends. `OverlayAlwaysExact`: what remains
  of the LED's window is the larger of what remains of the two promises
  (`OverlayInv`).
* `ServerStores_proofs!AcknowledgedStaysArchived`, for all strategies, conflict
  rules, limits and acknowledgement flags. The induction needs `WrittenHeld` (a
  store that reported success of the upload in progress has its record, though
  maintenance ran in between) and `ArchivesSpared` (maintenance rewrites and
  limits no archive). `StoresTypeCorrect` includes that a store never has two
  records of one key.
* `BleAuthorization_proofs`, for any centrals, capacity, thresholds and faults:
  `TypeAuthorizationCorrect`, `AccessOnlyFromWindow`, `ResetRestoresForce`,
  `SavedRecordsUsable`, and with `ThresholdsApart` `PressOpensOnce` and
  `EmptyDeviceOffers`. Access depends on records that were saved at some earlier
  time, so its induction needs `AdmittedInv`: whoever has a record in the page or
  the workspace, or has a link that may bond, was admitted, and only such a link
  has a bond to save. `RestoresForce` needs that a valid page is never empty
  (`PageShape`). `ThresholdsApart` says that the window opens before the bonds
  are cleared (3 s and 10 s in the firmware): a clear that fails in the very poll
  that should open the window would put the opening off.

Only model-checked:

* every liveness property (liveness under fairness is outside the prover's
  reach): `EventuallyReady`, `Answered`, `EventuallyDrained`, `Drains`,
  `Retries`, `ReadyEnds`, `MeasuringGoesOn`, `StatusSettles`,
  `ArchiveCompleted`, `LimitEnforced`, `WindowCloses`;
* `ImplementsFifo` in `spool_fifo` without the condition that the log is never
  spoiled: the sizes of the records in that run leave no entry in the last words
  of the region.

`SequenceOrder` is checked and proved for power lost between calls; with other
faults it is false (section 6).

## 6. Findings

1. `spool_sequence_reuse`: an acknowledgement that compacts an emptied spool
   leaves no trace of the numbering; after the next reset numbers start at 0,
   although they are documented as monotonic. The server then takes the new
   measurement for a duplicate (`storage.py:352`) and answers 204, and the device
   removes it: it is kept nowhere (this is why `AnsweredFor` asks for that very
   record only where restarts do not forget).
2. `spool_region_end`: an acknowledgement written in the last 16 to 23 bytes of
   the region is not read back, and the record it acknowledged returns.
3. `server_retention`: retention deletes a record written between its list and
   its rewrite, although it is the newest.

In a region of 36 words, which is too long for finding 2 to come first,
`Durable` also fails when `Faults` includes "write" (after a cut-off write recovery
resumes in front of programmed words, so the next entry is accepted and lost) or
"compact" (power lost during a compaction loses pending records).

`SequenceOrder` fails there, with `Radix` 2, when `Faults` includes "write" or "driver": an
acknowledgement has no checksum (`codec.rs:134`), and one cut off behind its second
word is read as that of a number whose other 48 bits are ones. Recovery goes on
from that number, at most 65536 below the wrap of the 64 bits; behind the wrap
numbers start at 0 under those pending. With "compact" it fails in two sectors of
24 words (records of 8 and 20 words, a queue of 4, 7 appends): a compaction
interrupted behind its first sector leaves old records in the second, and a log
that starts again at 0 grows until it meets them.

Two more things the models leave open are noted as hazards: a place
that discovery gave once is preferred to the configured one until the next reset
(`upload/runtime.rs:96`), and a connection that ends inside a number yields a
shorter number (`upload/runtime.rs:344`).

## 7. Not modelled, and abstractions to know of

* Payload contents, encodings, JSON, HTTP, SNTP and GATT formats by what they
  decide; logging; the arithmetic of drivers and sampling windows (floating
  point); NTP times past 2036; a number cut inside its digits.
* Records of the old payload format, which the service discards when they come
  to the front; record flags; the unused helper `recover_records`; the smoke test
  behind the feature `flash-smoke`.
* In `RecordDelivery` the wire is a set, so two identical requests in flight are
  one; timestamps and the `reject` policy are `UploadSession`'s subject; a
  fragment counts as handed over when it is prepared, as the code counts it.
* In `UploadSession` the spool is a plain queue that only the uploader takes
  from; the clock stops at `MaxTime`; strategies that replace a payload answer
  like `keep_first`; the Wi-Fi task that ends at boot on invalid credentials is
  left out.
* In `BoardStatus` the heartbeat LED, the phase of a pattern and the other fields
  of the status snapshot are left out, and so is a BLE host that ends (`ble/runtime.rs:158`
  then leaves BLE off for good, with nothing to show it).
* In `ServerStores` limits count records, not bytes or age; where two records have
  the same time, retention may keep either, while the code goes by the key; the
  startup round is one of the rounds; the lines superseded in the JSONL file, its
  compaction and a line torn by a crash are left out. With two stores a store has
  one backfill source at most, so the merging of sources is left out. Uploads do
  not overlap: `accept_upload` is a synchronous call inside an async handler.
* In `BleAuthorization` the versions and checksums of the page's header show only
  by their verdict, and identity resolution (IRK, address) is the identity of
  the central; capacity is at least one; a disconnect is handled after the other
  events of its link. A full set replaces its first record, which after the
  first replacement is no longer the oldest: the code promises nothing else.
* Server configuration, the discovery responder, CLI and TUI are stateless or
  presentation; the desktop client is covered by a central that may send
  anything; the hardware files are no program.

## 8. Plan

1. *(done)* Spool, its FIFO, and the proofs of its log.
2. *(done)* Storage service with arbitrary clients; delivery; their safety proved.
3. *(done)* Server stores; BLE pairing gesture and bond store.
4. *(done)* Flash layout and driver calls; board status and LED; the uploader's
   clocks, retries and answers in pieces.
5. A JSONL line cut short by a crash, and compaction of the file.
