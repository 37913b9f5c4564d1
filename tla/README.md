# furble in TLA+

A verification project for the furble firmware, a Bluetooth LE remote for cameras on ESP32 boards.
It models the parts of the program that are hard to test: the camera session with its three kinds of
thread, the link of a camera and its pairing prompt, the scanner they share, the presses the web
interface must not forget to release; and the parts that must survive loss of power, the signed
firmware update, the list of saved cameras and the intervalometer, which switches the device off between
two shots. TLC checks the modules on small instances; TLAPS proves every safety property for every
instance.

File names below are relative to the root of the repository.

## 1. The system

| Component | Sources | State it keeps | Operations | Modelled |
| --- | --- | --- | --- | --- |
| Control | `src/FurbleControl.cpp` | `m_State`, `m_Targets`, `m_ZombieTargets`, `m_ConnectAbort`, `m_ConnectCamera`, `m_SessionGeneration`, the command queue, the sleep lock | `task()`, `connectAll()`, `addActive()`, `connectAll(bool)`, `disconnect()`, reaping | yes |
| Target | same file | queue, `m_Stopped`, `m_InFlight` | `task()`, `sendCommand()`, `idle()` | yes |
| Held commands | `src/FurbleWebUI.cpp` | held bits, targets that owe a release, session | press, release, retry, session change | the web interface's |
| Camera link | `lib/furble/Camera.cpp` | client, `m_Connected`, `m_ConnectCancelled`, pairing request, `m_Mutex`, `m_PairingMutex` | `connect()`, `disconnect()`, `reclaimClient()`, `answerPairing()`, callbacks | yes |
| Pairing dialog | `src/FurbleUI.cpp` | dialog, the token it answers for, timer | show, confirm, cancel, poll | yes |
| Vendor protocols | `lib/furble/{Fujifilm,Nikon,CanonEOS,Sony,Ricoh,Lumix,DJIOsmo}*.cpp` | GATT handles | `_connect()`, `_disconnect()`, shutter, focus | no |
| OTA session | `src/FurbleOTAMQTT.cpp` | session state, manifest, ledger of ranges | BEGIN, CHUNK, COMMIT, ABORT, recovery at boot | yes |
| OTA replay journal | `src/FurbleOTAReplayStore.cpp` | two flash slots | reserve, mark staged, complete, abandon, recover | yes |
| OTA sinks and NVS backend | `src/FurbleOTAPartitionSink*.cpp`, `src/FurbleOTAReplayStoreNVS.cpp` | inactive partition, NVS handle | begin, write, finalize, activate, abort | as the two above use them |
| OTA over HTTP, boot health | `src/FurbleOTA.cpp` | engine state, offset | `begin()`, `step()`, `evaluateBootHealth()` | planned |
| Camera list | `lib/furble/CameraList.cpp` | index and records in NVS | save, remove, load | what is saved |
| Scan | `lib/furble/Scan.cpp` | callbacks in flight, event queue | start, stop, results | yes |
| Intervalometer | `src/FurbleUIIntervalometer.cpp`, `src/FurbleUI.cpp`, `src/FurblePlatform.cpp` | state, shots, timer, the record in NVS, the wake timer | start, stop, shoot, save and power off, resume after a boot | yes |
| Companion | `src/FurbleCompanion*.cpp` | sessions, challenge, failure count | frames, authentication | authentication planned |
| Bluetooth journal | `lib/furble/BtDebugJournal.cpp` | ring of records | append, drain | planned |
| Power | `src/FurblePower.cpp` | lock counts per owner | acquire, release | Control's lock |
| UI, console, web, MQTT, GPS, settings, devices | `src/Furble*.cpp` | screens, caches, drivers | many | as callers of Control only |

How they interact. The UI task (`UI::doConnect`, `UI::doDisconnect`), the restart path of the
platform and, through the UI task, console and companion requests call Control. Control's own task
is the only one that calls `Camera::connect()`. Every `Control::Target` has a task that serves one
camera and that closes its link. The NimBLE host task calls the camera back when a link rises or
drops and when a camera asks for pairing. `m_Mutex` protects the two target vectors, `m_StateMutex`
the sleep lock, `Camera::m_Mutex` is held by an attempt for as long as it connects, and most flags
are atomics written by one thread and read by another. An update talks to its sink and to the
replay store by direct calls from one task; its adversary is the order of messages and the power
supply. The UI task discovers cameras with the one `Scan` object the control task also uses to find a
saved one; `m_DispatchMutex` and `m_StateMutex` keep them apart. The web interface remembers, under
`m_CommandMutex`, which cameras took a press, and asks `Control` to release exactly those in exactly
that session.

What is hard, and where it bites, is listed line by line under `hazards` in `PROJECT.json`. The
short form:

* A `Target` must outlive its task, whoever ends the session: the reaper, a teardown the user asked
  for, one that ran out of time, one ahead of a restart, a pairing the user declined.
* A teardown runs while an attempt is in `connect()`, about to enter it, or connected for a camera
  whose target is already gone.
* State is read, a mutex released, and the state used: the gate on a draining session, the next
  state, the camera to connect.
* A command is counted before it is queued and uncounted by whoever removes it, while one thread
  empties the queue, another waits for the count and the target's task receives.
* Power fails in the middle of a flash write, or between the writes that consume a rollback counter
  and the one that selects the image.
* A broker repeats and reorders messages; every fallible call can fail after it took effect.
* A result of one scan is taken for the next one's, a callback runs on a camera that was destroyed,
  one task stops or starts the scan of another.
* A link drops, and another comes up in the same slot, between reading a pairing code and confirming
  it; the client an answer uses is freed by the host task or by the control task.
* A press reached two cameras and its release one; the session ends, or a link drops, between reading
  the ledger and sending, and between sending and updating the ledger.
* Saving or removing a camera is four NVS writes; each can fail, take effect and be reported as
  failed, or be the last before power is lost, and memory must show what flash holds.

* The intervalometer powers the device off and goes on after a boot: the record it left must start a run
  once, for the wake it was written for, with its count; meanwhile the session, the page and the timer of
  a run end or do not end together.

## 2. Modules

| Module | What it is |
| --- | --- |
| `Session` | Abstract: the lifetime of targets and the session generation, as anyone may rely on it. |
| `Control` | The control task, the caller, the target tasks and the cameras' links. |
| `MCControl` | Control for TLC: symmetry set, for the run that checks no liveness. |
| `ControlProof` | Theorems about Control: types, lifetime of targets, sleep lock, connection attempts, refinement. |
| `TargetQueue` | One target's command queue, its senders and its task, at the grain of single atomic operations. |
| `TargetQueueProof` | Theorems about TargetQueue. |
| `ReplayStore` | Abstract: a rollback floor and one reservation, changed atomically. |
| `ReplayJournal` | The two-slot journal that implements it. |
| `OTASession` | An update over MQTT, composed with `ReplayStore`. |
| `OTAProof` | Theorems about OTASession and about ReplayJournal. |
| `CameraLink` | The NimBLE client of one camera and its pairing prompt, from the callback to the button. |
| `CameraLinkProof` | Theorems about CameraLink. |
| `Scan` | The BLE scanner and the tasks that share it. |
| `ScanProof` | Theorems about Scan. |
| `HeldRelease` | The presses of the web interface and the releases they owe. |
| `HeldProof` | Theorems about HeldRelease. |
| `Catalog` | Abstract: saved cameras and their ids, changed by whole operations. |
| `CameraStore` | The NVS writes that implement it, with failures and power loss. |
| `MCCameraStore` | CameraStore for TLC: symmetry set. |
| `CameraStoreProof` | Theorems about CameraStore. |
| `Intervalometer` | A run of the intervalometer with the power-offs between its shots, and the UI around it. |
| `MCIntervalometer` | Intervalometer for TLC: symmetry set. |
| `IntervalometerProof` | Theorems about Intervalometer. |

`Control` implements `Session`, `ReplayJournal` implements `ReplayStore`, `CameraStore` implements
`Catalog`, and `OTASession` is built on `ReplayStore`, so that what a crash inside a slot write can do
is settled once, below, and the session sees operations that take effect or do not. A definition marked "Faulty" is the one after it
with a plausible bug put in. No specification uses it: it is there to show that a property notices.

### Control

Each section under `m_Mutex` is one action, and whatever a thread does between two such sections is
another. The control task's position is `pc`, the caller's is `ui`, a target task's is `tgtTask`.

| Code | Actions |
| --- | --- |
| `Control::task()` | `Reap`, `Retire`, `PublishRetired`, `Receive`, `PublishConnect`, `CheckActive`, `Gate`, `PublishConnecting`, `PublishPass` |
| the pass of `connectAll()` | `BeginPass`, `NextCamera`, `PublishCamera`, `EnterConnect`, `ConnectSucceeds`, `ConnectFails`, `UnpublishCamera`, `FinishPass`, `RetryOrFail` |
| `addActive()`, `connectAll(bool)` | `RequestConnect`, `AddActive`, `ArmConnect`, `DisarmAbort`, `SendConnect` |
| `disconnect()` | `RequestDisconnect`, `PublishDisconnecting`, `CancelAll`, `TeardownSettles` or `TeardownTimesOut`, `DrainTargets`, `PublishIdle`, `WakeControl` |
| `Target::task()` | `TargetDisconnect`, `TargetStops` |
| `setState()` | `SetState` (acquire and store), then `Settle` (release) by the same thread |
| `Camera` callbacks | `LinkUp`, `LinkLost`, `StrayLost`, `DeclinePairing` |
| `m_ZombieDeadline` | `DeadlinePasses` |

The store of `m_State` and the release of the sleep lock are two steps because `getState()` does not
take `m_StateMutex`. `task()` reads `m_State` after it has taken a command off the queue. The two
are one action: a receive commutes to the later read with everything but a send to a full queue. A
camera's client passes through `none`, `dialing`, `up`, `live`, `closing`; `stray` is the link of a
client that was given up while it was still closing. The NimBLE host refuses a second link to the
same peer, which is modelled from how `Camera.cpp` uses it.

Targets are slots that are reused once freed, so a pointer kept too long would show as a slot used
by someone else. `addActive()` finds an existing target by address; a Camera object stands for its
address here. `client` is the truth about a link and `connected` what the camera remembers of it;
`disowned` names the cameras that `addActive()` made forget a link that was up.

### TargetQueue

`Control` sends CMD_DISCONNECT and lets the task stop; `TargetQueue` is that step magnified. Each
operation on the queue and on `m_InFlight` is an action, and three parties interleave:

| Code | Actions |
| --- | --- |
| `sendCameraCommand()`, `sendTargetCommand()`, under `m_Mutex` | `SendCommand`, `PushCommand`, `UndoCommand` |
| the GPS walk of `Control::task()`, without `m_Mutex` | `SendUpdate`, `PushUpdate`, `UndoUpdate` |
| `sendCommand(CMD_DISCONNECT)`, under `m_Mutex` | `Tell`, `Drain`, `RetireDropped`, `ReserveFront`, `PushFront`, `UndoFront` |
| `waitForCameraCommands()`, `idle()`, under `m_Mutex` | `Wait`, `ReadCount`, `ReadQueue`, `WaitReturns` |
| `Target::task()` | `Receive`, `Finish`, `Stop` |

`section` is how far whoever holds `m_Mutex` is. A camera command never takes the unlocked way:
`Control::sendCommand()` turns it into `sendCameraCommand()`.

### CameraLink

`Control` sees an attempt that succeeds or fails and a link that is up or not; `CameraLink` is one
camera from the inside. NimBLE's pool is a function from slot to client; a client is free, new, up,
closing or down, deletes itself or not, and has the camera or nobody as its callbacks. A link that
comes up gets a number, so that a slot that is used again shows.

| Code | Actions |
| --- | --- |
| `connectAll()`, `Camera::connect()` | `Choose`, `Create`, `ConnectReturns`, then `HandOver`, or the failure branch `TakeDown`, `CheckEvent`, `ArmDelete`, `ClearConnected`, `Detach` |
| `reapZombieTargets()`, `reclaimClient()`, `retireCancelledTargetsLocked()` | `Reap` (the unlocked read of `m_Connected`), `Reclaim`, `RetireDeclined` |
| `addActive()`, `Control::disconnect()`, `abortBlockingConnect()` | `AddActive`, `Teardown`, `AbortBlockingConnect` |
| `Target::task()`, `Camera::disconnect()` | `Disconnect` |
| NimBLE host task | `LinkUp`, `OnDisconnect` and `EndDisconnect`, `Publish` and `RefuseUnshown`, `OnAuthenticationComplete` |
| `pairingTimer()`, `serviceRequests()`, `showCameraPairing()` | `Serve`, `Poll`, `ReadToken`, `ReadCode`, `ReadLatest`, `CancelLatest`, `CloseStale`, `Lapse` |
| the two buttons, `answerPairing()` | `Press`, then `UseClient` |
| `m_PairingDeadline` | `Expire` |

`CheckEvent` and `ArmDelete` are two steps, because the disconnect event may be handled between the
read of `m_Connected` and the call that arms the deletion. The reaper's read and the reclaim are two steps
for the same reason; it holds `Control::m_Mutex` in between (`Reaping`), so nobody adds a target or tears
down. Each getter the dialog calls takes
`m_PairingMutex` for itself, so token and code may be of two requests; `answerPairing()` holds it
until it is done with the client, which is `Locked`. The code on the screen is the token of its
request; a handle is a pool slot. `host` is the client whose disconnect event the host task is in
the middle of: the callback has run and the client is not freed yet. `told` and `stopped` count the
camera's targets in the drain.

### ReplayStore and ReplayJournal

The store has the operations of `MQTT::ReplayStore` as atomic compare-and-swap steps. The journal
keeps nothing in RAM, so a reboot between two operations changes nothing. `Publish` writes the slot
the latest record is not in: the write is complete, torn (the CRC no longer matches), or lost, and
the last is a step that changes nothing. Generations are taken modulo `2 * HalfGenerations`, as
`uint32_t` does with `HalfGenerations` of 2^31. The journal's specification is `JournalSpec`, because
`OTAProof` extends the module beside `OTASession`; seen through its refinement it is `Atomic`.

### OTASession

One handler runs at a time. Each durable step inside it is an action, so `PowerLoss` comes between
any two. `Unacknowledged` is an operation that took effect and reported failure, or that failed. A
message that is refused, or answered as a duplicate, changes nothing and is not an action;
`RetryAccepted` speaks of what the answer would be. There are two partitions: `running` is the one the
device started from, `flash` the one updates are written to. Activation selects that partition and not a
copy of what it holds: `pending` says that a restart into it is due, `boot` is the manifest it was selected
for, and a restart exchanges the two. A BEGIN erases the partition it will write, selected or not;
`overwritten` records that it was. A block of an image is right or wrong for its
place; a checksum or digest stands for the bytes it was computed from. `ordered` picks a sink that
demands the next offset, as `PartitionSink` does, or one that does not, because the interface
promises neither.

### Scan

| Code | Actions |
| --- | --- |
| `stop()` | `Invalidate` (the section that ends the logical scan), `Quiesce` (callbacks in flight have returned, the radio is told to stop: `StopRadio`) |
| `clear()`, `start()` | `Clear`; `Start`, `Launch`, `Fail`, each start preceded by a `stop()` |
| NimBLE host task | `Arrive`, `Read` (`onResult()`, `onScanEnd()` read the generation), `HandleResult`, `HandleEnd`, `Callback` |
| UI task | `Discover`, `StopScan`, `Sleep` and `SleepStops`, `Process`, `ProcessOne`, `Deliver` |
| control task, in `FujifilmSecure::_connect()` and `Nikon::_connect()` | `Attempt`, `Receive`, `LoopOrLeave`, `StopAfterWait` |
| `isActive()` | `Ask` |

`m_DispatchMutex` is a variable, a section under `m_StateMutex` is one action. Nothing is assumed to stop
the host task: the barrier of `Scan.cpp:55-62` is about GAP events, and NimBLE's timer for scan responses
calls `onResult()` outside of one, so any result and any end may come late, and is taken for one of the
scan whose generation it reads. Stopping the radio may fail, which `stop()` does not look at. The end of a
scan brings the results that still waited for a scan response (`hostEvent = "LAST"`), and a reset of the
host ends a scan that may be over.

`start()` is `stop()` in one section of `m_DispatchMutex` and the launch in another, so that two tasks that
start at once launch over each other. `AnswerIsOurs` holds in all of this: between the reset of the
attempt's queue and its return, a callback that is counted is waited for, and a result is accepted under
the generation it has read. `RadioIsOwned` has two exceptions, which are histories the code permits: a stop of
the radio failed (`unstopped`), or the late end of a replaced scan was taken for the end of its successor
(`strayEnd`); each lasts until the radio is next stopped.

What else the model shows and no document rules out: a late result of the scan before may be delivered
as one of the scan that runs; a discovery without a timeout, begun while the control task waits for a saved
camera, replaces the search, and the `isActive()` of that wait then answers for the discovery, so that the
wait lasts as long as the discovery does; an `isActive()` that found the deadline passed may stop the scan
another task has started since; and `stop()` and `expire()` drop the end callback of the scan they stop.

### HeldRelease

`at` is the point reached by the operation that holds `m_CommandMutex`. `queuePress()` is `Press`,
`SendPress`, `Enter`; `queueHold()` adds `HoldAgain`; `queueRelease()` is `Release` (or an expiry, a
retry, `ReleaseAll`), `ReleaseOwned` or `ReleaseForeign`, `SendRelease`; each has the variants in
which `syncCommandSession()` finds the session changed. `Control` is what this holder sees of it: a
session with a generation, targets with a link that is up or down, retirement, and
`sendCameraCommand()`, which reaches the connected ones and reports which accepted. All of these may
change at every call. `serviceTimerEvents()` handles one event at a time. `pressed` is the truth the
ledger is compared with: the cameras whose button is down because of this holder.

Two things the model shows and no property states. `retryReleases()` clears what is held and owed when
there is no target (`FurbleWebUI.cpp:1522-1526`) and leaves the lease and the ledger, so a later
expiry of the lease sends a release nobody owes. A camera that is retired between its press and its
release stays in the ledger, its release is refused, and presses are refused until the session
ends; `HoldEnds` names that case.

### CameraStore and Catalog

An operation is a sequence of NVS writes under `m_PersistenceMutex`: `PutCounter`, `PutRecord`,
`PutIndex`, `EraseRecord`, then `Publish` (memory) and `DeleteBond`. A write is done, refused, or
done and reported as failed. `Crash` may come between any two. The index is a function from camera to
id; an id of 0 is an entry written before ids existed, which the first load migrates. `legacy` is the
entries of a type the firmware no longer supports: `deserialize()` passes over them, so they have an id and
no camera in the list, until a save under the same address replaces them. Two things change a bond beside
`remove()`: pairing (`Pair`), and the recovery of `FujifilmSecure::_connect()` from a stale bond
(`DropBond`), which deletes the bond of a camera whose handshake failed too often and may then fail to pair.
It runs on another task, so it comes between any two steps; `dropped` names the cameras it left. `Catalog`
changes by whole operations: a camera is added with an id nobody has, removed, or numbered.

If a write of the index takes effect and is reported as failed, memory is older than flash until the
next boot: `unacked` records it, and `ViewIsFlash` is stated for the other histories. The retry of
such a removal finds nothing in the index, deletes the bond and returns false while the camera is
still shown (`CameraList.cpp:355-392`). A bond outlives its camera if power is lost between the index
write and `deleteBond()`; `Reconnectable` is the other direction, which matters. Reading is assumed to
succeed: in the code a failed read or decode of the index is an empty index (`CameraList.cpp:128-152`), and
the next save would write it back with one camera.

### Intervalometer

| Code | Actions |
| --- | --- |
| `UI::intervalometer()`, by `m_State` | `TimerIdle`, `TimerWait`, `TimerShutterOpen`, `TimerDelay`, `TimerFinished` |
| the rest of `STATE_DELAY`, in which the UI task blocks | `WaitForCommands`, `SaveResume`, `PowerOffUntil` |
| start-up: `loadResume()`, the first main page | `Boot` |
| buttons, menu, console and companion requests | `Start`, `Stop`, `Cancel`, `Connect`, `Disconnect`, `PowerOff`, `SetCount`, `ToggleSleep` |
| `connectTimerHandler()`, by the state it finds | `ShowProgress`, `ConnectFailed`, `Connected` (with `startResume()` or `clearResume()`), `SessionOver` |
| `Control`, reduced | `LinkUp`, `LinkDown`, `Activate`, `Reconnect`, `Fail`, `Decline`, `Handle` |

Every handler runs on the UI task, so none runs while `ui` is not `free`; Control and the tasks of its
targets go on meanwhile, and power may be lost. Time is abstracted: a timer that runs may fire, and
whether the delay is long enough to sleep, the wall clock is trusted or the saved wake time fits is a
choice. The board is one that can wake by timer, the camera of a session is a saved one, and power is
gone when `powerOffUntil()` has returned true. `record` is `ivl_resume` in NVS: its write and its removal may fail,
and may have taken effect when they do. `Control` accepts a connect request at once, which is the grace
period of `connectTimerHandler()` seen from outside. `wanted` and `fired` are the truth the code is
compared with: whether the user wants a run, and the shots it has taken. `missed` names the cameras
that a release did not reach because their link was down or their queue full.

What the model shows and no property states: `STATE_DELAY` compares the shots with the value of the
count and does not look at its unit (`src/FurbleUI.cpp:7718`), so that a run set to infinite, for which
`include/FurbleSpinValue.h:17` says to ignore the value, ends at the value the spinner last had. Only
Cancel erases a pending resume; a disconnect through the menu or a request, and a pairing that is
declined, keep it, so the next session that includes the camera goes on with the old run, on every camera
of that session. And the release `doPowerOff()` sends for `STATE_DELAY` (`src/FurbleUI.cpp:13311`) is
emptied from the queue by the CMD_DISCONNECT right behind it, unless the target's task has taken it.

## 3. What is checked

| Run | Instance | Shows |
| --- | --- | --- |
| `control_one` | 1 camera that may decline pairing, 2 target slots, 3 requests, each a connect cycle or a teardown of either kind, retries without end, light sleep forbidden while connected, fairness | `TargetAlive`, `ToldToStop`, `AwakeWhileActive`, `LinkHasOwner`, `AttemptsAreCancelled`, `SettledIsQuiet`, `CancelSticks`, `SessionSpec` (Control implements Session), `TeardownReturns`, `GateOpens` |
| `target_queue` | queue of 3, 4 camera commands, 4 GPS updates, 2 CMD_DISCONNECTs, up to 3 GPS updates past each, fairness | `Counted`, `IdleMeansDone`, `DisconnectIsNext`, `ToldStops` |
| `replay_journal` | 2 owners, counters to 6, generations modulo 4 | `RecordSurvives`, `StoreSpec` |
| `camera_link` | 2 links, 2 pairing requests, pool of 2, 1 target in the drain, fairness | `AcceptedAsShown`, `ConnectedIsAlive`, `AnswerHasClient`, `PromptEnds`, `DeclineEnds` |
| `scan` | the UI task, the control task and a task that asks; 3 calls in any order, each a discovery with or without a timeout, a stop, a search for a saved camera or a query; event queue of 1 | `CallbackHasOwner`, `AnswerIsOurs`, `DeliveryIsCurrent`, `RadioIsOwned` |
| `held_release` | 2 cameras, 2 sessions, 2 presses, 1 dropped link or refused command, both buttons, fairness | `NoneForgotten`, `OwedOnly`, `HoldEnds` |
| `camera_store` | 3 cameras, any of them saved before and of an old type, 2 ids, 2 failing writes, 1 power loss | `Reconnectable`, `ViewIsFlash`, `CatalogSpec` |
| `ota_session` | 2 sessions, 2 counters, images of 3 blocks, ledger of 2, 4 sequence numbers, both kinds of sink | `BootIsAuthentic`, `InstalledIsConsumed`, `NeverOlder`, `LedgerIsFlash`, `RetryAccepted`, `ReservationIsOwned` |
| `intervalometer` | 2 cameras, runs of up to 2 shots, queues of 2, any number of power-offs, boots and failures | `OnlyWanted`, `CountIsFired`, `ReleasedFirst` |

Why the bounds are enough. A cycle that overtakes a teardown needs two cycles and one teardown. An attempt
that outlives its target and its session needs two teardowns: one that times out, and a second one that
waits, with no target left to walk, while the attempt still runs. Three requests in any order have both. A
target of the session before that still drains needs a second slot. One camera is what liveness can be
checked with in minutes: a pass that moves on to a second camera, a cycle without retries, and any number
of cameras, requests and slots, is what the theorems cover, and every safety property of `control_one` is
one. `MaxRequests` bounds what the caller asks for; the drain, retries, link
losses and receives are not bounded further. A queue of 2 is filled by two requests the control task
has not received, so that the wake-up of a teardown meets it full. `Backlog` is how many GPS updates
may be sent while one CMD_DISCONNECT is. A teardown leaves STATE_ACTIVE first, so the control task
only finishes the walk it is in, unless it publishes STATE_ACTIVE late, and a retirement runs on the
control task itself; the code's queue of 8 is not reached. The instance lets as many pass as its
queue has slots, so that the refused send is checked too; `DisconnectIsNext` and `ToldStops` except
that case by name (`Crowded`). Six counters take three records each and wrap generations modulo 4
more than once; the theorems drop both bounds. Three blocks allow partial overlap, a gap and a
reordering; a ledger of 2 is full before the image is complete if the blocks are sent one by one. In `camera_link` the second link uses the slot of the first or the other one, and the
second request replaces the first under an open dialog or between two of its reads; a second target
in the drain only repeats `Disconnect`. In
`scan` three calls let a discovery and two searches replace each other in every order, the second search
meets what the first left behind, and the queue of 1 is full while the end of a scan arrives, which takes the
reserved slot. In `held_release` one camera takes a press the other missed, a second session meets the
ledger of the first, and the second press races the release of the first. In `camera_store` three
cameras do not fit two ids, so the id counter wraps and runs out, a second failing write hits the
retry of the first, and a power loss comes before, between and after both; the cameras are
interchangeable, and the run uses that. In `ota_session` the second session can begin before or after the
restart into the image of the first. In `intervalometer` a run of
2 shots has one power-off in it and goes on from its record; nothing bounds how often one is begun, slept
through, cut or stopped, and a second camera is what a later session can be of, or a session too large to
sleep in. A queue of 2 holds a press and its release, and is full for the third command.
Symmetry is used for target slots and for cameras where none is told apart; never for liveness.

`replay_journal` does not check for deadlock: counters run out, and a first write that is torn makes
every later operation refuse, which `tests/host/ota_replay_store_test.cpp` asserts. `scan` does not
either: its bounds use up every call the tasks may make. In `Control` the
teardown ahead of a restart ends the caller (`halted`); the control task goes on.

Fairness, in `target_queue`: a target's task is scheduled, and a thread that holds `m_Mutex` leaves
it. In `control_one`: the control task, every target task and a teardown short of its
time cap run when they can (each blocks with a timeout between two rounds, so that no FreeRTOS
priority starves another), an
attempt returns (every vendor handshake has timeouts), and time passes, so a deadline does. Nothing is
assumed of the user, of the peer, of the radio, or of the cap of a teardown: a link need never come
up, and a closing link need never close. In `camera_link`: control task, target task and UI task run, an
attempt ends by its timeouts, a pairing window ends, and a link that was told to close goes down, at the
latest by its supervision timeout, and its event is handled; nobody need pair, press, add or tear down,
and an open link need not drop. In `held_release`: an operation under `m_CommandMutex`
finishes, because every call it makes returns; a lease that was begun runs out and a timer that was
armed fires; `WebUI::task()` polls its
events for ever and the HTTP handler hands the mutex over to it (strong fairness of the supervisor,
whose steps are enabled again and again between operations); and a link that dropped comes back, or
its camera or session goes (`HoldEnds` speaks of a user who keeps the cameras in reach). `MaxFaults` bounds drops and refusals. Timers are assumed to start.

### Disagreements met

Three runs show that the code does something a comment or document says it does not; `PROJECT.json`
quotes the lines under `findings`.

* `control_stuck`: the control task passes the gate in `STATE_CONNECT`, a whole teardown runs and
  publishes `STATE_IDLE`, and the control task then publishes `STATE_CONNECTING`
  (`src/FurbleControl.cpp:496`). The pass is empty because the abort flag is still set, so nothing is
  published after it. `task()` has no transition out of that state; a connect request is consumed
  and ignored until someone calls `disconnect()` again.
* `camera_leak`: the peer drops after `_connect()` succeeded and before the client is set to delete
  itself (`lib/furble/Camera.cpp:599`). The event has been handled with the deletion off, so the
  client stays in the pool; the next `connect()` overwrites the only pointer to it. Between the read at
  `:627` and the arm at `:637` of the failure branch the same can happen.
* `intervalometer_orphan`: "'Stop' is the only way out" of a run (`src/FurbleUI.cpp:3591`), but the end
  of a session, by a failed reconnect or by a request of console or companion, shows the main page and
  leaves the timer of the run going. The run counts on unseen, and the cameras of the next session take
  its shots. The property speaks of the step that ends an established session; the trace starts a run,
  connects, and disconnects.

Six need no run: the properties name them as exceptions, or speak of other state.

* The gate on a draining session is read once, before a pass (`src/FurbleControl.cpp:493`), and the pass
  may start a connection after a teardown has filled the drain again, contrary to
  `include/FurbleControl.h:450-453`.
* `addActive()` of a camera that still drains clears the flag the drain waits for (`:1243`), so its old
  target is freed with the link up, contrary to `:1164-1166`. It is `disowned` in `LinkHasOwner`.
* A declined pairing publishes `STATE_IDLE` from `STATE_ACTIVE` (`src/FurbleControl.cpp:461`) without
  passing `STATE_DISCONNECTING`, so idle is visible a moment before the sleep lock is released, contrary
  to `src/FurbleControl.cpp:1400-1402`. `AwakeWhileActive` holds all the same.
* "If power is lost between consumption and activation, the old image boots safely"
  (`plans/130-ota-mqtt-contract.md:50-51`), but a BEGIN with a higher counter that is accepted in
  `State::Done`, before the restart (`src/FurbleOTAMQTT.cpp:487-528`), erases the partition that was just
  selected (`src/FurbleOTAPartitionSinkESP.cpp:23`, `:31`, `:98-101`), which is then neither inactive, as
  `include/FurbleOTAPartitionSink.h:13` has it, nor complete. Power lost from there on leaves the choice to
  the boot loader. It is `overwritten` in `BootIsAuthentic`.
* "no scan callback is in flight after stop returns" (`lib/furble/Scan.cpp:55-62`, and likewise `:369-370`), but
  `srTimerCb()` runs `onResult()` with no lock `stop()` takes
  (`components/esp-nimble-cpp/src/NimBLEScan.cpp:41-65`), and `NimBLEScan::stop()` can fail (`:616-620`).
* "freeing cannot race a reader" (`lib/furble/Camera.cpp:1376-1378`), but between the reaper's read of
  `isConnected()` (`src/FurbleControl.cpp:1179`) and the reclaim the link may drop and its client delete
  itself, and `reclaimClient()` then calls it through `m_Client`. `CameraLink` has the two steps; what the
  call does to freed memory it leaves out.

## 4. What is proved

`ControlProof`, for any set of cameras, any number of target slots, any queue length and any bound on
the requests:

* `TypeCorrect`, `TargetsAlive`, `AllTold`, `SleepLockCorrect`: `TypeOK`, `TargetAlive`,
  `ToldToStop` and `AwakeWhileActive` are invariants of `Spec`.
* `Refinement`: `Spec => SessionSpec`.

The argument rests on `IInv == TypeOK /\ LifetimeInv /\ SleepLockInv`. `TargetAlive` is not inductive:
a reaper frees what has stopped, and the teardown ahead of a restart frees without a drain what it
saw stop. `LifetimeInv` says that a slot has a task exactly while it is in the session or the
drain, that the two are disjoint, that whoever drains or is waited for was told to stop, and that
a teardown which settled has only stopped targets left to free. `SleepLockInv` ties the count to
`m_SleepLockHeld` and, while nobody is inside `setState()`, to the state; while someone is, the lock
is held and about to be released. Each group of variables has a lemma that a step keeps its part
(`StateStep`, `QueueStep`, `TargetTypeStep`, `CameraStep`, `FlagStep`, `TaskStep`, `CallerStep`,
`LifetimeStep`), one case per action that touches it. The refinement maps `Retire`, `BeginPass` and
`FinishPass` to `Dismiss`, `CancelAll` to `Tell`, `DrainTargets` to `End`, `Reap` to `Free`, and all
else to a stutter; `End` is where the invariant is needed, to show that a running target is never
left out of the drain.

About the attempts it also proves:

* `LinksHaveOwners`, `AttemptsCancelled`, `SettledQuiet`: `LinkHasOwner`, `AttemptsAreCancelled` and
  `SettledIsQuiet` are invariants.
* `CancelIsSticky`: `CancelSticks`.

This adds `AttemptInv == PassInv /\ CancelInv /\ AbortInv /\ FlagHasOwner` to `IInv`. `Pending` is the
cameras the pass under way is committed to or will come to. `PassInv` says that each of them has a
target in the session or the drain (the control task reaps only between two passes), unless a
restart gave up: that is why the walk of `disconnect()` over its targets reaches the attempt about to
begin, and why a link that comes up late has someone to take it down. `CancelInv` carries the cancel
tokens of `Pending` from that walk to the end of the wait, through a new pass that begins meanwhile
and must not consume a re-arm request. `AbortInv` ties the abort flag to the caller's position.
`FlagHasOwner` says of `m_Connected` what `LinkHasOwner` says of the client, and `ClientInv` takes one to the
other: a client that is up reads connected unless its camera is `disowned`, and the late event of a link
that was given up finds no live link in its place.

Two more follow:

* `SessionsAreNumbered`: `m_SessionGeneration` moves on exactly when the last target leaves, by whichever
  path, and a target that drains never rejoins. It is read off the refinement step by step, and it is what
  the holders of pressed buttons rely on when they pin a session (`HeldRelease`).
* `WaitsAreServed`: while an interactive `disconnect()` waits, `TeardownSettled` holds or a thread it waits
  for can take a step. The target tasks wait for the attempt on their camera, the pass for
  `m_StateMutex`, and neither for the caller, which is out of `setState()` by then (`WaitInv`). This is the
  safety half of `TeardownReturns`: the time cap never breaks a circle.

`CameraLinkProof`, for any size of the pool and any number of links, requests and draining targets:
`TypesHold`, `ConnectedAreAlive`, `AnswersHaveClients` and `AcceptedWereShown`. The invariant is
`TypeOK /\ LinkInv /\ Current /\ Shown /\ Using`. `LinkInv` says that a connected camera's client is
allocated, linked and still calls it back, that `connect()` is never at an allocation or a detach with
`m_Connected` set, and that a client whose disconnect event is being handled is nobody's connected
client. `Current` says that a pending request carries the latest token and that its slot has not
been used again; `Shown` that a dialog whose token is still the latest shows the code of that token.
Together they give `Using` at the moment an answer takes the client, and the mutex keeps it: `PoolStep`
shows that any step but an allocation, a rising link and the end of an event leaves every client its
link, and detaches one only with no answer in progress.

`PromptsAreWatched` is the safety half of `PromptEnds`. A pending request that can be seen was queued to
the UI, is polled, or is about to be refused by the host task (`Looked`); or the session was torn down and
added again around it, which stops the poll, and then the camera reads disconnected and not declined, so
that the next `connect()` clears it (`Renewed`). Without `Renewed` the invariant is false: TLC shows the
timer stopping while no target names the camera.

`TargetQueueProof`, for any queue length, any number of commands and any `Backlog`:

* `CountIsExact`: `m_InFlight` is the number of commands queued, executing or between a reservation
  and its send, so the unsigned count never wraps.
* `IdleIsDone`: while `waitForCameraCommands()` holds its verdict, no camera command is queued or
  executing, although it reads the count and the queue one after the other and GPS updates go on.
* `DisconnectIsKept`: CMD_DISCONNECT is not dropped or overtaken unless as many GPS updates pass it
  as the queue has slots.

`Counted` is inductive with `TypeOK`. `IdleMeansDone` needs `NoCommand`, the same fact from the
moment the count was read as zero, which is where `Counted` is used. `DisconnectIsNext` needs
`Passed`: once the queue has been seen empty, what is in it or about to be has passed the
CMD_DISCONNECT and was counted.

`OTAProof`, for any sessions, counters, sizes of image and of ledger, sequence numbers and kinds of
sink: `TypesHold`, `BootsAuthentic`, `CountersAreConsumed`, `ReservationsAreOwned`,
`LedgerTellsFlash`, `RetriesAreAccepted` and the action property `BootOnlyRises`. The invariant is
`Safe /\ Ledgers /\ Answers`. `Safe` says what has been checked and made durable by each point of the
commit: once a counter is about to be consumed the flash holds the signed image, once it is consumed
the floor has reached it, and only then is the partition selected. While a restart into it is due and it is
not known to be overwritten, no handler is at a point that writes it (`Places`). `Ledgers` has the ranges disjoint,
adding up to `received` and written; `Answers` ties every accepted message to what the session still
knows of it. A power loss keeps `Safe` because it speaks of durable state at every program point.
`SessionUsesStore`, the refinement `Spec => Store!Spec`, says that whatever the broker delivers, a session
changes floor and reservation only by the steps of `ReplayStore`.

`OTAProof`, about the journal, for any owners, any largest counter and any width of the generation:

* `SlotTypesHold`, `AlwaysOrdered`: two valid slots hold consecutive generations, so serial-number order tells the
  newer one for ever and `readLatest()` never refuses a pair.
* `Survives`: no step takes away the last valid record.
* `Refinement`: `JournalSpec => StoreSpec`. A write, torn or not, is one atomic step of the store or none:
  the store `SessionUsesStore` speaks of.
* `CountersAreFresh`: the floor that `readLatest()` returns never falls, and rises exactly when a
  reservation is made, to the counter reserved. No counter is reserved twice.

The invariant, `JournalInv`, adds to `Consecutive` that every valid record is well formed. `Neighbours` is the one
fact of modular arithmetic, `LatestTypes` computes the latest record, `PublishIsAtomic` is the heart:
after a write the latest record is the new one or the old one.

`ScanProof`, for any bounds and any length of the event queue: `TypesHold`, `CallbacksHaveOwners`,
`AnswersAreOurs`, `DeliveriesAreCurrent`, `RadioHasOwner`, `WaitsForCallback`. The invariant is
`Types /\ Mutex /\ Delivery /\ Registered /\ Owned /\ Fresh`. `Mutex`: who is inside a section of
`m_DispatchMutex` owns it. `Delivery`: a batch being delivered is of the scan that runs. `Registered`: a custom
callback is registered only while an attempt is inside. `Fresh`: what an attempt holds in its queue, has taken, or
is about to be told was accepted under the generation its own start was given; it uses that `Quiesce`
waits for the callback, and nothing of the radio. `Owned` has three parts: `Behind` (the controller is never
on for a scan whose launch has not run), `Starting` (what the second section of `start()` finds), and
`Served`, which is `RadioIsOwned` at every point at which no thread is between two sections.

`HeldProof`, for any cameras and bounds: `TypesHold`, `NobodyIsForgotten`, `ReleasesAreOwed` and
`WakesAreKept`. The invariant is `TypeOK /\ Sessions /\ Exact /\ Knows /\ NoneForgotten /\ OwedOnly`. `Exact` is the fact
that makes the ledger right: in the session it was made for, it lists of the session's cameras only
those that have the button down, and by `NoneForgotten` all of them; `Knows` carries that from the
section that read it to the command that uses it.

`WakesAreKept` is the safety half of `HoldEnds`: a button that counts as held is about to be released by
the operation under way or by one queued behind it (`Busy`, `Ahead`), or else a retry is armed if its
release is owed, and a lease that somebody watches runs if it is not (`Retried`, `Leased`). The focus lease
is polled; the shutter's is watched by its timer or by the event the timer left. An owed release keeps no
lease, so the retry timer alone carries it, and `SendRelease` arms that timer only for a release that is
owned. `Chained` is what makes it inductive: the release that is being sent and is owned is of a
button that is owed, in the session it was made for, and nothing but a release has more to do.

`CameraStoreProof`, for any cameras, any largest id and any bounds: `SavedIsReconnectable`,
`MemoryIsFlash`, and `StoreImplementsCatalog`, the refinement. The invariant is
`TypeOK /\ CopyInv /\ OrderInv /\ ViewInv /\ TurnInv`: what the operation's copies of index and counter
have to do with flash at each step, that record and counter are written before the index that names
them, and what memory may show meanwhile. Neither `DropBond` nor `Pair` touches what an operation has read. Only the write of the index is a step of the catalog.
`IdsNameOneCamera` draws from it what the companion relies on, which asks for a camera by an id it read
earlier from memory: on flash and in memory an id is one camera's, and the same camera's in both, also
between the write of the index and its publication.

`IntervalometerProof`, for any cameras, any largest count and any length of the queues: `TypesHold`,
`CountsAreExact`, `ReleasesFirst` and the action property `NoUnwantedShot`. The invariant is
`Typed /\ Alive /\ Released`.

* `Typed` adds to the types where the UI task can be: it blocks only in a run that is under way, and a
  device without power has no run and no loaded record.
* `Alive` follows a run through its power-offs. What is alive is the run itself (`RunAlive`), the record a
  boot has loaded (`ResumeAlive`) or the record of a sleeping device (`AsleepAlive`); each of them has
  the count, and none is alive unless the user wants the run. A loaded record and a running timer exclude
  each other but for the moment between the write of the record and the loss of power: without that,
  Cancel of a resume would leave a run nobody wants, and a shot would leave the loaded count behind.
  `SavedBeforeSleep` says that in that moment flash holds what was written.
* `Released` is `ReleasedFirst` made inductive. While the UI task blocks, the last command in the queue of
  every camera the release reached is that release; once the queue is empty, the shutter is not held
  (`Releasing`). `LastStays` is the fact about sequences: taking the first command leaves the last one. A
  verdict of `waitForCameraCommands()` stays true because nobody sends while the UI task blocks
  (`Emptied`).

Assumptions are `ConstantsAssumption`, `QueueAssumption`, `JournalAssumption`, `UpdateAssumption`,
`StoreAssumption`, `HeldAssumption`, `ScanAssumption`, `BoundAssumption` and `IntervalometerAssumption`, which TLC
evaluates in every run. They type the constants and bound nothing from above.

Type correctness is proved and not checked again by a run: `TypeCorrect`, the `TypesHold` theorems, and
in `CameraStoreProof` the invariant. The same goes for `Consecutive` and `WaitIsForCallback`.

Only model-checked: `TeardownReturns`, `GateOpens`, `ToldStops`, `PromptEnds`, `DeclineEnds` and
`HoldEnds`, because liveness under fairness is out of the prover's reach. What is proved of them is their
safety half: that there is always somebody to make the progress they promise (`WaitsAreServed`, `AllTold`,
`DisconnectIsKept`, `PromptsAreWatched`, `WakesAreKept`). `Looked`, `Watched`, `IdsAreNames` and the other
formulas of these theorems are stated in the proof modules and checked by no run.

## 5. What is left out

* Of Control: what a camera command does and the delivery record its caller gets, GPS data,
  adaptive power, delays between retries. In `Control` a target's queue is reduced to the one
  command that ends its task; `TargetQueue` has the rest. A failed
  `xTaskCreate` and the destructor it runs are left out. The walk over `m_Targets` without
  `m_Mutex` in `task()` and `allConnected()` is a data race and is listed as a hazard.
* Of a camera: the vendor handshake is one step that succeeds, fails or, in `Control`, asks for
  re-pairing, and a vendor's `_disconnect()` is the call that terminates the link. `CameraLink` leaves
  out the recovery from a stale bond (what it does to the bond is in `CameraStore`), the connection parameters, builds without a screen and vendors
  that accept by themselves, requests that are refused without a change of state (malformed, or a
  second one while one is pending), and the prompt of the companion. In `Control` a client that was
  reclaimed is gone; `CameraLink` has the one the stack frees later.
* Of the update: the wire codec, QoS and retained flags, `m_LastError`, cryptography. An
  unauthenticated BEGIN moves a finished session to `Error`, after which a repeated COMMIT is
  refused; `RetryAccepted` speaks of a session still where the message left it. `Session` is not
  yet wired to the MQTT client (`plans/130-ota-mqtt-contract.md`). The HTTP engine writes the same
  partition and is left out.
* Of the scanner: the duty cycle, the settings but for the timeout, what an advertisement says and how a
  camera is matched to it.
* Of held commands: the smaller holders of MQTT, the companion and the UI, the HTTP request, the length
  of a lease, a timer that does not start.
* Of the intervalometer: durations, the clock but for whether a wake time fits, the threshold below which
  the device stays awake, boards that cannot wake by timer, a record that does not parse, the infinite
  count, cameras that are removed while a run sleeps, the save of a camera found by a scan, and the
  grace period of a connect request.
* Of the camera list: the list of scan results, the contents of a record, opening the namespace, a read
  of the index that fails.
* Everything marked not modelled in `PROJECT.json`, with its reason there.

## 6. Plan

In order of what matters most:

1. `OTAEngine`: HTTP resume, boot health and rollback.
2. `CompanionAuth`: one outstanding challenge, the failure limit over reconnects.
3. `BtDebugJournal`: the ring, its drops and its generations.

Each comes as a component module with an instance for TLC; 1 is written to be proved about. An abstract
link that both `Control`'s five client states and `CameraLink`'s pool implement would tie the two.
Runs stay one for each question: a module
that has several questions of one instance asks them in one run.
