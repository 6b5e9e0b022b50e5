# A verification of motion-service

TLA+ models of the Librescoot motion service (`src/`), the TLC runs that check
them, and theorems checked by TLAPS. `PROJECT.json` lists the same material for
tools: components, runs, the mutants that show each property can fail, the
source lines of every definition, findings, hazards, theorems. Source paths
below are relative to `src/`.

## 1. The system

The service owns the BMX055 motion sensor of a scooter. It programs the
accelerometer with the *profile* the alarm and power-manager states call for,
reports motion interrupts, publishes telemetry and a compass heading, and
answers RPC calls. All of it is one Go process; its goroutines share the sensor
bus, a few atomics and a few mutexes.

| component | state it keeps | operations | talks to |
|---|---|---|---|
| profile derivation (`internal/profile/profile.go`) | none | `Derive`, `isHibernationImminent`, the `Configs` table | used by subscriber and controller |
| register driver (`internal/bmx`) | the chip's registers; the magnetometer's calibration and its revision | one function per register group; `SetCalibration`, `ReadAll` | I2C bus, one transaction at a time |
| profile controller (`internal/profile/controller.go`) | `mu`, `current`, `hasFirst` | `Apply`, `Current`, `Invalidate` | driver, both interrupt gates, publisher |
| redis subscriber (`internal/redis/subscribers.go`) | `alarmStatus`, `pmState` under a mutex | `handleAlarmStatus`, `handlePmState`, `handleVehicleState` | controller, pollers' rate |
| RPC server (`internal/rpc/handlers.go`) | none | the methods of `motion:rpc` | controller, driver, pollers, collector |
| interrupt watcher and poller (`internal/poller/interrupt_*.go`) | `enabled` each | `Run`, `handleEdge`, `checkInterrupt`, `Enable`, `Disable` | evdev, driver's latch, publisher |
| sensor and magnetometer pollers (`internal/poller`) | `rateHz`, `rateChange`, `enabled`; quality window and averages of the heading | `Run`, `poll`, `SetRate`, `Enable`, `Disable` | driver, collector, publisher |
| calibration (`internal/calibration`) | capture, last model; the model file | `Start`, `Add`, `Finish`, `Cancel`, `Reset`, `LoadModel`, `SaveModel` | file system, magnetometer |
| application (`internal/app`) | none of its own | start-up with retries, wake cause, `pollerGroup`, shutdown | everything |
| driver unbinding (`internal/driver/unbind.go`) | the kernel's hold on the devices | `UnbindBMX055`, `Unbind`, `waitForDetach` | sysfs |
| publisher (`internal/redis/publisher.go`) | none | `PublishMotionEvent`, `PublishHeading`, `UpdateStatusField`, ... | Redis |
| `cmd/motion-service`, `cmd/motion-calibrate` | none | flags, signals; an offline tool | |
| redis-ipc (external library) | | dispatches watch callbacks and calls | |

### What is hard about it, and what would make it right

* **Apply.** Some twenty bus transactions with sleeps between them, any of which
  may fail, under one mutex that start-up, two callbacks and every RPC goroutine
  queue for; in front of it an idempotence check on a *record* of what the chip
  holds. Right means: applies do not interleave; edges pass only while the chip
  holds one complete interrupt profile; an Apply leaves all of its profile or
  closed gates, whatever fails; the record, the chip, the gates and the status
  hash agree when everybody is done; the profile in force is that of the
  latest states, which are stored under one lock and applied outside it;
  `prepare-hibernation` confirms nothing that is not so; and
  everybody gets an answer.
* **The register bytes.** Two engines share a duration register and the two
  pin maps; one mapping function ORs, the other assigns; the resets leave some
  registers blank and others not. Right means: after the last write the
  registers are what the profile's table entry says, whatever they were.
* **`soft-reset`** resets the chips *outside* the controller's mutex and then
  takes it three times.
* **One latch, three readers.** The evdev watcher and the I2C poller read,
  report and clear the same latch, without a lock, while Apply closes and opens
  gates that each looked at earlier, calls drop the latch, and the process may
  die at any of these steps. Right means: no motion disappears, each is
  published in the end, none is reported for ever, no latch stands for ever (a
  latched engine is deaf).
* **Start-up.** The wake-up latch is read before, and told after, the first
  Apply, which clears it. The sensors have to be taken from kernel drivers that
  let go of them late or not at all; two of them are opened with retries, the
  third once. Right means: a wake-up is told, the service comes up, and then it
  holds the sensors it uses.
* **Rates and streaming.** Rates go through an atomic and a one-slot channel from
  setters that overlap; a poll in progress has looked at the streaming flag
  already; the status hash is told afterwards. Right means: no lost wake-up, a
  request served alone is obeyed by both pollers and told in the hash, and
  streaming that was disabled stops.
* **Calibration** is changed by RPC goroutines while the poller computes
  headings with it, and is persisted through temporary file, fsync, rename and
  directory fsync. Right means: file, collector and magnetometer agree; an
  acknowledged model survives a power loss; a Finish that fails leaves the
  previous model; no torn file; quality and smoothing
  work on headings of one calibration; no valid heading without a calibration,
  on the channel or in the hash.

`PROJECT.json` has the list of hazards, each at its line, with the properties
that watch it or the reason why none does.

## 2. The modules

| module | models | built from |
|---|---|---|
| `MotionProfile` | `Derive`, `Configs`; a register byte is the set of its bits | |
| `MotionChip` | the registers; each driver function as the sequence of its writes; `Program(p)`, all that Apply writes for `p` after the resets; `Ready(c, p)`, what `p` promises of register contents `c` | `MotionProfile` |
| `ProfileGate` | abstract: edges pass only over one complete profile | |
| `ApplyOutline` | abstract: in which order Apply changes gates, running engine and pin routing, and where it may give up | |
| `ProfileController` | `Controller`, the alarm and power-manager callbacks, the RPC calls that touch chip or controller, start-up Apply, crash and restart | `MotionChip`; implements `ProfileGate` and `ApplyOutline` |
| `InterruptPath` | engine, latch, evdev, both readers, the start-up that reads and tells the wake-up, crash and restart, `clear-latch` and `soft-reset` | instance of `ApplyOutline`, whose actions are its Apply |
| `SensorStartup` | `UnbindBMX055` and `initSensors` with the kernel's late release, retries, exit and restart | |
| `PollRate` | `SetRate` and `Run` of both pollers, `pollerGroup`, vehicle callback, `set-polling`, `set-streaming` and what they tell in the status hash | instance of `SensorStartup`, which decides which pollers there are |
| `CalibrationStore` | abstract: while the service is up, a model takes force only when no power loss can take it back, and is dropped only when the file is gone; a start takes what it finds | |
| `MagCalibration` | `Collector`, `SaveModel`, `LoadModel`, `MagPoller.poll` as far as calibration, quality window, averages and validity go, its two publications, crash and power loss | implements `CalibrationStore` |
| `MotionChipProofs`, `ProfileControllerProofs`, `ControllerQuietProofs`, `ProfileGateProofs`, `ApplyOutlineProofs`, `InterruptPathProofs`, `PollRateProofs`, `MagCalibrationProofs` | theorems | the modules they are about |
| `MC*` | the instances TLC checks | their module |

The composition to note is the middle one. `InterruptPath` needs an Apply that
may be anywhere, fail anywhere and be followed by another; writing registers
there would put the interleavings of both readers out of reach. So
`ApplyOutline` has Apply as this path sees it, `InterruptPath` uses its actions,
and `ProfileController` is shown to implement it, register by register
(`OutlineSpec`: checked on an instance, proved in general). What holds of the
path with the outline therefore holds with the Apply of the code.

### How they correspond to the code

*ProfileController.* A process (start-up, the two callbacks, each RPC call in
service) has a place `pc` and the profile `want` it asks for. `Lock` and `Skip`
are the entry of `Apply` (mutex, idempotence check); `DisablePoller`,
`DisableWatcher`, `AccelReset`, `GyroReset`, `Write` (once per bus write of
`Program(want)`), `ProgramDone`, `EnablePoller`, `EnableWatcher` and `Commit`
are its body. Every bus step has the branch in which the transaction fails,
with or without having reached the chip, and what the code then does: give up
and release the mutex, or, for the two latch clears and the gyroscope's
missing acknowledge, go on. `handleAlarmStatus` and `handlePmState` store the
value and derive under the subscriber's mutex, then queue for Apply outside it,
beside each other unless `Serial`. The RPC
handlers are `prepareHibernation`, `clearLatch`, `softReset` with the steps
`ResetAccel`, `ResetGyro`, `Invalidate`, `Current`. `Restart` is the process
dying anywhere, or exiting because the first Apply failed
(`systemd/librescoot-motion.service`, `Restart=always`); chip and Redis keep
what they hold. Start-up may meet any register contents a dead process left:
TLC starts from power-on contents and reaches the others through `Restart`.
One variable is history: `contested` says that the latest callback began while
somebody else was in an Apply or had one before it (`InService`), or that one
of these began after it while it was under way, or that a `prepare-hibernation`
came after it.

*The outline.* `Phase` maps the place of the mutex holder to a step of
`ApplyOutline`; within `program`, the number of the next write decides
(`PhaseOfWrite`): gyroscope, bandwidth and engine are `configure`, the output
pins and the two latch clears `settle`, then come the pin routing and, for the
slow-motion engine, its enable bits. `engine` and `routed` are read off
the interrupt-enable and pin-map registers.

*InterruptPath.* `Motion` latches the running engine; a mapped engine's rising
edge is a key press in the evdev queue or one that evdev misses. `Transient`
is the reassertion after a reset that Apply's second latch clear is there for;
`MappingEdge` is the edge that mapping an engine with a standing latch makes.
The watcher's steps are read, look at the gate, status, publish, clear; the
poller's are tick, status, publish, clear. Start-up opens the watcher, reads the
latch, runs the idle Apply, publishes `wake-hibernation` and stores
`wake-cause`. `Asked` is `clear-latch`, or the reset of a `soft-reset`, beside an
Apply. A profile that routes its engine to both pins and one that uses INT1
alone are one case: when INT1 is not wired to the evdev device, its edges are
missed edges, or the device is absent. Two variables are history: `owed` is set
when a motion latches behind an open gate, or while no process is there to open
one, and cleared when an event goes out or a later profile or call drops the
latch on purpose; `woken` follows the latch a process started with until
it is told.

*SensorStartup.* One device after the other is unbound: the kernel's driver is
told (`Unbind`), lets go later (`Released`), and is waited for
(`WaitForDetach`, which may time out). An error ends the loop and is only
logged. `Opens`, `OpenFails` are the attempts of `initSensors`: several for the
accelerometer and the gyroscope, after which the process exits, one for the
magnetometer, which is then done without.

*PollRate.* `Check`, `Store` and `Send` are the three steps of `SetRate`, `Load`
and `RateChange` those of `Run`, `Tick` and `Poll` a reading with the check of
`IsEnabled` before it. A setter goes to the sensor poller, the magnetometer's
and, for the RPCs, the status hash (`UpdateStatusField`, whose error is dropped).
A magnetometer that was not found is the nil `*MagPoller` that `app.go:200` puts
into the group. `lastWord` (history) names the latest request if no other was in
service with it; `late` counts readings since streaming was disabled.

*MagCalibration.* The step of the running `Finish` or `Reset` doubles as the
holder of `Collector.mu`. The disk is the set of contents the model file may
have after a power loss: rename and unlink add one, the directory's fsync leaves
one. A poll is `PollRead` (ReadAll, with the calibration of that moment; it may
fail, and ends the poll then),
`PollRevision` (a new revision empties the window and restarts the averages),
`PollAdd` (waits for the mutex), `PollEvaluate`, `PollPublish` (the event) and
`PollHash` (the hash, if the event went out). `mixed` is the set of revisions
that went into the averages.

*The store.* `Store` maps the disk's contents to the store's candidates, the file
to itself and the magnetometer's calibration to the one in force, except that a
start that has not yet handed it over (`loadActive`) counts as down. Rename and
unlink are `Save` and `Remove`, the directory's fsync is `Settle`, the collector's
calls of `apply` with a model and with nil are `Activate` and `Disable`. A
`Finish` whose directory fsync fails, or that dies before it, is a `Save`, perhaps
a `Settle`, and no `Activate`. What it left in the file is loaded by the next start
all the same; while that start cannot know that the directory was synced, this is
`LoadUnsettled`, and a power loss may undo it.

### What is abstracted

Data that no property tells apart: readings, fits, headings and timestamps;
`FitPlanar` yields a new model or refuses. The seven HSETs of one Apply are one
step that may leave the hash `mixed`. Sleeps are not modelled: they order
nothing that the program order does not. The register values a reset leaves and
the source does not state are blank; no property depends on them. The two
pollers run the same code, so one set of actions serves both. Calls that only
read (`get-calibration`, `calibration-status`) have no action.

## 3. The runs

Passing runs:

| run | instance | shows |
|---|---|---|
| `controller_faults` | three alarm statuses that arm each mode, one power-manager state, one RPC caller with soft-reset and clear-latch, one failed transaction anywhere, one crash anywhere; 1.4 million states | `MutualExclusion`, `GateClosed`, `GateTellsTruth`, and that the controller implements `ProfileGate` (`GateSpec`) and `ApplyOutline` (`OutlineSpec`), and that each Apply is `AllOrNothing` |
| `controller_quiet` | two RPC callers (symmetric) with all three methods, callbacks dispatched beside each other, one crash, no fault; 857 000 states | `QuietChipReady`, `LoneCallbackDecides`, `PrepareConfirms` |
| `controller_live` | callbacks dispatched concurrently, one caller, one fault, fairness | `DispatchContinues`, `CallsAnswered` |
| `interrupts` | two motions, one missed edge, three profiles or calls, one failed transaction, one crash, with and without evdev, fairness; 364 000 states | `NothingLost`, `NoEchoes`, `WakeTold`, `LatchServed`, `MotionReported` |
| `rates` | any mixture of bound and free kernel drivers, two failures at start-up, two attempts; then a vehicle callback and two calls of set-polling or set-streaming, three requests, suspended at first, fairness; 338 000 states | `NoLostWakeup`, `LastWordHeard`, `StreamStops`, `SensorsHeld`, `RateTakesEffect`, `ComesUp` |
| `calibration` | two fits, one reset, two failed file operations, readings or publications, one crash or power loss, fairness; 320 000 states | `RecordsAgree`, `FinishSurvives`, `NeverTorn`, `WindowFresh`, `ValidIsCalibrated`, `ResetDisablesHeading`, and that it implements `CalibrationStore` (`StoreSpec`) |

The `TypeOK` of each of these modules is checked too. What the properties say is
written above each of them.

**The bounds and why they are enough.** Faults and crashes are counted because
they could go on for ever. One fault already reaches every error path; one crash
reaches every half-finished Apply, and a fault *after* the crash is covered too;
both may happen in one behaviour. An Apply needs another one to disturb it, and
three processes (a callback, another callback or start-up, an RPC call) are
there. (`controller_faults` dispatches callbacks one at a time, `Serial`, which
only keeps its states few: the theorems about its properties hold either way.)
Both modes, both pin sets, the OR-ing and the assigning map function
and `idle` occur among the profiles. The two callers of `controller_quiet` are
what soft-reset against soft-reset needs. In `interrupts`, two motions are what
it takes for a clear to hit the wrong latch, two Applies for a handler to
outlive one, and the third request drops a latch in the middle of either; the
crash separates a process that latched from one that tells. In `rates`, a token
is lost only between two setters and the loop, and the third request is there
for the full channel; one vehicle rate is enough because set-polling supplies the
other one to go away from and come back to. Two attempts are one retry; two
failures end two starts. (The count of failures is set back when start-up is
over, only to keep states from differing in it.) In `calibration`, two models are
needed for an old one to come back, two faults for a failure after a failure;
`Warmup` = 2 and `Window` = 3 let the window warm up, fill and slide. (`Warmup` is
at least 2 in general: `headingQualityWarmup` is 5, `heading_quality.go:10`.) Counters
that grow without a bound in the code and are not named above (`revision`,
`next`, `reports`, `late`) are bounded by those that are. For every safety
property of these runs the bounds do not matter in the end: section 5 proves
them, the action property and the three refinements for all values (those of
`controller_quiet` as long as no transaction fails).

**Fairness and why the code justifies it.** *Weak* on everything a goroutine
does by itself once started: goroutines are scheduled, and a bus transaction
returns (it is a blocking ioctl the kernel times out; Apply does not look at its
context). Weak, too, on start-up and on what follows a process that is gone
(systemd, `Restart=always`), on the tickers, and on the kernel's release of a
device it was told to let go of. *Strong* on entering the controller's mutex:
Go's `sync.Mutex` hands itself to a waiter that has starved for a millisecond;
and on taking a token from `rateChange`, which polls interrupt again and
again: Go's `select` chooses among ready cases at random. *None* on what
others do: state changes, calls, motions, faults, crashes, missed edges.

**Deadlock** is checked except where the system stops by the model's bounds
(all requests used: `interrupts`, `rates`, `bug_wake`) or by the panic under
study (`bug_nomag`; `rates` reaches it too, and its properties hold up to it).

## 4. Findings

Runs in which TLC violates what a comment or the README says:

| run | what happens |
|---|---|
| `bug_prepare` | A failed Apply leaves `current` and `hasFirst` as they were, over a chip that has been reset. The next Apply of the recorded profile is skipped, and `prepare-hibernation` answers `Programmed: true` with the chip erased and both gates closed. |
| `bug_stale` | A callback derives the profile under `Subscriber.mu` and applies it after the unlock. Of two callbacks in flight the one that derived first may apply last: armed and hibernating, and the chip idle until a state changes again. |
| `bug_finish` | `writeAtomic` has renamed the new model over the old one before it syncs the directory. When that fails, Finish answers with an error and goes on with the previous calibration, but the previous model's file is gone: the next start loads the model of the Finish that failed. |
| `bug_wake` | The wake-up is read before the first Apply and told after it. When that Apply fails past its reset, the process exits with the latch gone, and the next one finds none: neither event nor `wake-cause`. |
| `bug_nomag` | Without a magnetometer, the first rate update calls `SetRate` on a nil `*MagPoller` and panics. One failed transaction is enough to be without: `NewMagnetometer` is the one constructor that is not retried (`app.go:322`). |
| `bug_heading` | A poll computes its heading without calibration, waits in `Add` for a running Finish, and then judges it by the calibration Finish made active: uncalibrated, and published as valid. |

`soft-reset` leads to two of them by ways of its own. It returns before
`Invalidate` when a reset reports an error although the accelerometer is erased
already, and the controller goes on trusting its record, the very case
`Invalidate`'s comment is about: the wrong answer of `bug_prepare`, which that
run finds too when `soft-reset` is among its `Methods`. And it takes the mutex
for `Current` and again for `Apply`, so that an Apply in between is undone by
the older profile: the state of `bug_stale`, which that run also reaches with
`Serial` dispatch and `soft-reset`.

The findings are why some properties of the passing runs are as they are.
`PrepareConfirms` and `QuietChipReady` are checked with a bus that never fails,
and say nothing of the time a soft-reset is in service; `GateTellsTruth` excepts
a chip that a soft-reset erased and no Apply has reset since (`erased`).
How far the code is from the two comments behind `bug_prepare` is a theorem:
`PrepareAnswers` and `ResetIsNoticed` have them hold until the first transaction
fails. `LoneCallbackDecides` is what is left of `DerivedProfile`: a callback that
had no other Apply beside it leaves the profile of the latest states, and
soft-resets after it keep it.
`WakeTold` is `WakeNotForgotten` without a failure and with one stop only.
`PanicsOnlyWithoutMag` is the other side of `bug_nomag`: with a magnetometer no
setter panics. `ValidIsCalibrated` is what is left of `HeadingFailsClosed`: a
heading that goes out as valid was computed with the calibration in force, unless
a Finish or a Reset has changed it since that poll looked at the revision.
`LastWordHeard` is what is left of setting both pollers "in unison"
(`app.go:134`): a vehicle update and a set-polling call that overlap may leave
the pollers at two rates and the hash with neither, until a request is served
alone. `RecordsAgree` excepts one more case (`unsure`): when the directory's
fsync fails after the rename, as in `bug_finish`. `FinishSurvives` protects an
acknowledged model up to the next rename, and `StoreSpec` lets a start load what
a failed Finish left; neither says that the previous model survives, and
`PreviousSurvives` is refuted. What they leave is that no start loads a torn file,
and that Finish itself makes no model active before it is on the disk.
`NothingLost` forgives (`Forgiven`) what is lost between chip, kernel and bus,
or to the readers having no lock: an edge that evdev missed, a transaction that failed after its effect,
and, without evdev, a poll that outlives the Apply it began under and then
clears a latch of the next profile.

## 5. The theorems

For every value of the constants that the named assumptions of the module allow:
any sets of callers, statuses, states, methods, rates; any bound on faults,
crashes, requests, motions, fits; with or without evdev, serial dispatch or a
magnetometer.

| theorem | of | states |
|---|---|---|
| `TypeCorrect` | each of the four state machines | `Spec => []TypeOK` |
| `MutexHeld`, `GateStaysClosed`, `OpenGateIsTrue` | `ProfileController` | `MutualExclusion`, `GateClosed`, `GateTellsTruth` |
| `GateImplemented` | | `Spec => GateSpec` |
| `OutlineImplemented` | | `Spec => OutlineSpec` |
| `ApplyAllOrNothing` | | `AllOrNothing` |
| `ApplyEnds` | | an Apply has at most `8 + Len(Program(p))` steps before it, each of its steps leaves fewer, and only a restart takes the mutex from it |
| `QuietChip`, `LoneCallbacksDecide`, `PrepareAnswers`, `PrepareIsSo`, `ResetIsNoticed` | | until a transaction fails: `QuietChipReady`, `LoneCallbackDecides` (any dispatch), `PrepareAnswer` at each step, `PrepareConfirms` for a bus that never fails, and `ResetInvalidates` |
| `ProgramReady` | `MotionChip` | when every write of `Program(p)` stands and the blanks hold nothing else, the registers are `Ready` for `p` |
| `MotionsKept`, `NoLatchEchoes`, `WakeUpsTold` | `InterruptPath` | `NothingLost`, `NoEchoes`, `WakeTold` |
| `WakeupsKept`, `StreamingStops`, `LastWordStands` | `PollRate` | `NoLostWakeup`, `StreamStops`, `LastWordHeard` |
| `HoldsItsSensors` | `PollRate` with `SensorStartup` | `SensorsHeld` |
| `PanicsOnlyWithoutMag` | `PollRate` | `NoPanic`, or a service that is up without a magnetometer |
| `FileNeverTorn`, `AcknowledgedSurvives`, `RecordsStayAgreed`, `WindowStaysFresh`, `ValidHeadingsCalibrated` | `MagCalibration` | `NeverTorn`, `FinishSurvives`, `RecordsAgree`, `WindowFresh`, `ValidIsCalibrated` |
| `KeepsItsStore` | | `Spec => StoreSpec` |

Assumptions: those named in the modules (`CallersAssumption`,
`MethodsAssumption`, `FlagsAssumption`, `BoundsAssumption`, `PathAssumption`,
`RatesAssumption`, `StartupAssumption`, `SettersAssumption`,
`SamplesAssumption`): names are distinct, flags Boolean, bounds and rates
numbers in their ranges. TLC evaluates them in every run.

### The open gate

`GateTellsTruth` is not inductive: it says nothing of the time
the gates are closed, and what makes it true when they open happened before.
`IInv` (theorem `Inductive`) adds, in named parts (`ProfileController.tla`):

* `LockInv`: exactly the process inside Apply holds the mutex;
* `FlagInv`: what each place inside Apply knows of the two gates;
* `ResetInv`: after Apply's own reset the *blank* registers are blank. These
  are the three that some profile leaves alone or ORs into;
* `ProgramInv`: the writes done so far *stand*, whatever else was written since;
* `ArmInv`: from the last write to the commit the registers are `Ready` for
  `want`;
* `OpenInv`: while a gate is open and nobody is arming, they are for `current`.

`ProgramInv` is the heart. `Standing(c, prog, n)` says that each write before the
`n`-th that must succeed is `Done` in `c`, and that a blank register holds nothing
or exactly what `prog` wrote there. `Done` is chosen so that writes of
the same program do not undo each other: no two of them touch a register with
different masks (`ProgramContents`). A latch clear, from Apply or from the
RPC, keeps everything standing (`StandingClear`), and a soft-reset is exempted by
`erased`. Then `ProgramReady` turns "all writes stand" into `Ready`, which is
stated from the profile table and not from the writes. The steps are proved in
three groups: processes outside Apply (`Outside`), those that give up (`Leave`)
and the holder of the mutex (`InsideParts`).

### The three refinements

`GateImplemented` follows from `IInv` step by step: a step that moves the gate
leaves the registers alone; a step that writes registers finds the gate closed,
or changes nothing (`ClearChangesNothing`), or is a reset on record.

`OutlineImplemented` needs to know, for an arbitrary profile, in which phase the
`n`-th write of `Program(p)` is and what it can do to the interrupt-enable and
map registers (`WriteAt`, from the shapes of the driver's sequences), and which
of these registers is still empty in which phase (`OutlineInv`: a reset beside
Apply only empties more). Each step is then one step of the outline
(`ApplyMapped`, `WriteMapped`, `GivesUpMapped`, `ApartMapped`) or a stutter.

`KeepsItsStore` needs of `MagCalibration` what its safety proofs found: `FileInv`,
that where Finish calls `apply` the directory has been synced and the file
holds the collector's model, and `RecordInv`, that the file is gone where Reset
calls it with nil. It promises nothing of a start but that it loads a whole model
or none, and which one. Each step is then one of the store's or a stutter
(`StoreStep`), the failing ones included.

### The whole Apply

Both theorems hold whatever fails. `ApplyAllOrNothing` rests on `IInv` and
`OpenedInv`, the gates at the commit are those of the profile: `ArmInv` has the
chip `Ready` there, `FlagInv` both gates closed wherever a caller gives up, and
nobody else can move a gate, the record or the mutex meanwhile (`EitherWay`,
`AloneAfter`). `ApplyEnds` counts the steps left from each place (`StepsLeft`);
`ProgramInv` bounds the number of the next write.

### The quiet controller

`QuietInv` (`ControllerQuietProofs`) holds as long as `faults` is 0, restarts
included. Its parts: `RecordInv`, a record that stands while nobody is in Apply is that of
the gates, the hash and, unless erased, the chip; `ErasedInv`, whoever erased the
chip beside Apply is about to clear the record, or has, and then only an Apply
that still has its own reset to do is in service; `FirstInv`, a cleared record is
due for an Apply by the soft-reset that cleared it; `StartInv`, before the
service is up everything is idle; `LoneInv`, while nobody contests the latest
callback, it wants what the states call for and is the only one to apply, and
once it is done whoever is about to apply wants the profile it left. `ErasedInv` is what makes
any number of overlapping soft-resets harmless: the order reset, Invalidate, Apply
of the handler is exactly what it rests on, and a soft-reset that fails half-way
(section 4) breaks it.

### The interrupt path

The base is `TypeOK` with `BootInv` (before start-up is through the gates are
closed, the readers idle and only the first Apply runs), `RouteInv` (nothing is
mapped before Apply routes) and `KeyInv` (each key press stands for a motion of
its own). `WakeUpsTold` adds `WakeInv`, where the latch found at start-up is at
each step. `NoLatchEchoes` is a counting argument: `EchoInv` adds to the events
published the ones that may still be: a key press waiting or about to be made by
a mapping, the watcher, the poller, start-up, and a latch the poller or the next
start may still see. No step makes that sum grow by more than what `2 * motions +
faults + crashes` grows by. `MotionsKept` adds `LossInv`: who has an owed motion
in hand while nothing fails (`OwedInv`, `ClosedInv`); a source about to clear has
told of all but a later motion, whose key press is still there (`WatcherInv`);
without evdev, no latch goes while the poller reports it (`AloneInv`).

### Rates and calibration

`HoldsItsSensors` carries `HeldInv` through start-up: what lies before the device
being opened is free, and no later step of unbinding or restart hands a device
back to the kernel. `PanicsOnlyWithoutMag` adds `PollersInv`: requests come to a
service that is up, in which only the magnetometer's poller can be absent.

`NoLostWakeup` is inductive as it stands. `StreamStops` adds that there are no
late readings but of a poll begun before (`StreamInv`), `LastWordHeard` what a
request that is alone has done at each of its steps (`LoneInv`).

`FileInv` says what each step of `SaveModel` and `Reset` has done to file and
disk; `NeverTorn` and `FinishSurvives` are in it. `RecordInv` says at which steps
of which call the three records may differ. `PollInv` rests on the revision only
growing: a field read with the newest revision is of the window's.
`ValidIsCalibrated` adds `JudgedInv`: a reading taken under the newest revision was
computed with the calibration in force, and a verdict under the newest revision
is about such a reading, because one that met a new revision finds its window
emptied and too short for a verdict (`Warmup` > 1).

### Only model-checked

Every liveness property (`DispatchContinues`, `CallsAnswered`, `LatchServed`,
`MotionReported`, `RateTakesEffect`, `ComesUp`, `ResetDisablesHeading`): liveness
under fairness, and ENABLED, are out of the prover's reach. `ApplyEnds` is the safety
part of the first two: that the mutex they wait for is given back after boundedly
many steps; that these are taken, and that every waiter gets its turn, TLC checks. The properties of
the violating runs are refuted, not proved.

## 6. Not modelled, and why

* The numerics: `FitPlanar`, trim compensation, tilt, heading smoothing, accuracy
  and the thresholds of the quality window. Floating point arithmetic on
  readings.
* The age limits of the IMU snapshot and the sensor cache: they need clock time.
* The gyroscope bias estimate and the data reads: data. The driver's single-pin
  functions, which nothing calls.
* Shutdown in order: the deferred `closeSensors` runs under goroutines that may
  still be in an Apply. To them it is transactions that fail and then the end of
  the process, which is what faults and crashes are.
* A start without magnetometer over a hash that still says `heading-valid`:
  nobody sets it to false (`MagCalibration` starts with a magnetometer). No
  document says what should be.
* `polling-rate-hz` after a vehicle update, which does not write it.
* The publisher's encoding, `PublishReady`, `PublishStatus` and the fields that
  are written once or read by nobody here. Its failures are in the modules that
  call it. The command lines; `motion-calibrate`, a sequential offline tool.
* redis-ipc is external. How it dispatches callbacks is a parameter (`Serial`):
  one at a time, or each watcher for itself. The two status hashes may hold values
before the service starts; that the library calls back for these is its promise
(`subscribers.go:54`), and `ProfileController` starts with both unset.

## 7. What could follow

1. The thresholds of the heading quality window as operators over small integer
   inputs, against a reference definition.
2. Telemetry ages with a discrete clock: the IMU snapshot a heading is tilted
   with, and the cache that serves it.
3. `motion-calibrate`'s capture file and the model it writes, if it is ever run
   beside the service.
