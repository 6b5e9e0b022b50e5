--------------------------- MODULE InterruptPath ---------------------------
(***************************************************************************)
(* From a motion to an event on motion:interrupt: the accelerometer's      *)
(* latch, the evdev path (poller.InterruptWatcher), its watchdog           *)
(* (poller.InterruptPoller), the gates profile.Controller puts in front of *)
(* both, and the start-up of app.Run, which turns a motion that was        *)
(* latched while nothing ran into the wake cause.  Apply is the one of     *)
(* ApplyOutline.  The process may die anywhere (or the vehicle hibernate); *)
(* the chip goes on.                                                       *)
(*                                                                         *)
(* A bus transaction or a publication that fails may have had its effect.  *)
(***************************************************************************)
EXTENDS Naturals

CONSTANTS
  MaxMotions,   \* bound on how often an engine latches
  MaxMissed,    \* bound on rising edges the evdev device misses
  MaxRequests,  \* bound on profiles applied, and latches dropped, on request
  MaxFaults,    \* bound on failed transactions
  MaxCrashes    \* bound on how often the process dies or is suspended for good

ASSUME PathAssumption ==
  {MaxMotions, MaxMissed, MaxRequests, MaxFaults, MaxCrashes} \subseteq Nat

VARIABLES
  pollerOn, watcherOn, engine, routed, apply, want,  \* see ApplyOutline
  latch,     \* the engine named by INT_STATUS_0, or None
  keys,      \* key presses waiting in the evdev device
  watcher,   \* the next step of InterruptWatcher.Run; "absent" if Open failed
  poller,    \* the next step of InterruptPoller.Run
  boot,      \* the next step of app.Run, or "up"
  wake,      \* its wakeFromHibernation
  owed,      \* history: a motion latched behind an open gate, or while nothing
             \* ran, is not published
  woken,     \* history: what became of the latch a process started with: "no",
             \* "latched", then "read", and "no" again when it is told
  motions, reports,                \* history: how often latched, published
  missed, requests, faults, crashes \* how much of the bounds is used

Controller == INSTANCE ApplyOutline

Engines == Controller!Engines
None    == Controller!None

gates   == << pollerOn, watcherOn >>
outline == << gates, engine, routed, apply, want >>
evdev   == << keys, missed >>
readers == << watcher, poller >>
startup == << boot, wake, woken >>
history == << owed, motions, reports >>
bounds  == << requests, faults, crashes >>
vars == << outline, latch, evdev, readers, startup, history, bounds >>

TypeOK ==
  /\ Controller!TypeOK
  /\ latch \in Engines \cup {None}
  /\ keys \in 0 .. MaxMotions /\ missed \in 0 .. MaxMissed
  /\ watcher \in {"read", "gate", "status", "publish", "clear", "stopped", "absent"}
  /\ poller \in {"tick", "status", "publish", "clear"}
  /\ boot \in {"down", "wake", "first", "applying", "exited", "event", "field", "up"}
  /\ wake \in BOOLEAN /\ woken \in {"no", "latched", "read"}
  /\ owed \in BOOLEAN /\ motions \in 0 .. MaxMotions /\ reports \in Nat
  /\ requests \in 0 .. MaxRequests /\ faults \in 0 .. MaxFaults /\ crashes \in 0 .. MaxCrashes

(* The chip has just been powered. *)
Init ==
  /\ Controller!Init /\ engine = None /\ ~routed
  /\ latch = None
  /\ keys = 0 /\ missed = 0
  /\ watcher = "absent" /\ poller = "tick"
  /\ boot = "down" /\ wake = FALSE /\ woken = "no"
  /\ owed = FALSE /\ motions = 0 /\ reports = 0
  /\ requests = 0 /\ faults = 0 /\ crashes = 0

HasWatcher == watcher # "absent"

GateOpen == pollerOn /\ (HasWatcher => watcherOn)

Fault   == faults < MaxFaults /\ faults' = faults + 1 /\ UNCHANGED << requests, crashes >>
Request == requests < MaxRequests /\ requests' = requests + 1 /\ UNCHANGED << faults, crashes >>

-----------------------------------------------------------------------------
(* PublishMotionEvent: an error is logged and the handler goes on. *)
Published == reports' = reports + 1 /\ owed' = FALSE

Publish ==
  \/ Published /\ UNCHANGED bounds
  \/ Fault /\ (Published \/ UNCHANGED << reports, owed >>)

(* ClearLatchedInterrupt: likewise. *)
ClearLatch ==
  \/ latch' = None /\ UNCHANGED bounds
  \/ Fault /\ latch' \in {latch, None}

-----------------------------------------------------------------------------
(* The chip.  A latched engine drives the pins it is mapped to; the rising  *)
(* edge is a key press, which evdev queues unless it misses it.             *)
RisingEdge ==
  \/ HasWatcher /\ keys' = keys + 1 /\ UNCHANGED missed
  \/ HasWatcher /\ missed < MaxMissed /\ missed' = missed + 1 /\ UNCHANGED keys
  \/ ~HasWatcher /\ UNCHANGED evdev

Latches(e) ==
  /\ latch = None /\ motions < MaxMotions
  /\ latch' = e /\ motions' = motions + 1
  /\ IF routed THEN RisingEdge ELSE UNCHANGED evdev
  /\ UNCHANGED << outline, readers, startup, reports, bounds >>

(* A motion nobody has to report is one behind a closed gate, unless that   *)
(* is because the process is not there to open it, or one of an engine that *)
(* a soft-reset beside an Apply has left without a pin: its own Apply is    *)
(* still to come.                                                           *)
Motion ==
  /\ engine # None /\ Latches(engine)
  /\ owed' = (owed \/ (routed /\ (GateOpen \/ boot \in {"down", "wake"})))

(* The accelerometer can reassert a latch while its reset settles.          *)
Transient == apply = "settle" /\ (\E e \in Engines : Latches(e)) /\ UNCHANGED owed

(* The RPCs clear-latch and soft-reset drop a latch because they are asked  *)
(* to; the Apply that ends a soft-reset is one of those below.              *)
Asked ==
  /\ boot = "up" /\ (Controller!OtherReset \/ UNCHANGED outline) /\ Request
  /\ latch' = None /\ owed' = FALSE
  /\ UNCHANGED << evdev, readers, startup, motions, reports >>

-----------------------------------------------------------------------------
(* Controller.Apply: the outline, the latch, and mapping an engine that has *)
(* latched already, which raises the pin.                                   *)
MappingEdge ==
  IF routed' /\ ~routed /\ latch = want THEN RisingEdge ELSE UNCHANGED evdev

(* A callback or a call, once app.Run has started them.                     *)
Applies(e) ==
  /\ boot = "up" /\ Controller!DisablePoller(e) /\ Request
  /\ owed' = FALSE
  /\ UNCHANGED << latch, evdev, readers, startup, motions, reports >>

Reset ==
  /\ Controller!Reset /\ latch' = None
  /\ UNCHANGED << evdev, readers, startup, history, bounds >>

(* The second latch clear, after the settle period, only warns on failure.  *)
Settle ==
  /\ Controller!Settle
  /\ ClearLatch
  /\ UNCHANGED << evdev, readers, startup, history >>

(* The first Apply of app.Run ends with the routing, idle opens no gate.    *)
Route ==
  /\ Controller!Route /\ MappingEdge
  /\ boot' = (IF boot = "applying" /\ apply' = "rest" THEN "event" ELSE boot)
  /\ UNCHANGED << latch, readers, wake, woken, history, bounds >>

OtherStep ==
  /\ \/ Controller!DisableWatcher \/ Controller!Configure \/ Controller!Enable
     \/ Controller!OpenPoller
     \/ Controller!OpenWatcher /\ watcherOn' = HasWatcher
  /\ UNCHANGED << latch, evdev, readers, startup, history, bounds >>

(* app.Run returns the error of the first Apply: the process exits.         *)
GivesUp ==
  /\ Controller!GivesUp /\ Fault /\ MappingEdge
  /\ latch' \in (IF apply \in {"reset", "settle"} THEN {latch, None} ELSE {latch})
  /\ boot' = (IF boot = "applying" THEN "exited" ELSE boot)
  /\ UNCHANGED << readers, wake, woken, history >>

ApplyStep == Reset \/ Settle \/ Route \/ OtherStep

-----------------------------------------------------------------------------
(* app.Run: the watcher is opened, the latch is read, the idle profile is   *)
(* applied, and the wake-up is told as an event and in the field wake-cause. *)
OpenWatcher ==
  /\ boot = "down" /\ boot' = "wake" /\ wake' = FALSE
  /\ watcher' \in {"read", "absent"}
  /\ woken' = (IF latch # None THEN "latched" ELSE woken)
  /\ UNCHANGED << outline, latch, evdev, poller, history, bounds >>

(* mutant of ReadWakeLatch: only the slope bit of the status is looked at *)
ReadWakeLatchSlope ==
  /\ boot = "wake" /\ boot' = "first"
  /\ \/ /\ wake' = (latch = "any-motion") /\ woken' = (IF wake' THEN "read" ELSE woken)
        /\ UNCHANGED bounds
     \/ Fault /\ UNCHANGED << wake, woken >>
  /\ UNCHANGED << outline, latch, evdev, readers, history >>

(* A status that cannot be read is no wake-up. *)
ReadWakeLatch ==
  /\ boot = "wake" /\ boot' = "first"
  /\ \/ wake' = (latch # None) /\ woken' = (IF wake' THEN "read" ELSE woken) /\ UNCHANGED bounds
     \/ Fault /\ UNCHANGED << wake, woken >>
  /\ UNCHANGED << outline, latch, evdev, readers, history >>

FirstApply ==
  /\ boot = "first" /\ boot' = "applying" /\ Controller!DisablePoller(None)
  /\ UNCHANGED << latch, evdev, readers, wake, woken, history, bounds >>

(* mutant of PublishWake: the event is left to the field *)
PublishWakeNever ==
  /\ boot = "event" /\ boot' = (IF wake THEN "field" ELSE "up")
  /\ UNCHANGED << reports, owed, woken, bounds >>
  /\ UNCHANGED << outline, latch, evdev, readers, wake, motions >>

PublishWake ==
  /\ boot = "event" /\ boot' = (IF wake THEN "field" ELSE "up")
  /\ IF wake THEN Publish /\ woken' = (IF reports' # reports THEN "no" ELSE woken)
             ELSE UNCHANGED << reports, owed, woken, bounds >>
  /\ UNCHANGED << outline, latch, evdev, readers, wake, motions >>

StoreWake ==
  /\ boot = "field" /\ boot' = "up"
  /\ \/ woken' = "no" /\ UNCHANGED bounds
     \/ Fault /\ woken' \in {woken, "no"}
  /\ UNCHANGED << outline, latch, evdev, readers, wake, history >>

BootStep == OpenWatcher \/ ReadWakeLatch \/ FirstApply \/ PublishWake \/ StoreWake

(* What only the dead process knew of is gone: a motion whose latch it had  *)
(* cleared, the key presses it had not read.                                *)
Gone ==
  /\ Controller!Dies /\ boot' = "down" /\ wake' = FALSE
  /\ keys' = 0 /\ watcher' = "absent" /\ poller' = "tick"
  /\ owed' = (owed /\ latch # None)
  /\ UNCHANGED << latch, missed, woken, motions, reports, requests, faults >>

Exit  == boot = "exited" /\ Gone /\ UNCHANGED crashes
Crash == boot # "down" /\ crashes < MaxCrashes /\ crashes' = crashes + 1 /\ Gone

-----------------------------------------------------------------------------
(* InterruptWatcher.Run: read a key press, look at the gate, handleEdge.    *)
(* The status read only names the engine in the event.                      *)

(* mutant of WatcherRead: it does not wait for a key press *)
WatcherReadAnytime ==
  /\ watcher = "read"
  /\ keys' = keys - 1 /\ watcher' = "gate"
  /\ UNCHANGED << outline, latch, missed, poller, startup, history, bounds >>

WatcherRead ==
  /\ watcher = "read" /\ keys > 0
  /\ keys' = keys - 1 /\ watcher' = "gate"
  /\ UNCHANGED << outline, latch, missed, poller, startup, history, bounds >>

WatcherGate ==
  /\ watcher = "gate"
  /\ watcher' = (IF watcherOn THEN "status" ELSE "read")
  /\ UNCHANGED << outline, latch, evdev, poller, startup, history, bounds >>

(* mutant of WatcherStatus: an edge whose latch is gone is not published *)
WatcherStatusNeedsLatch ==
  /\ watcher = "status" /\ watcher' = (IF latch = None THEN "read" ELSE "publish")
  /\ Fault \/ UNCHANGED bounds
  /\ UNCHANGED << outline, latch, evdev, poller, startup, history >>

WatcherStatus ==
  /\ watcher = "status" /\ watcher' = "publish"
  /\ Fault \/ UNCHANGED bounds
  /\ UNCHANGED << outline, latch, evdev, poller, startup, history >>

WatcherPublish ==
  /\ watcher = "publish" /\ watcher' = "clear" /\ Publish
  /\ UNCHANGED << outline, latch, evdev, poller, startup, motions >>

WatcherClear ==
  /\ watcher = "clear" /\ watcher' = "read" /\ ClearLatch
  /\ UNCHANGED << outline, evdev, poller, startup, history >>

(* The device is gone: Run returns. *)
WatcherStops ==
  /\ watcher = "read" /\ Fault /\ watcher' = "stopped"
  /\ UNCHANGED << outline, latch, evdev, poller, startup, history >>

WatcherStep == WatcherRead \/ WatcherGate \/ WatcherStatus \/ WatcherPublish \/ WatcherClear

(* InterruptPoller.Run: look at the gate once a second, checkInterrupt.     *)

(* mutant of PollerTick: the poller leaves everything to evdev *)
PollerTickAlone ==
  /\ poller = "tick" /\ pollerOn /\ ~HasWatcher
  /\ poller' = "status"
  /\ UNCHANGED << outline, latch, evdev, watcher, startup, history, bounds >>

PollerTick ==
  /\ poller = "tick" /\ pollerOn
  /\ poller' = "status"
  /\ UNCHANGED << outline, latch, evdev, watcher, startup, history, bounds >>

PollerStatus ==
  /\ poller = "status"
  /\ \/ poller' = (IF latch = None THEN "tick" ELSE "publish") /\ UNCHANGED bounds
     \/ poller' = "tick" /\ Fault
  /\ UNCHANGED << outline, latch, evdev, watcher, startup, history >>

PollerPublish ==
  /\ poller = "publish" /\ poller' = "clear" /\ Publish
  /\ UNCHANGED << outline, latch, evdev, watcher, startup, motions >>

(* mutant of PollerClear: the latch is left standing *)
PollerClearForgotten ==
  /\ poller = "clear" /\ poller' = "tick"
  /\ UNCHANGED << outline, latch, evdev, watcher, startup, history, bounds >>

PollerClear ==
  /\ poller = "clear" /\ poller' = "tick" /\ ClearLatch
  /\ UNCHANGED << outline, evdev, watcher, startup, history >>

PollerStep == PollerTick \/ PollerStatus \/ PollerPublish \/ PollerClear

-----------------------------------------------------------------------------
Next ==
  \/ Motion \/ Transient \/ Asked
  \/ \E e \in Engines \cup {None} : Applies(e)
  \/ ApplyStep \/ GivesUp
  \/ BootStep \/ Exit \/ Crash
  \/ WatcherStep \/ WatcherStops \/ PollerStep

Spec == Init /\ [][Next]_vars

(* The tickers fire, the goroutines are scheduled, systemd starts a process *)
(* that is not there (Restart=always); motions, profiles, calls, missed     *)
(* edges, faults and crashes are nobody's duty.                             *)
Fairness ==
  /\ WF_vars(ApplyStep) /\ WF_vars(BootStep \/ Exit)
  /\ WF_vars(WatcherStep) /\ WF_vars(PollerStep)

FairSpec == Spec /\ Fairness

-----------------------------------------------------------------------------
(* Properties *)

(* Who will still publish a motion that is owed: the poller or the next     *)
(* start-up finds the latch, the watcher finds the key press, or one of     *)
(* them has found it.                                                       *)
InHand ==
  \/ latch # None
  \/ keys > 0 \/ watcher \in {"gate", "status", "publish"}
  \/ poller = "publish"
  \/ wake /\ boot \in {"applying", "event"}

(* The two sources share one latch and clear it without a lock between      *)
(* them, and start-up clears it before it tells of it, yet none takes away  *)
(* a motion that nobody reports: clearing the latch of a later motion is    *)
(* made good by that motion's key press.  This needs an evdev device that   *)
(* misses nothing and transactions that succeed; without the device it      *)
(* needs that no poll outlives an Apply, or a clear-latch call.             *)
Forgiven == missed > 0 \/ faults > 0 \/ (~HasWatcher /\ requests > 1)
NothingLost == owed /\ ~Forgiven => InHand

(* ... and so each such motion is published in the end, by whichever        *)
(* process is up by then, unless a profile or a call drops it.              *)
MotionReported == owed ~> (~owed \/ Forgiven)

(* A latched engine cannot latch again, so while the gate is open the latch  *)
(* is always cleared in the end, whatever evdev missed, whatever failed and  *)
(* whatever was latched before the gate opened (the watchdog of the comment  *)
(* on InterruptWatcher).                                                     *)
LatchServed == (latch # None /\ pollerOn) ~> (latch = None \/ ~pollerOn)

(* One motion makes at most two events, one from each source, and a failed   *)
(* clear or a restart at most one more: no latch is reported over and over.  *)
NoEchoes == reports <= 2 * motions + faults + crashes

(* A latch that stands when a process starts has been told as a wake-up,     *)
(* though the first Apply cleared it, once start-up is through with no       *)
(* failure and no second stop.                                               *)
WakeTold == boot = "up" /\ faults = 0 /\ crashes <= 1 => woken = "no"

(* A wake-up that start-up has seen is told by the time a process is up      *)
(* (README: on startup, a latched motion interrupt is published as a         *)
(* wake-hibernation event and stored as motion.wake-cause).                  *)
WakeNotForgotten == boot = "up" => woken # "read"
=============================================================================
