------------------------- MODULE ProfileController -------------------------
(***************************************************************************)
(* profile.Controller and everything that drives it: the start-up Apply of *)
(* app.Run, the two hash-watcher callbacks of redis.Subscriber, and the    *)
(* RPC handlers that touch the chip or the controller.  One action is one  *)
(* bus transaction, one atomic flag store or one critical section.         *)
(*                                                                         *)
(* The bus may fail: a failed transaction returns an error whether or not  *)
(* the chip took it.  At most MaxFaults transactions fail.                 *)
(***************************************************************************)
EXTENDS MotionChip

CONSTANTS
  AlarmStatuses,   \* values the hash "alarm", field "status", takes
  PmStates,        \* values the hash "power-manager", field "state", takes
  Callers,         \* RPC calls in service at the same time
  Methods,         \* the RPC methods they call
  NoOne,           \* nobody holds Controller.mu
  Serial,          \* are the watchers' callbacks dispatched one at a time?
  HasWatcher,      \* was the evdev device found?
  MaxFaults,       \* bound on failed bus or Redis transactions
  MaxCrashes       \* bound on crashes of the process

Handlers == {"alarm", "pm"}
Main     == "main"
Procs    == {Main} \cup Handlers \cup Callers
AllMethods == {"prepare-hibernation", "soft-reset", "clear-latch"}

ASSUME CallersAssumption == Callers \cap ({Main} \cup Handlers) = {} /\ NoOne \notin Procs
ASSUME MethodsAssumption == Methods \subseteq AllMethods
ASSUME FlagsAssumption   == {Serial, HasWatcher} \subseteq BOOLEAN
ASSUME BoundsAssumption  == MaxFaults \in Nat /\ MaxCrashes \in Nat

VARIABLES
  alarmStatus, pmState,     \* Subscriber.alarmStatus, Subscriber.pmState
  mu,                       \* Controller.mu: its holder or NoOne
  current, hasFirst,        \* Controller.current, Controller.hasFirst
  pollerOn, watcherOn,      \* the enabled flags of the two interrupt sources
  chip,                     \* the BMX055 registers
  pc,                       \* where each process is
  want,                     \* the argument of its Apply
  op,                       \* the method an RPC call serves
  next,                     \* the next write of the running Apply
  status,                   \* the profile the Redis hash "motion" tells
  erased,                   \* history: reset outside Apply since Apply's last reset
  contested,                \* history: was the latest callback not the only one to apply?
  faults, crashes           \* how much of the two bounds is used

subscriber == << alarmStatus, pmState >>
controller == << mu, current, hasFirst >>
gates      == << pollerOn, watcherOn >>
calls      == << pc, want, op >>
bounds     == << faults, crashes >>
history    == << erased, contested >>
vars == << subscriber, controller, gates, chip, calls, next, status, history, bounds >>

(* Labels.  "programming" is the part of Apply between the two gates. *)
Resetting   == {"accelReset", "gyroReset"}
Programming == Resetting \cup {"program"}
Arming      == {"enablePoller", "enableWatcher", "commit"}
Applying    == {"disablePoller", "disableWatcher"} \cup Programming \cup Arming
InSoftReset == {"resetAccel", "resetGyro", "invalidate", "getCurrent"}
Labels == {"idle", "lock", "serving", "exited", "clear"} \cup Applying \cup InSoftReset

TypeOK ==
  /\ alarmStatus \in AlarmStatuses \cup {""}
  /\ pmState \in PmStates \cup {""}
  /\ mu \in Procs \cup {NoOne}
  /\ current \in Profiles /\ hasFirst \in BOOLEAN
  /\ pollerOn \in BOOLEAN /\ watcherOn \in BOOLEAN
  /\ chip \in Registers
  /\ pc \in [Procs -> Labels]
  /\ want \in [Procs -> Profiles]
  /\ op \in [Callers -> Methods \cup {"none"}]
  /\ next \in Nat \ {0}
  /\ status \in Profiles \cup {"unset", "mixed"}
  /\ erased \in BOOLEAN /\ contested \in BOOLEAN
  /\ faults \in 0 .. MaxFaults /\ crashes \in 0 .. MaxCrashes

(* A new process: the controller is fresh, both interrupt sources start     *)
(* disabled, and main is about to apply the idle profile.                   *)
Fresh ==
  /\ alarmStatus = "" /\ pmState = ""
  /\ mu = NoOne /\ current = "idle" /\ hasFirst = FALSE
  /\ pollerOn = FALSE /\ watcherOn = FALSE
  /\ pc = [p \in Procs |-> IF p = Main THEN "lock" ELSE "idle"]
  /\ want = [p \in Procs |-> "idle"]
  /\ op = [c \in Callers |-> "none"]
  /\ next = 1

Init ==
  /\ Fresh
  /\ chip = PowerOn /\ status = "unset" /\ erased = FALSE /\ contested = FALSE
  /\ faults = 0 /\ crashes = 0

Started == pc[Main] = "serving"

-----------------------------------------------------------------------------
Goto(p, label) == pc' = [pc EXCEPT ![p] = label]
(* mutant of Ends: the answer of a call is never sent *)
EndsUnanswered(p) == op' = [c \in Callers |-> op[c]]
Ends(p) == op' = [c \in Callers |-> IF c = p THEN "none" ELSE op[c]]

(* Apply, or the handler around it, returns nil ...                        *)
Succeeds(p) ==
  /\ Goto(p, IF p = Main THEN "serving" ELSE "idle")
  /\ want' = [want EXCEPT ![p] = "idle"]
  /\ Ends(p)

(* ... or an error; app.Run then returns and the process exits.            *)
Fails(p) ==
  /\ Goto(p, IF p = Main THEN "exited" ELSE "idle")
  /\ want' = [want EXCEPT ![p] = "idle"]
  /\ Ends(p)

Fault == faults < MaxFaults /\ faults' = faults + 1 /\ UNCHANGED crashes

-----------------------------------------------------------------------------
(* Controller.Apply(want[p]) *)

Holds(p, label) == mu = p /\ pc[p] = label

(* mutant of Lock: Apply without Controller.mu *)
LockAnytime(p) ==
  /\ pc[p] = "lock" /\ ~(hasFirst /\ current = want[p])
  /\ mu' = p /\ Goto(p, "disablePoller")
  /\ UNCHANGED << subscriber, current, hasFirst, gates, chip, want, op, next, status, history, bounds >>

Lock(p) ==
  /\ pc[p] = "lock" /\ mu = NoOne
  /\ ~(hasFirst /\ current = want[p])
  /\ mu' = p /\ Goto(p, "disablePoller")
  /\ UNCHANGED << subscriber, current, hasFirst, gates, chip, want, op, next, status, history, bounds >>

(* mutant of Skip: any first profile makes Apply idempotent *)
SkipAny(p) ==
  /\ pc[p] = "lock" /\ mu = NoOne /\ hasFirst
  /\ Succeeds(p)
  /\ UNCHANGED << subscriber, controller, gates, chip, next, status, history, bounds >>

Skip(p) ==
  /\ pc[p] = "lock" /\ mu = NoOne
  /\ hasFirst /\ current = want[p]
  /\ Succeeds(p)
  /\ UNCHANGED << subscriber, controller, gates, chip, next, status, history, bounds >>

DisablePoller(p) ==
  /\ Holds(p, "disablePoller")
  /\ pollerOn' = FALSE /\ Goto(p, "disableWatcher")
  /\ UNCHANGED << subscriber, controller, watcherOn, chip, want, op, next, status, history, bounds >>

(* mutant of DisableWatcher: the evdev path is not gated *)
DisableWatcherForgotten(p) ==
  /\ Holds(p, "disableWatcher") /\ Goto(p, "accelReset")
  /\ UNCHANGED << subscriber, controller, gates, chip, want, op, next, status, history, bounds >>

DisableWatcher(p) ==
  /\ Holds(p, "disableWatcher")
  /\ watcherOn' = FALSE /\ Goto(p, "accelReset")
  /\ UNCHANGED << subscriber, controller, pollerOn, chip, want, op, next, status, history, bounds >>

(* mutant of GivesUp: the unlock is not deferred *)
GivesUpLocked(p) == mu' = mu /\ Fails(p) /\ next' = 1

(* Apply gives up: the deferred unlock, and an error to the caller.        *)
GivesUp(p) == mu' = NoOne /\ Fails(p) /\ next' = 1

AccelReset(p) ==
  /\ Holds(p, "accelReset")
  /\ \/ /\ chip' = AccelErased(chip) /\ Goto(p, "gyroReset")
        /\ UNCHANGED << mu, want, op, next, bounds >>
     \/ /\ Fault /\ GivesUp(p)
        /\ chip' \in {chip, AccelErased(chip)}
  /\ UNCHANGED << subscriber, current, hasFirst, gates, status, history >>

(* gyro.SoftReset swallows a failed write when the chip answers its ID     *)
(* afterwards, and fails only when the chip does not answer.               *)
GyroReset(p) ==
  /\ Holds(p, "gyroReset")
  /\ \/ /\ Goto(p, "program") /\ erased' = FALSE /\ next' = 1
        /\ \/ chip' = GyroErased(chip) /\ UNCHANGED bounds
           \/ Fault /\ chip' \in {chip, GyroErased(chip)}
        /\ UNCHANGED << mu, want, op >>
     \/ /\ Fault /\ GivesUp(p)
        /\ chip' \in {chip, GyroErased(chip)}
        /\ UNCHANGED erased
  /\ UNCHANGED << subscriber, current, hasFirst, gates, status, contested >>

(* mutant of Write: an error of the bus is only logged *)
WriteUnchecked(p) ==
  /\ Holds(p, "program") /\ next \in DOMAIN Program(want[p])
  /\ next' = next + 1
  /\ \/ chip' = Written(chip, Program(want[p])[next]) /\ UNCHANGED bounds
     \/ Fault /\ UNCHANGED chip
  /\ UNCHANGED << subscriber, controller, gates, calls, status, history >>

(* One write of the program.  The two latch clears only warn on failure.   *)
Write(p) ==
  /\ Holds(p, "program") /\ next \in DOMAIN Program(want[p])
  /\ LET w == Program(want[p])[next]
     IN \/ /\ chip' = Written(chip, w) /\ next' = next + 1
           /\ UNCHANGED << mu, calls, bounds >>
        \/ /\ Fault /\ chip' \in {chip, Written(chip, w)}
           /\ IF w.must THEN GivesUp(p)
                        ELSE next' = next + 1 /\ UNCHANGED << mu, calls >>
  /\ UNCHANGED << subscriber, current, hasFirst, gates, status, history >>

(* mutant of ProgramDone: EnableInterrupt is not consulted *)
ProgramDoneAlwaysEnables(p) ==
  /\ Holds(p, "program") /\ next \notin DOMAIN Program(want[p])
  /\ next' = 1 /\ Goto(p, "enablePoller")
  /\ UNCHANGED << subscriber, controller, gates, chip, want, op, status, history, bounds >>

ProgramDone(p) ==
  /\ Holds(p, "program") /\ next \notin DOMAIN Program(want[p])
  /\ next' = 1
  /\ Goto(p, IF Configs(want[p]).enable THEN "enablePoller" ELSE "commit")
  /\ UNCHANGED << subscriber, controller, gates, chip, want, op, status, history, bounds >>

EnablePoller(p) ==
  /\ Holds(p, "enablePoller")
  /\ pollerOn' = TRUE /\ Goto(p, "enableWatcher")
  /\ UNCHANGED << subscriber, controller, watcherOn, chip, want, op, next, status, history, bounds >>

(* mutant of EnableWatcher: only the poller is switched on again *)
EnableWatcherForgotten(p) ==
  /\ Holds(p, "enableWatcher") /\ Goto(p, "commit")
  /\ UNCHANGED << subscriber, controller, gates, chip, want, op, next, status, history, bounds >>

EnableWatcher(p) ==
  /\ Holds(p, "enableWatcher")
  /\ watcherOn' = HasWatcher /\ Goto(p, "commit")
  /\ UNCHANGED << subscriber, controller, pollerOn, chip, want, op, next, status, history, bounds >>

(* Record the profile and publish its fields.  A failed HSET is ignored:   *)
(* the hash then keeps some or all of the fields it had.                   *)
Commit(p) ==
  /\ Holds(p, "commit")
  /\ current' = want[p] /\ hasFirst' = TRUE /\ mu' = NoOne
  /\ \/ status' = want[p] /\ UNCHANGED bounds
     \/ Fault /\ status' \in {status, "mixed"}
  /\ Succeeds(p)
  /\ UNCHANGED << subscriber, gates, chip, next, history >>

-----------------------------------------------------------------------------
(* redis.Subscriber: a watcher's callback stores the new value and derives *)
(* the profile under Subscriber.mu, then calls Apply outside it.           *)

Dispatchable(h) ==
  /\ Started /\ pc[h] = "idle"
  /\ Serial => \A g \in Handlers : pc[g] = "idle"

(* Callbacks and calls that are in an Apply or have one before them.       *)
InService ==
  {h \in Handlers : pc[h] # "idle"} \cup {c \in Callers : pc[c] \notin {"idle", "clear"}}

handleAlarmStatus(value) ==
  /\ Dispatchable("alarm")
  /\ alarmStatus' = value
  /\ want' = [want EXCEPT !["alarm"] = Derive(value, pmState)]
  /\ Goto("alarm", "lock") /\ contested' = (InService # {})
  /\ UNCHANGED << pmState, controller, gates, chip, op, next, status, erased, bounds >>

(* mutant of handlePmState: the profile is derived from the previous state *)
handlePmStateLate(value) ==
  /\ Dispatchable("pm")
  /\ pmState' = value
  /\ want' = [want EXCEPT !["pm"] = Derive(alarmStatus, pmState)]
  /\ Goto("pm", "lock") /\ contested' = (InService # {})
  /\ UNCHANGED << alarmStatus, controller, gates, chip, op, next, status, erased, bounds >>

handlePmState(value) ==
  /\ Dispatchable("pm")
  /\ pmState' = value
  /\ want' = [want EXCEPT !["pm"] = Derive(alarmStatus, value)]
  /\ Goto("pm", "lock") /\ contested' = (InService # {})
  /\ UNCHANGED << alarmStatus, controller, gates, chip, op, next, status, erased, bounds >>

-----------------------------------------------------------------------------
(* rpc.Server *)

Serves(c, method, label) ==
  /\ Started /\ pc[c] = "idle" /\ method \in Methods
  /\ op' = [op EXCEPT ![c] = method]
  /\ Goto(c, label)

(* A request for another profile is refused before anything is touched.    *)
prepareHibernation(c) ==
  /\ Serves(c, "prepare-hibernation", "lock")
  /\ want' = [want EXCEPT ![c] = "armed-hibernation"]
  /\ contested' = TRUE
  /\ UNCHANGED << subscriber, controller, gates, chip, next, status, erased, bounds >>

clearLatch(c) ==
  /\ Serves(c, "clear-latch", "clear")
  /\ UNCHANGED << subscriber, controller, gates, chip, want, next, status, history, bounds >>

softReset(c) ==
  /\ Serves(c, "soft-reset", "resetAccel")
  /\ contested' = (contested \/ InService \cap Handlers # {})
  /\ UNCHANGED << subscriber, controller, gates, chip, want, next, status, erased, bounds >>

WriteClear(c) ==
  /\ pc[c] = "clear"
  /\ \/ chip' = Written(chip, ClearLatchedInterrupt[1]) /\ UNCHANGED bounds /\ Succeeds(c)
     \/ Fault /\ chip' \in {chip, Written(chip, ClearLatchedInterrupt[1])} /\ Fails(c)
  /\ UNCHANGED << subscriber, controller, gates, next, status, history >>

(* The handler resets both chips without Controller.mu ...                 *)
ResetAccel(c) ==
  /\ pc[c] = "resetAccel"
  /\ \/ /\ chip' = AccelErased(chip) /\ erased' = TRUE
        /\ Goto(c, "resetGyro") /\ UNCHANGED << want, op, bounds >>
     \/ /\ Fault /\ Fails(c)
        /\ \/ chip' = AccelErased(chip) /\ erased' = TRUE
           \/ UNCHANGED << chip, erased >>
  /\ UNCHANGED << subscriber, controller, gates, next, status, contested >>

ResetGyro(c) ==
  /\ pc[c] = "resetGyro"
  /\ \/ /\ Goto(c, "invalidate") /\ UNCHANGED << want, op >>
        /\ \/ chip' = GyroErased(chip) /\ erased' = TRUE /\ UNCHANGED bounds
           \/ Fault /\ chip' \in {chip, GyroErased(chip)} /\ erased' = TRUE
     \/ /\ Fault /\ Fails(c)
        /\ chip' \in {chip, GyroErased(chip)} /\ erased' = TRUE
  /\ UNCHANGED << subscriber, controller, gates, next, status, contested >>

(* mutant of Invalidate: hasFirst is kept *)
InvalidateNothing(c) ==
  /\ pc[c] = "invalidate" /\ mu = NoOne
  /\ Goto(c, "getCurrent")
  /\ UNCHANGED << subscriber, controller, gates, chip, want, op, next, status, history, bounds >>

(* ... and then takes it three times: Invalidate, Current, Apply.          *)
Invalidate(c) ==
  /\ pc[c] = "invalidate" /\ mu = NoOne
  /\ hasFirst' = FALSE /\ Goto(c, "getCurrent")
  /\ UNCHANGED << subscriber, mu, current, gates, chip, want, op, next, status, history, bounds >>

Current(c) ==
  /\ pc[c] = "getCurrent" /\ mu = NoOne
  /\ want' = [want EXCEPT ![c] = current] /\ Goto(c, "lock")
  /\ UNCHANGED << subscriber, controller, gates, chip, op, next, status, history, bounds >>

-----------------------------------------------------------------------------
(* The process dies at any point, or exits because the first Apply failed; *)
(* systemd starts it again.  The chip and Redis keep what they hold.       *)
Restart ==
  /\ \/ pc[Main] = "exited" /\ UNCHANGED crashes
     \/ crashes < MaxCrashes /\ crashes' = crashes + 1
  /\ alarmStatus' = "" /\ pmState' = ""
  /\ mu' = NoOne /\ current' = "idle" /\ hasFirst' = FALSE
  /\ pollerOn' = FALSE /\ watcherOn' = FALSE
  /\ pc' = [p \in Procs |-> IF p = Main THEN "lock" ELSE "idle"]
  /\ want' = [p \in Procs |-> "idle"]
  /\ op' = [c \in Callers |-> "none"]
  /\ next' = 1 /\ contested' = FALSE
  /\ UNCHANGED << chip, status, erased, faults >>

-----------------------------------------------------------------------------
(* What a process does by itself once it has been started. *)
ApplyStep(p) ==
  \/ Lock(p) \/ Skip(p)
  \/ DisablePoller(p) \/ DisableWatcher(p)
  \/ AccelReset(p) \/ GyroReset(p) \/ Write(p) \/ ProgramDone(p)
  \/ EnablePoller(p) \/ EnableWatcher(p) \/ Commit(p)

CallStep(c) == WriteClear(c) \/ ResetAccel(c) \/ ResetGyro(c) \/ Invalidate(c) \/ Current(c)

(* What other services ask for. *)
Request ==
  \/ \E value \in AlarmStatuses : handleAlarmStatus(value)
  \/ \E value \in PmStates : handlePmState(value)
  \/ \E c \in Callers : prepareHibernation(c) \/ clearLatch(c) \/ softReset(c)

Next ==
  \/ \E p \in Procs : ApplyStep(p)
  \/ \E c \in Callers : CallStep(c)
  \/ Request
  \/ Restart

Spec == Init /\ [][Next]_vars

(* A process is scheduled; sync.Mutex hands itself to a starving waiter.   *)
Fairness ==
  /\ \A p \in Procs : WF_vars(ApplyStep(p)) /\ SF_vars(Lock(p) \/ Skip(p))
  /\ \A c \in Callers : WF_vars(CallStep(c)) /\ SF_vars(Invalidate(c) \/ Current(c))

FairSpec == Spec /\ Fairness

-----------------------------------------------------------------------------
(***************************************************************************)
(* The inductive invariant behind MutualExclusion, GateClosed and          *)
(* GateTellsTruth, in named parts.                                         *)
(***************************************************************************)

(* Exactly the process inside Apply holds the mutex. *)
LockInv == \A p \in Procs : pc[p] \in Applying <=> mu = p

(* What is known of the two flags at each place inside Apply. *)
FlagInv ==
  \A p \in Procs :
    /\ pc[p] = "disableWatcher" => ~pollerOn
    /\ pc[p] \in Programming \cup {"enablePoller"} => ~pollerOn /\ ~watcherOn
    /\ pc[p] \in {"enablePoller", "enableWatcher"} => Configs(want[p]).enable
    /\ pc[p] = "commit" => (pollerOn \/ watcherOn => Configs(want[p]).enable)

(* Once its own accelerometer reset is through, Apply starts from blanks.  *)
ResetInv == \A p \in Procs : pc[p] = "gyroReset" => \A r \in Blanks : chip[r] = {}

(* The writes done so far stand. *)
ProgramInv ==
  \A p \in Procs : pc[p] = "program" =>
    /\ next <= Len(Program(want[p])) + 1
    /\ ~erased => Standing(chip, Program(want[p]), next)

(* From the last write to the commit the chip holds the wanted profile ... *)
ArmInv == \A p \in Procs : pc[p] \in Arming /\ ~erased => Ready(chip, want[p])

(* ... and from then on the current one, for as long as edges pass.        *)
OpenInv ==
  (pollerOn \/ watcherOn) /\ ~erased /\ (\A p \in Procs : pc[p] \notin Arming)
    => Configs(current).enable /\ Ready(chip, current)

GateInv == LockInv /\ FlagInv /\ ResetInv /\ ProgramInv /\ ArmInv /\ OpenInv

IInv == TypeOK /\ GateInv

-----------------------------------------------------------------------------
(* Properties *)

(* Two Applies never interleave: Controller.mu is held from the first flag  *)
(* store to the publication, on every error path too (Apply, the deferred   *)
(* unlock).                                                                 *)
MutualExclusion ==
  \A p, q \in Procs : pc[p] \in Applying /\ pc[q] \in Applying => p = q

(* Apply gates both interrupt sources while the reset, the engine           *)
(* configuration and the pin routing are in flight, whoever else is in      *)
(* Apply's queue and whatever failed before.                                *)
GateClosed ==
  \A p \in Procs : pc[p] \in Programming => ~pollerOn /\ ~watcherOn

(* The profile an open gate stands for: the one being armed, then current.  *)
Promised == IF mu # NoOne /\ pc[mu] \in Arming THEN want[mu] ELSE current

(* Only a fully configured profile may publish edges: while either source   *)
(* is enabled the registers hold everything its profile promises, after any *)
(* history of failed transactions, abandoned Applies, crashes and           *)
(* out-of-band latch clears, unless a soft-reset RPC erased the chip since. *)
GateTellsTruth ==
  (pollerOn \/ watcherOn) /\ ~erased
    => Configs(Promised).enable /\ Ready(chip, Promised)

(* The gates are those of profile p. *)
GatesFor(p) ==
  IF Configs(p).enable THEN pollerOn /\ watcherOn = HasWatcher ELSE ~pollerOn /\ ~watcherOn

(* Apply is all or nothing.  Whatever failed, crashed or was abandoned      *)
(* before, and whoever else is in service, a caller that leaves Apply       *)
(* either leaves the record, both gates and the programmed chip of its own  *)
(* profile, or the record as it was and both gates closed: an error half    *)
(* way never reopens a gate, and success never leaves one of them behind.   *)
AllOrNothing ==
  [][\A p \in Procs :
       mu = p /\ mu' = NoOne /\ ApplyStep(p)
         => IF Commit(p)
            THEN /\ current' = want[p] /\ hasFirst' /\ GatesFor(current)'
                 /\ ~erased' => Ready(chip', want[p])
            ELSE /\ UNCHANGED << current, hasFirst, status >>
                 /\ ~pollerOn' /\ ~watcherOn']_vars

(* Soft-reset RPCs whose handler has not returned. *)
SoftResetInFlight == \E c \in Callers : op[c] = "soft-reset"

(* With a bus that never fails, whenever nobody is in Apply and no          *)
(* soft-reset is in service, the chip, both gates and the Redis status all  *)
(* agree with Controller.current: no interleaving of soft-resets with other *)
(* Applies leaves an armed controller over an erased chip.                  *)
QuietChipReady ==
  Started /\ mu = NoOne /\ ~SoftResetInFlight
    => /\ hasFirst /\ ~erased /\ Ready(chip, current) /\ status = current
       /\ pollerOn = Configs(current).enable
       /\ watcherOn = (HasWatcher /\ Configs(current).enable)

(* prepareHibernation answers programmed only when, at that moment, the     *)
(* armed-hibernation profile is in the registers and its edges are passed   *)
(* on (the comment on prepareHibernation), when no soft-reset is in service *)
(* beside it.                                                               *)
PrepareAnswer ==
  \A c \in Callers :
    op[c] = "prepare-hibernation" /\ (Commit(c) \/ Skip(c)) /\ ~SoftResetInFlight
      => Ready(chip', "armed-hibernation") /\ pollerOn'
PrepareConfirms == [][PrepareAnswer]_vars

(* After a reset outside Apply the controller does not trust its record of  *)
(* the chip once the handler is done (the comment on Invalidate: otherwise  *)
(* idempotence would leave an armed chip with motion detection erased).     *)
ResetInvalidates == erased /\ ~SoftResetInFlight => ~hasFirst

(* The states and the profile in force belong together: a callback that has *)
(* been the only one to apply leaves the profile of the latest alarm and    *)
(* power-manager states, although it applies outside the lock it derived    *)
(* under, and no number of soft-resets afterwards, beside each other too,   *)
(* changes it (the comments on Subscriber.apply and softReset).             *)
LoneCallbackDecides ==
  ~contested /\ (\A h \in Handlers : pc[h] = "idle")
    => current = Derive(alarmStatus, pmState)

(* `status` and `state` determine the hardware profile (the README's table  *)
(* of profiles): when nobody is in service, the profile in force is the one *)
(* derived from the latest of both.                                         *)
DerivedProfile ==
  Started /\ (\A p \in Handlers \cup Callers : pc[p] = "idle")
    => current = Derive(alarmStatus, pmState)

(* A callback that waits for the controller gets it and returns, so the     *)
(* watchers' dispatch never stops (the comment on Subscriber.apply), as     *)
(* long as every bus transaction returns: Apply ignores its context.        *)
DispatchContinues ==
  \A h \in Handlers : pc[h] = "lock" ~> pc[h] = "idle"

(* A soft-reset or prepare-hibernation call is answered. *)
CallsAnswered ==
  \A c \in Callers : op[c] # "none" ~> op[c] = "none"

(* The controller implements the interrupt gate it promises. *)
Held == {p \in Profiles : Ready(chip, p)}
Gate == INSTANCE ProfileGate WITH
          Armable   <- {p \in Profiles : Configs(p).enable},
          Nothing   <- NoOne,
          registers <- IF Held = {} THEN NoOne ELSE CHOOSE p \in Held : TRUE,
          gate      <- pollerOn \/ watcherOn,
          intact    <- ~erased
GateSpec == Gate!Spec

(* Where the write n of Program(p) is in the outline of Apply. *)
EngineWrites == [p \in Profiles |-> 4 + Len(ConfigureEngine(Configs(p)))]
RouteWrites  == [p \in Profiles |-> Len(Route(Configs(p)))]
AllWrites    == [p \in Profiles |-> Len(Program(p))]
Arms         == [p \in Profiles |-> Configs(p).enable]
ModeOf       == [p \in Profiles |-> IF Arms[p] THEN Configs(p).mode ELSE "none"]

PhaseOfWrite(p, n) ==
  IF n <= EngineWrites[p] THEN "configure"
  ELSE IF n <= AllWrites[p] - RouteWrites[p] THEN "settle"
  ELSE IF n > AllWrites[p] THEN IF Arms[p] THEN "openPoller" ELSE "rest"
  ELSE IF n = AllWrites[p] /\ ModeOf[p] = "slow-motion" THEN "enable" ELSE "route"

PhaseOf(label, p, n) ==
  CASE label \in {"disablePoller", "commit"} -> "rest"
    [] label = "accelReset"    -> "reset"
    [] label = "gyroReset"     -> "configure"
    [] label = "program"       -> PhaseOfWrite(p, n)
    [] label = "enablePoller"  -> "openPoller"
    [] label = "enableWatcher" -> "openWatcher"
    [] OTHER -> label

Phase == IF mu = NoOne THEN "rest" ELSE PhaseOf(pc[mu], want[mu], next)

(* The controller is the Apply that InterruptPath is built on: whoever      *)
(* calls it, the gates, the engine and the routing change in the order of   *)
(* ApplyOutline only, on every error path too.                              *)
Outline == INSTANCE ApplyOutline WITH
             engine <- IF chip["intEn0"] # {} THEN "any-motion"
                       ELSE IF chip["intEn2"] # {} THEN "slow-motion" ELSE "none",
             routed <- chip["intMap0"] \cup chip["intMap2"] # {},
             apply  <- Phase,
             want   <- IF Phase = "rest" THEN "none" ELSE ModeOf[want[mu]]
OutlineSpec == Outline!Spec
=============================================================================
