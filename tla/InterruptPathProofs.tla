------------------------ MODULE InterruptPathProofs ------------------------
(***************************************************************************)
(* Theorems about InterruptPath, for any number of motions, profiles,      *)
(* missed edges, failed transactions and restarts: no motion is lost, none *)
(* is reported over and over, and a latch that stands when a process       *)
(* starts is told as a wake-up.                                            *)
(***************************************************************************)
EXTENDS InterruptPath, TLAPS

Erasing     == {"disableWatcher", "reset"}
Programming == {"configure", "settle", "route"}

(* Until app.Run is through, the gates are closed, both readers are idle    *)
(* and nothing but the first Apply, of idle, is in service.                 *)
BootInv ==
  /\ boot # "up" => ~pollerOn /\ ~watcherOn /\ poller = "tick"
                    /\ watcher \in {"read", "gate", "stopped", "absent"}
  /\ boot = "applying" => want = None /\ apply \in Erasing \cup Programming
  /\ boot \notin {"applying", "up"} => apply = "rest"

(* Apply maps nothing before it routes, and only the profile's engine then. *)
RouteInv ==
  /\ apply \in {"configure", "settle"} => ~routed
  /\ apply = "route" /\ want = None => ~routed

(* A latch that raises the pin when its engine is mapped. *)
Unmapped == apply \in Programming /\ latch # None /\ ~routed

(* Each key press stands for a motion of its own. *)
KeyInv == keys <= motions /\ (Unmapped => keys < motions)

(* What start-up knows of the latch it has found. *)
WakeInv ==
  faults = 0 =>
    /\ boot # "exited"
    /\ crashes = 0 => woken = "no"
    /\ crashes = 0 /\ boot \in {"down", "wake"} => latch = None /\ engine = None
    /\ crashes <= 1 =>
         /\ boot \in {"down", "field", "up"} => woken = "no"
         /\ boot = "wake" /\ woken # "no" => latch # None
         /\ boot \in {"first", "applying", "event"} /\ woken # "no" => wake

One(b) == IF b THEN 1 ELSE 0

(* Who may still publish, and each of them once: a key press in the device  *)
(* or one that a mapping will make, the watcher, the poller, start-up, and  *)
(* a latch that is still to be seen by the poller or the next start-up.     *)
WatcherHas == watcher \in {"gate", "status", "publish"}
PollerHas  == poller = "publish"
StartHas   == wake /\ boot \in {"first", "applying", "event"}
LatchSeen  ==
  /\ latch # None /\ poller \notin {"publish", "clear"}
  /\ boot # "first" /\ ~(boot = "applying" /\ apply \in Erasing)

EchoInv ==
  reports + keys + One(Unmapped) + One(WatcherHas) + One(PollerHas) + One(StartHas)
    + One(LatchSeen) <= 2 * motions + faults + crashes

(* Who has an owed motion in hand, while no transaction fails.              *)
OwedInv ==
  faults = 0 =>
    /\ boot # "exited"
    /\ boot \in {"down", "wake", "first"} /\ owed => latch # None
    /\ boot \in {"first", "applying", "event"} /\ owed => wake
    /\ boot = "field" => ~owed
    /\ boot = "up" /\ owed => GateOpen

ClosedInv ==
  apply \in {"disableWatcher", "reset", "configure", "settle", "route", "enable", "openPoller"}
    => ~pollerOn

(* A source about to clear the latch has told of all but a later motion,    *)
(* and the key press of that one is still there.                            *)
WatcherInv ==
  faults = 0 /\ missed = 0 /\ HasWatcher =>
    /\ watcher # "stopped"
    /\ watcher = "clear" /\ owed => keys > 0
    /\ poller = "clear" /\ owed => keys > 0 \/ WatcherHas

(* With one profile or call only, no latch goes while the poller, alone,    *)
(* reports it.                                                              *)
AloneInv ==
  /\ requests = 0 /\ boot = "up" => ~pollerOn /\ apply = "rest"
  /\ requests <= 1 /\ pollerOn => apply \in {"rest", "openWatcher"} /\ requests = 1
  /\ requests <= 1 /\ poller # "tick" => pollerOn
  /\ requests <= 1 /\ ~HasWatcher /\ poller \in {"publish", "clear"} => latch # None
  /\ requests <= 1 /\ ~HasWatcher /\ poller = "clear" /\ faults = 0 => ~owed

IInv == TypeOK /\ BootInv /\ RouteInv /\ KeyInv

-----------------------------------------------------------------------------
(* The bounds are natural numbers (PathAssumption).                          *)
LEMMA Bounds ==
  /\ MaxMotions \in Nat /\ MaxMissed \in Nat /\ MaxRequests \in Nat
  /\ MaxFaults \in Nat /\ MaxCrashes \in Nat
BY PathAssumption

(* What the steps of Apply have in common. *)
LEMMA OutlineTypes ==
  ASSUME Controller!TypeOK, [Controller!Next]_outline
  PROVE  Controller!TypeOK'
<1> USE DEF Controller!TypeOK, Controller!Steps, Controller!Failing, Controller!Engines,
            Controller!None, Controller!gates, Controller!Erased, Controller!Goto
<1>1. CASE \E e \in Controller!Engines \cup {Controller!None} : Controller!DisablePoller(e)
  BY <1>1 DEF Controller!DisablePoller
<1>2. CASE Controller!DisableWatcher \/ Controller!Reset \/ Controller!Settle
  BY <1>2 DEF Controller!DisableWatcher, Controller!Reset, Controller!Settle
<1>3. CASE Controller!Configure \/ Controller!Enable
  BY <1>3 DEF Controller!Configure, Controller!Enable, Controller!Configured
<1>4. CASE Controller!Route
  BY <1>4 DEF Controller!Route, Controller!AfterRoute
<1>5. CASE Controller!OpenPoller \/ Controller!OpenWatcher
  BY <1>5 DEF Controller!OpenPoller, Controller!OpenWatcher
<1>6. CASE Controller!GivesUp
  BY <1>6 DEF Controller!GivesUp, Controller!Configured
<1>7. CASE Controller!OtherReset \/ Controller!Dies
  BY <1>7 DEF Controller!OtherReset, Controller!Dies
<1>8. CASE UNCHANGED outline
  BY <1>8 DEF outline, gates
<1> QED
  BY <1>1, <1>2, <1>3, <1>4, <1>5, <1>6, <1>7, <1>8 DEF Controller!Next, Controller!Step

(* The types, with a bound on the key presses that KeyInv gives. *)
PathTypes ==
  /\ Controller!TypeOK
  /\ latch \in Engines \cup {None}
  /\ keys \in Nat /\ missed \in 0 .. MaxMissed
  /\ watcher \in {"read", "gate", "status", "publish", "clear", "stopped", "absent"}
  /\ poller \in {"tick", "status", "publish", "clear"}
  /\ boot \in {"down", "wake", "first", "applying", "exited", "event", "field", "up"}
  /\ wake \in BOOLEAN /\ woken \in {"no", "latched", "read"}
  /\ owed \in BOOLEAN /\ motions \in 0 .. MaxMotions /\ reports \in Nat
  /\ requests \in 0 .. MaxRequests /\ faults \in 0 .. MaxFaults /\ crashes \in 0 .. MaxCrashes

(* TypeOK is ApplyOutline's and the types of the path's own variables.       *)
LEMMA TypeParts ==
  /\ TypeOK => PathTypes
  /\ (PathTypes /\ KeyInv => TypeOK)'
<1>1. TypeOK => PathTypes
  BY Bounds DEF TypeOK, PathTypes
<1>2. ASSUME PathTypes', KeyInv' PROVE TypeOK'
  <2>1. keys' \in Nat /\ motions' \in 0 .. MaxMotions
    BY <1>2 DEF PathTypes
  <2>2. motions' \in Nat /\ motions' <= MaxMotions
    BY <2>1, Bounds
  <2>3. keys' <= motions'
    BY <1>2 DEF KeyInv
  <2>4. keys' \in 0 .. MaxMotions
    BY <2>1, <2>2, <2>3, Bounds
  <2> QED BY <1>2, <2>4 DEF PathTypes, TypeOK
<1> QED BY <1>1, <1>2

(* Every step is a step of Apply's outline, or leaves it alone. *)
LEMMA OutlineKept ==
  ASSUME Next
  PROVE  [Controller!Next]_outline
<1> USE DEF Controller!Next, Controller!Step, outline, gates, Engines, None, history, bounds
<1>1. CASE Motion \/ Transient
  BY <1>1 DEF Motion, Transient, Latches
<1>2. CASE Asked \/ (\E e \in Engines \cup {None} : Applies(e))
  BY <1>2 DEF Asked, Applies
<1>3. CASE ApplyStep \/ GivesUp
  BY <1>3 DEF ApplyStep, Reset, Settle, Route, OtherStep, GivesUp
<1>4. CASE BootStep
  BY <1>4 DEF BootStep, OpenWatcher, ReadWakeLatch, FirstApply, PublishWake, StoreWake
<1>5. CASE Exit \/ Crash
  BY <1>5 DEF Exit, Crash, Gone
<1>6. CASE WatcherStep \/ WatcherStops
  BY <1>6 DEF WatcherStep, WatcherRead, WatcherGate, WatcherStatus, WatcherPublish,
              WatcherClear, WatcherStops
<1>7. CASE PollerStep
  BY <1>7 DEF PollerStep, PollerTick, PollerStatus, PollerPublish, PollerClear
<1> QED BY <1>1, <1>2, <1>3, <1>4, <1>5, <1>6, <1>7 DEF Next

(* Every step keeps the types of the path's own variables.                   *)
LEMMA PathTypeStep ==
  ASSUME PathTypes, Next
  PROVE  PathTypes'
<1>c. Controller!TypeOK'
  BY OutlineKept, OutlineTypes DEF PathTypes
<1> USE Bounds, <1>c DEF PathTypes, outline, gates, evdev, readers, startup, history, bounds
<1>f. Fault => faults' \in 0 .. MaxFaults /\ UNCHANGED << requests, crashes >>
  BY DEF Fault
<1>q. Request => requests' \in 0 .. MaxRequests /\ UNCHANGED << faults, crashes >>
  BY DEF Request
<1>e. RisingEdge => keys' \in Nat /\ missed' \in 0 .. MaxMissed
  BY DEF RisingEdge
<1>m. MappingEdge => keys' \in Nat /\ missed' \in 0 .. MaxMissed
  BY <1>e DEF MappingEdge
<1>p. Publish => owed' \in BOOLEAN /\ reports' \in Nat /\ faults' \in 0 .. MaxFaults
                 /\ UNCHANGED << requests, crashes >>
  <2>1. Publish => owed' \in BOOLEAN
    BY DEF Publish, Published
  <2>2. Publish => reports' \in Nat
    BY DEF Publish, Published
  <2>3. Publish => faults' \in 0 .. MaxFaults /\ UNCHANGED << requests, crashes >>
    BY <1>f DEF Publish
  <2> QED BY <2>1, <2>2, <2>3
<1>l. ClearLatch => latch' \in Engines \cup {None} /\ faults' \in 0 .. MaxFaults
                    /\ UNCHANGED << requests, crashes >>
  BY <1>f DEF ClearLatch
<1>a. ASSUME NEW e \in Engines \cup {None}, Latches(e)
      PROVE  /\ latch' = e /\ motions' \in 0 .. MaxMotions
             /\ keys' \in Nat /\ missed' \in 0 .. MaxMissed
             /\ UNCHANGED << readers, startup, reports, bounds >>
  BY <1>a, <1>e DEF Latches
<1>1. CASE Motion
  BY <1>1, <1>a DEF Motion, Controller!TypeOK, Engines, None, GateOpen
<1>2. CASE Transient
  BY <1>2, <1>a DEF Transient
<1>3. CASE Asked \/ (\E e \in Engines \cup {None} : Applies(e))
  BY <1>3, <1>q DEF Asked, Applies
<1>4. CASE ApplyStep
  BY <1>4, <1>l, <1>m DEF ApplyStep, Reset, Settle, Route, OtherStep
<1>5. CASE GivesUp
  BY <1>5, <1>f, <1>m DEF GivesUp
<1>6. CASE BootStep
  <2>1. CASE OpenWatcher \/ FirstApply
    BY <2>1 DEF OpenWatcher, FirstApply
  <2>2. CASE ReadWakeLatch
    <3>1. boot' = "first" /\ UNCHANGED << outline, latch, evdev, readers, history >>
      BY <2>2 DEF ReadWakeLatch
    <3>2. wake' \in BOOLEAN /\ woken' \in {"no", "latched", "read"}
      BY <2>2 DEF ReadWakeLatch
    <3>3. faults' \in 0 .. MaxFaults /\ UNCHANGED << requests, crashes >>
      BY <1>f, <2>2 DEF ReadWakeLatch
    <3> QED BY <3>1, <3>2, <3>3
  <2>3. CASE PublishWake
    <3>1. CASE wake
      BY <1>p, <2>3, <3>1 DEF PublishWake
    <3>2. CASE ~wake
      BY <2>3, <3>2 DEF PublishWake
    <3> QED BY <3>1, <3>2
  <2>4. CASE StoreWake
    BY <1>f, <2>4 DEF StoreWake
  <2> QED BY <1>6, <2>1, <2>2, <2>3, <2>4 DEF BootStep
<1>7. CASE Exit \/ Crash
  <2>1. crashes' \in 0 .. MaxCrashes
    BY <1>7 DEF Exit, Crash
  <2>2. owed' \in BOOLEAN
    BY <1>7 DEF Exit, Crash, Gone
  <2>3. /\ boot' = "down" /\ wake' = FALSE
        /\ keys' = 0 /\ watcher' = "absent" /\ poller' = "tick"
        /\ UNCHANGED << latch, missed, woken, motions, reports, requests, faults >>
    BY <1>7 DEF Exit, Crash, Gone
  <2> QED BY <2>1, <2>2, <2>3
<1>8. CASE WatcherStep \/ WatcherStops
  BY <1>8, <1>f, <1>p, <1>l DEF WatcherStep, WatcherRead, WatcherGate, WatcherStatus,
     WatcherPublish, WatcherClear, WatcherStops
<1>9. CASE PollerStep
  BY <1>9, <1>f, <1>p, <1>l DEF PollerStep, PollerTick, PollerStatus, PollerPublish, PollerClear
<1> QED BY <1>1, <1>2, <1>3, <1>4, <1>5, <1>6, <1>7, <1>8, <1>9 DEF Next

-----------------------------------------------------------------------------
(* Every step keeps what app.Run's place says of Apply and the readers.      *)
LEMMA BootStepInv ==
  ASSUME IInv, Next
  PROVE  BootInv'
<1> USE DEF BootInv, Erasing, Programming, outline, gates, evdev, readers, startup, history, bounds,
            Engines, None
<1>t. /\ pollerOn \in BOOLEAN /\ watcherOn \in BOOLEAN
      /\ BootInv /\ boot \in {"down", "wake", "first", "applying", "exited", "event", "field", "up"}
  BY DEF IInv, TypeOK, Controller!TypeOK
<1>1. CASE Motion \/ Transient
  BY <1>t, <1>1 DEF Motion, Transient, Latches
<1>2. CASE Asked \/ (\E e \in Engines \cup {None} : Applies(e))
  BY <1>t, <1>2 DEF Asked, Applies
<1>3. CASE Reset \/ Settle
  BY <1>t, <1>3 DEF Reset, Settle, Controller!Reset, Controller!Settle, Controller!Goto,
                    Controller!gates, Controller!None
<1>4. CASE Route
  BY <1>t, <1>4 DEF Route, Controller!Route, Controller!Goto, Controller!AfterRoute,
                    Controller!gates, Controller!None
<1>5. CASE OtherStep
  BY <1>t, <1>5 DEF OtherStep, Controller!DisableWatcher, Controller!Configure, Controller!Enable,
     Controller!OpenPoller, Controller!OpenWatcher, Controller!Goto, Controller!gates, Controller!None
<1>6. CASE GivesUp
  BY <1>t, <1>6 DEF GivesUp, Controller!GivesUp, Controller!Goto, Controller!gates, Controller!None
<1>7. CASE BootStep
  BY <1>t, <1>7 DEF BootStep, OpenWatcher, ReadWakeLatch, FirstApply, PublishWake, StoreWake,
     Controller!DisablePoller, Controller!None
<1>8. CASE Exit \/ Crash
  BY <1>8 DEF Exit, Crash, Gone, Controller!Dies
<1>9. CASE WatcherStep \/ WatcherStops
  BY <1>t, <1>9 DEF WatcherStep, WatcherRead, WatcherGate, WatcherStatus, WatcherPublish,
     WatcherClear, WatcherStops
<1>10. CASE PollerStep
  BY <1>t, <1>10 DEF PollerStep, PollerTick, PollerStatus, PollerPublish, PollerClear
<1> QED BY <1>1, <1>2, <1>3, <1>4, <1>5, <1>6, <1>7, <1>8, <1>9, <1>10 DEF Next, ApplyStep

(* Every step of Apply keeps its order: nothing is mapped before it routes.  *)
LEMMA RouteStepInv ==
  ASSUME IInv, Next
  PROVE  RouteInv'
<1> USE DEF RouteInv, Controller!Goto, Controller!gates, Controller!None, Controller!Erased
<1>t. Controller!TypeOK /\ RouteInv
  BY DEF IInv, TypeOK
<1>n. [Controller!Next]_outline
  BY OutlineKept
<1>1. CASE \E e \in Controller!Engines \cup {Controller!None} : Controller!DisablePoller(e)
  BY <1>1 DEF Controller!DisablePoller
<1>2. CASE Controller!DisableWatcher \/ Controller!Reset
  BY <1>2 DEF Controller!DisableWatcher, Controller!Reset
<1>3. CASE Controller!Configure \/ Controller!Settle \/ Controller!Enable
  BY <1>t, <1>3 DEF Controller!Configure, Controller!Settle, Controller!Enable
<1>4. CASE Controller!Route
  <2>1. apply' = "route" => want' = want
    BY <1>4 DEF Controller!Route, Controller!AfterRoute
  <2>2. want = "none" => ~routed'
    BY <1>4 DEF Controller!Route
  <2>3. apply' \notin {"configure", "settle"}
    BY <1>4 DEF Controller!Route, Controller!AfterRoute
  <2> QED BY <2>1, <2>2, <2>3 DEF None
<1>5. CASE Controller!OpenPoller \/ Controller!OpenWatcher
  BY <1>5 DEF Controller!OpenPoller, Controller!OpenWatcher
<1>6. CASE Controller!GivesUp
  BY <1>6 DEF Controller!GivesUp
<1>7. CASE Controller!OtherReset \/ Controller!Dies
  BY <1>t, <1>7 DEF Controller!OtherReset, Controller!Dies
<1>8. CASE UNCHANGED outline
  BY <1>t, <1>8 DEF outline, gates
<1> QED
  BY <1>n, <1>1, <1>2, <1>3, <1>4, <1>5, <1>6, <1>7, <1>8 DEF Controller!Next, Controller!Step

(* Every step keeps a motion for each key press, those of a late mapping     *)
(* included.                                                                 *)
LEMMA KeyStepInv ==
  ASSUME IInv, Next
  PROVE  KeyInv'
<1> USE DEF KeyInv, Unmapped, Programming, outline, gates, evdev, readers, startup, history,
            bounds, Engines, None
<1>t. /\ KeyInv /\ keys \in Nat /\ motions \in Nat /\ routed \in BOOLEAN
      /\ RouteInv /\ apply \in Controller!Steps /\ want \in Engines \cup {None}
  BY Bounds DEF IInv, TypeOK, Controller!TypeOK, Engines, None
<1>e. RisingEdge => keys' \in {keys, keys + 1}
  BY DEF RisingEdge
<1>m. MappingEdge => keys' = keys \/ (routed' /\ ~routed /\ latch = want /\ keys' = keys + 1)
  BY <1>e DEF MappingEdge, evdev
<1>1. CASE Motion \/ Transient
  <2>1. PICK e \in Engines \cup {None} : Latches(e)
    BY <1>1 DEF Motion, Transient, IInv, TypeOK, Controller!TypeOK
  <2>2. /\ motions' = motions + 1 /\ UNCHANGED << routed, apply >>
        /\ IF routed THEN keys' \in {keys, keys + 1} ELSE keys' = keys
    BY <2>1, <1>e DEF Latches
  <2>3. keys <= motions
    BY <1>t
  <2> QED BY <1>t, <2>2, <2>3
<1>2. CASE Asked \/ (\E e \in Engines \cup {None} : Applies(e))
  BY <1>t, <1>2 DEF Asked, Applies, Controller!DisablePoller
<1>3. CASE Reset \/ Settle
  BY <1>t, <1>3 DEF Reset, Settle, ClearLatch, Controller!Reset, Controller!Settle, Controller!Goto
<1>4. CASE Route
  <2>1. apply = "route" /\ UNCHANGED << latch, motions >> /\ routed' = (want # None)
    BY <1>4 DEF Route, Controller!Route, Controller!None
  <2>2. routed => routed'
    BY <1>t, <2>1 DEF RouteInv, Controller!None
  <2>3. MappingEdge
    BY <1>4 DEF Route
  <2>4. apply' \in Controller!Steps
    BY <1>4 DEF Route, Controller!Route, Controller!Goto, Controller!AfterRoute, Controller!Steps,
               Controller!Failing
  <2> QED BY <1>t, <1>m, <2>1, <2>2, <2>3
<1>5. CASE OtherStep
  BY <1>t, <1>5 DEF OtherStep, Controller!DisableWatcher, Controller!Configure, Controller!Enable,
     Controller!OpenPoller, Controller!OpenWatcher, Controller!Goto, Controller!gates, Controller!None
<1>6. CASE GivesUp
  <2>1. apply' = "rest" /\ motions' = motions /\ MappingEdge
    BY <1>6 DEF GivesUp, Controller!GivesUp, Controller!Goto
  <2>2. routed' /\ ~routed => apply = "route" /\ want # None
    BY <1>6, <1>t DEF GivesUp, Controller!GivesUp, Controller!Erased, Controller!None
  <2> QED BY <1>t, <1>m, <2>1, <2>2
<1>7. CASE BootStep
  BY <1>t, <1>7 DEF BootStep, OpenWatcher, ReadWakeLatch, FirstApply, PublishWake, StoreWake,
     Controller!DisablePoller
<1>8. CASE Exit \/ Crash
  BY <1>t, <1>8 DEF Exit, Crash, Gone, Controller!Dies
<1>9. CASE WatcherStep \/ WatcherStops
  BY <1>t, <1>9 DEF WatcherStep, WatcherRead, WatcherGate, WatcherStatus, WatcherPublish,
     WatcherClear, WatcherStops, ClearLatch
<1>10. CASE PollerStep
  BY <1>t, <1>10 DEF PollerStep, PollerTick, PollerStatus, PollerPublish, PollerClear, ClearLatch
<1> QED BY <1>1, <1>2, <1>3, <1>4, <1>5, <1>6, <1>7, <1>8, <1>9, <1>10 DEF Next, ApplyStep

(* The parts of every path and Apply that the history depends on. *)
LEMMA PathInv ==
  ASSUME IInv, Next
  PROVE  IInv'
<1>1. PathTypes'
  BY TypeParts, PathTypeStep DEF IInv
<1> QED BY <1>1, TypeParts, BootStepInv, RouteStepInv, KeyStepInv DEF IInv

(* What holds goes on holding while nothing happens.                         *)
LEMMA StutterInv ==
  ASSUME IInv, UNCHANGED vars
  PROVE  IInv'
<1> USE DEF vars, outline, gates, evdev, readers, startup, history, bounds
<1>1. TypeOK'
  BY DEF IInv, TypeOK, Controller!TypeOK
<1>2. BootInv' /\ RouteInv' /\ KeyInv'
  BY DEF IInv, BootInv, RouteInv, KeyInv, Unmapped
<1> QED BY <1>1, <1>2 DEF IInv

(* IInv: types, the order of start-up, the order of Apply, one motion for    *)
(* each key press.                                                           *)
LEMMA Inductive == Spec => []IInv
<1>1. Init => IInv
  <2> SUFFICES ASSUME Init PROVE IInv
    OBVIOUS
  <2>1. TypeOK
    <3>1. Controller!TypeOK
      BY DEF Init, Controller!Init
    <3>2. wake \in BOOLEAN /\ owed \in BOOLEAN
      BY DEF Init
    <3>3. /\ latch = None /\ watcher = "absent" /\ poller = "tick" /\ boot = "down" /\ woken = "no"
          /\ keys = 0 /\ missed = 0 /\ motions = 0 /\ reports = 0
          /\ requests = 0 /\ faults = 0 /\ crashes = 0
      BY DEF Init
    <3> QED BY <3>1, <3>2, <3>3, Bounds DEF TypeOK
  <2>2. BootInv /\ RouteInv /\ KeyInv
    BY DEF Init, Controller!Init, Controller!TypeOK, BootInv, RouteInv, KeyInv, Unmapped,
           Programming, None
  <2> QED BY <2>1, <2>2 DEF IInv
<1>2. IInv /\ [Next]_vars => IInv'
  BY PathInv, StutterInv
<1> QED BY <1>1, <1>2, PTL DEF Spec

(* InterruptPath keeps its types; no motion makes two key presses. *)
THEOREM TypeCorrect == Spec => []TypeOK
<1>1. IInv => TypeOK
  BY DEF IInv
<1> QED BY <1>1, Inductive, PTL

-----------------------------------------------------------------------------
(* The count of failures only grows. *)
LEMMA FaultFacts ==
  ASSUME IInv
  PROVE  /\ faults \in Nat /\ crashes \in Nat /\ motions \in Nat /\ reports \in Nat
         /\ keys \in Nat /\ requests \in Nat /\ missed \in Nat
         /\ Fault => faults' = faults + 1 /\ faults' # 0 /\ UNCHANGED << requests, crashes >>
         /\ Request => requests' = requests + 1 /\ UNCHANGED << faults, crashes >>
<1>1. /\ faults \in Nat /\ crashes \in Nat /\ motions \in Nat /\ reports \in Nat
      /\ keys \in Nat /\ requests \in Nat /\ missed \in Nat
  BY Bounds DEF IInv, TypeOK
<1> QED BY <1>1 DEF Fault, Request

(* The wake-up found at start-up is in app.Run's hand until it is told,      *)
(* whatever step is taken.                                                   *)
LEMMA WakeStep ==
  ASSUME IInv, WakeInv, Next
  PROVE  WakeInv'
<1> USE FaultFacts DEF outline, gates, evdev, readers, startup, history, bounds, Engines, None
<1>t. BootInv /\ WakeInv
  BY DEF IInv
<1> USE DEF WakeInv
<1>1. CASE Motion \/ Transient
  BY <1>t, <1>1 DEF Motion, Transient, Latches, BootInv
<1>2. CASE Asked \/ (\E e \in Engines \cup {None} : Applies(e))
  BY <1>t, <1>2 DEF Asked, Applies
<1>3. CASE Reset \/ Settle \/ OtherStep
  <2>1. apply # "rest"
    BY <1>3 DEF Reset, Settle, OtherStep, Controller!Reset, Controller!Settle,
       Controller!DisableWatcher, Controller!Configure, Controller!Enable,
       Controller!OpenPoller, Controller!OpenWatcher
  <2>2. boot \in {"applying", "up"}
    BY <1>t, <2>1 DEF BootInv
  <2>3. UNCHANGED startup /\ (UNCHANGED bounds \/ Fault)
    BY <1>3 DEF Reset, Settle, OtherStep, ClearLatch
  <2> QED BY <1>t, <2>2, <2>3
<1>4. CASE Route
  <2>1. boot \in {"applying", "up"}
    BY <1>t, <1>4 DEF Route, Controller!Route, BootInv
  <2>2. /\ boot' \in (IF boot = "up" THEN {"up"} ELSE {"applying", "event"})
        /\ UNCHANGED << wake, woken, bounds >>
    BY <1>4, <2>1 DEF Route
  <2> QED BY <1>t, <2>1, <2>2
<1>5. CASE GivesUp
  BY <1>5 DEF GivesUp
<1>6. CASE OpenWatcher \/ FirstApply \/ StoreWake
  BY <1>t, <1>6 DEF OpenWatcher, FirstApply, StoreWake
<1>7. CASE ReadWakeLatch
  BY <1>t, <1>7 DEF ReadWakeLatch
<1>8. CASE PublishWake
  <2>1. CASE wake
    BY <1>t, <1>8, <2>1 DEF PublishWake, Publish, Published
  <2>2. CASE ~wake
    BY <1>t, <1>8, <2>2 DEF PublishWake
  <2> QED BY <2>1, <2>2
<1>9. CASE Exit
  BY <1>t, <1>9 DEF Exit, Gone
<1>10. CASE Crash
  <2>1. boot' = "down" /\ crashes' = crashes + 1 /\ UNCHANGED << woken, faults >>
    BY <1>10 DEF Crash, Gone
  <2> QED BY <1>t, <2>1
<1>11. CASE WatcherStep \/ WatcherStops
  <2>1. UNCHANGED << startup, engine, crashes >> /\ faults' \in {faults, faults + 1}
    BY <1>11 DEF WatcherStep, WatcherRead, WatcherGate, WatcherStatus, WatcherPublish,
       WatcherClear, WatcherStops, Publish, ClearLatch
  <2>2. watcher = "clear" \/ UNCHANGED latch
    BY <1>11 DEF WatcherStep, WatcherRead, WatcherGate, WatcherStatus, WatcherPublish,
       WatcherClear, WatcherStops
  <2> QED BY <1>t, <2>1, <2>2 DEF BootInv
<1>12. CASE PollerStep
  <2>1. UNCHANGED << startup, engine, crashes >> /\ faults' \in {faults, faults + 1}
    BY <1>12 DEF PollerStep, PollerTick, PollerStatus, PollerPublish, PollerClear, Publish, ClearLatch
  <2>2. poller = "clear" \/ UNCHANGED latch
    BY <1>12 DEF PollerStep, PollerTick, PollerStatus, PollerPublish, PollerClear
  <2> QED BY <1>t, <2>1, <2>2 DEF BootInv
<1> QED
  BY <1>1, <1>2, <1>3, <1>4, <1>5, <1>6, <1>7, <1>8, <1>9, <1>10, <1>11, <1>12
     DEF Next, ApplyStep, BootStep

(* A latch that stands when a process starts is told as a wake-up although  *)
(* the first Apply clears it, unless a transaction fails or the process     *)
(* dies a second time.                                                      *)
THEOREM WakeUpsTold == Spec => []WakeTold
<1>1. Init => WakeInv
  BY DEF Init, WakeInv
<1>2. IInv /\ WakeInv /\ [Next]_vars => WakeInv'
  <2>1. ASSUME WakeInv, UNCHANGED vars PROVE WakeInv'
    BY <2>1 DEF vars, outline, gates, evdev, readers, startup, history, bounds, WakeInv
  <2> QED BY <2>1, WakeStep
<1>3. WakeInv => WakeTold
  BY DEF WakeInv, WakeTold
<1> QED BY <1>1, <1>2, <1>3, Inductive, PTL DEF Spec

-----------------------------------------------------------------------------
(* No step raises what was published and what may still be by more than two  *)
(* for a motion and one for a failure or a restart.                          *)
LEMMA EchoStep ==
  ASSUME IInv, EchoInv, Next
  PROVE  EchoInv'
<1> USE FaultFacts DEF EchoInv, One, Unmapped, WatcherHas, PollerHas, StartHas, LatchSeen,
        Erasing, Programming, outline, gates, evdev, readers, startup, history, bounds, Engines, None
<1>t. BootInv /\ KeyInv /\ RouteInv /\ wake \in BOOLEAN /\ routed \in BOOLEAN
  BY DEF IInv, TypeOK, Controller!TypeOK
<1>e. RisingEdge => keys' \in {keys, keys + 1}
  BY DEF RisingEdge
<1>m. MappingEdge => keys' = keys \/ (routed' /\ ~routed /\ latch = want /\ keys' = keys + 1)
  BY <1>e DEF MappingEdge
<1>1. CASE Motion \/ Transient
  <2>1. PICK e \in Engines \cup {None} : Latches(e)
    BY <1>1 DEF Motion, Transient, IInv, TypeOK, Controller!TypeOK
  <2>2. /\ motions' = motions + 1 /\ latch = None /\ UNCHANGED << outline, readers, startup, reports, bounds >>
        /\ IF routed THEN keys' \in {keys, keys + 1} ELSE keys' = keys
    BY <2>1, <1>e DEF Latches
  <2> QED BY <1>t, <2>2
<1>2. CASE Asked
  BY <1>t, <1>2 DEF Asked
<1>3. CASE \E e \in Engines \cup {None} : Applies(e)
  BY <1>t, <1>3 DEF Applies, Controller!DisablePoller
<1>4. CASE Reset
  BY <1>t, <1>4 DEF Reset, Controller!Reset, Controller!Goto
<1>5. CASE Settle
  BY <1>t, <1>5 DEF Settle, ClearLatch, Controller!Settle, Controller!Goto
<1>6. CASE OtherStep
  BY <1>t, <1>6 DEF OtherStep, Controller!DisableWatcher, Controller!Configure, Controller!Enable,
     Controller!OpenPoller, Controller!OpenWatcher, Controller!Goto, BootInv
<1>7. CASE PublishWake
  BY <1>t, <1>7 DEF PublishWake, Publish, Published
<1>8. CASE ReadWakeLatch
  <2>1. /\ boot = "wake" /\ boot' = "first" /\ UNCHANGED << reports, keys, motions, crashes, latch >>
        /\ UNCHANGED << apply, routed, watcher, poller >>
    BY <1>8 DEF ReadWakeLatch
  <2>2. ((wake' => latch # None) /\ faults' = faults) \/ faults' = faults + 1
    BY <1>8 DEF ReadWakeLatch
  <2> QED BY <1>t, <2>1, <2>2 DEF BootInv
<1>9. CASE OpenWatcher \/ FirstApply \/ StoreWake
  BY <1>t, <1>9 DEF OpenWatcher, FirstApply, StoreWake, Controller!DisablePoller, BootInv
<1>10. CASE Exit \/ Crash
  BY <1>t, <1>10 DEF Exit, Crash, Gone, Controller!Dies, BootInv
<1>11. CASE WatcherStep \/ WatcherStops
  BY <1>t, <1>11 DEF WatcherStep, WatcherRead, WatcherGate, WatcherStatus, WatcherPublish,
     WatcherClear, WatcherStops, Publish, Published, ClearLatch
<1>12. CASE PollerStep
  <2>1. CASE PollerTick
    BY <1>t, <2>1 DEF PollerTick
  <2>2. CASE PollerStatus
    <3>1. /\ poller = "status" /\ poller' \in {"tick", "publish"} /\ (poller' = "publish" => latch # None)
          /\ faults' \in {faults, faults + 1}
          /\ UNCHANGED << outline, latch, evdev, watcher, startup, history, crashes >>
      BY <2>2 DEF PollerStatus
    <3>2. boot = "up"
      BY <1>t, <3>1 DEF BootInv
    <3> QED BY <1>t, <3>1, <3>2
  <2>3. CASE PollerPublish
    BY <1>t, <2>3 DEF PollerPublish, Publish, Published
  <2>4. CASE PollerClear
    BY <1>t, <2>4 DEF PollerClear, ClearLatch
  <2> QED BY <1>12, <2>1, <2>2, <2>3, <2>4 DEF PollerStep
<1>13. CASE Route
  BY <1>t, <1>m, <1>13 DEF Route, Controller!Route, Controller!Goto, Controller!AfterRoute, RouteInv
<1>14. CASE GivesUp
  <2>1. /\ apply' = "rest" /\ faults' = faults + 1 /\ latch' \in {latch, None}
        /\ boot' \in {boot, "exited"} /\ (boot = "applying" => boot' = "exited")
        /\ UNCHANGED << readers, wake, reports, motions, crashes >>
    BY <1>14 DEF GivesUp, Controller!GivesUp, Controller!Goto
  <2>2. routed' /\ ~routed => apply = "route" /\ want # None
    BY <1>14, <1>t DEF GivesUp, Controller!GivesUp, Controller!Erased, Controller!None
  <2>3. keys' = keys \/ (Unmapped /\ keys' = keys + 1)
    BY <1>m, <1>14, <2>2 DEF GivesUp
  <2> QED BY <1>t, <2>1, <2>3
<1> QED
  BY <1>1, <1>2, <1>3, <1>4, <1>5, <1>6, <1>7, <1>8, <1>9, <1>10, <1>11, <1>12, <1>13, <1>14
     DEF Next, ApplyStep, BootStep

(* However readers, watchdog, failed clears and restarts interleave, two    *)
(* events for each motion and one for each failure is the most there are.   *)
THEOREM NoLatchEchoes == Spec => []NoEchoes
<1>1. Init => EchoInv
  BY DEF Init, EchoInv, One, Unmapped, WatcherHas, PollerHas, StartHas, LatchSeen
<1>2. IInv /\ EchoInv /\ [Next]_vars => EchoInv'
  <2>1. ASSUME EchoInv, UNCHANGED vars PROVE EchoInv'
    BY <2>1 DEF vars, outline, gates, evdev, readers, startup, history, bounds, EchoInv, One,
       Unmapped, WatcherHas, PollerHas, StartHas, LatchSeen
  <2> QED BY <2>1, EchoStep
<1>3. IInv /\ EchoInv => NoEchoes
  BY FaultFacts DEF EchoInv, One, NoEchoes
<1> QED BY <1>1, <1>2, <1>3, Inductive, PTL DEF Spec

-----------------------------------------------------------------------------
(* Apply closes the gates before it erases, and opens the poller's last but  *)
(* one.                                                                      *)
LEMMA ClosedStep ==
  ASSUME IInv, ClosedInv, Next
  PROVE  ClosedInv'
<1> USE DEF ClosedInv, Controller!Goto, Controller!gates
<1>n. [Controller!Next]_outline
  BY OutlineKept
<1>1. CASE \E e \in Controller!Engines \cup {Controller!None} : Controller!DisablePoller(e)
  BY <1>1 DEF Controller!DisablePoller
<1>2. CASE Controller!Step
  BY <1>2 DEF Controller!Step, Controller!DisableWatcher, Controller!Reset, Controller!Configure,
     Controller!Settle, Controller!Route, Controller!AfterRoute, Controller!Enable,
     Controller!OpenPoller, Controller!OpenWatcher
<1>3. CASE Controller!GivesUp \/ Controller!Dies
  BY <1>3 DEF Controller!GivesUp, Controller!Dies
<1>4. CASE Controller!OtherReset \/ UNCHANGED outline
  BY <1>4 DEF Controller!OtherReset, outline, gates
<1> QED BY <1>n, <1>1, <1>2, <1>3, <1>4 DEF Controller!Next

(* Every step keeps an owed motion in start-up's hand until the gate opens.  *)
LEMMA OwedStep ==
  ASSUME IInv, ClosedInv, OwedInv, Next
  PROVE  OwedInv'
<1> USE FaultFacts DEF OwedInv, GateOpen, HasWatcher, outline, gates, evdev, readers, startup,
        history, bounds, Engines, None
<1>t. /\ BootInv /\ owed \in BOOLEAN /\ wake \in BOOLEAN
      /\ pollerOn \in BOOLEAN /\ watcherOn \in BOOLEAN
  BY DEF IInv, TypeOK, Controller!TypeOK
<1>1. CASE Motion
  <2>1. /\ UNCHANGED << outline, readers, startup, bounds >> /\ latch' # None
        /\ owed' => owed \/ GateOpen \/ boot \in {"down", "wake"}
    BY <1>1 DEF Motion, Latches
  <2> QED BY <1>t, <2>1 DEF BootInv
<1>2. CASE Transient
  BY <1>t, <1>2 DEF Transient, Latches, BootInv
<1>3. CASE Asked \/ (\E e \in Engines \cup {None} : Applies(e))
  BY <1>t, <1>3 DEF Asked, Applies
<1>4. CASE Reset \/ Settle \/ OtherStep
  <2>1. boot \in {"applying", "up"}
    BY <1>t, <1>4 DEF Reset, Settle, OtherStep, Controller!Reset, Controller!Settle,
       Controller!DisableWatcher, Controller!Configure, Controller!Enable,
       Controller!OpenPoller, Controller!OpenWatcher, BootInv
  <2>2. UNCHANGED << readers, startup, owed >> /\ (UNCHANGED bounds \/ Fault)
    BY <1>4 DEF Reset, Settle, OtherStep, ClearLatch
  <2>3. GateOpen => GateOpen'
    BY <1>t, <1>4 DEF Reset, Settle, OtherStep, Controller!Reset, Controller!Settle,
       Controller!DisableWatcher, Controller!Configure, Controller!Enable,
       Controller!OpenPoller, Controller!OpenWatcher, Controller!gates, ClosedInv
  <2> QED BY <1>t, <2>1, <2>2, <2>3
<1>5. CASE Route
  <2>1. /\ UNCHANGED << gates, readers, latch, wake, woken, owed, bounds >>
        /\ boot' = boot \/ (boot = "applying" /\ boot' = "event")
    BY <1>5 DEF Route, Controller!Route, Controller!gates
  <2> QED BY <1>t, <2>1
<1>6. CASE GivesUp
  BY <1>6 DEF GivesUp
<1>7. CASE OpenWatcher \/ FirstApply
  BY <1>t, <1>7 DEF OpenWatcher, FirstApply
<1>8. CASE ReadWakeLatch
  BY <1>t, <1>8 DEF ReadWakeLatch
<1>9. CASE PublishWake
  BY <1>t, <1>9 DEF PublishWake, Publish, Published
<1>10. CASE StoreWake
  BY <1>t, <1>10 DEF StoreWake
<1>11. CASE Exit \/ Crash
  <2>1. boot' = "down" /\ UNCHANGED latch /\ (owed' => latch # None)
    BY <1>11 DEF Exit, Crash, Gone
  <2> QED BY <2>1
<1>12. CASE WatcherStep \/ WatcherStops
  <2>1. /\ UNCHANGED << gates, startup >> /\ (UNCHANGED faults \/ Fault)
        /\ owed' \in {owed, FALSE} /\ (watcher = "absent" <=> watcher' = "absent")
    BY <1>t, <1>12 DEF WatcherStep, WatcherRead, WatcherGate, WatcherStatus, WatcherPublish,
       WatcherClear, WatcherStops, Publish, Published, ClearLatch
  <2>2. watcher = "clear" \/ UNCHANGED latch
    BY <1>12 DEF WatcherStep, WatcherRead, WatcherGate, WatcherStatus, WatcherPublish,
       WatcherClear, WatcherStops
  <2> QED BY <1>t, <2>1, <2>2 DEF BootInv
<1>13. CASE PollerStep
  <2>1. /\ UNCHANGED << gates, watcher, startup >> /\ (UNCHANGED faults \/ Fault)
        /\ owed' \in {owed, FALSE}
    BY <1>t, <1>13 DEF PollerStep, PollerTick, PollerStatus, PollerPublish, PollerClear, Publish,
       Published, ClearLatch
  <2>2. poller = "clear" \/ UNCHANGED latch
    BY <1>13 DEF PollerStep, PollerTick, PollerStatus, PollerPublish, PollerClear
  <2> QED BY <1>t, <2>1, <2>2 DEF BootInv
<1> QED
  BY <1>1, <1>2, <1>3, <1>4, <1>5, <1>6, <1>7, <1>8, <1>9, <1>10, <1>11, <1>12, <1>13
     DEF Next, ApplyStep, BootStep

(* With evdev, no reader clears the latch of a motion without a key press    *)
(* that tells of it.                                                         *)
LEMMA WatcherInvStep ==
  ASSUME IInv, OwedInv, WatcherInv, Next
  PROVE  WatcherInv'
<1> USE FaultFacts DEF WatcherInv, WatcherHas, HasWatcher, outline, gates, evdev, readers, startup,
        history, bounds, Engines, None
<1>t. /\ BootInv /\ owed \in BOOLEAN
      /\ pollerOn \in BOOLEAN /\ watcherOn \in BOOLEAN
  BY DEF IInv, TypeOK, Controller!TypeOK
<1>e. RisingEdge => missed' \in {missed, missed + 1} /\ keys' \in {keys, keys + 1}
  BY DEF RisingEdge
<1>1. CASE Motion
  <2>1. UNCHANGED << readers, bounds >>
    BY <1>1 DEF Motion, Latches
  <2>2. missed' = 0 => missed = 0 /\ keys' >= keys
    BY <1>1, <1>e DEF Motion, Latches
  <2>3. missed' = 0 /\ HasWatcher /\ ~owed /\ owed' => keys' > 0
    <3>1. missed' = 0 /\ HasWatcher /\ routed => keys' = keys + 1
      BY <1>1 DEF Motion, Latches, RisingEdge
    <3>2. ~owed /\ owed' => routed
      BY <1>1 DEF Motion
    <3> QED BY <3>1, <3>2
  <2>4. keys' \in Nat
    BY <1>1, <1>e DEF Motion, Latches
  <2> QED BY <1>t, <2>1, <2>2, <2>3, <2>4
<1>2. CASE Transient
  <2>1. UNCHANGED << readers, bounds, owed >>
    BY <1>2 DEF Transient, Latches
  <2>2. keys' \in {keys, keys + 1} /\ missed' \in {missed, missed + 1}
    BY <1>2, <1>e DEF Transient, Latches
  <2> QED BY <1>t, <2>1, <2>2
<1>3. CASE Asked \/ (\E e \in Engines \cup {None} : Applies(e))
  BY <1>t, <1>3 DEF Asked, Applies
<1>4. CASE Reset \/ Settle \/ OtherStep
  BY <1>t, <1>4 DEF Reset, Settle, OtherStep, ClearLatch
<1>5. CASE Route
  <2>1. UNCHANGED << readers, bounds, owed >>
    BY <1>5 DEF Route
  <2>2. keys' \in {keys, keys + 1} /\ missed' \in {missed, missed + 1}
    BY <1>5, <1>e DEF Route, MappingEdge
  <2> QED BY <1>t, <2>1, <2>2
<1>6. CASE GivesUp
  BY <1>6 DEF GivesUp
<1>7. CASE BootStep
  <2>1. boot # "up" /\ UNCHANGED << poller, evdev >>
    BY <1>7 DEF BootStep, OpenWatcher, ReadWakeLatch, FirstApply, PublishWake, StoreWake
  <2>2. watcher' = watcher \/ watcher' \in {"read", "absent"}
    BY <1>7 DEF BootStep, OpenWatcher, ReadWakeLatch, FirstApply, PublishWake, StoreWake
  <2>3. UNCHANGED faults \/ Fault
    BY <1>7 DEF BootStep, OpenWatcher, ReadWakeLatch, FirstApply, PublishWake, StoreWake, Publish
  <2> QED BY <1>t, <2>1, <2>2, <2>3 DEF BootInv
<1>8. CASE Exit \/ Crash
  BY <1>8 DEF Exit, Crash, Gone
<1>9. CASE WatcherRead \/ WatcherStatus \/ WatcherStops
  BY <1>t, <1>9 DEF WatcherRead, WatcherStatus, WatcherStops
<1>10. CASE WatcherGate
  <2>1. boot = "up" /\ faults = 0 /\ owed => watcherOn \/ ~HasWatcher
    BY <1>t, <1>10 DEF WatcherGate, BootInv, OwedInv, GateOpen
  <2> QED BY <1>t, <2>1, <1>10 DEF WatcherGate, BootInv
<1>11. CASE WatcherPublish
  BY <1>t, <1>11 DEF WatcherPublish, Publish, Published
<1>12. CASE WatcherClear
  BY <1>t, <1>12 DEF WatcherClear, ClearLatch
<1>13. CASE PollerTick \/ PollerStatus \/ PollerClear
  BY <1>t, <1>13 DEF PollerTick, PollerStatus, PollerClear, ClearLatch
<1>14. CASE PollerPublish
  BY <1>t, <1>14 DEF PollerPublish, Publish, Published
<1> QED
  BY <1>1, <1>2, <1>3, <1>4, <1>5, <1>6, <1>7, <1>8, <1>9, <1>10, <1>11, <1>12, <1>13, <1>14
     DEF Next, ApplyStep, WatcherStep, PollerStep

(* Without evdev and with one request, the poller alone touches the latch.   *)
LEMMA AloneStep ==
  ASSUME IInv, ClosedInv, OwedInv, AloneInv, Next
  PROVE  AloneInv'
<1> USE FaultFacts DEF AloneInv, HasWatcher, outline, gates, evdev, readers, startup,
        history, bounds, Engines, None
<1>t. /\ BootInv /\ owed \in BOOLEAN /\ pollerOn \in BOOLEAN
      /\ watcher \in {"read", "gate", "status", "publish", "clear", "stopped", "absent"}
  BY DEF IInv, TypeOK, Controller!TypeOK
<1>1. CASE Motion \/ Transient
  <2>1. UNCHANGED << outline, readers, startup, bounds >> /\ latch = None
    BY <1>1 DEF Motion, Transient, Latches
  <2>2. poller = "clear" \/ poller = "publish" => requests > 1 \/ HasWatcher
    BY <2>1
  <2>3. UNCHANGED owed \/ owed' \in BOOLEAN
    BY <1>1 DEF Motion, Transient
  <2> QED BY <1>t, <2>1, <2>2
<1>2. CASE Asked
  BY <1>t, <1>2 DEF Asked, Controller!OtherReset, Controller!gates
<1>3. CASE \E e \in Engines \cup {None} : Applies(e)
  BY <1>t, <1>3 DEF Applies, Controller!DisablePoller
<1>4. CASE Reset \/ Settle \/ OtherStep
  <2>1. apply \notin {"rest", "openWatcher"} \/ Controller!OpenWatcher
    BY <1>4 DEF Reset, Settle, OtherStep, Controller!Reset, Controller!Settle,
       Controller!DisableWatcher, Controller!Configure, Controller!Enable,
       Controller!OpenPoller, Controller!OpenWatcher
  <2>2. CASE Controller!OpenWatcher
    <3>1. UNCHANGED << latch, readers, startup, history, bounds >>
      BY <1>4, <2>2 DEF Reset, Settle, OtherStep, Controller!Reset, Controller!Settle,
         Controller!OpenWatcher
    <3> QED BY <1>t, <2>2, <3>1 DEF Controller!OpenWatcher, Controller!Goto
  <2>3. CASE apply \notin {"rest", "openWatcher"}
    <3>1. UNCHANGED << readers, startup, requests >>
      BY <1>4 DEF Reset, Settle, OtherStep, ClearLatch, Fault
    <3>2. boot = "applying" \/ boot = "up"
      BY <1>t, <2>3 DEF BootInv
    <3>3. pollerOn' => apply' = "openWatcher" \/ (pollerOn /\ apply' = apply)
      BY <1>t, <1>4, <2>3 DEF Reset, Settle, OtherStep, Controller!Reset, Controller!Settle,
         Controller!DisableWatcher, Controller!Configure, Controller!Enable, ClosedInv,
         Controller!OpenPoller, Controller!OpenWatcher, Controller!gates, Controller!Goto
    <3>4. pollerOn' => boot = "up"
      BY <1>t, <1>4, <2>3 DEF Reset, Settle, OtherStep, Controller!Reset, Controller!Settle,
         Controller!DisableWatcher, Controller!Configure, Controller!Enable, BootInv,
         Controller!OpenPoller, Controller!OpenWatcher, Controller!gates, Erasing, Programming
    <3>5. requests <= 1 => poller = "tick"
      BY <2>3
    <3> QED BY <1>t, <2>3, <3>1, <3>2, <3>3, <3>4, <3>5
  <2> QED BY <2>1, <2>2, <2>3
<1>5. CASE Route
  <2>1. apply = "route" /\ UNCHANGED << gates, readers, latch, owed, bounds >>
    BY <1>5 DEF Route, Controller!Route, Controller!gates
  <2>2. boot' = boot \/ boot' = "event"
    BY <1>5 DEF Route
  <2> QED BY <1>t, <2>1, <2>2 DEF BootInv, ClosedInv
<1>6. CASE GivesUp
  <2>1. apply # "rest" /\ apply # "openWatcher" /\ apply' = "rest" /\ UNCHANGED << gates, readers, requests >>
    BY <1>6 DEF GivesUp, Controller!GivesUp, Controller!Failing, Controller!gates, Controller!Goto, Fault
  <2>2. boot' = boot \/ boot' = "exited"
    BY <1>6 DEF GivesUp
  <2>3. requests <= 1 => ~pollerOn /\ poller = "tick"
    BY <1>t, <2>1
  <2> QED BY <1>t, <2>1, <2>2, <2>3
<1>7. CASE BootStep
  <2>1. boot # "up" /\ UNCHANGED << gates, poller, requests >>
    BY <1>t, <1>7 DEF BootStep, OpenWatcher, ReadWakeLatch, FirstApply, PublishWake, StoreWake,
       Controller!DisablePoller, Publish, Fault, BootInv
  <2> QED BY <1>t, <1>7, <2>1 DEF BootInv, BootStep, OpenWatcher, ReadWakeLatch, FirstApply,
       PublishWake, StoreWake
<1>8. CASE Exit \/ Crash
  BY <1>8 DEF Exit, Crash, Gone, Controller!Dies
<1>9. CASE WatcherStep \/ WatcherStops
  <2>1. /\ UNCHANGED << outline, startup, poller, requests >>
        /\ watcher # "absent" /\ watcher' # "absent"
    BY <1>9 DEF WatcherStep, WatcherRead, WatcherGate, WatcherStatus, WatcherPublish,
       WatcherClear, WatcherStops, Publish, ClearLatch, Fault
  <2> QED BY <1>t, <2>1
<1>10. CASE PollerTick
  BY <1>t, <1>10 DEF PollerTick
<1>11. CASE PollerStatus
  BY <1>t, <1>11 DEF PollerStatus
<1>12. CASE PollerPublish
  BY <1>t, <1>12 DEF PollerPublish, Publish, Published
<1>13. CASE PollerClear
  BY <1>t, <1>13 DEF PollerClear, ClearLatch
<1> QED
  BY <1>1, <1>2, <1>3, <1>4, <1>5, <1>6, <1>7, <1>8, <1>9, <1>10, <1>11, <1>12, <1>13
     DEF Next, ApplyStep, PollerStep

LossInv == ClosedInv /\ OwedInv /\ WatcherInv /\ AloneInv /\ NothingLost

(* No step takes an owed motion out of everybody's hand.                     *)
LEMMA HandStep ==
  ASSUME IInv, LossInv, Next
  PROVE  NothingLost'
<1> SUFFICES ASSUME owed', ~Forgiven'
             PROVE  InHand'
  BY DEF NothingLost
<1> USE FaultFacts DEF InHand, HasWatcher, outline, gates, evdev, readers, startup,
        history, bounds, Engines, None
<1>t. /\ BootInv /\ ClosedInv /\ OwedInv /\ WatcherInv /\ AloneInv /\ owed \in BOOLEAN
      /\ latch \in Engines \cup {None}
      /\ watcher \in {"read", "gate", "status", "publish", "clear", "stopped", "absent"}
      /\ boot \in {"down", "wake", "first", "applying", "exited", "event", "field", "up"}
  BY DEF IInv, TypeOK, Controller!TypeOK, LossInv
<1>f. missed' \in Nat /\ faults' \in Nat /\ requests' \in Nat
  <2>1. IInv'
    BY PathInv
  <2> QED BY <2>1, Bounds DEF IInv, TypeOK
<1>z. missed' = 0 /\ faults' = 0 /\ (watcher' = "absent" => requests' <= 1)
  BY <1>f DEF Forgiven
<1>h. owed /\ missed = 0 /\ faults = 0 /\ (watcher = "absent" => requests <= 1) => InHand
  BY DEF LossInv, NothingLost, Forgiven
<1>1. CASE Motion \/ Transient
  BY <1>1 DEF Motion, Transient, Latches, Controller!Engines, Controller!None
<1>2. CASE Asked \/ (\E e \in Engines \cup {None} : Applies(e))
  BY <1>2 DEF Asked, Applies
<1>3. CASE Reset \/ Settle
  <2>1. /\ apply \in {"reset", "settle"} /\ UNCHANGED << gates, evdev, readers, startup, history, requests >>
        /\ (UNCHANGED faults \/ Fault)
    BY <1>3 DEF Reset, Settle, ClearLatch, Fault, Controller!Reset, Controller!Settle, Controller!gates
  <2>2. boot = "applying" /\ wake
    BY <1>t, <1>z, <2>1 DEF BootInv, ClosedInv, OwedInv, GateOpen
  <2> QED BY <2>1, <2>2
<1>4. CASE Route
  <2>1. /\ apply = "route" /\ UNCHANGED << gates, latch, readers, wake, history, bounds >>
        /\ boot' = boot \/ (boot = "applying" /\ boot' = "event")
    BY <1>4 DEF Route, Controller!Route, Controller!gates
  <2>2. boot = "applying" /\ wake
    BY <1>t, <1>z, <2>1 DEF BootInv, ClosedInv, OwedInv, GateOpen
  <2> QED BY <2>1, <2>2
<1>5. CASE OtherStep
  BY <1>h, <1>z, <1>5 DEF OtherStep
<1>6. CASE GivesUp
  BY <1>z, <1>6 DEF GivesUp
<1>7. CASE OpenWatcher
  BY <1>t, <1>z, <1>7 DEF OpenWatcher, OwedInv
<1>8. CASE ReadWakeLatch
  BY <1>t, <1>z, <1>8 DEF ReadWakeLatch, OwedInv
<1>9. CASE FirstApply
  BY <1>t, <1>z, <1>9 DEF FirstApply, OwedInv
<1>10. CASE PublishWake
  BY <1>t, <1>z, <1>10 DEF PublishWake, Publish, Published, OwedInv
<1>11. CASE StoreWake
  BY <1>t, <1>z, <1>11 DEF StoreWake, OwedInv
<1>12. CASE Exit \/ Crash
  BY <1>12 DEF Exit, Crash, Gone
<1>13. CASE WatcherRead \/ WatcherStatus \/ WatcherStops
  BY <1>h, <1>z, <1>13 DEF WatcherRead, WatcherStatus, WatcherStops
<1>14. CASE WatcherGate
  <2>1. /\ watcher = "gate" /\ watcher' \in {"status", "read"} /\ (watcherOn => watcher' = "status")
        /\ UNCHANGED << outline, latch, evdev, poller, startup, history, bounds >>
    BY <1>14 DEF WatcherGate
  <2>2. CASE boot = "up"
    BY <1>t, <1>z, <2>1, <2>2 DEF OwedInv, GateOpen
  <2>3. CASE boot # "up"
    BY <1>t, <1>z, <2>1, <2>3 DEF OwedInv
  <2> QED BY <2>2, <2>3
<1>15. CASE WatcherPublish \/ PollerPublish
  BY <1>z, <1>15 DEF WatcherPublish, PollerPublish, Publish, Published
<1>16. CASE WatcherClear
  <2>1. keys > 0 /\ UNCHANGED keys
    BY <1>t, <1>z, <1>16 DEF WatcherClear, ClearLatch, WatcherInv
  <2> QED BY <2>1
<1>17. CASE PollerTick \/ PollerStatus
  BY <1>h, <1>z, <1>17 DEF PollerTick, PollerStatus
<1>18. CASE PollerClear
  <2>1. /\ poller = "clear" /\ UNCHANGED << outline, evdev, watcher, startup, history, requests >>
        /\ faults = 0
    BY <1>z, <1>18 DEF PollerClear, ClearLatch, Fault
  <2>2. CASE watcher = "absent"
    BY <1>t, <1>z, <2>1, <2>2 DEF AloneInv
  <2>3. CASE watcher # "absent"
    BY <1>t, <1>z, <2>1, <2>3 DEF WatcherInv, WatcherHas
  <2> QED BY <2>2, <2>3
<1> QED
  BY <1>1, <1>2, <1>3, <1>4, <1>5, <1>6, <1>7, <1>8, <1>9, <1>10, <1>11, <1>12, <1>13, <1>14,
     <1>15, <1>16, <1>17, <1>18 DEF Next, ApplyStep, BootStep, WatcherStep, PollerStep

(* No interleaving of the two readers, of Applies, calls, restarts and the  *)
(* start-up takes a motion away that nobody reports.                        *)
THEOREM MotionsKept == Spec => []NothingLost
<1>1. Init => LossInv
  BY DEF Init, Controller!Init, LossInv, ClosedInv, OwedInv, WatcherInv, AloneInv, NothingLost,
         HasWatcher, None
<1>2. IInv /\ LossInv /\ [Next]_vars => LossInv'
  <2>1. ASSUME LossInv, UNCHANGED vars PROVE LossInv'
    BY <2>1 DEF vars, outline, gates, evdev, readers, startup, history, bounds, LossInv, ClosedInv,
       OwedInv, WatcherInv, WatcherHas, AloneInv, NothingLost, HasWatcher, GateOpen, Forgiven, InHand
  <2> QED BY <2>1, ClosedStep, OwedStep, WatcherInvStep, AloneStep, HandStep DEF LossInv
<1>3. LossInv => NothingLost
  BY DEF LossInv
<1> QED BY <1>1, <1>2, <1>3, Inductive, PTL DEF Spec
=============================================================================
