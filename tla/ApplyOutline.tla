---------------------------- MODULE ApplyOutline ----------------------------
(***************************************************************************)
(* Controller.Apply as the interrupt path sees it: the two gates, the      *)
(* engine that runs and whether it is mapped to the pins, without          *)
(* registers, profiles, callers or the mutex.  ProfileController           *)
(* implements it (OutlineSpec) and InterruptPath is built from it, so what *)
(* is shown of the path holds for the Apply that writes every register.    *)
(***************************************************************************)
Engines == {"any-motion", "slow-motion"}
None    == "none"

VARIABLES
  pollerOn, watcherOn,  \* the gates: enabled of InterruptPoller, InterruptWatcher
  engine,               \* the engine that runs, or None
  routed,               \* is an engine mapped to the interrupt pins?
  apply,                \* the next step of the Apply in service, or "rest"
  want                  \* its profile's engine; None for idle and at rest

gates   == << pollerOn, watcherOn >>
outline == << gates, engine, routed, apply, want >>

Failing == {"reset", "configure", "settle", "route", "enable"}
Steps   == Failing \cup {"rest", "disableWatcher", "openPoller", "openWatcher"}

TypeOK ==
  /\ pollerOn \in BOOLEAN /\ watcherOn \in BOOLEAN
  /\ engine \in Engines \cup {None} /\ routed \in BOOLEAN
  /\ apply \in Steps /\ want \in Engines \cup {None}

(* A process that has not applied anything yet, over any chip.              *)
Init == TypeOK /\ ~pollerOn /\ ~watcherOn /\ apply = "rest" /\ want = None

Goto(step) == apply' = step /\ want' = (IF step = "rest" THEN None ELSE want)

DisablePoller(e) ==
  /\ apply = "rest" /\ apply' = "disableWatcher" /\ want' = e
  /\ pollerOn' = FALSE /\ UNCHANGED << watcherOn, engine, routed >>

DisableWatcher ==
  /\ apply = "disableWatcher" /\ Goto("reset")
  /\ watcherOn' = FALSE /\ UNCHANGED << pollerOn, engine, routed >>

Erased == engine' = None /\ routed' = FALSE

Reset == apply = "reset" /\ Goto("configure") /\ Erased /\ UNCHANGED gates

(* The any-motion engine runs from here on, the slow-motion one from Enable. *)
Configured == IF want = "any-motion" THEN want ELSE None

Configure ==
  /\ apply = "configure" /\ Goto("settle")
  /\ engine' = Configured /\ UNCHANGED << gates, routed >>

Settle == apply = "settle" /\ Goto("route") /\ UNCHANGED << gates, engine, routed >>

(* One transaction per pin. *)
AfterRoute ==
  IF want = None THEN "rest" ELSE IF want = "any-motion" THEN "openPoller" ELSE "enable"

Route ==
  /\ apply = "route" /\ (Goto("route") \/ Goto(AfterRoute))
  /\ routed' = (want # None) /\ UNCHANGED << gates, engine >>

Enable ==
  /\ apply = "enable" /\ Goto("openPoller")
  /\ engine' = want /\ UNCHANGED << gates, routed >>

(* A transaction fails, whether or not the chip took it.                    *)
GivesUp ==
  /\ apply \in Failing /\ Goto("rest") /\ UNCHANGED gates
  /\ \/ UNCHANGED << engine, routed >>
     \/ apply = "reset" /\ Erased
     \/ apply = "configure" /\ engine' = Configured /\ UNCHANGED routed
     \/ apply = "route" /\ routed' = (want # None) /\ UNCHANGED engine
     \/ apply = "enable" /\ engine' = want /\ UNCHANGED routed

OpenPoller ==
  /\ apply = "openPoller" /\ Goto("openWatcher")
  /\ pollerOn' = TRUE /\ UNCHANGED << watcherOn, engine, routed >>

OpenWatcher ==
  /\ apply = "openWatcher" /\ Goto("rest")
  /\ watcherOn' \in BOOLEAN /\ UNCHANGED << pollerOn, engine, routed >>

(* softReset resets the chip beside Apply; the process dies.                *)
OtherReset == Erased /\ UNCHANGED << gates, apply, want >>

Dies ==
  /\ pollerOn' = FALSE /\ watcherOn' = FALSE
  /\ apply' = "rest" /\ want' = None /\ UNCHANGED << engine, routed >>

Step ==
  \/ DisableWatcher \/ Reset \/ Configure \/ Settle \/ Route \/ Enable
  \/ OpenPoller \/ OpenWatcher

Next ==
  \/ \E e \in Engines \cup {None} : DisablePoller(e)
  \/ Step \/ GivesUp \/ OtherReset \/ Dies

Spec == Init /\ [][Next]_outline
=============================================================================
