----------------------- MODULE ControllerQuietProofs -----------------------
(***************************************************************************)
(* Theorems about a whole Apply of ProfileController, for any number of    *)
(* callers, calls, failures and restarts: it is all or nothing, and each   *)
(* of its steps brings it nearer to its end.  And about a controller whose *)
(* transactions have not failed so far: the record, the chip, the gates    *)
(* and the status hash agree whenever nobody changes them,                 *)
(* prepare-hibernation confirms what is so, a reset outside Apply is       *)
(* noticed, and a callback nobody else applied beside decides the profile. *)
(* Soft-resets run beside all of it.                                       *)
(***************************************************************************)
EXTENDS ApplyOutlineProofs

(* What each call is about, by its place.                                   *)
ServiceInv ==
  \A c \in Callers :
    /\ pc[c] \in InSoftReset => op[c] = "soft-reset"
    /\ pc[c] = "clear" => op[c] = "clear-latch"
    /\ op[c] = "prepare-hibernation" =>
         pc[c] \in {"lock"} \cup Applying /\ want[c] = "armed-hibernation"

(* How far Apply has opened them.                                           *)
OpenedInv ==
  \A p \in Procs :
    /\ pc[p] = "enableWatcher" => pollerOn
    /\ pc[p] = "commit" => GatesFor(want[p])

(* A record, as long as it stands and no soft-reset lies over it, is that   *)
(* of the chip, the gates and the hash.                                     *)
RecordInv ==
  hasFirst /\ mu = NoOne =>
    status = current /\ GatesFor(current) /\ (~erased => Ready(chip, current))

(* A soft-reset that nobody has programmed over yet is about to clear the   *)
(* record, or has done so, and then only an Apply that has its own reset    *)
(* before it may be in service.                                             *)
BeforeReset == {"disablePoller", "disableWatcher", "accelReset", "gyroReset"}
ErasedInv ==
  erased => \/ \E c \in Callers : pc[c] \in {"resetGyro", "invalidate"}
            \/ ~hasFirst /\ (mu = NoOne \/ pc[mu] \in BeforeReset)

(* Once the service is up, a record that is cleared is one that some        *)
(* soft-reset will make anew.                                               *)
Due(c)   == op[c] = "soft-reset" /\ pc[c] \in {"getCurrent", "lock"} \cup Applying
FirstInv == Started /\ ~hasFirst => \E c \in Callers : Due(c)

(* Before the service is up, only the idle profile is about.                *)
StartInv == ~Started => /\ want[Main] = "idle" /\ current = "idle"
                        /\ \A p \in Procs : p # Main => pc[p] = "idle"

(* A callback that is alone wants what the states call for, and an Apply of *)
(* a soft-reset wants the profile that the latest callback left.            *)
LoneInv ==
  ~contested =>
    /\ \A c \in Callers : pc[c] \in {"lock"} \cup Applying => want[c] = current
    /\ \A h \in Handlers : pc[h] # "idle" =>
         /\ want[h] = Derive(alarmStatus, pmState)
         /\ InService = {h}
    /\ (\A h \in Handlers : pc[h] = "idle") => current = Derive(alarmStatus, pmState)

QuietInv ==
  faults = 0 => /\ ServiceInv /\ RecordInv /\ ErasedInv /\ FirstInv
                /\ StartInv /\ LoneInv
-----------------------------------------------------------------------------
(* Failing or not, a step of Apply is one of its caller alone, who goes on  *)
(* with the mutex or leaves without it.                                     *)
LEMMA EitherWay ==
  ASSUME IInv, NEW p \in Procs, ApplyStep(p)
  PROVE  /\ \A q \in Procs : q # p => pc'[q] = pc[q] /\ want'[q] = want[q]
         /\ \/ mu' = p /\ pc'[p] \in Applying /\ want' = want
            \/ mu' = NoOne /\ pc'[p] \notin Applying
<1> USE DEF subscriber, controller, gates, calls, history, bounds
<1>1. CASE mu' = NoOne /\ (Succeeds(p) \/ Fails(p))
  BY <1>1, Leaves, Places
<1>2. CASE mu' = p /\ want' = want /\ \E label \in Applying : Goto(p, label)
  BY <1>2, Moves
<1>3. CASE Lock(p)
  BY <1>2, <1>3, Places DEF Lock
<1>4. CASE Skip(p)
  BY <1>1, <1>4 DEF Skip
<1>5. CASE DisablePoller(p) \/ DisableWatcher(p) \/ EnablePoller(p) \/ EnableWatcher(p)
  BY <1>2, <1>5, Places DEF DisablePoller, DisableWatcher, EnablePoller, EnableWatcher, Holds
<1>6. CASE AccelReset(p) \/ GyroReset(p)
  BY <1>1, <1>2, <1>6, Places DEF AccelReset, GyroReset, Holds, GivesUp
<1>7. CASE Write(p)
  <2>1. pc[p] = "program" /\ mu = p
    BY <1>7 DEF Write, Holds
  <2>2. CASE UNCHANGED << mu, calls >>
    BY <2>1, <2>2, Places
  <2>3. CASE GivesUp(p)
    BY <1>1, <2>3 DEF GivesUp
  <2> QED BY <1>7, <2>2, <2>3 DEF Write
<1>8. CASE ProgramDone(p)
  BY <1>2, <1>8, Places DEF ProgramDone, Holds
<1>9. CASE Commit(p)
  BY <1>1, <1>9 DEF Commit
<1> QED BY <1>3, <1>4, <1>5, <1>6, <1>7, <1>8, <1>9 DEF ApplyStep

(* Nobody but the caller of a step of Apply is in Apply after it.           *)
LEMMA AloneAfter ==
  ASSUME IInv, NEW p \in Procs, ApplyStep(p), NEW q \in Procs, q # p
  PROVE  pc'[q] \notin Applying
<1>1. mu \in {p, NoOne}
  BY DEF ApplyStep, Lock, Skip, DisablePoller, DisableWatcher, AccelReset, GyroReset, Write,
         ProgramDone, EnablePoller, EnableWatcher, Commit, Holds
<1>2. pc[q] \notin Applying
  BY <1>1, CallersAssumption DEF IInv, GateInv, LockInv
<1> QED BY <1>2, EitherWay

(* Every step keeps the gates as far open as Apply has come.                *)
LEMMA OpenedStep ==
  ASSUME IInv, OpenedInv, Next
  PROVE  OpenedInv'
<1> USE DEF OpenedInv, subscriber, controller, gates, calls, history, bounds
<1>1. ASSUME NEW p \in Procs, ApplyStep(p) PROVE OpenedInv'
  <2>1. \A q \in Procs : q # p => pc'[q] \notin {"enableWatcher", "commit"}
    BY <1>1, AloneAfter, Places
  <2>2. pc'[p] = "enableWatcher" => pollerOn'
    <3> SUFFICES ASSUME pc'[p] = "enableWatcher" PROVE pollerOn'
      OBVIOUS
    <3>1. EnablePoller(p)
      <4>1. \A label : Goto(p, label) => label = "enableWatcher"
        BY Moves
      <4> QED
        BY <1>1, <4>1 DEF ApplyStep, Lock, Skip, DisablePoller, DisableWatcher, AccelReset, GyroReset,
           Write, ProgramDone, EnablePoller, EnableWatcher, Commit, Succeeds, Fails, GivesUp, Holds
    <3> QED BY <3>1 DEF EnablePoller
  <2>3. pc'[p] = "commit" => GatesFor(want[p])' /\ want' = want
    <3> SUFFICES ASSUME pc'[p] = "commit" PROVE GatesFor(want[p])' /\ want' = want
      OBVIOUS
    <3>1. ProgramDone(p) \/ EnableWatcher(p)
      <4>1. \A label : Goto(p, label) => label = "commit"
        BY Moves
      <4> QED
        BY <1>1, <4>1 DEF ApplyStep, Lock, Skip, DisablePoller, DisableWatcher, AccelReset, GyroReset,
           Write, ProgramDone, EnablePoller, EnableWatcher, Commit, Succeeds, Fails, GivesUp, Holds
    <3>2. CASE ProgramDone(p)
      <4>1. pc[p] = "program" /\ want' = want /\ UNCHANGED gates
            /\ Goto(p, IF Configs(want[p]).enable THEN "enablePoller" ELSE "commit")
        BY <3>2 DEF ProgramDone, Holds
      <4>2. ~Configs(want[p]).enable
        BY <4>1, Moves
      <4>3. ~pollerOn /\ ~watcherOn
        BY <4>1, Closed, Places
      <4> QED BY <4>1, <4>2, <4>3 DEF GatesFor
    <3>3. CASE EnableWatcher(p)
      <4>1. pc[p] = "enableWatcher" /\ want' = want /\ pollerOn' = pollerOn /\ watcherOn' = HasWatcher
        BY <3>3 DEF EnableWatcher, Holds
      <4>2. Configs(want[p]).enable /\ pollerOn
        BY <4>1 DEF IInv, GateInv, FlagInv
      <4> QED BY <4>1, <4>2 DEF GatesFor
    <3> QED BY <3>1, <3>2, <3>3
  <2> QED BY <2>1, <2>2, <2>3 DEF GatesFor
<1>2. ASSUME NEW c \in Procs, Apart(c) PROVE OpenedInv'
  <2>1. \A p \in Procs : pc'[p] \in Applying => pc'[p] = pc[p] /\ want'[p] = want[p]
    BY <1>2 DEF Apart
  <2>2. UNCHANGED gates
    BY <1>2 DEF Apart
  <2> QED BY <2>1, <2>2, Places DEF GatesFor
<1>3. CASE Restart
  BY <1>3 DEF Restart
<1> QED BY <1>1, <1>2, <1>3, CallApart, RequestApart DEF Next

(* The flags follow Apply whatever fails.                                   *)
LEMMA OpenedHeld == Spec => []OpenedInv
<1>1. Init => OpenedInv
  BY DEF Init, Fresh, OpenedInv
<1>2. ASSUME IInv, OpenedInv, [Next]_vars PROVE OpenedInv'
  <2>1. CASE UNCHANGED vars
    BY <1>2, <2>1 DEF vars, gates, calls, OpenedInv, GatesFor
  <2> QED BY <1>2, <2>1, OpenedStep
<1> QED BY <1>1, <1>2, Inductive, PTL DEF Spec

(* Apply is all or nothing, for any number of callers, failures and         *)
(* crashes: whoever leaves it leaves its own profile in the record, on both *)
(* gates and, unless reset since, in the chip, or leaves the record alone   *)
(* and both gates closed.                                                   *)
THEOREM ApplyAllOrNothing == Spec => AllOrNothing
<1> DEFINE Leaving ==
      \A p \in Procs :
        mu = p /\ mu' = NoOne /\ ApplyStep(p)
          => IF Commit(p)
             THEN /\ current' = want[p] /\ hasFirst' /\ GatesFor(current)'
                  /\ ~erased' => Ready(chip', want[p])
             ELSE /\ UNCHANGED << current, hasFirst, status >>
                  /\ ~pollerOn' /\ ~watcherOn'
<1>1. ASSUME IInv, OpenedInv, NEW p \in Procs, mu = p, mu' = NoOne, Commit(p)
      PROVE  /\ current' = want[p] /\ hasFirst' /\ GatesFor(current)'
             /\ ~erased' => Ready(chip', want[p])
  <2>1. /\ pc[p] = "commit" /\ current' = want[p] /\ hasFirst' = TRUE
        /\ UNCHANGED << gates, chip, erased >>
    BY <1>1 DEF Commit, Holds, history
  <2>2. GatesFor(want[p])
    BY <1>1, <2>1 DEF OpenedInv
  <2>3. ~erased => Ready(chip, want[p])
    BY <1>1, <2>1, Places DEF IInv, GateInv, ArmInv
  <2> QED BY <2>1, <2>2, <2>3 DEF GatesFor, gates
<1>2. ASSUME IInv, NEW p \in Procs, mu = p, mu' = NoOne, ApplyStep(p), ~Commit(p)
      PROVE  /\ UNCHANGED << current, hasFirst, status >>
             /\ ~pollerOn' /\ ~watcherOn'
  <2>n. p # NoOne
    BY CallersAssumption
  <2>1. AccelReset(p) \/ GyroReset(p) \/ Write(p)
    BY <1>2, <2>n DEF ApplyStep, Lock, Skip, DisablePoller, DisableWatcher, ProgramDone, EnablePoller,
                      EnableWatcher, controller
  <2>2. pc[p] \in Programming /\ UNCHANGED << current, hasFirst, status, gates >>
    BY <2>1, Places DEF AccelReset, GyroReset, Write, Holds
  <2>3. ~pollerOn /\ ~watcherOn
    BY <1>2, <2>2, Closed
  <2> QED BY <2>2, <2>3 DEF gates
<1>3. ASSUME IInv, OpenedInv PROVE [Leaving]_vars
  BY <1>1, <1>2, <1>3
<1>4. Spec => [][Leaving]_vars
  BY <1>3, Inductive, OpenedHeld, PTL
<1> QED BY <1>4 DEF AllOrNothing
-----------------------------------------------------------------------------
(* The steps that an Apply of profile p has before it, at most.             *)
StepsLeft(label, p, n) ==
  CASE label = "commit"         -> 1
    [] label = "enableWatcher"  -> 2
    [] label = "enablePoller"   -> 3
    [] label = "program"        -> 5 + Len(Program(p)) - n
    [] label = "gyroReset"      -> 5 + Len(Program(p))
    [] label = "accelReset"     -> 6 + Len(Program(p))
    [] label = "disableWatcher" -> 7 + Len(Program(p))
    [] OTHER                    -> 8 + Len(Program(p))

Left == StepsLeft(pc[mu], want[mu], next)

(* Only the process in Apply moves it on, and each of its steps is one less.*)
Advances ==
  mu # NoOne => \/ mu' = NoOne
                \/ mu' = mu /\ ApplyStep(mu) /\ Left' < Left
                \/ mu' = mu /\ ~ApplyStep(mu) /\ Left' = Left

(* An Apply has one more step before it than it has after any of them.      *)
LEMMA LeftOf ==
  ASSUME NEW p \in Profiles, NEW n \in Nat \ {0}
  PROVE  /\ Len(Program(p)) \in Nat
         /\ StepsLeft("commit", p, n) = 1 /\ StepsLeft("enableWatcher", p, n) = 2
         /\ StepsLeft("enablePoller", p, n) = 3
         /\ StepsLeft("program", p, n) = 5 + Len(Program(p)) - n
         /\ StepsLeft("gyroReset", p, n) = 5 + Len(Program(p))
         /\ StepsLeft("accelReset", p, n) = 6 + Len(Program(p))
         /\ StepsLeft("disableWatcher", p, n) = 7 + Len(Program(p))
         /\ StepsLeft("disablePoller", p, n) = 8 + Len(Program(p))
BY ProgramType DEF StepsLeft

LEMMA LeftBounded ==
  ASSUME IInv, mu # NoOne
  PROVE  Left \in 1 .. 8 + Len(Program(want[mu]))
<1>1. mu \in Procs /\ pc[mu] \in Applying /\ want[mu] \in Profiles /\ next \in Nat \ {0}
  BY DEF IInv, TypeOK, GateInv, LockInv
<1>2. pc[mu] = "program" => next <= Len(Program(want[mu])) + 1
  BY <1>1 DEF IInv, GateInv, ProgramInv
<1>3. pc[mu] \in {"disablePoller", "disableWatcher", "accelReset", "gyroReset", "program",
                  "enablePoller", "enableWatcher", "commit"}
  BY <1>1 DEF Applying, Programming, Resetting, Arming
<1>4. Left = StepsLeft(pc[mu], want[mu], next)
  BY DEF Left
<1>5. pc[mu] = "program" => Left \in 1 .. 8 + Len(Program(want[mu]))
  <2> SUFFICES ASSUME pc[mu] = "program" PROVE Left \in 1 .. 8 + Len(Program(want[mu]))
    OBVIOUS
  <2>1. Left = 5 + Len(Program(want[mu])) - next /\ Len(Program(want[mu])) \in Nat
    BY <1>1, <1>4, LeftOf
  <2> QED BY <1>1, <1>2, <2>1
<1>6. pc[mu] # "program" => Left \in 1 .. 8 + Len(Program(want[mu]))
  <2>1. Len(Program(want[mu])) \in Nat
    BY <1>1, LeftOf
  <2>2. CASE pc[mu] \in {"enablePoller", "enableWatcher", "commit"}
    <3>1. Left \in {1, 2, 3}
      BY <1>1, <1>4, <2>2, LeftOf
    <3> QED BY <2>1, <3>1
  <2>3. CASE pc[mu] \in {"disablePoller", "disableWatcher", "accelReset", "gyroReset"}
    <3>1. \E k \in {5, 6, 7, 8} : Left = k + Len(Program(want[mu]))
      BY <1>1, <1>4, <2>3, LeftOf
    <3> QED BY <2>1, <3>1
  <2> QED BY <1>3, <2>2, <2>3
<1> QED BY <1>5, <1>6

LEMMA StepAdvances ==
  ASSUME IInv, mu # NoOne, ApplyStep(mu)
  PROVE  mu' = NoOne \/ (mu' = mu /\ Left' < Left)
<1> DEFINE p == mu
<1> USE DEF subscriber, controller, gates, calls, history, bounds
<1>1. p \in Procs /\ want[p] \in Profiles /\ next \in Nat \ {0} /\ next + 1 \in Nat \ {0} /\ 1 \in Nat \ {0}
  <2>1. p \in Procs /\ want[p] \in Profiles /\ next \in Nat \ {0}
    BY DEF IInv, TypeOK
  <2> QED BY <2>1
<1>2. ASSUME NEW label, Goto(p, label), UNCHANGED << mu, want >>
      PROVE  Left' = StepsLeft(label, want[p], next')
  BY <1>1, <1>2, Moves DEF Left
<1>3. Left = StepsLeft(pc[p], want[p], next)
  BY DEF Left
<1>4. CASE GivesUp(p)
  BY <1>4 DEF GivesUp
<1>5. CASE Lock(p) \/ Skip(p)
  BY <1>5 DEF Lock, Skip
<1>6. CASE DisablePoller(p)
  <2>1. pc[p] = "disablePoller" /\ Goto(p, "disableWatcher") /\ UNCHANGED << mu, want, next >>
    BY <1>6 DEF DisablePoller, Holds
  <2>2. Left' = StepsLeft("disableWatcher", want[p], next)
    BY <1>2, <2>1
  <2> QED BY <1>1, <1>3, <2>1, <2>2, LeftOf
<1>7. CASE DisableWatcher(p)
  <2>1. pc[p] = "disableWatcher" /\ Goto(p, "accelReset") /\ UNCHANGED << mu, want, next >>
    BY <1>7 DEF DisableWatcher, Holds
  <2>2. Left' = StepsLeft("accelReset", want[p], next)
    BY <1>2, <2>1
  <2> QED BY <1>1, <1>3, <2>1, <2>2, LeftOf
<1>8. CASE AccelReset(p) /\ ~GivesUp(p)
  <2>1. pc[p] = "accelReset" /\ Goto(p, "gyroReset") /\ UNCHANGED << mu, want, next >>
    BY <1>8 DEF AccelReset, Holds
  <2>2. Left' = StepsLeft("gyroReset", want[p], next)
    BY <1>2, <2>1
  <2> QED BY <1>1, <1>3, <2>1, <2>2, LeftOf
<1>9. CASE GyroReset(p) /\ ~GivesUp(p)
  <2>1. pc[p] = "gyroReset" /\ Goto(p, "program") /\ next' = 1 /\ UNCHANGED << mu, want >>
    BY <1>9 DEF GyroReset, Holds
  <2>2. Left' = StepsLeft("program", want[p], 1)
    BY <1>2, <2>1
  <2> QED BY <1>1, <1>3, <2>1, <2>2, LeftOf
<1>10. CASE Write(p) /\ ~GivesUp(p)
  <2>1. pc[p] = "program" /\ next' = next + 1 /\ UNCHANGED << mu, pc, want >>
    BY <1>10 DEF Write, Holds
  <2>2. Left' = StepsLeft("program", want[p], next + 1)
    BY <2>1 DEF Left
  <2> QED BY <1>1, <1>3, <2>1, <2>2, LeftOf
<1>11. CASE ProgramDone(p)
  <2>1. PICK label \in {"enablePoller", "commit"} : Goto(p, label)
    BY <1>11 DEF ProgramDone
  <2>2. pc[p] = "program" /\ next' = 1 /\ UNCHANGED << mu, want >>
    BY <1>11 DEF ProgramDone, Holds
  <2>3. Left' = StepsLeft(label, want[p], 1)
    BY <1>2, <2>1, <2>2
  <2>4. Left' <= 3
    BY <1>1, <2>1, <2>3, LeftOf
  <2>5. next <= Len(Program(want[p])) + 1
    BY <1>1, <2>2 DEF IInv, GateInv, ProgramInv
  <2>6. Left = 5 + Len(Program(want[p])) - next
    BY <1>1, <1>3, <2>2, LeftOf
  <2>7. Left' \in Nat
    BY <1>1, <2>1, <2>3, LeftOf
  <2>8. Len(Program(want[p])) \in Nat
    BY <1>1, LeftOf
  <2> QED BY <1>1, <2>2, <2>4, <2>5, <2>6, <2>7, <2>8
<1>12. CASE EnablePoller(p)
  <2>1. pc[p] = "enablePoller" /\ Goto(p, "enableWatcher") /\ UNCHANGED << mu, want, next >>
    BY <1>12 DEF EnablePoller, Holds
  <2>2. Left' = StepsLeft("enableWatcher", want[p], next)
    BY <1>2, <2>1
  <2> QED BY <1>1, <1>3, <2>1, <2>2, LeftOf
<1>13. CASE EnableWatcher(p)
  <2>1. pc[p] = "enableWatcher" /\ Goto(p, "commit") /\ UNCHANGED << mu, want, next >>
    BY <1>13 DEF EnableWatcher, Holds
  <2>2. Left' = StepsLeft("commit", want[p], next)
    BY <1>2, <2>1
  <2> QED BY <1>1, <1>3, <2>1, <2>2, LeftOf
<1>14. CASE Commit(p)
  BY <1>14 DEF Commit
<1> QED BY <1>4, <1>5, <1>6, <1>7, <1>8, <1>9, <1>10, <1>11, <1>12, <1>13, <1>14 DEF ApplyStep

(* An Apply that has begun has a bounded number of steps before it, each of *)
(* its own steps, failing or not, leaves fewer, and nothing but a restart   *)
(* of the service adds to them or takes the mutex away: with a bus whose    *)
(* transactions return, Controller.mu is always given back.                 *)
THEOREM ApplyEnds ==
  Spec => /\ [](mu # NoOne => Left \in 1 .. 8 + Len(Program(want[mu])))
          /\ [][Advances]_vars
<1>1. IInv => (mu # NoOne => Left \in 1 .. 8 + Len(Program(want[mu])))
  BY LeftBounded
<1>2. ASSUME IInv, mu # NoOne, NEW c \in Procs, Apart(c)
      PROVE  mu' = mu /\ ~ApplyStep(mu) /\ Left' = Left
  <2>1. mu \in Procs /\ pc[mu] \in Applying
    BY <1>2 DEF IInv, TypeOK, GateInv, LockInv
  <2>2. mu # c
    BY <1>2, <2>1 DEF Apart
  <2>3. UNCHANGED << mu, next >> /\ pc'[mu] = pc[mu] /\ want'[mu] = want[mu]
    BY <1>2, <2>1, <2>2 DEF Apart
  <2>4. Left' = Left
    BY <2>3 DEF Left
  <2>5. ~ApplyStep(mu)
    <3> SUFFICES ASSUME ApplyStep(mu) PROVE FALSE
      OBVIOUS
    <3>1. mu' = NoOne \/ Left' < Left
      BY <1>2, StepAdvances
    <3>2. Left \in Nat
      BY <1>2, LeftBounded DEF Left
    <3> QED BY <1>2, <2>3, <2>4, <3>1, <3>2
  <2> QED BY <2>3, <2>4, <2>5
<1>3. ASSUME IInv, Next PROVE Advances
  <2> SUFFICES ASSUME mu # NoOne PROVE Advances
    BY DEF Advances
  <2>1. ASSUME NEW p \in Procs, ApplyStep(p) PROVE p = mu
    <3>1. mu \in {p, NoOne}
      BY <2>1 DEF ApplyStep, Lock, Skip, DisablePoller, DisableWatcher, AccelReset, GyroReset, Write,
                  ProgramDone, EnablePoller, EnableWatcher, Commit, Holds
    <3> QED BY <3>1
  <2>2. CASE ApplyStep(mu)
    BY <1>3, <2>2, StepAdvances DEF Advances
  <2>3. CASE \E c \in Procs : Apart(c)
    BY <1>2, <1>3, <2>3 DEF Advances
  <2>4. CASE Restart
    BY <2>4 DEF Restart, Advances
  <2> QED BY <1>3, <2>1, <2>2, <2>3, <2>4, CallApart, RequestApart DEF Next
<1>4. IInv => [Advances]_vars \/ ~[Next]_vars
  BY <1>3
<1> QED BY <1>1, <1>4, Inductive, PTL DEF Spec
-----------------------------------------------------------------------------
(* While faults stays 0, no step took the branch of a failure.              *)
LEMMA FaultFree ==
  ASSUME IInv, Next, faults' = 0
  PROVE  faults = 0 /\ ~Fault
<1>1. faults \in Nat
  <2>1. faults \in 0 .. MaxFaults
    BY DEF IInv, TypeOK
  <2> QED BY <2>1, BoundsAssumption
<1>2. ~Fault
  BY <1>1 DEF Fault
<1> USE <1>2 DEF bounds
<1>3. ASSUME NEW p \in Procs, ApplyStep(p) PROVE faults' = faults
  BY <1>3 DEF ApplyStep, Lock, Skip, DisablePoller, DisableWatcher, AccelReset, GyroReset, Write,
              ProgramDone, EnablePoller, EnableWatcher, Commit
<1>4. ASSUME NEW c \in Callers, CallStep(c) PROVE faults' = faults
  BY <1>4 DEF CallStep, WriteClear, ResetAccel, ResetGyro, Invalidate, Current
<1>5. CASE Request
  BY <1>5 DEF Request, handleAlarmStatus, handlePmState, prepareHibernation, clearLatch, softReset
<1>6. CASE Restart
  BY <1>6 DEF Restart
<1>7. faults' = faults
  BY <1>3, <1>4, <1>5, <1>6 DEF Next
<1> QED BY <1>2, <1>7

(* A return without failure.                                                *)
Returned(p) ==
  /\ pc'[p] = (IF p = Main THEN "serving" ELSE "idle")
  /\ \A c \in Callers : op'[c] = IF c = p THEN "none" ELSE op[c]

(* A step of Apply is one of its caller alone, who goes on or returns.      *)
LEMMA ApplyShape ==
  ASSUME IInv, NEW p \in Procs, ApplyStep(p), ~Fault
  PROVE  /\ \A q \in Procs : q # p => pc'[q] = pc[q] /\ want'[q] = want[q]
         /\ UNCHANGED << subscriber, contested >>
         /\ \/ /\ ~(Skip(p) \/ Commit(p))
               /\ mu' = p /\ pc'[p] \in Applying
               /\ UNCHANGED << want, op, current, hasFirst, status >>
            \/ /\ Skip(p) \/ Commit(p)
               /\ mu' = NoOne /\ Returned(p)
               /\ current' = want[p] /\ hasFirst' = TRUE
<1> USE DEF subscriber, controller, gates, calls, history, bounds
<1>n. p # NoOne
  BY CallersAssumption
<1>1. CASE Skip(p)
  <2>1. Returned(p)
    BY <1>1 DEF Skip, Succeeds, Ends, Goto, IInv, TypeOK, Returned
  <2>2. /\ mu' = NoOne /\ UNCHANGED << alarmStatus, pmState, contested >>
        /\ current' = want[p] /\ hasFirst' = TRUE
    BY <1>1 DEF Skip, IInv, TypeOK
  <2> QED BY <1>1, <2>1, <2>2, Leaves DEF Skip
<1>2. CASE Commit(p)
  <2>1. Returned(p)
    BY <1>2 DEF Commit, Succeeds, Ends, Goto, IInv, TypeOK, Returned
  <2> QED BY <1>2, <2>1, Leaves DEF Commit
<1>3. CASE ~(Skip(p) \/ Commit(p))
  <2>1. PICK label \in Applying : Goto(p, label) /\ mu' = p
          /\ UNCHANGED << want, op, current, hasFirst, status, contested, alarmStatus, pmState >>
    <3>1. CASE Lock(p)
      BY <3>1, Places DEF Lock
    <3>2. CASE DisablePoller(p) \/ DisableWatcher(p) \/ EnablePoller(p) \/ EnableWatcher(p)
      BY <3>2, Places DEF DisablePoller, DisableWatcher, EnablePoller, EnableWatcher, Holds
    <3>3. CASE AccelReset(p) \/ GyroReset(p)
      BY <3>3, Places DEF AccelReset, GyroReset, Holds
    <3>4. CASE Write(p)
      <4>1. Goto(p, "program")
        BY <3>4 DEF Write, Goto, Holds, IInv, TypeOK
      <4> QED BY <3>4, <4>1, Places DEF Write, Holds
    <3>5. CASE ProgramDone(p)
      BY <3>5, Places DEF ProgramDone, Holds
    <3> QED BY <1>3, <3>1, <3>2, <3>3, <3>4, <3>5 DEF ApplyStep
  <2> QED BY <1>3, <2>1, Moves
<1> QED BY <1>1, <1>2, <1>3

(* Where a step of Apply starts.                                            *)
LEMMA ApplyFrom ==
  ASSUME NEW p \in Procs, ApplyStep(p)
  PROVE  pc[p] \in {"lock"} \cup Applying
BY Places DEF ApplyStep, Lock, Skip, DisablePoller, DisableWatcher, AccelReset, GyroReset, Write,
              ProgramDone, EnablePoller, EnableWatcher, Commit, Holds
-----------------------------------------------------------------------------
(* Every step keeps what the calls are about.                               *)
LEMMA ServiceStep ==
  ASSUME IInv, ServiceInv, Next, ~Fault
  PROVE  ServiceInv'
<1> USE DEF ServiceInv, subscriber, controller, gates, calls, history, bounds
<1>c. \A c \in Callers : c \in Procs /\ c # Main
  BY CallersAssumption DEF Procs
<1>1. ASSUME NEW p \in Procs, ApplyStep(p) PROVE ServiceInv'
  <2>1. /\ \A q \in Procs : q # p => pc'[q] = pc[q] /\ want'[q] = want[q]
        /\ \/ pc'[p] \in Applying /\ pc[p] \in {"lock"} \cup Applying /\ UNCHANGED << want, op >>
           \/ Returned(p)
    BY <1>1, ApplyShape, ApplyFrom
  <2>2. CASE pc'[p] \in Applying /\ pc[p] \in {"lock"} \cup Applying /\ UNCHANGED << want, op >>
    BY <1>c, <2>1, <2>2, Places DEF InSoftReset
  <2>3. CASE Returned(p)
    BY <1>c, <2>1, <2>3 DEF Returned, InSoftReset
  <2> QED BY <2>1, <2>2, <2>3
<1>2. ASSUME NEW c \in Callers, CallStep(c) PROVE ServiceInv'
  <2>1. \A d \in Callers : d # c => pc'[d] = pc[d] /\ want'[d] = want[d] /\ op'[d] = op[d]
    <3>1. Apart(c)
      BY <1>2, CallApart
    <3>2. \A d \in Callers : d # c => op'[d] = op[d]
      BY <1>2 DEF CallStep, WriteClear, ResetAccel, ResetGyro, Invalidate, Current, Succeeds, Fails, Ends
    <3> QED BY <1>c, <3>1, <3>2 DEF Apart
  <2>2. /\ pc'[c] \in InSoftReset => op'[c] = "soft-reset"
        /\ pc'[c] = "clear" => op'[c] = "clear-latch"
        /\ op'[c] # "prepare-hibernation"
    <3>1. CASE WriteClear(c)
      <4>1. pc'[c] = "idle" /\ op'[c] = "none"
        BY <1>c, <3>1 DEF WriteClear, Succeeds, Ends, Goto, IInv, TypeOK
      <4> QED BY <4>1 DEF InSoftReset
    <3>2. CASE ~WriteClear(c)
      <4>1. PICK label \in {"resetGyro", "invalidate", "getCurrent", "lock"} :
              Goto(c, label) /\ op' = op /\ pc[c] \in InSoftReset
        BY <1>2, <3>2 DEF CallStep, ResetAccel, ResetGyro, Invalidate, Current, InSoftReset
      <4>2. pc'[c] = label
        BY <1>c, <4>1, Moves
      <4>3. op[c] = "soft-reset"
        BY <4>1
      <4> QED BY <4>1, <4>2, <4>3
    <3> QED BY <3>1, <3>2
  <2>3. ASSUME NEW d \in Callers
        PROVE  /\ pc'[d] \in InSoftReset => op'[d] = "soft-reset"
               /\ pc'[d] = "clear" => op'[d] = "clear-latch"
               /\ op'[d] = "prepare-hibernation" =>
                    pc'[d] \in {"lock"} \cup Applying /\ want'[d] = "armed-hibernation"
    BY <2>1, <2>2
  <2> QED BY <2>3
<1>3. CASE Request
  <2>1. CASE (\E value \in AlarmStatuses : handleAlarmStatus(value))
             \/ (\E value \in PmStates : handlePmState(value))
    <3>1. PICK h \in Handlers : \E v : Goto(h, "lock") /\ want' = [want EXCEPT ![h] = v] /\ op' = op
      BY <2>1 DEF handleAlarmStatus, handlePmState, Handlers
    <3>2. \A c \in Callers : c # h
      BY CallersAssumption
    <3>3. \A c \in Callers : pc'[c] = pc[c] /\ want'[c] = want[c]
      BY <1>c, <3>1, <3>2 DEF Goto, IInv, TypeOK
    <3> QED BY <3>1, <3>3
  <2>2. ASSUME NEW c \in Callers, prepareHibernation(c) \/ clearLatch(c) \/ softReset(c)
        PROVE  ServiceInv'
    <3>1. \A d \in Callers : d # c => pc'[d] = pc[d] /\ want'[d] = want[d] /\ op'[d] = op[d]
      BY <1>c, <2>2 DEF prepareHibernation, clearLatch, softReset, Serves, Goto, IInv, TypeOK
    <3>2. CASE prepareHibernation(c)
      <4>1. pc'[c] = "lock" /\ want'[c] = "armed-hibernation" /\ op'[c] = "prepare-hibernation"
        BY <1>c, <3>2 DEF prepareHibernation, Serves, Goto, IInv, TypeOK
      <4> QED BY <3>1, <4>1 DEF InSoftReset
    <3>3. CASE clearLatch(c)
      <4>1. pc'[c] = "clear" /\ op'[c] = "clear-latch"
        BY <1>c, <3>3 DEF clearLatch, Serves, Goto, IInv, TypeOK
      <4> QED BY <3>1, <4>1 DEF InSoftReset
    <3>4. CASE softReset(c)
      <4>1. pc'[c] = "resetAccel" /\ op'[c] = "soft-reset"
        BY <1>c, <3>4 DEF softReset, Serves, Goto, IInv, TypeOK
      <4> QED BY <3>1, <4>1
    <3> QED BY <2>2, <3>2, <3>3, <3>4
  <2> QED BY <1>3, <2>1, <2>2 DEF Request
<1>4. CASE Restart
  <2>1. \A c \in Callers : pc'[c] = "idle" /\ op'[c] = "none"
    BY <1>c, <1>4 DEF Restart
  <2> QED BY <2>1 DEF InSoftReset
<1> QED BY <1>1, <1>2, <1>3, <1>4 DEF Next
-----------------------------------------------------------------------------
(* A step outside Apply, of a call or a callback.                           *)
LEMMA OutsideShape ==
  ASSUME IInv, NEW c \in Procs, Apart(c), \/ c \in Callers /\ CallStep(c)
                                          \/ Request
  PROVE  /\ current' = current /\ status' = status
         /\ mu # c
<1> USE DEF subscriber, controller, gates, calls, history, bounds
<1>1. mu # c
  BY DEF Apart, IInv, GateInv, LockInv
<1>2. ASSUME NEW d \in Callers, CallStep(d) PROVE current' = current /\ status' = status
  BY <1>2 DEF CallStep, WriteClear, ResetAccel, ResetGyro, Invalidate, Current
<1>3. ASSUME Request PROVE current' = current /\ status' = status
  BY <1>3 DEF Request, handleAlarmStatus, handlePmState, prepareHibernation, clearLatch, softReset
<1> QED BY <1>1, <1>2, <1>3

(* A request touches neither record nor chip.                               *)
LEMMA RequestLeaves ==
  ASSUME Request
  PROVE  UNCHANGED << mu, current, hasFirst, status, erased, chip, gates >>
BY DEF Request, handleAlarmStatus, handlePmState, prepareHibernation, clearLatch, softReset,
       controller, history

(* The record stays true.                                                   *)
LEMMA RecordStep ==
  ASSUME IInv, OpenedInv, RecordInv, Next, ~Fault
  PROVE  RecordInv'
<1> USE DEF subscriber, controller, gates, calls, history, bounds
<1>t. current \in Profiles /\ chip \in Registers /\ \A p \in Procs : p # NoOne
  BY CallersAssumption DEF IInv, TypeOK
<1>s. ASSUME UNCHANGED << mu, current, hasFirst, status, erased, chip, pollerOn, watcherOn >>
      PROVE  RecordInv'
  BY <1>s DEF RecordInv, GatesFor
<1>1. ASSUME NEW p \in Procs, ApplyStep(p) PROVE RecordInv'
  <2>1. CASE Skip(p)
    BY <1>s, <2>1 DEF Skip
  <2>2. CASE Commit(p)
    <3>1. /\ pc[p] = "commit" /\ current' = want[p] /\ status' = want[p]
          /\ UNCHANGED << pollerOn, watcherOn, chip, erased >>
      BY <2>2 DEF Commit, Holds
    <3>2. GatesFor(want[p])
      BY <3>1 DEF OpenedInv
    <3>3. ~erased => Ready(chip, want[p])
      BY <3>1, Places DEF IInv, GateInv, ArmInv
    <3> QED BY <3>1, <3>2, <3>3 DEF RecordInv, GatesFor
  <2>3. CASE ~(Skip(p) \/ Commit(p))
    BY <1>1, <1>t, <2>3, ApplyShape DEF RecordInv
  <2> QED BY <2>1, <2>2, <2>3
<1>2. ASSUME NEW c \in Callers, CallStep(c) PROVE RecordInv'
  <2>1. CASE WriteClear(c)
    <3>1. /\ UNCHANGED << mu, current, hasFirst, status, erased, pollerOn, watcherOn >>
          /\ chip' = Written(chip, ClearLatchedInterrupt[1])
      BY <2>1 DEF WriteClear
    <3>2. Ready(chip, current) => Ready(chip', current)
      BY <1>t, <3>1, ReadyClear
    <3> QED BY <3>1, <3>2 DEF RecordInv, GatesFor
  <2>2. CASE ResetAccel(c) \/ ResetGyro(c)
    <3>1. UNCHANGED << mu, current, hasFirst, status, pollerOn, watcherOn >> /\ erased' = TRUE
      BY <2>2 DEF ResetAccel, ResetGyro
    <3> QED BY <3>1 DEF RecordInv, GatesFor
  <2>3. CASE Invalidate(c)
    BY <2>3 DEF Invalidate, RecordInv
  <2>4. CASE Current(c)
    BY <1>s, <2>4 DEF Current
  <2> QED BY <1>2, <2>1, <2>2, <2>3, <2>4 DEF CallStep
<1>3. CASE Request
  BY <1>3, <1>s, RequestLeaves
<1>4. CASE Restart
  BY <1>4 DEF Restart, RecordInv
<1> QED BY <1>1, <1>2, <1>3, <1>4 DEF Next

(* A soft-reset stays on its way to clear the record.                       *)
LEMMA ErasedStep ==
  ASSUME IInv, ErasedInv, Next, ~Fault
  PROVE  ErasedInv'
<1> USE DEF subscriber, controller, gates, calls, history, bounds
<1>c. \A c \in Callers : c \in Procs
  BY DEF Procs
<1>n. mu \in Procs \cup {NoOne} /\ \A p \in Procs : p # NoOne
  BY CallersAssumption DEF IInv, TypeOK
<1>p. {"resetGyro", "invalidate", "getCurrent"} \cap ({"lock", "idle", "clear", "resetAccel"} \cup Applying) = {}
      /\ BeforeReset \subseteq Applying
  BY DEF Applying, Programming, Resetting, Arming, BeforeReset
<1> DEFINE Pending == \E c \in Callers : pc[c] \in {"resetGyro", "invalidate"}
<1>1. ASSUME NEW p \in Procs, ApplyStep(p) PROVE ErasedInv'
  <2>1. Pending => Pending'
    <3> SUFFICES ASSUME NEW c \in Callers, pc[c] \in {"resetGyro", "invalidate"}
                 PROVE  pc'[c] = pc[c]
      OBVIOUS
    <3>1. c # p
      BY <1>1, <1>p, ApplyFrom
    <3> QED BY <1>1, <1>c, <3>1, ApplyShape
  <2>2. CASE Lock(p)
    <3>1. mu = NoOne /\ mu' = p /\ pc'[p] = "disablePoller" /\ UNCHANGED << hasFirst, erased >>
      BY <2>2, Moves DEF Lock
    <3> QED BY <2>1, <3>1 DEF ErasedInv, BeforeReset
  <2>3. CASE DisablePoller(p) \/ DisableWatcher(p) \/ AccelReset(p)
    <3>1. /\ mu = p /\ mu' = p /\ pc[p] \in BeforeReset /\ UNCHANGED << hasFirst, erased >>
          /\ \E label \in BeforeReset : Goto(p, label)
      BY <2>3 DEF DisablePoller, DisableWatcher, AccelReset, Holds, BeforeReset
    <3>2. pc'[p] \in BeforeReset
      BY <3>1, Moves
    <3> QED BY <2>1, <3>1, <3>2 DEF ErasedInv
  <2>4. CASE GyroReset(p)
    <3>1. erased' = FALSE
      BY <2>4 DEF GyroReset
    <3> QED BY <3>1 DEF ErasedInv
  <2>5. CASE Write(p) \/ ProgramDone(p) \/ EnablePoller(p) \/ EnableWatcher(p) \/ Commit(p)
    <3>1. mu = p /\ pc[p] \notin BeforeReset /\ erased' = erased
      BY <2>5 DEF Write, ProgramDone, EnablePoller, EnableWatcher, Commit, Holds, BeforeReset
    <3> QED BY <1>n, <2>1, <3>1 DEF ErasedInv
  <2>6. CASE Skip(p)
    BY <2>1, <2>6 DEF Skip, ErasedInv
  <2> QED BY <1>1, <2>2, <2>3, <2>4, <2>5, <2>6 DEF ApplyStep
<1>2. ASSUME NEW c \in Procs, Apart(c), pc[c] \notin {"resetGyro", "invalidate"},
             UNCHANGED << hasFirst, erased >>
      PROVE  ErasedInv'
  <2>1. Pending => Pending'
    BY <1>c, <1>2 DEF Apart
  <2>2. mu \in Procs => pc'[mu] = pc[mu]
    BY <1>2 DEF Apart, IInv, GateInv, LockInv
  <2> QED BY <1>n, <1>2, <2>1, <2>2 DEF ErasedInv, Apart
<1>3. ASSUME NEW c \in Callers, CallStep(c) PROVE ErasedInv'
  <2>1. c \in Procs /\ Apart(c)
    BY <1>3, CallApart
  <2>2. CASE WriteClear(c) \/ Current(c)
    BY <1>2, <2>1, <2>2 DEF WriteClear, Current
  <2>3. CASE ResetAccel(c)
    <3>1. pc'[c] = "resetGyro"
      BY <2>1, <2>3, Moves DEF ResetAccel
    <3> QED BY <3>1 DEF ErasedInv
  <2>4. CASE ResetGyro(c)
    <3>1. pc'[c] = "invalidate"
      BY <2>1, <2>4, Moves DEF ResetGyro
    <3> QED BY <3>1 DEF ErasedInv
  <2>5. CASE Invalidate(c)
    BY <2>5 DEF Invalidate, ErasedInv
  <2> QED BY <1>3, <2>2, <2>3, <2>4, <2>5 DEF CallStep
<1>4. CASE Request
  <2>1. PICK c \in Procs : Apart(c) /\ pc[c] = "idle"
    <3>1. PICK c \in Procs : Apart(c)
      BY <1>4, RequestApart
    <3>2. \E c2 \in Procs : pc[c2] = "idle" /\ pc'[c2] # "idle"
      BY <1>4, <1>c, Moves DEF Request, handleAlarmStatus, handlePmState, prepareHibernation,
         clearLatch, softReset, Dispatchable, Serves, Procs, Handlers
    <3>3. pc[c] = "idle"
      BY <3>1, <3>2 DEF Apart
    <3> QED BY <3>1, <3>3
  <2> QED BY <1>2, <1>4, <2>1, RequestLeaves
<1>5. CASE Restart
  BY <1>5 DEF Restart, ErasedInv
<1> QED BY <1>1, <1>3, <1>4, <1>5 DEF Next
(* A cleared record of a service that is up stays due for an Apply.         *)
LEMMA FirstStep ==
  ASSUME IInv, ServiceInv, FirstInv, Next, ~Fault
  PROVE  FirstInv'
<1> USE DEF FirstInv, Due, Started, subscriber, controller, gates, calls, history, bounds
<1>c. Main \in Procs /\ \A c \in Callers : c \in Procs /\ c # Main
  BY CallersAssumption DEF Procs
<1>1. ASSUME NEW p \in Procs, ApplyStep(p) PROVE FirstInv'
  <2>1. CASE hasFirst' = TRUE
    BY <2>1
  <2>2. CASE pc'[p] \in Applying /\ op' = op /\ hasFirst' = hasFirst
    <3>1. \A q \in Procs : q # p => pc'[q] = pc[q]
      BY <1>1, ApplyShape
    <3>2. pc'[Main] = "serving" => pc[Main] = "serving"
      BY <1>c, <2>2, <3>1, Places
    <3>3. ASSUME NEW c \in Callers, Due(c) PROVE Due(c)'
      BY <1>c, <2>2, <3>1, <3>3
    <3> QED BY <2>2, <3>2, <3>3
  <2> QED BY <1>1, <2>1, <2>2, ApplyShape
<1>2. ASSUME NEW c \in Procs, Apart(c), UNCHANGED hasFirst, c \notin Callers \/ ~Due(c),
             pc'[Main] = "serving" => pc[Main] = "serving",
             \A d \in Callers : d # c => op'[d] = op[d]
      PROVE  FirstInv'
  <2>1. ASSUME NEW d \in Callers, Due(d) PROVE Due(d)'
    <3>1. d # c
      BY <1>2, <2>1
    <3>2. pc'[d] = pc[d] /\ op'[d] = op[d]
      BY <1>c, <1>2, <3>1 DEF Apart
    <3> QED BY <2>1, <3>2
  <2> QED BY <1>2, <2>1
<1>3. ASSUME NEW c \in Callers, CallStep(c) PROVE FirstInv'
  <2>1. c \in Procs /\ Apart(c) /\ (pc'[Main] = "serving" => pc[Main] = "serving")
    <3>1. c \in Procs /\ Apart(c)
      BY <1>3, CallApart
    <3> QED BY <1>c, <3>1 DEF Apart
  <2>2. CASE WriteClear(c)
    <3>1. UNCHANGED hasFirst /\ op[c] = "clear-latch" /\ \A d \in Callers : d # c => op'[d] = op[d]
      BY <2>2 DEF WriteClear, ServiceInv, Succeeds, Fails, Ends
    <3> QED BY <1>2, <2>1, <3>1
  <2>3. CASE ResetAccel(c) \/ ResetGyro(c)
    <3>1. UNCHANGED hasFirst /\ pc[c] \in {"resetAccel", "resetGyro"}
          /\ \A d \in Callers : d # c => op'[d] = op[d]
      BY <2>3 DEF ResetAccel, ResetGyro, Fails, Ends
    <3>2. ~Due(c)
      BY <3>1, Places
    <3> QED BY <1>2, <2>1, <3>1, <3>2
  <2>4. CASE Invalidate(c) \/ Current(c)
    <3>1. /\ pc[c] \in InSoftReset /\ op' = op
          /\ \E label \in {"getCurrent", "lock"} : Goto(c, label)
      BY <2>4 DEF Invalidate, Current, InSoftReset
    <3>2. pc'[c] \in {"getCurrent", "lock"} /\ op'[c] = "soft-reset"
      BY <2>1, <3>1, Moves DEF ServiceInv
    <3> QED BY <3>2
  <2> QED BY <1>3, <2>2, <2>3, <2>4 DEF CallStep
<1>4. CASE Request
  <2>1. PICK c \in Procs : Apart(c) /\ pc[c] = "idle" /\ pc'[c] # "idle"
    <3>1. PICK c \in Procs : Apart(c)
      BY <1>4, RequestApart
    <3>2. \E d \in Procs : pc[d] = "idle" /\ pc'[d] # "idle"
      BY <1>4, <1>c, Moves DEF Request, handleAlarmStatus, handlePmState, prepareHibernation,
         clearLatch, softReset, Dispatchable, Serves, Procs, Handlers
    <3>3. pc[c] = "idle" /\ pc'[c] # "idle"
      BY <3>1, <3>2 DEF Apart
    <3> QED BY <3>1, <3>3
  <2>2. pc[Main] = "serving"
    BY <1>4 DEF Request, handleAlarmStatus, handlePmState, prepareHibernation, clearLatch, softReset,
                Dispatchable, Serves
  <2>3. ~Due(c)
    BY <2>1, Places
  <2>4. \A d \in Callers : d # c => op'[d] = op[d]
    <3>1. CASE op' = op
      BY <3>1
    <3>2. ASSUME NEW e \in Callers, NEW m \in AllMethods, NEW label \in Labels \ {"idle"},
                 pc[e] = "idle", op' = [op EXCEPT ![e] = m], Goto(e, label)
          PROVE  \A d \in Callers : d # c => op'[d] = op[d]
      <4>1. pc'[e] # "idle"
        BY <1>c, <3>2, Moves
      <4>2. e = c
        BY <1>c, <2>1, <3>2, <4>1 DEF Apart
      <4> QED BY <3>2, <4>2 DEF IInv, TypeOK
    <3>3. {"clear", "lock", "resetAccel"} \subseteq Labels \ {"idle"}
      BY LabelFacts
    <3> QED BY <1>4, <3>1, <3>2, <3>3 DEF Request, handleAlarmStatus, handlePmState,
               prepareHibernation, clearLatch, softReset, Serves, AllMethods
  <2> QED BY <1>2, <1>4, <2>1, <2>2, <2>3, <2>4, RequestLeaves
<1>5. CASE Restart
  BY <1>5, <1>c DEF Restart
<1> QED BY <1>1, <1>3, <1>4, <1>5 DEF Next

(* Until the service is up, only main applies, and it applies idle.         *)
LEMMA StartStep ==
  ASSUME IInv, StartInv, Next, ~Fault
  PROVE  StartInv'
<1> USE DEF StartInv, Started
<1>c. Main \in Procs /\ Main \notin Handlers \cup Callers /\ Callers \subseteq Procs
  BY CallersAssumption DEF Procs, Main, Handlers
<1>1. CASE Restart
  BY <1>1, <1>c DEF Restart
<1>2. CASE ApplyStep(Main)
  <2>1. /\ pc[Main] # "serving" /\ \A p \in Procs : p # Main => pc'[p] = pc[p]
        /\ \/ UNCHANGED << want, current >>
           \/ pc'[Main] = "serving"
    BY <1>2, <1>c, ApplyShape, ApplyFrom, Places DEF Returned
  <2> QED BY <2>1
<1>3. ASSUME NEW p \in Procs, p # Main, pc[p] # "idle" \/ Started, pc'[Main] = pc[Main]
      PROVE  StartInv'
  BY <1>3
<1>4. ASSUME NEW p \in Procs, p # Main, ApplyStep(p) PROVE StartInv'
  BY <1>3, <1>4, <1>c, ApplyShape, ApplyFrom, Places
<1>5. ASSUME NEW c \in Callers, CallStep(c) PROVE StartInv'
  <2>1. pc[c] # "idle" /\ c \in Procs /\ c # Main
    BY <1>5, <1>c DEF CallStep, WriteClear, ResetAccel, ResetGyro, Invalidate, Current
  <2>2. pc'[Main] = pc[Main]
    BY <1>5, <1>c, <2>1, CallApart DEF Apart
  <2> QED BY <1>3, <2>1, <2>2
<1>6. CASE Request
  <2>1. Started
    BY <1>6 DEF Request, handleAlarmStatus, handlePmState, prepareHibernation, clearLatch, softReset,
                Dispatchable, Serves
  <2>2. \E p \in Procs : p # Main /\ \E label : Goto(p, label)
    BY <1>6, <1>c DEF Request, handleAlarmStatus, handlePmState, prepareHibernation, clearLatch,
                      softReset, Serves, Procs, Handlers
  <2>3. pc'[Main] = pc[Main]
    BY <1>c, <2>2, Moves
  <2> QED BY <1>3, <2>1, <2>2, <2>3
<1> QED BY <1>1, <1>2, <1>4, <1>5, <1>6 DEF Next

(* A callback that is alone stays so, or is no longer taken for it.         *)
LEMMA LoneStep ==
  ASSUME IInv, StartInv, LoneInv, Next, ~Fault
  PROVE  LoneInv'
<1> USE DEF LoneInv
<1>c. /\ Main \in Procs /\ Handlers \subseteq Procs /\ Callers \subseteq Procs
      /\ Main \notin Handlers \cup Callers /\ Handlers \cap Callers = {}
  BY CallersAssumption DEF Procs, Main, Handlers
<1>1. ASSUME NEW p \in Procs, ApplyStep(p) PROVE LoneInv'
  <2>1. /\ \A q \in Procs : q # p => pc'[q] = pc[q] /\ want'[q] = want[q]
        /\ alarmStatus' = alarmStatus /\ pmState' = pmState /\ contested' = contested
        /\ pc[p] \in {"lock"} \cup Applying /\ pc[p] \notin {"idle", "clear", "serving"}
    BY <1>1, ApplyShape, ApplyFrom, Places DEF subscriber
  <2>2. CASE pc'[p] \in Applying /\ UNCHANGED << want, current >>
    <3>1. pc'[p] \notin {"idle", "clear"}
      BY <2>2, Places
    <3>2. InService' = InService
      BY <1>c, <2>1, <3>1 DEF InService
    <3> QED BY <1>c, <2>1, <2>2, <3>1, <3>2
  <2>3. CASE Returned(p) /\ current' = want[p]
    <3>1. CASE p = Main
      <4>1. want[Main] = current
        BY <2>1, <3>1 DEF StartInv, Started
      <4>2. InService' = InService /\ \A q \in Handlers \cup Callers : pc'[q] = pc[q] /\ want'[q] = want[q]
        BY <1>c, <2>1, <3>1 DEF InService
      <4> QED BY <2>1, <2>3, <3>1, <4>1, <4>2
    <3>2. CASE p \in Handlers
      <4> SUFFICES ASSUME ~contested PROVE LoneInv'
        BY <2>1
      <4>1. want[p] = Derive(alarmStatus, pmState) /\ InService = {p}
        BY <2>1, <3>2
      <4>2. /\ \A h \in Handlers : h # p => pc[h] = "idle"
            /\ \A c \in Callers : pc[c] \in {"idle", "clear"}
        BY <1>c, <3>2, <4>1 DEF InService
      <4>3. \A h \in Handlers : pc'[h] = "idle"
        BY <1>c, <2>1, <2>3, <3>2, <4>2 DEF Returned
      <4>4. \A c \in Callers : pc'[c] \notin {"lock"} \cup Applying
        BY <1>c, <2>1, <3>2, <4>2, Places
      <4>5. current' = Derive(alarmStatus', pmState')
        BY <2>1, <2>3, <4>1
      <4> QED BY <4>3, <4>4, <4>5
    <3>3. CASE p \in Callers
      <4> SUFFICES ASSUME ~contested PROVE LoneInv'
        BY <2>1
      <4>1. current' = current
        BY <2>1, <2>3, <3>3
      <4>2. p \in InService /\ p \notin Handlers
        BY <1>c, <2>1, <3>3 DEF InService
      <4>3. \A h \in Handlers : pc[h] = "idle" /\ pc'[h] = "idle"
        BY <1>c, <2>1, <3>3, <4>2
      <4>4. pc'[p] = "idle"
        BY <1>c, <2>3, <3>3 DEF Returned
      <4>5. \A c \in Callers : pc'[c] \in {"lock"} \cup Applying => want'[c] = current
        BY <1>c, <2>1, <4>4, Places
      <4> QED BY <2>1, <4>1, <4>3, <4>5
    <3> QED BY <3>1, <3>2, <3>3 DEF Procs
  <2> QED BY <1>1, <2>2, <2>3, ApplyShape
<1>2. ASSUME NEW c \in Callers, CallStep(c) PROVE LoneInv'
  <2>1. /\ \A q \in Procs : q # c => pc'[q] = pc[q] /\ want'[q] = want[q]
        /\ UNCHANGED << alarmStatus, pmState, current, contested >>
    BY <1>2, CallApart DEF Apart, CallStep, WriteClear, ResetAccel, ResetGyro, Invalidate, Current,
                           subscriber, controller, history
  <2>2. \/ pc'[c] \notin {"lock"} \cup Applying
        \/ pc'[c] = "lock" /\ want'[c] = current
    <3>1. CASE WriteClear(c)
      BY <1>c, <3>1, Places DEF WriteClear, Succeeds, Goto, IInv, TypeOK
    <3>2. CASE ResetAccel(c) \/ ResetGyro(c) \/ Invalidate(c)
      BY <1>c, <3>2, Moves, Places DEF ResetAccel, ResetGyro, Invalidate
    <3>3. CASE Current(c)
      BY <1>c, <3>3 DEF Current, Goto, IInv, TypeOK
    <3> QED BY <1>2, <3>1, <3>2, <3>3 DEF CallStep
  <2>3. (pc[c] = "clear" /\ pc'[c] = "idle") \/ c \in InService
    BY <1>2, <1>c DEF CallStep, WriteClear, ResetAccel, ResetGyro, Invalidate, Current, InService,
                      Succeeds, Goto, IInv, TypeOK
  <2>4. \A h \in Handlers : pc[h] # "idle" /\ ~contested => pc'[c] = "idle" /\ pc[c] = "clear"
    BY <1>c, <2>3
  <2>5. \A h \in Handlers : pc'[h] = pc[h] /\ want'[h] = want[h]
    BY <1>c, <2>1
  <2>6. \A h \in Handlers : pc[h] # "idle" /\ ~contested => InService' = {h}
    BY <1>c, <2>1, <2>4, <2>5 DEF InService
  <2>7. \A d \in Callers : ~contested /\ pc'[d] \in {"lock"} \cup Applying => want'[d] = current
    BY <1>c, <2>1, <2>2
  <2> QED BY <2>1, <2>5, <2>6, <2>7
<1>3. ASSUME NEW h \in Handlers, contested' = (InService # {}), Goto(h, "lock"), pc[h] = "idle",
             want' = [want EXCEPT ![h] = Derive(alarmStatus', pmState')], current' = current
      PROVE  LoneInv'
  <2> SUFFICES ASSUME ~contested' PROVE LoneInv'
    OBVIOUS
  <2>1. /\ \A g \in Handlers : pc[g] = "idle"
        /\ \A c \in Callers : pc[c] \in {"idle", "clear"}
    BY <1>3 DEF InService
  <2>2. pc'[h] = "lock" /\ \A q \in Procs : q # h => pc'[q] = pc[q]
    BY <1>c, <1>3, Moves
  <2>3. want'[h] = Derive(alarmStatus', pmState')
    BY <1>c, <1>3 DEF IInv, TypeOK
  <2>4. \A g \in Handlers : g # h => pc'[g] = "idle"
    BY <1>c, <2>1, <2>2
  <2>5. \A c \in Callers : pc'[c] \in {"idle", "clear"}
    BY <1>c, <2>1, <2>2
  <2>6. InService' = {h}
    BY <1>c, <2>2, <2>4, <2>5 DEF InService
  <2> QED BY <2>2, <2>3, <2>4, <2>5, <2>6, Places
<1>4. CASE Request
  <2>1. ASSUME NEW value \in AlarmStatuses, handleAlarmStatus(value) PROVE LoneInv'
    BY <1>3, <2>1 DEF handleAlarmStatus, Dispatchable, Handlers, controller
  <2>2. ASSUME NEW value \in PmStates, handlePmState(value) PROVE LoneInv'
    BY <1>3, <2>2 DEF handlePmState, Dispatchable, Handlers, controller
  <2>3. ASSUME NEW c \in Callers, prepareHibernation(c) PROVE LoneInv'
    BY <2>3 DEF prepareHibernation
  <2>4. ASSUME NEW c \in Callers, clearLatch(c) \/ softReset(c) PROVE LoneInv'
    <3>1. /\ UNCHANGED << alarmStatus, pmState, current, want >>
          /\ pc[c] = "idle" /\ \E label \in {"clear", "resetAccel"} : Goto(c, label)
      BY <2>4 DEF clearLatch, softReset, Serves, subscriber, controller
    <3>2. /\ pc'[c] \in {"clear", "resetAccel"}
          /\ \A q \in Procs : q # c => pc'[q] = pc[q]
      BY <1>c, <3>1, Moves
    <3>3. \A q \in Callers : pc'[q] \in {"lock"} \cup Applying => pc[q] = pc'[q]
      BY <1>c, <3>2, Places
    <3>4. \A h \in Handlers : pc'[h] = pc[h]
      BY <1>c, <3>2
    <3>5. CASE clearLatch(c)
      <4>1. contested' = contested /\ pc'[c] = "clear"
        BY <1>c, <3>5, Moves DEF clearLatch, Serves, history
      <4>2. InService' = InService
        BY <1>c, <3>1, <3>2, <4>1 DEF InService
      <4> QED BY <1>c, <3>1, <3>3, <3>4, <4>1, <4>2
    <3>6. CASE softReset(c)
      <4>1. contested' = (contested \/ InService \cap Handlers # {})
        BY <3>6 DEF softReset
      <4>2. ~contested' => \A h \in Handlers : pc[h] = "idle"
        BY <4>1 DEF InService
      <4> QED BY <3>1, <3>3, <3>4, <4>1, <4>2
    <3> QED BY <2>4, <3>5, <3>6
  <2> QED BY <1>4, <2>1, <2>2, <2>3, <2>4 DEF Request
<1>5. CASE Restart
  <2>1. /\ alarmStatus' = "" /\ pmState' = "" /\ current' = "idle"
        /\ \A p \in Handlers \cup Callers : pc'[p] = "idle"
    BY <1>5, <1>c DEF Restart
  <2>2. Derive("", "") = "idle"
    BY DEF Derive
  <2> QED BY <2>1, <2>2, Places
<1> QED BY <1>1, <1>2, <1>4, <1>5 DEF Next
-----------------------------------------------------------------------------
(* The invariant of the runs without a failure.                             *)
LEMMA QuietKept == Spec => []QuietInv
<1>1. ASSUME Init PROVE QuietInv
  <2>1. /\ \A p \in Procs : pc[p] = IF p = Main THEN "lock" ELSE "idle"
        /\ \A p \in Procs : want[p] = "idle"
        /\ \A c \in Callers : op[c] = "none"
        /\ alarmStatus = "" /\ pmState = "" /\ hasFirst = FALSE /\ erased = FALSE /\ current = "idle"
    BY <1>1 DEF Init, Fresh
  <2>2. Main \in Procs /\ Callers \subseteq Procs /\ Handlers \subseteq Procs
        /\ Main \notin Handlers \cup Callers
    BY CallersAssumption DEF Procs, Main, Handlers
  <2>3. \A p \in Procs : pc[p] \in {"lock", "idle"}
    BY <2>1
  <2>4. ServiceInv
    BY <2>1, <2>2, <2>3 DEF ServiceInv, InSoftReset
  <2>6. RecordInv /\ ErasedInv /\ FirstInv
    BY <2>1, <2>2 DEF RecordInv, ErasedInv, FirstInv, Started
  <2>7. StartInv
    BY <2>1, <2>2 DEF StartInv
  <2>8. LoneInv
    <3>1. Derive("", "") = "idle"
      BY DEF Derive
    <3> QED BY <2>1, <2>2, <3>1 DEF LoneInv, InService
  <2> QED BY <2>4, <2>6, <2>7, <2>8 DEF QuietInv
<1>2. ASSUME IInv, OpenedInv, QuietInv, [Next]_vars PROVE QuietInv'
  <2>1. CASE UNCHANGED vars
    BY <1>2, <2>1 DEF vars, subscriber, controller, gates, calls, history, bounds, QuietInv, ServiceInv,
       RecordInv, ErasedInv, FirstInv, StartInv, LoneInv, InService, GatesFor, Due, Started
  <2>2. CASE Next
    <3>1. CASE faults' = 0
      <4>1. faults = 0 /\ ~Fault
        BY <1>2, <2>2, <3>1, FaultFree
      <4> QED BY <1>2, <2>2, <4>1, ServiceStep, RecordStep, ErasedStep, FirstStep,
                 StartStep, LoneStep DEF QuietInv
    <3>2. CASE faults' # 0
      BY <1>2, <2>2, <3>2 DEF QuietInv
    <3> QED BY <3>1, <3>2
  <2> QED BY <1>2, <2>1, <2>2
<1> QED BY <1>1, <1>2, Inductive, OpenedHeld, PTL DEF Spec

(* Until a transaction fails, a controller nobody is using agrees with the  *)
(* chip, both gates and the status hash: any number of soft-resets beside   *)
(* any number of other Applies, and any number of restarts, change nothing. *)
THEOREM QuietChip == Spec => [](faults = 0 => QuietChipReady)
<1>1. ASSUME IInv, QuietInv, faults = 0, Started, mu = NoOne, ~SoftResetInFlight
      PROVE  /\ hasFirst /\ ~erased /\ Ready(chip, current) /\ status = current
             /\ pollerOn = Configs(current).enable
             /\ watcherOn = (HasWatcher /\ Configs(current).enable)
  <2>1. \A c \in Callers : op[c] # "soft-reset" /\ pc[c] \notin InSoftReset
    BY <1>1 DEF QuietInv, ServiceInv, SoftResetInFlight
  <2>2. hasFirst
    BY <1>1, <2>1 DEF QuietInv, FirstInv, Due
  <2>3. ~erased
    BY <1>1, <2>1, <2>2 DEF QuietInv, ErasedInv, InSoftReset
  <2>4. status = current /\ GatesFor(current) /\ Ready(chip, current)
    BY <1>1, <2>2, <2>3 DEF QuietInv, RecordInv
  <2>5. pollerOn \in BOOLEAN /\ watcherOn \in BOOLEAN /\ HasWatcher \in BOOLEAN
    BY <1>1, FlagsAssumption DEF IInv, TypeOK
  <2>6. Configs(current).enable \in BOOLEAN
    BY ConfigsType DEF SpecType
  <2> QED BY <2>2, <2>3, <2>4, <2>5, <2>6 DEF GatesFor
<1>2. IInv /\ QuietInv => (faults = 0 => QuietChipReady)
  BY <1>1 DEF QuietChipReady
<1> QED BY <1>2, Inductive, QuietKept, PTL

(* Until a transaction fails, a callback that was the only one to apply     *)
(* leaves the profile that the latest alarm and power-manager states call   *)
(* for, however the callbacks are dispatched, and it stands through any     *)
(* number of soft-resets until somebody else applies.                       *)
THEOREM LoneCallbacksDecide == Spec => [](faults = 0 => LoneCallbackDecides)
<1>1. QuietInv => (faults = 0 => LoneCallbackDecides)
  BY DEF QuietInv, LoneInv, LoneCallbackDecides
<1> QED BY <1>1, QuietKept, PTL

(* Until a transaction fails, prepare-hibernation is answered with a chip   *)
(* that is programmed for it and an open gate.                              *)
THEOREM PrepareAnswers == Spec => [][faults = 0 => PrepareAnswer]_vars
<1>1. ASSUME IInv, OpenedInv, QuietInv, faults = 0, NEW c \in Callers,
             op[c] = "prepare-hibernation", Commit(c) \/ Skip(c), ~SoftResetInFlight
      PROVE  Ready(chip', "armed-hibernation") /\ pollerOn'
  <2>1. c \in Procs /\ c # NoOne
    BY CallersAssumption DEF Procs
  <2>2. /\ want[c] = "armed-hibernation" /\ UNCHANGED << chip, gates >>
        /\ \A d \in Callers : pc[d] \notin InSoftReset
    BY <1>1, <2>1 DEF QuietInv, ServiceInv, SoftResetInFlight, Commit, Skip
  <2>3. Configs("armed-hibernation").enable
    BY DEF Configs
  <2>4. CASE Commit(c)
    <3>1. pc[c] = "commit" /\ mu = c
      BY <2>4 DEF Commit, Holds
    <3>2. GatesFor("armed-hibernation")
      BY <1>1, <2>1, <2>2, <3>1 DEF OpenedInv
    <3>3. ~erased
      BY <1>1, <2>1, <2>2, <3>1 DEF QuietInv, ErasedInv, BeforeReset, InSoftReset
    <3>4. Ready(chip, "armed-hibernation")
      BY <1>1, <2>1, <2>2, <3>1, <3>3, Places DEF IInv, GateInv, ArmInv
    <3> QED BY <2>2, <2>3, <3>2, <3>4 DEF GatesFor, gates
  <2>5. CASE Skip(c)
    <3>1. hasFirst /\ mu = NoOne /\ current = "armed-hibernation"
      BY <2>2, <2>5 DEF Skip
    <3>2. ~erased
      BY <1>1, <2>1, <2>2, <3>1 DEF QuietInv, ErasedInv, InSoftReset
    <3> QED BY <1>1, <2>1, <2>2, <2>3, <3>1, <3>2 DEF QuietInv, RecordInv, GatesFor, gates
  <2> QED BY <1>1, <2>4, <2>5
<1>2. ASSUME IInv, OpenedInv, QuietInv PROVE [faults = 0 => PrepareAnswer]_vars
  BY <1>1, <1>2 DEF PrepareAnswer
<1> QED BY <1>2, Inductive, OpenedHeld, QuietKept, PTL

(* Where no transaction ever fails, it always is.                           *)
THEOREM PrepareIsSo ==
  ASSUME MaxFaults = 0
  PROVE  Spec => PrepareConfirms
<1>1. ASSUME TypeOK PROVE faults = 0
  <2>1. faults \in 0 .. MaxFaults
    BY <1>1 DEF TypeOK
  <2> QED BY <2>1
<1>2. TypeOK /\ [faults = 0 => PrepareAnswer]_vars => [PrepareAnswer]_vars
  BY <1>1
<1>3. Spec => [][PrepareAnswer]_vars
  BY <1>2, TypeCorrect, PrepareAnswers, PTL
<1> QED BY <1>3 DEF PrepareConfirms

(* Until a transaction fails, a chip that was reset outside Apply is never  *)
(* taken for the recorded one once the handler that reset it is done, with  *)
(* any number of soft-resets and Applies beside each other.                 *)
THEOREM ResetIsNoticed == Spec => [](faults = 0 => ResetInvalidates)
<1>1. ASSUME QuietInv, faults = 0, erased, ~SoftResetInFlight PROVE ~hasFirst
  <2>1. \A c \in Callers : pc[c] \notin InSoftReset
    BY <1>1 DEF QuietInv, ServiceInv, SoftResetInFlight
  <2> QED BY <1>1, <2>1 DEF QuietInv, ErasedInv, InSoftReset
<1>2. QuietInv => (faults = 0 => ResetInvalidates)
  BY <1>1 DEF ResetInvalidates
<1> QED BY <1>2, QuietKept, PTL
=============================================================================
