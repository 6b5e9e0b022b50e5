---------------------- MODULE ProfileControllerProofs ----------------------
(***************************************************************************)
(* Theorems about ProfileController: its type invariant and the inductive  *)
(* invariant IInv, from which mutual exclusion, the closed gates and the   *)
(* truth of an open gate follow.  Steps are proved in three groups: those  *)
(* of processes outside Apply (Outside), those that leave Apply on an      *)
(* error (Leave), and those of the holder of the mutex (InsideParts).      *)
(***************************************************************************)
EXTENDS ProfileController, MotionChipProofs

(* Derive knows a profile for every status and state.                        *)
LEMMA DeriveType == \A a, s : Derive(a, s) \in Profiles
BY DEF Derive, Profiles

(* The registers after power-on are register contents.                       *)
LEMMA PowerOnType == PowerOn \in Registers
<1>1. \A r : ResetValue(r) \in SUBSET Byte
  BY DEF ResetValue, Byte
<1> QED BY <1>1 DEF PowerOn, Registers

(* No step outside Apply writes to a blank register.                         *)
LEMMA BlanksKept ==
  ASSUME NEW c \in Registers, NEW r \in Blanks, c[r] = {}
  PROVE  /\ Written(c, ClearLatchedInterrupt[1])[r] = {}
         /\ AccelErased(c)[r] = {} /\ GyroErased(c)[r] = {}
<1> DEFINE w == ClearLatchedInterrupt[1]
<1>1. w \in Writes /\ w.reg = "intLatch"
  BY ClearType DEF BestEffort
<1> HIDE DEF w
<1>2. r \in Regs /\ r # "intLatch" /\ r \in AccelRegs /\ ResetValue(r) = {} /\ r \notin GyroRegs
  BY DEF Blanks, Regs, AccelRegs, GyroRegs, ResetValue
<1>3. Written(c, w)[r] = {}
  BY <1>1, <1>2, WrittenAt
<1> QED BY <1>2, <1>3 DEF AccelErased, GyroErased, w

(* How the groups of labels relate.                                          *)
LEMMA LabelFacts ==
  /\ {"idle", "lock", "serving", "exited", "clear"} \subseteq Labels
  /\ Applying \subseteq Labels /\ InSoftReset \subseteq Labels
  /\ {"disablePoller", "disableWatcher", "accelReset", "gyroReset", "program",
      "enablePoller", "enableWatcher", "commit"} \subseteq Labels
  /\ {"resetAccel", "resetGyro", "invalidate", "getCurrent"} \subseteq Labels
BY DEF Labels, Applying, Programming, Resetting, Arming, InSoftReset

(* The type invariant holds at first.                                        *)
LEMMA TypeInit == Init => TypeOK
<1> SUFFICES ASSUME Init PROVE TypeOK
  OBVIOUS
<1>1. alarmStatus = "" /\ pmState = "" /\ mu = NoOne /\ current = "idle" /\ hasFirst = FALSE
      /\ pollerOn = FALSE /\ watcherOn = FALSE /\ chip \in Registers /\ next \in Nat \ {0}
      /\ status = "unset" /\ erased = FALSE /\ contested = FALSE /\ Main \in Procs
  <2>1. 1 \in Nat \ {0}
    OBVIOUS
  <2>2. Main \in Procs
    BY DEF Procs
  <2> QED BY <2>1, <2>2, PowerOnType DEF Init, Fresh
<1>2. pc \in [Procs -> Labels]
  BY LabelFacts DEF Init, Fresh
<1>3. want \in [Procs -> Profiles] /\ op \in [Callers -> Methods \cup {"none"}]
  BY DEF Init, Fresh, Profiles
<1>4. faults \in 0 .. MaxFaults /\ crashes \in 0 .. MaxCrashes
  BY BoundsAssumption DEF Init
<1> QED BY <1>1, <1>2, <1>3, <1>4 DEF TypeOK, Profiles

(* A process that goes on keeps the type of pc.                              *)
LEMMA GotoType ==
  ASSUME TypeOK, NEW p \in Procs, NEW label \in Labels, Goto(p, label)
  PROVE  pc' \in [Procs -> Labels]
BY DEF TypeOK, Goto

(* A process that returns keeps the types of what a return changes.          *)
LEMMA ReturnType ==
  ASSUME TypeOK, NEW p \in Procs, Succeeds(p) \/ Fails(p)
  PROVE  /\ pc' \in [Procs -> Labels]
         /\ want' \in [Procs -> Profiles]
         /\ op' \in [Callers -> Methods \cup {"none"}]
<1>1. pc' \in [Procs -> Labels]
  BY LabelFacts, GotoType DEF Succeeds, Fails
<1>2. want' \in [Procs -> Profiles]
  BY DEF TypeOK, Succeeds, Fails, Profiles
<1>3. op' \in [Callers -> Methods \cup {"none"}]
  BY DEF TypeOK, Succeeds, Fails, Ends
<1> QED BY <1>1, <1>2, <1>3

(* So does one that gives up inside Apply.                                   *)
LEMMA GivesUpType ==
  ASSUME TypeOK, NEW p \in Procs, GivesUp(p)
  PROVE  /\ pc' \in [Procs -> Labels]
         /\ want' \in [Procs -> Profiles]
         /\ op' \in [Callers -> Methods \cup {"none"}]
         /\ mu' \in Procs \cup {NoOne}
         /\ next' \in Nat \ {0}
BY ReturnType DEF GivesUp

(* A fault stays within its bound.                                           *)
LEMMA FaultType ==
  ASSUME TypeOK, Fault
  PROVE  faults' \in 0 .. MaxFaults /\ crashes' \in 0 .. MaxCrashes
<1>1. faults \in 0 .. MaxFaults /\ crashes \in 0 .. MaxCrashes
  BY DEF TypeOK
<1>2. faults < MaxFaults /\ faults' = faults + 1 /\ crashes' = crashes
  BY DEF Fault
<1>3. MaxFaults \in Nat
  BY BoundsAssumption
<1> QED BY <1>1, <1>2, <1>3

(* Every step keeps the type invariant.                                      *)
LEMMA TypeStep == TypeOK /\ [Next]_vars => TypeOK'
<1> SUFFICES ASSUME TypeOK, [Next]_vars PROVE TypeOK'
  OBVIOUS
<1> USE LabelFacts
<1> USE DEF subscriber, controller, gates, calls, history, bounds
<1>1. ASSUME NEW p \in Procs, ApplyStep(p) PROVE TypeOK'
  <2>1. CASE Lock(p)
    BY <2>1, GotoType DEF Lock, TypeOK
  <2>2. CASE Skip(p)
    BY <2>2, ReturnType DEF Skip, TypeOK
  <2>3. CASE DisablePoller(p)
    BY <2>3, GotoType DEF DisablePoller, TypeOK
  <2>4. CASE DisableWatcher(p)
    BY <2>4, GotoType DEF DisableWatcher, TypeOK
  <2>5. CASE AccelReset(p)
    <3>1. chip' \in Registers
      BY <2>5, ErasedType DEF AccelReset, TypeOK
    <3>2. CASE Goto(p, "gyroReset") /\ UNCHANGED << mu, want, op, next, bounds >>
      BY <2>5, <3>1, <3>2, GotoType DEF AccelReset, TypeOK
    <3>3. CASE Fault /\ GivesUp(p)
      BY <2>5, <3>1, <3>3, GivesUpType, FaultType DEF AccelReset, TypeOK
    <3> QED BY <2>5, <3>2, <3>3 DEF AccelReset
  <2>6. CASE GyroReset(p)
    <3>n. 1 \in Nat \ {0}
      OBVIOUS
    <3>1. chip' \in Registers /\ erased' \in BOOLEAN
      BY <2>6, ErasedType DEF GyroReset, TypeOK
    <3>2. faults' \in 0 .. MaxFaults /\ crashes' \in 0 .. MaxCrashes
      BY <2>6, FaultType DEF GyroReset, TypeOK
    <3>3. CASE Goto(p, "program") /\ next' = 1 /\ UNCHANGED << mu, want, op >>
      BY <2>6, <3>n, <3>1, <3>2, <3>3, GotoType DEF GyroReset, TypeOK
    <3>4. CASE GivesUp(p)
      BY <2>6, <3>1, <3>2, <3>4, GivesUpType DEF GyroReset, TypeOK
    <3> QED BY <2>6, <3>3, <3>4 DEF GyroReset
  <2>7. CASE Write(p)
    <3> DEFINE w == Program(want[p])[next]
    <3>1. w \in Writes
      <4>1. want[p] \in Profiles
        BY DEF TypeOK
      <4>2. next \in 1 .. Len(Program(want[p]))
        BY <2>7, <4>1, ProgramType DEF Write
      <4> QED BY <4>1, <4>2, ProgramType
    <3> HIDE DEF w
    <3>2. Written(chip, w) \in Registers
      BY <3>1, WrittenType DEF TypeOK
    <3>3. chip' \in Registers
      BY <2>7, <3>2 DEF Write, TypeOK, w
    <3>4. faults' \in 0 .. MaxFaults /\ crashes' \in 0 .. MaxCrashes
      BY <2>7, FaultType DEF Write, TypeOK
    <3>5. CASE GivesUp(p)
      BY <2>7, <3>3, <3>4, <3>5, GivesUpType DEF Write, TypeOK
    <3>6. CASE next' = next + 1 /\ UNCHANGED << mu, calls >>
      <4>1. next' \in Nat \ {0}
        <5>1. next \in Nat \ {0}
          BY DEF TypeOK
        <5> QED BY <3>6, <5>1
      <4> QED BY <2>7, <3>3, <3>4, <3>6, <4>1 DEF Write, TypeOK
    <3> QED BY <2>7, <3>5, <3>6 DEF Write
  <2>8. CASE ProgramDone(p)
    <3>1. pc' \in [Procs -> Labels]
      BY <2>8, GotoType DEF ProgramDone
    <3>2. next' \in Nat \ {0}
      BY <2>8 DEF ProgramDone
    <3> QED BY <2>8, <3>1, <3>2 DEF ProgramDone, TypeOK
  <2>9. CASE EnablePoller(p)
    BY <2>9, GotoType DEF EnablePoller, TypeOK
  <2>10. CASE EnableWatcher(p)
    BY <2>10, GotoType, FlagsAssumption DEF EnableWatcher, TypeOK
  <2>11. CASE Commit(p)
    <3>1. faults' \in 0 .. MaxFaults /\ crashes' \in 0 .. MaxCrashes
      BY <2>11, FaultType DEF Commit, TypeOK
    <3>2. status' \in Profiles \cup {"unset", "mixed"}
      BY <2>11 DEF Commit, TypeOK
    <3> QED BY <2>11, <3>1, <3>2, ReturnType DEF Commit, TypeOK
  <2> QED BY <1>1, <2>1, <2>2, <2>3, <2>4, <2>5, <2>6, <2>7, <2>8, <2>9, <2>10, <2>11 DEF ApplyStep
<1>2. ASSUME NEW c \in Callers, CallStep(c) PROVE TypeOK'
  <2>p. c \in Procs
    BY DEF Procs
  <2>1. CASE WriteClear(c)
    <3>1. chip' \in Registers
      BY <2>1, ClearType, WrittenType DEF WriteClear, TypeOK
    <3>2. faults' \in 0 .. MaxFaults /\ crashes' \in 0 .. MaxCrashes
      BY <2>1, FaultType DEF WriteClear, TypeOK
    <3> QED BY <2>p, <2>1, <3>1, <3>2, ReturnType DEF WriteClear, TypeOK
  <2>2. CASE ResetAccel(c)
    <3>1. chip' \in Registers /\ erased' \in BOOLEAN
      BY <2>2, ErasedType DEF ResetAccel, TypeOK
    <3>2. CASE Goto(c, "resetGyro") /\ UNCHANGED << want, op, bounds >>
      BY <2>p, <2>2, <3>1, <3>2, GotoType DEF ResetAccel, TypeOK
    <3>3. CASE Fault /\ Fails(c)
      BY <2>p, <2>2, <3>1, <3>3, ReturnType, FaultType DEF ResetAccel, TypeOK
    <3> QED BY <2>2, <3>2, <3>3 DEF ResetAccel
  <2>3. CASE ResetGyro(c)
    <3>1. chip' \in Registers /\ erased' \in BOOLEAN
      BY <2>3, ErasedType DEF ResetGyro, TypeOK
    <3>2. faults' \in 0 .. MaxFaults /\ crashes' \in 0 .. MaxCrashes
      BY <2>3, FaultType DEF ResetGyro, TypeOK
    <3>3. CASE Goto(c, "invalidate") /\ UNCHANGED << want, op >>
      BY <2>p, <2>3, <3>1, <3>2, <3>3, GotoType DEF ResetGyro, TypeOK
    <3>4. CASE Fails(c)
      BY <2>p, <2>3, <3>1, <3>2, <3>4, ReturnType DEF ResetGyro, TypeOK
    <3> QED BY <2>3, <3>3, <3>4 DEF ResetGyro
  <2>4. CASE Invalidate(c)
    BY <2>p, <2>4, GotoType DEF Invalidate, TypeOK
  <2>5. CASE Current(c)
    BY <2>p, <2>5, GotoType DEF Current, TypeOK
  <2> QED BY <1>2, <2>1, <2>2, <2>3, <2>4, <2>5 DEF CallStep
<1>3. ASSUME Request PROVE TypeOK'
  <2>h. "alarm" \in Procs /\ "pm" \in Procs
    BY DEF Procs, Handlers
  <2>1. ASSUME NEW value \in AlarmStatuses, handleAlarmStatus(value) PROVE TypeOK'
    BY <2>h, <2>1, GotoType, DeriveType DEF handleAlarmStatus, TypeOK
  <2>2. ASSUME NEW value \in PmStates, handlePmState(value) PROVE TypeOK'
    BY <2>h, <2>2, GotoType, DeriveType DEF handlePmState, TypeOK
  <2>3. ASSUME NEW c \in Callers, prepareHibernation(c) \/ clearLatch(c) \/ softReset(c) PROVE TypeOK'
    <3>p. c \in Procs /\ "armed-hibernation" \in Profiles
      BY DEF Procs, Profiles
    <3>1. CASE prepareHibernation(c)
      BY <3>p, <3>1, GotoType DEF prepareHibernation, Serves, TypeOK
    <3>2. CASE clearLatch(c)
      BY <3>p, <3>2, GotoType DEF clearLatch, Serves, TypeOK
    <3>3. CASE softReset(c)
      BY <3>p, <3>3, GotoType DEF softReset, Serves, TypeOK
    <3> QED BY <2>3, <3>1, <3>2, <3>3
  <2> QED BY <1>3, <2>1, <2>2, <2>3 DEF Request
<1>4. CASE Restart
  <2>1. pc' \in [Procs -> Labels]
    BY <1>4 DEF Restart
  <2>2. want' \in [Procs -> Profiles] /\ op' \in [Callers -> Methods \cup {"none"}] /\ current' \in Profiles
    BY <1>4 DEF Restart, Profiles
  <2>3. crashes' \in 0 .. MaxCrashes
    <3>1. crashes \in 0 .. MaxCrashes /\ MaxCrashes \in Nat
      BY BoundsAssumption DEF TypeOK
    <3>2. crashes' = crashes \/ (crashes < MaxCrashes /\ crashes' = crashes + 1)
      BY <1>4 DEF Restart
    <3> QED BY <3>1, <3>2
  <2>4. Main \in Procs
    BY DEF Procs
  <2>5. next' \in Nat \ {0}
    <3>1. next' = 1
      BY <1>4 DEF Restart
    <3> QED BY <3>1
  <2> QED BY <1>4, <2>1, <2>2, <2>3, <2>4, <2>5 DEF Restart, TypeOK
<1>5. CASE UNCHANGED vars
  BY <1>5 DEF vars, TypeOK
<1> QED BY <1>1, <1>2, <1>3, <1>4, <1>5 DEF Next

(* Type correctness holds for every set of callers and statuses and every  *)
(* bound on faults and crashes.                                            *)
THEOREM TypeCorrect == Spec => []TypeOK
<1> QED BY TypeInit, TypeStep, PTL DEF Spec

-----------------------------------------------------------------------------
(* Steps of processes that are not inside Apply, and stay outside: they     *)
(* leave the mutex, the gates and the record of the profile alone, and      *)
(* touch the chip by clearing the latch or by resetting it on record.       *)
LEMMA Outside ==
  ASSUME IInv, NEW c \in Procs, NEW label,
         pc[c] \notin Applying, label \notin Applying, Goto(c, label),
         \A p \in Procs : p # c => want'[p] = want[p],
         mu' = mu, current' = current, pollerOn' = pollerOn, watcherOn' = watcherOn, next' = next,
         \/ erased' = erased /\ chip' \in {chip, Written(chip, ClearLatchedInterrupt[1])}
         \/ erased' = TRUE /\ chip' \in {chip, AccelErased(chip), GyroErased(chip)}
  PROVE  GateInv'
<1> USE DEF IInv, GateInv
<1>1. \A p \in Procs : IF p = c THEN pc'[p] = label ELSE pc'[p] = pc[p] /\ want'[p] = want[p]
  BY DEF Goto, TypeOK
<1>2. \A p \in Procs : pc'[p] \in Applying => pc[p] \in Applying /\ pc'[p] = pc[p] /\ want'[p] = want[p]
  BY <1>1
<1>3. \A p \in Procs : pc[p] \in Applying => pc'[p] \in Applying
  BY <1>1
<1>4. /\ "gyroReset" \in Applying /\ "program" \in Applying /\ Arming \subseteq Applying
      /\ "disableWatcher" \in Applying /\ Programming \cup {"enablePoller"} \subseteq Applying
      /\ {"enablePoller", "enableWatcher", "commit"} \subseteq Applying
  BY DEF Applying, Programming, Resetting, Arming
<1>5. LockInv'
  BY <1>2, <1>3 DEF LockInv
<1>6. FlagInv'
  BY <1>2, <1>4 DEF FlagInv
<1>7. ResetInv'
  <2> SUFFICES ASSUME NEW p \in Procs, pc'[p] = "gyroReset", NEW r \in Blanks PROVE chip'[r] = {}
    BY DEF ResetInv
  <2>1. chip[r] = {}
    BY <1>2, <1>4 DEF ResetInv
  <2> QED BY <2>1, BlanksKept DEF TypeOK
<1>8. ProgramInv'
  <2> SUFFICES ASSUME NEW p \in Procs, pc'[p] = "program"
               PROVE  /\ next <= Len(Program(want[p])) + 1
                      /\ ~erased' => Standing(chip', Program(want[p]), next)
    BY <1>2, <1>4 DEF ProgramInv
  <2>1. pc[p] = "program" /\ want[p] \in Profiles /\ chip \in Registers /\ next \in Nat \ {0}
    BY <1>2, <1>4 DEF TypeOK
  <2>2. next <= Len(Program(want[p])) + 1 /\ (~erased => Standing(chip, Program(want[p]), next))
    BY <2>1 DEF ProgramInv
  <2>3. next \in 1 .. Len(Program(want[p])) + 1
    BY <2>1, <2>2, ProgramType
  <2>4. ~erased => Standing(Written(chip, ClearLatchedInterrupt[1]), Program(want[p]), next)
    BY <2>1, <2>2, <2>3, StandingClear
  <2> QED BY <2>2, <2>4
<1>9. ArmInv'
  <2> SUFFICES ASSUME NEW p \in Procs, pc'[p] \in Arming, ~erased'
               PROVE  Ready(chip', want[p])
    BY <1>2, <1>4 DEF ArmInv
  <2>1. want[p] \in Profiles /\ chip \in Registers /\ Ready(chip, want[p])
    BY <1>2, <1>4 DEF TypeOK, ArmInv
  <2> QED BY <2>1, ReadyClear
<1>10. OpenInv'
  <2> SUFFICES ASSUME pollerOn \/ watcherOn, ~erased', \A p \in Procs : pc'[p] \notin Arming
               PROVE  Configs(current).enable /\ Ready(chip', current)
    BY DEF OpenInv
  <2>1. \A p \in Procs : pc[p] \notin Arming
    BY <1>1, <1>4
  <2>2. current \in Profiles /\ chip \in Registers /\ Configs(current).enable /\ Ready(chip, current)
    BY <2>1 DEF TypeOK, OpenInv
  <2> QED BY <2>2, ReadyClear
<1> QED BY <1>5, <1>6, <1>7, <1>8, <1>9, <1>10


(* The holder's way out of Apply on an error, while the gates are closed. *)
LEMMA Leave ==
  ASSUME IInv, NEW p \in Procs, mu = p, NEW label, label \notin Applying, Goto(p, label),
         mu' = NoOne, ~pollerOn', ~watcherOn'
  PROVE  GateInv'
<1>1. \A q \in Procs : pc'[q] = (IF q = p THEN label ELSE pc[q])
  BY DEF IInv, TypeOK, Goto
<1>2. \A q \in Procs : q # p => pc[q] \notin Applying
  BY DEF IInv, GateInv, LockInv
<1>3. \A q \in Procs : pc'[q] \notin Applying
  BY <1>1, <1>2
<1>4. LockInv'
  BY <1>3, CallersAssumption DEF LockInv
<1> QED
  BY <1>3, <1>4 DEF GateInv, FlagInv, ResetInv, ProgramInv, ArmInv, OpenInv,
                    Applying, Programming, Resetting, Arming

(* The holder's steps inside Apply: nobody else is there, so each part of   *)
(* the invariant speaks of the holder alone.                                *)
LEMMA Inside ==
  ASSUME IInv, NEW p \in Procs, mu' = p, NEW label \in Applying, Goto(p, label),
         mu = p \/ (mu = NoOne /\ pc[p] \notin Applying)
  PROVE  /\ LockInv'
         /\ \A q \in Procs : q # p => pc'[q] \notin Applying
         /\ pc'[p] = label
<1>1. \A q \in Procs : pc'[q] = (IF q = p THEN label ELSE pc[q])
  BY DEF IInv, TypeOK, Goto
<1>2. \A q \in Procs : q # p => pc[q] \notin Applying
  BY CallersAssumption DEF IInv, GateInv, LockInv
<1> QED BY <1>1, <1>2 DEF LockInv

(* ... which leaves these five facts to show. *)
LEMMA InsideParts ==
  ASSUME NEW p \in Procs, LockInv', \A q \in Procs : q # p => pc'[q] \notin Applying,
         /\ pc'[p] = "disableWatcher" => ~pollerOn'
         /\ pc'[p] \in Programming \cup {"enablePoller"} => ~pollerOn' /\ ~watcherOn'
         /\ pc'[p] \in {"enablePoller", "enableWatcher"} => Configs(want'[p]).enable
         /\ pc'[p] = "commit" => (pollerOn' \/ watcherOn' => Configs(want'[p]).enable),
         pc'[p] = "gyroReset" => \A r \in Blanks : chip'[r] = {},
         pc'[p] = "program" => /\ next' <= Len(Program(want'[p])) + 1
                               /\ ~erased' => Standing(chip', Program(want'[p]), next'),
         pc'[p] \in Arming /\ ~erased' => Ready(chip', want'[p]),
         (pollerOn' \/ watcherOn') /\ ~erased' /\ pc'[p] \notin Arming
           => Configs(current').enable /\ Ready(chip', current')
  PROVE  GateInv'
<1>1. {"gyroReset", "program", "disableWatcher", "enablePoller", "enableWatcher", "commit"} \subseteq Applying
      /\ Arming \subseteq Applying /\ Programming \cup {"enablePoller"} \subseteq Applying
  BY DEF Applying, Programming, Resetting, Arming
<1>2. FlagInv'
  BY <1>1 DEF FlagInv
<1>3. ResetInv'
  BY <1>1 DEF ResetInv
<1>4. ProgramInv'
  BY <1>1 DEF ProgramInv
<1>5. ArmInv'
  BY <1>1 DEF ArmInv
<1>6. OpenInv'
  BY DEF OpenInv
<1> QED BY <1>2, <1>3, <1>4, <1>5, <1>6 DEF GateInv

(* Where the labels of Apply belong.                                         *)
LEMMA Places ==
  /\ {"idle", "lock", "serving", "exited", "clear", "resetAccel", "resetGyro", "invalidate", "getCurrent"}
       \cap Applying = {}
  /\ {"disablePoller", "disableWatcher", "accelReset", "gyroReset", "program",
      "enablePoller", "enableWatcher", "commit"} \subseteq Applying
  /\ {"accelReset", "gyroReset", "program"} = Programming
  /\ {"enablePoller", "enableWatcher", "commit"} = Arming
BY DEF Applying, Programming, Resetting, Arming

(* Both gates are closed while the holder of the mutex programs the chip.    *)
LEMMA Closed ==
  ASSUME IInv, NEW p \in Procs, pc[p] \in Programming \cup {"enablePoller"}
  PROVE  ~pollerOn /\ ~watcherOn
BY DEF IInv, GateInv, FlagInv

(* Giving up while the gates are closed keeps the invariant.                 *)
LEMMA GivesUpStep ==
  ASSUME IInv, NEW p \in Procs, mu = p, GivesUp(p), pc[p] \in Programming, UNCHANGED gates
  PROVE  GateInv'
<1>1. ~pollerOn /\ ~watcherOn
  BY Closed
<1>2. CASE p = Main
  BY <1>1, <1>2, Leave, Places DEF GivesUp, Fails, gates
<1>3. CASE p # Main
  BY <1>1, <1>3, Leave, Places DEF GivesUp, Fails, gates
<1> QED BY <1>2, <1>3

(* Every step of Controller.Apply keeps the invariant.                       *)
LEMMA ApplyInv ==
  ASSUME IInv, NEW p \in Procs, ApplyStep(p)
  PROVE  GateInv'
<1> USE DEF subscriber, controller, gates, calls, history, bounds
<1>t. want[p] \in Profiles /\ chip \in Registers /\ next \in Nat \ {0}
  BY DEF IInv, TypeOK
<1>1. CASE Lock(p)
  <2>1. LockInv' /\ (\A q \in Procs : q # p => pc'[q] \notin Applying) /\ pc'[p] = "disablePoller"
    BY <1>1, Inside, Places DEF Lock
  <2>2. \A q \in Procs : pc[q] \notin Applying
    BY <1>1, CallersAssumption DEF Lock, IInv, GateInv, LockInv
  <2>3. \A q \in Procs : pc[q] \notin Arming
    BY <2>2, Places
  <2>4. (pollerOn \/ watcherOn) /\ ~erased => Configs(current).enable /\ Ready(chip, current)
    BY <2>3 DEF IInv, GateInv, OpenInv
  <2> QED BY <1>1, <2>1, <2>4, InsideParts, Places DEF Lock
<1>2. CASE Skip(p)
  <2>1. CASE p = Main
    BY <1>2, <2>1, Outside, Places DEF Skip, Succeeds
  <2>2. CASE p # Main
    BY <1>2, <2>2, Outside, Places DEF Skip, Succeeds
  <2> QED BY <2>1, <2>2
<1>3. CASE DisablePoller(p)
  <2>1. LockInv' /\ (\A q \in Procs : q # p => pc'[q] \notin Applying) /\ pc'[p] = "disableWatcher"
    BY <1>3, Inside, Places DEF DisablePoller, Holds
  <2>2. \A q \in Procs : pc[q] \notin Arming
    BY <1>3, Places DEF DisablePoller, Holds, IInv, GateInv, LockInv
  <2>3. (pollerOn \/ watcherOn) /\ ~erased => Configs(current).enable /\ Ready(chip, current)
    BY <2>2 DEF IInv, GateInv, OpenInv
  <2> QED BY <1>3, <2>1, <2>3, InsideParts, Places DEF DisablePoller
<1>4. CASE DisableWatcher(p)
  <2>1. LockInv' /\ (\A q \in Procs : q # p => pc'[q] \notin Applying) /\ pc'[p] = "accelReset"
    BY <1>4, Inside, Places DEF DisableWatcher, Holds
  <2>2. ~pollerOn
    BY <1>4 DEF DisableWatcher, Holds, IInv, GateInv, FlagInv
  <2> QED BY <1>4, <2>1, <2>2, InsideParts, Places DEF DisableWatcher
<1>5. CASE AccelReset(p)
  <2>0. mu = p /\ pc[p] \in Programming /\ UNCHANGED gates
    BY <1>5, Places DEF AccelReset, Holds
  <2>1. CASE GivesUp(p)
    BY <2>0, <2>1, GivesUpStep
  <2>2. CASE chip' = AccelErased(chip) /\ Goto(p, "gyroReset") /\ UNCHANGED mu
    <3>1. LockInv' /\ (\A q \in Procs : q # p => pc'[q] \notin Applying) /\ pc'[p] = "gyroReset"
      BY <2>0, <2>2, Inside, Places
    <3>2. ~pollerOn' /\ ~watcherOn'
      BY <2>0, Closed
    <3>3. \A r \in Blanks : chip'[r] = {}
      BY <2>2 DEF AccelErased, ResetValue, Blanks, AccelRegs, Regs
    <3> QED BY <3>1, <3>2, <3>3, InsideParts, Places
  <2> QED BY <1>5, <2>1, <2>2 DEF AccelReset
<1>6. CASE GyroReset(p)
  <2>0. mu = p /\ pc[p] = "gyroReset" /\ pc[p] \in Programming /\ UNCHANGED gates
    BY <1>6, Places DEF GyroReset, Holds
  <2>1. CASE GivesUp(p)
    BY <2>0, <2>1, GivesUpStep
  <2>2. CASE /\ Goto(p, "program") /\ next' = 1 /\ UNCHANGED << mu, want >>
             /\ chip' \in {chip, GyroErased(chip)}
    <3>1. LockInv' /\ (\A q \in Procs : q # p => pc'[q] \notin Applying) /\ pc'[p] = "program"
      BY <2>0, <2>2, Inside, Places
    <3>2. ~pollerOn' /\ ~watcherOn'
      BY <2>0, Closed
    <3>3. \A r \in Blanks : chip'[r] = {}
      <4>1. \A r \in Blanks : chip[r] = {}
        BY <2>0 DEF IInv, GateInv, ResetInv
      <4> QED BY <2>2, <4>1, <1>t, BlanksKept
    <3>4. Standing(chip', Program(want'[p]), next')
      BY <2>2, <3>3, StandingStart
    <3>5. next' <= Len(Program(want'[p])) + 1
      BY <1>t, <2>2, ProgramType
    <3> QED BY <3>1, <3>2, <3>4, <3>5, InsideParts, Places
  <2> QED BY <1>6, <2>1, <2>2 DEF GyroReset
<1>7. CASE Write(p)
  <2>0. mu = p /\ pc[p] = "program" /\ pc[p] \in Programming /\ UNCHANGED gates /\ erased' = erased
    BY <1>7, Places DEF Write, Holds
  <2>1. CASE GivesUp(p)
    BY <2>0, <2>1, GivesUpStep
  <2>2. CASE next' = next + 1 /\ UNCHANGED << mu, calls >>
    <3>1. Goto(p, "program")
      BY <2>0, <2>2 DEF Goto, IInv, TypeOK
    <3>2. LockInv' /\ (\A q \in Procs : q # p => pc'[q] \notin Applying) /\ pc'[p] = "program"
      BY <2>0, <2>2, <3>1, Inside, Places
    <3>3. ~pollerOn' /\ ~watcherOn'
      BY <2>0, Closed
    <3>4. next \in 1 .. Len(Program(want[p])) /\ Len(Program(want[p])) \in Nat
      BY <1>7, <1>t, ProgramType DEF Write
    <3>5. ~erased => Standing(chip, Program(want[p]), next)
      BY <2>0 DEF IInv, GateInv, ProgramInv
    <3>6. \/ chip' = Written(chip, Program(want[p])[next])
          \/ chip' = chip /\ ~Program(want[p])[next].must
      <4> DEFINE w == Program(want[p])[next]
      <4>1. ASSUME GivesUp(p), UNCHANGED mu PROVE FALSE
        BY <2>0, <4>1, CallersAssumption DEF GivesUp
      <4>2. \/ chip' = Written(chip, w)
            \/ chip' \in {chip, Written(chip, w)} /\ IF w.must THEN GivesUp(p) ELSE TRUE
        BY <1>7 DEF Write
      <4> HIDE DEF w
      <4>3. chip' = Written(chip, w) \/ (chip' = chip /\ ~w.must)
        BY <4>1, <4>2, <2>2
      <4> QED BY <4>3 DEF w
    <3>7. ~erased => Standing(chip', Program(want[p]), next + 1)
      BY <1>t, <3>4, <3>5, <3>6, StandingWrite
    <3>8. next + 1 <= Len(Program(want[p])) + 1
      BY <3>4
    <3> QED BY <2>0, <2>2, <3>2, <3>3, <3>7, <3>8, InsideParts, Places
  <2> QED BY <1>7, <2>1, <2>2 DEF Write
<1>8. CASE ProgramDone(p)
  <2>0. mu = p /\ mu' = mu /\ pc[p] = "program" /\ pc[p] \in Programming
        /\ UNCHANGED << gates, chip, want, erased >>
    BY <1>8, Places DEF ProgramDone, Holds
  <2>1. ~pollerOn' /\ ~watcherOn'
    BY <2>0, Closed
  <2>2. ~erased => Ready(chip, want[p])
    <3>1. next <= Len(Program(want[p])) + 1 /\ (~erased => Standing(chip, Program(want[p]), next))
      BY <2>0 DEF IInv, GateInv, ProgramInv
    <3>2. next = Len(Program(want[p])) + 1
      <4>1. next \notin 1 .. Len(Program(want[p])) /\ Len(Program(want[p])) \in Nat
        BY <1>8, <1>t, ProgramType DEF ProgramDone
      <4> QED BY <1>t, <3>1, <4>1
    <3> QED BY <1>t, <3>1, <3>2, ProgramReady
  <2>3. CASE Configs(want[p]).enable
    <3>1. Goto(p, "enablePoller")
      BY <1>8, <2>3 DEF ProgramDone
    <3>2. LockInv' /\ (\A q \in Procs : q # p => pc'[q] \notin Applying) /\ pc'[p] = "enablePoller"
      BY <2>0, <3>1, Inside, Places
    <3> QED BY <2>0, <2>1, <2>2, <2>3, <3>2, InsideParts, Places
  <2>4. CASE ~Configs(want[p]).enable
    <3>1. Goto(p, "commit")
      BY <1>8, <2>4 DEF ProgramDone
    <3>2. LockInv' /\ (\A q \in Procs : q # p => pc'[q] \notin Applying) /\ pc'[p] = "commit"
      BY <2>0, <3>1, Inside, Places
    <3> QED BY <2>0, <2>1, <2>2, <3>2, InsideParts, Places
  <2> QED BY <2>3, <2>4
<1>9. CASE EnablePoller(p)
  <2>1. LockInv' /\ (\A q \in Procs : q # p => pc'[q] \notin Applying) /\ pc'[p] = "enableWatcher"
    BY <1>9, Inside, Places DEF EnablePoller, Holds
  <2>2. Configs(want[p]).enable /\ (~erased => Ready(chip, want[p]))
    BY <1>9, Places DEF EnablePoller, Holds, IInv, GateInv, FlagInv, ArmInv
  <2> QED BY <1>9, <2>1, <2>2, InsideParts, Places DEF EnablePoller
<1>10. CASE EnableWatcher(p)
  <2>1. LockInv' /\ (\A q \in Procs : q # p => pc'[q] \notin Applying) /\ pc'[p] = "commit"
    BY <1>10, Inside, Places DEF EnableWatcher, Holds
  <2>2. Configs(want[p]).enable /\ (~erased => Ready(chip, want[p]))
    BY <1>10, Places DEF EnableWatcher, Holds, IInv, GateInv, FlagInv, ArmInv
  <2> QED BY <1>10, <2>1, <2>2, InsideParts, Places DEF EnableWatcher
<1>11. CASE Commit(p)
  <2>1. pc[p] = "commit" /\ mu = p /\ mu' = NoOne /\ current' = want[p] /\ UNCHANGED << gates, chip, erased >>
    BY <1>11 DEF Commit, Holds
  <2>2. (pollerOn \/ watcherOn) /\ ~erased => Configs(want[p]).enable /\ Ready(chip, want[p])
    BY <2>1, Places DEF IInv, GateInv, FlagInv, ArmInv
  <2>3. \A q \in Procs : pc'[q] \notin Applying
    <3>1. Goto(p, IF p = Main THEN "serving" ELSE "idle")
      BY <1>11 DEF Commit, Succeeds
    <3>2. \A q \in Procs : q # p => pc[q] \notin Applying
      BY <2>1 DEF IInv, GateInv, LockInv
    <3> QED BY <3>1, <3>2, Places DEF Goto, IInv, TypeOK
  <2>4. LockInv'
    BY <2>1, <2>3, CallersAssumption DEF LockInv
  <2> QED BY <2>1, <2>2, <2>3, <2>4, Places DEF GateInv, FlagInv, ResetInv, ProgramInv, ArmInv, OpenInv
<1> QED BY <1>1, <1>2, <1>3, <1>4, <1>5, <1>6, <1>7, <1>8, <1>9, <1>10, <1>11 DEF ApplyStep

(* A call that returns outside Apply goes to a label outside Apply.          *)
LEMMA Returns ==
  ASSUME IInv, NEW c \in Callers, Succeeds(c) \/ Fails(c)
  PROVE  Goto(c, "idle") /\ \A p \in Procs : p # c => want'[p] = want[p]
<1>1. c # Main
  BY CallersAssumption DEF Procs
<1> QED BY <1>1 DEF Succeeds, Fails, IInv, TypeOK

(* Every step of an RPC handler outside Apply keeps the invariant.           *)
LEMMA CallInv ==
  ASSUME IInv, NEW c \in Callers, CallStep(c)
  PROVE  GateInv'
<1> USE DEF subscriber, controller, gates, calls, history, bounds
<1>p. c \in Procs /\ c # Main
  BY CallersAssumption DEF Procs
<1>1. CASE WriteClear(c)
  <2>1. Goto(c, "idle") /\ \A p \in Procs : p # c => want'[p] = want[p]
    BY <1>1, Returns DEF WriteClear
  <2> QED BY <1>p, <1>1, <2>1, Outside, Places DEF WriteClear
<1>2. CASE ResetAccel(c)
  <2>1. CASE Goto(c, "resetGyro") /\ UNCHANGED want
    BY <1>p, <1>2, <2>1, Outside, Places DEF ResetAccel
  <2>2. CASE Fails(c)
    <3>1. Goto(c, "idle") /\ \A p \in Procs : p # c => want'[p] = want[p]
      BY <2>2, Returns
    <3> QED BY <1>p, <1>2, <3>1, Outside, Places DEF ResetAccel
  <2> QED BY <1>2, <2>1, <2>2 DEF ResetAccel
<1>3. CASE ResetGyro(c)
  <2>1. CASE Goto(c, "invalidate") /\ UNCHANGED want
    BY <1>p, <1>3, <2>1, Outside, Places DEF ResetGyro
  <2>2. CASE Fails(c)
    <3>1. Goto(c, "idle") /\ \A p \in Procs : p # c => want'[p] = want[p]
      BY <2>2, Returns
    <3> QED BY <1>p, <1>3, <3>1, Outside, Places DEF ResetGyro
  <2> QED BY <1>3, <2>1, <2>2 DEF ResetGyro
<1>4. CASE Invalidate(c)
  BY <1>p, <1>4, Outside, Places DEF Invalidate
<1>5. CASE Current(c)
  BY <1>p, <1>5, Outside, Places DEF Current
<1> QED BY <1>1, <1>2, <1>3, <1>4, <1>5 DEF CallStep

(* Every request, from Redis or by RPC, keeps the invariant.                 *)
LEMMA RequestInv ==
  ASSUME IInv, Request
  PROVE  GateInv'
<1> USE DEF subscriber, controller, gates, calls, history, bounds
<1>1. ASSUME NEW value \in AlarmStatuses, handleAlarmStatus(value) PROVE GateInv'
  <2>1. "alarm" \in Procs
    BY DEF Procs, Handlers
  <2> QED BY <1>1, <2>1, Outside, Places DEF handleAlarmStatus, Dispatchable
<1>2. ASSUME NEW value \in PmStates, handlePmState(value) PROVE GateInv'
  <2>1. "pm" \in Procs
    BY DEF Procs, Handlers
  <2> QED BY <1>2, <2>1, Outside, Places DEF handlePmState, Dispatchable
<1>3. ASSUME NEW c \in Callers, prepareHibernation(c) \/ clearLatch(c) \/ softReset(c) PROVE GateInv'
  <2>p. c \in Procs
    BY DEF Procs
  <2>1. CASE prepareHibernation(c)
    BY <2>p, <2>1, Outside, Places DEF prepareHibernation, Serves
  <2>2. CASE clearLatch(c)
    BY <2>p, <2>2, Outside, Places DEF clearLatch, Serves
  <2>3. CASE softReset(c)
    BY <2>p, <2>3, Outside, Places DEF softReset, Serves
  <2> QED BY <1>3, <2>1, <2>2, <2>3
<1> QED BY <1>1, <1>2, <1>3 DEF Request

(* The inductive invariant: it holds at first and every step keeps it. *)
THEOREM Inductive == Spec => []IInv
<1>1. Init => IInv
  <2> SUFFICES ASSUME Init PROVE GateInv
    BY TypeInit DEF IInv
  <2>1. \A p \in Procs : pc[p] \in {"lock", "idle"}
    BY DEF Init, Fresh
  <2>2. \A p \in Procs : pc[p] \notin Applying
    BY <2>1, Places
  <2>3. mu = NoOne /\ ~pollerOn /\ ~watcherOn
    BY DEF Init, Fresh
  <2>4. LockInv
    BY <2>2, <2>3, CallersAssumption DEF LockInv
  <2> QED BY <2>2, <2>3, <2>4, Places DEF GateInv, FlagInv, ResetInv, ProgramInv, ArmInv, OpenInv
<1>2. IInv /\ [Next]_vars => IInv'
  <2> SUFFICES ASSUME IInv, [Next]_vars PROVE GateInv'
    BY TypeStep DEF IInv
  <2>1. CASE Restart
    <3>1. \A p \in Procs : pc'[p] \in {"lock", "idle"}
      BY <2>1 DEF Restart
    <3>2. \A p \in Procs : pc'[p] \notin Applying
      BY <3>1, Places
    <3>3. mu' = NoOne /\ ~pollerOn' /\ ~watcherOn'
      BY <2>1 DEF Restart
    <3>4. LockInv'
      BY <3>2, <3>3, CallersAssumption DEF LockInv
    <3> QED BY <3>2, <3>3, <3>4, Places DEF GateInv, FlagInv, ResetInv, ProgramInv, ArmInv, OpenInv
  <2>2. CASE UNCHANGED vars
    BY <2>2 DEF vars, subscriber, controller, gates, calls, history, bounds, IInv, GateInv,
                LockInv, FlagInv, ResetInv, ProgramInv, ArmInv, OpenInv
  <2> QED BY <2>1, <2>2, ApplyInv, CallInv, RequestInv DEF Next
<1> QED BY <1>1, <1>2, PTL DEF Spec

(* No two Applies interleave, for any number of concurrent RPC calls. *)
THEOREM MutexHeld == Spec => []MutualExclusion
<1>1. IInv => MutualExclusion
  BY DEF IInv, GateInv, LockInv, MutualExclusion
<1> QED BY <1>1, Inductive, PTL

(* Both gates are closed for as long as the chip is being reprogrammed. *)
THEOREM GateStaysClosed == Spec => []GateClosed
<1>1. IInv => GateClosed
  BY Places DEF IInv, GateInv, FlagInv, GateClosed
<1> QED BY <1>1, Inductive, PTL

(* An open gate stands for a chip that holds everything the profile         *)
(* promises, whatever failed, crashed or was abandoned before: five         *)
(* profiles, any number of callers, faults and crashes.                     *)
THEOREM OpenGateIsTrue == Spec => []GateTellsTruth
<1>1. ASSUME IInv PROVE GateTellsTruth
  <2> SUFFICES ASSUME pollerOn \/ watcherOn, ~erased
               PROVE  Configs(Promised).enable /\ Ready(chip, Promised)
    BY DEF GateTellsTruth
  <2> USE <1>1 DEF IInv, GateInv
  <2>m. mu \in Procs \cup {NoOne}
    BY DEF TypeOK
  <2>1. CASE mu # NoOne /\ pc[mu] \in Arming
    <3>1. mu \in Procs /\ Promised = want[mu]
      BY <2>m, <2>1 DEF Promised
    <3>2. Ready(chip, want[mu])
      BY <3>1, <2>1 DEF ArmInv
    <3>3. Configs(want[mu]).enable
      BY <3>1, <2>1, Places DEF FlagInv
    <3> QED BY <3>1, <3>2, <3>3
  <2>2. CASE ~(mu # NoOne /\ pc[mu] \in Arming)
    <3>1. \A p \in Procs : pc[p] \notin Arming
      BY <2>2, CallersAssumption DEF LockInv, Applying
    <3>2. Promised = current
      BY <2>2 DEF Promised
    <3> QED BY <3>1, <3>2 DEF OpenInv
  <2> QED BY <2>1, <2>2
<1> QED BY <1>1, Inductive, PTL

============================================================================
