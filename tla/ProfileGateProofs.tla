------------------------- MODULE ProfileGateProofs -------------------------
(***************************************************************************)
(* ProfileController implements ProfileGate, whatever fails, crashes or is *)
(* requested, for every set of callers: the steps of the controller that   *)
(* open or close the gate leave the registers alone, and those that write  *)
(* to them find the gate closed, change nothing, or are on record.         *)
(***************************************************************************)
EXTENDS ProfileControllerProofs

Opened == pollerOn \/ watcherOn

(* A chip cannot hold a profile that uses interrupts and one that does not. *)
LEMMA ArmableAlone ==
  ASSUME NEW p \in Profiles, NEW q \in Profiles, Ready(chip, p), Ready(chip, q), Configs(p).enable
  PROVE  Configs(q).enable
<1> SUFFICES ASSUME ~Configs(q).enable PROVE FALSE
  OBVIOUS
<1>1. chip["intMap0"] = {} /\ chip["intMap2"] = {}
  BY DEF Ready, RoutingReady
<1>2. 1 \in Configs(p).pins
  BY ConfigsFacts DEF Configs, Profiles, PinINT1, PinBoth
<1>3. chip["intMap0"] \in {MapSlope, MapSlow}
  BY <1>2 DEF Ready, RoutingReady
<1> QED BY <1>1, <1>3 DEF MapSlope, MapSlow

(* A latch clear finds the latch mode of an open gate's profile in place.   *)
LEMMA ClearChangesNothing ==
  ASSUME IInv, Opened, ~erased
  PROVE  Written(chip, ClearLatchedInterrupt[1]) = chip
<1> DEFINE w == ClearLatchedInterrupt[1]
<1>t. chip \in Registers /\ "intLatch" \in Regs
  BY DEF IInv, TypeOK, Regs, AccelRegs
<1>w. w \in Writes /\ w.reg = "intLatch" /\ w.keep = {} /\ w.set = Latched
  BY ClearType DEF BestEffort
<1> HIDE DEF w
<1>1. PICK p \in Profiles : Configs(p).enable /\ Ready(chip, p)
  <2>1. CASE \E q \in Procs : pc[q] \in Arming
    <3>1. PICK q \in Procs : pc[q] \in Arming
      BY <2>1
    <3>2. Ready(chip, want[q]) /\ want[q] \in Profiles
      BY <3>1 DEF IInv, GateInv, ArmInv, TypeOK
    <3>3. Configs(want[q]).enable
      BY <3>1, Places DEF IInv, GateInv, FlagInv, Opened
    <3> QED BY <3>2, <3>3
  <2>2. CASE \A q \in Procs : pc[q] \notin Arming
    BY <2>2 DEF IInv, GateInv, OpenInv, TypeOK, Opened
  <2> QED BY <2>1, <2>2
<1>2. chip["intLatch"] = Latched
  BY <1>1, ConfigsFacts DEF Ready, RoutingReady
<1>3. \A r \in Regs : Written(chip, w)[r] = chip[r]
  <2>1. \A r \in Regs : r # "intLatch" => Written(chip, w)[r] = chip[r]
    BY <1>t, <1>w, WrittenAt
  <2>2. Written(chip, w)["intLatch"] = (chip["intLatch"] \cap w.keep) \cup w.set
    BY <1>t, <1>w, WrittenAt
  <2> QED BY <1>w, <1>2, <2>1, <2>2
<1>4. Written(chip, w) \in Registers
  BY <1>t, <1>w, WrittenType
<1>5. Written(chip, w) = chip
  BY <1>t, <1>3, <1>4 DEF Registers
<1> QED BY <1>5 DEF w

(* What a step may do to the gate, the registers and the record of resets.  *)
Stands == UNCHANGED << chip, erased >> /\ Opened' = Opened
Works  == ~Opened /\ ~Opened' /\ erased' \in {erased, FALSE}
Erases == Opened' = Opened /\ erased'
Closes == UNCHANGED << chip, erased >> /\ Opened /\ ~Opened'
Opens  ==
  /\ UNCHANGED << chip, erased >> /\ ~Opened /\ Opened'
  /\ ~erased => \E p \in Profiles : Configs(p).enable /\ Ready(chip, p)

(* The steps of Apply.                                                      *)
LEMMA ApplyGate ==
  ASSUME IInv, NEW p \in Procs, ApplyStep(p)
  PROVE  Stands \/ Works \/ Closes \/ Opens
<1> USE DEF subscriber, controller, gates, calls, history, bounds, Opened
<1>b. pollerOn \in BOOLEAN /\ watcherOn \in BOOLEAN /\ erased \in BOOLEAN /\ want[p] \in Profiles
  BY DEF IInv, TypeOK
<1>1. CASE Lock(p) \/ Skip(p) \/ ProgramDone(p) \/ Commit(p)
  BY <1>1 DEF Lock, Skip, ProgramDone, Commit, Stands
<1>2. CASE DisablePoller(p) \/ DisableWatcher(p)
  <2>1. pollerOn' \in {pollerOn, FALSE} /\ watcherOn' \in {watcherOn, FALSE}
        /\ UNCHANGED << chip, erased >>
    BY <1>2 DEF DisablePoller, DisableWatcher
  <2> QED BY <1>b, <2>1 DEF Stands, Closes
<1>3. CASE AccelReset(p) \/ GyroReset(p) \/ Write(p)
  <2>1. ~pollerOn /\ ~watcherOn
    BY <1>3, Closed, Places DEF AccelReset, GyroReset, Write, Holds
  <2>2. UNCHANGED gates /\ erased' \in {erased, FALSE}
    BY <1>3 DEF AccelReset, GyroReset, Write
  <2> QED BY <2>1, <2>2 DEF Works
<1>4. CASE EnablePoller(p)
  <2>1. pc[p] = "enablePoller" /\ pollerOn' = TRUE /\ UNCHANGED << watcherOn, chip, erased >>
    BY <1>4 DEF EnablePoller, Holds
  <2>2. ~pollerOn /\ ~watcherOn /\ Configs(want[p]).enable
    BY <2>1, Closed DEF IInv, GateInv, FlagInv
  <2>3. ~erased => Ready(chip, want[p])
    BY <2>1, Places DEF IInv, GateInv, ArmInv
  <2> QED BY <1>b, <2>1, <2>2, <2>3 DEF Opens
<1>5. CASE EnableWatcher(p)
  <2>1. pc[p] = "enableWatcher" /\ watcherOn' = HasWatcher /\ UNCHANGED << pollerOn, chip, erased >>
    BY <1>5 DEF EnableWatcher, Holds
  <2>2. Configs(want[p]).enable
    BY <2>1 DEF IInv, GateInv, FlagInv
  <2>3. ~erased => Ready(chip, want[p])
    BY <2>1, Places DEF IInv, GateInv, ArmInv
  <2>4. CASE Opened' = Opened
    BY <2>1, <2>4 DEF Stands
  <2>5. CASE Opened /\ ~Opened'
    BY <2>1, <2>5 DEF Closes
  <2>6. CASE ~Opened /\ Opened'
    BY <1>b, <2>1, <2>2, <2>3, <2>6 DEF Opens
  <2> QED BY <1>b, <2>1, <2>4, <2>5, <2>6, FlagsAssumption
<1> QED BY <1>1, <1>2, <1>3, <1>4, <1>5 DEF ApplyStep

(* The steps of the handlers, requests and restarts.                        *)
LEMMA OtherGate ==
  ASSUME IInv, (\E c \in Callers : CallStep(c)) \/ Request \/ Restart \/ UNCHANGED vars
  PROVE  Stands \/ Works \/ Erases \/ Closes
<1> USE DEF subscriber, controller, gates, calls, history, bounds, Opened
<1>b. pollerOn \in BOOLEAN /\ watcherOn \in BOOLEAN /\ erased \in BOOLEAN
  BY DEF IInv, TypeOK
<1>1. ASSUME NEW c \in Callers, CallStep(c) PROVE Stands \/ Works \/ Erases
  <2>1. CASE WriteClear(c)
    <3>1. UNCHANGED << gates, erased >> /\ chip' \in {chip, Written(chip, ClearLatchedInterrupt[1])}
      BY <2>1 DEF WriteClear
    <3>2. CASE Opened /\ ~erased
      BY <3>1, <3>2, ClearChangesNothing DEF Stands
    <3>3. CASE Opened /\ erased
      BY <3>1, <3>3 DEF Erases
    <3>4. CASE ~Opened
      BY <3>1, <3>4 DEF Works
    <3> QED BY <1>b, <3>2, <3>3, <3>4
  <2>2. CASE ResetAccel(c) \/ ResetGyro(c)
    <3>1. UNCHANGED gates /\ (erased' \/ UNCHANGED << chip, erased >>)
      BY <2>2 DEF ResetAccel, ResetGyro
    <3> QED BY <3>1 DEF Stands, Erases
  <2>3. CASE Invalidate(c) \/ Current(c)
    BY <2>3 DEF Invalidate, Current, Stands
  <2> QED BY <1>1, <2>1, <2>2, <2>3 DEF CallStep
<1>2. CASE Request
  BY <1>2 DEF Request, handleAlarmStatus, handlePmState, prepareHibernation, clearLatch, softReset, Stands
<1>3. CASE Restart
  BY <1>b, <1>3 DEF Restart, Stands, Closes
<1>4. CASE UNCHANGED vars
  BY <1>4 DEF vars, Stands
<1> QED BY <1>1, <1>2, <1>3, <1>4

(* Edges pass only while the chip holds a complete profile that uses        *)
(* interrupts, and it does not change while they pass: the controller       *)
(* implements the gate.                                                     *)
THEOREM GateImplemented == Spec => GateSpec
<1> DEFINE shown == IF Held = {} THEN NoOne ELSE CHOOSE p \in Held : TRUE
           armable == {p \in Profiles : Configs(p).enable}
<1>1. shown \in Profiles \cup {NoOne} /\ (Held # {} => shown \in Held)
  BY DEF Held
<1>2. shown' \in Profiles \cup {NoOne}
  BY DEF Held
<1>3. chip' = chip => shown' = shown
  BY DEF Held
<1>4. Init => Gate!Init
  <2> SUFFICES ASSUME Init PROVE Gate!Init
    OBVIOUS
  <2>1. ~Opened /\ ~erased
    BY DEF Init, Fresh, Opened
  <2> QED BY <1>1, <2>1 DEF Gate!Init, Gate!Contents, Opened
<1>5. IInv /\ IInv' /\ [Next]_vars => [Gate!Next]_<< shown, Opened, ~erased >>
  <2> SUFFICES ASSUME IInv, IInv', [Next]_vars
               PROVE  Gate!Next \/ UNCHANGED << shown, Opened, ~erased >>
    OBVIOUS
  <2>b. erased \in BOOLEAN /\ erased' \in BOOLEAN
    BY DEF IInv, TypeOK
  <2>1. CASE Stands
    BY <1>3, <2>1 DEF Stands
  <2>2. CASE Works
    <3>1. Gate!Program
      BY <1>2, <2>b, <2>2 DEF Works, Opened, Gate!Program, Gate!Contents
    <3> QED BY <3>1 DEF Gate!Next
  <2>3. CASE Erases
    <3>1. Gate!Reset
      BY <1>2, <2>3 DEF Erases, Opened, Gate!Reset, Gate!Contents
    <3> QED BY <3>1 DEF Gate!Next
  <2>4. CASE Closes
    <3>1. Gate!Close
      BY <1>3, <2>4 DEF Closes, Opened, Gate!Close
    <3> QED BY <3>1 DEF Gate!Next
  <2>5. CASE Opens
    <3>1. ~erased => shown \in armable
      <4>1. ASSUME ~erased PROVE shown \in armable
        <5>1. PICK p \in Profiles : Configs(p).enable /\ Ready(chip, p)
          BY <2>5, <4>1 DEF Opens
        <5>2. shown \in Profiles /\ Ready(chip, shown)
          BY <1>1, <5>1 DEF Held
        <5> HIDE DEF shown
        <5> QED BY <5>1, <5>2, ArmableAlone
      <4> QED BY <4>1
    <3>2. Gate!Open
      BY <1>3, <2>5, <3>1 DEF Opens, Opened, Gate!Open
    <3> QED BY <3>2 DEF Gate!Next
  <2>6. Stands \/ Works \/ Erases \/ Closes \/ Opens
    BY ApplyGate, OtherGate DEF Next
  <2> QED BY <2>1, <2>2, <2>3, <2>4, <2>5, <2>6
<1>6. [][Gate!Next]_<< shown, Opened, ~erased >> /\ Gate!Init => GateSpec
  BY PTL DEF GateSpec, Gate!Spec, Opened
<1> QED BY <1>4, <1>5, <1>6, Inductive, PTL DEF Spec
=============================================================================
