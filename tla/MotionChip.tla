----------------------------- MODULE MotionChip -----------------------------
(***************************************************************************)
(* The BMX055 registers the service programs and the driver functions of   *)
(* package bmx (accelerometer.go, gyroscope.go) that write them.  A driver *)
(* function is the sequence of its bus writes, in program order; a         *)
(* read-modify-write is one write with the mask of the bits it keeps.      *)
(* Profile controller calls strung together make Program(p), what Apply    *)
(* writes between the resets and the opening of the interrupt gate.        *)
(***************************************************************************)
EXTENDS MotionProfile, Sequences

AccelRegs == {"bw", "intEn0", "intEn2", "intMap0", "intMap2", "intOut", "intLatch",
              "motDuration", "slopeThreshold", "slowThreshold"}
GyroRegs  == {"gyroLpm", "gyroRange", "gyroBw"}
Regs      == AccelRegs \cup GyroRegs
Registers == [Regs -> SUBSET Byte]

(* A write keeps the bits of `keep` and sets the bits of `set`.  `must`    *)
(* says whether Apply gives up when the write fails.                       *)
Writes == [reg : Regs, keep : SUBSET Byte, set : SUBSET Byte, must : BOOLEAN]

Set(r, bits)         == [reg |-> r, keep |-> {},   set |-> bits, must |-> TRUE]
Update(r, keep, bits) == [reg |-> r, keep |-> keep, set |-> bits, must |-> TRUE]
BestEffort(r, bits)  == [reg |-> r, keep |-> {},   set |-> bits, must |-> FALSE]

Written(c, w) == [c EXCEPT ![w.reg] = (c[w.reg] \cap w.keep) \cup w.set]

(***************************************************************************)
(* Resets.  The accelerometer comes back with a 1000 Hz bandwidth, no      *)
(* engine enabled and no interrupt routed; the gyroscope with its default  *)
(* +-2000 deg/s range.  The values the source does not state are {}: no    *)
(* property below depends on them.                                         *)
(***************************************************************************)
ResetValue(r) == IF r = "bw" THEN {1, 2, 4, 8} ELSE {}
AccelErased(c) == [r \in Regs |-> IF r \in AccelRegs THEN ResetValue(r) ELSE c[r]]
GyroErased(c)  == [r \in Regs |-> IF r \in GyroRegs THEN ResetValue(r) ELSE c[r]]
PowerOn        == [r \in Regs |-> ResetValue(r)]

-----------------------------------------------------------------------------
(* Driver functions *)
Axes       == {1, 2, 4}     \* the X, Y and Z enables of an engine
MapSlope   == {4}           \* ACCEL_INT1_MAP_SLOPE = ACCEL_INT2_MAP_SLOPE
MapSlow    == {8}           \* ACCEL_INT1_MAP_SLOW_NO_MOTION = ..INT2..
Latched    == {1, 2, 4, 8}  \* ACCEL_INT_LATCHED
SlopeBits  == {1, 2}        \* register 0x27: slope duration in bits 1:0
ShiftLeft2(bits) == {b \in Byte : \E a \in bits : b = 4 * a}

GyroConfigure == << Set("gyroLpm", {}), Set("gyroRange", {2}), Set("gyroBw", {1, 2}) >>

SetBandwidth(bw) == << Set("bw", bw) >>

DisableSlowNoMotionInterrupt == << Set("intEn2", {}) >>

EnableAnyMotionInterrupt(threshold, duration) ==
  << Update("motDuration", Byte \ SlopeBits, duration \cap SlopeBits),
     Set("slopeThreshold", threshold),
     Set("intEn0", Axes) >>

DisableAnyMotionInterrupt == << Set("intEn0", {}) >>

ConfigureSlowNoMotion(threshold, duration) ==
  << Set("slowThreshold", threshold),
     Update("motDuration", SlopeBits, ShiftLeft2(duration)) >>

EnableSlowNoMotionInterrupt == << Set("intEn2", Axes) >>

ActiveHigh(pins) == (IF 1 \in pins THEN {1} ELSE {}) \cup (IF 2 \in pins THEN {4} ELSE {})
OpenDrain(pins)  == (IF 1 \in pins THEN {2} ELSE {}) \cup (IF 2 \in pins THEN {8} ELSE {})

(* ConfigureInterruptPins(pins, latched = true) *)
ConfigureInterruptPins(pins) ==
  << Update("intOut", Byte \ OpenDrain(pins), ActiveHigh(pins)),
     Set("intLatch", Latched) >>

(* reset_int is write-only: what stays in the register is the latch mode. *)
ClearLatchedInterrupt == << BestEffort("intLatch", Latched) >>

OnPins(pins, int1, int2) ==
  (IF 1 \in pins THEN << int1 >> ELSE << >>) \o (IF 2 \in pins THEN << int2 >> ELSE << >>)

MapAnyMotionToPins(pins) ==
  OnPins(pins, Update("intMap0", Byte, MapSlope), Update("intMap2", Byte, MapSlope))

MapInterruptToPins(pins) ==
  OnPins(pins, Set("intMap0", MapSlow), Set("intMap2", MapSlow))

DisableInterruptMapping == << Set("intMap0", {}), Set("intMap2", {}) >>

-----------------------------------------------------------------------------
(* Controller.Apply, from the gyroscope configuration to the routing. *)
ConfigureEngine(s) ==
  IF s.mode = "any-motion"
  THEN DisableSlowNoMotionInterrupt \o EnableAnyMotionInterrupt(s.threshold, s.duration)
  ELSE DisableAnyMotionInterrupt \o ConfigureSlowNoMotion(s.threshold, s.duration)

(* mutant of Route: the slow-motion engine runs before it is mapped *)
RouteEnabledFirst(s) ==
  IF ~s.enable THEN DisableInterruptMapping
  ELSE IF s.mode = "any-motion" THEN MapAnyMotionToPins(s.pins)
  ELSE EnableSlowNoMotionInterrupt \o MapInterruptToPins(s.pins)

Route(s) ==
  IF ~s.enable THEN DisableInterruptMapping
  ELSE IF s.mode = "any-motion" THEN MapAnyMotionToPins(s.pins)
  ELSE MapInterruptToPins(s.pins) \o EnableSlowNoMotionInterrupt

Program(p) ==
  LET s == Configs(p)
  IN GyroConfigure \o SetBandwidth(s.bandwidth) \o ConfigureEngine(s)
       \o (IF s.pins # PinNone THEN ConfigureInterruptPins(s.pins) ELSE << >>)
       \o ClearLatchedInterrupt \o ClearLatchedInterrupt
       \o Route(s)

-----------------------------------------------------------------------------
(***************************************************************************)
(* Ready(c, p): register contents c are what profile p promises, stated    *)
(* from Configs alone and not from the writes: the engine of p's mode runs *)
(* with p's threshold and duration at p's bandwidth, it is the only one    *)
(* routed, to exactly the pins of p, which are driven and latched; and the *)
(* gyroscope is at the scale its reader assumes.                           *)
(***************************************************************************)
EngineReady(c, s) ==
  IF s.mode = "any-motion"
  THEN /\ c["slopeThreshold"] = s.threshold
       /\ c["motDuration"] \cap SlopeBits = s.duration
       /\ c["intEn0"] = Axes /\ c["intEn2"] = {}
  ELSE /\ c["slowThreshold"] = s.threshold
       /\ c["motDuration"] \ SlopeBits = ShiftLeft2(s.duration)
       /\ c["intEn0"] = {} /\ c["intEn2"] = (IF s.enable THEN Axes ELSE {})

RoutingReady(c, s) ==
  LET engine == IF s.mode = "any-motion" THEN MapSlope ELSE MapSlow
  IN /\ c["intMap0"] = (IF s.enable /\ 1 \in s.pins THEN engine ELSE {})
     /\ c["intMap2"] = (IF s.enable /\ 2 \in s.pins THEN engine ELSE {})
     /\ ActiveHigh(s.pins) \subseteq c["intOut"]
     /\ OpenDrain(s.pins) \cap c["intOut"] = {}
     /\ s.pins # {} => c["intLatch"] = Latched

Ready(c, p) ==
  LET s == Configs(p)
  IN /\ c["bw"] = s.bandwidth
     /\ c["gyroRange"] = {2} /\ c["gyroBw"] = {1, 2}
     /\ EngineReady(c, s)
     /\ RoutingReady(c, s)

-----------------------------------------------------------------------------
(* What a write leaves behind until its register is written otherwise. *)
Done(c, w) == w.set \subseteq c[w.reg] /\ c[w.reg] \ w.keep \subseteq w.set

(* Registers some profile leaves as the reset left them, or adds bits to.  *)
Blanks == {"intEn2", "intMap0", "intMap2"}

(* The writes of prog before the n-th still stand in c, whatever was       *)
(* written since, and the blanks hold nothing but what prog wrote.         *)
Standing(c, prog, n) ==
  /\ \A i \in 1 .. n - 1 : prog[i].must => Done(c, prog[i])
  /\ \A r \in Blanks :
       c[r] = {} \/ \E i \in 1 .. n - 1 : prog[i].reg = r /\ c[r] = prog[i].set
=============================================================================
