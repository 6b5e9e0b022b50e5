------------------------- MODULE MotionChipProofs -------------------------
(***************************************************************************)
(* What the writes of Controller.Apply leave in the registers, proved for  *)
(* every profile: any order of agreeing writes and stray latch clears ends *)
(* in the configuration the profile promises (ProgramReady).  The proof    *)
(* turns each sequence of writes into the set of its writes, shows that no *)
(* two of them disagree about a register, and that a write therefore       *)
(* stands from the step that made it to the end of the program.            *)
(***************************************************************************)
EXTENDS MotionChip, SequenceTheorems, TLAPS

(* Every profile's configuration is one Apply can be given (Configs).        *)
LEMMA ConfigsType == \A p : Configs(p) \in SpecType
BY SMT DEF Configs, SpecType, Modes, Byte, Bw7_81Hz, Bw15_63Hz, Bw31_25Hz, PinNone, PinINT1, PinBoth

(* The three kinds of register write the driver functions use are writes.    *)
LEMMA WriteTypes ==
  /\ \A r \in Regs, v \in SUBSET Byte : Set(r, v) \in Writes /\ BestEffort(r, v) \in Writes
  /\ \A r \in Regs, k, v \in SUBSET Byte : Update(r, k, v) \in Writes
BY SMT DEF Set, BestEffort, Update, Writes

(* The bit masks of accelerometer.go fit in a byte.                          *)
LEMMA Bytes ==
  /\ Axes \in SUBSET Byte /\ MapSlope \in SUBSET Byte /\ MapSlow \in SUBSET Byte
  /\ Latched \in SUBSET Byte /\ SlopeBits \in SUBSET Byte
  /\ \A v : ShiftLeft2(v) \in SUBSET Byte /\ ActiveHigh(v) \in SUBSET Byte /\ OpenDrain(v) \in SUBSET Byte
BY SMT DEF Byte, Axes, MapSlope, MapSlow, Latched, SlopeBits, ShiftLeft2, ActiveHigh, OpenDrain

(* Every driver function that takes no pin list is a sequence of writes.     *)
LEMMA CallTypes ==
  ASSUME NEW s \in SpecType
  PROVE  /\ GyroConfigure \in Seq(Writes)
         /\ SetBandwidth(s.bandwidth) \in Seq(Writes)
         /\ DisableSlowNoMotionInterrupt \in Seq(Writes)
         /\ EnableAnyMotionInterrupt(s.threshold, s.duration) \in Seq(Writes)
         /\ DisableAnyMotionInterrupt \in Seq(Writes)
         /\ ConfigureSlowNoMotion(s.threshold, s.duration) \in Seq(Writes)
         /\ EnableSlowNoMotionInterrupt \in Seq(Writes)
         /\ ConfigureInterruptPins(s.pins) \in Seq(Writes)
         /\ ClearLatchedInterrupt \in Seq(Writes)
         /\ DisableInterruptMapping \in Seq(Writes)
<1> USE WriteTypes, Bytes
<1>r. /\ {"bw", "intEn0", "intEn2", "intMap0", "intMap2", "intOut", "intLatch",
              "motDuration", "slopeThreshold", "slowThreshold"} \subseteq Regs
      /\ {"gyroLpm", "gyroRange", "gyroBw"} \subseteq Regs
  BY DEF Regs, AccelRegs, GyroRegs
<1>s. s.bandwidth \in SUBSET Byte /\ s.threshold \in SUBSET Byte /\ s.duration \in SUBSET Byte
  BY DEF SpecType
<1>b. {2} \in SUBSET Byte /\ {1,2} \in SUBSET Byte /\ {} \in SUBSET Byte
  BY DEF Byte
<1>1. GyroConfigure \in Seq(Writes)
  BY <1>r, <1>b DEF GyroConfigure
<1>2. SetBandwidth(s.bandwidth) \in Seq(Writes)
  BY <1>r, <1>s DEF SetBandwidth
<1>3. DisableSlowNoMotionInterrupt \in Seq(Writes) /\ DisableAnyMotionInterrupt \in Seq(Writes)
      /\ EnableSlowNoMotionInterrupt \in Seq(Writes) /\ DisableInterruptMapping \in Seq(Writes)
      /\ ClearLatchedInterrupt \in Seq(Writes)
  BY <1>r, <1>b DEF DisableSlowNoMotionInterrupt, DisableAnyMotionInterrupt, EnableSlowNoMotionInterrupt, DisableInterruptMapping, ClearLatchedInterrupt
<1>4. EnableAnyMotionInterrupt(s.threshold, s.duration) \in Seq(Writes)
  BY <1>r, <1>s DEF EnableAnyMotionInterrupt
<1>5. ConfigureSlowNoMotion(s.threshold, s.duration) \in Seq(Writes)
  BY <1>r, <1>s DEF ConfigureSlowNoMotion
<1>6. ConfigureInterruptPins(s.pins) \in Seq(Writes)
  BY <1>r, <1>s DEF ConfigureInterruptPins
<1> QED BY <1>1, <1>2, <1>3, <1>4, <1>5, <1>6

(* Two driver calls in a row write what each of them writes.                 *)
LEMMA Concat ==
  \A s, t \in Seq(Writes) : s \o t \in Seq(Writes) /\ Range(s \o t) = Range(s) \cup Range(t)
<1> TAKE s, t \in Seq(Writes)
<1> QED BY ConcatProperties, RangeConcatenation, Zenon

(* A call that maps pins writes the map of each pin it is given, once.       *)
LEMMA OnPinsType ==
  ASSUME NEW pins, NEW v \in Writes, NEW w \in Writes
  PROVE  /\ OnPins(pins, v, w) \in Seq(Writes)
         /\ Range(OnPins(pins, v, w)) = (IF 1 \in pins THEN {v} ELSE {}) \cup (IF 2 \in pins THEN {w} ELSE {})
<1> DEFINE l == IF 1 \in pins THEN << v >> ELSE << >>
           r == IF 2 \in pins THEN << w >> ELSE << >>
<1>1. l \in Seq(Writes) /\ r \in Seq(Writes)
  OBVIOUS
<1>2. Range(l) = (IF 1 \in pins THEN {v} ELSE {}) /\ Range(r) = (IF 2 \in pins THEN {w} ELSE {})
  BY DEF Range
<1>3. l \o r \in Seq(Writes) /\ Range(l \o r) = Range(l) \cup Range(r)
  BY <1>1, Concat, Zenon
<1> QED BY <1>2, <1>3 DEF OnPins

(* The elements of short tuples.                                             *)
LEMMA TupleRange ==
  /\ \A a : Range(<< a >>) = {a}
  /\ \A a, b : Range(<< a, b >>) = {a, b}
  /\ \A a, b, c : Range(<< a, b, c >>) = {a, b, c}
  /\ Range(<< >>) = {}
BY DEF Range

(* The writes of Route, as a set.                                            *)
RouteSet(s) ==
  IF ~s.enable THEN {Set("intMap0", {}), Set("intMap2", {})}
  ELSE IF s.mode = "any-motion"
  THEN (IF 1 \in s.pins THEN {Update("intMap0", Byte, MapSlope)} ELSE {})
          \cup (IF 2 \in s.pins THEN {Update("intMap2", Byte, MapSlope)} ELSE {})
  ELSE (IF 1 \in s.pins THEN {Set("intMap0", MapSlow)} ELSE {})
          \cup (IF 2 \in s.pins THEN {Set("intMap2", MapSlow)} ELSE {})
          \cup {Set("intEn2", Axes)}

(* Route writes exactly RouteSet, whatever the configuration.                *)
LEMMA RouteRange ==
  ASSUME NEW s \in SpecType
  PROVE  Route(s) \in Seq(Writes) /\ Range(Route(s)) = RouteSet(s)
<1>1. Update("intMap0", Byte, MapSlope) \in Writes /\ Update("intMap2", Byte, MapSlope) \in Writes
      /\ Set("intMap0", MapSlow) \in Writes /\ Set("intMap2", MapSlow) \in Writes
  BY WriteTypes, Bytes DEF Regs, AccelRegs
<1>2. MapAnyMotionToPins(s.pins) \in Seq(Writes)
      /\ Range(MapAnyMotionToPins(s.pins)) = (IF 1 \in s.pins THEN {Update("intMap0", Byte, MapSlope)} ELSE {})
          \cup (IF 2 \in s.pins THEN {Update("intMap2", Byte, MapSlope)} ELSE {})
  BY <1>1, OnPinsType, Zenon DEF MapAnyMotionToPins
<1>3. MapInterruptToPins(s.pins) \in Seq(Writes)
      /\ Range(MapInterruptToPins(s.pins)) = (IF 1 \in s.pins THEN {Set("intMap0", MapSlow)} ELSE {})
          \cup (IF 2 \in s.pins THEN {Set("intMap2", MapSlow)} ELSE {})
  BY <1>1, OnPinsType, Zenon DEF MapInterruptToPins
<1>4. EnableSlowNoMotionInterrupt \in Seq(Writes) /\ Range(EnableSlowNoMotionInterrupt) = {Set("intEn2", Axes)}
      /\ DisableInterruptMapping \in Seq(Writes)
      /\ Range(DisableInterruptMapping) = {Set("intMap0", {}), Set("intMap2", {})}
  BY CallTypes, TupleRange, Zenon DEF EnableSlowNoMotionInterrupt, DisableInterruptMapping
<1>5. CASE ~s.enable
  BY <1>4, <1>5, Zenon DEF Route, RouteSet
<1>6. CASE s.enable /\ s.mode = "any-motion"
  BY <1>2, <1>6, Zenon DEF Route, RouteSet
<1>7. CASE s.enable /\ s.mode # "any-motion"
  <2>1. Route(s) = MapInterruptToPins(s.pins) \o EnableSlowNoMotionInterrupt
    BY <1>7 DEF Route
  <2>2. Route(s) \in Seq(Writes)
        /\ Range(Route(s)) = Range(MapInterruptToPins(s.pins)) \cup Range(EnableSlowNoMotionInterrupt)
    <3>1. MapInterruptToPins(s.pins) \o EnableSlowNoMotionInterrupt \in Seq(Writes)
          /\ Range(MapInterruptToPins(s.pins) \o EnableSlowNoMotionInterrupt)
               = Range(MapInterruptToPins(s.pins)) \cup Range(EnableSlowNoMotionInterrupt)
      BY <1>3, <1>4, Concat, Zenon
    <3> QED BY <3>1, <2>1, Zenon
  <2> QED BY <2>2, <1>3, <1>4, <1>7 DEF RouteSet
<1> QED BY <1>5, <1>6, <1>7

(* The writes of ConfigureEngine, as a set.                                  *)
EngineSet(s) ==
  IF s.mode = "any-motion"
  THEN {Set("intEn2", {})}
         \cup {Update("motDuration", Byte \ SlopeBits, s.duration \cap SlopeBits),
               Set("slopeThreshold", s.threshold), Set("intEn0", Axes)}
  ELSE {Set("intEn0", {})}
         \cup {Set("slowThreshold", s.threshold),
               Update("motDuration", SlopeBits, ShiftLeft2(s.duration))}

(* ConfigureEngine writes exactly EngineSet.                                 *)
LEMMA EngineRange ==
  ASSUME NEW s \in SpecType
  PROVE  ConfigureEngine(s) \in Seq(Writes) /\ Range(ConfigureEngine(s)) = EngineSet(s)
<1>1. CASE s.mode = "any-motion"
  <2>1. ConfigureEngine(s) = DisableSlowNoMotionInterrupt \o EnableAnyMotionInterrupt(s.threshold, s.duration)
    BY <1>1 DEF ConfigureEngine
  <2>2. Range(DisableSlowNoMotionInterrupt) = {Set("intEn2", {})}
    BY TupleRange, Zenon DEF DisableSlowNoMotionInterrupt
  <2>3. Range(EnableAnyMotionInterrupt(s.threshold, s.duration)) =
          {Update("motDuration", Byte \ SlopeBits, s.duration \cap SlopeBits),
           Set("slopeThreshold", s.threshold), Set("intEn0", Axes)}
    BY DEF EnableAnyMotionInterrupt, Range
  <2>4. ConfigureEngine(s) \in Seq(Writes)
        /\ Range(ConfigureEngine(s)) = Range(DisableSlowNoMotionInterrupt)
              \cup Range(EnableAnyMotionInterrupt(s.threshold, s.duration))
    <3>1. DisableSlowNoMotionInterrupt \in Seq(Writes) /\ EnableAnyMotionInterrupt(s.threshold, s.duration) \in Seq(Writes)
      BY CallTypes, Zenon
    <3>2. DisableSlowNoMotionInterrupt \o EnableAnyMotionInterrupt(s.threshold, s.duration) \in Seq(Writes)
          /\ Range(DisableSlowNoMotionInterrupt \o EnableAnyMotionInterrupt(s.threshold, s.duration))
               = Range(DisableSlowNoMotionInterrupt) \cup Range(EnableAnyMotionInterrupt(s.threshold, s.duration))
      BY <3>1, Concat, Zenon
    <3> QED BY <3>2, <2>1, Zenon
  <2> QED BY <1>1, <2>2, <2>3, <2>4 DEF EngineSet
<1>2. CASE s.mode # "any-motion"
  <2>1. ConfigureEngine(s) = DisableAnyMotionInterrupt \o ConfigureSlowNoMotion(s.threshold, s.duration)
    BY <1>2 DEF ConfigureEngine
  <2>2. Range(DisableAnyMotionInterrupt) = {Set("intEn0", {})}
    BY TupleRange, Zenon DEF DisableAnyMotionInterrupt
  <2>3. Range(ConfigureSlowNoMotion(s.threshold, s.duration)) =
          {Set("slowThreshold", s.threshold), Update("motDuration", SlopeBits, ShiftLeft2(s.duration))}
    BY TupleRange, Zenon DEF ConfigureSlowNoMotion
  <2>4. ConfigureEngine(s) \in Seq(Writes)
        /\ Range(ConfigureEngine(s)) = Range(DisableAnyMotionInterrupt)
              \cup Range(ConfigureSlowNoMotion(s.threshold, s.duration))
    <3>1. DisableAnyMotionInterrupt \in Seq(Writes) /\ ConfigureSlowNoMotion(s.threshold, s.duration) \in Seq(Writes)
      BY CallTypes, Zenon
    <3>2. DisableAnyMotionInterrupt \o ConfigureSlowNoMotion(s.threshold, s.duration) \in Seq(Writes)
          /\ Range(DisableAnyMotionInterrupt \o ConfigureSlowNoMotion(s.threshold, s.duration))
               = Range(DisableAnyMotionInterrupt) \cup Range(ConfigureSlowNoMotion(s.threshold, s.duration))
      BY <3>1, Concat, Zenon
    <3> QED BY <3>2, <2>1, Zenon
  <2> QED BY <1>2, <2>2, <2>3, <2>4 DEF EngineSet
<1> QED BY <1>1, <1>2

(* The writes of ConfigureInterruptPins, as a set.                           *)
PinSet(s) ==
  IF s.pins # PinNone
  THEN {Update("intOut", Byte \ OpenDrain(s.pins), ActiveHigh(s.pins)), Set("intLatch", Latched)}
  ELSE {}

(* All the writes of Apply between the resets and the gates, as a set.       *)
ProgramSet(s) ==
  {Set("gyroLpm", {}), Set("gyroRange", {2}), Set("gyroBw", {1, 2}), Set("bw", s.bandwidth),
   BestEffort("intLatch", Latched)} \cup EngineSet(s) \cup PinSet(s) \cup RouteSet(s)

(* Apply writes exactly ProgramSet of the configuration of its profile.      *)
LEMMA ProgramRange ==
  ASSUME NEW p \in Profiles
  PROVE  Program(p) \in Seq(Writes) /\ Range(Program(p)) = ProgramSet(Configs(p))
<1> DEFINE s == Configs(p)
           a == GyroConfigure
           b == SetBandwidth(s.bandwidth)
           c == ConfigureEngine(s)
           d == IF s.pins # PinNone THEN ConfigureInterruptPins(s.pins) ELSE << >>
           e == ClearLatchedInterrupt
           f == Route(s)
<1>s. s \in SpecType
  BY ConfigsType
<1>1. a \in Seq(Writes) /\ b \in Seq(Writes) /\ c \in Seq(Writes) /\ d \in Seq(Writes)
      /\ e \in Seq(Writes) /\ f \in Seq(Writes)
  BY <1>s, CallTypes, EngineRange, RouteRange, EmptySeq, Zenon
<1>2. /\ Range(a) = {Set("gyroLpm", {}), Set("gyroRange", {2}), Set("gyroBw", {1, 2})}
      /\ Range(b) = {Set("bw", s.bandwidth)}
      /\ Range(e) = {BestEffort("intLatch", Latched)}
  BY TupleRange DEF GyroConfigure, SetBandwidth, ClearLatchedInterrupt
<1>3. Range(d) = PinSet(s)
  BY TupleRange, Zenon DEF PinSet, ConfigureInterruptPins
<1>4. Range(c) = EngineSet(s) /\ Range(f) = RouteSet(s)
  BY <1>s, EngineRange, RouteRange, Zenon
<1>5. Program(p) = a \o b \o c \o d \o e \o e \o f
  BY DEF Program
<1> HIDE DEF a, b, c, d, e, f
<1>6. a \o b \in Seq(Writes) /\ Range(a \o b) = Range(a) \cup Range(b)
  BY <1>1, Concat, Zenon
<1>7. a \o b \o c \in Seq(Writes) /\ Range(a \o b \o c) = Range(a \o b) \cup Range(c)
  BY <1>1, <1>6, Concat, Zenon
<1>8. a \o b \o c \o d \in Seq(Writes) /\ Range(a \o b \o c \o d) = Range(a \o b \o c) \cup Range(d)
  BY <1>1, <1>7, Concat, Zenon
<1>9. /\ a \o b \o c \o d \o e \in Seq(Writes)
      /\ Range(a \o b \o c \o d \o e) = Range(a \o b \o c \o d) \cup Range(e)
  BY <1>1, <1>8, Concat, Zenon
<1>10. /\ a \o b \o c \o d \o e \o e \in Seq(Writes)
       /\ Range(a \o b \o c \o d \o e \o e) = Range(a \o b \o c \o d \o e) \cup Range(e)
  BY <1>1, <1>9, Concat, Zenon
<1>11. /\ a \o b \o c \o d \o e \o e \o f \in Seq(Writes)
       /\ Range(a \o b \o c \o d \o e \o e \o f) = Range(a \o b \o c \o d \o e \o e) \cup Range(f)
  BY <1>1, <1>10, Concat, Zenon
<1>12. Range(Program(p)) = Range(a) \cup Range(b) \cup Range(c) \cup Range(d) \cup Range(e) \cup Range(f)
  BY <1>5, <1>6, <1>7, <1>8, <1>9, <1>10, <1>11
<1>13. Program(p) \in Seq(Writes)
  BY <1>5, <1>11, Zenon
<1> QED BY <1>13, <1>12, <1>2, <1>3, <1>4 DEF ProgramSet

(* The bits a write of register r keeps, for configuration s.                *)
KeepOf(s, r) ==
  IF r = "motDuration" THEN (IF s.mode = "any-motion" THEN Byte \ SlopeBits ELSE SlopeBits)
  ELSE IF r = "intOut" THEN Byte \ OpenDrain(s.pins)
  ELSE IF r \in {"intMap0", "intMap2"} /\ s.enable /\ s.mode = "any-motion" THEN Byte
  ELSE {}

(* The engine bit in the pin maps.                                           *)
MapOf(s) == IF ~s.enable THEN {} ELSE IF s.mode = "any-motion" THEN MapSlope ELSE MapSlow

(* The bits a write of register r sets, for configuration s.                 *)
SetOf(s, r) ==
  IF r = "gyroLpm" THEN {}
  ELSE IF r = "gyroRange" THEN {2}
  ELSE IF r = "gyroBw" THEN {1, 2}
  ELSE IF r = "bw" THEN s.bandwidth
  ELSE IF r \in {"slopeThreshold", "slowThreshold"} THEN s.threshold
  ELSE IF r = "motDuration" THEN (IF s.mode = "any-motion" THEN s.duration \cap SlopeBits ELSE ShiftLeft2(s.duration))
  ELSE IF r = "intEn0" THEN (IF s.mode = "any-motion" THEN Axes ELSE {})
  ELSE IF r = "intEn2" THEN (IF s.mode = "any-motion" THEN {} ELSE Axes)
  ELSE IF r = "intOut" THEN ActiveHigh(s.pins)
  ELSE IF r = "intLatch" THEN Latched
  ELSE MapOf(s)

(* No two writes of one Apply to the same register disagree (KeepOf, SetOf), *)
(* and only a latch clear may fail without ending Apply.                     *)
LEMMA ProgramContents ==
  ASSUME NEW s \in SpecType, NEW w \in ProgramSet(s)
  PROVE  w.keep = KeepOf(s, w.reg) /\ w.set = SetOf(s, w.reg) /\ (w.must \/ w.reg = "intLatch")
<1> USE DEF Set, Update, BestEffort
<1>1. CASE w \in EngineSet(s)
  BY <1>1 DEF EngineSet, KeepOf, SetOf
<1>2. CASE w \in PinSet(s)
  BY <1>2 DEF PinSet, KeepOf, SetOf
<1>3. CASE w \in RouteSet(s)
  <2>1. s.enable \in BOOLEAN
    BY DEF SpecType
  <2>2. CASE ~s.enable
    BY <1>3, <2>2 DEF RouteSet, KeepOf, SetOf, MapOf
  <2>3. CASE s.enable /\ s.mode = "any-motion"
    <3>1. w = Update("intMap0", Byte, MapSlope) \/ w = Update("intMap2", Byte, MapSlope)
      BY <1>3, <2>3, Zenon DEF RouteSet
    <3> QED BY <3>1, <2>3 DEF KeepOf, SetOf, MapOf
  <2>4. CASE s.enable /\ s.mode # "any-motion"
    <3>1. w = Set("intMap0", MapSlow) \/ w = Set("intMap2", MapSlow) \/ w = Set("intEn2", Axes)
      BY <1>3, <2>4, Zenon DEF RouteSet
    <3> QED BY <3>1, <2>4 DEF KeepOf, SetOf, MapOf
  <2> QED BY <2>1, <2>2, <2>3, <2>4
<1>4. CASE w \in {Set("gyroLpm", {}), Set("gyroRange", {2}), Set("gyroBw", {1, 2}), Set("bw", s.bandwidth),
   BestEffort("intLatch", Latched)}
  BY <1>4 DEF KeepOf, SetOf
<1> QED BY <1>1, <1>2, <1>3, <1>4, Zenon DEF ProgramSet

(* A write leaves register contents.                                         *)
LEMMA WrittenType ==
  ASSUME NEW c \in Registers, NEW w \in Writes
  PROVE  Written(c, w) \in Registers
BY DEF Written, Registers, Writes

(* Both resets leave register contents; the accelerometer's leaves blanks.   *)
LEMMA ErasedType ==
  ASSUME NEW c \in Registers
  PROVE  /\ AccelErased(c) \in Registers /\ GyroErased(c) \in Registers
         /\ \A r \in Blanks : AccelErased(c)[r] = {} /\ GyroErased(c)[r] = c[r]
<1>1. \A r : ResetValue(r) \in SUBSET Byte
  BY DEF ResetValue, Byte
<1> QED BY <1>1 DEF AccelErased, GyroErased, Registers, Blanks, Regs, AccelRegs, GyroRegs, ResetValue

(* A write changes its own register and no other.                            *)
LEMMA WrittenAt ==
  ASSUME NEW c \in Registers, NEW w \in Writes
  PROVE  /\ Written(c, w)[w.reg] = (c[w.reg] \cap w.keep) \cup w.set
         /\ \A r \in Regs : r # w.reg => Written(c, w)[r] = c[r]
BY DEF Written, Registers, Writes

(* A write that went through stands.                                         *)
LEMMA WrittenDone ==
  ASSUME NEW c \in Registers, NEW w \in Writes
  PROVE  Done(Written(c, w), w)
BY WrittenAt DEF Done

(* A write that stands is not undone by one that agrees with it or that is   *)
(* to another register.                                                      *)
LEMMA DoneStays ==
  ASSUME NEW c \in Registers, NEW v \in Writes, NEW w \in Writes, Done(c, v),
         v.reg = w.reg => v.keep = w.keep /\ v.set = w.set
  PROVE  Done(Written(c, w), v)
<1>1. CASE v.reg = w.reg
  BY <1>1, WrittenAt DEF Done
<1>2. CASE v.reg # w.reg
  <2>1. v.reg \in Regs
    BY DEF Writes
  <2> QED BY <1>2, <2>1, WrittenAt DEF Done
<1> QED BY <1>1, <1>2

(* Writing to a register that is blank or written so already leaves exactly  *)
(* the bits of the write, although MapAnyMotionToPins keeps the old ones.    *)
LEMMA BlankWritten ==
  ASSUME NEW c \in Registers, NEW w \in Writes, c[w.reg] = {} \/ c[w.reg] = w.set
  PROVE  Written(c, w)[w.reg] = w.set
<1>1. Written(c, w)[w.reg] = (c[w.reg] \cap w.keep) \cup w.set
  BY WrittenAt
<1>2. \A k, v : ({} \cap k) \cup v = v /\ (v \cap k) \cup v = v
  OBVIOUS
<1>3. CASE c[w.reg] = {}
  BY <1>1, <1>2, <1>3, Zenon
<1>4. CASE c[w.reg] = w.set
  BY <1>1, <1>2, <1>4, Zenon
<1> QED BY <1>3, <1>4

(* A pin map is written only for a pin of the profile, and the slow-motion   *)
(* enable only by a profile that uses or switches off that engine.           *)
LEMMA RoutedRegs ==
  ASSUME NEW s \in SpecType, NEW w \in ProgramSet(s)
  PROVE  /\ w.reg = "intMap0" /\ s.enable => 1 \in s.pins
         /\ w.reg = "intMap2" /\ s.enable => 2 \in s.pins
         /\ w.reg = "intEn2" => s.mode = "any-motion" \/ s.enable
<1> USE DEF Set, Update, BestEffort
<1>1. CASE w \in EngineSet(s)
  BY <1>1 DEF EngineSet
<1>2. CASE w \in PinSet(s)
  BY <1>2 DEF PinSet
<1>3. CASE w \in RouteSet(s)
  <2>1. s.enable \in BOOLEAN
    BY DEF SpecType
  <2>2. CASE ~s.enable
    BY <1>3, <2>2 DEF RouteSet
  <2>3. CASE s.enable /\ s.mode = "any-motion"
    <3>1. \/ w = Update("intMap0", Byte, MapSlope) /\ 1 \in s.pins
          \/ w = Update("intMap2", Byte, MapSlope) /\ 2 \in s.pins
      BY <1>3, <2>3, Zenon DEF RouteSet
    <3> QED BY <3>1, <2>3
  <2>4. CASE s.enable /\ s.mode # "any-motion"
    <3>1. \/ w = Set("intMap0", MapSlow) /\ 1 \in s.pins
          \/ w = Set("intMap2", MapSlow) /\ 2 \in s.pins
          \/ w = Set("intEn2", Axes)
      BY <1>3, <2>4, Zenon DEF RouteSet
    <3> QED BY <3>1, <2>4
  <2> QED BY <2>1, <2>2, <2>3, <2>4
<1>4. CASE w \in {Set("gyroLpm", {}), Set("gyroRange", {2}), Set("gyroBw", {1, 2}), Set("bw", s.bandwidth),
   BestEffort("intLatch", Latched)}
  BY <1>4
<1> QED BY <1>1, <1>2, <1>3, <1>4, Zenon DEF ProgramSet

(* What the five configurations have in common (Configs).                    *)
LEMMA ConfigsFacts ==
  ASSUME NEW p \in Profiles
  PROVE  LET s == Configs(p)
         IN /\ s.enable <=> p # "idle"
            /\ s.enable <=> s.pins # {}
            /\ s.mode = "any-motion" => s.enable /\ s.duration \cap SlopeBits = s.duration
            /\ ShiftLeft2(s.duration) \cap SlopeBits = {}
            /\ PinNone = {}
BY DEF Configs, Profiles, PinNone, PinINT1, PinBoth, SlopeBits, ShiftLeft2, Byte

(* When every write stands and the blanks hold nothing else, the chip is what *)
(* the profile promises.                                                     *)
LEMMA FinalReady ==
  ASSUME NEW p \in Profiles, NEW c \in Registers,
         \A w \in ProgramSet(Configs(p)) : w.must => Done(c, w),
         \A r \in Blanks : \/ c[r] = {}
                           \/ \E w \in ProgramSet(Configs(p)) : w.reg = r /\ c[r] = w.set
  PROVE  Ready(c, p)
<1> DEFINE s == Configs(p)
<1>s. s \in SpecType
  BY ConfigsType
<1>f. /\ s.enable \in BOOLEAN
      /\ s.enable <=> s.pins # {}
      /\ s.mode = "any-motion" => s.enable /\ s.duration \cap SlopeBits = s.duration
      /\ ShiftLeft2(s.duration) \cap SlopeBits = {}
      /\ PinNone = {}
  BY <1>s, ConfigsFacts DEF SpecType
<1>r. \A r \in Regs : c[r] \in SUBSET Byte
  BY DEF Registers
<1>d. \A w \in ProgramSet(s) : w.must => Done(c, w)
  OBVIOUS
<1>b. \A r \in Blanks : c[r] = {} \/ \E w \in ProgramSet(s) : w.reg = r /\ c[r] = w.set
  OBVIOUS
<1> HIDE DEF s
<1>x. \A r, v : Set(r, v) \in ProgramSet(s) => c[r] = v
  BY <1>d DEF Set, Done
<1>1. c["bw"] = s.bandwidth /\ c["gyroRange"] = {2} /\ c["gyroBw"] = {1, 2}
  <2>1. Set("bw", s.bandwidth) \in ProgramSet(s) /\ Set("gyroRange", {2}) \in ProgramSet(s)
        /\ Set("gyroBw", {1, 2}) \in ProgramSet(s)
    BY Zenon DEF ProgramSet
  <2> QED BY <2>1, <1>x, Zenon
<1>2. EngineReady(c, s)
  <2>1. CASE s.mode = "any-motion"
    <3>1. /\ Set("intEn2", {}) \in ProgramSet(s) /\ Set("intEn0", Axes) \in ProgramSet(s)
          /\ Set("slopeThreshold", s.threshold) \in ProgramSet(s)
          /\ Update("motDuration", Byte \ SlopeBits, s.duration \cap SlopeBits) \in ProgramSet(s)
      BY <2>1, Zenon DEF ProgramSet, EngineSet
    <3>2. c["intEn2"] = {} /\ c["intEn0"] = Axes /\ c["slopeThreshold"] = s.threshold
      BY <3>1, <1>x, Zenon
    <3>3. s.duration \cap SlopeBits \subseteq c["motDuration"]
          /\ c["motDuration"] \ (Byte \ SlopeBits) \subseteq s.duration \cap SlopeBits
      BY <3>1, <1>d DEF Update, Done
    <3>4. SlopeBits \subseteq Byte
      BY DEF SlopeBits, Byte
    <3>5. c["motDuration"] \cap SlopeBits = s.duration
      BY <3>3, <3>4, <2>1, <1>f
    <3> QED BY <2>1, <3>2, <3>5 DEF EngineReady
  <2>2. CASE s.mode # "any-motion"
    <3>1. /\ Set("intEn0", {}) \in ProgramSet(s) /\ Set("slowThreshold", s.threshold) \in ProgramSet(s)
          /\ Update("motDuration", SlopeBits, ShiftLeft2(s.duration)) \in ProgramSet(s)
      BY <2>2, Zenon DEF ProgramSet, EngineSet
    <3>2. c["intEn0"] = {} /\ c["slowThreshold"] = s.threshold
      BY <3>1, <1>x, Zenon
    <3>3. ShiftLeft2(s.duration) \subseteq c["motDuration"]
          /\ c["motDuration"] \ SlopeBits \subseteq ShiftLeft2(s.duration)
      BY <3>1, <1>d DEF Update, Done
    <3>4. c["motDuration"] \ SlopeBits = ShiftLeft2(s.duration)
      BY <3>3, <1>f
    <3>5. CASE s.enable
      <4>1. Set("intEn2", Axes) \in ProgramSet(s)
        BY <3>5, <2>2, Zenon DEF ProgramSet, RouteSet
      <4>2. c["intEn2"] = Axes
        BY <4>1, <1>x, Zenon
      <4> QED BY <2>2, <3>2, <3>4, <3>5, <4>2 DEF EngineReady
    <3>6. CASE ~s.enable
      <4>1. \A w \in ProgramSet(s) : w.reg # "intEn2"
        BY <1>s, <2>2, <3>6, RoutedRegs
      <4>2. c["intEn2"] = {}
        BY <4>1, <1>b DEF Blanks
      <4> QED BY <2>2, <3>2, <3>4, <3>6, <4>2 DEF EngineReady
    <3> QED BY <1>f, <3>5, <3>6
  <2> QED BY <2>1, <2>2
<1>3. RoutingReady(c, s)
  <2> DEFINE engine == IF s.mode = "any-motion" THEN MapSlope ELSE MapSlow
  <2>1. \A w \in ProgramSet(s) : w.reg \in {"intMap0", "intMap2"} => w.set = MapOf(s)
    BY <1>s, ProgramContents DEF SetOf
  <2>2. c["intMap0"] \in {{}, MapOf(s)} /\ c["intMap2"] \in {{}, MapOf(s)}
    BY <2>1, <1>b DEF Blanks
  <2>3. CASE ~s.enable
    <3>1. c["intMap0"] = {} /\ c["intMap2"] = {}
      BY <2>2, <2>3 DEF MapOf
    <3>2. s.pins = {}
      BY <1>f, <2>3
    <3> QED BY <2>3, <3>1, <3>2 DEF RoutingReady, ActiveHigh, OpenDrain
  <2>4. CASE s.enable
    <3>1. MapOf(s) = engine
      BY <2>4 DEF MapOf
    <3>2. c["intMap0"] = (IF 1 \in s.pins THEN engine ELSE {})
      <4>1. CASE 1 \in s.pins
        <5>1. Update("intMap0", Byte, MapSlope) \in ProgramSet(s) \/ Set("intMap0", MapSlow) \in ProgramSet(s)
          BY <4>1, <2>4, Zenon DEF ProgramSet, RouteSet
        <5>2. MapSlope \subseteq c["intMap0"] \/ MapSlow \subseteq c["intMap0"]
          BY <5>1, <1>d DEF Update, Set, Done
        <5>3. c["intMap0"] # {}
          BY <5>2 DEF MapSlope, MapSlow
        <5> QED BY <5>3, <2>2, <3>1, <4>1
      <4>2. CASE 1 \notin s.pins
        <5>1. \A w \in ProgramSet(s) : w.reg # "intMap0"
          BY <1>s, <2>4, <4>2, RoutedRegs
        <5>2. c["intMap0"] = {}
          BY <5>1, <1>b DEF Blanks
        <5> QED BY <4>2, <5>2
      <4> QED BY <4>1, <4>2
    <3>3. c["intMap2"] = (IF 2 \in s.pins THEN engine ELSE {})
      <4>1. CASE 2 \in s.pins
        <5>1. Update("intMap2", Byte, MapSlope) \in ProgramSet(s) \/ Set("intMap2", MapSlow) \in ProgramSet(s)
          BY <4>1, <2>4, Zenon DEF ProgramSet, RouteSet
        <5>2. MapSlope \subseteq c["intMap2"] \/ MapSlow \subseteq c["intMap2"]
          BY <5>1, <1>d DEF Update, Set, Done
        <5>3. c["intMap2"] # {}
          BY <5>2 DEF MapSlope, MapSlow
        <5> QED BY <5>3, <2>2, <3>1, <4>1
      <4>2. CASE 2 \notin s.pins
        <5>1. \A w \in ProgramSet(s) : w.reg # "intMap2"
          BY <1>s, <2>4, <4>2, RoutedRegs
        <5>2. c["intMap2"] = {}
          BY <5>1, <1>b DEF Blanks
        <5> QED BY <4>2, <5>2
      <4> QED BY <4>1, <4>2
    <3>4. /\ Update("intOut", Byte \ OpenDrain(s.pins), ActiveHigh(s.pins)) \in ProgramSet(s)
          /\ Set("intLatch", Latched) \in ProgramSet(s)
      BY <2>4, <1>f, Zenon DEF ProgramSet, PinSet
    <3>5. ActiveHigh(s.pins) \subseteq c["intOut"]
          /\ c["intOut"] \ (Byte \ OpenDrain(s.pins)) \subseteq ActiveHigh(s.pins)
      BY <3>4, <1>d DEF Update, Done
    <3>6. OpenDrain(s.pins) \cap ActiveHigh(s.pins) = {}
      BY DEF OpenDrain, ActiveHigh
    <3>7. OpenDrain(s.pins) \cap c["intOut"] = {}
      BY <3>5, <3>6
    <3>8. c["intLatch"] = Latched
      BY <3>4, <1>x, Zenon
    <3> QED BY <2>4, <3>2, <3>3, <3>5, <3>7, <3>8 DEF RoutingReady
  <2> QED BY <1>f, <2>3, <2>4
<1> QED BY <1>1, <1>2, <1>3 DEF Ready, s

(* Program(p) as a sequence.                                                 *)
LEMMA ProgramType ==
  ASSUME NEW p \in Profiles
  PROVE  /\ Program(p) \in Seq(Writes)
         /\ Len(Program(p)) \in Nat
         /\ DOMAIN Program(p) = 1 .. Len(Program(p))
         /\ \A i \in 1 .. Len(Program(p)) : Program(p)[i] \in Writes /\ Program(p)[i] \in ProgramSet(Configs(p))
<1>1. Program(p) \in Seq(Writes) /\ Range(Program(p)) = ProgramSet(Configs(p))
  BY ProgramRange
<1>2. Len(Program(p)) \in Nat /\ DOMAIN Program(p) = 1 .. Len(Program(p))
  BY <1>1, LenProperties
<1>3. \A i \in 1 .. Len(Program(p)) : Program(p)[i] \in Writes
  BY <1>1, ElementOfSeq
<1>4. \A i \in 1 .. Len(Program(p)) : Program(p)[i] \in Range(Program(p))
  BY <1>2, Zenon DEF Range
<1> QED BY <1>1, <1>2, <1>3, <1>4

(* The write of ClearLatchedInterrupt.                                       *)
LEMMA ClearType == ClearLatchedInterrupt[1] = BestEffort("intLatch", Latched) /\ ClearLatchedInterrupt[1] \in Writes
BY WriteTypes, Bytes DEF ClearLatchedInterrupt, Regs, AccelRegs

(* Before the first write nothing needs to stand but the blanks.             *)
LEMMA StandingStart ==
  ASSUME NEW c, NEW prog, \A r \in Blanks : c[r] = {}
  PROVE  Standing(c, prog, 1)
<1>1. 1 .. 1 - 1 = {}
  OBVIOUS
<1> QED BY <1>1, Zenon DEF Standing

(* A write that agrees with those before it leaves them standing.            *)
LEMMA StandingSame ==
  ASSUME NEW p \in Profiles, NEW c \in Registers, NEW n \in 1 .. Len(Program(p)) + 1,
         Standing(c, Program(p), n), NEW w \in Writes,
         \A i \in 1 .. n - 1 : Program(p)[i].reg = w.reg => Program(p)[i].keep = w.keep /\ Program(p)[i].set = w.set,
         w.reg \in Blanks => \E i \in 1 .. n - 1 : Program(p)[i] = w
  PROVE  Standing(Written(c, w), Program(p), n)
<1>t. \A i \in 1 .. n - 1 : i \in 1 .. Len(Program(p)) /\ Program(p)[i] \in Writes
  BY ProgramType
<1>1. ASSUME NEW i \in 1 .. n - 1, Program(p)[i].must
      PROVE  Done(Written(c, w), Program(p)[i])
  <2>1. Done(c, Program(p)[i])
    BY <1>1 DEF Standing
  <2> QED BY <1>t, <2>1, DoneStays
<1>2. ASSUME NEW r \in Blanks
      PROVE  Written(c, w)[r] = {} \/ \E i \in 1 .. n - 1 : Program(p)[i].reg = r /\ Written(c, w)[r] = Program(p)[i].set
  <2>1. c[r] = {} \/ \E i \in 1 .. n - 1 : Program(p)[i].reg = r /\ c[r] = Program(p)[i].set
    BY DEF Standing
  <2>2. CASE r # w.reg
    <3>1. Written(c, w)[r] = c[r]
      BY <2>2, WrittenAt DEF Blanks, Regs, AccelRegs
    <3> QED BY <2>1, <3>1
  <2>3. CASE r = w.reg
    <3>1. c[w.reg] = {} \/ c[w.reg] = w.set
      BY <2>1, <2>3
    <3>2. Written(c, w)[w.reg] = w.set
      BY <3>1, BlankWritten
    <3> QED BY <2>3, <3>2
  <2> QED BY <2>2, <2>3
<1> QED BY <1>1, <1>2 DEF Standing

(* A latch clear from outside Apply leaves Apply's writes standing.          *)
LEMMA StandingClear ==
  ASSUME NEW p \in Profiles, NEW c \in Registers, NEW n \in 1 .. Len(Program(p)) + 1,
         Standing(c, Program(p), n)
  PROVE  Standing(Written(c, ClearLatchedInterrupt[1]), Program(p), n)
<1> DEFINE w == ClearLatchedInterrupt[1]
<1>1. w \in Writes /\ w.reg = "intLatch" /\ w.keep = {} /\ w.set = Latched
  BY ClearType DEF BestEffort
<1> HIDE DEF w
<1>2. \A i \in 1 .. n - 1 : Program(p)[i] \in ProgramSet(Configs(p))
  BY ProgramType
<1>3. \A i \in 1 .. n - 1 : Program(p)[i].reg = w.reg => Program(p)[i].keep = w.keep /\ Program(p)[i].set = w.set
  BY <1>1, <1>2, ConfigsType, ProgramContents DEF KeepOf, SetOf
<1>4. w.reg \notin Blanks
  BY <1>1 DEF Blanks
<1>5. Standing(Written(c, w), Program(p), n)
  BY <1>1, <1>3, <1>4, StandingSame
<1> QED BY <1>5 DEF w

(* The next write of Apply, or a latch clear that failed, extends what stands. *)
LEMMA StandingWrite ==
  ASSUME NEW p \in Profiles, NEW c \in Registers, NEW n \in 1 .. Len(Program(p)),
         Standing(c, Program(p), n), NEW d,
         \/ d = Written(c, Program(p)[n])
         \/ d = c /\ ~Program(p)[n].must
  PROVE  Standing(d, Program(p), n + 1)
<1> DEFINE w == Program(p)[n]
<1>t. /\ w \in Writes /\ w \in ProgramSet(Configs(p))
      /\ \A i \in 1 .. n : Program(p)[i] \in Writes /\ Program(p)[i] \in ProgramSet(Configs(p))
  BY ProgramType
<1>n. n \in Nat /\ 1 .. (n + 1) - 1 = 1 .. n /\ 1 .. n = (1 .. n - 1) \cup {n}
  BY ProgramType
<1>same. \A i \in 1 .. n : Program(p)[i].reg = w.reg => Program(p)[i].keep = w.keep /\ Program(p)[i].set = w.set
  BY <1>t, ConfigsType, ProgramContents
<1>1. ASSUME NEW i \in 1 .. n, Program(p)[i].must
      PROVE  Done(d, Program(p)[i])
  <2>1. CASE i = n
    BY <1>1, <2>1, <1>t, WrittenDone
  <2>2. CASE i # n
    <3>1. Done(c, Program(p)[i])
      BY <1>1, <1>n, <2>2 DEF Standing
    <3>2. Program(p)[i] \in Writes
      BY <1>t
    <3>3. Done(Written(c, w), Program(p)[i])
      <4> HIDE DEF w
      <4> QED BY <1>t, <1>same, <3>1, <3>2, DoneStays
    <3> QED BY <3>1, <3>3
  <2> QED BY <2>1, <2>2
<1>2. ASSUME NEW r \in Blanks
      PROVE  d[r] = {} \/ \E i \in 1 .. n : Program(p)[i].reg = r /\ d[r] = Program(p)[i].set
  <2>1. c[r] = {} \/ \E i \in 1 .. n - 1 : Program(p)[i].reg = r /\ c[r] = Program(p)[i].set
    BY DEF Standing
  <2>2. CASE d = c
    BY <2>1, <2>2, <1>n
  <2>3. CASE d = Written(c, w) /\ r # w.reg
    <3>1. d[r] = c[r]
      <4> HIDE DEF w
      <4> QED BY <1>t, <2>3, WrittenAt DEF Blanks, Regs, AccelRegs
    <3> QED BY <2>1, <3>1, <1>n
  <2>4. CASE d = Written(c, w) /\ r = w.reg
    <3>1. c[w.reg] = {} \/ c[w.reg] = w.set
      BY <2>1, <2>4, <1>same, <1>n
    <3>2. Written(c, w)[w.reg] = w.set
      <4> HIDE DEF w
      <4> QED BY <1>t, <3>1, BlankWritten
    <3>3. n \in 1 .. n /\ Program(p)[n].reg = r /\ d[r] = Program(p)[n].set
      BY <2>4, <3>2, <1>n
    <3> QED BY <3>3
  <2> QED BY <2>2, <2>3, <2>4
<1> QED BY <1>1, <1>2, <1>n DEF Standing

(* A complete program leaves the chip as its profile promises.             *)
THEOREM ProgramReady ==
  ASSUME NEW p \in Profiles, NEW c \in Registers, Standing(c, Program(p), Len(Program(p)) + 1)
  PROVE  Ready(c, p)
<1> DEFINE n == Len(Program(p))
<1>1. n \in Nat /\ DOMAIN Program(p) = 1 .. n /\ 1 .. (n + 1) - 1 = 1 .. n
  BY ProgramType
<1>2. ProgramSet(Configs(p)) = {Program(p)[i] : i \in 1 .. n}
  BY <1>1, ProgramRange DEF Range
<1> HIDE DEF n
<1>3. \A i \in 1 .. n : Program(p)[i].must => Done(c, Program(p)[i])
  BY <1>1 DEF Standing, n
<1>4. \A r \in Blanks : c[r] = {} \/ \E i \in 1 .. n : Program(p)[i].reg = r /\ c[r] = Program(p)[i].set
  BY <1>1 DEF Standing, n
<1>5. \A w \in ProgramSet(Configs(p)) : w.must => Done(c, w)
  BY <1>2, <1>3
<1>6. \A r \in Blanks : c[r] = {} \/ \E w \in ProgramSet(Configs(p)) : w.reg = r /\ c[r] = w.set
  BY <1>2, <1>4
<1> QED BY <1>5, <1>6, FinalReady

(* Clearing the latch out of turn costs a profile nothing.                 *)
LEMMA ReadyClear ==
  ASSUME NEW p \in Profiles, NEW c \in Registers, Ready(c, p)
  PROVE  Ready(Written(c, ClearLatchedInterrupt[1]), p)
<1> DEFINE d == Written(c, ClearLatchedInterrupt[1])
<1>1. \A r \in Regs : r # "intLatch" => d[r] = c[r]
  BY ClearType, WrittenAt DEF BestEffort
<1>2. d["intLatch"] = Latched
  <2> DEFINE w == ClearLatchedInterrupt[1]
  <2>1. w \in Writes /\ w.reg = "intLatch" /\ w.keep = {} /\ w.set = Latched
    BY ClearType DEF BestEffort
  <2> HIDE DEF w
  <2>2. Written(c, w)["intLatch"] = (c["intLatch"] \cap w.keep) \cup w.set
    BY <2>1, WrittenAt DEF Regs, AccelRegs
  <2>3. Written(c, w)["intLatch"] = Latched
    BY <2>1, <2>2
  <2> QED BY <2>3 DEF w
<1> HIDE DEF d
<1>3. /\ d["bw"] = c["bw"] /\ d["gyroRange"] = c["gyroRange"] /\ d["gyroBw"] = c["gyroBw"]
      /\ d["slopeThreshold"] = c["slopeThreshold"] /\ d["slowThreshold"] = c["slowThreshold"]
      /\ d["motDuration"] = c["motDuration"] /\ d["intEn0"] = c["intEn0"] /\ d["intEn2"] = c["intEn2"]
      /\ d["intMap0"] = c["intMap0"] /\ d["intMap2"] = c["intMap2"] /\ d["intOut"] = c["intOut"]
  BY <1>1 DEF Regs, AccelRegs, GyroRegs
<1>4. Ready(d, p)
  BY <1>2, <1>3 DEF Ready, EngineReady, RoutingReady
<1> QED BY <1>4 DEF d
===========================================================================
