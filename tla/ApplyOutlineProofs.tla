------------------------ MODULE ApplyOutlineProofs ------------------------
(***************************************************************************)
(* ProfileController implements ApplyOutline, for every set of callers and *)
(* whatever fails, crashes or is requested, so that what is shown of       *)
(* InterruptPath, which is built from the outline, holds for the Apply     *)
(* that writes every register.  The proof says for each bus write of a     *)
(* program in which phase it is made and what it can do there (WriteAt),   *)
(* and which engines and maps are empty in each phase (OutlineInv).        *)
(***************************************************************************)
EXTENDS ProfileControllerProofs

Maps        == {"intMap0", "intMap2"}
EngineRegs  == {"intEn0", "intEn2"}

(* What a write may do: leave the engines and the maps empty ...            *)
Quiet(w) ==
  /\ w.must /\ w.reg \notin Maps
  /\ w.reg \in EngineRegs => w.keep = {} /\ w.set = {}

(* ... end the configuration of the engine ...                              *)
Starts(s, w) ==
  IF s.mode = "any-motion" THEN w = Set("intEn0", Axes)
                           ELSE w.must /\ w.reg \notin Maps \cup EngineRegs

(* ... prepare the pins ...                                                 *)
Settles(w) == w.reg \in {"intOut", "intLatch"}

(* ... or map an engine, or none.                                           *)
Routes(s, w) ==
  /\ w.must /\ w.reg \in Maps
  /\ IF s.enable THEN w.set # {} ELSE w.keep = {} /\ w.set = {}

SlowArmed(s) == s.enable /\ s.mode # "any-motion"

-----------------------------------------------------------------------------
(* The elements of one driver call after another.                            *)
LEMMA ConcatAt ==
  ASSUME NEW s \in Seq(Writes), NEW t \in Seq(Writes)
  PROVE  /\ s \o t \in Seq(Writes)
         /\ Len(s) \in Nat /\ Len(t) \in Nat /\ Len(s \o t) = Len(s) + Len(t)
         /\ \A i \in 1 .. Len(s) : (s \o t)[i] = s[i]
         /\ \A i \in Len(s) + 1 .. Len(s) + Len(t) : (s \o t)[i] = t[i - Len(s)]
<1>1. Len(s) \in Nat /\ Len(t) \in Nat
  BY LenProperties
<1>2. s \o t \in Seq(Writes) /\ Len(s \o t) = Len(s) + Len(t)
      /\ \A i \in 1 .. Len(s) + Len(t) : (s \o t)[i] = IF i <= Len(s) THEN s[i] ELSE t[i - Len(s)]
  BY ConcatProperties
<1> QED BY <1>1, <1>2

(* ConfigureEngine stops both engines before its last write starts one.      *)
LEMMA EngineShape ==
  ASSUME NEW s \in SpecType
  PROVE  /\ Len(ConfigureEngine(s)) \in Nat \ {0}
         /\ \A i \in 1 .. Len(ConfigureEngine(s)) - 1 : Quiet(ConfigureEngine(s)[i])
         /\ Starts(s, ConfigureEngine(s)[Len(ConfigureEngine(s))])
<1> USE DEF Set, Update, Quiet, Starts, Maps, EngineRegs
<1>1. CASE s.mode = "any-motion"
  <2> DEFINE a == DisableSlowNoMotionInterrupt
             b == EnableAnyMotionInterrupt(s.threshold, s.duration)
  <2>1. a \in Seq(Writes) /\ b \in Seq(Writes) /\ ConfigureEngine(s) = a \o b
    BY <1>1, CallTypes DEF ConfigureEngine
  <2>2. Len(a) = 1 /\ Quiet(a[1])
    BY DEF DisableSlowNoMotionInterrupt
  <2>3. Len(b) = 3 /\ Quiet(b[1]) /\ Quiet(b[2]) /\ b[3] = Set("intEn0", Axes)
    BY DEF EnableAnyMotionInterrupt
  <2> HIDE DEF a, b, Set, Quiet
  <2>4. Len(a \o b) = 4 /\ (a \o b)[1] = a[1] /\ \A i \in 2 .. 4 : (a \o b)[i] = b[i - 1]
    <3>1. /\ Len(a \o b) = Len(a) + Len(b)
          /\ \A i \in 1 .. Len(a) : (a \o b)[i] = a[i]
          /\ \A i \in Len(a) + 1 .. Len(a) + Len(b) : (a \o b)[i] = b[i - Len(a)]
      BY <2>1, ConcatAt
    <3> QED BY <2>2, <2>3, <3>1
  <2> QED BY <1>1, <2>1, <2>2, <2>3, <2>4
<1>2. CASE s.mode # "any-motion"
  <2> DEFINE a == DisableAnyMotionInterrupt
             b == ConfigureSlowNoMotion(s.threshold, s.duration)
  <2>1. a \in Seq(Writes) /\ b \in Seq(Writes) /\ ConfigureEngine(s) = a \o b
    BY <1>2, CallTypes DEF ConfigureEngine
  <2>2. Len(a) = 1 /\ Quiet(a[1])
    BY DEF DisableAnyMotionInterrupt
  <2>3. Len(b) = 2 /\ Quiet(b[1]) /\ b[2].must /\ b[2].reg \notin Maps \cup EngineRegs
    BY DEF ConfigureSlowNoMotion
  <2> HIDE DEF a, b, Set, Quiet
  <2>4. Len(a \o b) = 3 /\ (a \o b)[1] = a[1] /\ \A i \in 2 .. 3 : (a \o b)[i] = b[i - 1]
    <3>1. /\ Len(a \o b) = Len(a) + Len(b)
          /\ \A i \in 1 .. Len(a) : (a \o b)[i] = a[i]
          /\ \A i \in Len(a) + 1 .. Len(a) + Len(b) : (a \o b)[i] = b[i - Len(a)]
      BY <2>1, ConcatAt
    <3> QED BY <2>2, <2>3, <3>1
  <2> QED BY <1>2, <2>1, <2>2, <2>3, <2>4
<1> QED BY <1>1, <1>2

(* A call that maps pins makes one write for each.                           *)
LEMMA PinsShape ==
  ASSUME NEW pins, pins # {}, pins \subseteq {1, 2}, NEW v \in Writes, NEW w \in Writes
  PROVE  /\ OnPins(pins, v, w) \in Seq(Writes)
         /\ Len(OnPins(pins, v, w)) \in {1, 2}
         /\ \A i \in 1 .. Len(OnPins(pins, v, w)) : OnPins(pins, v, w)[i] \in {v, w}
<1> DEFINE a == IF 1 \in pins THEN << v >> ELSE << >>
           b == IF 2 \in pins THEN << w >> ELSE << >>
<1>1. a \in Seq(Writes) /\ b \in Seq(Writes)
  OBVIOUS
<1>2. Len(a) = (IF 1 \in pins THEN 1 ELSE 0) /\ Len(b) = (IF 2 \in pins THEN 1 ELSE 0)
  OBVIOUS
<1>3. (Len(a) = 1 => a[1] = v) /\ (Len(b) = 1 => b[1] = w)
  OBVIOUS
<1>4. OnPins(pins, v, w) = a \o b
  BY DEF OnPins
<1> HIDE DEF a, b
<1>5. a \o b \in Seq(Writes) /\ Len(a \o b) = Len(a) + Len(b)
  BY <1>1, ConcatAt
<1>6. \A i \in 1 .. Len(a \o b) : (a \o b)[i] \in {v, w}
  BY <1>1, <1>2, <1>3, <1>5, ConcatAt
<1>7. Len(a \o b) \in {1, 2}
  <2>1. 1 \in pins \/ 2 \in pins
    OBVIOUS
  <2> QED BY <2>1, <1>2, <1>5
<1> QED BY <1>4, <1>5, <1>6, <1>7

(* Route maps the engine before a slow-motion engine is enabled.             *)
LEMMA RouteShape ==
  ASSUME NEW s \in SpecType, s.enable => s.pins # {}
  PROVE  LET r == Route(s)
         IN /\ Len(r) \in {1, 2, 3} /\ (SlowArmed(s) => Len(r) # 1)
            /\ \A i \in 1 .. Len(r) : (SlowArmed(s) /\ i = Len(r)) \/ Routes(s, r[i])
            /\ SlowArmed(s) => r[Len(r)] = Set("intEn2", Axes)
<1>s. s.enable \in BOOLEAN /\ s.pins \subseteq {1, 2}
  BY DEF SpecType
<1>w. Update("intMap0", Byte, MapSlope) \in Writes /\ Update("intMap2", Byte, MapSlope) \in Writes
      /\ Set("intMap0", MapSlow) \in Writes /\ Set("intMap2", MapSlow) \in Writes
  BY WriteTypes, Bytes DEF Regs, AccelRegs
<1>m. MapSlope # {} /\ MapSlow # {}
  BY DEF MapSlope, MapSlow
<1>1. CASE ~s.enable
  <2>1. Route(s) = DisableInterruptMapping /\ ~SlowArmed(s)
    BY <1>1 DEF Route, SlowArmed
  <2>2. Len(DisableInterruptMapping) = 2
        /\ DisableInterruptMapping[1] = Set("intMap0", {}) /\ DisableInterruptMapping[2] = Set("intMap2", {})
    BY DEF DisableInterruptMapping
  <2>3. Routes(s, Set("intMap0", {})) /\ Routes(s, Set("intMap2", {}))
    BY <1>1 DEF Routes, Set, Maps
  <2> QED BY <2>1, <2>2, <2>3
<1>2. CASE s.enable /\ s.mode = "any-motion"
  <2> DEFINE v == Update("intMap0", Byte, MapSlope)
             w == Update("intMap2", Byte, MapSlope)
  <2>1. Route(s) = OnPins(s.pins, v, w) /\ ~SlowArmed(s)
    BY <1>2 DEF Route, SlowArmed, MapAnyMotionToPins
  <2>2. Routes(s, v) /\ Routes(s, w)
    BY <1>m, <1>2 DEF Routes, Update, Maps
  <2>3. v \in Writes /\ w \in Writes
    BY <1>w
  <2> HIDE DEF v, w
  <2>4. Len(OnPins(s.pins, v, w)) \in {1, 2}
        /\ \A i \in 1 .. Len(OnPins(s.pins, v, w)) : OnPins(s.pins, v, w)[i] \in {v, w}
    BY <1>s, <1>2, <2>3, PinsShape
  <2> QED BY <2>1, <2>2, <2>4
<1>3. CASE s.enable /\ s.mode # "any-motion"
  <2> DEFINE v == Set("intMap0", MapSlow)
             w == Set("intMap2", MapSlow)
             a == OnPins(s.pins, v, w)
             b == EnableSlowNoMotionInterrupt
  <2>1. Route(s) = a \o b /\ SlowArmed(s)
    BY <1>3 DEF Route, SlowArmed, MapInterruptToPins
  <2>2. Routes(s, v) /\ Routes(s, w)
    BY <1>m, <1>3 DEF Routes, Set, Maps
  <2>3. v \in Writes /\ w \in Writes
    BY <1>w
  <2>4. b \in Seq(Writes) /\ Len(b) = 1 /\ b[1] = Set("intEn2", Axes)
    BY CallTypes DEF EnableSlowNoMotionInterrupt
  <2> HIDE DEF v, w, b
  <2>5. a \in Seq(Writes) /\ Len(a) \in {1, 2} /\ \A i \in 1 .. Len(a) : a[i] \in {v, w}
    BY <1>s, <1>3, <2>3, PinsShape
  <2> HIDE DEF a
  <2>6. Len(a \o b) = Len(a) + 1
        /\ (\A i \in 1 .. Len(a) : (a \o b)[i] \in {v, w}) /\ (a \o b)[Len(a) + 1] = b[1]
    BY <2>4, <2>5, ConcatAt
  <2> QED BY <2>1, <2>2, <2>4, <2>5, <2>6
<1> QED BY <1>s, <1>1, <1>2, <1>3

(* Where in a program the engine is configured, the pins are prepared and    *)
(* the engine is mapped.                                                     *)
LEMMA WriteAt ==
  ASSUME NEW p \in Profiles
  PROVE  LET s == Configs(p)
             e == EngineWrites[p]
             r == RouteWrites[p]
             a == AllWrites[p]
             w == Program(p)
         IN /\ e \in Nat \ {0} /\ r \in Nat \ {0} /\ a \in Nat /\ e + 2 <= a - r
            /\ SlowArmed(s) => r # 1
            /\ \A n \in 1 .. e - 1 : Quiet(w[n])
            /\ Starts(s, w[e])
            /\ \A n \in e + 1 .. a - r : Settles(w[n])
            /\ \A n \in a - r + 1 .. a : (SlowArmed(s) /\ n = a) \/ Routes(s, w[n])
            /\ SlowArmed(s) => w[a] = Set("intEn2", Axes)
<1> DEFINE s == Configs(p)
           g == GyroConfigure
           b == SetBandwidth(s.bandwidth)
           c == ConfigureEngine(s)
           d == IF s.pins # PinNone THEN ConfigureInterruptPins(s.pins) ELSE << >>
           l == ClearLatchedInterrupt
           r == Route(s)
<1>s. s \in SpecType /\ (s.enable => s.pins # {})
  BY ConfigsType, ConfigsFacts
<1>1. g \in Seq(Writes) /\ b \in Seq(Writes) /\ c \in Seq(Writes) /\ d \in Seq(Writes)
      /\ l \in Seq(Writes) /\ r \in Seq(Writes)
  BY <1>s, CallTypes, EngineRange, RouteRange, EmptySeq, Zenon
<1>2. Program(p) = g \o b \o c \o d \o l \o l \o r
  BY DEF Program
<1>3. EngineWrites[p] = 4 + Len(c) /\ RouteWrites[p] = Len(r) /\ AllWrites[p] = Len(Program(p))
  BY DEF EngineWrites, RouteWrites, AllWrites
<1>g. Len(g) = 3 /\ \A i \in 1 .. 3 : Quiet(g[i])
  BY DEF GyroConfigure, Quiet, Set, Maps, EngineRegs
<1>b. Len(b) = 1 /\ Quiet(b[1])
  BY DEF SetBandwidth, Quiet, Set, Maps, EngineRegs
<1>d. Len(d) \in Nat /\ \A i \in 1 .. Len(d) : Settles(d[i])
  BY DEF ConfigureInterruptPins, Settles, Update, Set
<1>l. Len(l) = 1 /\ Settles(l[1])
  BY DEF ClearLatchedInterrupt, Settles, BestEffort
<1>c. /\ Len(c) \in Nat \ {0} /\ Starts(s, c[Len(c)])
      /\ \A i \in 1 .. Len(c) - 1 : Quiet(c[i])
  BY <1>s, EngineShape
<1>r. /\ Len(r) \in {1, 2, 3} /\ (SlowArmed(s) => Len(r) # 1)
      /\ \A i \in 1 .. Len(r) : (SlowArmed(s) /\ i = Len(r)) \/ Routes(s, r[i])
      /\ SlowArmed(s) => r[Len(r)] = Set("intEn2", Axes)
  BY <1>s, RouteShape
<1> HIDE DEF s, g, b, c, d, l, r
<1>4. /\ g \o b \in Seq(Writes) /\ Len(g \o b) = 4
      /\ \A i \in 1 .. 4 : Quiet((g \o b)[i])
  <2>1. /\ g \o b \in Seq(Writes) /\ Len(g \o b) = Len(g) + Len(b)
        /\ \A i \in 1 .. Len(g) : (g \o b)[i] = g[i]
        /\ \A i \in Len(g) + 1 .. Len(g) + Len(b) : (g \o b)[i] = b[i - Len(g)]
    BY <1>1, ConcatAt
  <2> QED BY <2>1, <1>g, <1>b
<1>5. /\ g \o b \o c \in Seq(Writes) /\ Len(g \o b \o c) = 4 + Len(c)
      /\ \A i \in 1 .. 3 + Len(c) : Quiet((g \o b \o c)[i])
      /\ Starts(s, (g \o b \o c)[4 + Len(c)])
  <2> DEFINE h == g \o b
  <2>1. /\ h \o c \in Seq(Writes) /\ Len(h \o c) = Len(h) + Len(c)
        /\ \A i \in 1 .. Len(h) : (h \o c)[i] = h[i]
        /\ \A i \in Len(h) + 1 .. Len(h) + Len(c) : (h \o c)[i] = c[i - Len(h)]
    BY <1>1, <1>4, ConcatAt
  <2>2. Len(h) = 4 /\ \A i \in 1 .. 4 : Quiet(h[i])
    BY <1>4
  <2> HIDE DEF h
  <2>3. (h \o c)[4 + Len(c)] = c[Len(c)]
    BY <2>1, <2>2, <1>c
  <2>4. ASSUME NEW i \in 1 .. 3 + Len(c) PROVE Quiet((h \o c)[i])
    <3>1. CASE i <= 4
      BY <3>1, <2>1, <2>2
    <3>2. CASE i > 4
      <4>1. i - 4 \in 1 .. Len(c) - 1 /\ i \in Len(h) + 1 .. Len(h) + Len(c)
        BY <3>2, <2>2, <1>c
      <4>2. (h \o c)[i] = c[i - 4]
        BY <4>1, <2>1, <2>2
      <4> QED BY <4>1, <4>2, <1>c
    <3>3. i <= 4 \/ i > 4
      BY <1>c
    <3> QED BY <3>1, <3>2, <3>3, Zenon
  <2> QED BY <2>1, <2>2, <2>3, <2>4, <1>c DEF h
<1> DEFINE h == g \o b \o c
           k == h \o d \o l \o l
<1>6. /\ k \in Seq(Writes) /\ Len(k) = Len(h) + Len(d) + 2
      /\ \A i \in 1 .. Len(h) : k[i] = h[i]
      /\ \A i \in Len(h) + 1 .. Len(h) + Len(d) + 2 : Settles(k[i])
  <2>1. h \in Seq(Writes) /\ Len(h) \in Nat
    BY <1>5, <1>c
  <2> HIDE DEF h
  <2>2. /\ h \o d \in Seq(Writes) /\ Len(h \o d) = Len(h) + Len(d)
        /\ \A i \in 1 .. Len(h) : (h \o d)[i] = h[i]
        /\ \A i \in Len(h) + 1 .. Len(h) + Len(d) : (h \o d)[i] = d[i - Len(h)]
    BY <1>1, <2>1, ConcatAt
  <2> DEFINE x == h \o d
  <2>3. /\ x \in Seq(Writes) /\ Len(x) = Len(h) + Len(d)
        /\ \A i \in 1 .. Len(h) : x[i] = h[i]
        /\ \A i \in Len(h) + 1 .. Len(x) : Settles(x[i])
    BY <2>1, <2>2, <1>d
  <2> HIDE DEF x
  <2>4. /\ x \o l \in Seq(Writes) /\ Len(x \o l) = Len(x) + Len(l)
        /\ \A i \in 1 .. Len(x) : (x \o l)[i] = x[i]
        /\ \A i \in Len(x) + 1 .. Len(x) + Len(l) : (x \o l)[i] = l[i - Len(x)]
    BY <1>1, <2>3, ConcatAt
  <2> DEFINE y == x \o l
  <2>5. /\ y \in Seq(Writes) /\ Len(y) = Len(h) + Len(d) + 1
        /\ \A i \in 1 .. Len(h) : y[i] = h[i]
        /\ \A i \in Len(h) + 1 .. Len(y) : Settles(y[i])
    BY <2>1, <2>3, <2>4, <1>d, <1>l
  <2> HIDE DEF y
  <2>6. /\ y \o l \in Seq(Writes) /\ Len(y \o l) = Len(y) + Len(l)
        /\ \A i \in 1 .. Len(y) : (y \o l)[i] = y[i]
        /\ \A i \in Len(y) + 1 .. Len(y) + Len(l) : (y \o l)[i] = l[i - Len(y)]
    BY <1>1, <2>5, ConcatAt
  <2>7. k = y \o l
    BY DEF y, x
  <2> HIDE DEF k
  <2>8. k \in Seq(Writes) /\ Len(k) = Len(h) + Len(d) + 2
    BY <2>1, <2>5, <2>6, <2>7, <1>d, <1>l
  <2>9. \A i \in 1 .. Len(h) : k[i] = h[i]
    BY <2>1, <2>5, <2>6, <2>7, <1>d
  <2>10. ASSUME NEW i \in Len(h) + 1 .. Len(h) + Len(d) + 2 PROVE Settles(k[i])
    <3>1. CASE i <= Len(y)
      BY <3>1, <2>1, <2>5, <2>6, <2>7, <1>d
    <3>2. CASE i > Len(y)
      <4>1. i \in Len(y) + 1 .. Len(y) + Len(l) /\ i - Len(y) = 1
        BY <3>2, <2>1, <2>5, <1>d, <1>l
      <4> QED BY <4>1, <2>6, <2>7, <1>l
    <3> QED BY <3>1, <3>2, <2>1, <2>5, <1>d
  <2> QED BY <2>8, <2>9, <2>10
<1>7. Program(p) = k \o r /\ Len(h) = 4 + Len(c)
  BY <1>2, <1>5
<1>8. /\ \A i \in 1 .. 3 + Len(c) : Quiet(h[i])
      /\ Starts(s, h[4 + Len(c)])
  BY <1>5
<1> HIDE DEF k, h
<1>9. /\ Len(k) \in Nat /\ Len(k \o r) = Len(k) + Len(r)
      /\ \A i \in 1 .. Len(k) : (k \o r)[i] = k[i]
      /\ \A i \in Len(k) + 1 .. Len(k) + Len(r) : (k \o r)[i] = r[i - Len(k)]
  BY <1>1, <1>6, ConcatAt
<1> DEFINE w == Program(p)
           e == EngineWrites[p]
           n == RouteWrites[p]
           a == AllWrites[p]
<1>10. e = Len(h) /\ e = 4 + Len(c) /\ n = Len(r) /\ a = Len(k) + Len(r) /\ a - n = Len(k)
       /\ e + 2 <= Len(k)
  <2>1. e = 4 + Len(c) /\ n = Len(r) /\ a = Len(k \o r)
    BY <1>3, <1>7
  <2>2. a = Len(k) + Len(r) /\ Len(h) = 4 + Len(c) /\ Len(k) = Len(h) + Len(d) + 2
    BY <2>1, <1>6, <1>7, <1>9
  <2>3. Len(k) \in Nat /\ Len(c) \in Nat /\ Len(d) \in Nat /\ Len(r) \in Nat
    BY <1>9, <1>c, <1>d, <1>r
  <2> HIDE DEF e, n, a
  <2> QED BY <2>1, <2>2, <2>3
<1>11. /\ \A i \in 1 .. Len(k) : w[i] = k[i]
       /\ \A i \in Len(k) + 1 .. Len(k) + Len(r) : w[i] = r[i - Len(k)]
  BY <1>7, <1>9
<1> HIDE DEF w, e, n, a
<1>12. (\A i \in 1 .. e - 1 : Quiet(w[i])) /\ Starts(s, w[e])
  <2>1. \A i \in 1 .. e : w[i] = h[i]
    BY <1>6, <1>7, <1>9, <1>10, <1>11, <1>c
  <2>2. e = 4 + Len(c) /\ e - 1 = 3 + Len(c) /\ e \in 1 .. e /\ 1 .. e - 1 \subseteq 1 .. e
    BY <1>10, <1>c
  <2>3. \A i \in 1 .. e - 1 : Quiet(h[i])
    BY <2>2, <1>8
  <2>4. \A i \in 1 .. e - 1 : Quiet(w[i])
    BY <2>1, <2>2, <2>3, Zenon
  <2>5. Starts(s, h[e])
    BY <2>2, <1>8
  <2>6. w[e] = h[e]
    BY <2>1, <2>2, Zenon
  <2> QED BY <2>4, <2>5, <2>6
<1>13. \A i \in e + 1 .. a - n : Settles(w[i])
  BY <1>6, <1>9, <1>10, <1>11, <1>c
<1>14. /\ \A i \in a - n + 1 .. a : (SlowArmed(s) /\ i = a) \/ Routes(s, w[i])
       /\ SlowArmed(s) => w[a] = Set("intEn2", Axes)
  <2>1. \A i \in 1 .. Len(r) : w[Len(k) + i] = r[i]
    <3> SUFFICES ASSUME NEW i \in 1 .. Len(r) PROVE w[Len(k) + i] = r[i]
      OBVIOUS
    <3>1. Len(k) + i \in Len(k) + 1 .. Len(k) + Len(r) /\ (Len(k) + i) - Len(k) = i
      BY <1>9, <1>r
    <3> QED BY <3>1, <1>11
  <2>2. ASSUME NEW i \in a - n + 1 .. a PROVE (SlowArmed(s) /\ i = a) \/ Routes(s, w[i])
    <3>1. i - Len(k) \in 1 .. Len(r) /\ Len(k) + (i - Len(k)) = i /\ (i - Len(k) = Len(r) => i = a)
      BY <1>9, <1>10, <1>r
    <3>2. w[i] = r[i - Len(k)]
      BY <3>1, <2>1
    <3> QED BY <3>1, <3>2, <1>r
  <2>3. w[a] = r[Len(r)]
    <3>1. Len(r) \in 1 .. Len(r)
      BY <1>r
    <3> QED BY <3>1, <2>1, <1>10
  <2> QED BY <2>2, <2>3, <1>r
<1>15. e \in Nat \ {0} /\ n \in Nat \ {0} /\ a \in Nat /\ e + 2 <= a - n /\ (SlowArmed(s) => n # 1)
  BY <1>9, <1>10, <1>c, <1>r
<1> QED BY <1>12, <1>13, <1>14, <1>15 DEF w, e, n, a, s

-----------------------------------------------------------------------------
(* What the outline sees of register contents c.                            *)
EngineIn(c) ==
  IF c["intEn0"] # {} THEN "any-motion" ELSE IF c["intEn2"] # {} THEN "slow-motion" ELSE "none"
RoutedIn(c) == c["intMap0"] \cup c["intMap2"] # {}

SameView(c, d) == EngineIn(d) = EngineIn(c) /\ RoutedIn(d) = RoutedIn(c)

(* The engines and maps that are empty before the n-th write of Program(p).  *)
Emptied(c, p, n) ==
  /\ n <= EngineWrites[p] \/ Configs(p).mode # "any-motion" => c["intEn0"] = {}
  /\ n <= AllWrites[p] \/ ~SlowArmed(Configs(p)) => c["intEn2"] = {}
  /\ n <= AllWrites[p] - RouteWrites[p] \/ ~Arms[p] => c["intMap0"] = {} /\ c["intMap2"] = {}

(* The engine a profile uses.                                                *)
LEMMA ModeFacts ==
  ASSUME NEW p \in Profiles
  PROVE  /\ Arms[p] \in BOOLEAN /\ Arms[p] = Configs(p).enable
         /\ ModeOf[p] \in {"any-motion", "slow-motion", "none"}
         /\ ModeOf[p] = "none" <=> ~Arms[p]
         /\ ModeOf[p] = "any-motion" <=> Configs(p).mode = "any-motion"
         /\ ModeOf[p] = "slow-motion" <=> SlowArmed(Configs(p))
<1> DEFINE s == Configs(p)
<1>1. s \in SpecType /\ (s.mode = "any-motion" => s.enable)
  BY ConfigsType, ConfigsFacts
<1>2. s.enable \in BOOLEAN /\ s.mode \in {"any-motion", "slow-motion"}
  BY <1>1 DEF SpecType, Modes
<1>3. Arms[p] = s.enable /\ ModeOf[p] = IF s.enable THEN s.mode ELSE "none"
  BY DEF Arms, ModeOf
<1> HIDE DEF s
<1>4. Arms[p] \in BOOLEAN /\ (ModeOf[p] = "none" <=> ~Arms[p])
      /\ ModeOf[p] \in {"any-motion", "slow-motion", "none"}
  BY <1>2, <1>3
<1>5. (ModeOf[p] = "any-motion" <=> s.mode = "any-motion") /\ (ModeOf[p] = "slow-motion" <=> SlowArmed(s))
  BY <1>1, <1>2, <1>3 DEF SlowArmed
<1> QED BY <1>3, <1>4, <1>5 DEF s

(* The order of the phases.                                                  *)
AfterRoute(mode) ==
  IF mode = "none" THEN "rest" ELSE IF mode = "any-motion" THEN "openPoller" ELSE "enable"

(* The phases of the program's writes come one after another.                *)
LEMMA PhaseOrder ==
  ASSUME NEW p \in Profiles, NEW n \in Nat \ {0}
  PROVE  LET now  == PhaseOfWrite(p, n)
             then == PhaseOfWrite(p, n + 1)
         IN /\ PhaseOfWrite(p, 1) = "configure"
            /\ n > AllWrites[p] => now = IF Arms[p] THEN "openPoller" ELSE "rest"
            /\ n <= AllWrites[p] => now \in {"configure", "settle", "route", "enable"}
            /\ now = "configure" => then = IF n = EngineWrites[p] THEN "settle" ELSE "configure"
            /\ now = "settle" => then \in {"settle", "route"}
            /\ now = "route" => then \in {"route", AfterRoute(ModeOf[p])}
            /\ now = "enable" => then = "openPoller" /\ ModeOf[p] = "slow-motion"
<1> DEFINE e == EngineWrites[p]
           r == RouteWrites[p]
           a == AllWrites[p]
<1>1. /\ e \in Nat \ {0} /\ r \in Nat \ {0} /\ a \in Nat /\ e + 2 <= a - r
      /\ ModeOf[p] = "slow-motion" => r # 1
  BY WriteAt, ModeFacts
<1>2. \A i \in Nat : PhaseOfWrite(p, i) =
        IF i <= e THEN "configure"
        ELSE IF i <= a - r THEN "settle"
        ELSE IF i > a THEN IF Arms[p] THEN "openPoller" ELSE "rest"
        ELSE IF i = a /\ ModeOf[p] = "slow-motion" THEN "enable" ELSE "route"
  BY DEF PhaseOfWrite
<1>3. (ModeOf[p] = "none" <=> ~Arms[p]) /\ ModeOf[p] \in {"any-motion", "slow-motion", "none"}
  BY ModeFacts
<1> HIDE DEF e, r, a
<1>4. n + 1 \in Nat /\ 1 \in Nat
  OBVIOUS
<1>5. PhaseOfWrite(p, 1) = "configure"
  BY <1>1, <1>2, <1>4
<1>6. n > a => PhaseOfWrite(p, n) = IF Arms[p] THEN "openPoller" ELSE "rest"
  BY <1>1, <1>2
<1>7. n <= a => PhaseOfWrite(p, n) \in {"configure", "settle", "route", "enable"}
  BY <1>1, <1>2
<1>8. PhaseOfWrite(p, n) = "configure" => PhaseOfWrite(p, n + 1) = IF n = e THEN "settle" ELSE "configure"
  BY <1>1, <1>2, <1>4
<1>9. PhaseOfWrite(p, n) = "settle" => PhaseOfWrite(p, n + 1) \in {"settle", "route"}
  BY <1>1, <1>2, <1>4
<1>10. PhaseOfWrite(p, n) = "route" => PhaseOfWrite(p, n + 1) \in {"route", AfterRoute(ModeOf[p])}
  BY <1>1, <1>2, <1>3, <1>4 DEF AfterRoute
<1>11. PhaseOfWrite(p, n) = "enable" => PhaseOfWrite(p, n + 1) = "openPoller" /\ ModeOf[p] = "slow-motion"
  BY <1>1, <1>2, <1>3, <1>4
<1> QED BY <1>5, <1>6, <1>7, <1>8, <1>9, <1>10, <1>11 DEF e, r, a

(* What a write does to the outline's view of the chip, phase by phase.      *)
LEMMA WriteView ==
  ASSUME NEW p \in Profiles, NEW n \in 1 .. AllWrites[p], NEW c \in Registers, Emptied(c, p, n)
  PROVE  LET w   == Program(p)[n]
             d   == Written(c, w)
             now == PhaseOfWrite(p, n)
         IN /\ Emptied(d, p, n + 1)
            /\ w.must \/ now = "settle"
            /\ now = "configure" =>
                 /\ RoutedIn(d) = RoutedIn(c)
                 /\ EngineIn(d) = IF n = EngineWrites[p] /\ ModeOf[p] = "any-motion"
                                  THEN "any-motion" ELSE "none"
            /\ now = "settle" => SameView(c, d)
            /\ now = "route" => RoutedIn(d) = (ModeOf[p] # "none") /\ EngineIn(d) = EngineIn(c)
            /\ now = "enable" => RoutedIn(d) = RoutedIn(c) /\ EngineIn(d) = "slow-motion"
<1> DEFINE s == Configs(p)
           e == EngineWrites[p]
           r == RouteWrites[p]
           a == AllWrites[p]
           w == Program(p)[n]
           d == Written(c, w)
<1>1. /\ e \in Nat \ {0} /\ r \in Nat \ {0} /\ a \in Nat /\ e + 2 <= a - r
      /\ n < e => Quiet(w)
      /\ n = e => Starts(s, w)
      /\ e < n /\ n <= a - r => Settles(w)
      /\ n > a - r => (SlowArmed(s) /\ n = a) \/ Routes(s, w)
      /\ SlowArmed(s) /\ n = a => w = Set("intEn2", Axes)
  BY WriteAt
<1>2. n \in 1 .. a
  OBVIOUS
<1>m. /\ Arms[p] \in BOOLEAN /\ Arms[p] = s.enable
      /\ ModeOf[p] = "none" <=> ~Arms[p]
      /\ ModeOf[p] = "any-motion" <=> s.mode = "any-motion"
      /\ ModeOf[p] = "slow-motion" <=> SlowArmed(s)
  BY ModeFacts
<1>p. PhaseOfWrite(p, n) =
        IF n <= e THEN "configure"
        ELSE IF n <= a - r THEN "settle"
        ELSE IF n > a THEN IF Arms[p] THEN "openPoller" ELSE "rest"
        ELSE IF n = a /\ SlowArmed(s) THEN "enable" ELSE "route"
  BY <1>m DEF PhaseOfWrite
<1>w. w \in Writes
  BY ProgramType DEF AllWrites
<1>r. {"intEn0", "intEn2", "intMap0", "intMap2"} \subseteq Regs
  BY DEF Regs, AccelRegs
<1>d. /\ d[w.reg] = (c[w.reg] \cap w.keep) \cup w.set
      /\ \A x \in Regs : x # w.reg => d[x] = c[x]
  BY <1>w, WrittenAt
<1>a. Axes # {}
  BY DEF Axes
<1>e. /\ n <= e \/ s.mode # "any-motion" => c["intEn0"] = {}
      /\ n <= a \/ ~SlowArmed(s) => c["intEn2"] = {}
      /\ n <= a - r \/ ~s.enable => c["intMap0"] = {} /\ c["intMap2"] = {}
  BY <1>m DEF Emptied
<1>f. /\ n + 1 <= e \/ s.mode # "any-motion" => d["intEn0"] = {}
      /\ n + 1 <= a \/ ~SlowArmed(s) => d["intEn2"] = {}
      /\ n + 1 <= a - r \/ ~s.enable => d["intMap0"] = {} /\ d["intMap2"] = {}
      => Emptied(d, p, n + 1)
  BY <1>m DEF Emptied
<1> HIDE DEF s, e, r, a, w, d
<1>3. CASE n < e
  <2>1. Quiet(w) /\ c["intEn0"] = {} /\ c["intEn2"] = {} /\ c["intMap0"] = {} /\ c["intMap2"] = {}
    BY <1>1, <1>3, <1>e
  <2>2. w.must /\ d["intEn0"] = {} /\ d["intEn2"] = {} /\ d["intMap0"] = {} /\ d["intMap2"] = {}
    BY <2>1, <1>r, <1>d DEF Quiet, Maps, EngineRegs
  <2>3. PhaseOfWrite(p, n) = "configure" /\ n # e
    BY <1>1, <1>2, <1>3, <1>p
  <2> QED BY <2>1, <2>2, <2>3, <1>f DEF EngineIn, RoutedIn, s, e, r, a, w, d
<1>4. CASE n = e
  <2>1. Starts(s, w) /\ c["intEn0"] = {} /\ c["intEn2"] = {} /\ c["intMap0"] = {} /\ c["intMap2"] = {}
    BY <1>1, <1>4, <1>e
  <2>2. w.must /\ d["intEn2"] = {} /\ d["intMap0"] = {} /\ d["intMap2"] = {}
        /\ d["intEn0"] = IF s.mode = "any-motion" THEN Axes ELSE {}
    <3>1. CASE s.mode = "any-motion"
      <4>1. w.reg = "intEn0" /\ w.keep = {} /\ w.set = Axes /\ w.must
        BY <2>1, <3>1 DEF Starts, Set
      <4> QED BY <4>1, <3>1, <2>1, <1>r, <1>d
    <3>2. CASE s.mode # "any-motion"
      <4>1. w.must /\ w.reg \notin {"intMap0", "intMap2", "intEn0", "intEn2"}
        BY <2>1, <3>2 DEF Starts, Maps, EngineRegs
      <4> QED BY <4>1, <3>2, <2>1, <1>r, <1>d
    <3> QED BY <3>1, <3>2
  <2>3. PhaseOfWrite(p, n) = "configure" /\ ~(n + 1 <= e)
    BY <1>1, <1>2, <1>4, <1>p
  <2>4. Emptied(d, p, n + 1)
    BY <2>2, <2>3, <1>f
  <2>5. RoutedIn(d) = RoutedIn(c) /\ EngineIn(d) = IF s.mode = "any-motion" THEN "any-motion" ELSE "none"
    BY <2>1, <2>2, <1>a DEF EngineIn, RoutedIn
  <2> QED BY <2>2, <2>3, <2>4, <2>5, <1>m, <1>4 DEF e, w, d
<1>5. CASE e < n /\ n <= a - r
  <2>1. \A x \in {"intEn0", "intEn2", "intMap0", "intMap2"} : d[x] = c[x]
    BY <1>1, <1>5, <1>r, <1>d DEF Settles
  <2>2. PhaseOfWrite(p, n) = "settle" /\ ~(n + 1 <= e)
    BY <1>1, <1>2, <1>5, <1>p
  <2>3. Emptied(d, p, n + 1)
    <3>1. n + 1 <= a - r => n <= a - r
      BY <1>1, <1>2
    <3>2. n <= a
      BY <1>2
    <3> QED BY <2>1, <2>2, <3>1, <3>2, <1>e, <1>f
  <2> QED BY <2>1, <2>2, <2>3 DEF SameView, EngineIn, RoutedIn, w, d
<1>6. CASE n > a - r /\ ~(SlowArmed(s) /\ n = a)
  <2>1. Routes(s, w)
    BY <1>1, <1>6
  <2>2. d["intEn0"] = c["intEn0"] /\ d["intEn2"] = c["intEn2"]
        /\ (s.enable => d["intMap0"] \cup d["intMap2"] # {})
        /\ (~s.enable => d["intMap0"] = {} /\ d["intMap2"] = {})
    BY <2>1, <1>r, <1>d, <1>e DEF Routes, Maps
  <2>3. PhaseOfWrite(p, n) = "route" /\ ~(n + 1 <= e) /\ ~(n + 1 <= a - r) /\ n <= a
    BY <1>1, <1>2, <1>6, <1>p
  <2>4. Emptied(d, p, n + 1)
    BY <2>2, <2>3, <1>e, <1>f
  <2>5. RoutedIn(d) = (ModeOf[p] # "none") /\ EngineIn(d) = EngineIn(c) /\ w.must
    BY <2>1, <2>2, <1>m DEF RoutedIn, EngineIn, Routes
  <2> QED BY <2>3, <2>4, <2>5 DEF w, d
<1>7. CASE SlowArmed(s) /\ n = a
  <2>1. w = Set("intEn2", Axes) /\ s.mode # "any-motion" /\ s.enable /\ n > a - r
    BY <1>1, <1>7 DEF SlowArmed
  <2>2. d["intEn0"] = c["intEn0"] /\ d["intEn2"] = Axes /\ d["intMap0"] = c["intMap0"]
        /\ d["intMap2"] = c["intMap2"] /\ w.must
    BY <2>1, <1>r, <1>d DEF Set
  <2>3. PhaseOfWrite(p, n) = "enable" /\ ~(n + 1 <= a) /\ ~(n + 1 <= a - r)
    BY <1>1, <1>2, <1>7, <1>p
  <2>4. Emptied(d, p, n + 1)
    BY <2>1, <2>2, <2>3, <1>7, <1>e, <1>f
  <2>5. RoutedIn(d) = RoutedIn(c) /\ EngineIn(d) = "slow-motion"
    BY <2>1, <2>2, <1>a, <1>e DEF RoutedIn, EngineIn
  <2> QED BY <2>2, <2>3, <2>4, <2>5 DEF w, d
<1>8. n < e \/ n = e \/ (e < n /\ n <= a - r) \/ n > a - r
  BY <1>1, <1>2
<1> QED BY <1>3, <1>4, <1>5, <1>6, <1>7, <1>8

-----------------------------------------------------------------------------
(* The engines and maps that are empty in each phase of the running Apply.  *)
OutlineInv ==
  \A p \in Procs :
    /\ pc[p] = "gyroReset" => chip["intEn0"] = {}
    /\ pc[p] = "program" => Emptied(chip, want[p], next)

Emptying == {"gyroReset", "program"}

(* What a stray clear or reset does to an empty register: nothing.           *)
LEMMA StaysEmpty ==
  ASSUME NEW c \in Registers,
         NEW d \in {c, Written(c, ClearLatchedInterrupt[1]), AccelErased(c), GyroErased(c)}
  PROVE  /\ d \in Registers
         /\ \A r \in {"intEn0", "intEn2", "intMap0", "intMap2"} : c[r] = {} => d[r] = {}
         /\ \A p \in Profiles, n \in Nat : Emptied(c, p, n) => Emptied(d, p, n)
<1> DEFINE w == ClearLatchedInterrupt[1]
<1>1. w \in Writes /\ w.reg = "intLatch"
  BY ClearType DEF BestEffort
<1>2. d \in Registers
  BY <1>1, WrittenType, ErasedType
<1>3. \A r \in {"intEn0", "intEn2", "intMap0", "intMap2"} :
        r \in Regs /\ r \in AccelRegs /\ r \notin GyroRegs /\ r # "intLatch" /\ ResetValue(r) = {}
  BY DEF Regs, AccelRegs, GyroRegs, ResetValue
<1> HIDE DEF w
<1>4. ASSUME NEW r \in {"intEn0", "intEn2", "intMap0", "intMap2"}, c[r] = {} PROVE d[r] = {}
  <2>1. Written(c, w)[r] = {}
    BY <1>1, <1>3, <1>4, WrittenAt
  <2>2. AccelErased(c)[r] = {} /\ GyroErased(c)[r] = {}
    BY <1>3, <1>4 DEF AccelErased, GyroErased
  <2> QED BY <1>4, <2>1, <2>2 DEF w
<1>5. \A p \in Profiles, n \in Nat : Emptied(c, p, n) => Emptied(d, p, n)
  BY <1>4 DEF Emptied
<1> QED BY <1>2, <1>4, <1>5

(* Neither a clear nor the gyroscope's reset is seen in the outline, and the *)
(* accelerometer's leaves nothing to see.                                    *)
LEMMA StrayView ==
  ASSUME NEW c \in Registers
  PROVE  /\ SameView(c, Written(c, ClearLatchedInterrupt[1])) /\ SameView(c, GyroErased(c))
         /\ EngineIn(AccelErased(c)) = "none" /\ RoutedIn(AccelErased(c)) = FALSE
         /\ AccelErased(c)["intEn0"] = {}
<1> DEFINE w == ClearLatchedInterrupt[1]
<1>1. w \in Writes /\ w.reg = "intLatch"
  BY ClearType DEF BestEffort
<1>2. \A r \in {"intEn0", "intEn2", "intMap0", "intMap2"} :
        r \in Regs /\ r \in AccelRegs /\ r \notin GyroRegs /\ r # "intLatch" /\ ResetValue(r) = {}
  BY DEF Regs, AccelRegs, GyroRegs, ResetValue
<1> HIDE DEF w
<1>3. \A r \in {"intEn0", "intEn2", "intMap0", "intMap2"} :
        Written(c, w)[r] = c[r] /\ GyroErased(c)[r] = c[r] /\ AccelErased(c)[r] = {}
  <2>1. \A r \in Regs : r # "intLatch" => Written(c, w)[r] = c[r]
    BY <1>1, WrittenAt
  <2> QED BY <1>2, <2>1 DEF AccelErased, GyroErased
<1> QED BY <1>3 DEF SameView, EngineIn, RoutedIn, w

(* A step after which nobody is where OutlineInv asks for anything keeps it. *)
LEMMA NobodyEmptying ==
  ASSUME IInv, NEW p \in Procs, mu = p \/ mu = NoOne,
         \A q \in Procs : q # p => pc'[q] = pc[q], pc'[p] \notin Emptying
  PROVE  OutlineInv'
<1>1. \A q \in Procs : q # p => pc[q] \notin Emptying
  <2>1. \A q \in Procs : q # p => mu # q
    BY CallersAssumption
  <2> QED BY <2>1, Places DEF IInv, GateInv, LockInv, Emptying
<1> QED BY <1>1 DEF OutlineInv, Emptying

(* Leaving Apply, or moving to a label.                                      *)
LEMMA Moves ==
  ASSUME IInv, NEW p \in Procs, NEW label, Goto(p, label)
  PROVE  pc'[p] = label /\ \A q \in Procs : q # p => pc'[q] = pc[q]
BY DEF IInv, TypeOK, Goto

(* A process that gives up holds nothing and is nowhere in Apply.            *)
LEMMA Leaves ==
  ASSUME IInv, NEW p \in Procs, Succeeds(p) \/ Fails(p)
  PROVE  /\ pc'[p] \in {"serving", "idle", "exited"}
         /\ \A q \in Procs : q # p => pc'[q] = pc[q] /\ want'[q] = want[q]
<1>1. PICK label \in {"serving", "idle", "exited"} : Goto(p, label)
  BY DEF Succeeds, Fails
<1>2. \A q \in Procs : q # p => want'[q] = want[q]
  BY DEF IInv, TypeOK, Succeeds, Fails
<1> QED BY <1>1, <1>2, Moves

(* Steps of Apply keep OutlineInv.                                           *)
LEMMA ApplyOutlineInv ==
  ASSUME IInv, OutlineInv, NEW p \in Procs, ApplyStep(p)
  PROVE  OutlineInv'
<1> USE DEF subscriber, controller, gates, calls, history, bounds
<1>t. chip \in Registers /\ want[p] \in Profiles /\ next \in Nat \ {0}
  BY DEF IInv, TypeOK
<1>g. ASSUME mu = p \/ mu = NoOne, NEW label, label \notin Emptying, Goto(p, label) PROVE OutlineInv'
  BY <1>g, Moves, NobodyEmptying
<1>l. ASSUME mu = p \/ mu = NoOne, Succeeds(p) \/ Fails(p) PROVE OutlineInv'
  <2>1. pc'[p] \notin Emptying
    BY <1>l, Leaves DEF Emptying
  <2> QED BY <1>l, <2>1, Leaves, NobodyEmptying
<1>o. ASSUME mu = p PROVE \A q \in Procs : q # p => pc[q] \notin Emptying
  BY <1>o, Places DEF IInv, GateInv, LockInv, Emptying
<1>1. CASE Lock(p)
  BY <1>1, <1>g DEF Lock, Emptying
<1>2. CASE Skip(p)
  BY <1>2, <1>l DEF Skip
<1>3. CASE DisablePoller(p)
  BY <1>3, <1>g DEF DisablePoller, Holds, Emptying
<1>4. CASE DisableWatcher(p)
  BY <1>4, <1>g DEF DisableWatcher, Holds, Emptying
<1>5. CASE AccelReset(p)
  <2>1. mu = p
    BY <1>5 DEF AccelReset, Holds
  <2>2. CASE chip' = AccelErased(chip) /\ Goto(p, "gyroReset")
    <3>1. pc'[p] = "gyroReset" /\ \A q \in Procs : q # p => pc'[q] = pc[q]
      BY <2>2, Moves
    <3>2. chip'["intEn0"] = {}
      BY <2>2, <1>t, StrayView
    <3> QED BY <2>1, <3>1, <3>2, <1>o DEF OutlineInv, Emptying
  <2>3. CASE GivesUp(p)
    BY <2>1, <2>3, <1>l DEF GivesUp
  <2> QED BY <1>5, <2>2, <2>3 DEF AccelReset
<1>6. CASE GyroReset(p)
  <2>1. mu = p /\ pc[p] = "gyroReset"
    BY <1>6 DEF GyroReset, Holds
  <2>2. CASE Goto(p, "program") /\ next' = 1 /\ UNCHANGED want
    <3>1. pc'[p] = "program" /\ \A q \in Procs : q # p => pc'[q] = pc[q]
      BY <2>2, Moves
    <3>2. \A r \in {"intEn0", "intEn2", "intMap0", "intMap2"} : chip[r] = {}
      BY <2>1 DEF OutlineInv, IInv, GateInv, ResetInv, Blanks
    <3>3. chip' \in {chip, GyroErased(chip)}
      BY <1>6 DEF GyroReset
    <3>4. \A r \in {"intEn0", "intEn2", "intMap0", "intMap2"} : chip'[r] = {}
      BY <3>2, <3>3, <1>t, StaysEmpty
    <3>5. Emptied(chip', want'[p], next')
      BY <3>4 DEF Emptied
    <3> QED BY <2>1, <3>1, <3>5, <1>o DEF OutlineInv, Emptying
  <2>3. CASE GivesUp(p)
    BY <2>1, <2>3, <1>l DEF GivesUp
  <2> QED BY <1>6, <2>2, <2>3 DEF GyroReset
<1>7. CASE Write(p)
  <2> DEFINE w == Program(want[p])[next]
  <2>1. mu = p /\ pc[p] = "program" /\ next \in 1 .. AllWrites[want[p]]
    BY <1>7, <1>t, ProgramType DEF Write, Holds, AllWrites
  <2>2. Emptied(chip, want[p], next)
    BY <2>1 DEF OutlineInv
  <2>3. Emptied(Written(chip, w), want[p], next + 1)
    BY <1>t, <2>1, <2>2, WriteView
  <2>4. CASE next' = next + 1 /\ UNCHANGED << mu, calls >>
    <3>1. chip' = Written(chip, w) \/ (chip' = chip /\ ~w.must)
      BY <1>7, <2>1, <2>4, CallersAssumption DEF Write, GivesUp
    <3>2. Emptied(chip', want[p], next + 1)
      <4>1. CASE chip' = Written(chip, w)
        BY <4>1, <2>3
      <4>2. CASE chip' = chip /\ ~w.must
        <5>1. PhaseOfWrite(want[p], next) = "settle"
          BY <4>2, <1>t, <2>1, <2>2, WriteView
        <5>2. SameView(chip, Written(chip, w))
          BY <5>1, <1>t, <2>1, <2>2, WriteView
        <5>3. /\ EngineWrites[want[p]] \in Nat /\ AllWrites[want[p]] \in Nat /\ RouteWrites[want[p]] \in Nat \ {0}
              /\ EngineWrites[want[p]] + 2 <= AllWrites[want[p]] - RouteWrites[want[p]]
          BY <1>t, WriteAt
        <5>4. next > EngineWrites[want[p]] /\ next <= AllWrites[want[p]] - RouteWrites[want[p]]
          <6>1. /\ ~(next <= EngineWrites[want[p]]) /\ next <= AllWrites[want[p]] - RouteWrites[want[p]]
            BY <5>1 DEF PhaseOfWrite
          <6> QED BY <6>1, <5>3, <1>t
        <5>5. /\ next + 1 <= EngineWrites[want[p]] => next <= EngineWrites[want[p]]
              /\ next + 1 <= AllWrites[want[p]] => next <= AllWrites[want[p]]
              /\ next <= AllWrites[want[p]]
          BY <5>3, <5>4, <1>t
        <5> QED BY <4>2, <5>4, <5>5, <2>2 DEF Emptied
      <4> QED BY <3>1, <4>1, <4>2
    <3> QED BY <2>1, <2>4, <3>2, <1>o DEF OutlineInv, Emptying
  <2>5. CASE GivesUp(p)
    BY <2>1, <2>5, <1>l DEF GivesUp
  <2> QED BY <1>7, <2>4, <2>5 DEF Write
<1>8. CASE ProgramDone(p)
  <2>1. PICK label \in {"enablePoller", "commit"} : Goto(p, label)
    BY <1>8 DEF ProgramDone
  <2> QED BY <1>8, <2>1, <1>g DEF ProgramDone, Holds, Emptying
<1>9. CASE EnablePoller(p)
  BY <1>9, <1>g DEF EnablePoller, Holds, Emptying
<1>10. CASE EnableWatcher(p)
  BY <1>10, <1>g DEF EnableWatcher, Holds, Emptying
<1>11. CASE Commit(p)
  BY <1>11, <1>l DEF Commit, Holds
<1> QED BY <1>1, <1>2, <1>3, <1>4, <1>5, <1>6, <1>7, <1>8, <1>9, <1>10, <1>11 DEF ApplyStep

(* Steps outside Apply: whoever takes one was not in it and is not then.     *)
Apart(c) ==
  /\ pc[c] \notin Applying /\ pc'[c] \notin Applying
  /\ \A q \in Procs : q # c => pc'[q] = pc[q] /\ want'[q] = want[q]
  /\ mu' = mu /\ next' = next /\ UNCHANGED gates
  /\ chip' \in {chip, Written(chip, ClearLatchedInterrupt[1]), AccelErased(chip), GyroErased(chip)}

(* The steps of the handlers, and the requests, are such steps.              *)
LEMMA CallApart ==
  ASSUME IInv, NEW c \in Callers, CallStep(c)
  PROVE  c \in Procs /\ Apart(c)
<1> USE DEF subscriber, controller, gates, calls, history, bounds
<1>p. c \in Procs
  BY DEF Procs
<1>w. \A v \in Profiles : want' = [want EXCEPT ![c] = v] => \A q \in Procs : q # c => want'[q] = want[q]
  BY <1>p DEF IInv, TypeOK
<1>1. CASE WriteClear(c)
  <2>1. pc[c] = "clear" /\ (Succeeds(c) \/ Fails(c)) /\ mu' = mu /\ next' = next /\ UNCHANGED gates
        /\ chip' \in {chip, Written(chip, ClearLatchedInterrupt[1])}
    BY <1>1 DEF WriteClear
  <2> QED BY <1>p, <2>1, Leaves, Places DEF Apart
<1>2. CASE ResetAccel(c)
  <2>1. pc[c] = "resetAccel" /\ mu' = mu /\ next' = next /\ UNCHANGED gates
        /\ chip' \in {chip, AccelErased(chip)}
    BY <1>2 DEF ResetAccel
  <2>2. CASE Goto(c, "resetGyro") /\ UNCHANGED want
    BY <1>p, <2>1, <2>2, Moves, Places DEF Apart
  <2>3. CASE Fails(c)
    BY <1>p, <2>1, <2>3, Leaves, Places DEF Apart
  <2> QED BY <1>2, <2>2, <2>3 DEF ResetAccel
<1>3. CASE ResetGyro(c)
  <2>1. pc[c] = "resetGyro" /\ mu' = mu /\ next' = next /\ UNCHANGED gates
        /\ chip' \in {chip, GyroErased(chip)}
    BY <1>3 DEF ResetGyro
  <2>2. CASE Goto(c, "invalidate") /\ UNCHANGED want
    BY <1>p, <2>1, <2>2, Moves, Places DEF Apart
  <2>3. CASE Fails(c)
    BY <1>p, <2>1, <2>3, Leaves, Places DEF Apart
  <2> QED BY <1>3, <2>2, <2>3 DEF ResetGyro
<1>4. CASE Invalidate(c)
  BY <1>p, <1>4, Moves, Places DEF Invalidate, Apart
<1>5. CASE Current(c)
  <2>1. pc[c] = "getCurrent" /\ Goto(c, "lock") /\ mu' = mu /\ next' = next /\ UNCHANGED << gates, chip >>
        /\ want' = [want EXCEPT ![c] = current] /\ current \in Profiles
    BY <1>5 DEF Current, IInv, TypeOK
  <2> QED BY <1>p, <1>w, <2>1, Moves, Places DEF Apart
<1> QED BY <1>p, <1>1, <1>2, <1>3, <1>4, <1>5 DEF CallStep

(* So are the arrivals of callbacks and calls, and the restart.              *)
LEMMA RequestApart ==
  ASSUME IInv, Request
  PROVE  \E c \in Procs : Apart(c)
<1> USE DEF subscriber, controller, gates, calls, history, bounds
<1>w. \A c \in Procs : \A v : want' = [want EXCEPT ![c] = v] => \A q \in Procs : q # c => want'[q] = want[q]
  BY DEF IInv, TypeOK
<1>h. "alarm" \in Procs /\ "pm" \in Procs
  BY DEF Procs, Handlers
<1>1. ASSUME NEW value \in AlarmStatuses, handleAlarmStatus(value) PROVE Apart("alarm")
  <2>1. pc["alarm"] = "idle" /\ Goto("alarm", "lock") /\ UNCHANGED << controller, gates, chip, next >>
        /\ want' = [want EXCEPT !["alarm"] = Derive(value, pmState)]
    BY <1>1 DEF handleAlarmStatus, Dispatchable
  <2> QED BY <1>h, <1>w, <2>1, Moves, Places DEF Apart
<1>2. ASSUME NEW value \in PmStates, handlePmState(value) PROVE Apart("pm")
  <2>1. pc["pm"] = "idle" /\ Goto("pm", "lock") /\ UNCHANGED << controller, gates, chip, next >>
        /\ want' = [want EXCEPT !["pm"] = Derive(alarmStatus, value)]
    BY <1>2 DEF handlePmState, Dispatchable
  <2> QED BY <1>h, <1>w, <2>1, Moves, Places DEF Apart
<1>3. ASSUME NEW c \in Callers, prepareHibernation(c) \/ clearLatch(c) \/ softReset(c) PROVE c \in Procs /\ Apart(c)
  <2>1. c \in Procs
    BY DEF Procs
  <2>2. PICK label \in {"lock", "clear", "resetAccel"} : pc[c] = "idle" /\ Goto(c, label)
    BY <1>3 DEF prepareHibernation, clearLatch, softReset, Serves
  <2>3. UNCHANGED << controller, gates, chip, next >>
        /\ (want' = want \/ want' = [want EXCEPT ![c] = "armed-hibernation"])
    BY <1>3 DEF prepareHibernation, clearLatch, softReset
  <2> QED BY <1>w, <2>1, <2>2, <2>3, Moves, Places DEF Apart
<1> QED BY <1>h, <1>1, <1>2, <1>3 DEF Request

(* What is empty stays empty under such a step.                              *)
LEMMA ApartOutlineInv ==
  ASSUME IInv, OutlineInv, NEW c \in Procs, Apart(c)
  PROVE  OutlineInv'
<1>1. chip \in Registers /\ next \in Nat /\ \A q \in Procs : want[q] \in Profiles
  BY DEF IInv, TypeOK
<1>2. /\ chip["intEn0"] = {} => chip'["intEn0"] = {}
      /\ \A p \in Profiles : Emptied(chip, p, next) => Emptied(chip', p, next)
  BY <1>1, StaysEmpty DEF Apart
<1>3. \A q \in Procs : pc'[q] \in Emptying => pc'[q] = pc[q] /\ want'[q] = want[q]
  BY Places DEF Apart, Emptying
<1> QED BY <1>1, <1>2, <1>3 DEF OutlineInv, Apart, Emptying

(* OutlineInv holds throughout.                                              *)
LEMMA OutlineKept == Spec => []OutlineInv
<1>1. Init => OutlineInv
  <2>1. Init => \A p \in Procs : pc[p] \in {"lock", "idle"}
    BY DEF Init, Fresh
  <2> QED BY <2>1 DEF OutlineInv
<1>2. IInv /\ OutlineInv /\ [Next]_vars => OutlineInv'
  <2> SUFFICES ASSUME IInv, OutlineInv, [Next]_vars PROVE OutlineInv'
    OBVIOUS
  <2>1. CASE Restart
    <3>1. \A p \in Procs : pc'[p] \in {"lock", "idle"}
      BY <2>1 DEF Restart
    <3> QED BY <3>1 DEF OutlineInv
  <2>2. CASE UNCHANGED vars
    BY <2>2 DEF vars, calls, OutlineInv, Emptied
  <2> QED BY <2>1, <2>2, ApplyOutlineInv, CallApart, RequestApart, ApartOutlineInv DEF Next
<1> QED BY <1>1, <1>2, Inductive, PTL DEF Spec

-----------------------------------------------------------------------------
(* What the outline sees, by the names of its variables.                    *)
WantNow == IF Phase = "rest" THEN "none" ELSE ModeOf[want[mu]]
Stutters == UNCHANGED << gates, Phase, WantNow >> /\ SameView(chip, chip')

(* The places of Apply and their phases.                                     *)
LEMMA PhaseTable ==
  \A p, n :
    /\ PhaseOf("disablePoller", p, n) = "rest" /\ PhaseOf("commit", p, n) = "rest"
    /\ PhaseOf("disableWatcher", p, n) = "disableWatcher"
    /\ PhaseOf("accelReset", p, n) = "reset" /\ PhaseOf("gyroReset", p, n) = "configure"
    /\ PhaseOf("program", p, n) = PhaseOfWrite(p, n)
    /\ PhaseOf("enablePoller", p, n) = "openPoller" /\ PhaseOf("enableWatcher", p, n) = "openWatcher"
BY DEF PhaseOf

(* The phase is that of the holder of the mutex, if there is one.            *)
LEMMA PhaseNow ==
  ASSUME NEW p \in Procs
  PROVE  /\ mu = p => /\ Phase = PhaseOf(pc[p], want[p], next)
                      /\ WantNow = IF Phase = "rest" THEN "none" ELSE ModeOf[want[p]]
         /\ mu' = p => /\ Phase' = PhaseOf(pc'[p], want'[p], next')
                       /\ WantNow' = IF Phase' = "rest" THEN "none" ELSE ModeOf[want'[p]]
BY CallersAssumption DEF Phase, WantNow

(* At rest when nobody holds it.                                             *)
LEMMA PhaseFree ==
  /\ mu = NoOne => Phase = "rest" /\ WantNow = "none"
  /\ mu' = NoOne => Phase' = "rest" /\ WantNow' = "none"
BY DEF Phase, WantNow

(* A transaction of Apply that fails, with or without its effect.            *)
LEMMA GivesUpMapped ==
  ASSUME IInv, NEW p \in Procs, mu = p, mu' = NoOne, UNCHANGED gates,
         Phase \in Outline!Failing,
         \/ SameView(chip, chip')
         \/ Phase = "reset" /\ EngineIn(chip') = "none" /\ RoutedIn(chip') = FALSE
         \/ /\ Phase = "configure" /\ RoutedIn(chip') = RoutedIn(chip)
            /\ EngineIn(chip') = IF WantNow = "any-motion" THEN "any-motion" ELSE "none"
         \/ Phase = "route" /\ RoutedIn(chip') = (WantNow # "none") /\ EngineIn(chip') = EngineIn(chip)
         \/ /\ Phase = "enable" /\ RoutedIn(chip') = RoutedIn(chip)
            /\ EngineIn(chip') = WantNow
  PROVE  Outline!GivesUp
<1>1. Phase' = "rest" /\ WantNow' = "none"
  BY PhaseFree
<1>2. Outline!Goto("rest") /\ UNCHANGED Outline!gates
  BY <1>1 DEF Outline!Goto, Outline!gates, Outline!None, gates, WantNow
<1>3. CASE SameView(chip, chip')
  BY <1>2, <1>3 DEF Outline!GivesUp, SameView, EngineIn, RoutedIn
<1>4. CASE Phase = "reset" /\ EngineIn(chip') = "none" /\ RoutedIn(chip') = FALSE
  BY <1>2, <1>4 DEF Outline!GivesUp, Outline!Erased, Outline!None, EngineIn, RoutedIn
<1>5. CASE /\ Phase = "configure" /\ RoutedIn(chip') = RoutedIn(chip)
           /\ EngineIn(chip') = IF WantNow = "any-motion" THEN "any-motion" ELSE "none"
  BY <1>2, <1>5 DEF Outline!GivesUp, Outline!Configured, Outline!None, EngineIn, RoutedIn, WantNow
<1>6. CASE Phase = "route" /\ RoutedIn(chip') = (WantNow # "none") /\ EngineIn(chip') = EngineIn(chip)
  BY <1>2, <1>6 DEF Outline!GivesUp, Outline!None, EngineIn, RoutedIn, WantNow
<1>7. CASE Phase = "enable" /\ RoutedIn(chip') = RoutedIn(chip) /\ EngineIn(chip') = WantNow
  BY <1>2, <1>7 DEF Outline!GivesUp, EngineIn, RoutedIn, WantNow
<1> QED BY <1>3, <1>4, <1>5, <1>6, <1>7

(* One bus write of the program is Configure, Settle, Route, Enable or       *)
(* nothing to the outline.                                                   *)
LEMMA WriteMapped ==
  ASSUME IInv, OutlineInv, NEW p \in Procs, Write(p)
  PROVE  Outline!Next \/ Stutters
<1> USE DEF subscriber, controller, gates, calls, history, bounds
<1> DEFINE P == want[p]
           w == Program(P)[next]
           d == Written(chip, w)
           mode == ModeOf[P]
<1>1. /\ chip \in Registers /\ P \in Profiles /\ next \in Nat \ {0}
      /\ mu = p /\ pc[p] = "program" /\ UNCHANGED gates
  BY DEF IInv, TypeOK, Write, Holds
<1>2. next \in 1 .. AllWrites[P] /\ next <= AllWrites[P]
  BY <1>1, ProgramType DEF Write, AllWrites
<1>3. Emptied(chip, P, next)
  BY <1>1 DEF OutlineInv
<1>m. mode \in {"any-motion", "slow-motion", "none"}
  BY <1>1, ModeFacts
<1>4. Phase = PhaseOfWrite(P, next) /\ Phase \in {"configure", "settle", "route", "enable"}
  BY <1>1, <1>2, PhaseNow, PhaseTable, PhaseOrder
<1>5. WantNow = mode
  BY <1>1, <1>4, PhaseNow
<1>6. /\ w.must \/ Phase = "settle"
      /\ Phase = "configure" =>
           /\ RoutedIn(d) = RoutedIn(chip)
           /\ EngineIn(d) = IF next = EngineWrites[P] /\ mode = "any-motion" THEN "any-motion" ELSE "none"
      /\ Phase = "settle" => SameView(chip, d)
      /\ Phase = "route" => RoutedIn(d) = (mode # "none") /\ EngineIn(d) = EngineIn(chip)
      /\ Phase = "enable" => RoutedIn(d) = RoutedIn(chip) /\ EngineIn(d) = "slow-motion"
  BY <1>1, <1>2, <1>3, <1>4, WriteView
<1>7. /\ Phase = "enable" => mode = "slow-motion"
      /\ Phase = "configure" => EngineIn(chip) = "none"
  <2>1. Phase = "configure" => next <= EngineWrites[P]
    BY <1>4 DEF PhaseOfWrite
  <2>2. Phase = "configure" => EngineIn(chip) = "none"
    BY <2>1, <1>2, <1>3 DEF Emptied, EngineIn
  <2>3. Phase = "enable" => mode = "slow-motion"
    BY <1>1, <1>4, PhaseOrder
  <2> QED BY <2>2, <2>3
<1>8. CASE GivesUp(p)
  <2>1. mu' = NoOne /\ chip' \in {chip, d} /\ Phase \in Outline!Failing
    BY <1>1, <1>4, <1>8, CallersAssumption DEF Write, GivesUp, Outline!Failing
  <2> HIDE DEF P, w, d, mode
  <2>2. CASE chip' = chip
    BY <1>1, <2>1, <2>2, GivesUpMapped DEF SameView, Outline!Next
  <2>3. CASE chip' = d /\ Phase = "configure"
    <3>1. SameView(chip, chip') \/ (RoutedIn(chip') = RoutedIn(chip)
             /\ EngineIn(chip') = IF WantNow = "any-motion" THEN "any-motion" ELSE "none")
      BY <1>5, <1>6, <1>7, <2>3 DEF SameView
    <3> QED BY <1>1, <2>1, <2>3, <3>1, GivesUpMapped DEF Outline!Next
  <2>4. CASE chip' = d /\ Phase = "settle"
    BY <1>1, <1>6, <2>1, <2>4, GivesUpMapped DEF Outline!Next
  <2>5. CASE chip' = d /\ Phase = "route"
    BY <1>1, <1>5, <1>6, <2>1, <2>5, GivesUpMapped DEF Outline!Next
  <2>6. CASE chip' = d /\ Phase = "enable"
    BY <1>1, <1>5, <1>6, <1>7, <2>1, <2>6, GivesUpMapped DEF Outline!Next
  <2> QED BY <1>4, <2>1, <2>2, <2>3, <2>4, <2>5, <2>6
<1>9. CASE next' = next + 1 /\ UNCHANGED << mu, pc, want >>
  <2>1. chip' = d \/ (chip' = chip /\ Phase = "settle")
    BY <1>1, <1>6, <1>9, CallersAssumption DEF Write, GivesUp
  <2>2. Phase' = PhaseOfWrite(P, next + 1)
    BY <1>1, <1>9, PhaseNow, PhaseTable
  <2>3. WantNow' = IF Phase' = "rest" THEN "none" ELSE mode
    BY <1>1, <1>9, PhaseNow
  <2>4. /\ Phase = "configure" => Phase' = IF next = EngineWrites[P] THEN "settle" ELSE "configure"
        /\ Phase = "settle" => Phase' \in {"settle", "route"}
        /\ Phase = "route" => Phase' \in {"route", AfterRoute(mode)}
        /\ Phase = "enable" => Phase' = "openPoller"
    BY <1>1, <1>4, <2>2, PhaseOrder
  <2> DEFINE stopped == next = EngineWrites[P]
  <2> HIDE DEF P, w, d, mode, stopped
  <2>g. \A step : Phase' = step => Outline!Goto(step)
    BY <1>5, <2>3 DEF Outline!Goto, Outline!None, WantNow
  <2>u. UNCHANGED Outline!gates
    BY <1>1 DEF Outline!gates
  <2>5. CASE Phase = "configure"
    <3>1. CASE stopped
      <4>1. Outline!Goto("settle")
        BY <2>4, <2>5, <2>g, <3>1 DEF stopped
      <4>2. RoutedIn(chip') = RoutedIn(chip)
            /\ EngineIn(chip') = IF WantNow = "any-motion" THEN "any-motion" ELSE "none"
        BY <1>5, <1>6, <2>1, <2>5, <3>1 DEF stopped
      <4>3. Outline!Configure
        BY <2>5, <2>u, <4>1, <4>2
           DEF Outline!Configure, Outline!Configured, Outline!None, EngineIn, RoutedIn, WantNow
      <4> QED BY <4>3 DEF Outline!Next, Outline!Step
    <3>2. CASE ~stopped
      <4>1. Phase' = Phase /\ WantNow' = WantNow
        BY <1>5, <2>3, <2>4, <2>5, <3>2 DEF stopped
      <4>2. SameView(chip, chip')
        BY <1>6, <1>7, <2>1, <2>5, <3>2 DEF SameView, stopped
      <4> QED BY <1>1, <4>1, <4>2 DEF Stutters
    <3> QED BY <3>1, <3>2
  <2>6. CASE Phase = "settle"
    <3>1. SameView(chip, chip')
      BY <1>6, <2>1, <2>6 DEF SameView
    <3>2. CASE Phase' = "settle"
      BY <1>1, <1>5, <2>3, <2>6, <3>1, <3>2 DEF Stutters
    <3>3. CASE Phase' = "route"
      <4>1. Outline!Settle
        BY <2>6, <2>g, <2>u, <3>1, <3>3 DEF Outline!Settle, SameView, EngineIn, RoutedIn
      <4> QED BY <4>1 DEF Outline!Next, Outline!Step
    <3> QED BY <2>4, <2>6, <3>2, <3>3
  <2>7. CASE Phase = "route"
    <3>1. RoutedIn(chip') = (WantNow # "none") /\ EngineIn(chip') = EngineIn(chip)
      BY <1>5, <1>6, <2>1, <2>7
    <3>2. Outline!Goto("route") \/ Outline!Goto(AfterRoute(WantNow))
      BY <1>5, <2>4, <2>7, <2>g
    <3>3. Outline!AfterRoute = AfterRoute(WantNow)
      BY DEF Outline!AfterRoute, Outline!None, AfterRoute, WantNow
    <3>4. Outline!Route
      BY <2>7, <2>u, <3>1, <3>2, <3>3 DEF Outline!Route, Outline!None, EngineIn, RoutedIn, WantNow
    <3> QED BY <3>4 DEF Outline!Next, Outline!Step
  <2>8. CASE Phase = "enable"
    <3>1. RoutedIn(chip') = RoutedIn(chip) /\ EngineIn(chip') = WantNow
      BY <1>5, <1>6, <1>7, <2>1, <2>8
    <3>2. Outline!Goto("openPoller")
      BY <2>4, <2>8, <2>g
    <3>3. Outline!Enable
      BY <2>8, <2>u, <3>1, <3>2 DEF Outline!Enable, EngineIn, RoutedIn, WantNow
    <3> QED BY <3>3 DEF Outline!Next, Outline!Step
  <2> QED BY <1>4, <2>5, <2>6, <2>7, <2>8
<1> QED BY <1>8, <1>9 DEF Write

(* Every step of Apply is one of the outline, or nothing to it.              *)
LEMMA ApplyMapped ==
  ASSUME IInv, OutlineInv, NEW p \in Procs, ApplyStep(p)
  PROVE  Outline!Next \/ Stutters
<1> USE DEF subscriber, controller, gates, calls, history, bounds
<1>t. chip \in Registers /\ want[p] \in Profiles /\ next \in Nat \ {0} /\ NoOne \notin Procs
  BY CallersAssumption DEF IInv, TypeOK
<1>s. SameView(chip, chip)
  BY DEF SameView
<1>1. CASE Lock(p)
  <2>1. Phase = "rest" /\ WantNow = "none"
    BY <1>1, PhaseFree DEF Lock
  <2>2. mu' = p /\ pc'[p] = "disablePoller"
    BY <1>1, Moves DEF Lock
  <2>3. Phase' = "rest" /\ WantNow' = "none"
    BY <2>2, PhaseNow, PhaseTable
  <2> QED BY <1>1, <1>s, <2>1, <2>3 DEF Lock, Stutters
<1>2. CASE Skip(p)
  BY <1>2, <1>s, PhaseFree DEF Skip, Stutters
<1>3. CASE DisablePoller(p)
  <2>1. mu = p /\ mu' = p /\ pc[p] = "disablePoller" /\ pc'[p] = "disableWatcher" /\ want' = want
        /\ pollerOn' = FALSE /\ watcherOn' = watcherOn /\ chip' = chip
    BY <1>3, Moves DEF DisablePoller, Holds
  <2>2. Phase = "rest" /\ Phase' = "disableWatcher"
    BY <2>1, PhaseNow, PhaseTable
  <2>3. WantNow' = ModeOf[want[p]]
    BY <2>1, <2>2, PhaseNow
  <2>4. ModeOf[want[p]] \in Outline!Engines \cup {Outline!None}
    BY <1>t, ModeFacts DEF Outline!Engines, Outline!None
  <2>5. Outline!DisablePoller(ModeOf[want[p]])
    BY <2>1, <2>2, <2>3 DEF Outline!DisablePoller, WantNow
  <2> QED BY <2>4, <2>5 DEF Outline!Next
<1>4. CASE DisableWatcher(p)
  <2>1. mu = p /\ mu' = p /\ pc[p] = "disableWatcher" /\ pc'[p] = "accelReset" /\ want' = want
        /\ watcherOn' = FALSE /\ pollerOn' = pollerOn /\ chip' = chip
    BY <1>4, Moves DEF DisableWatcher, Holds
  <2>2. Phase = "disableWatcher" /\ Phase' = "reset"
    BY <2>1, PhaseNow, PhaseTable
  <2>3. WantNow' = WantNow
    BY <2>1, <2>2, PhaseNow
  <2>4. Outline!DisableWatcher
    BY <2>1, <2>2, <2>3 DEF Outline!DisableWatcher, Outline!Goto, WantNow
  <2> QED BY <2>4 DEF Outline!Next, Outline!Step
<1>5. CASE AccelReset(p)
  <2>1. mu = p /\ pc[p] = "accelReset" /\ UNCHANGED gates
    BY <1>5 DEF AccelReset, Holds
  <2>2. Phase = "reset"
    BY <2>1, PhaseNow, PhaseTable
  <2>v. EngineIn(AccelErased(chip)) = "none" /\ RoutedIn(AccelErased(chip)) = FALSE
    BY <1>t, StrayView
  <2>3. CASE chip' = AccelErased(chip) /\ Goto(p, "gyroReset") /\ UNCHANGED << mu, want >>
    <3>1. mu' = p /\ pc'[p] = "gyroReset"
      BY <2>1, <2>3, Moves
    <3>2. Phase' = "configure"
      BY <3>1, PhaseNow, PhaseTable
    <3>3. WantNow' = WantNow
      BY <2>1, <2>2, <2>3, <3>1, <3>2, PhaseNow
    <3>4. EngineIn(chip') = "none" /\ RoutedIn(chip') = FALSE
      BY <2>3, <2>v
    <3>5. Outline!Reset
      BY <2>1, <2>2, <3>2, <3>3, <3>4
         DEF Outline!Reset, Outline!Goto, Outline!Erased, Outline!None, Outline!gates, EngineIn, RoutedIn, WantNow
    <3> QED BY <3>5 DEF Outline!Next, Outline!Step
  <2>4. CASE GivesUp(p) /\ chip' \in {chip, AccelErased(chip)}
    <3>1. mu' = NoOne /\ Phase \in Outline!Failing
      BY <2>2, <2>4 DEF GivesUp, Outline!Failing
    <3>2. CASE chip' = chip
      <4>1. SameView(chip, chip')
        BY <1>s, <3>2
      <4> QED BY <2>1, <2>2, <3>1, <4>1, GivesUpMapped DEF Outline!Next
    <3>3. CASE chip' = AccelErased(chip)
      <4>1. EngineIn(chip') = "none" /\ RoutedIn(chip') = FALSE
        BY <2>v, <3>3
      <4> QED BY <2>1, <2>2, <3>1, <4>1, GivesUpMapped DEF Outline!Next
    <3> QED BY <2>4, <3>2, <3>3
  <2> QED BY <1>5, <2>3, <2>4 DEF AccelReset
<1>6. CASE GyroReset(p)
  <2>1. mu = p /\ pc[p] = "gyroReset" /\ UNCHANGED gates /\ chip' \in {chip, GyroErased(chip)}
    BY <1>6 DEF GyroReset, Holds
  <2>2. Phase = "configure"
    BY <2>1, PhaseNow, PhaseTable
  <2>v. SameView(chip, chip')
    BY <1>s, <1>t, <2>1, StrayView
  <2>3. CASE Goto(p, "program") /\ next' = 1 /\ UNCHANGED << mu, want >>
    <3>1. mu' = p /\ pc'[p] = "program"
      BY <2>1, <2>3, Moves
    <3>2. Phase' = "configure"
      BY <1>t, <2>3, <3>1, PhaseNow, PhaseTable, PhaseOrder
    <3>3. WantNow' = WantNow
      BY <2>1, <2>2, <2>3, <3>1, <3>2, PhaseNow
    <3> QED BY <2>1, <2>2, <2>v, <3>2, <3>3 DEF Stutters
  <2>4. CASE GivesUp(p)
    <3>1. mu' = NoOne /\ Phase \in Outline!Failing
      BY <2>2, <2>4 DEF GivesUp, Outline!Failing
    <3> QED BY <2>1, <2>v, <3>1, GivesUpMapped DEF Outline!Next
  <2> QED BY <1>6, <2>3, <2>4 DEF GyroReset
<1>7. CASE Write(p)
  BY <1>7, WriteMapped
<1>8. CASE ProgramDone(p)
  <2>1. mu = p /\ mu' = p /\ pc[p] = "program" /\ want' = want /\ UNCHANGED << gates, chip >>
        /\ pc'[p] = IF Configs(want[p]).enable THEN "enablePoller" ELSE "commit"
    BY <1>8, Moves DEF ProgramDone, Holds
  <2>2. next > AllWrites[want[p]]
    <3>1. Len(Program(want[p])) \in Nat /\ next \notin 1 .. Len(Program(want[p]))
      BY <1>8, <1>t, ProgramType DEF ProgramDone
    <3> QED BY <1>t, <3>1 DEF AllWrites
  <2>3. Phase = IF Configs(want[p]).enable THEN "openPoller" ELSE "rest"
    BY <1>t, <2>1, <2>2, PhaseNow, PhaseTable, PhaseOrder, ModeFacts
  <2>4. Phase' = IF Configs(want[p]).enable THEN "openPoller" ELSE "rest"
    BY <2>1, PhaseNow, PhaseTable
  <2>5. WantNow' = WantNow
    BY <2>1, <2>3, <2>4, PhaseNow
  <2> QED BY <1>s, <2>1, <2>3, <2>4, <2>5 DEF Stutters
<1>9. CASE EnablePoller(p)
  <2>1. mu = p /\ mu' = p /\ pc[p] = "enablePoller" /\ pc'[p] = "enableWatcher" /\ want' = want
        /\ pollerOn' = TRUE /\ watcherOn' = watcherOn /\ chip' = chip
    BY <1>9, Moves DEF EnablePoller, Holds
  <2>2. Phase = "openPoller" /\ Phase' = "openWatcher"
    BY <2>1, PhaseNow, PhaseTable
  <2>3. WantNow' = WantNow
    BY <2>1, <2>2, PhaseNow
  <2>4. Outline!OpenPoller
    BY <2>1, <2>2, <2>3 DEF Outline!OpenPoller, Outline!Goto, WantNow
  <2> QED BY <2>4 DEF Outline!Next, Outline!Step
<1>10. CASE EnableWatcher(p)
  <2>1. mu = p /\ mu' = p /\ pc[p] = "enableWatcher" /\ pc'[p] = "commit" /\ want' = want
        /\ pollerOn' = pollerOn /\ watcherOn' \in BOOLEAN /\ chip' = chip
    BY <1>10, Moves, FlagsAssumption DEF EnableWatcher, Holds
  <2>2. Phase = "openWatcher" /\ Phase' = "rest"
    BY <2>1, PhaseNow, PhaseTable
  <2>3. WantNow' = "none"
    BY <2>1, <2>2, PhaseNow
  <2>4. Outline!OpenWatcher
    BY <2>1, <2>2, <2>3 DEF Outline!OpenWatcher, Outline!Goto, Outline!None, WantNow
  <2> QED BY <2>4 DEF Outline!Next, Outline!Step
<1>11. CASE Commit(p)
  <2>1. mu = p /\ mu' = NoOne /\ pc[p] = "commit" /\ UNCHANGED << gates, chip >>
    BY <1>11 DEF Commit, Holds
  <2>2. Phase = "rest" /\ Phase' = "rest" /\ WantNow' = "none"
    BY <2>1, PhaseNow, PhaseTable, PhaseFree
  <2>3. WantNow = "none"
    BY <2>1, <2>2, PhaseNow
  <2> QED BY <1>s, <2>1, <2>2, <2>3 DEF Stutters
<1> QED BY <1>1, <1>2, <1>3, <1>4, <1>5, <1>6, <1>7, <1>8, <1>9, <1>10, <1>11 DEF ApplyStep

(* A step outside Apply resets the chip beside it, or is nothing to it.      *)
LEMMA ApartMapped ==
  ASSUME IInv, NEW c \in Procs, Apart(c)
  PROVE  Outline!Next \/ Stutters
<1>1. chip \in Registers /\ mu \in Procs \cup {NoOne} /\ UNCHANGED gates
  BY DEF IInv, TypeOK, Apart
<1>2. Phase' = Phase /\ WantNow' = WantNow
  <2>1. CASE mu = NoOne
    BY <2>1, PhaseFree DEF Apart
  <2>2. CASE mu \in Procs
    <3>1. mu # c
      BY <2>2 DEF IInv, GateInv, LockInv, Apart
    <3>2. pc'[mu] = pc[mu] /\ want'[mu] = want[mu] /\ next' = next /\ mu' = mu
      BY <2>2, <3>1 DEF Apart
    <3> QED BY <2>2, <3>2 DEF Phase, WantNow
  <2> QED BY <1>1, <2>1, <2>2
<1>3. CASE chip' = AccelErased(chip)
  <2>1. EngineIn(chip') = "none" /\ RoutedIn(chip') = FALSE
    BY <1>1, <1>3, StrayView
  <2>2. Outline!OtherReset
    BY <1>1, <1>2, <2>1
       DEF Outline!OtherReset, Outline!Erased, Outline!None, Outline!gates, gates, EngineIn, RoutedIn, WantNow
  <2> QED BY <2>2 DEF Outline!Next
<1>4. CASE chip' # AccelErased(chip)
  <2>1. SameView(chip, chip')
    BY <1>1, <1>4, StrayView DEF Apart, SameView
  <2> QED BY <1>1, <1>2, <2>1 DEF Stutters
<1> QED BY <1>3, <1>4

(* InterruptPath's Apply is the controller's: whoever calls it, whatever     *)
(* fails and wherever the process dies, gates, engine and routing change in  *)
(* the order of ApplyOutline only.                                           *)
THEOREM OutlineImplemented == Spec => OutlineSpec
<1>1. Init => Outline!Init
  <2> SUFFICES ASSUME Init PROVE Outline!Init
    OBVIOUS
  <2>1. mu = NoOne /\ ~pollerOn /\ ~watcherOn /\ pollerOn \in BOOLEAN /\ watcherOn \in BOOLEAN
    BY DEF Init, Fresh
  <2>2. Phase = "rest" /\ WantNow = "none"
    BY <2>1, PhaseFree
  <2>3. EngineIn(chip) \in {"any-motion", "slow-motion", "none"} /\ RoutedIn(chip) \in BOOLEAN
    BY DEF EngineIn, RoutedIn
  <2>4. Outline!TypeOK
    BY <2>1, <2>2, <2>3 DEF Outline!TypeOK, Outline!Engines, Outline!None, Outline!Steps, EngineIn, RoutedIn, WantNow
  <2> QED BY <2>1, <2>2, <2>4 DEF Outline!Init, Outline!None, WantNow
<1>2. IInv /\ OutlineInv /\ [Next]_vars => [Outline!Next]_Outline!outline
  <2> SUFFICES ASSUME IInv, OutlineInv, [Next]_vars
               PROVE  Outline!Next \/ UNCHANGED Outline!outline
    OBVIOUS
  <2>1. Stutters => UNCHANGED Outline!outline
    BY DEF Stutters, SameView, Outline!outline, Outline!gates, gates, EngineIn, RoutedIn, WantNow
  <2>2. CASE Restart
    <3>1. mu' = NoOne /\ pollerOn' = FALSE /\ watcherOn' = FALSE /\ chip' = chip
      BY <2>2 DEF Restart
    <3>2. Phase' = "rest" /\ WantNow' = "none"
      BY <3>1, PhaseFree
    <3>3. Outline!Dies
      BY <3>1, <3>2 DEF Outline!Dies, Outline!None, WantNow
    <3> QED BY <3>3 DEF Outline!Next
  <2>3. CASE UNCHANGED vars
    <3>1. UNCHANGED << mu, pc, want, next, chip, gates >>
      BY <2>3 DEF vars, controller, calls
    <3>2. Phase' = Phase /\ WantNow' = WantNow
      BY <3>1 DEF Phase, PhaseOf, PhaseOfWrite, WantNow
    <3> QED BY <2>1, <3>1, <3>2 DEF Stutters, SameView
  <2>4. Outline!Next \/ Stutters \/ Restart \/ UNCHANGED vars
    BY ApplyMapped, CallApart, RequestApart, ApartMapped DEF Next
  <2> QED BY <2>1, <2>2, <2>3, <2>4
<1> QED BY <1>1, <1>2, Inductive, OutlineKept, PTL DEF Spec, OutlineSpec, Outline!Spec
=============================================================================
