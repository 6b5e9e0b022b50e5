--------------------------- MODULE PollRateProofs ---------------------------
(***************************************************************************)
(* Theorems about PollRate, for every set of callers and rates and every   *)
(* number of requests and failures: a rate is never stored without someone *)
(* to tell the poller (NoLostWakeup), the request that is served alone     *)
(* has the last word (LastWordHeard), streaming stops after one reading    *)
(* (StreamStops), a service that is up holds its sensors (SensorsHeld),    *)
(* and only a missing magnetometer can make it panic.                      *)
(***************************************************************************)
EXTENDS PollRate, Sequences, TLAPS

Labels ==
  {At(step, p, r) : step \in SetSteps, p \in Pollers, r \in Rates}
    \cup {Tells(r) : r \in Rates} \cup {TellsOn, TellsOff, Idle, Panicked}

(* What a request in service has done so far, when no other disturbs it. *)
Served(s) ==
  LET r == setter[s].rate
      on(p) == setter[s].at \in SetSteps /\ setter[s].poller = p
  IN
  /\ lastWord = "vehicle" => s = Vehicle /\ setter[s].at \in SetSteps \cup {"panicked"}
  /\ lastWord = "set-polling" => s # Vehicle /\ setter[s].at \in SetSteps \cup {"hset", "panicked"}
  /\ lastWord = "set-streaming" => setter[s] = IF streaming THEN TellsOn ELSE TellsOff
  /\ Stands(s, "send", "sensor") \/ on("mag") \/ setter[s].at = "hset" => rate["sensor"] = r
  /\ Stands(s, "send", "mag") \/ setter[s].at = "hset" => rate["mag"] = r

(* While there is a last word, it is the word of the only setter in service. *)
LoneInv ==
  lastWord # "none" =>
    /\ \A s, t \in InService : s = t
    /\ \A s \in InService : Served(s)

(* A reading after the end of streaming is that of a poll begun before. *)
StreamInv ==
  /\ streaming \/ running["sensor"] = "poll" => late = 0
  /\ late \in {0, 1}

-----------------------------------------------------------------------------
(* A label of one kind is not a label of another. *)
LEMMA LabelFacts ==
  /\ \A l \in Labels : l = [at |-> l.at, poller |-> l.poller, rate |-> l.rate]
  /\ \A l \in Labels : l.at \in SetSteps => l.poller \in Pollers /\ l.rate \in Rates
  /\ \A l \in Labels : l.at = "hset" => l.rate \in Rates
  /\ \A l \in Labels : l.at \in SetSteps \cup {"hset", "on", "off", "idle", "panicked"}
  /\ \A l \in Labels : (l.at = "idle" <=> l = Idle) /\ (l.at = "on" <=> l = TellsOn)
                       /\ (l.at = "off" <=> l = TellsOff) /\ (l.at = "panicked" <=> l = Panicked)
  /\ {Idle, Panicked, TellsOn, TellsOff} \subseteq Labels
  /\ \A step \in SetSteps, p \in Pollers, r \in Rates : At(step, p, r) \in Labels
  /\ \A r \in Rates : Tells(r) \in Labels
<1>2. {Idle, Panicked, TellsOn, TellsOff} \subseteq Labels
  BY DEF Labels
<1>3. \A step \in SetSteps, p \in Pollers, r \in Rates : At(step, p, r) \in Labels
  BY DEF Labels
<1>4. \A r \in Rates : Tells(r) \in Labels
  BY DEF Labels
<1>1. ASSUME NEW l \in Labels
      PROVE  /\ l = [at |-> l.at, poller |-> l.poller, rate |-> l.rate]
             /\ l.at \in SetSteps => l.poller \in Pollers /\ l.rate \in Rates
             /\ l.at = "hset" => l.rate \in Rates
             /\ l.at \in SetSteps \cup {"hset", "on", "off", "idle", "panicked"}
             /\ (l.at = "idle" <=> l = Idle) /\ (l.at = "on" <=> l = TellsOn)
             /\ (l.at = "off" <=> l = TellsOff) /\ (l.at = "panicked" <=> l = Panicked)
  <2> USE DEF At, Tells, TellsOn, TellsOff, Idle, Panicked, SetSteps
  <2>1. CASE \E step \in SetSteps, p \in Pollers, r \in Rates : l = At(step, p, r)
    BY <2>1
  <2>2. CASE \E r \in Rates : l = Tells(r)
    BY <2>2
  <2>3. CASE l \in {TellsOn, TellsOff, Idle, Panicked}
    BY <2>3
  <2> QED BY <2>1, <2>2, <2>3 DEF Labels
<1> QED BY <1>1, <1>2, <1>3, <1>4

(* The types of the variables the start-up leaves alone. *)
RateTypes ==
  /\ rate \in [Pollers -> Rates] /\ ticker \in [Pollers -> Rates]
  /\ signal \in [Pollers -> BOOLEAN]
  /\ running \in [Pollers -> {"load", "wait", "poll", "absent"}]
  /\ streaming \in BOOLEAN /\ rateField \in Rates /\ streamField \in BOOLEAN
  /\ setter \in [Setters -> Labels]
  /\ sets \in 0 .. MaxSets
  /\ lastWord \in {"none", "vehicle", "set-polling", "set-streaming"} /\ late \in Nat

(* Together with those of the start-up they are the type invariant. *)
LEMMA TypeParts ==
  /\ TypeOK <=> Startup!TypeOK /\ RateTypes
  /\ TypeOK' <=> Startup!TypeOK' /\ RateTypes'
BY DEF TypeOK, RateTypes, Labels

(* The start-up keeps its types. *)
LEMMA StartupTypes ==
  ASSUME Startup!TypeOK, Startup!Step \/ Startup!Released \/ StartPollers \/ UNCHANGED startup
  PROVE  Startup!TypeOK'
<1>d. Len(Startup!Devices) = 3
  BY DEF Startup!Devices
<1>a. Attempts \in Nat \ {0} /\ MaxFaults \in Nat
  BY StartupAssumption
<1> USE <1>d, <1>a DEF Startup!TypeOK
<1>f. Startup!Fault => faults' \in 0 .. MaxFaults
  BY DEF Startup!Fault
<1>g. ASSUME NEW step \in {"unbind", "detach", "open", "exited", "ready", "up"}, NEW d \in 1 .. 3,
             Startup!Goto(step, d)
      PROVE  boot' = step /\ at' = d /\ tries' = 0
  BY <1>g DEF Startup!Goto
<1>n. ASSUME NEW step \in {"unbind", "open"}, NEW after \in {"open", "ready"},
             Startup!NextDevice(step, after)
      PROVE  boot' \in {step, after} /\ at' \in 1 .. 3 /\ tries' = 0
  BY <1>n DEF Startup!NextDevice, Startup!Goto, Startup!Last
<1>1. CASE Startup!Unbind
  <2>1. faults' \in 0 .. MaxFaults
    BY <1>1, <1>f DEF Startup!Unbind
  <2>2. driver' \in [1 .. 3 -> {"bound", "releasing", "free"}] /\ found' \in BOOLEAN
    BY <1>1 DEF Startup!Unbind
  <2>3. boot' \in {"unbind", "open", "detach"} /\ at' \in 1 .. 3 /\ tries' = 0
    BY <1>1, <1>n, <1>g DEF Startup!Unbind
  <2> QED BY <2>1, <2>2, <2>3
<1>2. CASE Startup!WaitForDetach
  <2>1. boot' \in {"unbind", "open"} /\ at' \in 1 .. 3 /\ tries' = 0
    BY <1>2, <1>n, <1>g DEF Startup!WaitForDetach
  <2> QED BY <1>2, <1>f, <2>1 DEF Startup!WaitForDetach
<1>3. CASE Startup!Opens
  BY <1>3, <1>n DEF Startup!Opens, Startup!Last
<1>4. CASE Startup!OpenFails
  <2>1. faults' \in 0 .. MaxFaults
    BY <1>4, <1>f DEF Startup!OpenFails, Startup!Refused
  <2> QED BY <1>4, <1>g, <2>1 DEF Startup!OpenFails
<1>5. CASE Startup!Restart
  BY <1>5, <1>g DEF Startup!Restart
<1>6. CASE Startup!Released
  BY <1>6 DEF Startup!Released
<1>7. CASE StartPollers \/ UNCHANGED startup
  BY <1>7 DEF StartPollers, startup
<1> QED BY <1>1, <1>2, <1>3, <1>4, <1>5, <1>6, <1>7 DEF Startup!Step

-----------------------------------------------------------------------------
(* A setter moves to another label and the others stay where they are. *)
LEMMA GotoFacts ==
  ASSUME RateTypes, NEW s \in Setters, NEW l \in Labels, Goto(s, l)
  PROVE  /\ setter' \in [Setters -> Labels] /\ setter'[s] = l
         /\ \A t \in Setters : t # s => setter'[t] = setter[t]
BY DEF RateTypes, Goto

(* When SetRate returns, the setter is at the next poller or done.           *)
LEMMA ReturnsFacts ==
  ASSUME RateTypes, NEW s \in Setters, NEW p \in Pollers, setter[s].at \in SetSteps, Returns(s, p)
  PROVE  \E l \in Labels :
           /\ Goto(s, l)
           /\ l = IF p = "sensor" THEN At("check", "mag", setter[s].rate)
                  ELSE IF s = Vehicle THEN Idle ELSE Tells(setter[s].rate)
<1>1. setter[s].rate \in Rates
  BY LabelFacts DEF RateTypes
<1>2. "mag" \in Pollers /\ "check" \in SetSteps
  BY DEF Pollers, SetSteps
<1> QED BY <1>1, <1>2, LabelFacts DEF Returns

(* The requests keep the types. *)
LEMMA TypeRequests ==
  ASSUME RateTypes, handleVehicleState \/ setPolling \/ setStreaming
  PROVE  RateTypes'
<1>1. ASSUME NEW s \in Setters, NEW method \in {"vehicle", "set-polling", "set-streaming"},
             NEW l \in Labels, Arrives(s, method), Goto(s, l)
      PROVE  /\ setter' \in [Setters -> Labels] /\ sets' \in 0 .. MaxSets
             /\ lastWord' \in {"none", "vehicle", "set-polling", "set-streaming"}
  <2>1. sets' \in 0 .. MaxSets
    BY <1>1, RatesAssumption DEF Arrives, RateTypes
  <2> QED BY <1>1, <2>1, GotoFacts DEF Arrives
<1>2. ASSUME NEW s \in Setters, NEW method \in {"vehicle", "set-polling"}, NEW r \in Rates,
             SetsRate(s, method, r)
      PROVE  RateTypes'
  <2>1. At("check", "sensor", r) \in Labels
    BY LabelFacts DEF Pollers, SetSteps
  <2> QED BY <1>1, <1>2, <2>1 DEF SetsRate, RateTypes, pollers, fields
<1>3. CASE handleVehicleState
  BY <1>2, <1>3 DEF handleVehicleState, Setters, Rates
<1>4. CASE setPolling
  BY <1>2, <1>4 DEF setPolling, Setters, Rates
<1>5. CASE setStreaming
  <2>1. PICK c \in Callers, enabled \in BOOLEAN :
          /\ Arrives(c, "set-streaming")
          /\ streaming' = enabled /\ late' = (IF enabled THEN 0 ELSE late)
          /\ Goto(c, IF enabled THEN TellsOn ELSE TellsOff)
          /\ UNCHANGED << startup, pollers, fields >>
    BY <1>5 DEF setStreaming
  <2>2. (IF enabled THEN TellsOn ELSE TellsOff) \in Labels
    BY LabelFacts
  <2> QED BY <1>1, <2>1, <2>2 DEF RateTypes, pollers, fields, Setters
<1> QED BY <1>3, <1>4, <1>5

(* So do the steps of SetRate and the HSETs. *)
LEMMA TypeSetters ==
  ASSUME RateTypes, NEW s \in Setters, SetStep(s)
  PROVE  RateTypes'
<1>r. setter[s].at \in SetSteps \cup {"hset"} => setter[s].rate \in Rates
  BY LabelFacts DEF RateTypes
<1>1. ASSUME NEW p \in Pollers, Check(s, p) \/ Store(s, p) \/ Send(s, p)
      PROVE  RateTypes'
  <2>s. setter[s].at \in SetSteps
    BY <1>1 DEF Check, Store, Send, Stands, SetSteps
  <2>1. \E l \in Labels : Goto(s, l)
    <3>1. Panicked \in Labels
      BY LabelFacts
    <3>2. At("store", p, setter[s].rate) \in Labels /\ At("send", p, setter[s].rate) \in Labels
      BY <1>r, <2>s, LabelFacts DEF SetSteps
    <3> QED BY <1>1, <2>s, <3>1, <3>2, ReturnsFacts DEF Check, Store, Send
  <2>2. setter' \in [Setters -> Labels]
    BY <2>1, GotoFacts
  <2>3. rate' \in [Pollers -> Rates] /\ signal' \in [Pollers -> BOOLEAN]
    BY <1>1, <1>r, <2>s DEF Check, Store, Send, RateTypes, pollers
  <2> QED BY <1>1, <2>2, <2>3 DEF Check, Store, Send, RateTypes, pollers, fields, history
<1>2. CASE UpdateStatusField(s)
  <2>1. setter' \in [Setters -> Labels]
    BY <1>2, GotoFacts, LabelFacts DEF UpdateStatusField
  <2>2. rateField' \in Rates /\ streamField' \in BOOLEAN
    BY <1>2, <1>r DEF UpdateStatusField, RateTypes, fields
  <2>3. lastWord' \in {"none", "vehicle", "set-polling", "set-streaming"}
    BY <1>2 DEF UpdateStatusField, RateTypes
  <2> QED BY <1>2, <2>1, <2>2, <2>3 DEF UpdateStatusField, RateTypes, pollers
<1> QED BY <1>1, <1>2 DEF SetStep

(* And the pollers.                                                         *)
LEMMA TypePollers ==
  ASSUME RateTypes,
         (\E p \in Pollers : Load(p) \/ RateChange(p) \/ Tick(p) \/ Poll(p)) \/ StartPollers
  PROVE  RateTypes'
<1>1. ASSUME NEW p \in Pollers, Load(p) PROVE RateTypes'
  BY <1>1 DEF Load, RateTypes, fields, history
<1>2. ASSUME NEW p \in Pollers, RateChange(p) PROVE RateTypes'
  BY <1>2 DEF RateChange, RateTypes, fields, history
<1>3. ASSUME NEW p \in Pollers, Tick(p) PROVE RateTypes'
  BY <1>3 DEF Tick, RateTypes, fields, history
<1>4. ASSUME NEW p \in Pollers, Poll(p) PROVE RateTypes'
  BY <1>4 DEF Poll, RateTypes, fields
<1>5. CASE StartPollers
  BY <1>5 DEF StartPollers, RateTypes, fields, history
<1> QED BY <1>1, <1>2, <1>3, <1>4, <1>5

(* PollRate keeps its types. *)
THEOREM TypeCorrect == Spec => []TypeOK
<1>1. Init => TypeOK
  <2> SUFFICES ASSUME Init PROVE Startup!TypeOK /\ RateTypes
    BY TypeParts
  <2>1. Startup!TypeOK
    <3>1. 1 \in 1 .. Len(Startup!Devices)
      BY DEF Startup!Devices
    <3>2. driver \in [1 .. Len(Startup!Devices) -> {"bound", "releasing", "free"}]
      BY DEF Init, Startup!Init
    <3>3. tries = 0 /\ faults = 0 /\ boot = "unbind" /\ at = 1 /\ found \in BOOLEAN
      BY DEF Init, Startup!Init
    <3>4. 0 \in 0 .. Attempts - 1 /\ 0 \in 0 .. MaxFaults
      BY StartupAssumption
    <3> QED BY <3>1, <3>2, <3>3, <3>4 DEF Startup!TypeOK
  <2>2. InitialRate \in Rates /\ 0 \in 0 .. MaxSets /\ Idle \in Labels
    BY RatesAssumption, LabelFacts DEF Rates
  <2> QED BY <2>1, <2>2 DEF Init, RateTypes
<1>2. TypeOK /\ [Next]_vars => TypeOK'
  <2> SUFFICES ASSUME Startup!TypeOK, RateTypes, [Next]_vars PROVE Startup!TypeOK' /\ RateTypes'
    BY TypeParts
  <2>k. UNCHANGED << pollers, streaming, fields, setter, history >> => RateTypes'
    BY DEF RateTypes, pollers, fields, history
  <2>1. CASE Starts \/ Released
    BY <2>1, <2>k, StartupTypes, TypePollers DEF Starts, Released, Apart
  <2>2. CASE handleVehicleState \/ setPolling \/ setStreaming
    <3>1. UNCHANGED startup
      BY <2>2 DEF handleVehicleState, setPolling, setStreaming, SetsRate
    <3> QED BY <2>2, <3>1, StartupTypes, TypeRequests
  <2>3. CASE \E s \in Setters : SetStep(s)
    <3>1. UNCHANGED startup
      BY <2>3 DEF SetStep, Check, Store, Send, UpdateStatusField
    <3> QED BY <2>3, <3>1, StartupTypes, TypeSetters
  <2>4. CASE \E p \in Pollers : Load(p) \/ RateChange(p) \/ Tick(p) \/ Poll(p)
    <3>1. UNCHANGED startup
      BY <2>4 DEF Load, RateChange, Tick, Poll
    <3> QED BY <2>4, <3>1, StartupTypes, TypePollers
  <2>5. CASE UNCHANGED vars
    BY <2>5, <2>k, StartupTypes DEF vars
  <2> QED BY <2>1, <2>2, <2>3, <2>4, <2>5 DEF Next
<1> QED BY <1>1, <1>2, PTL DEF Spec

-----------------------------------------------------------------------------
(* Which steps touch a poller's rate, its token or its place in Run.         *)
LEMMA SendersStay ==
  ASSUME RateTypes, NEW s \in Setters, NEW t \in Setters, NEW p \in Pollers,
         NEW l \in Labels, Goto(s, l), Stands(t, "send", p), t # s \/ setter[s].at # "send"
  PROVE  Stands(t, "send", p)'
BY GotoFacts DEF Stands

(* A rate that a poller has not loaded always has a token, or a setter that  *)
(* is about to send one, for any number of overlapping requests.             *)
THEOREM WakeupsKept == Spec => []NoLostWakeup
<1>1. Init => NoLostWakeup
  BY DEF Init, NoLostWakeup
<1>2. TypeOK /\ NoLostWakeup /\ [Next]_vars => NoLostWakeup'
  <2> SUFFICES ASSUME RateTypes, NoLostWakeup, [Next]_vars,
                      NEW p \in Pollers, running'[p] \in {"wait", "poll"}, ticker'[p] # rate'[p]
               PROVE  signal'[p] \/ \E s \in Setters : Stands(s, "send", p)'
    BY TypeParts DEF NoLostWakeup
  <2>k. ASSUME UNCHANGED << pollers, setter >>
        PROVE  signal'[p] \/ \E s \in Setters : Stands(s, "send", p)'
    BY <2>k DEF NoLostWakeup, pollers, Stands
  <2>1. CASE Starts \/ Released \/ UNCHANGED vars
    <3>1. CASE StartPollers
      BY <3>1 DEF StartPollers, RateTypes
    <3> QED BY <2>1, <2>k, <3>1 DEF Starts, Released, Apart, vars
  <2>2. CASE handleVehicleState \/ setPolling \/ setStreaming
    <3>1. UNCHANGED pollers /\ \E s \in Setters : setter[s] = Idle /\ \E l \in Labels : Goto(s, l)
      <4>1. ASSUME NEW s \in Setters, NEW method, NEW r \in Rates, SetsRate(s, method, r)
            PROVE  UNCHANGED pollers /\ setter[s] = Idle /\ \E l \in Labels : Goto(s, l)
        BY <4>1, LabelFacts DEF SetsRate, Arrives, Pollers, SetSteps
      <4>2. CASE handleVehicleState
        BY <4>1, <4>2 DEF handleVehicleState, Setters, Rates
      <4>3. CASE setPolling
        BY <4>1, <4>3 DEF setPolling, Setters, Rates
      <4>4. CASE setStreaming
        BY <4>4, LabelFacts DEF setStreaming, Arrives, Setters
      <4> QED BY <2>2, <4>2, <4>3, <4>4
    <3>2. PICK s \in Setters, l \in Labels : setter[s] = Idle /\ Goto(s, l)
      BY <3>1
    <3>3. setter[s].at # "send"
      BY <3>2 DEF Idle, At
    <3> QED BY <3>1, <3>2, <3>3, SendersStay DEF NoLostWakeup, pollers
  <2>3. ASSUME NEW s \in Setters, SetStep(s)
        PROVE  signal'[p] \/ \E t \in Setters : Stands(t, "send", p)'
    <3>r. setter[s].at \in SetSteps => setter[s].rate \in Rates
      BY LabelFacts DEF RateTypes
    <3>1. ASSUME NEW q \in Pollers, Check(s, q)
          PROVE  signal'[p] \/ \E t \in Setters : Stands(t, "send", p)'
      <4>1. setter[s].at = "check" /\ setter[s].at \in SetSteps /\ UNCHANGED pollers
        BY <3>1 DEF Check, Stands, SetSteps
      <4>2. \E l \in Labels : Goto(s, l)
        BY <3>1, <3>r, <4>1, LabelFacts, ReturnsFacts DEF Check, SetSteps
      <4> QED BY <4>1, <4>2, SendersStay DEF NoLostWakeup, pollers
    <3>2. ASSUME NEW q \in Pollers, Store(s, q)
          PROVE  signal'[p] \/ \E t \in Setters : Stands(t, "send", p)'
      <4>1. setter[s].at = "store" /\ setter[s].at \in SetSteps
        BY <3>2 DEF Store, Stands, SetSteps
      <4>2. At("send", q, setter[s].rate) \in Labels
        BY <3>r, <4>1, LabelFacts DEF SetSteps
      <4>3. Goto(s, At("send", q, setter[s].rate)) /\ UNCHANGED << signal, running, ticker >>
            /\ rate' = [rate EXCEPT ![q] = setter[s].rate]
        BY <3>2 DEF Store
      <4>4. CASE p = q
        <5>1. setter'[s] = At("send", q, setter[s].rate)
          BY <4>2, <4>3, GotoFacts
        <5> QED BY <4>4, <5>1 DEF Stands, At
      <4>5. CASE p # q
        BY <4>1, <4>2, <4>3, <4>5, SendersStay DEF NoLostWakeup, RateTypes
      <4> QED BY <4>4, <4>5
    <3>3. ASSUME NEW q \in Pollers, Send(s, q)
          PROVE  signal'[p] \/ \E t \in Setters : Stands(t, "send", p)'
      <4>1. setter[s].at = "send" /\ setter[s].poller = q /\ setter[s].at \in SetSteps
            /\ UNCHANGED << rate, running, ticker >> /\ signal' = [signal EXCEPT ![q] = TRUE]
        BY <3>3 DEF Send, Stands, SetSteps
      <4>2. PICK l \in Labels : Goto(s, l)
        BY <3>3, <4>1, ReturnsFacts DEF Send
      <4>3. CASE p = q
        BY <4>1, <4>3 DEF RateTypes
      <4>4. CASE p # q
        <5>1. \A t \in Setters : Stands(t, "send", p) => t # s
          BY <4>1, <4>4 DEF Stands
        <5> QED BY <4>1, <4>2, <4>4, <5>1, SendersStay DEF NoLostWakeup, RateTypes
      <4> QED BY <4>3, <4>4
    <3>4. CASE UpdateStatusField(s)
      <4>1. setter[s].at # "send" /\ UNCHANGED pollers /\ Goto(s, Idle)
        BY <3>4 DEF UpdateStatusField
      <4> QED BY <4>1, SendersStay, LabelFacts DEF NoLostWakeup, pollers
    <3> QED BY <2>3, <3>1, <3>2, <3>3, <3>4 DEF SetStep
  <2>4. ASSUME NEW q \in Pollers, Load(q) \/ RateChange(q) \/ Tick(q) \/ Poll(q)
        PROVE  signal'[p] \/ \E s \in Setters : Stands(s, "send", p)'
    <3>1. UNCHANGED << rate, setter >>
      BY <2>4 DEF Load, RateChange, Tick, Poll
    <3>2. CASE p # q
      <4>1. running'[p] = running[p] /\ ticker'[p] = ticker[p] /\ signal'[p] = signal[p]
        BY <2>4, <3>2 DEF Load, RateChange, Tick, Poll, RateTypes
      <4> QED BY <3>1, <4>1 DEF NoLostWakeup, Stands
    <3>3. CASE p = q /\ (Load(q) \/ RateChange(q))
      BY <3>1, <3>3 DEF Load, RateChange, RateTypes
    <3>4. CASE Tick(q) \/ Poll(q)
      <4>1. running[q] \in {"wait", "poll"} /\ UNCHANGED << ticker, signal >>
            /\ (p # q => running'[p] = running[p])
        BY <3>4 DEF Tick, Poll, RateTypes
      <4> QED BY <3>1, <4>1 DEF NoLostWakeup, Stands
    <3> QED BY <2>4, <3>2, <3>3, <3>4
  <2> QED BY <2>1, <2>2, <2>3, <2>4 DEF Next
<1> QED BY <1>1, <1>2, TypeCorrect, PTL DEF Spec

-----------------------------------------------------------------------------
(* Streaming stops after at most the reading that had passed the check.      *)
THEOREM StreamingStops == Spec => []StreamStops
<1>1. Init => StreamInv
  BY DEF Init, StreamInv
<1>2. TypeOK /\ StreamInv /\ [Next]_vars => StreamInv'
  <2> SUFFICES ASSUME RateTypes, StreamInv, [Next]_vars PROVE StreamInv'
    BY TypeParts
  <2>s. "sensor" \in Pollers
    BY DEF Pollers
  <2>k. UNCHANGED << running, streaming, late >> => StreamInv'
    BY DEF StreamInv
  <2>1. CASE Starts \/ Released \/ UNCHANGED vars
    <3>1. CASE StartPollers
      <4>1. running'["sensor"] # "poll" /\ UNCHANGED << streaming, late >>
        BY <2>s, <3>1 DEF StartPollers, history
      <4> QED BY <4>1 DEF StreamInv
    <3> QED BY <2>1, <2>k, <3>1 DEF Starts, Released, Apart, vars, pollers, history
  <2>2. CASE handleVehicleState \/ setPolling
    BY <2>2, <2>k DEF handleVehicleState, setPolling, SetsRate, pollers
  <2>3. CASE setStreaming
    BY <2>3 DEF setStreaming, StreamInv, pollers
  <2>4. CASE \E s \in Setters : SetStep(s)
    BY <2>4, <2>k DEF SetStep, Check, Store, Send, UpdateStatusField, pollers, history
  <2>5. ASSUME NEW p \in Pollers, Load(p) \/ RateChange(p) PROVE StreamInv'
    <3>1. running'["sensor"] = "poll" => running["sensor"] = "poll"
      BY <2>5, <2>s DEF Load, RateChange, RateTypes
    <3> QED BY <2>5, <3>1 DEF Load, RateChange, StreamInv, history
  <2>6. ASSUME NEW p \in Pollers, Tick(p) PROVE StreamInv'
    <3>1. running'["sensor"] = "poll" => running["sensor"] = "poll" \/ streaming
      BY <2>6, <2>s DEF Tick, RateTypes
    <3> QED BY <2>6, <3>1 DEF Tick, StreamInv, history
  <2>7. ASSUME NEW p \in Pollers, Poll(p) PROVE StreamInv'
    <3>1. CASE p = "sensor"
      BY <2>7, <2>s, <3>1 DEF Poll, StreamInv, RateTypes
    <3>2. CASE p # "sensor"
      BY <2>7, <2>s, <3>2 DEF Poll, StreamInv, RateTypes
    <3> QED BY <3>1, <3>2
  <2> QED BY <2>1, <2>2, <2>3, <2>4, <2>5, <2>6, <2>7 DEF Next
<1>3. StreamInv => StreamStops
  BY DEF StreamInv, StreamStops
<1> QED BY <1>1, <1>2, <1>3, TypeCorrect, PTL DEF Spec

-----------------------------------------------------------------------------
(* What the pollers and the hash have heard of the last word. *)
Heard ==
  /\ lastWord \in {"vehicle", "set-polling"} => rate["sensor"] = rate["mag"]
  /\ lastWord = "set-polling" => rateField = rate["sensor"]
  /\ lastWord = "set-streaming" => streamField = streaming

LastInv == LoneInv /\ LastWordHeard

(* It suffices to look at the one setter in service.                         *)
LEMMA LoneSetter ==
  ASSUME RateTypes, NEW s \in Setters, NEW l \in Labels, Goto(s, l),
         InService \subseteq {s},
         l # Idle => Served(s)', l = Idle => Heard'
  PROVE  LastInv'
<1>1. \A t \in InService' : t = s /\ l # Idle
  BY GotoFacts DEF InService
<1>2. InService' = {} => l = Idle
  BY GotoFacts DEF InService
<1> QED BY <1>1, <1>2 DEF LastInv, LoneInv, LastWordHeard, Heard

(* A request that finds another in service leaves no last word.             *)
LEMMA LastRequests ==
  ASSUME RateTypes, LastInv, handleVehicleState \/ setPolling \/ setStreaming
  PROVE  LastInv'
<1>1. ASSUME lastWord' = "none" PROVE LastInv'
  BY <1>1 DEF LastInv, LoneInv, LastWordHeard
<1>2. ASSUME NEW s \in Setters, NEW method \in {"vehicle", "set-polling"}, NEW r \in Rates,
             SetsRate(s, method, r), s = Vehicle <=> method = "vehicle"
      PROVE  LastInv'
  <2> DEFINE l == At("check", "sensor", r)
  <2>1. l \in Labels /\ l # Idle /\ l.at = "check" /\ l.poller = "sensor" /\ "check" \in SetSteps
    BY LabelFacts DEF Pollers, SetSteps, At, Idle
  <2>2. Goto(s, l)
    BY <1>2 DEF SetsRate
  <2> HIDE DEF l
  <2>3. CASE lastWord' = method /\ InService = {}
    <3>1. setter'[s] = l
      BY <2>1, <2>2, GotoFacts
    <3>2. Served(s)'
      BY <1>2, <2>1, <2>3, <3>1 DEF Served, Stands
    <3> QED BY <2>1, <2>2, <2>3, <3>2, LoneSetter
  <2> QED BY <1>1, <1>2, <2>3 DEF SetsRate, Arrives
<1>3. CASE handleVehicleState
  BY <1>2, <1>3 DEF handleVehicleState, Setters, Rates
<1>4. CASE setPolling
  <2>1. \A c \in Callers : c # Vehicle
    BY SettersAssumption
  <2> QED BY <1>2, <1>4, <2>1 DEF setPolling, Setters, Rates
<1>5. CASE setStreaming
  <2>1. PICK c \in Callers, enabled \in BOOLEAN :
          /\ Arrives(c, "set-streaming") /\ streaming' = enabled
          /\ Goto(c, IF enabled THEN TellsOn ELSE TellsOff)
    BY <1>5 DEF setStreaming
  <2> DEFINE l == IF enabled THEN TellsOn ELSE TellsOff
  <2>2. l \in Labels /\ l # Idle /\ l.at \in {"on", "off"} /\ l.at \notin SetSteps
    BY LabelFacts DEF TellsOn, TellsOff, Idle, At, SetSteps
  <2>3. CASE lastWord' = "set-streaming" /\ InService = {}
    <3>1. setter'[c] = l
      BY <2>1, <2>2, GotoFacts DEF Setters
    <3>2. Served(c)'
      BY <2>1, <2>2, <2>3, <3>1 DEF Served, Stands, SetSteps
    <3> QED BY <2>1, <2>2, <2>3, <3>2, LoneSetter DEF Setters
  <2> QED BY <1>1, <2>1, <2>3 DEF Arrives
<1> QED BY <1>3, <1>4, <1>5

(* A setter that is alone carries its rate to one poller after the other,    *)
(* and then into the hash.                                                   *)
LEMMA LastSetters ==
  ASSUME RateTypes, LastInv, NEW s \in Setters, SetStep(s)
  PROVE  LastInv'
<1>1. lastWord' \in {lastWord, "none"}
  BY DEF SetStep, Check, Store, Send, UpdateStatusField, history
<1> SUFFICES ASSUME lastWord' # "none" PROVE LastInv'
  BY DEF LastInv, LoneInv, LastWordHeard
<1>2. lastWord' = lastWord /\ lastWord \in {"vehicle", "set-polling", "set-streaming"}
  BY <1>1 DEF RateTypes
<1>3. setter[s] \in Labels
  BY DEF RateTypes
<1>4. setter[s] # Idle
  <2>1. setter[s].at \in SetSteps \cup {"hset", "on", "off"}
    BY DEF SetStep, Check, Store, Send, UpdateStatusField, Stands, SetSteps
  <2> QED BY <2>1 DEF Idle, At, SetSteps
<1>5. InService \subseteq {s} /\ Served(s)
  BY <1>2, <1>4 DEF LastInv, LoneInv, InService
<1> DEFINE r == setter[s].rate
<1>6. ASSUME NEW p \in Pollers, Check(s, p) \/ Store(s, p) \/ Send(s, p) PROVE LastInv'
  <2>1. setter[s].at \in SetSteps /\ setter[s].poller = p /\ r \in Rates
    BY <1>3, <1>6, LabelFacts DEF Check, Store, Send, Stands, SetSteps
  <2>2. setter[s].at \notin {"on", "off", "idle"} /\ lastWord # "set-streaming"
    <3>1. TellsOn.at \notin SetSteps /\ TellsOff.at \notin SetSteps
      BY DEF TellsOn, TellsOff, At, SetSteps
    <3> QED BY <1>5, <2>1, <3>1 DEF Served, SetSteps
  <2>3. lastWord = "vehicle" <=> s = Vehicle
    BY <1>2, <1>5, <2>2 DEF Served
  <2>4. p = "mag" => rate["sensor"] = r
    BY <1>5, <2>1 DEF Served
  <2>p. p \in {"sensor", "mag"}
    BY DEF Pollers
  <2>5. ASSUME Returns(s, p), rate' = rate, rate[p] = r PROVE LastInv'
    <3>1. PICK l \in Labels :
            /\ Goto(s, l)
            /\ l = IF p = "sensor" THEN At("check", "mag", r)
                   ELSE IF s = Vehicle THEN Idle ELSE Tells(r)
      BY <2>1, <2>5, ReturnsFacts
    <3>2. setter'[s] = l
      BY <3>1, GotoFacts
    <3>3. CASE p = "sensor"
      <4>1. l.at = "check" /\ l.poller = "mag" /\ l.rate = r /\ l # Idle
        BY <3>1, <3>3 DEF At, Idle
      <4>2. Served(s)'
        BY <1>2, <2>2, <2>3, <2>5, <3>2, <3>3, <4>1 DEF Served, Stands, SetSteps
      <4> QED BY <1>5, <3>1, <4>1, <4>2, LoneSetter
    <3>4. CASE p = "mag" /\ s = Vehicle
      <4>1. Heard'
        BY <1>2, <2>3, <2>4, <2>5, <3>4 DEF Heard
      <4> QED BY <1>5, <3>1, <3>4, <4>1, LoneSetter
    <3>5. CASE p = "mag" /\ s # Vehicle
      <4>1. l.at = "hset" /\ l.poller = "none" /\ l.rate = r /\ l # Idle
        BY <3>1, <3>5 DEF Tells, At, Idle
      <4>2. Served(s)'
        BY <1>2, <2>2, <2>3, <2>4, <2>5, <3>2, <3>5, <4>1 DEF Served, Stands, SetSteps
      <4> QED BY <1>5, <3>1, <4>1, <4>2, LoneSetter
    <3> QED BY <2>p, <3>3, <3>4, <3>5
  <2>6. CASE Check(s, p) /\ running[p] = "absent"
    <3>1. Goto(s, Panicked) /\ rate' = rate
      BY <2>6 DEF Check, pollers
    <3>2. Panicked \in Labels /\ Panicked # Idle /\ Panicked.at = "panicked"
      BY LabelFacts DEF Panicked, Idle, At
    <3>3. setter'[s] = Panicked
      BY <3>1, <3>2, GotoFacts
    <3>4. Served(s)'
      BY <1>2, <2>2, <2>3, <3>2, <3>3 DEF Served, Stands, SetSteps
    <3> QED BY <1>5, <3>1, <3>2, <3>4, LoneSetter
  <2>7. CASE Check(s, p) /\ running[p] # "absent" /\ rate[p] = r
    BY <2>5, <2>7 DEF Check, pollers
  <2>8. CASE (Check(s, p) /\ running[p] # "absent" /\ rate[p] # r) \/ Store(s, p)
    <3>1. PICK step \in {"store", "send"} :
            /\ Goto(s, At(step, p, r))
            /\ \A q \in Pollers : q # p => rate'[q] = rate[q]
            /\ step = "send" => rate'[p] = r
      BY <2>8 DEF Check, Store, pollers, RateTypes
    <3> DEFINE l == At(step, p, r)
    <3>2. l \in Labels /\ l # Idle
      BY <2>1, LabelFacts DEF SetSteps, At, Idle
    <3>3. l.at = step /\ l.poller = p /\ l.rate = r
      BY DEF At
    <3>4. setter'[s] = l
      BY <3>1, <3>2, GotoFacts
    <3> HIDE DEF l
    <3>5. Served(s)'
      BY <1>2, <2>2, <2>3, <2>4, <2>p, <3>1, <3>3, <3>4 DEF Served, Stands, SetSteps, Pollers
    <3>6. Goto(s, l)
      BY <3>1 DEF l
    <3> QED BY <1>5, <3>2, <3>5, <3>6, LoneSetter
  <2>9. CASE Send(s, p)
    <3>1. Returns(s, p) /\ rate' = rate /\ Stands(s, "send", p)
      BY <2>9 DEF Send
    <3>2. rate[p] = r
      BY <1>5, <2>p, <3>1 DEF Served
    <3> QED BY <2>5, <3>1, <3>2
  <2> QED BY <1>6, <2>6, <2>7, <2>8, <2>9
<1>7. CASE UpdateStatusField(s)
  <2>1. Goto(s, Idle) /\ rate' = rate /\ streaming' = streaming /\ Idle \in Labels
    BY <1>7, LabelFacts DEF UpdateStatusField, pollers
  <2>2. CASE setter[s].at = "hset" /\ rateField' = r
    <3>1. lastWord # "set-streaming"
      BY <1>5, <2>2 DEF Served, TellsOn, TellsOff, At
    <3>2. rate["sensor"] = r /\ rate["mag"] = r
      BY <1>5, <2>2 DEF Served
    <3>3. Heard'
      BY <1>2, <2>1, <2>2, <3>1, <3>2 DEF Heard
    <3> QED BY <1>5, <2>1, <3>3, LoneSetter
  <2>3. CASE setter[s].at \in {"on", "off"} /\ streamField' = (setter[s] = TellsOn)
    <3>1. lastWord = "set-streaming"
      BY <1>2, <1>5, <2>3 DEF Served, SetSteps
    <3>2. setter[s] = IF streaming THEN TellsOn ELSE TellsOff
      BY <1>5, <3>1 DEF Served
    <3>3. streamField' = streaming'
      BY <2>1, <2>3, <3>2 DEF TellsOn, TellsOff, At, RateTypes
    <3>4. Heard'
      BY <1>2, <3>1, <3>3 DEF Heard
    <3> QED BY <1>5, <2>1, <3>4, LoneSetter
  <2> QED BY <1>2, <1>7, <2>2, <2>3 DEF UpdateStatusField
<1> QED BY <1>6, <1>7 DEF SetStep

(* The request that is served alone after all others has the last word: both *)
(* pollers have its rate, and the hash tells what it did.                    *)
THEOREM LastWordStands == Spec => []LastWordHeard
<1>1. Init => LastInv
  <2>1. Init => lastWord = "none"
    BY DEF Init
  <2> QED BY <2>1 DEF LastInv, LoneInv, LastWordHeard
<1>2. TypeOK /\ LastInv /\ [Next]_vars => LastInv'
  <2> SUFFICES ASSUME RateTypes, LastInv, [Next]_vars PROVE LastInv'
    BY TypeParts
  <2>k. UNCHANGED << rate, streaming, fields, setter, lastWord >> => LastInv'
    BY DEF LastInv, LoneInv, LastWordHeard, InService, Served, Stands, fields
  <2>1. CASE Starts \/ Released \/ UNCHANGED vars
    BY <2>1, <2>k DEF Starts, Released, Apart, StartPollers, vars, pollers, history
  <2>2. CASE \E p \in Pollers : Load(p) \/ RateChange(p) \/ Tick(p) \/ Poll(p)
    BY <2>2, <2>k DEF Load, RateChange, Tick, Poll, history
  <2> QED BY <2>1, <2>2, LastRequests, LastSetters DEF Next
<1>3. LastInv => LastWordHeard
  BY DEF LastInv
<1> QED BY <1>1, <1>2, <1>3, TypeCorrect, PTL DEF Spec

-----------------------------------------------------------------------------
(* What the start-up has opened the kernel has let go of, and let go of for *)
(* good.                                                                    *)
HeldInv ==
  /\ boot = "open" => \A d \in 1 .. 2 : d < at => driver[d] = "free"
  /\ boot \in {"ready", "up"} => \A d \in 1 .. 2 : driver[d] = "free"
  /\ found => boot \in {"ready", "up"} /\ driver[3] = "free"

(* A service that is up holds each sensor it uses, for every number of      *)
(* attempts, failures, timeouts and restarts.                               *)
THEOREM HoldsItsSensors == Spec => []SensorsHeld
<1>d. Len(Startup!Devices) = 3
  BY DEF Startup!Devices
<1>1. Init => HeldInv
  BY DEF Init, Startup!Init, HeldInv
<1>2. ASSUME TypeOK, HeldInv, [Next]_vars PROVE HeldInv'
  <2> USE <1>2, <1>d DEF HeldInv, Startup!NextDevice, Startup!Goto, Startup!Last
  <2>t. /\ driver \in [1 .. 3 -> {"bound", "releasing", "free"}] /\ at \in 1 .. 3
        /\ boot \in {"unbind", "detach", "open", "exited", "ready", "up"} /\ found \in BOOLEAN
    BY DEF TypeOK, Startup!TypeOK
  <2>1. CASE Startup!Unbind
    <3>1. boot = "unbind" /\ found' = found /\ ~found
      BY <2>1 DEF Startup!Unbind
    <3>2. boot' \in {"unbind", "detach"} \/ (boot' = "open" /\ at' = 1)
      BY <2>1 DEF Startup!Unbind
    <3> QED BY <3>1, <3>2
  <2>2. CASE Startup!WaitForDetach
    <3>1. boot = "detach" /\ found' = found /\ ~found
      BY <2>2 DEF Startup!WaitForDetach
    <3>2. boot' = "unbind" \/ (boot' = "open" /\ at' = 1)
      BY <2>2 DEF Startup!WaitForDetach
    <3> QED BY <3>1, <3>2
  <2>3. CASE Startup!Opens
    <3>1. boot = "open" /\ driver[at] = "free" /\ driver' = driver /\ found' = (at = 3)
      BY <2>3 DEF Startup!Opens
    <3>2. CASE at = 3
      BY <2>3, <2>t, <3>1, <3>2 DEF Startup!Opens
    <3>3. CASE at # 3
      <4>1. boot' = "open" /\ at' = at + 1
        BY <2>3, <3>3 DEF Startup!Opens
      <4> QED BY <2>t, <3>1, <3>3, <4>1
    <3> QED BY <3>2, <3>3
  <2>4. CASE Startup!OpenFails
    <3>1. boot = "open" /\ driver' = driver /\ found' = found /\ ~found
      BY <2>4 DEF Startup!OpenFails, Startup!Refused
    <3>2. \/ boot' = "ready" /\ at = 3
          \/ boot' = boot /\ at' = at
          \/ boot' = "exited"
      BY <2>4 DEF Startup!OpenFails
    <3> QED BY <2>t, <3>1, <3>2
  <2>5. CASE Startup!Restart
    BY <2>5 DEF Startup!Restart
  <2>6. CASE Startup!Released
    <3>1. UNCHANGED << boot, at, found >> /\ \A d \in 1 .. 3 : driver[d] = "free" => driver'[d] = "free"
      BY <2>6, <2>t DEF Startup!Released
    <3> QED BY <2>t, <3>1
  <2>7. CASE StartPollers
    BY <2>7 DEF StartPollers
  <2>8. CASE UNCHANGED startup
    BY <2>8 DEF startup
  <2>9. CASE ~(Starts \/ Released)
    <3>1. UNCHANGED startup
      BY <2>9 DEF Next, vars, handleVehicleState, setPolling, setStreaming, SetsRate, SetStep, Check,
                  Store, Send, UpdateStatusField, Load, RateChange, Tick, Poll
    <3> QED BY <2>8, <3>1
  <2> QED BY <2>1, <2>2, <2>3, <2>4, <2>5, <2>6, <2>7, <2>9 DEF Starts, Released, Startup!Step
<1>3. HeldInv => SensorsHeld
  BY <1>d DEF HeldInv, SensorsHeld, Startup!SensorsHeld
<1> QED BY <1>1, <1>2, <1>3, TypeCorrect, PTL DEF Spec

-----------------------------------------------------------------------------
(* Requests come to a service that is up, and only the magnetometer's       *)
(* poller can be missing from it.                                           *)
PollersInv ==
  /\ boot # "up" => InService = {}
  /\ boot = "up" => \A p \in Pollers : running[p] = "absent" => p = "mag" /\ ~found
  /\ NoPanic \/ (boot = "up" /\ ~found)

(* The nil MagPoller in the group is the only thing a rate can panic at: a  *)
(* service that found the magnetometer never does, whatever failed before   *)
(* it came up and however its requests overlap.                             *)
THEOREM PanicsOnlyWithoutMag == Spec => [](NoPanic \/ (boot = "up" /\ ~found))
<1>1. Init => PollersInv
  <2>1. Idle # Panicked
    BY DEF Idle, Panicked, At
  <2> QED BY <2>1 DEF Init, Startup!Init, PollersInv, InService, NoPanic, Alive
<1>2. ASSUME TypeOK, PollersInv, [Next]_vars PROVE PollersInv'
  <2> USE DEF PollersInv
  <2>t. RateTypes
    BY <1>2, TypeParts
  <2>i. Idle # Panicked /\ {Idle, Panicked, TellsOn, TellsOff} \subseteq Labels
    BY LabelFacts DEF Idle, Panicked, At
  <2>1. CASE UNCHANGED vars
    BY <1>2, <2>1 DEF vars, startup, pollers, InService, NoPanic, Alive
  <2>2. CASE Startup!Step /\ Apart
    <3>1. boot # "up" /\ boot' # "up"
      BY <2>2 DEF Startup!Step, Startup!Unbind, Startup!WaitForDetach, Startup!Opens, Startup!OpenFails,
                  Startup!Refused, Startup!Restart, Startup!NextDevice, Startup!Goto
    <3>2. setter' = setter
      BY <2>2 DEF Apart
    <3> QED BY <1>2, <3>1, <3>2 DEF InService, NoPanic, Alive
  <2>3. CASE StartPollers
    <3>1. InService = {} /\ setter' = setter /\ found' = found
      BY <1>2, <2>3 DEF StartPollers
    <3>2. \A p \in Pollers : running'[p] = "absent" => p = "mag" /\ ~found
      BY <2>3 DEF StartPollers
    <3>3. NoPanic'
      BY <2>i, <3>1 DEF InService, NoPanic, Alive
    <3> QED BY <2>3, <3>1, <3>2, <3>3 DEF StartPollers
  <2>4. CASE Released
    BY <1>2, <2>4 DEF Released, Apart, Startup!Released, pollers, InService, NoPanic, Alive
  <2>5. ASSUME NEW s \in Setters, NEW l \in Labels, boot = "up", Goto(s, l),
               l = Panicked => ~found, UNCHANGED << startup, running >>
        PROVE  PollersInv'
    <3>1. boot' = "up" /\ found' = found
      BY <2>5 DEF startup
    <3>2. NoPanic' \/ ~found
      BY <1>2, <2>t, <2>5, GotoFacts DEF NoPanic, Alive
    <3> QED BY <1>2, <2>5, <3>1, <3>2
  <2>6. CASE handleVehicleState \/ setPolling \/ setStreaming
    <3>1. ASSUME NEW s \in Setters, NEW method, NEW r \in Rates, SetsRate(s, method, r)
          PROVE  PollersInv'
      <4>1. At("check", "sensor", r) \in Labels /\ At("check", "sensor", r) # Panicked
        BY LabelFacts DEF Pollers, SetSteps, At, Panicked
      <4> QED BY <2>5, <3>1, <4>1 DEF SetsRate, Arrives, pollers
    <3>2. CASE handleVehicleState
      BY <3>1, <3>2 DEF handleVehicleState, Setters, Rates
    <3>3. CASE setPolling
      BY <3>1, <3>3 DEF setPolling, Setters, Rates
    <3>4. CASE setStreaming
      <4>1. TellsOn # Panicked /\ TellsOff # Panicked
        BY DEF TellsOn, TellsOff, Panicked, At
      <4> QED BY <2>5, <2>i, <3>4, <4>1 DEF setStreaming, Arrives, pollers, Setters
    <3> QED BY <2>6, <3>2, <3>3, <3>4
  <2>7. ASSUME NEW s \in Setters, SetStep(s) PROVE PollersInv'
    <3>l. setter[s] \in Labels
      BY <2>t DEF RateTypes
    <3>1. setter[s].at \in SetSteps \cup {"hset", "on", "off"}
      BY <2>7 DEF SetStep, Check, Store, Send, UpdateStatusField, Stands, SetSteps
    <3>2. boot = "up"
      <4>1. setter[s] # Idle
        BY <3>1 DEF Idle, At, SetSteps
      <4> QED BY <1>2, <4>1 DEF InService
    <3>3. UNCHANGED << startup, running >>
      BY <2>7 DEF SetStep, Check, Store, Send, UpdateStatusField, pollers
    <3>4. ASSUME NEW p \in Pollers, Check(s, p) \/ Store(s, p) \/ Send(s, p) PROVE PollersInv'
      <4>1. setter[s].at \in SetSteps /\ setter[s].rate \in Rates
        BY <3>4, <3>l, LabelFacts DEF Check, Store, Send, Stands, SetSteps
      <4>2. CASE Goto(s, Panicked)
        <5>1. running[p] = "absent"
          <6>1. \A step \in {"store", "send"} : At(step, p, setter[s].rate) # Panicked
            BY DEF At, Panicked
          <6>2. \A l \in Labels : Goto(s, l) => l = Panicked
            BY <2>i, <2>t, <4>2, GotoFacts
          <6>3. \A l : l = (IF p = "sensor" THEN At("check", "mag", setter[s].rate)
                            ELSE IF s = Vehicle THEN Idle ELSE Tells(setter[s].rate)) => l # Panicked
            BY DEF At, Tells, Idle, Panicked
          <6>4. At("store", p, setter[s].rate) \in Labels /\ At("send", p, setter[s].rate) \in Labels
            BY <4>1, LabelFacts DEF SetSteps
          <6> QED BY <2>t, <3>4, <4>1, <6>1, <6>2, <6>3, <6>4, ReturnsFacts DEF Check, Store, Send
        <5> QED BY <1>2, <2>5, <2>i, <3>2, <3>3, <4>2, <5>1
      <4>3. CASE \E l \in Labels : l # Panicked /\ Goto(s, l)
        BY <2>5, <3>2, <3>3, <4>3
      <4>4. \E l \in Labels : Goto(s, l)
        <5>1. At("store", p, setter[s].rate) \in Labels /\ At("send", p, setter[s].rate) \in Labels
          BY <4>1, LabelFacts DEF SetSteps
        <5> QED BY <2>i, <2>t, <3>4, <4>1, <5>1, ReturnsFacts DEF Check, Store, Send
      <4> QED BY <4>2, <4>3, <4>4
    <3>5. CASE UpdateStatusField(s)
      BY <2>5, <2>i, <3>2, <3>3, <3>5 DEF UpdateStatusField
    <3> QED BY <2>7, <3>4, <3>5 DEF SetStep
  <2>8. ASSUME NEW q \in Pollers, Load(q) \/ RateChange(q) \/ Tick(q) \/ Poll(q) PROVE PollersInv'
    <3>1. UNCHANGED << startup, setter >>
      BY <2>8 DEF Load, RateChange, Tick, Poll
    <3>2. \A p \in Pollers : running'[p] = "absent" => running[p] = "absent"
      BY <2>t, <2>8 DEF Load, RateChange, Tick, Poll, RateTypes
    <3> QED BY <1>2, <3>1, <3>2 DEF startup, InService, NoPanic, Alive
  <2> QED BY <1>2, <2>1, <2>2, <2>3, <2>4, <2>6, <2>7, <2>8 DEF Next, Starts
<1>3. PollersInv => (NoPanic \/ (boot = "up" /\ ~found))
  BY DEF PollersInv
<1> QED BY <1>1, <1>2, <1>3, TypeCorrect, PTL DEF Spec
=============================================================================
