------------------------------ MODULE PollRate ------------------------------
(***************************************************************************)
(* The telemetry rate: poller.SensorPoller and poller.MagPoller each hand  *)
(* a new rate to their ticker through an atomic and a channel of capacity  *)
(* one, and app.pollerGroup fans one SetRate out to both, for the vehicle  *)
(* watcher's callback and for the set-polling RPC.  The two pollers run    *)
(* the same code here, so one set of actions serves both.  The RPCs        *)
(* set-polling and set-streaming tell in the status hash what they did.    *)
(* Which pollers there are is decided by SensorStartup.                    *)
(***************************************************************************)
EXTENDS Naturals

CONSTANTS
  VehicleRates,  \* what handleVehicleState asks for: FastPollRateHz, SlowPollRateHz
  Callers,       \* set-polling and set-streaming calls in service at a time
  RpcRates,      \* what they ask for
  InitialRate,   \* --polling-rate
  MaxSets,       \* bound on requests
  Attempts, MaxFaults  \* see SensorStartup

Vehicle == "vehicle"
Setters == {Vehicle} \cup Callers
Pollers == {"sensor", "mag"}
Rates   == VehicleRates \cup RpcRates \cup {InitialRate}

(* setPolling refuses a rate outside 1 .. 100; the flag may be 0. *)
ASSUME RatesAssumption ==
  /\ VehicleRates \cup RpcRates \subseteq 1 .. 100 /\ InitialRate \in 0 .. 100
  /\ MaxSets \in Nat
ASSUME StartupAssumption == Attempts \in Nat \ {0} /\ MaxFaults \in Nat
ASSUME SettersAssumption == Vehicle \notin Callers

VARIABLES
  driver, boot, at, tries, found, faults,  \* see SensorStartup
  rate,      \* rateHz of each poller
  signal,    \* does its rateChange channel hold a token?
  running,   \* the next step of its Run; "absent" if it was never created
  ticker,    \* the rate its ticker has; 0 is suspended
  streaming, \* SensorPoller.enabled
  rateField, streamField,  \* polling-rate-hz and streaming of the status hash
  setter,    \* the next step of each setter: of some poller's SetRate, with the
             \* rate it sets, or of its HSET
  sets,      \* how many requests there were
  lastWord,  \* history: the latest request, if no other was in service with it
             \* and its HSET did not fail, or "none"
  late       \* history: readings published since streaming was disabled

Startup == INSTANCE SensorStartup
startup == << driver, boot, at, tries, found, faults >>

pollers == << rate, signal, running, ticker >>
fields  == << rateField, streamField >>
history == << sets, lastWord, late >>
vars == << startup, pollers, streaming, fields, setter, history >>

At(step, p, r) == [at |-> step, poller |-> p, rate |-> r]

SetSteps == {"check", "store", "send"}
Tells(r) == At("hset", "none", r)
TellsOn  == At("on", "none", 0)
TellsOff == At("off", "none", 0)
Idle     == At("idle", "none", 0)
Panicked == At("panicked", "none", 0)

TypeOK ==
  /\ Startup!TypeOK
  /\ rate \in [Pollers -> Rates] /\ ticker \in [Pollers -> Rates]
  /\ signal \in [Pollers -> BOOLEAN]
  /\ running \in [Pollers -> {"load", "wait", "poll", "absent"}]
  /\ streaming \in BOOLEAN /\ rateField \in Rates /\ streamField \in BOOLEAN
  /\ setter \in [Setters -> {At(step, p, r) : step \in SetSteps, p \in Pollers, r \in Rates}
                          \cup {Tells(r) : r \in Rates} \cup {TellsOn, TellsOff, Idle, Panicked}]
  /\ sets \in 0 .. MaxSets
  /\ lastWord \in {"none", "vehicle", "set-polling", "set-streaming"} /\ late \in Nat

(* publishInitialStatus has told of the flag. *)
Init ==
  /\ Startup!Init
  /\ rate = [p \in Pollers |-> InitialRate] /\ ticker = rate
  /\ signal = [p \in Pollers |-> FALSE]
  /\ running = [p \in Pollers |-> "absent"]
  /\ streaming = TRUE
  /\ rateField = InitialRate /\ streamField = TRUE
  /\ setter = [s \in Setters |-> Idle]
  /\ sets = 0 /\ lastWord = "none" /\ late = 0

-----------------------------------------------------------------------------
Apart == UNCHANGED << pollers, streaming, fields, setter, history >>

Released == Startup!Released /\ Apart

(* app.Run creates the magnetometer's poller only if there is one.  (What   *)
(* follows has no use for the count of faults.)                             *)
StartPollers ==
  /\ boot = "ready" /\ boot' = "up" /\ faults' = 0
  /\ running' = [p \in Pollers |-> IF p = "mag" /\ ~found THEN "absent" ELSE "load"]
  /\ UNCHANGED << driver, at, tries, found >>
  /\ UNCHANGED << rate, signal, ticker, streaming, fields, setter, history >>

Starts == (Startup!Step /\ Apart) \/ StartPollers

Stands(s, step, p) == setter[s].at = step /\ setter[s].poller = p
Goto(s, label) == setter' = [setter EXCEPT ![s] = label]

(* mutant of Returns: the loop over the group runs one poller too far *)
ReturnsTooLate(s, p) ==
  Goto(s, At("check", IF p = "sensor" THEN "mag" ELSE "none", setter[s].rate))

(* pollerGroup.SetRate: the sensor poller, then the magnetometer's; then    *)
(* setPolling goes on.                                                      *)
Returns(s, p) ==
  Goto(s, IF p = "sensor" THEN At("check", "mag", setter[s].rate)
          ELSE IF s = Vehicle THEN Idle ELSE Tells(setter[s].rate))

InService == {s \in Setters : setter[s] # Idle}

Arrives(s, method) ==
  /\ boot = "up" /\ setter[s] = Idle /\ sets < MaxSets /\ sets' = sets + 1
  /\ lastWord' = IF InService = {} THEN method ELSE "none"

SetsRate(s, method, r) ==
  /\ Arrives(s, method)
  /\ Goto(s, At("check", "sensor", r))
  /\ UNCHANGED << startup, pollers, streaming, fields, late >>

(* Vehicle callbacks are dispatched one at a time. *)
handleVehicleState == \E r \in VehicleRates : SetsRate(Vehicle, "vehicle", r)
setPolling == \E c \in Callers, r \in RpcRates : SetsRate(c, "set-polling", r)

(* Enable and Disable hold SensorPoller.mu.                                 *)
setStreaming ==
  \E c \in Callers, enabled \in BOOLEAN :
    /\ Arrives(c, "set-streaming")
    /\ streaming' = enabled /\ late' = (IF enabled THEN 0 ELSE late)
    /\ Goto(c, IF enabled THEN TellsOn ELSE TellsOff)
    /\ UNCHANGED << startup, pollers, fields >>

(* The error of the HSET is dropped: the call is answered as if it were OK. *)
UpdateStatusField(c) ==
  /\ setter[c].at \in {"hset", "on", "off"} /\ Goto(c, Idle)
  /\ \/ /\ IF setter[c].at = "hset"
            THEN rateField' = setter[c].rate /\ UNCHANGED streamField
            ELSE streamField' = (setter[c] = TellsOn) /\ UNCHANGED rateField
        /\ UNCHANGED lastWord
     \/ lastWord' = "none" /\ UNCHANGED fields
  /\ UNCHANGED << startup, pollers, streaming, sets, late >>

(* mutant of Check: the group stops at a poller that has the rate already *)
CheckStopsGroup(s, p) ==
  /\ Stands(s, "check", p)
  /\ IF running[p] = "absent" THEN Goto(s, Panicked)
     ELSE IF rate[p] = setter[s].rate THEN Goto(s, Idle)
     ELSE Goto(s, At("store", p, setter[s].rate))
  /\ UNCHANGED << startup, pollers, streaming, fields, history >>

(* SetRate: three steps that no lock holds together.  The group holds a     *)
(* *MagPoller even when that is nil, and SetRate reads through it.          *)
Check(s, p) ==
  /\ Stands(s, "check", p)
  /\ IF running[p] = "absent" THEN Goto(s, Panicked)
     ELSE IF rate[p] = setter[s].rate THEN Returns(s, p)
     ELSE Goto(s, At("store", p, setter[s].rate))
  /\ UNCHANGED << startup, pollers, streaming, fields, history >>

(* mutant of Store: nobody is told of the new rate *)
StoreUntold(s, p) ==
  /\ Stands(s, "store", p)
  /\ rate' = [rate EXCEPT ![p] = setter[s].rate] /\ Returns(s, p)
  /\ UNCHANGED << startup, signal, running, ticker, streaming, fields, history >>

Store(s, p) ==
  /\ Stands(s, "store", p)
  /\ rate' = [rate EXCEPT ![p] = setter[s].rate] /\ Goto(s, At("send", p, setter[s].rate))
  /\ UNCHANGED << startup, signal, running, ticker, streaming, fields, history >>

(* A full channel already holds a token that will do. *)
Send(s, p) ==
  /\ Stands(s, "send", p)
  /\ signal' = [signal EXCEPT ![p] = TRUE] /\ Returns(s, p)
  /\ UNCHANGED << startup, rate, running, ticker, streaming, fields, history >>

SetStep(s) ==
  (\E p \in Pollers : Check(s, p) \/ Store(s, p) \/ Send(s, p)) \/ UpdateStatusField(s)

-----------------------------------------------------------------------------
(* Run: load the rate, then tick or stay suspended until a token arrives.   *)

Load(p) ==
  /\ running[p] = "load"
  /\ ticker' = [ticker EXCEPT ![p] = rate[p]]
  /\ running' = [running EXCEPT ![p] = "wait"]
  /\ UNCHANGED << startup, rate, signal, streaming, fields, setter, history >>

(* mutant of RateChange: the token is taken and the old ticker is kept *)
RateChangeIgnored(p) ==
  /\ running[p] = "wait" /\ signal[p]
  /\ signal' = [signal EXCEPT ![p] = FALSE]
  /\ UNCHANGED << startup, rate, running, ticker, streaming, fields, setter, history >>

RateChange(p) ==
  /\ running[p] = "wait" /\ signal[p]
  /\ signal' = [signal EXCEPT ![p] = FALSE]
  /\ running' = [running EXCEPT ![p] = "load"]
  /\ UNCHANGED << startup, rate, ticker, streaming, fields, setter, history >>

(* mutant of Tick: IsEnabled is not asked at every tick *)
TickUnasked(p) ==
  /\ running[p] = "wait" /\ ticker[p] > 0
  /\ running' = [running EXCEPT ![p] = "poll"]
  /\ UNCHANGED << startup, rate, signal, ticker, streaming, fields, setter, history >>

(* Only the sensor poller asks IsEnabled, before it reads the sensors.      *)
Tick(p) ==
  /\ running[p] = "wait" /\ ticker[p] > 0
  /\ p = "sensor" => streaming
  /\ running' = [running EXCEPT ![p] = "poll"]
  /\ UNCHANGED << startup, rate, signal, ticker, streaming, fields, setter, history >>

(* poll ends with the publication, or early with an error.                  *)
Poll(p) ==
  /\ running[p] = "poll"
  /\ running' = [running EXCEPT ![p] = "wait"]
  /\ \/ late' = (IF p = "sensor" /\ ~streaming THEN late + 1 ELSE late)
     \/ UNCHANGED late
  /\ UNCHANGED << startup, rate, signal, ticker, streaming, fields, setter, sets, lastWord >>

-----------------------------------------------------------------------------
(* An unrecovered panic ends the process. *)
Alive == \A s \in Setters : setter[s] # Panicked

Next ==
  /\ Alive
  /\ \/ Starts \/ Released
     \/ handleVehicleState \/ setPolling \/ setStreaming
     \/ \E s \in Setters : SetStep(s)
     \/ \E p \in Pollers : Load(p) \/ RateChange(p) \/ Tick(p) \/ Poll(p)

Spec == Init /\ [][Next]_vars

(* The kernel lets go of devices, start-up goes on and is started again,    *)
(* goroutines are scheduled and polls return; Go's select, which chooses at *)
(* random, takes a token that is there sooner or later although the ticker  *)
(* is ready too, every time.                                                *)
Fairness ==
  /\ WF_vars(Starts) /\ WF_vars(Released)
  /\ \A s \in Setters : WF_vars(SetStep(s))
  /\ \A p \in Pollers : WF_vars(Load(p)) /\ WF_vars(Poll(p)) /\ SF_vars(RateChange(p))

FairSpec == Spec /\ Fairness

-----------------------------------------------------------------------------
(* Properties *)

(* SetRate skips an unchanged rate and drops a second token, and still no   *)
(* poller sits at an old rate unless a token is there or on its way to wake *)
(* it, whichever way the setters overlap.                                   *)
NoLostWakeup ==
  \A p \in Pollers : running[p] \in {"wait", "poll"} /\ ticker[p] # rate[p]
    => signal[p] \/ \E s \in Setters : Stands(s, "send", p)

(* Once requests stop, each poller ticks at the rate stored for it, from    *)
(* suspension too (if there is a magnetometer: see NoPanic).                *)
RateTakesEffect ==
  \A p \in Pollers :
    <>[](boot = "up" /\ found => running[p] \in {"wait", "poll"} /\ ticker[p] = rate[p])

(* The service holds the sensors in the end.                                *)
ComesUp == Startup!ComesUp

(* And it never runs with one that the kernel still has.                    *)
SensorsHeld == Startup!SensorsHeld

(* Overlapping requests may leave the two pollers at different rates, and a  *)
(* field that tells of neither (app.go:373, handlers.go:201).  The next      *)
(* request that is served alone mends that: both pollers have its rate (app: *)
(* the subscriber re-sets both in unison), set-polling has its rate in the   *)
(* hash, and set-streaming what it did.                                      *)
LastWordHeard ==
  InService = {} =>
    /\ lastWord \in {"vehicle", "set-polling"} => rate["sensor"] = rate["mag"]
    /\ lastWord = "set-polling" => rateField = rate["sensor"]
    /\ lastWord = "set-streaming" => streamField = streaming

(* Disabling streaming does not wait for the poll that has passed the check  *)
(* of IsEnabled; that one reading may still go out, and no other until       *)
(* streaming is enabled again.                                               *)
StreamStops == late <= 1

(* A service without a magnetometer degrades and goes on (README: optional  *)
(* magnetometer telemetry; initSensors only warns).                         *)
NoPanic == Alive
=============================================================================
