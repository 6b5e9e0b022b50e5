--------------------------- MODULE SensorStartup ---------------------------
(***************************************************************************)
(* How app.Run gets hold of the three sensors: driver.UnbindBMX055 takes   *)
(* them from the kernel's drivers, which let go of a device only some time *)
(* after they are told to, and initSensors opens them, the accelerometer   *)
(* and the gyroscope with retries, the magnetometer once.  systemd starts  *)
(* the process again when it gives up.                                     *)
(***************************************************************************)
EXTENDS Naturals, Sequences

CONSTANTS
  Attempts,  \* sensorInitAttempts, at least 1
  MaxFaults  \* bound on failed file operations and transactions, and timeouts

Devices == << "accel", "gyro", "mag" >>

VARIABLES
  driver,  \* the kernel's hold on each device: "bound", "releasing" or "free"
  boot,    \* the next step of app.Run
  at,      \* the device it is about
  tries,   \* failed attempts to open it
  found,   \* was the magnetometer found?
  faults

startup == << driver, boot, at, tries, found, faults >>

TypeOK ==
  /\ driver \in [1 .. Len(Devices) -> {"bound", "releasing", "free"}]
  /\ boot \in {"unbind", "detach", "open", "exited", "ready", "up"}
  /\ at \in 1 .. Len(Devices) /\ tries \in 0 .. Attempts - 1
  /\ found \in BOOLEAN /\ faults \in 0 .. MaxFaults

(* Which drivers an image has varies. *)
Init ==
  /\ driver \in [1 .. Len(Devices) -> {"bound", "free"}]
  /\ boot = "unbind" /\ at = 1 /\ tries = 0 /\ found = FALSE
  /\ faults = 0

Fault == faults < MaxFaults /\ faults' = faults + 1

Goto(step, d) == boot' = step /\ at' = d /\ tries' = 0

Last == at = Len(Devices)

NextDevice(step, after) == IF Last THEN Goto(after, 1) ELSE Goto(step, at + 1)

-----------------------------------------------------------------------------
(* The kernel lets go. *)
Released ==
  /\ \E d \in 1 .. Len(Devices) :
       driver[d] = "releasing" /\ driver' = [driver EXCEPT ![d] = "free"]
  /\ UNCHANGED << boot, at, tries, found, faults >>

(* Told again, a driver that is about to let go says ENODEV, which is fine; *)
(* any other error ends the unbinding of the devices after it too, and is   *)
(* only logged.                                                             *)
Unbind ==
  /\ boot = "unbind"
  /\ \/ driver[at] = "free" /\ NextDevice("unbind", "open") /\ UNCHANGED << driver, faults >>
     \/ /\ driver[at] = "bound" /\ driver' = [driver EXCEPT ![at] = "releasing"]
        /\ Goto("detach", at) /\ UNCHANGED faults
     \/ /\ driver[at] = "releasing" /\ UNCHANGED << driver, faults >>
        /\ (Goto("detach", at) \/ NextDevice("unbind", "open"))
     \/ driver[at] # "free" /\ Fault /\ Goto("open", 1) /\ UNCHANGED driver
  /\ UNCHANGED found

(* It waits unbindSettleTimeout for the device to be gone. *)
WaitForDetach ==
  /\ boot = "detach"
  /\ \/ driver[at] = "free" /\ NextDevice("unbind", "open") /\ UNCHANGED faults
     \/ driver[at] # "free" /\ Fault /\ Goto("open", 1)
  /\ UNCHANGED << driver, found >>

(* The kernel refuses the address of a device it holds. *)
Opens ==
  /\ boot = "open" /\ driver[at] = "free"
  /\ NextDevice("open", "ready") /\ found' = Last
  /\ UNCHANGED << driver, faults >>

Refused ==
  /\ boot = "open"
  /\ \/ driver[at] # "free" /\ UNCHANGED faults
     \/ Fault

(* mutant of OpenFails: initWithRetry never gives up *)
OpenFailsForEver ==
  /\ Refused /\ IF Last THEN Goto("ready", 1) ELSE UNCHANGED << boot, at, tries >>
  /\ UNCHANGED << driver, found >>

(* mutant of OpenFails: any sensor that cannot be opened is done without *)
OpenFailsGoesOn ==
  /\ Refused
  /\ IF ~Last /\ tries + 1 < Attempts THEN tries' = tries + 1 /\ UNCHANGED << boot, at >>
                                       ELSE NextDevice("open", "ready")
  /\ UNCHANGED << driver, found >>

(* A magnetometer that cannot be opened at once is done without. *)
OpenFails ==
  /\ Refused
  /\ IF Last THEN Goto("ready", 1)
     ELSE IF tries + 1 < Attempts THEN tries' = tries + 1 /\ UNCHANGED << boot, at >>
     ELSE Goto("exited", 1)
  /\ UNCHANGED << driver, found >>

Restart ==
  /\ boot = "exited" /\ Goto("unbind", 1)
  /\ UNCHANGED << driver, found, faults >>

Step == Unbind \/ WaitForDetach \/ Opens \/ OpenFails \/ Restart

-----------------------------------------------------------------------------
(* Properties *)

(* The accelerometer and the gyroscope are held and the service comes up in  *)
(* the end, although an error ends the unbinding early and is only logged:   *)
(* the start that follows the exit finds the driver still there and unbinds  *)
(* it.                                                                       *)
ComesUp == <>(boot = "up")

(* A service that is up holds each sensor it uses: no failed or abandoned    *)
(* unbinding, no retry and no restart leaves the accelerometer, the          *)
(* gyroscope, or a magnetometer that it counts as found, with the kernel     *)
(* (initSensors: a warning for the magnetometer only).                       *)
SensorsHeld ==
  boot = "up" => \A d \in 1 .. Len(Devices) : driver[d] = "free" \/ (d = Len(Devices) /\ ~found)
=============================================================================
