--------------------------- MODULE MotionProfile ---------------------------
(***************************************************************************)
(* The pure part of package profile (internal/profile/profile.go): which   *)
(* hardware profile the alarm and power-manager states call for, and what  *)
(* each profile asks of the BMX055.                                        *)
(*                                                                         *)
(* A register byte is the SET OF ITS BITS, each bit written as its value:  *)
(* 0x0A is {2, 8}, 0x14 is {4, 16}.  The Go code's x | y is then x \cup y, *)
(* x &^ y is x \ y and x & y is x \cap y.                                  *)
(***************************************************************************)
EXTENDS Integers

Byte == {1, 2, 4, 8, 16, 32, 64, 128}

Profiles == {"idle", "armed-awake", "armed-hibernation", "level1", "waiting"}

Modes == {"any-motion", "slow-motion"}

(* bmx.InterruptPin: the set of physical pins it names. *)
PinNone == {}
PinINT1 == {1}
PinBoth == {1, 2}

SpecType == [mode : Modes, bandwidth : SUBSET Byte, threshold : SUBSET Byte,
          duration : SUBSET Byte, pins : SUBSET {1, 2}, enable : BOOLEAN]

Bw7_81Hz  == {8}
Bw15_63Hz == {1, 8}
Bw31_25Hz == {2, 8}

(* Configs(p): the sensor configuration, pin and interrupt enable of p. *)
Configs(p) ==
  IF p = "armed-awake" THEN
    [mode |-> "any-motion", bandwidth |-> Bw31_25Hz, threshold |-> {2, 4},
     duration |-> {1, 2}, pins |-> PinBoth, enable |-> TRUE]
  ELSE IF p = "armed-hibernation" THEN
    [mode |-> "any-motion", bandwidth |-> Bw31_25Hz, threshold |-> {8},
     duration |-> {1, 2}, pins |-> PinBoth, enable |-> TRUE]
  ELSE IF p = "level1" THEN
    [mode |-> "slow-motion", bandwidth |-> Bw15_63Hz, threshold |-> {8},
     duration |-> {1, 2}, pins |-> PinBoth, enable |-> TRUE]
  ELSE IF p = "waiting" THEN
    [mode |-> "slow-motion", bandwidth |-> Bw7_81Hz, threshold |-> {2, 4},
     duration |-> {1, 2}, pins |-> PinINT1, enable |-> TRUE]
  ELSE
    [mode |-> "slow-motion", bandwidth |-> Bw7_81Hz, threshold |-> {4, 16},
     duration |-> {2}, pins |-> PinNone, enable |-> FALSE]

(* isHibernationImminent *)
HibernationStates ==
  {"hibernating-imminent", "hibernating-manual-imminent", "hibernating-timer-imminent",
   "hibernating", "hibernating-manual", "hibernating-timer"}

(* mutant of Derive: a status nobody listed gets no profile *)
DeriveNoDefault(alarm, pm) ==
  IF alarm = "armed" THEN
    IF pm \in HibernationStates THEN "armed-hibernation" ELSE "armed-awake"
  ELSE IF alarm = "level-1-triggered" THEN "level1"
  ELSE IF alarm = "level-2-triggered" THEN "waiting"
  ELSE ""

(* Derive(alarmStatus, pmState) *)
Derive(alarm, pm) ==
  IF alarm = "armed" THEN
    IF pm \in HibernationStates THEN "armed-hibernation" ELSE "armed-awake"
  ELSE IF alarm = "level-1-triggered" THEN "level1"
  ELSE IF alarm = "level-2-triggered" THEN "waiting"
  ELSE "idle"
=============================================================================
