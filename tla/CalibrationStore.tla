-------------------------- MODULE CalibrationStore --------------------------
(***************************************************************************)
(* What the magnetometer's calibration promises to whoever drives with it, *)
(* without the collector, its mutex, the poller or temporary files.  While *)
(* the service is up, the calibration in force changes in two ways only: a *)
(* model that no power loss can take back takes force (Activate), or none  *)
(* does once the file is gone (Disable).  A start takes what it finds.  It *)
(* may find more than was promised: a Finish that died or failed between   *)
(* Save and Settle has put a model into the file, the start takes it into  *)
(* force, and a power loss may still take it back (LoadUnsettled).  What a *)
(* power loss brings back is something the file held since the directory   *)
(* was last synced, and always a whole model.                              *)
(***************************************************************************)
CONSTANTS
  Models,  \* the models that can be fitted
  None,    \* no model
  Down     \* no process has loaded a calibration yet

VARIABLES
  active,      \* the calibration in force
  file,        \* the model a start would load now
  candidates   \* the models a start might find after a power loss

Init == active = Down /\ file = None /\ candidates = {None}

Up == active # Down

Settled == candidates = {file}

(* A start takes what the file holds, or nothing where it cannot read it:   *)
(* a file that stays as it is ...                                           *)
Load == ~Up /\ Settled /\ active' \in {file, None} /\ UNCHANGED << file, candidates >>

(* ... or one that an interrupted or failed Finish, or an unsynced Reset,   *)
(* left, and that the next power loss may replace by an older one.          *)
LoadUnsettled == ~Up /\ ~Settled /\ active' \in {file, None} /\ UNCHANGED << file, candidates >>

Save ==
  /\ Up /\ file' \in Models /\ candidates' = candidates \cup {file'}
  /\ UNCHANGED active

Settle == Up /\ candidates' = {file} /\ UNCHANGED << active, file >>

Activate ==
  /\ Up /\ file # None /\ Settled
  /\ active' = file /\ UNCHANGED << file, candidates >>

Remove ==
  /\ Up /\ file' = None /\ candidates' = candidates \cup {None}
  /\ UNCHANGED active

Disable == Up /\ file = None /\ active' = None /\ UNCHANGED << file, candidates >>

Crash == active' = Down /\ UNCHANGED << file, candidates >>

PowerLoss == active' = Down /\ file' \in candidates /\ candidates' = {file'}

Next ==
  \/ Load \/ LoadUnsettled \/ Save \/ Settle \/ Activate \/ Remove \/ Disable
  \/ Crash \/ PowerLoss

Spec == Init /\ [][Next]_<< active, file, candidates >>
=============================================================================
