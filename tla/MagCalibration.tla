--------------------------- MODULE MagCalibration ---------------------------
(***************************************************************************)
(* The magnetometer's calibration: calibration.Collector fits a model from *)
(* the samples poller.MagPoller hands it, persists it and makes it the     *)
(* active one, while the poller computes headings with whatever is active. *)
(* Finish and Reset hold Collector.mu for all of their steps, so the step  *)
(* of the running call is also the holder of the mutex.                    *)
(*                                                                         *)
(* Models are numbered in the order they are fitted.  The file system      *)
(* keeps what it was told to sync; a directory entry renamed or unlinked   *)
(* and not synced since may come back after a power loss as it was.        *)
(***************************************************************************)
EXTENDS Naturals, Sequences

CONSTANTS
  Enough,     \* samples a capture needs (minSamples, minCoverageBins, minAxisSpan)
  Warmup,     \* headingQualityWarmup
  Window,     \* headingQualityWindow
  MaxFits,    \* bound on models fitted
  MaxResets,  \* bound on calibration-reset calls
  MaxFaults,  \* bound on failed file operations, readings and publications
  MaxCrashes  \* bound on crashes and power losses

ASSUME SamplesAssumption ==
  /\ {Enough, Warmup, Window} \subseteq Nat \ {0} /\ 1 < Warmup /\ Warmup <= Window
ASSUME BoundsAssumption == {MaxFits, MaxResets, MaxFaults, MaxCrashes} \subseteq Nat

Models   == 1 .. MaxFits
None     == 0
Torn     == MaxFits + 1   \* a file that LoadModel refuses
Contents == Models \cup {None, Torn}

VARIABLES
  collecting, samples, lastModel,  \* Collector's fields; samples counts up to Enough
  call,       \* the next step of the running Finish or Reset, or "none"
  fitted,     \* the newest model
  tmp,        \* is the temporary file's content safe on disk?
  file,       \* what the model file holds
  disk,       \* what it may hold after a power loss
  active, revision,   \* Magnetometer.calibration, .calibrationRevision
  poll,       \* the next step of MagPoller.poll
  snap,       \* the revision and the model ReadAll used
  seen,       \* MagPoller.calibrationRevision
  window,     \* headingQuality: the revisions its headings were computed with
  emaInit,    \* do the moving averages of the heading go on from another one?
  mixed,      \* the revisions of the headings mixed into them since they started
  verdict,    \* quality.Valid of the reading about to be published
  event,      \* heading_valid of the last event on motion:heading
  heading,    \* heading-valid of the hash motion
  boot,       \* the next step of app.Run's start-up, or "up"
  unsure,     \* history: a Finish failed after it had replaced the file, or
              \* start-up could not read the file, and nothing succeeded since
  saved,      \* history: the model of a Finish that succeeded, until another
              \* Finish or a Reset replaces or removes it
  resets, faults, crashes   \* how much of the bounds is used

collector == << collecting, samples, lastModel >>
files     == << tmp, file, disk >>
mag       == << active, revision >>
averages  == << emaInit, mixed >>
told      == << event, heading >>
poller    == << poll, snap, seen, window, averages, verdict, told >>
history   == << unsure, saved >>
bounds    == << resets, faults, crashes >>
vars == << collector, call, fitted, files, mag, poller, boot, history, bounds >>

CallSteps == {"none", "csv", "write", "sync", "rename", "syncDir", "apply", "remove", "disable"}

TypeOK ==
  /\ collecting \in BOOLEAN /\ samples \in 0 .. Enough /\ lastModel \in Models \cup {None}
  /\ call \in CallSteps /\ fitted \in Models \cup {None}
  /\ tmp \in BOOLEAN /\ file \in Contents /\ disk \in SUBSET Contents
  /\ active \in Models \cup {None} /\ revision \in Nat /\ seen \in Nat
  /\ poll \in {"read", "revision", "add", "evaluate", "publish", "hash"}
  /\ snap \in [revision : Nat, model : Models \cup {None}]
  /\ window \in Seq(Nat) /\ Len(window) <= Window
  /\ emaInit \in BOOLEAN /\ mixed \in SUBSET Nat
  /\ verdict \in BOOLEAN /\ event \in BOOLEAN /\ heading \in BOOLEAN
  /\ boot \in {"loadActive", "loadLast", "up"}
  /\ unsure \in BOOLEAN /\ saved \in Models \cup {None}
  /\ resets \in 0 .. MaxResets /\ faults \in 0 .. MaxFaults /\ crashes \in 0 .. MaxCrashes

(* A new process: nothing is known but the file. *)
Fresh ==
  /\ collecting = FALSE /\ samples = 0 /\ lastModel = None
  /\ call = "none" /\ tmp = FALSE
  /\ active = None /\ revision = 0
  /\ poll = "read" /\ snap = [revision |-> 0, model |-> None] /\ seen = 0
  /\ window = << >> /\ emaInit = FALSE /\ mixed = {} /\ verdict = FALSE
  /\ boot = "loadActive"

Init ==
  /\ Fresh /\ event = FALSE /\ heading = FALSE
  /\ fitted = None /\ file = None /\ disk = {None}
  /\ unsure = FALSE /\ saved = None
  /\ resets = 0 /\ faults = 0 /\ crashes = 0

Fault == faults < MaxFaults /\ faults' = faults + 1 /\ UNCHANGED << resets, crashes >>

SetCalibration(model) == active' = model /\ revision' = revision + 1

-----------------------------------------------------------------------------
(* app.Run reads the model for the magnetometer, NewCollector reads it       *)
(* again for the collector; a model that cannot be read is no model.         *)
LoadModel == IF file \in Models THEN file ELSE None

LoadActive ==
  /\ boot = "loadActive" /\ boot' = "loadLast"
  /\ \/ SetCalibration(LoadModel) /\ UNCHANGED << unsure, bounds >>
     \/ Fault /\ SetCalibration(None) /\ unsure' = TRUE
  /\ UNCHANGED << collector, call, fitted, files, poller, saved >>

LoadLast ==
  /\ boot = "loadLast" /\ boot' = "up"
  /\ \/ lastModel' = LoadModel /\ UNCHANGED << unsure, bounds >>
     \/ Fault /\ lastModel' = None /\ unsure' = TRUE
  /\ UNCHANGED << collecting, samples, call, fitted, files, mag, poller, saved >>

-----------------------------------------------------------------------------
(* The RPC handlers.  Status changes nothing; Finish changes nothing when   *)
(* no capture runs or it has too few samples.                               *)
MutexFree == boot = "up" /\ call = "none"

Start ==
  /\ MutexFree
  /\ collecting' = TRUE /\ samples' = 0
  /\ UNCHANGED << lastModel, call, fitted, files, mag, poller, boot, history, bounds >>

Cancel ==
  /\ MutexFree
  /\ collecting' = FALSE /\ samples' = 0
  /\ UNCHANGED << lastModel, call, fitted, files, mag, poller, boot, history, bounds >>

(* FitPlanar may refuse the samples; otherwise a new model is to be saved.  *)
Finish ==
  /\ MutexFree /\ collecting /\ samples = Enough /\ fitted < MaxFits
  /\ fitted' = fitted + 1 /\ call' = "csv"
  /\ UNCHANGED << collector, files, mag, poller, boot, history, bounds >>

Fails == call' = "none"

(* FitPlanar's verdict and the capture's own file: nothing else depends on it. *)
FinishCsv ==
  /\ call = "csv" /\ call' \in {"write", "none"}
  /\ UNCHANGED << collector, fitted, files, mag, poller, boot, history, bounds >>

(* mutant of FinishWrite: the temporary file is renamed before it is synced *)
FinishWriteUnsynced ==
  /\ call = "write" /\ tmp' = FALSE /\ call' = "rename"
  /\ UNCHANGED << collector, fitted, file, disk, mag, poller, boot, history, bounds >>

(* SaveModel: write a temporary file, sync it, rename it, sync the           *)
(* directory.  Any of them may fail.                                         *)
FinishWrite ==
  /\ call = "write" /\ tmp' = FALSE
  /\ \/ call' = "sync" /\ UNCHANGED bounds
     \/ Fault /\ Fails
  /\ UNCHANGED << collector, fitted, file, disk, mag, poller, boot, history >>

FinishSync ==
  /\ call = "sync"
  /\ \/ tmp' = TRUE /\ call' = "rename" /\ UNCHANGED bounds
     \/ Fault /\ Fails /\ UNCHANGED tmp
  /\ UNCHANGED << collector, fitted, file, disk, mag, poller, boot, history >>

FinishRename ==
  /\ call = "rename"
  /\ \/ /\ file' = fitted /\ disk' = disk \cup {IF tmp THEN fitted ELSE Torn}
        /\ call' = "syncDir" /\ saved' = None /\ UNCHANGED bounds
     \/ Fault /\ Fails /\ UNCHANGED << file, disk, saved >>
  /\ UNCHANGED << collector, fitted, tmp, mag, poller, boot, unsure >>

(* mutant of FinishSyncDir: the directory is not synced *)
FinishSyncDirSkipped ==
  /\ call = "syncDir" /\ call' = "apply"
  /\ UNCHANGED << collector, fitted, files, mag, poller, boot, history, bounds >>

(* The new model stands in the file even when Finish fails here, and is the *)
(* only one the disk holds when it was the Close that failed.               *)
FinishSyncDir ==
  /\ call = "syncDir"
  /\ LET synced == {IF tmp THEN file ELSE Torn}
     IN \/ disk' = synced /\ call' = "apply" /\ UNCHANGED << unsure, bounds >>
        \/ Fault /\ Fails /\ unsure' = TRUE /\ disk' \in {disk, synced}
  /\ UNCHANGED << collector, fitted, tmp, file, mag, poller, boot, saved >>

FinishApply ==
  /\ call = "apply" /\ call' = "none"
  /\ SetCalibration(fitted) /\ lastModel' = fitted /\ collecting' = FALSE
  /\ unsure' = FALSE /\ saved' = fitted
  /\ UNCHANGED << samples, fitted, files, poller, boot, bounds >>

(* The unlinked entry is not synced. *)
Reset ==
  /\ MutexFree /\ resets < MaxResets /\ resets' = resets + 1
  /\ call' = "remove"
  /\ UNCHANGED << collector, fitted, files, mag, poller, boot, history, faults, crashes >>

(* mutant of ResetRemove: a failed unlink is only logged *)
ResetRemoveUnchecked ==
  /\ call = "remove" /\ call' = "disable" /\ saved' = None
  /\ \/ file' = None /\ disk' = disk \cup {None} /\ UNCHANGED bounds
     \/ Fault /\ UNCHANGED << file, disk >>
  /\ UNCHANGED << collector, fitted, tmp, mag, poller, boot, unsure >>

ResetRemove ==
  /\ call = "remove"
  /\ \/ /\ file' = None /\ disk' = disk \cup {None}
        /\ call' = "disable" /\ saved' = None /\ UNCHANGED bounds
     \/ Fault /\ Fails /\ UNCHANGED << file, disk, saved >>
  /\ UNCHANGED << collector, fitted, tmp, mag, poller, boot, unsure >>

(* mutant of ResetDisable: apply(nil) is forgotten *)
ResetDisableUnapplied ==
  /\ call = "disable" /\ call' = "none"
  /\ collecting' = FALSE /\ samples' = 0 /\ lastModel' = None /\ unsure' = FALSE
  /\ UNCHANGED << fitted, files, mag, poller, boot, saved, bounds >>

ResetDisable ==
  /\ call = "disable" /\ call' = "none"
  /\ collecting' = FALSE /\ samples' = 0 /\ lastModel' = None
  /\ SetCalibration(None)
  /\ unsure' = FALSE
  /\ UNCHANGED << fitted, files, poller, boot, saved, bounds >>

CallStep ==
  \/ FinishCsv \/ FinishWrite \/ FinishSync \/ FinishRename \/ FinishSyncDir \/ FinishApply
  \/ ResetRemove \/ ResetDisable

-----------------------------------------------------------------------------
(* MagPoller.poll.  ReadAll computes the field with the active model; when   *)
(* it cannot read the chip, poll returns, and the next tick tries again ...  *)
PollRead ==
  /\ boot = "up" /\ poll = "read"
  /\ \/ /\ poll' = "revision" /\ UNCHANGED bounds
        /\ snap' = [revision |-> revision, model |-> active]
     \/ Fault /\ UNCHANGED << poll, snap >>
  /\ UNCHANGED << collector, call, fitted, files, mag, seen, window, averages, verdict, told, boot, history >>

(* mutant of PollRevision: the averages go on over the calibration *)
PollRevisionKeepsAverages ==
  /\ poll = "revision" /\ poll' = "add"
  /\ seen' = revision
  /\ window' = (IF revision = seen THEN window ELSE << >>)
  /\ mixed' = (IF emaInit THEN mixed \cup {snap.revision} ELSE {}) /\ emaInit' = TRUE
  /\ UNCHANGED << collector, call, fitted, files, mag, snap, verdict, told, boot, history, bounds >>

(* mutant of PollRevision: the window goes on over the calibration *)
PollRevisionKeepsWindow ==
  /\ poll = "revision" /\ poll' = "add"
  /\ seen' = revision
  /\ mixed' = (IF revision = seen /\ emaInit THEN mixed \cup {snap.revision} ELSE {})
  /\ emaInit' = TRUE
  /\ UNCHANGED << collector, call, fitted, files, mag, snap, window, verdict, told, boot, history, bounds >>

(* ... a new revision empties the quality window and starts the averages    *)
(* anew, from the heading just computed ...                                 *)
PollRevision ==
  /\ poll = "revision" /\ poll' = "add"
  /\ seen' = revision
  /\ window' = (IF revision = seen THEN window ELSE << >>)
  /\ mixed' = (IF revision = seen /\ emaInit THEN mixed \cup {snap.revision} ELSE {})
  /\ emaInit' = TRUE
  /\ UNCHANGED << collector, call, fitted, files, mag, snap, verdict, told, boot, history, bounds >>

(* ... Collector.Add waits for the mutex, and drops a sample it rejects ...   *)
PollAdd ==
  /\ poll = "add" /\ call = "none" /\ poll' = "evaluate"
  /\ \/ collecting /\ samples < Enough /\ samples' = samples + 1
     \/ UNCHANGED samples
  /\ UNCHANGED << collecting, lastModel, call, fitted, files, mag, snap, seen, window, averages, verdict, told, boot, history, bounds >>

(* mutant of Appended: the window is never full *)
AppendedForever(w, r) == Append(w, r)

Appended(w, r) == IF Len(w) = Window THEN Append(Tail(w), r) ELSE Append(w, r)

(* mutant of PollEvaluate: applyCalibrationPolicy is left out *)
PollEvaluateAnyState ==
  /\ poll = "evaluate" /\ poll' = "publish"
  /\ window' = Appended(window, snap.revision) /\ verdict' = (Len(window') >= Warmup)
  /\ UNCHANGED << collector, call, fitted, files, mag, snap, seen, averages, told, boot, history, bounds >>

(* ... evaluate judges the window, the sample being one of many it may       *)
(* refuse, and the calibration state as it is by now has the last word ...   *)
PollEvaluate ==
  /\ poll = "evaluate" /\ poll' = "publish"
  /\ window' = Appended(window, snap.revision)
  /\ verdict' \in {FALSE, Len(window') >= Warmup /\ active # None}
  /\ UNCHANGED << collector, call, fitted, files, mag, snap, seen, averages, told, boot, history, bounds >>

(* ... and the reading is published, as an event and, if that succeeds, in  *)
(* the hash.  Either may have had its effect when it fails.                 *)
PollPublish ==
  /\ poll = "publish"
  /\ \/ event' = verdict /\ poll' = "hash" /\ UNCHANGED bounds
     \/ Fault /\ event' \in {event, verdict} /\ poll' = "read"
  /\ UNCHANGED << collector, call, fitted, files, mag, snap, seen, window, averages, verdict, heading, boot, history >>

PollHash ==
  /\ poll = "hash" /\ poll' = "read"
  /\ \/ heading' = verdict /\ UNCHANGED bounds
     \/ Fault /\ heading' \in {heading, verdict}
  /\ UNCHANGED << collector, call, fitted, files, mag, snap, seen, window, averages, verdict, event, boot, history >>

PollStep == PollRead \/ PollRevision \/ PollAdd \/ PollEvaluate \/ PollPublish \/ PollHash

-----------------------------------------------------------------------------
(* The process dies, or the power goes with it; both lead to a fresh start. *)
Restarts ==
  /\ crashes < MaxCrashes /\ crashes' = crashes + 1
  /\ collecting' = FALSE /\ samples' = 0 /\ lastModel' = None
  /\ call' = "none" /\ tmp' = FALSE
  /\ active' = None /\ revision' = 0
  /\ poll' = "read" /\ snap' = [revision |-> 0, model |-> None] /\ seen' = 0
  /\ window' = << >> /\ emaInit' = FALSE /\ mixed' = {} /\ verdict' = FALSE
  /\ boot' = "loadActive" /\ unsure' = FALSE
  /\ UNCHANGED << fitted, told, saved, resets, faults >>

Crash == Restarts /\ UNCHANGED << file, disk >>

PowerLoss == Restarts /\ file' \in disk /\ disk' = {file'}

Next ==
  \/ LoadActive \/ LoadLast
  \/ Start \/ Cancel \/ Finish \/ Reset \/ CallStep
  \/ PollStep
  \/ Crash \/ PowerLoss

Spec == Init /\ [][Next]_vars

FairSpec == Spec /\ WF_vars(LoadActive \/ LoadLast) /\ WF_vars(CallStep) /\ WF_vars(PollStep)

-----------------------------------------------------------------------------
(* Properties *)

AtRest == boot = "up" /\ call = "none"

(* The collector's record, the active calibration and the model file agree  *)
(* whenever no call runs, after any mixture of failed and successful        *)
(* Finish and Reset calls, crashes and power losses, except between a       *)
(* Finish that failed after its rename (or a start-up that failed to read   *)
(* the file) and the next call that succeeds.                               *)
RecordsAgree == AtRest /\ ~unsure => lastModel = active /\ LoadModel = active

(* A model whose Finish was acknowledged survives power losses and later    *)
(* failures: the disk holds it, and nothing else, until another Finish      *)
(* renames over it or a Reset removes it (writeAtomic's two syncs).  What   *)
(* a later Finish that fails does to it is PreviousSurvives.                *)
FinishSurvives == saved # None => file = saved /\ disk = {saved}

(* No crash leaves a model file that start-up has to refuse.                *)
NeverTorn == Torn \notin disk

(* After the calibration has changed, headings are smoothed and judged with  *)
(* headings of one calibration: the poll that meets the change may have read *)
(* the field before it, so at most the first heading of the window, and the  *)
(* one the averages start from, are older.                                   *)
WindowFresh ==
  /\ \A i \in 2 .. Len(window) : window[i] = seen
  /\ mixed \subseteq {seen}

(* A heading about to be published as valid, on the channel and then in the *)
(* hash, was computed with the calibration that is in force, as long as no  *)
(* Finish or Reset has changed it since that poll looked at the revision:   *)
(* neither a change between the reading and the look nor one before it can  *)
(* make a heading valid that was computed without (MagPoller.poll).         *)
ValidIsCalibrated ==
  poll \in {"publish", "hash"} /\ verdict /\ seen = revision
    => active # None /\ snap.model = active

(* A heading stops to be called valid once no calibration is active, on the  *)
(* channel and in the hash, although the poller shares the mutex with the    *)
(* call that resets, may be in the middle of a poll, and may fail to read    *)
(* the chip or to publish.  The README says immediately; what is promised    *)
(* here is that it happens, as one heading judged before may still go out.   *)
ResetDisablesHeading ==
  boot = "up" /\ active = None ~> (~heading /\ ~event) \/ active # None

(* No heading is called valid that was computed without a calibration       *)
(* (README: vehicles without a valid calibration fail closed).              *)
HeadingFailsClosed == [][~heading /\ heading' => snap.model # None]_vars

(* Finish is answered with an error.                                        *)
FinishFails ==
  call \in {"csv", "write", "sync", "rename", "syncDir"} /\ call' = "none" /\ UNCHANGED boot

(* A Finish that fails leaves the previous model where the next start finds *)
(* it (the README on calibration-finish: the previous model survives).      *)
PreviousSurvives == [][FinishFails /\ lastModel # None => file' = lastModel]_vars

(* Calibration implements CalibrationStore, whatever fails and whenever the *)
(* process or the power dies: Finish and Reset change the calibration in    *)
(* force only after what they did to the file (Finish only after it was     *)
(* synced), and a start finds what the directory held at its last sync or   *)
(* later, an unfinished or failed Finish's model included.                  *)
Store == INSTANCE CalibrationStore WITH
           Down       <- Torn,
           active     <- IF boot = "loadActive" THEN Torn ELSE active,
           candidates <- disk
StoreSpec == Store!Spec
=============================================================================
