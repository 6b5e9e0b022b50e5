------------------------ MODULE MagCalibrationProofs ------------------------
(***************************************************************************)
(* Theorems about MagCalibration, for every number of fits, resets,        *)
(* faults, crashes and every size of the capture and the quality window.   *)
(* Four inductive invariants, each of which builds on the one before or on *)
(* the types alone: FileInv (what each step of SaveModel leaves on the     *)
(* disk), RecordInv (who knows which model), PollInv (which revision the   *)
(* reading in work was computed with) and JudgedInv (which revision the    *)
(* heading was judged by).  Under the first two each step is one of the    *)
(* abstract CalibrationStore, or none.                                     *)
(***************************************************************************)
EXTENDS MagCalibration, TLAPS

(* What the steps of SaveModel and Reset have done so far. *)
FileInv ==
  /\ Torn \notin disk
  /\ call \in {"rename", "syncDir"} => tmp
  /\ call \in {"syncDir", "apply"} => file = fitted
  /\ call \in {"csv", "write", "sync", "rename", "syncDir", "apply"} => fitted # None
  /\ call = "syncDir" => saved = None
  /\ call = "apply" => disk = {file}
  /\ call = "disable" => file = None
  /\ saved # None => file = saved /\ disk = {saved}

(* While a call has replaced or removed the file, and has not told yet, the *)
(* records lag behind it.                                                   *)
RecordInv ==
  /\ boot # "up" => call = "none"
  /\ boot = "loadLast" /\ ~unsure => active = LoadModel
  /\ boot = "up" /\ ~unsure /\ call \notin {"syncDir", "apply", "disable"}
       => lastModel = active /\ LoadModel = active

(* The revision only grows, so a reading taken after the window was judged  *)
(* fresh, with a revision that is still the newest, is of that revision.    *)
PollInv ==
  /\ seen <= revision /\ snap.revision <= revision
  /\ poll = "revision" => seen <= snap.revision
  /\ poll \in {"add", "evaluate"} => window = << >> \/ snap.revision = seen
  /\ WindowFresh

(* The numbers that name contents differ. *)
LEMMA NoneIsNotTorn == None \notin Models /\ Torn \notin Models \cup {None}
BY BoundsAssumption DEF None, Torn, Models

-----------------------------------------------------------------------------
(* A window keeps its length and gets the new heading at its end. *)
LEMMA AppendedFacts ==
  ASSUME NEW w \in Seq(Nat), Len(w) <= Window, NEW r \in Nat
  PROVE  /\ Appended(w, r) \in Seq(Nat)
         /\ Len(Appended(w, r)) <= Window
         /\ \A i \in 2 .. Len(Appended(w, r)) :
              Appended(w, r)[i] = r \/ \E j \in 2 .. Len(w) : Appended(w, r)[i] = w[j]
         /\ w = << >> => Len(Appended(w, r)) = 1
<1>w. Window \in Nat \ {0}
  BY SamplesAssumption
<1>1. CASE Len(w) = Window
  <2> DEFINE a == Append(Tail(w), r)
  <2>1. w # << >> /\ Len(w) \in Nat
    BY <1>1, <1>w
  <2>2. Tail(w) \in Seq(Nat) /\ Len(Tail(w)) = Len(w) - 1
        /\ \A i \in 1 .. Len(w) - 1 : Tail(w)[i] = w[i + 1]
    BY <2>1
  <2>3. a \in Seq(Nat) /\ Len(a) = Len(w) /\ a[Len(w)] = r
        /\ \A i \in 1 .. Len(w) - 1 : a[i] = Tail(w)[i]
    BY <2>1, <2>2
  <2>5. Appended(w, r) = a
    BY <1>1 DEF Appended
  <2> HIDE DEF a
  <2>6. ASSUME NEW i \in 2 .. Len(a) PROVE a[i] = r \/ \E j \in 2 .. Len(w) : a[i] = w[j]
    <3>1. CASE i = Len(w)
      BY <2>3, <3>1
    <3>2. CASE i # Len(w)
      <4>1. i \in 1 .. Len(w) - 1 /\ i + 1 \in 2 .. Len(w)
        BY <2>1, <2>3, <3>2
      <4>2. a[i] = w[i + 1]
        BY <4>1, <2>2, <2>3
      <4> QED BY <4>1, <4>2
    <3> QED BY <3>1, <3>2
  <2> QED BY <1>1, <2>1, <2>3, <2>5, <2>6
<1>2. CASE Len(w) # Window
  <2> DEFINE a == Append(w, r)
  <2>1. Appended(w, r) = a
    BY <1>2 DEF Appended
  <2>2. a \in Seq(Nat) /\ Len(a) = Len(w) + 1 /\ a[Len(w) + 1] = r
        /\ \A i \in 1 .. Len(w) : a[i] = w[i]
    OBVIOUS
  <2> HIDE DEF a
  <2>3. Len(w) \in Nat /\ (w = << >> => Len(w) = 0)
    OBVIOUS
  <2>4. ASSUME NEW i \in 2 .. Len(a) PROVE a[i] = r \/ \E j \in 2 .. Len(w) : a[i] = w[j]
    <3>1. CASE i = Len(w) + 1
      BY <2>2, <3>1
    <3>2. CASE i # Len(w) + 1
      <4>1. i \in 1 .. Len(w) /\ i \in 2 .. Len(w)
        BY <2>2, <2>3, <3>2
      <4> QED BY <2>2, <4>1
    <3> QED BY <3>1, <3>2
  <2> QED BY <1>2, <1>w, <2>1, <2>2, <2>3, <2>4
<1> QED BY <1>1, <1>2

-----------------------------------------------------------------------------
(* The types, by who changes the variables. *)
CallTypes ==
  /\ collecting \in BOOLEAN /\ samples \in 0 .. Enough /\ lastModel \in Models \cup {None}
  /\ call \in CallSteps /\ fitted \in Models \cup {None}
  /\ tmp \in BOOLEAN /\ file \in Contents /\ disk \in SUBSET Contents
  /\ active \in Models \cup {None} /\ revision \in Nat
  /\ boot \in {"loadActive", "loadLast", "up"}
  /\ unsure \in BOOLEAN /\ saved \in Models \cup {None}

PollTypes ==
  /\ seen \in Nat
  /\ poll \in {"read", "revision", "add", "evaluate", "publish", "hash"}
  /\ snap \in [revision : Nat, model : Models \cup {None}]
  /\ window \in Seq(Nat) /\ Len(window) <= Window
  /\ emaInit \in BOOLEAN /\ mixed \in SUBSET Nat
  /\ verdict \in BOOLEAN /\ event \in BOOLEAN /\ heading \in BOOLEAN

BoundTypes ==
  resets \in 0 .. MaxResets /\ faults \in 0 .. MaxFaults /\ crashes \in 0 .. MaxCrashes

(* Together they are the type invariant. *)
LEMMA TypeParts ==
  /\ TypeOK <=> CallTypes /\ PollTypes /\ BoundTypes
  /\ TypeOK' <=> CallTypes' /\ PollTypes' /\ BoundTypes'
BY DEF TypeOK, CallTypes, PollTypes, BoundTypes

(* A step that leaves a group alone keeps its types. *)
LEMMA TypesKept ==
  ASSUME TypeOK
  PROVE  /\ UNCHANGED << collector, call, fitted, files, mag, boot, history >> => CallTypes'
         /\ UNCHANGED poller => PollTypes'
         /\ UNCHANGED bounds \/ Fault => BoundTypes'
<1>1. UNCHANGED << collector, call, fitted, files, mag, boot, history >> => CallTypes'
  BY TypeParts DEF CallTypes, collector, files, mag, history
<1>2. UNCHANGED poller => PollTypes'
  BY TypeParts DEF PollTypes, poller, averages, told
<1>3. UNCHANGED bounds => BoundTypes'
  BY TypeParts DEF BoundTypes, bounds
<1>4. Fault => BoundTypes'
  BY TypeParts, BoundsAssumption DEF BoundTypes, Fault
<1> QED BY <1>1, <1>2, <1>3, <1>4

(* Start-up and the calls keep the types. *)
LEMMA TypeCalls ==
  ASSUME TypeOK,
         LoadActive \/ LoadLast \/ Start \/ Cancel \/ Finish \/ Reset \/ CallStep
  PROVE  TypeOK'
<1>c. CallTypes /\ BoundTypes
  BY TypeParts
<1>l. LoadModel \in Models \cup {None}
  BY DEF LoadModel
<1>b. None \in Nat /\ Torn \in Contents /\ Models \subseteq Contents /\ None \in Contents
      /\ 0 \in 0 .. Enough
  BY SamplesAssumption DEF None, Contents
<1>p. UNCHANGED poller
  BY DEF LoadActive, LoadLast, Start, Cancel, Finish, Reset, CallStep, FinishCsv, FinishWrite,
         FinishSync, FinishRename, FinishSyncDir, FinishApply, ResetRemove, ResetDisable
<1>f. UNCHANGED bounds \/ Fault \/ Reset
  BY DEF LoadActive, LoadLast, Start, Cancel, Finish, CallStep, FinishCsv, FinishWrite,
         FinishSync, FinishRename, FinishSyncDir, FinishApply, ResetRemove, ResetDisable
<1>r. Reset => BoundTypes'
  BY <1>c, BoundsAssumption DEF Reset, BoundTypes
<1>t. CallTypes' => TypeOK'
  BY <1>p, <1>f, <1>r, TypesKept, TypeParts
<1> USE <1>c, <1>l, <1>b DEF CallTypes, collector, files, mag, history
<1>1. CASE LoadActive
  <2>1. active' \in Models \cup {None} /\ revision' \in Nat
    BY <1>1 DEF LoadActive, SetCalibration
  <2> QED BY <1>t, <1>1, <2>1 DEF LoadActive
<1>2. CASE LoadLast
  BY <1>t, <1>2 DEF LoadLast
<1>3. CASE Start \/ Cancel
  BY <1>t, <1>3 DEF Start, Cancel
<1>4. CASE Finish
  <2>1. fitted + 1 \in Models
    BY <1>4, BoundsAssumption DEF Finish, Models, None
  <2> QED BY <1>t, <1>4, <2>1 DEF Finish, CallSteps
<1>5. CASE Reset
  BY <1>t, <1>5 DEF Reset, CallSteps
<1>6. CASE CallStep
  <2>1. CASE FinishCsv
    BY <1>t, <2>1 DEF FinishCsv, CallSteps
  <2>2. CASE FinishWrite
    BY <1>t, <2>2 DEF FinishWrite, Fails, CallSteps
  <2>3. CASE FinishSync
    BY <1>t, <2>3 DEF FinishSync, Fails, CallSteps
  <2>4. CASE FinishRename
    BY <1>t, <2>4 DEF FinishRename, Fails, CallSteps, Contents
  <2>5. CASE FinishSyncDir
    BY <1>t, <2>5 DEF FinishSyncDir, Fails, CallSteps
  <2>6. CASE FinishApply
    <3>1. active' \in Models \cup {None} /\ revision' \in Nat
      BY <2>6 DEF FinishApply, SetCalibration
    <3> QED BY <1>t, <2>6, <3>1 DEF FinishApply, CallSteps
  <2>7. CASE ResetRemove
    BY <1>t, <2>7 DEF ResetRemove, Fails, CallSteps
  <2>8. CASE ResetDisable
    <3>1. active' \in Models \cup {None} /\ revision' \in Nat
      BY <2>8 DEF ResetDisable, SetCalibration
    <3> QED BY <1>t, <2>8, <3>1 DEF ResetDisable, CallSteps
  <2> QED BY <1>6, <2>1, <2>2, <2>3, <2>4, <2>5, <2>6, <2>7, <2>8 DEF CallStep
<1> QED BY <1>1, <1>2, <1>3, <1>4, <1>5, <1>6

(* So do the poller's steps, crashes and power losses. *)
LEMMA TypeRest ==
  ASSUME TypeOK, PollStep \/ Crash \/ PowerLoss
  PROVE  TypeOK'
<1>p. CallTypes /\ PollTypes /\ BoundTypes
  BY TypeParts
<1>b. None \in Nat /\ 0 \in 0 .. Enough
  BY SamplesAssumption DEF None
<1>e. << >> \in Seq(Nat) /\ Len(<< >>) <= Window
  BY SamplesAssumption
<1>1. CASE PollRead
  <2>1. PollTypes'
    BY <1>p, <1>1 DEF PollRead, PollTypes, CallTypes, averages, told, Fault
  <2> QED BY <1>1, <2>1, TypesKept, TypeParts DEF PollRead
<1>2. CASE PollRevision
  <2>1. PollTypes'
    BY <1>p, <1>e, <1>2 DEF PollRevision, PollTypes, CallTypes, told
  <2> QED BY <1>2, <2>1, TypesKept, TypeParts DEF PollRevision
<1>3. CASE PollAdd
  <2>1. PollTypes'
    BY <1>p, <1>3 DEF PollAdd, PollTypes, averages, told
  <2>2. CallTypes'
    BY <1>p, <1>3, SamplesAssumption DEF PollAdd, CallTypes, files, mag, history
  <2> QED BY <1>3, <2>1, <2>2, TypesKept, TypeParts DEF PollAdd
<1>4. CASE PollEvaluate
  <2>1. Appended(window, snap.revision) \in Seq(Nat) /\ Len(Appended(window, snap.revision)) <= Window
    BY <1>p, AppendedFacts DEF PollTypes
  <2>2. PollTypes'
    BY <1>p, <1>4, <2>1 DEF PollEvaluate, PollTypes, averages, told
  <2> QED BY <1>4, <2>2, TypesKept, TypeParts DEF PollEvaluate
<1>5. CASE PollPublish
  <2>1. PollTypes'
    BY <1>p, <1>5 DEF PollPublish, PollTypes, averages
  <2> QED BY <1>5, <2>1, TypesKept, TypeParts DEF PollPublish
<1>6. CASE PollHash
  <2>1. PollTypes'
    BY <1>p, <1>6 DEF PollHash, PollTypes, averages
  <2> QED BY <1>6, <2>1, TypesKept, TypeParts DEF PollHash
<1>7. ASSUME Restarts, file' \in Contents, disk' \in SUBSET Contents PROVE TypeOK'
  <2>1. CallTypes'
    BY <1>p, <1>b, <1>7 DEF Restarts, CallTypes, CallSteps
  <2>2. PollTypes'
    BY <1>p, <1>b, <1>e, <1>7 DEF Restarts, PollTypes, told
  <2>3. BoundTypes'
    BY <1>p, <1>7, BoundsAssumption DEF Restarts, BoundTypes
  <2> QED BY <2>1, <2>2, <2>3, TypeParts
<1>8. CASE Crash
  BY <1>p, <1>7, <1>8 DEF Crash, CallTypes
<1>9. CASE PowerLoss
  BY <1>p, <1>7, <1>9 DEF PowerLoss, CallTypes
<1> QED BY <1>1, <1>2, <1>3, <1>4, <1>5, <1>6, <1>8, <1>9 DEF PollStep

(* MagCalibration keeps its types.                                          *)
THEOREM TypeCorrect == Spec => []TypeOK
<1>1. Init => TypeOK
  <2> SUFFICES ASSUME Init PROVE TypeOK
    OBVIOUS
  <2>1. None \in Nat /\ 0 \in 0 .. Enough /\ << >> \in Seq(Nat) /\ Len(<< >>) <= Window
    BY SamplesAssumption DEF None
  <2>2. CallTypes
    BY <2>1 DEF Init, Fresh, CallTypes, CallSteps, Contents
  <2>3. PollTypes
    BY <2>1 DEF Init, Fresh, PollTypes
  <2>4. BoundTypes
    BY BoundsAssumption DEF Init, BoundTypes
  <2> QED BY <2>2, <2>3, <2>4, TypeParts
<1>2. TypeOK /\ [Next]_vars => TypeOK'
  <2>1. TypeOK /\ UNCHANGED vars => TypeOK'
    BY TypesKept, TypeParts DEF vars
  <2> QED BY <2>1, TypeCalls, TypeRest DEF Next
<1> QED BY <1>1, <1>2, PTL DEF Spec

-----------------------------------------------------------------------------
(* Each step of SaveModel and Reset leaves the disk as the next one finds   *)
(* it, and a crash leaves nothing half done.                                *)
LEMMA FileStep == TypeOK /\ FileInv /\ [Next]_vars => FileInv'
<1> SUFFICES ASSUME TypeOK, FileInv, [Next]_vars PROVE FileInv'
  OBVIOUS
<1>t. file \in Contents /\ disk \in SUBSET Contents /\ fitted \in Models \cup {None}
  BY DEF TypeOK
<1>n. None # Torn /\ None \notin Models /\ Torn \notin Models
  BY NoneIsNotTorn DEF Models, None, Torn
<1>k. ASSUME UNCHANGED << call, fitted, files, saved >> PROVE FileInv'
  BY <1>k DEF FileInv, files
<1>1. CASE LoadActive \/ LoadLast \/ Start \/ Cancel \/ PollStep \/ UNCHANGED vars
  BY <1>k, <1>1 DEF LoadActive, LoadLast, Start, Cancel, PollStep, PollRead, PollRevision, PollAdd,
                    PollEvaluate, PollPublish, PollHash, vars, history
<1>2. CASE Finish \/ FinishCsv
  <2>1. fitted' # None /\ call' \in {"csv", "write", "none"} /\ UNCHANGED << files, saved >>
    <3>1. CASE Finish
      <4>1. fitted + 1 # None
        BY <1>t, BoundsAssumption DEF None, Models
      <4> QED BY <3>1, <4>1 DEF Finish, history
    <3>2. CASE FinishCsv /\ fitted # None
      BY <3>2 DEF FinishCsv, history
    <3> QED BY <1>2, <3>1, <3>2 DEF FileInv, FinishCsv
  <2> QED BY <2>1 DEF FileInv, files
<1>3. CASE FinishWrite
  BY <1>3 DEF FinishWrite, Fails, FileInv, history
<1>4. CASE FinishSync
  BY <1>4 DEF FinishSync, Fails, FileInv, history
<1>5. CASE FinishRename
  BY <1>5, <1>t, <1>n DEF FinishRename, Fails, FileInv
<1>6. CASE FinishSyncDir
  BY <1>6, <1>t, <1>n DEF FinishSyncDir, Fails, FileInv
<1>7. CASE FinishApply
  BY <1>7 DEF FinishApply, FileInv, files
<1>8. CASE Reset
  BY <1>8 DEF Reset, FileInv, files, history
<1>9. CASE ResetRemove
  BY <1>9, <1>n DEF ResetRemove, Fails, FileInv
<1>10. CASE ResetDisable
  BY <1>10 DEF ResetDisable, FileInv, files
<1>11. CASE Crash \/ PowerLoss
  BY <1>11 DEF Crash, PowerLoss, Restarts, FileInv
<1> QED BY <1>1, <1>2, <1>3, <1>4, <1>5, <1>6, <1>7, <1>8, <1>9, <1>10, <1>11 DEF Next, CallStep

(* FileInv is an invariant. *)
LEMMA FileHeld == Spec => []FileInv
<1>1. Init => FileInv
  BY NoneIsNotTorn DEF Init, Fresh, FileInv, None, Torn
<1> QED BY <1>1, FileStep, TypeCorrect, PTL DEF Spec

(* Start-up never finds a torn model file, whatever crashed or failed: the  *)
(* rename waits for the temporary file to be synced.                        *)
THEOREM FileNeverTorn == Spec => []NeverTorn
<1>1. FileInv => NeverTorn
  BY DEF FileInv, NeverTorn
<1> QED BY <1>1, FileHeld, PTL

(* A model whose Finish was acknowledged stays on the disk until another    *)
(* Finish replaces or a Reset removes it.                                   *)
THEOREM AcknowledgedSurvives == Spec => []FinishSurvives
<1>1. FileInv => FinishSurvives
  BY DEF FileInv, FinishSurvives
<1> QED BY <1>1, FileHeld, PTL

-----------------------------------------------------------------------------
(* The records change together with the file, or in the steps that follow.  *)
LEMMA RecordStep == TypeOK /\ FileInv /\ RecordInv /\ [Next]_vars => RecordInv'
<1> SUFFICES ASSUME TypeOK, FileInv, RecordInv, [Next]_vars PROVE RecordInv'
  OBVIOUS
<1>k. ASSUME UNCHANGED << boot, unsure, lastModel, active, file >>,
             call' = call \/ {call, call'} \subseteq {"none", "csv", "write", "sync", "rename", "remove"},
             boot = "up" \/ UNCHANGED call
      PROVE  RecordInv'
  BY <1>k DEF RecordInv, LoadModel
<1>1. CASE LoadActive
  BY <1>1 DEF LoadActive, SetCalibration, RecordInv, LoadModel, files
<1>2. CASE LoadLast
  BY <1>2 DEF LoadLast, RecordInv, LoadModel, files, mag
<1>3. CASE Start \/ Cancel \/ PollStep \/ UNCHANGED vars
  BY <1>k, <1>3 DEF Start, Cancel, PollStep, PollRead, PollRevision, PollAdd, PollEvaluate,
                    PollPublish, PollHash, vars, collector, files, mag, history
<1>4. CASE Finish \/ Reset
  BY <1>k, <1>4 DEF Finish, Reset, MutexFree, collector, files, mag, history
<1>u. CASE CallStep
  <2>u. boot = "up" /\ boot' = "up"
    BY <1>u DEF CallStep, FinishCsv, FinishWrite, FinishSync, FinishRename, FinishSyncDir,
                FinishApply, ResetRemove, ResetDisable, RecordInv
  <2>1. CASE FinishCsv \/ FinishWrite \/ FinishSync
    BY <1>k, <2>u, <2>1 DEF FinishCsv, FinishWrite, FinishSync, Fails, collector, files, mag, history
  <2>2. CASE FinishRename
    BY <1>k, <2>u, <2>2 DEF FinishRename, Fails, RecordInv, collector, mag
  <2>3. CASE FinishSyncDir
    BY <2>u, <2>3 DEF FinishSyncDir, Fails, RecordInv
  <2>4. CASE FinishApply
    <3>1. file' = fitted /\ fitted \in Models
      BY <2>4 DEF FinishApply, FileInv, TypeOK, files
    <3> QED BY <2>u, <2>4, <3>1 DEF FinishApply, SetCalibration, RecordInv, LoadModel
  <2>5. CASE ResetRemove
    BY <1>k, <2>u, <2>5 DEF ResetRemove, Fails, RecordInv, collector, mag
  <2>6. CASE ResetDisable
    <3>1. lastModel' = None /\ active' = None /\ file' = None /\ boot' = "up" /\ call' = "none"
      BY <2>u, <2>6 DEF ResetDisable, SetCalibration, FileInv, files
    <3>2. LoadModel' = None
      BY <3>1 DEF LoadModel
    <3> QED BY <3>1, <3>2 DEF RecordInv
  <2> QED BY <1>u, <2>1, <2>2, <2>3, <2>4, <2>5, <2>6 DEF CallStep
<1>5. CASE Crash \/ PowerLoss
  BY <1>5 DEF Crash, PowerLoss, Restarts, RecordInv
<1> QED BY <1>1, <1>2, <1>3, <1>4, <1>u, <1>5 DEF Next

(* RecordInv is an invariant. *)
LEMMA RecordHeld == Spec => []RecordInv
<1>1. Init => RecordInv
  BY DEF Init, Fresh, RecordInv
<1> QED BY <1>1, RecordStep, FileHeld, TypeCorrect, PTL DEF Spec

(* The collector, the active calibration and the file agree at rest, after  *)
(* any history, unless a failure after the rename, or of a read at start-up, *)
(* has left that unsure.                                                    *)
THEOREM RecordsStayAgreed == Spec => []RecordsAgree
<1>1. RecordInv => RecordsAgree
  BY DEF RecordInv, RecordsAgree, AtRest
<1> QED BY <1>1, RecordHeld, PTL

-----------------------------------------------------------------------------
(* The poll that meets a new revision starts afresh; any other reads the    *)
(* field with the revision of its window.                                   *)
LEMMA PollInvStep == TypeOK /\ PollInv /\ [Next]_vars => PollInv'
<1> SUFFICES ASSUME TypeOK, PollInv, [Next]_vars PROVE PollInv'
  OBVIOUS
<1>t. revision \in Nat /\ seen \in Nat /\ snap.revision \in Nat
      /\ window \in Seq(Nat) /\ Len(window) \in Nat /\ Len(window) <= Window
  BY DEF TypeOK
<1>k. ASSUME UNCHANGED << poll, snap, seen, window, mixed >>, revision' \in {revision, revision + 1}
      PROVE  PollInv'
  BY <1>t, <1>k DEF PollInv, WindowFresh
<1>1. CASE LoadActive \/ LoadLast \/ Start \/ Cancel \/ Finish \/ Reset \/ CallStep \/ UNCHANGED vars
  <2>1. UNCHANGED << poll, snap, seen, window, mixed >>
    BY <1>1 DEF LoadActive, LoadLast, Start, Cancel, Finish, Reset, CallStep, FinishCsv, FinishWrite,
                FinishSync, FinishRename, FinishSyncDir, FinishApply, ResetRemove, ResetDisable,
                vars, poller, averages
  <2>2. revision' \in {revision, revision + 1}
    BY <1>1 DEF LoadActive, LoadLast, Start, Cancel, Finish, Reset, CallStep, FinishCsv, FinishWrite,
                FinishSync, FinishRename, FinishSyncDir, FinishApply, ResetRemove, ResetDisable,
                vars, mag, SetCalibration
  <2> QED BY <1>k, <2>1, <2>2
<1>2. CASE PollRead
  BY <1>t, <1>2 DEF PollRead, PollInv, WindowFresh, mag, averages
<1>3. CASE PollRevision
  <2>1. seen' = revision /\ revision' = revision /\ snap' = snap /\ poll' = "add"
    BY <1>3 DEF PollRevision, mag
  <2>2. CASE revision = seen
    <3>0. snap.revision = seen
      BY <1>t, <1>3, <2>2 DEF PollRevision, PollInv
    <3>1. window' = window /\ mixed' \subseteq {seen}
      BY <1>3, <2>2, <3>0 DEF PollRevision, PollInv, WindowFresh
    <3> QED BY <1>t, <2>1, <2>2, <3>0, <3>1 DEF PollInv, WindowFresh
  <2>3. CASE revision # seen
    <3>1. window' = << >> /\ mixed' = {}
      BY <1>3, <2>3 DEF PollRevision
    <3>2. \A i \in 2 .. Len(window') : FALSE
      BY <3>1
    <3> QED BY <1>t, <2>1, <3>1, <3>2 DEF PollInv, WindowFresh
  <2> QED BY <2>2, <2>3
<1>4. CASE PollAdd
  BY <1>t, <1>4 DEF PollAdd, PollInv, WindowFresh, mag, averages
<1>5. CASE PollEvaluate
  <2>1. window' = Appended(window, snap.revision) /\ poll' = "publish"
        /\ UNCHANGED << revision, snap, seen, mixed >>
    BY <1>5 DEF PollEvaluate, mag, averages
  <2>2. ASSUME NEW i \in 2 .. Len(window') PROVE window'[i] = seen
    <3>1. ASSUME window = << >> PROVE FALSE
      <4>1. Len(window') = 1
        BY <1>t, <2>1, <3>1, AppendedFacts
      <4> QED BY <4>1
    <3>2. snap.revision = seen
      BY <1>5, <3>1 DEF PollEvaluate, PollInv
    <3> QED BY <1>t, <2>1, <3>2, AppendedFacts DEF PollInv, WindowFresh
  <2> QED BY <1>t, <2>1, <2>2 DEF PollInv, WindowFresh
<1>6. CASE PollPublish \/ PollHash
  BY <1>t, <1>6 DEF PollPublish, PollHash, PollInv, WindowFresh, mag, averages
<1>7. CASE Crash \/ PowerLoss
  <2>1. revision' = 0 /\ seen' = 0 /\ snap'.revision = 0 /\ poll' = "read"
        /\ window' = << >> /\ mixed' = {}
    BY <1>7 DEF Crash, PowerLoss, Restarts
  <2> QED BY <2>1 DEF PollInv, WindowFresh
<1> QED BY <1>1, <1>2, <1>3, <1>4, <1>5, <1>6, <1>7 DEF Next, PollStep

(* PollInv is an invariant. *)
LEMMA PollHeld == Spec => []PollInv
<1>1. Init => PollInv
  <2>1. ASSUME Init
        PROVE  revision = 0 /\ seen = 0 /\ snap.revision = 0 /\ poll = "read"
               /\ window = << >> /\ mixed = {}
    BY <2>1 DEF Init, Fresh
  <2> QED BY <2>1 DEF PollInv, WindowFresh
<1> QED BY <1>1, PollInvStep, TypeCorrect, PTL DEF Spec

(* Quality window and moving averages never mix headings of two             *)
(* calibrations, for every size of the window, except for the first heading *)
(* after a change.                                                          *)
THEOREM WindowStaysFresh == Spec => []WindowFresh
<1>1. PollInv => WindowFresh
  BY DEF PollInv
<1> QED BY <1>1, PollHeld, PTL

-----------------------------------------------------------------------------
(* A reading of the newest revision used the calibration in force, and what *)
(* was judged valid under that revision is such a reading.                  *)
JudgedInv ==
  /\ snap.revision = revision => snap.model = active
  /\ poll \in {"publish", "hash"} /\ verdict /\ seen = revision
       => snap.revision = seen /\ active # None

(* A verdict needs a window that PollRevision did not just empty.           *)
LEMMA JudgedStep == TypeOK /\ PollInv /\ JudgedInv /\ [Next]_vars => JudgedInv'
<1> SUFFICES ASSUME TypeOK, PollInv, JudgedInv, [Next]_vars PROVE JudgedInv'
  OBVIOUS
<1>t. revision \in Nat /\ seen \in Nat /\ snap.revision \in Nat
      /\ window \in Seq(Nat) /\ Len(window) <= Window /\ seen <= revision /\ snap.revision <= revision
  BY DEF TypeOK, PollInv
<1>k. ASSUME UNCHANGED << poll, snap, seen, verdict >>,
             UNCHANGED << active, revision >> \/ revision' = revision + 1
      PROVE  JudgedInv'
  BY <1>t, <1>k DEF JudgedInv
<1>1. CASE LoadActive \/ LoadLast \/ Start \/ Cancel \/ Finish \/ Reset \/ CallStep \/ UNCHANGED vars
  <2>1. UNCHANGED << poll, snap, seen, verdict >>
    BY <1>1 DEF LoadActive, LoadLast, Start, Cancel, Finish, Reset, CallStep, FinishCsv, FinishWrite,
                FinishSync, FinishRename, FinishSyncDir, FinishApply, ResetRemove, ResetDisable,
                vars, poller
  <2>2. UNCHANGED << active, revision >> \/ revision' = revision + 1
    BY <1>1 DEF LoadActive, LoadLast, Start, Cancel, Finish, Reset, CallStep, FinishCsv, FinishWrite,
                FinishSync, FinishRename, FinishSyncDir, FinishApply, ResetRemove, ResetDisable,
                vars, mag, SetCalibration
  <2> QED BY <1>k, <2>1, <2>2
<1>2. CASE PollRead
  BY <1>t, <1>2 DEF PollRead, JudgedInv, mag
<1>3. CASE PollRevision \/ PollAdd
  BY <1>3 DEF PollRevision, PollAdd, JudgedInv, mag
<1>4. CASE PollEvaluate
  <2>1. window' = Appended(window, snap.revision) /\ UNCHANGED << active, revision, snap, seen >>
        /\ poll = "evaluate" /\ (verdict' => Len(window') >= Warmup /\ active # None)
    BY <1>4 DEF PollEvaluate, mag
  <2>2. ASSUME verdict' PROVE snap.revision = seen
    <3>1. Len(Appended(window, snap.revision)) # 1
      BY <2>1, <2>2, SamplesAssumption
    <3>2. window # << >>
      BY <1>t, <3>1, AppendedFacts
    <3> QED BY <2>1, <3>2 DEF PollInv
  <2> QED BY <2>1, <2>2 DEF JudgedInv
<1>5. CASE PollPublish \/ PollHash
  BY <1>5 DEF PollPublish, PollHash, JudgedInv, mag
<1>6. CASE Crash \/ PowerLoss
  BY <1>6 DEF Crash, PowerLoss, Restarts, JudgedInv
<1> QED BY <1>1, <1>2, <1>3, <1>4, <1>5, <1>6 DEF Next, PollStep

(* A heading goes out as valid only when it was computed with the           *)
(* calibration in force, wherever in the poll a Finish or a Reset has come  *)
(* before; the one poll that a change crosses after its look at the         *)
(* revision is the whole of what HeadingFailsClosed is refuted by.          *)
THEOREM ValidHeadingsCalibrated == Spec => []ValidIsCalibrated
<1>1. Init => JudgedInv
  <2>1. ASSUME Init PROVE snap.model = active /\ poll = "read"
    BY <2>1 DEF Init, Fresh
  <2> QED BY <2>1 DEF JudgedInv
<1>2. JudgedInv => ValidIsCalibrated
  BY DEF JudgedInv, ValidIsCalibrated
<1> QED BY <1>1, <1>2, JudgedStep, PollHeld, TypeCorrect, PTL DEF Spec

-----------------------------------------------------------------------------
(* The variables of the store, as the collector's show them.                *)
InForce   == IF boot = "loadActive" THEN Torn ELSE active
storeVars == << InForce, file, disk >>

(* Whoever touches none of what the store is made of, stutters.             *)
LEMMA StoreStutters ==
  ASSUME UNCHANGED << boot, active, file, disk >>
  PROVE  UNCHANGED storeVars
BY DEF storeVars, InForce

(* Every step is one of the store, or touches nothing of it.                *)
LEMMA StoreStep == TypeOK /\ FileInv /\ RecordInv /\ [Next]_vars => [Store!Next]_storeVars
<1> SUFFICES ASSUME TypeOK, FileInv, RecordInv, [Next]_vars
             PROVE  Store!Next \/ UNCHANGED storeVars
  OBVIOUS
<1>u. ASSUME call # "none" PROVE boot = "up" /\ InForce = active /\ active # Torn /\ Store!Up
  <2>1. boot = "up"
    BY <1>u DEF RecordInv
  <2>2. active # Torn
    BY NoneIsNotTorn DEF TypeOK
  <2> QED BY <2>1, <2>2 DEF InForce, Store!Up
<1>a. UNCHANGED boot /\ boot = "up" => InForce' = active'
  BY DEF InForce
<1>1. CASE LoadActive
  <2>1. InForce = Torn /\ InForce' = active' /\ active' \in {file, None} /\ UNCHANGED << file, disk >>
    BY <1>1 DEF LoadActive, SetCalibration, LoadModel, InForce, files
  <2>2. Store!Load \/ Store!LoadUnsettled
    BY <2>1 DEF Store!Load, Store!LoadUnsettled, Store!Up, InForce
  <2> QED BY <2>2 DEF Store!Next
<1>2. CASE LoadLast
  <2>1. boot = "loadLast" /\ boot' = "up" /\ UNCHANGED << active, file, disk >>
    BY <1>2 DEF LoadLast, files, mag
  <2> QED BY <2>1 DEF storeVars, InForce
<1>3. CASE Start \/ Cancel \/ Finish \/ Reset \/ PollStep \/ UNCHANGED vars
  <2>1. UNCHANGED << boot, active, file, disk >>
    BY <1>3 DEF Start, Cancel, Finish, Reset, PollStep, PollRead, PollRevision, PollAdd, PollEvaluate,
                PollPublish, PollHash, vars, files, mag
  <2> QED BY <2>1, StoreStutters
<1>4. CASE FinishCsv \/ FinishWrite \/ FinishSync
  <2>1. UNCHANGED << boot, active, file, disk >>
    BY <1>4 DEF FinishCsv, FinishWrite, FinishSync, files, mag
  <2> QED BY <2>1, StoreStutters
<1>5. CASE FinishRename
  <2>1. CASE file' = file
    <3>1. call = "rename" /\ UNCHANGED << boot, active >>
      BY <1>5 DEF FinishRename, mag
    <3>2. CASE UNCHANGED disk
      BY <2>1, <3>1, <3>2, StoreStutters
    <3>3. CASE file' = fitted /\ disk' = disk \cup {IF tmp THEN fitted ELSE Torn}
      <4>1. fitted \in Models /\ tmp
        BY <3>1 DEF FileInv, TypeOK
      <4>2. Store!Save
        BY <1>u, <1>a, <3>1, <3>3, <4>1 DEF Store!Save, InForce
      <4> QED BY <4>2 DEF Store!Next
    <3> QED BY <1>5, <3>2, <3>3 DEF FinishRename
  <2>2. CASE file' # file
    <3>1. call = "rename" /\ UNCHANGED << boot, active >>
          /\ file' = fitted /\ disk' = disk \cup {IF tmp THEN fitted ELSE Torn}
      BY <1>5, <2>2 DEF FinishRename, mag
    <3>2. fitted \in Models /\ tmp
      BY <3>1 DEF FileInv, TypeOK
    <3>3. Store!Save
      BY <1>u, <1>a, <3>1, <3>2 DEF Store!Save, InForce
    <3> QED BY <3>3 DEF Store!Next
  <2> QED BY <2>1, <2>2
<1>6. CASE FinishSyncDir
  <2>1. /\ call = "syncDir" /\ UNCHANGED << boot, active, file >>
        /\ disk' \in {disk, {IF tmp THEN file ELSE Torn}}
    BY <1>6 DEF FinishSyncDir, mag
  <2>2. tmp
    BY <2>1 DEF FileInv
  <2>3. CASE disk' = disk
    BY <2>1, <2>3, StoreStutters
  <2>4. CASE disk' = {file}
    <3>1. Store!Settle
      BY <1>u, <1>a, <2>1, <2>4 DEF Store!Settle, InForce
    <3> QED BY <3>1 DEF Store!Next
  <2> QED BY <2>1, <2>2, <2>3, <2>4
<1>7. CASE FinishApply
  <2>1. /\ call = "apply" /\ UNCHANGED << boot, file, disk >> /\ active' = fitted
    BY <1>7 DEF FinishApply, SetCalibration, files
  <2>2. file = fitted /\ fitted # None /\ disk = {file}
    BY <2>1 DEF FileInv
  <2>3. Store!Activate
    BY <1>u, <1>a, <2>1, <2>2 DEF Store!Activate, Store!Settled, InForce
  <2> QED BY <2>3 DEF Store!Next
<1>8. CASE ResetRemove
  <2>1. call = "remove" /\ UNCHANGED << boot, active >>
    BY <1>8 DEF ResetRemove, mag
  <2>2. CASE UNCHANGED << file, disk >>
    BY <2>1, <2>2, StoreStutters
  <2>3. CASE file' = None /\ disk' = disk \cup {None}
    <3>1. Store!Remove
      BY <1>u, <1>a, <2>1, <2>3 DEF Store!Remove, InForce
    <3> QED BY <3>1 DEF Store!Next
  <2> QED BY <1>8, <2>2, <2>3 DEF ResetRemove
<1>9. CASE ResetDisable
  <2>1. call = "disable" /\ UNCHANGED << boot, file, disk >> /\ active' = None
    BY <1>9 DEF ResetDisable, SetCalibration, files
  <2>2. file = None
    BY <2>1 DEF FileInv
  <2>3. Store!Disable
    BY <1>u, <1>a, <2>1, <2>2 DEF Store!Disable, InForce
  <2> QED BY <2>3 DEF Store!Next
<1>10. CASE Crash \/ PowerLoss
  <2>1. InForce' = Torn
    BY <1>10 DEF Crash, PowerLoss, Restarts, InForce
  <2>2. CASE Crash
    <3>1. Store!Crash
      BY <2>1, <2>2 DEF Crash, Store!Crash, InForce
    <3> QED BY <3>1 DEF Store!Next
  <2>3. CASE PowerLoss
    <3>1. Store!PowerLoss
      BY <2>1, <2>3 DEF PowerLoss, Store!PowerLoss, InForce
    <3> QED BY <3>1 DEF Store!Next
  <2> QED BY <1>10, <2>2, <2>3
<1> QED BY <1>1, <1>2, <1>3, <1>4, <1>5, <1>6, <1>7, <1>8, <1>9, <1>10 DEF Next, CallStep

(* Collector, poller and start-up implement the store, whatever fails and   *)
(* whenever process or power goes: while the service is up, a model takes   *)
(* force only once it is the only one a power loss leaves, and goes out of  *)
(* force only when the file is gone.  A start takes what an interrupted or  *)
(* failed Finish left too (LoadUnsettled): no more is promised of it.       *)
THEOREM KeepsItsStore == Spec => StoreSpec
<1>1. Init => Store!Init
  BY DEF Init, Fresh, Store!Init
<1>2. Spec => [][Store!Next]_storeVars
  BY StoreStep, RecordHeld, FileHeld, TypeCorrect, PTL DEF Spec
<1> QED BY <1>1, <1>2, PTL DEF Spec, StoreSpec, Store!Spec, storeVars, InForce
=============================================================================
