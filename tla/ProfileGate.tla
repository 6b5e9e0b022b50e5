---------------------------- MODULE ProfileGate ----------------------------
(***************************************************************************)
(* What the profile controller promises the consumers of motion events,    *)
(* without locks, bus writes or errors: edges pass only while the chip     *)
(* holds the complete configuration of one profile that uses interrupts,   *)
(* and that configuration does not change while they pass.  The promise    *)
(* excepts a chip somebody else has reset since it was last programmed.    *)
(***************************************************************************)
CONSTANTS
  Profiles,   \* the profiles
  Armable,    \* those that use interrupts
  Nothing     \* the registers hold no complete profile

VARIABLES
  registers,  \* the profile the registers hold, or Nothing
  gate,       \* do edges pass?
  intact      \* has nobody else reset the chip since it was last programmed?

Contents == Profiles \cup {Nothing}

Init == registers \in Contents /\ gate = FALSE /\ intact = TRUE

Program == ~gate /\ registers' \in Contents /\ intact' \in {intact, TRUE} /\ UNCHANGED gate

Open == ~gate /\ (intact => registers \in Armable) /\ gate' = TRUE /\ UNCHANGED << registers, intact >>

Close == gate /\ gate' = FALSE /\ UNCHANGED << registers, intact >>

Reset == registers' \in Contents /\ intact' = FALSE /\ UNCHANGED gate

Next == Program \/ Open \/ Close \/ Reset

Spec == Init /\ [][Next]_<< registers, gate, intact >>
=============================================================================
