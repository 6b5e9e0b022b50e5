------------------------ MODULE MCProfileController ------------------------
(* Model-checking instances of ProfileController: see the .cfg files.       *)
EXTENDS ProfileController, TLC

CallerSymmetry == Permutations(Callers)
=============================================================================
