-------------------------- MODULE MCInterruptPath --------------------------
(* Model-checking instances of InterruptPath: see the .cfg files.           *)
EXTENDS InterruptPath
=============================================================================
