-------------------------- MODULE MCMagCalibration --------------------------
(* Model-checking instances of MagCalibration: see the .cfg files.          *)
EXTENDS MagCalibration
=============================================================================
