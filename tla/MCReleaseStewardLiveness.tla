---------------------- MODULE MCReleaseStewardLiveness ----------------------
(* The liveness instances; the constants are in the .cfg.                   *)
EXTENDS ReleaseStewardLiveness
=============================================================================
