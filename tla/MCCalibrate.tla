---------------------------- MODULE MCCalibrate ----------------------------
(* Two instances, of whatever kind, and their sandboxes.                   *)
EXTENDS Calibrate

CONSTANTS i1, i2

MCInstances == {i1, i2}
============================================================================
