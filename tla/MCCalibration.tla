---------------------------- MODULE MCCalibration ------------------------------
(* Calibration for a target that leaves at once, takes one branch once, or that  *)
(* one often and another one.                                                   *)
EXTENDS Calibration

Trace(x, y) == [b \in 0 .. MapSize - 1 |-> IF b = 0 THEN x ELSE y]

MCTraces == {Trace(0, 0), Trace(1, 0), Trace(128, 1)}
=============================================================================
