---------------------------- MODULE MCCalibration ----------------------------
(* An instance of Calibration: five levels of charge, two of brightness. *)
EXTENDS Calibration

MCCharges == {2, 3, 5, 50, 100}
MCProfile == [state \in 0..2 |-> IF state = 0 THEN 1 ELSE IF state = 1 THEN 2 ELSE 0]
MCBrightness == {40, 80}
=============================================================================
