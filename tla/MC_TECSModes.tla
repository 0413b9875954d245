---------------------------- MODULE MC_TECSModes ----------------------------
(* A small instance of the mode logic.  With an error bound of 2, a      *)
(* _TAS_min of 6 ramps the underspeed from a speed of 4 down to 2 (3 is   *)
(* half undersped), and a _TAS_min of 1 puts both ends of the ramp at 0,  *)
(* where the FLT_EPSILON guard divides.  _STE_error lies below 0, at and  *)
(* above the 200 J/kg of the detector (scaled to 2); the throttle at and  *)
(* below 0.9 of the maximum; the weight parameter below, inside and above *)
(* [0, 2].                                                                 *)
EXTENDS TECSModes

MC_TASs == {0, 3, 5, NaN}
MC_TASMins == {1, 6}
MC_TASMaxs == {8}
MC_TASSetpoints == {9}
MC_STEErrors == {-1, 3}
MC_EnergyRates == {-1, 0}
MC_Throttles == {10}
MC_ThrottleMaxs == {10}
MC_PitchSpeedWeights == {0, 5}
=============================================================================
