---------------------------- MODULE MC_TECSPitch ----------------------------
(* A small instance of the pitch law: a pitch unit of 1/4 rad, limits of *)
(* -1/4 and 1/4 or 1/2 rad, a climbout minimum of 1/2 rad (above or at   *)
(* the maximum), airspeeds of 0, 1, 2 and 4, a _dt of 1 s, energy rates  *)
(* and both weights on and off.  The SEB rate error takes both signs     *)
(* with MC_SPERateSetpointsSigned (the bounds and limits runs) and is    *)
(* non-negative with MC_SPERateSetpoints (the finite run).               *)
EXTENDS TECSPitch

MC_SPERateSetpoints == {0, 2}
MC_SKERateSetpoints == {0}
MC_SPERates == {-2, 0}
MC_SKERates == {0}
MC_Weights == {0, 1}
MC_TASs == {0, 1, 2, 4}
MC_PitchMins == {-1}
MC_PitchMaxs == {1, 2}
MC_Pitches == {0}
MC_PitchMinsClimbout == {2}
MC_DTs == {2}

\* For the limits run: a host minimum that moves from -1/4 to 1/4 rad and a
\* climbout minimum (1/4 rad) that never exceeds a maximum, so every call's
\* range is non-empty, and SPE rate setpoints of both signs.
MC_SPERateSetpointsSigned == {-2, 0, 2}
MC_PitchMinsMoving == {-1, 1}
MC_PitchMinsClimboutLow == {1}
=============================================================================
