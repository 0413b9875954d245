---------------------------- MODULE MC_TECSSpeed ----------------------------
(* A small instance of the airspeed estimate for TLC: one second is 10     *)
(* ticks, _dt at 0.5 s and past the 1 s DT_MAX, EAS2TAS = 1, a filter     *)
(* frequency of 1 rad/s, trim airspeed 3 and a measured airspeed of 0 or 4. *)
EXTENDS TECSSpeed

\* A finite raw airspeed; update_pitch_throttle may be passed a NaN.
MC_RawEASs == {0, 4}
MC_EASs == {0, 4, NaN}
MC_Accels == {0, 1}
MC_DTs == {5, 12}

\* The raw airspeed the estimator may deliver: a NaN when the sensor fails.
MC_RawEASsNaN == {0, 4, NaN}
=============================================================================
