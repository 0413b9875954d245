-------------------------- MODULE MC_TECSThrottle --------------------------
(* A small instance of the throttle law for TLC: a throttle of 1.0 is 100 *)
(* units (so the climbout margin 0.01f is one unit), one second 10 ticks, *)
(* _dt at 0.5 s and past the 1 s DT_MAX (a time slip).                  *)
EXTENDS TECSThrottle

MC_STERateSetpoints == {-4, 4}
MC_STERates == {0, 4}
MC_ThrottleMins == {0}
MC_ThrottleMaxs == {80, 100}
MC_ThrottleTrims == {50}
MC_LoadFactors == {1}
MC_DTs == {5, 12}
MC_PercentUndersped == {0, 2}
=============================================================================
