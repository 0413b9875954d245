---------------------------- MODULE TECSSpeedNaN ----------------------------
(***************************************************************************)
(* What the airspeed estimate of TECS.cpp promises about NaN, with all    *)
(* the arithmetic abstracted away.  The state is four flags:               *)
(*                                                                         *)
(*   nan          the estimate _tas_state is NaN                          *)
(*   eas_nan      the stored _EAS is NaN                                  *)
(*   initialized  _states_initialized                                      *)
(*   first        no call of _update_speed_states yet                     *)
(*                                                                         *)
(* update_vehicle_state_estimates stores an airspeed, NaN or not, and may *)
(* mark the states uninitialized.  A controller step re-seeds the         *)
(* estimate from a finite airspeed on the first call; otherwise, on a     *)
(* reset (required when the states are uninitialized, possible after a    *)
(* time slip), it takes the NaN-ness of the stored _EAS; otherwise it     *)
(* keeps its own: the filter neither creates nor removes a NaN.  Every    *)
(* controller step stores a finite _EAS.                                  *)
(***************************************************************************)
VARIABLES nan, eas_nan, initialized, first

absvars == <<nan, eas_nan, initialized, first>>

\* The constructor.
AbsInit == nan = FALSE /\ eas_nan = FALSE /\ initialized = FALSE /\ first = TRUE

\* update_vehicle_state_estimates with an airspeed that is NaN or not.
Store ==
  /\ eas_nan' \in BOOLEAN
  /\ initialized' \in {FALSE, initialized}
  /\ UNCHANGED <<nan, first>>

\* update_pitch_throttle: _initialize_states and _update_speed_states.
Filter ==
  /\ \E reset \in BOOLEAN :
       /\ ~initialized => reset
       /\ nan' = IF first THEN FALSE ELSE IF reset THEN eas_nan ELSE nan
  /\ eas_nan' = FALSE
  /\ initialized' = TRUE
  /\ first' = FALSE

AbsNext == Store \/ Filter

AbsSpec == AbsInit /\ [][AbsNext]_absvars
=============================================================================
