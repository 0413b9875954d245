------------------------------ MODULE TECSPitch ------------------------------
(***************************************************************************)
(* The pitch law of TECS.cpp (_update_pitch_setpoint): the specific energy *)
(* balance (SEB) rate error drives a damped integrator whose anti-windup   *)
(* looks at the previous call's unconstrained pitch, the correction is    *)
(* turned into a pitch through _tas_state * g, constrained to the limits  *)
(* of the call and then rate limited around the previous pitch.  Each     *)
(* step first does what _initialize_states does to the law's members: the *)
(* reset and, in climbout, the override of the pitch minimum.             *)
(*                                                                         *)
(* Units: a pitch of 1 rad is PitchU, a weight of 1.0 is WU, _dt of 1 s is *)
(* DT_UNIT; airspeeds and energy rates are integers of one unit each.      *)
(***************************************************************************)
EXTENDS Integers, TECSFloat

CONSTANTS
  PitchU, WU, DT_UNIT, G,
  integrator_gain_pitch,     \* _integrator_gain_pitch
  pitch_damping_gain,        \* _pitch_damping_gain
  SEB_rate_ff,               \* _SEB_rate_ff
  vert_accel_limit,          \* _vert_accel_limit
  SPERateSetpoints, SKERateSetpoints,   \* _SPE_rate_setpoint, _SKE_rate_setpoint
  SPERates, SKERates,        \* _SPE_rate, _SKE_rate
  Weights,                   \* _SPE_weighting, _SKE_weighting
  TASs,                      \* _tas_state
  PitchMins, PitchMaxs,      \* _pitch_setpoint_min, _pitch_setpoint_max
  Pitches,                   \* the pitch the host passes to a reset
  PitchMinsClimbout,         \* pitch_min_climbout
  DTs,                       \* _dt
  RateBound,                 \* bound on the energy rates and their setpoints
  TASBound,                  \* bound on _tas_state
  PitchBound,                \* bound on the pitch limits
  DTBound                    \* bound on _dt

\* The constants the pitch law divides by and the inputs it is given.
ASSUME PitchAssumption ==
  /\ PitchU \in Nat \ {0} /\ WU \in Nat \ {0} /\ DT_UNIT \in Nat \ {0}
  /\ G \in Nat \ {0}
  /\ integrator_gain_pitch \in Nat /\ pitch_damping_gain \in Nat
  /\ SEB_rate_ff \in Nat /\ vert_accel_limit \in Nat
  /\ RateBound \in Nat /\ TASBound \in Nat /\ PitchBound \in Nat
  /\ DTBound \in Nat
  /\ SPERateSetpoints \subseteq -RateBound..RateBound
  /\ SKERateSetpoints \subseteq -RateBound..RateBound
  /\ SPERates \subseteq -RateBound..RateBound
  /\ SKERates \subseteq -RateBound..RateBound
  /\ Weights \subseteq 0..WU /\ TASs \subseteq 0..TASBound
  /\ PitchMins \subseteq -PitchBound..PitchBound
  /\ PitchMaxs \subseteq -PitchBound..PitchBound
  /\ PitchMinsClimbout \subseteq -PitchBound..PitchBound
  /\ \A lo \in PitchMins, hi \in PitchMaxs : lo <= hi
  /\ Pitches \subseteq Int /\ DTs \subseteq 1..DTBound

VARIABLES
  pitch_integ_state,         \* _pitch_integ_state
  pitch_setpoint_unc,        \* _pitch_setpoint_unc
  last_pitch_setpoint,       \* _last_pitch_setpoint
  pitch_setpoint_min,        \* _pitch_setpoint_min
  pitch_setpoint_max         \* _pitch_setpoint_max

vars == <<pitch_integ_state, pitch_setpoint_unc, last_pitch_setpoint,
          pitch_setpoint_min, pitch_setpoint_max>>

-----------------------------------------------------------------------------
\* SEB_rate_setpoint and _SEB_rate_error.
SEBRateSetpoint(s) ==
  FDiv(FSub(FMul(s.spe_rate_sp, s.spe_w), FMul(s.ske_rate_sp, s.ske_w)), WU)

SEBRateError(s) ==
  FSub(SEBRateSetpoint(s),
       FDiv(FSub(FMul(s.spe_rate, s.spe_w), FMul(s.ske_rate, s.ske_w)), WU))

\* climb_angle_to_SEB_rate = _tas_state * CONSTANTS_ONE_G
ClimbAngleToSEBRate(s) == FMul(s.tas, G)

\* Mutant: the integrator input is never clamped.
PitchAntiWindupMissing(unc, input, s) == input

\* The input is only let through in the direction that unsaturates the
\* previous call's unconstrained pitch against this call's limits.
PitchAntiWindup(unc, input, s) ==
  IF FGt(unc, s.pmax) THEN FMin(input, 0)
  ELSE IF FLt(unc, s.pmin) THEN FMax(input, 0)
  ELSE input

\* The new _pitch_integ_state.
PitchInteg(integ, unc, s) ==
  IF integrator_gain_pitch > 0
  THEN FAdd(integ, FDiv(FMul(PitchAntiWindup(unc, FMul(SEBRateError(s), integrator_gain_pitch), s),
                             s.dt), DT_UNIT))
  ELSE 0

\* SEB_rate_correction with the climbout bias.
SEBRateCorrection(integ1, s) ==
  LET c == FAdd(FAdd(FMul(SEBRateError(s), pitch_damping_gain), integ1),
                FMul(SEB_rate_ff, SEBRateSetpoint(s)))
  IN  IF s.climbout
      THEN FAdd(c, FDiv(FMul(s.pmin, ClimbAngleToSEBRate(s)), PitchU))
      ELSE c

\* _pitch_setpoint_unc = SEB_rate_correction / climb_angle_to_SEB_rate:
\* no guard, so a zero _tas_state gives an infinity or, for a zero
\* correction, NaN.
PitchSetpointUnc(integ1, s) ==
  FDiv(FMul(SEBRateCorrection(integ1, s), PitchU), ClimbAngleToSEBRate(s))

\* pitch_increment = _dt * _vert_accel_limit / _tas_state, unguarded.
PitchIncrement(s) == FDiv(s.dt * vert_accel_limit * PitchU, FMul(DT_UNIT, s.tas))

\* Mutant: the unconstrained pitch is rate limited without the clamp.
PitchUpdateUnclamped(integ, unc, last, s) ==
  LET integ1 == PitchInteg(integ, unc, s)
      unc1   == PitchSetpointUnc(integ1, s)
      incr   == PitchIncrement(s)
  IN  [integ |-> integ1, unc |-> unc1,
       last |-> Constrain(unc1, FSub(last, incr), FAdd(last, incr))]

\* One call of _update_pitch_setpoint from the law's state; the result is
\* the law's new state.
PitchUpdate(integ, unc, last, s) ==
  LET integ1 == PitchInteg(integ, unc, s)
      unc1   == PitchSetpointUnc(integ1, s)
      sp     == Constrain(unc1, s.pmin, s.pmax)
      incr   == PitchIncrement(s)
  IN  [integ |-> integ1, unc |-> unc1,
       last |-> Constrain(sp, FSub(last, incr), FAdd(last, incr))]

-----------------------------------------------------------------------------
(* What the pitch law reads from the rest of the call, the arguments of   *)
(* update_pitch_throttle included; reset is a first call, a time slip or  *)
(* states marked uninitialized.                                           *)
PitchInputs ==
  [ spe_rate_sp : SPERateSetpoints, ske_rate_sp : SKERateSetpoints,
    spe_rate : SPERates, ske_rate : SKERates,
    spe_w : Weights, ske_w : Weights, tas : TASs, climbout : BOOLEAN,
    pmin : PitchMins, pmax : PitchMaxs, dt : DTs,
    reset : BOOLEAN, pitch : Pitches, pmin_climbout : PitchMinsClimbout ]

\* _pitch_setpoint_min after _initialize_states: outside a reset, climbout
\* replaces it by pitch_min_climbout, whatever _pitch_setpoint_max is.
InitPitchMin(s) == IF ~s.reset /\ s.climbout THEN s.pmin_climbout ELSE s.pmin

\* The pitch the reset branch publishes: the host's pitch within the host's
\* limits.
ResetPitch(s) == Constrain(s.pitch, s.pmin, s.pmax)

\* The state the reset branch of _initialize_states leaves: the pitch the
\* host passes, constrained to the limits, resetIntegrals() zeroing the
\* integrator.
Init ==
  /\ pitch_setpoint_min \in PitchMins /\ pitch_setpoint_max \in PitchMaxs
  /\ \E p \in Pitches :
       last_pitch_setpoint = Constrain(p, pitch_setpoint_min, pitch_setpoint_max)
  /\ pitch_setpoint_unc = last_pitch_setpoint
  /\ pitch_integ_state = 0

\* One call: the host passes the limits, _initialize_states resets the
\* pitch and the integrator (resetIntegrals) or overrides the minimum, then
\* the law runs.
Step(s) ==
  LET law   == [s EXCEPT !.pmin = InitPitchMin(s)]
      last0 == IF s.reset THEN ResetPitch(s) ELSE last_pitch_setpoint
      unc0  == IF s.reset THEN ResetPitch(s) ELSE pitch_setpoint_unc
      integ0 == IF s.reset THEN 0 ELSE pitch_integ_state
      r     == PitchUpdate(integ0, unc0, last0, law)
  IN  /\ pitch_integ_state' = r.integ
      /\ pitch_setpoint_unc' = r.unc
      /\ last_pitch_setpoint' = r.last
      /\ pitch_setpoint_min' = law.pmin
      /\ pitch_setpoint_max' = law.pmax

Next == \E s \in PitchInputs : Step(s)

Spec == Init /\ [][Next]_vars

-----------------------------------------------------------------------------
\* Bounds on what one call feeds the integrator: the SEB rate setpoint and
\* error (weights are at most WU), and one integrator step.
SEBSetpointMax == 2 * RateBound
SEBErrorMax == 4 * RateBound
PitchIntegStepMax ==
  (SEBErrorMax * integrator_gain_pitch * DTBound) \div DT_UNIT + 1

\* The integrator value past which the unconstrained pitch exceeds every
\* pitch limit, whatever the airspeed, the climbout bias and the other
\* terms of the correction.
PitchSaturation ==
  SEBErrorMax * pitch_damping_gain + SEB_rate_ff * SEBSetpointMax
    + (PitchBound * TASBound * G) \div PitchU + 1
    + ((PitchBound + 1) * TASBound * G) \div PitchU + 1

PitchIntegBound == PitchSaturation + PitchIntegStepMax

TypeOK ==
  /\ pitch_integ_state \in Int
  /\ pitch_setpoint_unc \in Float
  /\ last_pitch_setpoint \in (-PitchBound..PitchBound) \cup {NaN}
  /\ pitch_setpoint_min \in PitchMins \cup PitchMinsClimbout
  /\ pitch_setpoint_max \in PitchMaxs

\* Anti-windup (TECS.cpp 414-425): the pitch integrator stays bounded
\* however long the SEB rate error keeps its sign.  Its clamp looks at
\* the previous call's _pitch_setpoint_unc, computed with the previous
\* airspeed and against the previous limits, so the integrator can run
\* one step past the value that saturates the pitch against every limit.
\* A zero airspeed makes the previous pitch infinite (still beyond the
\* limits) or, with no correction, NaN (the clamp is then skipped, but
\* only while the integrator is below that value).
PitchIntegratorBounded ==
  pitch_integ_state \in -PitchIntegBound..PitchIntegBound

\* Spec 7.6 and 8: the published pitch is finite, because the code guards
\* its divisions by _tas_state.  The pitch law divides by _tas_state
\* unguarded (TECS.cpp 447 and 453): at zero airspeed with no SEB rate
\* correction the unconstrained pitch is 0/0 and the published pitch NaN.
PitchFinite == IsFinite(last_pitch_setpoint)

\* Spec 8: the published pitch lies within the pitch limits of the call.
\* The rate limit is applied after the clamp (TECS.cpp 449-455), so when
\* the limits move past the previous pitch by more than one increment the
\* published pitch stays outside them.
PitchWithinLimits ==
  IsFinite(last_pitch_setpoint) =>
    last_pitch_setpoint \in pitch_setpoint_min..pitch_setpoint_max
=============================================================================
