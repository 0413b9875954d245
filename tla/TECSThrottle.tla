---------------------------- MODULE TECSThrottle ----------------------------
(***************************************************************************)
(* The throttle law of TECS: TECS::_update_throttle_setpoint               *)
(* (TECS.cpp 262-359) and the energy-rate limits it uses                   *)
(* (TECS::_update_STE_rate_lim, 556-563).                                  *)
(*                                                                         *)
(* Each step of this module is one call of the law.  The members the law  *)
(* reads and that the rest of the controller writes (the throttle limits, *)
(* the trim, _dt, the airspeed-sensor flag, _percent_undersped, the       *)
(* climbout flag, the energy rates) are inputs of the step, chosen from   *)
(* small sets.  The step also runs what _initialize_states (501-554) does *)
(* to the law's members before the law: the reset, the climbout pin of   *)
(* the throttle minimum, the _dt fallback and the filter reset.           *)
(*                                                                         *)
(* Fixed-point units: a throttle of 1.0 is TU, a _percent_undersped of 1.0 *)
(* is PU, one second is DT_UNIT ticks; energy rates are integers.          *)
(***************************************************************************)
EXTENDS Integers, TECSFloat

CONSTANTS
  TU, PU, DT_UNIT,               \* fixed-point units
  DT_MIN, DT_DEFAULT, DT_MAX,    \* in ticks
  G,                             \* CONSTANTS_ONE_G
  max_climb_rate,                \* _max_climb_rate
  min_sink_rate,                 \* _min_sink_rate
  throttle_damping_gain,         \* _throttle_damping_gain
  integrator_gain_throttle,      \* _integrator_gain_throttle, per second
  load_factor_correction,        \* _load_factor_correction
  throttle_slewrate,             \* _throttle_slewrate, in 1/100 per second
  ste_rate_time_const,           \* _STE_rate_time_const, in ticks
  ClimboutThrottleMargin,        \* the 0.01f of TECS.cpp 534, in TU
  STERateBound,                  \* bound on the energy rates below
  STERateSetpoints,              \* values of _SPE_rate_setpoint + _SKE_rate_setpoint
  STERates,                      \* values of _SPE_rate + _SKE_rate
  ThrottleMins, ThrottleMaxs, ThrottleTrims, LoadFactors, DTs, PercentUndersped

\* The parameter ranges the controller is used with.  The climb and sink
\* rate limits are positive (their parameters have a minimum of 1 m/s), so
\* the FLT_EPSILON guard of _update_STE_rate_lim never applies.
ASSUME ThrottleAssumption ==
  /\ TU \in Nat \ {0} /\ PU \in Nat \ {0} /\ DT_UNIT \in Nat \ {0}
  /\ DT_MIN \in Nat \ {0} /\ DT_MAX \in Nat /\ DT_DEFAULT \in DT_MIN..DT_MAX
  /\ G \in Nat \ {0}
  /\ max_climb_rate \in Nat \ {0} /\ min_sink_rate \in Nat \ {0}
  /\ throttle_damping_gain \in Nat /\ integrator_gain_throttle \in Nat
  /\ load_factor_correction \in Nat /\ throttle_slewrate \in Int
  /\ ste_rate_time_const \in Nat /\ ClimboutThrottleMargin \in Nat
  /\ STERateBound \in Nat
  /\ STERateSetpoints \subseteq -STERateBound..STERateBound
  /\ STERates \subseteq -STERateBound..STERateBound
  /\ DTs \subseteq Nat /\ \A d \in DTs : d >= DT_MIN
  /\ PercentUndersped \subseteq 0..PU
  /\ ThrottleMins \subseteq 0..TU /\ ThrottleMaxs \subseteq 0..TU
  /\ \A lo \in ThrottleMins, hi \in ThrottleMaxs : lo <= hi
  /\ ThrottleTrims \subseteq 0..TU /\ LoadFactors \subseteq Nat \ {0}

VARIABLES
  last_throttle_setpoint,   \* _last_throttle_setpoint
  throttle_integ_state,     \* _throttle_integ_state
  STE_rate_error,           \* _STE_rate_error, the state of _STE_rate_error_filter
  throttle_setpoint_min,    \* _throttle_setpoint_min
  throttle_setpoint_max,    \* _throttle_setpoint_max
  dt,                       \* _dt
  airspeed_enabled          \* airspeed_sensor_enabled()

vars == <<last_throttle_setpoint, throttle_integ_state, STE_rate_error,
          throttle_setpoint_min, throttle_setpoint_max, dt, airspeed_enabled>>

-----------------------------------------------------------------------------
(* _update_STE_rate_lim *)
STE_rate_max == max_climb_rate * G
STE_rate_min == -(min_sink_rate * G)

\* AlphaFilter::update with the parameters (DT_DEFAULT, _STE_rate_time_const)
\* set by _initialize_states: state + alpha * (sample - state).
AlphaUpdate(state, sample) ==
  FAdd(state, FDiv(FMul(FSub(sample, state), DT_DEFAULT),
                   ste_rate_time_const + DT_DEFAULT))

\* 1 / STE_rate_to_throttle: the energy-rate span of the throttle range.
STERateSpan == STE_rate_max - STE_rate_min

\* _STE_rate_setpoint: the demanded energy rate with the turn compensation,
\* constrained to the vehicle's limits.
STERateSetpoint(s) ==
  Constrain(FAdd(s.rate_sp, load_factor_correction * (s.load_factor - 1)),
            STE_rate_min, STE_rate_max)

\* _initialize_states resets _STE_rate_error_filter to 0 on every call,
\* before the throttle law updates it.
STEFilterAtInit == 0

\* _STE_rate_error: the filtered energy-rate error from the filter state.
STERateError(filt, s) == AlphaUpdate(filt, FSub(s.rate_sp, s.rate))

\* The throttle predicted from the demanded energy rate: piecewise linear
\* through (STE_rate_min, min), (0, trim), (STE_rate_max, max).  The
\* quotient of the two negative values sp / _STE_rate_min is taken as
\* -sp / -_STE_rate_min, the same real number, so that the fixed-point
\* division is by a positive divisor.
ThrottlePredicted(ste_sp, tmin, tmax, trim) ==
  IF FGeq(ste_sp, 0)
  THEN FAdd(trim, FDiv(FMul(ste_sp, tmax - trim), STE_rate_max))
  ELSE FAdd(trim, FDiv(FMul(FNeg(ste_sp), tmin - trim), -STE_rate_min))

\* The predicted throttle plus the damping feedback, within the limits.
ThrottleFeedback(err, pred, s) ==
  Constrain(FAdd(FDiv(FMul(err, throttle_damping_gain * TU), STERateSpan), pred),
            s.tmin, s.tmax)

\* throttle_integ_input before anti-windup; underspeed scales it to zero.
IntegInput(err, s) ==
  FDiv(FMul(FMul(err, integrator_gain_throttle * s.dt * TU), FSub(PU, s.pu)),
       DT_UNIT * STERateSpan * PU)

\* Mutant: the integrator input is never clamped.
AntiWindupMissing(integ, lo, hi, input) == input

\* Only let the integrator move in the direction that unsaturates the
\* throttle: lo and hi are the integrator values that would put the
\* throttle at its lower and upper limit.
AntiWindup(integ, lo, hi, input) ==
  IF FGt(integ, hi) THEN FMin(0, input)
  ELSE IF FLt(integ, lo) THEN FMax(0, input)
  ELSE input

\* The new _throttle_integ_state from the old one and the throttle thr0.
ThrottleInteg(integ, err, thr0, s) ==
  IF ~s.airspeed THEN integ
  ELSE IF integrator_gain_throttle > 0
       THEN IF s.climbout THEN FSub(s.tmax, thr0)
            ELSE FAdd(integ, AntiWindup(integ, FSub(s.tmin, thr0), FSub(s.tmax, thr0),
                                        IntegInput(err, s)))
       ELSE 0

\* Ramp in the maximum throttle with _percent_undersped.
UnderspeedBlend(thr, s) ==
  FDiv(FAdd(FMul(s.pu, s.tmax), FMul(FSub(PU, s.pu), thr)), PU)

\* The throttle increment allowed by the slew-rate limit in a step of _dt
\* between the limits lo and hi.
SlewIncrement(d, lo, hi) == (d * (hi - lo) * throttle_slewrate) \div (DT_UNIT * 100)

\* The slew-rate limit around the previous throttle, when it is active.
SlewLimit(thr, last, s) ==
  IF throttle_slewrate > 1 \/ throttle_slewrate < -1
  THEN LET incr == SlewIncrement(s.dt, s.tmin, s.tmax)
       IN  Constrain(thr, FSub(last, incr), FAdd(last, incr))
  ELSE thr

\* Mutant: the final clamp to the throttle limits is left out.
ThrottleUpdateUnclamped(last, integ, filt, s) ==
  LET err   == STERateError(filt, s)
      pred  == ThrottlePredicted(STERateSetpoint(s), s.tmin, s.tmax, s.trim)
      thr0  == ThrottleFeedback(err, pred, s)
      integ1 == ThrottleInteg(integ, err, thr0, s)
      thr1  == IF s.airspeed THEN FAdd(thr0, integ1) ELSE pred
  IN [last |-> SlewLimit(UnderspeedBlend(thr1, s), last, s),
      integ |-> integ1, STE_rate_error |-> err]

\* One call of _update_throttle_setpoint from the law's state (last, integ,
\* and the filter state filt) and the members it reads (s); the result is
\* the law's new state.
ThrottleUpdate(last, integ, filt, s) ==
  LET err   == STERateError(filt, s)
      pred  == ThrottlePredicted(STERateSetpoint(s), s.tmin, s.tmax, s.trim)
      thr0  == ThrottleFeedback(err, pred, s)
      integ1 == ThrottleInteg(integ, err, thr0, s)
      thr1  == IF s.airspeed THEN FAdd(thr0, integ1) ELSE pred
  IN [last |-> Constrain(SlewLimit(UnderspeedBlend(thr1, s), last, s), s.tmin, s.tmax),
      integ |-> integ1, STE_rate_error |-> err]

-----------------------------------------------------------------------------
(* The step's inputs: the arguments of update_pitch_throttle and the      *)
(* values the other stages give the law.  dt is _dt as computed at 573   *)
(* (at least DT_MIN); reset is a first call or states marked              *)
(* uninitialized by update_vehicle_state_estimates.                       *)
ThrottleInputs ==
  [ rate_sp : STERateSetpoints, rate : STERates,
    pu : PercentUndersped, climbout : BOOLEAN, airspeed : BOOLEAN,
    tmin : ThrottleMins, tmax : ThrottleMaxs, trim : ThrottleTrims,
    dt : DTs, load_factor : LoadFactors, reset : BOOLEAN ]

\* The condition of the reset branch of _initialize_states.
ResetStates(in) == in.reset \/ in.dt > DT_MAX

\* _dt after _initialize_states: the reset replaces an out-of-range _dt.
InitDt(in) ==
  IF ResetStates(in) /\ (in.dt > DT_MAX \/ in.dt < DT_MIN) THEN DT_DEFAULT ELSE in.dt

\* _throttle_setpoint_min after _initialize_states: outside a reset, climbout
\* pins it just below the maximum.
InitThrottleMin(in) ==
  IF ~ResetStates(in) /\ in.climbout THEN in.tmax - ClimboutThrottleMargin ELSE in.tmin

\* The members the law reads, as _initialize_states leaves them.
LawInput(in) == [in EXCEPT !.tmin = InitThrottleMin(in), !.dt = InitDt(in)]

\* The state _initialize_states leaves when it resets the controller.
Init ==
  /\ \E trim \in ThrottleTrims : last_throttle_setpoint = trim
  /\ throttle_integ_state = 0
  /\ STE_rate_error = 0
  /\ throttle_setpoint_min \in ThrottleMins
  /\ throttle_setpoint_max \in ThrottleMaxs
  /\ dt = DT_DEFAULT
  /\ airspeed_enabled \in BOOLEAN

\* One control step: the host sets the members, _initialize_states resets
\* the throttle and the integrator (resetIntegrals) or pins the minimum,
\* then the law runs.
Step(in) ==
  LET s     == LawInput(in)
      last0 == IF ResetStates(in) THEN in.trim ELSE last_throttle_setpoint
      integ0 == IF ResetStates(in) THEN 0 ELSE throttle_integ_state
      r     == ThrottleUpdate(last0, integ0, STEFilterAtInit, s)
  IN /\ last_throttle_setpoint' = r.last
     /\ throttle_integ_state' = r.integ
     /\ STE_rate_error' = r.STE_rate_error
     /\ throttle_setpoint_min' = s.tmin
     /\ throttle_setpoint_max' = s.tmax
     /\ dt' = s.dt
     /\ airspeed_enabled' = s.airspeed

Next == \E in \in ThrottleInputs : Step(in)

Spec == Init /\ [][Next]_vars

-----------------------------------------------------------------------------
\* The lowest throttle minimum the law can be given, and the widest
\* throttle range.
ThrottleFloor == -ClimboutThrottleMargin
ThrottleSpanMax == TU + ClimboutThrottleMargin

TypeOK ==
  /\ last_throttle_setpoint \in ThrottleFloor..TU
  /\ throttle_integ_state \in Int
  /\ STE_rate_error \in -2 * STERateBound..2 * STERateBound
  /\ throttle_setpoint_min \in ThrottleMins \cup {hi - ClimboutThrottleMargin : hi \in ThrottleMaxs}
  /\ throttle_setpoint_max \in ThrottleMaxs
  /\ dt \in DT_MIN..DT_MAX
  /\ airspeed_enabled \in BOOLEAN

\* The largest change one step of the integrator can make: the integrator
\* input for the largest energy-rate error, _dt and 1 - _percent_undersped.
IntegStepMax ==
  (2 * STERateBound * integrator_gain_throttle * DT_MAX * TU)
    \div (DT_UNIT * STERateSpan) + 1

\* Anti-windup (TECS.cpp 307-320): however long the energy-rate error keeps
\* its sign, the throttle integrator never grows past the widest throttle
\* range (the climbout pin included) plus one integrator step, because once it exceeds the headroom
\* throttle_setpoint_max - throttle (or the footroom) its input is clamped
\* to the unsaturating direction.  The headroom moves with the throttle and
\* with the limits the host passes each step.
ThrottleIntegratorBounded ==
  throttle_integ_state \in -(ThrottleSpanMax + IntegStepMax)..(ThrottleSpanMax + IntegStepMax)

\* Spec 8: when the slew-rate limit is active, no step changes the
\* published throttle by more than _dt * (max - min) * _throttle_slewrate.
\* The code applies the limit before the final clamp to the limits of the
\* step (TECS.cpp 352-358), so a step whose limits exclude the previous
\* throttle moves it to the limit at once.
ThrottleSlewLimited ==
  [][ (throttle_slewrate > 1 \/ throttle_slewrate < -1) =>
        FAbs(last_throttle_setpoint' - last_throttle_setpoint)
          <= SlewIncrement(dt', throttle_setpoint_min', throttle_setpoint_max') ]_vars

\* Spec 4.8 (7) and scenario 4: without airspeed sensing the throttle uses
\* the feedforward only and the integrator is zero.  The code only skips
\* the integrator update (TECS.cpp 305), so the integrator keeps the value
\* it had when the sensor was lost and adds it back when it returns.
SensorLossIntegratorZero ==
  ~airspeed_enabled => throttle_integ_state = 0

=============================================================================
