----------------------------- MODULE TECSSpeed -----------------------------
(***************************************************************************)
(* The airspeed estimate of TECS.cpp and the two host entry points that    *)
(* write it.                                                               *)
(*                                                                         *)
(*  - VehicleUpdate is update_vehicle_state_estimates (58-98): it stores   *)
(*    the raw _EAS, may mark the states uninitialized, and feeds the       *)
(*    TAS-rate filter.                                                     *)
(*  - ControllerStep is what update_pitch_throttle (565-634) does to the   *)
(*    airspeed state: _initialize_states (501-554) and then               *)
(*    _update_speed_states (100-149), the second-order complementary      *)
(*    filter with its clip at zero.                                        *)
(*                                                                         *)
(* The host calls the two in any order and at any rate; they share _EAS,   *)
(* _states_initialized and the TAS-rate filter.  The time since the       *)
(* previous call of each entry point is an input, in ticks.               *)
(*                                                                         *)
(* Units: airspeeds are integers of one unit; one second is DT_UNIT       *)
(* ticks; tas_estimate_freq is in 1/FREQ_UNIT rad/s; EAS2TAS is           *)
(* E2T / E2T_UNIT; the literal 1.4142f is SQRT2_NUM / SQRT2_DEN.          *)
(***************************************************************************)
EXTENDS Integers, TECSFloat

CONSTANTS
  DT_UNIT, DT_MIN, DT_DEFAULT, DT_MAX,   \* in ticks
  E2T, E2T_UNIT,                  \* eas_to_tas
  FREQ_UNIT, tas_estimate_freq,   \* _tas_estimate_freq
  SQRT2_NUM, SQRT2_DEN,           \* 1.4142f
  speed_derivative_time_const,    \* _speed_derivative_time_const, in ticks
  equivalent_airspeed_trim,       \* _equivalent_airspeed_trim
  RawEASs,                        \* equivalent_airspeed of update_vehicle_state_estimates
  EASs,                           \* equivalent_airspeed of update_pitch_throttle
  Accels,                         \* speed_deriv_forward arguments
  DTs                             \* ticks since the entry point's last call

\* The ranges the proofs and the filter need: positive units, and inputs
\* of the right kind.  The equivalent airspeed may be NaN.
ASSUME SpeedAssumption ==
  /\ DT_UNIT \in Nat \ {0} /\ DT_MIN \in Nat \ {0}
  /\ DT_MAX \in Nat /\ DT_DEFAULT \in DT_MIN..DT_MAX
  /\ E2T \in Nat /\ E2T_UNIT \in Nat \ {0}
  /\ FREQ_UNIT \in Nat \ {0} /\ tas_estimate_freq \in Nat
  /\ SQRT2_NUM \in Nat /\ SQRT2_DEN \in Nat \ {0}
  /\ speed_derivative_time_const \in Nat
  /\ equivalent_airspeed_trim \in Nat
  /\ RawEASs \subseteq Nat \cup {NaN} /\ EASs \subseteq Nat \cup {NaN}
  /\ Accels \subseteq Int
  /\ DTs \subseteq Nat /\ \A d \in DTs : d >= DT_MIN

VARIABLES
  EAS,                     \* _EAS
  tas_state,               \* _tas_state
  tas_rate_state,          \* _tas_rate_state
  tas_rate_raw,            \* _tas_rate_raw
  tas_rate_filtered,       \* _tas_rate_filtered
  TAS_rate_filter,         \* the state of _TAS_rate_filter
  states_initialized,      \* _states_initialized
  airspeed_enabled,        \* airspeed_sensor_enabled()
  state_update_first,      \* _state_update_timestamp == 0
  speed_update_first,      \* _speed_update_timestamp == 0
  pitch_update_first       \* _pitch_update_timestamp == 0

vars == <<EAS, tas_state, tas_rate_state, tas_rate_raw, tas_rate_filtered,
          TAS_rate_filter, states_initialized, airspeed_enabled,
          state_update_first, speed_update_first, pitch_update_first>>

-----------------------------------------------------------------------------
\* x * EAS2TAS
ToTAS(x) == FDiv(FMul(x, E2T), E2T_UNIT)

\* AlphaFilter::update with the parameters (DT_DEFAULT,
\* _speed_derivative_time_const) that _initialize_states sets.
AlphaUpdate(state, sample) ==
  FAdd(state, FDiv(FMul(FSub(sample, state), DT_DEFAULT),
                   speed_derivative_time_const + DT_DEFAULT))

\* update_vehicle_state_estimates: the raw airspeed is stored whatever it
\* is; the TAS rate is filtered only while it is finite and the sensor is
\* used.  A first call, a time slip or a lost altitude lock marks the
\* states uninitialized.
VehicleUpdate(eas, accel, altitude_lock, dt) ==
  LET reset_altitude == state_update_first \/ dt > DT_MAX \/ ~altitude_lock
      use == IsFinite(eas) /\ airspeed_enabled
  IN  /\ states_initialized' = (states_initialized /\ ~reset_altitude)
      /\ state_update_first' = FALSE
      /\ EAS' = eas
      /\ tas_rate_raw' = IF use THEN accel ELSE 0
      /\ TAS_rate_filter' = IF use THEN AlphaUpdate(TAS_rate_filter, accel)
                            ELSE TAS_rate_filter
      /\ tas_rate_filtered' = IF use THEN TAS_rate_filter' ELSE 0
      /\ UNCHANGED <<tas_state, tas_rate_state, airspeed_enabled,
                     speed_update_first, pitch_update_first>>

\* Mutant: the measurement is used without the finite check.
EASUsedUnchecked(eas) ==
  IF ~airspeed_enabled THEN equivalent_airspeed_trim ELSE eas

\* The airspeed _update_speed_states uses: the trim airspeed when the
\* measurement is not finite or the sensor is not used.
EASUsed(eas) ==
  IF ~IsFinite(eas) \/ ~airspeed_enabled THEN equivalent_airspeed_trim ELSE eas

\* Mutant: the estimate is not clipped at zero.
TASFilterUnclipped(tas, rate, meas, raw, dt) ==
  LET innov   == FSub(meas, tas)
      rate1   == FAdd(rate, FDiv(FMul(FDiv(FMul(innov, tas_estimate_freq * tas_estimate_freq),
                      FREQ_UNIT * FREQ_UNIT), dt), DT_UNIT))
      damp    == FDiv(FMul(innov, tas_estimate_freq * SQRT2_NUM), FREQ_UNIT * SQRT2_DEN)
  IN  [tas |-> FAdd(tas, FDiv(FMul(FAdd(FAdd(rate1, raw), damp), dt), DT_UNIT)),
       rate |-> rate1]

\* One step of the complementary filter from (tas, rate) towards the
\* measured true airspeed meas, with the clip at zero that back-calculates
\* the rate state.  The result is [tas, rate].
TASFilter(tas, rate, meas, raw, dt) ==
  LET innov   == FSub(meas, tas)
      rate_in == FDiv(FMul(innov, tas_estimate_freq * tas_estimate_freq),
                      FREQ_UNIT * FREQ_UNIT)
      rate1   == FAdd(rate, FDiv(FMul(rate_in, dt), DT_UNIT))
      damp    == FDiv(FMul(innov, tas_estimate_freq * SQRT2_NUM),
                      FREQ_UNIT * SQRT2_DEN)
      tas_in  == FAdd(FAdd(rate1, raw), damp)
      new     == FAdd(tas, FDiv(FMul(tas_in, dt), DT_UNIT))
      back    == FDiv(FMul(FNeg(tas), DT_UNIT), dt)
  IN  IF FLt(new, 0)
      THEN [tas |-> 0, rate |-> FSub(FSub(back, raw), damp)]
      ELSE [tas |-> new, rate |-> rate1]

\* Mutant: uninitialized states do not force the reset.
SpeedResetNoInit(dt) == pitch_update_first \/ dt > DT_MAX

\* The condition of the reset branch of _initialize_states (503).
SpeedReset(dt) == pitch_update_first \/ dt > DT_MAX \/ ~states_initialized

\* update_pitch_throttle as far as the airspeed goes.  _initialize_states
\* resets the estimate to the stored _EAS (the raw value of the last
\* VehicleUpdate when that came after the previous step) on a first call, a
\* time slip or uninitialized states, and resets the TAS-rate filter on
\* every call; _update_speed_states then replaces _EAS, re-seeds the
\* estimate on its own first call, and runs the filter with _dt
\* constrained to [DT_MIN, DT_MAX].
ControllerStep(eas, dt) ==
  LET reset  == SpeedReset(dt)
      eas1   == EASUsed(eas)
      tas0   == IF reset THEN ToTAS(EAS) ELSE tas_state
      rate0  == IF reset THEN 0 ELSE tas_rate_state
      tas1   == IF speed_update_first THEN ToTAS(eas1) ELSE tas0
      rate1  == IF speed_update_first THEN 0 ELSE rate0
      r      == TASFilter(tas1, rate1, ToTAS(eas1), tas_rate_raw,
                          Constrain(dt, DT_MIN, DT_MAX))
  IN  /\ EAS' = eas1
      /\ tas_state' = r.tas
      /\ tas_rate_state' = r.rate
      /\ TAS_rate_filter' = 0
      /\ states_initialized' = TRUE
      /\ pitch_update_first' = FALSE
      /\ speed_update_first' = FALSE
      /\ UNCHANGED <<tas_rate_raw, tas_rate_filtered, airspeed_enabled,
                     state_update_first>>

\* The host switches the use of the airspeed sensor.
SetAirspeedEnabled(b) ==
  /\ airspeed_enabled' = b
  /\ UNCHANGED <<EAS, tas_state, tas_rate_state, tas_rate_raw,
                 tas_rate_filtered, TAS_rate_filter, states_initialized,
                 state_update_first, speed_update_first, pitch_update_first>>

\* The constructor: every member zero, every timestamp zero.
Init ==
  /\ EAS = 0 /\ tas_state = 0 /\ tas_rate_state = 0
  /\ tas_rate_raw = 0 /\ tas_rate_filtered = 0 /\ TAS_rate_filter = 0
  /\ states_initialized = FALSE
  /\ airspeed_enabled \in BOOLEAN
  /\ state_update_first = TRUE /\ speed_update_first = TRUE
  /\ pitch_update_first = TRUE

Next ==
  \/ \E eas \in RawEASs, a \in Accels, lock \in BOOLEAN, dt \in DTs :
       VehicleUpdate(eas, a, lock, dt)
  \/ \E eas \in EASs, dt \in DTs : ControllerStep(eas, dt)
  \/ \E b \in BOOLEAN : SetAirspeedEnabled(b)

Spec == Init /\ [][Next]_vars

\* The position controller calls update_pitch_throttle on every control
\* tick, so a controller step keeps being taken.
ControllerTick == \E eas \in EASs, dt \in DTs : ControllerStep(eas, dt)

FairSpec == Spec /\ WF_vars(ControllerTick)

-----------------------------------------------------------------------------
\* The estimate is never negative: spec 3 gives tas_state >= 0, and the
\* filter clips it at zero (134-139).  NaN is its only other value.
TypeOK ==
  /\ EAS \in Float /\ tas_state \in Nat \cup {NaN} /\ tas_rate_state \in Float
  /\ tas_rate_raw \in Int /\ tas_rate_filtered \in Int /\ TAS_rate_filter \in Int
  /\ states_initialized \in BOOLEAN /\ airspeed_enabled \in BOOLEAN
  /\ state_update_first \in BOOLEAN /\ speed_update_first \in BOOLEAN
  /\ pitch_update_first \in BOOLEAN

\* Spec 3 and 7(2): the airspeed estimate is a number and never negative;
\* a non-finite measurement is replaced by the trim airspeed
\* (_update_speed_states, 113-118).  The reset of _initialize_states
\* (510) reads _EAS as update_vehicle_state_estimates stored it (81),
\* NaN included, after a lost altitude lock or a time slip.
TASNonNegative == IsFinite(tas_state) /\ tas_state >= 0

\* Spec 8 (scenario 4, sensor loss): after a sensor failure the estimate
\* returns to a number (the trim airspeed, then the measurement).  A NaN
\* estimate makes the innovation and the rate state NaN (126-130), and only
\* a later reset of _initialize_states with a finite _EAS replaces it; in
\* steady flight with the altitude locked no reset comes.
TASRecovers == (tas_state = NaN) ~> IsFinite(tas_state)
\* The airspeed estimate implements the NaN abstraction of TECSSpeedNaN:
\* a NaN estimate arises only from a reset of _initialize_states (510)
\* that reads a NaN _EAS stored by update_vehicle_state_estimates (81), and
\* goes away only on the first _update_speed_states call (120-124) or a
\* later reset that reads a finite _EAS; the filter (128-145) keeps it.
NaNView == INSTANCE TECSSpeedNaN
             WITH nan <- (tas_state = NaN), eas_nan <- (EAS = NaN),
                  initialized <- states_initialized, first <- speed_update_first
NaNRefinement == NaNView!AbsSpec
=============================================================================
