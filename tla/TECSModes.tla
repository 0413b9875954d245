------------------------------ MODULE TECSModes ------------------------------
(***************************************************************************)
(* The mode logic of one update_pitch_throttle call (TECS.cpp): the       *)
(* underspeed ramp (_detect_underspeed), the speed/height weights         *)
(* (_update_speed_height_weights), the uncommanded-descent latch          *)
(* (_detect_uncommanded_descent), the speed setpoint                       *)
(* (_update_speed_setpoint) and the published _tecs_mode, in the order    *)
(* the call runs them, together with what _initialize_states does to the  *)
(* latch before them.                                                      *)
(*                                                                         *)
(* Units: _percent_undersped of 1.0 is PU, a weight of 1.0 is WU; speeds,  *)
(* energies and energy rates are integers of one fixed unit each.          *)
(* FLT_EPSILON is below every unit, so x > FLT_EPSILON is x > 0.           *)
(***************************************************************************)
EXTENDS Integers, TECSFloat

CONSTANTS
  PU, WU,                   \* _percent_undersped and weights of 1.0
  G,                        \* CONSTANTS_ONE_G
  max_climb_rate, min_sink_rate,
  airspeed_error_gain,      \* _airspeed_error_gain
  TASErrorBound,            \* kTASErrorPercentage * _equivalent_airspeed_trim
  DescentSTEError,          \* the 200 J/kg of the descent detector
  TASs,                     \* values of _tas_state after the speed filter
  TASMins, TASMaxs,         \* _TAS_min, _TAS_max
  TASSetpoints,             \* _EAS_setpoint * EAS2TAS
  STEErrors,                \* _STE_error of the previous call
  EnergyRates,              \* _SPE_rate, _SKE_rate of the previous call
  Throttles,                \* _last_throttle_setpoint of the previous call
  ThrottleMaxs,             \* _throttle_setpoint_max
  PitchSpeedWeights         \* the parameter _pitch_speed_weight

\* The constants the mode logic divides by and compares with.
ASSUME ModesAssumption ==
  /\ PU \in Nat \ {0} /\ WU \in Nat \ {0} /\ G \in Nat \ {0}
  /\ max_climb_rate \in Nat \ {0} /\ min_sink_rate \in Nat \ {0}
  /\ airspeed_error_gain \in Nat /\ TASErrorBound \in Nat
  /\ DescentSTEError \in Nat
  /\ TASs \subseteq Float /\ TASMins \subseteq Int /\ TASMaxs \subseteq Int
  /\ \A lo \in TASMins, hi \in TASMaxs : lo <= hi
  /\ TASSetpoints \subseteq Int /\ STEErrors \subseteq Int
  /\ EnergyRates \subseteq Int /\ Throttles \subseteq Int
  /\ ThrottleMaxs \subseteq Int /\ PitchSpeedWeights \subseteq Int

Modes == {"NORMAL", "CLIMBOUT", "UNDERSPEED", "BAD_DESCENT"}

VARIABLES
  uncommanded_descent_recovery,   \* _uncommanded_descent_recovery
  percent_undersped,              \* _percent_undersped
  SPE_weighting, SKE_weighting,   \* _SPE_weighting, _SKE_weighting
  TAS_setpoint_adj,               \* _TAS_setpoint_adj
  TAS_rate_setpoint,              \* _TAS_rate_setpoint
  tecs_mode,                      \* _tecs_mode
  \* The members the stages read, as the last call left them:
  tas_state, TAS_min, TAS_max,    \* _tas_state, _TAS_min, _TAS_max
  climbout_mode_active,           \* _climbout_mode_active
  airspeed_enabled,               \* airspeed_sensor_enabled()
  detect_underspeed_enabled,      \* _detect_underspeed_enabled
  pitch_speed_weight              \* _pitch_speed_weight

vars == <<uncommanded_descent_recovery, percent_undersped, SPE_weighting,
          SKE_weighting, TAS_setpoint_adj, TAS_rate_setpoint, tecs_mode,
          tas_state, TAS_min, TAS_max, climbout_mode_active, airspeed_enabled,
          detect_underspeed_enabled, pitch_speed_weight>>

-----------------------------------------------------------------------------
(* _update_STE_rate_lim *)
STE_rate_max == max_climb_rate * G
STE_rate_min == -(min_sink_rate * G)

\* _initialize_states: both its reset branch and its climbout branch clear
\* the latch before the detectors run.
LatchAtInit(latch, s) == IF s.reset \/ s.climbout THEN FALSE ELSE latch

\* Mutant: 1 - is forgotten, so the ramp rises with the airspeed.
PercentUnderspedInverted(enabled, tas, tas_min) ==
  IF ~enabled THEN 0
  ELSE LET full  == FMax(FSub(FSub(tas_min, TASErrorBound), TASErrorBound), 0)
           start == FMax(FSub(tas_min, TASErrorBound), full)
       IN  Constrain(FDivGuarded(FMul(FSub(tas, full), PU), FSub(start, full)), 0, PU)

\* _detect_underspeed: 0 at or above tas_starting_to_underspeed, PU at or
\* below tas_fully_undersped, linear in between.
PercentUndersped(enabled, tas, tas_min) ==
  IF ~enabled THEN 0
  ELSE LET full  == FMax(FSub(FSub(tas_min, TASErrorBound), TASErrorBound), 0)
           start == FMax(FSub(tas_min, TASErrorBound), full)
       IN  FSub(PU, Constrain(FDivGuarded(FMul(FSub(tas, full), PU), FSub(start, full)),
                              0, PU))

\* _update_speed_height_weights: pitch_speed_weight, in WU.
SpeedWeight(pu, s) ==
  LET w == Constrain(s.psw, 0, 2 * WU) IN
  IF s.climbout /\ s.airspeed THEN 2 * WU
  ELSE IF FGt(pu, 0) /\ s.airspeed
       THEN FDiv(FAdd(FMul(2 * WU, pu), FMul(FSub(PU, pu), w)), PU)
  ELSE IF ~s.airspeed THEN 0
  ELSE w

\* Mutant: the weights are only kept within [0, 2].
SPEWeightingUncapped(w) == Constrain(FSub(2 * WU, w), 0, 2 * WU)

SPEWeighting(w) == Constrain(FSub(2 * WU, w), 0, WU)
SKEWeighting(w) == Constrain(w, 0, WU)

\* Mutant: entering underspeed no longer releases the latch.
UncommandedDescentNoUnderspeedExit(latch, pu, s) ==
  LET enter == /\ ~latch /\ ~FGt(pu, 0) /\ FGt(s.ste_error, DescentSTEError)
               /\ FLt(FAdd(s.spe_rate, s.ske_rate), 0)
               /\ FGeq(FMul(10, s.last_throttle), FMul(9, s.tmax))
      exit  == latch /\ FLt(s.ste_error, 0)
  IN  IF enter THEN TRUE ELSE IF exit THEN FALSE ELSE latch

\* _detect_uncommanded_descent, from the previous call's _STE_error,
\* _SPE_rate, _SKE_rate and _last_throttle_setpoint.
UncommandedDescent(latch, pu, s) ==
  LET enter == /\ ~latch /\ ~FGt(pu, 0) /\ FGt(s.ste_error, DescentSTEError)
               /\ FLt(FAdd(s.spe_rate, s.ske_rate), 0)
               /\ FGeq(FMul(10, s.last_throttle), FMul(9, s.tmax))
      exit  == latch /\ (FGt(pu, 0) \/ FLt(s.ste_error, 0))
  IN  IF enter THEN TRUE ELSE IF exit THEN FALSE ELSE latch

\* Mutant: the setpoint published without the constrain to the limits.
TASSetpointAdjUnconstrained(latch, pu, s) ==
  IF latch THEN s.tas_min
  ELSE IF FGt(pu, 0)
       THEN FDiv(FAdd(FMul(s.tas_min, pu), FMul(FSub(PU, pu), s.tas_sp)), PU)
  ELSE s.tas_sp

\* _update_speed_setpoint: _TAS_setpoint, constrained once into
\* _TAS_setpoint and once more into _TAS_setpoint_adj.
TASSetpointAdj(latch, pu, s) ==
  LET sp == IF latch THEN s.tas_min
            ELSE IF FGt(pu, 0)
                 THEN FDiv(FAdd(FMul(s.tas_min, pu), FMul(FSub(PU, pu), s.tas_sp)), PU)
            ELSE s.tas_sp
  IN  Constrain(Constrain(sp, s.tas_min, s.tas_max), s.tas_min, s.tas_max)

\* The rest of _update_speed_setpoint: the first-order speed demand within
\* half the energy-rate limits over math::max(_tas_state, FLT_EPSILON).
TASRateSetpoint(adj, s) ==
  IF s.airspeed
  THEN Constrain(FMul(FSub(adj, s.tas), airspeed_error_gain),
                 FDivGuarded(STE_rate_min, FMul(2, s.tas)),
                 FDivGuarded(STE_rate_max, FMul(2, s.tas)))
  ELSE 0

\* The mode published at the end of update_pitch_throttle.
TECSMode(pu, latch, climbout) ==
  IF FGt(pu, 0) THEN "UNDERSPEED"
  ELSE IF latch THEN "BAD_DESCENT"
  ELSE IF climbout THEN "CLIMBOUT"
  ELSE "NORMAL"

-----------------------------------------------------------------------------
(* What the mode logic reads: the flags of the call, _tas_state after the *)
(* speed filter, the speed limits and setpoint, and the previous call's    *)
(* energies and throttle.                                                  *)
ModesInputs ==
  [ reset : BOOLEAN, climbout : BOOLEAN, airspeed : BOOLEAN,
    underspeed_enabled : BOOLEAN,
    tas : TASs, tas_min : TASMins, tas_max : TASMaxs, tas_sp : TASSetpoints,
    ste_error : STEErrors, spe_rate : EnergyRates, ske_rate : EnergyRates,
    last_throttle : Throttles, tmax : ThrottleMaxs, psw : PitchSpeedWeights ]

\* The members as the constructor leaves them, with the parameters the
\* host has set.
Init ==
  /\ uncommanded_descent_recovery = FALSE
  /\ percent_undersped = 0
  /\ SPE_weighting = WU /\ SKE_weighting = WU
  /\ TAS_setpoint_adj = 0 /\ TAS_rate_setpoint = 0
  /\ tecs_mode = "NORMAL"
  /\ tas_state = 0 /\ TAS_min \in TASMins /\ TAS_max \in TASMaxs
  /\ climbout_mode_active = FALSE
  /\ airspeed_enabled \in BOOLEAN /\ detect_underspeed_enabled \in BOOLEAN
  /\ pitch_speed_weight \in PitchSpeedWeights

\* The mode stages of one update_pitch_throttle call, in the call's order.
ModesStep(s) ==
  LET latch0 == LatchAtInit(uncommanded_descent_recovery, s)
      pu     == PercentUndersped(s.underspeed_enabled, s.tas, s.tas_min)
      w      == SpeedWeight(pu, s)
      latch1 == UncommandedDescent(latch0, pu, s)
      adj    == TASSetpointAdj(latch1, pu, s)
  IN  /\ percent_undersped' = pu
      /\ SPE_weighting' = SPEWeighting(w)
      /\ SKE_weighting' = SKEWeighting(w)
      /\ uncommanded_descent_recovery' = latch1
      /\ TAS_setpoint_adj' = adj
      /\ TAS_rate_setpoint' = TASRateSetpoint(adj, s)
      /\ tecs_mode' = TECSMode(pu, latch1, s.climbout)
      /\ tas_state' = s.tas /\ TAS_min' = s.tas_min /\ TAS_max' = s.tas_max
      /\ climbout_mode_active' = s.climbout /\ airspeed_enabled' = s.airspeed
      /\ detect_underspeed_enabled' = s.underspeed_enabled
      /\ pitch_speed_weight' = s.psw

Next == \E s \in ModesInputs : ModesStep(s)

Spec == Init /\ [][Next]_vars

-----------------------------------------------------------------------------
TypeOK ==
  /\ uncommanded_descent_recovery \in BOOLEAN
  /\ percent_undersped \in (0..PU) \cup {NaN}
  /\ SPE_weighting \in 0..WU /\ SKE_weighting \in 0..WU
  /\ TAS_setpoint_adj \in Int
  /\ TAS_rate_setpoint \in Float
  /\ tecs_mode \in Modes
  /\ tas_state \in Float /\ TAS_min \in TASMins /\ TAS_max \in TASMaxs
  /\ climbout_mode_active \in BOOLEAN /\ airspeed_enabled \in BOOLEAN
  /\ detect_underspeed_enabled \in BOOLEAN /\ pitch_speed_weight \in PitchSpeedWeights

\* The descent latch and the underspeed ramp exclude each other after every
\* call: _detect_underspeed runs before _detect_uncommanded_descent, which
\* neither enters nor keeps the latch while _percent_undersped > 0.  Were
\* the detector to see the previous call's ramp, or to keep the latch when
\* an underspeed begins, the call would publish UNDERSPEED while the speed
\* setpoint is still forced to _TAS_min by the latch.
DescentExcludesUnderspeed ==
  uncommanded_descent_recovery => ~FGt(percent_undersped, 0)

\* _update_speed_setpoint (151-174): every call publishes a speed setpoint
\* within that call's airspeed limits [_TAS_min, _TAS_max], whether the
\* descent latch forces _TAS_min, the underspeed ramp blends _TAS_min into
\* the host's setpoint, or the host's setpoint is taken as it is.  The
\* constructor's 0 is the one value no call publishes.
TASSetpointWithinLimits ==
  [][ TAS_setpoint_adj' \in TAS_min'..TAS_max' ]_vars

\* Spec 8: _percent_undersped does not increase with _tas_state: a call
\* whose finite airspeed is at least the previous one, with the ramp
\* enabled and the same _TAS_min, reports no more underspeed than a call
\* at the previous airspeed does.
UnderspeedRampMonotone ==
  [][ /\ detect_underspeed_enabled'
      /\ TAS_min' = TAS_min
      /\ tas_state \in Int /\ tas_state' \in Int /\ tas_state <= tas_state'
      => FGeq(PercentUndersped(TRUE, tas_state, TAS_min), percent_undersped') ]_vars

\* Spec 8: a call with _pitch_speed_weight = 0 sets the weights of a
\* disabled airspeed sensor (all priority to height), whether or not the
\* sensor is enabled.  The code gives speed full priority in climbout and
\* ramps it in during an underspeed whenever the sensor is enabled.
ZeroSpeedWeightIgnoresSensor ==
  [][ pitch_speed_weight' = 0 => (SPE_weighting' = WU /\ SKE_weighting' = 0) ]_vars
=============================================================================
