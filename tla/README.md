# TLA+ models of the TECS controller

This directory is a verification development for `src/src/lib/tecs/TECS.cpp`, the
Total Energy Control System of the fixed-wing position controller. It contains
TLA+ modules that model the controller's stages, MC modules and TLC configurations
that model-check them on small instances, and TLAPS proofs about the throttle and pitch laws.

## The system

`TECS::update_pitch_throttle` (TECS.cpp 565-634) is called once per control tick
by a single thread. It runs a fixed sequence of stages, and they communicate only
through the members of the `TECS` object:

1. compute `_dt` from the timestamp (573); capture the limits and flags the host passes (576-581);
2. `_initialize_states` (501-554): a full reset on the first call, on a time slip, or when the states are marked uninitialized. It has a climbout branch that overrides the limits. On *every* call it resets both first-order filters;
3. `_update_speed_states` (100-149): a complementary filter for `_tas_state`;
4. `_update_STE_rate_lim` (556-563);
5. `_detect_underspeed` (212-233): the ramp `_percent_undersped`;
6. `_update_speed_height_weights` (636-655);
7. `_detect_uncommanded_descent` (361-389): a latch driven by the previous call's energies and throttle;
8. `_update_speed_setpoint` (151-186);
9. the trajectory generators (188-210, 458-499);
10. `_update_energy_estimates` (235-260);
11. `_update_throttle_setpoint` (262-359): the throttle law;
12. `_update_pitch_setpoint` (391-456): the pitch law;
13. publication of `_tecs_mode` (619-632).

Separately, `update_vehicle_state_estimates` (58-98) stores the raw EAS and vertical
state and can mark the states uninitialized.

Nothing runs concurrently. The behaviours that are hard to test are:

- sequences of calls along which the limits, airspeed, sensor flag and climbout flag change;
- state carried from one call to the next and read stale: the previous unconstrained pitch, the previous energies, the previous throttle;
- the order of the stages within a call;
- the float edge cases: NaN, zero airspeed, and the `FLT_EPSILON` guards.

## Data abstraction (TECSFloat)

Floats are integers in fixed units, plus three model values: `NaN`, `PosInf` and `NegInf`.

- Arithmetic propagates NaN and the infinities as IEEE-754 does.
- Division by zero gives an infinity, or NaN for 0/0.
- Comparisons with NaN are false, so `math::constrain`, `math::min` and `math::max` behave on NaN as the code's templates do.
- `math::max(x, FLT_EPSILON)` as a divisor is `FDivGuarded`: it divides by the divisor when that is positive and by an infinitesimal otherwise.
- Division rounds down. That is the only rounding the models have.

Each module states its units in its header:

| Quantity | Represented by |
|---|---|
| a throttle of 1.0 | `TU` |
| a `_percent_undersped` of 1.0 | `PU` |
| a weight of 1.0 | `WU` |
| a pitch of 1 rad | `PitchU` |
| a `_dt` of 1 s | `DT_UNIT` |

`TECSFloatLemmas` proves what the operators compute on finite values.

## Modules

| Module | Models | State (VARIABLES) | Action |
|---|---|---|---|
| `TECSThrottle` | `_update_throttle_setpoint`, preceded by what `_initialize_states` does to its members: the reset branch (504-526: trim throttle, zero integrator, `_dt` fallback), the climbout pin of the throttle minimum (534) and the filter reset (545-547) | `_last_throttle_setpoint`, `_throttle_integ_state`, `_STE_rate_error`, the limits, `_dt`, the airspeed flag | `Step(in)`: one call. `LawInput(in)` is what the law reads once the initializer has run |
| `TECSModes` | `_detect_underspeed`, `_update_speed_height_weights`, `_detect_uncommanded_descent`, `_update_speed_setpoint`, the mode publication, and the latch clearing of `_initialize_states` | the latch, the ramp, the weights, `_TAS_setpoint_adj`, `_TAS_rate_setpoint`, `_tecs_mode`, and the members they read | `ModesStep(s)`: the stages in the order of update_pitch_throttle |
| `TECSPitch` | `_update_pitch_setpoint`, preceded by what `_initialize_states` does to its members: the reset branch (511-519: the host's pitch within the limits, integrator zeroed) and the climbout override of the pitch minimum (531) | `_pitch_integ_state`, `_pitch_setpoint_unc`, `_last_pitch_setpoint`, the limits | `Step(s)`: one call |
| `TECSSpeed` | the airspeed estimate and the two host entry points that write it: `update_vehicle_state_estimates` (58-98) and, of `update_pitch_throttle`, the speed reset of `_initialize_states` (501-554) followed by `_update_speed_states` (100-149) | `_EAS`, `_tas_state`, `_tas_rate_state`, `_tas_rate_raw`, `_tas_rate_filtered`, the TAS-rate filter, `_states_initialized`, the sensor flag, the three "first call" timestamps | `VehicleUpdate(eas, accel, lock, dt)`, `ControllerStep(eas, dt)`, `SetAirspeedEnabled(b)`, in any order |
| `TECSThrottleProofs` | TLAPS proofs about `TECSThrottle` | | |
| `TECSPitchProofs` | TLAPS proofs about `TECSPitch` | | |
| `TECSSpeedProofs` | TLAPS proofs about `TECSSpeed`, the refinement included | | |
| `TECSModesProofs` | TLAPS proofs about `TECSModes` | | |
| `TECSSpeedNaN` | what the speed estimator promises about NaN, as four flags: the estimate is NaN, the stored `_EAS` is NaN, `_states_initialized`, the first-call timestamp | `nan`, `eas_nan`, `initialized`, `first` | `Store` (a vehicle update), `Filter` (a controller step, with its reset decision as a choice) |

`TECSSpeed` is the one module with two actors. The host calls
`update_vehicle_state_estimates` and `update_pitch_throttle` independently, and
they share `_EAS`, `_states_initialized` and the TAS-rate filter. The first
stores the raw airspeed, NaN included (81), and clears `_states_initialized`
on a first call, a time slip or a lost altitude lock. The second, on a reset,
re-seeds the estimate from that stored `_EAS` (510) and only then replaces
`_EAS` with a checked value (113-118).

In each module, what the rest of the call gives a stage is a record drawn from a
small set of inputs (`ThrottleInputs`, `ModesInputs`, `PitchInputs`). Every
operator is named after the code quantity it computes, and PROJECT.json maps it to
its lines.

The filter reset is modelled as the code does it. `_STE_rate_error_filter.reset(0.0f)`
runs on every call before `update`, so the "filtered" error is alpha times the raw
error of this call (`STEFilterAtInit`). Spec 4.8(2) describes an IIR low-pass filter.

## Runs

| Run | Config | Checks | Result |
|---|---|---|---|
| throttle_bounds | `MC_TECSThrottle.cfg` | TypeOK (the throttle in [-margin, TU]), ThrottleIntegratorBounded | pass |
| throttle_sensor_loss | `MC_TECSThrottle_sensorloss.cfg` | SensorLossIntegratorZero | violated: the integrator is frozen and not zeroed when the sensor is lost (305) |
| throttle_slew | `MC_TECSThrottle_slew.cfg` | ThrottleSlewLimited | violated: the final clamp follows the slew limit (352-358) |
| modes | `MC_TECSModes.cfg` | TypeOK, DescentExcludesUnderspeed, UnderspeedRampMonotone, TASSetpointWithinLimits | pass |
| modes_weights | `MC_TECSModes_weights.cfg` | ZeroSpeedWeightIgnoresSensor | violated: climbout and underspeed give speed priority with the sensor on (641-645) |
| pitch_bounds | `MC_TECSPitch.cfg` | TypeOK, PitchIntegratorBounded | pass, with SEB rate errors of both signs |
| pitch_finite | `MC_TECSPitch_finite.cfg` | PitchFinite | violated: 0/0 at zero airspeed (447) gives a NaN pitch |
| pitch_limits | `MC_TECSPitch_limits.cfg` | PitchWithinLimits | violated: the minimum moves from -1/4 to 1/4 rad (equal to the maximum) while the previous pitch is -1/4 rad; the clamp gives 1/4, the rate limit after it (449-455) only lets the pitch rise by one increment, to 0 |
| speed_estimate | `MC_TECSSpeed.cfg` | TypeOK, TASNonNegative | pass: with finite raw airspeeds the estimate is a non-negative number through resets, time slips and sensor switches |
| speed_nan_reset | `MC_TECSSpeed_nan.cfg` | TASNonNegative | violated: a NaN raw airspeed stored (81), a vehicle update that marks the states uninitialized (77: first call, time slip or lost altitude lock), then a controller step make the estimate NaN (510) |
| speed_nan_recovery | `MC_TECSSpeed_recover.cfg` | TASRecovers | violated: once NaN, the estimate stays NaN while the altitude stays locked, even with the sensor back (126-130) |
| speed_nan_abstract | `MC_TECSSpeed_abs.cfg` | NaNRefinement | pass: with NaN raw airspeeds, `TECSSpeed` implements `TECSSpeedNaN` under the mapping `NaNView` |

**Bounds.** Each input set holds the values that reach every branch of the code:

- both signs of the energy-rate error;
- throttle limits that move between steps;
- a `_dt` inside its range and one past `DT_MAX`, which forces the reset branch;
- the reset and climbout flags; with `TU = 100` the climbout margin 0.01f is one unit;
- a `_percent_undersped` of 0 and of 1.

The mode model takes the airspeed from `{0, 3, 5, NaN}` and `_TAS_min` from `{1, 6}`. With these values the airspeed is below, inside and above the ramp, and a small `_TAS_min` exercises the `FLT_EPSILON` guard.

The pitch model includes zero airspeed, moving limits, resets, and, in the bounds run, a climbout minimum (2) above the maximums (1, 2), where `constrain` is called with lo > hi. The limits run instead keeps every range non-empty (a host minimum of -1 or 1, a climbout minimum of 1, maximums of 1 and 2), so its violation comes from the order of clamp and rate limit alone. The SPE rate setpoints -2, 0 and 2 give SEB errors of both signs in both runs; the finite run keeps them non-negative. `RateBound`, `TASBound`, `PitchBound` and `DTBound` bound the input sets; the proofs use them to state the integrator bound `PitchIntegBound`. The laws have no counter to bound. The state space is finite because the inputs are. The integrator bounds are what make the runs finite, and the runs check those bounds.

The speed model takes raw airspeeds from `{0, 4}` (and NaN for the two
violation runs), the controller's airspeed from `{0, 4, NaN}`, accelerations from
`{0, 1}`, and time steps of 5 and 12 ticks, where `DT_MAX` is 10. These values
reach both resets, the trim substitution, the first-call re-seed, and the clip at
zero (0 measured from an estimate of 4 overshoots below zero).

**Mutants.** For every property of a passing run there is a plausible bug in the mapped code that TLC catches:

- a dropped anti-windup, in both laws;
- a dropped final clamp;
- a missing `1 -` in the underspeed ramp;
- a latch that does not exit on underspeed;
- weights capped at 2 instead of 1;
- a speed filter without the clip at zero;
- a measured airspeed used without its finite check;
- a speed setpoint published without its constrain to `[_TAS_min, _TAS_max]`;
- a reset condition without `!_states_initialized` (503), which lets a finite estimate survive a lost altitude lock that the abstraction says re-seeds it.

**Fairness.** The laws assume none: each is one call, with no waiting. The speed
model states one liveness property, `TASRecovers`, under `FairSpec`. That spec is
weak fairness on `ControllerTick`, because the position controller calls
`update_pitch_throttle` on every control tick. Nothing is assumed about
the vehicle updates or the sensor switch. The property fails even so. The
lasso TLC finds has the sensor enabled and finite airspeeds measured, but no reset
that would replace the NaN. The convergence claims of spec 8 are about
real-valued dynamics, which the integer abstraction does not preserve.

## Proofs

`TECSThrottleProofs` proves two theorems for every value of the constants that
satisfies `ThrottleAssumption`:

- `TypeCorrect == Spec => []TypeOK`;
- `IntegratorBounded == Spec => []ThrottleIntegratorBounded`.

The assumption requires:

- positive units and positive climb and sink rates;
- host limits with min <= max within `[0,TU]`;
- a `_dt` of at least `DT_MIN`.

The step first applies the initializer. `LawInputType` shows that the law then sees
a minimum in `[-margin, TU]` and a `_dt` in `[DT_MIN, DT_MAX]`. The reset branch is
what brings `_dt` back into range.

The inductive invariant is `IInv == TypeOK /\ ThrottleIntegratorBounded`. The argument:

1. The energy-rate error is bounded (`ErrorRange`), because the filter moves its state only towards the sample.
2. This bounds one integrator step (`IntegRange`, through `ProductBound` and `DivMagnitude`).
3. The anti-windup lets the integrator move only towards the band `[min - throttle, max - throttle]` (`AntiWindupCases`). The integrator therefore stays within the band widened by one step. The climbout override puts it inside the band.
4. The final `constrain` puts the published throttle in the limits (`ConstrainRange`). The limits lie in `[-margin, TU]`, because the climbout pin `max - 0.01` is negative when the maximum is 0. The band is therefore at most `ThrottleSpanMax = TU + margin` wide.

The feedforward's lower leg divides by the negative `_STE_rate_min`. It is modelled
as the equal quotient of the negated values, so that every division in the proof
is by a positive divisor.

`TECSPitchProofs` proves, for every value of the constants that satisfies
`PitchAssumption`:

- `PitchTypeCorrect == Spec => []TypeOK`: the published pitch is within `PitchBound` or NaN;
- `PitchIntegratorBoundedThm == Spec => []PitchIntegratorBounded`.

The bound is not inductive by itself. The anti-windup (414-425) looks at the
*previous* call's `_pitch_setpoint_unc`, so the invariant must link the integrator
to it:

    IInv == TypeOK /\ PitchIntegratorBounded
            /\ integ >  PitchSaturation => unc >  PitchBound
            /\ integ < -PitchSaturation => unc < -PitchBound

The argument:

1. The SEB rate setpoint and error are bounded (`SEBRange`). One integrator step is therefore at most `PitchIntegStepMax` (`IncrRange`).
2. The correction is within `CorrMax` of the integrator (`CorrRange`). `CorrMax` covers the damping, the feedforward and the climbout bias.
3. Past `PitchSaturation = CorrMax + SatX + 1` the correction is at least `SatX + 2`. The quotient by `_tas_state * g` then exceeds `PitchBound` at every airspeed up to `TASBound`; at zero airspeed it is an infinity of the same sign (`SaturatedUnc`).
4. Every limit lies within `PitchBound`. A saturated previous pitch therefore lets the integrator move only back (`BeyondLimits`, `IntegBounded`).
5. A NaN previous pitch skips the clamp, but it only arises below saturation, where one more step stays within the bound.
6. The clamp and the rate limit keep the pitch within `PitchBound` or NaN (`SpRange`, `LastRange`). The rate limit returns a bound only when the bound lies between the clamped pitch and the previous one. An infinite or NaN increment lets the clamped pitch through.

TLC checked `IInv` as an invariant on the MC instance, and on one with a large
gain where saturation is reached, before the proof was written.

`TECSSpeedProofs` proves, for every value of the constants that satisfies
`SpeedAssumption`:

- `SpeedTypeCorrect == Spec => []TypeOK`. This holds for every input, NaN included: the estimate is a non-negative number or NaN.
- `TASNonNegativeFinite`. Under the hypothesis `RawEASs \subseteq Nat`, it states `Spec => []TASNonNegative`.

`TypeOK` is not inductive, because a finite estimate with a NaN or infinite rate
state would not stay within it. The invariant `IInv` adds three facts:

- an estimate and its rate state are both numbers or both NaN;
- the stored `_EAS` is a non-negative number or NaN;
- the checked airspeed (`EASUsedNat`) is a number.

The argument for a controller step runs in three steps:

1. The estimate the filter starts from is a number with a finite rate, or NaN. A reset gives `ToTAS(_EAS)` with rate 0 (`ToTASType`).
2. From a number, every term of the filter is finite, and the clip at zero makes the result non-negative (`FilterFinite`).
3. From NaN, the innovation and every later term are NaN (`FilterNaN`, `NaNPropagates`).

For the second theorem, `FInv` adds that `_EAS` and the estimate are numbers.

**Refinement.** `TECSSpeedNaN` abstracts the estimator to four Boolean flags. A
vehicle update may set or clear the NaN-ness of the stored `_EAS` and may clear
`initialized`. A controller step makes the estimate NaN exactly when the value
the filter starts from is NaN: nothing on the first call (the re-seed from the
checked airspeed), the stored `_EAS` on a reset, the estimate itself otherwise.
It also makes `_EAS` a number, and a step of uninitialized states must reset.
`NaNView` maps `nan` to `_tas_state = NaN`, `eas_nan` to `_EAS = NaN`, and the
two flags to their members. `SpeedRefinesNaN == Spec => NaNRefinement` is proved
from `IInv`, along these steps:

- `InitRefines`: the constructor's state is the abstract initial state.
- `ControllerNaN`: the filter keeps a number a number (`FilterFinite`) and NaN NaN (`FilterNaN`), and `ToTAS` does the same (`ToTASType`). The estimate after the step is therefore NaN exactly when the abstract `Filter` says, with `reset = SpeedReset(dt)`.
- `NextRefines`: a vehicle update is a `Store` step, a controller step a `Filter` step, and a sensor switch a stutter.

The run `speed_nan_abstract` checks the same property with TLC on the NaN instance.

`TECSModesProofs` proves, for every value of the constants that satisfies
`ModesAssumption`:

- `ModesTypeCorrect == Spec => []TypeOK`;
- `DescentExcludesUnderspeedThm == Spec => []DescentExcludesUnderspeed`;
- `UnderspeedRampMonotoneThm == Spec => UnderspeedRampMonotone`;
- `TASSetpointWithinLimitsThm == Spec => TASSetpointWithinLimits`: every call publishes a `_TAS_setpoint_adj` within that call's `[_TAS_min, _TAS_max]` (`TASSetpointAdjRange`). It is an action property because the constructor's setpoint 0 need not lie within the limits. `TypeOK` itself only says the setpoint is an integer.

The mode invariants need no strengthening. Every member a call writes depends
only on the call's inputs and on the latch. The latch is computed after the ramp
in the same call, and it exits whenever `_percent_undersped > 0`
(`LatchExcludesUnderspeed`). So `IInv == TypeOK /\ DescentExcludesUnderspeed`
follows from `TypeOK` alone after every step. For the type, `ConstrainFloat`
shows that a `constrain` of any float is in its range or NaN. `WeightingsRange`
and `TASSetpointAdjRange` bound the weights and the adjusted setpoint.

The monotonicity of the ramp is an action property, proved through `RampStep`:

1. The quotient is `FDivGuarded` of the distance into the ramp by its width (`RampQuotientFloat`).
2. On finite airspeeds, a lower airspeed gives a larger numerator and the same denominator, so the quotient does not fall (`DivMonotone`). A zero-width ramp is handled by the `FLT_EPSILON` guard: it gives `PosInf`, 0 or `NegInf`, which are ordered the same way.
3. `Constrain` is monotone (`ConstrainMonotone`), so the percentage is too (`RampCMonotone`).

**Only model-checked:**

- `ZeroSpeedWeightIgnoresSensor` and the other properties of the violation runs, which TLC shows to fail;
- the liveness property `TASRecovers`. It fails, and a proof of liveness would need `ENABLED` and fairness reasoning, which TLAPS does not do here.

Every invariant and action property of a passing run has a theorem.

## Not modelled, and why

- **The vertical states of `update_vehicle_state_estimates`** (height, height rate, the altitude-rate filter). No property reads them. Only the part that shares state with the airspeed estimate is modelled.
- **Composition.** The throttle and pitch laws take `_tas_state` as a free input, 0 and NaN included. `TECSSpeed` shows which of those values the estimator produces.
- **A reset in the middle of a run, for the mode model.** The throttle and pitch models have it. Composing the stages is planned as an orchestrator module.
- **The energy estimates.** Their outputs are free inputs. The stale `_STE_error` seen by the descent latch is listed as a hazard without a property.
- **The trajectory generators.** Their code is not in this repository.

## Plan for later work

1. An orchestrator module, `TECSStep`, that composes the three laws in one call. It adds the reset and climbout branches of `_initialize_states` and the dt handling.
2. The same refinement for the pitch law: an abstract spec of "the published pitch is within its limits or NaN" and its mapping.
