-------------------------- MODULE TECSPitchProofs --------------------------
(***************************************************************************)
(* Proofs about the pitch law: its state keeps its type and the pitch     *)
(* integrator stays bounded, for every value of the constants that        *)
(* satisfies PitchAssumption.                                              *)
(*                                                                         *)
(* The anti-windup looks at the previous call's _pitch_setpoint_unc, so    *)
(* the bound is not inductive by itself: it needs the link between the    *)
(* integrator and the unconstrained pitch computed in the same call.  Past *)
(* PitchSaturation the correction is so large that the unconstrained      *)
(* pitch lies beyond every limit (an infinity at zero airspeed), so the   *)
(* next call's clamp lets the integrator move back only.                  *)
(***************************************************************************)
EXTENDS TECSPitch, TECSFloatLemmas

USE PitchAssumption

\* The inductive invariant: the type, the bound, and the link between a
\* large integrator and a saturated unconstrained pitch.
IInv ==
  /\ TypeOK
  /\ PitchIntegratorBounded
  /\ pitch_integ_state > PitchSaturation => FGt(pitch_setpoint_unc, PitchBound)
  /\ pitch_integ_state < -PitchSaturation => FLt(pitch_setpoint_unc, -PitchBound)

\* The bounds the proofs use are natural numbers.
LEMMA BoundFacts ==
  /\ SEBSetpointMax \in Nat /\ SEBErrorMax \in Nat
  /\ PitchIntegStepMax \in Nat \ {0}
  /\ PitchSaturation \in Nat \ {0}
  /\ PitchIntegBound \in Nat
<1>1. SEBSetpointMax \in Nat /\ SEBErrorMax \in Nat
  BY DEF SEBSetpointMax, SEBErrorMax
<1>2. (SEBErrorMax * integrator_gain_pitch * DTBound) \div DT_UNIT \in Nat
  BY <1>1
<1>3. PitchIntegStepMax \in Nat \ {0}
  BY <1>2 DEF PitchIntegStepMax
<1>4. (PitchBound * TASBound * G) \div PitchU \in Nat
      /\ ((PitchBound + 1) * TASBound * G) \div PitchU \in Nat
  OBVIOUS
<1>5. PitchSaturation \in Nat \ {0}
  BY <1>1, <1>4 DEF PitchSaturation
<1>6. QED
  BY <1>1, <1>3, <1>5 DEF PitchIntegBound

\* What the law reads once _initialize_states has run: the minimum may be
\* pitch_min_climbout, above the maximum.
LawInputs ==
  [ spe_rate_sp : -RateBound..RateBound, ske_rate_sp : -RateBound..RateBound,
    spe_rate : -RateBound..RateBound, ske_rate : -RateBound..RateBound,
    spe_w : 0..WU, ske_w : 0..WU, tas : 0..TASBound, climbout : BOOLEAN,
    pmin : -PitchBound..PitchBound, pmax : -PitchBound..PitchBound,
    dt : 1..DTBound, reset : BOOLEAN, pitch : Int, pmin_climbout : Int ]

\* The record Step hands to the law.
LawOf(s) == [s EXCEPT !.pmin = InitPitchMin(s)]

LEMMA LawInputType ==
  ASSUME NEW s \in PitchInputs
  PROVE  LawOf(s) \in LawInputs
<1>1. InitPitchMin(s) \in -PitchBound..PitchBound
  BY DEF InitPitchMin, PitchInputs
<1>2. QED
  BY <1>1 DEF LawOf, LawInputs, PitchInputs

\* Integer division by a positive divisor keeps a scaled bound.
LEMMA ScaledDiv ==
  ASSUME NEW x \in Int, NEW k \in Nat, NEW w \in Nat \ {0},
         -(k * w) <= x, x <= k * w
  PROVE  x \div w \in -k..k
BY Z3

\* A weighted energy-rate difference a * wa - b * wb over WU.
LEMMA WeightedRange ==
  ASSUME NEW a \in -RateBound..RateBound, NEW b \in -RateBound..RateBound,
         NEW wa \in 0..WU, NEW wb \in 0..WU
  PROVE  FDiv(FSub(FMul(a, wa), FMul(b, wb)), WU) \in -(2 * RateBound)..(2 * RateBound)
<1>1. -(RateBound * WU) <= a * wa /\ a * wa <= RateBound * WU
      /\ -(RateBound * WU) <= b * wb /\ b * wb <= RateBound * WU
  BY Z3
<1>2. FSub(FMul(a, wa), FMul(b, wb)) = a * wa - b * wb
  BY FiniteArith
<1>3. -((2 * RateBound) * WU) <= a * wa - b * wb /\ a * wa - b * wb <= (2 * RateBound) * WU
  BY <1>1
<1>4. FDiv(a * wa - b * wb, WU) = (a * wa - b * wb) \div WU
  BY FiniteDiv
<1>5. (a * wa - b * wb) \div WU \in -(2 * RateBound)..(2 * RateBound)
  <2>1. a * wa - b * wb \in Int /\ 2 * RateBound \in Nat
    OBVIOUS
  <2>2. QED
    BY <1>3, <2>1, ScaledDiv
<1>6. QED
  BY <1>2, <1>4, <1>5

\* The SEB rate setpoint and error are bounded.
LEMMA SEBRange ==
  ASSUME NEW s \in LawInputs
  PROVE  /\ SEBRateSetpoint(s) \in -SEBSetpointMax..SEBSetpointMax
         /\ SEBRateError(s) \in -SEBErrorMax..SEBErrorMax
<1>1. SEBRateSetpoint(s) \in -(2 * RateBound)..(2 * RateBound)
  BY WeightedRange DEF SEBRateSetpoint, LawInputs
<1>2. FDiv(FSub(FMul(s.spe_rate, s.spe_w), FMul(s.ske_rate, s.ske_w)), WU)
        \in -(2 * RateBound)..(2 * RateBound)
  BY WeightedRange DEF LawInputs
<1>3. SEBRateError(s) = SEBRateSetpoint(s)
        - FDiv(FSub(FMul(s.spe_rate, s.spe_w), FMul(s.ske_rate, s.ske_w)), WU)
  BY <1>1, <1>2, FiniteArith DEF SEBRateError
<1>4. QED
  BY <1>1, <1>2, <1>3 DEF SEBSetpointMax, SEBErrorMax
\* The integrator's increment in one call, from the clamped input.
Incr(unc, s) ==
  (PitchAntiWindup(unc, SEBRateError(s) * integrator_gain_pitch, s) * s.dt) \div DT_UNIT

\* The anti-windup passes its input or replaces it by 0: towards zero when
\* the previous pitch is above the maximum, away from it when below the
\* minimum.
LEMMA PitchAntiWindupCases ==
  ASSUME NEW unc, NEW in \in Int, NEW s
  PROVE  /\ PitchAntiWindup(unc, in, s) \in {in, 0}
         /\ FGt(unc, s.pmax) => PitchAntiWindup(unc, in, s) <= 0
         /\ ~FGt(unc, s.pmax) /\ FLt(unc, s.pmin) => PitchAntiWindup(unc, in, s) >= 0
<1>1. FMin(in, 0) = (IF in < 0 THEN in ELSE 0) /\ FMax(in, 0) = (IF in > 0 THEN in ELSE 0)
  BY FiniteCompare
<1>2. QED
  BY <1>1 DEF PitchAntiWindup

\* A product of bounded factors is bounded by the product of the bounds.
LEMMA ProductMag ==
  ASSUME NEW a \in Int, NEW d \in Int, NEW E \in Nat, NEW D \in Nat,
         -E <= a, a <= E, 0 <= d, d <= D
  PROVE  a * d \in Int /\ -(E * D) <= a * d /\ a * d <= E * D
<1>1. a * d <= E * d /\ E * d <= E * D
  BY Z3
<1>2. -(E * d) <= a * d /\ -(E * D) <= -(E * d)
  BY Z3
<1>3. QED
  BY <1>1, <1>2, Z3

\* One increment is at most PitchIntegStepMax in magnitude, and has the
\* sign the anti-windup allows.
LEMMA IncrRange ==
  ASSUME NEW unc, NEW s \in LawInputs
  PROVE  /\ Incr(unc, s) \in -PitchIntegStepMax..PitchIntegStepMax
         /\ FGt(unc, s.pmax) => Incr(unc, s) <= 0
         /\ ~FGt(unc, s.pmax) /\ FLt(unc, s.pmin) => Incr(unc, s) >= 0
<1> DEFINE E  == SEBErrorMax * integrator_gain_pitch
           in == SEBRateError(s) * integrator_gain_pitch
           aw == PitchAntiWindup(unc, in, s)
           M  == E * DTBound
<1>1. SEBRateError(s) \in -SEBErrorMax..SEBErrorMax /\ SEBErrorMax \in Nat
  BY SEBRange, BoundFacts
<1>2. in \in -E..E /\ E \in Nat
  BY <1>1, Z3
<1>3. aw \in {in, 0}
      /\ (FGt(unc, s.pmax) => aw <= 0)
      /\ (~FGt(unc, s.pmax) /\ FLt(unc, s.pmin) => aw >= 0)
  BY <1>2, PitchAntiWindupCases
<1>4. s.dt \in 1..DTBound /\ M \in Nat
  <2>1. s.dt \in 1..DTBound
    BY DEF LawInputs
  <2>2. M \in Nat
    BY <1>2, Z3
  <2>3. QED
    BY <2>1, <2>2
<1>5. aw * s.dt \in Int /\ -M <= aw * s.dt /\ aw * s.dt <= M
  <2>1. aw \in -E..E
    BY <1>2, <1>3
  <2>2. QED
    BY <1>2, <1>4, <2>1, ProductMag
<1>6. (aw * s.dt) \div DT_UNIT \in -(M \div DT_UNIT) - 1 .. M \div DT_UNIT
  BY <1>4, <1>5, DivMagnitude
<1>7. PitchIntegStepMax = M \div DT_UNIT + 1 /\ M \div DT_UNIT \in Nat
  BY <1>4 DEF PitchIntegStepMax
<1>8. aw <= 0 => (aw * s.dt) \div DT_UNIT <= 0
  BY <1>2, <1>3, <1>4, Z3
<1>9. aw >= 0 => (aw * s.dt) \div DT_UNIT >= 0
  BY <1>2, <1>3, <1>4, Z3
<1>10. QED
  BY <1>3, <1>6, <1>7, <1>8, <1>9 DEF Incr

\* With a positive gain the integrator update adds the increment.
LEMMA IntegEq ==
  ASSUME NEW integ \in Int, NEW unc, NEW s \in LawInputs, integrator_gain_pitch > 0
  PROVE  PitchInteg(integ, unc, s) = integ + Incr(unc, s)
<1> DEFINE in == SEBRateError(s) * integrator_gain_pitch
           aw == PitchAntiWindup(unc, in, s)
<1>1. SEBRateError(s) \in Int
  BY SEBRange, BoundFacts
<1>2. FMul(SEBRateError(s), integrator_gain_pitch) = in
  BY <1>1, FiniteArith
<1>3. aw \in Int /\ s.dt \in Int
  BY <1>1, PitchAntiWindupCases DEF LawInputs
<1>4. FMul(aw, s.dt) = aw * s.dt
  BY <1>3, FiniteArith
<1> DEFINE p == aw * s.dt
<1>8. p \in Int /\ DT_UNIT \in Int /\ DT_UNIT # 0
  BY <1>3
<1>5. FDiv(p, DT_UNIT) = p \div DT_UNIT
  BY <1>8, FiniteDiv
<1>9. p \div DT_UNIT \in Int
  BY <1>8
<1>6. FAdd(integ, p \div DT_UNIT) = integ + p \div DT_UNIT
  BY <1>9, FiniteArith
<1>7. QED
  BY <1>2, <1>4, <1>5, <1>6 DEF PitchInteg, Incr

\* An unconstrained pitch beyond PitchBound is beyond every limit.
LEMMA BeyondLimits ==
  ASSUME NEW unc, NEW p \in -PitchBound..PitchBound
  PROVE  /\ FGt(unc, PitchBound) => FGt(unc, p) /\ ~FLt(unc, p)
         /\ FLt(unc, -PitchBound) => FLt(unc, p) /\ ~FGt(unc, p)
BY SpecialsAssumption DEF FGt, FLt
\* The integrator step keeps the bound when the previous unconstrained
\* pitch is saturated whenever the integrator is past PitchSaturation.
LEMMA IntegBounded ==
  ASSUME NEW integ \in -PitchIntegBound..PitchIntegBound, NEW unc,
         NEW s \in LawInputs,
         integ > PitchSaturation => FGt(unc, PitchBound),
         integ < -PitchSaturation => FLt(unc, -PitchBound)
  PROVE  PitchInteg(integ, unc, s) \in -PitchIntegBound..PitchIntegBound
<1>1. PitchIntegBound = PitchSaturation + PitchIntegStepMax
      /\ PitchSaturation \in Nat /\ PitchIntegStepMax \in Nat
  BY BoundFacts DEF PitchIntegBound
<1>2. s.pmax \in -PitchBound..PitchBound /\ s.pmin \in -PitchBound..PitchBound
  BY DEF LawInputs
<1>3. Incr(unc, s) \in -PitchIntegStepMax..PitchIntegStepMax
  BY IncrRange
<1>4. CASE integrator_gain_pitch = 0
  BY <1>1, <1>4 DEF PitchInteg
<1>5. CASE integrator_gain_pitch # 0
  <2>1. PitchInteg(integ, unc, s) = integ + Incr(unc, s)
    BY <1>5, IntegEq
  <2>2. CASE integ > PitchSaturation
    <3>1. FGt(unc, s.pmax)
      BY <1>2, <2>2, BeyondLimits
    <3>2. Incr(unc, s) <= 0
      BY <3>1, IncrRange
    <3>3. QED
      BY <1>1, <1>3, <2>1, <2>2, <3>2
  <2>3. CASE integ < -PitchSaturation
    <3>1. ~FGt(unc, s.pmax) /\ FLt(unc, s.pmin)
      BY <1>2, <2>3, BeyondLimits
    <3>2. Incr(unc, s) >= 0
      BY <3>1, IncrRange
    <3>3. QED
      BY <1>1, <1>3, <2>1, <2>3, <3>2
  <2>4. CASE integ \in -PitchSaturation..PitchSaturation
    BY <1>1, <1>3, <2>1, <2>4
  <2>5. QED
    BY <1>1, <2>2, <2>3, <2>4
<1>6. QED
  BY <1>4, <1>5
\* What the correction adds to the integrator, at most: the damping, the
\* feedforward and the climbout bias.
CorrMax ==
  SEBErrorMax * pitch_damping_gain + SEB_rate_ff * SEBSetpointMax
    + (PitchBound * TASBound * G) \div PitchU + 1

\* The climbout bias pitch_setpoint_min * climb_angle_to_SEB_rate is bounded.
LEMMA BiasRange ==
  ASSUME NEW s \in LawInputs
  PROVE  /\ ClimbAngleToSEBRate(s) = s.tas * G
         /\ FDiv(FMul(s.pmin, ClimbAngleToSEBRate(s)), PitchU)
              = (s.pmin * (s.tas * G)) \div PitchU
         /\ (s.pmin * (s.tas * G)) \div PitchU
              \in -((PitchBound * TASBound * G) \div PitchU) - 1
                  .. (PitchBound * TASBound * G) \div PitchU
<1>1. s.tas \in 0..TASBound /\ s.pmin \in -PitchBound..PitchBound
  BY DEF LawInputs
<1>2. ClimbAngleToSEBRate(s) = s.tas * G /\ s.tas * G \in 0..(TASBound * G)
  <2>1. s.tas \in Int /\ G \in Int
    BY <1>1
  <2>2. FMul(s.tas, G) = s.tas * G
    BY <2>1, FiniteArith
  <2>3. s.tas * G \in 0..(TASBound * G)
    BY <1>1, Z3
  <2>4. QED
    BY <2>2, <2>3 DEF ClimbAngleToSEBRate
<1>3. FMul(s.pmin, s.tas * G) = s.pmin * (s.tas * G)
  <2>1. s.pmin \in Int /\ s.tas * G \in Int
    BY <1>1, <1>2
  <2>2. QED
    BY <2>1, FiniteArith
<1>4. s.pmin * (s.tas * G) \in Int
      /\ -(PitchBound * (TASBound * G)) <= s.pmin * (s.tas * G)
      /\ s.pmin * (s.tas * G) <= PitchBound * (TASBound * G)
  <2>1. TASBound * G \in Nat
    BY Z3
  <2>2. QED
    BY <1>1, <1>2, <2>1, ProductMag
<1>5. PitchBound * (TASBound * G) = PitchBound * TASBound * G
      /\ PitchBound * TASBound * G \in Nat
  BY Z3
<1>6. FDiv(s.pmin * (s.tas * G), PitchU) = (s.pmin * (s.tas * G)) \div PitchU
  BY <1>4, FiniteDiv
<1>7. QED
  BY <1>2, <1>3, <1>4, <1>5, <1>6, DivMagnitude

\* SEB_rate_correction is finite and within CorrMax of the integrator.
LEMMA CorrRange ==
  ASSUME NEW integ1 \in Int, NEW s \in LawInputs
  PROVE  /\ SEBRateCorrection(integ1, s) \in Int
         /\ integ1 - CorrMax <= SEBRateCorrection(integ1, s)
         /\ SEBRateCorrection(integ1, s) <= integ1 + CorrMax
<1> DEFINE err == SEBRateError(s)
           sp  == SEBRateSetpoint(s)
           c   == err * pitch_damping_gain + integ1 + SEB_rate_ff * sp
           bias == (s.pmin * (s.tas * G)) \div PitchU
<1>1. err \in -SEBErrorMax..SEBErrorMax /\ sp \in -SEBSetpointMax..SEBSetpointMax
      /\ SEBErrorMax \in Nat /\ SEBSetpointMax \in Nat
  BY SEBRange, BoundFacts
<1>2. err * pitch_damping_gain \in Int
      /\ -(SEBErrorMax * pitch_damping_gain) <= err * pitch_damping_gain
      /\ err * pitch_damping_gain <= SEBErrorMax * pitch_damping_gain
  BY <1>1, ProductMag
<1>3. sp * SEB_rate_ff \in Int
      /\ -(SEBSetpointMax * SEB_rate_ff) <= sp * SEB_rate_ff
      /\ sp * SEB_rate_ff <= SEBSetpointMax * SEB_rate_ff
  BY <1>1, ProductMag
<1>4. FAdd(FAdd(FMul(err, pitch_damping_gain), integ1), FMul(SEB_rate_ff, sp)) = c
  <2>1. err \in Int /\ pitch_damping_gain \in Int
    BY <1>1
  <2>2. FMul(err, pitch_damping_gain) = err * pitch_damping_gain
    BY <2>1, FiniteArith
  <2>3. err * pitch_damping_gain \in Int /\ integ1 \in Int
    BY <1>2
  <2>4. FAdd(err * pitch_damping_gain, integ1) = err * pitch_damping_gain + integ1
    BY <2>3, FiniteArith
  <2>5. sp \in Int /\ SEB_rate_ff \in Int
    BY <1>1
  <2>6. FMul(SEB_rate_ff, sp) = SEB_rate_ff * sp
    BY <2>5, FiniteArith
  <2>7. err * pitch_damping_gain + integ1 \in Int /\ SEB_rate_ff * sp \in Int
    BY <1>2, <2>5
  <2>8. FAdd(err * pitch_damping_gain + integ1, SEB_rate_ff * sp) = c
    BY <2>7, FiniteArith
  <2>9. QED
    BY <2>2, <2>4, <2>6, <2>8
<1>5. bias \in -((PitchBound * TASBound * G) \div PitchU) - 1
                .. (PitchBound * TASBound * G) \div PitchU
      /\ FDiv(FMul(s.pmin, ClimbAngleToSEBRate(s)), PitchU) = bias
  BY BiasRange
<1>8. (PitchBound * TASBound * G) \div PitchU \in Nat
  OBVIOUS
<1>9. SEB_rate_ff * sp = sp * SEB_rate_ff
      /\ SEB_rate_ff * SEBSetpointMax = SEBSetpointMax * SEB_rate_ff
  BY <1>1
<1>6. c \in Int /\ FAdd(c, bias) = c + bias
  <2>1. c \in Int /\ bias \in Int
    BY <1>2, <1>3, <1>5, <1>8, <1>9
  <2>2. QED
    BY <2>1, FiniteArith
<1>7. SEBRateCorrection(integ1, s) = IF s.climbout THEN c + bias ELSE c
  BY <1>4, <1>5, <1>6 DEF SEBRateCorrection
<1> DEFINE A == SEBErrorMax * pitch_damping_gain
           B == SEBSetpointMax * SEB_rate_ff
           X == (PitchBound * TASBound * G) \div PitchU
<1>10. CorrMax = A + B + X + 1 /\ A \in Int /\ B \in Int /\ X \in Nat
  BY <1>1, <1>8, <1>9 DEF CorrMax
<1>11. c \in Int /\ integ1 - A - B <= c /\ c <= integ1 + A + B
  <2> DEFINE p == err * pitch_damping_gain
             q == SEB_rate_ff * sp
  <2>1. p \in Int /\ -A <= p /\ p <= A
    BY <1>2
  <2>2. q \in Int /\ -B <= q /\ q <= B
    BY <1>3, <1>9
  <2>3. A \in Int /\ B \in Int
    BY <1>1
  <2>4. c = p + integ1 + q
    OBVIOUS
  <2> HIDE DEF c, p, q, A, B
  <2>5. QED
    BY <2>1, <2>2, <2>3, <2>4
<1>12. bias \in Int /\ -X - 1 <= bias /\ bias <= X
  BY <1>5, <1>8
<1>13. QED
  BY <1>7, <1>10, <1>11, <1>12
\* The correction past which the pitch exceeds PitchBound at every airspeed.
SatX == ((PitchBound + 1) * TASBound * G) \div PitchU

\* Integer division facts the saturation argument uses.
LEMMA QuotBounds ==
  ASSUME NEW n \in Int, NEW d \in Nat \ {0}, NEW k \in Int
  PROVE  /\ n >= k * d => n \div d >= k
         /\ n <= k * d => n \div d <= k
BY Z3

LEMMA DivCeil ==
  ASSUME NEW m \in Nat, NEW u \in Nat \ {0}
  PROVE  (m \div u + 1) * u > m
BY Z3

\* A correction of at least SatX + 2 gives an unconstrained pitch above
\* PitchBound: an infinity at zero airspeed, a quotient above it otherwise.
LEMMA UncAbove ==
  ASSUME NEW corr \in Int, NEW t \in 0..TASBound, corr >= SatX + 2
  PROVE  FGt(FDiv(corr * PitchU, t * G), PitchBound)
<1> DEFINE n == corr * PitchU
           d == t * G
           m == (PitchBound + 1) * TASBound * G
<1>1. m \in Nat /\ SatX = m \div PitchU /\ SatX \in Nat
  BY Z3 DEF SatX
<1>2. n \in Int /\ n > 0 /\ d \in Nat
  BY <1>1, Z3
<1>3. CASE t = 0
  <2>1. d = 0
    BY <1>3
  <2>2. FDiv(n, d) = PosInf
    BY <1>2, <2>1, SpecialsAssumption DEF FDiv, InfOf, SignOf
  <2>3. QED
    BY <2>2, SpecialsAssumption DEF FGt, FLt
<1>4. CASE t # 0
  <2>1. d \in Nat \ {0}
    BY <1>4, Z3
  <2>2. (SatX + 1) * PitchU > m
    BY <1>1, DivCeil
  <2>3. n >= (SatX + 1) * PitchU
    BY <1>1, Z3
  <2>4. m >= (PitchBound + 1) * d
    BY Z3
  <2>5. n >= (PitchBound + 1) * d
    BY <2>2, <2>3, <2>4, <1>1, <1>2, Z3
  <2>6. n \div d >= PitchBound + 1
    BY <1>2, <2>1, <2>5, QuotBounds
  <2>7. FDiv(n, d) = n \div d
    BY <1>2, <2>1, FiniteDiv
  <2>8. QED
    <3>1. n \div d \in Int
      BY <1>2, <2>1
    <3>2. QED
      BY <2>6, <2>7, <3>1, SpecialsAssumption DEF FGt, FLt
<1>5. QED
  BY <1>3, <1>4

\* Symmetrically, a correction of at most -(SatX + 2) gives a pitch below
\* -PitchBound.
LEMMA UncBelow ==
  ASSUME NEW corr \in Int, NEW t \in 0..TASBound, corr <= -(SatX + 2)
  PROVE  FLt(FDiv(corr * PitchU, t * G), -PitchBound)
<1> DEFINE n == corr * PitchU
           d == t * G
           m == (PitchBound + 1) * TASBound * G
<1>1. m \in Nat /\ SatX = m \div PitchU /\ SatX \in Nat
  BY Z3 DEF SatX
<1>2. n \in Int /\ n < 0 /\ d \in Nat
  BY <1>1, Z3
<1>3. CASE t = 0
  <2>1. d = 0
    BY <1>3
  <2>2. FDiv(n, d) = NegInf
    BY <1>2, <2>1, SpecialsAssumption DEF FDiv, InfOf, SignOf
  <2>3. QED
    BY <2>2, SpecialsAssumption DEF FLt
<1>4. CASE t # 0
  <2>1. d \in Nat \ {0}
    BY <1>4, Z3
  <2>2. (SatX + 1) * PitchU > m
    BY <1>1, DivCeil
  <2>3. n <= -((SatX + 1) * PitchU)
    BY <1>1, Z3
  <2>4. m >= (PitchBound + 1) * d
    BY Z3
  <2>5. n <= (-(PitchBound + 1)) * d
    BY <2>2, <2>3, <2>4, <1>1, <1>2, Z3
  <2>6. n \div d <= -(PitchBound + 1)
    BY <1>2, <2>1, <2>5, QuotBounds
  <2>7. FDiv(n, d) = n \div d
    BY <1>2, <2>1, FiniteDiv
  <2>8. QED
    <3>1. n \div d \in Int
      BY <1>2, <2>1
    <3>2. QED
      BY <2>6, <2>7, <3>1, SpecialsAssumption DEF FLt
<1>5. QED
  BY <1>3, <1>4
\* Past PitchSaturation the unconstrained pitch of the same call lies
\* beyond PitchBound, on the integrator's side.
LEMMA SaturatedUnc ==
  ASSUME NEW integ1 \in Int, NEW s \in LawInputs
  PROVE  /\ integ1 > PitchSaturation => FGt(PitchSetpointUnc(integ1, s), PitchBound)
         /\ integ1 < -PitchSaturation => FLt(PitchSetpointUnc(integ1, s), -PitchBound)
<1> DEFINE corr == SEBRateCorrection(integ1, s)
<1>1. corr \in Int /\ integ1 - CorrMax <= corr /\ corr <= integ1 + CorrMax
  BY CorrRange
<1>2. PitchSaturation = CorrMax + SatX + 1
  BY DEF PitchSaturation, CorrMax, SatX
<1>3. CorrMax \in Int /\ SatX \in Int
  BY BoundFacts DEF CorrMax, SatX
<1>4. PitchSetpointUnc(integ1, s) = FDiv(corr * PitchU, s.tas * G)
  <2>1. corr \in Int /\ PitchU \in Int
    BY <1>1
  <2>2. FMul(corr, PitchU) = corr * PitchU
    BY <2>1, FiniteArith
  <2>3. QED
    BY <2>2, BiasRange DEF PitchSetpointUnc
<1>5. s.tas \in 0..TASBound
  BY DEF LawInputs
<1>6. integ1 > PitchSaturation => corr >= SatX + 2
  BY <1>1, <1>2, <1>3
<1>7. integ1 < -PitchSaturation => corr <= -(SatX + 2)
  BY <1>1, <1>2, <1>3
<1>8. QED
  BY <1>1, <1>4, <1>5, <1>6, <1>7, UncAbove, UncBelow

\* The increment of the rate limit is a natural number, an infinity at zero
\* airspeed, or NaN when nothing is divided by zero.
LEMMA IncrementType ==
  ASSUME NEW s \in LawInputs
  PROVE  PitchIncrement(s) \in Nat \cup {PosInf, NaN}
<1> DEFINE num == s.dt * vert_accel_limit * PitchU
           den == DT_UNIT * s.tas
<1>1. num \in Nat /\ den \in Nat /\ (num = 0 \/ num > 0)
  BY Z3 DEF LawInputs
<1>2. FMul(DT_UNIT, s.tas) = den
  <2>1. s.tas \in Int /\ DT_UNIT \in Int
    BY DEF LawInputs
  <2>2. QED
    BY <2>1, FiniteArith
<1>3. CASE den # 0
  <2>0. num \in Int /\ den \in Int /\ den # 0
    BY <1>1, <1>3
  <2>1. FDiv(num, den) = num \div den
    BY <2>0, FiniteDiv
  <2>2. num \div den \in Nat
    BY <1>1, <1>3
  <2>3. QED
    BY <1>2, <2>1, <2>2 DEF PitchIncrement
<1>4. CASE den = 0
  BY <1>1, <1>2, <1>4, SpecialsAssumption DEF PitchIncrement, FDiv, InfOf, SignOf
<1>5. QED
  BY <1>3, <1>4

\* A quotient of finite values by a natural number is a float.
LEMMA FDivFloat ==
  ASSUME NEW a \in Int, NEW b \in Nat
  PROVE  FDiv(a, b) \in Float
<1>1. CASE b # 0
  <2>1. a \div b \in Int
    BY <1>1
  <2>2. QED
    BY <1>1, <2>1, FiniteDiv DEF Float
<1>2. CASE b = 0
  <2>1. InfOf(SignOf(a)) \in {PosInf, NegInf}
    BY DEF InfOf
  <2>2. QED
    BY <1>2, <2>1 DEF FDiv, Float
<1>3. QED
  BY <1>1, <1>2

\* The unconstrained pitch is a float: a finite correction divided by a
\* finite airspeed term.
LEMMA UncFloat ==
  ASSUME NEW integ1 \in Int, NEW s \in LawInputs
  PROVE  PitchSetpointUnc(integ1, s) \in Float
<1>1. SEBRateCorrection(integ1, s) * PitchU \in Int /\ s.tas * G \in Nat
  BY CorrRange DEF LawInputs
<1>2. PitchSetpointUnc(integ1, s)
        = FDiv(SEBRateCorrection(integ1, s) * PitchU, s.tas * G)
  <2>1. SEBRateCorrection(integ1, s) \in Int /\ PitchU \in Int
    BY CorrRange
  <2>2. QED
    BY <2>1, BiasRange, FiniteArith DEF PitchSetpointUnc
<1>3. QED
  BY <1>1, <1>2, FDivFloat
PitchRange == (-PitchBound..PitchBound) \cup {NaN}

\* math::constrain to limits within PitchBound gives a pitch within it, or
\* NaN for a NaN pitch; infinities go to the limits.
LEMMA SpRange ==
  ASSUME NEW v \in Float, NEW lo \in -PitchBound..PitchBound,
         NEW hi \in -PitchBound..PitchBound
  PROVE  Constrain(v, lo, hi) \in PitchRange
<1>1. CASE v \in Int
  BY <1>1, SpecialsAssumption DEF Constrain, FLt, PitchRange
<1>2. CASE v = PosInf
  BY <1>2, SpecialsAssumption DEF Constrain, FLt, PitchRange
<1>3. CASE v = NegInf
  BY <1>3, SpecialsAssumption DEF Constrain, FLt, PitchRange
<1>4. CASE v = NaN
  BY <1>4, SpecialsAssumption DEF Constrain, FLt, PitchRange
<1>5. QED
  BY <1>1, <1>2, <1>3, <1>4 DEF Float

\* The rate limit around the previous pitch keeps a pitch within PitchBound:
\* a bound is returned only when it lies between the clamped pitch and the
\* previous one, and NaN bounds let the clamped pitch through.
LEMMA LastRange ==
  ASSUME NEW sp \in PitchRange, NEW last \in PitchRange,
         NEW incr \in Nat \cup {PosInf, NaN}
  PROVE  Constrain(sp, FSub(last, incr), FAdd(last, incr)) \in PitchRange
<1> DEFINE lo == FSub(last, incr)
           hi == FAdd(last, incr)
<1>1. CASE sp = NaN
  BY <1>1, SpecialsAssumption DEF Constrain, FLt, PitchRange
<1>2. CASE last = NaN \/ incr = NaN
  <2>1. lo = NaN /\ hi = NaN
    BY <1>2, SpecialsAssumption DEF FSub, FAdd, FNeg
  <2>2. QED
    BY <2>1 DEF Constrain, FLt
<1>3. CASE sp \in Int /\ last \in Int /\ incr = PosInf
  <2>1. lo = NegInf /\ hi = PosInf
    BY <1>3, SpecialsAssumption DEF FSub, FAdd, FNeg
  <2>2. QED
    BY <1>3, <2>1, SpecialsAssumption DEF Constrain, FLt
<1>4. CASE sp \in Int /\ last \in Int /\ incr \in Nat
  <2>0. last \in Int /\ incr \in Int
    BY <1>4
  <2>1. lo = last - incr /\ hi = last + incr
    BY <2>0, FiniteArith
  <2>2. QED
    BY <1>4, <2>1, SpecialsAssumption DEF Constrain, FLt, PitchRange
<1>5. QED
  BY <1>1, <1>2, <1>3, <1>4 DEF PitchRange
\* One call of the law from a state that satisfies the invariant's
\* conditions leads to a state that satisfies them.
LEMMA PitchUpdateInv ==
  ASSUME NEW integ \in -PitchIntegBound..PitchIntegBound, NEW unc,
         NEW last \in PitchRange, NEW s \in LawInputs,
         integ > PitchSaturation => FGt(unc, PitchBound),
         integ < -PitchSaturation => FLt(unc, -PitchBound)
  PROVE  LET r == PitchUpdate(integ, unc, last, s)
         IN  /\ r.integ \in -PitchIntegBound..PitchIntegBound
             /\ r.unc \in Float
             /\ r.last \in PitchRange
             /\ r.integ > PitchSaturation => FGt(r.unc, PitchBound)
             /\ r.integ < -PitchSaturation => FLt(r.unc, -PitchBound)
<1> DEFINE integ1 == PitchInteg(integ, unc, s)
           unc1   == PitchSetpointUnc(integ1, s)
           sp     == Constrain(unc1, s.pmin, s.pmax)
           incr   == PitchIncrement(s)
<1>1. integ1 \in -PitchIntegBound..PitchIntegBound
  BY IntegBounded
<1>2. integ1 \in Int
  BY <1>1, BoundFacts
<1>3. unc1 \in Float
  BY <1>2, UncFloat
<1>4. s.pmin \in -PitchBound..PitchBound /\ s.pmax \in -PitchBound..PitchBound
  BY DEF LawInputs
<1>5. sp \in PitchRange
  BY <1>3, <1>4, SpRange
<1>6. incr \in Nat \cup {PosInf, NaN}
  BY IncrementType
<1>7. Constrain(sp, FSub(last, incr), FAdd(last, incr)) \in PitchRange
  BY <1>5, <1>6, LastRange
<1>8. /\ integ1 > PitchSaturation => FGt(unc1, PitchBound)
      /\ integ1 < -PitchSaturation => FLt(unc1, -PitchBound)
  BY <1>2, SaturatedUnc
<1>9. QED
  BY <1>1, <1>3, <1>7, <1>8 DEF PitchUpdate

\* The initial states satisfy the inductive invariant.
LEMMA InitIInv == Init => IInv
<1> SUFFICES ASSUME Init PROVE IInv
  OBVIOUS
<1>1. last_pitch_setpoint \in PitchRange
  BY SpRange, SpecialsAssumption DEF Init, Float
<1>2. PitchRange \subseteq Float
  BY DEF PitchRange, Float
<1>3. PitchSaturation \in Nat
  BY BoundFacts
<1>4. 0 \in -PitchIntegBound..PitchIntegBound
  BY BoundFacts
<1>5. QED
  BY <1>1, <1>2, <1>3, <1>4
     DEF Init, IInv, TypeOK, PitchIntegratorBounded, PitchRange

\* Every step, a reset or not, preserves the inductive invariant.
LEMMA NextIInv == IInv /\ [Next]_vars => IInv'
<1> SUFFICES ASSUME IInv, [Next]_vars PROVE IInv'
  OBVIOUS
<1>1. CASE UNCHANGED vars
  BY <1>1 DEF IInv, TypeOK, PitchIntegratorBounded, vars
<1>2. ASSUME NEW s \in PitchInputs, Step(s) PROVE IInv'
  <2> DEFINE law    == LawOf(s)
             last0  == IF s.reset THEN ResetPitch(s) ELSE last_pitch_setpoint
             unc0   == IF s.reset THEN ResetPitch(s) ELSE pitch_setpoint_unc
             integ0 == IF s.reset THEN 0 ELSE pitch_integ_state
             r      == PitchUpdate(integ0, unc0, last0, law)
  <2>1. law \in LawInputs
    BY LawInputType
  <2>2. ResetPitch(s) \in PitchRange
    <3>1. s.pitch \in Float /\ s.pmin \in -PitchBound..PitchBound
          /\ s.pmax \in -PitchBound..PitchBound
      BY DEF PitchInputs, Float
    <3>2. QED
      BY <3>1, SpRange DEF ResetPitch
  <2>3. /\ integ0 \in -PitchIntegBound..PitchIntegBound
        /\ last0 \in PitchRange
        /\ integ0 > PitchSaturation => FGt(unc0, PitchBound)
        /\ integ0 < -PitchSaturation => FLt(unc0, -PitchBound)
    BY <2>2, BoundFacts DEF IInv, TypeOK, PitchIntegratorBounded, PitchRange
  <2>4. /\ r.integ \in -PitchIntegBound..PitchIntegBound
        /\ r.unc \in Float
        /\ r.last \in PitchRange
        /\ r.integ > PitchSaturation => FGt(r.unc, PitchBound)
        /\ r.integ < -PitchSaturation => FLt(r.unc, -PitchBound)
    BY <2>1, <2>3, PitchUpdateInv
  <2>5. /\ pitch_integ_state' = r.integ /\ pitch_setpoint_unc' = r.unc
        /\ last_pitch_setpoint' = r.last
        /\ pitch_setpoint_min' = InitPitchMin(s) /\ pitch_setpoint_max' = s.pmax
    BY <1>2 DEF Step, LawOf
  <2>6. InitPitchMin(s) \in PitchMins \cup PitchMinsClimbout /\ s.pmax \in PitchMaxs
    BY DEF InitPitchMin, PitchInputs
  <2>7. PitchIntegBound \in Nat
    BY BoundFacts
  <2>8. PitchIntegratorBounded' /\ pitch_integ_state' \in Int
    BY <2>4, <2>5, <2>7 DEF PitchIntegratorBounded
  <2>9. TypeOK'
    BY <2>4, <2>5, <2>6, <2>8 DEF TypeOK, PitchRange
  <2>10. QED
    BY <2>4, <2>5, <2>8, <2>9 DEF IInv
<1>3. QED
  BY <1>1, <1>2 DEF Next
\* Every call of _update_pitch_setpoint, after _initialize_states, leaves
\* the pitch members well typed: the published pitch within PitchBound or
\* NaN, the unconstrained pitch a float, the limits those the host and the
\* climbout override set.
THEOREM PitchTypeCorrect == Spec => []TypeOK
<1>1. IInv => TypeOK
  BY DEF IInv
<1>2. QED
  BY <1>1, InitIInv, NextIInv, PTL DEF Spec

\* The anti-windup of _update_pitch_setpoint (TECS.cpp 414-425) keeps the
\* pitch integrator within PitchIntegBound on every run, resets and
\* climbout included, for every value of the constants.
THEOREM PitchIntegratorBoundedThm == Spec => []PitchIntegratorBounded
<1>1. IInv => PitchIntegratorBounded
  BY DEF IInv
<1>2. QED
  BY <1>1, InitIInv, NextIInv, PTL DEF Spec
=============================================================================
