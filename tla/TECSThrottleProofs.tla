------------------------- MODULE TECSThrottleProofs -------------------------
(***************************************************************************)
(* Proofs about the throttle law: its state keeps its type and the        *)
(* anti-windup keeps the throttle integrator bounded, for every value of  *)
(* the constants that satisfies ThrottleAssumption.                        *)
(*                                                                         *)
(* The invariant TypeOK /\ ThrottleIntegratorBounded is inductive as it    *)
(* stands: the filtered energy-rate error is bounded (the filter only    *)
(* moves its state towards the sample), which bounds one integrator step; *)
(* the anti-windup then keeps the integrator within the throttle range    *)
(* plus one step.                                                          *)
(***************************************************************************)
EXTENDS TECSThrottle, TECSFloatLemmas

USE ThrottleAssumption

\* The constants the law divides by are positive.
LEMMA SpanPositive ==
  /\ STE_rate_max \in Nat \ {0}
  /\ STE_rate_min \in Int /\ STE_rate_min < 0
  /\ STERateSpan \in Nat \ {0}
  /\ IntegStepMax \in Nat
<1>1. STE_rate_max \in Nat \ {0} /\ STE_rate_min \in Int /\ STE_rate_min < 0
  BY DEF STE_rate_max, STE_rate_min
<1>2. STERateSpan \in Nat \ {0}
  BY <1>1 DEF STERateSpan
<1>3. DT_UNIT * STERateSpan \in Nat \ {0}
  BY <1>2
<1>4. 2 * STERateBound * integrator_gain_throttle * DT_MAX * TU \in Nat
  OBVIOUS
<1>5. IntegStepMax \in Nat
  BY <1>3, <1>4 DEF IntegStepMax
<1>6. QED
  BY <1>1, <1>2, <1>5

\* The members the law reads once _initialize_states has run: the minimum
\* may be the climbout pin, _dt is within its range.
LawInputs ==
  {s \in [ rate_sp : STERateSetpoints, rate : STERates,
           pu : PercentUndersped, climbout : BOOLEAN, airspeed : BOOLEAN,
           tmin : ThrottleFloor..TU, tmax : ThrottleMaxs, trim : ThrottleTrims,
           dt : DT_MIN..DT_MAX, load_factor : LoadFactors, reset : BOOLEAN ] :
     s.tmin <= s.tmax}

\* _initialize_states gives the law members in LawInputs.
LEMMA LawInputType ==
  ASSUME NEW in \in ThrottleInputs
  PROVE  LawInput(in) \in LawInputs
<1>1. in.tmin \in 0..TU /\ in.tmax \in 0..TU /\ in.tmin <= in.tmax
      /\ in.dt \in Nat /\ in.dt >= DT_MIN
  BY DEF ThrottleInputs
<1>2. InitThrottleMin(in) \in ThrottleFloor..TU /\ InitThrottleMin(in) <= in.tmax
  BY <1>1 DEF InitThrottleMin, ThrottleFloor
<1>3. InitDt(in) \in DT_MIN..DT_MAX
  BY <1>1 DEF InitDt, ResetStates
<1>4. QED
  BY <1>2, <1>3 DEF LawInput, LawInputs, ThrottleInputs

\* The fields of the law's input and their ranges.
LEMMA InputFacts ==
  ASSUME NEW s \in LawInputs
  PROVE  /\ s.rate_sp \in -STERateBound..STERateBound
         /\ s.rate \in -STERateBound..STERateBound
         /\ s.pu \in 0..PU
         /\ s.airspeed \in BOOLEAN /\ s.climbout \in BOOLEAN
         /\ s.tmin \in ThrottleFloor..TU /\ s.tmax \in 0..TU /\ s.tmin <= s.tmax
         /\ s.trim \in 0..TU
         /\ s.dt \in DT_MIN..DT_MAX
         /\ s.load_factor \in Nat \ {0}
BY DEF LawInputs

\* math::constrain returns one of its arguments.
LEMMA ConstrainCases ==
  ASSUME NEW v, NEW lo, NEW hi
  PROVE  Constrain(v, lo, hi) \in {v, lo, hi}
BY DEF Constrain

\* The first-order filter moves its state towards the sample and never past
\* it, so it stays within any interval that holds both.
LEMMA AlphaHull ==
  ASSUME NEW E \in Nat, NEW f \in -E..E, NEW x \in -E..E
  PROVE  AlphaUpdate(f, x) \in -E..E
<1> DEFINE d == ste_rate_time_const + DT_DEFAULT
           q == ((x - f) * DT_DEFAULT) \div d
<1>1. d \in Nat \ {0} /\ DT_DEFAULT \in Nat \ {0} /\ DT_DEFAULT <= d
  OBVIOUS
<1>0. f \in Int /\ x \in Int /\ q \in Int
  BY <1>1
<1>2. FSub(x, f) = x - f
  BY <1>0 DEF FSub, FAdd, FNeg
<1>3. FMul(x - f, DT_DEFAULT) = (x - f) * DT_DEFAULT
  BY <1>0, <1>1 DEF FMul
<1>4. FDiv((x - f) * DT_DEFAULT, d) = q
  BY <1>0, <1>1 DEF FDiv
<1>5. FAdd(f, q) = f + q
  BY <1>0 DEF FAdd
<1>6. AlphaUpdate(f, x) = f + q
  BY <1>2, <1>3, <1>4, <1>5 DEF AlphaUpdate
<1>7. x >= f => 0 <= q /\ q <= x - f
  BY <1>1, Z3
<1>8. x < f => x - f <= q /\ q <= 0
  BY <1>1, Z3
<1>9. QED
  BY <1>6, <1>7, <1>8

\* The filtered energy-rate error stays within twice the input bound.
LEMMA ErrorRange ==
  ASSUME NEW filt \in -2 * STERateBound..2 * STERateBound, NEW s \in LawInputs
  PROVE  STERateError(filt, s) \in -2 * STERateBound..2 * STERateBound
<1>1. s.rate_sp \in -STERateBound..STERateBound /\ s.rate \in -STERateBound..STERateBound
  BY InputFacts
<1>2. FSub(s.rate_sp, s.rate) = s.rate_sp - s.rate
  BY <1>1 DEF FSub, FAdd, FNeg
<1>3. s.rate_sp - s.rate \in -2 * STERateBound..2 * STERateBound
  BY <1>1
<1>4. 2 * STERateBound \in Nat
  OBVIOUS
<1>5. AlphaUpdate(filt, s.rate_sp - s.rate) \in -2 * STERateBound..2 * STERateBound
  BY <1>3, <1>4, AlphaHull
<1>6. QED
  BY <1>2, <1>5 DEF STERateError

\* The energy-rate setpoint is finite.
LEMMA SetpointFinite ==
  ASSUME NEW s \in LawInputs
  PROVE  STERateSetpoint(s) \in Int
<1>1. s.rate_sp \in Int /\ s.load_factor \in Nat
  BY InputFacts
<1>2. FAdd(s.rate_sp, load_factor_correction * (s.load_factor - 1))
        = s.rate_sp + load_factor_correction * (s.load_factor - 1)
  BY <1>1 DEF FAdd
<1>3. STE_rate_min \in Int /\ STE_rate_max \in Int
  BY SpanPositive
<1>4. QED
  BY <1>1, <1>2, <1>3, ConstrainCases DEF STERateSetpoint

\* The predicted throttle is finite.
LEMMA PredictedFinite ==
  ASSUME NEW sp \in Int, NEW tmin \in Int, NEW tmax \in Int, NEW trim \in Int
  PROVE  ThrottlePredicted(sp, tmin, tmax, trim) \in Int
<1>1. STE_rate_max \in Nat \ {0} /\ -STE_rate_min \in Nat \ {0}
  BY SpanPositive
<1>2. FAdd(trim, FDiv(FMul(sp, tmax - trim), STE_rate_max))
        = trim + (sp * (tmax - trim)) \div STE_rate_max
  BY <1>1 DEF FAdd, FDiv, FMul
<1>3. FNeg(sp) = -sp
  BY DEF FNeg
<1>4. FAdd(trim, FDiv(FMul(-sp, tmin - trim), -STE_rate_min))
        = trim + (-sp * (tmin - trim)) \div (-STE_rate_min)
  BY <1>1 DEF FAdd, FDiv, FMul
<1>5. QED
  BY <1>1, <1>2, <1>3, <1>4 DEF ThrottlePredicted

\* The throttle before the integrator lies within the limits.
LEMMA FeedbackRange ==
  ASSUME NEW err \in Int, NEW pred \in Int, NEW s \in LawInputs
  PROVE  ThrottleFeedback(err, pred, s) \in s.tmin..s.tmax
<1> DEFINE p == (err * (throttle_damping_gain * TU)) \div STERateSpan + pred
<1>1. STERateSpan \in Nat \ {0}
  BY SpanPositive
<1>2. FAdd(FDiv(FMul(err, throttle_damping_gain * TU), STERateSpan), pred) = p
  <2>1. throttle_damping_gain * TU \in Int
    OBVIOUS
  <2>2. FMul(err, throttle_damping_gain * TU) = err * (throttle_damping_gain * TU)
    BY <2>1 DEF FMul
  <2>3. FDiv(err * (throttle_damping_gain * TU), STERateSpan)
          = (err * (throttle_damping_gain * TU)) \div STERateSpan
    BY <1>1, <2>1 DEF FDiv
  <2>4. (err * (throttle_damping_gain * TU)) \div STERateSpan \in Int
    BY <1>1, <2>1
  <2>5. QED
    BY <2>2, <2>3, <2>4 DEF FAdd
<1>3. s.tmin \in Int /\ s.tmax \in Int /\ s.tmin <= s.tmax
  BY InputFacts
<1>4. p \in Int
  BY <1>1
<1>5. Constrain(p, s.tmin, s.tmax) \in s.tmin..s.tmax
  BY <1>3, <1>4, ConstrainRange
<1>6. QED
  BY <1>2, <1>5 DEF ThrottleFeedback

\* A product of three factors is bounded by the product of their bounds.
LEMMA ProductBound ==
  ASSUME NEW a \in Int, NEW A \in Nat, -A <= a, a <= A,
         NEW b \in Nat, NEW Bb \in Nat, b <= Bb,
         NEW c \in Nat, NEW C \in Nat, c <= C
  PROVE  -(A * Bb * C) <= a * b * c /\ a * b * c <= A * Bb * C
<1>1. -(A * Bb) <= a * b /\ a * b <= A * Bb
  BY Z3
<1>2. QED
  BY <1>1, Z3

\* Dividing numerator and denominator by the same positive factor.
LEMMA DivCancel ==
  ASSUME NEW a \in Nat, NEW b \in Nat \ {0}, NEW c \in Nat \ {0}
  PROVE  (a * c) \div (b * c) = a \div b
BY Z3

\* One integrator input is at most IntegStepMax in magnitude.
LEMMA InputRange ==
  ASSUME NEW err \in -2 * STERateBound..2 * STERateBound, NEW s \in LawInputs
  PROVE  IntegInput(err, s) \in -IntegStepMax..IntegStepMax
<1> DEFINE A == 2 * STERateBound
           Bb == integrator_gain_throttle * DT_MAX * TU
           b == integrator_gain_throttle * s.dt * TU
           c == PU - s.pu
           D == DT_UNIT * STERateSpan * PU
<1>1. s.dt \in 1..DT_MAX /\ s.pu \in 0..PU
  BY InputFacts
<1>2. b \in Nat /\ b <= Bb /\ c \in Nat /\ c <= PU /\ A \in Nat /\ Bb \in Nat
  <2>1. integrator_gain_throttle * s.dt <= integrator_gain_throttle * DT_MAX
    BY <1>1, Z3
  <2>2. QED
    BY <1>1, <2>1, Z3
<1>3. D \in Nat \ {0}
  BY SpanPositive
<1>4. FSub(PU, s.pu) = c
  BY <1>1 DEF FSub, FAdd, FNeg
<1>5. FMul(err, b) = err * b
  BY <1>2 DEF FMul
<1>6. FMul(err * b, c) = err * b * c
  BY <1>2 DEF FMul
<1>7. FDiv(err * b * c, D) = (err * b * c) \div D
  BY <1>2, <1>3 DEF FDiv
<1>8. IntegInput(err, s) = (err * b * c) \div D
  BY <1>4, <1>5, <1>6, <1>7 DEF IntegInput
<1>9. -(A * Bb * PU) <= err * b * c /\ err * b * c <= A * Bb * PU
  <2>1. err \in Int /\ -A <= err /\ err <= A
    OBVIOUS
  <2>2. -(A * Bb) <= err * b /\ err * b <= A * Bb
    BY <1>2, <2>1, Z3
  <2>3. QED
    BY <1>2, <2>2, Z3
<1>10. (err * b * c) \div D \in -((A * Bb * PU) \div D) - 1 .. (A * Bb * PU) \div D
  <2>1. A * Bb * PU \in Nat /\ err * b * c \in Int
    BY <1>2
  <2>2. QED
    BY <1>3, <1>9, <2>1, DivMagnitude
<1>11. (A * Bb * PU) \div D = (A * Bb) \div (DT_UNIT * STERateSpan)
  <2>1. A * Bb \in Nat /\ DT_UNIT * STERateSpan \in Nat \ {0}
    BY <1>2, SpanPositive
  <2>2. QED
    BY <2>1, DivCancel
<1>12. IntegStepMax = (A * Bb) \div (DT_UNIT * STERateSpan) + 1
  BY DEF IntegStepMax
<1>13. (A * Bb) \div (DT_UNIT * STERateSpan) \in Nat
  BY <1>2, SpanPositive
<1>14. QED
  BY <1>8, <1>10, <1>11, <1>12, <1>13

\* AntiWindup lets the input through, or clamps it towards zero in the
\* direction that unsaturates the throttle.
LEMMA AntiWindupCases ==
  ASSUME NEW integ \in Int, NEW lo \in Int, NEW hi \in Int, NEW in \in Int
  PROVE  /\ integ > hi => AntiWindup(integ, lo, hi, in) = IF 0 < in THEN 0 ELSE in
         /\ integ <= hi /\ integ < lo => AntiWindup(integ, lo, hi, in) = IF 0 > in THEN 0 ELSE in
         /\ integ <= hi /\ integ >= lo => AntiWindup(integ, lo, hi, in) = in
<1>1. (FGt(integ, hi) <=> integ > hi) /\ (FLt(integ, lo) <=> integ < lo)
  BY FiniteCompare
<1>2. FMin(0, in) = (IF 0 < in THEN 0 ELSE in) /\ FMax(0, in) = (IF 0 > in THEN 0 ELSE in)
  BY FiniteCompare
<1>3. QED
  BY <1>1, <1>2 DEF AntiWindup

\* The integrator update keeps the anti-windup bound.
LEMMA IntegRange ==
  ASSUME NEW integ \in -(ThrottleSpanMax + IntegStepMax)..(ThrottleSpanMax + IntegStepMax),
         NEW err \in -2 * STERateBound..2 * STERateBound,
         NEW s \in LawInputs, NEW thr0 \in s.tmin..s.tmax
  PROVE  ThrottleInteg(integ, err, thr0, s) \in -(ThrottleSpanMax + IntegStepMax)..(ThrottleSpanMax + IntegStepMax)
<1> DEFINE lo == s.tmin - thr0
           hi == s.tmax - thr0
           in == IntegInput(err, s)
           aw == AntiWindup(integ, lo, hi, in)
<1>1. s.tmin \in ThrottleFloor..TU /\ s.tmax \in 0..TU /\ s.airspeed \in BOOLEAN /\ s.climbout \in BOOLEAN
  BY InputFacts
<1>2. lo \in -ThrottleSpanMax..0 /\ hi \in 0..ThrottleSpanMax /\ thr0 \in Int
  BY <1>1 DEF ThrottleFloor, ThrottleSpanMax
<1>3. FSub(s.tmin, thr0) = lo /\ FSub(s.tmax, thr0) = hi
  BY <1>1, <1>2 DEF FSub, FAdd, FNeg
<1>4. in \in -IntegStepMax..IntegStepMax
  BY InputRange
<1>5. IntegStepMax \in Nat /\ integ \in Int /\ ThrottleSpanMax \in Nat
  BY SpanPositive DEF ThrottleSpanMax
<1>6. aw \in -IntegStepMax..IntegStepMax
      /\ (integ > hi => aw <= 0)
      /\ (integ < lo => aw >= 0)
  <2>1. lo \in Int /\ hi \in Int /\ in \in Int
    BY <1>2, <1>4, <1>5
  <2>2. CASE integ > hi
    <3>1. aw = IF 0 < in THEN 0 ELSE in
      BY <1>5, <2>1, <2>2, AntiWindupCases
    <3>2. QED
      BY <1>2, <1>4, <1>5, <2>2, <3>1
  <2>3. CASE integ <= hi /\ integ < lo
    <3>1. aw = IF 0 > in THEN 0 ELSE in
      BY <1>5, <2>1, <2>3, AntiWindupCases
    <3>2. QED
      BY <1>2, <1>4, <1>5, <2>3, <3>1
  <2>4. CASE integ <= hi /\ integ >= lo
    <3>1. aw = in
      BY <1>5, <2>1, <2>4, AntiWindupCases
    <3>2. QED
      BY <1>2, <1>4, <2>4, <3>1
  <2>5. QED
    BY <1>5, <2>1, <2>2, <2>3, <2>4
<1>7. integ + aw \in -(ThrottleSpanMax + IntegStepMax)..(ThrottleSpanMax + IntegStepMax)
  BY <1>2, <1>5, <1>6
<1>8. FAdd(integ, aw) = integ + aw
  BY <1>5, <1>6 DEF FAdd
<1>9. ThrottleSpanMax + IntegStepMax \in Nat
  BY <1>5 DEF ThrottleSpanMax
<1>10. CASE ~s.airspeed
  BY <1>10 DEF ThrottleInteg
<1>11. CASE s.airspeed /\ integrator_gain_throttle > 0 /\ s.climbout
  <2>1. ThrottleInteg(integ, err, thr0, s) = FSub(s.tmax, thr0)
    BY <1>11 DEF ThrottleInteg
  <2>2. QED
    BY <1>2, <1>3, <1>5, <1>9, <2>1
<1>12. CASE s.airspeed /\ integrator_gain_throttle > 0 /\ ~s.climbout
  <2>1. ThrottleInteg(integ, err, thr0, s) = FAdd(integ, aw)
    BY <1>3, <1>12 DEF ThrottleInteg
  <2>2. QED
    BY <1>7, <1>8, <2>1
<1>13. CASE s.airspeed /\ ~(integrator_gain_throttle > 0)
  BY <1>9, <1>13 DEF ThrottleInteg
<1>14. QED
  BY <1>1, <1>10, <1>11, <1>12, <1>13

\* Underspeed blending and the slew limit keep the throttle finite.
LEMMA BlendFinite ==
  ASSUME NEW thr \in Int, NEW last \in Int, NEW s \in LawInputs
  PROVE  SlewLimit(UnderspeedBlend(thr, s), last, s) \in Int
<1>1. s.pu \in Int /\ s.tmax \in Int /\ s.tmin \in Int /\ s.dt \in Int
  BY InputFacts
<1>2. UnderspeedBlend(thr, s) = (s.pu * s.tmax + (PU - s.pu) * thr) \div PU
  <2>1. FSub(PU, s.pu) = PU - s.pu
    BY <1>1 DEF FSub, FAdd, FNeg
  <2>2. FMul(s.pu, s.tmax) = s.pu * s.tmax /\ FMul(PU - s.pu, thr) = (PU - s.pu) * thr
    BY <1>1 DEF FMul
  <2>3. FAdd(s.pu * s.tmax, (PU - s.pu) * thr) = s.pu * s.tmax + (PU - s.pu) * thr
    BY <1>1 DEF FAdd
  <2>4. FDiv(s.pu * s.tmax + (PU - s.pu) * thr, PU) = (s.pu * s.tmax + (PU - s.pu) * thr) \div PU
    BY <1>1 DEF FDiv
  <2>5. QED
    BY <2>1, <2>2, <2>3, <2>4 DEF UnderspeedBlend
<1>3. UnderspeedBlend(thr, s) \in Int
  BY <1>1, <1>2
<1>4. SlewIncrement(s.dt, s.tmin, s.tmax) \in Int
  BY <1>1 DEF SlewIncrement
<1>5. /\ FSub(last, SlewIncrement(s.dt, s.tmin, s.tmax)) \in Int
      /\ FAdd(last, SlewIncrement(s.dt, s.tmin, s.tmax)) \in Int
  BY <1>4 DEF FSub, FAdd, FNeg
<1>6. QED
  BY <1>3, <1>5, ConstrainCases DEF SlewLimit

\* One call of the law keeps the law's state in its ranges.
LEMMA UpdateRange ==
  ASSUME NEW last \in ThrottleFloor..TU,
         NEW integ \in -(ThrottleSpanMax + IntegStepMax)..(ThrottleSpanMax + IntegStepMax),
         NEW filt \in -2 * STERateBound..2 * STERateBound,
         NEW s \in LawInputs
  PROVE  /\ ThrottleUpdate(last, integ, filt, s).last \in ThrottleFloor..TU
         /\ ThrottleUpdate(last, integ, filt, s).integ \in -(ThrottleSpanMax + IntegStepMax)..(ThrottleSpanMax + IntegStepMax)
         /\ ThrottleUpdate(last, integ, filt, s).STE_rate_error \in -2 * STERateBound..2 * STERateBound
<1> DEFINE err   == STERateError(filt, s)
           pred  == ThrottlePredicted(STERateSetpoint(s), s.tmin, s.tmax, s.trim)
           thr0  == ThrottleFeedback(err, pred, s)
           integ1 == ThrottleInteg(integ, err, thr0, s)
           thr1  == IF s.airspeed THEN FAdd(thr0, integ1) ELSE pred
           out   == Constrain(SlewLimit(UnderspeedBlend(thr1, s), last, s), s.tmin, s.tmax)
<1>1. err \in -2 * STERateBound..2 * STERateBound
  BY ErrorRange
<1>2. s.tmin \in ThrottleFloor..TU /\ s.tmax \in 0..TU /\ s.tmin <= s.tmax /\ s.trim \in Int
      /\ ThrottleFloor \in Int
  BY InputFacts DEF ThrottleFloor
<1>3. pred \in Int
  <2>1. STERateSetpoint(s) \in Int
    BY SetpointFinite
  <2>2. s.tmin \in Int /\ s.tmax \in Int
    BY <1>2
  <2>3. QED
    BY <1>2, <2>1, <2>2, PredictedFinite
<1>4. thr0 \in s.tmin..s.tmax
  BY <1>1, <1>3, FeedbackRange
<1>5. integ1 \in -(ThrottleSpanMax + IntegStepMax)..(ThrottleSpanMax + IntegStepMax)
  BY <1>1, <1>4, IntegRange
<1>6. thr1 \in Int
  <2>1. thr0 \in Int /\ integ1 \in Int
    BY <1>2, <1>4, <1>5, SpanPositive
  <2>2. FAdd(thr0, integ1) = thr0 + integ1
    BY <2>1 DEF FAdd
  <2>3. QED
    BY <1>3, <2>1, <2>2
<1>7. SlewLimit(UnderspeedBlend(thr1, s), last, s) \in Int
  BY <1>6, BlendFinite
<1>8. out \in ThrottleFloor..TU
  <2>1. out \in s.tmin..s.tmax
    <3>1. s.tmin \in Int /\ s.tmax \in Int
      BY <1>2
    <3>2. QED
      BY <1>2, <1>7, <3>1, ConstrainRange
  <2>2. QED
    BY <1>2, <2>1
<1>9. ThrottleUpdate(last, integ, filt, s) = [last |-> out, integ |-> integ1, STE_rate_error |-> err]
  BY DEF ThrottleUpdate
<1>10. QED
  BY <1>1, <1>5, <1>8, <1>9

-----------------------------------------------------------------------------
\* The inductive invariant: the type and the integrator bound together.
IInv == TypeOK /\ ThrottleIntegratorBounded

LEMMA InitIInv == Init => IInv
<1> SUFFICES ASSUME Init PROVE IInv
  OBVIOUS
<1>1. IntegStepMax \in Nat
  BY SpanPositive
<1>2. QED
  BY <1>1 DEF Init, IInv, TypeOK, ThrottleIntegratorBounded, ThrottleFloor, ThrottleSpanMax

LEMMA NextIInv == IInv /\ [Next]_vars => IInv'
<1> SUFFICES ASSUME IInv, [Next]_vars PROVE IInv'
  OBVIOUS
<1>1. CASE UNCHANGED vars
  BY <1>1 DEF IInv, TypeOK, ThrottleIntegratorBounded, vars
<1>2. ASSUME NEW in \in ThrottleInputs, Step(in) PROVE IInv'
  <2> DEFINE s      == LawInput(in)
             last0  == IF ResetStates(in) THEN in.trim ELSE last_throttle_setpoint
             integ0 == IF ResetStates(in) THEN 0 ELSE throttle_integ_state
             r      == ThrottleUpdate(last0, integ0, STEFilterAtInit, s)
  <2>1. s \in LawInputs
    BY LawInputType
  <2>2. /\ last0 \in ThrottleFloor..TU
        /\ integ0 \in -(ThrottleSpanMax + IntegStepMax)..(ThrottleSpanMax + IntegStepMax)
        /\ STEFilterAtInit \in -2 * STERateBound..2 * STERateBound
    <3>1. in.trim \in 0..TU /\ IntegStepMax \in Nat
      BY SpanPositive DEF ThrottleInputs
    <3>2. QED
      BY <3>1 DEF IInv, TypeOK, ThrottleIntegratorBounded, STEFilterAtInit,
                  ThrottleFloor, ThrottleSpanMax
  <2>3. /\ r.last \in ThrottleFloor..TU
        /\ r.integ \in -(ThrottleSpanMax + IntegStepMax)..(ThrottleSpanMax + IntegStepMax)
        /\ r.STE_rate_error \in -2 * STERateBound..2 * STERateBound
    BY <2>1, <2>2, UpdateRange
  <2>4. /\ s.tmin \in ThrottleMins \cup {hi - ClimboutThrottleMargin : hi \in ThrottleMaxs}
        /\ s.tmax \in ThrottleMaxs /\ s.dt \in DT_MIN..DT_MAX /\ s.airspeed \in BOOLEAN
    <3>1. s.tmax = in.tmax /\ s.airspeed = in.airspeed /\ s.tmin = InitThrottleMin(in)
          /\ s.dt = InitDt(in)
      BY DEF LawInput, ThrottleInputs
    <3>2. InitThrottleMin(in) \in ThrottleMins \cup {hi - ClimboutThrottleMargin : hi \in ThrottleMaxs}
      BY DEF InitThrottleMin, ThrottleInputs
    <3>3. QED
      BY <2>1, <3>1, <3>2, InputFacts DEF ThrottleInputs
  <2>5. QED
    BY <1>2, <2>3, <2>4 DEF Step, IInv, TypeOK, ThrottleIntegratorBounded
<1>3. QED
  BY <1>1, <1>2 DEF Next

\* The throttle law keeps its state well typed in every behaviour.
THEOREM TypeCorrect == Spec => []TypeOK
<1>1. IInv => TypeOK
  BY DEF IInv
<1>2. QED
  BY <1>1, InitIInv, NextIInv, PTL DEF Spec

\* The anti-windup of TECS.cpp 307-320 keeps the throttle integrator within
\* the throttle range plus one integrator step, however long the energy
\* error keeps its sign and however the host moves the throttle limits.
THEOREM IntegratorBounded == Spec => []ThrottleIntegratorBounded
<1>1. IInv => ThrottleIntegratorBounded
  BY DEF IInv
<1>2. QED
  BY <1>1, InitIInv, NextIInv, PTL DEF Spec
=============================================================================
