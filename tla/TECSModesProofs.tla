-------------------------- MODULE TECSModesProofs --------------------------
(***************************************************************************)
(* Proofs about the mode logic of TECSModes, for every value of the       *)
(* constants that ModesAssumption allows.                                  *)
(*                                                                         *)
(* Every member the mode logic writes is a function of the call's inputs  *)
(* and of the latch, so TypeOK needs no strengthening: each stage's        *)
(* result has its type whatever the previous call left.  The latch        *)
(* invariant holds of each call on its own, because the detector runs     *)
(* after the ramp of the same call.                                        *)
(***************************************************************************)
EXTENDS TECSModes, TECSFloatLemmas

USE ModesAssumption

\* The values of _percent_undersped.
PURange == (0..PU) \cup {NaN}

\* The fields of a call's inputs have the types of their sets.
InputOK(s) ==
         /\ s.reset \in BOOLEAN /\ s.climbout \in BOOLEAN
         /\ s.airspeed \in BOOLEAN /\ s.underspeed_enabled \in BOOLEAN
         /\ s.tas \in Float /\ s.tas_min \in Int /\ s.tas_max \in Int
         /\ s.tas_min <= s.tas_max
         /\ s.tas_sp \in Int /\ s.ste_error \in Int
         /\ s.spe_rate \in Int /\ s.ske_rate \in Int
         /\ s.last_throttle \in Int /\ s.tmax \in Int /\ s.psw \in Int
         /\ s.tas_min \in TASMins /\ s.tas_max \in TASMaxs
         /\ s.psw \in PitchSpeedWeights

LEMMA InputTypes ==
  ASSUME NEW s \in ModesInputs
  PROVE  InputOK(s)
BY DEF ModesInputs, InputOK

\* The ends of the underspeed ramp (_detect_underspeed) are finite, and
\* the start is at or above the end.
LEMMA RampEnds ==
  ASSUME NEW tas_min \in Int
  PROVE  LET full  == FMax(FSub(FSub(tas_min, TASErrorBound), TASErrorBound), 0)
             start == FMax(FSub(tas_min, TASErrorBound), full)
         IN  /\ full \in Int /\ start \in Int /\ full <= start
             /\ full = IF tas_min - 2 * TASErrorBound > 0
                       THEN tas_min - 2 * TASErrorBound ELSE 0
             /\ start = IF tas_min - TASErrorBound > full
                        THEN tas_min - TASErrorBound ELSE full
<1>1. FSub(tas_min, TASErrorBound) = tas_min - TASErrorBound
  BY FiniteArith
<1>2. FSub(tas_min - TASErrorBound, TASErrorBound) = tas_min - 2 * TASErrorBound
  <2>1. tas_min - TASErrorBound \in Int
    OBVIOUS
  <2>2. QED
    BY <2>1, FiniteArith
<1>3. FMax(tas_min - 2 * TASErrorBound, 0)
        = IF tas_min - 2 * TASErrorBound > 0 THEN tas_min - 2 * TASErrorBound ELSE 0
  <2>1. tas_min - 2 * TASErrorBound \in Int
    OBVIOUS
  <2>2. QED
    BY <2>1, FiniteCompare
<1> DEFINE full == IF tas_min - 2 * TASErrorBound > 0
                   THEN tas_min - 2 * TASErrorBound ELSE 0
<1>4. full \in Int
  OBVIOUS
<1>5. FMax(tas_min - TASErrorBound, full)
        = IF tas_min - TASErrorBound > full THEN tas_min - TASErrorBound ELSE full
  <2>1. tas_min - TASErrorBound \in Int
    OBVIOUS
  <2>2. QED
    BY <1>4, <2>1, FiniteCompare
<1>6. QED
  BY <1>1, <1>2, <1>3, <1>5
\* The quotient that _detect_underspeed constrains, before 1 - ... .
RampQuotient(tas, tas_min) ==
  LET full  == FMax(FSub(FSub(tas_min, TASErrorBound), TASErrorBound), 0)
      start == FMax(FSub(tas_min, TASErrorBound), full)
  IN  FDivGuarded(FMul(FSub(tas, full), PU), FSub(start, full))

\* _detect_underspeed is 1 - the constrained quotient.
LEMMA PercentUnderspedDef ==
  ASSUME NEW tas, NEW tas_min
  PROVE  PercentUndersped(TRUE, tas, tas_min)
           = FSub(PU, Constrain(RampQuotient(tas, tas_min), 0, PU))
BY DEF PercentUndersped, RampQuotient

\* The quotient of the ramp is a float.
LEMMA RampQuotientFloat ==
  ASSUME NEW tas \in Float, NEW tas_min \in Int
  PROVE  RampQuotient(tas, tas_min) \in Float
<1> DEFINE full  == FMax(FSub(FSub(tas_min, TASErrorBound), TASErrorBound), 0)
           start == FMax(FSub(tas_min, TASErrorBound), full)
<1>1. full \in Int /\ start \in Int
  BY RampEnds, Zenon
<1>2. FSub(tas, full) \in Float /\ FSub(start, full) \in Float
  BY <1>1, FloatClosed DEF Float
<1>3. FMul(FSub(tas, full), PU) \in Float
  <2>1. PU \in Float
    BY DEF Float
  <2>2. QED
    BY <1>2, <2>1, FloatClosed, Zenon
<1>4. FDivGuarded(FMul(FSub(tas, full), PU), FSub(start, full)) \in Float
  BY <1>2, <1>3, FloatClosed
<1>5. QED
  BY <1>4 DEF RampQuotient

\* _percent_undersped is within [0, PU], or NaN (a NaN airspeed).
LEMMA PercentUnderspedType ==
  ASSUME NEW en \in BOOLEAN, NEW tas \in Float, NEW tas_min \in Int
  PROVE  PercentUndersped(en, tas, tas_min) \in PURange
<1>1. CASE ~en
  BY <1>1 DEF PercentUndersped, PURange
<1>2. CASE en
  <2> DEFINE c == Constrain(RampQuotient(tas, tas_min), 0, PU)
  <2>1. PercentUndersped(en, tas, tas_min) = FSub(PU, c)
    BY <1>2, PercentUnderspedDef
  <2>2. c \in (0..PU) \cup {NaN}
    BY RampQuotientFloat, ConstrainFloat
  <2>3. CASE c \in 0..PU
    <3>1. FSub(PU, c) = PU - c
      BY <2>3, FiniteArith
    <3>2. QED
      BY <2>1, <2>3, <3>1 DEF PURange
  <2>4. CASE c = NaN
    BY <2>1, <2>4, NaNPropagates DEF FSub, PURange
  <2>5. QED
    BY <2>2, <2>3, <2>4
<1>3. QED
  BY <1>1, <1>2
\* A positive _percent_undersped is a finite value within (0, PU].
LEMMA PositiveUndersped ==
  ASSUME NEW pu \in PURange, FGt(pu, 0)
  PROVE  pu \in 1..PU
BY SpecialsAssumption DEF FGt, FLt, PURange

\* _update_speed_height_weights: the speed weight is finite.
LEMMA SpeedWeightInt ==
  ASSUME NEW pu \in PURange, NEW s, InputOK(s)
  PROVE  SpeedWeight(pu, s) \in Int
<1> DEFINE w == Constrain(s.psw, 0, 2 * WU)
<1>1. w \in 0..2 * WU
  <2>1. s.psw \in Int
    BY DEF InputOK
  <2>2. ASSUME NEW x \in Int PROVE Constrain(x, 0, 2 * WU) \in 0..2 * WU
    <3>1. 2 * WU \in Int /\ 0 <= 2 * WU
      OBVIOUS
    <3>2. QED
      BY <3>1, ConstrainRange
  <2>3. QED
    BY <2>1, <2>2
<1>2. ASSUME FGt(pu, 0)
      PROVE  FDiv(FAdd(FMul(2 * WU, pu), FMul(FSub(PU, pu), w)), PU) \in Int
  <2>1. pu \in 1..PU
    BY <1>2, PositiveUndersped
  <2>2. FMul(2 * WU, pu) = 2 * WU * pu /\ FSub(PU, pu) = PU - pu
    <3>1. 2 * WU \in Int /\ pu \in Int
      BY <2>1
    <3>2. FMul(2 * WU, pu) = 2 * WU * pu
      BY <3>1, FiniteArith
    <3>3. FSub(PU, pu) = PU - pu
      BY <3>1, FiniteArith
    <3>4. QED
      BY <3>2, <3>3
  <2>3. FMul(PU - pu, w) = (PU - pu) * w
    <3>1. PU - pu \in Int /\ w \in Int
      BY <1>1, <2>1
    <3>2. QED
      BY <3>1, FiniteArith
  <2>4. FAdd(2 * WU * pu, (PU - pu) * w) = 2 * WU * pu + (PU - pu) * w
    <3>1. 2 * WU * pu \in Int /\ (PU - pu) * w \in Int
      BY <1>1, <2>1
    <3>2. QED
      BY <3>1, FiniteArith
  <2>5. FDiv(2 * WU * pu + (PU - pu) * w, PU) \in Int
    <3>1. 2 * WU * pu + (PU - pu) * w \in Int
      BY <1>1, <2>1
    <3>2. QED
      BY <3>1, FiniteDiv
  <2>6. QED
    BY <2>2, <2>3, <2>4, <2>5
<1>3. QED
  BY <1>1, <1>2 DEF SpeedWeight

\* The weights published by _update_speed_height_weights lie in [0, 1].
LEMMA WeightingsRange ==
  ASSUME NEW w \in Int
  PROVE  SPEWeighting(w) \in 0..WU /\ SKEWeighting(w) \in 0..WU
<1>1. FSub(2 * WU, w) = 2 * WU - w
  BY FiniteArith
<1>2. Constrain(2 * WU - w, 0, WU) \in 0..WU
  BY ConstrainRange
<1>3. Constrain(w, 0, WU) \in 0..WU
  BY ConstrainRange
<1>4. QED
  BY <1>1, <1>2, <1>3 DEF SPEWeighting, SKEWeighting

\* _update_speed_setpoint: the adjusted setpoint lies in [_TAS_min, _TAS_max].
LEMMA TASSetpointAdjRange ==
  ASSUME NEW latch, NEW pu \in PURange, NEW s, InputOK(s)
  PROVE  TASSetpointAdj(latch, pu, s) \in s.tas_min..s.tas_max
<1> DEFINE sp == IF latch THEN s.tas_min
                 ELSE IF FGt(pu, 0)
                      THEN FDiv(FAdd(FMul(s.tas_min, pu), FMul(FSub(PU, pu), s.tas_sp)), PU)
                 ELSE s.tas_sp
<1>1. s.tas_min \in Int /\ s.tas_max \in Int /\ s.tas_min <= s.tas_max /\ s.tas_sp \in Int
  BY DEF InputOK
<1>2. ASSUME FGt(pu, 0)
      PROVE  FDiv(FAdd(FMul(s.tas_min, pu), FMul(FSub(PU, pu), s.tas_sp)), PU) \in Int
  <2>1. pu \in 1..PU
    BY <1>2, PositiveUndersped
  <2>2. FMul(s.tas_min, pu) = s.tas_min * pu /\ FSub(PU, pu) = PU - pu
    <3>1. \A x \in Int : FMul(x, pu) = x * pu
      BY <2>1, FiniteArith
    <3>2. FSub(PU, pu) = PU - pu
      BY <2>1, FiniteArith
    <3>3. QED
      BY <1>1, <3>1, <3>2
  <2>3. FMul(PU - pu, s.tas_sp) = (PU - pu) * s.tas_sp
    <3>1. PU - pu \in Int
      BY <2>1
    <3>2. QED
      BY <1>1, <3>1, FiniteArith
  <2>4. FAdd(s.tas_min * pu, (PU - pu) * s.tas_sp) = s.tas_min * pu + (PU - pu) * s.tas_sp
    <3>1. s.tas_min * pu \in Int /\ (PU - pu) * s.tas_sp \in Int
      BY <1>1, <2>1
    <3>2. QED
      BY <3>1, FiniteArith
  <2>5. FDiv(s.tas_min * pu + (PU - pu) * s.tas_sp, PU) \in Int
    <3>1. s.tas_min * pu + (PU - pu) * s.tas_sp \in Int
      BY <1>1, <2>1
    <3>2. QED
      BY <3>1, FiniteDiv
  <2>6. QED
    BY <2>2, <2>3, <2>4, <2>5
<1>3. sp \in Int
  BY <1>1, <1>2
<1>4. Constrain(sp, s.tas_min, s.tas_max) \in s.tas_min..s.tas_max
  <2>1. \A x, lo, hi \in Int : lo <= hi => Constrain(x, lo, hi) \in lo..hi
    BY ConstrainRange
  <2>2. QED
    BY <1>1, <1>3, <2>1
<1>5. Constrain(Constrain(sp, s.tas_min, s.tas_max), s.tas_min, s.tas_max)
        \in s.tas_min..s.tas_max
  <2>1. \A x, lo, hi \in Int : lo <= hi => Constrain(x, lo, hi) \in lo..hi
    BY ConstrainRange
  <2>2. Constrain(sp, s.tas_min, s.tas_max) \in Int
    BY <1>1, <1>4
  <2>3. QED
    BY <1>1, <2>1, <2>2
<1>6. QED
  BY <1>5 DEF TASSetpointAdj
\* math::constrain returns one of its arguments.
LEMMA ConstrainOneOf ==
  ASSUME NEW v, NEW lo, NEW hi
  PROVE  Constrain(v, lo, hi) \in {v, lo, hi}
BY DEF Constrain

\* The speed-rate demand of _update_speed_setpoint is a float: a NaN or
\* zero _tas_state makes its limits NaN or infinite, never something else.
LEMMA TASRateSetpointFloat ==
  ASSUME NEW adj \in Int, NEW s, InputOK(s)
  PROVE  TASRateSetpoint(adj, s) \in Float
<1> DEFINE tas == s.tas
           v   == FMul(FSub(adj, tas), airspeed_error_gain)
           two == FMul(2, tas)
           lo  == FDivGuarded(STE_rate_min, two)
           hi  == FDivGuarded(STE_rate_max, two)
<1>1. tas \in Float /\ adj \in Float /\ 2 \in Float /\ airspeed_error_gain \in Float
      /\ STE_rate_min \in Float /\ STE_rate_max \in Float
  BY DEF InputOK, Float, STE_rate_min, STE_rate_max
<1> HIDE DEF tas
<1>2. FSub(adj, tas) \in Float /\ two \in Float
  BY <1>1, FloatClosed, Zenon
<1>3. v \in Float
  BY <1>1, <1>2, FloatClosed, Zenon
<1>4. lo \in Float /\ hi \in Float
  BY <1>1, <1>2, FloatClosed, Zenon
<1> HIDE DEF v, lo, hi, two
<1>5. Constrain(v, lo, hi) \in Float
  BY <1>3, <1>4, ConstrainOneOf, Zenon
<1>6. 0 \in Float
  BY DEF Float
<1>7. QED
  BY <1>5, <1>6 DEF TASRateSetpoint, v, lo, hi, two, tas

\* _detect_uncommanded_descent neither enters nor keeps the latch while
\* _percent_undersped > 0: entry requires no underspeed, and an underspeed
\* is an exit condition.
LEMMA LatchExcludesUnderspeed ==
  ASSUME NEW latch \in BOOLEAN, NEW pu, NEW s
  PROVE  /\ UncommandedDescent(latch, pu, s) \in BOOLEAN
         /\ UncommandedDescent(latch, pu, s) => ~FGt(pu, 0)
BY DEF UncommandedDescent
-----------------------------------------------------------------------------
\* The invariant the proofs carry: the type and the latch invariant.
IInv == TypeOK /\ DescentExcludesUnderspeed

\* The constructor's state satisfies IInv.
LEMMA InitIInv == Init => IInv
<1> SUFFICES ASSUME Init PROVE IInv
  OBVIOUS
<1>1. percent_undersped \in (0..PU) \cup {NaN} /\ SPE_weighting \in 0..WU
      /\ SKE_weighting \in 0..WU /\ TAS_setpoint_adj \in Int
      /\ TAS_rate_setpoint \in Float /\ tas_state \in Float
  BY DEF Init, Float
<1>2. TypeOK
  BY <1>1, Zenon DEF Init, TypeOK, Modes
<1>3. QED
  BY <1>2, Zenon DEF Init, IInv, DescentExcludesUnderspeed

\* One update_pitch_throttle call establishes IInv whatever state it
\* starts from: every member it writes is a function of the call's inputs
\* and of the latch, and the latch is written after the ramp.
LEMMA StepIInv ==
  ASSUME TypeOK, NEW s \in ModesInputs, ModesStep(s)
  PROVE  IInv'
<1> DEFINE latch0 == LatchAtInit(uncommanded_descent_recovery, s)
           pu     == PercentUndersped(s.underspeed_enabled, s.tas, s.tas_min)
           w      == SpeedWeight(pu, s)
           latch1 == UncommandedDescent(latch0, pu, s)
           adj    == TASSetpointAdj(latch1, pu, s)
<1>1. InputOK(s)
  BY InputTypes
<1>2. /\ percent_undersped' = pu
      /\ SPE_weighting' = SPEWeighting(w) /\ SKE_weighting' = SKEWeighting(w)
      /\ uncommanded_descent_recovery' = latch1
      /\ TAS_setpoint_adj' = adj
      /\ TAS_rate_setpoint' = TASRateSetpoint(adj, s)
      /\ tecs_mode' = TECSMode(pu, latch1, s.climbout)
      /\ tas_state' = s.tas /\ TAS_min' = s.tas_min /\ TAS_max' = s.tas_max
      /\ climbout_mode_active' = s.climbout /\ airspeed_enabled' = s.airspeed
      /\ detect_underspeed_enabled' = s.underspeed_enabled
      /\ pitch_speed_weight' = s.psw
  BY DEF ModesStep
<1> HIDE DEF ModesInputs
<1>3. latch0 \in BOOLEAN
  BY <1>1 DEF LatchAtInit, TypeOK, InputOK
<1>4. pu \in PURange
  <2>1. s.underspeed_enabled \in BOOLEAN /\ s.tas \in Float /\ s.tas_min \in Int
    BY <1>1 DEF InputOK
  <2>2. QED
    BY <2>1, PercentUnderspedType
<1> HIDE DEF pu, latch0
<1>5. latch1 \in BOOLEAN /\ (latch1 => ~FGt(pu, 0))
  BY <1>3, LatchExcludesUnderspeed
<1>6. w \in Int
  BY <1>1, <1>4, SpeedWeightInt
<1> HIDE DEF w, latch1
<1>7. SPEWeighting(w) \in 0..WU /\ SKEWeighting(w) \in 0..WU
  BY <1>6, WeightingsRange
<1>8. adj \in Int
  <2>1. adj \in s.tas_min..s.tas_max
    BY <1>1, <1>4, TASSetpointAdjRange
  <2>2. QED
    BY <1>1, <2>1 DEF InputOK
<1> HIDE DEF adj
<1>9. TASRateSetpoint(adj, s) \in Float
  BY <1>1, <1>8, TASRateSetpointFloat
<1>10. TECSMode(pu, latch1, s.climbout) \in Modes
  BY DEF TECSMode, Modes
<1>11. percent_undersped' \in (0..PU) \cup {NaN}
  BY <1>2, <1>4 DEF PURange
<1>12. /\ tas_state' \in Float /\ TAS_min' \in TASMins /\ TAS_max' \in TASMaxs
       /\ climbout_mode_active' \in BOOLEAN /\ airspeed_enabled' \in BOOLEAN
       /\ detect_underspeed_enabled' \in BOOLEAN
       /\ pitch_speed_weight' \in PitchSpeedWeights
  BY <1>1, <1>2, Zenon DEF InputOK
<1>13. TypeOK'
  BY <1>2, <1>5, <1>7, <1>8, <1>9, <1>10, <1>11, <1>12, Zenon DEF TypeOK
<1>14. DescentExcludesUnderspeed'
  BY <1>2, <1>5 DEF DescentExcludesUnderspeed
<1>15. QED
  BY <1>13, <1>14 DEF IInv

\* Every step, and a stutter, keeps IInv.
LEMMA NextIInv == IInv /\ [Next]_vars => IInv'
<1> SUFFICES ASSUME IInv, [Next]_vars PROVE IInv'
  OBVIOUS
<1>1. CASE Next
  BY <1>1, StepIInv DEF Next, IInv
<1>2. CASE UNCHANGED vars
  BY <1>2 DEF vars, IInv, TypeOK, DescentExcludesUnderspeed
<1>3. QED
  BY <1>1, <1>2

\* Type correctness of the mode logic: after every call the ramp is in
\* [0, PU] or NaN, the weights in [0, 1], the speed setpoint an integer
\* (its range is TASSetpointWithinLimitsThm) and the published mode one
\* of the four.
THEOREM ModesTypeCorrect == Spec => []TypeOK
<1>1. Init => IInv
  BY InitIInv
<1>2. IInv /\ [Next]_vars => IInv'
  BY NextIInv
<1>3. IInv => TypeOK
  BY DEF IInv
<1>4. QED
  BY <1>1, <1>2, <1>3, PTL DEF Spec

\* The descent latch and the underspeed ramp exclude each other after
\* every call, for every value of the constants: _detect_uncommanded_descent
\* runs after _detect_underspeed of the same call (update_pitch_throttle)
\* and releases or refuses the latch while _percent_undersped > 0.
THEOREM DescentExcludesUnderspeedThm == Spec => []DescentExcludesUnderspeed
<1>1. Init => IInv
  BY InitIInv
<1>2. IInv /\ [Next]_vars => IInv'
  BY NextIInv
<1>3. IInv => DescentExcludesUnderspeed
  BY DEF IInv
<1>4. QED
  BY <1>1, <1>2, <1>3, PTL DEF Spec
-----------------------------------------------------------------------------
(***************************************************************************)
(* The underspeed ramp does not rise with the airspeed.  The quotient the *)
(* ramp constrains is ((tas - full) * PU) / (start - full) when the ramp  *)
(* has a width, and when it has none (a small _TAS_min, start = full = 0)  *)
(* the FLT_EPSILON guard makes it 0 or an infinity of the sign of          *)
(* tas - full.  Either way the constrained value rises with tas.           *)
(***************************************************************************)

\* The ends of the ramp, as integers.
RampFull(tas_min) ==
  IF tas_min - 2 * TASErrorBound > 0 THEN tas_min - 2 * TASErrorBound ELSE 0
RampStart(tas_min) ==
  IF tas_min - TASErrorBound > RampFull(tas_min)
  THEN tas_min - TASErrorBound ELSE RampFull(tas_min)

\* The constrained quotient of the ramp, before 1 - ... .
RampC(tas, tas_min) == Constrain(RampQuotient(tas, tas_min), 0, PU)

\* math::max(b, FLT_EPSILON) guarded division of finite values by a
\* non-negative divisor.
LEMMA DivGuardedFinite ==
  ASSUME NEW a \in Int, NEW d \in Nat
  PROVE  FDivGuarded(a, d) = IF d > 0 THEN a \div d
                             ELSE IF a = 0 THEN 0
                             ELSE IF a > 0 THEN PosInf ELSE NegInf
<1>1. FGt(d, 0) <=> d > 0
  BY SpecialsAssumption DEF FGt, FLt
<1>2. d > 0 => FDiv(a, d) = a \div d
  BY FiniteDiv
<1>3. a # NaN
  BY SpecialsAssumption
<1>4. a # 0 => InfOf(SignOf(a)) = IF a > 0 THEN PosInf ELSE NegInf
  BY SpecialsAssumption DEF InfOf, SignOf
<1>5. QED
  BY <1>1, <1>2, <1>3, <1>4 DEF FDivGuarded

\* The constrained quotient, for a finite airspeed.
LEMMA RampCValue ==
  ASSUME NEW tas \in Int, NEW tas_min \in Int
  PROVE  RampC(tas, tas_min) =
           IF RampStart(tas_min) - RampFull(tas_min) > 0
           THEN Constrain(((tas - RampFull(tas_min)) * PU)
                            \div (RampStart(tas_min) - RampFull(tas_min)), 0, PU)
           ELSE IF tas > RampFull(tas_min) THEN PU ELSE 0
<1> DEFINE full == RampFull(tas_min)
           start == RampStart(tas_min)
           a == (tas - full) * PU
           d == start - full
<1>1. full \in Int /\ start \in Int /\ d \in Nat /\ a \in Int
  BY DEF RampFull, RampStart
<1>2. RampQuotient(tas, tas_min) = FDivGuarded(FMul(FSub(tas, full), PU), FSub(start, full))
  <2>1. /\ FMax(FSub(FSub(tas_min, TASErrorBound), TASErrorBound), 0) = full
        /\ FMax(FSub(tas_min, TASErrorBound), full) = start
    BY RampEnds DEF RampFull, RampStart
  <2>2. QED
    BY <2>1 DEF RampQuotient
<1>3. FSub(tas, full) = tas - full /\ FSub(start, full) = d
  BY <1>1, FiniteArith
<1>4. FMul(tas - full, PU) = a
  <2>1. tas - full \in Int
    BY <1>1
  <2>2. QED
    BY <2>1, FiniteArith
<1>5. RampQuotient(tas, tas_min) = FDivGuarded(a, d)
  BY <1>2, <1>3, <1>4
<1> HIDE DEF a, d
<1>6. FDivGuarded(a, d) = IF d > 0 THEN a \div d
                          ELSE IF a = 0 THEN 0
                          ELSE IF a > 0 THEN PosInf ELSE NegInf
  BY <1>1, DivGuardedFinite
<1>7. /\ Constrain(0, 0, PU) = 0
      /\ Constrain(PosInf, 0, PU) = PU
      /\ Constrain(NegInf, 0, PU) = 0
  BY SpecialsAssumption DEF Constrain, FLt
<1>8. (a > 0 <=> tas > full) /\ (a = 0 <=> tas = full)
  BY <1>1, Z3 DEF a
<1>9. RampC(tas, tas_min) = Constrain(FDivGuarded(a, d), 0, PU)
  BY <1>5 DEF RampC
<1>10. CASE d > 0
  BY <1>6, <1>9, <1>10 DEF a, d
<1>11. CASE d = 0
  <2>1. RampC(tas, tas_min) = IF tas > full THEN PU ELSE 0
    BY <1>1, <1>6, <1>7, <1>8, <1>9, <1>11
  <2>2. QED
    BY <2>1, <1>11 DEF d
<1>12. QED
  BY <1>1, <1>10, <1>11
\* math::constrain of finite values is monotone in the constrained value.
LEMMA ConstrainMonotone ==
  ASSUME NEW x \in Int, NEW y \in Int, NEW lo \in Int, NEW hi \in Int,
         lo <= hi, x <= y
  PROVE  Constrain(x, lo, hi) <= Constrain(y, lo, hi)
<1>1. /\ (FLt(x, lo) <=> x < lo) /\ (FLt(hi, x) <=> hi < x)
      /\ (FLt(y, lo) <=> y < lo) /\ (FLt(hi, y) <=> hi < y)
  BY FiniteCompare
<1>2. QED
  BY <1>1 DEF Constrain

\* Rounded-down division by a positive divisor is monotone.
LEMMA DivMonotone ==
  ASSUME NEW a \in Int, NEW b \in Int, NEW d \in Nat \ {0}, a <= b
  PROVE  a \div d <= b \div d
BY Z3

\* The constrained quotient of the ramp lies in [0, PU] and rises with
\* the airspeed.
LEMMA RampCMonotone ==
  ASSUME NEW t1 \in Int, NEW t2 \in Int, NEW tas_min \in Int, t1 <= t2
  PROVE  /\ RampC(t1, tas_min) \in 0..PU /\ RampC(t2, tas_min) \in 0..PU
         /\ RampC(t1, tas_min) <= RampC(t2, tas_min)
<1> DEFINE full == RampFull(tas_min)
           d == RampStart(tas_min) - RampFull(tas_min)
<1>1. full \in Int /\ d \in Nat
  BY DEF RampFull, RampStart
<1>2. CASE d > 0
  <2> DEFINE q1 == ((t1 - full) * PU) \div d
             q2 == ((t2 - full) * PU) \div d
  <2>1. RampC(t1, tas_min) = Constrain(q1, 0, PU)
        /\ RampC(t2, tas_min) = Constrain(q2, 0, PU)
    BY <1>2, RampCValue
  <2>2. (t1 - full) * PU \in Int /\ (t2 - full) * PU \in Int
        /\ (t1 - full) * PU <= (t2 - full) * PU
    BY <1>1, Z3
  <2>3. q1 \in Int /\ q2 \in Int /\ q1 <= q2
    <3>1. d \in Nat \ {0}
      BY <1>1, <1>2
    <3>2. QED
      BY <2>2, <3>1, DivMonotone
  <2> HIDE DEF q1, q2
  <2>4. Constrain(q1, 0, PU) \in 0..PU /\ Constrain(q2, 0, PU) \in 0..PU
    BY <2>3, ConstrainRange
  <2>5. Constrain(q1, 0, PU) <= Constrain(q2, 0, PU)
    BY <2>3, ConstrainMonotone
  <2>6. QED
    BY <2>1, <2>4, <2>5
<1>3. CASE ~(d > 0)
  <2>1. RampC(t1, tas_min) = (IF t1 > full THEN PU ELSE 0)
        /\ RampC(t2, tas_min) = (IF t2 > full THEN PU ELSE 0)
    BY <1>3, RampCValue
  <2>2. QED
    BY <1>1, <2>1
<1>4. QED
  BY <1>2, <1>3

\* _detect_underspeed with a finite airspeed is 1 - the constrained
\* quotient, in integers.
LEMMA PercentUnderspedFinite ==
  ASSUME NEW t \in Int, NEW tas_min \in Int
  PROVE  /\ RampC(t, tas_min) \in 0..PU
         /\ PercentUndersped(TRUE, t, tas_min) = PU - RampC(t, tas_min)
<1>1. RampC(t, tas_min) \in 0..PU
  BY RampCMonotone
<1>2. FSub(PU, RampC(t, tas_min)) = PU - RampC(t, tas_min)
  BY <1>1, FiniteArith
<1>3. QED
  BY <1>1, <1>2, PercentUnderspedDef DEF RampC
\* One call with the ramp enabled, the same _TAS_min and a finite airspeed
\* no lower than the previous one reports no more underspeed than a call
\* at the previous airspeed.
LEMMA RampStep ==
  ASSUME TypeOK, [Next]_vars
  PROVE  [ /\ detect_underspeed_enabled'
           /\ TAS_min' = TAS_min
           /\ tas_state \in Int /\ tas_state' \in Int /\ tas_state <= tas_state'
           => FGeq(PercentUndersped(TRUE, tas_state, TAS_min), percent_undersped') ]_vars
<1>1. CASE UNCHANGED vars
  BY <1>1
<1>2. ASSUME NEW s \in ModesInputs, ModesStep(s)
      PROVE  /\ detect_underspeed_enabled'
             /\ TAS_min' = TAS_min
             /\ tas_state \in Int /\ tas_state' \in Int /\ tas_state <= tas_state'
             => FGeq(PercentUndersped(TRUE, tas_state, TAS_min), percent_undersped')
  <2> SUFFICES ASSUME detect_underspeed_enabled', TAS_min' = TAS_min,
                      tas_state \in Int, tas_state' \in Int, tas_state <= tas_state'
               PROVE  FGeq(PercentUndersped(TRUE, tas_state, TAS_min), percent_undersped')
    OBVIOUS
  <2>1. /\ percent_undersped' = PercentUndersped(s.underspeed_enabled, s.tas, s.tas_min)
        /\ detect_underspeed_enabled' = s.underspeed_enabled
        /\ TAS_min' = s.tas_min /\ tas_state' = s.tas
    BY <1>2 DEF ModesStep
  <2>2. percent_undersped' = PercentUndersped(TRUE, tas_state', TAS_min)
    BY <2>1
  <2>3. TAS_min \in Int
    BY DEF TypeOK
  <2> HIDE DEF ModesInputs
  <2>4. /\ PercentUndersped(TRUE, tas_state, TAS_min) = PU - RampC(tas_state, TAS_min)
        /\ PercentUndersped(TRUE, tas_state', TAS_min) = PU - RampC(tas_state', TAS_min)
    BY <2>3, PercentUnderspedFinite
  <2>5. /\ RampC(tas_state, TAS_min) \in 0..PU /\ RampC(tas_state', TAS_min) \in 0..PU
        /\ RampC(tas_state, TAS_min) <= RampC(tas_state', TAS_min)
    BY <2>3, RampCMonotone
  <2>6. /\ PU - RampC(tas_state, TAS_min) \in Int
        /\ PU - RampC(tas_state', TAS_min) \in Int
        /\ PU - RampC(tas_state, TAS_min) >= PU - RampC(tas_state', TAS_min)
    BY <2>5
  <2> HIDE DEF RampC
  <2>7. \A a, b \in Int : FGeq(a, b) <=> a >= b
    BY FiniteCompare
  <2>8. QED
    BY <2>2, <2>4, <2>6, <2>7
<1>3. QED
  BY <1>1, <1>2 DEF Next

\* Spec 8, for every value of the constants: _percent_undersped does not
\* increase with _tas_state (_detect_underspeed).  The proof rests on the
\* ramp quotient rising with the airspeed, through the FLT_EPSILON guard
\* when the ramp has no width.
THEOREM UnderspeedRampMonotoneThm == Spec => UnderspeedRampMonotone
<1>1. TypeOK /\ [Next]_vars =>
        [ /\ detect_underspeed_enabled'
          /\ TAS_min' = TAS_min
          /\ tas_state \in Int /\ tas_state' \in Int /\ tas_state <= tas_state'
          => FGeq(PercentUndersped(TRUE, tas_state, TAS_min), percent_undersped') ]_vars
  BY RampStep
<1>2. QED
  BY <1>1, ModesTypeCorrect, PTL DEF Spec, UnderspeedRampMonotone

\* A call publishes a speed setpoint within its own airspeed limits: the
\* double constrain of _update_speed_setpoint, from the blend of the
\* underspeed ramp, the latch's _TAS_min or the host's setpoint.
LEMMA StepSetpoint ==
  ASSUME NEW s \in ModesInputs, ModesStep(s)
  PROVE  TAS_setpoint_adj' \in TAS_min'..TAS_max'
<1> DEFINE latch0 == LatchAtInit(uncommanded_descent_recovery, s)
           pu     == PercentUndersped(s.underspeed_enabled, s.tas, s.tas_min)
           latch1 == UncommandedDescent(latch0, pu, s)
<1>1. InputOK(s)
  BY InputTypes
<1>2. /\ TAS_setpoint_adj' = TASSetpointAdj(latch1, pu, s)
      /\ TAS_min' = s.tas_min /\ TAS_max' = s.tas_max
  BY DEF ModesStep
<1> HIDE DEF ModesInputs
<1>3. pu \in PURange
  <2>1. s.underspeed_enabled \in BOOLEAN /\ s.tas \in Float /\ s.tas_min \in Int
    BY <1>1 DEF InputOK
  <2>2. QED
    BY <2>1, PercentUnderspedType
<1> HIDE DEF pu, latch1
<1>4. TASSetpointAdj(latch1, pu, s) \in s.tas_min..s.tas_max
  BY <1>1, <1>3, TASSetpointAdjRange
<1>5. QED
  BY <1>2, <1>4

\* For every value of the constants, every update_pitch_throttle call
\* publishes a _TAS_setpoint_adj within that call's [_TAS_min, _TAS_max]
\* (_update_speed_setpoint, 151-174), NaN airspeed and a zero-width
\* underspeed ramp included.
THEOREM TASSetpointWithinLimitsThm == Spec => TASSetpointWithinLimits
<1>1. [Next]_vars => [TAS_setpoint_adj' \in TAS_min'..TAS_max']_vars
  <2>1. ASSUME NEW s \in ModesInputs, ModesStep(s)
        PROVE  TAS_setpoint_adj' \in TAS_min'..TAS_max'
    BY <2>1, StepSetpoint
  <2>2. QED
    BY <2>1 DEF Next
<1>2. QED
  BY <1>1, PTL DEF Spec, TASSetpointWithinLimits
=============================================================================
