-------------------------- MODULE TECSSpeedProofs --------------------------
(***************************************************************************)
(* Proofs about the airspeed estimate of TECSSpeed, for every value of    *)
(* the constants that SpeedAssumption allows.                              *)
(*                                                                         *)
(* TypeOK is not inductive: a finite estimate with a NaN rate state would *)
(* make the next estimate NaN, which TypeOK allows, but one with an       *)
(* infinite rate state would make it infinite.  IInv adds what the filter *)
(* keeps: the estimate and its rate state are both numbers or both NaN,   *)
(* and the stored _EAS is a non-negative number or NaN.                   *)
(***************************************************************************)
EXTENDS TECSSpeed, TECSFloatLemmas

USE SpeedAssumption

IInv ==
  /\ TypeOK
  /\ EAS \in Nat \cup {NaN}
  /\ \/ tas_state \in Nat /\ tas_rate_state \in Int
     \/ tas_state = NaN /\ tas_rate_state = NaN

-----------------------------------------------------------------------------
\* eas_to_tas of a non-negative airspeed is a non-negative number, and of
\* NaN is NaN.
LEMMA ToTASType ==
  ASSUME NEW x \in Nat \cup {NaN}
  PROVE  /\ x \in Nat => ToTAS(x) \in Nat
         /\ x = NaN => ToTAS(x) = NaN
<1>1. ASSUME x \in Nat PROVE ToTAS(x) \in Nat
  <2>1. x * E2T \in Nat /\ E2T_UNIT \in Int /\ E2T_UNIT # 0
    BY <1>1
  <2>2. FMul(x, E2T) = x * E2T
    <3>1. x \in Int /\ E2T \in Int
      BY <1>1
    <3>2. QED
      BY <3>1, FiniteArith
  <2>3. FDiv(x * E2T, E2T_UNIT) = (x * E2T) \div E2T_UNIT
    BY <2>1 DEF FDiv
  <2>4. (x * E2T) \div E2T_UNIT \in Nat
    BY <2>1
  <2>5. QED
    BY <2>2, <2>3, <2>4 DEF ToTAS
<1>2. ASSUME x = NaN PROVE ToTAS(x) = NaN
  BY <1>2, NaNPropagates DEF ToTAS
<1>3. QED
  BY <1>1, <1>2

\* The airspeed _update_speed_states uses is a non-negative number.
LEMMA EASUsedNat ==
  ASSUME NEW eas \in Nat \cup {NaN}
  PROVE  EASUsed(eas) \in Nat
BY SpecialsAssumption DEF EASUsed, IsFinite

\* The TAS-rate filter keeps a finite state finite.
LEMMA AlphaInt ==
  ASSUME NEW s \in Int, NEW a \in Int
  PROVE  AlphaUpdate(s, a) \in Int
<1>1. FSub(a, s) = a - s /\ a - s \in Int
  BY FiniteArith
<1>2. FMul(a - s, DT_DEFAULT) = (a - s) * DT_DEFAULT /\ (a - s) * DT_DEFAULT \in Int
  BY FiniteArith
<1>3. speed_derivative_time_const + DT_DEFAULT \in Int \ {0}
  OBVIOUS
<1>4. FDiv((a - s) * DT_DEFAULT, speed_derivative_time_const + DT_DEFAULT)
        \in Int
  BY <1>2, <1>3, FiniteDiv
<1> DEFINE q == FDiv(FMul(FSub(a, s), DT_DEFAULT),
                    speed_derivative_time_const + DT_DEFAULT)
<1>5. q \in Int
  BY <1>1, <1>2, <1>4
<1>6. FAdd(s, q) \in Int
  BY <1>5 DEF FAdd
<1>7. QED
  BY <1>6 DEF AlphaUpdate

\* The constrained time step is a positive number of ticks.
LEMMA DtRange ==
  ASSUME NEW dt \in DTs
  PROVE  Constrain(dt, DT_MIN, DT_MAX) \in Nat \ {0}
<1>1. dt \in Int /\ DT_MIN \in Int /\ DT_MAX \in Int /\ DT_MIN <= DT_MAX
  OBVIOUS
<1>2. Constrain(dt, DT_MIN, DT_MAX) \in DT_MIN..DT_MAX
  BY <1>1, ConstrainRange
<1>3. QED
  BY <1>2
\* The divisors of the filter are positive.
LEMMA FilterDivisors ==
  /\ FREQ_UNIT * FREQ_UNIT \in Nat \ {0}
  /\ FREQ_UNIT * SQRT2_DEN \in Nat \ {0}
  /\ tas_estimate_freq * tas_estimate_freq \in Nat
  /\ tas_estimate_freq * SQRT2_NUM \in Nat
BY Z3

\* The float operators of finite values are finite.
LEMMA FiniteClosed ==
  ASSUME NEW x \in Int, NEW y \in Int
  PROVE  /\ FAdd(x, y) \in Int /\ FSub(x, y) \in Int /\ FMul(x, y) \in Int
         /\ FNeg(x) \in Int
<1>1. FAdd(x, y) = x + y /\ FSub(x, y) = x - y /\ FMul(x, y) = x * y
        /\ FNeg(x) = -x
  BY FiniteArith
<1>2. QED
  BY <1>1

\* Division of a finite value by a positive one is finite.
LEMMA FiniteDivClosed ==
  ASSUME NEW x \in Int, NEW d \in Nat \ {0}
  PROVE  FDiv(x, d) \in Int
<1>1. FDiv(x, d) = x \div d
  BY FiniteDiv
<1>2. QED
  BY <1>1

\* One step of _update_speed_states from a finite estimate, rate state
\* and measurement leaves a non-negative estimate and a finite rate state:
\* the clip at zero (134-139) catches every negative result.
LEMMA FilterFinite ==
  ASSUME NEW tas \in Nat, NEW rate \in Int, NEW meas \in Nat,
         NEW raw \in Int, NEW dt \in Nat \ {0}
  PROVE  /\ TASFilter(tas, rate, meas, raw, dt).tas \in Nat
         /\ TASFilter(tas, rate, meas, raw, dt).rate \in Int
<1> DEFINE innov   == FSub(meas, tas)
           rate_in == FDiv(FMul(innov, tas_estimate_freq * tas_estimate_freq),
                           FREQ_UNIT * FREQ_UNIT)
           rate1   == FAdd(rate, FDiv(FMul(rate_in, dt), DT_UNIT))
           damp    == FDiv(FMul(innov, tas_estimate_freq * SQRT2_NUM),
                           FREQ_UNIT * SQRT2_DEN)
           tas_in  == FAdd(FAdd(rate1, raw), damp)
           new     == FAdd(tas, FDiv(FMul(tas_in, dt), DT_UNIT))
           back    == FDiv(FMul(FNeg(tas), DT_UNIT), dt)
           fixed   == FSub(FSub(back, raw), damp)
<1>1. TASFilter(tas, rate, meas, raw, dt) =
        IF FLt(new, 0) THEN [tas |-> 0, rate |-> fixed]
        ELSE [tas |-> new, rate |-> rate1]
  BY DEF TASFilter
<1> HIDE DEF fixed
<1>2. innov \in Int
  BY FiniteClosed
<1> HIDE DEF innov
<1>3. rate_in \in Int /\ damp \in Int
  <2>1. FMul(innov, tas_estimate_freq * tas_estimate_freq) \in Int
          /\ FMul(innov, tas_estimate_freq * SQRT2_NUM) \in Int
    BY <1>2, FilterDivisors, FiniteClosed
  <2>2. QED
    BY <2>1, FilterDivisors, FiniteDivClosed
<1> HIDE DEF rate_in, damp
<1>4. rate1 \in Int
  <2>1. FMul(rate_in, dt) \in Int
    BY <1>3, FiniteClosed
  <2>2. FDiv(FMul(rate_in, dt), DT_UNIT) \in Int
    BY <2>1, FiniteDivClosed
  <2>3. QED
    BY <2>2, FiniteClosed
<1> HIDE DEF rate1
<1>5. tas_in \in Int
  <2>1. FAdd(rate1, raw) \in Int
    BY <1>4, FiniteClosed
  <2>2. QED
    BY <2>1, <1>3, FiniteClosed
<1> HIDE DEF tas_in
<1>6. new \in Int
  <2>1. FMul(tas_in, dt) \in Int
    BY <1>5, FiniteClosed
  <2>2. FDiv(FMul(tas_in, dt), DT_UNIT) \in Int
    BY <2>1, FiniteDivClosed
  <2>3. QED
    BY <2>2, FiniteClosed
<1>7. back \in Int
  <2>1. FNeg(tas) \in Int
    BY FiniteClosed
  <2>2. FMul(FNeg(tas), DT_UNIT) \in Int
    BY <2>1, FiniteClosed
  <2>3. QED
    BY <2>2, FiniteDivClosed
<1>8. fixed \in Int
  <2>1. FSub(back, raw) \in Int
    BY <1>7, FiniteClosed
  <2>2. QED
    BY <2>1, <1>3, FiniteClosed DEF fixed
<1> HIDE DEF new, back
<1>9. FLt(new, 0) <=> new < 0
  BY <1>6, SpecialsAssumption DEF FLt
<1>10. QED
  BY <1>1, <1>4, <1>6, <1>8, <1>9

\* From a NaN estimate the filter step gives a NaN estimate and a NaN rate
\* state, whatever the rate state and the measurement: the innovation is
\* NaN (126) and every later term with it.
LEMMA FilterNaN ==
  ASSUME NEW rate, NEW meas, NEW raw, NEW dt
  PROVE  /\ TASFilter(NaN, rate, meas, raw, dt).tas = NaN
         /\ TASFilter(NaN, rate, meas, raw, dt).rate = NaN
<1> DEFINE innov   == FSub(meas, NaN)
           rate_in == FDiv(FMul(innov, tas_estimate_freq * tas_estimate_freq),
                           FREQ_UNIT * FREQ_UNIT)
           rate1   == FAdd(rate, FDiv(FMul(rate_in, dt), DT_UNIT))
           damp    == FDiv(FMul(innov, tas_estimate_freq * SQRT2_NUM),
                           FREQ_UNIT * SQRT2_DEN)
           tas_in  == FAdd(FAdd(rate1, raw), damp)
           new     == FAdd(NaN, FDiv(FMul(tas_in, dt), DT_UNIT))
<1>1. innov = NaN
  BY NaNPropagates DEF FSub
<1>2. rate_in = NaN /\ damp = NaN
  BY <1>1, NaNPropagates
<1>3. rate1 = NaN
  BY <1>2, NaNPropagates
<1>4. new = NaN
  BY NaNPropagates
<1>5. ~FLt(new, 0)
  BY <1>4, NaNPropagates
<1>6. TASFilter(NaN, rate, meas, raw, dt) = [tas |-> new, rate |-> rate1]
  BY <1>5 DEF TASFilter
<1>7. QED
  BY <1>3, <1>4, <1>6
-----------------------------------------------------------------------------
\* The constructor's state satisfies IInv.
LEMMA InitIInv == Init => IInv
<1> SUFFICES ASSUME Init PROVE IInv
  OBVIOUS
<1>1. TypeOK
  <2>1. EAS \in Float /\ tas_state \in Nat \cup {NaN} /\ tas_rate_state \in Float
    BY DEF Init, Float
  <2>2. tas_rate_raw \in Int /\ tas_rate_filtered \in Int /\ TAS_rate_filter \in Int
    BY DEF Init
  <2>3. QED
    BY <2>1, <2>2, Zenon DEF Init, TypeOK
<1>2. QED
  BY <1>1 DEF Init, IInv

\* update_vehicle_state_estimates keeps IInv: it stores a raw airspeed
\* that is a number or NaN, and filters only finite accelerations.
LEMMA VehicleIInv ==
  ASSUME IInv, NEW eas \in RawEASs, NEW a \in Accels, NEW lock \in BOOLEAN,
         NEW dt \in DTs, VehicleUpdate(eas, a, lock, dt)
  PROVE  IInv'
<1> DEFINE use == IsFinite(eas) /\ airspeed_enabled
<1>1. TAS_rate_filter' = IF use THEN AlphaUpdate(TAS_rate_filter, a)
                         ELSE TAS_rate_filter
  BY DEF VehicleUpdate
<1>2. TAS_rate_filter \in Int /\ a \in Int
  BY DEF IInv, TypeOK
<1>3. AlphaUpdate(TAS_rate_filter, a) \in Int
  BY <1>2, AlphaInt
<1>4. TAS_rate_filter' \in Int
  BY <1>1, <1>3, <1>2
<1>5. tas_rate_raw' \in Int /\ tas_rate_filtered' \in Int
  BY <1>2, <1>4 DEF VehicleUpdate
<1>6. EAS' \in Nat \cup {NaN}
  BY DEF VehicleUpdate
<1> HIDE DEF use
<1>7. UNCHANGED <<tas_state, tas_rate_state, airspeed_enabled,
                  speed_update_first, pitch_update_first>>
        /\ state_update_first' = FALSE /\ states_initialized' \in BOOLEAN
  BY DEF VehicleUpdate
<1>8. TypeOK'
  <2>1. EAS' \in Float /\ tas_state' \in Nat \cup {NaN} /\ tas_rate_state' \in Float
    BY <1>6, <1>7 DEF IInv, TypeOK, Float
  <2>2. /\ states_initialized' \in BOOLEAN /\ airspeed_enabled' \in BOOLEAN
        /\ state_update_first' \in BOOLEAN /\ speed_update_first' \in BOOLEAN
        /\ pitch_update_first' \in BOOLEAN
    BY <1>7, Zenon DEF IInv, TypeOK
  <2>3. QED
    BY <1>4, <1>5, <2>1, <2>2, Zenon DEF TypeOK
<1>9. QED
  BY <1>6, <1>7, <1>8 DEF IInv
\* update_pitch_throttle keeps IInv: the airspeed it stores is a number;
\* the estimate it filters from is a number with a finite rate state, or
\* NaN (a reset to a NaN _EAS, 510); the filter keeps the first a number
\* and the second NaN.
LEMMA ControllerIInv ==
  ASSUME IInv, NEW eas \in EASs, NEW dt \in DTs, ControllerStep(eas, dt)
  PROVE  IInv'
<1> DEFINE reset  == SpeedReset(dt)
           eas1   == EASUsed(eas)
           tas0   == IF reset THEN ToTAS(EAS) ELSE tas_state
           rate0  == IF reset THEN 0 ELSE tas_rate_state
           tas1   == IF speed_update_first THEN ToTAS(eas1) ELSE tas0
           rate1  == IF speed_update_first THEN 0 ELSE rate0
           dtc    == Constrain(dt, DT_MIN, DT_MAX)
           r      == TASFilter(tas1, rate1, ToTAS(eas1), tas_rate_raw, dtc)
<1>1. /\ EAS' = eas1 /\ tas_state' = r.tas /\ tas_rate_state' = r.rate
      /\ TAS_rate_filter' = 0 /\ states_initialized' = TRUE
      /\ pitch_update_first' = FALSE /\ speed_update_first' = FALSE
      /\ UNCHANGED <<tas_rate_raw, tas_rate_filtered, airspeed_enabled,
                     state_update_first>>
  BY DEF ControllerStep
<1>2. eas1 \in Nat
  BY EASUsedNat
<1>3. ToTAS(eas1) \in Nat
  BY <1>2, ToTASType
<1>4. ToTAS(EAS) \in Nat \/ ToTAS(EAS) = NaN
  <2>1. EAS \in Nat \cup {NaN}
    BY DEF IInv
  <2>2. QED
    BY <2>1, ToTASType
<1> HIDE DEF eas1
<1>5. (tas1 \in Nat /\ rate1 \in Int) \/ tas1 = NaN
  <2>1. (tas0 \in Nat /\ rate0 \in Int) \/ tas0 = NaN
    BY <1>4 DEF IInv
  <2>2. QED
    BY <2>1, <1>3
<1>6. dtc \in Nat \ {0}
  BY DtRange
<1>7. tas_rate_raw \in Int
  BY DEF IInv, TypeOK
<1> HIDE DEF tas0, rate0, tas1, rate1, dtc
<1>8. (r.tas \in Nat /\ r.rate \in Int) \/ (r.tas = NaN /\ r.rate = NaN)
  <2>1. CASE tas1 \in Nat /\ rate1 \in Int
    BY <2>1, <1>3, <1>6, <1>7, FilterFinite
  <2>2. CASE tas1 = NaN
    BY <2>2, FilterNaN
  <2>3. QED
    BY <1>5, <2>1, <2>2
<1> HIDE DEF r
<1>9. TypeOK'
  <2>1. EAS' \in Float /\ tas_state' \in Nat \cup {NaN} /\ tas_rate_state' \in Float
    BY <1>1, <1>2, <1>8 DEF Float
  <2>2. tas_rate_raw' \in Int /\ tas_rate_filtered' \in Int /\ TAS_rate_filter' \in Int
    BY <1>1 DEF IInv, TypeOK
  <2>3. /\ states_initialized' \in BOOLEAN /\ airspeed_enabled' \in BOOLEAN
        /\ state_update_first' \in BOOLEAN /\ speed_update_first' \in BOOLEAN
        /\ pitch_update_first' \in BOOLEAN
    BY <1>1, Zenon DEF IInv, TypeOK
  <2>4. QED
    BY <2>1, <2>2, <2>3, Zenon DEF TypeOK
<1>10. QED
  BY <1>1, <1>2, <1>8, <1>9 DEF IInv
\* Switching the airspeed sensor keeps IInv.
LEMMA SwitchIInv ==
  ASSUME IInv, NEW b \in BOOLEAN, SetAirspeedEnabled(b)
  PROVE  IInv'
<1>1. TypeOK'
  <2>1. EAS' \in Float /\ tas_state' \in Nat \cup {NaN} /\ tas_rate_state' \in Float
        /\ tas_rate_raw' \in Int /\ tas_rate_filtered' \in Int /\ TAS_rate_filter' \in Int
    BY DEF SetAirspeedEnabled, IInv, TypeOK
  <2>2. /\ states_initialized' \in BOOLEAN /\ airspeed_enabled' \in BOOLEAN
        /\ state_update_first' \in BOOLEAN /\ speed_update_first' \in BOOLEAN
        /\ pitch_update_first' \in BOOLEAN
    BY Zenon DEF SetAirspeedEnabled, IInv, TypeOK
  <2>3. QED
    BY <2>1, <2>2, Zenon DEF TypeOK
<1>2. QED
  BY <1>1 DEF SetAirspeedEnabled, IInv

\* Every step of the host, and a stutter, keeps IInv.
LEMMA NextIInv == IInv /\ [Next]_vars => IInv'
<1> SUFFICES ASSUME IInv, [Next]_vars PROVE IInv'
  OBVIOUS
<1>1. CASE \E eas \in RawEASs, a \in Accels, lock \in BOOLEAN, dt \in DTs :
             VehicleUpdate(eas, a, lock, dt)
  BY <1>1, VehicleIInv
<1>2. CASE \E eas \in EASs, dt \in DTs : ControllerStep(eas, dt)
  BY <1>2, ControllerIInv
<1>3. CASE \E b \in BOOLEAN : SetAirspeedEnabled(b)
  BY <1>3, SwitchIInv
<1>4. CASE UNCHANGED vars
  <2>1. TypeOK'
    BY <1>4, Zenon DEF vars, IInv, TypeOK
  <2>2. QED
    BY <1>4, <2>1 DEF vars, IInv
<1>5. QED
  BY <1>1, <1>2, <1>3, <1>4 DEF Next

\* Type correctness of the airspeed estimate (spec 3): in every state
\* _tas_state is a non-negative number or NaN, for every value of the
\* constants and every input, NaN airspeed included.
THEOREM SpeedTypeCorrect == Spec => []TypeOK
<1>1. Init => IInv
  BY InitIInv
<1>2. IInv /\ [Next]_vars => IInv'
  BY NextIInv
<1>3. IInv => TypeOK
  BY DEF IInv
<1>4. QED
  BY <1>1, <1>2, <1>3, PTL DEF Spec
-----------------------------------------------------------------------------
(***************************************************************************)
(* When update_vehicle_state_estimates is never given a NaN airspeed, the *)
(* estimate stays a number.  FInv strengthens IInv by a finite stored     *)
(* _EAS (what a reset at 510 reads) and a finite estimate.                *)
(***************************************************************************)
FInv == IInv /\ EAS \in Nat /\ tas_state \in Nat

\* A vehicle update with a finite airspeed keeps FInv.
LEMMA VehicleFInv ==
  ASSUME RawEASs \subseteq Nat, FInv, NEW eas \in RawEASs, NEW a \in Accels,
         NEW lock \in BOOLEAN, NEW dt \in DTs, VehicleUpdate(eas, a, lock, dt)
  PROVE  FInv'
<1>1. IInv'
  BY VehicleIInv DEF FInv
<1>2. EAS' \in Nat /\ tas_state' \in Nat
  BY DEF VehicleUpdate, FInv
<1>3. QED
  BY <1>1, <1>2 DEF FInv

\* A controller step from a finite _EAS and estimate leaves a finite
\* estimate: a reset re-seeds it from _EAS, and the filter clips it at zero.
LEMMA ControllerFInv ==
  ASSUME FInv, NEW eas \in EASs, NEW dt \in DTs, ControllerStep(eas, dt)
  PROVE  FInv'
<1> DEFINE reset  == SpeedReset(dt)
           eas1   == EASUsed(eas)
           tas0   == IF reset THEN ToTAS(EAS) ELSE tas_state
           rate0  == IF reset THEN 0 ELSE tas_rate_state
           tas1   == IF speed_update_first THEN ToTAS(eas1) ELSE tas0
           rate1  == IF speed_update_first THEN 0 ELSE rate0
           dtc    == Constrain(dt, DT_MIN, DT_MAX)
           r      == TASFilter(tas1, rate1, ToTAS(eas1), tas_rate_raw, dtc)
<1>1. EAS' = eas1 /\ tas_state' = r.tas
  BY DEF ControllerStep
<1>2. IInv'
  BY ControllerIInv DEF FInv
<1>3. eas1 \in Nat
  BY EASUsedNat
<1>4. ToTAS(eas1) \in Nat /\ ToTAS(EAS) \in Nat
  BY <1>3, ToTASType DEF FInv
<1>5. tas_state \in Nat /\ tas_rate_state \in Int
  BY SpecialsAssumption DEF FInv, IInv
<1> HIDE DEF eas1
<1>6. tas1 \in Nat /\ rate1 \in Int
  BY <1>4, <1>5
<1>7. dtc \in Nat \ {0} /\ tas_rate_raw \in Int
  BY DtRange DEF FInv, IInv, TypeOK
<1> HIDE DEF tas0, rate0, tas1, rate1, dtc
<1>8. r.tas \in Nat
  BY <1>4, <1>6, <1>7, FilterFinite
<1> HIDE DEF r
<1>9. QED
  BY <1>1, <1>2, <1>3, <1>8 DEF FInv

\* Switching the airspeed sensor keeps FInv.
LEMMA SwitchFInv ==
  ASSUME FInv, NEW b \in BOOLEAN, SetAirspeedEnabled(b)
  PROVE  FInv'
BY SwitchIInv DEF SetAirspeedEnabled, FInv

\* Spec 3 and 7(2), for every value of the constants: as long as
\* update_vehicle_state_estimates is never given a NaN airspeed, the
\* airspeed estimate of _update_speed_states is a number and never
\* negative.  The run speed_nan_reset shows the hypothesis is needed.
THEOREM TASNonNegativeFinite ==
  ASSUME RawEASs \subseteq Nat
  PROVE  Spec => []TASNonNegative
<1>1. Init => FInv
  BY InitIInv DEF Init, FInv
<1>2. FInv /\ [Next]_vars => FInv'
  <2> SUFFICES ASSUME FInv, [Next]_vars PROVE FInv'
    OBVIOUS
  <2>1. CASE \E eas \in RawEASs, a \in Accels, lock \in BOOLEAN, dt \in DTs :
               VehicleUpdate(eas, a, lock, dt)
    BY <2>1, VehicleFInv
  <2>2. CASE \E eas \in EASs, dt \in DTs : ControllerStep(eas, dt)
    BY <2>2, ControllerFInv
  <2>3. CASE \E b \in BOOLEAN : SetAirspeedEnabled(b)
    BY <2>3, SwitchFInv
  <2>4. CASE UNCHANGED vars
    BY <2>4, NextIInv DEF vars, FInv
  <2>5. QED
    BY <2>1, <2>2, <2>3, <2>4 DEF Next
<1>3. FInv => TASNonNegative
  BY DEF FInv, TASNonNegative, IsFinite
<1>4. QED
  BY <1>1, <1>2, <1>3, PTL DEF Spec
-----------------------------------------------------------------------------
(***************************************************************************)
(* Refinement: TECSSpeed implements the NaN abstraction TECSSpeedNaN      *)
(* under the mapping of NaNView.  A vehicle update is a Store step, a     *)
(* controller step a Filter step with reset = SpeedReset(dt), and a       *)
(* sensor switch a stutter.  The filter step keeps a number a number and  *)
(* NaN NaN (FilterFinite, FilterNaN), so the estimate after the step is   *)
(* NaN exactly when the value it starts from is.                          *)
(***************************************************************************)

\* The constructor's state maps to the abstract initial state.
LEMMA InitRefines == Init => NaNView!AbsInit
BY SpecialsAssumption DEF Init, NaNView!AbsInit

\* The estimate after a controller step is NaN exactly when the value the
\* filter starts from is: the first call's re-seed, the reset value, or the
\* estimate itself.
LEMMA ControllerNaN ==
  ASSUME IInv, NEW eas \in EASs, NEW dt \in DTs, ControllerStep(eas, dt)
  PROVE  /\ (tas_state' = NaN) <=>
              IF speed_update_first THEN FALSE
              ELSE IF SpeedReset(dt) THEN EAS = NaN ELSE tas_state = NaN
         /\ EAS' # NaN
<1> DEFINE reset  == SpeedReset(dt)
           eas1   == EASUsed(eas)
           tas0   == IF reset THEN ToTAS(EAS) ELSE tas_state
           rate0  == IF reset THEN 0 ELSE tas_rate_state
           tas1   == IF speed_update_first THEN ToTAS(eas1) ELSE tas0
           rate1  == IF speed_update_first THEN 0 ELSE rate0
           dtc    == Constrain(dt, DT_MIN, DT_MAX)
           r      == TASFilter(tas1, rate1, ToTAS(eas1), tas_rate_raw, dtc)
<1>1. EAS' = eas1 /\ tas_state' = r.tas
  BY DEF ControllerStep
<1>2. eas1 \in Nat
  BY EASUsedNat
<1>3. ToTAS(eas1) \in Nat
  BY <1>2, ToTASType
<1>4. EAS \in Nat \cup {NaN}
  BY DEF IInv
<1>5. (EAS \in Nat => ToTAS(EAS) \in Nat) /\ (EAS = NaN => ToTAS(EAS) = NaN)
  BY <1>4, ToTASType
<1> HIDE DEF eas1
<1>6. (tas1 \in Nat /\ rate1 \in Int) \/ tas1 = NaN
  <2>1. (tas0 \in Nat /\ rate0 \in Int) \/ tas0 = NaN
    BY <1>5, <1>4 DEF IInv
  <2>2. QED
    BY <2>1, <1>3
<1>10. (tas0 = NaN) <=> IF reset THEN EAS = NaN ELSE tas_state = NaN
  BY <1>4, <1>5, SpecialsAssumption
<1>11. (tas1 = NaN) <=> IF speed_update_first THEN FALSE ELSE tas0 = NaN
  BY <1>3, SpecialsAssumption
<1>7. dtc \in Nat \ {0} /\ tas_rate_raw \in Int
  BY DtRange DEF IInv, TypeOK
<1> HIDE DEF tas0, rate0, tas1, rate1, dtc
<1>8. (r.tas = NaN) <=> (tas1 = NaN)
  <2>1. CASE tas1 \in Nat /\ rate1 \in Int
    <3>1. r.tas \in Nat
      BY <2>1, <1>3, <1>7, FilterFinite
    <3>2. QED
      BY <2>1, <3>1, SpecialsAssumption
  <2>2. CASE tas1 = NaN
    BY <2>2, FilterNaN
  <2>3. QED
    BY <1>6, <2>1, <2>2
<1> HIDE DEF r
<1>9. QED
  <2>1. EAS' # NaN
    BY <1>1, <1>2, SpecialsAssumption
  <2>2. (tas_state' = NaN) <=> (tas1 = NaN)
    BY <1>1, <1>8
  <2>3. QED
    BY <2>1, <2>2, <1>10, <1>11, Zenon DEF reset

\* Every step of the host maps to a step of the abstraction or a stutter.
LEMMA NextRefines ==
  IInv /\ [Next]_vars => [NaNView!AbsNext]_NaNView!absvars
<1> SUFFICES ASSUME IInv, [Next]_vars PROVE [NaNView!AbsNext]_NaNView!absvars
  OBVIOUS
<1>1. ASSUME NEW eas \in RawEASs, NEW a \in Accels, NEW lock \in BOOLEAN,
             NEW dt \in DTs, VehicleUpdate(eas, a, lock, dt)
      PROVE  NaNView!Store
  <2>1. states_initialized' \in {FALSE, states_initialized}
    BY <1>1 DEF VehicleUpdate
  <2>2. tas_state' = tas_state /\ speed_update_first' = speed_update_first
    BY <1>1 DEF VehicleUpdate
  <2>3. QED
    BY <2>1, <2>2 DEF NaNView!Store
<1>2. ASSUME NEW eas \in EASs, NEW dt \in DTs, ControllerStep(eas, dt)
      PROVE  NaNView!Filter
  <2>1. /\ (tas_state' = NaN) <=>
             IF speed_update_first THEN FALSE
             ELSE IF SpeedReset(dt) THEN EAS = NaN ELSE tas_state = NaN
        /\ EAS' # NaN
    BY <1>2, ControllerNaN
  <2>2. states_initialized' = TRUE /\ speed_update_first' = FALSE
    BY <1>2 DEF ControllerStep
  <2>3. ~states_initialized => SpeedReset(dt)
    BY DEF SpeedReset
  <2>4. SpeedReset(dt) \in BOOLEAN
    BY DEF SpeedReset
  <2>5. QED
    BY <2>1, <2>2, <2>3, <2>4 DEF NaNView!Filter
<1>3. ASSUME NEW b \in BOOLEAN, SetAirspeedEnabled(b)
      PROVE  UNCHANGED NaNView!absvars
  BY <1>3 DEF SetAirspeedEnabled, NaNView!absvars
<1>4. CASE UNCHANGED vars
  BY <1>4 DEF vars, NaNView!absvars
<1>5. QED
  BY <1>1, <1>2, <1>3, <1>4 DEF Next, NaNView!AbsNext

\* The airspeed estimate implements its NaN abstraction, for every value
\* of the constants: it becomes NaN only by a reset of _initialize_states
\* that reads a NaN _EAS, and stops being NaN only on the first call or a
\* reset that reads a finite one.
THEOREM SpeedRefinesNaN == Spec => NaNRefinement
<1>1. Init => IInv
  BY InitIInv
<1>2. IInv /\ [Next]_vars => IInv'
  BY NextIInv
<1>3. Init => NaNView!AbsInit
  BY InitRefines
<1>4. IInv /\ [Next]_vars => [NaNView!AbsNext]_NaNView!absvars
  BY NextRefines
<1>5. QED
  BY <1>1, <1>2, <1>3, <1>4, PTL DEF Spec, NaNRefinement, NaNView!AbsSpec
=============================================================================
