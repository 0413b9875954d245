-------------------------- MODULE TECSFloatLemmas --------------------------
(***************************************************************************)
(* What the float operators of TECSFloat compute on finite values, and     *)
(* the bounds of rounded-down division the controller proofs rest on.     *)
(***************************************************************************)
EXTENDS TECSFloat, TLAPS

\* On finite values the operators are the integer ones.
LEMMA FiniteArith ==
  ASSUME NEW a \in Int, NEW b \in Int
  PROVE  /\ FAdd(a, b) = a + b
         /\ FSub(a, b) = a - b
         /\ FMul(a, b) = a * b
         /\ FNeg(a) = -a
<1>1. FNeg(b) = -b /\ FNeg(a) = -a
  BY DEF FNeg
<1>2. FAdd(a, b) = a + b /\ FAdd(a, -b) = a + -b
  BY DEF FAdd
<1>3. FMul(a, b) = a * b
  BY DEF FMul
<1>4. QED
  BY <1>1, <1>2, <1>3 DEF FSub

\* On finite values the comparisons are the integer ones.
LEMMA FiniteCompare ==
  ASSUME NEW a \in Int, NEW b \in Int
  PROVE  /\ (FLt(a, b) <=> a < b)
         /\ (FGt(a, b) <=> a > b)
         /\ (FGeq(a, b) <=> a >= b)
         /\ FMin(a, b) = IF a < b THEN a ELSE b
         /\ FMax(a, b) = IF a > b THEN a ELSE b
<1>1. (FLt(a, b) <=> a < b) /\ (FLt(b, a) <=> b < a)
  BY SpecialsAssumption DEF FLt
<1>2. (FGeq(a, b) <=> a >= b)
  BY <1>1, SpecialsAssumption DEF FGeq
<1>3. QED
  BY <1>1, <1>2 DEF FGt, FMin, FMax

\* Division of finite values by a non-zero finite value rounds down.
LEMMA FiniteDiv ==
  ASSUME NEW a \in Int, NEW b \in Int, b # 0
  PROVE  FDiv(a, b) = a \div b
BY DEF FDiv

\* math::constrain of finite values with lo <= hi lands in [lo, hi].
LEMMA ConstrainRange ==
  ASSUME NEW v \in Int, NEW lo \in Int, NEW hi \in Int, lo <= hi
  PROVE  Constrain(v, lo, hi) \in lo..hi
BY FiniteCompare DEF Constrain

\* Rounded-down division by a positive divisor keeps a bound on the
\* magnitude, up to one unit below.
LEMMA DivMagnitude ==
  ASSUME NEW a \in Int, NEW m \in Nat, NEW d \in Nat \ {0},
         -m <= a, a <= m
  PROVE  a \div d \in -(m \div d) - 1 .. m \div d
<1>1. a \div d <= m \div d
  BY Z3
<1>2. -(m \div d) - 1 <= a \div d
  BY Z3
<1>3. QED
  BY <1>1, <1>2
\* NaN propagates through every arithmetic operator, and every comparison
\* with it is false.
LEMMA NaNPropagates ==
  ASSUME NEW b
  PROVE  /\ FNeg(NaN) = NaN
         /\ FAdd(NaN, b) = NaN /\ FAdd(b, NaN) = NaN
         /\ FMul(NaN, b) = NaN
         /\ FDiv(NaN, b) = NaN
         /\ ~FLt(NaN, b) /\ ~FLt(b, NaN)
BY SpecialsAssumption DEF FNeg, FAdd, FMul, FDiv, FLt
\* Every operator maps floats to floats: a NaN or an infinity is a float.
\* Integer division is only defined for a positive divisor, and the model
\* never divides by a negative one unguarded.
LEMMA FloatClosed ==
  ASSUME NEW a \in Float, NEW b \in Float
  PROVE  /\ FNeg(a) \in Float /\ FAdd(a, b) \in Float /\ FSub(a, b) \in Float
         /\ FMul(a, b) \in Float /\ FDivGuarded(a, b) \in Float
         /\ (b \notin Int \/ b >= 0) => FDiv(a, b) \in Float
<1>1. \A s \in Int : InfOf(s) \in Float
  BY DEF InfOf, Float
<1>2. FNeg(a) \in Float /\ FNeg(b) \in Float
  BY DEF FNeg, Float
<1>3. FAdd(a, b) \in Float
  BY DEF FAdd, Float
<1>4. FSub(a, b) \in Float
  <2>1. FAdd(a, FNeg(b)) \in Float
    BY <1>2 DEF FAdd, Float
  <2>2. QED
    BY <2>1 DEF FSub
<1>5. SignOf(a) \in Int /\ SignOf(b) \in Int
  BY DEF SignOf
<1>6. FMul(a, b) \in Float
  BY <1>1, <1>5 DEF FMul, Float
<1>7. (b \notin Int \/ b >= 0) => FDiv(a, b) \in Float
  BY <1>1, <1>5 DEF FDiv, Float
<1>8. FDivGuarded(a, b) \in Float
  <2>1. FGt(b, 0) => b \notin Int \/ b >= 0
    BY SpecialsAssumption DEF FGt, FLt
  <2>2. QED
    BY <1>1, <1>5, <1>7, <2>1 DEF FDivGuarded, Float
<1>9. QED
  BY <1>2, <1>3, <1>4, <1>6, <1>7, <1>8

\* math::constrain of a float between finite bounds is within them, or NaN.
LEMMA ConstrainFloat ==
  ASSUME NEW v \in Float, NEW lo \in Int, NEW hi \in Int, lo <= hi
  PROVE  Constrain(v, lo, hi) \in (lo..hi) \cup {NaN}
<1>1. CASE v \in Int
  BY <1>1, ConstrainRange
<1>2. CASE v = NaN
  BY <1>2, SpecialsAssumption DEF Constrain, FLt
<1>3. CASE v = PosInf
  BY <1>3, SpecialsAssumption DEF Constrain, FLt
<1>4. CASE v = NegInf
  BY <1>4, SpecialsAssumption DEF Constrain, FLt
<1>5. QED
  BY <1>1, <1>2, <1>3, <1>4 DEF Float
=============================================================================
