----------------------------- MODULE TECSFloat -----------------------------
(***************************************************************************)
(* The single-precision arithmetic of TECS.cpp, abstracted for checking.   *)
(*                                                                         *)
(* A finite float is an integer in a fixed-point unit chosen per quantity  *)
(* by the modules that use this one (a throttle of 1.0 is TU units, ...).  *)
(* Division rounds down; the rounding of float operations is not          *)
(* modelled.  What is kept is what the controller's control flow depends  *)
(* on: NaN and the two infinities, how they propagate through + - * /,    *)
(* that every comparison with NaN is false, and therefore what            *)
(* math::constrain, math::max and math::min return for them.              *)
(***************************************************************************)
EXTENDS Integers

CONSTANTS NaN, PosInf, NegInf

\* The three non-finite values are distinct and are not numbers.
ASSUME SpecialsAssumption ==
  /\ NaN \notin Int /\ PosInf \notin Int /\ NegInf \notin Int
  /\ NaN # PosInf /\ NaN # NegInf /\ PosInf # NegInf

Float == Int \cup {NaN, PosInf, NegInf}

\* PX4_ISFINITE
IsFinite(x) == x \in Int

\* Sign of a value that is not NaN: -1, 0 or 1.
SignOf(x) ==
  IF x = PosInf THEN 1
  ELSE IF x = NegInf THEN -1
  ELSE IF x \in Int /\ x > 0 THEN 1
  ELSE IF x \in Int /\ x < 0 THEN -1
  ELSE 0

\* The infinity of a sign.
InfOf(s) == IF s > 0 THEN PosInf ELSE NegInf

\* a < b as the hardware evaluates it: false whenever either side is NaN.
FLt(a, b) ==
  /\ a # NaN /\ b # NaN
  /\ \/ a \in Int /\ b \in Int /\ a < b
     \/ a = NegInf /\ b # NegInf
     \/ b = PosInf /\ a # PosInf

FGt(a, b) == FLt(b, a)
FGeq(a, b) == FLt(b, a) \/ (a = b /\ a # NaN)

FNeg(a) ==
  IF a \in Int THEN -a
  ELSE IF a = PosInf THEN NegInf
  ELSE IF a = NegInf THEN PosInf
  ELSE NaN

FAdd(a, b) ==
  IF a \in Int /\ b \in Int THEN a + b
  ELSE IF a = NaN \/ b = NaN \/ {a, b} = {PosInf, NegInf} THEN NaN
  ELSE IF a \in {PosInf, NegInf} THEN a
  ELSE b

FSub(a, b) == FAdd(a, FNeg(b))

FMul(a, b) ==
  IF a \in Int /\ b \in Int THEN a * b
  ELSE IF a = NaN \/ b = NaN \/ SignOf(a) * SignOf(b) = 0 THEN NaN
  ELSE InfOf(SignOf(a) * SignOf(b))

\* a / b, rounded down when both are finite; x / 0 is an infinity of the
\* sign of x (the divisor is +0) and 0 / 0 is NaN.
FDiv(a, b) ==
  IF a \in Int /\ b \in Int /\ b # 0 THEN a \div b
  ELSE IF a = NaN \/ b = NaN \/ (a \notin Int /\ b \notin Int) THEN NaN
  ELSE IF b \notin Int THEN 0
  ELSE IF a = 0 THEN NaN
  ELSE IF b = 0 THEN InfOf(SignOf(a))
  ELSE InfOf(SignOf(a) * SignOf(b))

\* a / math::max(b, FLT_EPSILON).  FLT_EPSILON is below the resolution of
\* every fixed-point unit: a finite non-zero a divided by it leaves the
\* model's range (an infinity of a's sign), 0 divided by it is 0, and a NaN
\* divisor is replaced by FLT_EPSILON because NaN > FLT_EPSILON is false.
FDivGuarded(a, b) ==
  IF FGt(b, 0) THEN FDiv(a, b)
  ELSE IF a = NaN THEN NaN
  ELSE IF a = 0 THEN 0
  ELSE InfOf(SignOf(a))

\* math::constrain(val, min_val, max_val)
Constrain(v, lo, hi) == IF FLt(v, lo) THEN lo ELSE IF FLt(hi, v) THEN hi ELSE v

\* math::max(a, b) and math::min(a, b): (a > b) ? a : b and (a < b) ? a : b
FMax(a, b) == IF FGt(a, b) THEN a ELSE b
FMin(a, b) == IF FLt(a, b) THEN a ELSE b

\* fabsf
FAbs(a) == IF FLt(a, 0) THEN FNeg(a) ELSE a
=============================================================================
