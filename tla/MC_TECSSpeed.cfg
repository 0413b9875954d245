CONSTANTS
  NaN = NaN
  PosInf = PosInf
  NegInf = NegInf
  DT_UNIT = 10
  DT_MIN = 1
  DT_DEFAULT = 2
  DT_MAX = 10
  E2T = 1
  E2T_UNIT = 1
  FREQ_UNIT = 1
  tas_estimate_freq = 1
  SQRT2_NUM = 14142
  SQRT2_DEN = 10000
  speed_derivative_time_const = 2
  equivalent_airspeed_trim = 3
  RawEASs <- MC_RawEASs
  EASs <- MC_EASs
  Accels <- MC_Accels
  DTs <- MC_DTs
SPECIFICATION Spec
INVARIANTS TypeOK TASNonNegative
