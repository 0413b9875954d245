CONSTANTS
  NaN = NaN
  PosInf = PosInf
  NegInf = NegInf
  TU = 100
  ClimboutThrottleMargin = 1
  PU = 2
  DT_UNIT = 10
  DT_MIN = 1
  DT_DEFAULT = 2
  DT_MAX = 10
  G = 1
  max_climb_rate = 5
  min_sink_rate = 3
  throttle_damping_gain = 2
  integrator_gain_throttle = 1
  load_factor_correction = 1
  throttle_slewrate = 50
  ste_rate_time_const = 2
  STERateBound = 4
  STERateSetpoints <- MC_STERateSetpoints
  STERates <- MC_STERates
  ThrottleMins <- MC_ThrottleMins
  ThrottleMaxs <- MC_ThrottleMaxs
  ThrottleTrims <- MC_ThrottleTrims
  LoadFactors <- MC_LoadFactors
  DTs <- MC_DTs
  PercentUndersped <- MC_PercentUndersped
SPECIFICATION Spec
PROPERTY ThrottleSlewLimited
