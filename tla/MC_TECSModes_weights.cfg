CONSTANTS
  NaN = NaN
  PosInf = PosInf
  NegInf = NegInf
  PU = 2
  WU = 2
  G = 2
  max_climb_rate = 2
  min_sink_rate = 1
  airspeed_error_gain = 1
  TASErrorBound = 2
  DescentSTEError = 2
  TASs <- MC_TASs
  TASMins <- MC_TASMins
  TASMaxs <- MC_TASMaxs
  TASSetpoints <- MC_TASSetpoints
  STEErrors <- MC_STEErrors
  EnergyRates <- MC_EnergyRates
  Throttles <- MC_Throttles
  ThrottleMaxs <- MC_ThrottleMaxs
  PitchSpeedWeights <- MC_PitchSpeedWeights

SPECIFICATION Spec

PROPERTY
  ZeroSpeedWeightIgnoresSensor


