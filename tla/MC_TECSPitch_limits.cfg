CONSTANTS
  NaN = NaN
  PosInf = PosInf
  NegInf = NegInf
  PitchU = 4
  WU = 1
  DT_UNIT = 2
  G = 1
  integrator_gain_pitch = 1
  pitch_damping_gain = 1
  SEB_rate_ff = 1
  vert_accel_limit = 1
  RateBound = 2
  TASBound = 4
  PitchBound = 2
  DTBound = 2
  SPERateSetpoints <- MC_SPERateSetpointsSigned
  SKERateSetpoints <- MC_SKERateSetpoints
  SPERates <- MC_SPERates
  SKERates <- MC_SKERates
  Weights <- MC_Weights
  TASs <- MC_TASs
  PitchMins <- MC_PitchMinsMoving
  PitchMaxs <- MC_PitchMaxs
  Pitches <- MC_Pitches
  PitchMinsClimbout <- MC_PitchMinsClimboutLow
  DTs <- MC_DTs

SPECIFICATION Spec

INVARIANT
  PitchWithinLimits
