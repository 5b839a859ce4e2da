SPECIFICATION MCSpec
CONSTANTS
  Sessions = {s1}
  SessionMax = 2
  DailyMaxTokens = 2
  DailyMaxUsd = 1
  RunawayMin = 2
  RunawayMult = 1
  Lookback = 1
  DayHours = 2
  UtcShift = 1
  FirstHour = 1
  MaxHour = 3
  Calls = {c1, c2}
  big = big
  small = small
  Models = {big, small}
  Primary = big
  Fallback = small
  Streaming = {big}
  AlwaysThinks = {big}
  Price <- MCPrice
  Requested = 1
  ThinkingMin = 2
  None = None
  MaxFaults = 1
INVARIANTS
  
  LedgersTrackSpend
  PauseStopsCalls
  OneVoice
SYMMETRY CallSymmetry
PROPERTY AlertedDuringDay
