CONSTANTS
  MAX_TIMESTAMP = 19
  WrapPeriod = 4
  Silence = 4
  Lateness = 4
  MaxLap = 4
SPECIFICATION TsbpdSpec
INVARIANTS TimeIsUnwrapped
