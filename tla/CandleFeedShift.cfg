SPECIFICATION Spec
CONSTANTS
  MaxPrice = 4
  MaxTicks = 3
  MaxPeriods = 2
  None = None
INVARIANTS HighIsHighestTick
