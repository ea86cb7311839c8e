SPECIFICATION Spec
CONSTANTS
  Execution = {e1, e2}
  Candle = {1, 2, 3}
  Price = {1, 3}
  Fast <- FastSmoothing
  Slow <- SlowSmoothing
  Wilder <- SlowSmoothing
  MaxDouble = 5
  MaxPower = 6
  NoRun = NoRun
INVARIANTS TypeOK WrittenSoFarIsOneGeneration EmaIsExactUntilOverflow RsiIsShareOfGains
PROPERTIES ChainPublishesWhatItFound RebuildLosesNothing
SYMMETRY ExecutionSymmetry
CONSTRAINT OnPremisesBound
CHECK_DEADLOCK FALSE
