\* A grid of at most 20 cells in ints of six bits; floats of nine bits.
SPECIFICATION Spec
CONSTANTS
  None = None
  MantissaBits = 9
  IntBits = 6
  CellLimit = 20
  Boundaries <- AllBoundaries
  AreaLimit = 140
  Headings = {0, 90}
  Spacings = {4, 6, 8}
  Swaths = {3, 4, 8}
  StrayLines <- Strays
  Resolutions = {2, 4}
  MaxRuns = 2
  MaxLines = 2
  Splits <- SplitsOfBoundaries
INVARIANTS TypeOK ResultIsMeasured PlanCovers RecommendationCloses BordersAreExact
PROPERTIES GenerationEnds
