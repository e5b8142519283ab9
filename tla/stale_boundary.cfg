SPECIFICATION Spec
CONSTANTS
  RunIds = {r1}
  Plans = {p1}
  p1 = p1
  p2 = p2
  a1 = a1
  a2 = a2
  b1 = b1
  Codes = {c1, c2}
  Tracks = {t1}
  Navs = {"good"}
  SeedTrack = seed
  NoRun = NoRun
  Areas = {a1}
  AreaOf <- OneArea
  Boundaries = {b1, b2}
  Resolutions = {1}
  Incalculable = {}
  Algorithms = {"grid"}
  GapIds = {g1}
  Notes = {}
  Base = 70
  Capacity = 1200
  ExpectedVersions = {}
  Handlers = {h1, h2}
  None = None
SYMMETRY CoverageSymmetry
INVARIANT HashIdentifiesInput
