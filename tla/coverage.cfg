\* Two areas with a plan each, two runs, two gaps, two requests in flight; Focus
\* keeps several runs and reviews apart.
SPECIFICATION Spec
CONSTANTS
  RunIds = {r1, r2}
  Plans = {p1, p2}
  p1 = p1
  p2 = p2
  a1 = a1
  a2 = a2
  Codes = {c1, c2}
  Tracks = {t1}
  Navs = {"good"}
  SeedTrack = seed
  NoRun = NoRun
  Areas = {a1, a2}
  AreaOf <- TwoAreas
  b1 = b1
  Boundaries = {b1, b2}
  Resolutions = {1}
  Incalculable = {b2}
  Algorithms = {"grid"}
  GapIds = {g1, g2}
  Notes = {300}
  Base = 70
  Capacity = 1200
  ExpectedVersions = {1, 2, 3, 4}
  Handlers = {h1, h2}
  None = None
SYMMETRY CoverageSymmetry
CONSTRAINT Focus
INVARIANTS TypeOK SourcesProcessed DetectIdempotent OneNotePerReview
PROPERTY NotesAccumulate
