\* Two codes and two sound tracks compete for two ids; a third track is malformed.
SPECIFICATION Spec
CONSTANTS
  RunIds = {r1, r2}
  Plans = {p1}
  Codes = {c1, c2}
  Tracks = {t1, t2, bad}
  Navs = {"good"}
  Malformed = {bad}
  Handlers = {h1, h2}
  ExpectedVersions = {1}
  SeedTrack = seed
  NoRun = NoRun
  NoRequest = NoRequest
  NoId = NoId
SYMMETRY ImportSymmetry
INVARIANTS ImportIdempotent
PROPERTIES RegistrySpec
