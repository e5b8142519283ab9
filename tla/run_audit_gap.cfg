\* One run, one request in flight, every expected_version a client could send.
SPECIFICATION Spec
CONSTANTS
  RunIds = {r1}
  Plans = {p1}
  Codes = {c1}
  Tracks = {t1}
  Navs = {"good", "invalid"}
  Malformed = {}
  Handlers = {h1}
  ExpectedVersions = {1, 2, 3, 4}
  SeedTrack = seed
  NoRun = NoRun
  NoRequest = NoRequest
  NoId = NoId
SYMMETRY HandlerSymmetry
INVARIANT EveryChangeAudited
