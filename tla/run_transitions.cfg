\* One run, two requests in flight, every expected_version a client could send.
SPECIFICATION Spec
CONSTANTS
  RunIds = {r1}
  Plans = {p1}
  Codes = {c1}
  Tracks = {t1}
  Navs = {"good", "invalid"}
  Malformed = {}
  Handlers = {h1, h2}
  ExpectedVersions = {1, 2, 3, 4}
  SeedTrack = seed
  NoRun = NoRun
  NoRequest = NoRequest
  NoId = NoId
SYMMETRY HandlerSymmetry
INVARIANTS TypeOK VersionIsKey InvalidNavigationStops NoLostUpdate AuditsTruthful
PROPERTIES BeforeIsReplaced RegistrySpec
