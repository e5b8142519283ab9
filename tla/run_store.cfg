\* Two runs, one of them perhaps seeded, and two requests in flight.
SPECIFICATION Spec
CONSTANTS
  RunIds = {r1, r2}
  r1 = r1
  r2 = r2
  Plans = {p1}
  p1 = p1
  c2 = c2
  t1 = t1
  Codes = {c1, c2}
  Tracks = {t1}
  Navs = {"good", "invalid"}
  SeedTrack = seed
  NoRun = NoRun
  Calls = {k1, k2}
  Forms <- TwoForms
  Targets = {"quality_checked", "rejected"}
  Place <- NewestFirst
  PageSize = 1
  None = None
INVARIANTS TypeOK ItemsDistinct ShowsWhatWas
PROPERTIES ActsOnWhatItShows OffersAreGranted LoadingEnds
