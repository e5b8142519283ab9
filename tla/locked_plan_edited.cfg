\* One area and two plans, two requests in flight, any expected_version.
\* One payload x serves as boundary and as lines: a version tells rows apart.
SPECIFICATION Spec
CONSTANTS
  AreaCodes = {a1}
  PlanIds = {p1, p2}
  Boundaries = {x}
  Lines = {x}
  Malformed = {}
  Untraversed = {}
  Statuses = {"archived"}
  Handlers = {h1, h2}
  MaxVersion = 3
  None = None
SYMMETRY PlanningSymmetry
PROPERTY LockedPlanFrozen
