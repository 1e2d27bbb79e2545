SPECIFICATION Spec
CONSTANTS
  q1 = q1
  q2 = q2
  r1 = r1
  r2 = r2
  Callers = {r1, r2, r3}
  Queries = {q1, q2}
  Blank = Blank
  Nobody = Nobody
  Interval = 2
  Coordinates = {"home", "pole"}
  OnEarth = {"home"}
  Number <- MCNumber
  MaxRange = 3
  Browsers = {b1}
  Allowed = {"planeradar.local"}
  MaxInFlight = 2
  MaxSessions = 2
  MaxPages = 3
  Traffics = {"sessions"}
  Sends <- MCSends
PROPERTIES
  SlotsOutliveClients
CHECK_DEADLOCK FALSE
