SPECIFICATION Spec
CONSTANTS
  Tools = {us}
  Us = us
  MaxRot = 0
  Pi = Pi
  Clone = Clone
  Stranger = Stranger
  Nobody = Nobody
  WatchRounds = 2
  ReturnRounds = 2
  FollowRounds = 2
  MaxMoves = 0
  MaxCuts = 0
  Lossy = FALSE
  Numeric = TRUE
  MaxRuns = 2
PROPERTIES
  RerunFindsThePi
CHECK_DEADLOCK FALSE
