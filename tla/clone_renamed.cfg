SPECIFICATION Spec
CONSTANTS
  Tools = {us}
  Us = us
  MaxRot = 0
  Pi = Pi
  Clone = Clone
  Stranger = Stranger
  Nobody = Nobody
  WatchRounds = 2
  ReturnRounds = 2
  FollowRounds = 2
  MaxMoves = 1
  MaxCuts = 1
  Lossy = FALSE
  Numeric = FALSE
  MaxRuns = 2
INVARIANTS
  EveryCommandReachesThePi
CHECK_DEADLOCK FALSE
