SPECIFICATION Spec
CONSTANTS
  Tools = {us, other}
  Us = us
  MaxRot = 1
  Pi = Pi
  Clone = Clone
  Stranger = Stranger
  Nobody = Nobody
  WatchRounds = 2
  ReturnRounds = 2
  FollowRounds = 2
  MaxMoves = 1
  MaxCuts = 1
  Lossy = TRUE
  Numeric = FALSE
  MaxRuns = 2
INVARIANTS
  CommandsReachThePi
  OnlyReleasedRuns
  OthersDoNoHarm
CHECK_DEADLOCK FALSE
