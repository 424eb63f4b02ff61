SPECIFICATION FairSpec
CONSTANTS
  LastPod = 2
  Clusters = {c1, c2}
  NoCluster = NoCluster
  AuthSteps = 1
  MaxFaults = 1
  InTurn = FALSE
CHECK_DEADLOCK FALSE
INVARIANTS ServesAsMember OneCluster UndisturbedStartFits
PROPERTIES StartupEnds JoinsCalmCluster
