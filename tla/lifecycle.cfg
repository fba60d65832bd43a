\* Two starts of one kind.
CONSTANTS
  a = a
  b = b
  Programs = {a, b}
  Setups <- TheSetups
SPECIFICATION FairSpec
INVARIANTS IInv OneServerUnlessRaced ChartsUnlessRaced
PROPERTIES StopReleases StartEnds
CHECK_DEADLOCK FALSE
