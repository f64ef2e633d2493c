SPECIFICATION FairSpec
CONSTANTS
  Callers = {c1, c2, c3}
  MaxPeers = 2
  MaxValues = 2
  MaxCloses = 1
  Capacity = 1
INVARIANTS TypeOK SameOrder ListedListens NobodyForgotten
PROPERTIES PanicsOnlyInGap PanicIsFinal ClosedEnds
