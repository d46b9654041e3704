CONSTANTS
  p1 = p1 p2 = p2 p3 = p3
  Posts = {p1, p2, p3}
  Hourly = hourlyThread
  NoThread = noThread
SPECIFICATION FairSpec
INVARIANTS OnePass LockHasHolder
PROPERTIES PokeAnswered WorkIsSwept StopsWhenServing
CHECK_DEADLOCK FALSE
