\* Two searches, of which the first has its response when the second is made.
SPECIFICATION Spec
CONSTANTS
  Terms = {empty, t1, t2}
  Empty = empty
  MaxSearches = 2
CHECK_DEADLOCK FALSE
INVARIANT NewestWins
