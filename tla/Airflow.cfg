\* Two variables, two tasks and one function in at most four statements; two
\* threads, three sources (one that does not parse), three calls and two edits;
\* sources of at most five tokens against caps of 2 and 3.
SPECIFICATION MCSpec
CONSTANTS
  x = x
  y = y
  Vars = {x, y}
  Funs = {x}
  Tasks = {t1, t2}
  BadId = bad
  MAX_WALK_DEPTH = 2
  MaxStmts = 4
  Threads = {th1, th2}
  Sources = {"s1", "s2", "broken"}
  Unparsable = {"broken"}
  MaxEdits = 2
  MaxCalls = 3
  MAX_PARSE_NESTING_DEPTH = 2
  MAX_PARSE_RECURSION = 3
  MaxTokens = 5
INVARIANTS
    FreshOutcome 
PROPERTY
  CallReturns
CHECK_DEADLOCK FALSE
