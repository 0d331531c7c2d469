SPECIFICATION FairSpec
CONSTANTS
  Filters = {f, g}
  PageBudget = 3
  MaxAhead = 0
  MaxCommits = 1
INVARIANT CommitInvalidates
\* The worker quits.
CHECK_DEADLOCK FALSE
