SPECIFICATION FairSpec
CONSTANT
  MaxAsks = 2
PROPERTY ReusedPidStarts
\* The processes end.
CHECK_DEADLOCK FALSE
