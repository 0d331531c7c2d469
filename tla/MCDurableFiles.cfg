SPECIFICATION DurableFiles
CONSTANTS
  n = n
  p = p
  v0 = v0
  v1 = v1
  v2 = v2
  Payload = {p1, p2}
  Game = {g1}
  Mod = {m1}
  OldMod = {m2}
  Abandoned = {a1}
  MaxRuns = 2
  NoHelper = NoHelper
  Entries = {e1, e2}
  Rests = {r1, r2}
  Fresh = r1
  Missing = Missing
  Damaged = Damaged
  Null = Null
  Natives = {n}
  Providers = {p}
  Values <- MCValues
  Default <- MCDefault
  NoJournal = NoJournal
  MaxRevision = 2
SYMMETRY FilesSymmetry
INVARIANTS
  FilesTypeOK
  RequestedIsDurable
  CleanRunRepairs
PROPERTIES
  UntouchedUntilVerified
  OutcomeMoves
  EditsNotLost
  ProgressSurvives
  ScoresAccumulate
\* The wizard is done after its last run.
CHECK_DEADLOCK FALSE
