SPECIFICATION FairSpec
CONSTANTS
  c1 = c1
  c2 = c2
  html = html
  archive = archive
  Client = {c1, c2}
  Phase = {html, archive}
  Phases <- MCPhases
  Validated = {archive}
  Code = {"v1", "v2"}
  NoRow = NoRow
  NoFile = NoFile
  NoHash = NoHash
  NoClient = NoClient
  NoCode = NoCode
  MaxStarts = 3
CHECK_DEADLOCK FALSE
INVARIANTS RowMatchesFile RunRunsWithPhases AttemptsSound ConsistentEdition
PROPERTIES AttemptsDecidedOnce ProcessesEnd
