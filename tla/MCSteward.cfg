SPECIFICATION MCSpec
CONSTANTS
  Code = Code
  Nightly = Nightly
  Resolving = Resolving
  Paths = {f, g}
  MaxCommits = 3
  MaxNights = 2
  MaxStarts = 3
  Main = main
  Resume = resume
  Client = {main, resume}
  Phase = {"setup", "apply", "fixes"}
  Order <- MCOrder
  Varying = {}
  NoRow = NoRow
  NoFile = NoFile
  NoHash = NoHash
  NoClient = NoClient
  MaxEdits = 1
  MaxLaunches = 2
  MaxReboots = 1
  Edited = {1}
  Found = {2}
  NightCap = 1
  MaxEditsMade = 1
  MaxRuns = 2
SYMMETRY PathSymmetry
INVARIANTS TypesOK RunsTrustedTree OneMergePerNight AccountsTrue RunVouched WebhookBack
PROPERTIES StaysOneLine
CHECK_DEADLOCK FALSE
