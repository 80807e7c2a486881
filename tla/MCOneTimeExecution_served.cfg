\* Two native jobs and one worker; the chain owes the first nothing.
CONSTANTS
  Jobs = {j1, j2}
  Native = {j1, j2}
  Served = {j2}
  Corrupt = {}
  Holders = {w1}
  Workers = {w1}
  DryRuns = FALSE
  Hashes = {h1, h2}
  NumSteps = 2
  MaxAttempts = 1
  NoHolder = NoHolder  NoJob = NoJob  NoTx = NoTx
SPECIFICATION FairSpec
CHECK_DEADLOCK FALSE
PROPERTIES
  ServedJobsEnd
