\* Two activations compete for a native and a plain job of two steps.
CONSTANTS
  Jobs = {jn, jp}
  Native = {jn}
  Served = {}
  Corrupt = {}
  Holders = {w1, w2}
  Workers = {w1, w2}
  DryRuns = TRUE
  Hashes = {h1, h2}
  NumSteps = 2
  MaxAttempts = 2
  NoHolder = NoHolder  NoJob = NoJob  NoTx = NoTx
SPECIFICATION Spec
SYMMETRY Symmetry
CHECK_DEADLOCK FALSE
INVARIANTS
  CheckpointsAreTheSteps
  OneTransactionPerStep
  HolderKnowsTheTable
  NoStrandedJob
PROPERTIES
  JobsOnlyAdvance
