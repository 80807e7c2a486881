\* One process with two overlapping polls or Waku callbacks.
CONSTANTS
  b1 = b1  b2 = b2  b3 = b3  c1 = c1  c2 = c2  n1 = n1  n2 = n2
  t1 = t1  t2 = t2  p1 = p1  p2 = p2
  NoHash = NoHash  NoBundle = NoBundle  NoCall = NoCall
  Calls = {c1, c2}
  Nullifiers = {n1, n2}
  InputsOf <- MCInputsOf
  Hashes = {h1, h2}
  Bundles <- MCBundles
  WakuBundles <- MCBundles
  CallOf <- MCCallOf
  Procs = {p1}
  Threads = {t1, t2}
  ProcOf <- MCOneProc
  BatchLimit = 2
  MaxCrashes = 1
SPECIFICATION Spec
SYMMETRY Symmetry
INVARIANTS
  ProcessedTellsTheTruth
  InFlightIsExact
  ClaimsAreExclusive
