\* A crash between the claim of a record and its end.
CONSTANTS
  b1 = b1  b2 = b2  b3 = b3  c1 = c1  c2 = c2  n1 = n1  n2 = n2
  t1 = t1  t2 = t2  p1 = p1  p2 = p2
  NoHash = NoHash  NoBundle = NoBundle  NoCall = NoCall
  Calls = {c1}
  Nullifiers = {n1}
  InputsOf <- MCOneCall
  Hashes = {h1}
  Bundles <- MCTwins
  WakuBundles = {}
  CallOf <- MCCallOfTwins
  Procs = {p1}
  Threads = {t1}
  ProcOf <- MCOneThread
  BatchLimit = 2
  MaxCrashes = 1
SPECIFICATION FairSpec
PROPERTIES
  ClaimsEnd
