SPECIFICATION FairSpec
CONSTANTS
  r1 = r1
  r2 = r2
  r3 = r3
  n1 = n1
  n2 = n2
  k1 = k1
  f1 = f1
  f2 = f2
  None = None
  Request = {r1, r2, r3}
  Other = {r3}
  Node = {n1, n2}
  Key = {k1}
  Fingerprint = {f1, f2}
  KeyOf <- MCKeyOf
  PrintOf <- MCPrintOf
  NodeOf <- MCNodeOf
INVARIANTS
  AtMostOneEffect
PROPERTIES
  KeepsPromise
  OrphanedLeaseLapses
\* Requests are finite: the system comes to rest when all have ended.
CHECK_DEADLOCK FALSE
