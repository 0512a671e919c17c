SPECIFICATION CallFairSpec
CONSTRAINT AtMostTwo
CONSTANTS
  r1 = r1
  r2 = r2
  r3 = r3
  n1 = n1
  k1 = k1
  k2 = k2
  t1 = t1
  f1 = f1
  f2 = f2
  None = None
  Request = {r1, r2, r3}
  Node = {n1}
  Key = {k1, k2}
  Fingerprint = {f1, f2}
  Ticket = {t1}
  MaxVersion = 1
  KeyOf <- MCKeyOf
  PrintOf <- MCPrintOf
  NodeOf <- MCNodeOf
  TicketOf <- MCTicketOf
INVARIANTS
  RunIffCommitted
  OneRunPerVersion
PROPERTIES
  RespectsIdempotency
  JoinerReleased
\* Requests are finite: the system comes to rest when all have ended.
CHECK_DEADLOCK FALSE
