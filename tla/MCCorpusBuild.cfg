SPECIFICATION MCSpec
CONSTANTS
  t1 = t1
  t2 = t2
  t3 = t3
  q1 = q1
  p1 = p1
  p2 = p2
  b1 = b1
  b2 = b2
  None = None
  Unreadable = Unreadable
  Empty = Empty
  Garbled = Garbled
  Task = {t1, t2, t3}
  Query = {q1}
  Process = {p1, p2}
  Stepped = {t3}
  ProcessOf <- MCProcessOf
  Builder = {b1, b2}
  Document = {1, 2}
  Manifest <- MCManifest
  Piece = {"x"}
  Text <- MCText
  MaxEdits = 1
INVARIANTS
  SucceededIsSelectable
  AcceptedIsOneBuild
PROPERTIES
  KeepsTaskContract
  RootComesFree
\* Each POST is sent once: the system comes to rest when none is left.
CHECK_DEADLOCK FALSE
