SPECIFICATION FairSpec
CONSTANTS
  t1 = t1
  t2 = t2
  t3 = t3
  q1 = q1
  p1 = p1
  p2 = p2
  c1 = c1
  None = None
  Task = {t1, t2, t3}
  Query = {q1}
  Process = {p1, p2}
  Corpus = {c1}
  Small = {t3}
  Batches = 2
  ProcessOf <- MCProcessOf
  CorpusOf <- MCCorpusOf
  Budget <- MCBudget
INVARIANTS
  CallsAreRecorded
  SucceededIsPublished
PROPERTIES
  KeepsTaskContract
  LockIsReleased
\* Each POST is sent once: the system comes to rest when none is left.
CHECK_DEADLOCK FALSE
