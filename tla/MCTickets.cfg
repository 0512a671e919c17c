SPECIFICATION MCSpec
CONSTANTS
  Command = {c1, c2, c3}
  c3 = c3
  ActorOf <- MCActorOf
  NoteId = {m1}
  Text = {x1, x2}
  Stamp = {0, 1}
  None = None
  Tickets = {1, 2}
  Slot = {s1, s2}
  PageSize = 1
  MaxVersion = 2
  MaxActs = 3
SYMMETRY Slots
INVARIANTS
  AuditTellsEveryVersion
  QueueAnswersTheQuery
  LoadingIsAnswered
PROPERTIES
  FinishedStaysFinished
  ReviewIsCurrent
  RefusedOnlyWhenStale
  OlderOnlyByCreation
\* Each command is sent once, and the user acts a bounded number of times: the system
\* comes to rest.
CHECK_DEADLOCK FALSE
