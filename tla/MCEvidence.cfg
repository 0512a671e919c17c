SPECIFICATION MCSpec
CONSTANTS
  Rows = 4
  DocumentOf <- MCDocumentOf
  AnchorOf <- MCAnchorOf
  NoAnchor = "none"
  Cases <- MCCases
  TopN = 3
  TopK = 2
  Run = {r1, r2}
  Directory = {d1, d2}
  Queries = 2
  Absent = Absent
  Unfilled = Unfilled
  p1 = p1
  p2 = p2
  Publisher = {p1, p2}
  Validator = {v1}
  None = None
  RequestOf <- MCRequestOf
  high = high
  low = low
  advisory = advisory
  Images = 2
  Vulnerability = {high, advisory, low}
  Severe = {high, advisory}
  Cve = {high, low}
  OtherReports <- MCOtherReports
SYMMETRY RunsAndDirectories
INVARIANTS
  DiagnosisBoundsEvaluation
  SignificantIsConclusive
  PaidOncePerOutput
  EvidenceIsOneExecution
  AcceptedIsOnePublication
  ClaimIsKept
  SealedStaysVerifiable
  VerdictAgrees
\* Commands end.
CHECK_DEADLOCK FALSE
