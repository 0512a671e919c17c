SPECIFICATION Spec
CONSTANTS
  r1 = r1
  r2 = r2
  r3 = r3
  p1 = p1
  p2 = p2
  o1 = o1
  k1 = k1
  k2 = k2
  a1 = a1
  a2 = a2
  b1 = b1
  None = None
  Corpus = {k1, k2}
  Artifact = {a1, a2, b1}
  Process = {p1}
  Request = {r1, r2}
  Operator = {o1}
  Editor <- MCEditor
  CorpusOf <- MCCorpusOf
  ProcessOf <- MCProcessOf
  BuiltFor <- MCBuiltFor
  BuildIfMissing = TRUE
  MaxSnapshots = 2
INVARIANTS
  PointerIsLoadable
  EvidenceIsTheNamedRelease
