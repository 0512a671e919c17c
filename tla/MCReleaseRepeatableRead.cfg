SPECIFICATION Spec
CONSTANTS
  base = base
  x1 = x1
  x2 = x2
  c1 = c1
  c2 = c2
  c3 = c3
  c4 = c4
  c5 = c5
  n1 = n1
  n2 = n2
  q1 = q1
  None = None
  Release = {base, x1, x2}
  Baseline = base
  Command = {c1, c2, c3, c4, c5}
  Node = {n1}
  Reader = {}
  Levels = {"REPEATABLE READ"}
  MaxVersion = 3
SYMMETRY Commands
PROPERTIES
  SwitchArchivesPrevious
\* Each command is sent once: the system comes to rest.
CHECK_DEADLOCK FALSE
