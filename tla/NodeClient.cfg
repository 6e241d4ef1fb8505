SPECIFICATION Spec
CONSTANTS
  Callers = {c1}
  Checkers = {c2}
  Nodes = {n1, n2, n3}
  Stranger = x
  MaxNodes = 2
  HealthTtl = 1
  Expires = 2
  MaxReads = 1
  MaxTime = 2
  None = None
PROPERTIES OneNodePerValue FailureIsRemembered EveryRunEnds
