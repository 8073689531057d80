\* One pin whose wait is dropped beside another that is waited on; the handler is taken at once.
CONSTANTS
  Pin = {p1, p2}
  Level = {p1}
  Hand = {}
  CanDrop = {p1, p2}
  Late = FALSE
SPECIFICATION Spec
CHECK_DEADLOCK FALSE
INVARIANT NeverStuck
