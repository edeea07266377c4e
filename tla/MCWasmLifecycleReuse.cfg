CONSTANTS
  k1 = k1
  k2 = k2
  k3 = k3
  c1 = c1
  c2 = c2
  c3 = c3
  c4 = c4
  Keys = {k1, k2, k3}
  Contexts = {c1, c2, c3, c4}
  KeyOf <- MCKeyOf
  Impersonates = FALSE
  None = None
SPECIFICATION Spec
CHECK_DEADLOCK FALSE
INVARIANTS RootsWaitForDone
