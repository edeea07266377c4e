CONSTANTS
  k1 = k1
  k2 = k2
  p1 = p1
  p2 = p2
  p3 = p3
  b1 = b1
  b2 = b2
  b3 = b3
  t1 = t1
  t2 = t2
  Callers = {t1, t2}
  VmKeys = {k1, k2}
  Plugins = {p1, p2, p3}
  VmKeyOf <- MCVmKeyOf
  Bases = {b1, b2, b3}
  None = None
  Expired = Expired
SPECIFICATION Spec
INVARIANTS TypeOK OneBasePerVmKey HandedOutWereCanaried
SYMMETRY Symmetry
