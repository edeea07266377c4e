CONSTANTS
  c1 = c1
  c2 = c2
  c3 = c3
  vmA = vmA
  vmB = vmB
  k1 = k1
  Clients = {c1, c2, c3}
  VmIds = {vmA, vmB}
  VmIdOf <- MCVmIdOf
  Keys = {k1, k2}
  k2 = k2
  Values = {v1}
  v1 = v1
  NoEntry = NoEntry
  CasMod = 4
  MaxWrites = 4
SPECIFICATION Spec
INVARIANT ConditionalStoreMatched
SYMMETRY Symmetry
