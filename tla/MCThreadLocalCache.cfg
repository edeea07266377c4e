CONSTANTS
  k1 = k1
  k2 = k2
  p1 = p1
  p2 = p2
  p3 = p3
  v1 = v1
  v2 = v2
  v3 = v3
  VmKeys = {k1, k2}
  Plugins = {p1, p2, p3}
  VmKeyOf <- MCVmKeyOf
  Vms = {v1, v2, v3}
  GcChunk = 3
  MaxQueue = 7
  ForeignCalls = FALSE
  Absent = Absent
  Expired = Expired
SPECIFICATION Spec
SYMMETRY Symmetry
INVARIANT QueuesCoverCaches
INVARIANT CachesAgree
INVARIANT NoFailedVmCached
INVARIANT OneHealthyVm
