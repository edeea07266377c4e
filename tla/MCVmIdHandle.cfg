CONSTANTS
  w1 = w1
  w2 = w2
  w3 = w3
  w4 = w4
  vmA = vmA
  vmB = vmB
  Threads = {t1, t2}
  Wasms = {w1, w2, w3, w4}
  VmIds = {vmA, vmB}
  WasmVmId <- MCWasmVmId
  Stores = {sharedData, sharedQueue}
  NoHandle = NoHandle
SPECIFICATION HandlesFairSpec
INVARIANTS HandlesTypeOK NothingOutlivesItsHandle MapNamesNoGhost
PROPERTY ReleasedHandlesDie
CHECK_DEADLOCK FALSE
