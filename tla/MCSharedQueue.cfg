CONSTANTS
  r1 = r1
  r2 = r2
  r3 = r3
  vmA = vmA
  vmB = vmB
  q = q
  m1 = m1
  m2 = m2
  Roots = {r1, r2, r3}
  VmIds = {vmA, vmB}
  RootVmId <- MCRootVmId
  Names = {q}
  Msgs = {m1, m2}
  NoQueue = NoQueue
  TokMod = 3
  MaxSends = 2
  MaxDeaths = 1
SPECIFICATION FairSpec
INVARIANTS TypeOK MapsAgree TokenKeepsMeaning NoStrandedMessage
PROPERTIES ImplementsChannels QueuesDrain
