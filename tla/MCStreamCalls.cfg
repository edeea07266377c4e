CONSTANTS
  http = http
  open = open
  net = net
  Streams = {http, open, net}
  KindsOf <- MCKindsOf
  FailOpen = {open}
  MaxDepth = 3
  NoStream = NoStream
SPECIFICATION Spec
INVARIANT LocalResponseStops
INVARIANT StopIsOwed
INVARIANT FailedVmStopsOrOpens
