SPECIFICATION Spec
CONSTANTS
  c1 = c1
  c2 = c2
  c3 = c3
  on = on
  off = off
  Call = {c1, c2}
  Host = {h1, h2}
  Value = {on, off}
  Initial <- AllOnEverywhere
  Default <- AllOff
  Async = {c2}
  Endpoint = {"GetProcessorSettings", "SetBottomDetection"}
  ServerCode = {"kSuccess", "kUnknownError"}
  MaxVersions = 1
INVARIANTS
  AtMostOnce
PROPERTIES
  EveryCallEnds
  ImplementsRemoteCalls
