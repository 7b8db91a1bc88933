SPECIFICATION SafeSpec
CONSTANTS
  c1 = c1
  c2 = c2
  c3 = c3
  on = on
  off = off
  Call = {c1, c2, c3}
  Host = {h1}
  Value = {on, off}
  Initial <- AllOnEverywhere
  Default <- AllOff
  Async = {}
  Endpoint = {"GetProcessorSettings", "SetFieldOfView"}
  ServerCode = {"kSuccess", "kParameterOutOfRange"}
  MaxVersions = 2
INVARIANTS
  TypeOK
  AtMostOnce
  ResponseIsTrue
  FreshSettings
SYMMETRY Interchangeable
