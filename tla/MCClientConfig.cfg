\* One name of each enumeration, a second message, and a name of none.
SPECIFICATION Spec
CONSTANTS
  Keys = {"HydrophoneData", "VesselInfo", "GetVesselInfo", "GetHistoryData", "Typo"}
  Ports <- MCPorts
  Subscriptions <- MCSubscriptions
  Timeouts <- MCTimeouts
  NaN = nan
  MaxInt = 8
  None = none
INVARIANTS
  OrderIsImmaterial
  OnlyBadAddressesFail
  CallsGiveUp
CHECK_DEADLOCK FALSE
