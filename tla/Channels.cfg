SPECIFICATION Spec
CONSTANTS
  MaxOutPerHour = 1
  MaxSends = 2
  MaxInbound = 2
  MaxRelayFaults = 1
  Devices = {d1, d2}
  Notices <- MCNotices
  MaxRegs = 3
  MaxApnsFaults = 1
SYMMETRY ChannelSymmetry
INVARIANTS
  RelayInv
  
\* Sends and registrations are bounded: every behaviour comes to rest.
CHECK_DEADLOCK FALSE
