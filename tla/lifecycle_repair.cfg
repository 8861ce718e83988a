SPECIFICATION FairSpec
CONSTANTS
  Gateways = {g}
  Admins = {a}
  g = g
  a = a
  Probe = probe
  Crowded = TRUE
  OthersFail = TRUE
  MaxFaults = 1
PROPERTIES
  RunIsRepaired
  RestIsRepaired
  WaitEnds
