SPECIFICATION MCSpec
CONSTANTS
  Count = 3
  Level <- MCLevels
  PageSize = 2
  Sweepers = {cron, api}
  cron = cron
  api = api
  Cron = cron
  Callers = {admin}
  admin = admin
  Ages = {0, 200, 900}
  Asked = {4}
  MaxUses = 1
  MaxFaults = 1
\* the bound on the uses, and instances that all sleep, end a behaviour
CHECK_DEADLOCK FALSE
PROPERTIES
  PriorityFollowsUse
  SweepSettles
  IdleSleeps
