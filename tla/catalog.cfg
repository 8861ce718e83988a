SPECIFICATION CatalogSpec
CONSTANTS
  w1 = w1
  w2 = w2
  p = p
  q = q
  z = z
  Workers = {w1, w2}
  Asked <- MCAsked
  Cleaned <- MCCleaned
  Edits <- MCEdits
  Listed <- MCListed
  MaxFaults = 1
  MaxRequests = 3
SYMMETRY MCSymmetry
\* every request has been sent and answered
CHECK_DEADLOCK FALSE
INVARIANTS
  FailsForCause
  CreatedIsServed
PROPERTIES
  EditsTakeEffect
