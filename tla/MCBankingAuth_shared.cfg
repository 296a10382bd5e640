SPECIFICATION Spec
CONSTANTS
  Clients = {c1, c2}
  MAX_RETRIES = 1
  LIFETIME = 3
  EXPIRES_IN = 4
  MaxDelay = 1
  MaxNow = 9
SYMMETRY ClientSymmetry
INVARIANTS
  ServedTokenIsIssued
PROPERTIES
  StaleByDelaysOnly
