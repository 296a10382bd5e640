SPECIFICATION FairSpec
CONSTANTS
  NONE = NONE
  NOOP = NOOP
  Environments <- MCEnvironments
  Instrumentors = {}
  Addresses = {a1, a2}
  MaxSetups = 2
  Clients = {c1}
INVARIANTS
  TypeOK
  NoOrphanExporter
  CleanSetUpCounts
  ServesWhenWired
  OkIsCurrent
  OutageIsCurrent
PROPERTIES
  ImplementsAvailability
  EveryRequestIsAnswered
