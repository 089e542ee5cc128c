SPECIFICATION Spec
CONSTANTS
  Driver = {d1, d2}
  NoDriver = nobody
  Event <- MCEvent
  Config <- MCConfig
  MaxAccepted = 4
  MaxTime = 5
  MaxConfig = 4
INVARIANTS StreamTypeOK BufferBounded TracesRise StreamRises NothingOverdue
PROPERTY ImplementsFeed
