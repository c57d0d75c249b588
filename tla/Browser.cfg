SPECIFICATION Spec
CONSTANTS
  Pages = {1, 2}
  Conns = {11, 12, 13}
  NoConn = none
  Gone = gone
  Blank = blank
  QueueBound = 2
  MaxClients = 2
  Retries = 1
  MaxVersion = 2
INVARIANTS TypeOK NothingLost
PROPERTIES KeepsViewFresh LostSurfaceEndsComparison
