SPECIFICATION Spec
CONSTANTS
  a = a
  t = t
  Pages = 2
  Sessions <- BothSessions
  Transient <- TransientSessions
  MaxLinks = 2
  MaxAttaches = 2
  MaxOutputs = 2
INVARIANTS TypeOK EveryShellHasAKeeper OutputIsSent
CHECK_DEADLOCK FALSE
