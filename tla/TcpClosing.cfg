\* An uncongested device: what must eventually happen.
CONSTANTS
  Handles = {h1, h2}
  Backlog = 1
  Backpressure = FALSE
  MayCancel = FALSE
SPECIFICATION FairSpec
PROPERTIES OrphansRemoved CloseReturns WaitConnectedReturns
