\* A stream that is aborted and dropped, on an uncongested device.
CONSTANTS
  Handles = {h1, h2}
  Backlog = 1
  Backpressure = FALSE
  MayCancel = FALSE
SPECIFICATION FairSpec
PROPERTY AbortResetsSent
