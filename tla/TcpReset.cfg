\* A device that may be full when an orphan's reset is due.
CONSTANTS
  Handles = {h1, h2}
  Backlog = 1
  Backpressure = TRUE
  MayCancel = FALSE
SPECIFICATION FairSpec
PROPERTY OrphanResetsSent
