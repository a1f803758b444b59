\* Peers that close before they are accepted.
CONSTANTS
  Handles = {h1, h2, h3}
  Backlog = 2
  Backpressure = FALSE
  MayCancel = FALSE
SPECIFICATION ServerSpec
PROPERTY ListenerReady
