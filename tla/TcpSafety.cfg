\* Three sockets, a pool of two, with TX backpressure and cancellation.
CONSTANTS
  Handles = {h1, h2, h3}
  Backlog = 2
  Backpressure = TRUE
  MayCancel = TRUE
SPECIFICATION Spec
SYMMETRY HandleSymmetry
INVARIANTS OwnedOnce OrphansAreClosing NoLostWakeup
PROPERTY OrphansLeftToCleanup
\* after cancellation the reactor stops and the tasks may have nothing left
CHECK_DEADLOCK FALSE
