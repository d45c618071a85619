\* Cancellation delivered in transport.aclose() of the except clause: the
\* stream is closed, but transport = None never runs, and the next command
\* is handed the failed transport.
CONSTANTS
  Tasks = {t1, t2}
  Closer = closer
  MayCancel = TRUE
  MaxConnects = 2
  MaxCalls = 3
  None = None
SPECIFICATION Spec
INVARIANT FailedTransportNeverReused
CHECK_DEADLOCK FALSE
