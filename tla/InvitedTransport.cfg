\* Two command tasks and the closing factory, without cancellation: every
\* lost connection is destroyed.  Three commands and two connections let a
\* command run after a destroy and after close, and both tasks queue.
\* The model stops once the commands are spent and the factory has exited.
CONSTANTS
  Tasks = {t1, t2}
  Closer = closer
  MayCancel = FALSE
  MaxConnects = 2
  MaxCalls = 3
  None = None
SPECIFICATION Spec
INVARIANT TypeOK
INVARIANT FailedTransportNeverReused
INVARIANT ReplyToOwnRequest
INVARIANT TransportClosedOnExit
CHECK_DEADLOCK FALSE
