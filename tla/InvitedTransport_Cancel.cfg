\* The same tasks with every await cancellable: parked on the lock, while
\* connecting, waiting for the reply, in aclose(), and on entering the
\* finally block.  The model stops once the commands are spent and the
\* factory has exited.
CONSTANTS
  Tasks = {t1, t2}
  Closer = closer
  MayCancel = TRUE
  MaxConnects = 2
  MaxCalls = 3
  None = None
SPECIFICATION Spec
PROPERTY NoReconnectAfterClose
PROPERTY LockEventuallyGranted
CHECK_DEADLOCK FALSE
