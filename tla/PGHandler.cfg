\* Two concurrent callers sharing respqueue, statements that may fail (and
\* abort the connection).  Without signals each call puts one request and
\* takes one response, so at most two are ever in flight.
\* Signals and stop() are left to PGHandler_Stop.cfg; who gets a response
\* eventually is not checked: get_response gives no fairness among callers.
CONSTANTS
  Callers = {c1, c2}
  Stoppers = {}
  Sendable = {}
  MayFail = TRUE
  MaxQueue = 2
  None = None
SPECIFICATION Spec
INVARIANT WaitersCovered
