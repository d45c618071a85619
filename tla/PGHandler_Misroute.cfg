\* Two concurrent callers, no signals, no failures: does each caller get
\* the response to its own request?
CONSTANTS
  Callers = {c1, c2}
  Stoppers = {}
  Sendable = {}
  MayFail = FALSE
  MaxQueue = 4
  None = None
SPECIFICATION Spec
INVARIANT ResponseToOwnRequest
