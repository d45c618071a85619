\* One caller that eventually stops the handler, the application sending
\* message_arrived (relayed as four notify requests) and user_vlob_updated,
\* statements that may fail.  Eight requests and responses in flight: two
\* relay bursts, so that a second burst meets the bound and a stop request
\* can sit behind committed NOTIFYs.  Once stop() has returned the handler
\* is gone and the system really stops: no deadlock check.
CONSTANTS
  Callers = {c1}
  Stoppers = {c1}
  Sendable = {"message_arrived", "user_vlob_updated"}
  MayFail = TRUE
  MaxQueue = 8
  None = None
SPECIFICATION Spec
INVARIANT TypeOK
INVARIANT CommittedNotifiesKept
CHECK_DEADLOCK FALSE
