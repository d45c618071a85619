\* One caller, the application sending message_arrived (whose relay handlers
\* NOTIFY every channel): is every NOTIFY eventually delivered to the
\* listening poll loop?
CONSTANTS
  Callers = {c1}
  Stoppers = {}
  Sendable = {"message_arrived"}
  MayFail = FALSE
  MaxQueue = 6
  None = None
SPECIFICATION Spec
PROPERTY NotifiesDelivered
