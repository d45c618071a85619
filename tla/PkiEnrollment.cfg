\* Two concurrent request handlers, one certificate, two enrollment ids
\* (submit, accept, revoke, re-submit, re-accept; or submit and a forced
\* re-submit cancelling it), two user ids, a quota of one active user, and
\* two submission times, so that a cancellation stamped with the wrong time
\* is told apart.
CONSTANTS
  EnrollmentIds = {e1, e2}
  Certs = {c1}
  UserIds = {u1, u2}
  Sessions = {s1, s2}
  ActiveUsersLimit = 1
  Times = {1, 2}
  None = None
SPECIFICATION Spec
INVARIANT TypeOK
INVARIANT AtMostOneLiveEnrollmentPerCert
INVARIANT AcceptedUserOwned
PROPERTY TerminalStateFinal
PROPERTY RequestsComplete
PROPERTY ImplementsWorkflow
