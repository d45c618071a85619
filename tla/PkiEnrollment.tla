---------------------------- MODULE PkiEnrollment ----------------------------
(***************************************************************************)
(* PGPkiEnrollmentComponent (backend/postgresql/pki.py): the enrollment    *)
(* workflow of one organization.  Concurrent request handlers (Sessions)   *)
(* run submit, reject and accept, each in one transaction that first takes *)
(* the organization's user/device write lock (q_take_user_device_write_lock*)
(* an xact-scoped lock released at commit or rollback).  A transaction is  *)
(* modelled as: take the lock, read and decide (raise, or go on), write    *)
(* and commit.  Writes only happen in the last step, so a raise needs no   *)
(* undo.  The user_ table is shared with the user component: accept       *)
(* creates a user in the same transaction (q_create_user), and users may  *)
(* be revoked at any time by an administrator (RevokeUser).                *)
(***************************************************************************)
EXTENDS Naturals, FiniteSets, SequencesExt

CONSTANTS
  EnrollmentIds,     \* enrollment ids clients may use
  Certs,             \* submitter certificates (identified by their sha1)
  UserIds,           \* user ids an accepter may create
  Sessions,          \* request handlers running concurrently
  ActiveUsersLimit,  \* organization quota of active (unrevoked) users
  Times,             \* the DateTime argument submitted_on of submit
  None

VARIABLES
  enrollment,  \* pki_enrollment: enrollment[e] is None or a row (Record)
  users,       \* user_: users[u] \in {"absent", "active", "revoked"}
  lock,        \* session holding the organization write lock, or None
  pc,          \* pc[s] \in {"idle", "lock", "check", "commit"}
  call,        \* call[s]: the request session s serves, or NoCall
  toCancel     \* toCancel[s]: SUBMITTED rows a forced submit will cancel

vars == <<enrollment, users, lock, pc, call, toCancel>>

States == {"SUBMITTED", "CANCELLED", "REJECTED", "ACCEPTED"}
OptTime == Times \cup {None}

\* a row: the columns the component reads and writes.  info_cancelled is
\* reduced to its timestamp; rejected_on, accepted_on and the rest of
\* info_accepted are written once and never read back by the component,
\* and are left out.
Record == [state : States, cert : Certs, accepted : UserIds \cup {None},
           id : 1..Cardinality(EnrollmentIds), submitted_on : Times, cancelled_on : OptTime]

SubmitCalls == [op : {"submit"}, eid : EnrollmentIds, cert : Certs, force : BOOLEAN, user : {None}, on : Times]
RejectCalls == [op : {"reject"}, eid : EnrollmentIds, cert : {None}, force : {FALSE}, user : {None}, on : {None}]
AcceptCalls == [op : {"accept"}, eid : EnrollmentIds, cert : {None}, force : {FALSE}, user : UserIds, on : {None}]
InfoCalls == [op : {"info"}, eid : EnrollmentIds, cert : {None}, force : {FALSE}, user : {None}, on : {None}]
Calls == SubmitCalls \cup RejectCalls \cup AcceptCalls \cup InfoCalls
NoCall == [op |-> "none", eid |-> None, cert |-> None, force |-> FALSE, user |-> None, on |-> None]

InState(e, st) == enrollment[e] # None /\ enrollment[e].state = st

\* the rows of the organization (what _q_get_pki_enrollment_for_update finds)
Rows == {e \in EnrollmentIds : enrollment[e] # None}

\* _q_get_pki_enrollment_from_state: the rows in state st, ORDER BY _id ASC
FromState(st) == SetToSortSeq({e \in Rows : InState(e, st)},
                              LAMBDA a, b : enrollment[a].id < enrollment[b].id)

\* list(): the SUBMITTED rows of the organization, in insertion order
List == FromState("SUBMITTED")

\* rows of a certificate in a given state (_q_get_pki_enrollment_from_certificate_sha1)
WithCert(c, st) == {e \in EnrollmentIds : InState(e, st) /\ enrollment[e].cert = c}

\* ACCEPTED rows of c whose accepted device belongs to a user not revoked
\* (_q_get_user_from_device_id, then User.is_revoked)
Enrolled(c) == {e \in WithCert(c, "ACCEPTED") : users[enrollment[e].accepted] # "revoked"}

ActiveUsers == {u \in UserIds : users[u] = "active"}

\* _build_enrollment_info: the projection info() returns for a row
BuildEnrollmentInfo(r) ==
  CASE r.state = "SUBMITTED" -> [info |-> "Submitted", submitted_on |-> r.submitted_on]
    [] r.state = "CANCELLED" -> [info |-> "Cancelled", submitted_on |-> r.submitted_on,
                                 cancelled_on |-> r.cancelled_on]
    [] r.state = "REJECTED" -> [info |-> "Rejected", submitted_on |-> r.submitted_on]
    [] r.state = "ACCEPTED" -> [info |-> "Accepted", submitted_on |-> r.submitted_on]

\* _q_submit_pki_enrollment: the new row, with the next serial _id
SubmitRow(x) ==
  [state |-> "SUBMITTED", cert |-> x.cert, accepted |-> None, id |-> Cardinality(Rows) + 1,
   submitted_on |-> x.on, cancelled_on |-> None]

\* _q_cancel_pki_enrollment, _q_reject_pki_enrollment, _q_accept_pki_enrollment
CancelRow(r, t) == [r EXCEPT !.state = "CANCELLED", !.cancelled_on = t]
RejectRow(r) == [r EXCEPT !.state = "REJECTED"]
AcceptRow(r, u) == [r EXCEPT !.state = "ACCEPTED", !.accepted = u]

\* Mutants of the definitions below, used to show the properties bite.
LockAvailableAlways(s) == TRUE
SubmitRaisesIgnoringAccepted(x) == WithCert(x.cert, "SUBMITTED") # {} /\ ~x.force
StillAvailableIfExists(e) == enrollment[e] # None
CreateUserFailsOnlyOnLimit(u) == Cardinality(ActiveUsers) >= ActiveUsersLimit
RaiseKeepingLock(s) ==
  /\ pc' = [pc EXCEPT ![s] = "idle"]
  /\ call' = [call EXCEPT ![s] = NoCall]
  /\ toCancel' = [toCancel EXCEPT ![s] = {}]
  /\ UNCHANGED <<enrollment, users, lock>>

\* q_take_user_device_write_lock can be granted to s
LockAvailable(s) == lock = None

\* the submit scan raises CertificateAlreadySubmitted or AlreadyEnrolled
SubmitRaises(x) ==
  \/ Enrolled(x.cert) # {}
  \/ WithCert(x.cert, "SUBMITTED") # {} /\ ~x.force

\* reject/accept go on only for a row that exists and is still SUBMITTED
StillAvailable(e) == InState(e, "SUBMITTED")

\* q_create_user raises UserAlreadyExistsError or UserActiveUsersLimitReached
CreateUserFails(u) ==
  \/ users[u] # "absent"
  \/ Cardinality(ActiveUsers) >= ActiveUsersLimit

\* end of the transaction (commit or rollback): the lock is released
Finish(s) ==
  /\ pc' = [pc EXCEPT ![s] = "idle"]
  /\ call' = [call EXCEPT ![s] = NoCall]
  /\ toCancel' = [toCancel EXCEPT ![s] = {}]
  /\ lock' = None

\* a failure path that raises before any write
Raise(s) == Finish(s) /\ UNCHANGED <<enrollment, users>>

Init ==
  /\ enrollment = [e \in EnrollmentIds |-> None]
  /\ users = [u \in UserIds |-> "absent"]
  /\ lock = None
  /\ pc = [s \in Sessions |-> "idle"]
  /\ call = [s \in Sessions |-> NoCall]
  /\ toCancel = [s \in Sessions |-> {}]

\* a request handler calls submit, reject, accept or info:
\* conn.transaction() opens; info takes no lock
Request(s) ==
  /\ pc[s] = "idle"
  /\ \E x \in Calls :
       /\ call' = [call EXCEPT ![s] = x]
       /\ pc' = [pc EXCEPT ![s] = IF x.op = "info" THEN "read" ELSE "lock"]
  /\ UNCHANGED <<enrollment, users, lock, toCancel>>

TakeLock(s) ==
  /\ pc[s] = "lock"
  /\ LockAvailable(s)
  /\ lock' = s
  /\ pc' = [pc EXCEPT ![s] = "check"]
  /\ UNCHANGED <<enrollment, users, call, toCancel>>

\* submit: IdAlreadyUsed, then the scan of the certificate's earlier attempts
SubmitCheck(s) ==
  LET x == call[s] IN
  /\ pc[s] = "check" /\ x.op = "submit"
  /\ \/ /\ x.eid \in Rows
        /\ Raise(s)
     \/ /\ x.eid \notin Rows /\ SubmitRaises(x)
        /\ Raise(s)
     \/ /\ x.eid \notin Rows /\ ~SubmitRaises(x)
        /\ toCancel' = [toCancel EXCEPT ![s] = WithCert(x.cert, "SUBMITTED")]
        /\ pc' = [pc EXCEPT ![s] = "commit"]
        /\ UNCHANGED <<enrollment, users, lock, call>>

\* submit: _q_cancel_pki_enrollment on the earlier SUBMITTED attempts (as of
\* this submitted_on), _q_submit_pki_enrollment (the serial _id is the next
\* one), commit.  (The UNIQUE enrollment_id cannot fire: the lock has been
\* held since the IdAlreadyUsed check.)
SubmitCommit(s) ==
  LET x == call[s] IN
  /\ pc[s] = "commit" /\ x.op = "submit"
  /\ enrollment' = [e \in EnrollmentIds |->
       CASE e = x.eid -> SubmitRow(x)
         [] e \in toCancel[s] -> CancelRow(enrollment[e], x.on)
         [] OTHER -> enrollment[e]]
  /\ Finish(s)
  /\ UNCHANGED users

\* info: one SELECT in its own transaction; it returns NotFound or
\* BuildEnrollmentInfo of the row, and changes nothing
InfoRead(s) ==
  /\ pc[s] = "read"
  /\ pc' = [pc EXCEPT ![s] = "idle"]
  /\ call' = [call EXCEPT ![s] = NoCall]
  /\ UNCHANGED <<enrollment, users, lock, toCancel>>

\* reject and accept: SELECT ... FOR UPDATE, NotFound / NoLongerAvailable
DecideCheck(s) ==
  LET x == call[s] IN
  /\ pc[s] = "check" /\ x.op \in {"reject", "accept"}
  /\ \/ /\ ~StillAvailable(x.eid)
        /\ Raise(s)
     \/ /\ StillAvailable(x.eid)
        /\ pc' = [pc EXCEPT ![s] = "commit"]
        /\ UNCHANGED <<enrollment, users, lock, call, toCancel>>

\* reject: _q_reject_pki_enrollment, commit
RejectCommit(s) ==
  LET x == call[s] IN
  /\ pc[s] = "commit" /\ x.op = "reject"
  /\ enrollment' = [enrollment EXCEPT ![x.eid] = RejectRow(@)]
  /\ Finish(s)
  /\ UNCHANGED users

\* accept: q_create_user, then _q_accept_pki_enrollment; a failure of
\* q_create_user aborts the whole transaction
AcceptCommit(s) ==
  LET x == call[s] IN
  /\ pc[s] = "commit" /\ x.op = "accept"
  /\ \/ /\ CreateUserFails(x.user)
        /\ Raise(s)
     \/ /\ ~CreateUserFails(x.user)
        /\ users' = [users EXCEPT ![x.user] = "active"]
        /\ enrollment' = [enrollment EXCEPT ![x.eid] = AcceptRow(@, x.user)]
        /\ Finish(s)

\* the user component revokes a user (outside this file)
RevokeUser(u) ==
  /\ users[u] = "active"
  /\ users' = [users EXCEPT ![u] = "revoked"]
  /\ UNCHANGED <<enrollment, lock, pc, call, toCancel>>

Step(s) ==
  \/ TakeLock(s)
  \/ SubmitCheck(s) \/ SubmitCommit(s) \/ InfoRead(s)
  \/ DecideCheck(s) \/ RejectCommit(s) \/ AcceptCommit(s)

Next ==
  \/ \E s \in Sessions : Request(s) \/ Step(s)
  \/ \E u \in UserIds : RevokeUser(u)

(***************************************************************************)
(* PostgreSQL grants a contended lock to its waiters in queue order, so a  *)
(* session waiting for the write lock gets it eventually although the lock*)
(* is only intermittently free: strong fairness.  Queries of a session    *)
(* holding the lock, and info's query, always run: weak fairness on its   *)
(* other steps.                                                            *)
(***************************************************************************)
Fairness ==
  \A s \in Sessions :
    /\ SF_vars(TakeLock(s))
    /\ WF_vars(SubmitCheck(s) \/ SubmitCommit(s) \/ InfoRead(s) \/ DecideCheck(s)
               \/ RejectCommit(s) \/ AcceptCommit(s))

Spec == Init /\ [][Next]_vars /\ Fairness

-----------------------------------------------------------------------------
\* row types, and the shape submit asserts and _build_enrollment_info reads:
\* accepted and each info_* column are set exactly in their state
TypeOK ==
  /\ enrollment \in [EnrollmentIds -> Record \cup {None}]
  /\ \A e \in Rows :
       LET r == enrollment[e] IN
       /\ (r.state = "ACCEPTED") = (r.accepted # None)
       /\ (r.state = "CANCELLED") = (r.cancelled_on # None)
  /\ users \in [UserIds -> {"absent", "active", "revoked"}]
  /\ lock \in Sessions \cup {None}
  /\ pc \in [Sessions -> {"idle", "lock", "check", "commit", "read"}]
  /\ call \in [Sessions -> Calls \cup {NoCall}]
  /\ toCancel \in [Sessions -> SUBSET EnrollmentIds]

(***************************************************************************)
(* A certificate has at most one live enrollment: at most one row that is  *)
(* either listed by list() (SUBMITTED) or ACCEPTED with its user still     *)
(* unrevoked.  This is what submit's scan, the forced cancellation and the *)
(* write lock shared by submit, reject and accept together maintain,      *)
(* across concurrent requests and revocations.                             *)
(***************************************************************************)
AtMostOneLiveEnrollmentPerCert ==
  \A c \in Certs :
    Cardinality({e \in ToSet(List) : enrollment[e].cert = c} \cup Enrolled(c)) <= 1

(***************************************************************************)
(* An enrollment row is never removed, and once it has left SUBMITTED      *)
(* (cancelled by a forced submit, rejected or accepted) no request changes *)
(* it again: no two terminal transitions apply to one enrollment.          *)
(***************************************************************************)
TerminalStateFinal ==
  [][\A e \in EnrollmentIds :
       /\ enrollment[e] # None => enrollment'[e] # None
       /\ enrollment[e] # None /\ enrollment[e].state # "SUBMITTED"
            => enrollment'[e] = enrollment[e]]_enrollment

(***************************************************************************)
(* Every ACCEPTED enrollment names a user that accept created: that user   *)
(* exists, and no other ACCEPTED enrollment names the same user.           *)
(***************************************************************************)
AcceptedUserOwned ==
  \A e \in EnrollmentIds : InState(e, "ACCEPTED") =>
    /\ users[enrollment[e].accepted] # "absent"
    /\ \A f \in EnrollmentIds \ {e} :
         InState(f, "ACCEPTED") => enrollment[f].accepted # enrollment[e].accepted

(***************************************************************************)
(* Every submit, reject or accept returns, on its success path or on one of*)
(* its error paths: no session waits forever for the write lock.           *)
(***************************************************************************)
RequestsComplete == \A s \in Sessions : pc[s] # "idle" ~> pc[s] = "idle"

\* the records as spec 4.3 sees them: state, certificate, accepted user
AbstractRows ==
  [e \in EnrollmentIds |->
     IF enrollment[e] = None THEN None
     ELSE [state |-> enrollment[e].state, cert |-> enrollment[e].cert,
           accepted |-> enrollment[e].accepted]]

Workflow == INSTANCE EnrollmentWorkflow WITH rows <- AbstractRows

(***************************************************************************)
(* Refinement: seen through AbstractRows, every behaviour of the sessions  *)
(* is one of EnrollmentWorkflow, where each submit, reject and accept is   *)
(* a single atomic step taken only when its conditions hold.  The lock    *)
(* taken before submit's scan and reject/accept's SELECT ... FOR UPDATE   *)
(* is what keeps those conditions true until the commit, while other      *)
(* sessions and revocations run in between.                                *)
(***************************************************************************)
ImplementsWorkflow == Workflow!Spec
=============================================================================
