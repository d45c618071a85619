-------------------------- MODULE EnrollmentWorkflow --------------------------
(***************************************************************************)
(* What the enrollment component promises (spec 4.3): every submit, reject *)
(* and accept is one atomic step on the enrollment records and the user    *)
(* table, taken when its conditions hold, and a failing call changes       *)
(* nothing.  No locks, sessions or steps of a transaction appear here;     *)
(* PkiEnrollment implements this specification (ImplementsWorkflow).       *)
(***************************************************************************)
EXTENDS Naturals, FiniteSets

CONSTANTS EnrollmentIds, Certs, UserIds, ActiveUsersLimit, None

VARIABLES
  rows,   \* rows[e]: None or [state, cert, accepted]
  users   \* users[u] \in {"absent", "active", "revoked"}

Live(e, st) == rows[e] # None /\ rows[e].state = st

\* the SUBMITTED records of certificate c
Pending(c) == {e \in EnrollmentIds : Live(e, "SUBMITTED") /\ rows[e].cert = c}

\* the ACCEPTED records of c whose created user is not revoked
Admitted(c) ==
  {e \in EnrollmentIds : Live(e, "ACCEPTED") /\ rows[e].cert = c
                         /\ users[rows[e].accepted] # "revoked"}

Init ==
  /\ rows = [e \in EnrollmentIds |-> None]
  /\ users = [u \in UserIds |-> "absent"]

\* steps 1-3 of submit: a fresh id, no admitted record of c, and no pending
\* one unless forced; the pending ones are cancelled, a new one inserted
SubmitStep(e, c, force) ==
  /\ rows[e] = None
  /\ Admitted(c) = {}
  /\ force \/ Pending(c) = {}
  /\ rows' = [f \in EnrollmentIds |->
               IF f = e THEN [state |-> "SUBMITTED", cert |-> c, accepted |-> None]
               ELSE IF f \in Pending(c) THEN [rows[f] EXCEPT !.state = "CANCELLED"]
               ELSE rows[f]]
  /\ UNCHANGED users

RejectStep(e) ==
  /\ Live(e, "SUBMITTED")
  /\ rows' = [rows EXCEPT ![e].state = "REJECTED"]
  /\ UNCHANGED users

\* acceptance creates the user in the same transaction, within the quota
AcceptStep(e, u) ==
  /\ Live(e, "SUBMITTED")
  /\ users[u] = "absent"
  /\ Cardinality({v \in UserIds : users[v] = "active"}) < ActiveUsersLimit
  /\ rows' = [rows EXCEPT ![e] = [@ EXCEPT !.state = "ACCEPTED", !.accepted = u]]
  /\ users' = [users EXCEPT ![u] = "active"]

Revoke(u) ==
  /\ users[u] = "active"
  /\ users' = [users EXCEPT ![u] = "revoked"]
  /\ UNCHANGED rows

Next ==
  \/ \E e \in EnrollmentIds, c \in Certs, force \in BOOLEAN : SubmitStep(e, c, force)
  \/ \E e \in EnrollmentIds : RejectStep(e)
  \/ \E e \in EnrollmentIds, u \in UserIds : AcceptStep(e, u)
  \/ \E u \in UserIds : Revoke(u)

Spec == Init /\ [][Next]_<<rows, users>>
=============================================================================
