--------------------------- MODULE InvitedTransport ---------------------------
(***************************************************************************)
(* backend_invited_cmds_factory (core/backend_connection/invited.py): the  *)
(* one transport to the backend shared by every command of an invitation   *)
(* claimer.  A command enters _acquire_transport, which takes              *)
(* transport_lock (a trio.Lock: FIFO hand-off to the longest waiter), lazily *)
(* connects in _init_transport (refused with ClosedResourceError once the  *)
(* factory is closed), yields the transport to the command and, when the   *)
(* command raises BackendNotAvailable, destroys it.  Leaving the factory   *)
(* takes the lock, sets closed and destroys the transport.                 *)
(*                                                                         *)
(* Every await is a point where trio may deliver a Cancelled (a deadline   *)
(* of the caller, the claimer giving up): waiting for the lock, connecting, *)
(* waiting for the reply, and transport.aclose(), which closes the stream  *)
(* even when it is cancelled.  The command itself (cmds: send the request, *)
(* then read one reply from the stream) is not in the repository and is    *)
(* modelled from the spec: replies come back in request order, and a lost  *)
(* connection raises BackendNotAvailable.                                  *)
(***************************************************************************)
EXTENDS Naturals, Sequences

CONSTANTS
  Tasks,        \* trio tasks running commands of BackendInvitedCmds
  Closer,       \* the task leaving the factory (its finally block)
  MayCancel,    \* awaits may be cancelled
  MaxConnects,  \* bound on connect_as_invited calls
  MaxCalls,     \* bound on commands
  None

ASSUME Closer \notin Tasks

NoTransport == 0
Transports == 1..MaxConnects

VARIABLES
  owner,      \* transport_lock's owner (a task, Closer or None)
  waiters,    \* tasks parked on transport_lock, longest waiting first
  transport,  \* the factory's nonlocal transport (NoTransport for None)
  closed,     \* the factory's nonlocal closed
  conns,      \* transports created so far, numbered 1..conns
  aclosed,    \* transports whose aclose() ran
  failed,     \* transports that raised BackendNotAvailable to a command
  inflight,   \* tasks whose request is on the current transport, unanswered
  pc,         \* pc[t]: "idle", "waitLock", "connecting", "send", "recv", "destroying"
  got,        \* got[t]: the task whose request t's last reply answered
  closer,     \* the finally block: "open", "waitLock", "done"
  calls       \* commands started so far

vars == <<owner, waiters, transport, closed, conns, aclosed, failed, inflight,
          pc, got, closer, calls>>

\* The type invariant, with the mutual exclusion transport_lock provides.
TypeOK ==
  /\ owner \in Tasks \cup {Closer, None}
  /\ waiters \in Seq(Tasks \cup {Closer})
  /\ transport \in {NoTransport} \cup Transports
  /\ closed \in BOOLEAN
  /\ conns \in 0..MaxConnects
  /\ aclosed \subseteq 1..conns /\ failed \subseteq 1..conns
  /\ inflight \in Seq(Tasks)
  /\ pc \in [Tasks -> {"idle", "waitLock", "connecting", "send", "recv", "destroying"}]
  /\ got \in [Tasks -> Tasks \cup {None}]
  /\ closer \in {"open", "waitLock", "done"}
  /\ calls \in 0..MaxCalls
  \* only the owner of transport_lock is inside _acquire_transport
  /\ \A t \in Tasks : pc[t] \in {"connecting", "send", "recv", "destroying"} => owner = t

Init ==
  /\ owner = None
  /\ waiters = <<>>
  /\ transport = NoTransport
  /\ closed = FALSE
  /\ conns = 0
  /\ aclosed = {}
  /\ failed = {}
  /\ inflight = <<>>
  /\ pc = [t \in Tasks |-> "idle"]
  /\ got = [t \in Tasks |-> None]
  /\ closer = "open"
  /\ calls = 0

-----------------------------------------------------------------------------
(* transport_lock *)

\* acquire with the ownership test dropped
AcquireIgnoringOwner(x) ==
  /\ owner' = x
  /\ UNCHANGED waiters

\* acquire: taken at once when free and nobody is parked, else park
Acquire(x) ==
  IF owner = None /\ waiters = <<>>
    THEN owner' = x /\ UNCHANGED waiters
    ELSE waiters' = Append(waiters, x) /\ UNCHANGED owner

\* release without handing the lock to the parked tasks
ReleaseNoHandoff ==
  /\ owner' = None
  /\ UNCHANGED waiters

\* release: the longest waiter becomes the owner
Release ==
  IF waiters = <<>>
    THEN owner' = None /\ UNCHANGED waiters
    ELSE owner' = Head(waiters) /\ waiters' = Tail(waiters)

-----------------------------------------------------------------------------
(* _acquire_transport, one command *)

Call(t) ==
  /\ pc[t] = "idle"
  /\ calls < MaxCalls
  /\ Acquire(t)
  /\ pc' = [pc EXCEPT ![t] = "waitLock"]
  /\ calls' = calls + 1
  /\ UNCHANGED <<transport, closed, conns, aclosed, failed, inflight, got, closer>>

\* a Cancelled delivered while parked: trio unparks the task
CancelWait(t) ==
  /\ MayCancel
  /\ pc[t] = "waitLock" /\ owner # t
  /\ waiters' = SelectSeq(waiters, LAMBDA x : x # t)
  /\ pc' = [pc EXCEPT ![t] = "idle"]
  /\ UNCHANGED <<owner, transport, closed, conns, aclosed, failed, inflight, got, closer, calls>>

\* _init_transport without the closed check
InitTransportIgnoringClosed(t) ==
  /\ pc[t] = "waitLock" /\ owner = t
  /\ \/ transport # NoTransport /\ pc' = [pc EXCEPT ![t] = "send"] /\ UNCHANGED owner
     \/ transport = NoTransport /\ pc' = [pc EXCEPT ![t] = "connecting"] /\ UNCHANGED owner
  /\ UNCHANGED <<waiters, transport, closed, conns, aclosed, failed, inflight, got, closer, calls>>

\* _init_transport, on the lock: reuse the transport, refuse once closed
\* (ClosedResourceError leaves the lock), or connect
InitTransport(t) ==
  /\ pc[t] = "waitLock" /\ owner = t
  /\ \/ transport # NoTransport /\ pc' = [pc EXCEPT ![t] = "send"]
        /\ UNCHANGED <<owner, waiters>>
     \/ transport = NoTransport /\ closed /\ pc' = [pc EXCEPT ![t] = "idle"]
        /\ Release
     \/ transport = NoTransport /\ ~closed /\ pc' = [pc EXCEPT ![t] = "connecting"]
        /\ UNCHANGED <<owner, waiters>>
  /\ UNCHANGED <<transport, closed, conns, aclosed, failed, inflight, got, closer, calls>>

\* await connect_as_invited: a new transport, or BackendNotAvailable or a
\* cancellation raised before the assignment (transport stays None)
Connect(t) ==
  /\ pc[t] = "connecting"
  /\ \/ /\ conns < MaxConnects
        /\ conns' = conns + 1 /\ transport' = conns + 1 /\ inflight' = <<>>
        /\ pc' = [pc EXCEPT ![t] = "send"]
        /\ UNCHANGED <<owner, waiters>>
     \/ /\ pc' = [pc EXCEPT ![t] = "idle"] /\ Release
        /\ UNCHANGED <<conns, transport, inflight>>
  /\ UNCHANGED <<closed, aclosed, failed, got, closer, calls>>

\* the lock scoped to _init_transport only: released once the request is out
SendReleasing(t) ==
  /\ pc[t] = "send"
  /\ inflight' = Append(inflight, t)
  /\ pc' = [pc EXCEPT ![t] = "recv"]
  /\ Release
  /\ UNCHANGED <<failed, transport, closed, conns, aclosed, got, closer, calls>>

\* the command sends its request on the yielded transport; a closed or lost
\* stream raises BackendNotAvailable into the except clause
Send(t) ==
  /\ pc[t] = "send"
  /\ \/ /\ transport \notin aclosed \cup failed
        /\ inflight' = Append(inflight, t)
        /\ pc' = [pc EXCEPT ![t] = "recv"]
        /\ UNCHANGED failed
     \/ /\ failed' = failed \cup {transport}
        /\ pc' = [pc EXCEPT ![t] = "destroying"]
        /\ UNCHANGED inflight
  /\ UNCHANGED <<owner, waiters, transport, closed, conns, aclosed, got, closer, calls>>

\* the command reads the next reply on the stream (the lock is released
\* when it returns), the connection is lost, or the wait is cancelled and
\* the exception leaves the lock with the transport kept
Recv(t) ==
  /\ pc[t] = "recv"
  /\ \/ /\ inflight # <<>>
        /\ got' = [got EXCEPT ![t] = Head(inflight)]
        /\ inflight' = Tail(inflight)
        /\ pc' = [pc EXCEPT ![t] = "idle"] /\ Release
        /\ UNCHANGED failed
     \/ /\ failed' = failed \cup {transport}
        /\ pc' = [pc EXCEPT ![t] = "destroying"]
        /\ UNCHANGED <<got, inflight, owner, waiters>>
     \/ /\ MayCancel
        /\ pc' = [pc EXCEPT ![t] = "idle"] /\ Release
        /\ UNCHANGED <<got, inflight, failed>>
  /\ UNCHANGED <<transport, closed, conns, aclosed, closer, calls>>

\* _destroy_transport with the reset left out
DestroyKeepingTransport ==
  /\ aclosed' = aclosed \cup {transport}
  /\ UNCHANGED transport

\* _destroy_transport: await transport.aclose() closes the stream even when
\* cancelled; transport = None runs only when the await returns
DestroyTransport ==
  /\ aclosed' = aclosed \cup (IF transport = NoTransport THEN {} ELSE {transport})
  /\ \/ transport' = NoTransport
     \/ MayCancel /\ UNCHANGED transport

\* except BackendNotAvailable: destroy, re-raise, leave the lock
Destroy(t) ==
  /\ pc[t] = "destroying"
  /\ DestroyTransport
  /\ pc' = [pc EXCEPT ![t] = "idle"] /\ Release
  /\ UNCHANGED <<closed, conns, failed, inflight, got, closer, calls>>

-----------------------------------------------------------------------------
(* the finally block of the factory *)

\* async with transport_lock; a Cancelled on entry skips the whole block
CloseEnter ==
  /\ closer = "open"
  /\ \/ Acquire(Closer) /\ closer' = "waitLock"
     \/ MayCancel /\ closer' = "done" /\ UNCHANGED <<owner, waiters>>
  /\ UNCHANGED <<transport, closed, conns, aclosed, failed, inflight, pc, got, calls>>

\* the finally block leaving the transport as it is (mutant)
CloseWithoutDestroy ==
  /\ closer = "waitLock" /\ owner = Closer
  /\ closed' = TRUE
  /\ Release
  /\ closer' = "done"
  /\ UNCHANGED <<transport, aclosed, conns, failed, inflight, pc, got, calls>>

\* closed = True; await _destroy_transport(); leave the lock
Close ==
  /\ closer = "waitLock" /\ owner = Closer
  /\ closed' = TRUE
  /\ DestroyTransport
  /\ Release
  /\ closer' = "done"
  /\ UNCHANGED <<conns, failed, inflight, pc, got, calls>>

-----------------------------------------------------------------------------

Next ==
  \/ \E t \in Tasks :
       Call(t) \/ CancelWait(t) \/ InitTransport(t) \/ Connect(t) \/ Send(t)
       \/ Recv(t) \/ Destroy(t)
  \/ CloseEnter \/ Close

\* trio runs every task that is not blocked; the backend eventually answers
\* or the connection is declared lost
Fairness ==
  /\ \A t \in Tasks : WF_vars(InitTransport(t)) /\ WF_vars(Connect(t))
                      /\ WF_vars(Send(t)) /\ WF_vars(Recv(t)) /\ WF_vars(Destroy(t))
  /\ WF_vars(Close)

Spec == Init /\ [][Next]_vars /\ Fairness

-----------------------------------------------------------------------------
(* Properties *)

\* Spec 5: a transport that raised BackendNotAvailable is discarded; no
\* later command is handed it by _init_transport's reuse branch.
FailedTransportNeverReused ==
  \A t \in Tasks : pc[t] \in {"send", "recv"} => transport \notin failed

\* The reply a command reads from the stream is the one to its own request:
\* the lock must cover the whole exchange and no unanswered request of an
\* earlier command may be left on the transport it is handed.
ReplyToOwnRequest ==
  \A t \in Tasks : got[t] # None => got[t] = t

\* Once the finally block has set closed, _init_transport never connects
\* again: commands still running after the factory exits get
\* ClosedResourceError instead of a new connection.
NoReconnectAfterClose ==
  [][closed => conns' = conns]_vars

\* A command parked on transport_lock is eventually handed it (or
\* cancelled): every holder leaves the lock, and release hands it on.
LockEventuallyGranted ==
  \A t \in Tasks : pc[t] = "waitLock" ~> (owner = t \/ pc[t] = "idle")

\* Once the factory has exited (its finally block is over), closed is set
\* and every transport connect_as_invited opened has been closed with
\* aclose(): by the finally block, or earlier by a command that lost it.
TransportClosedOnExit ==
  closer = "done" => closed /\ 1..conns \subseteq aclosed
=============================================================================
