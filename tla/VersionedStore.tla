--------------------------- MODULE VersionedStore ---------------------------
(***************************************************************************)
(* What the vlob store promises its callers (spec section 4.2): each key   *)
(* holds a gap-free sequence of blobs; update(key, version, blob) is one   *)
(* atomic check-and-append that succeeds exactly when version is the      *)
(* current length plus one, and on success emits one notification for the *)
(* key.  A call may also fail as "unavailable" without any effect (spec    *)
(* section 7, transport/unavailability).  Every call eventually returns.   *)
(***************************************************************************)
EXTENDS Naturals, Sequences

CONSTANTS Keys, Clients, Blobs, Versions, None

VARIABLES
  store,    \* store[k]: the blobs of key k, version i at index i
  pending,  \* pending[c]: the call client c has in flight, or None
  result,   \* result[c]: what c's last call returned
  events    \* keys notified, in emission order

vars == <<store, pending, result, events>>

Call == [user : Keys, version : Versions, blob : Blobs]

Init ==
  /\ store = [k \in Keys |-> <<>>]
  /\ pending = [c \in Clients |-> None]
  /\ result = [c \in Clients |-> "none"]
  /\ events = <<>>

Invoke(c) ==
  /\ pending[c] = None
  /\ \E x \in Call : pending' = [pending EXCEPT ![c] = x]
  /\ result' = [result EXCEPT ![c] = "none"]
  /\ UNCHANGED <<store, events>>

Answer(c, r) ==
  /\ pending' = [pending EXCEPT ![c] = None]
  /\ result' = [result EXCEPT ![c] = r]

Commit(c) ==
  LET x == pending[c] IN
  /\ x # None
  /\ x.version = Len(store[x.user]) + 1
  /\ store' = [store EXCEPT ![x.user] = Append(@, x.blob)]
  /\ events' = Append(events, x.user)
  /\ Answer(c, "ok")

Conflict(c) ==
  LET x == pending[c] IN
  /\ x # None
  /\ x.version # Len(store[x.user]) + 1
  /\ Answer(c, "conflict")
  /\ UNCHANGED <<store, events>>

Unavailable(c) ==
  /\ pending[c] # None
  /\ Answer(c, "unavailable")
  /\ UNCHANGED <<store, events>>

Respond(c) == Commit(c) \/ Conflict(c) \/ Unavailable(c)

Next == \E c \in Clients : Invoke(c) \/ Respond(c)

Spec == Init /\ [][Next]_vars /\ \A c \in Clients : WF_vars(Respond(c))
=============================================================================
