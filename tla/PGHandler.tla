------------------------------ MODULE PGHandler ------------------------------
(***************************************************************************)
(* PGHandler (backend/drivers/postgresql/handler.py): the bridge between   *)
(* the trio request handlers of the backend and one psycopg2 connection.  *)
(* A dedicated thread (run) drains reqqueue in FIFO order, executes each   *)
(* request on its cursor and puts one response on respqueue; between two  *)
(* drains it polls the connection and re-sends every NOTIFY it receives on *)
(* the local signal of the same channel.  Callers (fetch_one, insert_one,  *)
(* ..., stop) put a request and then poll respqueue with get_response,     *)
(* which takes whatever response is first: respqueue is shared by all     *)
(* callers.  Locally sent signals are relayed to the database by the      *)
(* handlers of get_signal_handler, which put "notify" requests whose      *)
(* response (cmd_notify returns None) nobody awaits.                       *)
(*                                                                         *)
(* The connection is used in psycopg2's default transactional mode: a     *)
(* failed statement leaves the transaction aborted (no rollback is ever   *)
(* issued), LISTEN and NOTIFY take effect when the transaction commits,   *)
(* and only cmd_write_one/cmd_write_many commit.  The state reached after *)
(* start() returned is the initial state; the LISTENs of run are part of  *)
(* the transaction opened after the CREATE TABLEs' commit.                 *)
(***************************************************************************)
EXTENDS Naturals, Sequences, FiniteSets

CONSTANTS
  Callers,    \* trio tasks calling the handler concurrently
  Stoppers,   \* the callers that may call stop()
  Sendable,   \* signal names the application sends locally
  MayFail,    \* a statement may fail (constraint, bad SQL, server error)
  MaxQueue,   \* bound on the requests and responses in flight
  None

\* self.signals, in the order the relay handlers are connected
SignalList == <<"message_arrived", "user_claimed", "user_vlob_updated", "vlob_updated">>
SignalNames == {SignalList[i] : i \in 1..Len(SignalList)}

ASSUME Stoppers \subseteq Callers /\ Sendable \subseteq SignalNames

Kinds == {"read_one", "write_one"}
Request == [type : Kinds \cup {"notify", "stop"}, from : Callers \cup {None},
            signal : SignalNames \cup {None}]
\* a response, tagged with the caller whose request produced it; the status
\* "none" is the None that cmd_notify returns
Response == [for : Callers \cup {None}, status : {"ok", "ko", "none"}]
NoResponse == [for |-> None, status |-> "none_yet"]

VARIABLES
  reqq,        \* self.reqqueue
  respq,       \* self.respqueue
  worker,      \* the thread: "running" or "stopped"
  aborted,     \* the connection's transaction is aborted
  txNotifies,  \* channels NOTIFY'd in the open transaction
  listening,   \* the LISTENs of run have been committed
  inbox,       \* committed notifications not yet polled (conn.notifies)
  dispatched,  \* channels the poll loop has re-sent locally
  sent,        \* signal names the application has sent locally
  committed,   \* history: channels whose NOTIFY has committed
  pc,          \* pc[c]: "idle", "waiting" (in get_response), "joining", "stopped"
  op,          \* op[c]: the request c is waiting for
  got          \* got[c]: the response c's last get_response returned

vars == <<reqq, respq, worker, aborted, txNotifies, listening, inbox,
          dispatched, sent, committed, pc, op, got>>

Init ==
  /\ reqq = <<>>
  /\ respq = <<>>
  /\ worker = "running"
  /\ aborted = FALSE
  /\ txNotifies = {}
  /\ listening = FALSE
  /\ inbox = {}
  /\ dispatched = {}
  /\ sent = {}
  /\ committed = {}
  /\ pc = [c \in Callers |-> "idle"]
  /\ op = [c \in Callers |-> "none"]
  /\ got = [c \in Callers |-> NoResponse]

-----------------------------------------------------------------------------
(* The callers.                                                            *)

\* MaxQueue bounds both queues together (the model's bound: the Queues are
\* unbounded, and the None responses of notify requests pile up unread)
Room(n) == Len(reqq) + Len(respq) + n <= MaxQueue

\* fetch_one/fetch_many ("read_one" ...) or insert/update/delete_one and
\* insert/delete_many ("write_one", "write_many"): put, then get_response
Call(c, k) ==
  /\ pc[c] = "idle"
  /\ Room(1)
  /\ reqq' = Append(reqq, [type |-> k, from |-> c, signal |-> None])
  /\ pc' = [pc EXCEPT ![c] = "waiting"]
  /\ op' = [op EXCEPT ![c] = k]
  /\ UNCHANGED <<respq, worker, aborted, txNotifies, listening, inbox, dispatched, sent, committed, got>>

\* stop() putting a request of a type run() does not know (mutant)
StopMistyped(c) ==
  /\ c \in Stoppers /\ pc[c] = "idle"
  /\ Room(1)
  /\ reqq' = Append(reqq, [type |-> "close", from |-> c, signal |-> None])
  /\ pc' = [pc EXCEPT ![c] = "waiting"]
  /\ op' = [op EXCEPT ![c] = "stop"]
  /\ UNCHANGED <<respq, worker, aborted, txNotifies, listening, inbox, dispatched, sent, committed, got>>

\* stop(): put {'type': 'stop'}, then get_response, then join
Stop(c) ==
  /\ c \in Stoppers /\ pc[c] = "idle"
  /\ Room(1)
  /\ reqq' = Append(reqq, [type |-> "stop", from |-> c, signal |-> None])
  /\ pc' = [pc EXCEPT ![c] = "waiting"]
  /\ op' = [op EXCEPT ![c] = "stop"]
  /\ UNCHANGED <<respq, worker, aborted, txNotifies, listening, inbox, dispatched, sent, committed, got>>

\* get_response: respqueue.get(block=False) succeeds (else trio.sleep, retry)
GetResponse(c) ==
  /\ pc[c] = "waiting"
  /\ respq # <<>>
  /\ got' = [got EXCEPT ![c] = Head(respq)]
  /\ respq' = Tail(respq)
  /\ pc' = [pc EXCEPT ![c] = IF op[c] = "stop" THEN "joining" ELSE "idle"]
  /\ UNCHANGED <<reqq, worker, aborted, txNotifies, listening, inbox, dispatched, sent, committed, op>>

\* self.join() returns once the thread has ended
Join(c) ==
  /\ pc[c] = "joining" /\ worker = "stopped"
  /\ pc' = [pc EXCEPT ![c] = "stopped"]
  /\ UNCHANGED <<reqq, respq, worker, aborted, txNotifies, listening, inbox, dispatched, sent, committed, op, got>>

\* the relay handlers get_signal_handler(signal) of every signal are all
\* connected to the 'message_arrived' signal: sending it puts one notify
\* request per name of self.signals, sending any other signal puts none
RelayedBy(s) == IF s = "message_arrived" THEN SignalList ELSE <<>>

\* signal.send(sender) by the application (propagate=True)
Send(s) ==
  /\ s \in Sendable
  /\ Room(Len(RelayedBy(s)))
  /\ reqq' = reqq \o [i \in 1..Len(RelayedBy(s)) |->
                        [type |-> "notify", from |-> None, signal |-> RelayedBy(s)[i]]]
  /\ sent' = sent \cup {s}
  /\ UNCHANGED <<respq, worker, aborted, txNotifies, listening, inbox, dispatched, committed, pc, op, got>>

-----------------------------------------------------------------------------
(* The worker thread.                                                      *)

\* a transaction commits: its LISTENs and NOTIFYs take effect
Commit ==
  /\ listening' = TRUE
  /\ inbox' = inbox \cup txNotifies
  /\ committed' = committed \cup txNotifies
  /\ txNotifies' = {}

\* an except block that forgets respqueue.put (mutant)
FailsUnanswered(r) ==
  /\ UNCHANGED respq
  /\ aborted' = TRUE

\* cursor.execute fails: the exception becomes {'status': 'ko'} and the
\* transaction stays aborted
Fails(r) ==
  /\ respq' = Append(respq, [for |-> r.from, status |-> "ko"])
  /\ aborted' = TRUE

\* one iteration of the inner loop on a request other than stop
Execute(r) ==
  \/ /\ aborted \/ MayFail
     /\ Fails(r)
     /\ UNCHANGED <<txNotifies, listening, inbox, committed>>
  \/ /\ ~aborted
     /\ r.type = "read_one"
     /\ respq' = Append(respq, [for |-> r.from, status |-> "ok"])
     /\ UNCHANGED <<aborted, txNotifies, listening, inbox, committed>>
  \/ /\ ~aborted
     /\ r.type = "write_one"
     /\ respq' = Append(respq, [for |-> r.from, status |-> "ok"])
     /\ Commit
     /\ UNCHANGED aborted
  \/ /\ ~aborted
     /\ r.type = "notify"
     /\ respq' = Append(respq, [for |-> None, status |-> "none"])
     /\ txNotifies' = txNotifies \cup {r.signal}
     /\ UNCHANGED <<aborted, listening, inbox, committed>>

\* reqqueue.get(block=False), then the request's cmd_<type>
WorkerStep ==
  /\ worker = "running" /\ reqq # <<>>
  /\ Head(reqq).type # "stop"
  /\ reqq' = Tail(reqq)
  /\ Execute(Head(reqq))
  /\ UNCHANGED <<worker, dispatched, sent, pc, op, got>>

\* conn.poll(), then signal_ns.signal(channel).send(payload, propagate=False)
\* for every notification received; only done once reqqueue is empty
Poll ==
  /\ worker = "running" /\ reqq = <<>>
  /\ listening /\ inbox # {}
  /\ dispatched' = dispatched \cup inbox
  /\ inbox' = {}
  /\ UNCHANGED <<reqq, respq, worker, aborted, txNotifies, listening, sent, committed, pc, op, got>>

\* a stop request that leaves both loops at once, skipping the last poll
\* (mutant)
WorkerStopNoPoll ==
  /\ worker = "running" /\ reqq # <<>>
  /\ Head(reqq).type = "stop"
  /\ reqq' = Tail(reqq)
  /\ respq' = Append(respq, [for |-> Head(reqq).from, status |-> "ok"])
  /\ inbox' = {}
  /\ worker' = "stopped"
  /\ UNCHANGED <<aborted, txNotifies, listening, dispatched, sent, committed, pc, op, got>>

\* a stop request: leave the loops after one last poll, close, put
\* {'status': 'ok'}; the requests still queued are never executed
WorkerStop ==
  /\ worker = "running" /\ reqq # <<>>
  /\ Head(reqq).type = "stop"
  /\ reqq' = Tail(reqq)
  /\ dispatched' = IF listening THEN dispatched \cup inbox ELSE dispatched
  /\ inbox' = {}
  /\ respq' = Append(respq, [for |-> Head(reqq).from, status |-> "ok"])
  /\ worker' = "stopped"
  /\ UNCHANGED <<aborted, txNotifies, listening, sent, committed, pc, op, got>>

Next ==
  \/ \E c \in Callers : \/ \E k \in Kinds : Call(c, k)
                        \/ Stop(c) \/ GetResponse(c) \/ Join(c)
  \/ \E s \in Sendable : Send(s)
  \/ WorkerStep \/ Poll \/ WorkerStop

(***************************************************************************)
(* The worker thread loops without blocking: weak fairness on its steps.   *)
(* A waiting caller wakes from trio.sleep(0.1) and retries for as long as  *)
(* it waits, so a response that keeps reappearing in respqueue is taken   *)
(* by it eventually, although another caller may take the one queued now *)
(* (respqueue is shared): strong fairness on get_response.  Join returns  *)
(* once the thread ended.  Nothing forces a caller to call.               *)
(***************************************************************************)
Fairness ==
  /\ WF_vars(WorkerStep) /\ WF_vars(Poll) /\ WF_vars(WorkerStop)
  /\ \A c \in Callers : SF_vars(GetResponse(c)) /\ WF_vars(Join(c))

Spec == Init /\ [][Next]_vars /\ Fairness

-----------------------------------------------------------------------------
TypeOK ==
  /\ reqq \in Seq(Request) /\ respq \in Seq(Response)
  /\ worker \in {"running", "stopped"}
  /\ aborted \in BOOLEAN /\ listening \in BOOLEAN
  /\ txNotifies \subseteq SignalNames /\ inbox \subseteq SignalNames
  /\ dispatched \subseteq SignalNames /\ sent \subseteq SignalNames
  /\ committed \subseteq SignalNames
  /\ pc \in [Callers -> {"idle", "waiting", "joining", "stopped"}]
  /\ op \in [Callers -> Kinds \cup {"stop", "none"}]
  /\ got \in [Callers -> Response \cup {NoResponse}]

\* the requests the worker will still answer: those before the first stop,
\* the stop included
Answerable ==
  IF worker = "stopped" THEN 0
  ELSE LET stops == {i \in 1..Len(reqq) : reqq[i].type = "stop"}
       IN IF stops = {} THEN Len(reqq) ELSE CHOOSE i \in stops : \A j \in stops : i <= j

(***************************************************************************)
(* No lost wake-up: there are always at least as many responses, queued or *)
(* still to come from the worker, as callers polling in get_response.  The *)
(* worker must answer every request it takes, failed ones included, even  *)
(* though callers may take each other's responses.                         *)
(***************************************************************************)
WaitersCovered ==
  Cardinality({c \in Callers : pc[c] = "waiting"}) <= Len(respq) + Answerable

(***************************************************************************)
(* Every call to fetch_one, insert_one, ... or stop returns: a caller      *)
(* polling get_response eventually gets a response.                        *)
(***************************************************************************)
RequestsAnswered == \A c \in Callers : pc[c] = "waiting" ~> pc[c] # "waiting"

(***************************************************************************)
(* What fetch_one and the other callers take for granted: the response     *)
(* get_response hands a caller is the one the worker produced for that     *)
(* caller's own request (not another caller's, not a notify's None).       *)
(***************************************************************************)
ResponseToOwnRequest ==
  \A c \in Callers : got[c] # NoResponse => got[c].for = c

(***************************************************************************)
(* Change notifications are delivered at least once (the spec's store    *)
(* interfaces): a channel cmd_notify has NOTIFY'd is eventually re-sent by *)
(* the poll loop.  The NOTIFY only takes effect if a later                 *)
(* cmd_write_one/many commits the transaction it was issued in.            *)
(***************************************************************************)
NotifiesDelivered == \A s \in SignalNames : s \in txNotifies ~> s \in dispatched

(***************************************************************************)
(* No committed NOTIFY is lost, even when stop() ends the thread between   *)
(* the commit and the next poll: the conn.poll() that follows the stop    *)
(* request's break of the inner loop re-sends what the connection has     *)
(* received before conn.close() discards it.  A committed channel is       *)
(* still pending in conn.notifies or has been re-sent.                     *)
(***************************************************************************)
CommittedNotifiesKept == committed \subseteq inbox \cup dispatched
=============================================================================
