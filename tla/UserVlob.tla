------------------------------ MODULE UserVlob ------------------------------
(***************************************************************************)
(* PGUserVlobComponent (backend/drivers/postgresql/user_vlob.py) running   *)
(* on the PGHandler worker (handler.py).  Every SQL statement is one       *)
(* request to the single worker thread, which executes it on its single    *)
(* connection, so each statement is atomic; between two statements of one *)
(* update() call, the statements of other request handlers interleave.     *)
(*                                                                         *)
(* update(user_id, version, blob) is two statements: a COUNT of the rows   *)
(* of user_id, then, if count = version - 1, an INSERT; after the INSERT   *)
(* the user_vlob_updated signal is sent.  A failing statement leaves the   *)
(* connection in an aborted transaction: the worker turns the exception    *)
(* into a "ko" response but never rolls back, so every later statement on  *)
(* the connection fails too.  Whether user_vlobs has a UNIQUE constraint   *)
(* on (user_id, version) is not in the source: UniqueVersion says.         *)
(***************************************************************************)
EXTENDS Naturals, Sequences, FiniteSets, FiniteSetsExt

CONSTANTS
  Users,          \* user ids (the vlob keys)
  Writers,        \* request handlers that may call update() concurrently
  Blobs,          \* blob payloads
  MaxVersion,     \* versions a caller may pass are 1..MaxVersion
  MaxRows,        \* bound on the rows of user_vlobs
  UniqueVersion,  \* TRUE iff user_vlobs is UNIQUE on (user_id, version)
  None

ASSUME MaxVersion \in Nat \ {0} /\ MaxRows \in Nat /\ UniqueVersion \in BOOLEAN

VARIABLES
  table,        \* rows of user_vlobs in insertion order: [user, version, blob]
  connAborted,  \* the worker connection's transaction is aborted
  pc,           \* pc[w]: "idle", or the statement w's update() awaits next
  req,          \* req[w]: the arguments of w's current or last update() call
  outcome,      \* outcome[w]: what w's last update() call returned or raised
  signals       \* user ids sent on _signal_user_vlob_updated, in order

vars == <<table, connAborted, pc, req, outcome, signals>>

Versions == 1..MaxVersion
Call == [user : Users, version : Versions, blob : Blobs]

RowsOf(u) == {i \in DOMAIN table : table[i].user = u}
VersionsOf(u) == {table[i].version : i \in RowsOf(u)}

\* SELECT COUNT(user_id) FROM user_vlobs WHERE user_id=$1
VlobCount(u) == Cardinality(RowsOf(u))

\* Mutants of the definitions below, used to show the properties bite:
\* a check that lets a caller skip versions, one off by one, and an INSERT
\* that writes the row count instead of the caller's version.
VersionMatchesSkipAhead(count, version) == count <= version - 1
VersionMatchesOffByOne(count, version) == count = version
InsertedRowWithCount(c) == [c EXCEPT !.version = VlobCount(c.user)]

\* update() goes on to INSERT only when this holds (raises VersionError otherwise)
VersionMatches(count, version) == count = version - 1

\* the row INSERT INTO user_vlobs (user_id, version, blob) writes
InsertedRow(c) == c

\* the INSERT violates the (user_id, version) UNIQUE constraint
DuplicateVersion(c) == UniqueVersion /\ c.version \in VersionsOf(c.user)

(***************************************************************************)
(* read(user_id, version): the atoms one SELECT may return.  The empty set *)
(* stands for VersionError; with duplicate rows fetch_one returns any one. *)
(***************************************************************************)
Placeholder == [version |-> 0, blob |-> None]

Read(u, v) ==
  IF v = 0 THEN {Placeholder}
  ELSE {[version |-> v, blob |-> table[i].blob] : i \in {j \in RowsOf(u) : table[j].version = v}}

ReadLatest(u) ==
  IF RowsOf(u) = {} THEN {Placeholder} ELSE Read(u, Max(VersionsOf(u)))

Return(w, o) ==
  /\ pc' = [pc EXCEPT ![w] = "idle"]
  /\ outcome' = [outcome EXCEPT ![w] = o]

Init ==
  /\ table = <<>>
  /\ connAborted = FALSE
  /\ pc = [w \in Writers |-> "idle"]
  /\ req = [w \in Writers |-> CHOOSE c \in Call : TRUE]
  /\ outcome = [w \in Writers |-> "none"]
  /\ signals = <<>>

\* a request handler calls update(user_id, version, blob)
StartUpdate(w) ==
  /\ pc[w] = "idle"
  /\ Len(table) < MaxRows
  /\ \E c \in Call : req' = [req EXCEPT ![w] = c]
  /\ pc' = [pc EXCEPT ![w] = "count"]
  /\ outcome' = [outcome EXCEPT ![w] = "none"]
  /\ UNCHANGED <<table, connAborted, signals>>

\* fetch_one(SELECT COUNT ...) and the version check that follows it
UpdateCount(w) ==
  LET c == req[w] IN
  /\ pc[w] = "count"
  /\ \/ /\ connAborted
        /\ Return(w, "db_error")
     \/ /\ ~connAborted
        /\ ~VersionMatches(VlobCount(c.user), c.version)
        /\ Return(w, "version_error")
     \/ /\ ~connAborted
        /\ VersionMatches(VlobCount(c.user), c.version)
        /\ pc' = [pc EXCEPT ![w] = "insert"]
        /\ UNCHANGED outcome
  /\ UNCHANGED <<table, connAborted, req, signals>>

\* insert_one(INSERT ...) then _signal_user_vlob_updated.send(user_id)
UpdateInsert(w) ==
  LET c == req[w] IN
  /\ pc[w] = "insert"
  /\ \/ /\ connAborted \/ DuplicateVersion(c)
        /\ connAborted' = TRUE
        /\ Return(w, "db_error")
        /\ UNCHANGED <<table, signals>>
     \/ /\ ~connAborted /\ ~DuplicateVersion(c)
        /\ table' = Append(table, InsertedRow(c))
        /\ signals' = Append(signals, c.user)
        /\ Return(w, "ok")
        /\ UNCHANGED connAborted
  /\ UNCHANGED req

Next == \E w \in Writers : StartUpdate(w) \/ UpdateCount(w) \/ UpdateInsert(w)

(***************************************************************************)
(* The worker drains its request queue in FIFO order, so a statement that  *)
(* has been queued is eventually executed: weak fairness on both steps.   *)
(***************************************************************************)
Fairness == \A w \in Writers : WF_vars(UpdateCount(w)) /\ WF_vars(UpdateInsert(w))

Spec == Init /\ [][Next]_vars /\ Fairness

-----------------------------------------------------------------------------
TypeOK ==
  /\ table \in Seq(Call)
  /\ connAborted \in BOOLEAN
  /\ pc \in [Writers -> {"idle", "count", "insert"}]
  /\ req \in [Writers -> Call]
  /\ outcome \in [Writers -> {"none", "ok", "version_error", "db_error"}]
  /\ signals \in Seq(Users)

(***************************************************************************)
(* Versions of every user form exactly 1..N, N the number of its rows: no  *)
(* gap and no duplicate, whatever the interleaving of COUNT and INSERT of  *)
(* concurrent update() calls (the "TODO: atomic operations" in update).    *)
(***************************************************************************)
VersionsGapless == \A u \in Users : VersionsOf(u) = 1..VlobCount(u)

(***************************************************************************)
(* A database error from update() only ever means that another writer took *)
(* the version first: the version the caller passed is already stored.    *)
(* (A caller is told to re-read and retry; if the error has another cause *)
(* the retry cannot help.)                                                 *)
(***************************************************************************)
DbErrorOnlyOnTakenVersion ==
  \A w \in Writers :
    outcome[w] = "db_error" => req[w].version \in VersionsOf(req[w].user)

(***************************************************************************)
(* Refinement: update() implements the atomic check-and-append of          *)
(* VersionedStore.  The store of a key is what read(key, i) returns for   *)
(* i = 1..latest; VersionError is reported as a conflict, a database error *)
(* as "unavailable"; the signal is the store's notification.               *)
(***************************************************************************)
BlobAt(u, i) == IF Read(u, i) = {} THEN None ELSE (CHOOSE a \in Read(u, i) : TRUE).blob
Latest(u) == (CHOOSE a \in ReadLatest(u) : TRUE).version

AbstractResult == [w \in Writers |->
  CASE outcome[w] = "version_error" -> "conflict"
    [] outcome[w] = "db_error" -> "unavailable"
    [] OTHER -> outcome[w]]

VS == INSTANCE VersionedStore WITH
        Keys <- Users, Clients <- Writers, Versions <- Versions,
        store <- [u \in Users |-> [i \in 1..Latest(u) |-> BlobAt(u, i)]],
        pending <- [w \in Writers |-> IF pc[w] = "idle" THEN None ELSE req[w]],
        result <- AbstractResult,
        events <- signals

\* update() and read() together implement VersionedStore, liveness included
ImplementsVersionedStore == VS!Spec
=============================================================================
