# TLA+ models of the parsec-cloud synchronisation and admission core

This directory holds TLA+ models of the code under `src/`, the TLC configurations that check them, and `PROJECT.json`. `PROJECT.json` lists the components, the runs, the mutants, the map from definitions to source lines, the findings and the hazards.

## 1. The system and its parts

| Part | Source | State it keeps | Operations |
|---|---|---|---|
| Vlob store | `backend/drivers/postgresql/user_vlob.py` | rows `(user_id, version, blob)` of `user_vlobs` | `read(user, version?)`, `update(user, version, blob)` and its signal |
| PGHandler | `backend/drivers/postgresql/handler.py` | `reqqueue`, `respqueue`, one psycopg2 connection and its transaction, LISTEN registrations | `fetch_*`, `insert_*`, `update_*`, `delete_*`, `stop`, `get_response`; worker loop `run`; the relay handlers of `get_signal_handler` |
| Enrollment state machine | `backend/postgresql/pki.py` | `pki_enrollment` rows (state, certificate, accepted device); the shared `user_` table; the organization write lock | `submit`, `info`, `list`, `reject`, `accept` |
| Local manifest engine | `core/types/local_manifests.py` | immutable file, folder, workspace and user manifests held by a client; their serialized form in local storage | `make_placeholder`, `evolve*`, `evolve_children*`, `evolve_workspaces*`, `to_remote`, `local_manifest_dumps`, `local_manifest_loads` |
| Invited backend connection | `core/backend_connection/invited.py` | one lazily opened transport, its lock, a `closed` flag | `_acquire_transport`, `_init_transport`, `_destroy_transport`, factory close |
| PKI data classes | `api/data/pki.py` | none | none (serialisable records) |
| FS status codes | `core/fs/utils.py` | none | none (an enum) |

How the parts interact:
- **Vlob store over PGHandler:** `PGUserVlobComponent` runs every SQL statement as one request to the PGHandler worker. An `update` is two such requests, a COUNT and then an INSERT. Statements of other request handlers interleave between them.
- **Signals:** on success `update` sends `user_vlob_updated` on the signal namespace. PGHandler is meant to relay signals to PostgreSQL with NOTIFY and dispatch the notifications it polls back to local signals.
- **Enrollment:** the component runs each operation in its own transaction. It takes the organization-wide user/device write lock, which it shares with user creation (`q_create_user`). Users are revoked by the user component.
- **Local manifests:** the engine works offline and saves manifests with `local_manifest_dumps`. After a restart it reads them back with `local_manifest_loads`. To sync, a client derives the remote manifest with `to_remote` and uploads it to the vlob store.
- **Invited connection:** every command of an invitation claimer goes through `_acquire_transport` of one factory. The commands share one transport under `transport_lock`. The factory's `finally` block closes it.

### Hard behaviours

- **Check-then-act across statements:** `update` checks the version with a COUNT and inserts in a separate statement. Its source says "TODO: atomic operations".
- **A shared connection without rollback:** one failed statement aborts the worker's only transaction for every caller.
- **A shared response queue:** `get_response` returns whatever response is first, so a caller may take another caller's response.
- **Transactional LISTEN/NOTIFY:** notifications take effect only when a later write commits.
- **Shutdown:** `stop` abandons the requests queued behind it.
- **Enrollment races:**
  - concurrent submit, reject and accept decide on rows another transaction is about to change;
  - users are revoked concurrently;
  - `q_create_user` can fail after the row check, and the failure must undo everything.
- **Merge semantics:** the children patch prunes `None` entries. The workspace merge is a dict, so it keeps an id's first position and its last value.
- **Serializer round trip:** the tagged union writes a type that the schema then checks on load.
- **Cancellation in the invited connection:** trio may deliver `Cancelled` at every await: waiting for the lock, connecting, awaiting a reply, and inside `transport.aclose()`. Each of these exits `_acquire_transport` by its own path.

### What makes each part correct

- **Vlob store** (spec 3, 4.2, 8):
  - each user's versions are exactly `1..N`;
  - `update(v)` succeeds only when `v` is the latest version plus one;
  - racing writers produce exactly one success;
  - a database error means the version was taken.
- **PGHandler** (spec 5):
  - it returns the response to its own request;
  - no response is lost: a polling caller always has a response queued or still to come;
  - signals are relayed on their own channel;
  - a NOTIFY is eventually dispatched by the poll loop, and one that has committed is not lost when the handler stops.
- **Enrollment** (spec 3, 4.3):
  - at most one live enrollment (SUBMITTED, or ACCEPTED with an unrevoked user) per certificate;
  - terminal rows never change;
  - every ACCEPTED row names a user that `accept` created, and no other accepted row names the same user;
  - every request completes;
  - seen through its records, the component behaves as if each submit, reject and accept were one atomic step (spec 4.3: "under a single transaction that also holds an organization-scoped write lock").
- **Local manifests** (spec 4.1, 8):
  - `evolve_children` applies the patch with deletion;
  - `evolve_workspaces` keeps one entry per workspace id;
  - a saved manifest loads back unchanged, after any edits, sync acknowledgements and restarts.
- **Invited connection** (spec 5, 7):
  - a transport that raised `BackendNotAvailable` is discarded;
  - a command reads the reply to its own request;
  - nothing reconnects after close;
  - every task parked on the lock gets it.
- **Notifications** (the store interfaces): delivered at least once.

## 2. Modules

| Module | Models | Kind |
|---|---|---|
| `VersionedStore` | what the vlob store promises: an atomic check-and-append per key, conflict, unavailable, one notification per success | abstract spec |
| `UserVlob` | `update` as a COUNT step and an INSERT step per writer, `read`, the aborted-transaction state of the worker's connection, an optional UNIQUE constraint | implementation; refines `VersionedStore` |
| `PGHandler` | queues, worker steps (execute, fail, commit, poll, stop), callers (call, get_response, stop, join), the relay handlers | component |
| `EnrollmentWorkflow` | what the enrollment component promises: submit, reject and accept as single atomic steps on the records and users, revocation | abstract spec |
| `PkiEnrollment` | submit, info, reject and accept as lock / check / commit steps of concurrent sessions, user creation inside accept, revocation by the environment | implementation; refines `EnrollmentWorkflow` |
| `LocalManifest` | one client entry (of a kind from `Kinds`): construction with the class defaults, the evolve operations, a sync acknowledgement, dumps and loads with each schema's fields, `to_remote`, a clock | component, plus pure operators checked against reference definitions |
| `InvitedTransport` | `backend_invited_cmds_factory`: command tasks and the closing factory sharing one transport under a FIFO lock, with cancellation | component |
| `MC*` | instantiate the modules for TLC | model-checking wrappers |

### How state and actions correspond to the code

**UserVlob**
- `table` is `user_vlobs`. `pc[w]` says which statement of `update` writer `w` runs next: `count` or `insert`.
- `connAborted` is the psycopg2 transaction state.
- `UpdateCount` is `fetch_one(SELECT COUNT ...)` followed by the version check of `update`.
- `UpdateInsert` is the INSERT followed by the signal. A failed INSERT sets `connAborted`.
- `Read` and `ReadLatest` give the atoms `read` can return. The empty set stands for `VersionError`.
- The refinement maps:
  - `store` to what `read` returns for versions `1..latest`;
  - `VersionError` to the abstract `conflict`;
  - a database error to the abstract `unavailable`.

**PGHandler**
- `reqq` and `respq` are the two `Queue`s. Each response carries a ghost `for` field naming the caller whose request produced it.
- `WorkerStep` is one iteration of the inner loop. `Execute` is the `cmd_*` method, with the failure path of lines 134-137.
- `Commit` models `cursor.connection.commit()`, which is when LISTEN and NOTIFY take effect.
- `Poll` is `conn.poll()` followed by re-sending each notification.
- `WorkerStop` handles the `stop` request: a final poll, closing the connection, and the last `ok` response.
- `committed` is a history variable: the channels whose NOTIFY has committed.
- `Room(n)` bounds the requests and responses in flight (`MaxQueue`). It is the model's bound, not the code's: both `Queue()`s are unbounded, and no property is stated about it.
- `Send(s)` is `signal(s).send()` by the application, running the relay handlers connected to it.

**PkiEnrollment**
- `enrollment` holds the `pki_enrollment` rows, `users` the `user_` table, and `lock` the transaction-scoped advisory lock.
- Each operation is split into steps:
  - `TakeLock`;
  - a check step: `SubmitCheck` or `DecideCheck`, which may raise;
  - a commit step: `SubmitCommit`, `RejectCommit` or `AcceptCommit`.
- Writes happen only in the commit step, so a raise (`Raise`) leaves no trace. This is how the transaction's rollback is modelled.
- `info` takes no lock: `Request` sends it to `read`, and `InfoRead` ends it without a write. What it would return is `BuildEnrollmentInfo` of the row (`_build_enrollment_info`); replies are not a variable of the model.
- A row carries the serial `id` (the order `list` sorts by, `FromState`), `submitted_on` (the submit's `on`, from `Times`) and `cancelled_on`. `SubmitRow`, `CancelRow`, `RejectRow` and `AcceptRow` are the INSERT and the three UPDATEs. The rejected and accepted timestamps are left out, because no property reads them.
- The refinement maps each row to its state, certificate and accepted user (`AbstractRows`). `SubmitCommit`, `RejectCommit` and the successful `AcceptCommit` are the abstract `SubmitStep`, `RejectStep` and `AcceptStep`. `RevokeUser` is `Revoke`. Every other step (`Request`, `TakeLock`, the checks, `Raise`, `InfoRead`) is a stuttering step.

**LocalManifest**
- `local` is the manifest in memory, `stored` the dumped bytes as `[type, body]`, and `saved` the manifest they were dumped from.
- `New(k, data)` is a class constructor `cls(**data)`: the given fields, the attrs defaults of the class (`FileDefaults`, `FolderDefaults`, `UserDefaults`) for the others, then `__attrs_post_init__` (`PostInit`, `UserPostInit`). `Placeholder` calls it as `make_placeholder` and `LocalUserManifest(author)` do. The fields a kind does not have hold the `Neutral` values, a device of the model's single record type with no counterpart in the code; likewise `ToRemote` only picks the class's `to_remote`, which Python's method dispatch does.
- `Dumps` writes the `get_obj_type` tag and the fields of the kind's schema (`SchemaFields`: `FileFields`, `FolderFields`, `UserFields`).
- `Loads` dispatches on that tag. It fails (`LoadError`) when the schema's `CheckedConstant` differs from the tag. Otherwise it is `make_obj`, which builds the manifest from the fields the schema loaded with `New`.
- `Acknowledge` is the sync engine's `evolve` once the store accepted version `base_version + 1`: `evolve(base_manifest=..., need_sync=False)`, or for the user manifest `evolve(base_version=..., is_placeholder=False, need_sync=False)`. The caller is not in the repository; it is modelled from the spec, which requires both fields to move together. `Evolve` is `attr.evolve`.
- `EvolveWorkspacesAction(mark)` is `evolve_workspaces_and_mark_updated` when `mark` is true, and `evolve_workspaces` otherwise.
- `ExportToRemote` is the sync step calling `to_remote()` or `to_remote(version=...)`, and `remote` holds its result.
- `Materialize` builds the remote manifest. It returns `TypeError` when `**data` repeats a keyword the call already names.

**InvitedTransport**
- `owner` and `waiters` are the trio lock. `Acquire` takes it when it is free and nobody is parked. `Release` hands it to the longest waiter.
- `transport` and `closed` are the factory's nonlocals. Transports are numbered by creation, and `aclosed` and `failed` record what happened to each.
- `pc[t]` is where task `t` is in `_acquire_transport`:
  - `waitLock` (parked, or granted and about to run `_init_transport`);
  - `connecting` (in `connect_as_invited`);
  - `send` and `recv` (the command's exchange, with the transport yielded);
  - `destroying` (the `except BackendNotAvailable` clause).
- The command itself is not in the repository. `Send` and `Recv` model it from the spec: one request, one reply, in order on the stream (`inflight`). A lost connection raises `BackendNotAvailable`.
- `MayCancel` enables the `Cancelled` branches of every await: `CancelWait`, the second branch of `Connect`, the third of `Recv`, the kept transport of `DestroyTransport`, and the skipped `finally` block of `CloseEnter`.

## 3. Runs

| Run | Config | Expect | Shows |
|---|---|---|---|
| `vlob_update` | `UserVlob.cfg` | pass | With a UNIQUE constraint, two racing writers keep versions gap-free and implement `VersionedStore`, liveness included. |
| `vlob_conflict_poisons_connection` | `UserVlob_Poison.cfg` | violation | After one lost race, a correct update fails with a database error. |
| `pg_handler_callers` | `PGHandler.cfg` | pass | Two callers with failing statements: no lost wake-up, since every failed statement is still answered. |
| `pg_handler_stop` | `PGHandler_Stop.cfg` | pass | Relay bursts, committing writes and a stop at any point: no committed NOTIFY is lost, because the poll after the stop request still re-sends what the connection received. |
| `pg_handler_misroute` | `PGHandler_Misroute.cfg` | violation | A caller receives the other caller's response. |
| `pg_handler_notify` | `PGHandler_Notify.cfg` | violation | The relayed NOTIFYs wait in the open transaction; with no later write they are never delivered. |
| `pki_enrollment` | `PkiEnrollment.cfg` | pass | One live enrollment per certificate, terminal rows final, accepted users owned, all requests complete, and the sessions implement the atomic `EnrollmentWorkflow`. |
| `local_manifest` | `LocalManifest.cfg` | pass | The merges equal their references, and saves reload unchanged for file, folder and user manifests after any edits, acknowledgements and restarts. |
| `local_workspace_reload` | `LocalManifest_Workspace.cfg` | violation | A saved workspace manifest cannot be loaded back. |
| `invited_transport` | `InvitedTransport.cfg` | pass | Without cancellation: the lock is exclusive, a failed transport is never reused, every reply reaches its requester, and the factory's exit closes every transport it opened. |
| `invited_transport_cancel` | `InvitedTransport_Cancel.cfg` | pass | With cancellation at every await: no connection after close, and every parked task gets the lock or is cancelled. |
| `invited_reuses_failed_transport` | `InvitedTransport_ReuseFailed.cfg` | violation | A `Cancelled` inside `aclose()` of the `except` clause leaves the closed transport for the next command. |

Each property of a passing run has a mutant in `PROJECT.json`: a plausible bug in a mapped definition (a dropped guard, an off-by-one, a forgotten response or lock release) that TLC finds.

### Bounds, and why they are enough

- **`UserVlob.cfg`:**
  - Settings: one user, two writers, two blobs, versions `1..3`, at most 4 rows.
  - Why enough: every race is between two writers on one key. Versions up to 3 let a writer skip ahead or fall behind by one. Four rows let a conflict happen after earlier successes.
- **`PGHandler.cfg`:**
  - Settings: two callers, with statements that may fail.
  - Why enough: without signals, at most two requests or responses are ever in flight, so a bound of 2 is never what stops a behaviour.
- **`PGHandler_Stop.cfg`:**
  - Settings: one caller that may stop the handler at any point, relaying `message_arrived` and `user_vlob_updated`, with room for two relay bursts of four notifies.
  - Why enough: a stop request can be queued behind NOTIFYs, behind a write that commits them, or after the commit and before any poll, which is the case `CommittedNotifiesKept` is about. A second caller adds no ordering of stop against commit and poll.
- **`PkiEnrollment.cfg`:**
  - Settings: two sessions, one certificate, two enrollment ids, two submission times, two users, a quota of one active user.
  - Why enough: this covers submit → accept → revoke → re-submit → accept, a forced cancellation by a submit at a different time than the cancelled one's, a quota refusal and a duplicate user. A third id multiplied the state space past what TLC finishes in minutes and adds no new case: every property relates at most two rows of one certificate.
- **`LocalManifest.cfg`:**
  - Settings: two names, two entry ids, two workspace ids with two values, up to two workspace entries, a clock up to 1, one sync acknowledgement (`MaxVersion = 1`).
  - Why enough: every patch shape (add, replace, delete, keep) occurs, and every duplicate-id case of the workspace merge occurs. A single author and parent suffice: no property reads them. Two clock values let `created` and `updated` differ after an edit, and let an acknowledged base differ from a later edit. One acknowledgement moves a placeholder to version 1, so a saved acknowledged manifest differs from a saved placeholder. A third clock value tripled the run time and adds no case a property tells apart.
- **`InvitedTransport*.cfg`:**
  - Settings: two command tasks and the closing factory, three commands in all, two connections.
  - Why enough: both tasks can queue behind a holder, and the factory can queue behind them. A command can run after a destroy and reconnect once. A command can also run after close.
  - The model stops once the commands are spent and the factory has exited, which is why these configs set `CHECK_DEADLOCK FALSE`. `LockEventuallyGranted` (in `invited_transport_cancel`, the config with the most ways to leave the lock) checks that no task is stuck before then.

### Fairness

- **UserVlob:** the worker drains its queue in order, so a queued statement is executed. This gives weak fairness on the COUNT and INSERT steps.
- **PGHandler:**
  - The worker thread never blocks, so its steps get weak fairness.
  - The module states strong fairness on `get_response`, but no run relies on it: trio wakes the sleeping pollers in an order nothing fixes, so the code does not promise that a waiting caller is ever the first to poll a non-empty `respqueue`. Under weak fairness the other caller can take every response first, a real starvation (hazard at `handler.py:195`), and `RequestsAnswered` is therefore not asserted.
  - The checked properties of PGHandler are invariants; only the violation run `pg_handler_notify` uses fairness, the worker's weak fairness, which suffices to show the NOTIFY is never delivered.
- **PkiEnrollment:** PostgreSQL grants a contended lock to its waiters in queue order, which gives strong fairness on `TakeLock`. A session holding the lock always proceeds, which gives weak fairness on its other steps.
- **LocalManifest:** it has only safety properties, so it assumes no fairness.
- **InvitedTransport:**
  - trio runs every task that is not blocked, and the backend eventually answers or the connection is declared lost. This gives weak fairness on the steps taken inside the lock and on the factory's `Close`.
  - Starting a command, and being cancelled, get no fairness.
  - The lock hands off directly to its longest waiter, so weak fairness is enough for `LockEventuallyGranted`.

## 4. Findings

See `PROJECT.json` under `findings`. These are confirmed by a violation run:
- a failed statement poisons the worker connection;
- responses are misrouted between callers;
- a NOTIFY is only delivered if a later write commits, against the at-least-once promise of the store interfaces;
- `LocalWorkspaceManifestSchema` checks the wrong type constant;
- a cancellation inside `_destroy_transport`'s `aclose()` leaves the failed transport assigned, against spec 5's "discarded".

Further disagreements the models exhibit. Each has a counterexample that TLC finds by checking the named property under the stated constants. None has its own run, so that the project's runs stay focused:
- **`update` is not atomic** (`VersionsGapless` with `UniqueVersion = FALSE`). Two writers insert the same version unless `user_vlobs` is UNIQUE on `(user_id, version)`, and nothing under `src/` creates that constraint.
- **Relay wiring** (`handler.py:24`). Every relay handler is connected to `signal('message_arrived')`. Sending `message_arrived` NOTIFYs all four channels, and the other signals are never relayed (`RelayedBy`).
- **`stop` strands callers** (`WaitersCovered` with two callers, one of them a stopper). Requests queued behind `stop` are never answered, and `stop()` may take another caller's response. Whether other tasks can still call at teardown is decided by callers that are not in the repository, so this is not asserted either way.
- **A cancelled command leaves its reply on the transport** (`ReplyToOwnRequest` with `MayCancel = TRUE`). The next command reads that reply as its own. The spec only asks for a discard on "not available", so this is a gap in the spec.
- **A cancelled factory exit leaves the transport open** (`TransportClosedOnExit` under `InvitedTransport_Cancel.cfg`'s constants). A `Cancelled` raised when the `finally` block enters `async with transport_lock` skips the block: `closed` stays false and the transport is never closed (`invited.py:91`). Without cancellation the property holds.
- **`PkiEnrollmentAlreadyEnrolledError` carries the new submit's time** (`pki.py:300`). Spec 4.3 says it carries the time of the earlier submission; the code passes `submitted_on` of the call. The model does not return error payloads, so no property checks this.
- **`api/data/pki.py` writes `fields.Bytes(require=True)`**, a typo for `required`, so the field is optional in that schema.
- **`LocalUserManifest.evolve` lets `base_version` and `is_placeholder` part** (`local_manifests.py:376-378`). Spec 4.1 says these must read through to the base manifest and never be independently settable; on the user manifest they are two fields, and `evolve(base_version=1)` leaves `is_placeholder` true. The model's `Acknowledge` sets both, as the spec requires; no caller in the repository makes the call that sets only one, so no property is stated about the pair beyond `ReloadRestoresSaved`, which checks that the schema brings both back.
- **`force_fresh` is ignored** (`invited.py:74`). `_acquire_transport` accepts `force_fresh`, `ignore_status` and `allow_not_available` and uses none of them. A retry asking for a fresh transport gets the cached one, which is harmless only while every failure discards it; the `invited_reuses_failed_transport` run shows a case where none is discarded.
- **`to_remote(version=...)` raises `TypeError`** (`local_manifests.py:109`). Every remote field is already passed by name before `**data`, yet spec 4.1 says overrides, "typically the new version number", are passed this way. `Materialize` models it.

Issues found while reading the code that no model needs:
- `user_vlob.py` imports `atomic`, which `handler.py` does not define.
- `user_vlob.py` calls `fetch_one(conn, sql, arg)`, whose signature is `fetch_one(sql, params)`.
- `update_many` calls `update_one` without `await`, so the update never runs.
- `get_signal_handler` has a syntax error: a comma is missing between `'signal': signal` and `'sender'`.

The models describe the evident intent of each call site.

## 5. Not modelled, and the plan

- **`asdict`, `get_workspace_entry`, plain `evolve` with other fields:** the first two are read-only views. `evolve` is modelled where its callers use it: the sync acknowledgement (`Acknowledge`) and the evolve actions. A general `evolve(**data)` could set any field to anything, which no property can constrain.
- **`blocks`, `dirty_blocks` and `last_processed_message`:** carried through unchanged by every modelled operation, and read by no property.
- **The `PKI_ENROLLMENT_UPDATED` signals of `pki.py`:** sent inside the transaction with `send_signal`, so they are undone with it. A property about them would only restate the commit step.
- **Relay wiring (`handler.py:24`):** `RelayedBy` models the wiring as written. It is a plain wiring mistake, visible in the constructor, and is documented in section 4 rather than given a run of its own.
- **`expose_cmds_with_retrier`, `cmds` and the transport:** not in the repository. A command is modelled from the spec as one request and one reply. A retry is another `Call`.
- **The cancelled `finally` block of the invited factory:** `TransportClosedOnExit` states what the factory owes on exit and holds without cancellation. It is not a property of `invited_transport_cancel`, since the cancelled exit breaks it (section 4).
- **A composition of `UserVlob` over `PGHandler`:** the vlob statements would go through the shared queues, so that misrouting and poisoning could be seen end to end.
- **`api/data/pki.py` and `core/fs/utils.py`:** not modelled, because they hold no state.
- **Schema creation and the `start()` handshake of PGHandler:** abstracted into the initial state, which is the state after `start()` returned.
