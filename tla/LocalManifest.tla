---------------------------- MODULE LocalManifest ----------------------------
(***************************************************************************)
(* The local manifests of core/types/local_manifests.py: one entry, of a   *)
(* kind in Kinds, held in memory by a client, edited through the evolve    *)
(* methods, saved to the client's local storage with local_manifest_dumps *)
(* and read back with local_manifest_loads (after a restart, the in-memory *)
(* copy is gone).  Timestamps come from a clock (pendulum.now()).          *)
(*                                                                         *)
(* A manifest is one record for all kinds: base_version, created and      *)
(* base_updated stand for the base_manifest fields the properties read     *)
(* through; children is the folder/workspace children map, size the file  *)
(* size (its blocks abstracted), workspaces the user's workspace entries.  *)
(* The user manifest keeps base_version and is_placeholder as its own     *)
(* fields.  The serializers are modelled by what they do with the "type"  *)
(* field: TypedLocalManifestSchema (a parsec.serde OneOfSchema with        *)
(* type_field_remove = False) writes get_obj_type(obj) as the type, and on *)
(* load dispatches on it to a schema whose CheckedConstant "type" field   *)
(* must then equal the value read.                                         *)
(***************************************************************************)
EXTENDS Naturals, Sequences, SequencesExt, Functions

CONSTANTS
  Kinds,      \* subset of {"file", "folder", "workspace", "user"}
  Names,      \* child entry names
  EntryIds,   \* child entry ids
  WIds,       \* workspace ids (WorkspaceEntry.id)
  WVals,      \* the rest of a WorkspaceEntry (name, key, role), abstracted
  MaxSize,    \* file sizes are 0..MaxSize
  MaxTime,    \* the clock runs over 0..MaxTime
  MaxEntries, \* bound on the workspace entries of the user manifest
  MaxVersion, \* bound on the base version a sync acknowledges
  Authors,    \* device ids creating the entry
  Parents,    \* entry ids of the parent folder
  None,
  LoadError,  \* local_manifest_loads raised SerdeError
  TypeError   \* to_remote raised TypeError

VARIABLES
  local,   \* the in-memory manifest of the entry, or None
  stored,  \* the bytes saved for it in local storage, or None
  saved,   \* the manifest those bytes were dumped from (history)
  now,     \* pendulum.now()
  remote   \* the last manifest to_remote materialized, TypeError, or None

vars == <<local, stored, saved, now, remote>>

Time == 0..MaxTime
Children == UNION {[S -> EntryIds] : S \in SUBSET Names}
Patches == UNION {[S -> EntryIds \cup {None}] : S \in SUBSET Names}
WEntry == [id : WIds, v : WVals]
WSeqs == BoundedSeq(WEntry, MaxEntries)


Manifest == [kind : Kinds \cup {None}, author : Authors, parent_id : Parents \cup {None},
             base_version : Nat, is_placeholder : BOOLEAN,
             created : Time, base_updated : Time, need_sync : BOOLEAN,
             updated : Time \cup {None}, children : Children,
             size : 0..MaxSize, workspaces : Seq(WEntry)]

-----------------------------------------------------------------------------
(* The pure operations of the evolve methods.                              *)

\* a patch that forgets to drop the names mapped to None (mutant)
EvolveChildrenKeepingNone(children, data) ==
  [n \in DOMAIN children \cup DOMAIN data |-> IF n \in DOMAIN data THEN data[n] ELSE children[n]]

\* {k: v for k, v in {**self.children, **data}.items() if v is not None}
EvolveChildren(children, data) ==
  LET merged == [n \in DOMAIN children \cup DOMAIN data |->
                   IF n \in DOMAIN data THEN data[n] ELSE children[n]]
  IN [n \in {m \in DOMAIN merged : merged[m] # None} |-> merged[n]]

\* a dict keyed by workspace id, as an insertion-ordered sequence of entries:
\* assigning an existing key keeps its position, a new key goes last
Upsert(d, e) ==
  IF \E i \in 1..Len(d) : d[i].id = e.id
  THEN [d EXCEPT ![CHOOSE i \in 1..Len(d) : d[i].id = e.id] = e]
  ELSE Append(d, e)

RECURSIVE UpsertAll(_, _)
UpsertAll(d, s) == IF s = <<>> THEN d ELSE UpsertAll(Upsert(d, Head(s)), Tail(s))

\* tuple concatenation instead of the dict merge (mutant)
EvolveWorkspacesConcat(ws, data) == ws \o data

\* {**{w.id: w for w in self.workspaces}, **{w.id: w for w in data}}.values()
EvolveWorkspaces(ws, data) == UpsertAll(UpsertAll(<<>>, ws), data)

(* Reference definitions: what the merges are meant to compute (spec 4.1). *)
RefEvolveChildren(children, data) ==
  [n \in (DOMAIN children \ DOMAIN data) \cup {m \in DOMAIN data : data[m] # None} |->
     IF n \in DOMAIN data THEN data[n] ELSE children[n]]

\* one entry per id, in order of first appearance, the last value given winning
RefEvolveWorkspaces(ws, data) ==
  LET all == ws \o data
      firsts == {i \in 1..Len(all) : \A j \in 1..(i - 1) : all[j].id # all[i].id}
      order == SetToSortSeq(firsts, <)
      last(id) == all[Max({i \in 1..Len(all) : all[i].id = id})]
  IN [i \in 1..Len(order) |-> last(all[order[i]].id)]

-----------------------------------------------------------------------------
(* Construction.  A manifest record carries every field of every kind; the *)
(* fields a kind does not have hold the Neutral values.                    *)

Neutral == [parent_id |-> None, base_version |-> 0, is_placeholder |-> TRUE,
            created |-> 0, base_updated |-> 0, children |-> <<>>, size |-> 0,
            workspaces |-> <<>>]

\* the attrs defaults of LocalFileManifest (blocks and dirty_blocks abstracted)
FileDefaults == [need_sync |-> FALSE, updated |-> None, size |-> 0]

\* the attrs defaults of LocalFolderManifest and LocalWorkspaceManifest
FolderDefaults == [need_sync |-> FALSE, updated |-> None, children |-> <<>>]

\* the attrs defaults of LocalUserManifest (last_processed_message abstracted)
UserDefaults == [base_version |-> 0, need_sync |-> TRUE, is_placeholder |-> TRUE,
                 created |-> None, updated |-> None, workspaces |-> <<>>]

Defaults(k) ==
  (CASE k = "file" -> FileDefaults
     [] k \in {"folder", "workspace"} -> FolderDefaults
     [] k = "user" -> UserDefaults) @@ Neutral

\* LocalUserManifest.__attrs_post_init__: created defaults to now, updated to created
UserPostInit(m) ==
  LET c == IF m.created = None THEN now ELSE m.created
  IN [m EXCEPT !.created = c, !.updated = IF @ = None THEN c ELSE @]

\* __attrs_post_init__: a missing updated defaults to the base manifest's
PostInit(m) ==
  CASE m.kind = "user" -> UserPostInit(m)
    [] m.updated = None -> [m EXCEPT !.updated = m.base_updated]
    [] OTHER -> m

\* cls(**data): the given fields, the class defaults for the others, post-init
New(k, data) == PostInit((("kind" :> k) @@ data) @@ Defaults(k))

\* attr.evolve(self, **data): the given fields replaced, nothing else touched
Evolve(m, data) == data @@ m

-----------------------------------------------------------------------------
(* Serialization.                                                          *)

\* the fields of the nested base_manifest the model keeps
BaseFields == {"parent_id", "base_version", "created", "base_updated"}

\* LocalFileManifestSchema
FileFields == {"author", "need_sync", "updated", "size"} \cup BaseFields

\* LocalFolderManifestSchema (LocalWorkspaceManifestSchema has the same fields)
FolderFields == {"author", "need_sync", "updated", "children"} \cup BaseFields

\* LocalUserManifestSchema
UserFields == {"author", "base_version", "need_sync", "is_placeholder", "created",
               "updated", "workspaces"}

\* the fields the kind's schema dumps and loads
SchemaFields(k) ==
  CASE k = "file" -> FileFields
    [] k \in {"folder", "workspace"} -> FolderFields
    [] k = "user" -> UserFields

\* get_obj_type of TypedLocalManifestSchema
ObjType(k) ==
  CASE k = "file" -> "local_file_manifest"
    [] k = "folder" -> "local_folder_manifest"
    [] k = "workspace" -> "local_workspace_manifest"
    [] k = "user" -> "local_user_manifest"

\* type_schemas of TypedLocalManifestSchema: the kind whose schema loads a type
SchemaOf(tag) == CHOOSE k \in {"file", "folder", "workspace", "user"} : ObjType(k) = tag

\* the CheckedConstant "type" field of each kind's schema
SchemaTypeConstant(k) ==
  CASE k = "file" -> "local_file_manifest"
    [] k = "folder" -> "local_folder_manifest"
    [] k = "workspace" -> "local_folder_manifest"
    [] k = "user" -> "local_user_manifest"

\* a schema that leaves "updated" out (mutant)
DumpsWithoutUpdated(m) ==
  [type |-> ObjType(m.kind), body |-> Restrict(m, SchemaFields(m.kind) \ {"updated"})]

\* local_manifest_dumps: the schema's fields, and the type set by the OneOfSchema
Dumps(m) == [type |-> ObjType(m.kind), body |-> Restrict(m, SchemaFields(m.kind))]

\* local_manifest_loads: dispatch on type, check the schema's constant, and
\* make_obj: build the manifest from the fields the schema loads
Loads(raw) ==
  LET k == SchemaOf(raw.type) IN
  IF SchemaTypeConstant(k) # raw.type THEN LoadError
  ELSE New(k, Restrict(raw.body, SchemaFields(k) \cap DOMAIN raw.body))

-----------------------------------------------------------------------------
(* Export: to_remote builds the remote manifest from the local fields and *)
(* the keyword overrides **data.  Every field of the remote manifest is   *)
(* already named in the call, so an override repeats a keyword argument:  *)
(* Python raises TypeError before the constructor runs.                    *)

\* remote_manifests.FileManifest, FolderManifest/WorkspaceManifest, UserManifest
Remote ==
  [kind : {"file"}, author : Authors, parent_id : Parents, version : Nat,
   created : Time, updated : Time, size : 0..MaxSize] \cup
  [kind : {"folder", "workspace"}, author : Authors, parent_id : Parents, version : Nat,
   created : Time, updated : Time, children : Children] \cup
  [kind : {"user"}, author : Authors, parent_id : {None}, version : Nat,
   created : Time, updated : Time, workspaces : Seq(WEntry)]

\* remote_manifests.<Kind>Manifest(author=..., ..., **data)
Materialize(m, data, named, payload) ==
  IF DOMAIN data \cap named # {} THEN TypeError
  ELSE [kind |-> m.kind, author |-> m.author, parent_id |-> m.parent_id,
        version |-> m.base_version, created |-> m.created, updated |-> m.updated]
       @@ payload

\* LocalFileManifest.to_remote
ToRemoteFile(m, data) ==
  Materialize(m, data, {"author", "parent_id", "version", "created", "updated",
                        "size", "blocks"}, [size |-> m.size])

\* LocalFolderManifest.to_remote and LocalWorkspaceManifest.to_remote
ToRemoteFolder(m, data) ==
  Materialize(m, data, {"author", "parent_id", "version", "created", "updated",
                        "children"}, [children |-> m.children])

\* LocalUserManifest.to_remote (a UserManifest has no parent_id)
ToRemoteUser(m, data) ==
  Materialize(m, data, {"author", "version", "created", "updated",
                        "last_processed_message", "workspaces"}, [workspaces |-> m.workspaces])

ToRemote(m, data) ==
  CASE m.kind = "file" -> ToRemoteFile(m, data)
    [] m.kind \in {"folder", "workspace"} -> ToRemoteFolder(m, data)
    [] m.kind = "user" -> ToRemoteUser(m, data)

-----------------------------------------------------------------------------
(* The client.                                                             *)

\* make_placeholder(author, parent_id) (file, folder, workspace) and
\* LocalUserManifest(author), which has no parent
Placeholder(k, a, p) ==
  IF k = "user" THEN New("user", [author |-> a])
  ELSE New(k, [author |-> a, parent_id |-> p, base_version |-> 0, created |-> now,
               base_updated |-> now, need_sync |-> TRUE])

\* evolve_and_mark_updated: updated = now unless given, need_sync forced
MarkUpdated(m) == [m EXCEPT !.updated = now, !.need_sync = TRUE]

Init ==
  /\ local = None
  /\ stored = None
  /\ saved = None
  /\ now = 0
  /\ remote = None

\* a new entry of kind k is created offline
MakePlaceholder(k) ==
  /\ local = None /\ stored = None
  /\ \E a \in Authors, p \in Parents : local' = Placeholder(k, a, p)
  /\ UNCHANGED <<stored, saved, now, remote>>

\* evolve_children_and_mark_updated (mark) or evolve_children
EvolveChildrenAction(mark) ==
  /\ local # None /\ local.kind \in {"folder", "workspace"}
  /\ \E data \in Patches :
       LET m == [local EXCEPT !.children = EvolveChildren(@, data)]
       IN local' = IF mark THEN MarkUpdated(m) ELSE m
  /\ UNCHANGED <<stored, saved, now, remote>>

\* a file write: evolve_and_mark_updated(size=...)
EvolveFileAndMarkUpdated ==
  /\ local # None /\ local.kind = "file"
  /\ \E sz \in 0..MaxSize : local' = MarkUpdated([local EXCEPT !.size = sz])
  /\ UNCHANGED <<stored, saved, now, remote>>

\* evolve_workspaces_and_mark_updated(*data) (mark) or evolve_workspaces(*data)
EvolveWorkspacesAction(mark) ==
  /\ local # None /\ local.kind = "user"
  /\ \E data \in WSeqs :
       LET ws == EvolveWorkspaces(local.workspaces, data)
           m == [local EXCEPT !.workspaces = ws]
       IN /\ Len(ws) <= MaxEntries
          /\ local' = IF mark THEN MarkUpdated(m) ELSE m
  /\ UNCHANGED <<stored, saved, now, remote>>

\* the sync step derives the remote manifest to upload: to_remote(), or
\* to_remote(version=...) with the version the store is to accept
ExportToRemote ==
  /\ local # None
  /\ \E data \in {<<>>, [version |-> local.base_version + 1]} :
       remote' = ToRemote(local, data)
  /\ UNCHANGED <<local, stored, saved, now>>

\* the sync engine, once the store accepted version base_version + 1 of the
\* manifest it exported, with no local edit since: for file, folder and
\* workspace evolve(base_manifest=<the accepted manifest>, need_sync=False),
\* for the user manifest evolve(base_version=..., is_placeholder=False,
\* need_sync=False)
Acknowledge ==
  /\ local # None /\ local.base_version < MaxVersion
  /\ remote \notin {None, TypeError}
  /\ remote = ToRemote(local, <<>>)
  /\ local' = Evolve(local,
                IF local.kind = "user"
                THEN [base_version |-> remote.version + 1, is_placeholder |-> FALSE,
                      need_sync |-> FALSE]
                ELSE [base_version |-> remote.version + 1, base_updated |-> remote.updated,
                      need_sync |-> FALSE])
  /\ UNCHANGED <<stored, saved, now, remote>>

Tick == now < MaxTime /\ now' = now + 1 /\ UNCHANGED <<local, stored, saved, remote>>

\* the client stores the manifest: local_manifest_dumps
Save ==
  /\ local # None
  /\ stored' = Dumps(local)
  /\ saved' = local
  /\ UNCHANGED <<local, now, remote>>

\* after a restart the manifest is read back: local_manifest_loads
Reload ==
  /\ stored # None
  /\ local' = IF Loads(stored) = LoadError THEN None ELSE Loads(stored)
  /\ UNCHANGED <<stored, saved, now, remote>>

Next ==
  \/ \E k \in Kinds : MakePlaceholder(k)
  \/ \E mark \in BOOLEAN : EvolveChildrenAction(mark) \/ EvolveWorkspacesAction(mark)
  \/ EvolveFileAndMarkUpdated
  \/ ExportToRemote \/ Acknowledge
  \/ Tick \/ Save \/ Reload

Spec == Init /\ [][Next]_vars

-----------------------------------------------------------------------------
TypeOK ==
  /\ local \in Manifest \cup {None}
  /\ remote \in {None, TypeError} \/ remote \in Remote
  /\ saved \in Manifest \cup {None}
  /\ stored # None => stored.type \in {ObjType(k) : k \in Kinds}
  /\ now \in Time

(***************************************************************************)
(* evolve_children / evolve_children_and_mark_updated compute the spec's  *)
(* merge on every children map a client reaches, for every patch: a name   *)
(* patched to None is removed, any other patched name takes the patch's   *)
(* id, and every untouched sibling is kept.                                *)
(***************************************************************************)
EvolveChildrenCorrect ==
  local # None =>
    \A d \in Patches : EvolveChildren(local.children, d) = RefEvolveChildren(local.children, d)

(***************************************************************************)
(* evolve_workspaces / evolve_workspaces_and_mark_updated keep one entry   *)
(* per workspace id, in order of first appearance, the entry passed last   *)
(* winning: adding or updating a workspace never duplicates or loses one,  *)
(* on every workspace list a client reaches and for every argument list.  *)
(***************************************************************************)
EvolveWorkspacesCorrect ==
  local # None =>
    \A d \in WSeqs : EvolveWorkspaces(local.workspaces, d) = RefEvolveWorkspaces(local.workspaces, d)

(***************************************************************************)
(* A manifest saved with local_manifest_dumps is read back, after any      *)
(* number of later edits and restarts, by local_manifest_loads as exactly *)
(* the manifest that was saved: same kind, need_sync, updated, content.   *)
(***************************************************************************)
ReloadRestoresSaved ==
  stored # None => Loads(stored) = saved
=============================================================================
