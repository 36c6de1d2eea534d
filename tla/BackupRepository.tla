-------------------------- MODULE BackupRepository --------------------------
(***************************************************************************)
(* Local backups of an account (internal/hostfiles/backups_linux.go).  The  *)
(* repository belongs to root and every operation on it holds its lock from *)
(* beginning to end, a download until its body is closed.  A backup is a    *)
(* directory with two files; directories of other names are a backup that   *)
(* is being made, an import, or one that is being deleted.  The account's   *)
(* files are read and replaced by a helper under the account's identity,    *)
(* which the repository's lock does not keep apart from other helpers.      *)
(***************************************************************************)
EXTENDS FileTree

CONSTANTS
  BackupIDs,
  MaxBackups,     \* MaximumLocalBackups
  MaxImports,     \* MaximumBackupUploads
  BackupLimit,    \* bytes the package allows; a backup made here has one
  ImportSize      \* declared size of an import

VARIABLE repo     \* per backup: the kind of its directory, its files, its data

ASSUME BackupAssumption ==
  MaxBackups \in Nat /\ MaxImports \in Nat /\ BackupLimit \in Nat /\ ImportSize \in Nat \ {0}

treeVars == <<helperVars, session, trash, work>>

NoBackup == [at |-> "none", files |-> {}, scope |-> {}, data |-> Empty, size |-> 0, got |-> 0, written |-> {}]
Published == [NoBackup EXCEPT !.at = "backup", !.files = {"manifest", "payload"},
                                !.size = 1, !.got = 1, !.written = {1}]

\* The whole account, or the directory of one site.
AccountScope == Names
RootScope == {2}
OldSite == Content("tree", <<"old">>, 0)

\* A backup of the account is there already.
InitBackups ==
  \E b \in BackupIDs :
    repo = [[c \in BackupIDs |-> NoBackup] EXCEPT
              ![b] = [Published EXCEPT !.scope = AccountScope, !.data = [Empty EXCEPT ![2] = OldSite]]]

InState(s) == {b \in BackupIDs : repo[b].at = s}
Bytes(e) == IF e.files \cap {"payload", "part"} # {} THEN e.size ELSE 0

\* Every directory counts, whatever its kind; an import with its declared size.
UsedBytes == MapThenSumSet(LAMBDA b : Bytes(repo[b]), BackupIDs)

measureBackupRepository == Cardinality(InState("backup")) <= MaxBackups /\ Cardinality(InState("upload")) <= MaxImports

enforceLocalBackupLimit == Cardinality(InState("backup")) < MaxBackups

BackupWork == {"backup", "reserve", "import", "seal", "release", "delete", "download", "restore"}
lockBackupRepository == \A h \in Helpers : helper[h].do \notin BackupWork

\* Grammar and limits of every entry of the archive.
inspectBackupPayload(b) == repo[b].written = 1..repo[b].size

\* Manifest and payload and nothing else; signature, sizes, digest and the whole
\* archive are checked before a payload is used.
readLocalBackup(b) ==
  repo[b].at = "backup" /\ repo[b].files = {"manifest", "payload"} /\ inspectBackupPayload(b)

Set(b, e) == repo' = [repo EXCEPT ![b] = e]
repoStep == step /\ UNCHANGED <<visible, session, trash, work>>

-----------------------------------------------------------------------------
(* Making a backup.                                                        *)

create(h, b, scope) ==
  /\ lockBackupRepository /\ enforceLocalBackupLimit
  /\ mutate(h, Request("backup", "payload", b, scope, None), {b})
  /\ Set(b, [NoBackup EXCEPT !.at = "staging"]) /\ UNCHANGED <<visible, session, trash, work, faults>>

\* The helper reads the account and streams it to the agent.
createBackupPayload(h) ==
  LET b == helper[h].id  scope == helper[h].from IN
  /\ At(h, "backup", "payload") /\ repoStep /\ UNCHANGED faults
  /\ IF scope = RootScope /\ (visible[2] = None \/ visible[2].kind # "tree")
     THEN End(h) /\ Set(b, NoBackup)
     ELSE /\ Goto(h, "publish")
          /\ Set(b, [repo[b] EXCEPT !.files = {"payload"}, !.size = 1, !.got = 1, !.written = {1}, !.scope = scope,
                                    !.data = [n \in Names |-> IF n \in scope THEN visible[n] ELSE None]])

createFails(h) ==
  /\ At(h, "backup", "payload") /\ Fault /\ End(h) /\ Set(helper[h].id, NoBackup) /\ repoStep

\* The manifest is written, the repository measured, the directory renamed.
PublishBackup(h) ==
  LET b == helper[h].id IN
  /\ At(h, "backup", "publish") /\ End(h) /\ repoStep /\ UNCHANGED faults
  /\ Set(b, IF measureBackupRepository /\ UsedBytes <= BackupLimit
            THEN [repo[b] EXCEPT !.at = "backup", !.files = {"manifest", "payload"}] ELSE NoBackup)

-----------------------------------------------------------------------------
(* Imports.                                                                *)

initiateBackupUpload(h, b, scope) ==
  /\ lockBackupRepository /\ measureBackupRepository
  /\ Cardinality(InState("upload")) < MaxImports /\ Cardinality(InState("backup")) < MaxBackups
  /\ UsedBytes + ImportSize <= BackupLimit
  /\ mutate(h, Request("reserve", "metadata", b, scope, None), {b})
  /\ Set(b, [NoBackup EXCEPT !.at = "upload", !.size = ImportSize, !.scope = scope])
  /\ UNCHANGED <<visible, session, trash, work, faults>>

WriteUploadMetadata(h) ==
  /\ At(h, "reserve", "metadata") /\ Goto(h, "part") /\ repoStep /\ UNCHANGED faults
  /\ repo' = [repo EXCEPT ![helper[h].id].files = {"json"}]

ReservePayload(h) ==
  /\ At(h, "reserve", "part") /\ End(h) /\ repoStep /\ UNCHANGED faults
  /\ repo' = [repo EXCEPT ![helper[h].id].files = {"json", "part"}]

initiateFails(h) ==
  /\ helper[h].do = "reserve" /\ Fault /\ End(h) /\ Set(helper[h].id, NoBackup) /\ repoStep

\* The record of the import, and with it how far it has come.
openBackupUpload(b) == repo[b].at = "upload" /\ "json" \in repo[b].files

uploadChunk(h, b) ==
  /\ lockBackupRepository /\ openBackupUpload(b) /\ "part" \in repo[b].files /\ repo[b].got < repo[b].size
  /\ callWrite(h, Request("import", "write", b, repo[b].got, None))
  /\ UNCHANGED <<visible, session, trash, work, repo, faults>>

\* Mutation: the record is replaced before the bytes are on disk.
WritePiece_RecordFirst(h) ==
  /\ At(h, "import", "write") /\ Goto(h, "record") /\ repoStep /\ UNCHANGED faults
  /\ repo' = [repo EXCEPT ![helper[h].id].got = @ + 1]

WritePiece(h) ==
  /\ At(h, "import", "write") /\ Goto(h, "record") /\ repoStep /\ UNCHANGED faults
  /\ repo' = [repo EXCEPT ![helper[h].id].written = @ \union {helper[h].from + 1}]

replaceBackupUploadMetadata(h) ==
  /\ At(h, "import", "record") /\ End(h) /\ repoStep /\ UNCHANGED faults
  /\ repo' = [repo EXCEPT ![helper[h].id].got = helper[h].from + 1]

chunkFails(h) == helper[h].do = "import" /\ Fault /\ End(h) /\ repoStep /\ UNCHANGED repo

completeBackupUpload(h, b) ==
  /\ lockBackupRepository /\ openBackupUpload(b)
  /\ repo[b].got = repo[b].size /\ "part" \in repo[b].files /\ inspectBackupPayload(b)
  /\ "manifest" \notin repo[b].files
  /\ mutate(h, Request("seal", "manifest", b, None, None), {})
  /\ UNCHANGED <<visible, session, trash, work, repo, faults>>

\* Over the limit, the manifest is taken away again and the import stays.
SealManifest(h) ==
  /\ At(h, "seal", "manifest") /\ repoStep /\ UNCHANGED faults
  /\ IF measureBackupRepository /\ UsedBytes <= BackupLimit
     THEN Goto(h, "payload") /\ repo' = [repo EXCEPT ![helper[h].id].files = @ \union {"manifest"}]
     ELSE End(h) /\ UNCHANGED repo

\* The manifest cannot be written, or the agent stops at it: what there is of it
\* stays, and a second completion does not get past it.
SealFails(h) ==
  /\ At(h, "seal", "manifest") /\ Fault /\ End(h) /\ repoStep
  /\ repo' = [repo EXCEPT ![helper[h].id].files = @ \union {"manifest"}]

RenamePayload(h) ==
  /\ At(h, "seal", "payload") /\ Goto(h, "json") /\ repoStep /\ UNCHANGED faults
  /\ repo' = [repo EXCEPT ![helper[h].id].files = (@ \ {"part"}) \union {"payload"},
                          ![helper[h].id].data = [Empty EXCEPT ![2] = OldSite]]

DropUploadMetadata(h) ==
  /\ At(h, "seal", "json") /\ Goto(h, "publish") /\ repoStep /\ UNCHANGED faults
  /\ repo' = [repo EXCEPT ![helper[h].id].files = @ \ {"json"}]

PublishImport(h) ==
  /\ At(h, "seal", "publish") /\ End(h) /\ repoStep /\ UNCHANGED faults
  /\ repo' = [repo EXCEPT ![helper[h].id].at = "backup"]

cancelBackupUpload(h, b) ==
  /\ lockBackupRepository /\ openBackupUpload(b) /\ mutate(h, Request("release", "remove", b, None, None), {})
  /\ UNCHANGED <<visible, session, trash, work, repo, faults>>

-----------------------------------------------------------------------------
(* Deleting, reading.                                                      *)

delete(h, b) ==
  /\ lockBackupRepository /\ repo[b].at = "backup" /\ mutate(h, Request("delete", "remove", b, None, None), {})
  /\ repo' = [repo EXCEPT ![b].at = "deleting"] /\ UNCHANGED <<visible, session, trash, work, faults>>

\* File by file, in the order of the directory.
removeRootBackupTreeAt(h) ==
  LET b == helper[h].id IN
  /\ helper[h].do \in {"release", "delete"} /\ helper[h].at = "remove" /\ repoStep /\ UNCHANGED faults
  /\ \/ \E f \in repo[b].files : repo' = [repo EXCEPT ![b].files = @ \ {f}] /\ UNCHANGED helper
     \/ repo[b].files = {} /\ Set(b, NoBackup) /\ End(h)

Open(h, b) ==
  /\ lockBackupRepository /\ readLocalBackup(b) /\ callWrite(h, Request("download", "stream", b, None, None))
  /\ UNCHANGED <<visible, session, trash, work, repo, faults>>

CloseDownload(h) == At(h, "download", "stream") /\ End(h) /\ repoStep /\ UNCHANGED <<repo, faults>>

BackupBegins(h) ==
  \E b \in BackupIDs :
    \/ \E scope \in {AccountScope, RootScope} : create(h, b, scope) \/ initiateBackupUpload(h, b, scope)
    \/ uploadChunk(h, b) \/ completeBackupUpload(h, b) \/ cancelBackupUpload(h, b) \/ delete(h, b) \/ Open(h, b)

BackupSteps(h) ==
  \/ createBackupPayload(h) \/ createFails(h) \/ PublishBackup(h)
  \/ WriteUploadMetadata(h) \/ ReservePayload(h) \/ initiateFails(h)
  \/ WritePiece(h) \/ replaceBackupUploadMetadata(h) \/ chunkFails(h)
  \/ SealManifest(h) \/ SealFails(h) \/ RenamePayload(h) \/ DropUploadMetadata(h) \/ PublishImport(h)
  \/ removeRootBackupTreeAt(h) \/ CloseDownload(h)
=============================================================================
