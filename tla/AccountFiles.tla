---------------------------- MODULE AccountFiles ----------------------------
(***************************************************************************)
(* The files of an account as a whole: uploads, the tree and its trash, the *)
(* backups, and the restore that takes a backup back into the tree          *)
(* (restoreBackupPayload and the two activations of                         *)
(* internal/hostfiles/backups_linux.go).                                    *)
(***************************************************************************)
EXTENDS BackupRepository

vars == <<visible, helper, issued, audited, faults, session, trash, work, repo>>

Init == InitHelpers /\ InitUploads /\ InitTree /\ InitBackups

-----------------------------------------------------------------------------
(* The restore.  A helper's own lists: left, the names the current loop has *)
(* before it; aside, those moved out of the way; live, those activated.     *)

restoreStep == step /\ UNCHANGED <<session, trash, repo, faults>>
Present(tree) == {n \in Names : tree[n] # None}

restore(h, b, o) ==
  /\ lockBackupRepository /\ readLocalBackup(b) /\ enforceOperationLimit
  /\ mutate(h, [do |-> "restore", at |-> "extract", id |-> o, from |-> b, to |-> repo[b].scope,
                left |-> {}, aside |-> {}, live |-> {}], {o})
  /\ work' = [work EXCEPT ![o].dir = TRUE] /\ UNCHANGED <<visible, session, trash, repo, faults>>

\* Extraction into the hidden directory, the counts of the manifest, permissions.
extractBackupPayloadStream(h) ==
  LET o == helper[h].id IN
  /\ At(h, "restore", "extract") /\ Goto(h, "inspect") /\ restoreStep /\ UNCHANGED visible
  /\ work' = [work EXCEPT ![o].payload = repo[helper[h].from].data]

extractFails(h) ==
  /\ At(h, "restore", "extract") /\ Fault /\ End(h) /\ removeOperation(helper[h].id)
  /\ step /\ UNCHANGED <<visible, session, trash, repo>>

\* The names to move, once; the directory of a site must be there.
visibleBackupRootNames(h) ==
  LET scope == helper[h].to IN
  /\ At(h, "restore", "inspect") /\ restoreStep /\ UNCHANGED visible
  /\ IF scope = RootScope /\ (visible[2] = None \/ visible[2].kind # "tree")
     THEN End(h) /\ removeOperation(helper[h].id)
     ELSE helper' = [helper EXCEPT ![h].at = "aside", ![h].left = Present(visible) \cap scope] /\ UNCHANGED work

\* Both loops stop at the first rename that fails.  The order is that of the names,
\* backwards, so what is back is an upper part.
TakenBack(h) == {n \in helper[h].live : \A m \in helper[h].live : m >= n => visible[m] # None}
PutBack(h, tree) == {n \in helper[h].aside : \A m \in helper[h].aside : m >= n => tree[m] = None}

\* The rollback of an activation, then the clean-up of every failed operation: the
\* hidden directory goes, with whatever is still in it.
rollback(h) ==
  LET o == helper[h].id
      cleared == [n \in Names |-> IF n \in TakenBack(h) THEN None ELSE visible[n]]
      back == IF TakenBack(h) = helper[h].live THEN PutBack(h, cleared) ELSE {}
  IN /\ visible' = [n \in Names |-> IF n \in back THEN work[o].previous[n] ELSE cleared[n]]
     /\ removeOperation(o) /\ End(h)

MoveAside(h) ==
  LET o == helper[h].id  n == Min(helper[h].left) IN
  /\ At(h, "restore", "aside") /\ helper[h].left # {} /\ restoreStep
  /\ IF visible[n] = None THEN rollback(h)
     ELSE /\ visible' = [visible EXCEPT ![n] = None]
          /\ work' = [work EXCEPT ![o].previous[n] = visible[n]]
          /\ helper' = [helper EXCEPT ![h].left = @ \ {n}, ![h].aside = @ \union {n}]

\* Mutation: the restore gives up without putting back what it moved.
CheckRemaining_NoRollback(h) ==
  /\ At(h, "restore", "aside") /\ helper[h].left = {} /\ restoreStep
  /\ IF helper[h].to # RootScope /\ Present(visible) # {}
     THEN End(h) /\ removeOperation(helper[h].id) /\ UNCHANGED visible
     ELSE /\ helper' = [helper EXCEPT ![h].at = "activate", ![h].left = Present(work[helper[h].id].payload)]
          /\ UNCHANGED <<visible, work>>

\* An account must be empty now; the directory of a site is one name.
CheckRemaining(h) ==
  /\ At(h, "restore", "aside") /\ helper[h].left = {} /\ restoreStep
  /\ IF helper[h].to # RootScope /\ Present(visible) # {} THEN rollback(h)
     ELSE /\ helper' = [helper EXCEPT ![h].at = "activate", ![h].left = Present(work[helper[h].id].payload)]
          /\ UNCHANGED <<visible, work>>

ActivateName(h) ==
  LET o == helper[h].id  n == Min(helper[h].left) IN
  /\ At(h, "restore", "activate") /\ helper[h].left # {} /\ restoreStep
  /\ IF visible[n] # None THEN rollback(h)
     ELSE /\ visible' = [visible EXCEPT ![n] = work[o].payload[n]]
          /\ work' = [work EXCEPT ![o].payload[n] = None]
          /\ helper' = [helper EXCEPT ![h].left = @ \ {n}, ![h].live = @ \union {n}]

\* Everything is in place: what was there before is removed.
RemovePrevious(h) ==
  /\ At(h, "restore", "activate") /\ helper[h].left = {} /\ Goto(h, "finish") /\ restoreStep
  /\ work' = [work EXCEPT ![helper[h].id].previous = Empty] /\ UNCHANGED visible

RestoreSteps(h) ==
  \/ extractBackupPayloadStream(h) \/ extractFails(h) \/ visibleBackupRootNames(h)
  \/ MoveAside(h) \/ CheckRemaining(h) \/ ActivateName(h) \/ RemovePrevious(h)

-----------------------------------------------------------------------------
\* The caller is gone or the deadline is over: the helper dies where it is, and the
\* locks it held are free.
Kill(h) ==
  /\ helper[h].do # "idle" /\ Fault /\ End(h) /\ step
  /\ UploadKilled(h) /\ TreeKilled(h) /\ UNCHANGED <<visible, work, repo>>

\* Authorized and on record, but every slot is taken.
Busy ==
  /\ \A h \in Helpers : helper[h].do # "idle"
  /\ appendAuthorization /\ UNCHANGED <<visible, helper, issued, faults, session, trash, work, repo>>

Next ==
  \/ \E h \in Helpers :
       \/ UploadBegins(h) /\ UNCHANGED <<trash, work, repo>>
       \/ UploadSteps(h) /\ UNCHANGED <<trash, work, repo>>
       \/ TreeBegins(h) /\ UNCHANGED repo
       \/ TreeSteps(h) /\ UNCHANGED repo
       \/ BackupBegins(h)
       \/ BackupSteps(h)
       \/ \E b \in BackupIDs, o \in OperationIDs : restore(h, b, o)
       \/ RestoreSteps(h)
       \/ Kill(h)
  \/ SiteWrites /\ UNCHANGED repo
  \/ Busy

Spec == Init /\ [][Next]_vars

-----------------------------------------------------------------------------
(* Types.                                                                  *)

TypeOK ==
  /\ issued \subseteq UploadIDs \union TrashIDs \union OperationIDs \union BackupIDs
  /\ audited \in 0..MaxAudited /\ faults \in 0..MaxFaults
  /\ \A u \in UploadIDs : /\ session[u].json \in {"none", "torn", "whole"}
                          /\ session[u].part \in {"none", "staged", "placed", "gone"}
  /\ \A t \in TrashIDs : trash[t].meta \in {"none", "torn", "whole"}
  /\ \A b \in BackupIDs : /\ repo[b].at \in {"none", "staging", "upload", "backup", "deleting"}
                          /\ repo[b].files \subseteq {"manifest", "payload", "json", "part"}

-----------------------------------------------------------------------------
(* Properties.                                                             *)

Shown == {visible[n] : n \in Present(visible)}

\* What a listing shows is whole: an upload is published with exactly the bytes of
\* its declared size in their order, whatever chunks, completions and cancellations
\* of the session overlap (the size checks of writeUploadChunk and completeUpload are
\* made under the lock of the inode), and a copy or archive appears complete.
VisibleIsWhole ==
  \A c \in Shown : /\ c # Partial
                   /\ c.kind = "upload" => session[c.data[1]].bytes = Piece(0, UploadSize)

\* An entry in the trash has its metadata, with the path it came from: there is no
\* step of trashManagedNode, restoreManagedTrash or purgeManagedTrash at which a kill
\* leaves an entry that nobody can put back.
TrashRecoverable ==
  \A t \in TrashIDs : trash[t].payload # None => trash[t].meta = "whole" /\ trash[t].name \in Names

\* The reservations of imports and the published backups fit the limit of the
\* package together, whatever was left by operations that were killed.
ReservationsFit ==
  MapThenSumSet(LAMBDA b : Bytes(repo[b]), InState("backup") \union InState("upload")) <= BackupLimit

\* A directory with the name of a backup passes readLocalBackup: one that does not
\* makes every listing of the account fail.  And the offset an import resumes at is
\* behind bytes that are on disk, since uploadChunk replaces the record after the data:
\* an import that was told it has all its bytes has them.
BackupsVerify ==
  /\ \A b \in InState("backup") : readLocalBackup(b)
  /\ \A b \in InState("upload") : 1..repo[b].got \subseteq repo[b].written

\* Where an account's data is: its paths, its trash, what a restore has set aside.
Paths == {<<"path", n>> : n \in Names}
Trashed == {<<"trash", t>> : t \in TrashIDs}
Asides == {<<"aside", o, n>> : o \in OperationIDs, n \in Names}

Everywhere == Paths \union Trashed \union Asides

ContentAt(p) ==
  CASE p[1] = "path" -> visible[p[2]]
    [] p[1] = "trash" -> trash[p[2]].payload
    [] p[1] = "aside" -> work[p[2]].previous[p[3]]
Contents == {ContentAt(p) : p \in Everywhere} \ {None}

\* Without the size: a file grows where it lies.
Same(c, d) == c # None /\ <<c.kind, c.data>> = <<d.kind, d.data>>
Copies(c, places) == Cardinality({p \in places : Same(ContentAt(p), c)})

FailsToActivate(h) == helper[h].do = "restore" /\ helper[h].at \in {"aside", "activate"} /\ helper'[h] = Idle

\* Somebody took a name that the restore had cleared, or changed one it had filled.
Disturbed(h) ==
  \/ \E n \in helper[h].aside \ helper[h].live : visible[n] # None
  \/ \E n \in helper[h].live : visible[n] # repo[helper[h].from].data[n]

\* The places whose contents a step may drop: the item a purge removes, what a restore
\* has replaced completely, and what a restore that fails takes back out.
Dropped(h) ==
  IF At(h, "purge", "remove") THEN {<<"trash", helper[h].id>>}
  ELSE IF At(h, "restore", "activate") /\ helper[h].left = {} THEN {<<"aside", helper[h].id, n>> : n \in Names}
  ELSE IF FailsToActivate(h) THEN {<<"path", n>> : n \in helper[h].live}
  ELSE {}

\* Nothing an account has is overwritten or dropped, not even one of two equal copies:
\* it leaves the tree, the trash and what a restore set aside only by a purge of the
\* item, or by a restore that has put everything in place.  A restore that fails puts
\* all of it back, if no other request or process was at the names it had moved.
DataKept ==
  [][\E h \in Helpers :
       \/ FailsToActivate(h) /\ Disturbed(h)
       \/ \A c \in Contents : Copies(c, Everywhere \ Dropped(h)) <= Copies(c, Everywhere)']_<<visible, trash, work>>

\* "Normal activation failures have deterministic rollback": a restore that gives up,
\* without being killed, has put back what it had set aside.
RollbackKeeps ==
  [][\A h \in Helpers : FailsToActivate(h) /\ faults' = faults =>
       \A n \in Names : helper[h].do = "restore" /\ work[helper[h].id].previous[n] # None
                        => visible'[n] = work[helper[h].id].previous[n]]_vars

\* "the fixed 256-backup ceiling": no more backups than it are published.
BackupCeiling == Cardinality(InState("backup")) <= MaxBackups

\* An entry that was moved to the trash can be listed, restored and purged.
TrashUsable == \A t \in TrashIDs : trash[t].payload # None /\ On(t) = {} => readTrashMetadata(t)
=============================================================================
