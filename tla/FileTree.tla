------------------------------ MODULE FileTree ------------------------------
(***************************************************************************)
(* Files and directories: creation, moves, copies, archives and the trash   *)
(* (internal/hostfiles/writer_linux.go, operations_linux.go,                *)
(* archives_linux.go).  What takes long is built in a hidden directory of   *)
(* its own and renamed into place; no rename replaces anything.  The trash  *)
(* writes where an entry came from before it moves it.                      *)
(***************************************************************************)
EXTENDS FileUploads

CONSTANTS
  TrashIDs, MaxTrash,            \* maximumTrashItems
  OperationIDs, MaxOperations    \* maximumInternalOperationItems

VARIABLES
  trash,          \* per item: its directory, its metadata, the entry itself
  work            \* per operation: its directory, what is built, what was set aside

ASSUME TreeAssumption == MaxTrash \in Nat \ {0} /\ MaxOperations \in Nat \ {0}

NoItem == [dir |-> FALSE, meta |-> "none", name |-> None, noted |-> None, payload |-> None]
Empty == [n \in Names |-> None]
NoWork == [dir |-> FALSE, payload |-> Empty, previous |-> Empty]

InitTree == trash = [t \in TrashIDs |-> NoItem] /\ work = [o \in OperationIDs |-> NoWork]

treeStep == step /\ UNCHANGED session
Put(n, c) == visible' = [visible EXCEPT ![n] = c]

-----------------------------------------------------------------------------
(* One system call each.                                                   *)

createManagedNode(h, n) ==
  /\ appendAuthorization /\ helper[h].do = "idle" /\ visible[n] = None
  /\ Put(n, Content("file", <<"new">>, 0)) /\ UNCHANGED <<helper, issued, session, trash, work, faults>>

\* The source is looked at, then renamed.
relocateManagedNode(h, n, m) ==
  /\ visible[n] # None /\ mutate(h, Request("move", "rename", None, n, m), {})
  /\ UNCHANGED <<visible, session, trash, work, faults>>

RenameNode(h) ==
  LET n == helper[h].from  m == helper[h].to IN
  /\ At(h, "move", "rename") /\ End(h) /\ treeStep /\ UNCHANGED <<trash, work, faults>>
  /\ visible' = IF visible[n] # None /\ visible[m] = None
                THEN [visible EXCEPT ![m] = visible[n], ![n] = None] ELSE visible

-----------------------------------------------------------------------------
(* Copies and archives: stage, activate, tidy up.                          *)

\* The walk over the source is one step, when staging starts.
copyManagedEntryAt(c) == c

\* Directories and files in the order of their names, each with its kind.
walkManagedArchiveSource(c) == <<c.kind>> \o c.data
createManagedArchive(c) == Content("archive", walkManagedArchiveSource(c), 1)
extractManagedArchive(c) == Content("tree", c.data, 0)

Builds(do, c) ==
  CASE do = "copy" -> copyManagedEntryAt(c)
    [] do = "compress" -> createManagedArchive(c)
    [] OTHER -> extractManagedArchive(c)

\* An extraction reads an archive; what is no archive is refused.
Accepts(do, c) == do = "extract" => c.kind = "archive"

enforceOperationLimit == Cardinality({o \in OperationIDs : work[o].dir}) < MaxOperations

beginArchiveOperation(h, o, do, n, m) ==
  /\ visible[n] # None /\ enforceOperationLimit
  /\ mutate(h, Request(do, "stage", o, n, m), {o})
  /\ work' = [work EXCEPT ![o].dir = TRUE] /\ UNCHANGED <<visible, session, trash, faults>>

removeOperation(o) == work' = [work EXCEPT ![o] = NoWork]

StageStarts(h) ==
  LET c == visible[helper[h].from] IN
  /\ helper[h].do \in {"copy", "compress", "extract"} /\ helper[h].at = "stage"
  /\ treeStep /\ UNCHANGED <<visible, trash, faults>>
  /\ IF c = None \/ ~Accepts(helper[h].do, c)
     THEN End(h) /\ removeOperation(helper[h].id)
     ELSE /\ helper' = [helper EXCEPT ![h].at = "fill", ![h].from = Builds(helper[h].do, c)]
          /\ work' = [work EXCEPT ![helper[h].id].payload[helper[h].to] = Partial]

StageEnds(h) ==
  /\ helper[h].do \in {"copy", "compress", "extract"} /\ helper[h].at = "fill"
  /\ work' = [work EXCEPT ![helper[h].id].payload[helper[h].to] = helper[h].from]
  /\ Goto(h, "activate") /\ treeStep /\ UNCHANGED <<visible, trash, faults>>

\* A full quota, an entry that changed under way, a limit of the archive.
StageFails(h) ==
  /\ helper[h].do \in {"copy", "compress", "extract"} /\ helper[h].at = "fill"
  /\ Fault /\ End(h) /\ removeOperation(helper[h].id) /\ treeStep /\ UNCHANGED <<visible, trash>>

Activate(h) ==
  LET o == helper[h].id  n == helper[h].to IN
  /\ helper[h].do \in {"copy", "compress", "extract"} /\ helper[h].at = "activate"
  /\ treeStep /\ UNCHANGED <<trash, faults>>
  /\ IF visible[n] = None
     THEN Put(n, work[o].payload[n]) /\ work' = [work EXCEPT ![o].payload = Empty] /\ Goto(h, "finish")
     ELSE End(h) /\ removeOperation(o) /\ UNCHANGED visible

finishArchiveOperation(h) ==
  /\ helper[h].do \in {"copy", "compress", "extract", "restore"} /\ helper[h].at = "finish"
  /\ End(h) /\ removeOperation(helper[h].id) /\ treeStep /\ UNCHANGED <<visible, trash, faults>>

-----------------------------------------------------------------------------
(* The trash.                                                              *)

enforceTrashLimit == Cardinality({t \in TrashIDs : trash[t].dir}) < MaxTrash

\* Type, and for a file size, are those the metadata was written with.
readTrashMetadata(t) ==
  LET i == trash[t] IN
  /\ i.meta = "whole" /\ i.payload # None
  /\ i.payload.kind = i.noted.kind /\ (i.noted.kind # "tree" => i.payload.size = i.noted.size)

listManagedTrash == \A t \in TrashIDs : trash[t].dir => readTrashMetadata(t)

trashManagedNode(h, t, n) ==
  /\ visible[n] # None /\ enforceTrashLimit /\ mutate(h, Request("trash", "mkdir", t, n, visible[n]), {t})
  /\ UNCHANGED <<visible, session, trash, work, faults>>

MakeItem(h) ==
  /\ At(h, "trash", "mkdir") /\ Goto(h, "metadata") /\ treeStep
  /\ trash' = [trash EXCEPT ![helper[h].id].dir = TRUE] /\ UNCHANGED <<visible, work, faults>>

createTrashMetadata(h) ==
  /\ At(h, "trash", "metadata") /\ Goto(h, "move") /\ treeStep
  /\ trash' = [trash EXCEPT ![helper[h].id] = [@ EXCEPT !.meta = "whole", !.name = helper[h].from, !.noted = helper[h].to]]
  /\ UNCHANGED <<visible, work, faults>>

\* What was written of the metadata keeps the directory from being removed.
createTrashMetadataFails(h) ==
  /\ At(h, "trash", "metadata") /\ Fault /\ End(h) /\ treeStep
  /\ \E i \in {NoItem, [NoItem EXCEPT !.dir = TRUE, !.meta = "torn"]} : trash' = [trash EXCEPT ![helper[h].id] = i]
  /\ UNCHANGED <<visible, work>>

MoveToTrash(h) ==
  LET n == helper[h].from  t == helper[h].id IN
  /\ At(h, "trash", "move") /\ End(h) /\ treeStep /\ UNCHANGED <<work, faults>>
  /\ IF visible[n] # None
     THEN trash' = [trash EXCEPT ![t].payload = visible[n]] /\ Put(n, None)
     ELSE trash' = [trash EXCEPT ![t] = NoItem] /\ UNCHANGED visible

\* The lock of an item; who waited for it finds the metadata or no item.
ItemFree(t) == On(t) \subseteq {h \in Helpers : helper[h].do = "trash"}

restoreManagedTrash(h, t) ==
  /\ ItemFree(t) /\ readTrashMetadata(t) /\ mutate(h, Request("untrash", "move", t, None, trash[t].name), {})
  /\ UNCHANGED <<visible, session, trash, work, faults>>

\* Mutation: the metadata goes before the entry is back.
MoveBack_MetadataFirst(h) ==
  LET n == helper[h].to  t == helper[h].id IN
  /\ At(h, "untrash", "move") /\ treeStep /\ UNCHANGED <<work, faults>>
  /\ IF visible[n] = None
     THEN trash' = [trash EXCEPT ![t].meta = "none"] /\ Put(n, None) /\ Goto(h, "metadata")
     ELSE End(h) /\ UNCHANGED <<visible, trash>>

MoveBack(h) ==
  LET n == helper[h].to  t == helper[h].id IN
  /\ At(h, "untrash", "move") /\ treeStep /\ UNCHANGED <<work, faults>>
  /\ IF visible[n] = None
     THEN trash' = [trash EXCEPT ![t].payload = None] /\ Put(n, trash[t].payload) /\ Goto(h, "metadata")
     ELSE End(h) /\ UNCHANGED <<visible, trash>>

purgeManagedTrash(h, t) ==
  /\ ItemFree(t) /\ readTrashMetadata(t) /\ mutate(h, Request("purge", "remove", t, None, None), {})
  /\ UNCHANGED <<visible, session, trash, work, faults>>

\* Entry by entry; a tree is a part of itself in between.
PurgePayload(h) ==
  /\ At(h, "purge", "remove") /\ treeStep /\ UNCHANGED <<visible, work, faults>>
  /\ LET t == helper[h].id IN
     \/ /\ trash[t].payload.kind = "tree" /\ trash[t].payload.data # <<"rest">> /\ UNCHANGED helper
        /\ trash' = [trash EXCEPT ![t].payload.data = <<"rest">>]
     \/ trash' = [trash EXCEPT ![t].payload = None] /\ Goto(h, "metadata")

DropMetadata(h) ==
  /\ helper[h].do \in {"untrash", "purge"} /\ helper[h].at = "metadata" /\ Goto(h, "rmdir") /\ treeStep
  /\ trash' = [trash EXCEPT ![helper[h].id].meta = "none"] /\ UNCHANGED <<visible, work, faults>>

RemoveItem(h) ==
  /\ helper[h].do \in {"untrash", "purge"} /\ helper[h].at = "rmdir" /\ End(h) /\ treeStep
  /\ trash' = [trash EXCEPT ![helper[h].id] = NoItem] /\ UNCHANGED <<visible, work, faults>>

-----------------------------------------------------------------------------
TreeBegins(h) ==
  \/ \E n \in Names : createManagedNode(h, n)
  \/ \E n, m \in Names : relocateManagedNode(h, n, m)
  \/ \E o \in OperationIDs, n, m \in Names, do \in {"copy", "compress", "extract"} : beginArchiveOperation(h, o, do, n, m)
  \/ \E t \in TrashIDs, n \in Names : trashManagedNode(h, t, n)
  \/ \E t \in TrashIDs : restoreManagedTrash(h, t) \/ purgeManagedTrash(h, t)

TreeSteps(h) ==
  \/ RenameNode(h) \/ StageStarts(h) \/ StageEnds(h) \/ StageFails(h) \/ Activate(h) \/ finishArchiveOperation(h)
  \/ MakeItem(h) \/ createTrashMetadata(h) \/ createTrashMetadataFails(h) \/ MoveToTrash(h)
  \/ MoveBack(h) \/ PurgePayload(h) \/ DropMetadata(h) \/ RemoveItem(h)

\* A helper killed while it writes the metadata of an item.
TreeKilled(h) ==
  \/ UNCHANGED trash
  \/ At(h, "trash", "metadata") /\ trash' = [trash EXCEPT ![helper[h].id].meta = "torn"]

\* A process of the account goes on writing to a file it has open, wherever the
\* file was moved to.
Grown(c) == IF c # None /\ c.kind = "file" THEN [c EXCEPT !.size = 2] ELSE c
SiteWrites ==
  /\ Fault /\ UNCHANGED <<helper, work>> /\ treeStep
  /\ \/ \E n \in Names : Grown(visible[n]) # visible[n] /\ Put(n, Grown(visible[n])) /\ UNCHANGED trash
     \/ \E t \in TrashIDs : /\ Grown(trash[t].payload) # trash[t].payload
                            /\ trash' = [trash EXCEPT ![t].payload = Grown(@)] /\ UNCHANGED visible
=============================================================================
