---------------------------- MODULE FileUploads ----------------------------
(***************************************************************************)
(* Resumable uploads (internal/hostfiles/writer_linux.go).  A session is two *)
(* hidden files, ID.part and ID.json; the size of the part is how far the   *)
(* upload has come.  A part and the published file are one inode, so a      *)
(* helper that opened the part goes on writing to it after it was published *)
(* or unlinked: only the exclusive lock of the inode and the size checks    *)
(* made under it keep a late chunk out.                                     *)
(***************************************************************************)
EXTENDS FileHelpers, SequencesExt

CONSTANTS
  UploadIDs,
  UploadSize,     \* declared size, in the units chunks are cut from
  MaxSessions     \* fileUploadSessionLimit

VARIABLE session  \* per upload: the metadata, where the part is, its bytes

ASSUME UploadAssumption == UploadSize \in Nat \ {0} /\ MaxSessions \in Nat \ {0}

NoSession == [json |-> "none", part |-> "none", bytes |-> <<>>, name |-> None]
InitUploads == session = [u \in UploadIDs |-> NoSession]

Uploaded(u) == Content("upload", <<u>>, UploadSize)
readUploadMetadata(u) == session[u].json = "whole"

\* Every name that ends in .json counts.
enforceUploadSessionLimit == Cardinality({u \in UploadIDs : session[u].json # "none"}) < MaxSessions

-----------------------------------------------------------------------------
\* The sessions are counted, and nothing keeps another helper from counting too.
initiateUpload(h, u, n) ==
  /\ enforceUploadSessionLimit /\ mutate(h, Request("initiate", "part", u, None, n), {u})
  /\ UNCHANGED <<visible, session, faults>>

CreatePart(h) ==
  /\ At(h, "initiate", "part") /\ Goto(h, "metadata") /\ step
  /\ session' = [session EXCEPT ![helper[h].id].part = "staged"]
  /\ UNCHANGED <<visible, faults>>

createUploadMetadata(h) ==
  /\ At(h, "initiate", "metadata") /\ End(h) /\ step
  /\ session' = [session EXCEPT ![helper[h].id].json = "whole", ![helper[h].id].name = helper[h].to]
  /\ UNCHANGED <<visible, faults>>

\* The metadata cannot be written or synced: the part is removed, and of the
\* metadata what was written stays.
createUploadMetadataFails(h) ==
  /\ At(h, "initiate", "metadata") /\ Fault /\ End(h) /\ step
  /\ \E j \in {"none", "torn", "whole"} :
       session' = [session EXCEPT ![helper[h].id].json = j, ![helper[h].id].part = "gone",
                                  ![helper[h].id].name = IF j = "whole" THEN helper[h].to ELSE @]
  /\ UNCHANGED visible

-----------------------------------------------------------------------------
inspectUpload(u) == Len(session[u].bytes)

Locked(u) == \E h \in On(u) : helper[h].at \in {"append", "publish", "tidy"}
Piece(off, n) == [i \in 1..n |-> off + i]

\* A chunk for the offset a client was told, or for one it was told earlier.
writeUploadChunk(h, u) ==
  \E off \in {0, inspectUpload(u)}, n \in 1..UploadSize :
    /\ readUploadMetadata(u) /\ session[u].part = "staged" /\ off + n <= UploadSize
    /\ callWrite(h, Request("chunk", "lock", u, off, n))
    /\ UNCHANGED <<visible, session, faults>>

\* Mutation: the size is not looked at under the lock.
LockChunk_Unchecked(h) ==
  /\ At(h, "chunk", "lock") /\ ~Locked(helper[h].id) /\ Goto(h, "append") /\ step
  /\ UNCHANGED <<visible, session, faults>>

\* The inode is locked, then it must have the size the chunk continues.
LockChunk(h) ==
  /\ At(h, "chunk", "lock") /\ ~Locked(helper[h].id) /\ step
  /\ IF inspectUpload(helper[h].id) = helper[h].from THEN Goto(h, "append") ELSE End(h)
  /\ UNCHANGED <<visible, session, faults>>

AppendPiece(h, n) ==
  session' = [session EXCEPT ![helper[h].id].bytes = @ \o Piece(helper[h].from, n)]

AppendChunk(h) ==
  /\ At(h, "chunk", "append") /\ AppendPiece(h, helper[h].to) /\ End(h) /\ step /\ UNCHANGED <<visible, faults>>

\* The quota ends the write: some of the chunk is there, and counts.
AppendFails(h) ==
  /\ At(h, "chunk", "append") /\ Fault /\ End(h) /\ step /\ UNCHANGED visible
  /\ \E n \in 0..(helper[h].to - 1) : AppendPiece(h, n)

-----------------------------------------------------------------------------
completeUpload(h, u) ==
  /\ readUploadMetadata(u) /\ session[u].part = "staged"
  /\ mutate(h, Request("complete", "lock", u, None, session[u].name), {})
  /\ UNCHANGED <<visible, session, faults>>

LockPart(h) ==
  /\ At(h, "complete", "lock") /\ ~Locked(helper[h].id) /\ step
  /\ IF inspectUpload(helper[h].id) = UploadSize THEN Goto(h, "publish") ELSE End(h)
  /\ UNCHANGED <<visible, session, faults>>

\* A rename that replaces nothing; the part may have been cancelled.
PublishUpload(h) ==
  LET u == helper[h].id IN
  /\ At(h, "complete", "publish") /\ step /\ UNCHANGED faults
  /\ IF session[u].part = "staged" /\ visible[helper[h].to] = None
     THEN /\ visible' = [visible EXCEPT ![helper[h].to] = Uploaded(u)]
          /\ session' = [session EXCEPT ![u].part = "placed"]
          /\ Goto(h, "tidy")
     ELSE End(h) /\ UNCHANGED <<visible, session>>

TidyUpload(h) ==
  /\ At(h, "complete", "tidy") /\ End(h) /\ step
  /\ session' = [session EXCEPT ![helper[h].id].json = "none"] /\ UNCHANGED <<visible, faults>>

\* No lock: a cancellation can overtake the publication, and the other way round.
cancelUpload(h, u) ==
  /\ readUploadMetadata(u) /\ mutate(h, Request("cancel", "part", u, None, None), {})
  /\ UNCHANGED <<visible, session, faults>>

UnlinkPart(h) ==
  /\ At(h, "cancel", "part") /\ Goto(h, "metadata") /\ step
  /\ session' = [session EXCEPT ![helper[h].id].part = IF @ = "staged" THEN "gone" ELSE @]
  /\ UNCHANGED <<visible, faults>>

UnlinkMetadata(h) ==
  /\ At(h, "cancel", "metadata") /\ End(h) /\ step
  /\ session' = [session EXCEPT ![helper[h].id].json = "none"] /\ UNCHANGED <<visible, faults>>

-----------------------------------------------------------------------------
UploadBegins(h) ==
  \E u \in UploadIDs :
    \/ \E n \in Names : initiateUpload(h, u, n)
    \/ writeUploadChunk(h, u) \/ completeUpload(h, u) \/ cancelUpload(h, u)

UploadSteps(h) ==
  \/ CreatePart(h) \/ createUploadMetadata(h) \/ createUploadMetadataFails(h)
  \/ LockChunk(h) \/ AppendChunk(h) \/ AppendFails(h)
  \/ LockPart(h) \/ PublishUpload(h) \/ TidyUpload(h)
  \/ UnlinkPart(h) \/ UnlinkMetadata(h)

\* What a killed helper can leave of a step that is more than one system call.
UploadKilled(h) ==
  \/ UNCHANGED session
  \/ At(h, "initiate", "metadata") /\ session' = [session EXCEPT ![helper[h].id].json = "torn"]
  \/ At(h, "chunk", "append") /\ \E n \in 1..(helper[h].to - 1) : AppendPiece(h, n)
=============================================================================
