--------------------------- MODULE ReleaseStaging ---------------------------
(***************************************************************************)
(* The updater's private store of verified releases                        *)
(* (internal/updateapply/stager.go).  Every Prepare downloads the release   *)
(* anew, checks it against the checksum manifest, the metadata of the       *)
(* immutable release and its attestation, and only then looks at what is    *)
(* staged already.  A tree is published by a rename, its provenance record  *)
(* is written after it: an updater that stops in between leaves a tree with *)
(* no record, one that stops while it undoes a failed attempt a part of a   *)
(* tree, one that stops while it writes the record a part of a record.      *)
(***************************************************************************)
EXTENDS Naturals, FiniteSetsExt

CONSTANTS
  Versions,       \* 1..N; a release brings the schema of its own number
  Betas,          \* the versions that are prereleases
  FirstReleases   \* the versions that are published at the start

VARIABLES
  published,      \* immutable, complete releases of the repository
  staged          \* per version: the tree and its provenance record

Channels == {"stable", "beta"}

ASSUME ReleaseAssumption ==
  /\ Versions = 1..Cardinality(Versions)
  /\ 1 \in Versions \ Betas /\ Betas \subseteq Versions
  /\ FirstReleases # {} /\ FirstReleases \subseteq Versions

NotStaged == [tree |-> "none", record |-> "none"]
Recorded == [tree |-> "whole", record |-> "whole"]
Unrecorded == [tree |-> "whole", record |-> "none"]

InitReleases == published = FirstReleases /\ staged = [v \in Versions |-> NotStaged]

\* Releases appear in the order of their versions; drafts, mutable releases and
\* releases with missing assets are in nobody's set.
Publish ==
  \E v \in Versions \ published : v = Max(published) + 1 /\ published' = published \union {v}

\* The release of the tag is immutable, no draft, and of the right kind.
fetchRelease(v) == v \in published

\* What a download brings: the release, or something that one of the checks finds
\* out: not in SHA256SUMS, another digest than the release metadata has, not
\* attested by the repository's workflow, not the archive of this version.
Downloads == {"whole", "unlisted", "altered", "unattested", "misnamed"}
checksumFor(content) == content # "unlisted"
digestFile(content) == content # "altered"
fetchAttestationBundle(content) == content # "unattested"
extractReleaseArchive(content) == content # "misnamed"

Verified(content) ==
  /\ checksumFor(content) /\ digestFile(content)
  /\ fetchAttestationBundle(content) /\ extractReleaseArchive(content)

loadPrepared(s) == s.record = "whole" /\ s.tree = "whole"

\* Mutation: a tree without a record is taken as it is.
Reusable_Unchecked(s) == s.record = "none" /\ s.tree # "none"

\* An unrecorded tree is used when its digest is that of the fresh download.
Reusable(s) == s.record = "none" /\ s.tree = "whole"

\* Staging v leaves s there and succeeds.
Prepared(v, content, s) ==
  /\ fetchRelease(v) /\ Verified(content)
  /\ \/ loadPrepared(staged[v]) /\ s = staged[v]
     \/ Reusable(staged[v]) /\ s = [staged[v] EXCEPT !.record = "whole"]
     \/ staged[v] = NotStaged /\ s = Recorded

\* Staging v is refused: nothing there is touched.
Refused(v, content) ==
  \/ ~fetchRelease(v) \/ ~Verified(content)
  \/ ~loadPrepared(staged[v]) /\ ~Reusable(staged[v]) /\ staged[v] # NotStaged

\* The record cannot be written: it is removed, and so is a tree of this attempt.
writeProvenanceFails(v, s) ==
  \/ staged[v] = NotStaged /\ s = NotStaged
  \/ Reusable(staged[v]) /\ s = staged[v]

\* What an updater that stops while it stages v can leave behind.
StagingStops(v, s) ==
  /\ fetchRelease(v)
  /\ \/ s = staged[v]
     \/ /\ staged[v] = NotStaged
        /\ s \in {Unrecorded, [tree |-> "whole", record |-> "part"], [tree |-> "part", record |-> "none"]}
     \/ Reusable(staged[v]) /\ s = [staged[v] EXCEPT !.record = "part"]
=============================================================================
