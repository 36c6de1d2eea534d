----------------------------- MODULE FileLimits -----------------------------
(***************************************************************************)
(* The arithmetic of downloads and archives                                *)
(* (internal/hostfiles/download.go, internal/hostfiles/archives_linux.go,   *)
(* internal/agentprotocol/file_download.go): which bytes a range asks for,  *)
(* and what an archive may expand to.  The code computes with unsigned      *)
(* integers, so every difference below has to be shown not to wrap.         *)
(***************************************************************************)
EXTENDS Integers, FiniteSets, Sequences

CONSTANTS
  DownloadMax,    \* MaximumFileDownloadBytes
  ByteMax,        \* MaximumFileUploadBytes
  EntryMax,       \* MaximumFileOperationEntries
  DepthMax,       \* MaximumFileOperationDepth
  Base, Ratio     \* archiveExpansionBase, archiveExpansionRatio

ASSUME LimitsAssumption ==
  /\ DownloadMax \in Nat \ {0} /\ ByteMax \in Nat /\ EntryMax \in Nat /\ DepthMax \in Nat
  /\ Base \in Nat /\ Base <= ByteMax /\ Ratio \in Nat \ {0}

Least(m, n) == IF m <= n THEN m ELSE n

-----------------------------------------------------------------------------
(* Ranges: none, the last bytes of a file, or from a start to an end that  *)
(* may be missing.                                                         *)

Ranges ==
  [kind : {"all"}] \union [kind : {"suffix"}, length : Nat]
    \union [kind : {"from"}, start : Nat] \union [kind : {"slice"}, start : Nat, end : Nat]

ValidateFileDownloadRange(r) ==
  /\ r.kind = "suffix" => r.length > 0 /\ r.length <= DownloadMax
  /\ r.kind = "slice" => r.end >= r.start /\ r.end - r.start < DownloadMax

Answer(result, offset, length) == [result |-> result, offset |-> offset, length |-> length]
Refused(error) == Answer(error, 0, 0)
Resolves(a) == a.result \in {"whole", "partial"}

\* The end of what is sent, for a range that has a start.
LastByte(total, r) == IF r.kind = "slice" THEN Least(total - 1, r.end) ELSE total - 1

resolveDownloadRange(total, r) ==
  IF r.kind = "all" THEN IF total > DownloadMax THEN Refused("too large") ELSE Answer("whole", 0, total)
  ELSE IF total = 0 THEN Refused("range")
  ELSE IF r.kind = "suffix" THEN Answer("partial", total - Least(r.length, total), Least(r.length, total))
  ELSE IF r.start >= total THEN Refused("range")
  ELSE IF LastByte(total, r) - r.start + 1 > DownloadMax THEN Refused("too large")
  ELSE Answer("partial", r.start, LastByte(total, r) - r.start + 1)

\* What the other side of the pipe accepts.
ValidateFileDownloadFrame(total, f) ==
  /\ f.offset <= total /\ f.length <= DownloadMax /\ f.length <= total - f.offset
  /\ f.result = "partial" => f.length # 0
  /\ f.result # "partial" => f.offset = 0 /\ f.length = total

-----------------------------------------------------------------------------
(* Archives: what the manifest of an extraction accepts.                   *)

archiveExpansionLimit(input) ==
  IF input > (ByteMax - Base) \div Ratio THEN ByteMax ELSE Least(Base + input * Ratio, ByteMax)

newArchiveManifest == [entries |-> 0, bytes |-> 0, nodes |-> [p \in {} |-> "none"]]

Parents(path) == {SubSeq(path, 1, i) : i \in 1..(Len(path) - 1)}
Unknown(m, paths) == paths \ DOMAIN m.nodes

\* A directory that a path implied may be named once; nothing else twice, and
\* nothing below a file.
NoClash(m, path, directory) ==
  /\ \A p \in Parents(path) : p \in DOMAIN m.nodes => m.nodes[p] # "file"
  /\ path \in DOMAIN m.nodes => directory /\ m.nodes[path] = "implicit"

Entries(m, path) == m.entries + Cardinality(Unknown(m, Parents(path) \union {path}))

Admits(m, input, path, directory, size) ==
  /\ Len(path) <= DepthMax /\ NoClash(m, path, directory)
  /\ Entries(m, path) <= EntryMax /\ size <= ByteMax - m.bytes
  /\ m.bytes + size <= archiveExpansionLimit(input)

\* The manifest after an entry that was accepted.
add(m, path, directory, size) ==
  [entries |-> Entries(m, path), bytes |-> m.bytes + size,
   nodes |-> [p \in DOMAIN m.nodes \union Parents(path) \union {path} |->
                IF p = path THEN IF directory THEN "directory" ELSE "file"
                ELSE IF p \in DOMAIN m.nodes THEN m.nodes[p] ELSE "implicit"]]

\* What an accepted manifest promises the extraction: the sizes are within both
\* limits, and every path can be made.
Bounded(m, input) ==
  /\ m.bytes \in 0..archiveExpansionLimit(input) /\ m.bytes <= ByteMax /\ m.entries <= EntryMax
Makeable(m) == \A p \in DOMAIN m.nodes : \A q \in Parents(p) : q \in DOMAIN m.nodes /\ m.nodes[q] # "file"
=============================================================================
