-------------------------- MODULE FileLimitsProofs --------------------------
(***************************************************************************)
(* The resolver of ranges and the checks of its reader agree, and the       *)
(* manifest of an extraction keeps its limits without wrapping.             *)
(***************************************************************************)
EXTENDS FileLimits, TLAPS

\* The smaller of two numbers is one of them.
LEMMA LeastIsLower ==
  ASSUME NEW m \in Int, NEW n \in Int
  PROVE  Least(m, n) \in {m, n} /\ Least(m, n) <= m /\ Least(m, n) <= n
  BY DEF Least

\* A refusal is no range.
LEMMA RefusalResolvesNothing ==
  ~Resolves(Refused("range")) /\ ~Resolves(Refused("too large"))
  BY DEF Resolves, Refused, Answer

\* Whatever valid range is asked of whatever file, resolveDownloadRange gives what
\* ValidateFileDownloadFrame accepts at the other end of the pipe: inside the file,
\* within the limit of a response, partial only if something is sent.
THEOREM ResolvedIsAccepted ==
  ASSUME NEW total \in Nat, NEW r \in Ranges, ValidateFileDownloadRange(r),
         Resolves(resolveDownloadRange(total, r))
  PROVE  ValidateFileDownloadFrame(total, resolveDownloadRange(total, r))
<1>1. CASE r.kind = "all"
  <2>1. total <= DownloadMax /\ resolveDownloadRange(total, r) = Answer("whole", 0, total)
    <3>1. total > DownloadMax => resolveDownloadRange(total, r) = Refused("too large")
      BY <1>1 DEF resolveDownloadRange
    <3>2. ~(total > DownloadMax) => resolveDownloadRange(total, r) = Answer("whole", 0, total)
      BY <1>1 DEF resolveDownloadRange
    <3> QED
      <4>1. ~(total > DownloadMax)
        BY <3>1, RefusalResolvesNothing
      <4> QED
        BY <3>2, <4>1, LimitsAssumption
  <2> QED
    BY <2>1, LimitsAssumption DEF ValidateFileDownloadFrame, Answer
<1>2. CASE r.kind = "suffix"
  <2> DEFINE l == Least(r.length, total)
  <2>1. r.length \in Nat /\ 0 < r.length /\ r.length <= DownloadMax
    BY <1>2 DEF Ranges, ValidateFileDownloadRange
  <2>2. total # 0 /\ resolveDownloadRange(total, r) = Answer("partial", total - l, l)
    <3>1. total = 0 => resolveDownloadRange(total, r) = Refused("range")
      BY <1>2 DEF resolveDownloadRange
    <3>2. total # 0 => resolveDownloadRange(total, r) = Answer("partial", total - l, l)
      BY <1>2 DEF resolveDownloadRange
    <3> QED
      BY <3>1, <3>2, RefusalResolvesNothing
  <2>3. l \in Nat /\ l # 0 /\ l <= total /\ l <= DownloadMax
    BY <2>1, <2>2, LimitsAssumption DEF Least
  <2> HIDE DEF l
  <2> QED
    BY <2>2, <2>3, LimitsAssumption DEF ValidateFileDownloadFrame, Answer
<1>3. CASE r.kind \in {"from", "slice"}
  <2> DEFINE l == LastByte(total, r) - r.start + 1
  <2>1. r.start \in Nat /\ (r.kind = "slice" => r.end \in Nat /\ r.start <= r.end)
    BY <1>3 DEF Ranges, ValidateFileDownloadRange
  <2>2. /\ r.start < total /\ ~(l > DownloadMax)
        /\ resolveDownloadRange(total, r) = Answer("partial", r.start, l)
    <3>1. total = 0 \/ r.start >= total => resolveDownloadRange(total, r) = Refused("range")
      BY <1>3 DEF resolveDownloadRange
    <3>2. ASSUME total # 0, ~(r.start >= total), l > DownloadMax
          PROVE  resolveDownloadRange(total, r) = Refused("too large")
      BY <1>3, <3>2 DEF resolveDownloadRange
    <3>3. ASSUME total # 0, ~(r.start >= total), ~(l > DownloadMax)
          PROVE  resolveDownloadRange(total, r) = Answer("partial", r.start, l)
      BY <1>3, <3>3 DEF resolveDownloadRange
    <3> HIDE DEF l
    <3> QED
      <4>1. ~(total = 0 \/ r.start >= total)
        BY <3>1, RefusalResolvesNothing
      <4>2. ~(l > DownloadMax)
        BY <4>1, <3>2, RefusalResolvesNothing
      <4> QED
        BY <2>1, <3>3, <4>1, <4>2
  <2>3. l \in Int /\ 0 < l /\ l <= total - r.start
    BY <1>3, <2>1, <2>2 DEF LastByte, Least
  <2> HIDE DEF l
  <2> QED
    BY <2>1, <2>2, <2>3, LimitsAssumption DEF ValidateFileDownloadFrame, Answer
<1> QED
  BY <1>1, <1>2, <1>3 DEF Ranges

\* An archive never expands past what an upload may have.
LEMMA ExpansionWithinUpload ==
  ASSUME NEW input \in Nat
  PROVE  archiveExpansionLimit(input) \in Int /\ archiveExpansionLimit(input) <= ByteMax
<1>1. input * Ratio \in Int /\ Base + input * Ratio \in Int
  BY LimitsAssumption
<1> QED
  BY <1>1, LimitsAssumption, LeastIsLower DEF archiveExpansionLimit

\* An entry that archiveManifest.add accepts leaves the manifest within its limits,
\* so the unsigned difference of the next check does not wrap.
THEOREM AddKeepsLimits ==
  ASSUME NEW m, NEW input \in Nat, NEW path, NEW directory \in BOOLEAN, NEW size \in Nat,
         m.bytes \in Nat, Bounded(m, input), Admits(m, input, path, directory, size)
  PROVE  Bounded(add(m, path, directory, size), input)
<1>1. m.bytes + size \in 0..archiveExpansionLimit(input)
  BY ExpansionWithinUpload DEF Admits
<1>2. m.bytes + size <= ByteMax
  BY LimitsAssumption DEF Admits
<1> QED
  BY <1>1, <1>2 DEF add, Bounded, Admits

\* A path that archiveManifest.add accepts can be made: all its parents are
\* directories of the manifest, and it turned no directory of another path into a file.
THEOREM AddKeepsMakeable ==
  ASSUME NEW m, NEW input \in Nat, NEW path \in Seq(STRING), NEW directory \in BOOLEAN, NEW size \in Nat,
         DOMAIN m.nodes \subseteq Seq(STRING),
         Makeable(m), Admits(m, input, path, directory, size)
  PROVE  Makeable(add(m, path, directory, size))
<1> DEFINE n == add(m, path, directory, size)
<1>1. DOMAIN n.nodes = DOMAIN m.nodes \union Parents(path) \union {path}
  BY DEF add
<1>2. ASSUME NEW p \in DOMAIN n.nodes, NEW q \in Parents(p)
      PROVE  q \in DOMAIN n.nodes /\ n.nodes[q] # "file"
  <2>1. CASE p = path
    <3>1. q \in Parents(path) /\ q # path
      BY <1>2, <2>1 DEF Parents
    <3> QED
      BY <3>1, <1>1 DEF add, Admits, NoClash
  <2>2. CASE p \in Parents(path)
    <3>1. q \in Parents(path) /\ q # path
      BY <1>2, <2>2 DEF Parents
    <3> QED
      BY <3>1, <1>1 DEF add, Admits, NoClash
  <2>3. CASE p \in DOMAIN m.nodes
    <3>1. q \in DOMAIN m.nodes /\ m.nodes[q] # "file"
      BY <1>2, <2>3 DEF Makeable
    <3>2. CASE q = path
      <4>1. directory
        BY <3>1, <3>2 DEF Admits, NoClash
      <4> QED
        BY <4>1, <3>2, <1>1 DEF add
    <3>3. CASE q # path
      BY <3>1, <3>3, <1>1 DEF add
    <3> QED BY <3>2, <3>3
  <2> QED BY <1>1, <1>2, <2>1, <2>2, <2>3
<1> QED BY <1>2 DEF Makeable
=============================================================================
