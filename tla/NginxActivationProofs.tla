------------------------ MODULE NginxActivationProofs -----------------------
(***************************************************************************)
(* The activation transaction keeps a configuration that loads behind the  *)
(* link, never touches the sites of an account it does not activate, and   *)
(* keeps what it has answered with success, for any number of accounts and *)
(* operations and any number of crashes and failing steps.                 *)
(***************************************************************************)
EXTENDS NginxActivation, TLAPS

-----------------------------------------------------------------------------
(* The managed files.                                                       *)

\* A revision that may be linked: complete, and without a file that nginx -t refuses.
Good(d, r) ==
    r # None => d.dir[r] = "full" /\ \A a \in Accounts : d.sites[r][a] \notin Bad

\* The account's own file in a revision of operation r.
OwnFile(r) == IF r \in Empty THEN None ELSE r

\* Revision r shows the sites of its predecessor p but for its own account.
Agree(d, r, p) == \A b \in Accounts : b # Account[r] => d.sites[r][b] = SitesOf(d, p)[b]

\* An open journal names the linked revision or its predecessor, which can be linked
\* again, and moving the link back changes one account.
JournalInv(d) ==
    d.journal # NoJournal =>
      /\ d.journal.rev \in Revs /\ d.journal.prev \in OrNone \ {d.journal.rev}
      /\ d.current \in {d.journal.rev, d.journal.prev}
      /\ Good(d, d.journal.prev)
      /\ d.current = d.journal.rev => Agree(d, d.journal.rev, d.journal.prev)

DiskInv(d) ==
    /\ d = [f \in {"current", "journal", "dir", "tx", "sites"} |-> d[f]]
    /\ d.current \in OrNone
    /\ d.dir \in [Revs -> Directory] /\ d.sites \in [Revs -> SiteSet]
    /\ Good(d, d.current)
    /\ \A r \in Revs : d.dir[r] = "full" => d.sites[r][Account[r]] = OwnFile(r)
    /\ JournalInv(d)

-----------------------------------------------------------------------------
(* Where the agent stands, and what it knows of the files there.            *)

Resting == {"idle", "recover", "active"}
Before == {"build", "fill", "markStaged", "test", "markValidated", "promote"}
After == {"markPromoted", "reload", "markReloaded", "probe", "markHealthy", "commitTx",
          "commitJournal"}
Filled == {"markStaged", "test", "markValidated", "promote"} \cup After
Tested == {"markValidated", "promote"} \cup After
Undoing == {"restore", "restoreMark", "restoreReload"}
Recovering == {"recoverRestore", "recoverMark", "recoverReload", "cleanTx", "cleanFiles", "cleanDir",
               "cleanJournal"}
Steps == Resting \cup Before \cup After \cup Undoing \cup Recovering

\* The journal is the agent's.
Matches(d, g) == d.journal.rev = g.rev /\ d.journal.prev = g.prev

AgentInv(d, g) ==
    /\ g = [f \in {"pc", "op", "rev", "prev", "after"} |-> g[f]]
    /\ g.pc \in Steps /\ g.op \in OrNone
    /\ g.pc = "idle" => g.op = None /\ g.rev = None
    /\ g.pc # "idle" => g.op \in Revs
    /\ g.pc = "active" => d.journal = NoJournal
    /\ g.pc \notin Resting =>
         /\ g.rev \in Revs /\ g.prev \in OrNone \ {g.rev} /\ Good(d, g.prev)
         /\ Matches(d, g) \/ (g.pc \in {"restore", "restoreMark"} /\ d.journal = NoJournal)
         /\ d.current \in {g.rev, g.prev}
         /\ g.pc \in After => d.current = g.rev
         /\ g.pc \notin After \cup {"restore", "recoverRestore"} => d.current = g.prev
         /\ d.current = g.rev => Agree(d, g.rev, g.prev)
    /\ g.pc \in Before \cup After => g.rev = g.op
    /\ g.pc \in Filled => d.dir[g.rev] = "full" /\ Agree(d, g.rev, g.prev)
    /\ g.pc \in Tested => Good(d, g.rev)

Inv == DiskInv(disk) /\ AgentInv(disk, agent)

\* What the control plane was told, or would be told from the cache.
Settled(r) == answer[r] = "ok" \/ r \in cached

Untried(r) ==
    \A q \in Revs \ {r} : Account[q] = Account[r] => answer[q] = "none" /\ agent.op # q

SuccessInv ==
    /\ answer \in [Revs -> Answer] /\ cached \subseteq Revs
    /\ \A r \in Revs : Settled(r) => disk.journal.rev # r /\ agent.rev # r /\ agent.op # r
    /\ \A q \in Revs : q \in {disk.journal.rev, agent.rev} => answer[q] # "none" \/ agent.op = q
    /\ \A r \in Revs : Settled(r) /\ r \notin Empty /\ Untried(r)
         => SitesOf(disk, disk.current)[Account[r]] = r

-----------------------------------------------------------------------------
(* What each write leaves on the disk.                                      *)

Shaped(d) == d = [f \in {"current", "journal", "dir", "tx", "sites"} |-> d[f]]

LEMMA LinkWritten ==
  ASSUME NEW d, Shaped(d), NEW x
  PROVE  LET n == [d EXCEPT !.current = x]
         IN  /\ Shaped(n) /\ n.current = x
             /\ n.journal = d.journal /\ n.dir = d.dir /\ n.tx = d.tx /\ n.sites = d.sites
  BY DEF Shaped

LEMMA JournalWritten ==
  ASSUME NEW d, Shaped(d), NEW x
  PROVE  LET n == [d EXCEPT !.journal = x]
         IN  /\ Shaped(n) /\ n.journal = x
             /\ n.current = d.current /\ n.dir = d.dir /\ n.tx = d.tx /\ n.sites = d.sites
  BY DEF Shaped

LEMMA TxWritten ==
  ASSUME NEW d, Shaped(d), NEW x
  PROVE  LET n == [d EXCEPT !.tx = x]
         IN  /\ Shaped(n) /\ n.tx = x
             /\ n.current = d.current /\ n.journal = d.journal /\ n.dir = d.dir /\ n.sites = d.sites
  BY DEF Shaped

LEMMA DirWritten ==
  ASSUME NEW d, Shaped(d), NEW r, NEW x
  PROVE  LET n == [d EXCEPT !.dir[r] = x]
         IN  /\ Shaped(n) /\ n.dir = [d.dir EXCEPT ![r] = x]
             /\ n.current = d.current /\ n.journal = d.journal /\ n.tx = d.tx /\ n.sites = d.sites
  BY DEF Shaped

\* Going to another step changes nothing else of the agent's state.
Moved(pc) == [agent EXCEPT !.pc = pc]

LEMMA MovedAgent ==
  ASSUME NEW pc, Inv
  PROVE  LET g == Moved(pc)
         IN  /\ g = [f \in {"pc", "op", "rev", "prev", "after"} |-> g[f]] /\ g.pc = pc
             /\ g.op = agent.op /\ g.rev = agent.rev /\ g.prev = agent.prev /\ g.after = agent.after
  BY DEF Moved, Inv, AgentInv

\* An agent without a request knows nothing of the files.
LEMMA IdleAgent == ASSUME NEW d PROVE AgentInv(d, Idle)
  BY DEF AgentInv, Idle, Steps, Resting, Before, After, Filled, Tested, OrNone

LEMMA WriteKeeps ==
  ASSUME Inv, NEW new, NEW next, NEW path, Write(new, next, path), DiskInv(new),
         AgentInv(new, Moved(next)),
         path # "return" => AgentInv(new, Moved(path)) /\ AgentInv(disk, Moved(path))
  PROVE  Inv'
<1>1. CASE disk' = new /\ Goto(next)
  BY <1>1 DEF Inv, Goto, Moved
<1>2. CASE disk' \in {disk, new} /\ Fail(path)
  <2>1. CASE path = "return"
    BY <1>2, <2>1, IdleAgent DEF Inv, Fail, Return
  <2>2. CASE path # "return"
    BY <1>2, <2>2 DEF Inv, Fail, Goto, Moved
  <2> QED
    BY <2>1, <2>2
<1> QED
  BY <1>1, <1>2 DEF Write

LEMMA CheckKeeps ==
  ASSUME Inv, NEW holds, NEW next, NEW path, Check(holds, next, path), path # "return",
         holds => AgentInv(disk, Moved(next)), AgentInv(disk, Moved(path))
  PROVE  Inv'
  BY DEF Check, Fail, Goto, Moved, Inv

-----------------------------------------------------------------------------
(* Every step keeps the invariant.                                          *)

\* Writes that leave the directories alone.
LEMMA SameFiles ==
  ASSUME NEW d, NEW n, n.dir = d.dir, n.sites = d.sites
  PROVE  /\ \A r : Good(n, r) <=> Good(d, r)
         /\ \A r, p : Agree(n, r, p) <=> Agree(d, r, p)
         /\ \A r : SitesOf(n, r) = SitesOf(d, r)
  BY DEF Good, Agree, SitesOf

\* Writes to the directories of one revision leave the others alone.
LEMMA OtherFiles ==
  ASSUME NEW d, DiskInv(d), NEW n, NEW r \in Revs,
         \A q \in Revs \ {r} : n.dir[q] = d.dir[q] /\ n.sites[q] = d.sites[q]
  PROVE  \A q \in OrNone \ {r} : (Good(n, q) <=> Good(d, q)) /\ SitesOf(n, q) = SitesOf(d, q)
  BY DEF Good, SitesOf, OrNone

\* The journal of a transaction that the agent is in.
LEMMA MarkKeeps ==
  ASSUME Inv, agent.pc \notin Resting, NEW phase \in Phase
  PROVE  LET n == WithJournal(phase)
         IN  /\ DiskInv(n) /\ Matches(n, agent)
             /\ n.current = disk.current /\ n.dir = disk.dir /\ n.sites = disk.sites
<1> DEFINE n == WithJournal(phase)
           j == Journal(phase, agent.rev, agent.prev)
<1>1. Shaped(disk)
  BY DEF Inv, DiskInv, Shaped
<1>2. /\ Shaped(n) /\ n.journal = j
      /\ n.current = disk.current /\ n.dir = disk.dir /\ n.sites = disk.sites
  BY <1>1, JournalWritten DEF WithJournal
<1>3. j.rev = agent.rev /\ j.prev = agent.prev
  BY DEF Journal
<1> HIDE DEF n, j
<1>4. /\ \A r : Good(n, r) <=> Good(disk, r)
      /\ \A r, p : Agree(n, r, p) <=> Agree(disk, r, p)
  BY <1>2, SameFiles
<1>5. JournalInv(n)
  BY <1>2, <1>3, <1>4 DEF JournalInv, Inv, AgentInv
<1> QED
  BY <1>2, <1>3, <1>4, <1>5 DEF Inv, DiskInv, Shaped, Matches, n

\* A step that only marks the journal.
LEMMA MarkStep ==
  ASSUME Inv, NEW phase \in Phase, NEW next \in Steps \ Resting,
         NEW path \in {"return", "cleanTx", "restore"}, Write(WithJournal(phase), next, path),
         agent.pc \notin Resting,
         agent.pc \in After <=> next \in After,
         path = "cleanTx" => agent.pc \in Before,
         agent.pc \notin {"restore", "recoverRestore"} /\ next \notin {"restore", "recoverRestore"},
         next \in Before => agent.pc \in Before,
         path = "restore" => agent.pc \in After,
         next \in Filled => agent.pc \in Filled,
         next \in Tested => agent.pc \in Tested
  PROVE  Inv'
<1> DEFINE n == WithJournal(phase)
<1>1. /\ DiskInv(n) /\ Matches(n, agent)
      /\ n.current = disk.current /\ n.dir = disk.dir /\ n.sites = disk.sites
  BY MarkKeeps
<1> HIDE DEF n
<1>2. /\ \A r : Good(n, r) <=> Good(disk, r)
      /\ \A r, p : Agree(n, r, p) <=> Agree(disk, r, p)
  BY <1>1, SameFiles
<1>3. AgentInv(n, Moved(next))
  <2> DEFINE g == Moved(next)
  <2>1. /\ g = [f \in {"pc", "op", "rev", "prev", "after"} |-> g[f]] /\ g.pc = next
        /\ g.op = agent.op /\ g.rev = agent.rev /\ g.prev = agent.prev
    BY MovedAgent
  <2> HIDE DEF g
  <2>2. AgentInv(n, g)
    BY <1>1, <1>2, <2>1 DEF Inv, AgentInv, Matches, Resting, After, Before, Steps
  <2> QED
    BY <2>2 DEF g
<1>4. ASSUME path # "return", NEW d \in {disk, n}
      PROVE  AgentInv(d, Moved(path))
  <2> DEFINE g == Moved(path)
  <2>1. /\ g = [f \in {"pc", "op", "rev", "prev", "after"} |-> g[f]] /\ g.pc = path
        /\ g.op = agent.op /\ g.rev = agent.rev /\ g.prev = agent.prev
    BY MovedAgent
  <2> HIDE DEF g
  <2>2. AgentInv(d, g)
    BY <1>1, <1>2, <1>4, <2>1 DEF Inv, AgentInv, Matches, Resting, After, Before, Steps, Filled, Tested,
       Undoing, Recovering
  <2> QED
    BY <2>2 DEF g
<1> QED
  BY <1>1, <1>3, <1>4, WriteKeeps DEF n

\* Moving the link to the revision or back.
LEMMA LinkKeeps ==
  ASSUME Inv, agent.pc \notin Resting, NEW x \in {agent.rev, agent.prev}, Good(disk, x),
         x = agent.rev => Agree(disk, agent.rev, agent.prev)
  PROVE  LET n == [disk EXCEPT !.current = x]
         IN  /\ DiskInv(n) /\ n.current = x
             /\ n.journal = disk.journal /\ n.dir = disk.dir /\ n.sites = disk.sites
<1> DEFINE n == [disk EXCEPT !.current = x]
<1>1. Shaped(disk)
  BY DEF Inv, DiskInv, Shaped
<1>2. /\ Shaped(n) /\ n.current = x
      /\ n.journal = disk.journal /\ n.dir = disk.dir /\ n.sites = disk.sites
  BY <1>1, LinkWritten
<1> HIDE DEF n
<1>3. /\ \A r : Good(n, r) <=> Good(disk, r)
      /\ \A r, p : Agree(n, r, p) <=> Agree(disk, r, p)
  BY <1>2, SameFiles
<1>4. JournalInv(n)
  BY <1>2, <1>3 DEF JournalInv, Inv, DiskInv, AgentInv, Matches
<1>5. x \in OrNone
  BY DEF Inv, AgentInv, OrNone
<1> QED
  BY <1>2, <1>3, <1>4, <1>5 DEF Inv, DiskInv, Shaped, n

\* Writing the files of the agent's revision, which is not the linked one.
LEMMA FilesKeep ==
  ASSUME Inv, agent.pc \notin Resting, Matches(disk, agent), disk.current = agent.prev,
         NEW n, Shaped(n), n.current = disk.current, n.journal = disk.journal,
         n.dir \in [Revs -> Directory], n.sites \in [Revs -> SiteSet],
         \A q \in Revs \ {agent.rev} : n.dir[q] = disk.dir[q] /\ n.sites[q] = disk.sites[q],
         n.dir[agent.rev] = "full" => n.sites[agent.rev][Account[agent.rev]] = OwnFile(agent.rev)
  PROVE  /\ DiskInv(n)
         /\ \A q \in OrNone \ {agent.rev} : (Good(n, q) <=> Good(disk, q)) /\ SitesOf(n, q) = SitesOf(disk, q)
<1>1. agent.rev \in Revs /\ agent.prev \in OrNone \ {agent.rev}
  BY DEF Inv, AgentInv
<1>2. \A q \in OrNone \ {agent.rev} : (Good(n, q) <=> Good(disk, q)) /\ SitesOf(n, q) = SitesOf(disk, q)
  BY <1>1, OtherFiles DEF Inv
<1>3. disk.journal # NoJournal
  BY <1>1, ActivationAssumption DEF Matches, NoJournal
<1>4. JournalInv(n)
  BY <1>1, <1>2, <1>3 DEF JournalInv, Inv, DiskInv, Matches
<1>5. Good(n, n.current) /\ n.current \in OrNone
  BY <1>1, <1>2 DEF Inv, DiskInv
<1>6. \A r \in Revs : n.dir[r] = "full" => n.sites[r][Account[r]] = OwnFile(r)
  BY <1>1 DEF Inv, DiskInv
<1> QED
  BY <1>2, <1>4, <1>5, <1>6 DEF DiskInv, Shaped

\* The link steps.
LEMMA PromoteKeeps == ASSUME Inv, Promote PROVE Inv'
<1> DEFINE n == [disk EXCEPT !.current = agent.rev]
<1>1. agent.pc = "promote" /\ Write(n, "markPromoted", "restore")
  BY DEF Promote, At
<1>2. /\ agent.pc \notin Resting /\ agent.pc \in Before /\ agent.pc \in Filled /\ agent.pc \in Tested
      /\ agent.pc \notin After
  BY <1>1 DEF Resting, Before, Filled, Tested, After
<1>3. Good(disk, agent.rev) /\ Agree(disk, agent.rev, agent.prev) /\ agent.rev = agent.op
  BY <1>2 DEF Inv, AgentInv
<1>4. /\ DiskInv(n) /\ n.current = agent.rev
      /\ n.journal = disk.journal /\ n.dir = disk.dir /\ n.sites = disk.sites
  BY <1>2, <1>3, LinkKeeps
<1> HIDE DEF n
<1>5. /\ \A r : Good(n, r) <=> Good(disk, r)
      /\ \A r, p : Agree(n, r, p) <=> Agree(disk, r, p)
  BY <1>4, SameFiles
<1>6. ASSUME NEW pc \in {"markPromoted", "restore"}, NEW d \in {disk, n}, pc = "markPromoted" => d = n
      PROVE  AgentInv(d, Moved(pc))
  <2> DEFINE g == Moved(pc)
  <2>1. /\ g = [f \in {"pc", "op", "rev", "prev", "after"} |-> g[f]] /\ g.pc = pc
        /\ g.op = agent.op /\ g.rev = agent.rev /\ g.prev = agent.prev
    BY MovedAgent
  <2> HIDE DEF g
  <2>2. AgentInv(d, g)
    BY <1>1, <1>2, <1>3, <1>4, <1>5, <1>6, <2>1 DEF Inv, AgentInv, Matches, Resting, After, Before, Steps,
       Filled, Tested, Undoing
  <2> QED
    BY <2>2 DEF g
<1> QED
  BY <1>1, <1>4, <1>6, WriteKeeps

\* The way back, in a rollback and in a recovery.
LEMMA RestoreKeeps ==
  ASSUME Inv, NEW pc \in {"restore", "recoverRestore"}, agent.pc = pc,
         NEW next \in {"restoreMark", "recoverMark"}, pc = "restore" <=> next = "restoreMark",
         Write([disk EXCEPT !.current = agent.prev], next, "return")
  PROVE  Inv'
<1> DEFINE n == [disk EXCEPT !.current = agent.prev]
<1>1. agent.pc \notin Resting
  BY DEF Resting
<1>2. Good(disk, agent.prev) /\ agent.prev # agent.rev
  BY <1>1 DEF Inv, AgentInv
<1>3. /\ DiskInv(n) /\ n.current = agent.prev
      /\ n.journal = disk.journal /\ n.dir = disk.dir /\ n.sites = disk.sites
  BY <1>1, <1>2, LinkKeeps
<1> HIDE DEF n
<1>4. /\ \A r : Good(n, r) <=> Good(disk, r)
      /\ \A r, p : Agree(n, r, p) <=> Agree(disk, r, p)
  BY <1>3, SameFiles
<1>5. AgentInv(n, Moved(next))
  <2> DEFINE g == Moved(next)
  <2>1. /\ g = [f \in {"pc", "op", "rev", "prev", "after"} |-> g[f]] /\ g.pc = next
        /\ g.op = agent.op /\ g.rev = agent.rev /\ g.prev = agent.prev
    BY MovedAgent
  <2> HIDE DEF g
  <2>2. AgentInv(n, g)
    BY <1>1, <1>2, <1>3, <1>4, <2>1 DEF Inv, AgentInv, Matches, Resting, After, Before, Steps,
       Filled, Tested, Undoing, Recovering
  <2> QED
    BY <2>2 DEF g
<1> QED
  BY <1>3, <1>5, WriteKeeps DEF n

\* Staging writes the candidate's files, cleaning removes them; the link is elsewhere.
LEMMA FileStep ==
  ASSUME Inv, NEW n, NEW next, Write(n, next, "return"),
         agent.pc \in {"build", "fill", "cleanFiles", "cleanDir"},
         <<agent.pc, next>> \in {<<"build", "fill">>, <<"fill", "markStaged">>, <<"cleanFiles", "cleanDir">>,
                                 <<"cleanDir", "cleanJournal">>},
         Shaped(n), n.current = disk.current, n.journal = disk.journal,
         n.dir \in [Revs -> Directory], n.sites \in [Revs -> SiteSet],
         \A q \in Revs \ {agent.rev} : n.dir[q] = disk.dir[q] /\ n.sites[q] = disk.sites[q],
         n.dir[agent.rev] = "full" => n.sites[agent.rev][Account[agent.rev]] = OwnFile(agent.rev),
         agent.pc = "fill" => n.dir[agent.rev] = "full" /\ Agree(n, agent.rev, agent.prev)
  PROVE  Inv'
<1>1. /\ agent.pc \notin Resting /\ Matches(disk, agent) /\ disk.current = agent.prev
      /\ agent.rev \in Revs /\ agent.prev \in OrNone \ {agent.rev} /\ Good(disk, agent.prev)
      /\ agent.op \in Revs /\ (next \in Before => agent.rev = agent.op)
  BY DEF Inv, AgentInv, Resting, After, Before
<1>2. /\ DiskInv(n)
      /\ \A q \in OrNone \ {agent.rev} : (Good(n, q) <=> Good(disk, q)) /\ SitesOf(n, q) = SitesOf(disk, q)
  BY <1>1, FilesKeep
<1>3. Good(n, agent.prev) /\ Matches(n, agent) /\ n.current = agent.prev
  BY <1>1, <1>2 DEF Matches
<1>4. AgentInv(n, Moved(next))
  <2> DEFINE g == Moved(next)
  <2>1. /\ g = [f \in {"pc", "op", "rev", "prev", "after"} |-> g[f]] /\ g.pc = next
        /\ g.op = agent.op /\ g.rev = agent.rev /\ g.prev = agent.prev
    BY MovedAgent
  <2> HIDE DEF g
  <2>2. AgentInv(n, g)
    BY <1>1, <1>3, <2>1 DEF AgentInv, Matches, Resting, After, Before, Steps, Filled, Tested, Recovering, OrNone
  <2> QED
    BY <2>2 DEF g
<1> QED
  BY <1>2, <1>4, WriteKeeps

LEMMA StageBuildKeeps == ASSUME Inv, StageBuild PROVE Inv'
<1> DEFINE y == disk.tx \cup {agent.rev}
           n == [disk EXCEPT !.dir[agent.rev] = "partial", !.tx = y]
<1>1. agent.pc = "build" /\ Write(n, "fill", "return")
  BY DEF StageBuild, At
<1>2. Shaped(disk) /\ agent.rev \in Revs /\ disk.dir \in [Revs -> Directory] /\ disk.sites \in [Revs -> SiteSet]
  BY <1>1 DEF Inv, DiskInv, Shaped, AgentInv, Resting
<1> HIDE DEF y
<1>3. /\ Shaped(n) /\ n.dir = [disk.dir EXCEPT ![agent.rev] = "partial"]
      /\ n.current = disk.current /\ n.journal = disk.journal /\ n.sites = disk.sites
  BY ZenonT(60), <1>2 DEF Shaped
<1> HIDE DEF n
<1>4. n.dir \in [Revs -> Directory] /\ n.dir[agent.rev] = "partial"
      /\ \A q \in Revs \ {agent.rev} : n.dir[q] = disk.dir[q]
  BY <1>2, <1>3 DEF Directory
<1> QED
  BY <1>1, <1>2, <1>3, <1>4, FileStep

LEMMA StageFillKeeps == ASSUME Inv, StageFill PROVE Inv'
<1> DEFINE y == Staged(disk, agent.rev)
           n == [disk EXCEPT !.dir[agent.rev] = "full", !.sites[agent.rev] = y]
<1>1. agent.pc = "fill" /\ Write(n, "markStaged", "return")
  BY DEF StageFill, At
<1>2. /\ Shaped(disk) /\ agent.rev \in Revs /\ disk.dir \in [Revs -> Directory] /\ disk.sites \in [Revs -> SiteSet]
      /\ disk.current = agent.prev /\ agent.prev \in OrNone \ {agent.rev}
  BY <1>1 DEF Inv, DiskInv, Shaped, AgentInv, Resting, After
<1>3. SitesOf(disk, disk.current) \in SiteSet
  BY <1>2 DEF SitesOf, NoSites, SiteSet, OrNone
<1>4. /\ y \in SiteSet /\ y[Account[agent.rev]] = OwnFile(agent.rev)
      /\ \A b \in Accounts : b # Account[agent.rev] => y[b] = SitesOf(disk, agent.prev)[b]
  BY <1>2, <1>3, ActivationAssumption DEF Staged, SiteSet, OwnFile, OrNone
<1> HIDE DEF y
<1>5. /\ Shaped(n) /\ n.dir = [disk.dir EXCEPT ![agent.rev] = "full"]
      /\ n.sites = [disk.sites EXCEPT ![agent.rev] = y]
      /\ n.current = disk.current /\ n.journal = disk.journal
  BY ZenonT(60), <1>2 DEF Shaped
<1> HIDE DEF n
<1>6. /\ n.dir \in [Revs -> Directory] /\ n.dir[agent.rev] = "full"
      /\ n.sites \in [Revs -> SiteSet] /\ n.sites[agent.rev] = y
      /\ \A q \in Revs \ {agent.rev} : n.dir[q] = disk.dir[q] /\ n.sites[q] = disk.sites[q]
  BY <1>2, <1>4, <1>5 DEF Directory
<1>7. SitesOf(n, agent.prev) = SitesOf(disk, agent.prev)
  BY <1>2, <1>6 DEF SitesOf, OrNone
<1>8. Agree(n, agent.rev, agent.prev)
  BY <1>4, <1>6, <1>7 DEF Agree
<1> QED
  BY <1>1, <1>4, <1>5, <1>6, <1>8, FileStep

LEMMA CleanFilesKeeps == ASSUME Inv, CleanFiles PROVE Inv'
<1> DEFINE x == IF disk.dir[agent.rev] = "full" THEN "partial" ELSE disk.dir[agent.rev]
           n == [disk EXCEPT !.dir[agent.rev] = x]
<1>1. agent.pc = "cleanFiles" /\ Write(n, "cleanDir", "return")
  BY DEF CleanFiles, At
<1>2. Shaped(disk) /\ agent.rev \in Revs /\ disk.dir \in [Revs -> Directory] /\ disk.sites \in [Revs -> SiteSet]
  BY <1>1 DEF Inv, DiskInv, Shaped, AgentInv, Resting
<1>3. x \in Directory \ {"full"}
  BY <1>2 DEF Directory
<1> HIDE DEF x
<1>4. /\ Shaped(n) /\ n.dir = [disk.dir EXCEPT ![agent.rev] = x]
      /\ n.current = disk.current /\ n.journal = disk.journal /\ n.sites = disk.sites
  BY <1>2, DirWritten
<1> HIDE DEF n
<1>5. n.dir \in [Revs -> Directory] /\ n.dir[agent.rev] = x
      /\ \A q \in Revs \ {agent.rev} : n.dir[q] = disk.dir[q]
  BY <1>2, <1>3, <1>4
<1> QED
  BY <1>1, <1>2, <1>3, <1>4, <1>5, FileStep

LEMMA CleanDirKeeps == ASSUME Inv, CleanDir PROVE Inv'
<1> DEFINE n == [disk EXCEPT !.dir[agent.rev] = "absent", !.sites[agent.rev] = NoSites]
<1>1. agent.pc = "cleanDir" /\ Write(n, "cleanJournal", "return")
  BY DEF CleanDir, At
<1>2. Shaped(disk) /\ agent.rev \in Revs /\ disk.dir \in [Revs -> Directory] /\ disk.sites \in [Revs -> SiteSet]
  BY <1>1 DEF Inv, DiskInv, Shaped, AgentInv, Resting
<1>3. NoSites \in SiteSet
  BY DEF NoSites, SiteSet, OrNone
<1>4. /\ Shaped(n) /\ n.dir = [disk.dir EXCEPT ![agent.rev] = "absent"]
      /\ n.sites = [disk.sites EXCEPT ![agent.rev] = NoSites]
      /\ n.current = disk.current /\ n.journal = disk.journal
  BY ZenonT(60), <1>2 DEF Shaped
<1> HIDE DEF n
<1>5. /\ n.dir \in [Revs -> Directory] /\ n.dir[agent.rev] = "absent" /\ n.sites \in [Revs -> SiteSet]
      /\ \A q \in Revs \ {agent.rev} : n.dir[q] = disk.dir[q] /\ n.sites[q] = disk.sites[q]
  BY <1>2, <1>3, <1>4 DEF Directory
<1> QED
  BY <1>1, <1>4, <1>5, FileStep

\* Removing the transaction directory changes no file that NGINX reads.
LEMMA TxKeeps ==
  ASSUME Inv, NEW y
  PROVE  LET n == [disk EXCEPT !.tx = y]
         IN  /\ DiskInv(n) /\ n.current = disk.current
             /\ n.journal = disk.journal /\ n.dir = disk.dir /\ n.sites = disk.sites
<1> DEFINE n == [disk EXCEPT !.tx = y]
<1>1. Shaped(disk)
  BY DEF Inv, DiskInv, Shaped
<1>2. /\ Shaped(n) /\ n.current = disk.current
      /\ n.journal = disk.journal /\ n.dir = disk.dir /\ n.sites = disk.sites
  BY <1>1, TxWritten
<1> HIDE DEF n
<1>3. /\ \A r : Good(n, r) <=> Good(disk, r)
      /\ \A r, p : Agree(n, r, p) <=> Agree(disk, r, p)
  BY <1>2, SameFiles
<1>4. JournalInv(n)
  BY <1>2, <1>3 DEF JournalInv, Inv, DiskInv
<1> QED
  BY <1>2, <1>3, <1>4 DEF Inv, DiskInv, Shaped, n

\* The end of a transaction: without the journal nothing is asked of the files.
LEMMA NoJournalKeeps ==
  ASSUME Inv
  PROVE  LET n == [disk EXCEPT !.journal = NoJournal]
         IN  /\ DiskInv(n) /\ n.current = disk.current
             /\ n.journal = NoJournal /\ n.dir = disk.dir /\ n.sites = disk.sites
<1> DEFINE n == [disk EXCEPT !.journal = NoJournal]
<1>1. Shaped(disk)
  BY DEF Inv, DiskInv, Shaped
<1>2. /\ Shaped(n) /\ n.current = disk.current
      /\ n.journal = NoJournal /\ n.dir = disk.dir /\ n.sites = disk.sites
  BY <1>1, JournalWritten
<1> HIDE DEF n
<1>3. \A r : Good(n, r) <=> Good(disk, r)
  BY <1>2, SameFiles
<1>4. JournalInv(n)
  BY <1>2 DEF JournalInv
<1> QED
  BY <1>2, <1>3, <1>4 DEF Inv, DiskInv, Shaped, n

\* A step within a transaction over files that are as they were.
LEMMA SameFilesMove ==
  ASSUME Inv, NEW d, d.current = disk.current, d.journal = disk.journal, d.dir = disk.dir,
         d.sites = disk.sites, NEW next \in Steps \ Resting,
         agent.pc \notin Resting \cup {"restore", "restoreMark", "recoverRestore"},
         next \in After => agent.pc \in After,
         agent.pc \in After => next \in After \cup {"restore"},
         next \in Before => agent.pc \in Before,
         next \in Filled => agent.pc \in Filled,
         next \in Tested => agent.pc \in Tested
  PROVE  AgentInv(d, Moved(next))
<1> DEFINE g == Moved(next)
<1>1. /\ g = [f \in {"pc", "op", "rev", "prev", "after"} |-> g[f]] /\ g.pc = next
      /\ g.op = agent.op /\ g.rev = agent.rev /\ g.prev = agent.prev
  BY MovedAgent
<1> HIDE DEF g
<1>2. /\ \A r : Good(d, r) <=> Good(disk, r)
      /\ \A r, p : Agree(d, r, p) <=> Agree(disk, r, p)
  BY SameFiles
<1>3. AgentInv(d, g)
  BY <1>1, <1>2 DEF Inv, AgentInv, Matches, Resting, Before, After
<1> QED
  BY <1>3 DEF g

LEMMA CommitTxKeeps == ASSUME Inv, CommitTx PROVE Inv'
<1> DEFINE y == disk.tx \ {agent.rev}
           n == [disk EXCEPT !.tx = y]
<1>1. agent.pc = "commitTx" /\ Write(n, "commitJournal", "restore")
  BY DEF CommitTx, At
<1> HIDE DEF y
<1>2. /\ DiskInv(n) /\ n.current = disk.current
      /\ n.journal = disk.journal /\ n.dir = disk.dir /\ n.sites = disk.sites
  BY TxKeeps
<1> HIDE DEF n
<1>3. \A d \in {disk, n}, next \in {"commitJournal", "restore"} : AgentInv(d, Moved(next))
  BY <1>1, <1>2, SameFilesMove DEF Steps, Resting, Before, After, Filled, Tested, Undoing
<1> QED
  BY <1>1, <1>2, <1>3, WriteKeeps

LEMMA CommitJournalKeeps == ASSUME Inv, CommitJournal PROVE Inv'
<1> DEFINE n == [disk EXCEPT !.journal = NoJournal]
<1>1. /\ agent.pc = "commitJournal"
      /\ \/ disk' = n /\ agent' = Idle
         \/ disk' \in {disk, n} /\ agent' = Moved("restore")
  BY DEF CommitJournal, At, Return, Goto, Moved
<1>2. /\ DiskInv(n) /\ n.current = disk.current
      /\ n.journal = NoJournal /\ n.dir = disk.dir /\ n.sites = disk.sites
  BY NoJournalKeeps
<1> HIDE DEF n
<1>3. AgentInv(disk, Moved("restore"))
  BY <1>1, SameFilesMove DEF Steps, Resting, Before, After, Filled, Tested, Undoing
<1>4. AgentInv(n, Moved("restore"))
  <2> DEFINE g == Moved("restore")
  <2>1. /\ \A r : Good(n, r) <=> Good(disk, r)
        /\ \A r, p : Agree(n, r, p) <=> Agree(disk, r, p)
    BY <1>2, SameFiles
  <2>2. g.pc = "restore"
    BY MovedAgent
  <2> HIDE DEF g
  <2>3. AgentInv(n, g)
    BY <1>2, <1>3, <2>1, <2>2 DEF AgentInv, Resting, After, Before, Filled, Tested, g
  <2> QED
    BY <2>3 DEF g
<1> QED
  BY <1>1, <1>2, <1>3, <1>4, IdleAgent DEF Inv

LEMMA CleanTxKeeps == ASSUME Inv, CleanTx PROVE Inv'
<1> DEFINE y == disk.tx \ {agent.rev}
           n == [disk EXCEPT !.tx = y]
           h == [agent EXCEPT !.pc = "cleanFiles", !.after = "abandon"]
<1>1. agent.pc = "cleanTx" /\ disk' \in {disk, n} /\ agent' \in {Moved("cleanFiles"), h}
  BY DEF CleanTx, At, Goto, Moved
<1> HIDE DEF y
<1>2. /\ DiskInv(n) /\ n.current = disk.current
      /\ n.journal = disk.journal /\ n.dir = disk.dir /\ n.sites = disk.sites
  BY TxKeeps
<1> HIDE DEF n
<1>3. \A d \in {disk, n} : AgentInv(d, Moved("cleanFiles"))
  BY <1>1, <1>2, SameFilesMove DEF Steps, Resting, Before, After, Filled, Tested, Recovering
<1>4. \A d \in {disk, n} : AgentInv(d, h)
  <2> DEFINE g == Moved("cleanFiles")
  <2>1. /\ g.pc = "cleanFiles" /\ g.op = agent.op /\ g.rev = agent.rev /\ g.prev = agent.prev
    BY MovedAgent
  <2>2. /\ h = [f \in {"pc", "op", "rev", "prev", "after"} |-> h[f]] /\ h.pc = "cleanFiles"
        /\ h.op = agent.op /\ h.rev = agent.rev /\ h.prev = agent.prev
    BY ZenonT(60) DEF Inv, AgentInv
  <2>3. \A d \in {disk, n} : AgentInv(d, g)
    BY <1>3
  <2> HIDE DEF g, h
  <2> QED
    BY <2>1, <2>2, <2>3 DEF AgentInv, Matches
<1> HIDE DEF h
<1> QED
  BY <1>1, <1>2, <1>3, <1>4 DEF Inv

LEMMA CleanJournalKeeps == ASSUME Inv, CleanJournal PROVE Inv'
<1> DEFINE n == [disk EXCEPT !.journal = NoJournal]
<1>1. /\ agent.pc = "cleanJournal" /\ disk' \in {disk, n}
      /\ \/ agent' = Idle
         \/ disk' = n /\ agent' = Moved("active")
  BY DEF CleanJournal, At, Return, Goto, Moved, Write, Fail
<1>2. DiskInv(n) /\ n.journal = NoJournal
  BY NoJournalKeeps
<1> HIDE DEF n
<1>3. AgentInv(n, Moved("active"))
  <2> DEFINE g == Moved("active")
  <2>1. /\ g = [f \in {"pc", "op", "rev", "prev", "after"} |-> g[f]] /\ g.pc = "active" /\ g.op = agent.op
    BY MovedAgent
  <2> HIDE DEF g
  <2>2. AgentInv(n, g)
    BY <1>1, <1>2, <2>1 DEF Inv, AgentInv, Resting, After, Before, Filled, Tested, Steps, OrNone
  <2> QED
    BY <2>2 DEF g
<1> QED
  BY <1>1, <1>2, <1>3, IdleAgent DEF Inv

\* The first journal entry names the linked revision as the predecessor.
LEMMA StagePrepareKeeps == ASSUME Inv, StagePrepare PROVE Inv'
<1> DEFINE j == Journal("preparing", agent.op, disk.current)
           n == [disk EXCEPT !.journal = j]
           h == [agent EXCEPT !.pc = "build", !.rev = agent.op, !.prev = disk.current, !.after = "failed"]
<1>1. /\ agent.pc = "active" /\ disk.current # agent.op
      /\ \/ disk' = n /\ agent' = h
         \/ disk' \in {disk, n} /\ agent' = Idle
  BY Zenon DEF StagePrepare, At, Return
<1>2. Shaped(disk) /\ agent.op \in Revs
  BY <1>1 DEF Inv, DiskInv, Shaped, AgentInv
<1>3. j.rev = agent.op /\ j.prev = disk.current
  BY DEF Journal
<1> HIDE DEF j
<1>4. /\ Shaped(n) /\ n.current = disk.current
      /\ n.journal = j /\ n.dir = disk.dir /\ n.sites = disk.sites
  BY <1>2, JournalWritten
<1> HIDE DEF n
<1>5. \A r : Good(n, r) <=> Good(disk, r)
  BY <1>4, SameFiles
<1>6. JournalInv(n)
  BY <1>1, <1>2, <1>3, <1>4, <1>5 DEF JournalInv, Inv, DiskInv
<1>7. DiskInv(n)
  BY <1>4, <1>5, <1>6 DEF Inv, DiskInv, Shaped
<1>8. /\ h = [f \in {"pc", "op", "rev", "prev", "after"} |-> h[f]] /\ h.pc = "build"
      /\ h.op = agent.op /\ h.rev = agent.op /\ h.prev = disk.current
  BY ZenonT(60) DEF Inv, AgentInv
<1> HIDE DEF h
<1>9. AgentInv(n, h)
  BY <1>1, <1>2, <1>3, <1>4, <1>5, <1>8 DEF Inv, DiskInv, AgentInv, Matches, Resting, Before, After, Filled,
     Tested, Steps, OrNone
<1> QED
  BY <1>1, <1>7, <1>9, IdleAgent DEF Inv

\* Recover takes over what the journal says, and the journal is right.
LEMMA RecoverKeeps == ASSUME Inv, Recover PROVE Inv'
<1>1. agent.pc = "recover" /\ disk' = disk
  BY DEF Recover, At
<1>2. CASE disk.journal = NoJournal /\ agent' = Moved("active")
  <2> DEFINE g == Moved("active")
  <2>1. /\ g = [f \in {"pc", "op", "rev", "prev", "after"} |-> g[f]] /\ g.pc = "active" /\ g.op = agent.op
    BY MovedAgent
  <2> HIDE DEF g
  <2>2. AgentInv(disk, g)
    BY <1>1, <1>2, <2>1 DEF Inv, AgentInv, Resting, After, Before, Filled, Tested, Steps, OrNone
  <2> QED
    BY <1>1, <1>2, <2>2 DEF Inv, g
<1>3. ASSUME NEW pc \in {"recoverRestore", "recoverMark", "cleanTx"}, Resume(pc), disk.journal # NoJournal,
             pc # "recoverRestore" => disk.current = disk.journal.prev
      PROVE  Inv'
  <2> DEFINE h == [agent EXCEPT !.pc = pc, !.rev = disk.journal.rev, !.prev = disk.journal.prev,
                                !.after = "active"]
  <2>1. agent' = h
    BY <1>3 DEF Resume
  <2>2. /\ h = [f \in {"pc", "op", "rev", "prev", "after"} |-> h[f]] /\ h.pc = pc
        /\ h.op = agent.op /\ h.rev = disk.journal.rev /\ h.prev = disk.journal.prev
    BY ZenonT(60) DEF Inv, AgentInv
  <2> HIDE DEF h
  <2>3. JournalInv(disk)
    BY DEF Inv, DiskInv
  <2>4. AgentInv(disk, h)
    BY <1>1, <1>3, <2>2, <2>3 DEF Inv, AgentInv, JournalInv, Matches, Resting, Before, After, Filled,
       Tested, Steps, OrNone, Recovering
  <2> QED
    BY <1>1, <2>1, <2>4 DEF Inv
<1>4. CASE disk.journal # NoJournal /\ disk.current = disk.journal.rev /\ Resume("recoverRestore")
  BY <1>3, <1>4
<1>5. CASE /\ disk.journal # NoJournal /\ disk.current = disk.journal.prev
           /\ Resume(IF disk.journal.phase \in Visible THEN "recoverMark" ELSE "cleanTx")
  BY <1>3, <1>5
<1> QED
  BY <1>2, <1>4, <1>5 DEF Recover, Moved

\* Steps that change no file: a check, a reload, an answer.
LEMMA TestKeeps == ASSUME Inv, TestCandidate PROVE Inv'
<1> DEFINE ok == \A a \in Accounts : disk.sites[agent.rev][a] \notin Bad
<1>1. agent.pc = "test" /\ Check(ok, "markValidated", "cleanTx")
  BY ZenonT(60) DEF TestCandidate, At
<1>2. AgentInv(disk, Moved("cleanTx"))
  BY <1>1, SameFilesMove DEF Steps, Resting, Before, After, Filled, Tested, Recovering
<1>3. ASSUME ok PROVE AgentInv(disk, Moved("markValidated"))
  <2> DEFINE g == Moved("markValidated")
  <2>1. /\ g = [f \in {"pc", "op", "rev", "prev", "after"} |-> g[f]] /\ g.pc = "markValidated"
        /\ g.op = agent.op /\ g.rev = agent.rev /\ g.prev = agent.prev
    BY MovedAgent
  <2> HIDE DEF g
  <2>2. Good(disk, agent.rev)
    BY <1>1, <1>3 DEF Good, Inv, AgentInv, Filled
  <2>3. AgentInv(disk, g)
    BY <1>1, <2>1, <2>2 DEF Inv, AgentInv, Matches, Resting, Before, After, Filled, Tested, Steps
  <2> QED
    BY <2>3 DEF g
<1> HIDE DEF ok
<1> QED
  BY <1>1, <1>2, <1>3, CheckKeeps

LEMMA QuietKeeps ==
  ASSUME Inv, disk' = disk,
         \/ Reload \/ Probe \/ RecoverReload \/ RestoreReload
         \/ RecoverFails \/ ActiveMatched \/ StageRefused \/ Crash
         \/ UNCHANGED agent
  PROVE  Inv'
<1>1. CASE Reload
  <2>1. agent.pc = "reload" /\ agent' \in {Moved("markReloaded"), Moved("restore")}
    BY <1>1 DEF Reload, At, Goto, Moved
  <2>2. \A pc \in {"markReloaded", "restore"} : AgentInv(disk, Moved(pc))
    BY <2>1, SameFilesMove DEF Steps, Resting, Before, After, Filled, Tested, Undoing
  <2> QED
    BY <2>1, <2>2 DEF Inv
<1>2. CASE Probe
  <2>1. agent.pc = "probe" /\ agent' \in {Moved("markHealthy"), Moved("restore")}
    BY <1>2 DEF Probe, Check, Fail, At, Goto, Moved
  <2>2. \A pc \in {"markHealthy", "restore"} : AgentInv(disk, Moved(pc))
    BY <2>1, SameFilesMove DEF Steps, Resting, Before, After, Filled, Tested, Undoing
  <2> QED
    BY <2>1, <2>2 DEF Inv
<1>3. CASE RecoverReload \/ RestoreReload
  <2>1. agent.pc \in {"recoverReload", "restoreReload"} /\ agent' \in {Moved("cleanTx"), Idle}
    BY <1>3 DEF RecoverReload, RestoreReload, ReloadRestored, Fail, Return, At, Goto, Moved
  <2>2. AgentInv(disk, Moved("cleanTx"))
    BY <2>1, SameFilesMove DEF Steps, Resting, Before, After, Filled, Tested, Recovering
  <2> QED
    BY <2>1, <2>2, IdleAgent DEF Inv
<1>4. CASE RecoverFails \/ ActiveMatched \/ StageRefused \/ Crash
  BY <1>4, IdleAgent DEF RecoverFails, ActiveMatched, StageRefused, Crash, Return, Inv
<1>5. CASE UNCHANGED agent
  BY <1>5 DEF Inv
<1> QED
  BY <1>1, <1>2, <1>3, <1>4, <1>5

LEMMA CallKeeps == ASSUME Inv, NEW r \in Revs, Call(r) PROVE Inv'
<1>1. disk' = disk /\ agent.pc = "idle"
  BY DEF Call, At
<1>2. CASE UNCHANGED agent
  BY <1>1, <1>2 DEF Inv
<1>3. CASE agent' = [Idle EXCEPT !.pc = "recover", !.op = r]
  <2>1. /\ agent' = [f \in {"pc", "op", "rev", "prev", "after"} |-> agent'[f]]
        /\ agent'.pc = "recover" /\ agent'.op = r
    BY ZenonT(60), <1>3 DEF Idle
  <2>2. AgentInv(disk, agent')
    BY <2>1 DEF AgentInv, Resting, Before, After, Filled, Tested, Steps, OrNone
  <2> QED
    BY <1>1, <2>2 DEF Inv
<1> QED
  BY <1>2, <1>3 DEF Call

LEMMA NextKeeps == ASSUME Inv, [Next]_vars PROVE Inv'
<1>1. CASE MarkStaged
  <2>1. agent.pc = "markStaged" /\ Write(WithJournal("staged"), "test", "return")
    BY <1>1 DEF MarkStaged, At
  <2> QED
    BY <2>1, MarkStep DEF Phase, Steps, Resting, Before, After, Filled, Tested
<1>2. CASE MarkValidated
  <2>1. agent.pc = "markValidated" /\ Write(WithJournal("validated"), "promote", "cleanTx")
    BY <1>2 DEF MarkValidated, At
  <2> QED
    BY <2>1, MarkStep DEF Phase, Steps, Resting, Before, After, Filled, Tested
<1>3. CASE MarkPromoted
  <2>1. agent.pc = "markPromoted" /\ Write(WithJournal("promoted"), "reload", "restore")
    BY <1>3 DEF MarkPromoted, At
  <2> QED
    BY <2>1, MarkStep DEF Phase, Steps, Resting, Before, After, Filled, Tested
<1>4. CASE MarkReloaded
  <2>1. agent.pc = "markReloaded" /\ Write(WithJournal("reloaded"), "probe", "restore")
    BY <1>4 DEF MarkReloaded, At
  <2> QED
    BY <2>1, MarkStep DEF Phase, Steps, Resting, Before, After, Filled, Tested
<1>5. CASE MarkHealthy
  <2>1. agent.pc = "markHealthy" /\ Write(WithJournal("healthy"), "commitTx", "restore")
    BY <1>5 DEF MarkHealthy, At
  <2> QED
    BY <2>1, MarkStep DEF Phase, Steps, Resting, Before, After, Filled, Tested
<1>6. CASE RestoreMark
  <2>1. agent.pc = "restoreMark" /\ Write(WithJournal("recovering"), "restoreReload", "return")
    BY <1>6 DEF RestoreMark, At
  <2> QED
    BY <2>1, MarkStep DEF Phase, Steps, Resting, Before, After, Filled, Tested, Undoing
<1>7. CASE RecoverMark
  <2>1. agent.pc = "recoverMark" /\ Write(WithJournal("recovering"), "recoverReload", "return")
    BY <1>7 DEF RecoverMark, At
  <2> QED
    BY <2>1, MarkStep DEF Phase, Steps, Resting, Before, After, Filled, Tested, Recovering
<1>8. CASE Restore \/ RecoverRestore
  BY <1>8, RestoreKeeps DEF Restore, RecoverRestore, At
<1>9. CASE \/ Reload \/ Probe \/ RecoverReload \/ RestoreReload \/ RecoverFails \/ ActiveMatched
           \/ StageRefused \/ Crash
  <2>1. disk' = disk
    BY <1>9 DEF Reload, Probe, Check, RecoverReload, RestoreReload, ReloadRestored, RecoverFails,
       ActiveMatched, StageRefused, Crash
  <2> QED
    BY <1>9, <2>1, QuietKeeps
<1>10. ASSUME NEW r \in Revs, CacheExpires(r) \/ AnswerLost(r)
       PROVE  Inv'
  BY <1>10, QuietKeeps DEF CacheExpires, AnswerLost
<1>11. CASE NginxRestart \/ UNCHANGED vars
  BY <1>11, QuietKeeps DEF NginxRestart, vars
<1>12. CASE RecoveryStep
  BY <1>7, <1>8, <1>9, <1>12, RecoverKeeps, CleanTxKeeps, CleanFilesKeeps, CleanDirKeeps,
     CleanJournalKeeps DEF RecoveryStep
<1>13. CASE StageStep
  BY <1>1, <1>2, <1>9, <1>13, StagePrepareKeeps, StageBuildKeeps, StageFillKeeps, TestKeeps DEF StageStep
<1>14. CASE PromoteStep
  BY <1>3, <1>4, <1>5, <1>6, <1>8, <1>9, <1>14, PromoteKeeps, CommitTxKeeps, CommitJournalKeeps DEF PromoteStep
<1> QED
  BY <1>9, <1>10, <1>11, <1>12, <1>13, <1>14, CallKeeps DEF Next, AgentStep

LEMMA InitInv == Init => Inv
<1> SUFFICES ASSUME Init PROVE Inv
  OBVIOUS
<1>1. /\ disk.current = None /\ disk.journal = NoJournal /\ disk.dir = [r \in Revs |-> "absent"]
      /\ disk.sites = [r \in Revs |-> NoSites]
      /\ disk = [f \in {"current", "journal", "dir", "tx", "sites"} |-> disk[f]]
  BY DEF Init
<1>2. DiskInv(disk)
  BY <1>1 DEF DiskInv, JournalInv, Good, OrNone, SiteSet, NoSites, Directory
<1> QED
  BY <1>2, IdleAgent DEF Inv, Init

\* The inductive invariant of the activation.
THEOREM Invariance == Spec => []Inv
  BY InitInv, NextKeeps, PTL DEF Spec

\* Whenever NGINX starts or reloads, at any point of an activation, a rollback or a
\* recovery and after any number of crashes and failing writes, the link leads to a
\* complete revision that passed nginx -t, or to none.
THEOREM LinkLoads == Spec => []LinkAlwaysLoads
<1>1. Inv => LinkAlwaysLoads
  BY DEF Inv, DiskInv, Good, LinkAlwaysLoads, Loads
<1> QED
  BY <1>1, Invariance, PTL

\* Recover never meets a link that its journal does not explain, and the predecessor
\* that the journal names is complete.
THEOREM JournalTracks == Spec => []JournalTracksLink
<1>1. Inv => JournalTracksLink
  BY DEF Inv, DiskInv, JournalInv, Good, JournalTracksLink
<1> QED
  BY <1>1, Invariance, PTL

-----------------------------------------------------------------------------
(* The sites of the other accounts.                                         *)

Shown(d, b) == SitesOf(d, d.current)[b]

\* What the link shows differs for the account of the agent's revision at most.
ShownMoved(d, n) ==
    \A b \in Accounts : Shown(n, b) # Shown(d, b) => agent.rev \in Revs /\ Account[agent.rev] = b

LEMMA SameShown ==
  ASSUME NEW d, NEW n, n.current = d.current, n.current # None => n.sites[n.current] = d.sites[n.current]
  PROVE  ShownMoved(d, n)
  BY DEF ShownMoved, Shown, SitesOf

\* The files of the agent's revision are written while the link is elsewhere.
LEMMA FilesShown ==
  ASSUME Inv, agent.pc \in {"fill", "cleanDir"}, NEW x, NEW y
  PROVE  ShownMoved(disk, [disk EXCEPT !.dir[agent.rev] = x, !.sites[agent.rev] = y])
<1> DEFINE n == [disk EXCEPT !.dir[agent.rev] = x, !.sites[agent.rev] = y]
<1>1. /\ disk.current = agent.prev /\ agent.prev # agent.rev /\ disk.current \in OrNone
      /\ disk.sites \in [Revs -> SiteSet] /\ agent.rev \in Revs /\ Shaped(disk)
  BY DEF Inv, DiskInv, AgentInv, Resting, After, Shaped
<1>2. n.current = disk.current /\ n.sites = [disk.sites EXCEPT ![agent.rev] = y]
  BY <1>1 DEF Shaped
<1> HIDE DEF n
<1>3. n.current # None => n.sites[n.current] = disk.sites[n.current]
  BY <1>1, <1>2 DEF OrNone
<1> QED
  BY ZenonT(60), <1>2, <1>3, SameShown DEF n

LEMMA LinkShown ==
  ASSUME Inv, agent.pc \in {"promote", "restore", "recoverRestore"}, NEW x \in {agent.rev, agent.prev},
         x = agent.rev => agent.pc = "promote"
  PROVE  ShownMoved(disk, [disk EXCEPT !.current = x])
<1> DEFINE n == [disk EXCEPT !.current = x]
<1>1. /\ agent.rev \in Revs /\ disk.current \in {agent.rev, agent.prev} /\ agent.rev # agent.prev
      /\ (disk.current = agent.rev \/ agent.pc = "promote") => Agree(disk, agent.rev, agent.prev)
      /\ agent.pc = "promote" => disk.current = agent.prev
      /\ Shaped(disk)
  BY DEF Inv, DiskInv, AgentInv, Resting, Filled, After, Shaped
<1>2. n.current = x /\ n.sites = disk.sites
  BY <1>1, LinkWritten
<1> HIDE DEF n
<1>3. SitesOf(n, agent.prev) = SitesOf(disk, agent.prev) /\ SitesOf(n, agent.rev) = disk.sites[agent.rev]
      /\ SitesOf(disk, agent.rev) = disk.sites[agent.rev]
  BY <1>1, <1>2, ActivationAssumption DEF SitesOf
<1>4. ShownMoved(disk, n)
  BY <1>1, <1>2, <1>3 DEF ShownMoved, Shown, Agree
<1> QED
  BY <1>4 DEF n

LEMMA ShownStep == ASSUME Inv, [Next]_vars PROVE ShownMoved(disk, disk')
<1>0. Shaped(disk)
  BY DEF Inv, DiskInv, Shaped
<1>1. ShownMoved(disk, disk)
  BY DEF ShownMoved
<1>2. ASSUME NEW j PROVE ShownMoved(disk, [disk EXCEPT !.journal = j])
  <2> DEFINE n == [disk EXCEPT !.journal = j]
  <2>1. n.current = disk.current /\ n.sites = disk.sites
    BY <1>0, JournalWritten
  <2> HIDE DEF n
  <2>2. ShownMoved(disk, n)
    BY <2>1, SameShown
  <2> QED
    BY <2>2 DEF n
<1>3. ASSUME NEW y PROVE ShownMoved(disk, [disk EXCEPT !.tx = y])
  <2> DEFINE n == [disk EXCEPT !.tx = y]
  <2>1. n.current = disk.current /\ n.sites = disk.sites
    BY <1>0, TxWritten
  <2> HIDE DEF n
  <2>2. ShownMoved(disk, n)
    BY <2>1, SameShown
  <2> QED
    BY <2>2 DEF n
<1>4. ASSUME NEW new, NEW next, NEW path, Write(new, next, path), ShownMoved(disk, new)
      PROVE  ShownMoved(disk, disk')
  BY <1>1, <1>4 DEF Write
<1>5. CASE \/ MarkStaged \/ MarkValidated \/ MarkPromoted \/ MarkReloaded \/ MarkHealthy \/ RestoreMark
           \/ RecoverMark
  BY <1>2, <1>4, <1>5 DEF MarkStaged, MarkValidated, MarkPromoted, MarkReloaded, MarkHealthy, RestoreMark,
     RecoverMark, WithJournal
<1>6. CASE StagePrepare \/ CommitJournal \/ CleanJournal
  <2>1. disk' = disk \/ \E j : disk' = [disk EXCEPT !.journal = j]
    BY <1>6, Zenon DEF StagePrepare, CommitJournal, CleanJournal, Write
  <2> QED
    BY <1>1, <1>2, <2>1
<1>7. CASE CleanTx \/ CommitTx
  <2>1. disk' = disk \/ \E y : disk' = [disk EXCEPT !.tx = y]
    BY <1>7, Zenon DEF CleanTx, CommitTx, Write
  <2> QED
    BY <1>1, <1>3, <2>1
<1>8. CASE Promote
  BY <1>4, <1>8, LinkShown DEF Promote, At
<1>9. CASE Restore \/ RecoverRestore
  <2>1. agent.prev # agent.rev
    BY <1>9 DEF Inv, AgentInv, Restore, RecoverRestore, At, Resting
  <2> QED
    BY <1>4, <1>9, <2>1, LinkShown DEF Restore, RecoverRestore, At
<1>10. CASE StageBuild
  <2> DEFINE y == disk.tx \cup {agent.rev}
             n == [disk EXCEPT !.dir[agent.rev] = "partial", !.tx = y]
  <2>1. Write(n, "fill", "return")
    BY <1>10 DEF StageBuild
  <2> HIDE DEF y
  <2>2. n.current = disk.current /\ n.sites = disk.sites
    BY <1>0 DEF Shaped
  <2> HIDE DEF n
  <2> QED
    BY <1>4, <2>1, <2>2, SameShown
<1>11. CASE CleanFiles
  <2> DEFINE x == IF disk.dir[agent.rev] = "full" THEN "partial" ELSE disk.dir[agent.rev]
             n == [disk EXCEPT !.dir[agent.rev] = x]
  <2>1. Write(n, "cleanDir", "return")
    BY <1>11 DEF CleanFiles
  <2> HIDE DEF x
  <2>2. n.current = disk.current /\ n.sites = disk.sites
    BY SMTT(60), <1>0 DEF Shaped
  <2> HIDE DEF n
  <2> QED
    BY <1>4, <2>1, <2>2, SameShown
<1>12. CASE StageFill
  BY ZenonT(60), <1>4, <1>12, FilesShown DEF StageFill, At
<1>13. CASE CleanDir
  BY ZenonT(60), <1>4, <1>13, FilesShown DEF CleanDir, At
<1>14. CASE \/ Reload \/ Probe \/ RecoverReload \/ RestoreReload \/ RecoverFails \/ ActiveMatched
            \/ StageRefused \/ Crash \/ Recover \/ TestCandidate \/ NginxRestart \/ UNCHANGED vars
  <2>1. disk' = disk
    BY <1>14 DEF Reload, Probe, Check, RecoverReload, RestoreReload, ReloadRestored, RecoverFails,
       ActiveMatched, StageRefused, Crash, Recover, TestCandidate, NginxRestart, vars
  <2> QED
    BY <1>1, <2>1
<1>15. ASSUME NEW r \in Revs, Call(r) \/ CacheExpires(r) \/ AnswerLost(r)
       PROVE  ShownMoved(disk, disk')
  BY <1>1, <1>15 DEF Call, CacheExpires, AnswerLost
<1>16. CASE RecoveryStep
  BY <1>5, <1>6, <1>7, <1>9, <1>11, <1>13, <1>14, <1>16 DEF RecoveryStep
<1>17. CASE StageStep
  BY <1>5, <1>6, <1>10, <1>12, <1>14, <1>17 DEF StageStep
<1>18. CASE PromoteStep
  BY <1>5, <1>6, <1>7, <1>8, <1>9, <1>14, <1>18 DEF PromoteStep
<1> QED
  BY <1>14, <1>15, <1>16, <1>17, <1>18 DEF Next, AgentStep

\* Moving the link, forwards or back, changes the sites of one account: the one whose
\* activation the agent carries out, rolls back or recovers from.
THEOREM OthersKept == Spec => OtherAccountsKept
<1>1. Inv /\ [Next]_vars =>
        [\A b \in Accounts : View(disk)'.sites[b] # View(disk).sites[b] =>
           agent.rev \in {r \in Revs : Account[r] = b}]_vars
  BY ShownStep DEF ShownMoved, Shown, View
<1> QED
  BY <1>1, Invariance, PTL DEF Spec, OtherAccountsKept

-----------------------------------------------------------------------------
(* Successes are kept.                                                      *)

\* Nothing is settled that was not, and what was tried stays tried.
Kept ==
    /\ answer' \in [Revs -> Answer] /\ cached' \subseteq Revs
    /\ \A r \in Revs : Settled(r)' => Settled(r) /\ agent'.op # r
    /\ \A q \in Revs : answer'[q] = "none" => answer[q] = "none" /\ (agent.op = q => agent'.op = q)

\* The journal and the agent stay with the revisions they know of.
Known == {disk.journal.rev, agent.rev, agent.op, None}
Stays == disk'.journal.rev \in Known /\ agent'.rev \in Known

\* The linked file of an account whose settled operation was not followed by another
\* one stays: the agent works on the revision of another account.
LEMMA SuccessShown ==
  ASSUME SuccessInv, ShownMoved(disk, disk'), NEW r \in Revs, Settled(r), Untried(r), r \notin Empty
  PROVE  SitesOf(disk, disk.current)'[Account[r]] = r
<1>1. SitesOf(disk, disk.current)[Account[r]] = r
  BY DEF SuccessInv
<1>2. ~(agent.rev \in Revs /\ Account[agent.rev] = Account[r])
  BY DEF SuccessInv, Untried
<1>3. Account[r] \in Accounts
  BY SMTT(60), ActivationAssumption
<1> QED
  BY <1>1, <1>2, <1>3 DEF ShownMoved, Shown

LEMMA QuietSuccess ==
  ASSUME SuccessInv, ShownMoved(disk, disk'), Kept, Stays
  PROVE  SuccessInv'
<1>1. \A r \in Revs : Settled(r)' => (disk.journal.rev # r /\ agent.rev # r /\ agent.op # r)'
  BY SMTT(60), ActivationAssumption DEF SuccessInv, Kept, Stays, Known
<1>2. \A q \in Revs : (q \in {disk.journal.rev, agent.rev} => answer[q] # "none" \/ agent.op = q)'
  BY SMTT(60), ActivationAssumption DEF SuccessInv, Kept, Stays, Known
<1>3. ASSUME NEW r \in Revs, Settled(r)', r \notin Empty, Untried(r)'
      PROVE  SitesOf(disk, disk.current)'[Account[r]] = r
  <2>1. Settled(r)
    BY <1>3 DEF Kept
  <2>2. Untried(r)
    BY <1>3 DEF Kept, Untried
  <2> QED
    BY <1>3, <2>1, <2>2, SuccessShown
<1> QED
  BY SMTT(60), <1>1, <1>2, <1>3 DEF SuccessInv, Kept

LEMMA GotoKept == ASSUME Inv, SuccessInv, NEW pc, Goto(pc) PROVE Kept /\ agent'.rev = agent.rev
  <1>1. agent'.op = agent.op /\ agent'.rev = agent.rev /\ answer' = answer /\ cached' = cached
    BY MovedAgent DEF Goto, Moved
  <1> QED
    BY <1>1 DEF Kept, SuccessInv, Settled

LEMMA ReturnKept ==
  ASSUME Inv, SuccessInv, agent.op \in Revs, NEW result \in Answer \ {"none", "ok"},
         agent' = Idle, answer' = [answer EXCEPT ![agent.op] = result], cached' \subseteq cached
  PROVE  Kept /\ agent'.rev = None
<1>1. agent'.op = None /\ agent'.rev = None
  BY DEF Idle
<1>2. answer' \in [Revs -> Answer] /\ cached' \subseteq Revs
  BY DEF SuccessInv
<1>3. \A q \in Revs : answer'[q] = IF q = agent.op THEN result ELSE answer[q]
  BY DEF SuccessInv
<1> QED
  BY <1>1, <1>2, <1>3, ActivationAssumption DEF Kept, Settled

LEMMA FailKept ==
  ASSUME Inv, SuccessInv, agent.op \in Revs, NEW path, Fail(path)
  PROVE  Kept /\ agent'.rev \in {agent.rev, None}
<1>1. CASE path = "return"
  BY <1>1, ReturnKept DEF Fail, Return, Answer
<1>2. CASE path # "return"
  BY <1>2, GotoKept DEF Fail
<1> QED
  BY <1>1, <1>2

\* A write that leaves the journal with a known revision.
LEMMA WriteSuccess ==
  ASSUME Inv, SuccessInv, agent.op \in Revs, ShownMoved(disk, disk'),
         NEW new, NEW next, NEW path, Write(new, next, path), new.journal.rev \in Known
  PROVE  SuccessInv'
<1>1. Kept /\ agent'.rev \in {agent.rev, None}
  BY GotoKept, FailKept DEF Write
<1>2. disk' \in {disk, new}
  BY SMTT(60) DEF Write
<1> QED
  BY <1>1, <1>2, QuietSuccess DEF Stays, Known

\* The operation that is answered with success is linked, and its journal is gone.
LEMMA OkSuccess ==
  ASSUME Inv, SuccessInv, ShownMoved(disk, disk'), Return("ok"), agent.op \in Revs,
         disk.current = agent.op, disk'.current = agent.op, disk'.sites = disk.sites,
         disk'.journal = NoJournal
  PROVE  SuccessInv'
<1>1. agent'.op = None /\ agent'.rev = None /\ disk'.journal.rev = None
  BY SMTT(60) DEF Return, Idle, NoJournal
<1>2. answer' \in [Revs -> Answer] /\ cached' = cached \cup {agent.op} /\ cached' \subseteq Revs
  BY DEF SuccessInv, Return, Answer
<1>3. \A q \in Revs : answer'[q] = IF q = agent.op THEN "ok" ELSE answer[q]
  BY DEF SuccessInv, Return
<1>4. disk.dir[agent.op] = "full" /\ disk.sites[agent.op][Account[agent.op]] = OwnFile(agent.op)
  BY ActivationAssumption DEF Inv, DiskInv, Good
<1>5. ASSUME NEW r \in Revs, Settled(r)', r \notin Empty, Untried(r)'
      PROVE  SitesOf(disk, disk.current)'[Account[r]] = r
  <2>1. CASE r = agent.op
    BY <1>4, <1>5, <2>1, ActivationAssumption DEF SitesOf, OwnFile
  <2>2. CASE r # agent.op
    <3>1. Settled(r)
      BY <1>2, <1>3, <1>5, <2>2 DEF Settled
    <3>2. Untried(r)
      BY <1>3, <1>5, <2>2 DEF Untried
    <3> QED
      BY <1>5, <3>1, <3>2, SuccessShown
  <2> QED
    BY <2>1, <2>2
<1> QED
  BY SMTT(60), <1>1, <1>2, <1>5, ActivationAssumption DEF SuccessInv

LEMMA SuccessStep == ASSUME Inv, SuccessInv, [Next]_vars PROVE SuccessInv'
<1>0. ShownMoved(disk, disk') /\ Shaped(disk)
  BY ShownStep DEF Inv, DiskInv, Shaped
<1>1. agent.pc # "idle" => agent.op \in Revs
  BY DEF Inv, AgentInv
<1>2. disk.journal.rev \in Known /\ agent.rev \in Known /\ agent.op \in Known /\ None \in Known
  BY DEF Known
<1>3. ASSUME NEW phase
      PROVE  [disk EXCEPT !.journal = Journal(phase, agent.rev, agent.prev)].journal.rev \in Known
  BY <1>0, <1>2, JournalWritten DEF Journal
<1>4. ASSUME NEW y PROVE [disk EXCEPT !.tx = y].journal.rev \in Known
  BY <1>0, <1>2, TxWritten
<1>5. ASSUME NEW x PROVE [disk EXCEPT !.current = x].journal.rev \in Known
  BY <1>0, <1>2, LinkWritten
<1>6. CASE \/ MarkStaged \/ MarkValidated \/ MarkPromoted \/ MarkReloaded \/ MarkHealthy \/ RestoreMark
           \/ RecoverMark
  BY ZenonT(60), <1>0, <1>1, <1>3, <1>6, WriteSuccess DEF MarkStaged, MarkValidated, MarkPromoted, MarkReloaded,
     MarkHealthy, RestoreMark, RecoverMark, WithJournal, At
<1>7. CASE Promote \/ Restore \/ RecoverRestore
  BY ZenonT(60), <1>0, <1>1, <1>5, <1>7, WriteSuccess DEF Promote, Restore, RecoverRestore, At
<1>8. CASE CommitTx
  BY ZenonT(60), <1>0, <1>1, <1>4, <1>8, WriteSuccess DEF CommitTx, At
<1>9. CASE StageBuild \/ CleanFiles \/ StageFill \/ CleanDir
  <2>1. disk'.journal = disk.journal
    BY ZenonT(60), <1>0, <1>9 DEF StageBuild, CleanFiles, StageFill, CleanDir, Write, Shaped
  <2>2. Kept /\ agent'.rev \in {agent.rev, None}
    BY <1>1, <1>9, GotoKept, FailKept DEF StageBuild, CleanFiles, StageFill, CleanDir, Write, At
  <2> QED
    BY <1>0, <1>2, <2>1, <2>2, QuietSuccess DEF Stays, Known
<1>10. CASE CleanTx
  <2>1. disk'.journal = disk.journal
    BY <1>0, <1>10 DEF CleanTx, Shaped
  <2>2. agent'.op = agent.op /\ agent'.rev = agent.rev /\ answer' = answer /\ cached' = cached
    BY ZenonT(60), <1>10, MovedAgent DEF CleanTx, Goto, Moved, Inv, AgentInv
  <2>3. Kept
    BY <2>2 DEF Kept, SuccessInv, Settled
  <2> QED
    BY <1>0, <1>2, <2>1, <2>2, <2>3, QuietSuccess DEF Stays
<1>11. CASE CleanJournal
  <2>1. disk'.journal \in {disk.journal, NoJournal}
    BY <1>0, <1>11 DEF CleanJournal, Write, Shaped
  <2>2. Kept /\ agent'.rev \in {agent.rev, None}
    BY <1>1, <1>11, GotoKept, FailKept DEF CleanJournal, Write, Fail, At
  <2> QED
    BY <1>0, <1>2, <2>1, <2>2, QuietSuccess DEF Stays, Known, NoJournal
<1>12. CASE CommitJournal
  <2>1. /\ disk'.journal \in {disk.journal, NoJournal} /\ disk'.current = disk.current
        /\ disk'.sites = disk.sites
    BY <1>0, <1>12 DEF CommitJournal, Shaped
  <2>2. CASE Return("ok")
    <3>1. disk'.journal = NoJournal \/ Goto("restore")
      BY <1>0, <1>12 DEF CommitJournal, Shaped
    <3>2. agent'.pc = "idle"
      BY <2>2 DEF Return, Idle
    <3>3. disk'.journal = NoJournal
      BY ZenonT(60), <3>1, <3>2, MovedAgent DEF Goto, Moved
    <3>4. disk.current = agent.op
      BY <1>12 DEF CommitJournal, At, Inv, AgentInv, After, Resting
    <3> QED
      BY <1>0, <1>1, <1>12, <2>1, <2>2, <3>3, <3>4, OkSuccess DEF CommitJournal, At
  <2>3. CASE Goto("restore")
    BY <1>0, <1>2, <2>1, <2>3, GotoKept, QuietSuccess DEF Stays, Known, NoJournal
  <2> QED
    BY <1>12, <2>2, <2>3 DEF CommitJournal
<1>13. CASE ActiveMatched
  <2>1. disk' = disk /\ disk.journal = NoJournal /\ disk.current = agent.op /\ agent.op \in Revs
    BY <1>1, <1>13 DEF ActiveMatched, At, Inv, AgentInv
  <2>2. CASE Return("ok")
    BY <1>0, <2>1, <2>2, OkSuccess
  <2>3. CASE Return("failed")
    BY <1>0, <1>2, <2>1, <2>3, FailKept, QuietSuccess DEF Fail, Stays, Known
  <2> QED
    BY <1>13, <2>2, <2>3 DEF ActiveMatched
<1>14. CASE StagePrepare
  <2>1. disk'.journal.rev \in {disk.journal.rev, agent.op}
    BY <1>0, <1>14 DEF StagePrepare, Journal, Shaped
  <2>2. CASE Return("failed")
    BY <1>0, <1>1, <1>2, <1>14, <2>1, <2>2, FailKept, QuietSuccess DEF Fail, Stays, Known, StagePrepare, At
  <2>3. CASE /\ agent' = [agent EXCEPT !.pc = "build", !.rev = agent.op,
                                       !.prev = disk.current, !.after = "failed"]
             /\ UNCHANGED <<answer, cached, faults>>
    <3>1. agent'.op = agent.op /\ agent'.rev = agent.op /\ answer' = answer /\ cached' = cached
      BY <2>3 DEF Inv, AgentInv
    <3>2. Kept
      BY <3>1 DEF Kept, SuccessInv, Settled
    <3> QED
      BY <1>0, <1>2, <2>1, <3>1, <3>2, QuietSuccess DEF Stays, Known
  <2> QED
    BY <1>14, <2>2, <2>3 DEF StagePrepare
<1>15. CASE Recover
  <2>1. /\ agent'.op = agent.op /\ agent'.rev \in {agent.rev, disk.journal.rev}
        /\ disk' = disk /\ answer' = answer /\ cached' = cached
    BY ZenonT(60), <1>15 DEF Recover, Resume, Inv, AgentInv
  <2>2. Kept
    BY <2>1 DEF Kept, SuccessInv, Settled
  <2> QED
    BY <1>0, <1>2, <2>1, <2>2, QuietSuccess DEF Stays, Known
<1>16. CASE StageRefused
  <2>1. Kept /\ agent'.rev = None /\ disk' = disk
    BY ZenonT(60), <1>1, <1>16, ReturnKept DEF StageRefused, Return, Answer, At
  <2> QED
    BY <1>0, <1>2, <2>1, QuietSuccess DEF Stays
<1>17. CASE Crash
  <2>1. Kept /\ agent'.rev = None /\ disk' = disk
    BY ZenonT(60), <1>1, <1>17, ReturnKept DEF Crash, Answer, At
  <2> QED
    BY <1>0, <1>2, <2>1, QuietSuccess DEF Stays
<1>18. CASE \/ Reload \/ Probe \/ RecoverReload \/ RestoreReload \/ RecoverFails \/ TestCandidate
  <2>1. disk' = disk
    BY <1>18 DEF Reload, Probe, Check, RecoverReload, RestoreReload, ReloadRestored, RecoverFails,
       TestCandidate
  <2>2. (\E pc : Goto(pc)) \/ (\E path : Fail(path))
    BY <1>18 DEF Reload, Probe, Check, RecoverReload, RestoreReload, ReloadRestored, RecoverFails,
       TestCandidate, Fail
  <2>3. agent.op \in Revs
    BY ZenonT(60), <1>1, <1>18 DEF Reload, Probe, RecoverReload, RestoreReload, ReloadRestored, RecoverFails,
       TestCandidate, At
  <2>4. Kept /\ agent'.rev \in {agent.rev, None}
    BY <2>2, <2>3, GotoKept, FailKept
  <2> QED
    BY <1>0, <1>2, <2>1, <2>4, QuietSuccess DEF Stays, Known
<1>19. CASE NginxRestart \/ UNCHANGED vars
  <2>1. disk' = disk /\ agent' = agent /\ answer' = answer /\ cached' = cached
    BY <1>19 DEF NginxRestart, vars
  <2>2. Kept
    BY <2>1 DEF Kept, SuccessInv, Settled
  <2> QED
    BY <1>0, <1>2, <2>1, <2>2, QuietSuccess DEF Stays
<1>20. ASSUME NEW r \in Revs, Call(r) \/ CacheExpires(r) \/ AnswerLost(r) PROVE SuccessInv'
  <2>1. CASE CacheExpires(r) \/ AnswerLost(r)
    <3>1. /\ disk' = disk /\ agent' = agent
          /\ answer' \in [Revs -> Answer] /\ cached' \subseteq cached
          /\ \A q \in Revs : answer'[q] # answer[q] => answer'[q] = "lost"
      BY SMTT(60), <2>1 DEF CacheExpires, AnswerLost, SuccessInv, Answer
    <3>2. Kept
      BY SMTT(60), <3>1 DEF Kept, SuccessInv, Settled
    <3> QED
      BY <1>0, <1>2, <3>1, <3>2, QuietSuccess DEF Stays
  <2>2. CASE Call(r) /\ r \in cached
    <3>1. /\ disk' = disk /\ agent' = agent /\ cached' = cached
          /\ answer' \in [Revs -> Answer]
          /\ \A q \in Revs : answer'[q] # answer[q] => answer'[q] = "ok" /\ q \in cached
      BY <2>2 DEF Call, SuccessInv, Answer
    <3>2. Kept
      BY <3>1 DEF Kept, SuccessInv, Settled
    <3> QED
      BY <1>0, <1>2, <3>1, <3>2, QuietSuccess DEF Stays
  <2>3. CASE Call(r) /\ r \notin cached
    <3>1. /\ disk' = disk /\ agent'.op = r /\ agent'.rev = None /\ cached' = cached /\ answer' = answer
          /\ agent.op = None /\ answer[r] # "ok"
      BY ZenonT(60), <2>3 DEF Call, Idle, At, Inv, AgentInv
    <3>2. Kept
      BY <2>3, <3>1, ActivationAssumption DEF Kept, SuccessInv, Settled
    <3> QED
      BY <1>0, <1>2, <3>1, <3>2, QuietSuccess DEF Stays
  <2> QED
    BY <1>20, <2>1, <2>2, <2>3
<1>21. CASE RecoveryStep
  BY <1>6, <1>7, <1>9, <1>10, <1>11, <1>15, <1>18, <1>21 DEF RecoveryStep
<1>22. CASE StageStep
  BY <1>6, <1>9, <1>13, <1>14, <1>16, <1>18, <1>22 DEF StageStep
<1>23. CASE PromoteStep
  BY <1>6, <1>7, <1>8, <1>12, <1>18, <1>23 DEF PromoteStep
<1> QED
  BY <1>17, <1>19, <1>20, <1>21, <1>22, <1>23 DEF Next, AgentStep

LEMMA SuccessInit == Init => SuccessInv
  BY ActivationAssumption DEF Init, SuccessInv, Settled, Answer, Idle, NoJournal

\* An operation that was answered with success is still what is linked for its account,
\* unless a later operation of the same account was tried: no crash, rollback or recovery
\* of another account's operation, at any step of it, undoes it.
THEOREM SuccessesKept == Spec => []SuccessKept
<1>1. SuccessInv => SuccessKept
  BY DEF SuccessInv, SuccessKept, Settled, Untried, View
<1> QED
  BY <1>1, Invariance, SuccessInit, SuccessStep, PTL DEF Spec
=============================================================================
