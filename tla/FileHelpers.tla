---------------------------- MODULE FileHelpers ----------------------------
(***************************************************************************)
(* How a change to an account's files reaches the host                     *)
(* (internal/fileworkspace, internal/backupworkspace, the file endpoint of  *)
(* internal/agentrpc, internal/hostfiles).  The control plane authorizes    *)
(* the subject, checks that the account is ready and appends an audit event *)
(* before it calls the agent.  The agent has a fixed number of slots and    *)
(* turns a call away when they are taken.  Every call runs in a helper      *)
(* process of its own under the account's identity, and each of its system  *)
(* calls is a step here: helpers of one account interleave.  A helper is    *)
(* killed with the agent, with its caller, or by the deadline.              *)
(*                                                                         *)
(* Paths are the members of Names, without directories between them.       *)
(***************************************************************************)
EXTENDS Naturals, FiniteSetsExt

CONSTANTS
  Helpers,        \* the slots of the agent (writeSlots)
  Names,          \* paths of the account, 1..N in the order of their names
  MaxAudited,     \* bound: audited requests
  MaxFaults,      \* bound: kills, full quotas, I/O errors, writes of the sites
  None

VARIABLES
  visible,        \* per path: what a listing shows there
  helper,         \* per slot: the request and the step it is at
  issued,         \* identifiers the control plane has drawn
  audited,        \* audit events of authorized requests
  faults

helperVars == <<visible, helper, issued, audited, faults>>

ASSUME HelperAssumption ==
  /\ Names = 1..Cardinality(Names) /\ IsFiniteSet(Helpers)
  /\ MaxAudited \in Nat /\ MaxFaults \in Nat

\* A file has a size; a tree and an archive are known by what is in them.
Content(kind, data, size) == [kind |-> kind, data |-> data, size |-> size]
Partial == Content("partial", <<>>, 0)

Idle == [do |-> "idle"]
Request(do, at, id, from, to) == [do |-> do, at |-> at, id |-> id, from |-> from, to |-> to]

InitHelpers ==
  /\ \E first \in {None, Content("file", <<"page">>, 1)} :
       visible = [[n \in Names |-> None] EXCEPT ![1] = first, ![2] = Content("tree", <<"site">>, 0)]
  /\ helper = [h \in Helpers |-> Idle] /\ issued = {} /\ audited = 0 /\ faults = 0

Fault == faults < MaxFaults /\ faults' = faults + 1

At(h, do, at) == helper[h].do = do /\ helper[h].at = at
Goto(h, at) == helper' = [helper EXCEPT ![h].at = at]
End(h) == helper' = [helper EXCEPT ![h] = Idle]
On(id) == {h \in Helpers : helper[h].do # "idle" /\ helper[h].id = id}

\* The audit event of an authorized request is on record before the agent is called.
appendAuthorization == audited < MaxAudited /\ audited' = audited + 1

\* A slot is taken without waiting for one.
handleFileWrite(h, r) == helper[h].do = "idle" /\ helper' = [helper EXCEPT ![h] = r]

\* A request that changes the tree; a new upload, copy or backup has a fresh identifier.
mutate(h, r, new) ==
  /\ appendAuthorization /\ handleFileWrite(h, r)
  /\ new \cap issued = {} /\ issued' = issued \union new

\* A request that is not audited: a part of an upload.
callWrite(h, r) == handleFileWrite(h, r) /\ UNCHANGED <<issued, audited>>

step == UNCHANGED <<issued, audited>>
=============================================================================
