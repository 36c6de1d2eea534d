---------------------------- MODULE WorkContract ----------------------------
(***************************************************************************)
(* What the operation queue promises to those who submit work, without     *)
(* rows, leases, clocks or workers: a piece of work waits, is held by one  *)
(* attempt at a time, and ends; how often it is held is limited, and it is *)
(* held again without being asked only when its class says that this is   *)
(* safe.  Operations implements it (Operations!KeepsContract).             *)
(***************************************************************************)
EXTENDS Naturals

CONSTANTS
    Items,     \* pieces of work
    Kinds,     \* kinds of work
    Policy,    \* the retry class of a kind
    Limit      \* how often work of a kind may be held

VARIABLE work  \* work[i]: its state, its kind and how often it was held

State == {"absent", "waiting", "held", "stopping", "done", "failed", "cancelled"}

Row == [state : State, kind : Kinds, tries : Nat]

Init == work \in [Items -> Row] /\ \A i \in Items : work[i].state = "absent" /\ work[i].tries = 0

Move(r, q, from, to) == r.state \in from /\ q.state = to
Again(r) == r.tries < Limit[r.kind]

Submit(r, q) == Move(r, q, {"absent"}, "waiting") /\ q.tries = 0

\* Held for the first time, after a wait, or handed on when its holder is lost.
Grant(r, q) ==
    /\ Move(r, q, {"waiting", "held"}, "held")
    /\ Again(r) /\ q.tries = r.tries + 1
    /\ r.state = "held" => Policy[r.kind] = "safe"

\* The holder failed or was lost: the work waits for another one.
Release(r, q) == Move(r, q, {"held"}, "waiting") /\ Again(r) /\ Policy[r.kind] = "safe"

Finish(r, q) == Move(r, q, {"held"}, "done")
Fail(r, q) == Move(r, q, {"held", "stopping"}, "failed")

\* A user asks for an end; what is held stops when its holder says so or is lost.
Cancel(r, q) ==
    \/ Move(r, q, {"waiting", "stopping"}, "cancelled")
    \/ Move(r, q, {"held"}, "stopping")

\* A user asks for failed work again.
Resubmit(r, q) == Move(r, q, {"failed"}, "waiting") /\ Again(r) /\ Policy[r.kind] # "none"

Step(r, q) ==
    \/ Submit(r, q)
    \/ /\ q.kind = r.kind
       /\ \/ Grant(r, q)
          \/ /\ q.tries = r.tries
             /\ Release(r, q) \/ Finish(r, q) \/ Fail(r, q) \/ Cancel(r, q) \/ Resubmit(r, q)

\* Several pieces of work may move at once: whoever asks for work also settles
\* what others have lost.
Next ==
    /\ work' \in [Items -> Row]
    /\ \A i \in Items : work'[i] = work[i] \/ Step(work[i], work'[i])

Spec == Init /\ [][Next]_work
=============================================================================
