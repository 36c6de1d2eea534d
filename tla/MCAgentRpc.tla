------------------------------ MODULE MCAgentRpc ------------------------------
(* Instances of AgentRpc.                                                   *)
EXTENDS AgentRpc, TLC

CONSTANTS c1, c2, c3, c4

\* Four callers of whom two share a key.
OwnKeys == (c1 :> "k1") @@ (c2 :> "k1") @@ (c3 :> "k2") @@ (c4 :> "k3")
\* The second caller reuses the first one's key for something else.
ReusedKey == (c1 :> "i1") @@ (c2 :> "i2") @@ (c3 :> "i1") @@ (c4 :> "i1")
\* The first one calls again; the others have one attempt each.
FirstRetries == [c \in Callers |-> IF c = c1 THEN 2 ELSE 1]

\* Two workers on one operation, or one alone.
SameKeys == (c1 :> "k1") @@ (c2 :> "k1")
SameInputs == (c1 :> "i1") @@ (c2 :> "i1")
OneKey == (c1 :> "k1")
OneInput == (c1 :> "i1")
TwoAttempts == [c \in Callers |-> 2]
================================================================================
