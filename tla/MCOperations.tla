---------------------------- MODULE MCOperations ----------------------------
EXTENDS Operations, TLC
CONSTANTS o1, o2, w1, w2, k1, safe, manual, once

MCRetryClass == safe :> "safe" @@ manual :> "manual" @@ once :> "none"
MCRequested == safe :> 2 @@ manual :> 0 @@ once :> 0
MCInputs == {safe, manual, once}

MCTwoInputs == {safe, once}
MCTwoClass == safe :> "safe" @@ once :> "none"
MCTwoRequested == safe :> 2 @@ once :> 0
=============================================================================
