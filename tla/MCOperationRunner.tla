------------------------- MODULE MCOperationRunner --------------------------
EXTENDS OperationRunner, TLC
CONSTANTS o1, w1, w2, safe, once

MCInputs == {safe, once}
MCRetryClass == safe :> "safe" @@ once :> "none"
MCRequested == safe :> 2 @@ once :> 0
=============================================================================
