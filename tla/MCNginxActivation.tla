------------------------- MODULE MCNginxActivation --------------------------
EXTENDS NginxActivation, TLC
CONSTANTS r1, r2, r3, a, b

\* Two operations of one account and one of another.
MCAccount == r1 :> a @@ r2 :> b @@ r3 :> a
=============================================================================
