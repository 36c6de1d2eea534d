------------------------- MODULE MCNativeAdmission -------------------------
EXTENDS NativeAdmission, TLC

\* Requests are told apart by nothing but their names.
Symmetry == Permutations(Tries)
=============================================================================
