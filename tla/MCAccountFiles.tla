--------------------------- MODULE MCAccountFiles ---------------------------
EXTENDS AccountFiles, FileLimits

\* Slots and backups are told apart by nothing but their names.
Symmetry == Permutations(Helpers) \union Permutations(BackupIDs)

\* Bound: after a fault, what two audited requests leave behind is explored further.
Bound == faults > 0 => audited <= 2
=============================================================================
