---------------------------- MODULE MCDatabases ----------------------------
(* Small instances of Databases. *)
EXTENDS Databases

\* The second name is taken on the host by a database the panel did not make.
ForeignDatabase == {<<"database", "b">>}
NothingForeign == {}
=============================================================================
