--------------------------- MODULE MCNotifications ---------------------------
(* Small instances of Notifications for TLC. *)
EXTENDS Notifications

\* Repeats within a chunk of two and across chunks; a table of one or two
\* rows has no row 3.
SomeLists == {<<1, 1, 2, 1>>, <<3, 2>>}

Symmetry == Permutations(Requests) \cup Permutations(Keys)
=============================================================================
