--------------------------- MODULE MCNotifyRouter ---------------------------
(* Small instances of NotifyRouter for TLC. *)
EXTENDS NotifyRouter

CONSTANTS i1, i2, i3, i4

FourPayloads == [i \in Items |-> CASE i = i1 -> "blocked" [] i = i4 -> "paused" [] OTHER -> "done"]
=============================================================================
