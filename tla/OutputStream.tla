---------------------------- MODULE OutputStream ----------------------------
(***************************************************************************)
(* What the output of an executor is for those who read it: a stream of    *)
(* which every piece is handed out once, in the order it was printed, by   *)
(* whichever read comes first, and of which a piece is only lost when at   *)
(* least Limit pieces are waiting ahead of it.                             *)
(***************************************************************************)
EXTENDS Naturals, Sequences

CONSTANTS
  Lines,  \* what is printed at a time, a sequence of pieces
  Limit

VARIABLES
  waiting,  \* printed, and neither read nor lost
  got       \* what the reads returned, one after the other

vars == <<waiting, got>>

Init == waiting = <<>> /\ got = <<>>

Emit(line) == waiting' = waiting \o line /\ UNCHANGED got

Read(n) ==
  /\ got' = got \o SubSeq(waiting, 1, n)
  /\ waiting' = SubSeq(waiting, n + 1, Len(waiting))

Lose(first, last) ==
  /\ first > Limit
  /\ waiting' = SubSeq(waiting, 1, first - 1) \o SubSeq(waiting, last + 1, Len(waiting))
  /\ UNCHANGED got

Next ==
  \/ \E line \in Lines : Emit(line)
  \/ \E n \in 1..Len(waiting) : Read(n)
  \/ \E first, last \in DOMAIN waiting : first <= last /\ Lose(first, last)

Spec == Init /\ [][Next]_vars
=============================================================================
