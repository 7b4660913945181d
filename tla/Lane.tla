-------------------------------- MODULE Lane --------------------------------
(***************************************************************************)
(* What a message lane promises: messages are added at the end and never   *)
(* change place, and a reader that polls with its last id as the cursor    *)
(* sees a prefix of the lane, nothing twice and nothing skipped.           *)
(***************************************************************************)
EXTENDS Naturals, Sequences

CONSTANTS Lanes, Readers, Messages

VARIABLES
  log,  \* lane -> the messages in it
  seen  \* reader and lane -> the messages it has received

vars == <<log, seen>>

Init ==
  /\ log \in [Lanes -> Seq(Messages)]
  /\ seen = [r \in Readers |-> [l \in Lanes |-> <<>>]]

Post(l, m) ==
  /\ log' = [log EXCEPT ![l] = Append(@, m)]
  /\ UNCHANGED seen

Receive(r, l) ==
  /\ \E n \in Len(seen[r][l])..Len(log[l]) :
       seen' = [seen EXCEPT ![r][l] = SubSeq(log[l], 1, n)]
  /\ UNCHANGED log

Next ==
  \/ \E l \in Lanes, m \in Messages : Post(l, m)
  \/ \E r \in Readers, l \in Lanes : Receive(r, l)

Spec == Init /\ [][Next]_vars
=============================================================================
