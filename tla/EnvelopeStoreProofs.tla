-------------------------- MODULE EnvelopeStoreProofs --------------------------
(***************************************************************************)
(* Proofs that the register keeps its invariants for every set of          *)
(* envelopes, proof keys and sessions and every history bound.             *)
(***************************************************************************)
EXTENDS EnvelopeStore, TLAPS

\* The steps of Next, so that each proof below splits on them once.
Step(e) ==
  \/ \E status \in InsertStatuses, required \in SUBSET ProofKeys, proof \in Proofs :
       Insert(e, status, required, proof)
  \/ \E s \in Sessions : MarkDelivered(e, s)
  \/ \E x \in ExecSessions : SetExecutorSessionID(e, x)
  \/ \E next \in Status, sent \in Proofs : UpdateStatus(e, next, sent)
  \/ AddHistory(e)
  \/ \E msg \in Messages : AppendMessage(e, msg)

\* What one row promises on its own; IInv says it of every row.
RowTruthful(row) ==
  LET h == row.history IN
    /\ \A i, j \in DOMAIN h : Consecutive(h, i, j) => Follows(h[i].to, h[j].from)
    /\ \A i \in DOMAIN h : IsLastMove(h, i) => Follows(h[i].to, row.status)

RowProven(row) ==
  (\E i \in DOMAIN row.history : row.history[i].to = "done") => ProofComplete(row)

RowCompletion(row) ==
  /\ row.completed => IsTerminal(row.status)
  /\ row.completed <=> \E i \in DOMAIN row.history : row.history[i].to \in Terminal

RowBinding(row) == row.binding # None <=> row.delivered

RowInv(row) == RowTruthful(row) /\ RowProven(row) /\ RowCompletion(row) /\ RowBinding(row)

\* The inductive invariant.  DoneWasProven is not inductive alone: a row that
\* moved to done could be updated again with an empty proof, were it not for
\* CompletionAgrees, which makes it terminal and so closed to UpdateStatus.
IInv == TypeOK /\ \A e \in Envelopes : Present(e) => RowInv(rows[e])

\* Merging two proof maps gives a proof map.
LEMMA MergeType ==
  ASSUME NEW old \in Proofs, NEW sent \in Proofs
  PROVE  MergeProof(old, sent) \in Proofs
BY DEF MergeProof, Proofs

\* SideEffects keeps a row well-formed.
LEMMA SideEffectsType ==
  ASSUME NEW row \in Row, NEW next \in Status
  PROVE  SideEffects(row, next) \in Row
<1>1. Append(row.history, [from |-> row.status, to |-> next]) \in Seq(Entry)
  BY DEF Row, Entry
<1> QED BY <1>1 DEF SideEffects, Row

\* Every step changes at most the row of one envelope, and keeps it a row.
LEMMA StepType ==
  ASSUME TypeOK, NEW e \in Envelopes, Step(e)
  PROVE  /\ rows' = [rows EXCEPT ![e] = rows'[e]]
         /\ rows'[e] \in Row
<1>0. USE DEF TypeOK
<1>1. ASSUME NEW status \in InsertStatuses, NEW required \in SUBSET ProofKeys,
             NEW proof \in Proofs, Insert(e, status, required, proof)
      PROVE  rows' = [rows EXCEPT ![e] = rows'[e]] /\ rows'[e] \in Row
  BY <1>1 DEF Insert, Row, Known, Entry
<1>2. ASSUME NEW s \in Sessions, MarkDelivered(e, s)
      PROVE  rows' = [rows EXCEPT ![e] = rows'[e]] /\ rows'[e] \in Row
  <2>1. rows[e] \in Row
    BY <1>2 DEF MarkDelivered, Present
  <2> QED BY <1>2, <2>1 DEF MarkDelivered, Row, Status
<1>3. ASSUME NEW x \in ExecSessions, SetExecutorSessionID(e, x)
      PROVE  rows' = [rows EXCEPT ![e] = rows'[e]] /\ rows'[e] \in Row
  <2>1. rows[e] \in Row
    BY <1>3 DEF SetExecutorSessionID, Present
  <2> QED BY <1>3, <2>1 DEF SetExecutorSessionID, Row
<1>4. ASSUME NEW next \in Status, NEW sent \in Proofs, UpdateStatus(e, next, sent)
      PROVE  rows' = [rows EXCEPT ![e] = rows'[e]] /\ rows'[e] \in Row
  <2>1. rows[e] \in Row
    BY <1>4 DEF UpdateStatus, Present
  <2> DEFINE merged == [rows[e] EXCEPT !.proof = MergeProof(@, sent)]
  <2>2. merged \in Row
    BY <2>1, MergeType DEF Row
  <2>3. SideEffects(merged, next) \in Row
    BY <2>2, SideEffectsType
  <2>4. rows' = [rows EXCEPT ![e] = SideEffects(merged, next)]
    BY <1>4 DEF UpdateStatus
  <2> HIDE DEF merged
  <2> QED BY <2>3, <2>4
<1>5. ASSUME AddHistory(e)
      PROVE  rows' = [rows EXCEPT ![e] = rows'[e]] /\ rows'[e] \in Row
  <2>1. rows[e] \in Row
    BY <1>5 DEF AddHistory, Present
  <2>2. Append(rows[e].history, Note) \in Seq(Entry)
    BY <2>1 DEF Row, Entry
  <2> QED BY <1>5, <2>1, <2>2 DEF AddHistory, Row
<1>6. ASSUME NEW msg \in Messages, AppendMessage(e, msg)
      PROVE  rows' = [rows EXCEPT ![e] = rows'[e]] /\ rows'[e] \in Row
  <2>1. rows[e] \in Row
    BY <1>6 DEF AppendMessage, Present
  <2>2. Append(rows[e].thread, msg) \in Seq(Messages)
    BY <2>1 DEF Row
  <2> QED BY <1>6, <2>1, <2>2 DEF AppendMessage, Row
<1> QED BY <1>1, <1>2, <1>3, <1>4, <1>5, <1>6 DEF Step

\* Type correctness (the columns scanRow reads back are well formed), for
\* every instance.
THEOREM TypeCorrect == Spec => []TypeOK
<1>1. Init => TypeOK
  BY DEF Init, TypeOK
<1>2. TypeOK /\ [Next]_vars => TypeOK'
  <2>1. ASSUME TypeOK, NEW e \in Envelopes, Step(e)
        PROVE  TypeOK'
    BY <2>1, StepType DEF TypeOK
  <2>2. ASSUME TypeOK, UNCHANGED vars
        PROVE  TypeOK'
    BY <2>2 DEF TypeOK, vars
  <2> QED BY <2>1, <2>2 DEF Next, Step
<1> QED BY <1>1, <1>2, PTL DEF Spec

\* Appending a transition that starts where the row stands keeps a truthful
\* history truthful; the row then stands where the transition ended.
LEMMA AppendMove ==
  ASSUME NEW row \in Row, NEW next \in Status, RowTruthful(row),
         NEW new \in Row, new.status = next,
         new.history = Append(row.history, [from |-> row.status, to |-> next])
  PROVE  RowTruthful(new)
<1> DEFINE h == row.history
           move == [from |-> row.status, to |-> next]
<1>1. h \in Seq(Entry) /\ move \in Entry /\ move # Note
  BY DEF Row, Entry, Note, Status
<1>2. /\ Len(new.history) = Len(h) + 1
      /\ DOMAIN new.history = 1..Len(h)+1 /\ DOMAIN h = 1..Len(h)
      /\ new.history[Len(h)+1] = move
      /\ \A k \in 1..Len(h) : new.history[k] = h[k]
  BY <1>1
<1>3. ASSUME NEW i \in DOMAIN new.history, NEW j \in DOMAIN new.history,
             Consecutive(new.history, i, j)
      PROVE  Follows(new.history[i].to, new.history[j].from)
  <2>1. CASE j \in 1..Len(h)
    <3>1. i \in 1..Len(h) /\ Consecutive(h, i, j)
      BY <1>1, <1>2, <1>3, <2>1 DEF Consecutive
    <3> QED BY <1>2, <2>1, <3>1 DEF RowTruthful
  <2>2. CASE j = Len(h) + 1
    <3>1. i \in 1..Len(h) /\ IsLastMove(h, i)
      BY <1>1, <1>2, <1>3, <2>2 DEF Consecutive, IsLastMove
    <3> QED BY <1>2, <2>2, <3>1 DEF RowTruthful
  <2> QED BY <1>1, <1>2, <2>1, <2>2
<1>4. ASSUME NEW i \in DOMAIN new.history, IsLastMove(new.history, i)
      PROVE  Follows(new.history[i].to, new.status)
  <2>1. i = Len(h) + 1
    BY <1>1, <1>2, <1>4 DEF IsLastMove
  <2> QED BY <1>2, <2>1 DEF Follows
<1> QED BY <1>3, <1>4 DEF RowTruthful

\* A note at the end of the history disturbs no transition line.
LEMMA AppendNote ==
  ASSUME NEW row \in Row, RowTruthful(row), NEW new \in Row,
         new.status = row.status, new.history = Append(row.history, Note)
  PROVE  RowTruthful(new)
<1> DEFINE h == row.history
<1>1. h \in Seq(Entry) /\ Note \in Entry
  BY DEF Row, Entry
<1>2. /\ DOMAIN new.history = 1..Len(h)+1 /\ DOMAIN h = 1..Len(h)
      /\ new.history[Len(h)+1] = Note
      /\ \A k \in 1..Len(h) : new.history[k] = h[k]
      /\ Len(h) \in Nat
  BY <1>1
<1>3. ASSUME NEW i \in DOMAIN new.history, NEW j \in DOMAIN new.history,
             Consecutive(new.history, i, j)
      PROVE  Follows(new.history[i].to, new.history[j].from)
  <2>1. i \in 1..Len(h) /\ j \in 1..Len(h) /\ Consecutive(h, i, j)
    BY <1>2, <1>3 DEF Consecutive
  <2> QED BY <1>2, <2>1 DEF RowTruthful
<1>4. ASSUME NEW i \in DOMAIN new.history, IsLastMove(new.history, i)
      PROVE  Follows(new.history[i].to, new.status)
  <2>1. i \in 1..Len(h) /\ IsLastMove(h, i)
    BY <1>2, <1>4 DEF IsLastMove
  <2> QED BY <1>2, <2>1 DEF RowTruthful
<1> QED BY <1>3, <1>4 DEF RowTruthful

\* A new row promises everything at once: its history is empty.
LEMMA InsertKeeps ==
  ASSUME NEW e \in Envelopes, NEW status \in InsertStatuses,
         NEW required \in SUBSET ProofKeys, NEW proof \in Proofs,
         TypeOK, Insert(e, status, required, proof)
  PROVE  RowInv(rows'[e])
<1>1. /\ rows'[e].history = <<>> /\ ~ rows'[e].completed
      /\ ~ rows'[e].delivered /\ rows'[e].binding = None
  BY DEF Insert, TypeOK
<1>2. DOMAIN rows'[e].history = {}
  BY <1>1
<1> QED BY <1>1, <1>2 DEF RowInv, RowTruthful, RowProven, RowCompletion, RowBinding

\* The silent flip keeps the history truthful: whatever ended in created is
\* followed by delivered.
LEMMA MarkDeliveredKeeps ==
  ASSUME NEW row \in Row, NEW s \in Sessions, RowInv(row), row.status = "created",
         NEW new, new = [row EXCEPT !.status = "delivered", !.delivered = TRUE,
                                    !.read = FALSE, !.binding = s]
  PROVE  RowInv(new)
<1>1. /\ new.status = "delivered" /\ new.history = row.history
      /\ new.proof = row.proof /\ new.proofRequired = row.proofRequired
      /\ new.completed = row.completed /\ new.delivered /\ new.binding = s
  BY DEF Row
<1>2. RowTruthful(new)
  BY <1>1 DEF RowInv, RowTruthful, Follows
<1>3. RowProven(new)
  BY <1>1 DEF RowInv, RowProven, ProofComplete, HasRequired, ValidateProofValues
<1>4. ~ row.completed
  BY DEF RowInv, RowCompletion, IsTerminal, Terminal
<1>5. RowCompletion(new)
  BY <1>1, <1>4 DEF RowInv, RowCompletion
<1>6. RowBinding(new)
  BY <1>1, NoneAssumption DEF RowBinding
<1> QED BY <1>2, <1>3, <1>5, <1>6 DEF RowInv

\* A permitted transition: the merged proof was checked if the move ends in
\* done, and the row it left was open, so no earlier line ended in a
\* terminal status.
LEMMA UpdateStatusKeeps ==
  ASSUME NEW row \in Row, NEW next \in Status, NEW sent \in Proofs, RowInv(row),
         NEW merged, merged = [row EXCEPT !.proof = MergeProof(@, sent)],
         CanTransition(merged, next)
  PROVE  RowInv(SideEffects(merged, next))
<1> DEFINE new == SideEffects(merged, next)
           h   == row.history
           move == [from |-> row.status, to |-> next]
<1>1. merged \in Row
  BY MergeType DEF Row
<1>2. new \in Row
  BY <1>1, SideEffectsType
<1>3. /\ merged.status = row.status /\ merged.history = h
      /\ merged.completed = row.completed /\ merged.delivered = row.delivered
      /\ merged.binding = row.binding /\ merged.proofRequired = row.proofRequired
  BY DEF Row
<1>4. /\ new.status = next
      /\ new.history = IF row.status = next THEN h ELSE Append(h, move)
      /\ new.completed = (row.completed \/ IsTerminal(next))
      /\ new.proof = merged.proof /\ new.proofRequired = merged.proofRequired
      /\ new.delivered = row.delivered /\ new.binding = row.binding
  BY <1>1, <1>3 DEF SideEffects, Row
<1> HIDE DEF new
<1>5. ~ IsTerminal(row.status)
  BY <1>3 DEF CanTransition
<1>6. ~ row.completed /\ \A i \in DOMAIN h : h[i].to \notin Terminal
  BY <1>5 DEF RowInv, RowCompletion
<1>7. /\ h \in Seq(Entry) /\ Len(h) \in Nat /\ DOMAIN h = 1..Len(h)
      /\ DOMAIN Append(h, move) = 1..Len(h)+1
      /\ Append(h, move)[Len(h)+1] = move
      /\ \A i \in 1..Len(h) : Append(h, move)[i] = h[i]
  BY DEF Row, Entry
<1>8. ASSUME NEW t \in Terminal
      PROVE  (\E i \in DOMAIN new.history : new.history[i].to = t) <=> next = t
  <2>1. CASE row.status = next
    <3>1. next # t /\ new.history = h
      BY <1>4, <1>5, <2>1 DEF IsTerminal
    <3> QED BY <1>6, <3>1
  <2>2. CASE row.status # next
    <3>1. new.history = Append(h, move)
      BY <1>4, <2>2
    <3>2. \A i \in 1..Len(h) : h[i].to # t
      BY <1>6, <1>7
    <3>3. next = t => \E i \in DOMAIN new.history : new.history[i].to = t
      BY <1>7, <3>1
    <3>4. ASSUME NEW i \in DOMAIN new.history, new.history[i].to = t
          PROVE  next = t
      <4>1. i \in 1..Len(h) \/ i = Len(h) + 1
        BY <1>7, <3>1
      <4> QED BY <1>7, <3>1, <3>2, <3>4, <4>1
    <3> QED BY <3>3, <3>4
  <2> QED BY <2>1, <2>2
<1>9. RowTruthful(new)
  <2>1. CASE row.status = next
    BY <1>4, <2>1 DEF RowInv, RowTruthful
  <2>2. CASE row.status # next
    BY <1>2, <1>4, <2>2, AppendMove DEF RowInv
  <2> QED BY <2>1, <2>2
<1>10. RowProven(new)
  <2>1. next = "done" => ProofComplete(merged)
    BY DEF CanTransition, ProofComplete
  <2>2. ProofComplete(merged) => ProofComplete(new)
    BY <1>4 DEF ProofComplete
  <2> QED BY <1>8, <2>1, <2>2 DEF RowProven, Terminal
<1>11. RowCompletion(new)
  BY <1>4, <1>6, <1>8 DEF RowCompletion, IsTerminal
<1>12. RowBinding(new)
  BY <1>4 DEF RowInv, RowBinding
<1> QED BY <1>9, <1>10, <1>11, <1>12 DEF RowInv, new

\* The executor's session id and the thread are in no invariant; a note is no
\* transition.
LEMMA OtherUpdatesKeep ==
  ASSUME NEW row \in Row, RowInv(row), NEW new \in Row,
         \/ \E x \in ExecSessions : new = [row EXCEPT !.execSession = x]
         \/ \E msg \in Messages : new = [row EXCEPT !.thread = Append(@, msg)]
         \/ new = [row EXCEPT !.history = Append(@, Note)]
  PROVE  RowInv(new)
<1>1. ASSUME \/ \E x \in ExecSessions : new = [row EXCEPT !.execSession = x]
             \/ \E msg \in Messages : new = [row EXCEPT !.thread = Append(@, msg)]
      PROVE  RowInv(new)
  <2>1. /\ new.status = row.status /\ new.history = row.history
        /\ new.proof = row.proof /\ new.proofRequired = row.proofRequired
        /\ new.completed = row.completed /\ new.delivered = row.delivered
        /\ new.binding = row.binding
    BY <1>1 DEF Row
  <2> QED BY <2>1 DEF RowInv, RowTruthful, RowProven, RowCompletion, RowBinding,
                      ProofComplete
<1>2. ASSUME new = [row EXCEPT !.history = Append(@, Note)]
      PROVE  RowInv(new)
  <2>1. /\ new.status = row.status /\ new.history = Append(row.history, Note)
        /\ new.proof = row.proof /\ new.proofRequired = row.proofRequired
        /\ new.completed = row.completed /\ new.delivered = row.delivered
        /\ new.binding = row.binding
    BY <1>2 DEF Row
  <2>2. RowTruthful(new)
    BY <2>1, AppendNote DEF RowInv
  <2>3. /\ row.history \in Seq(Entry) /\ Note \in Entry
        /\ DOMAIN row.history = 1..Len(row.history)
        /\ DOMAIN new.history = 1..Len(row.history)+1
        /\ new.history[Len(row.history)+1].to = "note"
        /\ \A i \in 1..Len(row.history) : new.history[i] = row.history[i]
        /\ Len(row.history) \in Nat
    BY <2>1 DEF Row, Entry, Note
  <2>4. \A t \in Terminal : (\E i \in DOMAIN new.history : new.history[i].to = t)
                         <=> (\E i \in DOMAIN row.history : row.history[i].to = t)
    BY <2>3 DEF Terminal
  <2>5. RowProven(new)
    BY <2>1, <2>4 DEF RowInv, RowProven, ProofComplete, Terminal
  <2>6. RowCompletion(new)
    BY <2>1, <2>4 DEF RowInv, RowCompletion
  <2> QED BY <2>1, <2>2, <2>5, <2>6 DEF RowInv, RowBinding
<1> QED BY <1>1, <1>2

\* One step keeps the inductive invariant, action by action.
LEMMA StepKeeps ==
  ASSUME IInv, NEW e \in Envelopes, Step(e)
  PROVE  IInv'
<1>1. /\ rows' = [rows EXCEPT ![e] = rows'[e]]
      /\ rows'[e] \in Row
      /\ TypeOK'
  BY StepType DEF IInv, TypeOK
<1>2. Present(e) => rows[e] \in Row /\ RowInv(rows[e])
  BY DEF IInv, TypeOK, Present
<1>3. RowInv(rows'[e])
  <2>1. ASSUME NEW status \in InsertStatuses, NEW required \in SUBSET ProofKeys,
               NEW proof \in Proofs, Insert(e, status, required, proof)
        PROVE  RowInv(rows'[e])
    BY <2>1, InsertKeeps DEF IInv
  <2>2. ASSUME NEW s \in Sessions, MarkDelivered(e, s)
        PROVE  RowInv(rows'[e])
    <3>1. rows[e] \in Row /\ RowInv(rows[e]) /\ rows[e].status = "created"
      BY <1>2, <2>2 DEF MarkDelivered
    <3>2. rows'[e] = [rows[e] EXCEPT !.status = "delivered", !.delivered = TRUE,
                                     !.read = FALSE, !.binding = s]
      BY <2>2 DEF MarkDelivered, IInv, TypeOK
    <3> QED BY <3>1, <3>2, MarkDeliveredKeeps
  <2>3. ASSUME NEW x \in ExecSessions, SetExecutorSessionID(e, x)
        PROVE  RowInv(rows'[e])
    <3>1. rows[e] \in Row /\ RowInv(rows[e])
      BY <1>2, <2>3 DEF SetExecutorSessionID
    <3>2. rows'[e] = [rows[e] EXCEPT !.execSession = x]
      BY <2>3 DEF SetExecutorSessionID, IInv, TypeOK
    <3> QED BY <1>1, <3>1, <3>2, OtherUpdatesKeep
  <2>4. ASSUME NEW next \in Status, NEW sent \in Proofs, UpdateStatus(e, next, sent)
        PROVE  RowInv(rows'[e])
    <3> DEFINE merged == [rows[e] EXCEPT !.proof = MergeProof(@, sent)]
    <3>1. rows[e] \in Row /\ RowInv(rows[e])
      BY <1>2, <2>4 DEF UpdateStatus
    <3>2. CanTransition(merged, next) /\ rows'[e] = SideEffects(merged, next)
      BY <2>4 DEF UpdateStatus, IInv, TypeOK
    <3> HIDE DEF merged
    <3>3. merged = [rows[e] EXCEPT !.proof = MergeProof(@, sent)]
      BY DEF merged
    <3> QED BY <3>1, <3>2, <3>3, UpdateStatusKeeps
  <2>5. ASSUME AddHistory(e)
        PROVE  RowInv(rows'[e])
    <3>1. rows[e] \in Row /\ RowInv(rows[e])
      BY <1>2, <2>5 DEF AddHistory
    <3>2. rows'[e] = [rows[e] EXCEPT !.history = Append(@, Note)]
      BY <2>5 DEF AddHistory, IInv, TypeOK
    <3> QED BY <1>1, <3>1, <3>2, OtherUpdatesKeep
  <2>6. ASSUME NEW msg \in Messages, AppendMessage(e, msg)
        PROVE  RowInv(rows'[e])
    <3>1. rows[e] \in Row /\ RowInv(rows[e])
      BY <1>2, <2>6 DEF AppendMessage
    <3>2. rows'[e] = [rows[e] EXCEPT !.thread = Append(@, msg)]
      BY <2>6 DEF AppendMessage, IInv, TypeOK
    <3> QED BY <1>1, <3>1, <3>2, OtherUpdatesKeep
  <2> QED BY <2>1, <2>2, <2>3, <2>4, <2>5, <2>6 DEF Step
<1>4. ASSUME NEW d \in Envelopes, Present(d)'
      PROVE  RowInv(rows'[d])
  BY <1>1, <1>3, <1>4 DEF IInv, TypeOK, Present
<1> QED BY <1>1, <1>4 DEF IInv, RowInv, RowTruthful, RowProven, RowCompletion, RowBinding

\* The inductive invariant holds in every reachable state.
THEOREM InductiveInvariant == Spec => []IInv
<1>1. Init => IInv
  BY DEF Init, IInv, TypeOK, Present
<1>2. IInv /\ [Next]_vars => IInv'
  <2>1. IInv /\ Next => IInv'
    BY StepKeeps DEF Next, Step
  <2>2. IInv /\ UNCHANGED vars => IInv'
    BY DEF IInv, TypeOK, Present, vars
  <2> QED BY <2>1, <2>2
<1> QED BY <1>1, <1>2, PTL DEF Spec

\* The history column is truthful in every instance: the audit trail of an
\* envelope is its real path (sqlite.go applyTransitionSideEffects).
THEOREM HistoryIsTruthful == Spec => []HistoryTruthful
<1>1. IInv => HistoryTruthful
  BY DEF IInv, RowInv, RowTruthful, HistoryTruthful
<1> QED BY <1>1, InductiveInvariant, PTL

\* W-H15 for every transition to done, in every instance.
THEOREM DoneIsProven == Spec => []DoneWasProven
<1>1. IInv => DoneWasProven
  BY DEF IInv, RowInv, RowProven, DoneWasProven
<1> QED BY <1>1, InductiveInvariant, PTL

\* The completion time is set exactly on the rows that were closed.
THEOREM CompletionIsTrue == Spec => []CompletionAgrees
<1>1. IInv => CompletionAgrees
  BY DEF IInv, RowInv, RowCompletion, CompletionAgrees
<1> QED BY <1>1, InductiveInvariant, PTL

\* W-H5: only acknowledged deliveries bind a session.
THEOREM BindingsAreAcked == Spec => []BindingIsAcked
<1>1. IInv => BindingIsAcked
  BY DEF IInv, RowInv, RowBinding, BindingIsAcked
<1> QED BY <1>1, InductiveInvariant, PTL

\* W-H17 in every instance: no operation changes a closed row, free-text
\* history lines and messages excepted.
THEOREM TerminalIsFrozen == Spec => TerminalFrozen
<1> DEFINE Frozen(e) == rows'[e] = [rows[e] EXCEPT !.history = rows'[e].history,
                                              !.thread  = rows'[e].thread]
<1>1. ASSUME TypeOK, NEW d \in Envelopes, Step(d),
             NEW e \in Envelopes, Present(e), IsTerminal(rows[e].status)
      PROVE  Frozen(e)
  <2>0. rows[e] \in Row
    BY <1>1 DEF TypeOK, Present
  <2>1. CASE d # e
    <3>1. rows'[e] = rows[e]
      BY <1>1, <2>1, StepType DEF TypeOK
    <3> QED BY <2>0, <3>1 DEF Row
  <2>2. CASE d = e
    <3>1. \A status, required, proof : ~ Insert(d, status, required, proof)
      BY <1>1, <2>2 DEF Insert
    <3>2. \A s : ~ MarkDelivered(d, s)
      BY <1>1, <2>2 DEF MarkDelivered, IsTerminal, Terminal
    <3>3. \A x : ~ SetExecutorSessionID(d, x)
      BY <1>1, <2>2 DEF SetExecutorSessionID
    <3>4. ASSUME NEW next \in Status, NEW sent \in Proofs, UpdateStatus(d, next, sent)
          PROVE  FALSE
      <4> DEFINE merged == [rows[d] EXCEPT !.proof = MergeProof(@, sent)]
      <4>1. merged.status = rows[e].status
        BY <2>0, <2>2 DEF Row
      <4>2. CanTransition(merged, next)
        BY <3>4 DEF UpdateStatus
      <4> HIDE DEF merged
      <4> QED BY <1>1, <4>1, <4>2 DEF CanTransition
    <3>5. ASSUME AddHistory(d)
          PROVE  Frozen(e)
      <4>1. rows'[e] = [rows[e] EXCEPT !.history = Append(@, Note)]
        BY <1>1, <2>2, <3>5 DEF AddHistory, TypeOK
      <4> QED BY <2>0, <4>1 DEF Row
    <3>6. ASSUME NEW msg \in Messages, AppendMessage(d, msg)
          PROVE  Frozen(e)
      <4>1. rows'[e] = [rows[e] EXCEPT !.thread = Append(@, msg)]
        BY <1>1, <2>2, <3>6 DEF AppendMessage, TypeOK
      <4> QED BY <2>0, <4>1 DEF Row
    <3> HIDE DEF Frozen
    <3> QED BY <1>1, <3>1, <3>2, <3>3, <3>4, <3>5, <3>6 DEF Step
  <2> QED BY <2>1, <2>2
<1>2. ASSUME TypeOK, [Next]_vars
      PROVE  [\A e \in Envelopes : Present(e) /\ IsTerminal(rows[e].status) => Frozen(e)]_vars
  BY <1>1, <1>2 DEF Next, Step
<1> QED BY <1>2, TypeCorrect, PTL DEF Spec, TerminalFrozen

\* Appending keeps what was there.
LEMMA AppendExtends ==
  ASSUME NEW h \in Seq(Entry), NEW entry \in Entry
  PROVE  SubSeq(Append(h, entry), 1, Len(h)) = h /\ SubSeq(h, 1, Len(h)) = h
OBVIOUS

\* "There is no Delete" in every instance: rows stay, histories and threads only
\* grow, proof keys, bindings and delivery marks are never lost.
THEOREM NothingIsForgotten == Spec => NothingForgotten
<1> DEFINE Keeps(old, new) ==
      /\ new # None
      /\ SubSeq(new.history, 1, Len(old.history)) = old.history
      /\ SubSeq(new.thread, 1, Len(old.thread)) = old.thread
      /\ \A k \in ProofKeys : new.proof[k] = "absent" => old.proof[k] = "absent"
      /\ old.binding # None => new.binding # None
      /\ old.delivered => new.delivered
<1>1. ASSUME NEW row \in Row
      PROVE  Keeps(row, row)
  BY <1>1, NoneIsNoRow DEF Row
<1>2. ASSUME TypeOK, NEW d \in Envelopes, Step(d), Present(d)
      PROVE  Keeps(rows[d], rows'[d])
  <2>0. /\ rows[d] \in Row /\ rows'[d] \in Row /\ rows'[d] # None
        /\ rows[d].history \in Seq(Entry)
        /\ SubSeq(rows[d].history, 1, Len(rows[d].history)) = rows[d].history
        /\ rows[d].thread \in Seq(Messages)
        /\ SubSeq(rows[d].thread, 1, Len(rows[d].thread)) = rows[d].thread
    BY <1>2, StepType, NoneIsNoRow DEF TypeOK, Present, Row
  <2>1. ASSUME NEW s \in Sessions, MarkDelivered(d, s)
        PROVE  Keeps(rows[d], rows'[d])
    <3>1. rows'[d] = [rows[d] EXCEPT !.status = "delivered", !.delivered = TRUE,
                                     !.read = FALSE, !.binding = s]
      BY <1>2, <2>1 DEF MarkDelivered, TypeOK
    <3>2. /\ rows'[d].history = rows[d].history /\ rows'[d].proof = rows[d].proof
          /\ rows'[d].delivered /\ rows'[d].binding = s
          /\ rows'[d].thread = rows[d].thread
      BY <2>0, <3>1 DEF Row
    <3> QED BY <2>0, <3>2, NoneAssumption
  <2>2. ASSUME NEW x \in ExecSessions, SetExecutorSessionID(d, x)
        PROVE  Keeps(rows[d], rows'[d])
    <3>1. rows'[d] = [rows[d] EXCEPT !.execSession = x]
      BY <1>2, <2>2 DEF SetExecutorSessionID, TypeOK
    <3>2. /\ rows'[d].history = rows[d].history /\ rows'[d].proof = rows[d].proof
          /\ rows'[d].delivered = rows[d].delivered
          /\ rows'[d].binding = rows[d].binding
          /\ rows'[d].thread = rows[d].thread
      BY <2>0, <3>1 DEF Row
    <3> QED BY <2>0, <3>2
  <2>3. ASSUME NEW next \in Status, NEW sent \in Proofs, UpdateStatus(d, next, sent)
        PROVE  Keeps(rows[d], rows'[d])
    <3> DEFINE merged == [rows[d] EXCEPT !.proof = MergeProof(@, sent)]
    <3>1. rows'[d] = SideEffects(merged, next)
      BY <1>2, <2>3 DEF UpdateStatus, TypeOK
    <3>2. merged \in Row
      BY <2>0, MergeType DEF Row
    <3>3. /\ merged.history = rows[d].history /\ merged.status = rows[d].status
          /\ merged.proof = MergeProof(rows[d].proof, sent)
          /\ merged.delivered = rows[d].delivered /\ merged.binding = rows[d].binding
          /\ merged.thread = rows[d].thread
      BY <2>0 DEF Row
    <3> HIDE DEF merged
    <3>4. /\ rows'[d].history = IF rows[d].status = next THEN rows[d].history
                   ELSE Append(rows[d].history, [from |-> rows[d].status, to |-> next])
          /\ rows'[d].proof = MergeProof(rows[d].proof, sent)
          /\ rows'[d].delivered = rows[d].delivered
          /\ rows'[d].binding = rows[d].binding
          /\ rows'[d].thread = rows[d].thread
      BY <3>1, <3>2, <3>3 DEF SideEffects, Row
    <3>5. [from |-> rows[d].status, to |-> next] \in Entry
      BY <2>0 DEF Row, Entry
    <3>6. SubSeq(rows'[d].history, 1, Len(rows[d].history)) = rows[d].history
      BY <2>0, <3>4, <3>5, AppendExtends
    <3>7. \A k \in ProofKeys : rows'[d].proof[k] = "absent" => rows[d].proof[k] = "absent"
      BY <2>0, <3>4 DEF MergeProof
    <3> QED BY <2>0, <3>4, <3>6, <3>7
  <2>4. ASSUME AddHistory(d)
        PROVE  Keeps(rows[d], rows'[d])
    <3>1. rows'[d] = [rows[d] EXCEPT !.history = Append(@, Note)]
      BY <1>2, <2>4 DEF AddHistory, TypeOK
    <3>2. /\ rows'[d].history = Append(rows[d].history, Note)
          /\ rows'[d].proof = rows[d].proof
          /\ rows'[d].delivered = rows[d].delivered
          /\ rows'[d].binding = rows[d].binding
          /\ rows'[d].thread = rows[d].thread
      BY <2>0, <3>1 DEF Row
    <3>3. SubSeq(rows'[d].history, 1, Len(rows[d].history)) = rows[d].history
      BY <2>0, <3>2, AppendExtends DEF Entry
    <3> QED BY <2>0, <3>2, <3>3
  <2>5. ASSUME NEW msg \in Messages, AppendMessage(d, msg)
        PROVE  Keeps(rows[d], rows'[d])
    <3>1. rows'[d] = [rows[d] EXCEPT !.thread = Append(@, msg)]
      BY <1>2, <2>5 DEF AppendMessage, TypeOK
    <3>2. /\ rows'[d].history = rows[d].history /\ rows'[d].proof = rows[d].proof
          /\ rows'[d].delivered = rows[d].delivered
          /\ rows'[d].binding = rows[d].binding
          /\ rows'[d].thread = Append(rows[d].thread, msg)
      BY <2>0, <3>1 DEF Row
    <3>3. SubSeq(rows'[d].thread, 1, Len(rows[d].thread)) = rows[d].thread
      BY <2>0, <3>2
    <3> QED BY <2>0, <3>2, <3>3
  <2>6. \A status, required, proof : ~ Insert(d, status, required, proof)
    BY <1>2 DEF Insert
  <2> QED BY <1>2, <2>1, <2>2, <2>3, <2>4, <2>5, <2>6 DEF Step
<1>3. ASSUME TypeOK, NEW d \in Envelopes, Step(d), NEW e \in Envelopes, Present(e)
      PROVE  Keeps(rows[e], rows'[e])
  <2>1. CASE d = e
    BY <1>2, <1>3, <2>1
  <2>2. CASE d # e
    <3>1. rows'[e] = rows[e] /\ rows[e] \in Row
      BY <1>3, <2>2, StepType DEF TypeOK, Present
    <3> QED BY <1>1, <3>1
  <2> QED BY <2>1, <2>2
<1> HIDE DEF Keeps
<1>4. ASSUME TypeOK, [Next]_vars
      PROVE  [\A e \in Envelopes : Present(e) => Keeps(rows[e], rows'[e])]_vars
  BY <1>3, <1>4 DEF Next, Step
<1>5. [\A e \in Envelopes : Present(e) => Keeps(rows[e], rows'[e])]_vars
      => [\A e \in Envelopes : Present(e) =>
            LET old == rows[e]  new == rows'[e] IN
              /\ new # None
              /\ SubSeq(new.history, 1, Len(old.history)) = old.history
              /\ SubSeq(new.thread, 1, Len(old.thread)) = old.thread
              /\ \A k \in ProofKeys : new.proof[k] = "absent" => old.proof[k] = "absent"
              /\ old.binding # None => new.binding # None
              /\ old.delivered => new.delivered]_vars
  BY DEF Keeps
<1> QED BY <1>4, <1>5, TypeCorrect, PTL DEF Spec, NothingForgotten
===============================================================================
