---------------------------- MODULE EnvelopeStore ----------------------------
(***************************************************************************)
(* The Hermes envelope register (hermes/internal/envelopestore) with the   *)
(* HTTP handlers that write to it.  The store has one SQLite connection,   *)
(* so each operation, transaction or single statement, is one step; the    *)
(* clients (worker, executors, operator) interleave freely between steps.  *)
(* A refused operation changes nothing and is therefore not a step.        *)
(***************************************************************************)
EXTENDS Envelope, Naturals, Sequences

CONSTANTS
  Envelopes,       \* envelope ids
  Sessions,        \* session ids Forge may ack with
  ExecSessions,    \* the executors' own session ids
  Messages,        \* messages of the threads, by their ids
  InsertStatuses,  \* statuses clients POST new envelopes with
  MaxHistory,      \* bound: no operation grows a history beyond this length
  None             \* SQL NULL, and the row of an id never inserted

ASSUME NoneAssumption == None \notin Sessions \cup ExecSessions
ASSUME InsertAssumption == InsertStatuses \subseteq Status
ASSUME MaxHistoryAssumption == MaxHistory \in Nat

VARIABLE rows  \* the table: envelope id -> row, None before its insertion

vars == <<rows>>

\* A history line is "from -> to" for a transition, or a caller's free text.
Note  == [from |-> "note", to |-> "note"]
Entry == [from : Status, to : Status] \cup {Note}

Row == [status        : Status,
        proofRequired : SUBSET ProofKeys,
        proof         : Proofs,
        delivered     : BOOLEAN,   \* delivery.delivered, delivered_at
        read          : BOOLEAN,   \* delivery.read, read_at
        binding       : Sessions \cup {None},
        execSession   : ExecSessions \cup {None},
        completed     : BOOLEAN,   \* metrics.completed_at is set
        history       : Seq(Entry),
        thread        : Seq(Messages)]

\* A NULL row can be told from a stored one.
ASSUME NoneIsNoRow == None \notin Row

Present(e) == rows[e] # None

Init == rows = [e \in Envelopes |-> None]

(***************************************************************************)
(* POST /envelopes.  Any known status is accepted, "done" included; the    *)
(* proof rule of CanTransition is not consulted here.  The body may carry  *)
(* history, delivery, binding and metrics too: only clients that leave     *)
(* them to the service are modelled.                                       *)
(***************************************************************************)
Insert(e, status, required, proof) ==
  /\ ~ Present(e)
  /\ Known(status)
  /\ rows' = [rows EXCEPT ![e] =
       [status |-> status, proofRequired |-> required, proof |-> proof,
        delivered |-> FALSE, read |-> FALSE, binding |-> None,
        execSession |-> None, completed |-> FALSE, history |-> <<>>,
        thread |-> <<>>]]

\* Mutant: UPDATE ... WHERE id = ? without AND status = 'created'.
MarkDelivered_AnyStatus(e, s) ==
  /\ Present(e)
  /\ rows' = [rows EXCEPT ![e] =
       [@ EXCEPT !.status = "delivered", !.delivered = TRUE, !.read = FALSE,
                 !.binding = s]]

(***************************************************************************)
(* The worker's flip.  The new delivery record holds only delivered and    *)
(* delivered_at: a "read" of an earlier delivery is dropped with it.       *)
(***************************************************************************)
MarkDelivered(e, s) ==
  /\ Present(e)
  /\ rows[e].status = "created"
  /\ rows' = [rows EXCEPT ![e] =
       [@ EXCEPT !.status = "delivered", !.delivered = TRUE, !.read = FALSE,
                 !.binding = s]]

\* Mutant: the executor's session overwrites Forge's.
SetExecutorSessionID_WrongColumn(e, x) ==
  /\ Present(e)
  /\ ~ IsTerminal(rows[e].status)
  /\ rows' = [rows EXCEPT ![e].binding = x]

SetExecutorSessionID(e, x) ==
  /\ Present(e)
  /\ ~ IsTerminal(rows[e].status)
  /\ rows' = [rows EXCEPT ![e].execSession = x]

\* Mutants: the history line is written after the status was set; only done
\* completes.
SideEffects_StatusFirst(row, next) ==
  [row EXCEPT !.status    = next,
              !.history   = IF row.status = next THEN @
                            ELSE Append(@, [from |-> next, to |-> next]),
              !.completed = @ \/ IsTerminal(next),
              !.read      = @ \/ next = "read"]
SideEffects_OnlyDoneCompletes(row, next) ==
  [row EXCEPT !.status    = next,
              !.history   = IF row.status = next THEN @
                            ELSE Append(@, [from |-> row.status, to |-> next]),
              !.completed = @ \/ next = "done",
              !.read      = @ \/ next = "read"]

\* What a permitted move does to the row besides setting its status.
SideEffects(row, next) ==
  [row EXCEPT !.status    = next,
              !.history   = IF row.status = next THEN @
                            ELSE Append(@, [from |-> row.status, to |-> next]),
              !.completed = @ \/ IsTerminal(next),
              !.read      = @ \/ next = "read"]

\* Mutant: CanTransition is asked before the proof is merged.
UpdateStatus_ChecksBeforeMerge(e, next, sent) ==
  /\ Present(e)
  /\ LET merged == [rows[e] EXCEPT !.proof = MergeProof(@, sent)]
     IN  /\ CanTransition(rows[e], next)
         /\ Len(merged.history) < MaxHistory
         /\ rows' = [rows EXCEPT ![e] = SideEffects(merged, next)]

(***************************************************************************)
(* PATCH /envelopes/{id}/status: one transaction.  A refusal rolls back,   *)
(* the merged proof included.                                              *)
(***************************************************************************)
UpdateStatus(e, next, sent) ==
  /\ Present(e)
  /\ LET merged == [rows[e] EXCEPT !.proof = MergeProof(@, sent)]
     IN  /\ CanTransition(merged, next)
         /\ Len(merged.history) < MaxHistory  \* bound
         /\ rows' = [rows EXCEPT ![e] = SideEffects(merged, next)]

\* POST /envelopes/{id}/history: allowed on terminal rows too.
AddHistory(e) ==
  /\ Present(e)
  /\ Len(rows[e].history) < MaxHistory  \* bound
  /\ rows' = [rows EXCEPT ![e].history = Append(@, Note)]

\* POST /envelopes/{id}/thread, one transaction; the message gets a fresh id.
AppendMessage(e, msg) ==
  /\ Present(e)
  /\ \A i \in DOMAIN rows[e].thread : rows[e].thread[i] # msg
  /\ rows' = [rows EXCEPT ![e].thread = Append(@, msg)]

Next ==
  \E e \in Envelopes :
    \/ \E status \in InsertStatuses, required \in SUBSET ProofKeys, proof \in Proofs :
         Insert(e, status, required, proof)
    \/ \E s \in Sessions : MarkDelivered(e, s)
    \/ \E x \in ExecSessions : SetExecutorSessionID(e, x)
    \/ \E next \in Status, sent \in Proofs : UpdateStatus(e, next, sent)
    \/ AddHistory(e)
    \/ \E msg \in Messages : AppendMessage(e, msg)

Spec == Init /\ [][Next]_vars
-----------------------------------------------------------------------------
\* The table holds well-formed rows only (the columns sqlite.go reads back).
TypeOK == rows \in [Envelopes -> Row \cup {None}]

\* MarkDelivered is the one status change that writes no history line.
Follows(a, b) == a = b \/ (a = "created" /\ b = "delivered")

\* The lines i and j are transitions with only notes between them.
Consecutive(h, i, j) ==
  /\ i < j
  /\ h[i] # Note /\ h[j] # Note
  /\ \A k \in DOMAIN h : i < k /\ k < j => h[k] = Note

IsLastMove(h, i) ==
  /\ h[i] # Note
  /\ \A k \in DOMAIN h : i < k => h[k] = Note

\* The history column tells the envelope's true path: each transition line
\* starts where the one before it ended, and the last one ended in the status
\* the row has now, the worker's silent created -> delivered flip excepted
\* (applyTransitionSideEffects and AddHistory write it, in several handlers).
HistoryTruthful ==
  \A e \in Envelopes : Present(e) =>
    LET h == rows[e].history IN
      /\ \A i, j \in DOMAIN h :
           Consecutive(h, i, j) => Follows(h[i].to, h[j].from)
      /\ \A i \in DOMAIN h : IsLastMove(h, i) => Follows(h[i].to, rows[e].status)

ProofComplete(row) ==
  HasRequired(row.proofRequired, row.proof) /\ ValidateProofValues(row.proof)

\* W-H15: an envelope whose history says it moved to done holds a non-empty
\* value for every required proof key, whatever was merged in or refused since.
DoneWasProven ==
  \A e \in Envelopes : Present(e) =>
    ((\E i \in DOMAIN rows[e].history : rows[e].history[i].to = "done")
        => ProofComplete(rows[e]))

\* A completion time and a terminal status come together: completed_at is set
\* exactly on the rows whose history moved them into a terminal status, and
\* none of those is open again (W-H17).
CompletionAgrees ==
  \A e \in Envelopes : Present(e) =>
    LET row == rows[e] IN
      /\ row.completed => IsTerminal(row.status)
      /\ row.completed <=> \E i \in DOMAIN row.history : row.history[i].to \in Terminal

\* W-H5: a row carries a session only if the delivery was acknowledged, and an
\* acknowledged delivery always says which session took it.
BindingIsAcked ==
  \A e \in Envelopes : Present(e) => (rows[e].binding # None <=> rows[e].delivered)

\* W-H17: once terminal, a row keeps its status, proof, delivery record,
\* sessions and completion time against every writer that races with the
\* closing one; only free-text history lines and messages may still be added.
TerminalFrozen ==
  [][\A e \in Envelopes :
       Present(e) /\ IsTerminal(rows[e].status) =>
         rows'[e] = [rows[e] EXCEPT !.history = rows'[e].history,
                                    !.thread  = rows'[e].thread]]_vars

\* W-H14/W-H17, "there is no Delete": no operation removes a row, rewrites or
\* drops a history line or a message, loses a proof key, or unbinds or
\* un-delivers an envelope, re-queued ones (moved back to created) included.
NothingForgotten ==
  [][\A e \in Envelopes : Present(e) =>
       LET old == rows[e]  new == rows'[e] IN
         /\ new # None
         /\ SubSeq(new.history, 1, Len(old.history)) = old.history
         /\ SubSeq(new.thread, 1, Len(old.thread)) = old.thread
         /\ \A k \in ProofKeys : new.proof[k] = "absent" => old.proof[k] = "absent"
         /\ old.binding # None => new.binding # None
         /\ old.delivered => new.delivered]_vars
=============================================================================
