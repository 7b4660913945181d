---------------------------- MODULE Notifications ----------------------------
(***************************************************************************)
(* The notification queue of Hermes (hermes/internal/notifystore) with the *)
(* handler steps that fill it: after PATCH /envelopes/{id}/status has      *)
(* committed, maybeNotify inserts a notification, fires an alert to the    *)
(* webhook and Telegram sinks, counts the recent blocked ones and flags a  *)
(* loop; a message posted to an executor's session is stored and alerted   *)
(* in the same way.  Each statement is a step of its own on the one        *)
(* connection, so concurrent requests interleave between them.  Consumers  *)
(* acknowledge one by one or in bulk.                                      *)
(***************************************************************************)
EXTENDS Integers, Sequences, SequencesExt

CONSTANTS
  Envelopes,
  Sessions,   \* executor sessions that get messages
  Keys,       \* API keys: of a row's writer, and of the consumers
  Requests,   \* slots for status updates in flight
  Reported,   \* the statuses of InterestingStatuses that are reported
  LoopLimit,  \* maybeNotify's 3
  Window,     \* its 30 minutes, in ticks
  ChunkSize,  \* maxBulkAckIDsPerQuery
  BulkIds,    \* the id lists POSTed to /notifications/ack
  Failures,   \* statements that may fail: "insert", "count", "flag", "message"
  MaxPosted,  \* bound on a session's decisions
  MaxRows,    \* bound on the rows of the table
  MaxNow,     \* bound on the time
  None

ASSUME BoundsAssumption ==
  {LoopLimit, Window, MaxPosted, MaxRows, MaxNow} \subseteq Nat /\ ChunkSize \in Nat \ {0}

InterestingStatuses == {"done", "blocked", "failed", "paused", "awaiting_confirm"}

ASSUME ReportedAssumption == Reported \subseteq InterestingStatuses
ASSUME FailuresAssumption == Failures \subseteq {"insert", "count", "flag", "message"}
ASSUME BulkIdsAssumption == BulkIds \subseteq Seq(Int)  \* []int64
ASSUME RequestsAssumption == IsFiniteSet(Requests)

VARIABLES
  rows,    \* the table; a row's id is its position, AUTOINCREMENT never reuses one
  now,
  reqs,    \* updates and messages that are stored and have not been answered
  alerts,  \* bag of the alerts fired, by subject and status
  posted   \* history: the decisions posted to each session

vars == <<rows, now, reqs, alerts, posted>>

Notification ==
  [env : Envelopes, status : Reported \cup {"loop_detected"}, key : Keys,
   at : 0..MaxNow, acked : BOOLEAN]
  \cup [env : Sessions, status : {"session_message"}, key : Keys, at : 0..MaxNow,
        acked : BOOLEAN]

Quiet == [pc |-> "quiet", env |-> None, status |-> None, key |-> None]

Init ==
  /\ rows   = <<>>
  /\ now    = 0
  /\ reqs   = [r \in Requests |-> Quiet]
  /\ alerts = EmptyBag
  /\ posted = [s \in Sessions |-> 0]
-----------------------------------------------------------------------------
(* maybeNotify, maybeNotifyMessage, maybeFireDecision *)

\* Whether the register permits the move is EnvelopeStore's business; a move
\* from blocked to blocked is one it does permit.
Committed(r, e, status, key) ==
  /\ reqs[r] = Quiet
  /\ reqs' = [reqs EXCEPT ![r] = [pc |-> "insert", env |-> e, status |-> status, key |-> key]]
  /\ UNCHANGED <<rows, now, alerts, posted>>

\* A message is stored.  Its notification goes to the key of its session, and
\* nowhere when the session has none; a decision that is not the operator's
\* own is for the alert sinks.
MessageStored(r, s, kind, key) ==
  /\ reqs[r] = Quiet
  /\ kind = "decision" => posted[s] < MaxPosted  \* bound
  /\ posted' = IF kind = "decision" THEN [posted EXCEPT ![s] = @ + 1] ELSE posted
  /\ reqs' = [reqs EXCEPT ![r] =
       [pc |-> IF key = None THEN "decide" ELSE "message", env |-> s,
        status |-> kind, key |-> key]]
  /\ UNCHANGED <<rows, now, alerts>>

Done(r) == reqs' = [reqs EXCEPT ![r] = Quiet]

\* Mutant: the row is stored without its time.
Insert_NoClock(r, status) ==
  /\ Len(rows) < MaxRows
  /\ rows' = Append(rows, [env |-> reqs[r].env, status |-> status, key |-> reqs[r].key,
                           at |-> None, acked |-> FALSE])

\* Store.Insert stamps the row with the database's clock.
Insert(r, status) ==
  /\ Len(rows) < MaxRows  \* bound
  /\ rows' = Append(rows, [env |-> reqs[r].env, status |-> status, key |-> reqs[r].key,
                           at |-> now, acked |-> FALSE])

Notify(r) ==
  /\ reqs[r].pc = "insert"
  /\ Insert(r, reqs[r].status)
  /\ reqs' = [reqs EXCEPT ![r].pc = "fire"]
  /\ UNCHANGED <<now, alerts, posted>>

NotifyMessage(r) ==
  /\ reqs[r].pc = "message"
  /\ Insert(r, "session_message")
  /\ reqs' = [reqs EXCEPT ![r].pc = "decide"]
  /\ UNCHANGED <<now, alerts, posted>>

\* webhookFirer.Fire: a goroutine per sink, nothing of theirs comes back.
Fire(r, status) == alerts' = alerts (+) SetToBag({<<reqs[r].env, status>>})

\* Only blocked envelopes are checked for loops.
FireStatus(r) ==
  /\ reqs[r].pc = "fire"
  /\ Fire(r, reqs[r].status)
  /\ IF reqs[r].status = "blocked" THEN reqs' = [reqs EXCEPT ![r].pc = "count"]
                                   ELSE Done(r)
  /\ UNCHANGED <<rows, now, posted>>

FireDecision(r) ==
  /\ reqs[r].pc = "decide"
  /\ IF reqs[r].status = "decision" THEN Fire(r, "session_decision") ELSE UNCHANGED alerts
  /\ Done(r)
  /\ UNCHANGED <<rows, now, posted>>

\* created_at > datetime('now', '-30 minutes')
Recent(n) == rows[n].at + Window > now

\* Mutants: only the caller's own rows are counted; rows of any status are.
CountRecentByStatus_OwnKey(r) ==
  Cardinality({n \in DOMAIN rows :
    rows[n].env = reqs[r].env /\ rows[n].status = "blocked" /\ Recent(n)
    /\ rows[n].key = reqs[r].key})
CountRecentByStatus_AnyStatus(r) ==
  Cardinality({n \in DOMAIN rows : rows[n].env = reqs[r].env /\ Recent(n)})

\* Over all keys, acknowledged rows included.
CountRecentByStatus(r) ==
  Cardinality({n \in DOMAIN rows :
    rows[n].env = reqs[r].env /\ rows[n].status = "blocked" /\ Recent(n)})

CheckLoop(r) ==
  /\ reqs[r].pc = "count"
  /\ IF CountRecentByStatus(r) > LoopLimit THEN reqs' = [reqs EXCEPT ![r].pc = "flag"]
                                           ELSE Done(r)
  /\ UNCHANGED <<rows, now, alerts, posted>>

FlagLoop(r) ==
  /\ reqs[r].pc = "flag"
  /\ Insert(r, "loop_detected")
  /\ reqs' = [reqs EXCEPT ![r].pc = "fire", ![r].status = "loop_detected"]
  /\ UNCHANGED <<now, alerts, posted>>

\* Mutant: the alert is fired although its row could not be stored.
StatementFails_StillFires(r) ==
  /\ reqs[r].pc \in Failures
  /\ reqs' = [reqs EXCEPT ![r].pc = IF reqs[r].pc = "message" THEN "decide" ELSE "fire"]
  /\ UNCHANGED <<rows, now, alerts, posted>>

\* Logged; the update itself has long been committed and is answered 200.  The
\* alert of a message does not wait for its row.
StatementFails(r) ==
  /\ reqs[r].pc \in Failures
  /\ IF reqs[r].pc = "message" THEN reqs' = [reqs EXCEPT ![r].pc = "decide"]
                               ELSE Done(r)
  /\ UNCHANGED <<rows, now, alerts, posted>>
-----------------------------------------------------------------------------
(* Acknowledging *)

Visible(key) == {n \in DOMAIN rows : rows[n].key = key}

Acknowledge(ids) ==
  rows' = [n \in DOMAIN rows |-> IF n \in ids THEN [rows[n] EXCEPT !.acked = TRUE] ELSE rows[n]]

\* AcknowledgeForKey; 404 when the row is missing, another's or acknowledged.
AckOne(n, key) ==
  /\ n \in Visible(key) /\ ~ rows[n].acked
  /\ Acknowledge({n})
  /\ UNCHANGED <<now, reqs, alerts, posted>>

Chunks(ids) ==
  [c \in 1..((Len(ids) + ChunkSize - 1) \div ChunkSize) |->
     SubSeq(ids, (c - 1) * ChunkSize + 1, IF c * ChunkSize < Len(ids) THEN c * ChunkSize ELSE Len(ids))]

\* Mutant: ids met before in the same request are not remembered.
Classify_Forgets(acc, n, key, acked) ==
  IF n \notin Visible(key) THEN [acc EXCEPT !.missing = @ + 1]
  ELSE IF n \in acked THEN [acc EXCEPT !.already = @ + 1]
  ELSE [acc EXCEPT !.seenToAck = @ \cup {n}]

\* classifyBulkAck: one id of a chunk, against the states loaded for the chunk
\* and the ids an earlier place of the request will acknowledge.
Classify(acc, n, key, acked) ==
  IF n \notin Visible(key) THEN [acc EXCEPT !.missing = @ + 1]
  ELSE IF n \in acked \cup acc.seenToAck THEN [acc EXCEPT !.already = @ + 1]
  ELSE [acc EXCEPT !.seenToAck = @ \cup {n}]

\* processAckChunk: load the states, classify, update.  Nothing else writes
\* inside the transaction, so the update changes every row it names.
ProcessAckChunk(acc, chunk, key) ==
  LET states == {n \in Visible(key) : rows[n].acked} \cup acc.seenToAck
      counted == FoldLeft(LAMBDA a, n : Classify(a, n, key, states), acc, chunk)
  IN  [counted EXCEPT !.acknowledged =
         @ + Cardinality(counted.seenToAck \ acc.seenToAck)]

\* The reply to a request and the rows it acknowledges.
BulkAck(ids, key) ==
  LET none == [seenToAck |-> {}, acknowledged |-> 0, already |-> 0, missing |-> 0]
  IN  FoldLeft(LAMBDA a, chunk : ProcessAckChunk(a, chunk, key), none, Chunks(ids))

\* One transaction, whatever the number of chunks.
BulkAcknowledge(ids, key) ==
  /\ Acknowledge(BulkAck(ids, key).seenToAck)
  /\ UNCHANGED <<now, reqs, alerts, posted>>

Tick == now < MaxNow /\ now' = now + 1 /\ UNCHANGED <<rows, reqs, alerts, posted>>

Next ==
  \/ \E r \in Requests :
       \/ \E e \in Envelopes, status \in Reported, key \in Keys : Committed(r, e, status, key)
       \/ \E s \in Sessions, kind \in {"decision", "steer"}, key \in Keys \cup {None} :
            MessageStored(r, s, kind, key)
       \/ Notify(r) \/ NotifyMessage(r) \/ FireStatus(r) \/ FireDecision(r)
       \/ CheckLoop(r) \/ FlagLoop(r) \/ StatementFails(r)
  \/ \E n \in DOMAIN rows, key \in Keys : AckOne(n, key)
  \/ \E ids \in BulkIds, key \in Keys : BulkAcknowledge(ids, key)
  \/ Tick

Spec == Init /\ [][Next]_vars
-----------------------------------------------------------------------------
\* The columns of the table, the handlers' memory and the alerts.
TypeOK ==
  /\ rows \in Seq(Notification)
  /\ now  \in 0..MaxNow
  /\ \A r \in Requests : reqs[r] = Quiet \/
       reqs[r] \in [pc : {"insert", "fire", "count", "flag"}, env : Envelopes,
                   status : Reported \cup {"loop_detected"}, key : Keys]
                  \cup [pc : {"message", "decide"}, env : Sessions,
                        status : {"decision", "steer"}, key : Keys \cup {None}]
  /\ IsABag(alerts) /\ posted \in [Sessions -> 0..MaxPosted]

Blocked(e) == {n \in DOMAIN rows : rows[n].env = e /\ rows[n].status = "blocked"}

\* Loop detection misses no loop, however the updates of an envelope and their
\* writers' keys interleave: once they have all been handled, an envelope with
\* more than LoopLimit recent blocked rows has a flag that is newer than them
\* (maybeNotify, unless the count or
\* the flag's own insertion fails).
LoopIsFlagged ==
  \A e \in Envelopes :
    LET recent == {n \in Blocked(e) : Recent(n)} IN
      /\ Cardinality(recent) > LoopLimit
      /\ \A r \in Requests : reqs[r].env # e
      => \E f \in DOMAIN rows :
           /\ rows[f].env = e /\ rows[f].status = "loop_detected"
           /\ \A n \in recent : n < f

\* No false alarm: every flag was preceded by more than LoopLimit blocked rows
\* of its envelope that were recent at one moment before it.
FlagIsEarned ==
  \A f \in DOMAIN rows : rows[f].status = "loop_detected" =>
    \E t \in 0..rows[f].at :
      Cardinality({n \in Blocked(rows[f].env) :
        n < f /\ rows[n].at <= t /\ t < rows[n].at + Window}) > LoopLimit

Stored(e, status) == {n \in DOMAIN rows : rows[n].env = e /\ rows[n].status = status}

Alerted(e, status) == IF BagIn(<<e, status>>, alerts) THEN alerts[<<e, status>>] ELSE 0

Due(pcs, e, status) ==
  {r \in Requests : reqs[r].pc \in pcs /\ reqs[r].env = e /\ reqs[r].status = status}

RowsAlerted ==
  \A e \in Envelopes, status \in Reported \cup {"loop_detected"} :
    Cardinality(Stored(e, status)) = Alerted(e, status) + Cardinality(Due({"fire"}, e, status))

DecisionsAlerted ==
  \A s \in Sessions :
    posted[s] = Alerted(s, "session_decision")
                  + Cardinality(Due({"message", "decide"}, s, "decision"))

\* The queue and the alert sinks tell one story whichever statements fail: an
\* envelope's alert is fired exactly once for each notification stored, loop
\* flags included, and for nothing else, so nobody is alerted of what a poll
\* of the queue will not show; an executor's decision is alerted exactly once
\* whether or not its row could be stored.
AlertsAgree == RowsAlerted /\ DecisionsAlerted

\* The reply to a bulk acknowledgement tells what happened to each place of the
\* list, ids repeated within a chunk or across chunks included: an id counts
\* as acknowledged once if the caller can see it and nobody had acknowledged
\* it, as missing if it cannot be seen, and otherwise as already acknowledged;
\* and the rows written are the ones counted.
BulkAckTruthful ==
  \A ids \in BulkIds, key \in Keys :
    LET reply   == BulkAck(ids, key)
        seen    == {i \in DOMAIN ids : ids[i] \in Visible(key)}
        flipped == {n \in {ids[i] : i \in seen} : ~ rows[n].acked}
    IN  /\ reply.seenToAck = flipped
        /\ reply.acknowledged = Cardinality(flipped)
        /\ reply.missing = Len(ids) - Cardinality(seen)
        /\ reply.already = Cardinality(seen) - Cardinality(flipped)
=============================================================================
