--------------------------- MODULE SessionMessages ---------------------------
(***************************************************************************)
(* The session lane of Hermes (hermes/internal/sessionstore): messages get *)
(* an insert_order per session inside the transaction that stores them,    *)
(* and readers poll with since_id, which takes two queries.  Databases of  *)
(* earlier versions hold rows without an order; migration 003 numbers them *)
(* while Hermes starts (module Startup), before it serves.                 *)
(***************************************************************************)
EXTENDS Startup

CONSTANTS
  Sessions,
  Readers,      \* clients that poll the messages of the sessions
  MaxMessages,  \* bound on the rows of the table
  MaxLegacy,    \* bound on the rows found at the first start
  None

ASSUME BoundsAssumption == {MaxLegacy, MaxMessages} \subseteq Nat /\ MaxLegacy <= MaxMessages

VARIABLES
  rows,    \* session_messages in rowid order; a message's id is its rowid here
  readers  \* the polls in flight, and what each client has received

messagesVars == <<rows, readers, startupVars>>

Message == [session : Sessions, order : Nat]

Of(t, s) == {n \in DOMAIN t : t[n].session = s}

MaxOrder(t, s) ==
  LET orders == {t[n].order : n \in Of(t, s)} \cup {0}
  IN  CHOOSE o \in orders : \A p \in orders : p <= o

(***************************************************************************)
(* What the versions before 003 left: rows older than the column have 0 in *)
(* it, the trigger of 002 numbered those inserted after it was added.      *)
(***************************************************************************)
LegacyTable(t) ==
  /\ t # <<>> => "session_messages" \in schema
  /\ "insert_order" \notin schema => \A n \in DOMAIN t : t[n].order = 0
  /\ \E added \in 1..Len(t) + 1 :
       \A n \in DOMAIN t :
         t[n].order = IF n < added THEN 0
                      ELSE Cardinality({m \in Of(t, t[n].session) : added <= m /\ m <= n})

NoPoll == [pc |-> "idle", session |-> None, order |-> 0]

MessagesInit ==
  /\ StartupInit
  /\ rows \in UNION {[1..n -> [session : Sessions, order : 0..MaxLegacy]] : n \in 0..MaxLegacy}
  /\ LegacyTable(rows)
  /\ readers = [r \in Readers |-> [poll |-> NoPoll, seen |-> [s \in Sessions |-> <<>>]]]
-----------------------------------------------------------------------------
(* Migration 003 *)

\* The expression of the UPDATE for row n, when the table is t.
Number(t, n) ==
  Cardinality({m \in Of(t, t[n].session) : t[m].order = 0 /\ m <= n})
    + MaxOrder(t, t[n].session)

Unnumbered(t) == {n \in DOMAIN t : t[n].order = 0}

\* The subqueries see the table as it was, or with the rows updated so far.
AtOnce(t) ==
  [n \in DOMAIN t |-> IF t[n].order = 0 THEN [t[n] EXCEPT !.order = Number(t, n)] ELSE t[n]]
RowByRow(t) ==
  LET upTo[n \in 0..Len(t)] ==
        IF n = 0 THEN t
        ELSE LET u == upTo[n - 1]
             IN  IF u[n].order = 0 THEN [u EXCEPT ![n].order = Number(u, n)] ELSE u
  IN  upTo[Len(t)]

OrdersUnique(t) ==
  \A m, n \in DOMAIN t :
    t[m].session = t[n].session /\ t[m].order = t[n].order => m = n

\* One statement of a start.  The backfill rewrites the rows, the unique index
\* is refused when they compete for a place.
RunStatement ==
  /\ Execute(Statement.does = "unique" /\ ~ OrdersUnique(rows))
  /\ rows' \in IF Statement = Backfill THEN {AtOnce(rows), RowByRow(rows)} ELSE {rows}
  /\ UNCHANGED readers

Boot ==
  /\ Start \/ Skip \/ ScopeNotifications \/ Record \/ Interrupt
  /\ UNCHANGED <<rows, readers>>
-----------------------------------------------------------------------------
(* Serving *)

getNextInsertOrder(s) == MaxOrder(rows, s) + 1

\* One transaction on the one connection: the unique index is never hit.
InsertMessage(s) ==
  /\ boot = Serving
  /\ Len(rows) < MaxMessages  \* bound
  /\ rows' = Append(rows, [session |-> s, order |-> getNextInsertOrder(s)])
  /\ UNCHANGED <<readers, startupVars>>

\* ORDER BY insert_order: the row at place i has i - 1 rows before it.
InOrder(S, t) ==
  [i \in 1..Cardinality(S) |->
     CHOOSE n \in S : Cardinality({m \in S : t[m].order < t[n].order}) = i - 1]

\* Mutant: the message of the cursor itself is returned again.
After_Inclusive(s, cutoff) ==
  InOrder({n \in Of(rows, s) : rows[n].order >= cutoff}, rows)

\* The messages of s with an order above the cutoff, oldest first.
After(s, cutoff) ==
  InOrder({n \in Of(rows, s) : rows[n].order > cutoff}, rows)

\* Mutant: the cutoff is NULL when there is no cursor.
LookUp_NullCutoff(r, s) ==
  /\ boot = Serving
  /\ readers[r].poll = NoPoll
  /\ LET seen == readers[r].seen[s] IN
       readers' = [readers EXCEPT ![r].poll =
         [pc |-> "select", session |-> s,
          order |-> IF seen = <<>> THEN None ELSE rows[Last(seen)].order]]
  /\ UNCHANGED <<rows, startupVars>>

\* GET .../messages?since_id= with the last id received; without one the look-up
\* is not needed and everything is returned.
LookUp(r, s) ==
  /\ boot = Serving
  /\ readers[r].poll = NoPoll
  /\ LET seen == readers[r].seen[s] IN
       readers' = [readers EXCEPT ![r].poll =
         [pc |-> "select", session |-> s,
          order |-> IF seen = <<>> THEN 0 ELSE rows[Last(seen)].order]]
  /\ UNCHANGED <<rows, startupVars>>

\* The rows the second query finds; the client appends them.
Select(r) ==
  /\ readers[r].poll.pc = "select"
  /\ LET s == readers[r].poll.session IN
       readers' = [readers EXCEPT ![r] =
         [poll |-> NoPoll,
          seen |-> [readers[r].seen EXCEPT ![s] = @ \o After(s, readers[r].poll.order)]]]
  /\ UNCHANGED <<rows, startupVars>>

\* The client gave up: it polls again with the same cursor.
PollLost(r) ==
  /\ readers[r].poll.pc = "select"
  /\ readers' = [readers EXCEPT ![r].poll = NoPoll]
  /\ UNCHANGED <<rows, startupVars>>

\* The polls in flight are lost with the process.
Restart ==
  /\ Stop
  /\ readers' = [r \in Readers |-> [readers[r] EXCEPT !.poll = NoPoll]]
  /\ UNCHANGED rows

MessagesNext ==
  \/ Boot \/ RunStatement \/ Restart
  \/ \E s \in Sessions : InsertMessage(s)
  \/ \E r \in Readers : (\E s \in Sessions : LookUp(r, s)) \/ Select(r) \/ PollLost(r)

MessagesSpec == MessagesInit /\ [][MessagesNext]_messagesVars
-----------------------------------------------------------------------------
\* The table, the polls, the clients' copies and the state of the start.
MessagesTypeOK ==
  /\ rows \in Seq(Message) /\ Len(rows) <= MaxMessages
  /\ StartupTypeOK
  /\ readers \in [Readers -> [poll : [pc : {"idle", "select"}, session : Sessions \cup {None}, order : Nat],
                              seen : [Sessions -> Seq(1..MaxMessages)]]]

\* No start fails, whatever database an earlier version left and wherever
\* earlier starts were interrupted: no file stumbles over its own column ("each
\* migration is recorded after successful execution and skipped on re-open"), and
\* 003 can number any mix of rows, again at each start, so that its index is not
\* refused.
StartsAgain == boot # Failed

\* When Hermes serves, everything its statements name exists, no message is
\* without an order, and the notifications that no API key can reach were
\* acknowledged, however many starts it took to get there.
SchemaComplete ==
  boot = Serving => Needed \subseteq schema /\ Unnumbered(rows) = {} /\ ~ phantom

Lane == INSTANCE Lane
          WITH Lanes    <- Sessions,
               Messages <- 1..MaxMessages,
               log      <- [s \in Sessions |-> InOrder(Of(rows, s), AtOnce(rows))],
               seen     <- [r \in Readers |-> readers[r].seen]

\* Readers that poll with since_id receive every message once and in order,
\* whatever is inserted between the two queries of a poll, whichever polls are
\* repeated and however often Hermes is restarted.
ImplementsLane == Lane!Spec
=============================================================================
