------------------------- MODULE NotificationsProofs -------------------------
(***************************************************************************)
(* Proofs that no loop of blocked updates goes unflagged, that every flag  *)
(* is earned, that an alert is fired for every row that is stored, and     *)
(* that a bulk acknowledgement is answered truthfully, for any number of   *)
(* envelopes, keys and requests, any limits, lists and sizes of chunks.    *)
(***************************************************************************)
EXTENDS Notifications, FiniteSetTheorems, SequenceTheorems, WellFoundedInduction, TLAPS

\* No message without a key gets a row, and no update reports a loop.
Fits(req) ==
  /\ req.pc = "message" => req.key \in Keys
  /\ req.pc = "insert" => req.status \in Reported

Typed ==
  /\ TypeOK
  /\ DOMAIN reqs = Requests
  /\ \A r \in Requests : Fits(reqs[r])

\* A request that will still flag a loop of e, or find that there is none.
Checking(r, e) ==
  /\ reqs[r].env = e
  /\ \/ reqs[r].pc \in {"fire", "count"} /\ reqs[r].status = "blocked"
     \/ reqs[r].pc = "flag"

RecentlyBlocked(e) == {n \in Blocked(e) : Recent(n)}

\* A loop is flagged, or a request that will see it has not looked yet.
Looping(e) ==
  Cardinality(RecentlyBlocked(e)) > LoopLimit =>
    \/ \E r \in Requests : Checking(r, e)
    \/ \E f \in DOMAIN rows :
         /\ rows[f].env = e /\ rows[f].status = "loop_detected"
         /\ \A n \in RecentlyBlocked(e) : n < f

\* The blocked rows of e before row k that were recent at time t.
RecentAt(e, k, t) ==
  {n \in Blocked(e) : n < k /\ rows[n].at <= t /\ t < rows[n].at + Window}

\* Rows are not from the future, and whoever is about to flag a loop has seen it.
Seen ==
  /\ \A n \in DOMAIN rows : rows[n].at <= now
  /\ \A r \in Requests : reqs[r].pc = "flag" =>
       \E k \in 1..Len(rows) + 1, t \in 0..now :
         Cardinality(RecentAt(reqs[r].env, k, t)) > LoopLimit

\* The inductive invariants.  LoopIsFlagged alone says nothing of a loop whose
\* last update is still being handled, nor FlagIsEarned of a flag not yet stored.
LoopsInv  == Typed /\ \A e \in Envelopes : Looping(e)
FlagsInv  == Typed /\ Seen /\ FlagIsEarned
AlertsInv == Typed /\ AlertsAgree
-----------------------------------------------------------------------------
(* The table *)

\* What no statement changes of a row once it is stored.
Kept(n) ==
  /\ n \in DOMAIN rows'
  /\ rows'[n].env = rows[n].env /\ rows'[n].status = rows[n].status /\ rows'[n].at = rows[n].at

\* Acknowledging leaves all but acked alone.
LEMMA Acknowledged ==
  ASSUME Typed, NEW ids, Acknowledge(ids)
  PROVE  rows' \in Seq(Notification) /\ Len(rows') = Len(rows) /\ \A n \in DOMAIN rows : Kept(n)
<1>1. /\ rows \in Seq(Notification) /\ Len(rows) \in Nat /\ DOMAIN rows = 1..Len(rows)
      /\ \A n \in 1..Len(rows) : rows[n] \in Notification
  BY DEF Typed, TypeOK
<1>2. rows' = [n \in 1..Len(rows) |->
                 IF n \in ids THEN [rows[n] EXCEPT !.acked = TRUE] ELSE rows[n]]
  BY <1>1, Zenon DEF Acknowledge
<1>3. ASSUME NEW n \in 1..Len(rows)
      PROVE  /\ rows'[n] \in Notification /\ rows'[n].env = rows[n].env
             /\ rows'[n].status = rows[n].status /\ rows'[n].at = rows[n].at
  <2>1. rows'[n] = IF n \in ids THEN [rows[n] EXCEPT !.acked = TRUE] ELSE rows[n]
    BY <1>2
  <2>2. rows[n] \in Notification
    BY <1>1
  <2>3. /\ [rows[n] EXCEPT !.acked = TRUE].env = rows[n].env
        /\ [rows[n] EXCEPT !.acked = TRUE].status = rows[n].status
        /\ [rows[n] EXCEPT !.acked = TRUE].at = rows[n].at
        /\ [rows[n] EXCEPT !.acked = TRUE] \in Notification
    <3> DEFINE Statuses == Reported \cup {"loop_detected"}
    <3> HIDE DEF Statuses
    <3>1. CASE rows[n] \in [env : Envelopes, status : Statuses, key : Keys, at : 0..MaxNow, acked : BOOLEAN]
      BY <3>1 DEF Notification, Statuses
    <3>2. CASE rows[n] \in [env : Sessions, status : {"session_message"}, key : Keys, at : 0..MaxNow,
                            acked : BOOLEAN]
      BY <3>2 DEF Notification
    <3> QED BY <2>2, <3>1, <3>2 DEF Notification, Statuses
  <2> QED BY <2>1, <2>2, <2>3
<1>4. rows' \in [1..Len(rows) -> Notification]
  BY <1>2, <1>3
<1> QED BY <1>1, <1>3, <1>4 DEF Kept

\* A row is stored after all others, with the time.
LEMMA Inserted ==
  ASSUME Typed, NEW r, NEW status, Insert(r, status),
         [env |-> reqs[r].env, status |-> status, key |-> reqs[r].key, at |-> now, acked |-> FALSE]
           \in Notification
  PROVE  /\ rows' \in Seq(Notification) /\ Len(rows') = Len(rows) + 1
         /\ \A n \in DOMAIN rows : Kept(n)
         /\ DOMAIN rows' = DOMAIN rows \cup {Len(rows) + 1} /\ Len(rows) + 1 \notin DOMAIN rows
         /\ rows'[Len(rows) + 1].env = reqs[r].env /\ rows'[Len(rows) + 1].status = status
         /\ rows'[Len(rows) + 1].at = now
<1> DEFINE row == [env |-> reqs[r].env, status |-> status, key |-> reqs[r].key, at |-> now, acked |-> FALSE]
<1>1. /\ rows \in Seq(Notification) /\ Len(rows) \in Nat /\ DOMAIN rows = 1..Len(rows)
      /\ rows' = Append(rows, row) /\ row \in Notification
  BY DEF Typed, TypeOK, Insert
<1>2. row.env = reqs[r].env /\ row.status = status /\ row.at = now
  OBVIOUS
<1> HIDE DEF row
<1>3. /\ rows' \in Seq(Notification) /\ Len(rows') = Len(rows) + 1 /\ rows'[Len(rows) + 1] = row
      /\ \A n \in 1..Len(rows) : rows'[n] = rows[n]
  BY <1>1
<1>4. DOMAIN rows' = 1..Len(rows) + 1
  BY <1>3
<1> QED BY <1>1, <1>2, <1>3, <1>4 DEF Kept

\* The rows that satisfy something are finitely many.
LEMMA RowsAreFinite ==
  ASSUME Typed, NEW S, S \subseteq DOMAIN rows
  PROVE  IsFiniteSet(S) /\ Cardinality(S) \in Nat
<1>1. DOMAIN rows = 1..Len(rows) /\ Len(rows) \in Nat
  BY DEF Typed, TypeOK
<1>2. IsFiniteSet(DOMAIN rows)
  BY <1>1, FS_Interval
<1> QED BY <1>2, FS_Subset, FS_CardinalityType


-----------------------------------------------------------------------------
(* Types *)

Update == [pc : {"insert", "fire", "count", "flag"}, env : Envelopes,
           status : Reported \cup {"loop_detected"}, key : Keys]

Post == [pc : {"message", "decide"}, env : Sessions, status : {"decision", "steer"},
         key : Keys \cup {None}]

LEMMA Shapes ==
  ASSUME Typed, NEW r \in Requests
  PROVE  /\ reqs[r] = Quiet \/ reqs[r] \in Update \/ reqs[r] \in Post
         /\ reqs[r].pc \in {"insert", "fire", "count", "flag"} => reqs[r] \in Update
         /\ reqs[r].pc \in {"message", "decide"} => reqs[r] \in Post
         /\ reqs[r].pc \in {"quiet", "insert", "fire", "count", "flag", "message", "decide"}
<1>1. reqs[r] = Quiet \/ reqs[r] \in Update \/ reqs[r] \in Post
  BY Zenon DEF Typed, TypeOK, Update, Post
<1> QED BY <1>1 DEF Quiet, Update, Post

\* The row a request stores fits the table.
LEMMA RowFits ==
  ASSUME Typed, NEW r \in Requests, NEW status,
         \/ reqs[r].pc \in {"insert", "flag"} /\ status \in Reported \cup {"loop_detected"}
         \/ reqs[r].pc = "message" /\ status = "session_message"
  PROVE  [env |-> reqs[r].env, status |-> status, key |-> reqs[r].key, at |-> now, acked |-> FALSE]
           \in Notification
<1>1. now \in 0..MaxNow
  BY DEF Typed, TypeOK
<1>2. CASE reqs[r].pc \in {"insert", "flag"}
  BY <1>1, <1>2, Shapes DEF Notification, Update
<1>3. CASE reqs[r].pc = "message"
  BY <1>1, <1>3, Shapes DEF Notification, Post, Typed, Fits
<1> QED BY <1>2, <1>3

\* The steps that leave the table alone, one request at a time.
LEMMA RequestsTyped ==
  ASSUME Typed, NEW r \in Requests, NEW req,
         reqs' = [reqs EXCEPT ![r] = req],
         req = Quiet \/ req \in Update \/ req \in Post, Fits(req)
  PROVE  /\ DOMAIN reqs' = Requests
         /\ reqs'[r] = req /\ \A q \in Requests \ {r} : reqs'[q] = reqs[q]
         /\ \A q \in Requests : /\ reqs'[q] = Quiet \/ reqs'[q] \in Update \/ reqs'[q] \in Post
                                /\ Fits(reqs'[q])
<1>1. /\ DOMAIN reqs' = Requests
      /\ reqs'[r] = req /\ \A q \in Requests \ {r} : reqs'[q] = reqs[q]
  BY DEF Typed
<1>2. ASSUME NEW q \in Requests
      PROVE  /\ reqs'[q] = Quiet \/ reqs'[q] \in Update \/ reqs'[q] \in Post
             /\ Fits(reqs'[q])
  <2>1. CASE q = r
    BY <1>1, <2>1 DEF Quiet, Update
  <2>2. CASE q # r
    BY <1>1, <2>2, Shapes DEF Typed
  <2> QED BY <2>1, <2>2
<1> QED BY <1>1, <1>2

\* One step of the handler of request r.
StepOf(r) ==
  \/ \E e \in Envelopes, status \in Reported, key \in Keys : Committed(r, e, status, key)
  \/ \E s \in Sessions, kind \in {"decision", "steer"}, key \in Keys \cup {None} :
       MessageStored(r, s, kind, key)
  \/ Notify(r) \/ NotifyMessage(r) \/ FireStatus(r) \/ FireDecision(r)
  \/ CheckLoop(r) \/ FlagLoop(r) \/ StatementFails(r)

\* What a request's step makes of it.
Becomes(r, req) ==
  /\ reqs' = [reqs EXCEPT ![r] = req]
  /\ req = Quiet \/ req \in Update \/ req \in Post
  /\ Fits(req)

LEMMA StepOfRequest ==
  ASSUME Typed, NEW r \in Requests, StepOf(r)
  PROVE  \E req : Becomes(r, req)
<1>a. Fits(Quiet)
  BY DEF Fits, Quiet
<1>b. ASSUME NEW req \in Update, req.pc # "insert" PROVE Fits(req)
  BY <1>b DEF Update, Fits
<1>c. ASSUME NEW req \in Post, req.pc # "message" PROVE Fits(req)
  BY <1>c DEF Post, Fits
<1>1. CASE \E e \in Envelopes, status \in Reported, key \in Keys : Committed(r, e, status, key)
  <2>1. PICK e \in Envelopes, status \in Reported, key \in Keys : Committed(r, e, status, key)
    BY <1>1
  <2> DEFINE req == [pc |-> "insert", env |-> e, status |-> status, key |-> key]
  <2>2. req \in Update /\ Fits(req)
    BY DEF Update, Fits
  <2>3. reqs' = [reqs EXCEPT ![r] = req]
    BY <2>1 DEF Committed
  <2> QED BY <2>2, <2>3, Zenon DEF Becomes
<1>2. CASE \E s \in Sessions, kind \in {"decision", "steer"}, key \in Keys \cup {None} :
             MessageStored(r, s, kind, key)
  <2>1. PICK s \in Sessions, kind \in {"decision", "steer"}, key \in Keys \cup {None} :
          MessageStored(r, s, kind, key)
    BY <1>2
  <2> DEFINE req == [pc |-> IF key = None THEN "decide" ELSE "message", env |-> s,
                     status |-> kind, key |-> key]
  <2>2. req \in Post /\ Fits(req)
    BY DEF Post, Fits
  <2>3. reqs' = [reqs EXCEPT ![r] = req]
    BY <2>1 DEF MessageStored
  <2> QED BY <2>2, <2>3, Zenon DEF Becomes
<1>3. CASE Notify(r)
  <2>1. reqs' = [reqs EXCEPT ![r] = [reqs[r] EXCEPT !.pc = "fire"]]
    BY <1>3 DEF Notify, Typed
  <2>2. /\ [reqs[r] EXCEPT !.pc = "fire"] \in Update
        /\ [reqs[r] EXCEPT !.pc = "fire"].pc # "insert"
    BY <1>3, Shapes DEF Notify, Update
  <2> QED BY <1>b, <1>c, <2>1, <2>2 DEF Becomes
<1>4. CASE NotifyMessage(r) \/ (StatementFails(r) /\ reqs[r].pc = "message")
  <2>1. reqs' = [reqs EXCEPT ![r] = [reqs[r] EXCEPT !.pc = "decide"]] /\ reqs[r].pc = "message"
    BY <1>4 DEF NotifyMessage, StatementFails, Typed
  <2>2. [reqs[r] EXCEPT !.pc = "decide"] \in Post /\ [reqs[r] EXCEPT !.pc = "decide"].pc # "message"
    BY <2>1, Shapes DEF Post
  <2> QED BY <1>b, <1>c, <2>1, <2>2 DEF Becomes
<1>5. CASE FireStatus(r)
  <2>1. CASE reqs[r].status = "blocked"
    <3>1. reqs' = [reqs EXCEPT ![r] = [reqs[r] EXCEPT !.pc = "count"]]
      BY <1>5, <2>1 DEF FireStatus, Typed
    <3>2. /\ [reqs[r] EXCEPT !.pc = "count"] \in Update
          /\ [reqs[r] EXCEPT !.pc = "count"].pc # "insert"
      BY <1>5, Shapes DEF FireStatus, Update
    <3> QED BY <1>b, <3>1, <3>2 DEF Becomes
  <2>2. CASE reqs[r].status # "blocked"
    BY <1>a, <1>5, <2>2 DEF FireStatus, Done, Becomes
  <2> QED BY <2>1, <2>2
<1>6. CASE CheckLoop(r)
  <2>1. CASE CountRecentByStatus(r) > LoopLimit
    <3>1. reqs' = [reqs EXCEPT ![r] = [reqs[r] EXCEPT !.pc = "flag"]]
      BY <1>6, <2>1 DEF CheckLoop, Typed
    <3>2. /\ [reqs[r] EXCEPT !.pc = "flag"] \in Update
          /\ [reqs[r] EXCEPT !.pc = "flag"].pc # "insert"
      BY <1>6, Shapes DEF CheckLoop, Update
    <3> QED BY <1>b, <3>1, <3>2 DEF Becomes
  <2>2. CASE ~ (CountRecentByStatus(r) > LoopLimit)
    BY <1>a, <1>6, <2>2 DEF CheckLoop, Done, Becomes
  <2> QED BY <2>1, <2>2
<1>7. CASE FlagLoop(r)
  <2>1. reqs' = [reqs EXCEPT ![r] = [reqs[r] EXCEPT !.pc = "fire", !.status = "loop_detected"]]
    BY <1>7 DEF FlagLoop, Typed
  <2>2. /\ [reqs[r] EXCEPT !.pc = "fire", !.status = "loop_detected"] \in Update
        /\ [reqs[r] EXCEPT !.pc = "fire", !.status = "loop_detected"].pc # "insert"
    BY <1>7, Shapes DEF FlagLoop, Update
  <2> QED BY <1>b, <1>c, <2>1, <2>2 DEF Becomes
<1>8. CASE FireDecision(r) \/ (StatementFails(r) /\ reqs[r].pc # "message")
  BY <1>a, <1>8 DEF FireDecision, StatementFails, Done, Becomes
<1> QED BY <1>1, <1>2, <1>3, <1>4, <1>5, <1>6, <1>7, <1>8 DEF StepOf


LEMMA AlertCounts ==
  ASSUME Typed, NEW e, NEW status
  PROVE  Alerted(e, status) \in Nat
BY DEF Typed, TypeOK, IsABag, Alerted, BagIn, BagToSet

\* An alert is one more of its kind.
LEMMA Fired ==
  ASSUME Typed, NEW r, NEW status, Fire(r, status)
  PROVE  /\ IsABag(alerts')
         /\ \A e, s : Alerted(e, s)' =
              Alerted(e, s) + IF <<e, s>> = <<reqs[r].env, status>> THEN 1 ELSE 0
<1> DEFINE one == <<reqs[r].env, status>>
<1>1. /\ DOMAIN alerts' = DOMAIN alerts \cup {one}
      /\ \A x \in DOMAIN alerts' : alerts'[x] = (IF x \in DOMAIN alerts THEN alerts[x] ELSE 0)
                                               + (IF x = one THEN 1 ELSE 0)
      /\ alerts' = [x \in DOMAIN alerts' |-> alerts'[x]]
  BY DEF Fire, (+), SetToBag
<1>2. /\ \A x \in DOMAIN alerts : alerts[x] \in Nat /\ alerts[x] > 0
  BY DEF Typed, TypeOK, IsABag
<1> HIDE DEF one
<1>3. \A x \in DOMAIN alerts' : alerts'[x] \in {n \in Nat : n > 0}
  BY <1>1, <1>2
<1>4. IsABag(alerts')
  BY <1>1, <1>3 DEF IsABag
<1>5. ASSUME NEW x
      PROVE  (IF x \in DOMAIN alerts' THEN alerts'[x] ELSE 0)
               = (IF x \in DOMAIN alerts THEN alerts[x] ELSE 0) + (IF x = one THEN 1 ELSE 0)
  BY <1>1, <1>2
<1>6. \A e, s : Alerted(e, s)' = Alerted(e, s) + IF <<e, s>> = one THEN 1 ELSE 0
  BY <1>5 DEF Alerted, BagIn, BagToSet
<1> QED BY <1>4, <1>6 DEF one

\* What every step keeps of the rows, and of their types.
LEMMA RowsStay ==
  ASSUME Typed, [Next]_vars
  PROVE  /\ rows' \in Seq(Notification) /\ Len(rows') \in {Len(rows), Len(rows) + 1}
         /\ \A n \in DOMAIN rows : Kept(n)
<1>1. CASE UNCHANGED rows
  BY <1>1 DEF Typed, TypeOK, Kept
<1>2. ASSUME NEW r \in Requests, Notify(r) \/ NotifyMessage(r) \/ FlagLoop(r)
      PROVE  /\ rows' \in Seq(Notification) /\ Len(rows') = Len(rows) + 1
             /\ \A n \in DOMAIN rows : Kept(n)
  <2>1. CASE Notify(r)
    <3>1. Insert(r, reqs[r].status) /\ reqs[r].pc = "insert"
      BY <2>1 DEF Notify
    <3>2. reqs[r].status \in Reported \cup {"loop_detected"}
      BY <3>1, Shapes DEF Update
    <3> QED BY <3>1, <3>2, RowFits, Inserted
  <2>2. CASE NotifyMessage(r)
    BY <2>2, RowFits, Inserted DEF NotifyMessage
  <2>3. CASE FlagLoop(r)
    BY <2>3, RowFits, Inserted DEF FlagLoop
  <2> QED BY <1>2, <2>1, <2>2, <2>3
<1>3. CASE \/ \E n \in DOMAIN rows, key \in Keys : AckOne(n, key)
           \/ \E ids \in BulkIds, key \in Keys : BulkAcknowledge(ids, key)
  BY <1>3, Acknowledged DEF AckOne, BulkAcknowledge
<1>4. CASE Tick \/ UNCHANGED vars
  BY <1>1, <1>4 DEF Tick, vars
<1> QED BY <1>1, <1>2, <1>3, <1>4
        DEF Next, Committed, MessageStored, FireStatus, FireDecision, CheckLoop, StatementFails

LEMMA TypedKeeps ==
  ASSUME Typed, [Next]_vars
  PROVE  Typed'
<1> DEFINE Goal == /\ DOMAIN reqs' = Requests
                   /\ \A q \in Requests : /\ reqs'[q] = Quiet \/ reqs'[q] \in Update \/ reqs'[q] \in Post
                                          /\ Fits(reqs'[q])
<1>1. ASSUME Goal, now' \in 0..MaxNow, IsABag(alerts'), posted' \in [Sessions -> 0..MaxPosted]
      PROVE  Typed'
  <2>1. \A q \in Requests : reqs'[q] = Quiet \/ reqs'[q] \in Update \/ reqs'[q] \in Post
    BY <1>1
  <2>2. TypeOK'
    BY <1>1, <2>1, RowsStay, Zenon DEF TypeOK, Update, Post
  <2> QED BY <1>1, <2>2 DEF Typed
<1>2. now \in 0..MaxNow /\ IsABag(alerts) /\ posted \in [Sessions -> 0..MaxPosted]
  BY DEF Typed, TypeOK
<1> HIDE DEF Goal
<1>3. ASSUME UNCHANGED reqs PROVE Goal
  BY <1>3, Shapes DEF Typed, Goal
<1>4. CASE UNCHANGED vars
  BY <1>1, <1>2, <1>3, <1>4 DEF vars
<1>5. CASE \/ \E n \in DOMAIN rows, key \in Keys : AckOne(n, key)
           \/ \E ids \in BulkIds, key \in Keys : BulkAcknowledge(ids, key)
  BY <1>1, <1>2, <1>3, <1>5 DEF AckOne, BulkAcknowledge
<1>6. CASE Tick
  <2>1. now' \in 0..MaxNow
    BY <1>2, <1>6, BoundsAssumption DEF Tick
  <2> QED BY <1>1, <1>2, <1>3, <1>6, <2>1 DEF Tick
<1>7. ASSUME NEW r \in Requests, StepOf(r)
      PROVE  Typed'
  <2>1. Goal
    <3>1. PICK req : Becomes(r, req)
      BY <1>7, StepOfRequest
    <3> QED BY <3>1, RequestsTyped DEF Becomes, Goal
  <2>2. now' = now
    BY <1>7 DEF StepOf, Committed, MessageStored, Notify, NotifyMessage, FireStatus, FireDecision, CheckLoop,
                FlagLoop, StatementFails
  <2>3. \/ posted' = posted
        \/ \E s \in Sessions : posted[s] < MaxPosted /\ posted' = [posted EXCEPT ![s] = @ + 1]
    BY <1>7 DEF StepOf, Committed, MessageStored, Notify, NotifyMessage, FireStatus, FireDecision, CheckLoop,
                FlagLoop, StatementFails
  <2>4. UNCHANGED alerts \/ \E status : Fire(r, status)
    BY <1>7 DEF StepOf, Committed, MessageStored, Notify, NotifyMessage, FireStatus, FireDecision, CheckLoop,
                FlagLoop, StatementFails
  <2>5. IsABag(alerts')
    BY <1>2, <2>4, Fired
  <2>6. posted' \in [Sessions -> 0..MaxPosted]
    BY <1>2, <2>3, BoundsAssumption
  <2> QED BY <1>1, <1>2, <2>1, <2>2, <2>5, <2>6
<1> QED BY <1>4, <1>5, <1>6, <1>7 DEF Next, StepOf

LEMMA InitTyped == Init => Typed
<1> SUFFICES ASSUME Init PROVE Typed
  OBVIOUS
<1>1. IsABag(alerts)
  BY DEF Init, EmptyBag, SetToBag, IsABag
<1>2. rows \in Seq(Notification) /\ now \in 0..MaxNow /\ posted \in [Sessions -> 0..MaxPosted]
  BY BoundsAssumption DEF Init
<1> QED BY <1>1, <1>2 DEF Init, Typed, TypeOK, Fits, Quiet

\* Type correctness: the columns of the table, the handlers' memory and the
\* bag of alerts.
THEOREM TypeCorrect == Spec => []TypeOK
<1>1. Spec => []Typed
  BY InitTyped, TypedKeeps, PTL DEF Spec
<1>2. Typed => TypeOK
  BY DEF Typed
<1> QED BY <1>1, <1>2, PTL
-----------------------------------------------------------------------------
(* Loops *)

\* The sets that the properties count, over the rows as they were.
LEMMA RowsAsTheyWere ==
  ASSUME Typed, [Next]_vars, UNCHANGED now, NEW e
  PROVE  /\ Blocked(e) = {n \in Blocked(e)' : n \in DOMAIN rows}
         /\ RecentlyBlocked(e) = {n \in RecentlyBlocked(e)' : n \in DOMAIN rows}
<1>1. \A n \in DOMAIN rows : Kept(n)
  BY RowsStay
<1>2. \A n \in DOMAIN rows : (n \in Blocked(e)) <=> (n \in Blocked(e)')
  BY <1>1 DEF Blocked, Kept
<1>3. \A n \in DOMAIN rows : (n \in RecentlyBlocked(e)) <=> (n \in RecentlyBlocked(e)')
  BY <1>1 DEF RecentlyBlocked, Recent, Blocked, Kept
<1> QED BY <1>2, <1>3 DEF RecentlyBlocked, Blocked

\* The rows before row k that were recent at t stay the same, whatever follows.
LEMMA RecentAtStays ==
  ASSUME Typed, [Next]_vars, NEW e, NEW k \in 1..Len(rows) + 1, NEW t
  PROVE  RecentAt(e, k, t)' = RecentAt(e, k, t)
<1>1. /\ \A n \in DOMAIN rows : Kept(n)
      /\ \A n \in DOMAIN rows' : n < k => n \in DOMAIN rows
  <2>1. /\ rows \in Seq(Notification) /\ rows' \in Seq(Notification)
        /\ Len(rows') \in {Len(rows), Len(rows) + 1}
    BY RowsStay DEF Typed, TypeOK
  <2>2. \A n \in DOMAIN rows' : n < k => n \in DOMAIN rows
    BY <2>1
  <2> QED BY <2>2, RowsStay
<1>2. \A n : n \in RecentAt(e, k, t) <=>
        /\ n \in DOMAIN rows /\ rows[n].env = e /\ rows[n].status = "blocked"
        /\ n < k /\ rows[n].at <= t /\ t < rows[n].at + Window
  BY DEF RecentAt, Blocked
<1>3. \A n : n \in RecentAt(e, k, t)' <=>
        /\ n \in DOMAIN rows' /\ rows'[n].env = e /\ rows'[n].status = "blocked"
        /\ n < k /\ rows'[n].at <= t /\ t < rows'[n].at + Window
  BY DEF RecentAt, Blocked
<1>4. \A n : n \in RecentAt(e, k, t)' <=> n \in RecentAt(e, k, t)
  BY <1>1, <1>2, <1>3 DEF Kept
<1> QED BY <1>4 DEF RecentAt, Blocked


\* What a request counts are the recent blocked rows of its envelope.
LEMMA Counted ==
  ASSUME NEW r
  PROVE  CountRecentByStatus(r) = Cardinality(RecentlyBlocked(reqs[r].env))
<1>1. {n \in DOMAIN rows : rows[n].env = reqs[r].env /\ rows[n].status = "blocked" /\ Recent(n)}
        = RecentlyBlocked(reqs[r].env)
  BY DEF RecentlyBlocked, Blocked
<1> QED BY <1>1, Zenon DEF CountRecentByStatus

\* The number of recent rows is a number, and smaller for fewer of them.
LEMMA FewerRows ==
  ASSUME Typed, NEW S, NEW T, S \subseteq T, T \subseteq DOMAIN rows
  PROVE  Cardinality(S) \in Nat /\ Cardinality(T) \in Nat /\ Cardinality(S) <= Cardinality(T)
<1>1. IsFiniteSet(T)
  BY RowsAreFinite
<1>2. Cardinality(S) <= Cardinality(T)
  BY <1>1, FS_Subset
<1>3. Cardinality(S) \in Nat /\ Cardinality(T) \in Nat
  BY RowsAreFinite
<1> QED BY <1>2, <1>3

\* A step that gives e no recent blocked row, and takes away nobody who checks it.
LEMMA LoopingStays ==
  ASSUME Typed, Typed', [Next]_vars, NEW e, Looping(e),
         RecentlyBlocked(e)' \subseteq RecentlyBlocked(e),
         \A r \in Requests : Checking(r, e) => Checking(r, e)'
  PROVE  Looping(e)'
<1>1. SUFFICES ASSUME Cardinality(RecentlyBlocked(e)') > LoopLimit
               PROVE  \/ \E r \in Requests : Checking(r, e)'
                      \/ \E f \in DOMAIN rows' :
                           /\ rows'[f].env = e /\ rows'[f].status = "loop_detected"
                           /\ \A n \in RecentlyBlocked(e)' : n < f
  BY DEF Looping
<1>2. Cardinality(RecentlyBlocked(e)) > LoopLimit
  <2>1. RecentlyBlocked(e) \subseteq DOMAIN rows
    BY DEF RecentlyBlocked, Blocked
  <2>2. /\ Cardinality(RecentlyBlocked(e)') \in Nat /\ Cardinality(RecentlyBlocked(e)) \in Nat
        /\ Cardinality(RecentlyBlocked(e)') <= Cardinality(RecentlyBlocked(e))
    BY <2>1, FewerRows
  <2> QED BY <1>1, <2>2, BoundsAssumption
<1>3. CASE \E r \in Requests : Checking(r, e)
  BY <1>3
<1>4. CASE \E f \in DOMAIN rows :
             /\ rows[f].env = e /\ rows[f].status = "loop_detected"
             /\ \A n \in RecentlyBlocked(e) : n < f
  BY <1>4, RowsStay DEF Kept
<1> QED BY <1>2, <1>3, <1>4 DEF Looping

\* A request's own step disturbs nobody else's.
LEMMA OthersStay ==
  ASSUME Typed, NEW r \in Requests, StepOf(r)
  PROVE  \A q \in Requests \ {r} : reqs'[q] = reqs[q]
BY StepOfRequest, RequestsTyped DEF Becomes

\* Steps that store no row.
LEMMA RowsSame ==
  ASSUME Typed, UNCHANGED rows, now' >= now, now \in Nat, now' \in Nat, NEW e
  PROVE  RecentlyBlocked(e)' \subseteq RecentlyBlocked(e)
<1>1. ASSUME NEW n \in RecentlyBlocked(e)'
      PROVE  n \in RecentlyBlocked(e)
  <2>1. /\ n \in DOMAIN rows /\ rows[n].env = e /\ rows[n].status = "blocked"
        /\ rows[n].at + Window > now'
    BY <1>1 DEF RecentlyBlocked, Blocked, Recent
  <2>2. rows[n].at \in Nat /\ Window \in Nat
    <3>1. rows[n] \in Notification
      BY <2>1 DEF Typed, TypeOK
    <3> QED BY <3>1, BoundsAssumption DEF Notification
  <2> QED BY <2>1, <2>2 DEF RecentlyBlocked, Blocked, Recent
<1> QED BY <1>1

\* A step that stores one row, which is no blocked one of e.
LEMMA RowElsewhere ==
  ASSUME Typed, [Next]_vars, UNCHANGED now, NEW e,
         \A n \in DOMAIN rows' \ DOMAIN rows : ~ (rows'[n].env = e /\ rows'[n].status = "blocked")
  PROVE  RecentlyBlocked(e)' \subseteq RecentlyBlocked(e)
<1>1. RecentlyBlocked(e) = {n \in RecentlyBlocked(e)' : n \in DOMAIN rows}
  BY RowsAsTheyWere
<1>2. RecentlyBlocked(e)' \subseteq DOMAIN rows
  BY DEF RecentlyBlocked, Blocked
<1> QED BY <1>1, <1>2

LEMMA LoopingKeeps ==
  ASSUME Typed, Typed', [Next]_vars, {"count", "flag"} \cap Failures = {},
         NEW e \in Envelopes, Looping(e)
  PROVE  Looping(e)'
<1>0. now \in Nat
  BY BoundsAssumption DEF Typed, TypeOK
<1>1. CASE UNCHANGED reqs /\ RecentlyBlocked(e)' \subseteq RecentlyBlocked(e)
  BY <1>1, LoopingStays DEF Checking
<1>2. CASE Tick \/ UNCHANGED vars
  BY <1>0, <1>1, <1>2, RowsSame DEF Tick, vars
<1>3. CASE \/ \E n \in DOMAIN rows, key \in Keys : AckOne(n, key)
           \/ \E ids \in BulkIds, key \in Keys : BulkAcknowledge(ids, key)
  <2>1. UNCHANGED <<reqs, now>> /\ \E ids : Acknowledge(ids)
    BY <1>3 DEF AckOne, BulkAcknowledge
  <2>2. DOMAIN rows' = DOMAIN rows
    BY <2>1, Acknowledged DEF Typed, TypeOK
  <2> QED BY <1>1, <2>1, <2>2, RowElsewhere
<1>4. ASSUME NEW r \in Requests, StepOf(r), UNCHANGED <<rows, now>>,
             Checking(r, e) => Checking(r, e)'
      PROVE  Looping(e)'
  <2>1. \A q \in Requests : Checking(q, e) => Checking(q, e)'
    BY <1>4, OthersStay DEF Checking
  <2> QED BY <1>0, <1>4, <2>1, RowsSame, LoopingStays
<1>5. ASSUME NEW r \in Requests, StepOf(r), UNCHANGED now, ~ Checking(r, e),
             NEW status, Insert(r, status), reqs[r].env # e \/ status # "blocked",
             \/ reqs[r].pc \in {"insert", "flag"} /\ status \in Reported \cup {"loop_detected"}
             \/ reqs[r].pc = "message" /\ status = "session_message"
      PROVE  Looping(e)'
  <2>1. \A q \in Requests : Checking(q, e) => Checking(q, e)'
    BY <1>5, OthersStay DEF Checking
  <2>2. RecentlyBlocked(e)' \subseteq RecentlyBlocked(e)
    BY <1>5, RowFits, Inserted, RowElsewhere
  <2> QED BY <2>1, <2>2, LoopingStays
<1>6. ASSUME NEW r \in Requests, Notify(r)
      PROVE  Looping(e)'
  <2>1. StepOf(r) /\ UNCHANGED now /\ reqs[r].pc = "insert" /\ Insert(r, reqs[r].status)
        /\ reqs[r].status \in Reported \cup {"loop_detected"} /\ ~ Checking(r, e)
    BY <1>6, Shapes DEF StepOf, Notify, Checking, Update
  <2>2. CASE reqs[r].env = e /\ reqs[r].status = "blocked"
    <3>1. Checking(r, e)'
      BY <1>6, <2>2 DEF Notify, Checking, Typed
    <3> QED BY <3>1 DEF Looping
  <2> QED BY <1>5, <2>1, <2>2
<1>7. ASSUME NEW r \in Requests, NotifyMessage(r)
      PROVE  Looping(e)'
  <2>1. StepOf(r) /\ UNCHANGED now /\ reqs[r].pc = "message" /\ Insert(r, "session_message")
        /\ ~ Checking(r, e)
    BY <1>7 DEF StepOf, NotifyMessage, Checking
  <2> QED BY <1>5, <2>1
\* The flag is stored after all the rows it is about.
<1>8. ASSUME NEW r \in Requests, FlagLoop(r)
      PROVE  Looping(e)'
  <2>1. StepOf(r) /\ UNCHANGED now /\ reqs[r].pc = "flag" /\ Insert(r, "loop_detected")
    BY <1>8 DEF StepOf, FlagLoop
  <2>2. CASE reqs[r].env # e
    BY <1>5, <2>1, <2>2 DEF Checking
  <2>3. CASE reqs[r].env = e
    <3> DEFINE f == Len(rows) + 1
    <3>1. /\ DOMAIN rows' = DOMAIN rows \cup {f} /\ f \notin DOMAIN rows
          /\ rows'[f].env = e /\ rows'[f].status = "loop_detected"
      BY <2>1, <2>3, RowFits, Inserted
    <3>2. \A n \in DOMAIN rows : n < f
      BY DEF Typed, TypeOK
    <3> HIDE DEF f
    <3>3. \A n \in RecentlyBlocked(e)' : n \in DOMAIN rows
      BY <3>1 DEF RecentlyBlocked, Blocked
    <3> QED BY <3>1, <3>2, <3>3 DEF Looping
  <2> QED BY <2>2, <2>3
\* Whoever looks and finds no loop is right.
<1>9. ASSUME NEW r \in Requests, CheckLoop(r)
      PROVE  Looping(e)'
  <2>1. StepOf(r) /\ UNCHANGED <<rows, now>> /\ reqs[r].pc = "count"
    BY <1>9 DEF StepOf, CheckLoop
  <2>2. CASE CountRecentByStatus(r) > LoopLimit
    <3>1. reqs' = [reqs EXCEPT ![r].pc = "flag"]
      BY <1>9, <2>2 DEF CheckLoop
    <3>2. Checking(r, e) => Checking(r, e)'
      BY <3>1 DEF Checking, Typed
    <3> QED BY <1>4, <2>1, <3>2
  <2>3. CASE ~ (CountRecentByStatus(r) > LoopLimit) /\ reqs[r].env = e
    <3>1. ~ (Cardinality(RecentlyBlocked(e)) > LoopLimit)
      BY <2>3, Counted
    <3>2. RecentlyBlocked(e)' = RecentlyBlocked(e)
      BY <2>1 DEF RecentlyBlocked, Blocked, Recent
    <3> QED BY <3>1, <3>2, Zenon DEF Looping
  <2>4. CASE reqs[r].env # e
    BY <1>4, <2>1, <2>4 DEF Checking
  <2> QED BY <2>2, <2>3, <2>4
<1>10. ASSUME NEW r \in Requests,
              \/ \E d \in Envelopes, status \in Reported, key \in Keys : Committed(r, d, status, key)
              \/ \E s \in Sessions, kind \in {"decision", "steer"}, key \in Keys \cup {None} :
                   MessageStored(r, s, kind, key)
              \/ FireDecision(r) \/ StatementFails(r)
       PROVE  Looping(e)'
  <2>1. StepOf(r)
    BY <1>10, Zenon DEF StepOf
  <2>2. UNCHANGED <<rows, now>> /\ ~ Checking(r, e)
    BY <1>10, FailuresAssumption
       DEF Committed, MessageStored, FireDecision, StatementFails, Checking, Quiet
  <2> QED BY <1>4, <2>1, <2>2
<1>11. ASSUME NEW r \in Requests, FireStatus(r)
       PROVE  Looping(e)'
  <2>1. StepOf(r) /\ UNCHANGED <<rows, now>> /\ reqs[r].pc = "fire"
    BY <1>11 DEF StepOf, FireStatus
  <2>2. Checking(r, e) => Checking(r, e)'
    <3>1. CASE reqs[r].status = "blocked"
      <4>1. reqs' = [reqs EXCEPT ![r].pc = "count"]
        BY <1>11, <3>1 DEF FireStatus
      <4>2. reqs[r] \in Update
        BY <2>1, Shapes
      <4>3. reqs'[r].env = reqs[r].env /\ reqs'[r].pc = "count" /\ reqs'[r].status = reqs[r].status
        BY <4>1, <4>2 DEF Typed, Update
      <4> QED BY <3>1, <4>3 DEF Checking
    <3>2. CASE reqs[r].status # "blocked"
      BY <2>1, <3>2 DEF Checking
    <3> QED BY <3>1, <3>2
  <2> QED BY <1>4, <2>1, <2>2
<1> QED BY <1>2, <1>3, <1>6, <1>7, <1>8, <1>9, <1>10, <1>11 DEF Next


\* Rows come from the three statements that insert them, one at a time.
LEMMA NewRow ==
  ASSUME Typed, [Next]_vars, NEW n \in DOMAIN rows', n \notin DOMAIN rows
  PROVE  \E r \in Requests : \E status :
           /\ \/ Notify(r) /\ status = reqs[r].status
              \/ NotifyMessage(r) /\ status = "session_message"
              \/ FlagLoop(r) /\ status = "loop_detected"
           /\ n = Len(rows) + 1
           /\ rows'[n].env = reqs[r].env /\ rows'[n].status = status /\ rows'[n].at = now
<1>1. UNCHANGED rows => n \in DOMAIN rows
  OBVIOUS
<1>2. \A ids : Acknowledge(ids) => n \in DOMAIN rows
  <2>1. \A ids : Acknowledge(ids) => DOMAIN rows' = DOMAIN rows
    BY DEF Acknowledge
  <2> QED BY <2>1
<1>3. PICK r \in Requests : Notify(r) \/ NotifyMessage(r) \/ FlagLoop(r)
  BY <1>1, <1>2 DEF Next, Committed, MessageStored, FireStatus, FireDecision, CheckLoop, StatementFails,
                    AckOne, BulkAcknowledge, Tick, vars
<1>4. ASSUME NEW status, Insert(r, status),
             \/ reqs[r].pc \in {"insert", "flag"} /\ status \in Reported \cup {"loop_detected"}
             \/ reqs[r].pc = "message" /\ status = "session_message"
      PROVE  /\ n = Len(rows) + 1
             /\ rows'[n].env = reqs[r].env /\ rows'[n].status = status /\ rows'[n].at = now
  <2>1. [env |-> reqs[r].env, status |-> status, key |-> reqs[r].key, at |-> now, acked |-> FALSE]
          \in Notification
    BY <1>4, RowFits
  <2>2. /\ DOMAIN rows' = DOMAIN rows \cup {Len(rows) + 1}
        /\ rows'[Len(rows) + 1].env = reqs[r].env /\ rows'[Len(rows) + 1].status = status
        /\ rows'[Len(rows) + 1].at = now
    BY <1>4, <2>1, Inserted
  <2>3. n = Len(rows) + 1
    BY <2>2
  <2> QED BY <2>2, <2>3, Zenon
<1>5. CASE Notify(r)
  <2>1. Insert(r, reqs[r].status) /\ reqs[r].pc = "insert"
    BY <1>5 DEF Notify
  <2>2. reqs[r].status \in Reported \cup {"loop_detected"}
    BY <2>1, Shapes DEF Update
  <2> QED BY <1>4, <1>5, <2>1, <2>2
<1>6. CASE NotifyMessage(r)
  <2>1. Insert(r, "session_message") /\ reqs[r].pc = "message"
    BY <1>6 DEF NotifyMessage
  <2> QED BY <1>4, <1>6, <2>1
<1>7. CASE FlagLoop(r)
  <2>1. Insert(r, "loop_detected") /\ reqs[r].pc = "flag"
    BY <1>7 DEF FlagLoop
  <2> QED BY <1>4, <1>7, <2>1
<1> QED BY <1>3, <1>5, <1>6, <1>7

LEMMA Clock ==
  ASSUME Typed, [Next]_vars
  PROVE  now \in Nat /\ now' \in {now, now + 1}
<1>1. now \in Nat
  BY BoundsAssumption DEF Typed, TypeOK
<1>2. now' \in {now, now + 1}
  BY DEF Next, Committed, MessageStored, Notify, NotifyMessage, FireStatus, FireDecision, CheckLoop,
         FlagLoop, StatementFails, AckOne, BulkAcknowledge, Tick, vars
<1> QED BY <1>1, <1>2

\* Only the count makes a request flag a loop.
LEMMA OnlyCheckFlags ==
  ASSUME Typed, NEW r \in Requests, StepOf(r), reqs'[r].pc = "flag"
  PROVE  /\ CheckLoop(r) /\ CountRecentByStatus(r) > LoopLimit
         /\ reqs' = [reqs EXCEPT ![r].pc = "flag"]
<1>1. DOMAIN reqs = Requests
  BY DEF Typed
<1>2. ASSUME NEW req, reqs' = [reqs EXCEPT ![r] = req], req.pc # "flag"
      PROVE  FALSE
  BY <1>1, <1>2
<1>3. ~ Done(r)
  <2>1. Quiet.pc # "flag"
    BY DEF Quiet
  <2> QED BY <1>2, <2>1, Zenon DEF Done
<1>4. ASSUME NEW pc, reqs' = [reqs EXCEPT ![r].pc = pc], reqs[r] \in Update \cup Post
      PROVE  pc = "flag"
  BY <1>1, <1>4 DEF Update, Post
<1>5. ~ \E e \in Envelopes, status \in Reported, key \in Keys : Committed(r, e, status, key)
  BY <1>1 DEF Committed
<1>6. ~ \E s \in Sessions, kind \in {"decision", "steer"}, key \in Keys \cup {None} :
          MessageStored(r, s, kind, key)
  BY <1>1 DEF MessageStored
<1>7. ~ Notify(r) /\ ~ NotifyMessage(r)
  BY <1>4, Shapes DEF Notify, NotifyMessage
<1>8. ~ FireStatus(r) /\ ~ FireDecision(r)
  BY <1>3, <1>4, Shapes DEF FireStatus, FireDecision
<1>9. ~ FlagLoop(r)
  <2>1. FlagLoop(r) => reqs'[r].pc = "fire"
    BY <1>1, Shapes DEF FlagLoop, Update
  <2> QED BY <2>1
<1>10. ~ StatementFails(r)
  BY <1>3, <1>4, Shapes DEF StatementFails
<1>11. CheckLoop(r)
  BY <1>5, <1>6, <1>7, <1>8, <1>9, <1>10 DEF StepOf
<1> QED BY <1>3, <1>11 DEF CheckLoop

\* What is recent now is recent at the time now, before the next row.
LEMMA RecentNow ==
  ASSUME Typed, Seen, NEW e
  PROVE  RecentAt(e, Len(rows) + 1, now) = RecentlyBlocked(e)
<1>1. now \in Nat /\ rows \in Seq(Notification)
  BY BoundsAssumption DEF Typed, TypeOK
<1>2. ASSUME NEW n \in DOMAIN rows
      PROVE  /\ n < Len(rows) + 1 /\ rows[n].at <= now
             /\ now < rows[n].at + Window <=> rows[n].at + Window > now
  <2>1. rows[n].at \in Nat /\ Window \in Nat
    <3>1. rows[n] \in Notification
      BY <1>1
    <3> QED BY <3>1, BoundsAssumption DEF Notification
  <2> QED BY <1>1, <2>1 DEF Seen
<1> QED BY <1>2 DEF RecentAt, RecentlyBlocked, Blocked, Recent

\* The step at which a request decides to flag a loop sees it, and others only
\* keep what was seen.
LEMMA SeenKeeps ==
  ASSUME Typed, Typed', [Next]_vars, Seen
  PROVE  Seen'
<1>1. ASSUME NEW n \in DOMAIN rows'
      PROVE  rows'[n].at <= now'
  <2>1. CASE n \in DOMAIN rows
    <3>1. rows'[n].at = rows[n].at /\ rows[n].at <= now
      BY <2>1, RowsStay DEF Seen, Kept
    <3>2. rows[n].at \in Nat
      <4>1. rows[n] \in Notification
        BY <2>1 DEF Typed, TypeOK
      <4> QED BY <4>1, BoundsAssumption DEF Notification
    <3> QED BY <3>1, <3>2, Clock
  <2>2. CASE n \notin DOMAIN rows
    <3>1. rows'[n].at = now
      BY <2>2, NewRow
    <3> QED BY <3>1, Clock
  <2> QED BY <2>1, <2>2
<1>2. /\ rows \in Seq(Notification) /\ rows' \in Seq(Notification)
      /\ Len(rows') \in {Len(rows), Len(rows) + 1}
  BY RowsStay DEF Typed, TypeOK
<1>3. ASSUME NEW e, NEW k \in 1..Len(rows) + 1, NEW t \in 0..now,
             Cardinality(RecentAt(e, k, t)) > LoopLimit
      PROVE  \E l \in 1..Len(rows') + 1, u \in 0..now' : Cardinality(RecentAt(e, l, u)') > LoopLimit
  <2>1. RecentAt(e, k, t)' = RecentAt(e, k, t)
    BY RecentAtStays
  <2>2. k \in 1..Len(rows') + 1
    BY <1>2
  <2>3. t \in 0..now'
    BY Clock
  <2> QED BY <1>3, <2>1, <2>2, <2>3
<1>4. ASSUME NEW r \in Requests, NEW e, e = reqs'[r].env, reqs'[r].pc = "flag"
      PROVE  \E l \in 1..Len(rows') + 1, u \in 0..now' : Cardinality(RecentAt(e, l, u)') > LoopLimit
  <2>1. CASE reqs'[r] = reqs[r]
    BY <1>3, <1>4, <2>1 DEF Seen
  <2>2. CASE reqs'[r] # reqs[r]
    <3>1. StepOf(r)
      <4>1. PICK q \in Requests : StepOf(q)
        BY <2>2 DEF Next, StepOf, AckOne, BulkAcknowledge, Tick, vars
      <4> QED BY <2>2, <4>1, OthersStay
    <3>2. /\ CheckLoop(r) /\ CountRecentByStatus(r) > LoopLimit
          /\ reqs' = [reqs EXCEPT ![r].pc = "flag"]
      BY <1>4, <3>1, OnlyCheckFlags
    <3>3. reqs[r].env = e
      BY <1>4, <3>2, Shapes DEF CheckLoop, Typed, Update
    <3>4. RecentAt(e, Len(rows) + 1, now) = RecentlyBlocked(e)
      BY RecentNow
    <3>5. Cardinality(RecentAt(e, Len(rows) + 1, now)) > LoopLimit
      BY <3>2, <3>3, <3>4, Counted, Zenon
    <3>6. now \in 0..now /\ Len(rows) + 1 \in 1..Len(rows) + 1
      BY <1>2, Clock
    <3> QED BY <1>3, <3>5, <3>6
  <2> QED BY <2>1, <2>2
<1>5. \A r \in Requests : reqs'[r].pc = "flag" =>
        \E l \in 1..Len(rows') + 1, u \in 0..now' : Cardinality(RecentAt(reqs[r].env, l, u)') > LoopLimit
  BY <1>4
<1> QED BY <1>1, <1>5 DEF Seen

\* No update reports loop_detected, and no message either.
LEMMA FlagsOnly ==
  ASSUME Typed, NEW r \in Requests, Notify(r), reqs[r].status = "loop_detected"
  PROVE  FALSE
BY ReportedAssumption DEF Notify, Typed, Fits, InterestingStatuses

\* A flag is stored by a request that has seen a loop; later rows come after it.
LEMMA FlagKeeps ==
  ASSUME Typed, Typed', [Next]_vars, Seen, FlagIsEarned
  PROVE  FlagIsEarned'
<1>1. SUFFICES ASSUME NEW f \in DOMAIN rows', NEW e, NEW at,
                      rows'[f].status = "loop_detected", e = rows'[f].env, at = rows'[f].at
               PROVE  \E t \in 0..at : Cardinality(RecentAt(e, f, t)') > LoopLimit
  BY DEF FlagIsEarned, RecentAt
<1>2. CASE f \in DOMAIN rows
  <2>1. rows[f].status = "loop_detected" /\ rows[f].env = e /\ rows[f].at = at
    BY <1>1, <1>2, RowsStay DEF Kept
  <2>2. PICK t \in 0..at : Cardinality(RecentAt(e, f, t)) > LoopLimit
    BY <1>2, <2>1 DEF FlagIsEarned, RecentAt
  <2>3. f \in 1..Len(rows) + 1
    BY <1>2 DEF Typed, TypeOK
  <2>4. RecentAt(e, f, t)' = RecentAt(e, f, t)
    BY <2>3, RecentAtStays
  <2> QED BY <2>2, <2>4
<1>3. CASE f \notin DOMAIN rows
  <2>1. PICK r \in Requests :
          FlagLoop(r) /\ f = Len(rows) + 1 /\ reqs[r].env = e /\ at = now
    BY <1>1, <1>3, NewRow, FlagsOnly
  <2>2. PICK k \in 1..Len(rows) + 1, t \in 0..now : Cardinality(RecentAt(e, k, t)) > LoopLimit
    BY <2>1 DEF Seen, FlagLoop
  <2>3. f \in 1..Len(rows) + 1 /\ k <= f /\ rows \in Seq(Notification)
    BY <2>1 DEF Typed, TypeOK
  <2>4. RecentAt(e, k, t) \subseteq RecentAt(e, f, t) /\ RecentAt(e, f, t) \subseteq DOMAIN rows
    BY <2>3 DEF RecentAt, Blocked
  <2>5. Cardinality(RecentAt(e, f, t)) > LoopLimit
    BY <2>2, <2>4, FewerRows, BoundsAssumption
  <2>6. RecentAt(e, f, t)' = RecentAt(e, f, t)
    BY <2>3, RecentAtStays
  <2> QED BY <2>1, <2>5, <2>6
<1> QED BY <1>2, <1>3
-----------------------------------------------------------------------------
(* Alerts *)

\* Of a kind that is reported, what is stored is what has been fired and what
\* is about to be.
Agree(e, status) ==
  Cardinality(Stored(e, status)) = Alerted(e, status) + Cardinality(Due({"fire"}, e, status))

LEMMA DueIsFinite ==
  ASSUME NEW pcs, NEW e, NEW status
  PROVE  IsFiniteSet(Due(pcs, e, status)) /\ Cardinality(Due(pcs, e, status)) \in Nat
<1>1. Due(pcs, e, status) \subseteq Requests
  BY DEF Due
<1> QED BY <1>1, RequestsAssumption, FS_Subset, FS_CardinalityType

LEMMA StoredIsFinite ==
  ASSUME Typed, NEW e, NEW status
  PROVE  IsFiniteSet(Stored(e, status)) /\ Cardinality(Stored(e, status)) \in Nat
<1>1. Stored(e, status) \subseteq DOMAIN rows
  BY DEF Stored
<1> QED BY <1>1, RowsAreFinite

\* Without a new row of the kind the stored ones are the same.
LEMMA StoredStays ==
  ASSUME Typed, [Next]_vars, NEW e, NEW status,
         \A n \in DOMAIN rows' \ DOMAIN rows : ~ (rows'[n].env = e /\ rows'[n].status = status)
  PROVE  Stored(e, status)' = Stored(e, status)
<1>1. \A n \in DOMAIN rows : Kept(n)
  BY RowsStay
<1>2. \A n : n \in Stored(e, status)' <=> n \in Stored(e, status)
  BY <1>1 DEF Stored, Kept
<1> QED BY <1>2

\* With one it is one more.
LEMMA StoredGrows ==
  ASSUME Typed, [Next]_vars, NEW e, NEW status, NEW n \in DOMAIN rows', n \notin DOMAIN rows,
         DOMAIN rows' = DOMAIN rows \cup {n}, rows'[n].env = e, rows'[n].status = status
  PROVE  Cardinality(Stored(e, status)') = Cardinality(Stored(e, status)) + 1
<1>1. \A m \in DOMAIN rows : Kept(m)
  BY RowsStay
<1>2. \A m : m \in Stored(e, status)' <=> m \in Stored(e, status) \cup {n}
  BY <1>1 DEF Stored, Kept
<1>3. Stored(e, status)' = Stored(e, status) \cup {n} /\ n \notin Stored(e, status)
  BY <1>2 DEF Stored
<1> QED BY <1>3, StoredIsFinite, FS_AddElement

\* A request's step moves only that request in and out of those an alert is due for.
LEMMA DueMoves ==
  ASSUME Typed, Typed', NEW r \in Requests, StepOf(r), NEW pcs, NEW e, NEW status
  PROVE  /\ (r \in Due(pcs, e, status)' <=> r \in Due(pcs, e, status))
              => Due(pcs, e, status)' = Due(pcs, e, status)
         /\ r \in Due(pcs, e, status)' /\ r \notin Due(pcs, e, status)
              => Cardinality(Due(pcs, e, status)') = Cardinality(Due(pcs, e, status)) + 1
         /\ r \notin Due(pcs, e, status)' /\ r \in Due(pcs, e, status)
              => Cardinality(Due(pcs, e, status)) = Cardinality(Due(pcs, e, status)') + 1
<1> DEFINE D == Due(pcs, e, status)
<1>1. \A q \in Requests \ {r} : reqs'[q] = reqs[q]
  BY OthersStay
<1>2. \A q : q # r => (q \in D' <=> q \in D)
  BY <1>1 DEF Due
<1>3. IsFiniteSet(D) /\ IsFiniteSet(D') /\ Cardinality(D) \in Nat /\ Cardinality(D') \in Nat
  <2>1. IsFiniteSet(D) /\ Cardinality(D) \in Nat
    BY DueIsFinite
  <2>2. IsFiniteSet(D)' /\ (Cardinality(D) \in Nat)'
    <3>1. D' \subseteq Requests
      BY DEF Due
    <3> QED BY <3>1, RequestsAssumption, FS_Subset, FS_CardinalityType
  <2> QED BY <2>1, <2>2
<1> HIDE DEF D
<1>4. CASE r \in D' <=> r \in D
  <2>1. D' = D
    BY <1>2, <1>4
  <2> QED BY <1>4, <2>1 DEF D
<1>5. CASE r \in D' /\ r \notin D
  <2>1. D' = D \cup {r}
    BY <1>2, <1>5
  <2>2. Cardinality(D') = Cardinality(D) + 1
    BY <1>3, <1>5, <2>1, FS_AddElement
  <2> QED BY <1>5, <2>2 DEF D
<1>6. CASE r \notin D' /\ r \in D
  <2>1. D = D' \cup {r}
    BY <1>2, <1>6
  <2>2. Cardinality(D) = Cardinality(D') + 1
    BY <1>3, <1>6, <2>1, FS_AddElement
  <2> QED BY <1>6, <2>2 DEF D
<1> QED BY <1>4, <1>5, <1>6

\* The row and the request that is to fire for it come in one step, the alert
\* and the end of the request's wait in another; no other step changes either.
LEMMA AgreeKeeps ==
  ASSUME Typed, Typed', [Next]_vars,
         NEW e \in Envelopes, NEW status \in Reported \cup {"loop_detected"}, Agree(e, status)
  PROVE  Agree(e, status)'
<1> DEFINE D == Due({"fire"}, e, status)
<1>1. /\ Alerted(e, status) \in Nat /\ Cardinality(D) \in Nat
      /\ Cardinality(Stored(e, status)) \in Nat /\ Cardinality(D') \in Nat
  <2>1. (Cardinality(D) \in Nat)'
    <3>1. D' \subseteq Requests
      BY DEF Due
    <3> QED BY <3>1, RequestsAssumption, FS_Subset, FS_CardinalityType
  <2> QED BY <2>1, AlertCounts, StoredIsFinite, DueIsFinite
<1>2. status \notin {"session_message", "session_decision"}
  BY ReportedAssumption DEF InterestingStatuses
<1>3. ASSUME UNCHANGED alerts, D' = D,
             \A n \in DOMAIN rows' \ DOMAIN rows : ~ (rows'[n].env = e /\ rows'[n].status = status)
      PROVE  Agree(e, status)'
  <2>1. Stored(e, status)' = Stored(e, status)
    BY <1>3, StoredStays
  <2>2. Alerted(e, status)' = Alerted(e, status)
    BY <1>3 DEF Alerted
  <2> QED BY <1>3, <2>1, <2>2 DEF Agree
<1>4. CASE \/ \E n \in DOMAIN rows, key \in Keys : AckOne(n, key)
           \/ \E ids \in BulkIds, key \in Keys : BulkAcknowledge(ids, key)
           \/ Tick \/ UNCHANGED vars
  <2>1. UNCHANGED <<reqs, alerts>> /\ (UNCHANGED rows \/ \E ids : Acknowledge(ids))
    BY <1>4 DEF AckOne, BulkAcknowledge, Tick, vars
  <2>2. DOMAIN rows' = DOMAIN rows
    BY <2>1 DEF Acknowledge
  <2>3. D' = D
    BY <2>1 DEF Due
  <2> QED BY <1>3, <2>1, <2>2, <2>3
\* Steps that neither store a row of the kind nor fire an alert of it.
<1>5. ASSUME NEW r \in Requests, StepOf(r), UNCHANGED alerts, r \in D' <=> r \in D,
             \A n \in DOMAIN rows' \ DOMAIN rows : ~ (rows'[n].env = e /\ rows'[n].status = status)
      PROVE  Agree(e, status)'
  BY <1>3, <1>5, DueMoves
<1>6. ASSUME NEW r \in Requests, NEW new, new = reqs'[r].status, StepOf(r), UNCHANGED alerts,
             Insert(r, new), reqs[r].pc \in {"insert", "flag"}, reqs'[r].pc = "fire",
             reqs'[r].env = reqs[r].env, new \in Reported \cup {"loop_detected"}
      PROVE  Agree(e, status)'
  <2> DEFINE n == Len(rows) + 1
  <2>1. /\ DOMAIN rows' = DOMAIN rows \cup {n} /\ n \notin DOMAIN rows
        /\ rows'[n].env = reqs[r].env /\ rows'[n].status = new
    BY <1>6, RowFits, Inserted
  <2> HIDE DEF n
  <2>2. r \notin D
    BY <1>6 DEF Due
  <2>3. CASE reqs[r].env = e /\ new = status
    <3>1. Cardinality(Stored(e, status)') = Cardinality(Stored(e, status)) + 1
      BY <2>1, <2>3, StoredGrows
    <3>2. r \in D'
      BY <1>6, <2>3 DEF Due
    <3>3. Cardinality(D') = Cardinality(D) + 1
      BY <1>6, <2>2, <3>2, DueMoves
    <3>4. Alerted(e, status)' = Alerted(e, status)
      BY <1>6 DEF Alerted
    <3> QED BY <1>1, <3>1, <3>3, <3>4 DEF Agree
  <2>4. CASE ~ (reqs[r].env = e /\ new = status)
    <3>1. r \notin D'
      BY <1>6, <2>4 DEF Due
    <3> QED BY <1>5, <1>6, <2>1, <2>2, <2>4, <3>1
  <2> QED BY <2>3, <2>4
<1>7. ASSUME NEW r \in Requests, Notify(r)
      PROVE  Agree(e, status)'
  <2>1. reqs' = [reqs EXCEPT ![r].pc = "fire"] /\ reqs[r] \in Update
        /\ StepOf(r) /\ UNCHANGED alerts /\ Insert(r, reqs[r].status) /\ reqs[r].pc = "insert"
    BY <1>7, Shapes DEF Notify, StepOf
  <2>2. /\ reqs'[r].pc = "fire" /\ reqs'[r].env = reqs[r].env /\ reqs'[r].status = reqs[r].status
        /\ reqs[r].status \in Reported \cup {"loop_detected"}
    BY <2>1 DEF Typed, Update
  <2> QED BY <1>6, <2>1, <2>2
<1>8. ASSUME NEW r \in Requests, FlagLoop(r)
      PROVE  Agree(e, status)'
  <2>1. /\ reqs' = [reqs EXCEPT ![r].pc = "fire", ![r].status = "loop_detected"] /\ reqs[r] \in Update
        /\ StepOf(r) /\ UNCHANGED alerts /\ Insert(r, "loop_detected") /\ reqs[r].pc = "flag"
    BY <1>8, Shapes DEF FlagLoop, StepOf
  <2>2. reqs'[r].pc = "fire" /\ reqs'[r].env = reqs[r].env /\ reqs'[r].status = "loop_detected"
    BY <2>1 DEF Typed, Update
  <2> QED BY <1>6, <2>1, <2>2
<1>9. ASSUME NEW r \in Requests, NotifyMessage(r)
      PROVE  Agree(e, status)'
  <2>1. /\ StepOf(r) /\ UNCHANGED alerts /\ Insert(r, "session_message") /\ reqs[r].pc = "message"
        /\ reqs' = [reqs EXCEPT ![r].pc = "decide"]
    BY <1>9 DEF NotifyMessage, StepOf
  <2>2. /\ DOMAIN rows' = DOMAIN rows \cup {Len(rows) + 1} /\ Len(rows) + 1 \notin DOMAIN rows
        /\ rows'[Len(rows) + 1].status = "session_message"
    BY <2>1, RowFits, Inserted
  <2>3. reqs'[r].pc = "decide"
    BY <2>1, Shapes DEF Typed, Post
  <2>4. r \notin D /\ r \notin D'
    BY <2>1, <2>3 DEF Due
  <2> QED BY <1>2, <1>5, <2>1, <2>2, <2>4
<1>10. ASSUME NEW r \in Requests, FireStatus(r)
       PROVE  Agree(e, status)'
  <2>1. StepOf(r) /\ UNCHANGED rows /\ Fire(r, reqs[r].status) /\ reqs[r].pc = "fire"
    BY <1>10 DEF FireStatus, StepOf
  <2>2. reqs'[r].pc # "fire"
    BY <1>10, Shapes DEF FireStatus, Done, Quiet, Typed, Update
  <2>3. r \notin D'
    BY <2>2 DEF Due
  <2>4. Alerted(e, status)' =
          Alerted(e, status) + IF reqs[r].env = e /\ reqs[r].status = status THEN 1 ELSE 0
    BY <2>1, Fired
  <2>5. Stored(e, status)' = Stored(e, status)
    BY <2>1 DEF Stored
  <2>6. CASE reqs[r].env = e /\ reqs[r].status = status
    <3>1. r \in D
      BY <2>1, <2>6 DEF Due
    <3>2. Cardinality(D) = Cardinality(D') + 1
      BY <2>1, <2>3, <3>1, DueMoves
    <3> QED BY <1>1, <2>4, <2>5, <2>6, <3>2 DEF Agree
  <2>7. CASE ~ (reqs[r].env = e /\ reqs[r].status = status)
    <3>1. D' = D
      <4>1. r \notin D
        BY <2>7 DEF Due
      <4> QED BY <2>1, <2>3, <4>1, DueMoves
    <3> QED BY <1>1, <2>4, <2>5, <2>7, <3>1 DEF Agree
  <2> QED BY <2>6, <2>7
<1>11. ASSUME NEW r \in Requests, FireDecision(r)
       PROVE  Agree(e, status)'
  <2>1. StepOf(r) /\ UNCHANGED rows /\ reqs[r].pc = "decide" /\ reqs' = [reqs EXCEPT ![r] = Quiet]
    BY <1>11 DEF FireDecision, StepOf, Done
  <2>2. r \notin D /\ r \notin D'
    BY <2>1 DEF Due, Quiet, Typed
  <2>3. CASE UNCHANGED alerts
    BY <1>5, <2>1, <2>2, <2>3
  <2>4. CASE Fire(r, "session_decision")
    <3>1. Alerted(e, status)' = Alerted(e, status)
      BY <1>1, <1>2, <2>4, Fired
    <3>2. D' = D
      BY <2>1, <2>2, DueMoves
    <3>3. Stored(e, status)' = Stored(e, status)
      BY <2>1 DEF Stored
    <3> QED BY <3>1, <3>2, <3>3 DEF Agree
  <2> QED BY <1>11, <2>3, <2>4 DEF FireDecision
<1>12. ASSUME NEW r \in Requests,
              \/ \E d \in Envelopes, s \in Reported, key \in Keys : Committed(r, d, s, key)
              \/ \E s \in Sessions, kind \in {"decision", "steer"}, key \in Keys \cup {None} :
                   MessageStored(r, s, kind, key)
              \/ CheckLoop(r) \/ StatementFails(r)
       PROVE  Agree(e, status)'
  <2>1. StepOf(r)
    BY <1>12, Zenon DEF StepOf
  <2>2. UNCHANGED <<rows, alerts>> /\ reqs[r].pc # "fire"
    BY <1>12, FailuresAssumption DEF Committed, MessageStored, CheckLoop, StatementFails, Quiet
  <2>3. reqs'[r].pc # "fire"
    BY <1>12, FailuresAssumption, Shapes
       DEF Committed, MessageStored, CheckLoop, StatementFails, Done, Quiet, Typed, Update, Post
  <2>4. r \notin D /\ r \notin D'
    BY <2>2, <2>3 DEF Due
  <2> QED BY <1>5, <2>1, <2>2, <2>4
<1> QED BY <1>4, <1>7, <1>8, <1>9, <1>10, <1>11, <1>12 DEF Next

\* The decisions of session s that have been posted are the ones alerted and the
\* ones whose handler is still to come to its alert.
Told(s) ==
  posted[s] = Alerted(s, "session_decision")
                + Cardinality(Due({"message", "decide"}, s, "decision"))

LEMMA ToldKeeps ==
  ASSUME Typed, Typed', [Next]_vars, NEW s \in Sessions, Told(s)
  PROVE  Told(s)'
<1> DEFINE D == Due({"message", "decide"}, s, "decision")
<1>1. /\ Alerted(s, "session_decision") \in Nat /\ Cardinality(D) \in Nat /\ Cardinality(D') \in Nat
      /\ posted \in [Sessions -> 0..MaxPosted] /\ DOMAIN reqs = Requests
  <2>1. (Cardinality(D) \in Nat)'
    <3>1. D' \subseteq Requests
      BY DEF Due
    <3> QED BY <3>1, RequestsAssumption, FS_Subset, FS_CardinalityType
  <2> QED BY <2>1, AlertCounts, DueIsFinite DEF Typed, TypeOK
<1>2. ASSUME UNCHANGED posted, Alerted(s, "session_decision")' = Alerted(s, "session_decision"), D' = D
      PROVE  Told(s)'
  BY <1>2 DEF Told
<1>3. CASE \/ \E n \in DOMAIN rows, key \in Keys : AckOne(n, key)
           \/ \E ids \in BulkIds, key \in Keys : BulkAcknowledge(ids, key)
           \/ Tick \/ UNCHANGED vars
  <2>1. UNCHANGED <<reqs, alerts, posted>>
    BY <1>3 DEF AckOne, BulkAcknowledge, Tick, vars
  <2> QED BY <1>2, <2>1 DEF Due, Alerted
<1>4. ASSUME NEW r \in Requests, StepOf(r), UNCHANGED <<alerts, posted>>, r \in D' <=> r \in D
      PROVE  Told(s)'
  BY <1>2, <1>4, DueMoves DEF Alerted
<1>5. ASSUME NEW r \in Requests, NEW d \in Sessions, NEW kind, NEW key \in Keys \cup {None},
             kind \in {"decision", "steer"}, MessageStored(r, d, kind, key)
      PROVE  Told(s)'
  <2>1. StepOf(r) /\ UNCHANGED alerts /\ reqs[r].pc = "quiet"
    <3>1. StepOf(r)
      BY <1>5, Zenon DEF StepOf
    <3> QED BY <1>5, <3>1 DEF MessageStored, Quiet
  <2>2. /\ reqs'[r].pc \in {"message", "decide"} /\ reqs'[r].env = d /\ reqs'[r].status = kind
        /\ posted' = IF kind = "decision" THEN [posted EXCEPT ![d] = @ + 1] ELSE posted
    BY <1>1, <1>5 DEF MessageStored
  <2>3. r \notin D
    BY <2>1 DEF Due
  <2>4. CASE kind = "decision" /\ d = s
    <3>1. r \in D'
      BY <2>2, <2>4 DEF Due
    <3>2. Cardinality(D') = Cardinality(D) + 1
      BY <2>1, <2>3, <3>1, DueMoves
    <3>3. posted'[s] = posted[s] + 1
      BY <1>1, <2>2, <2>4
    <3> QED BY <1>1, <2>1, <3>2, <3>3 DEF Told, Alerted
  <2>5. CASE ~ (kind = "decision" /\ d = s)
    <3>1. r \notin D'
      BY <2>2, <2>5 DEF Due
    <3>2. D' = D
      BY <2>1, <2>3, <3>1, DueMoves
    <3>3. posted'[s] = posted[s]
      BY <1>1, <2>2, <2>5
    <3> QED BY <2>1, <3>2, <3>3 DEF Told, Alerted
  <2> QED BY <2>4, <2>5
<1>6. ASSUME NEW r \in Requests,
             \/ \E e \in Envelopes, status \in Reported, key \in Keys : Committed(r, e, status, key)
             \/ Notify(r) \/ CheckLoop(r) \/ FlagLoop(r) \/ (StatementFails(r) /\ reqs[r].pc # "message")
      PROVE  Told(s)'
  <2>1. StepOf(r) /\ UNCHANGED <<alerts, posted>>
    BY <1>6 DEF StepOf, Committed, Notify, CheckLoop, FlagLoop, StatementFails
  <2>2. reqs[r].pc \notin {"message", "decide"}
    BY <1>6, FailuresAssumption DEF Committed, Notify, CheckLoop, FlagLoop, StatementFails, Quiet
  <2>3. reqs'[r].pc \notin {"message", "decide"}
    BY <1>1, <1>6, FailuresAssumption, Shapes
       DEF Committed, Notify, CheckLoop, FlagLoop, StatementFails, Done, Quiet, Update, Post
  <2>4. r \notin D /\ r \notin D'
    BY <2>2, <2>3 DEF Due
  <2> QED BY <1>4, <2>1, <2>4
<1>7. ASSUME NEW r \in Requests, NotifyMessage(r) \/ (StatementFails(r) /\ reqs[r].pc = "message")
      PROVE  Told(s)'
  <2>1. /\ StepOf(r) /\ UNCHANGED <<alerts, posted>> /\ reqs[r].pc = "message"
        /\ reqs' = [reqs EXCEPT ![r].pc = "decide"]
    BY <1>7 DEF StepOf, NotifyMessage, StatementFails
  <2>2. reqs'[r].pc = "decide" /\ reqs'[r].env = reqs[r].env /\ reqs'[r].status = reqs[r].status
    BY <1>1, <2>1, Shapes DEF Post
  <2>3. r \in D' <=> r \in D
    BY <2>1, <2>2 DEF Due
  <2> QED BY <1>4, <2>1, <2>3
<1>8. ASSUME NEW r \in Requests, FireStatus(r)
      PROVE  Told(s)'
  <2>1. /\ StepOf(r) /\ UNCHANGED posted /\ Fire(r, reqs[r].status) /\ reqs[r].pc = "fire"
        /\ reqs[r].status \in Reported \cup {"loop_detected"}
    BY <1>8, Shapes DEF FireStatus, StepOf, Update
  <2>2. reqs'[r].pc \notin {"message", "decide"}
    BY <1>1, <1>8, Shapes DEF FireStatus, Done, Quiet, Update
  <2>3. Alerted(s, "session_decision")' = Alerted(s, "session_decision")
    <3>1. reqs[r].status # "session_decision"
      BY <2>1, ReportedAssumption DEF InterestingStatuses
    <3> QED BY <1>1, <2>1, <3>1, Fired
  <2>4. r \notin D /\ r \notin D'
    BY <2>1, <2>2 DEF Due
  <2>5. D' = D
    BY <2>1, <2>4, DueMoves
  <2> QED BY <1>2, <2>1, <2>3, <2>5
<1>9. ASSUME NEW r \in Requests, FireDecision(r)
      PROVE  Told(s)'
  <2>1. /\ StepOf(r) /\ UNCHANGED posted /\ reqs[r].pc = "decide" /\ reqs'[r] = Quiet
        /\ IF reqs[r].status = "decision" THEN Fire(r, "session_decision") ELSE UNCHANGED alerts
    BY <1>1, <1>9 DEF FireDecision, StepOf, Done
  <2>2. r \notin D' /\ (r \in D <=> reqs[r].env = s /\ reqs[r].status = "decision")
    BY <2>1 DEF Due, Quiet
  <2>3. CASE r \notin D
    <3>1. D' = D
      BY <2>1, <2>2, <2>3, DueMoves
    <3>2. Alerted(s, "session_decision")' = Alerted(s, "session_decision")
      <4>1. CASE reqs[r].status = "decision"
        BY <1>1, <2>1, <2>2, <2>3, <4>1, Fired
      <4>2. CASE reqs[r].status # "decision"
        BY <2>1, <4>2 DEF Alerted
      <4> QED BY <4>1, <4>2
    <3> QED BY <1>2, <2>1, <3>1, <3>2
  <2>4. CASE r \in D
    <3>1. Cardinality(D) = Cardinality(D') + 1
      BY <2>1, <2>2, <2>4, DueMoves
    <3>2. Alerted(s, "session_decision")' = Alerted(s, "session_decision") + 1
      BY <2>1, <2>2, <2>4, Fired
    <3> QED BY <1>1, <2>1, <3>1, <3>2 DEF Told
  <2> QED BY <2>3, <2>4
<1> QED BY <1>3, <1>5, <1>6, <1>7, <1>8, <1>9 DEF Next
-----------------------------------------------------------------------------
(* The theorems *)

LEMMA InitHolds == Init => Seen /\ FlagIsEarned /\ AlertsAgree /\ \A e \in Envelopes : Looping(e)
<1> SUFFICES ASSUME Init
             PROVE  Seen /\ FlagIsEarned /\ AlertsAgree /\ \A e \in Envelopes : Looping(e)
  OBVIOUS
<1>1. DOMAIN rows = {}
  BY DEF Init
<1>2. Seen
  BY <1>1 DEF Init, Seen, Quiet
<1>3. FlagIsEarned
  BY <1>1 DEF FlagIsEarned
<1>4. AlertsAgree
  <2>1. ASSUME NEW pcs \in {{"fire"}, {"message", "decide"}}, NEW e, NEW status
        PROVE  Stored(e, status) = {} /\ Due(pcs, e, status) = {} /\ Alerted(e, status) = 0
    <3>1. Stored(e, status) = {} /\ Due(pcs, e, status) = {}
      BY <1>1 DEF Stored, Due, Init, Quiet
    <3>2. Alerted(e, status) = 0
      BY DEF Alerted, Init, EmptyBag, SetToBag, BagIn, BagToSet
    <3> QED BY <3>1, <3>2
  <2>2. RowsAlerted
    BY <2>1, FS_EmptySet DEF RowsAlerted
  <2>3. DecisionsAlerted
    <3>1. ASSUME NEW s \in Sessions
          PROVE  posted[s] = Alerted(s, "session_decision")
                               + Cardinality(Due({"message", "decide"}, s, "decision"))
      <4>1. posted[s] = 0
        BY DEF Init
      <4>2. Due({"message", "decide"}, s, "decision") = {} /\ Alerted(s, "session_decision") = 0
        BY <2>1
      <4> QED BY <4>1, <4>2, FS_EmptySet
    <3> QED BY <3>1 DEF DecisionsAlerted
  <2> QED BY <2>2, <2>3 DEF AlertsAgree
<1>5. ASSUME NEW e
      PROVE  Looping(e)
  <2>1. RecentlyBlocked(e) = {}
    BY <1>1 DEF RecentlyBlocked, Blocked
  <2>2. ~ (Cardinality(RecentlyBlocked(e)) > LoopLimit)
    BY <2>1, FS_EmptySet, BoundsAssumption
  <2> QED BY <2>2 DEF Looping
<1> QED BY <1>2, <1>3, <1>4, <1>5

LEMMA FlaggedOrNot == LoopsInv => LoopIsFlagged
<1> SUFFICES ASSUME LoopsInv, NEW e \in Envelopes,
                    Cardinality({n \in Blocked(e) : Recent(n)}) > LoopLimit,
                    \A r \in Requests : reqs[r].env # e
             PROVE  \E f \in DOMAIN rows :
                      /\ rows[f].env = e /\ rows[f].status = "loop_detected"
                      /\ \A n \in {m \in Blocked(e) : Recent(m)} : n < f
  BY DEF LoopIsFlagged
<1>1. ~ \E r \in Requests : Checking(r, e)
  BY DEF Checking
<1>2. Looping(e)
  BY DEF LoopsInv
<1> QED BY <1>1, <1>2 DEF Looping, RecentlyBlocked

\* When neither the count nor the insertion of the flag fails, a loop of blocked
\* updates has its flag once its updates have been handled, for any number of
\* writers and any interleaving of their statements.
THEOREM LoopsAreFlagged ==
  ASSUME {"count", "flag"} \cap Failures = {}
  PROVE  Spec => []LoopIsFlagged
<1>1. Init => LoopsInv
  BY InitTyped, InitHolds DEF LoopsInv
<1>2. LoopsInv /\ [Next]_vars => LoopsInv'
  BY TypedKeeps, LoopingKeeps DEF LoopsInv
<1> QED BY <1>1, <1>2, FlaggedOrNot, PTL DEF Spec

\* No false alarm, whichever statements fail.
THEOREM FlagsAreEarned == Spec => []FlagIsEarned
<1>1. Init => FlagsInv
  BY InitTyped, InitHolds DEF FlagsInv
<1>2. FlagsInv /\ [Next]_vars => FlagsInv'
  BY TypedKeeps, SeenKeeps, FlagKeeps DEF FlagsInv
<1>3. FlagsInv => FlagIsEarned
  BY DEF FlagsInv
<1> QED BY <1>1, <1>2, <1>3, PTL DEF Spec

\* Whichever statements fail, for every row that is stored of an envelope exactly
\* one alert is fired or about to be, and for every decision of a session, and
\* there are no others.
THEOREM AlertsOnce == Spec => []AlertsAgree
<1>1. Init => AlertsInv
  BY InitTyped, InitHolds DEF AlertsInv
<1>2. AlertsInv /\ [Next]_vars => AlertsInv'
  <2> SUFFICES ASSUME AlertsInv, [Next]_vars
               PROVE  AlertsInv'
    OBVIOUS
  <2>1. Typed /\ Typed'
    BY TypedKeeps DEF AlertsInv
  <2>2. ASSUME NEW e \in Envelopes, NEW status \in Reported \cup {"loop_detected"}
        PROVE  Agree(e, status)'
    <3>1. Agree(e, status)
      BY DEF AlertsInv, AlertsAgree, RowsAlerted, Agree
    <3> QED BY <2>1, <3>1, AgreeKeeps
  <2>3. ASSUME NEW s \in Sessions
        PROVE  Told(s)'
    <3>1. Told(s)
      BY DEF AlertsInv, AlertsAgree, DecisionsAlerted, Told
    <3> QED BY <2>1, <3>1, ToldKeeps
  <2>4. RowsAlerted' /\ DecisionsAlerted'
    BY <2>2, <2>3 DEF RowsAlerted, Agree, DecisionsAlerted, Told
  <2> QED BY <2>1, <2>4 DEF AlertsInv, AlertsAgree
<1>3. AlertsInv => AlertsAgree
  BY DEF AlertsInv
<1> QED BY <1>1, <1>2, <1>3, PTL DEF Spec
-----------------------------------------------------------------------------
(* Folds *)

\* Induction up to N: the library's theorems take the claim as an operator, which
\* no prover here can instantiate, so it is a set T in this one.
Below == {p \in Nat \X Nat : p[1] < p[2]}

LEMMA BelowIsWellFounded == IsWellFoundedOn(Below, Nat)
BY NatLessThanWellFounded, Zenon DEF OpToRel, Below

LEMMA Induction ==
  ASSUME NEW N \in Nat, NEW T, 0 \in T, \A k \in 0..N : k < N /\ k \in T => k + 1 \in T
  PROVE  0..N \subseteq T
<1> SUFFICES ASSUME 0..N \ T # {}
             PROVE  FALSE
  OBVIOUS
<1>1. PICK k \in 0..N \ T : \A j \in 0..N \ T : <<j, k>> \notin Below
  <2>1. 0..N \ T \subseteq Nat
    OBVIOUS
  <2> QED BY <2>1, BelowIsWellFounded, WFMin
<1>2. k # 0 /\ k - 1 \in 0..N
  OBVIOUS
<1>3. <<k - 1, k>> \in Below
  BY <1>2 DEF Below
<1>4. k - 1 \in T /\ k - 1 < N /\ (k - 1) + 1 = k
  BY <1>1, <1>2, <1>3
<1> QED BY <1>4, <1>2

\* The last of the first k places, and what is before it.
LEMMA LastPlace ==
  ASSUME NEW k \in Nat \ {0}, NEW s \in SUBSET (1..k), k \in s
  PROVE  Max(s) = k /\ s \ {k} \in SUBSET (1..(k - 1)) /\ (1..k) \ {k} = 1..(k - 1)
<1>1. \A x \in s : (\A y \in s : x >= y) <=> x = k
  OBVIOUS
<1>2. Max(s) = k
  BY <1>1 DEF Max
<1> QED BY <1>2

LEMMA Prefix ==
  ASSUME NEW N \in Nat, NEW k \in 1..N
  PROVE  /\ 1..k \in SUBSET (1..N) /\ 1..k # {}
         /\ Max(1..k) = k /\ (1..k) \ {k} = 1..(k - 1)
<1>1. k \in Nat \ {0} /\ k \in 1..k /\ 1..k \in SUBSET (1..k)
  OBVIOUS
<1>2. 1..k \in SUBSET (1..N)
  OBVIOUS
<1>3. 1..k # {}
  BY <1>1
<1>4. Max(1..k) = k /\ (1..k) \ {k} = 1..(k - 1)
  BY <1>1, LastPlace
<1> QED BY <1>2, <1>3, <1>4

\* A set of places has a last one.
LEMMA MaxIsIn ==
  ASSUME NEW N \in Nat, NEW s \in SUBSET (1..N), s # {}
  PROVE  Max(s) \in s
<1> DEFINE gaps == {N - x : x \in s}
<1>1. gaps \subseteq Nat /\ gaps # {}
  <2>1. \A x \in s : N - x \in Nat
    OBVIOUS
  <2>2. PICK x \in s : TRUE
    BY s # {}
  <2>3. N - x \in gaps
    BY Zenon
  <2> QED BY <2>1, <2>3
<1>2. PICK m \in gaps : \A y \in gaps : <<y, m>> \notin Below
  BY <1>1, BelowIsWellFounded, WFMin
<1>3. PICK x \in s : m = N - x
  BY <1>2
<1>4. ASSUME NEW y \in s
      PROVE  x >= y
  <2>1. N - y \in gaps /\ <<N - y, m>> \notin Below /\ N - y \in Nat /\ m \in Nat
    BY <1>1, <1>2
  <2>2. ~ (N - y < m)
    BY <2>1 DEF Below
  <2> QED BY <2>2, <1>3
<1> QED BY <1>3, <1>4, Zenon DEF Max

\* The function by which FoldLeft is defined exists, here for a step that is a
\* function.
IsFoldOf(g, N, base, step) ==
  \A s \in SUBSET (1..N) :
    g[s] = IF s = {} THEN base ELSE step[<<g[s \ {Max(s)}], Max(s)>>]

LEMMA FoldExists ==
  ASSUME NEW N \in Nat, NEW A, NEW base \in A, NEW step \in [A \X (1..N) -> A]
  PROVE  \E g \in [SUBSET (1..N) -> A] : IsFoldOf(g, N, base, step)
<1> USE DEF IsFoldOf
<1> DEFINE Up(k, g) == IsFoldOf(g, k, base, step)
           T == {k \in 0..N : \E g \in [SUBSET (1..k) -> A] : Up(k, g)}
<1>0. \A k \in 0..N : (\E g \in [SUBSET (1..k) -> A] : Up(k, g)) => k \in T
  BY Zenon
<1>1. 0 \in T
  <2>1. [s \in SUBSET (1..0) |-> base] \in [SUBSET (1..0) -> A]
    OBVIOUS
  <2>2. Up(0, [s \in SUBSET (1..0) |-> base])
    OBVIOUS
  <2>3. \E g \in [SUBSET (1..0) -> A] : Up(0, g)
    BY <2>1, <2>2, Zenon
  <2>4. 0 \in 0..N
    OBVIOUS
  <2> QED BY <1>0, <2>3, <2>4, Zenon
<1>2. ASSUME NEW k \in 0..N, k < N, k \in T
      PROVE  k + 1 \in T
  <2>1. PICK g \in [SUBSET (1..k) -> A] : Up(k, g)
    BY <1>2
  <2> DEFINE h == [s \in SUBSET (1..(k + 1)) |->
                     IF k + 1 \in s THEN step[<<g[s \ {k + 1}], k + 1>>] ELSE g[s]]
  <2>2. \A s \in SUBSET (1..(k + 1)) : k + 1 \in s =>
          Max(s) = k + 1 /\ s \ {k + 1} \in SUBSET (1..k)
    <3>1. k + 1 \in Nat \ {0} /\ (k + 1) - 1 = k
      OBVIOUS
    <3> HIDE DEF T
    <3> QED BY <3>1, LastPlace
  <2>3. \A s \in SUBSET (1..(k + 1)) : k + 1 \notin s => s \in SUBSET (1..k)
    OBVIOUS
  <2>4. h \in [SUBSET (1..(k + 1)) -> A]
    <3>1. ASSUME NEW s \in SUBSET (1..(k + 1)), k + 1 \in s
          PROVE  step[<<g[s \ {k + 1}], k + 1>>] \in A
      BY <1>2, <2>2, <3>1
    <3> QED BY <2>3, <3>1
  <2>5. ASSUME NEW s \in SUBSET (1..(k + 1))
        PROVE  h[s] = IF s = {} THEN base ELSE step[<<h[s \ {Max(s)}], Max(s)>>]
    <3>1. CASE k + 1 \in s
      <4>1. s \ {Max(s)} \in SUBSET (1..k) /\ k + 1 \notin s \ {Max(s)} /\ Max(s) = k + 1
        BY <2>2, <3>1
      <4>2. h[s \ {Max(s)}] = g[s \ {Max(s)}]
        BY <4>1
      <4> QED BY <3>1, <4>1, <4>2
    <3>2. CASE k + 1 \notin s
      <4>1. s \in SUBSET (1..k) /\ s \ {Max(s)} \in SUBSET (1..(k + 1)) /\ k + 1 \notin s \ {Max(s)}
        BY <2>3, <3>2
      <4>2. h[s] = g[s] /\ h[s \ {Max(s)}] = g[s \ {Max(s)}]
        BY <3>2, <4>1
      <4> QED BY <2>1, <4>1, <4>2
    <3> QED BY <3>1, <3>2
  <2>6. \E f \in [SUBSET (1..(k + 1)) -> A] : Up(k + 1, f)
    BY <2>4, <2>5, Zenon
  <2>7. k + 1 \in 0..N
    BY <1>2
  <2> QED BY <1>0, <2>6, <2>7, Zenon
<1> HIDE DEF T
<1>3. 0..N \subseteq T
  BY <1>1, <1>2, Induction
<1>4. N \in T
  BY <1>3
<1> QED BY <1>4, Zenon DEF T

-----------------------------------------------------------------------------
(* Bulk acknowledgement *)

\* What a bulk acknowledgement keeps while it goes through the ids.
Tally == {a \in [seenToAck : SUBSET Int, acknowledged : Nat, already : Nat, missing : Nat] :
            IsFiniteSet(a.seenToAck)}

LEMMA ClassifyType ==
  ASSUME NEW a \in Tally, NEW n \in Int, NEW key, NEW states
  PROVE  Classify(a, n, key, states) \in Tally
<1>1. IsFiniteSet(a.seenToAck \cup {n})
  BY FS_AddElement DEF Tally
<1> QED BY <1>1 DEF Tally, Classify

\* The loop of processAckChunk over the ids of a chunk.
Tallied(acc, chunk, key, states) ==
  FoldLeft(LAMBDA a, n : Classify(a, n, key, states), acc, chunk)

Classifies(f, acc, chunk, key, states) ==
  /\ f[0] = acc
  /\ \A k \in 1..Len(chunk) : f[k] = Classify(f[k - 1], chunk[k], key, states)
  /\ Tallied(acc, chunk, key, states) = f[Len(chunk)]

\* The fold over a chunk goes through its ids one by one.
LEMMA ClassifyFold ==
  ASSUME NEW key, NEW states, NEW acc \in Tally, NEW chunk \in Seq(Int)
  PROVE  \E f \in [0..Len(chunk) -> Tally] : Classifies(f, acc, chunk, key, states)
<1> DEFINE N == Len(chunk)
           step == [p \in Tally \X (1..N) |-> Classify(p[1], chunk[p[2]], key, states)]
           Unfolds(it) == it = [s \in SUBSET DOMAIN chunk |->
                                  IF s = {} THEN acc
                                  ELSE Classify(it[s \ {Max(s)}], chunk[Max(s)], key, states)]
           it0 == CHOOSE it : Unfolds(it)
           f == [k \in 0..N |-> it0[1..k]]
<1>1. N \in Nat /\ DOMAIN chunk = 1..N /\ \A i \in 1..N : chunk[i] \in Int
  OBVIOUS
<1>2. step \in [Tally \X (1..N) -> Tally]
  BY <1>1, ClassifyType
<1>3. PICK g \in [SUBSET (1..N) -> Tally] : IsFoldOf(g, N, acc, step)
  <2> HIDE DEF N, step
  <2> QED BY <1>1, <1>2, FoldExists
<1>4. Tallied(acc, chunk, key, states) = it0[DOMAIN chunk]
  BY Zenon DEF Tallied, FoldLeft, MapThenFoldSet
<1>5. Unfolds(g)
  <2>1. ASSUME NEW s \in SUBSET (1..N), s # {}
        PROVE  g[s] = Classify(g[s \ {Max(s)}], chunk[Max(s)], key, states)
    <3>1. Max(s) \in 1..N /\ s \ {Max(s)} \in SUBSET (1..N)
      <4> HIDE DEF N
      <4> QED BY <1>1, <2>1, MaxIsIn
    <3>2. <<g[s \ {Max(s)}], Max(s)>> \in Tally \X (1..N)
      BY <1>3, <3>1
    <3>3. g[s] = step[<<g[s \ {Max(s)}], Max(s)>>]
      <4> HIDE DEF N, step
      <4> QED BY <1>3, <2>1 DEF IsFoldOf
    <3>4. \A p \in Tally \X (1..N) : step[p] = Classify(p[1], chunk[p[2]], key, states)
      BY Zenon
    <3> HIDE DEF step
    <3> QED BY <3>2, <3>3, <3>4
  <2>2. ASSUME NEW s \in SUBSET (1..N)
        PROVE  g[s] = IF s = {} THEN acc
                      ELSE Classify(g[s \ {Max(s)}], chunk[Max(s)], key, states)
    <3> HIDE DEF N, step
    <3> QED BY <1>3, <2>1, Zenon DEF IsFoldOf
  <2>3. DOMAIN g = SUBSET (1..N) /\ g = [s \in DOMAIN g |-> g[s]]
    BY <1>3, Zenon
  <2> HIDE DEF N, step
  <2> QED BY <2>2, <2>3, <1>1, Zenon
<1>6. Unfolds(it0)
  BY <1>5, Zenon
<1>7. /\ it0[1..0] = acc
      /\ \A k \in 1..N : it0[1..k] = Classify(it0[1..(k - 1)], chunk[k], key, states)
  <2>1. \A s \in SUBSET (1..N) :
          it0[s] = IF s = {} THEN acc
                   ELSE Classify(it0[s \ {Max(s)}], chunk[Max(s)], key, states)
    <3> HIDE DEF it0, N
    <3> QED BY <1>6, <1>1, Zenon
  <2> HIDE DEF it0, N
  <2>2. it0[1..0] = acc
    <3>1. 1..0 \in SUBSET (1..N) /\ 1..0 = {}
      BY <1>1
    <3> QED BY <2>1, <3>1, Zenon
  <2>3. ASSUME NEW k \in 1..N
        PROVE  it0[1..k] = Classify(it0[1..(k - 1)], chunk[k], key, states)
    <3>1. /\ 1..k \in SUBSET (1..N) /\ 1..k # {}
          /\ Max(1..k) = k /\ (1..k) \ {k} = 1..(k - 1)
      BY <1>1, Prefix
    <3> QED BY <2>1, <3>1, Zenon
  <2> QED BY <2>2, <2>3, Zenon
<1>8. /\ f[0] = acc
      /\ \A k \in 1..N : f[k] = Classify(f[k - 1], chunk[k], key, states)
      /\ f[N] = it0[1..N]
  <2> HIDE DEF it0, N
  <2>1. \A k \in 0..N : f[k] = it0[1..k]
    OBVIOUS
  <2>2. 0 \in 0..N /\ N \in 0..N /\ \A k \in 1..N : k \in 0..N /\ k - 1 \in 0..N
    BY <1>1
  <2> HIDE DEF f
  <2> QED BY <1>7, <2>1, <2>2, Zenon
<1> DEFINE typed == {k \in 0..N : f[k] \in Tally}
<1>9. 0..N \subseteq typed
  <2> HIDE DEF N, f
  <2>1. 0 \in typed
    BY <1>8, <1>1
  <2>2. ASSUME NEW k \in 0..N, k < N, k \in typed
        PROVE  k + 1 \in typed
    <3>1. k + 1 \in 1..N /\ k + 1 \in 0..N /\ (k + 1) - 1 = k
      BY <1>1, <2>2
    <3>2. f[k + 1] = Classify(f[k], chunk[k + 1], key, states)
      BY <1>8, <3>1
    <3>3. f[k] \in Tally /\ chunk[k + 1] \in Int
      BY <2>2, <3>1, <1>1
    <3>4. f[k + 1] \in Tally
      BY <3>2, <3>3, ClassifyType
    <3> QED BY <3>1, <3>4
  <2> HIDE DEF typed
  <2> QED BY <2>1, <2>2, <1>1, Induction
<1>10. f \in [0..N -> Tally]
  <2> HIDE DEF it0, N
  <2>1. \A k \in 0..N : f[k] \in Tally
    <3> HIDE DEF f
    <3> QED BY <1>9
  <2>2. \A k \in 0..N : it0[1..k] \in Tally
    BY <2>1
  <2> QED BY <2>2
<1>11. Tallied(acc, chunk, key, states) = f[N]
  <2> HIDE DEF f, it0
  <2> QED BY <1>1, <1>4, <1>8, Zenon
<1> HIDE DEF f
<1> QED BY <1>8, <1>10, <1>11, Zenon DEF Classifies

LEMMA ProcessType ==
  ASSUME NEW a \in Tally, NEW chunk \in Seq(Int), NEW key
  PROVE  ProcessAckChunk(a, chunk, key) \in Tally
<1> DEFINE states == {n \in Visible(key) : rows[n].acked} \cup a.seenToAck
           counted == Tallied(a, chunk, key, states)
<1>1. counted \in Tally
  <2> HIDE DEF states
  <2>1. PICK f \in [0..Len(chunk) -> Tally] : Classifies(f, a, chunk, key, states)
    BY ClassifyFold
  <2>2. Len(chunk) \in 0..Len(chunk)
    OBVIOUS
  <2> QED BY <2>1, <2>2, Zenon DEF Classifies
<1>2. ProcessAckChunk(a, chunk, key) =
        [counted EXCEPT !.acknowledged =
           counted.acknowledged + Cardinality(counted.seenToAck \ a.seenToAck)]
  BY Zenon DEF ProcessAckChunk, Tallied
<1> HIDE DEF counted
<1>3. IsFiniteSet(counted.seenToAck \ a.seenToAck)
  BY <1>1, FS_Difference DEF Tally
<1>4. Cardinality(counted.seenToAck \ a.seenToAck) \in Nat
  BY <1>3, FS_CardinalityType
<1> QED BY SMTT(20), <1>1, <1>2, <1>4 DEF Tally

\* A reply before the first chunk.
Nothing == [seenToAck |-> {}, acknowledged |-> 0, already |-> 0, missing |-> 0]

Processes(f, ids, key) ==
  /\ f[0] = Nothing
  /\ \A k \in 1..Len(Chunks(ids)) : f[k] = ProcessAckChunk(f[k - 1], Chunks(ids)[k], key)
  /\ BulkAck(ids, key) = f[Len(Chunks(ids))]

\* The fold over the chunks goes through them one by one.
LEMMA ChunkFold ==
  ASSUME NEW key, NEW ids, Chunks(ids) \in Seq(Seq(Int))
  PROVE  \E f \in [0..Len(Chunks(ids)) -> Tally] : Processes(f, ids, key)
<1> DEFINE N == Len(Chunks(ids))
           step == [p \in Tally \X (1..N) |-> ProcessAckChunk(p[1], Chunks(ids)[p[2]], key)]
           Unfolds(it) == it = [s \in SUBSET DOMAIN Chunks(ids) |->
                                  IF s = {} THEN Nothing
                                  ELSE ProcessAckChunk(it[s \ {Max(s)}], Chunks(ids)[Max(s)], key)]
           it0 == CHOOSE it : Unfolds(it)
           f == [k \in 0..N |-> it0[1..k]]
<1>0. Nothing \in Tally
  BY FS_EmptySet DEF Nothing, Tally
<1>1. N \in Nat /\ DOMAIN Chunks(ids) = 1..N /\ \A i \in 1..N : Chunks(ids)[i] \in Seq(Int)
  OBVIOUS
<1>2. step \in [Tally \X (1..N) -> Tally]
  BY <1>1, ProcessType
<1>3. PICK g \in [SUBSET (1..N) -> Tally] : IsFoldOf(g, N, Nothing, step)
  <2> HIDE DEF N, step
  <2> QED BY <1>0, <1>1, <1>2, FoldExists
<1>4. BulkAck(ids, key) = it0[DOMAIN Chunks(ids)]
  BY Zenon DEF BulkAck, Nothing, FoldLeft, MapThenFoldSet
<1>5. Unfolds(g)
  <2>1. ASSUME NEW s \in SUBSET (1..N), s # {}
        PROVE  g[s] = ProcessAckChunk(g[s \ {Max(s)}], Chunks(ids)[Max(s)], key)
    <3>1. Max(s) \in 1..N /\ s \ {Max(s)} \in SUBSET (1..N)
      <4> HIDE DEF N
      <4> QED BY <1>1, <2>1, MaxIsIn
    <3>2. <<g[s \ {Max(s)}], Max(s)>> \in Tally \X (1..N)
      BY <1>3, <3>1
    <3>3. g[s] = step[<<g[s \ {Max(s)}], Max(s)>>]
      <4> HIDE DEF N, step
      <4> QED BY <1>3, <2>1 DEF IsFoldOf
    <3>4. \A p \in Tally \X (1..N) : step[p] = ProcessAckChunk(p[1], Chunks(ids)[p[2]], key)
      BY Zenon
    <3> HIDE DEF step
    <3> QED BY <3>2, <3>3, <3>4
  <2>2. ASSUME NEW s \in SUBSET (1..N)
        PROVE  g[s] = IF s = {} THEN Nothing
                      ELSE ProcessAckChunk(g[s \ {Max(s)}], Chunks(ids)[Max(s)], key)
    <3> HIDE DEF N, step
    <3> QED BY <1>3, <2>1, Zenon DEF IsFoldOf
  <2>3. DOMAIN g = SUBSET (1..N) /\ g = [s \in DOMAIN g |-> g[s]]
    BY <1>3, Zenon
  <2> HIDE DEF N, step
  <2> QED BY <2>2, <2>3, <1>1, Zenon
<1>6. Unfolds(it0)
  BY <1>5, Zenon
<1>7. /\ it0[1..0] = Nothing
      /\ \A k \in 1..N : it0[1..k] = ProcessAckChunk(it0[1..(k - 1)], Chunks(ids)[k], key)
  <2>1. \A s \in SUBSET (1..N) :
          it0[s] = IF s = {} THEN Nothing
                   ELSE ProcessAckChunk(it0[s \ {Max(s)}], Chunks(ids)[Max(s)], key)
    <3> HIDE DEF it0, N
    <3> QED BY <1>6, <1>1, Zenon
  <2> HIDE DEF it0, N
  <2>2. it0[1..0] = Nothing
    <3>1. 1..0 \in SUBSET (1..N) /\ 1..0 = {}
      BY <1>1
    <3> QED BY <2>1, <3>1, Zenon
  <2>3. ASSUME NEW k \in 1..N
        PROVE  it0[1..k] = ProcessAckChunk(it0[1..(k - 1)], Chunks(ids)[k], key)
    <3>1. /\ 1..k \in SUBSET (1..N) /\ 1..k # {}
          /\ Max(1..k) = k /\ (1..k) \ {k} = 1..(k - 1)
      BY <1>1, Prefix
    <3> QED BY <2>1, <3>1, Zenon
  <2> QED BY <2>2, <2>3, Zenon
<1>8. /\ f[0] = Nothing
      /\ \A k \in 1..N : f[k] = ProcessAckChunk(f[k - 1], Chunks(ids)[k], key)
      /\ f[N] = it0[1..N]
  <2> HIDE DEF it0, N
  <2>1. \A k \in 0..N : f[k] = it0[1..k]
    OBVIOUS
  <2>2. 0 \in 0..N /\ N \in 0..N /\ \A k \in 1..N : k \in 0..N /\ k - 1 \in 0..N
    BY <1>1
  <2> HIDE DEF f
  <2> QED BY <1>7, <2>1, <2>2, Zenon
<1> DEFINE typed == {k \in 0..N : f[k] \in Tally}
<1>9. 0..N \subseteq typed
  <2> HIDE DEF N, f
  <2>1. 0 \in typed
    BY <1>0, <1>8, <1>1
  <2>2. ASSUME NEW k \in 0..N, k < N, k \in typed
        PROVE  k + 1 \in typed
    <3>1. k + 1 \in 1..N /\ k + 1 \in 0..N /\ (k + 1) - 1 = k
      BY <1>1, <2>2
    <3>2. f[k + 1] = ProcessAckChunk(f[k], Chunks(ids)[k + 1], key)
      BY <1>8, <3>1
    <3>3. f[k] \in Tally /\ Chunks(ids)[k + 1] \in Seq(Int)
      BY <2>2, <3>1, <1>1
    <3>4. f[k + 1] \in Tally
      BY <3>2, <3>3, ProcessType
    <3> QED BY <3>1, <3>4
  <2> HIDE DEF typed
  <2> QED BY <2>1, <2>2, <1>1, Induction
<1>10. f \in [0..N -> Tally]
  <2> HIDE DEF it0, N
  <2>1. \A k \in 0..N : f[k] \in Tally
    <3> HIDE DEF f
    <3> QED BY <1>9
  <2>2. \A k \in 0..N : it0[1..k] \in Tally
    BY <2>1
  <2> QED BY <2>2
<1>11. BulkAck(ids, key) = f[N]
  <2> HIDE DEF f, it0
  <2> QED BY <1>1, <1>4, <1>8, Zenon
<1> HIDE DEF f
<1> QED BY <1>8, <1>10, <1>11, Zenon DEF Processes

\* The places among the first k that the caller can see, the rows they name that
\* nobody had acknowledged, and what the reply says of these places.
SeenPlaces(ids, key, k) == {i \in 1..k : ids[i] \in Visible(key)}

ToAck(ids, key, k) == {n \in {ids[i] : i \in SeenPlaces(ids, key, k)} : ~ rows[n].acked}

After(ids, key, k, x) ==
  [seenToAck    |-> ToAck(ids, key, k),
   acknowledged |-> x,
   already      |-> Cardinality(SeenPlaces(ids, key, k)) - Cardinality(ToAck(ids, key, k)),
   missing      |-> k - Cardinality(SeenPlaces(ids, key, k))]

LEMMA FreshRows ==
  ASSUME NEW ids, NEW key, NEW k, NEW n
  PROVE  n \in ToAck(ids, key, k) <=>
           /\ ~ rows[n].acked /\ n \in Visible(key)
           /\ \E i \in 1..k : ids[i] = n
BY Zenon DEF ToAck, SeenPlaces

LEMMA Finite ==
  ASSUME NEW ids \in Seq(Int), NEW key, NEW k \in 0..Len(ids)
  PROVE  /\ IsFiniteSet(SeenPlaces(ids, key, k)) /\ Cardinality(SeenPlaces(ids, key, k)) \in Nat
         /\ IsFiniteSet(ToAck(ids, key, k)) /\ Cardinality(ToAck(ids, key, k)) \in Nat
<1>1. IsFiniteSet(SeenPlaces(ids, key, k))
  <2>1. IsFiniteSet(1..k)
    BY FS_Interval
  <2>2. SeenPlaces(ids, key, k) \subseteq 1..k
    BY DEF SeenPlaces
  <2> QED BY <2>1, <2>2, FS_Subset
<1>2. IsFiniteSet({ids[i] : i \in SeenPlaces(ids, key, k)})
  <2> DEFINE named == {ids[i] : i \in SeenPlaces(ids, key, k)}
             f == [i \in SeenPlaces(ids, key, k) |-> ids[i]]
  <2>1. f \in Surjection(SeenPlaces(ids, key, k), named)
    BY DEF Surjection
  <2> HIDE DEF f, named
  <2>2. IsFiniteSet(named)
    BY <1>1, <2>1, FS_Surjection
  <2> QED BY <2>2 DEF named
<1>3. IsFiniteSet(ToAck(ids, key, k))
  <2>1. ToAck(ids, key, k) \subseteq {ids[i] : i \in SeenPlaces(ids, key, k)}
    BY DEF ToAck
  <2> QED BY <1>2, <2>1, FS_Subset
<1> QED BY <1>1, <1>3, FS_CardinalityType

\* One more place.
LEMMA OnePlace ==
  ASSUME NEW ids \in Seq(Int), NEW key, NEW k \in 0..Len(ids), k < Len(ids),
         NEW o \in 0..k, NEW x
  PROVE  Classify(After(ids, key, k, x), ids[k + 1], key,
                  {n \in Visible(key) : rows[n].acked} \cup ToAck(ids, key, o))
           = After(ids, key, k + 1, x)
<1> DEFINE n == ids[k + 1]
           S == SeenPlaces(ids, key, k)
           F == ToAck(ids, key, k)
           S1 == SeenPlaces(ids, key, k + 1)
           F1 == ToAck(ids, key, k + 1)
           A == {m \in Visible(key) : rows[m].acked} \cup ToAck(ids, key, o)
           a == After(ids, key, k, x)
<1>1. k + 1 \in 0..Len(ids) /\ k \in Int /\ \A i : i \in 1..(k + 1) <=> i \in 1..k \/ i = k + 1
  OBVIOUS
<1>2. /\ IsFiniteSet(S) /\ Cardinality(S) \in Nat /\ IsFiniteSet(F) /\ Cardinality(F) \in Nat
      /\ k + 1 \notin S
  <2>1. k + 1 \notin S
    BY DEF SeenPlaces
  <2> HIDE DEF S, F
  <2> QED BY <2>1, Finite DEF S, F
<1>3. \A i : i \in S1 <=> i \in S \/ (i = k + 1 /\ n \in Visible(key))
  BY <1>1, Zenon DEF SeenPlaces
<1>4. \A m : m \in F1 <=> m \in F \/ (m = n /\ ~ rows[n].acked /\ n \in Visible(key))
  <2> TAKE m
  <2>1. m \in F1 <=> /\ ~ rows[m].acked /\ m \in Visible(key)
                     /\ \E i \in 1..(k + 1) : ids[i] = m
    BY FreshRows
  <2>2. m \in F <=> /\ ~ rows[m].acked /\ m \in Visible(key)
                    /\ \E i \in 1..k : ids[i] = m
    BY FreshRows
  <2>3. (\E i \in 1..(k + 1) : ids[i] = m) <=> (\E i \in 1..k : ids[i] = m) \/ m = n
    BY <1>1, Zenon
  <2> HIDE DEF F, F1, n
  <2> QED BY <2>1, <2>2, <2>3, Zenon
<1>5. \A m \in ToAck(ids, key, o) : m \in F
  <2>1. \A i \in 1..o : i \in 1..k
    OBVIOUS
  <2> TAKE m \in ToAck(ids, key, o)
  <2>2. /\ ~ rows[m].acked /\ m \in Visible(key)
        /\ \E i \in 1..o : ids[i] = m
    BY FreshRows
  <2>3. \E i \in 1..k : ids[i] = m
    BY <2>1, <2>2, Zenon
  <2> QED BY <2>2, <2>3, FreshRows
<1>6. n \in A <=> n \in Visible(key) /\ (rows[n].acked \/ n \in ToAck(ids, key, o))
  BY FreshRows, Zenon
<1>7. /\ a.seenToAck = F /\ a.acknowledged = x
      /\ a.already = Cardinality(S) - Cardinality(F) /\ a.missing = k - Cardinality(S)
      /\ a = [seenToAck |-> F, acknowledged |-> x,
              already |-> Cardinality(S) - Cardinality(F), missing |-> k - Cardinality(S)]
  BY DEF After
<1>8. After(ids, key, k + 1, x) =
        [seenToAck |-> F1, acknowledged |-> x,
         already |-> Cardinality(S1) - Cardinality(F1), missing |-> (k + 1) - Cardinality(S1)]
  BY DEF After
<1> HIDE DEF n, S, F, S1, F1, A, a
<1>9. CASE n \notin Visible(key)
  <2>1. S1 = S /\ F1 = F
    BY <1>3, <1>4, <1>9
  <2>2. Classify(a, n, key, A) = [a EXCEPT !.missing = @ + 1]
    BY <1>9 DEF Classify
  <2>3. (k - Cardinality(S)) + 1 = (k + 1) - Cardinality(S)
    BY <1>1, <1>2
  <2> QED BY <1>7, <1>8, <2>1, <2>2, <2>3 DEF n, A, a
<1>10. CASE n \in Visible(key) /\ n \in A \cup a.seenToAck
  <2>1. S1 = S \cup {k + 1}
    BY <1>3, <1>10
  <2>2. Cardinality(S1) = Cardinality(S) + 1
    BY <2>1, <1>2, FS_AddElement
  <2>3. F1 = F
    <3>1. rows[n].acked \/ n \in F
      BY <1>5, <1>6, <1>7, <1>10
    <3> QED BY <3>1, <1>4
  <2>4. Classify(a, n, key, A) = [a EXCEPT !.already = @ + 1]
    BY <1>10 DEF Classify
  <2>5. /\ (Cardinality(S) - Cardinality(F)) + 1 = Cardinality(S1) - Cardinality(F)
        /\ k - Cardinality(S) = (k + 1) - Cardinality(S1)
    BY <1>1, <1>2, <2>2
  <2> QED BY <1>7, <1>8, <2>3, <2>4, <2>5 DEF n, A, a
<1>11. CASE n \in Visible(key) /\ n \notin A \cup a.seenToAck
  <2>1. S1 = S \cup {k + 1}
    BY <1>3, <1>11
  <2>2. Cardinality(S1) = Cardinality(S) + 1
    BY <2>1, <1>2, FS_AddElement
  <2>3. F1 = F \cup {n} /\ n \notin F
    BY <1>4, <1>6, <1>7, <1>11
  <2>4. Cardinality(F1) = Cardinality(F) + 1
    BY <2>3, <1>2, FS_AddElement
  <2>5. Classify(a, n, key, A) = [a EXCEPT !.seenToAck = @ \cup {n}]
    BY <1>11 DEF Classify
  <2>6. /\ Cardinality(S) - Cardinality(F) = Cardinality(S1) - Cardinality(F1)
        /\ k - Cardinality(S) = (k + 1) - Cardinality(S1)
    BY SMTT(20), <1>1, <1>2, <2>2, <2>4
  <2> QED BY <1>7, <1>8, <2>3, <2>5, <2>6 DEF n, A, a
<1> QED BY <1>9, <1>10, <1>11

\* One more chunk: the places o+1 to p.
LEMMA OneChunk ==
  ASSUME NEW ids \in Seq(Int), NEW key, NEW p \in 0..Len(ids), NEW o \in 0..p,
         After(ids, key, o, Cardinality(ToAck(ids, key, o))) \in Tally
  PROVE  ProcessAckChunk(After(ids, key, o, Cardinality(ToAck(ids, key, o))),
                         SubSeq(ids, o + 1, p), key)
           = After(ids, key, p, Cardinality(ToAck(ids, key, p)))
<1> DEFINE x == Cardinality(ToAck(ids, key, o))
           a == After(ids, key, o, x)
           chunk == SubSeq(ids, o + 1, p)
           states == {n \in Visible(key) : rows[n].acked} \cup ToAck(ids, key, o)
           counted == Tallied(a, chunk, key, states)
<1>1. /\ p \in Nat /\ o \in Nat /\ o <= p /\ p <= Len(ids) /\ Len(ids) \in Nat
      /\ chunk \in Seq(Int) /\ Len(chunk) = p - o
      /\ \A j \in 1..(p - o) : chunk[j] = ids[o + j]
  OBVIOUS
<1>2. PICK f \in [0..(p - o) -> Tally] : Classifies(f, a, chunk, key, states)
  <2> HIDE DEF a, chunk, states
  <2> QED BY <1>1, ClassifyFold DEF a
<1> DEFINE T == {j \in 0..(p - o) : f[j] = After(ids, key, o + j, x)}
<1> HIDE DEF x, chunk, states, counted
<1>3. 0..(p - o) \subseteq T
  <2>1. 0 \in T
    <3>1. 0 \in 0..(p - o) /\ o + 0 = o
      BY <1>1
    <3> QED BY <1>2, <3>1 DEF Classifies
  <2>2. ASSUME NEW j \in 0..(p - o), j < p - o, j \in T
        PROVE  j + 1 \in T
    <3>1. /\ j + 1 \in 0..(p - o) /\ j + 1 \in 1..(p - o) /\ (j + 1) - 1 = j
          /\ o + j \in 0..Len(ids) /\ o + j < Len(ids) /\ o \in 0..(o + j)
          /\ o + (j + 1) = (o + j) + 1
      <4>1. j \in Int /\ 0 <= j /\ j < p - o
        BY <1>1, <2>2
      <4> HIDE DEF T
      <4> QED BY SMTT(20), <1>1, <4>1
    <3>2. f[j + 1] = Classify(f[j], ids[(o + j) + 1], key, states)
      <4>1. f[j + 1] = Classify(f[(j + 1) - 1], chunk[j + 1], key, states)
        BY <1>1, <1>2, <3>1 DEF Classifies
      <4> QED BY <4>1, <3>1, <1>1
    <3>3. f[j] = After(ids, key, o + j, x)
      BY <2>2
    <3>4. Classify(After(ids, key, o + j, x), ids[(o + j) + 1], key, states)
            = After(ids, key, (o + j) + 1, x)
      BY SMTT(20), <3>1, OnePlace DEF states
    <3> QED BY <3>1, <3>2, <3>3, <3>4
  <2> HIDE DEF T
  <2>3. p - o \in Nat
    BY <1>1
  <2> QED BY <2>1, <2>2, <2>3, Induction
<1>4. counted = After(ids, key, p, x)
  <2>1. p - o \in T /\ o + (p - o) = p
    BY <1>1, <1>3
  <2>2. counted = f[p - o]
    BY <1>1, <1>2 DEF Classifies, counted
  <2> QED BY <2>1, <2>2
<1>5. ProcessAckChunk(a, chunk, key) =
        [counted EXCEPT !.acknowledged =
           counted.acknowledged + Cardinality(counted.seenToAck \ a.seenToAck)]
  <2> DEFINE loaded == {n \in Visible(key) : rows[n].acked} \cup a.seenToAck
  <2> HIDE DEF a
  <2>1. ProcessAckChunk(a, chunk, key) =
          [Tallied(a, chunk, key, loaded) EXCEPT !.acknowledged =
             Tallied(a, chunk, key, loaded).acknowledged
               + Cardinality(Tallied(a, chunk, key, loaded).seenToAck \ a.seenToAck)]
    BY Zenon DEF ProcessAckChunk, Tallied
  <2>2. loaded = states
    BY DEF states, a, After
  <2> HIDE DEF loaded
  <2> QED BY <2>1, <2>2 DEF counted
<1>6. x + Cardinality(ToAck(ids, key, p) \ ToAck(ids, key, o)) = Cardinality(ToAck(ids, key, p))
  <2>1. ToAck(ids, key, o) \subseteq ToAck(ids, key, p)
    <3>1. \A i \in 1..o : i \in 1..p
      BY <1>1
    <3> QED BY <3>1, Zenon DEF ToAck, SeenPlaces
  <2>2. /\ IsFiniteSet(ToAck(ids, key, o)) /\ IsFiniteSet(ToAck(ids, key, p))
        /\ x \in Nat /\ Cardinality(ToAck(ids, key, p)) \in Nat
    BY <1>1, Finite DEF x
  <2>3. Cardinality(ToAck(ids, key, p) \ ToAck(ids, key, o)) = Cardinality(ToAck(ids, key, p)) - x
    <3>1. ToAck(ids, key, p) \cap ToAck(ids, key, o) = ToAck(ids, key, o)
      BY <2>1
    <3> QED BY <2>2, <3>1, FS_Difference DEF x
  <2> QED BY <2>2, <2>3
<1>7. /\ a.seenToAck = ToAck(ids, key, o)
      /\ counted.seenToAck = ToAck(ids, key, p) /\ counted.acknowledged = x
  BY <1>4 DEF After
<1>8. ProcessAckChunk(a, chunk, key) =
        [counted EXCEPT !.acknowledged = Cardinality(ToAck(ids, key, p))]
  BY <1>5, <1>6, <1>7
<1> QED BY <1>4, <1>8 DEF After, chunk, x

\* The places that the first c chunks hold.
Places(ids, c) == IF c * ChunkSize < Len(ids) THEN c * ChunkSize ELSE Len(ids)

LEMMA ChunksCover ==
  ASSUME NEW ids \in Seq(Int)
  PROVE  /\ Chunks(ids) \in Seq(Seq(Int))
         /\ Places(ids, 0) = 0 /\ Places(ids, Len(Chunks(ids))) = Len(ids)
         /\ \A c \in 1..Len(Chunks(ids)) :
              /\ Places(ids, c) \in 0..Len(ids)
              /\ Places(ids, c - 1) \in 0..Places(ids, c)
              /\ Chunks(ids)[c] = SubSeq(ids, Places(ids, c - 1) + 1, Places(ids, c))
<1> DEFINE L == Len(ids)
           C == ChunkSize
           K == (L + C - 1) \div C
<1>1. L \in Nat /\ C \in Nat \ {0}
  BY BoundsAssumption
<1>2. K \in Nat /\ K * C <= L + C - 1 /\ L + C - 1 < K * C + C
  <2> HIDE DEF L, C
  <2>1. L + C - 1 \in Nat
    BY <1>1
  <2> QED BY <1>1, <2>1
<1>3. K * C >= L /\ (K # 0 => (K - 1) * C < L) /\ (K = 0 => L = 0)
  <2> HIDE DEF L, C, K
  <2>1. (K - 1) * C = K * C - C /\ K * C \in Int
    BY <1>1, <1>2
  <2> QED BY <1>1, <1>2, <2>1
<1>4. \A c \in 1..K : /\ c * C \in Nat /\ (c - 1) * C \in Nat /\ (c - 1) * C <= c * C
                      /\ (c - 1) * C < L
  <2> HIDE DEF L, C, K
  <2> TAKE c \in 1..K
  <2>1. c - 1 \in Nat /\ K - 1 \in Nat /\ c - 1 <= K - 1 /\ c - 1 <= c /\ c \in Nat
    BY <1>2
  <2>2. c * C \in Nat /\ (c - 1) * C \in Nat /\ (c - 1) * C <= (K - 1) * C /\ (c - 1) * C <= c * C
    BY <1>1, <2>1
  <2> QED BY <1>1, <1>2, <1>3, <2>1, <2>2
<1>5. Chunks(ids) = [c \in 1..K |-> SubSeq(ids, (c - 1) * C + 1, Places(ids, c))]
  BY Zenon DEF Chunks, Places
<1>6. \A c \in 1..K : /\ Places(ids, c) \in 0..L /\ Places(ids, c - 1) = (c - 1) * C
                      /\ Places(ids, c - 1) \in 0..Places(ids, c)
  <2> TAKE c \in 1..K
  <2>1. /\ c * C \in Nat /\ (c - 1) * C \in Nat /\ (c - 1) * C <= c * C
        /\ (c - 1) * C < L
    BY <1>4
  <2>2. Places(ids, c) = (IF c * C < L THEN c * C ELSE L) /\ Places(ids, c - 1) = (c - 1) * C
    BY <2>1 DEF Places
  <2> HIDE DEF L, C, K
  <2> QED BY <1>1, <2>1, <2>2
<1>7. Places(ids, 0) = 0 /\ Places(ids, K) = L
  <2>1. 0 * C = 0
    BY <1>1
  <2> QED BY <1>1, <1>2, <1>3, <2>1 DEF Places
<1>8. \A c \in 1..K : SubSeq(ids, (c - 1) * C + 1, Places(ids, c)) \in Seq(Int)
  <2> TAKE c \in 1..K
  <2>1. (c - 1) * C \in Nat /\ Places(ids, c) \in 0..L
    BY <1>4, <1>6
  <2> DEFINE q == (c - 1) * C
             r == Places(ids, c)
  <2> HIDE DEF K, C, q, r
  <2>2. q \in Nat /\ r \in 0..L
    BY <2>1 DEF q, r
  <2>3. SubSeq(ids, q + 1, r) \in Seq(Int)
    BY <2>2
  <2> QED BY <2>3 DEF q, r
<1> HIDE DEF K, C, L
<1>9. Chunks(ids) \in Seq(Seq(Int)) /\ Len(Chunks(ids)) = K
  BY <1>2, <1>5, <1>8
<1> QED BY <1>5, <1>6, <1>7, <1>9 DEF L

\* The reply to a bulk acknowledgement is the one for all of its places.
LEMMA BulkAckIsAfter ==
  ASSUME NEW ids \in Seq(Int), NEW key
  PROVE  BulkAck(ids, key) =
           After(ids, key, Len(ids), Cardinality(ToAck(ids, key, Len(ids))))
<1> DEFINE K == Len(Chunks(ids))
           At(p) == After(ids, key, p, Cardinality(ToAck(ids, key, p)))
<1>1. /\ Chunks(ids) \in Seq(Seq(Int)) /\ K \in Nat
      /\ Places(ids, 0) = 0 /\ Places(ids, K) = Len(ids)
      /\ \A c \in 1..K : /\ Places(ids, c) \in 0..Len(ids)
                         /\ Places(ids, c - 1) \in 0..Places(ids, c)
                         /\ Chunks(ids)[c] = SubSeq(ids, Places(ids, c - 1) + 1, Places(ids, c))
  BY ChunksCover
<1>2. PICK g \in [0..K -> Tally] : Processes(g, ids, key)
  BY <1>1, ChunkFold
<1> DEFINE T == {c \in 0..K : g[c] = At(Places(ids, c))}
<1> HIDE DEF K
<1>3. 0 \in T
  <2>1. SeenPlaces(ids, key, 0) = {} /\ ToAck(ids, key, 0) = {}
    BY DEF SeenPlaces, ToAck
  <2>2. At(0) = Nothing
    <3>1. Cardinality({}) = 0 /\ 0 - 0 = 0
      BY FS_EmptySet
    <3> QED BY <2>1, <3>1, Zenon DEF After, Nothing
  <2> HIDE DEF At
  <2>3. g[0] = At(Places(ids, 0))
    BY <1>1, <1>2, <2>2 DEF Processes
  <2> QED BY <1>1, <2>3
<1>4. ASSUME NEW c \in 0..K, c < K, c \in T
      PROVE  c + 1 \in T
  <2> HIDE DEF At
  <2>1. g[c] = At(Places(ids, c))
    BY <1>4
  <2>2. c + 1 \in 1..K /\ c + 1 \in 0..K /\ (c + 1) - 1 = c
    <3> HIDE DEF T
    <3> QED BY <1>1, <1>4
  <2>3. /\ Places(ids, c + 1) \in 0..Len(ids) /\ Places(ids, c) \in 0..Places(ids, c + 1)
        /\ Chunks(ids)[c + 1] = SubSeq(ids, Places(ids, c) + 1, Places(ids, c + 1))
    BY <1>1, <2>2
  <2>4. g[c + 1] = ProcessAckChunk(g[c], Chunks(ids)[c + 1], key)
    BY <1>2, <2>2 DEF Processes, K
  <2>5. g[c] \in Tally
    BY <1>2
  <2>6. g[c + 1] = At(Places(ids, c + 1))
    BY <2>1, <2>3, <2>4, <2>5, OneChunk DEF At
  <2> QED BY <2>2, <2>6
<1>5. g[K] = At(Places(ids, K))
  <2>1. 0..K \subseteq T
    <3> HIDE DEF T
    <3> QED BY <1>1, <1>3, <1>4, Induction
  <2>2. K \in 0..K
    BY <1>1
  <2> QED BY <2>1, <2>2
<1> HIDE DEF T
<1> QED BY <1>1, <1>2, <1>5 DEF Processes, K

\* Whatever the table holds, the reply to a bulk acknowledgement tells what
\* happened to each place of the list, and the rows written are the ones counted.
THEOREM BulkAcksAreTruthful == Spec => []BulkAckTruthful
<1>1. BulkAckTruthful
  <2> SUFFICES ASSUME NEW ids \in BulkIds, NEW key \in Keys
      PROVE LET reply   == BulkAck(ids, key)
                seen    == {i \in DOMAIN ids : ids[i] \in Visible(key)}
                flipped == {n \in {ids[i] : i \in seen} : ~ rows[n].acked}
            IN  /\ reply.seenToAck = flipped
                /\ reply.acknowledged = Cardinality(flipped)
                /\ reply.missing = Len(ids) - Cardinality(seen)
                /\ reply.already = Cardinality(seen) - Cardinality(flipped)
    BY Zenon DEF BulkAckTruthful
  <2>1. ids \in Seq(Int)
    BY BulkIdsAssumption
  <2>2. /\ {i \in DOMAIN ids : ids[i] \in Visible(key)} = SeenPlaces(ids, key, Len(ids))
        /\ {n \in {ids[i] : i \in SeenPlaces(ids, key, Len(ids))} : ~ rows[n].acked} =
             ToAck(ids, key, Len(ids))
    BY <2>1 DEF SeenPlaces, ToAck
  <2>3. /\ BulkAck(ids, key).seenToAck = ToAck(ids, key, Len(ids))
        /\ BulkAck(ids, key).acknowledged = Cardinality(ToAck(ids, key, Len(ids)))
        /\ BulkAck(ids, key).missing = Len(ids) - Cardinality(SeenPlaces(ids, key, Len(ids)))
        /\ BulkAck(ids, key).already =
             Cardinality(SeenPlaces(ids, key, Len(ids))) - Cardinality(ToAck(ids, key, Len(ids)))
    BY <2>1, BulkAckIsAfter DEF After
  <2> QED BY <2>2, <2>3, Zenon
<1> QED BY <1>1, PTL
=============================================================================
