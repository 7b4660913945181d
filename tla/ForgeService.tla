---------------------------- MODULE ForgeService ----------------------------
(***************************************************************************)
(* What Forge promises to whoever calls /deliver or /resume, without       *)
(* sessions, locks, registry or cache: at most one executor runs for an    *)
(* envelope, one is started only while a call for its envelope waits and   *)
(* none runs, and a call is answered ok only when the envelope is on       *)
(* record.  ForgeDelivery is shown to implement this.                      *)
(***************************************************************************)
CONSTANTS Envelopes, Requests, Handles, Launchable, None

VARIABLES
  accepted,  \* envelopes on record
  live,      \* envelope -> executors running for it
  lapsed,    \* envelopes the promise of one executor is suspended for
  calls      \* request -> its envelope and its answer so far

vars == <<accepted, live, lapsed, calls>>

NoCall == [env |-> None, answer |-> "none"]

Waiting(r) == calls[r] # NoCall /\ calls[r].answer = "none"

Init ==
  /\ accepted = {}
  /\ live  = [e \in Envelopes |-> {}]
  /\ lapsed = {}
  /\ calls = [r \in Requests |-> NoCall]

Call(r, e) ==
  /\ calls[r] = NoCall
  /\ calls' = [calls EXCEPT ![r].env = e]
  /\ UNCHANGED <<accepted, live, lapsed>>

Start(r, h) ==
  /\ Waiting(r)
  /\ calls[r].env \in Launchable
  /\ live[calls[r].env] = {} \/ calls[r].env \in lapsed
  /\ live' = [live EXCEPT ![calls[r].env] = @ \cup {h}]
  /\ UNCHANGED <<accepted, lapsed, calls>>

\* An envelope goes on record while its executor runs or has just run.
Record(r) ==
  /\ Waiting(r)
  /\ accepted' = accepted \cup {calls[r].env}
  /\ UNCHANGED <<live, lapsed, calls>>

Accept(r) ==
  /\ Waiting(r)
  /\ calls[r].env \in accepted
  /\ calls' = [calls EXCEPT ![r].answer = "ok"]
  /\ UNCHANGED <<accepted, live, lapsed>>

\* The register failed a resume call.
Lapse(r) ==
  /\ Waiting(r)
  /\ lapsed' = lapsed \cup {calls[r].env}
  /\ UNCHANGED <<accepted, live, calls>>

\* A failed call may be such a lapse.
Refuse(r) ==
  /\ Waiting(r)
  /\ calls' = [calls EXCEPT ![r].answer = "failed"]
  /\ lapsed' \in {lapsed, lapsed \cup {calls[r].env}}
  /\ UNCHANGED <<accepted, live>>

Reject(r) ==
  /\ Waiting(r)
  /\ calls[r].env \notin Launchable
  /\ calls' = [calls EXCEPT ![r].answer = "unprocessable"]
  /\ UNCHANGED <<accepted, live, lapsed>>

Return(r) ==
  /\ calls[r].answer # "none"
  /\ calls' = [calls EXCEPT ![r] = NoCall]
  /\ UNCHANGED <<accepted, live, lapsed>>

Stop(e) ==
  /\ \E h \in live[e] : live' = [live EXCEPT ![e] = @ \ {h}]
  /\ UNCHANGED <<accepted, lapsed, calls>>

\* A new Forge knows no executors and breaks the connections of the old one.
Restart ==
  /\ live'  = [e \in Envelopes |-> {}]
  /\ lapsed' = {}
  /\ calls' = [r \in Requests |->
                 IF calls[r] = NoCall THEN NoCall
                 ELSE [calls[r] EXCEPT !.answer = "failed"]]
  /\ UNCHANGED accepted

Next ==
  \/ \E r \in Requests :
       \/ \E e \in Envelopes : Call(r, e)
       \/ \E h \in Handles : Start(r, h)
       \/ Record(r) \/ Accept(r) \/ Lapse(r) \/ Refuse(r) \/ Reject(r) \/ Return(r)
  \/ \E e \in Envelopes : Stop(e)
  \/ Restart

Spec == Init /\ [][Next]_vars
=============================================================================
