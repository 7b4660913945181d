------------------------------- MODULE Delivery -------------------------------
(***************************************************************************)
(* The hand-off end to end: the Hermes worker takes the oldest created     *)
(* envelope, posts it to Forge, and flips its row once Forge's ack is      *)
(* parsed.  Composes the register (EnvelopeStore) and Forge                *)
(* (ForgeDelivery) with the worker, the network between them and the       *)
(* executors that report back to Hermes on their own.                      *)
(***************************************************************************)
EXTENDS Naturals, Sequences, FiniteSets

CONSTANTS
  Envelopes, Requests, Handles, Pids, Launchable, MaxCached, Failures, None,
  Order,         \* the envelopes by (created_at, id), oldest first
  Reports,       \* statuses executors report with PATCH .../status
  Commands,      \* statuses an operator sets with the same call
  MaxHistory,    \* bound on the length of a row's history
  MaxFaults      \* bound on timeouts, restarts, failed calls and operators' moves
                 \* together

ASSUME OrderAssumption ==
  /\ Order \in Seq(Envelopes)
  /\ \A e \in Envelopes : \E i \in DOMAIN Order : Order[i] = e

VARIABLES
  rows,                                                        \* Hermes' database
  sessions, cache, gate, registry, watchers, procs, owned, slipped, reqs, \* Forge
  worker,  \* the single delivery goroutine of Hermes
  started, \* history: the sessions executors were started for
  faults   \* faults so far

forge == <<sessions, cache, gate, registry, watchers, procs, owned, slipped, reqs>>
vars  == <<rows, forge, worker, started, faults>>

Forge == INSTANCE ForgeDelivery

Store == INSTANCE EnvelopeStore
           WITH ProofKeys <- {}, Sessions <- Forge!SessionIds,
                ExecSessions <- {}, Messages <- {},
                InsertStatuses <- {"created"}

\* What the parts assume of their parameters.
ASSUME ForgeAssumption ==
  /\ Failures \subseteq Forge!FailurePoints
  /\ Launchable \subseteq Envelopes
  /\ MaxCached \in Nat \ {0}
  /\ None \notin Envelopes \cup Requests \cup Handles \cup Pids \cup Forge!SessionIds
ASSUME StoreAssumption == MaxHistory \in Nat /\ None \notin Store!Row
ASSUME MaxFaultsAssumption == MaxFaults \in Nat

Polling == [pc |-> "polling", env |-> None, req |-> None, sess |-> None]

Init ==
  /\ Store!Init
  /\ Forge!Init
  /\ worker = Polling
  /\ started = {}
  /\ faults = 0

StatusOf(e) == IF Store!Present(e) THEN rows[e].status ELSE "absent"

\* Mutant: envelopes that left the queue still hold up the younger ones.
IsNextCreated_AnyOlder(e) ==
  \E i \in DOMAIN Order :
    /\ Order[i] = e /\ StatusOf(e) = "created"
    /\ \A j \in 1..i-1 : StatusOf(Order[j]) = "absent"

\* NextCreated: the position in Order of the oldest created envelope.
IsNextCreated(e) ==
  \E i \in DOMAIN Order :
    /\ Order[i] = e /\ StatusOf(e) = "created"
    /\ \A j \in 1..i-1 : StatusOf(Order[j]) # "created"

\* At most MaxFaults things go wrong, or are meddled with, in a behaviour.
Disturbed == faults < MaxFaults /\ faults' = faults + 1
-----------------------------------------------------------------------------
(* Hermes *)

Submit(e) ==
  /\ Store!Insert(e, "created", {}, Store!NoProof)
  /\ UNCHANGED <<forge, worker, started, faults>>

Slot == CHOOSE r \in Requests : reqs[r] = Forge!Idle

\* TickOnce up to the POST, which takes a free slot of Forge's.  A POST that
\* never arrives changes nothing.
Post(e) ==
  /\ worker = Polling
  /\ IsNextCreated(e)
  /\ \E r \in Requests : reqs[r] = Forge!Idle
  /\ Forge!Receive(Slot, "deliver", e)
  /\ worker' = [Polling EXCEPT !.pc = "waiting", !.env = e, !.req = Slot]
  /\ UNCHANGED <<rows, started, faults>>

\* 200 and 201 carry a session id; every other status is an error, and the
\* worker polls again after its backoff, a 422 included.
Response ==
  /\ worker.pc = "waiting"
  /\ Forge!Finish(worker.req)
  /\ worker' = IF reqs[worker.req].result = "ok"
               THEN [worker EXCEPT !.pc = "acked", !.req = None,
                                   !.sess = reqs[worker.req].sess]
               ELSE Polling
  /\ UNCHANGED <<rows, started, faults>>

\* The client's 5 s are over, or the response was lost or unreadable: the
\* handler in Forge runs on, for nobody.
Timeout ==
  /\ worker.pc = "waiting"
  /\ Disturbed
  /\ worker' = Polling
  /\ UNCHANGED <<rows, forge, started>>

\* Mutants: the envelope to flip is looked up again; the wrong id is stored.
Confirm_NextCreated ==
  /\ worker.pc = "acked"
  /\ IF \E e \in Envelopes : IsNextCreated(e)
     THEN \E e \in Envelopes : IsNextCreated(e) /\ Store!MarkDelivered(e, worker.sess)
     ELSE UNCHANGED rows
  /\ worker' = Polling
  /\ UNCHANGED <<forge, started, faults>>
Confirm_WrongId ==
  /\ worker.pc = "acked"
  /\ IF StatusOf(worker.env) = "created"
     THEN Store!MarkDelivered(worker.env, worker.env)
     ELSE UNCHANGED rows
  /\ worker' = Polling
  /\ UNCHANGED <<forge, started, faults>>

\* MarkDelivered, or ErrNotFound when the row is no longer created.
Confirm ==
  /\ worker.pc = "acked"
  /\ IF StatusOf(worker.env) = "created"
     THEN Store!MarkDelivered(worker.env, worker.sess)
     ELSE UNCHANGED rows
  /\ worker' = Polling
  /\ UNCHANGED <<forge, started, faults>>

\* Hermes stops, or its context is cancelled before the flip, and starts anew.
HermesRestart ==
  /\ worker # Polling
  /\ Disturbed
  /\ worker' = Polling
  /\ UNCHANGED <<rows, forge, started>>

\* The operator, the MCP bridge or a script moves an envelope.
Operate(e, next) ==
  /\ Store!UpdateStatus(e, next, Store!NoProof)
  /\ next # rows[e].status
  /\ Disturbed
  /\ UNCHANGED <<forge, worker, started>>
-----------------------------------------------------------------------------
(* Forge and its executors *)

\* What Forge does by itself leaves Hermes alone, and Launch is remembered.
Aside ==
  /\ started' = started \cup
       {[env |-> procs'[h].env, pid |-> procs'[h].pid] : h \in owned' \ owned}
  /\ UNCHANGED <<rows, worker, faults>>

\* The worker's request is finished by Response.
ForgeRuns(r) == (Forge!Proceed(r) \/ (worker.req # r /\ Forge!Finish(r))) /\ Aside

ForgeLocks(r) == Forge!Acquire(r) /\ Aside

ForgeStep ==
  \/ \E r \in Requests : ForgeRuns(r) \/ ForgeLocks(r)
  \/ (\E h \in Handles : Forge!Exit(h)) /\ Aside
  \/ (\E w \in watchers : Forge!Cleanup(w)) /\ Aside

ForgeFault ==
  /\ Disturbed
  /\ Forge!Crash \/ \E r \in Requests : Forge!Fault(r)
  /\ UNCHANGED <<rows, worker, started>>

\* A process that runs, of this Forge or one that died, reports its status.  It
\* can do so as soon as it is started.
Report(h, next) ==
  /\ Forge!ProcRunning(h)
  /\ Store!UpdateStatus(procs[h].env, next, Store!NoProof)
  /\ next # rows[procs[h].env].status
  /\ UNCHANGED <<forge, worker, started, faults>>

Next ==
  \/ \E e \in Envelopes : Submit(e)
  \/ \E e \in Envelopes : Post(e)
  \/ Response
  \/ Timeout
  \/ Confirm
  \/ HermesRestart
  \/ \E e \in Envelopes, next \in Commands : Operate(e, next)
  \/ ForgeStep
  \/ ForgeFault
  \/ \E h \in Handles, next \in Reports : Report(h, next)

Spec == Init /\ [][Next]_vars

(***************************************************************************)
(* Hermes' ticker and Forge's goroutines keep running.  Nothing is assumed *)
(* of executors, operators and faults.                                     *)
(***************************************************************************)
Hermes == \/ \E e \in Envelopes : Post(e)
          \/ Response
          \/ Confirm

Fairness ==
  /\ WF_vars(Hermes)
  /\ \A r \in Requests : WF_vars(ForgeRuns(r) \/ ForgeLocks(r))

FairSpec == Spec /\ Fairness
-----------------------------------------------------------------------------
\* The worker's local variables; the rest is typed in the composed modules.
TypeOK ==
  /\ Store!TypeOK
  /\ Forge!TypeOK
  /\ worker \in [pc : {"polling", "waiting", "acked"}, env : Envelopes \cup {None},
                 req : Requests \cup {None}, sess : Forge!SessionIds \cup {None}]
  /\ started \subseteq Forge!SessionIds
  /\ faults \in 0..MaxFaults

\* W-H5, W-F1, W-F6: a row that says its envelope was delivered to a session is
\* backed by a row of Forge's register and by a process Forge really started for
\* this very envelope, through lost answers, retries, evictions of the ack cache
\* and restarts of either side.
BoundIsReal ==
  \A e \in Envelopes : Store!Present(e) /\ rows[e].binding # None =>
    /\ rows[e].binding \in started /\ rows[e].binding.env = e
    /\ Forge!RowsOf(e) # {}

\* W-H4/W-H14, when finitely many things go wrong: a queued envelope that Forge
\* can run leaves the queue at some time at which it was either given a status by
\* an operator or a process had been started for it.  The exception is the one of
\* EveryRequestAnswered: a stopped executor that is never done holds up the
\* hand-off of its envelope, and with it the queue behind.
QueuedIsStarted ==
  \A e \in Launchable :
    (StatusOf(e) = "created") ~>
      \/ /\ StatusOf(e) # "created"
         /\ StatusOf(e) \in Commands \/ \E s \in started : s.env = e
      \/ [](\E q \in Envelopes : Forge!Stopping(q))

\* "Hermes records delivered and later accepts truthful status transitions":
\* refuted, an executor's report can overtake the worker's flip, which then
\* matches no row and is not tried again.
DeliveryIsRecorded ==
  \A e \in Envelopes :
    Store!Present(e) ~> (Store!Present(e) /\ rows[e].binding # None)
===============================================================================
