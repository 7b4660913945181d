---------------------------- MODULE ForgeDelivery ----------------------------
(***************************************************************************)
(* Forge's side of a hand-off: POST /deliver and POST /sessions/{id}/resume *)
(* (forge/internal/httpapi), the process registry with its per-envelope    *)
(* spawn gate, and the SQLite session register.                            *)
(*                                                                         *)
(* Every request is a goroutine of its own and takes one step per lock     *)
(* section, store call or process operation, so that handlers, exiting     *)
(* executors and the registry's cleanup goroutines interleave as they do   *)
(* in the program.  Hermes derives the delivery id from the envelope id,   *)
(* so the acknowledgement cache is indexed by envelope here.               *)
(***************************************************************************)
EXTENDS Naturals, FiniteSets

CONSTANTS
  Envelopes,   \* envelope ids
  Requests,    \* slots for concurrent HTTP requests
  Handles,     \* bound: executor processes known at a time, reused when reaped
  Pids,        \* OS process ids, reused once their process is gone
  Launchable,  \* envelopes whose target_executor this Forge knows
  MaxCached,   \* maxCachedDeliveries
  Failures,    \* which calls may fail, see FailurePoints
  None

\* A request's store call fails when SQLite does or when its client went away.
FailurePoints == {"lookup", "launch", "store", "refetch", "resume_store",
                  "inject", "crash", "orphan"}

ASSUME FailuresAssumption == Failures \subseteq FailurePoints
ASSUME LaunchableAssumption == Launchable \subseteq Envelopes
ASSUME MaxCachedAssumption == MaxCached \in Nat \ {0}

\* "session-<envelope>-pid-<pid>"
SessionIds == [env : Envelopes, pid : Pids]

\* None stands for the empty string and for nil.
ASSUME NoneAssumption == None \notin Envelopes \cup Requests \cup Handles \cup Pids \cup SessionIds

VARIABLES
  sessions,  \* rows of the session register, by their primary key
  cache,     \* deliverHandler.deliveries: envelope -> acked session, or None
  gate,      \* SpawnGate: envelope -> request holding its mutex, or None
  registry,  \* ProcessRegistry.processes: session id -> process, or None
  watchers,  \* cleanup goroutines that wait for a process to exit
  procs,     \* the operating system's view of each process
  owned,     \* processes started since Forge's last start and not reaped yet
  slipped,   \* history: envelopes whose row a resume call could not read again
             \* or write since Forge's last start
  reqs       \* local state of each request

vars == <<sessions, cache, gate, registry, watchers, procs, owned, slipped, reqs>>

Idle == [pc |-> "idle", kind |-> "none", env |-> None, sess |-> None,
         proc |-> None, result |-> "none"]

NoProc == [state |-> "unused", env |-> None, pid |-> None]

Init ==
  /\ sessions = {}
  /\ cache    = [e \in Envelopes |-> None]
  /\ gate     = [e \in Envelopes |-> None]
  /\ registry = [s \in SessionIds |-> None]
  /\ watchers = {}
  /\ procs    = [h \in Handles |-> NoProc]
  /\ owned    = {}
  /\ slipped  = {}
  /\ reqs     = [r \in Requests |-> Idle]
-----------------------------------------------------------------------------
\* GetByEnvelope: the session id of a row of e, or None.
RowsOf(e) == {s \in sessions : s.env = e}
GetByEnvelope(e) == IF RowsOf(e) = {} THEN None ELSE CHOOSE s \in RowsOf(e) : TRUE

ProcRunning(h) == procs[h].state = "running"

\* ProcessRegistry.Running
Running(s) == s # None /\ registry[s] # None /\ ProcRunning(registry[s])

\* UpdateSessionID: every row of the envelope gets the new primary key.
UpdateSessionID(e, s) == sessions' = (sessions \ RowsOf(e)) \cup {s}

Unused == {h \in Handles : procs[h] = NoProc}

SidOf(h) == [env |-> procs[h].env, pid |-> procs[h].pid]

At(r, kind, pc) == reqs[r].kind = kind /\ reqs[r].pc = pc
Goto(r, pc) == reqs' = [reqs EXCEPT ![r].pc = pc]
\* Only /deliver's session is in the answer's way back to Hermes.
Answer(r, result, s) ==
  reqs' = [reqs EXCEPT ![r] =
    [Idle EXCEPT !.pc = "replied", !.env = reqs[r].env, !.sess = s, !.result = result]]
Reply(r, result) == Answer(r, result, None)
\* Nothing refers to the process any more.
Reap(h) ==
  /\ procs' = [procs EXCEPT ![h] = NoProc]
  /\ owned' = owned \ {h}

Unlock(r) == gate' = [gate EXCEPT ![reqs[r].env] = None]
-----------------------------------------------------------------------------
(* Both handlers. *)

Receive(r, kind, e) ==
  /\ reqs[r] = Idle
  /\ reqs' = [reqs EXCEPT ![r] =
       [Idle EXCEPT !.pc = IF kind = "deliver" THEN "cache" ELSE "fetch",
                    !.kind = kind, !.env = e]]
  /\ UNCHANGED <<sessions, cache, gate, registry, watchers, procs, owned, slipped>>

\* The client has read the response.
Finish(r) ==
  /\ reqs[r].pc = "replied"
  /\ reqs' = [reqs EXCEPT ![r] = Idle]
  /\ UNCHANGED <<sessions, cache, gate, registry, watchers, procs, owned, slipped>>

\* Mutant: the gate does not keep anyone out.
Acquire_NoWait(r) ==
  /\ reqs[r].pc = "gate"
  /\ gate' = [gate EXCEPT ![reqs[r].env] = r]
  /\ Goto(r, "lookup")
  /\ UNCHANGED <<sessions, cache, registry, watchers, procs, owned, slipped>>

Acquire(r) ==
  /\ reqs[r].pc = "gate"
  /\ gate[reqs[r].env] = None
  /\ gate' = [gate EXCEPT ![reqs[r].env] = r]
  /\ Goto(r, "lookup")
  /\ UNCHANGED <<sessions, cache, registry, watchers, procs, owned, slipped>>

\* Pids that no process, row, cache entry or variable of Forge holds are alike:
\* one of them stands for the others.
Remembered ==
  {procs[h].pid : h \in Handles}
  \cup {s.pid : s \in sessions \cup {w.sid : w \in watchers}
                  \cup (({cache[e] : e \in Envelopes} \cup {reqs[r].sess : r \in Requests})
                          \ {None})}
FreePids ==
  LET fresh == Pids \ Remembered IN
    {pid \in Pids \cap Remembered : \A h \in Handles : procs[h].pid = pid => ~ ProcRunning(h)}
      \cup (IF fresh = {} THEN {} ELSE {CHOOSE pid \in fresh : TRUE})

\* The launcher returned a started process with a pid of its own.
Launch(r) ==
  /\ reqs[r].pc = "launch"
  /\ reqs[r].env \in Launchable
  /\ Unused # {}
  /\ LET h == CHOOSE h \in Unused : TRUE IN
       /\ \E pid \in FreePids :
            procs' = [procs EXCEPT ![h] =
                        [state |-> "running", env |-> reqs[r].env, pid |-> pid]]
       /\ owned' = owned \cup {h}
       /\ reqs' = [reqs EXCEPT ![r].proc = h,
            ![r].pc = IF reqs[r].kind = "deliver" THEN "store" ELSE "register"]
  /\ UNCHANGED <<sessions, cache, gate, registry, watchers, slipped>>

\* ErrUnknownExecutor: /deliver answers 422.  A resume finds no row to get here.
UnknownExecutor(r) ==
  /\ reqs[r].pc = "launch"
  /\ reqs[r].env \notin Launchable
  /\ Reply(r, "unprocessable") /\ Unlock(r)
  /\ UNCHANGED <<sessions, cache, registry, watchers, procs, owned, slipped>>

\* Mutant: an error return without the unlock.
LaunchFails_KeepsGate(r) ==
  /\ reqs[r].pc = "launch" /\ "launch" \in Failures
  /\ Reply(r, "failed")
  /\ UNCHANGED <<sessions, cache, gate, registry, watchers, procs, owned, slipped>>

\* The executor could not be started, or has no pid.
LaunchFails(r) ==
  /\ reqs[r].pc = "launch" /\ "launch" \in Failures
  /\ Reply(r, "failed") /\ Unlock(r)
  /\ UNCHANGED <<sessions, cache, registry, watchers, procs, owned, slipped>>

\* Register, and the cleanup goroutine it starts.  For /deliver it is the last
\* thing done under the gate.
Register(r) ==
  /\ reqs[r].pc = "register"
  /\ LET s == SidOf(reqs[r].proc) IN
       /\ registry' = [registry EXCEPT ![s] = reqs[r].proc]
       /\ watchers' = watchers \cup {[sid |-> s, proc |-> reqs[r].proc]}
       /\ \/ /\ reqs[r].kind = "deliver"
             /\ reqs' = [reqs EXCEPT ![r].sess = s, ![r].proc = None, ![r].pc = "ack"]
             /\ Unlock(r)
          \/ /\ reqs[r].kind = "resume"
             /\ reqs' = [reqs EXCEPT ![r].sess = s, ![r].proc = None, ![r].pc = "store"]
             /\ UNCHANGED gate
  /\ UNCHANGED <<sessions, cache, procs, owned, slipped>>
-----------------------------------------------------------------------------
(* POST /deliver. *)

\* The cache lock covers only the look-up: a miss continues without it.
CheckCache(r) ==
  /\ At(r, "deliver", "cache")
  /\ \/ /\ cache[reqs[r].env] # None
        /\ Answer(r, "ok", cache[reqs[r].env])
     \/ cache[reqs[r].env] = None /\ Goto(r, "gate")
  /\ UNCHANGED <<sessions, cache, gate, registry, watchers, procs, owned, slipped>>

\* ensureSession under the gate: reuse a live session, or go on to spawn.
DeliverLookup(r) ==
  /\ At(r, "deliver", "lookup")
  /\ LET s == GetByEnvelope(reqs[r].env) IN
       \/ /\ Running(s)
          /\ reqs' = [reqs EXCEPT ![r].sess = s, ![r].pc = "ack"]
          /\ Unlock(r)
       \/ /\ ~ Running(s)
          /\ reqs' = [reqs EXCEPT ![r].sess = s, ![r].pc = "launch"]
          /\ UNCHANGED gate
  /\ UNCHANGED <<sessions, cache, registry, watchers, procs, owned, slipped>>

DeliverLookupFails(r) ==
  /\ At(r, "deliver", "lookup") /\ "lookup" \in Failures
  /\ Reply(r, "failed") /\ Unlock(r)
  /\ UNCHANGED <<sessions, cache, registry, watchers, procs, owned, slipped>>

\* Insert the first row of the envelope, or rename the one it has.
DeliverStore(r) ==
  /\ At(r, "deliver", "store")
  /\ LET s == SidOf(reqs[r].proc) IN
       IF reqs[r].sess = None THEN sessions' = sessions \cup {s}
                              ELSE UpdateSessionID(reqs[r].env, s)
  /\ Goto(r, "register")
  /\ UNCHANGED <<cache, gate, registry, watchers, procs, owned, slipped>>

\* Mutant: the error is ignored.
DeliverStoreFails_Ignored(r) ==
  /\ At(r, "deliver", "store") /\ "store" \in Failures
  /\ Goto(r, "register")
  /\ UNCHANGED <<sessions, cache, gate, registry, watchers, procs, owned, slipped>>

\* The new process is to be stopped before the error is returned.
DeliverStoreFails(r) ==
  /\ At(r, "deliver", "store") /\ "store" \in Failures
  /\ Goto(r, "stop")
  /\ UNCHANGED <<sessions, cache, gate, registry, watchers, procs, owned, slipped>>

\* Stop closes the executor's stdin, kills it after 3 s, and then waits for it to be
\* done, however long a descendant keeps its output open; the gate is held meanwhile.
StopReturns(r) ==
  /\ At(r, "deliver", "stop")
  /\ procs[reqs[r].proc].state = "exited"
  /\ Reap(reqs[r].proc)
  /\ Reply(r, "failed") /\ Unlock(r)
  /\ UNCHANGED <<sessions, cache, registry, watchers, slipped>>

\* Mutant: the envelope is remembered for the session.
Ack_CachesEnvelope(r) ==
  /\ At(r, "deliver", "ack")
  /\ cache' = [cache EXCEPT ![reqs[r].env] = reqs[r].env]
  /\ Answer(r, "ok", reqs[r].sess)
  /\ UNCHANGED <<sessions, gate, registry, watchers, procs, owned, slipped>>

\* A full cache is replaced by an empty one before the ack is remembered.
Ack(r) ==
  /\ At(r, "deliver", "ack")
  /\ LET full == Cardinality({e \in Envelopes : cache[e] # None}) >= MaxCached
     IN  cache' = [e \in Envelopes |->
                     IF e = reqs[r].env THEN reqs[r].sess
                     ELSE IF full THEN None ELSE cache[e]]
  /\ Answer(r, "ok", reqs[r].sess)
  /\ UNCHANGED <<sessions, gate, registry, watchers, procs, owned, slipped>>
-----------------------------------------------------------------------------
(* POST /sessions/{envelope_id}/resume. *)

ResumeFetch(r) ==
  /\ At(r, "resume", "fetch")
  /\ LET s == GetByEnvelope(reqs[r].env) IN
       \/ s = None /\ Reply(r, "failed")
       \/ s # None /\ reqs' = [reqs EXCEPT ![r].sess = s, ![r].pc = "gate"]
  /\ UNCHANGED <<sessions, cache, gate, registry, watchers, procs, owned, slipped>>

\* The row is read again under the gate; when that fails the request goes on
\* with the one it read before it waited.
ResumeLookup(r) ==
  /\ At(r, "resume", "lookup")
  /\ \E s \in {GetByEnvelope(reqs[r].env)}
               \cup (IF "refetch" \in Failures THEN {reqs[r].sess} ELSE {}) :
       /\ reqs' = [reqs EXCEPT ![r].sess = None,
                               ![r].pc = IF Running(s) THEN "inject" ELSE "launch"]
       /\ slipped' = IF s = GetByEnvelope(reqs[r].env) THEN slipped
                     ELSE slipped \cup {reqs[r].env}
  /\ UNCHANGED <<sessions, cache, gate, registry, watchers, procs, owned>>

ResumeStore(r) ==
  /\ At(r, "resume", "store")
  /\ UpdateSessionID(reqs[r].env, reqs[r].sess)
  /\ reqs' = [reqs EXCEPT ![r].sess = None, ![r].pc = "inject"]
  /\ UNCHANGED <<cache, gate, registry, watchers, procs, owned, slipped>>

\* The process stays registered and running; the row keeps the dead session.
ResumeStoreFails(r) ==
  /\ At(r, "resume", "store") /\ "resume_store" \in Failures
  /\ slipped' = slipped \cup {reqs[r].env}
  /\ Reply(r, "failed") /\ Unlock(r)
  /\ UNCHANGED <<sessions, cache, registry, watchers, procs, owned>>

\* Discover the executor's own session and post the message to it.
Inject(r) ==
  /\ At(r, "resume", "inject")
  /\ Reply(r, "ok") /\ Unlock(r)
  /\ UNCHANGED <<sessions, cache, registry, watchers, procs, owned, slipped>>

InjectFails(r) ==
  /\ At(r, "resume", "inject") /\ "inject" \in Failures
  /\ Reply(r, "failed") /\ Unlock(r)
  /\ UNCHANGED <<sessions, cache, registry, watchers, procs, owned, slipped>>
-----------------------------------------------------------------------------
(* The environment of the handlers. *)

\* A process is done: it has ended and nothing holds its output any more.
\* The end of an executor an earlier Forge started is nobody's business.
Exit(h) ==
  /\ ProcRunning(h)
  /\ procs' = [procs EXCEPT ![h] = IF h \in owned THEN [@ EXCEPT !.state = "exited"]
                                   ELSE NoProc]
  /\ UNCHANGED <<sessions, cache, gate, registry, watchers, owned, slipped, reqs>>

\* Mutant: the entry is deleted whatever process it holds by now.
Cleanup_AnyProcess(w) ==
  /\ w \in watchers
  /\ procs[w.proc].state = "exited"
  /\ registry' = [registry EXCEPT ![w.sid] = None]
  /\ watchers' = watchers \ {w}
  /\ Reap(w.proc)
  /\ UNCHANGED <<sessions, cache, gate, slipped, reqs>>

\* The cleanup goroutine deletes the entry only if it is still this process.
Cleanup(w) ==
  /\ w \in watchers
  /\ procs[w.proc].state = "exited"
  /\ registry' = IF registry[w.sid] = w.proc
                 THEN [registry EXCEPT ![w.sid] = None] ELSE registry
  /\ watchers' = watchers \ {w}
  /\ Reap(w.proc)
  /\ UNCHANGED <<sessions, cache, gate, slipped, reqs>>

\* Forge dies and is started again: memory is lost, connections break, the
\* register stays.  Executors are in no process group of their own and get no
\* signal, so any of them may live on.
Crash ==
  /\ "crash" \in Failures
  /\ cache'    = [e \in Envelopes |-> None]
  /\ gate'     = [e \in Envelopes |-> None]
  /\ registry' = [s \in SessionIds |-> None]
  /\ watchers' = {}
  /\ owned'    = {}
  /\ slipped'  = {}
  /\ reqs'     = [r \in Requests |->
                    IF reqs[r] = Idle THEN Idle
                    ELSE [Idle EXCEPT !.pc = "replied", !.env = reqs[r].env,
                                      !.result = "failed"]]
  /\ \E orphans \in SUBSET {h \in Handles : ProcRunning(h) /\ "orphan" \in Failures} :
       procs' = [h \in Handles |-> IF h \in orphans THEN procs[h] ELSE NoProc]
  /\ UNCHANGED sessions

\* A request handler's own steps, other than waiting for the gate.
Proceed(r) ==
  \/ Launch(r)
  \/ UnknownExecutor(r)
  \/ Register(r)
  \/ CheckCache(r)
  \/ DeliverLookup(r)
  \/ DeliverStore(r)
  \/ StopReturns(r)
  \/ Ack(r)
  \/ ResumeFetch(r)
  \/ ResumeLookup(r)
  \/ ResumeStore(r)
  \/ Inject(r)

\* The error returns of the same steps.
Fault(r) ==
  \/ LaunchFails(r)
  \/ DeliverLookupFails(r)
  \/ DeliverStoreFails(r)
  \/ ResumeStoreFails(r)
  \/ InjectFails(r)

Handle(r) == Proceed(r) \/ Fault(r)

Next ==
  \/ \E r \in Requests, kind \in {"deliver", "resume"}, e \in Envelopes : Receive(r, kind, e)
  \/ \E r \in Requests : Handle(r) \/ Acquire(r) \/ Finish(r)
  \/ \E h \in Handles : Exit(h)
  \/ \E w \in watchers : Cleanup(w)
  \/ Crash

Spec == Init /\ [][Next]_vars

\* The Go scheduler runs every goroutine, and a waiter on a sync.Mutex is
\* handed the lock after at most a millisecond of being overtaken.  Nothing is
\* assumed of executors: not even one that is stopped need ever be done.
Fairness == \A r \in Requests : WF_vars(Handle(r)) /\ SF_vars(Acquire(r))
FairSpec == Spec /\ Fairness
-----------------------------------------------------------------------------
PCs == {"idle", "cache", "fetch", "gate", "lookup", "launch", "store",
        "stop", "register", "ack", "inject", "replied"}

\* The shape of the handlers' memory, the register and the process table.
TypeOK ==
  /\ sessions \subseteq SessionIds
  /\ cache    \in [Envelopes -> SessionIds \cup {None}]
  /\ gate     \in [Envelopes -> Requests \cup {None}]
  /\ registry \in [SessionIds -> Handles \cup {None}]
  /\ watchers \subseteq [sid : SessionIds, proc : Handles]
  /\ procs    \in [Handles -> [state : {"unused", "running", "exited"},
                               env : Envelopes \cup {None}, pid : Pids \cup {None}]]
  /\ owned    \subseteq Handles
  /\ slipped  \subseteq Envelopes
  /\ reqs     \in [Requests -> [pc : PCs, kind : {"none", "deliver", "resume"},
                                env : Envelopes \cup {None},
                                sess : SessionIds \cup {None},
                                proc : Handles \cup {None}, result : {"none", "ok", "failed", "unprocessable"}]]

LiveOf(e) == {h \in owned : ProcRunning(h) /\ procs[h].env = e}

\* The spawn gate's purpose: whatever /deliver and /resume calls race for an
\* envelope, at most one executor Forge started for it since boot is alive,
\* unless the register failed a resume call.
OneLiveExecutor ==
  \A e \in Envelopes \ slipped : Cardinality(LiveOf(e)) <= 1

\* An executor that runs is never lost: once the gate is free again its
\* envelope's row names the session it is registered under, so input, output,
\* notify and resume calls reach it (no cleanup of an earlier process with the
\* same pid and no failed call may have unlinked it).
LiveIsReachable ==
  \A e \in Envelopes \ slipped : gate[e] = None =>
    \A h \in LiveOf(e) : \E s \in RowsOf(e) : registry[s] = h

\* Every request is answered: no handler keeps the gate it returned under, and
\* respawning under the gate does not wait for the gate.  The exception is an
\* executor that was stopped because its session could not be stored, and whose
\* output some descendant never closes: it holds the gate of its envelope, and
\* all who wait there, for ever.  (A request that was received is idle again only
\* after it was answered.)
Stopping(e) == \E q \in Requests : reqs[q].env = e /\ reqs[q].pc = "stop"

EveryRequestAnswered ==
  \A r \in Requests :
    []<>(reqs[r].pc \in {"idle", "replied"}) \/ <>[](Stopping(reqs[r].env))

Service == INSTANCE ForgeService
             WITH accepted <- {s.env : s \in sessions},
                  lapsed   <- slipped,
                 live     <- [e \in Envelopes |-> LiveOf(e)],
                  calls    <- [r \in Requests |->
                                 [env |-> reqs[r].env, answer |-> reqs[r].result]]

\* Every interleaving of the handlers looks, to the callers, like a behaviour of
\* the service that has no sessions, locks or cache.
ImplementsService == Service!Spec
=============================================================================
