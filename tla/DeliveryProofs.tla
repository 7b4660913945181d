---------------------------- MODULE DeliveryProofs ----------------------------
(***************************************************************************)
(* Proofs about the composed system: what ForgeDeliveryProofs shows of     *)
(* Forge still holds with the worker, the network and the executors around *)
(* it, and a binding in Hermes' database names a session that was really   *)
(* started for its envelope.                                               *)
(***************************************************************************)
EXTENDS Delivery, TLAPS

\* What is proved of Forge by itself.
F == INSTANCE ForgeDeliveryProofs

\* What is proved of Hermes' register by itself.
S == INSTANCE EnvelopeStoreProofs
       WITH ProofKeys <- {}, Sessions <- Forge!SessionIds,
            ExecSessions <- {}, Messages <- {},
            InsertStatuses <- {"created"}

\* An executor was started for e under the session id s.
Names(s, e) == s \in started /\ s.env = e

\* Requests know and answer only sessions of their envelope that were started,
\* and none promises one before the register has a row.
Promised(r) ==
  /\ reqs[r].kind # "resume"
  /\ reqs[r].sess # None => Names(reqs[r].sess, reqs[r].env)
  /\ reqs[r].pc = "ack" \/ reqs[r].result = "ok" =>
       reqs[r].sess # None /\ F!RowsOf(reqs[r].env) # {}

\* So does whatever Forge remembers.
Genuine ==
  /\ sessions \subseteq started
  /\ \A h \in owned : F!SidOf(h) \in started
  /\ \A e \in Envelopes : cache[e] # None => Names(cache[e], e)
  /\ \A r \in Requests : Promised(r)

\* The worker's request is the one for its envelope, and no one else ends it.
Attached ==
  /\ worker.pc # "polling" => worker.env \in Envelopes
  /\ worker.pc = "waiting" => worker.req \in Requests
                              /\ reqs[worker.req].env = worker.env
                              /\ reqs[worker.req].pc # "idle"
  /\ worker.pc = "acked" => Names(worker.sess, worker.env) /\ F!RowsOf(worker.env) # {}

\* BoundIsReal, of one row.
Real(e) == rows[e] # None /\ rows[e].binding # None =>
             Names(rows[e].binding, e) /\ F!RowsOf(e) # {}

\* The inductive invariant.  A binding is the last link of a chain: the process
\* that was launched, the row and the ack that name it, the answer that carries
\* it and the worker that stores it.  Each link rests on the one before.
IInv == TypeOK /\ F!IInv /\ Genuine /\ Attached /\ \A e \in Envelopes : Real(e)

\* The parts' assumptions are this module's.
LEMMA ForgeAssumes ==
  /\ Failures \subseteq F!FailurePoints
  /\ Launchable \subseteq Envelopes
  /\ MaxCached \in Nat \ {0}
  /\ None \notin Envelopes \cup Requests \cup Handles \cup Pids \cup F!SessionIds
BY ForgeAssumption DEF Forge!FailurePoints, F!FailurePoints, Forge!SessionIds, F!SessionIds

\* The two instances of Forge are one module: their operators agree.
LEMMA Same ==
  /\ \A h : Forge!SidOf(h) = F!SidOf(h)
  /\ \A h : Forge!ProcRunning(h) = F!ProcRunning(h)
  /\ \A r, kind, pc : Forge!At(r, kind, pc) = F!At(r, kind, pc)
  /\ \A e : Forge!RowsOf(e) = F!RowsOf(e)
  /\ \A e : Forge!GetByEnvelope(e) = F!GetByEnvelope(e)
  /\ \A s : Forge!Running(s) = F!Running(s)
  /\ \A r : Forge!Unlock(r) = F!Unlock(r)
  /\ \A r, pc : Forge!Goto(r, pc) = F!Goto(r, pc)
  /\ \A r, result, s : Forge!Answer(r, result, s) = F!Answer(r, result, s)
  /\ \A r, result : Forge!Reply(r, result) = F!Reply(r, result)
  /\ \A h : Forge!Reap(h) = F!Reap(h)
  /\ \A e, s : Forge!UpdateSessionID(e, s) = F!UpdateSessionID(e, s)
  /\ Forge!Idle = F!Idle
  /\ Forge!NoProc = F!NoProc
  /\ Forge!SessionIds = F!SessionIds
  /\ Forge!Unused = F!Unused
  /\ Forge!FreePids = F!FreePids
<1>1. \A h : Forge!SidOf(h) = F!SidOf(h)
  BY DEF Forge!SidOf, F!SidOf
<1>2. \A h : Forge!ProcRunning(h) = F!ProcRunning(h)
  BY DEF Forge!ProcRunning, F!ProcRunning
<1>3. \A r, kind, pc : Forge!At(r, kind, pc) = F!At(r, kind, pc)
  BY DEF Forge!At, F!At
<1>4. \A e : Forge!RowsOf(e) = F!RowsOf(e)
  BY DEF Forge!RowsOf, F!RowsOf
<1>5. \A e : Forge!GetByEnvelope(e) = F!GetByEnvelope(e)
  BY DEF Forge!GetByEnvelope, F!GetByEnvelope, Forge!RowsOf, F!RowsOf
<1>6. \A s : Forge!Running(s) = F!Running(s)
  BY DEF Forge!Running, F!Running, Forge!ProcRunning, F!ProcRunning
<1>7. \A r : Forge!Unlock(r) = F!Unlock(r)
  BY DEF Forge!Unlock, F!Unlock
<1>8. \A r, pc : Forge!Goto(r, pc) = F!Goto(r, pc)
  BY DEF Forge!Goto, F!Goto
<1>9. \A r, result, s : Forge!Answer(r, result, s) = F!Answer(r, result, s)
  BY DEF Forge!Answer, F!Answer, Forge!Idle, F!Idle
<1>10. \A r, result : Forge!Reply(r, result) = F!Reply(r, result)
  BY DEF Forge!Reply, F!Reply, Forge!Answer, F!Answer, Forge!Idle, F!Idle
<1>11. \A h : Forge!Reap(h) = F!Reap(h)
  BY DEF Forge!Reap, F!Reap, Forge!NoProc, F!NoProc
<1>12. \A e, s : Forge!UpdateSessionID(e, s) = F!UpdateSessionID(e, s)
  BY DEF Forge!UpdateSessionID, F!UpdateSessionID, Forge!RowsOf, F!RowsOf
<1>13. Forge!Idle = F!Idle /\ Forge!NoProc = F!NoProc
  BY DEF Forge!Idle, F!Idle, Forge!NoProc, F!NoProc
<1>14. Forge!SessionIds = F!SessionIds
  BY DEF Forge!SessionIds, F!SessionIds
<1>15. Forge!FreePids = F!FreePids
  BY DEF Forge!FreePids, F!FreePids, Forge!Remembered, F!Remembered, Forge!ProcRunning,
         F!ProcRunning
<1>16. Forge!Unused = F!Unused
  BY DEF Forge!Unused, F!Unused, Forge!NoProc, F!NoProc
<1> QED BY <1>1, <1>2, <1>3, <1>4, <1>5, <1>6, <1>7, <1>8,
           <1>9, <1>10, <1>11, <1>12, <1>13, <1>14, <1>15, <1>16

\* And so do the steps of a handler.
LEMMA SameHandler ==
  ASSUME NEW r
  PROVE  /\ Forge!Proceed(r) => F!Proceed(r)
         /\ Forge!Fault(r) => F!Fault(r)
<1> USE Same
<1>1. ASSUME Forge!Launch(r) PROVE F!Launch(r)
  BY <1>1, ZenonT(60) DEF Forge!Launch, F!Launch
<1>2. ASSUME Forge!UnknownExecutor(r) PROVE F!UnknownExecutor(r)
  BY <1>2, Zenon DEF Forge!UnknownExecutor, F!UnknownExecutor
<1>3. ASSUME Forge!Register(r) PROVE F!Register(r)
  BY <1>3, Zenon DEF Forge!Register, F!Register
<1>4. ASSUME Forge!CheckCache(r) PROVE F!CheckCache(r)
  BY <1>4, Zenon DEF Forge!CheckCache, F!CheckCache
<1>5. ASSUME Forge!DeliverLookup(r) PROVE F!DeliverLookup(r)
  BY <1>5, Zenon DEF Forge!DeliverLookup, F!DeliverLookup
<1>6. ASSUME Forge!DeliverStore(r) PROVE F!DeliverStore(r)
  BY <1>6, Zenon DEF Forge!DeliverStore, F!DeliverStore
<1>7. ASSUME Forge!Ack(r) PROVE F!Ack(r)
  <2>1. F!At(r, "deliver", "ack")
    BY <1>7, Zenon DEF Forge!Ack
  <2>2. F!Answer(r, "ok", reqs[r].sess)
    BY <1>7, Zenon DEF Forge!Ack
  <2> QED BY <1>7, <2>1, <2>2, Zenon
          DEF Forge!Ack, F!Ack, Forge!Cardinality, F!Cardinality
<1>8. ASSUME Forge!ResumeFetch(r) PROVE F!ResumeFetch(r)
  BY <1>8, Zenon DEF Forge!ResumeFetch, F!ResumeFetch
<1>9. ASSUME Forge!ResumeLookup(r) PROVE F!ResumeLookup(r)
  BY <1>9, Zenon DEF Forge!ResumeLookup, F!ResumeLookup
<1>10. ASSUME Forge!ResumeStore(r) PROVE F!ResumeStore(r)
  BY <1>10, Zenon DEF Forge!ResumeStore, F!ResumeStore
<1>11. ASSUME Forge!Inject(r) PROVE F!Inject(r)
  BY <1>11, Zenon DEF Forge!Inject, F!Inject
<1>12. ASSUME Forge!LaunchFails(r) PROVE F!LaunchFails(r)
  BY <1>12, Zenon DEF Forge!LaunchFails, F!LaunchFails
<1>13. ASSUME Forge!DeliverLookupFails(r) PROVE F!DeliverLookupFails(r)
  BY <1>13, Zenon DEF Forge!DeliverLookupFails, F!DeliverLookupFails
<1>14. ASSUME Forge!DeliverStoreFails(r) PROVE F!DeliverStoreFails(r)
  BY <1>14, Zenon DEF Forge!DeliverStoreFails, F!DeliverStoreFails
<1>15. ASSUME Forge!ResumeStoreFails(r) PROVE F!ResumeStoreFails(r)
  BY <1>15, Zenon DEF Forge!ResumeStoreFails, F!ResumeStoreFails
<1>16. ASSUME Forge!InjectFails(r) PROVE F!InjectFails(r)
  BY <1>16, Zenon DEF Forge!InjectFails, F!InjectFails
<1>11a. ASSUME Forge!StopReturns(r) PROVE F!StopReturns(r)
  BY <1>11a, Zenon DEF Forge!StopReturns, F!StopReturns
<1>17. Forge!Proceed(r) => F!Proceed(r)
  BY <1>1, <1>2, <1>3, <1>4, <1>5, <1>6, <1>7, <1>8, <1>9, <1>10, <1>11, <1>11a, Zenon
     DEF Forge!Proceed, F!Proceed
<1>18. Forge!Fault(r) => F!Fault(r)
  BY <1>12, <1>13, <1>14, <1>15, <1>16, Zenon DEF Forge!Fault, F!Fault
<1> QED BY <1>17, <1>18, Zenon

\* And the steps around the handlers.
LEMMA SameSurroundings ==
  /\ \A r : Forge!Acquire(r) => F!Acquire(r)
  /\ \A r : Forge!Finish(r) => F!Finish(r)
  /\ \A r, kind, e : Forge!Receive(r, kind, e) => F!Receive(r, kind, e)
  /\ \A h : Forge!Exit(h) => F!Exit(h)
  /\ \A w : Forge!Cleanup(w) => F!Cleanup(w)
  /\ Forge!Crash => F!Crash
<1> USE Same
<1>1. \A r : Forge!Acquire(r) => F!Acquire(r)
  BY Zenon DEF Forge!Acquire, F!Acquire
<1>2. \A r : Forge!Finish(r) => F!Finish(r)
  BY Zenon DEF Forge!Finish, F!Finish
<1>3. \A r, kind, e : Forge!Receive(r, kind, e) => F!Receive(r, kind, e)
  BY Zenon DEF Forge!Receive, F!Receive
<1>4. \A h : Forge!Exit(h) => F!Exit(h)
  BY Zenon DEF Forge!Exit, F!Exit
<1>5. \A w : Forge!Cleanup(w) => F!Cleanup(w)
  BY Zenon DEF Forge!Cleanup, F!Cleanup
<1>6. ASSUME Forge!Crash PROVE F!Crash
  BY <1>6, Zenon DEF Forge!Crash, F!Crash
<1> QED BY <1>1, <1>2, <1>3, <1>4, <1>5, <1>6, Zenon

\* Every step of the composition is a step of Forge or leaves it alone.
LEMMA ForgeMoves ==
  ASSUME Attached, [Next]_vars
  PROVE  [F!Next]_(F!vars)
<1> USE SameHandler, SameSurroundings
<1>1. ASSUME UNCHANGED forge
      PROVE  UNCHANGED F!vars
  BY <1>1 DEF forge, F!vars
<1>2. ASSUME NEW e \in Envelopes, Post(e)
      PROVE  F!Next
  <2>1. Slot \in Requests
    BY <1>2 DEF Post, Slot
  <2> QED BY <1>2, <2>1 DEF Post, F!Next
<1>3. ASSUME Response
      PROVE  F!Next
  BY <1>3 DEF Response, Attached, F!Next
<1>4. ASSUME ForgeStep
      PROVE  F!Next
  BY <1>4 DEF ForgeStep, ForgeRuns, ForgeLocks, F!Next, F!Handle
<1>5. ASSUME ForgeFault
      PROVE  F!Next
  BY <1>5 DEF ForgeFault, F!Next, F!Handle
<1>6. ASSUME NEW e \in Envelopes, Submit(e)
      PROVE  UNCHANGED forge
  BY <1>6 DEF Submit
<1>7. ASSUME Timeout \/ Confirm \/ HermesRestart
      PROVE  UNCHANGED forge
  BY <1>7 DEF Timeout, Confirm, HermesRestart
<1>8. ASSUME NEW e \in Envelopes, NEW next \in Commands, Operate(e, next)
      PROVE  UNCHANGED forge
  BY <1>8 DEF Operate
<1>9. ASSUME NEW h \in Handles, NEW next \in Reports, Report(h, next)
      PROVE  UNCHANGED forge
  BY <1>9 DEF Report
<1>10. CASE UNCHANGED vars
  BY <1>1, <1>10 DEF vars
<1>11. CASE Next
  BY <1>1, <1>2, <1>3, <1>4, <1>5, <1>6, <1>7, <1>8, <1>9, <1>11 DEF Next
<1> QED BY <1>10, <1>11

\* So what holds of Forge alone holds here.
LEMMA ForgeKeeps ==
  ASSUME F!IInv, Attached, [Next]_vars
  PROVE  F!IInv'
BY ForgeMoves, ForgeAssumes, F!NextKeeps
-----------------------------------------------------------------------------
\* A row of an envelope is renamed, never removed.
RowsStay == \A e \in Envelopes : F!RowsOf(e) # {} => F!RowsOf(e)' # {}

\* A call is not given up before its answer is read.
CallsStay ==
  \A r \in Requests : reqs[r].pc # "idle" =>
    reqs'[r].pc # "idle" /\ reqs'[r].env = reqs[r].env

\* What a step of Forge must do to keep the chain.
Linked == Genuine' /\ RowsStay /\ CallsStay /\ started \subseteq started'

\* A step of one request keeps the chain if what it touches does.
LEMMA StepLinks ==
  ASSUME Genuine, NEW r \in Requests,
         reqs[r].pc # "idle" => reqs'[r].pc # "idle" /\ reqs'[r].env = reqs[r].env,
         \A o \in Requests \ {r} : reqs'[o] = reqs[o],
         F!IInv, started \subseteq started', sessions' \subseteq started', RowsStay,
         \A h \in owned' : F!SidOf(h)' \in started',
         \A e \in Envelopes : cache'[e] # None => cache'[e] \in started' /\ cache'[e].env = e,
         Promised(r)'
  PROVE  Linked
<1>1. \A o \in Requests \ {r} : Promised(o)'
  <2> SUFFICES ASSUME NEW o \in Requests \ {r}
               PROVE  Promised(o)'
    OBVIOUS
  <2>1. /\ Promised(o) /\ reqs'[o] = reqs[o]
        /\ reqs[o].pc = "ack" \/ reqs[o].result = "ok" => reqs[o].env \in Envelopes
    BY DEF Genuine, F!IInv, F!Shapes, F!Shape
  <2>2. reqs[o].sess # None => Names(reqs[o].sess, reqs[o].env)'
    BY <2>1 DEF Promised, Names
  <2> QED BY <2>1, <2>2 DEF Promised, RowsStay, Names
<1>2. Genuine'
  <2>1. \A e \in Envelopes : cache[e]' # None => Names(cache[e], e)'
    BY DEF Names
  <2> QED BY <1>1, <2>1 DEF Genuine
<1>3. CallsStay
  BY DEF CallsStay
<1> QED BY <1>2, <1>3 DEF Linked
\* An error answer names no session.
LEMMA RefusalLinks ==
  ASSUME F!IInv, Genuine, NEW r \in Requests, NEW result \in {"failed", "unprocessable"},
         F!Reply(r, result), reqs[r].pc # "idle", started' = started,
         UNCHANGED <<sessions, cache>>,
         owned' \subseteq owned, \A h \in owned' : procs'[h] = procs[h]
  PROVE  Linked
<1>1. reqs' = [reqs EXCEPT ![r] = [F!Idle EXCEPT !.pc = "replied", !.env = reqs[r].env,
                                                 !.sess = None, !.result = result]]
  BY DEF F!Reply, F!Answer
<1>2. /\ \A o \in Requests \ {r} : reqs'[o] = reqs[o]
      /\ reqs'[r].pc = "replied" /\ reqs'[r].env = reqs[r].env /\ reqs'[r].sess = None
      /\ reqs'[r].kind = "none" /\ reqs'[r].result = result
  BY <1>1 DEF F!IInv, F!TypeOK, F!Idle
<1>3. Promised(r)'
  BY <1>2 DEF Promised
<1>4. \A h \in owned' : F!SidOf(h)' \in started'
  BY DEF Genuine, F!SidOf
<1>5. RowsStay
  BY DEF RowsStay, F!RowsOf
<1> QED BY <1>2, <1>3, <1>4, <1>5, StepLinks DEF Genuine, Names

\* Nothing is started but by Launch.
LEMMA NoneStarted ==
  ASSUME Aside, owned' \subseteq owned
  PROVE  started' = started
BY DEF Aside

\* A process that is launched is started for the request's envelope.
LEMMA LaunchLinks ==
  ASSUME F!IInv, Genuine, NEW r \in Requests, F!Launch(r), Aside
  PROVE  Linked
<1>1. PICK h \in Handles, pid \in Pids :
        /\ procs[h] = F!NoProc
        /\ procs' = [procs EXCEPT ![h] = [state |-> "running", env |-> reqs[r].env, pid |-> pid]]
        /\ owned' = owned \cup {h}
        /\ reqs' = [reqs EXCEPT ![r].proc = h,
             ![r].pc = IF reqs[r].kind = "deliver" THEN "store" ELSE "register"]
        /\ UNCHANGED <<sessions, cache>> /\ reqs[r].pc = "launch"
  BY DEF F!Launch, F!Unused, F!FreePids
<1>2. h \notin owned
  BY <1>1 DEF F!IInv, F!Backing, F!NoProc
<1>3. procs'[h].env = reqs[r].env /\ procs'[h].pid = pid
      /\ \A k \in Handles \ {h} : procs'[k] = procs[k]
  BY <1>1 DEF F!IInv, F!TypeOK
<1>4. started' = started \cup {F!SidOf(h)'}
  BY <1>1, <1>2, <1>3 DEF Aside, F!SidOf
<1>5. \A k \in owned' : F!SidOf(k)' \in started'
  BY <1>1, <1>3, <1>4 DEF Genuine, F!SidOf, F!IInv, F!TypeOK
<1>6. /\ \A o \in Requests \ {r} : reqs'[o] = reqs[o]
      /\ reqs'[r].pc \in {"store", "register"} /\ reqs'[r].env = reqs[r].env
      /\ reqs'[r].sess = reqs[r].sess /\ reqs'[r].kind = reqs[r].kind
      /\ reqs'[r].result = reqs[r].result
  BY <1>1 DEF F!IInv, F!TypeOK
<1>7. RowsStay
  BY <1>1 DEF RowsStay, F!RowsOf
<1>8. Promised(r)'
  <2>1. Promised(r) /\ reqs[r].result = "none"
    BY <1>1 DEF Genuine, F!IInv, F!Shapes, F!Shape, F!TypeOK
  <2> QED BY <2>1, <1>4, <1>6 DEF Promised, Names
<1> QED BY <1>1, <1>4, <1>5, <1>6, <1>7, <1>8, StepLinks DEF Genuine, Names

\* The session a request registers is that of the process it carries.
LEMMA RegisterLinks ==
  ASSUME F!IInv, Genuine, NEW r \in Requests, F!Register(r), started' = started
  PROVE  Linked
<1> DEFINE p == reqs[r].proc
           s == F!SidOf(p)
<1>1. /\ reqs[r].pc = "register" /\ UNCHANGED <<sessions, cache, procs, owned>>
      /\ reqs[r].kind = "deliver"
      /\ reqs' = [reqs EXCEPT ![r].sess = s, ![r].proc = None, ![r].pc = "ack"]
  BY DEF F!Register, Genuine, Promised
<1>2. p \in owned /\ s.env = reqs[r].env /\ s \in sessions /\ reqs[r].env \in Envelopes
  BY <1>1 DEF F!IInv, F!Hands, F!Hand, F!Carries, F!At, F!SidOf, F!Shapes, F!Shape
<1> HIDE DEF p, s
<1>3. /\ \A o \in Requests \ {r} : reqs'[o] = reqs[o]
      /\ reqs'[r].pc = "ack" /\ reqs'[r].env = reqs[r].env /\ reqs'[r].sess = s
      /\ reqs'[r].kind = "deliver" /\ reqs'[r].result = reqs[r].result
  BY <1>1 DEF F!IInv, F!TypeOK
<1>4. RowsStay /\ s \in F!RowsOf(reqs[r].env)
  BY <1>1, <1>2 DEF RowsStay, F!RowsOf
<1>5. s # None
  BY <1>2, ForgeAssumes DEF F!IInv, F!TypeOK
<1>6. Promised(r)'
  BY <1>1, <1>2, <1>3, <1>4, <1>5 DEF Promised, Names, Genuine, F!RowsOf
<1>7. \A h \in owned' : F!SidOf(h)' \in started'
  BY <1>1 DEF Genuine, F!SidOf
<1> QED BY <1>1, <1>3, <1>4, <1>6, <1>7, StepLinks DEF Genuine, Names

\* What a request reads from the cache or the register is what they were told,
\* and a remembered ack has a row.
LEMMA ReadLinks ==
  ASSUME F!IInv, Genuine, NEW r \in Requests,
         F!CheckCache(r) \/ F!DeliverLookup(r), started' = started
  PROVE  Linked
<1>1. /\ UNCHANGED <<sessions, cache, procs, owned>> /\ reqs[r].pc \in {"cache", "lookup"}
      /\ reqs[r].kind = "deliver" /\ reqs[r].env \in Envelopes /\ reqs[r].result = "none"
  BY DEF F!CheckCache, F!DeliverLookup, F!At, F!IInv, F!Shapes, F!Shape, F!TypeOK
<1>2. \A o \in Requests \ {r} : reqs'[o] = reqs[o]
  BY DEF F!CheckCache, F!DeliverLookup, F!Answer, F!Goto, F!IInv, F!TypeOK
<1>3. /\ reqs'[r].env = reqs[r].env /\ reqs'[r].pc \in {"replied", "gate", "ack", "launch"}
      /\ reqs'[r].kind \in {"none", "deliver"}
      /\ reqs'[r].sess # None => Names(reqs'[r].sess, reqs[r].env)
      /\ reqs'[r].pc = "ack" \/ reqs'[r].result = "ok" =>
           reqs'[r].sess # None /\ F!RowsOf(reqs[r].env) # {}
  <2> DEFINE e == reqs[r].env
  <2>1. CASE F!CheckCache(r) /\ cache[e] # None
    <3>1. reqs' = [reqs EXCEPT ![r] = [F!Idle EXCEPT !.pc = "replied", !.env = e,
                                                     !.sess = cache[e], !.result = "ok"]]
      BY <2>1 DEF F!CheckCache, F!Answer
    <3>2. Names(cache[e], e) /\ F!RowsOf(e) # {}
      BY <1>1, <2>1 DEF Genuine, F!IInv, F!Records
    <3>3. reqs'[r].env = e /\ reqs'[r].pc = "replied" /\ reqs'[r].kind = "none"
          /\ reqs'[r].sess = cache[e]
      BY <3>1 DEF F!Idle, F!IInv, F!TypeOK
    <3> QED BY <2>1, <3>2, <3>3
  <2>2. CASE F!CheckCache(r) /\ cache[e] = None
    <3>1. reqs' = [reqs EXCEPT ![r].pc = "gate"]
      BY <2>2 DEF F!CheckCache, F!Goto
    <3> QED BY <1>1, <3>1 DEF Genuine, Promised, F!IInv, F!TypeOK
  <2>3. CASE F!DeliverLookup(r)
    <3>1. PICK s \in F!SessionIds \cup {None} :
            /\ s # None => s \in F!RowsOf(e)
            /\ \/ s # None /\ reqs' = [reqs EXCEPT ![r].sess = s, ![r].pc = "ack"]
               \/ reqs' = [reqs EXCEPT ![r].sess = s, ![r].pc = "launch"]
      BY <1>1, <2>3, ForgeAssumes, F!GetByEnvelopeFinds DEF F!DeliverLookup, F!Running, F!IInv
    <3> QED BY <1>1, <3>1 DEF Genuine, Names, F!RowsOf, F!IInv, F!TypeOK
  <2> QED BY <2>1, <2>2, <2>3
<1>4. Promised(r)'
  BY <1>1, <1>3 DEF Promised, Names, F!RowsOf
<1>5. RowsStay /\ \A h \in owned' : F!SidOf(h)' \in started'
  BY <1>1 DEF RowsStay, F!RowsOf, Genuine, F!SidOf
<1> QED BY <1>1, <1>2, <1>3, <1>4, <1>5, StepLinks DEF Genuine, Names

\* The row that is written, or renamed, names the process the request carries.
LEMMA DeliverStoreLinks ==
  ASSUME F!IInv, Genuine, NEW r \in Requests, F!DeliverStore(r), started' = started
  PROVE  Linked
<1> DEFINE p == reqs[r].proc
           s == F!SidOf(p)
<1>1. /\ reqs[r].pc = "store" /\ reqs[r].kind = "deliver" /\ UNCHANGED <<cache, procs, owned>>
      /\ reqs' = [reqs EXCEPT ![r].pc = "register"]
      /\ \/ sessions' = sessions \cup {s}
         \/ sessions' = (sessions \ F!RowsOf(reqs[r].env)) \cup {s}
  BY DEF F!DeliverStore, F!At, F!Goto, F!UpdateSessionID
<1>2. p \in owned /\ s.env = reqs[r].env /\ reqs[r].env \in Envelopes /\ reqs[r].result = "none"
  BY <1>1 DEF F!IInv, F!Hands, F!Hand, F!Carries, F!At, F!SidOf, F!Shapes, F!Shape, F!TypeOK
<1>3. s \in started
  BY <1>2 DEF Genuine
<1> HIDE DEF p, s
<1>4. /\ \A o \in Requests \ {r} : reqs'[o] = reqs[o]
      /\ reqs'[r].pc = "register" /\ reqs'[r].env = reqs[r].env /\ reqs'[r].sess = reqs[r].sess
      /\ reqs'[r].kind = "deliver" /\ reqs'[r].result = "none"
  BY <1>1, <1>2 DEF F!IInv, F!TypeOK
<1>5. RowsStay
  BY <1>1, <1>2 DEF RowsStay, F!RowsOf
<1>6. Promised(r)' /\ \A h \in owned' : F!SidOf(h)' \in started'
  BY <1>1, <1>4 DEF Promised, Names, Genuine, F!SidOf
<1> QED BY <1>1, <1>3, <1>4, <1>5, <1>6, StepLinks DEF Genuine, Names

\* An ack is remembered as it is sent.
LEMMA AckLinks ==
  ASSUME F!IInv, Genuine, NEW r \in Requests, F!Ack(r), started' = started
  PROVE  Linked
<1> DEFINE e == reqs[r].env
<1>1. /\ reqs[r].pc = "ack" /\ UNCHANGED <<sessions, procs, owned>>
      /\ reqs' = [reqs EXCEPT ![r] = [F!Idle EXCEPT !.pc = "replied", !.env = e,
                                                    !.sess = reqs[r].sess, !.result = "ok"]]
      /\ \A f \in Envelopes : cache'[f] \in {cache[f], None} \/ (f = e /\ cache'[f] = reqs[r].sess)
  BY DEF F!Ack, F!At, F!Answer
<1>2. Names(reqs[r].sess, e) /\ reqs[r].sess # None /\ F!RowsOf(e) # {}
  BY <1>1 DEF Genuine, Promised
<1>3. /\ \A o \in Requests \ {r} : reqs'[o] = reqs[o]
      /\ reqs'[r].pc = "replied" /\ reqs'[r].env = e /\ reqs'[r].sess = reqs[r].sess
      /\ reqs'[r].kind = "none"
  BY <1>1 DEF F!IInv, F!TypeOK, F!Idle
<1>4. Promised(r)' /\ RowsStay /\ \A h \in owned' : F!SidOf(h)' \in started'
  BY <1>1, <1>2, <1>3 DEF Promised, Names, RowsStay, F!RowsOf, Genuine, F!SidOf
<1> QED BY <1>1, <1>2, <1>3, <1>4, StepLinks DEF Genuine, Names

\* Every step of a handler keeps the chain; Hermes resumes nothing.
LEMMA ProceedLinks ==
  ASSUME F!IInv, Genuine, NEW r \in Requests, F!Proceed(r), Aside
  PROVE  Linked
<1>1. CASE F!Launch(r)
  BY <1>1, LaunchLinks
<1>2. CASE F!Register(r)
  <2>1. owned' = owned
    BY <1>2, Zenon DEF F!Register
  <2> QED BY <1>2, <2>1, RegisterLinks, NoneStarted
<1>3. CASE F!UnknownExecutor(r)
  BY <1>3, RefusalLinks, NoneStarted DEF F!UnknownExecutor
<1>4. CASE F!CheckCache(r) \/ F!DeliverLookup(r)
  BY <1>4, ReadLinks, NoneStarted DEF F!CheckCache, F!DeliverLookup
<1>5. CASE F!DeliverStore(r)
  BY <1>5, DeliverStoreLinks, NoneStarted DEF F!DeliverStore
<1>6. CASE F!Ack(r)
  BY <1>6, AckLinks, NoneStarted DEF F!Ack
<1>6a. CASE F!StopReturns(r)
  <2>1. /\ procs' = [procs EXCEPT ![reqs[r].proc] = F!NoProc] /\ owned' = owned \ {reqs[r].proc}
        /\ UNCHANGED <<sessions, cache>> /\ F!Reply(r, "failed") /\ reqs[r].pc = "stop"
    BY <1>6a DEF F!StopReturns, F!Reap, F!At
  <2>2. \A h \in owned' : procs'[h] = procs[h]
    BY <2>1 DEF F!IInv, F!TypeOK
  <2>3. started' = started
    BY <2>1, NoneStarted
  <2> QED BY <2>1, <2>2, <2>3, RefusalLinks
<1>7. reqs[r].kind # "resume"
  BY DEF Genuine, Promised
<1>8. ~ (F!ResumeFetch(r) \/ F!ResumeLookup(r) \/ F!ResumeStore(r) \/ F!Inject(r))
  BY <1>7 DEF F!ResumeFetch, F!ResumeLookup, F!ResumeStore, F!Inject, F!At
<1> QED BY <1>1, <1>2, <1>3, <1>4, <1>5, <1>6, <1>6a, <1>8 DEF F!Proceed

\* So does every error return.
LEMMA FaultLinks ==
  ASSUME F!IInv, Genuine, NEW r \in Requests, F!Fault(r), started' = started
  PROVE  Linked
<1>1. CASE F!LaunchFails(r) \/ F!DeliverLookupFails(r)
  BY <1>1, RefusalLinks DEF F!LaunchFails, F!DeliverLookupFails, F!At
<1>2. CASE F!DeliverStoreFails(r)
  <2>1. /\ UNCHANGED <<sessions, cache, procs, owned>>
        /\ reqs' = [reqs EXCEPT ![r].pc = "stop"] /\ reqs[r].pc = "store"
    BY <1>2 DEF F!DeliverStoreFails, F!Goto, F!At
  <2>2. /\ \A o \in Requests \ {r} : reqs'[o] = reqs[o]
        /\ reqs'[r].pc = "stop" /\ reqs'[r].env = reqs[r].env /\ reqs'[r].sess = reqs[r].sess
        /\ reqs'[r].kind = reqs[r].kind /\ reqs'[r].result = "none"
    BY <2>1 DEF F!IInv, F!TypeOK, F!Shapes, F!Shape
  <2>3. Promised(r)' /\ RowsStay /\ \A h \in owned' : F!SidOf(h)' \in started'
    BY <2>1, <2>2 DEF Promised, Names, RowsStay, F!RowsOf, Genuine, F!SidOf
  <2> QED BY <2>1, <2>2, <2>3, StepLinks DEF Genuine, Names
<1>3. reqs[r].kind # "resume"
  BY DEF Genuine, Promised
<1>4. ~ (F!ResumeStoreFails(r) \/ F!InjectFails(r))
  BY <1>3 DEF F!ResumeStoreFails, F!InjectFails, F!At
<1> QED BY <1>1, <1>2, <1>4 DEF F!Fault

\* Waiting for the gate, and the ends of processes, tell no one anything.
LEMMA AcquireLinks ==
  ASSUME F!IInv, Genuine, NEW r \in Requests, F!Acquire(r), started' = started
  PROVE  Linked
<1>1. /\ reqs[r].pc = "gate" /\ UNCHANGED <<sessions, cache, procs, owned>>
      /\ reqs' = [reqs EXCEPT ![r].pc = "lookup"]
  BY DEF F!Acquire, F!Goto
<1>2. /\ \A o \in Requests \ {r} : reqs'[o] = reqs[o]
      /\ reqs'[r].pc = "lookup" /\ reqs'[r].env = reqs[r].env /\ reqs'[r].sess = reqs[r].sess
      /\ reqs'[r].kind = reqs[r].kind /\ reqs'[r].result = "none"
  BY <1>1 DEF F!IInv, F!TypeOK, F!Shapes, F!Shape
<1>3. Promised(r)' /\ RowsStay /\ \A h \in owned' : F!SidOf(h)' \in started'
  BY <1>1, <1>2 DEF Promised, Names, RowsStay, F!RowsOf, Genuine, F!SidOf
<1> QED BY <1>1, <1>2, <1>3, StepLinks DEF Genuine, Names

LEMMA EndLinks ==
  ASSUME F!IInv, Genuine, started' = started,
         (\E h \in Handles : F!Exit(h)) \/ (\E w \in watchers : F!Cleanup(w))
  PROVE  Linked
<1>1. /\ UNCHANGED <<sessions, cache, reqs>> /\ owned' \subseteq owned
      /\ \A h \in owned' : procs'[h].env = procs[h].env /\ procs'[h].pid = procs[h].pid
  BY DEF F!Exit, F!Cleanup, F!Reap, F!IInv, F!TypeOK
<1>2. \A h \in owned' : F!SidOf(h)' \in started'
  BY <1>1 DEF Genuine, F!SidOf
<1>3. RowsStay /\ CallsStay
  BY <1>1 DEF RowsStay, CallsStay, F!RowsOf
<1>4. \A r \in Requests : Promised(r)'
  BY <1>1 DEF Genuine, Promised, Names, F!RowsOf
<1>5. \A e \in Envelopes : cache'[e] # None => Names(cache[e], e)'
  BY <1>1 DEF Genuine, Names
<1> QED BY <1>1, <1>2, <1>3, <1>4, <1>5 DEF Linked, Genuine

\* A restart forgets everything but the register, and breaks the calls.
LEMMA CrashLinks ==
  ASSUME F!IInv, Genuine, started' = started, F!Crash
  PROVE  Linked
<1>1. /\ sessions' = sessions /\ owned' = {}
      /\ cache' = [e \in Envelopes |-> None]
  BY Zenon DEF F!Crash
<1> DEFINE Broken(e) == [F!Idle EXCEPT !.pc = "replied", !.env = e, !.result = "failed"]
<1>2. reqs' = [r \in Requests |-> IF reqs[r] = F!Idle THEN F!Idle ELSE Broken(reqs[r].env)]
  BY Zenon DEF F!Crash
<1> HIDE DEF Broken
<1>3. ASSUME NEW r \in Requests
      PROVE  /\ reqs[r].pc # "idle" => reqs'[r].pc = "replied" /\ reqs'[r].env = reqs[r].env
             /\ reqs'[r].sess = None /\ reqs'[r].kind = "none"
             /\ reqs'[r].pc # "ack" /\ reqs'[r].result # "ok"
  <2>1. reqs'[r] = IF reqs[r] = F!Idle THEN F!Idle ELSE Broken(reqs[r].env)
    BY <1>2
  <2> QED BY <2>1 DEF Broken, F!Idle
<1>4. ASSUME NEW r \in Requests
      PROVE  Promised(r)'
  BY <1>3 DEF Promised
<1>5. RowsStay /\ CallsStay
  BY <1>1, <1>3 DEF RowsStay, CallsStay, F!RowsOf
<1> QED BY <1>1, <1>4, <1>5 DEF Linked, Genuine

-----------------------------------------------------------------------------
\* A new call knows nothing, and takes a slot no one uses.
LEMMA PostKeeps ==
  ASSUME IInv, NEW e \in Envelopes, Post(e)
  PROVE  Genuine' /\ Attached' /\ RowsStay
<1>1. PICK r \in Requests :
        /\ F!Receive(r, "deliver", e) /\ UNCHANGED <<rows, started>>
        /\ worker' = [Polling EXCEPT !.pc = "waiting", !.env = e, !.req = r]
  <2>1. Slot \in Requests
    BY DEF Post, Slot
  <2>2. F!Receive(Slot, "deliver", e)
    BY SameSurroundings DEF Post
  <2>3. /\ UNCHANGED <<rows, started>>
        /\ worker' = [Polling EXCEPT !.pc = "waiting", !.env = e, !.req = Slot]
    BY DEF Post
  <2> QED BY <2>1, <2>2, <2>3, Zenon DEF F!Receive
<1>2. /\ UNCHANGED <<sessions, cache, procs, owned>> /\ reqs[r].pc = "idle"
      /\ reqs' = [reqs EXCEPT ![r] =
                    [F!Idle EXCEPT !.pc = "cache", !.kind = "deliver", !.env = e]]
  BY <1>1 DEF F!Receive, F!Idle
<1>3. /\ \A o \in Requests \ {r} : reqs'[o] = reqs[o]
      /\ reqs'[r].pc = "cache" /\ reqs'[r].kind = "deliver" /\ reqs'[r].env = e
      /\ reqs'[r].sess = None /\ reqs'[r].result = "none"
  BY <1>1, <1>2 DEF IInv, F!IInv, F!TypeOK, F!Idle
<1>4. Promised(r)' /\ RowsStay /\ \A h \in owned' : F!SidOf(h)' \in started'
  BY <1>1, <1>2, <1>3 DEF Promised, RowsStay, F!RowsOf, IInv, Genuine, F!SidOf
<1>5. Linked
  BY <1>1, <1>2, <1>3, <1>4, StepLinks DEF IInv, Genuine, Names
<1>6. Attached'
  BY <1>1, <1>3 DEF Attached, Polling
<1> QED BY <1>4, <1>5, <1>6 DEF Linked

\* An answer that was read is forgotten.
LEMMA FinishKeeps ==
  ASSUME IInv, NEW r \in Requests, F!Finish(r), started' = started
  PROVE  /\ Genuine' /\ RowsStay /\ sessions' = sessions
         /\ \A o \in Requests \ {r} : reqs'[o] = reqs[o]
<1>1. /\ UNCHANGED <<sessions, cache, procs, owned>>
      /\ reqs' = [reqs EXCEPT ![r] = F!Idle]
  BY DEF F!Finish
<1>2. reqs'[r] = F!Idle /\ \A o \in Requests \ {r} : reqs'[o] = reqs[o]
  BY <1>1 DEF IInv, F!IInv, F!TypeOK
<1>3. Promised(r)' /\ RowsStay /\ \A h \in owned' : F!SidOf(h)' \in started'
  BY <1>1, <1>2 DEF Promised, RowsStay, F!RowsOf, IInv, Genuine, F!SidOf, F!Idle
<1>4. ASSUME NEW o \in Requests \ {r}
      PROVE  Promised(o)'
  BY <1>1, <1>2 DEF IInv, Genuine, Promised, Names, F!RowsOf
<1>5. \A e \in Envelopes : cache'[e] # None => Names(cache[e], e)'
  BY <1>1 DEF IInv, Genuine, Names
<1>6. Genuine'
  BY <1>1, <1>3, <1>4, <1>5 DEF IInv, Genuine
<1> QED BY <1>1, <1>2, <1>3, <1>6

\* The worker learns the session of an answer, which has a row.
LEMMA ResponseKeeps ==
  ASSUME IInv, Response
  PROVE  Genuine' /\ Attached' /\ RowsStay
<1>1. PICK r \in Requests :
        /\ r = worker.req /\ worker.pc = "waiting" /\ F!Finish(r) /\ UNCHANGED <<rows, started>>
        /\ reqs[r].env = worker.env /\ worker.env \in Envelopes
  BY SameSurroundings DEF Response, IInv, Attached
<1>2. Genuine' /\ RowsStay /\ sessions' = sessions
  BY <1>1, FinishKeeps
<1>3. CASE reqs[r].result = "ok"
  <2>1. worker' = [worker EXCEPT !.pc = "acked", !.req = None, !.sess = reqs[r].sess]
    BY <1>1, <1>3 DEF Response
  <2>2. Names(reqs[r].sess, worker.env) /\ F!RowsOf(worker.env) # {}
    BY <1>1, <1>3 DEF IInv, Genuine, Promised
  <2>3. worker'.pc = "acked" /\ worker'.env = worker.env /\ worker'.sess = reqs[r].sess
    BY <2>1 DEF IInv, TypeOK
  <2> QED BY <1>1, <1>2, <2>2, <2>3 DEF Attached, Names, F!RowsOf
<1>4. CASE reqs[r].result # "ok"
  BY <1>1, <1>2, <1>4 DEF Response, Polling, Attached
<1> QED BY <1>2, <1>3, <1>4

\* While Forge works on, the worker waits, and its call stays its own.
LEMMA LinkedKeeps ==
  ASSUME IInv, Linked, worker' = worker
  PROVE  Attached'
<1>1. CASE worker.pc = "waiting"
  BY <1>1 DEF IInv, Attached, Linked, CallsStay
<1>2. CASE worker.pc = "acked"
  BY <1>2 DEF IInv, Attached, Linked, RowsStay, Names
<1>3. CASE worker.pc = "polling"
  BY <1>3 DEF Attached
<1> QED BY <1>1, <1>2, <1>3 DEF IInv, TypeOK

\* Whatever Forge does by itself, and whatever befalls it, keeps the chain.
LEMMA ForgeSideKeeps ==
  ASSUME IInv, ForgeStep \/ ForgeFault
  PROVE  Genuine' /\ Attached' /\ RowsStay
<1> USE SameHandler, SameSurroundings
<1>1. worker' = worker
  BY DEF ForgeStep, ForgeFault, ForgeRuns, ForgeLocks, Aside
<1>2. ASSUME NEW r \in Requests, F!Finish(r), worker.req # r, Aside
      PROVE  Genuine' /\ Attached' /\ RowsStay
  <2>1. started' = started
    BY <1>2, NoneStarted DEF F!Finish
  <2>2. /\ Genuine' /\ RowsStay /\ sessions' = sessions
        /\ \A o \in Requests \ {r} : reqs'[o] = reqs[o]
    BY <1>2, <2>1, FinishKeeps
  <2>3. Attached'
    BY <1>1, <1>2, <2>1, <2>2 DEF IInv, Attached, Names, F!RowsOf
  <2> QED BY <2>2, <2>3
<1>3. ASSUME NEW r \in Requests, F!Proceed(r), Aside
      PROVE  Linked
  BY <1>3, ProceedLinks DEF IInv
<1>4. ASSUME NEW r \in Requests, F!Acquire(r), Aside
      PROVE  Linked
  BY <1>4, AcquireLinks, NoneStarted DEF IInv, F!Acquire
<1>5. ASSUME (\E h \in Handles : F!Exit(h)) \/ (\E w \in watchers : F!Cleanup(w)), Aside
      PROVE  Linked
  BY <1>5, EndLinks, NoneStarted DEF IInv, F!Exit, F!Cleanup, F!Reap
<1>6. ASSUME F!Crash \/ \E r \in Requests : F!Fault(r), started' = started
      PROVE  Linked
  BY <1>6, CrashLinks, FaultLinks DEF IInv
<1>7. CASE ForgeFault
  <2>1. Linked
    BY <1>6, <1>7 DEF ForgeFault
  <2> QED BY <1>1, <2>1, LinkedKeeps DEF Linked
<1>8. CASE ForgeStep
  <2>1. CASE Linked
    BY <1>1, <2>1, LinkedKeeps DEF Linked
  <2>2. CASE \E r \in Requests : F!Finish(r) /\ worker.req # r /\ Aside
    BY <1>2, <2>2
  <2> QED BY <1>3, <1>4, <1>5, <1>8, <2>1, <2>2 DEF ForgeStep, ForgeRuns, ForgeLocks
<1> QED BY <1>7, <1>8

-----------------------------------------------------------------------------
\* A new row has no binding.
LEMMA SubmitKeeps ==
  ASSUME Store!TypeOK, NEW e \in Envelopes, Submit(e)
  PROVE  /\ Store!TypeOK' /\ rows'[e].binding = None
         /\ \A f \in Envelopes \ {e} : rows'[f] = rows[f]
BY DEF Submit, Store!Insert, Store!TypeOK, Store!Row, Store!NoProof, Store!Proofs, Store!Status,
       Store!Entry

\* A move, by an operator or an executor, leaves the binding alone.
LEMMA UpdateKeeps ==
  ASSUME Store!TypeOK, NEW e \in Envelopes, NEW next,
         Store!UpdateStatus(e, next, Store!NoProof)
  PROVE  /\ Store!TypeOK' /\ rows[e] # None /\ rows'[e].binding = rows[e].binding
         /\ \A f \in Envelopes \ {e} : rows'[f] = rows[f]
<1> DEFINE merged == [rows[e] EXCEPT !.proof = Store!MergeProof(@, Store!NoProof)]
           line   == [from |-> merged.status, to |-> next]
<1>1. /\ rows[e] # None /\ rows[e] \in Store!Row /\ next \in Store!Status
      /\ rows' = [rows EXCEPT ![e] = Store!SideEffects(merged, next)]
  BY DEF Store!UpdateStatus, Store!Present, Store!TypeOK, Store!CanTransition, Store!Known
<1>2. merged \in Store!Row /\ merged.binding = rows[e].binding
  <2>1. Store!MergeProof(rows[e].proof, Store!NoProof) \in Store!Proofs
    BY <1>1 DEF Store!MergeProof, Store!NoProof, Store!Proofs, Store!Row
  <2> QED BY <1>1, <2>1 DEF Store!Row
<1>3. Append(merged.history, line) \in Seq(Store!Entry)
  BY <1>1, <1>2 DEF Store!Row, Store!Entry
<1> HIDE DEF merged
<1>4. /\ Store!SideEffects(merged, next) \in Store!Row
      /\ Store!SideEffects(merged, next).binding = merged.binding
  BY <1>1, <1>2, <1>3 DEF Store!SideEffects, Store!Row
<1> HIDE DEF line
<1> QED BY <1>1, <1>2, <1>4 DEF Store!TypeOK

\* The worker binds the session of the ack, and only a row that is there.
LEMMA ConfirmKeeps ==
  ASSUME IInv, Confirm
  PROVE  /\ Store!TypeOK'
         /\ \A f \in Envelopes : rows'[f] # None /\ rows'[f].binding # None =>
              \/ rows'[f] = rows[f]
              \/ f = worker.env /\ rows'[f].binding = worker.sess
<1>1. worker.env \in Envelopes /\ worker.sess \in F!SessionIds /\ worker.pc = "acked"
  BY ForgeAssumes DEF Confirm, IInv, Attached, Names, TypeOK, Forge!SessionIds, F!SessionIds
<1>2. CASE rows' = rows
  BY <1>2 DEF IInv, TypeOK, Store!TypeOK
<1>3. CASE Store!MarkDelivered(worker.env, worker.sess)
  <2> DEFINE row == [rows[worker.env] EXCEPT !.status = "delivered", !.delivered = TRUE,
                                             !.read = FALSE, !.binding = worker.sess]
  <2>1. rows[worker.env] \in Store!Row /\ rows' = [rows EXCEPT ![worker.env] = row]
    BY <1>1, <1>3 DEF IInv, TypeOK, Store!TypeOK, Store!MarkDelivered, Store!Present
  <2>2. row \in Store!Row /\ row.binding = worker.sess
    BY <1>1, <2>1, Same DEF Store!Row, Store!Status
  <2> HIDE DEF row
  <2> QED BY <1>1, <2>1, <2>2 DEF IInv, TypeOK, Store!TypeOK
<1> QED BY <1>2, <1>3 DEF Confirm

\* Forge's own steps touch nothing of Hermes, and the worker's calls no row.
LEMMA Bystanders ==
  /\ ForgeStep => Aside
  /\ Response => UNCHANGED <<rows, started, faults>>
  /\ \A e : Post(e) => UNCHANGED <<rows, started, faults>>
<1>1. ForgeStep => Aside
  BY DEF ForgeStep, ForgeRuns, ForgeLocks
<1>2. Response => UNCHANGED <<rows, started, faults>>
  BY Zenon DEF Response
<1>3. \A e : Post(e) => UNCHANGED <<rows, started, faults>>
  BY Zenon DEF Post
<1> QED BY <1>1, <1>2, <1>3

\* What a step does to the rows of Hermes' database.
LEMMA RowsKeep ==
  ASSUME IInv, [Next]_vars
  PROVE  /\ Store!TypeOK'
         /\ \A f \in Envelopes : rows'[f] # None /\ rows'[f].binding # None =>
              \/ rows[f] # None /\ rows'[f].binding = rows[f].binding
              \/ worker.pc = "acked" /\ f = worker.env /\ rows'[f].binding = worker.sess
<1>1. CASE UNCHANGED rows
  BY <1>1 DEF IInv, TypeOK, Store!TypeOK
<1>2. ASSUME NEW e \in Envelopes, Submit(e)
      PROVE  /\ Store!TypeOK' /\ rows'[e].binding = None
             /\ \A f \in Envelopes \ {e} : rows'[f] = rows[f]
  BY <1>2, SubmitKeeps DEF IInv, TypeOK
<1>3. ASSUME NEW e \in Envelopes, NEW next, Store!UpdateStatus(e, next, Store!NoProof)
      PROVE  /\ Store!TypeOK' /\ rows[e] # None /\ rows'[e].binding = rows[e].binding
             /\ \A f \in Envelopes \ {e} : rows'[f] = rows[f]
  BY <1>3, UpdateKeeps DEF IInv, TypeOK
<1>4. CASE Confirm
  BY <1>4, ConfirmKeeps DEF Confirm
<1>5. ASSUME NEW h \in Handles, NEW next, Store!UpdateStatus(procs[h].env, next, Store!NoProof)
      PROVE  procs[h].env \in Envelopes \/ UNCHANGED rows
  BY <1>5 DEF Store!UpdateStatus, IInv, TypeOK, Store!TypeOK
<1>6. ASSUME NEW e \in Envelopes, NEW next, Store!UpdateStatus(e, next, Store!NoProof)
      PROVE  /\ Store!TypeOK'
             /\ \A f \in Envelopes : rows'[f] # None /\ rows'[f].binding # None =>
                  rows[f] # None /\ rows'[f].binding = rows[f].binding
  <2> SUFFICES ASSUME NEW f \in Envelopes, rows'[f] # None, rows'[f].binding # None
               PROVE  rows[f] # None /\ rows'[f].binding = rows[f].binding
    BY <1>3, <1>6
  <2> QED BY <1>3, <1>6
<1>7. ASSUME NEW e \in Envelopes, NEW next \in Commands, Operate(e, next)
      PROVE  Store!UpdateStatus(e, next, Store!NoProof)
  BY <1>7 DEF Operate
<1>8. ASSUME NEW h \in Handles, NEW next \in Reports, Report(h, next)
      PROVE  Store!UpdateStatus(procs[h].env, next, Store!NoProof)
  BY <1>8 DEF Report
<1>9. CASE \E e \in Envelopes : Submit(e)
  <2>1. PICK e \in Envelopes : Submit(e)
    BY <1>9
  <2> QED BY <1>2, <2>1
<1>10. CASE \E e \in Envelopes, next \in Commands : Operate(e, next)
  BY <1>6, <1>7, <1>10
<1>11. CASE \E h \in Handles, next \in Reports : Report(h, next)
  <2>1. PICK h \in Handles, next \in Reports : Report(h, next)
    BY <1>11
  <2>2. CASE procs[h].env \in Envelopes
    BY <1>6, <1>8, <2>1, <2>2
  <2> QED BY <1>1, <1>5, <1>8, <2>1, <2>2
<1>12. CASE (\E e \in Envelopes : Post(e)) \/ Response \/ Timeout \/ HermesRestart
            \/ ForgeStep \/ ForgeFault \/ UNCHANGED vars
  <2>1. UNCHANGED rows
    BY <1>12, Bystanders DEF Timeout, HermesRestart, ForgeFault, Aside, vars
  <2> QED BY <1>1, <2>1
<1> QED BY <1>4, <1>9, <1>10, <1>11, <1>12 DEF Next

\* Every session id that was started is one, and stays started.
LEMMA StartedKeeps ==
  ASSUME IInv, F!IInv', [Next]_vars
  PROVE  started' \subseteq Forge!SessionIds /\ started \subseteq started'
<1>1. CASE UNCHANGED started
  BY <1>1 DEF IInv, TypeOK
<1>2. CASE Aside
  <2>1. \A h \in owned' : F!SidOf(h)' \in F!SessionIds
    BY DEF F!IInv, F!Backing
  <2> QED BY <1>2, <2>1, Same DEF Aside, F!SidOf, IInv, TypeOK
<1> QED BY <1>1, <1>2, Bystanders DEF Next, Submit, Timeout, Confirm,
     HermesRestart, Operate, ForgeFault, Report, vars

\* The worker's variables keep their types.
LEMMA WorkerKeeps ==
  ASSUME IInv, [Next]_vars
  PROVE  /\ worker' \in [pc : {"polling", "waiting", "acked"}, env : Envelopes \cup {None},
                         req : Requests \cup {None}, sess : Forge!SessionIds \cup {None}]
         /\ faults' \in 0..MaxFaults
<1>1. worker' \in {worker, Polling} => worker' \in
        [pc : {"polling", "waiting", "acked"}, env : Envelopes \cup {None},
         req : Requests \cup {None}, sess : Forge!SessionIds \cup {None}]
  BY DEF IInv, TypeOK, Polling
<1>2. ASSUME NEW e \in Envelopes, Post(e)
      PROVE  worker' \in [pc : {"polling", "waiting", "acked"}, env : Envelopes \cup {None},
                          req : Requests \cup {None}, sess : Forge!SessionIds \cup {None}]
  <2>1. Slot \in Requests
    BY <1>2 DEF Post, Slot
  <2> QED BY <1>2, <2>1 DEF Post, Polling
<1>3. ASSUME Response
      PROVE  worker' \in [pc : {"polling", "waiting", "acked"}, env : Envelopes \cup {None},
                          req : Requests \cup {None}, sess : Forge!SessionIds \cup {None}]
  <2>1. worker.req \in Requests
    BY <1>3 DEF Response, IInv, Attached
  <2> QED BY <1>1, <1>3, <2>1 DEF Response, IInv, TypeOK, Forge!TypeOK
<1>4. worker' \in {worker, Polling} \/ Response \/ \E e \in Envelopes : Post(e)
  BY Bystanders DEF Next, Submit, Timeout, Confirm, HermesRestart, Operate, Aside, ForgeFault,
     Report, vars
<1>5. faults' = faults \/ Disturbed
  BY Bystanders DEF Next, Submit, Timeout, Confirm, HermesRestart, Operate,
     Aside, ForgeFault, Report, vars
<1>6. faults' \in 0..MaxFaults
  BY <1>5, MaxFaultsAssumption DEF Disturbed, IInv, TypeOK
<1> QED BY <1>1, <1>2, <1>3, <1>4, <1>6

\* Every step keeps the chain.
LEMMA NextKeeps ==
  ASSUME IInv, [Next]_vars
  PROVE  IInv'
<1>1. F!IInv'
  BY ForgeKeeps DEF IInv
<1>2. Genuine' /\ Attached' /\ RowsStay
  <2>1. ASSUME UNCHANGED <<forge, started>>
        PROVE  Genuine' /\ RowsStay
    BY <2>1 DEF IInv, Genuine, Promised, Names, RowsStay, F!RowsOf, F!SidOf, forge
  <2>2. ASSUME UNCHANGED <<forge, started>>, worker' \in {worker, Polling}
        PROVE  Attached'
    BY <2>2 DEF IInv, Attached, Names, F!RowsOf, forge, Polling
  <2>3. CASE (\E e \in Envelopes : Post(e)) \/ Response
    BY <2>3, PostKeeps, ResponseKeeps
  <2>4. CASE ForgeStep \/ ForgeFault
    BY <2>4, ForgeSideKeeps
  <2>5. CASE (\E e \in Envelopes : Submit(e)) \/ Timeout \/ Confirm \/ HermesRestart
             \/ (\E e \in Envelopes, next \in Commands : Operate(e, next))
             \/ (\E h \in Handles, next \in Reports : Report(h, next)) \/ UNCHANGED vars
    <3>1. UNCHANGED <<forge, started>> /\ worker' \in {worker, Polling}
      BY <2>5 DEF Submit, Timeout, Confirm, HermesRestart, Operate, Report, vars
    <3> QED BY <2>1, <2>2, <3>1
  <2> QED BY <2>3, <2>4, <2>5 DEF Next
<1>3. \A e \in Envelopes : Real(e)'
  <2> SUFFICES ASSUME NEW e \in Envelopes, rows'[e] # None, rows'[e].binding # None
               PROVE  /\ rows'[e].binding \in started' /\ rows'[e].binding.env = e
                      /\ F!RowsOf(e)' # {}
    BY DEF Real, Names
  <2>1. CASE rows[e] # None /\ rows'[e].binding = rows[e].binding
    BY <1>1, <1>2, <2>1, StartedKeeps DEF IInv, Real, Names, RowsStay
  <2>2. CASE worker.pc = "acked" /\ e = worker.env /\ rows'[e].binding = worker.sess
    BY <1>1, <1>2, <2>2, StartedKeeps DEF IInv, Attached, Names, RowsStay
  <2> QED BY <2>1, <2>2, RowsKeep
<1>4. TypeOK'
  <2>1. Forge!TypeOK'
    BY <1>1, Same DEF F!IInv, F!TypeOK, Forge!TypeOK, F!PCs, Forge!PCs
  <2> QED BY <1>1, <2>1, RowsKeep, StartedKeeps, WorkerKeeps DEF TypeOK
<1> QED BY <1>1, <1>2, <1>3, <1>4 DEF IInv
-----------------------------------------------------------------------------
\* A start from nothing promises nothing.
LEMMA InitInvariant == Init => IInv
<1> SUFFICES ASSUME Init
             PROVE  IInv
  OBVIOUS
<1>1. F!Init
  BY Same DEF Init, Forge!Init, F!Init
<1>2. F!IInv
  BY <1>1, ForgeAssumes, F!InitInvariant
<1>3. /\ sessions = {} /\ owned = {} /\ cache = [e \in Envelopes |-> None]
      /\ reqs = [r \in Requests |-> F!Idle]
  BY <1>1 DEF F!Init
<1>4. Genuine
  BY <1>3 DEF Genuine, Promised, F!Idle
<1>5. Attached
  BY DEF Init, Polling, Attached
<1>6. \A e \in Envelopes : rows[e] = None
  BY DEF Init, Store!Init
<1>7. TypeOK
  <2>1. Forge!TypeOK
    BY <1>2, Same DEF F!IInv, F!TypeOK, Forge!TypeOK, F!PCs, Forge!PCs
  <2>2. Store!TypeOK
    BY DEF Init, Store!Init, Store!TypeOK
  <2> QED BY <2>1, <2>2, MaxFaultsAssumption DEF Init, TypeOK, Polling
<1> QED BY <1>2, <1>4, <1>5, <1>6, <1>7 DEF IInv, Real

\* The inductive invariant holds in every behaviour of the hand-off.
THEOREM InductiveInvariant == Spec => []IInv
BY InitInvariant, NextKeeps, PTL DEF Spec

\* Type correctness: rows, Forge's memory and the worker's variables keep their
\* shape.
THEOREM TypeCorrect == Spec => []TypeOK
<1>1. IInv => TypeOK
  BY DEF IInv
<1> QED BY <1>1, InductiveInvariant, PTL

\* A row bound to a session is backed by Forge's register and by a process that
\* was started for this envelope, whatever is lost, retried or restarted.
THEOREM BindingsAreReal == Spec => []BoundIsReal
<1>1. IInv => BoundIsReal
  BY Same DEF IInv, Real, Names, BoundIsReal, Store!Present
<1> QED BY <1>1, InductiveInvariant, PTL

\* In the composition Forge behaves as specified on its own.
THEOREM ForgeBehaves == Spec => F!Spec
<1>1. Init => F!Init
  BY Same DEF Init, Forge!Init, F!Init
<1>2. IInv /\ [Next]_vars => [F!Next]_(F!vars)
  BY ForgeMoves DEF IInv
<1> QED BY <1>1, <1>2, InductiveInvariant, PTL DEF Spec, F!Spec

\* So the gate keeps its promise to Hermes' retries: at most one live executor
\* of an envelope.
THEOREM OneExecutor == Spec => []F!OneLiveExecutor
<1>1. F!Spec => []F!OneLiveExecutor
  BY ForgeAssumes, F!OneExecutor
<1> QED BY <1>1, ForgeBehaves, PTL

\* Its executor is never lost either: when the gate is free it is reachable
\* through the register (deliver.go, resume_handler.go under the spawn gate).
THEOREM Reachable == Spec => []F!LiveIsReachable
<1>1. F!Spec => []F!LiveIsReachable
  BY ForgeAssumes, F!Reachable
<1> QED BY <1>1, ForgeBehaves, PTL

\* And Forge's handlers still implement the service without sessions or locks.
THEOREM Implements == Spec => F!ImplementsService
<1>1. F!Spec => F!ImplementsService
  BY ForgeAssumes, F!Implements
<1> QED BY <1>1, ForgeBehaves, PTL
-----------------------------------------------------------------------------
(* Hermes' register in the composition *)

\* The register's assumptions are this module's, too.
LEMMA StoreAssumes ==
  /\ None \notin Forge!SessionIds \cup {}
  /\ {"created"} \subseteq S!Status
  /\ MaxHistory \in Nat
  /\ None \notin S!Row
<1>1. S!Row = Store!Row
  BY DEF S!Row, Store!Row, S!Status, Store!Status, S!Proofs, Store!Proofs, S!Entry, Store!Entry,
         S!Note, Store!Note
<1>2. {"created"} \subseteq S!Status
  BY DEF S!Status
<1> QED BY <1>1, <1>2, ForgeAssumption, StoreAssumption

\* Whoever moves a row does it with a statement of the register.
LEMMA StoreMoves ==
  ASSUME TypeOK, Attached, [Next]_vars
  PROVE  [S!Next]_(S!vars)
<1>1. CASE UNCHANGED rows
  BY <1>1 DEF S!vars
<1>2. ASSUME NEW e \in Envelopes, Submit(e)
      PROVE  S!Next
  <2>1. S!Insert(e, "created", {}, S!NoProof)
    BY <1>2 DEF Submit, Store!Insert, S!Insert, Store!Present, S!Present, Store!Known, S!Known,
                Store!Status, S!Status, Store!NoProof, S!NoProof
  <2>2. S!NoProof \in S!Proofs
    BY DEF S!NoProof, S!Proofs
  <2> QED BY <2>1, <2>2 DEF S!Next
<1>3. ASSUME NEW e \in Envelopes, NEW next, Store!UpdateStatus(e, next, Store!NoProof)
      PROVE  S!Next
  <2>1. S!UpdateStatus(e, next, S!NoProof)
    BY <1>3 DEF Store!UpdateStatus, S!UpdateStatus, Store!Present, S!Present, Store!CanTransition,
                S!CanTransition, Store!Known, S!Known, Store!Status, S!Status, Store!NoProof, S!NoProof,
                Store!IsTerminal, S!IsTerminal, Store!Terminal, S!Terminal, Store!MergeProof,
                S!MergeProof, Store!SideEffects, S!SideEffects, Store!HasRequired, S!HasRequired,
                Store!ValidateProofValues, S!ValidateProofValues
  <2>2. next \in S!Status
    BY <2>1 DEF S!UpdateStatus, S!CanTransition, S!Known
  <2>3. S!NoProof \in S!Proofs
    BY DEF S!NoProof, S!Proofs
  <2> QED BY <2>1, <2>2, <2>3 DEF S!Next
<1>4. CASE Confirm
  <2>1. CASE UNCHANGED rows
    BY <1>1, <2>1
  <2>2. CASE Store!MarkDelivered(worker.env, worker.sess)
    <3>1. S!MarkDelivered(worker.env, worker.sess)
      BY <2>2 DEF Store!MarkDelivered, S!MarkDelivered, Store!Present, S!Present
    <3>2. worker.env \in Envelopes /\ worker.sess \in Forge!SessionIds
      BY <1>4 DEF Confirm, TypeOK, Attached, Names
    <3> QED BY <3>1, <3>2 DEF S!Next
  <2> QED BY <1>4, <2>1, <2>2 DEF Confirm
<1>5. ASSUME NEW h \in Handles, NEW next \in Reports, Report(h, next)
      PROVE  [S!Next]_(S!vars)
  <2>1. Store!UpdateStatus(procs[h].env, next, Store!NoProof)
    BY <1>5 DEF Report
  <2>2. CASE procs[h].env \in Envelopes
    BY <1>3, <2>1, <2>2
  <2>3. CASE procs[h].env \notin Envelopes
    BY <1>1, <2>1, <2>3 DEF Store!UpdateStatus, TypeOK, Store!TypeOK
  <2> QED BY <2>2, <2>3
<1>6. ASSUME NEW e \in Envelopes, NEW next \in Commands, Operate(e, next)
      PROVE  S!Next
  BY <1>3, <1>6 DEF Operate
<1>7. CASE \/ \E e \in Envelopes : Post(e)
           \/ Response \/ Timeout \/ HermesRestart \/ ForgeStep \/ ForgeFault \/ UNCHANGED vars
  BY <1>1, <1>7, Zenon DEF Post, Response, Timeout, HermesRestart, ForgeStep, ForgeFault, ForgeRuns,
                    ForgeLocks, Aside, vars
<1> QED BY <1>2, <1>4, <1>5, <1>6, <1>7 DEF Next

\* In the composition the register behaves as specified on its own, although its
\* writers are now the worker, the executors and the operators.
THEOREM StoreBehaves == Spec => S!Spec
<1>1. Init => S!Init
  BY DEF Init, Store!Init, S!Init
<1>2. IInv /\ [Next]_vars => [S!Next]_(S!vars)
  BY StoreMoves DEF IInv
<1> QED BY <1>1, <1>2, InductiveInvariant, PTL DEF Spec, S!Spec

\* So what races in the hand-off leave behind in a row is still its true path.
THEOREM HistoryIsTruthful == Spec => []S!HistoryTruthful
<1>1. S!Spec => []S!HistoryTruthful
  BY StoreAssumes, S!HistoryIsTruthful
<1> QED BY <1>1, StoreBehaves, PTL

\* And an envelope that is closed while its delivery is under way stays closed.
THEOREM TerminalIsFrozen == Spec => S!TerminalFrozen
<1>1. S!Spec => S!TerminalFrozen
  BY StoreAssumes, S!TerminalIsFrozen
<1> QED BY <1>1, StoreBehaves, PTL

\* Nor does a retry, a restart or an operator lose anything a row has recorded.
THEOREM NothingIsForgotten == Spec => S!NothingForgotten
<1>1. S!Spec => S!NothingForgotten
  BY StoreAssumes, S!NothingIsForgotten
<1> QED BY <1>1, StoreBehaves, PTL
=============================================================================
