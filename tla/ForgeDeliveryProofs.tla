------------------------- MODULE ForgeDeliveryProofs -------------------------
(***************************************************************************)
(* Proofs that the spawn gate keeps its promise for any number of          *)
(* envelopes, requests, processes and pids and whichever calls fail: one   *)
(* live executor per envelope, which can be reached, and that the handlers *)
(* implement ForgeService.                                                 *)
(***************************************************************************)
EXTENDS ForgeDelivery, FiniteSetTheorems, TLAPS

\* The places of a handler that it reaches with the gate held.
Inside == {"lookup", "launch", "store", "stop", "register", "inject"}

\* TypeOK's records of requests.
Request == [pc : PCs, kind : {"none", "deliver", "resume"}, env : Envelopes \cup {None},
            sess : SessionIds \cup {None}, proc : Handles \cup {None},
            result : {"none", "ok", "failed", "unprocessable"}]

\* What the other fields of a request are at each place.
Shape(q) ==
  /\ q.pc = "idle" => q = Idle
  /\ q.pc # "idle" => q.env \in Envelopes
  /\ q.pc = "replied" <=> q.result # "none"
  /\ q.pc \notin {"idle", "replied"} => q.kind \in {"deliver", "resume"}

\* Answer's record.
Replied(e, s, result) ==
  [Idle EXCEPT !.pc = "replied", !.env = e, !.sess = s, !.result = result]

Shapes == \A r \in Requests : Shape(reqs[r])

\* A gate is held by the one request of its envelope that is inside.
Locks ==
  /\ \A r \in Requests : reqs[r].pc \in Inside => gate[reqs[r].env] = r
  /\ \A e \in Envelopes : gate[e] # None =>
       reqs[gate[e]].pc \in Inside /\ reqs[gate[e]].env = e

\* The processes started since boot, who waits for them, and who knows them.
Backing ==
  /\ \A h \in owned : procs[h].state # "unused" /\ SidOf(h) \in SessionIds
  /\ \A w \in watchers : w.proc \in owned /\ w.sid = SidOf(w.proc)
  /\ \A s \in SessionIds : registry[s] # None => [sid |-> s, proc |-> registry[s]] \in watchers
  /\ \A s, t \in sessions : s.env = t.env => s = t

\* The request has launched a process and not registered it yet.
Carries(r) == reqs[r].pc \in {"register", "stop"} \/ At(r, "deliver", "store")

\* Nobody else knows a process that is being carried.
Hand(r) ==
  /\ Carries(r) =>
       /\ reqs[r].proc \in owned
       /\ procs[reqs[r].proc].env = reqs[r].env
       /\ \A w \in watchers : w.proc # reqs[r].proc
  /\ At(r, "resume", "store") => reqs[r].sess \in SessionIds /\ reqs[r].sess.env = reqs[r].env
  /\ At(r, "deliver", "register") => SidOf(reqs[r].proc) \in sessions

Hands == \A r \in Requests : Hand(r)

\* What a request found in the register, or an ack once promised, is there.
Recorded(r) ==
  /\ At(r, "deliver", "ack") => RowsOf(reqs[r].env) # {}
  /\ reqs[r].kind = "resume" /\ reqs[r].pc # "fetch" => RowsOf(reqs[r].env) # {}
  /\ reqs[r].kind = "deliver" /\ reqs[r].pc \in {"launch", "store"} =>
       (reqs[r].sess = None <=> RowsOf(reqs[r].env) = {})

Records ==
  /\ \A e \in Envelopes : cache[e] # None => RowsOf(e) # {}
  /\ \A r \in Requests : Recorded(r)

\* The register and the registry lead to the process.
Found(h) == SidOf(h) \in sessions /\ registry[SidOf(h)] = h

\* Where the live processes of an envelope can be, by what the holder of its
\* gate is doing.
Tended(e, h) ==
  /\ gate[e] = None \/ reqs[gate[e]].pc \in {"lookup", "inject"} => Found(h)
  /\ \A r \in Requests : gate[e] = r =>
       /\ reqs[r].pc # "launch"
       /\ Carries(r) => h = reqs[r].proc
       /\ At(r, "resume", "store") => SidOf(h) = reqs[r].sess /\ registry[SidOf(h)] = h

Lives == \A e \in Envelopes \ slipped : \A h \in LiveOf(e) : Tended(e, h)

\* The inductive invariant.  OneLiveExecutor says nothing of what a request
\* that is about to launch has seen, nor LiveIsReachable of the time the gate
\* is held; Lives does, and the rest is what its preservation rests on.
IInv == TypeOK /\ Shapes /\ Locks /\ Backing /\ Hands /\ Records /\ Lives

\* The row GetByEnvelope finds is a row of the envelope; it finds one if there is
\* one.
LEMMA GetByEnvelopeFinds ==
  ASSUME TypeOK, NEW e \in Envelopes
  PROVE  /\ GetByEnvelope(e) \in SessionIds \cup {None}
         /\ GetByEnvelope(e) # None => GetByEnvelope(e) \in RowsOf(e)
         /\ GetByEnvelope(e) = None <=> RowsOf(e) = {}
BY NoneAssumption DEF GetByEnvelope, RowsOf, TypeOK

\* A step of a request that is outside before and after it, and does nothing
\* else but, perhaps, remember an ack.
LEMMA OutsideKeeps ==
  ASSUME IInv, NEW r \in Requests, NEW q, q = reqs'[r], Shape(q),
         reqs[r].pc \notin Inside, q.pc \notin Inside,
         (q.kind = "deliver" /\ q.pc = "ack") \/ (q.kind = "resume" /\ q.pc # "fetch")
           => RowsOf(q.env) # {},
         reqs' \in [Requests -> Request],
         \A o \in Requests \ {r} : reqs'[o] = reqs[o],
         cache' \in [Envelopes -> SessionIds \cup {None}],
         \A e \in Envelopes : cache'[e] # None => RowsOf(e) # {},
         UNCHANGED <<sessions, gate, registry, watchers, procs, owned, slipped>>
  PROVE  IInv'
<1> USE NoneAssumption DEF IInv
<1>1. TypeOK'
  BY DEF TypeOK, Request
<1>2. Shapes'
  BY DEF TypeOK, Shapes
<1>3. Locks'
  BY SMTT(20) DEF TypeOK, Locks
<1>4. Backing'
  BY DEF Backing, SidOf
<1>5. Hands'
  BY DEF Hands, Hand, Carries, At, Inside, SidOf
<1>6. Records'
  BY DEF Records, Recorded, RowsOf, At, Inside
<1>7. Lives'
  BY DEF TypeOK, Locks, Lives, Tended, LiveOf, ProcRunning, Found, SidOf, Carries, At
<1> QED BY <1>1, <1>2, <1>3, <1>4, <1>5, <1>6, <1>7

\* What a reply looks like.
LEMMA ReplyShape ==
  ASSUME NEW e \in Envelopes, NEW s \in SessionIds \cup {None},
         NEW result \in {"ok", "failed", "unprocessable"}
  PROVE  /\ Replied(e, s, result) \in Request
         /\ Shape(Replied(e, s, result))
         /\ Replied(e, s, result).pc = "replied"
         /\ Replied(e, s, result).kind = "none"
BY NoneAssumption DEF Idle, Request, Shape, PCs, Replied

\* A call takes a free slot.
LEMMA ReceiveKeeps ==
  ASSUME IInv, NEW r \in Requests, NEW kind \in {"deliver", "resume"},
         NEW e \in Envelopes, Receive(r, kind, e)
  PROVE  IInv'
<1> USE NoneAssumption
<1> DEFINE q == [Idle EXCEPT !.pc = IF kind = "deliver" THEN "cache" ELSE "fetch",
                             !.kind = kind, !.env = e]
<1>1. q \in Request /\ Shape(q) /\ q.pc \in {"cache", "fetch"}
      /\ (q.kind = "resume" => q.pc = "fetch")
  BY DEF Idle, Request, Shape, PCs
<1>2. reqs[r].pc = "idle"
      /\ UNCHANGED <<sessions, cache, gate, registry, watchers, procs, owned, slipped>>
  BY DEF Receive, Idle
<1>3. reqs' = [reqs EXCEPT ![r] = q]
  BY DEF Receive
<1> HIDE DEF q
<1>4. reqs' \in [Requests -> Request] /\ reqs'[r] = q /\ (\A o \in Requests \ {r} : reqs'[o] = reqs[o])
  BY <1>1, <1>3 DEF IInv, TypeOK, Request
<1>5. /\ cache \in [Envelopes -> SessionIds \cup {None}]
      /\ \A o \in Envelopes : cache[o] # None => RowsOf(o) # {}
  BY DEF IInv, TypeOK, Records, Recorded
<1> QED BY <1>1, <1>2, <1>4, <1>5, OutsideKeeps DEF Inside

\* A slot is free again.
LEMMA FinishKeeps ==
  ASSUME IInv, NEW r \in Requests, Finish(r)
  PROVE  IInv'
<1> USE NoneAssumption
<1>1. Idle \in Request /\ Shape(Idle) /\ Idle.pc = "idle" /\ Idle.kind = "none"
  BY DEF Idle, Request, Shape, PCs
<1>2. reqs' \in [Requests -> Request] /\ reqs'[r] = Idle /\ (\A o \in Requests \ {r} : reqs'[o] = reqs[o])
  BY <1>1 DEF Finish, IInv, TypeOK, Request
<1>3. /\ cache \in [Envelopes -> SessionIds \cup {None}]
      /\ \A o \in Envelopes : cache[o] # None => RowsOf(o) # {}
  BY DEF IInv, TypeOK, Records, Recorded
<1> QED BY <1>1, <1>2, <1>3, OutsideKeeps DEF Finish, Inside

\* A remembered ack answers the call, or the call goes on to the gate.
LEMMA CheckCacheKeeps ==
  ASSUME IInv, NEW r \in Requests, CheckCache(r)
  PROVE  IInv'
<1> USE NoneAssumption
<1>1. /\ reqs[r].kind = "deliver" /\ reqs[r].pc = "cache" /\ reqs[r].env \in Envelopes
      /\ UNCHANGED <<sessions, cache, gate, registry, watchers, procs, owned, slipped>>
  BY DEF IInv, CheckCache, At, Shapes, Shape
<1>2. /\ cache \in [Envelopes -> SessionIds \cup {None}]
      /\ reqs \in [Requests -> Request]
      /\ Shape(reqs[r])
      /\ \A e \in Envelopes : cache[e] # None => RowsOf(e) # {}
  BY DEF IInv, TypeOK, Request, Shapes, Records
<1>3. CASE cache[reqs[r].env] # None /\ Answer(r, "ok", cache[reqs[r].env])
  <2> DEFINE q == Replied(reqs[r].env, cache[reqs[r].env], "ok")
  <2>1. reqs' = [reqs EXCEPT ![r] = q]
    BY <1>3 DEF Answer, Replied
  <2>2. q \in Request /\ Shape(q) /\ q.pc = "replied" /\ q.kind = "none"
    BY <1>1, <1>2, ReplyShape
  <2> HIDE DEF q
  <2>3. reqs' \in [Requests -> Request] /\ reqs'[r] = q /\ (\A o \in Requests \ {r} : reqs'[o] = reqs[o])
    BY <1>2, <2>1, <2>2
  <2> QED BY <1>1, <1>2, <2>2, <2>3, OutsideKeeps DEF Inside
<1>4. CASE Goto(r, "gate")
  <2>1. /\ reqs' \in [Requests -> Request]
        /\ \A o \in Requests \ {r} : reqs'[o] = reqs[o]
        /\ reqs'[r].pc = "gate" /\ reqs'[r].kind = "deliver" /\ Shape(reqs'[r])
    BY <1>1, <1>2, <1>4 DEF Goto, Request, PCs, Shape
  <2> QED BY <1>1, <1>2, <2>1, OutsideKeeps DEF Inside
<1> QED BY <1>3, <1>4 DEF CheckCache

\* A resume call needs a row to begin with.
LEMMA ResumeFetchKeeps ==
  ASSUME IInv, NEW r \in Requests, ResumeFetch(r)
  PROVE  IInv'
<1> USE NoneAssumption
<1> DEFINE s == GetByEnvelope(reqs[r].env)
<1>1. /\ reqs[r].kind = "resume" /\ reqs[r].pc = "fetch" /\ reqs[r].env \in Envelopes
      /\ UNCHANGED <<sessions, cache, gate, registry, watchers, procs, owned, slipped>>
  BY DEF IInv, ResumeFetch, At, Shapes, Shape
<1>2. /\ cache \in [Envelopes -> SessionIds \cup {None}]
      /\ reqs \in [Requests -> Request]
      /\ Shape(reqs[r])
      /\ \A e \in Envelopes : cache[e] # None => RowsOf(e) # {}
  BY DEF IInv, TypeOK, Request, Shapes, Records
<1>3. s \in SessionIds \cup {None} /\ (s # None => RowsOf(reqs[r].env) # {})
  BY <1>1, GetByEnvelopeFinds DEF IInv
<1> HIDE DEF s
<1>4. CASE Reply(r, "failed")
  <2> DEFINE q == Replied(reqs[r].env, None, "failed")
  <2>1. reqs' = [reqs EXCEPT ![r] = q]
    BY <1>4 DEF Reply, Answer, Replied
  <2>2. q \in Request /\ Shape(q) /\ q.pc = "replied" /\ q.kind = "none"
    BY <1>1, ReplyShape
  <2> HIDE DEF q
  <2>3. reqs' \in [Requests -> Request] /\ reqs'[r] = q /\ (\A o \in Requests \ {r} : reqs'[o] = reqs[o])
    BY <1>2, <2>1, <2>2
  <2> QED BY <1>1, <1>2, <2>2, <2>3, OutsideKeeps DEF Inside
<1>5. CASE s # None /\ reqs' = [reqs EXCEPT ![r].sess = s, ![r].pc = "gate"]
  <2>1. /\ reqs' \in [Requests -> Request]
        /\ \A o \in Requests \ {r} : reqs'[o] = reqs[o]
        /\ reqs'[r].pc = "gate" /\ reqs'[r].env = reqs[r].env /\ Shape(reqs'[r])
    BY <1>1, <1>2, <1>3, <1>5 DEF Request, PCs, Shape
  <2> QED BY <1>1, <1>2, <1>3, <1>5, <2>1, OutsideKeeps DEF Inside
<1> QED BY <1>4, <1>5 DEF ResumeFetch, s

\* An ack is remembered for an envelope that is on record.
LEMMA AckKeeps ==
  ASSUME IInv, NEW r \in Requests, Ack(r)
  PROVE  IInv'
<1> USE NoneAssumption
<1>1. /\ reqs[r].pc = "ack" /\ reqs[r].env \in Envelopes /\ RowsOf(reqs[r].env) # {}
      /\ reqs[r].sess \in SessionIds \cup {None}
      /\ UNCHANGED <<sessions, gate, registry, watchers, procs, owned, slipped>>
  BY DEF IInv, Ack, At, Shapes, Shape, Records, Recorded, TypeOK
<1>2. /\ cache' \in [Envelopes -> SessionIds \cup {None}]
      /\ \A e \in Envelopes : cache'[e] # None => RowsOf(e) # {}
  BY <1>1 DEF IInv, Ack, TypeOK, Records
<1> DEFINE q == Replied(reqs[r].env, reqs[r].sess, "ok")
<1>3. reqs' = [reqs EXCEPT ![r] = q]
  BY DEF Ack, Answer, Replied
<1>4. q \in Request /\ Shape(q) /\ q.pc = "replied" /\ q.kind = "none"
  BY <1>1, ReplyShape
<1> HIDE DEF q
<1>5. reqs' \in [Requests -> Request] /\ reqs'[r] = q /\ (\A o \in Requests \ {r} : reqs'[o] = reqs[o])
  BY <1>3, <1>4 DEF IInv, TypeOK, Request
<1> QED BY <1>1, <1>2, <1>4, <1>5, OutsideKeeps DEF Inside

\* The gate passes from nobody to a request that looks the session up next.
LEMMA AcquireKeeps ==
  ASSUME IInv, NEW r \in Requests, Acquire(r)
  PROVE  IInv'
<1> USE NoneAssumption DEF IInv
<1>1. /\ reqs[r].pc = "gate" /\ gate[reqs[r].env] = None
      /\ gate' = [gate EXCEPT ![reqs[r].env] = r]
      /\ reqs' = [reqs EXCEPT ![r].pc = "lookup"]
      /\ UNCHANGED <<sessions, cache, registry, watchers, procs, owned, slipped>>
  BY DEF Acquire, Goto
<1>2. TypeOK'
  <2>1. reqs' \in [Requests -> Request]
    BY <1>1 DEF TypeOK, PCs, Request
  <2>2. reqs[r].env \in Envelopes /\ gate' \in [Envelopes -> Requests \cup {None}]
    BY <1>1 DEF TypeOK, Shapes, Shape
  <2> QED BY <1>1, <2>1, <2>2 DEF TypeOK, Request
<1>3. Shapes'
  BY <1>1 DEF TypeOK, Idle, Shapes, Shape
<1>4. Locks'
  BY <1>1 DEF TypeOK, Shapes, Shape, Locks, Inside
<1>5. Backing'
  BY <1>1 DEF Backing, SidOf
<1>6. Hands'
  BY <1>1 DEF Hands, Hand, Carries, At, SidOf
<1>7. Records'
  BY <1>1 DEF Records, Recorded, RowsOf, At
<1>8. Lives'
  BY <1>1 DEF Locks, Lives, Tended, LiveOf, ProcRunning, Found, SidOf, Carries, At
<1> QED BY <1>2, <1>3, <1>4, <1>5, <1>6, <1>7, <1>8

\* The returns under the gate that find, or leave, nothing half done.
LEMMA LeaveKeeps ==
  ASSUME IInv, NEW r \in Requests,
         UnknownExecutor(r) \/ LaunchFails(r) \/ DeliverLookupFails(r) \/ Inject(r) \/ InjectFails(r)
  PROVE  IInv'
<1> USE NoneAssumption DEF IInv
<1>1. PICK result \in {"ok", "failed", "unprocessable"} :
      /\ reqs[r].pc \in {"lookup", "launch", "inject"}
      /\ reqs' = [reqs EXCEPT ![r] = [Idle EXCEPT !.pc = "replied", !.env = reqs[r].env,
                                                  !.sess = None, !.result = result]]
      /\ gate' = [gate EXCEPT ![reqs[r].env] = None]
      /\ UNCHANGED <<sessions, cache, registry, watchers, procs, owned, slipped>>
  BY DEF UnknownExecutor, LaunchFails, DeliverLookupFails, Inject, InjectFails,
            Reply, Answer, Unlock, At
<1>2. TypeOK'
  BY <1>1 DEF TypeOK, Idle, PCs
<1>3. Shapes'
  BY <1>1 DEF TypeOK, Idle, Shapes, Shape
<1>4. Locks'
  BY <1>1 DEF TypeOK, Locks, Inside
<1>5. Backing'
  BY <1>1 DEF Backing, SidOf
<1>6. Hands'
  BY <1>1 DEF Hands, Hand, Carries, At, SidOf
<1>7. Records'
  BY <1>1 DEF Idle, Records, Recorded, RowsOf, At
<1>8. Lives'
  BY <1>1 DEF Locks, Lives, Tended, LiveOf, ProcRunning, Found, SidOf, Inside, Carries, At
<1> QED BY <1>2, <1>3, <1>4, <1>5, <1>6, <1>7, <1>8

\* The look-up of a delivery: what runs is what the row leads to.
LEMMA DeliverLookupKeeps ==
  ASSUME IInv, NEW r \in Requests, DeliverLookup(r)
  PROVE  IInv'
<1> USE NoneAssumption DEF IInv
<1>1. PICK s \in SessionIds \cup {None} :
      /\ s # None => s \in RowsOf(reqs[r].env)
      /\ s = None <=> RowsOf(reqs[r].env) = {}
      /\ reqs[r].kind = "deliver" /\ reqs[r].pc = "lookup"
      /\ \/ /\ Running(s)
              /\ reqs' = [reqs EXCEPT ![r].sess = s, ![r].pc = "ack"]
              /\ gate' = [gate EXCEPT ![reqs[r].env] = None]
           \/ /\ ~ Running(s)
              /\ reqs' = [reqs EXCEPT ![r].sess = s, ![r].pc = "launch"]
              /\ UNCHANGED gate
      /\ UNCHANGED <<sessions, cache, registry, watchers, procs, owned, slipped>>
  BY GetByEnvelopeFinds DEF DeliverLookup, Unlock, At, Shapes, Shape
<1>2. TypeOK'
  BY <1>1 DEF TypeOK
<1>3. Shapes'
  BY <1>1 DEF TypeOK, Idle, Shapes, Shape
<1>4. Locks'
  BY <1>1 DEF TypeOK
<1>5. Backing'
  BY <1>1 DEF TypeOK
<1>6. Hands'
  BY <1>1 DEF TypeOK
<1>7. Records'
  BY <1>1 DEF TypeOK
<1>8. Lives'
  BY <1>1 DEF TypeOK
<1> QED BY <1>2, <1>3, <1>4, <1>5, <1>6, <1>7, <1>8

\* The look-up of a resume call, which may have to do with a stale row.
LEMMA ResumeLookupKeeps ==
  ASSUME IInv, NEW r \in Requests, ResumeLookup(r)
  PROVE  IInv'
<1> USE NoneAssumption DEF IInv
<1>1. /\ reqs[r].kind = "resume" /\ reqs[r].pc = "lookup" /\ reqs[r].env \in Envelopes
      /\ UNCHANGED <<sessions, cache, gate, registry, watchers, procs, owned>>
  BY DEF ResumeLookup, At, Shapes, Shape
<1>2. GetByEnvelope(reqs[r].env) \in RowsOf(reqs[r].env)
  BY <1>1, GetByEnvelopeFinds DEF Records, Recorded
<1>3. PICK s \in SessionIds \cup {None} :
      /\ reqs' = [reqs EXCEPT ![r].sess = None, ![r].pc = IF Running(s) THEN "inject" ELSE "launch"]
      /\ slipped' = IF s = GetByEnvelope(reqs[r].env) THEN slipped ELSE slipped \cup {reqs[r].env}
  <2>1. reqs[r].sess \in SessionIds \cup {None} /\ GetByEnvelope(reqs[r].env) \in SessionIds
    BY <1>2 DEF TypeOK, RowsOf
  <2> QED BY <2>1 DEF ResumeLookup
<1>4. TypeOK'
  BY <1>1, <1>3 DEF TypeOK, PCs
<1>5. Shapes'
  BY <1>1, <1>3 DEF TypeOK, Idle, Shapes, Shape
<1>6. Locks'
  BY <1>1, <1>3 DEF TypeOK, Locks, Inside
<1>7. Backing'
  BY <1>1 DEF Backing, SidOf
<1>8. Hands'
  BY <1>1, <1>3 DEF TypeOK
<1>9. Records'
  BY <1>1, <1>3 DEF TypeOK
<1>10. Lives'
  <2>1. CASE s = GetByEnvelope(reqs[r].env)
    BY SMTT(20), <1>1, <1>2, <1>3, <2>1
       DEF TypeOK, Locks, Lives, Tended, LiveOf, ProcRunning, Found, SidOf, Inside, Carries, At, RowsOf,
           Backing, Running
  <2>2. CASE s # GetByEnvelope(reqs[r].env)
    BY <1>1, <1>3, <2>2
       DEF TypeOK, Locks, Lives, Tended, LiveOf, ProcRunning, Found, SidOf, Inside, Carries, At
  <2> QED BY <2>1, <2>2
<1> QED BY <1>4, <1>5, <1>6, <1>7, <1>8, <1>9, <1>10

\* Nothing ran for the envelope; now the request carries the only process.
LEMMA LaunchKeeps ==
  ASSUME IInv, NEW r \in Requests, Launch(r)
  PROVE  IInv'
<1> USE NoneAssumption DEF IInv
<1>1. /\ reqs[r].pc = "launch"
      /\ \E h \in Handles, pid \in Pids :
           /\ procs[h] = NoProc
           /\ procs' = [procs EXCEPT ![h] = [state |-> "running", env |-> reqs[r].env, pid |-> pid]]
           /\ owned' = owned \cup {h}
           /\ reqs' = [reqs EXCEPT ![r].proc = h,
                ![r].pc = IF reqs[r].kind = "deliver" THEN "store" ELSE "register"]
      /\ UNCHANGED <<sessions, cache, gate, registry, watchers, slipped>>
  BY DEF Launch, Unused, FreePids
<1>2. TypeOK'
  BY <1>1 DEF TypeOK
<1>3. Shapes'
  BY <1>1 DEF TypeOK, Idle, Shapes, Shape
<1>4. Locks'
  BY <1>1 DEF TypeOK
<1>5. Backing'
  BY <1>1 DEF TypeOK
<1>6. Hands'
  BY <1>1 DEF TypeOK
<1>7. Records'
  BY <1>1 DEF TypeOK
<1>8. Lives'
  BY <1>1 DEF TypeOK
<1> QED BY <1>2, <1>3, <1>4, <1>5, <1>6, <1>7, <1>8

\* The row of the envelope names the carried process.
LEMMA DeliverStoreKeeps ==
  ASSUME IInv, NEW r \in Requests, DeliverStore(r)
  PROVE  IInv'
<1> USE NoneAssumption DEF IInv
<1> DEFINE p == reqs[r].proc
           s == SidOf(p)
<1>1. /\ reqs[r].kind = "deliver" /\ reqs[r].pc = "store" /\ reqs[r].env \in Envelopes
      /\ reqs' = [reqs EXCEPT ![r].pc = "register"]
      /\ UNCHANGED <<cache, gate, registry, watchers, procs, owned, slipped>>
  BY DEF DeliverStore, At, Goto, Shapes, Shape
<1>2. p \in owned /\ s \in SessionIds /\ s.env = reqs[r].env
  BY <1>1 DEF Hands, Hand, Carries, At, Backing, SidOf
<1>3. sessions' = (sessions \ RowsOf(reqs[r].env)) \cup {s}
  BY <1>1 DEF DeliverStore, UpdateSessionID, Records, Recorded
<1>4. \A e \in Envelopes : e # reqs[r].env => RowsOf(e)' = RowsOf(e)
  BY <1>2, <1>3 DEF RowsOf, SidOf
<1>5. \A e \in Envelopes : e = reqs[r].env => RowsOf(e)' = {s}
  BY <1>1, <1>2, <1>3 DEF RowsOf
<1> HIDE DEF s
<1>6. TypeOK'
  <2>1. sessions' \subseteq SessionIds
    BY <1>2, <1>3 DEF TypeOK
  <2>2. reqs' \in [Requests -> Request]
    <3>1. reqs \in [Requests -> Request]
      BY DEF TypeOK, Request
    <3> HIDE DEF IInv
    <3> QED BY <1>1, <3>1 DEF Request, PCs
  <2> QED BY <1>1, <2>1, <2>2 DEF TypeOK, Request
<1>7. Shapes'
  BY <1>1 DEF TypeOK, Idle, Shapes, Shape
<1>8. Locks'
  BY <1>1 DEF TypeOK, Locks, Inside
<1>9. Backing'
  BY <1>1, <1>2, <1>3 DEF TypeOK, Backing, SidOf, RowsOf
<1>10. Hands'
  <2>1. \A q \in Requests : q # r /\ At(q, "deliver", "register") =>
          SidOf(reqs[q].proc) \in sessions'
    BY <1>1, <1>3 DEF Hands, Hand, Carries, At, Locks, Inside, RowsOf, SidOf
  <2> QED BY <1>1, <1>3, <2>1 DEF TypeOK, Hands, Hand, Carries, At, SidOf, s
<1>11. Records'
  <2>1. \A e \in Envelopes : e = reqs[r].env => RowsOf(e)' # {}
    BY <1>5
  <2>2. \A e \in Envelopes : cache'[e] # None => RowsOf(e)' # {}
    BY <1>1, <1>4, <2>1 DEF Records, Recorded
  <2> SUFFICES ASSUME NEW q \in Requests
               PROVE  Recorded(q)'
    BY <2>2 DEF Records
  <2>3. CASE q = r
    BY <1>1, <2>3 DEF TypeOK, Recorded, At
  <2>4. CASE q # r
    <3>1. reqs'[q] = reqs[q]
      BY <1>1, <2>4 DEF TypeOK
    <3>2. reqs[q].pc = "idle" => reqs[q].kind = "none"
      BY DEF Shapes, Shape, Idle
    <3>3. reqs[q].pc # "idle" => reqs[q].env \in Envelopes
      BY DEF Shapes, Shape
    <3>4. reqs[q].pc \in {"launch", "store"} => reqs[q].env # reqs[r].env
      BY <1>1, <2>4 DEF Locks, Inside
    <3> QED BY <1>1, <1>4, <2>1, <3>1, <3>2, <3>3, <3>4 DEF Records, Recorded, At
  <2> QED BY <2>3, <2>4
<1>12. Lives'
  <2>1. \A h \in Handles : Found(h) /\ procs[h].env # reqs[r].env => Found(h)'
    BY <1>1, <1>3 DEF Found, SidOf, RowsOf
  <2> QED BY <1>1, <2>1 DEF TypeOK, Locks, Lives, Tended, LiveOf, ProcRunning, SidOf, Inside, Carries, At
<1> QED BY <1>6, <1>7, <1>8, <1>9, <1>10, <1>11, <1>12

\* A process that is to be stopped is carried on.
LEMMA DeliverStoreFailsKeeps ==
  ASSUME IInv, NEW r \in Requests, DeliverStoreFails(r)
  PROVE  IInv'
<1> USE NoneAssumption DEF IInv
<1>1. /\ reqs[r].kind = "deliver" /\ reqs[r].pc = "store"
      /\ reqs' = [reqs EXCEPT ![r].pc = "stop"]
      /\ UNCHANGED <<sessions, cache, gate, registry, watchers, procs, owned, slipped>>
  BY DEF DeliverStoreFails, Goto, At
<1>2. TypeOK'
  BY SMTT(20), <1>1 DEF TypeOK, PCs
<1>3. Shapes'
  BY <1>1 DEF TypeOK, Idle, Shapes, Shape
<1>4. Locks'
  BY <1>1 DEF TypeOK, Locks, Inside
<1>5. Backing'
  BY <1>1 DEF Backing, SidOf
<1>6. Hands'
  BY <1>1 DEF TypeOK, Hands, Hand, Carries, At, SidOf
<1>7. Records'
  BY <1>1 DEF TypeOK, Records, Recorded, RowsOf, At
<1>8. Lives'
  BY <1>1 DEF TypeOK, Locks, Lives, Tended, LiveOf, ProcRunning, Found, SidOf, Inside, Carries, At
<1> QED BY <1>2, <1>3, <1>4, <1>5, <1>6, <1>7, <1>8

\* The carried process is reaped, and nobody else knew it.
LEMMA StopReturnsKeeps ==
  ASSUME IInv, NEW r \in Requests, StopReturns(r)
  PROVE  IInv'
<1> USE NoneAssumption DEF IInv
<1> DEFINE p == reqs[r].proc
<1>1. /\ reqs[r].kind = "deliver" /\ reqs[r].pc = "stop" /\ reqs[r].env \in Envelopes
      /\ procs' = [procs EXCEPT ![p] = NoProc]
      /\ owned' = owned \ {p}
      /\ reqs' = [reqs EXCEPT ![r] = Replied(reqs[r].env, None, "failed")]
      /\ gate' = [gate EXCEPT ![reqs[r].env] = None]
      /\ UNCHANGED <<sessions, cache, registry, watchers, slipped>>
  BY DEF StopReturns, Reap, Reply, Answer, Unlock, At, Shapes, Shape, Replied
<1>2. p \in owned /\ p \in Handles /\ procs[p].env = reqs[r].env /\ \A w \in watchers : w.proc # p
  BY <1>1 DEF Hands, Hand, Carries, At, TypeOK
<1>3. \A h \in Handles \ {p} : procs'[h] = procs[h] /\ SidOf(h)' = SidOf(h)
  BY <1>1, <1>2 DEF TypeOK, SidOf
<1>4. \A q \in Requests \ {r} : Carries(q) => reqs[q].env # reqs[r].env /\ reqs[q].proc # p
  BY <1>1, <1>2 DEF Carries, At, Hands, Hand, Locks, Inside
<1> HIDE DEF p
<1>5. /\ Replied(reqs[r].env, None, "failed") \in Request
      /\ Shape(Replied(reqs[r].env, None, "failed"))
      /\ Replied(reqs[r].env, None, "failed").pc = "replied"
      /\ Replied(reqs[r].env, None, "failed").kind = "none"
  BY <1>1, ReplyShape
<1>6. TypeOK'
  <2>1. reqs' \in [Requests -> Request]
    BY <1>1, <1>5 DEF TypeOK, Request
  <2> QED BY <1>1, <2>1 DEF TypeOK, NoProc, Request
<1>7. Shapes'
  BY <1>1, <1>5 DEF TypeOK, Shapes
<1>8. Locks'
  BY <1>1, <1>5 DEF TypeOK, Locks, Inside
<1>9. Backing'
  <2>1. \A w \in watchers : w.proc \in owned' /\ w.proc \in Handles \ {p}
    BY <1>1, <1>2 DEF Backing, TypeOK
  <2>2. \A h \in owned' : h \in owned /\ h \in Handles \ {p}
    BY <1>1 DEF TypeOK
  <2> QED BY <1>1, <1>3, <2>1, <2>2 DEF Backing
<1>10. Hands'
  <2> SUFFICES ASSUME NEW q \in Requests
               PROVE  Hand(q)'
    BY DEF Hands
  <2>1. CASE q = r
    BY <1>1, <1>5, <2>1 DEF TypeOK, Hand, Carries, At
  <2>2. CASE q # r
    <3>1. reqs'[q] = reqs[q] /\ Hand(q)
      BY <1>1, <2>2 DEF TypeOK, Hands
    <3>2. Carries(q) => reqs[q].proc \in Handles \ {p}
      BY <1>4, <2>2, <3>1 DEF Hand, TypeOK
    <3> QED BY <1>1, <1>3, <3>1, <3>2 DEF Hand, Carries, At
  <2> QED BY <2>1, <2>2
<1>11. Records'
  BY <1>1, <1>5 DEF Records, Recorded, RowsOf, At
<1>12. Lives'
  <2> SUFFICES ASSUME NEW e \in Envelopes \ slipped, NEW h \in LiveOf(e)'
               PROVE  Tended(e, h)'
    BY <1>1 DEF Lives
  <2>1. h \in LiveOf(e) /\ h \in Handles \ {p} /\ Tended(e, h)
    BY <1>1, <1>3 DEF LiveOf, ProcRunning, TypeOK, Lives
  <2>2. e # reqs[r].env
    BY <1>1, <2>1 DEF Tended, Locks, Inside, Carries, At, p
  <2>3. gate'[e] = gate[e] /\ gate[e] # r /\ (gate[e] # None => reqs'[gate[e]] = reqs[gate[e]])
    BY <1>1, <2>2 DEF TypeOK, Locks
  <2> QED BY <1>1, <1>3, <2>1, <2>3 DEF Tended, Found, Carries, At
<1> QED BY <1>6, <1>7, <1>8, <1>9, <1>10, <1>11, <1>12

\* The carried process is registered under its own session.
LEMMA RegisterKeeps ==
  ASSUME IInv, NEW r \in Requests, Register(r)
  PROVE  IInv'
<1> USE NoneAssumption DEF IInv
<1> DEFINE p == reqs[r].proc
           s == SidOf(p)
<1>1. /\ reqs[r].pc = "register" /\ reqs[r].env \in Envelopes /\ Carries(r)
      /\ registry' = [registry EXCEPT ![s] = p]
      /\ watchers' = watchers \cup {[sid |-> s, proc |-> p]}
      /\ UNCHANGED <<sessions, cache, procs, owned, slipped>>
  BY DEF Register, Carries, Shapes, Shape
<1>2. \/ /\ reqs[r].kind = "deliver"
         /\ reqs' = [reqs EXCEPT ![r].sess = s, ![r].proc = None, ![r].pc = "ack"]
         /\ gate' = [gate EXCEPT ![reqs[r].env] = None]
      \/ /\ reqs[r].kind = "resume"
         /\ reqs' = [reqs EXCEPT ![r].sess = s, ![r].proc = None, ![r].pc = "store"]
         /\ UNCHANGED gate
  BY DEF Register, Unlock
<1>3. /\ p \in owned /\ p \in Handles /\ s \in SessionIds /\ s.env = reqs[r].env
      /\ procs[p].env = reqs[r].env
      /\ \A w \in watchers : w.proc # p
  BY <1>1 DEF Hands, Hand, Backing, SidOf, TypeOK
<1>4. reqs[r].kind = "deliver" => s \in sessions
  BY <1>1 DEF Hands, Hand, At
<1>5. \A h \in Handles : SidOf(h)' = SidOf(h)
  BY <1>1 DEF SidOf
<1>6. registry'[s] = p /\ \A t \in SessionIds \ {s} : registry'[t] = registry[t]
  BY <1>1, <1>3 DEF TypeOK
<1>7. \A q \in Requests \ {r} : Carries(q) => reqs[q].env # reqs[r].env /\ reqs[q].proc # p
  BY <1>1, <1>3 DEF Carries, At, Hands, Hand, Locks, Inside
<1> HIDE DEF s
<1>8. TypeOK'
  BY <1>1, <1>2, <1>3 DEF TypeOK, PCs
<1>9. Shapes'
  BY <1>1, <1>2 DEF TypeOK, Idle, Shapes, Shape
<1>10. Locks'
  BY <1>1, <1>2 DEF TypeOK
<1>11. Backing'
  <2>1. \A w \in watchers' : w.proc \in owned /\ w.sid = SidOf(w.proc)
    BY <1>1, <1>3 DEF Backing, s
  <2>2. \A t \in SessionIds : registry'[t] # None =>
          [sid |-> t, proc |-> registry'[t]] \in watchers'
    BY <1>1, <1>6 DEF Backing
  <2> QED BY <1>1, <1>5, <2>1, <2>2 DEF TypeOK, Backing
<1>12. Hands'
  <2> SUFFICES ASSUME NEW q \in Requests
               PROVE  Hand(q)'
    BY DEF Hands
  <2>1. CASE q = r
    BY <1>2, <1>3, <1>4, <2>1 DEF TypeOK, Hand, Carries, At
  <2>2. CASE q # r
    <3>1. reqs'[q] = reqs[q]
      BY <1>2, <2>2 DEF TypeOK
    <3> QED BY <1>1, <1>7, <2>2, <3>1 DEF Hands, Hand, Carries, At, SidOf
  <2> QED BY <2>1, <2>2
<1>13. Records'
  BY <1>1, <1>2, <1>4, <1>3 DEF TypeOK
<1>14. Lives'
  <2> SUFFICES ASSUME NEW e \in Envelopes \ slipped, NEW h \in LiveOf(e)
               PROVE  Tended(e, h)'
    BY <1>1 DEF Lives, Tended, LiveOf, ProcRunning
  <2>0. h \in Handles /\ SidOf(h) \in SessionIds /\ procs[h].env = e /\ SidOf(h).env = e
    BY DEF LiveOf, TypeOK, Backing, SidOf
  <2>1. CASE e = reqs[r].env
    <3>1. gate[e] = r /\ h = p
      BY <1>1, <2>1 DEF Locks, Inside, Lives, Tended
    <3> QED BY <1>1, <1>2, <1>4, <1>5, <1>6, <2>0, <2>1, <3>1
            DEF TypeOK, Tended, Found, Carries, At, s
  <2>2. CASE e # reqs[r].env
    <3>1. gate'[e] = gate[e] /\ gate[e] # r
      BY <1>1, <1>2, <2>2 DEF TypeOK, Locks
    <3>2. \A q \in Requests \ {r} : reqs'[q] = reqs[q]
      BY <1>2 DEF TypeOK
    <3>3. SidOf(h) # s /\ registry'[SidOf(h)] = registry[SidOf(h)]
      BY <1>3, <1>6, <2>0, <2>2
    <3> QED BY <1>1, <1>5, <2>0, <3>1, <3>2, <3>3 DEF TypeOK, Lives, Tended, Found, Carries, At
  <2> QED BY <2>1, <2>2
<1> QED BY <1>8, <1>9, <1>10, <1>11, <1>12, <1>13, <1>14

\* The row of the envelope names the registered session.
LEMMA ResumeStoreKeeps ==
  ASSUME IInv, NEW r \in Requests, ResumeStore(r)
  PROVE  IInv'
<1> USE NoneAssumption DEF IInv
<1>1. /\ reqs[r].kind = "resume" /\ reqs[r].pc = "store"
      /\ sessions' = (sessions \ RowsOf(reqs[r].env)) \cup {reqs[r].sess}
      /\ reqs' = [reqs EXCEPT ![r].sess = None, ![r].pc = "inject"]
      /\ UNCHANGED <<cache, gate, registry, watchers, procs, owned, slipped>>
  BY DEF ResumeStore, UpdateSessionID, At
<1>2. TypeOK'
  BY <1>1 DEF TypeOK
<1>3. Shapes'
  BY <1>1 DEF TypeOK, Idle, Shapes, Shape
<1>4. Locks'
  BY <1>1 DEF TypeOK
<1>5. Backing'
  BY <1>1 DEF TypeOK
<1>6. Hands'
  BY <1>1 DEF TypeOK
<1>7. Records'
  BY <1>1 DEF TypeOK
<1>8. Lives'
  BY <1>1 DEF TypeOK
<1> QED BY <1>2, <1>3, <1>4, <1>5, <1>6, <1>7, <1>8

\* The promise is suspended for the envelope whose row could not be renamed.
LEMMA ResumeStoreFailsKeeps ==
  ASSUME IInv, NEW r \in Requests, ResumeStoreFails(r)
  PROVE  IInv'
<1> USE NoneAssumption DEF IInv
<1>1. /\ reqs[r].kind = "resume" /\ reqs[r].pc = "store"
      /\ slipped' = slipped \cup {reqs[r].env}
      /\ reqs' = [reqs EXCEPT ![r] = [Idle EXCEPT !.pc = "replied", !.env = reqs[r].env,
                                                 !.sess = None, !.result = "failed"]]
      /\ gate' = [gate EXCEPT ![reqs[r].env] = None]
      /\ UNCHANGED <<sessions, cache, registry, watchers, procs, owned>>
  BY DEF ResumeStoreFails, Reply, Answer, Unlock, At
<1>2. TypeOK'
  BY <1>1 DEF TypeOK, Idle, PCs, Shapes, Shape
<1>3. Shapes'
  BY <1>1 DEF TypeOK, Idle, Shapes, Shape
<1>4. Locks'
  BY <1>1 DEF TypeOK, Locks, Inside
<1>5. Backing'
  BY <1>1 DEF Backing, SidOf
<1>6. Hands'
  BY <1>1 DEF Hands, Hand, Carries, At, SidOf
<1>7. Records'
  BY <1>1 DEF Records, Recorded, RowsOf, At
<1>8. Lives'
  BY <1>1 DEF Lives, Tended, LiveOf, ProcRunning, Found, SidOf, Carries, At
<1> QED BY <1>2, <1>3, <1>4, <1>5, <1>6, <1>7, <1>8

\* A process that ends is only live no more.
LEMMA ExitKeeps ==
  ASSUME IInv, NEW h \in Handles, Exit(h)
  PROVE  IInv'
<1> USE NoneAssumption DEF IInv
<1>1. /\ procs' = [procs EXCEPT ![h] = IF h \in owned THEN [@ EXCEPT !.state = "exited"] ELSE NoProc]
      /\ UNCHANGED <<sessions, cache, gate, registry, watchers, owned, slipped, reqs>>
  BY DEF Exit
<1>2. \A k \in owned :
        /\ procs'[k].env = procs[k].env
        /\ SidOf(k)' = SidOf(k)
        /\ procs[k].state # "unused" => procs'[k].state # "unused"
        /\ ProcRunning(k)' => ProcRunning(k)
  BY <1>1 DEF TypeOK, SidOf, ProcRunning
<1>3. TypeOK'
  BY <1>1 DEF TypeOK, NoProc
<1>4. Shapes'
  BY <1>1 DEF Shapes
<1>5. Locks'
  BY <1>1 DEF Locks
<1>6. Backing'
  BY <1>1, <1>2 DEF Backing
<1>7. Hands'
  <2>1. \A r \in Requests : At(r, "deliver", "register") => reqs[r].proc \in owned
    BY DEF Hands, Hand, Carries, At
  <2> QED BY <1>1, <1>2, <2>1 DEF Hands, Hand, Carries, At
<1>8. Records'
  BY <1>1 DEF Records, Recorded, RowsOf, At
<1>9. Lives'
  BY <1>1, <1>2 DEF Lives, Tended, LiveOf, Found, Carries, At
<1> QED BY <1>3, <1>4, <1>5, <1>6, <1>7, <1>8, <1>9

\* A cleanup goroutine unlinks and reaps the process it waited for and no other.
LEMMA CleanupKeeps ==
  ASSUME IInv, NEW w \in watchers, Cleanup(w)
  PROVE  IInv'
<1> USE NoneAssumption DEF IInv
<1> DEFINE p == w.proc
<1>1. /\ registry' = IF registry[w.sid] = p THEN [registry EXCEPT ![w.sid] = None] ELSE registry
      /\ watchers' = watchers \ {w}
      /\ procs' = [procs EXCEPT ![p] = NoProc]
      /\ owned' = owned \ {p}
      /\ UNCHANGED <<sessions, cache, gate, slipped, reqs>>
  BY DEF Cleanup, Reap
<1>2. /\ p \in owned /\ p \in Handles /\ w.sid = SidOf(p) /\ w.sid \in SessionIds
      /\ procs[p].state = "exited"
  BY DEF Cleanup, TypeOK, Backing
<1>3. \A v \in watchers : v.proc = p => v = w
  <2>1. \A v \in watchers : v = [sid |-> v.sid, proc |-> v.proc]
    BY DEF TypeOK
  <2> QED BY <2>1 DEF Backing
<1>4. \A h \in Handles \ {p} : procs'[h] = procs[h] /\ SidOf(h)' = SidOf(h)
  BY <1>1, <1>2 DEF TypeOK, SidOf
<1>5. \A s \in SessionIds : registry'[s] # None => registry'[s] = registry[s] /\ registry[s] # p
  <2>1. \A s \in SessionIds : registry[s] = p => s = w.sid
    BY <1>2 DEF Backing
  <2> HIDE DEF p
  <2> QED BY <1>1, <1>2, <2>1 DEF TypeOK
<1>6. \A s \in SessionIds : registry[s] # p => registry'[s] = registry[s]
  BY <1>1, <1>2 DEF TypeOK
<1> HIDE DEF p
<1>7. TypeOK'
  BY <1>1, <1>2 DEF TypeOK, NoProc
<1>8. Shapes'
  BY <1>1 DEF Shapes
<1>9. Locks'
  BY <1>1 DEF Locks
<1>10. Backing'
  <2>1. \A v \in watchers' : v \in watchers /\ v.proc \in owned' /\ v.proc \in Handles \ {p}
    BY <1>1, <1>3 DEF Backing, TypeOK, p
  <2>2. \A h \in owned' : h \in owned /\ h \in Handles \ {p}
    BY <1>1 DEF TypeOK
  <2>3. \A s \in SessionIds : registry'[s] # None => [sid |-> s, proc |-> registry'[s]] \in watchers'
    BY <1>1, <1>5 DEF Backing, p
  <2> QED BY <1>1, <1>4, <2>1, <2>2, <2>3 DEF Backing
<1>11. Hands'
  <2>1. \A q \in Requests : Carries(q) => reqs[q].proc \in Handles \ {p}
    BY DEF Hands, Hand, TypeOK, p
  <2>2. \A q \in Requests : At(q, "deliver", "register") => Carries(q)
    BY DEF Carries, At
  <2> QED BY <1>1, <1>4, <2>1, <2>2 DEF Hands, Hand, Carries, At
<1>12. Records'
  BY <1>1 DEF Records, Recorded, RowsOf, At
<1>13. Lives'
  <2> SUFFICES ASSUME NEW e \in Envelopes \ slipped, NEW h \in LiveOf(e)'
               PROVE  Tended(e, h)'
    BY <1>1 DEF Lives
  <2>1. h \in LiveOf(e) /\ h \in Handles \ {p} /\ Tended(e, h) /\ SidOf(h) \in SessionIds
    BY <1>1, <1>4 DEF LiveOf, ProcRunning, TypeOK, Lives, Backing
  <2> QED BY <1>1, <1>4, <1>6, <2>1 DEF Tended, Found, Carries, At
<1> QED BY <1>7, <1>8, <1>9, <1>10, <1>11, <1>12, <1>13

\* A new Forge knows nothing but the register.
LEMMA CrashKeeps ==
  ASSUME IInv, Crash
  PROVE  IInv'
<1> USE NoneAssumption DEF IInv
<1> DEFINE Broken(e) == [Idle EXCEPT !.pc = "replied", !.env = e, !.result = "failed"]
<1>1. /\ cache'    = [e \in Envelopes |-> None]
      /\ gate'     = [e \in Envelopes |-> None]
      /\ registry' = [s \in SessionIds |-> None]
      /\ watchers' = {} /\ owned' = {} /\ slipped' = {} /\ sessions' = sessions
  BY Zenon DEF Crash
<1>2. reqs' = [r \in Requests |-> IF reqs[r] = Idle THEN Idle ELSE Broken(reqs[r].env)]
  BY Zenon DEF Crash
<1>3. \E orphans \in SUBSET {h \in Handles : ProcRunning(h) /\ "orphan" \in Failures} :
           procs' = [h \in Handles |-> IF h \in orphans THEN procs[h] ELSE NoProc]
  BY Zenon DEF Crash
<1>4. /\ reqs' \in [Requests -> Request]
      /\ \A r \in Requests : Shape(reqs'[r]) /\ reqs'[r].pc \in {"idle", "replied"}
                             /\ reqs'[r].kind = "none"
  <2>1. \A r \in Requests : reqs[r] # Idle => reqs[r].env \in Envelopes
    BY DEF Shapes, Shape
  <2>2. Idle \in Request /\ Shape(Idle) /\ Idle.pc = "idle" /\ Idle.kind = "none"
    BY DEF Idle, Request, Shape, PCs
  <2>3. \A e \in Envelopes : /\ Broken(e) \in Request /\ Shape(Broken(e))
                            /\ Broken(e).pc = "replied" /\ Broken(e).kind = "none"
    BY DEF Idle, Request, Shape, PCs
  <2> HIDE DEF Broken
  <2> QED BY <1>2, <2>1, <2>2, <2>3
<1>5. procs' \in [Handles -> [state : {"unused", "running", "exited"},
                              env : Envelopes \cup {None}, pid : Pids \cup {None}]]
  BY <1>3 DEF TypeOK, NoProc
<1>6. TypeOK'
  BY <1>1, <1>4, <1>5 DEF TypeOK, Request
<1>7. Shapes'
  BY <1>4 DEF Shapes
<1>8. Locks'
  BY <1>1, <1>4 DEF Locks, Inside
<1>9. Backing'
  BY <1>1 DEF Backing
<1>10. Hands'
  BY <1>4 DEF Hands, Hand, Carries, At
<1>11. Records'
  BY <1>1, <1>4 DEF Records, Recorded, At
<1>12. Lives'
  BY <1>1 DEF Lives, LiveOf
<1> QED BY <1>6, <1>7, <1>8, <1>9, <1>10, <1>11, <1>12

\* Every step keeps the invariant.
LEMMA NextKeeps ==
  ASSUME IInv, [Next]_vars
  PROVE  IInv'
<1>1. CASE \E r \in Requests, kind \in {"deliver", "resume"}, e \in Envelopes : Receive(r, kind, e)
  BY <1>1, ReceiveKeeps
<1>2. ASSUME NEW r \in Requests, Handle(r) \/ Acquire(r) \/ Finish(r)
      PROVE  IInv'
  <2>1. CASE Proceed(r)
    BY <2>1, LaunchKeeps, LeaveKeeps, RegisterKeeps, CheckCacheKeeps, DeliverLookupKeeps,
       DeliverStoreKeeps, StopReturnsKeeps, AckKeeps, ResumeFetchKeeps, ResumeLookupKeeps, ResumeStoreKeeps
       DEF Proceed
  <2>2. CASE Fault(r)
    BY <2>2, LeaveKeeps, DeliverStoreFailsKeeps, ResumeStoreFailsKeeps DEF Fault
  <2>3. CASE Acquire(r)
    BY <2>3, AcquireKeeps
  <2>4. CASE Finish(r)
    BY <2>4, FinishKeeps
  <2> QED BY <1>2, <2>1, <2>2, <2>3, <2>4 DEF Handle
<1>3. CASE \E h \in Handles : Exit(h)
  BY <1>3, ExitKeeps
<1>4. CASE \E w \in watchers : Cleanup(w)
  BY <1>4, CleanupKeeps
<1>5. CASE Crash
  BY <1>5, CrashKeeps
<1>6. CASE UNCHANGED vars
  <2>1. UNCHANGED <<sessions, cache, gate, registry, watchers, procs, owned, slipped, reqs>>
    BY <1>6 DEF vars
  <2> QED BY <2>1 DEF IInv, TypeOK, Shapes, Locks, Backing, SidOf, Hands, Hand, Carries, At, Records,
                     Recorded, RowsOf, Lives, Tended, LiveOf, ProcRunning, Found
<1> QED BY <1>1, <1>2, <1>3, <1>4, <1>5, <1>6 DEF Next

\* A Forge that has never run satisfies it.
LEMMA InitInvariant ==
  Init => IInv
<1> SUFFICES ASSUME Init
             PROVE  IInv
  OBVIOUS
<1> USE NoneAssumption
<1>1. /\ sessions = {} /\ watchers = {} /\ owned = {} /\ slipped = {}
      /\ cache = [e \in Envelopes |-> None]
      /\ gate = [e \in Envelopes |-> None]
      /\ registry = [s \in SessionIds |-> None]
      /\ procs = [h \in Handles |-> NoProc]
      /\ reqs = [r \in Requests |-> Idle]
  BY DEF Init
<1>2. Idle \in Request /\ Shape(Idle) /\ Idle.pc = "idle" /\ Idle.kind = "none"
  BY DEF Idle, Request, Shape, PCs
<1>3. TypeOK
  BY <1>1, <1>2 DEF TypeOK, Request, NoProc
<1>4. Shapes /\ Locks /\ Backing /\ Hands /\ Records /\ Lives
  BY <1>1, <1>2 DEF Shapes, Locks, Inside, Backing, Hands, Hand, Carries, At, Records, Recorded,
                    Lives, LiveOf
<1> QED BY <1>3, <1>4 DEF IInv

\* The invariant holds in every state of Forge.
THEOREM InductiveInvariant == Spec => []IInv
BY InitInvariant, NextKeeps, PTL DEF Spec

\* Type correctness: the handlers' memory, the register and the process table
\* keep their shape.
THEOREM TypeCorrect == Spec => []TypeOK
<1>1. IInv => TypeOK
  BY DEF IInv
<1> QED BY <1>1, InductiveInvariant, PTL

\* Two live processes of an envelope that the register failed nowhere would be
\* found under the same key of the registry, or be carried by the one request in
\* the gate: they are one.
LEMMA OneLives ==
  ASSUME IInv, NEW e \in Envelopes \ slipped, NEW h \in LiveOf(e), NEW k \in LiveOf(e)
  PROVE  h = k
<1>1. /\ SidOf(h) \in SessionIds /\ SidOf(k) \in SessionIds
      /\ SidOf(h).env = e /\ SidOf(k).env = e
  BY DEF IInv, Backing, LiveOf, SidOf
<1>2. Tended(e, h) /\ Tended(e, k)
  BY DEF IInv, Lives
<1>3. CASE gate[e] = None \/ reqs[gate[e]].pc \in {"lookup", "inject"}
  <2>1. Found(h) /\ Found(k)
    BY <1>2, <1>3 DEF Tended
  <2>2. SidOf(h) = SidOf(k)
    BY <1>1, <2>1 DEF Found, IInv, Backing
  <2> QED BY <2>1, <2>2 DEF Found
<1>4. CASE gate[e] # None /\ reqs[gate[e]].pc \notin {"lookup", "inject"}
  <2>1. gate[e] \in Requests /\ reqs[gate[e]].pc \in {"launch", "store", "stop", "register"}
        /\ reqs[gate[e]].kind \in {"deliver", "resume"}
    BY <1>4 DEF IInv, TypeOK, Locks, Inside, Shapes, Shape
  <2> QED BY <1>2, <2>1 DEF Tended, Carries, At
<1> QED BY <1>3, <1>4

\* The spawn gate's purpose: at most one executor that Forge started for an
\* envelope since boot is alive, however many deliveries and resumes race for it.
THEOREM OneExecutor == Spec => []OneLiveExecutor
<1>1. ASSUME IInv, NEW e \in Envelopes \ slipped
      PROVE  Cardinality(LiveOf(e)) <= 1
  <2>1. CASE LiveOf(e) = {}
    BY <2>1, FS_EmptySet
  <2>2. CASE LiveOf(e) # {}
    <3>1. PICK h \in LiveOf(e) : TRUE
      BY <2>2
    <3>2. LiveOf(e) = {h}
      BY <1>1, <3>1, OneLives
    <3> QED BY <3>2, FS_Singleton
  <2> QED BY <2>1, <2>2
<1>2. IInv => OneLiveExecutor
  BY <1>1 DEF OneLiveExecutor
<1> QED BY <1>2, InductiveInvariant, PTL

\* An executor that runs is never lost: when nobody holds the gate of its
\* envelope, the envelope's row and the registry lead to it.
THEOREM Reachable == Spec => []LiveIsReachable
<1>1. ASSUME IInv, NEW e \in Envelopes \ slipped, gate[e] = None, NEW h \in LiveOf(e)
      PROVE  \E s \in RowsOf(e) : registry[s] = h
  <2>1. Found(h)
    BY <1>1 DEF IInv, Lives, Tended
  <2>2. SidOf(h).env = e
    BY DEF LiveOf, SidOf
  <2> QED BY <2>1, <2>2 DEF Found, RowsOf
<1>2. IInv => LiveIsReachable
  BY <1>1 DEF LiveIsReachable
<1> QED BY <1>2, InductiveInvariant, PTL
-----------------------------------------------------------------------------
(* The refinement of ForgeService. *)

\* The abstract variables, as ForgeDelivery's instance substitutes them.
Accepted == {s.env : s \in sessions}
AllLive  == [e \in Envelopes |-> LiveOf(e)]
Calls    == [r \in Requests |-> [env |-> reqs[r].env, answer |-> reqs[r].result]]

\* How the abstract calls look at each place of a request.
LEMMA CallsAt ==
  ASSUME IInv, NEW r \in Requests
  PROVE  /\ reqs[r] = Idle <=> Calls[r] = Service!NoCall
         /\ reqs[r].pc \notin {"idle", "replied"} =>
              /\ Calls[r] # Service!NoCall /\ Calls[r].answer = "none"
              /\ Calls[r].env = reqs[r].env /\ reqs[r].env \in Envelopes
         /\ reqs[r].pc = "replied" => Calls[r].answer # "none"
<1>1. Shape(reqs[r]) /\ Calls[r] = [env |-> reqs[r].env, answer |-> reqs[r].result]
  BY DEF IInv, Shapes, Calls
<1>2. reqs[r].pc = "idle" <=> reqs[r].env = None
  BY <1>1, NoneAssumption DEF Shape, Idle
<1>3. reqs[r].pc = "idle" => reqs[r] = Idle /\ reqs[r].result = "none"
  BY <1>1 DEF Shape, Idle
<1>4. reqs[r] = Idle => reqs[r].pc = "idle"
  BY DEF Idle
<1> QED BY <1>1, <1>2, <1>3, <1>4 DEF Shape, Service!NoCall

\* An envelope is accepted if it has a row.
LEMMA AcceptedHasRow ==
  ASSUME NEW e
  PROVE  e \in Accepted <=> RowsOf(e) # {}
BY DEF Accepted, RowsOf

\* An answer is all that its caller learns.
LEMMA AnswerCalls ==
  ASSUME TypeOK, NEW r \in Requests, NEW s, NEW result,
         reqs' = [reqs EXCEPT ![r] = Replied(reqs[r].env, s, result)]
  PROVE  Calls' = [Calls EXCEPT ![r].answer = result]
<1>1. \A o \in Requests : /\ reqs'[o].env = reqs[o].env
                          /\ reqs'[o].result = IF o = r THEN result ELSE reqs[o].result
  BY DEF TypeOK, Replied, Idle
<1> QED BY <1>1 DEF Calls

\* A request that moves on keeps its envelope and has no answer yet.
LEMMA SilentCalls ==
  ASSUME \A o \in Requests : reqs'[o].env = reqs[o].env /\ reqs'[o].result = reqs[o].result
  PROVE  Calls' = Calls
BY DEF Calls

\* Who lives is a matter of the processes since boot alone.
LEMMA SameLive ==
  ASSUME UNCHANGED <<procs, owned>>
  PROVE  AllLive' = AllLive
BY DEF AllLive, LiveOf, ProcRunning

\* The steps of a request that its caller and the service know nothing of.
Unseen == UNCHANGED <<Accepted, slipped, AllLive, Calls>>

\* Receive is a call, Finish its return.
LEMMA ReceiveRefines ==
  ASSUME IInv, NEW r \in Requests, NEW kind, NEW e \in Envelopes, Receive(r, kind, e)
  PROVE  Service!Call(r, e)
<1>1. Calls[r] = Service!NoCall
  BY CallsAt DEF Receive
<1>2. \A o \in Requests : /\ reqs'[o].env = IF o = r THEN e ELSE reqs[o].env
                          /\ reqs'[o].result = reqs[o].result
  BY DEF Receive, Idle, IInv, TypeOK
<1>3. Calls' = [Calls EXCEPT ![r].env = e]
  BY <1>2 DEF Calls
<1>4. UNCHANGED <<Accepted, slipped, AllLive>>
  BY SameLive DEF Receive, Accepted
<1> QED BY <1>1, <1>3, <1>4 DEF Service!Call, Accepted, AllLive, Calls

LEMMA FinishRefines ==
  ASSUME IInv, NEW r \in Requests, Finish(r)
  PROVE  Service!Return(r)
<1>1. Calls[r].answer # "none"
  BY CallsAt DEF Finish
<1>2. \A o \in Requests : /\ reqs'[o].env = IF o = r THEN None ELSE reqs[o].env
                          /\ reqs'[o].result = IF o = r THEN "none" ELSE reqs[o].result
  BY DEF Finish, Idle, IInv, TypeOK
<1>3. Calls' = [Calls EXCEPT ![r] = Service!NoCall]
  BY <1>2 DEF Calls, Service!NoCall
<1>4. UNCHANGED <<Accepted, slipped, AllLive>>
  BY SameLive DEF Finish, Accepted
<1> QED BY <1>1, <1>3, <1>4 DEF Service!Return, Accepted, AllLive, Calls

\* The answer ok is for envelopes on record.
LEMMA AcceptRefines ==
  ASSUME IInv, NEW r \in Requests, NEW s, Answer(r, "ok", s), RowsOf(reqs[r].env) # {},
         reqs[r].pc \notin {"idle", "replied"}, UNCHANGED <<sessions, procs, owned, slipped>>
  PROVE  Service!Accept(r)
<1>1. Calls[r] # Service!NoCall /\ Calls[r].answer = "none" /\ Calls[r].env = reqs[r].env
  BY CallsAt
<1>2. Calls' = [Calls EXCEPT ![r].answer = "ok"]
  <2>1. reqs' = [reqs EXCEPT ![r] = Replied(reqs[r].env, s, "ok")]
    BY DEF Answer, Replied
  <2> QED BY <2>1, AnswerCalls DEF IInv
<1>3. Calls[r].env \in Accepted
  BY <1>1, AcceptedHasRow
<1>4. UNCHANGED <<Accepted, slipped, AllLive>>
  BY SameLive DEF Accepted
<1> QED BY <1>1, <1>2, <1>3, <1>4
        DEF Service!Accept, Service!Waiting, Accepted, AllLive, Calls

\* An error that stops no process and loses no row.
LEMMA RefuseRefines ==
  ASSUME IInv, NEW r \in Requests, Reply(r, "failed"), reqs[r].pc \notin {"idle", "replied"},
         UNCHANGED <<sessions, procs, owned>>,
         slipped' = slipped \/ slipped' = slipped \cup {reqs[r].env}
  PROVE  Service!Refuse(r)
<1>1. Calls[r] # Service!NoCall /\ Calls[r].answer = "none" /\ Calls[r].env = reqs[r].env
  BY CallsAt
<1>2. Calls' = [Calls EXCEPT ![r].answer = "failed"]
  <2>1. reqs' = [reqs EXCEPT ![r] = Replied(reqs[r].env, None, "failed")]
    BY DEF Reply, Answer, Replied
  <2> QED BY <2>1, AnswerCalls DEF IInv
<1>3. UNCHANGED <<Accepted, AllLive>>
  BY SameLive DEF Accepted
<1> QED BY <1>1, <1>2, <1>3
        DEF Service!Refuse, Service!Waiting, Accepted, AllLive, Calls

LEMMA UnknownExecutorRefines ==
  ASSUME IInv, NEW r \in Requests, UnknownExecutor(r)
  PROVE  Service!Reject(r)
<1>1. Calls[r] # Service!NoCall /\ Calls[r].answer = "none" /\ Calls[r].env = reqs[r].env
  BY CallsAt DEF UnknownExecutor
<1>2. Calls' = [Calls EXCEPT ![r].answer = "unprocessable"]
  <2>1. reqs' = [reqs EXCEPT ![r] = Replied(reqs[r].env, None, "unprocessable")]
    BY DEF UnknownExecutor, Reply, Answer, Replied
  <2> QED BY <2>1, AnswerCalls DEF IInv
<1>3. UNCHANGED <<Accepted, slipped, AllLive>> /\ reqs[r].env \notin Launchable
  BY SameLive DEF UnknownExecutor, Accepted
<1> QED BY <1>1, <1>2, <1>3 DEF Service!Reject, Service!Waiting, Accepted, AllLive, Calls

\* An executor is started when none lives or the register failed the envelope.
LEMMA LaunchRefines ==
  ASSUME IInv, NEW r \in Requests, Launch(r)
  PROVE  \E h \in Handles : Service!Start(r, h)
<1> DEFINE e == reqs[r].env
<1>1. PICK h \in Handles, pid \in Pids :
        /\ procs[h] = NoProc
        /\ procs' = [procs EXCEPT ![h] = [state |-> "running", env |-> reqs[r].env, pid |-> pid]]
        /\ owned' = owned \cup {h}
        /\ reqs' = [reqs EXCEPT ![r].proc = h,
             ![r].pc = IF reqs[r].kind = "deliver" THEN "store" ELSE "register"]
        /\ reqs[r].pc = "launch" /\ e \in Launchable
        /\ UNCHANGED <<sessions, slipped>>
  BY DEF Launch, Unused, FreePids
<1>2. Calls[r] # Service!NoCall /\ Calls[r].answer = "none" /\ Calls[r].env = e /\ e \in Envelopes
  BY <1>1, CallsAt
<1>3. Calls' = Calls
  BY <1>1, SilentCalls DEF IInv, TypeOK
<1>4. h \notin owned
  BY <1>1 DEF IInv, Backing, NoProc
<1>5. LiveOf(e) = {} \/ e \in slipped
  <2>1. gate[e] = r
    BY <1>1 DEF IInv, Locks, Inside
  <2> QED BY <1>1, <1>2, <2>1 DEF IInv, Lives, Tended
<1>6. \A k \in Handles \ {h} : procs'[k] = procs[k]
  BY <1>1 DEF IInv, TypeOK
<1>7. procs'[h].state = "running" /\ procs'[h].env = e
  BY <1>1 DEF IInv, TypeOK
<1> HIDE DEF e
<1>8. \A d \in Envelopes : LiveOf(d)' = IF d = e THEN LiveOf(d) \cup {h} ELSE LiveOf(d)
  <2>1. owned \subseteq Handles \ {h}
    BY <1>4 DEF IInv, TypeOK
  <2> QED BY <1>1, <1>6, <1>7, <2>1 DEF LiveOf, ProcRunning
<1>9. AllLive' = [AllLive EXCEPT ![e] = @ \cup {h}]
  BY <1>8 DEF AllLive
<1>10. AllLive[e] = {} \/ e \in slipped
  BY <1>2, <1>5 DEF AllLive
<1>11. Accepted' = Accepted
  BY <1>1 DEF Accepted
<1> QED BY <1>1, <1>2, <1>3, <1>9, <1>10, <1>11
        DEF Service!Start, Service!Waiting, Accepted, AllLive, Calls, e

\* The row of a new session puts the envelope on record.
LEMMA DeliverStoreRefines ==
  ASSUME IInv, NEW r \in Requests, DeliverStore(r)
  PROVE  Service!Record(r)
<1>1. /\ At(r, "deliver", "store")
      /\ reqs' = [reqs EXCEPT ![r].pc = "register"]
      /\ UNCHANGED <<slipped, procs, owned>>
  BY DEF DeliverStore, Goto
<1>2. Calls[r] # Service!NoCall /\ Calls[r].answer = "none" /\ Calls[r].env = reqs[r].env
      /\ reqs[r].env \in Envelopes
  BY <1>1, CallsAt DEF At
<1> DEFINE e == reqs[r].env
           s == SidOf(reqs[r].proc)
<1>3. s.env = e
  BY <1>1 DEF IInv, Hands, Hand, Carries, SidOf
<1>4. sessions' = (sessions \ RowsOf(e)) \cup {s}
  BY <1>1 DEF DeliverStore, UpdateSessionID, IInv, Records, Recorded, At
<1> HIDE DEF s
<1>5. Accepted' = Accepted \cup {e}
  BY <1>3, <1>4 DEF Accepted, RowsOf
<1>6. Calls' = Calls /\ AllLive' = AllLive
  BY <1>1, SilentCalls, SameLive DEF IInv, TypeOK
<1> QED BY <1>1, <1>2, <1>5, <1>6 DEF Service!Record, Service!Waiting, Accepted, AllLive, Calls

\* A failed insert is refused when the process the call started lives no more.
LEMMA StopReturnsRefines ==
  ASSUME IInv, NEW r \in Requests, StopReturns(r)
  PROVE  Service!Refuse(r)
<1> DEFINE e == reqs[r].env
           p == reqs[r].proc
<1>1. /\ At(r, "deliver", "stop") /\ ~ ProcRunning(p)
      /\ procs' = [procs EXCEPT ![p] = NoProc] /\ owned' = owned \ {p}
      /\ reqs' = [reqs EXCEPT ![r] = Replied(e, None, "failed")]
      /\ UNCHANGED <<sessions, slipped>>
  BY DEF StopReturns, Reap, Reply, Answer, Replied, ProcRunning
<1>2. Calls[r] # Service!NoCall /\ Calls[r].answer = "none" /\ Calls[r].env = e
  BY <1>1, CallsAt DEF At
<1>3. Calls' = [Calls EXCEPT ![r].answer = "failed"]
  BY <1>1, AnswerCalls DEF IInv
<1>4. owned \subseteq Handles /\ \A k \in Handles \ {p} : procs'[k] = procs[k]
  BY <1>1 DEF IInv, TypeOK
<1> HIDE DEF e, p
<1>5. \A d \in Envelopes : LiveOf(d)' = LiveOf(d)
  BY <1>1, <1>4 DEF LiveOf, ProcRunning
<1>6. AllLive' = AllLive /\ Accepted' = Accepted
  BY <1>1, <1>5 DEF AllLive, Accepted
<1> QED BY <1>1, <1>2, <1>3, <1>6
        DEF Service!Refuse, Service!Waiting, Accepted, AllLive, Calls

\* A look-up that has to do with a stale row lapses the promise.
LEMMA ResumeLookupRefines ==
  ASSUME IInv, NEW r \in Requests, ResumeLookup(r)
  PROVE  Service!Lapse(r) \/ Unseen
<1>1. /\ At(r, "resume", "lookup")
      /\ slipped' = slipped \/ slipped' = slipped \cup {reqs[r].env}
      /\ UNCHANGED <<sessions, procs, owned>>
      /\ \E pc, s : reqs' = [reqs EXCEPT ![r].sess = s, ![r].pc = pc]
  BY DEF ResumeLookup
<1>2. Calls[r] # Service!NoCall /\ Calls[r].answer = "none" /\ Calls[r].env = reqs[r].env
  BY <1>1, CallsAt DEF At
<1>3. Calls' = Calls
  BY <1>1, SilentCalls DEF IInv, TypeOK
<1>4. UNCHANGED <<Accepted, AllLive>>
  BY <1>1, SameLive DEF Accepted
<1> QED BY <1>1, <1>2, <1>3, <1>4
        DEF Service!Lapse, Service!Waiting, Accepted, AllLive, Calls, Unseen

\* The row of the envelope changes its session, or only the request moves on.
LEMMA QuietSteps ==
  ASSUME IInv, NEW r \in Requests,
         ResumeStore(r) \/ Register(r) \/ DeliverLookup(r) \/ Acquire(r) \/ DeliverStoreFails(r)
  PROVE  Unseen
<1>1. UNCHANGED <<slipped, procs, owned>>
  BY DEF ResumeStore, Register, DeliverLookup, Acquire, DeliverStoreFails
<1>2. \A o \in Requests : reqs'[o].env = reqs[o].env /\ reqs'[o].result = reqs[o].result
  <2> USE DEF IInv, TypeOK
  <2>1. CASE ResumeStore(r)
    BY <2>1 DEF ResumeStore
  <2>2. CASE Register(r)
    BY <2>2 DEF Register
  <2>3. CASE DeliverLookup(r)
    <3>1. \E s, pc : reqs' = [reqs EXCEPT ![r].sess = s, ![r].pc = pc]
      BY <2>3 DEF DeliverLookup
    <3> QED BY <3>1
  <2>4. CASE Acquire(r) \/ DeliverStoreFails(r)
    BY <2>4 DEF Acquire, DeliverStoreFails, Goto
  <2> QED BY <2>1, <2>2, <2>3, <2>4
<1>3. Accepted' = Accepted
  <2>1. CASE ResumeStore(r)
    <3>1. /\ sessions' = (sessions \ RowsOf(reqs[r].env)) \cup {reqs[r].sess}
          /\ reqs[r].sess.env = reqs[r].env /\ RowsOf(reqs[r].env) # {}
      BY <2>1 DEF ResumeStore, UpdateSessionID, At, IInv, Hands, Hand, Records, Recorded
    <3> QED BY <3>1 DEF Accepted, RowsOf
  <2>2. CASE UNCHANGED sessions
    BY <2>2 DEF Accepted
  <2> QED BY <2>1, <2>2 DEF Register, DeliverLookup, Acquire, DeliverStoreFails
<1> QED BY <1>1, <1>2, <1>3, SilentCalls, SameLive DEF Unseen

\* The end of a process: of one that lives, or of one nobody counts.
LEMMA ExitRefines ==
  ASSUME IInv, NEW h \in Handles, Exit(h)
  PROVE  (\E e \in Envelopes : Service!Stop(e)) \/ Unseen
<1>1. /\ procs[h].state = "running"
      /\ procs' = [procs EXCEPT ![h] = IF h \in owned THEN [@ EXCEPT !.state = "exited"] ELSE NoProc]
      /\ UNCHANGED <<sessions, owned, slipped, reqs>>
  BY DEF Exit, ProcRunning
<1>2. Calls' = Calls /\ Accepted' = Accepted
  BY <1>1 DEF Calls, Accepted
<1>3. procs'[h].state # "running" /\ \A k \in Handles \ {h} : procs'[k] = procs[k]
  BY <1>1 DEF IInv, TypeOK, NoProc
<1>4. \A d \in Envelopes : LiveOf(d)' = LiveOf(d) \ {h}
  <2>1. owned \subseteq Handles
    BY DEF IInv, TypeOK
  <2> QED BY <1>1, <1>3, <2>1 DEF LiveOf, ProcRunning
<1>5. CASE h \in owned
  <2> DEFINE e == procs[h].env
  <2>1. e \in Envelopes /\ h \in LiveOf(e)
    BY <1>1, <1>5 DEF IInv, Backing, SidOf, SessionIds, LiveOf, ProcRunning
  <2>2. \A d \in Envelopes : h \in LiveOf(d) => d = e
    BY DEF LiveOf
  <2> HIDE DEF e
  <2>3. \A d \in Envelopes : LiveOf(d)' = IF d = e THEN LiveOf(d) \ {h} ELSE LiveOf(d)
    BY <1>4, <2>2
  <2>4. h \in AllLive[e] /\ AllLive' = [AllLive EXCEPT ![e] = @ \ {h}]
    BY <2>1, <2>3 DEF AllLive
  <2>5. Service!Stop(e)
    BY <1>1, <1>2, <2>4 DEF Service!Stop, Accepted, AllLive, Calls
  <2> QED BY <2>1, <2>5
<1>6. CASE h \notin owned
  <2>1. \A d \in Envelopes : LiveOf(d)' = LiveOf(d)
    BY <1>4, <1>6 DEF LiveOf
  <2> QED BY <1>1, <1>2, <2>1 DEF Unseen, AllLive
<1> QED BY <1>5, <1>6

\* Only processes that have ended are reaped.
LEMMA CleanupRefines ==
  ASSUME IInv, NEW w \in watchers, Cleanup(w)
  PROVE  Unseen
<1>1. /\ procs[w.proc].state = "exited"
      /\ procs' = [procs EXCEPT ![w.proc] = NoProc] /\ owned' = owned \ {w.proc}
      /\ UNCHANGED <<sessions, slipped, reqs>>
  BY DEF Cleanup, Reap
<1>2. \A k \in Handles \ {w.proc} : procs'[k] = procs[k]
  BY <1>1 DEF IInv, TypeOK
<1>3. owned \subseteq Handles
  BY DEF IInv, TypeOK
<1>4. \A d \in Envelopes : LiveOf(d)' = LiveOf(d)
  BY <1>1, <1>2, <1>3 DEF LiveOf, ProcRunning
<1> QED BY <1>1, <1>4 DEF Unseen, AllLive, Accepted, Calls

\* A restart breaks every open call and forgets every process.
LEMMA CrashRefines ==
  ASSUME IInv, Crash
  PROVE  Service!Restart
<1>1. /\ owned' = {} /\ slipped' = {} /\ sessions' = sessions
  BY Zenon DEF Crash
<1> DEFINE Broken(e) == [Idle EXCEPT !.pc = "replied", !.env = e, !.result = "failed"]
<1>2. reqs' = [r \in Requests |-> IF reqs[r] = Idle THEN Idle ELSE Broken(reqs[r].env)]
  BY Zenon DEF Crash
<1>3. \A r \in Requests : /\ reqs'[r].env = reqs[r].env
                          /\ reqs'[r].result = IF reqs[r] = Idle THEN "none" ELSE "failed"
  <2>1. \A e : Broken(e).env = e /\ Broken(e).result = "failed"
    BY DEF Idle
  <2>2. Idle.env = None /\ Idle.result = "none"
    BY DEF Idle
  <2> HIDE DEF Broken
  <2> QED BY <1>2, <2>1, <2>2
<1>4. \A r \in Requests : reqs[r] = Idle <=> Calls[r] = Service!NoCall
  BY CallsAt
<1>5. \A r \in Requests : reqs[r] = Idle => reqs[r].env = None
  BY DEF Idle
<1>6. Calls' = [r \in Requests |-> IF Calls[r] = Service!NoCall THEN Service!NoCall
                                   ELSE [Calls[r] EXCEPT !.answer = "failed"]]
  BY <1>3, <1>4, <1>5 DEF Calls, Service!NoCall
<1>7. AllLive' = [e \in Envelopes |-> {}]
  BY <1>1 DEF AllLive, LiveOf
<1>8. Accepted' = Accepted
  BY <1>1 DEF Accepted
<1> QED BY <1>1, <1>6, <1>7, <1>8 DEF Service!Restart, Accepted, AllLive, Calls

\* Every step of Forge is a step of the service or one it does not see.
LEMMA NextRefines ==
  ASSUME IInv, [Next]_vars
  PROVE  Service!Next \/ Unseen
<1>1. ASSUME NEW r \in Requests, NEW kind, NEW e \in Envelopes, Receive(r, kind, e)
      PROVE  Service!Next
  BY <1>1, ReceiveRefines DEF Service!Next
<1>2. ASSUME NEW r \in Requests, Handle(r) \/ Acquire(r) \/ Finish(r)
      PROVE  Service!Next \/ Unseen
  <2> SUFFICES ASSUME ~ Unseen
               PROVE  \/ \E h \in Handles : Service!Start(r, h)
                      \/ Service!Record(r) \/ Service!Accept(r) \/ Service!Lapse(r)
                      \/ Service!Refuse(r) \/ Service!Reject(r) \/ Service!Return(r)
    BY DEF Service!Next
  <2>1. CASE Launch(r) \/ UnknownExecutor(r) \/ DeliverStore(r) \/ ResumeLookup(r)
               \/ StopReturns(r) \/ Finish(r)
    BY <2>1, LaunchRefines, UnknownExecutorRefines, DeliverStoreRefines, ResumeLookupRefines,
       StopReturnsRefines, FinishRefines
  <2>2. CASE ResumeStore(r) \/ Register(r) \/ DeliverLookup(r) \/ Acquire(r) \/ DeliverStoreFails(r)
    BY <2>2, QuietSteps
  <2>3. CASE CheckCache(r)
    <3>1. /\ reqs[r].pc \notin {"idle", "replied"} /\ reqs[r].env \in Envelopes
          /\ UNCHANGED <<sessions, procs, owned, slipped>>
      BY <2>3 DEF CheckCache, At, IInv, Shapes, Shape
    <3>2. CASE cache[reqs[r].env] # None /\ Answer(r, "ok", cache[reqs[r].env])
      BY <3>1, <3>2, AcceptRefines DEF IInv, Records
    <3>3. CASE Goto(r, "gate")
      <4>1. Calls' = Calls
        BY <3>3, SilentCalls DEF Goto, IInv, TypeOK
      <4> QED BY <3>1, <4>1, SameLive DEF Unseen, Accepted
    <3> QED BY <2>3, <3>2, <3>3 DEF CheckCache
  <2>4. CASE Ack(r)
    <3>1. /\ reqs[r].pc \notin {"idle", "replied"} /\ RowsOf(reqs[r].env) # {}
          /\ Answer(r, "ok", reqs[r].sess) /\ UNCHANGED <<sessions, procs, owned, slipped>>
      BY <2>4 DEF Ack, At, IInv, Records, Recorded
    <3> QED BY <3>1, AcceptRefines
  <2>5. CASE Inject(r)
    <3>1. /\ reqs[r].pc \notin {"idle", "replied"} /\ RowsOf(reqs[r].env) # {}
          /\ Answer(r, "ok", None) /\ UNCHANGED <<sessions, procs, owned, slipped>>
      BY <2>5 DEF Inject, Reply, At, IInv, Records, Recorded
    <3> QED BY <3>1, AcceptRefines
  <2>6. CASE ResumeFetch(r)
    <3>1. reqs[r].pc \notin {"idle", "replied"} /\ UNCHANGED <<sessions, procs, owned, slipped>>
      BY <2>6 DEF ResumeFetch, At
    <3>2. CASE Reply(r, "failed")
      BY <3>1, <3>2, RefuseRefines
    <3>3. CASE \E s : reqs' = [reqs EXCEPT ![r].sess = s, ![r].pc = "gate"]
      <4>1. Calls' = Calls
        BY <3>3, SilentCalls DEF IInv, TypeOK
      <4> QED BY <3>1, <4>1, SameLive DEF Unseen, Accepted
    <3> QED BY <2>6, <3>2, <3>3 DEF ResumeFetch
  <2>7. CASE LaunchFails(r) \/ DeliverLookupFails(r) \/ ResumeStoreFails(r) \/ InjectFails(r)
    <3>1. /\ Reply(r, "failed") /\ reqs[r].pc \notin {"idle", "replied"}
          /\ UNCHANGED <<sessions, procs, owned>>
          /\ slipped' = slipped \/ slipped' = slipped \cup {reqs[r].env}
      BY <2>7 DEF LaunchFails, DeliverLookupFails, ResumeStoreFails, InjectFails, At
    <3> QED BY <3>1, RefuseRefines
  <2> QED BY <1>2, <2>1, <2>2, <2>3, <2>4, <2>5, <2>6, <2>7 DEF Handle, Proceed, Fault
<1>3. ASSUME NEW h \in Handles, Exit(h)
      PROVE  Service!Next \/ Unseen
  BY <1>3, ExitRefines DEF Service!Next
<1>4. ASSUME NEW w \in watchers, Cleanup(w)
      PROVE  Unseen
  BY <1>4, CleanupRefines
<1>5. CASE Crash
  BY <1>5, CrashRefines DEF Service!Next
<1>6. CASE UNCHANGED vars
  <2>1. UNCHANGED <<sessions, procs, owned, slipped, reqs>>
    BY <1>6 DEF vars
  <2> QED BY <2>1, SameLive DEF Unseen, Accepted, Calls
<1> QED BY <1>1, <1>2, <1>3, <1>4, <1>5, <1>6 DEF Next

\* The handlers, with their gate, cache, registry and register, implement the
\* service that has none of them.
THEOREM Implements == Spec => ImplementsService
<1>1. Init => Service!Init
  <2> SUFFICES ASSUME Init
               PROVE  Service!Init
    OBVIOUS
  <2>1. /\ sessions = {} /\ owned = {} /\ slipped = {} /\ reqs = [r \in Requests |-> Idle]
    BY DEF Init
  <2>2. Accepted = {} /\ AllLive = [e \in Envelopes |-> {}]
    BY <2>1 DEF Accepted, AllLive, LiveOf
  <2>3. Calls = [r \in Requests |-> Service!NoCall]
    BY <2>1 DEF Calls, Idle, Service!NoCall
  <2> QED BY <2>1, <2>2, <2>3 DEF Service!Init, Accepted, AllLive, Calls
<1>2. IInv /\ [Next]_vars => [Service!Next]_(Service!vars)
  BY NextRefines DEF Unseen, Accepted, AllLive, Calls, Service!vars
<1> QED BY <1>1, <1>2, InductiveInvariant, PTL DEF Spec, ImplementsService, Service!Spec
=============================================================================
