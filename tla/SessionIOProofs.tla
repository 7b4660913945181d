--------------------------- MODULE SessionIOProofs ---------------------------
(***************************************************************************)
(* Proofs that the output of an executor is a stream of which nothing is   *)
(* handed out twice or lost while there is room, and that a search for the *)
(* session of opencode that ended with nothing has missed nothing in the   *)
(* tail it was shown, for any sizes of the pipes and the buffer, any       *)
(* readers and any posts.                                                  *)
(***************************************************************************)
EXTENDS SessionIO, SequenceTheorems, FiniteSetTheorems, TLAPS

Pieces == {"head", "tail", "log"}

\* TypeOK, with the histories and the shape of search.
Typed ==
  /\ TypeOK
  /\ got \in Seq(Pieces) /\ printed \in Seq(Pieces)
  /\ search \in [process : {"off", "peek", "wait", "last", "found", "absent", "gaveup"},
                 api     : {"off", "poll", "found", "gaveup"}]

\* Unless a reader took output away or the buffer was full, nothing that was
\* printed is missing.
Kept == got = <<>> /\ ~ dropped => printed = buf \o pipe

\* Once the process is done nothing more is printed, and nothing is on its way.
Ended ==
  /\ drained => pipe = <<>> /\ ~ Alive /\ ~ held
  /\ done => drained
  /\ search.process \in {"last", "absent"} => done

\* What the last look did not find is not in the tail of the buffer.
Looked ==
  search.process = "absent" /\ got = <<>> /\ ~ dropped => ~ Announced(TailOf(buf, TailLines))

\* The inductive invariant.  AbsentIsAbsent alone is not: it takes Ended for
\* nothing to be printed after the last look, Kept for the buffer to be what was
\* printed, and Looked for what the last look was shown.
IInv == Typed /\ Kept /\ Ended /\ Looked

LEMMA LinesAreSeqs == Lines \subseteq Seq(Pieces)
<1>1. Id \in Seq(Pieces) /\ Log \in Seq(Pieces)
  BY DEF Id, Log, Pieces
<1> QED BY <1>1 DEF Lines

\* The first n pieces of a sequence and the rest of it.
LEMMA Halves ==
  ASSUME NEW S, NEW s \in Seq(S), NEW n \in 0..Len(s)
  PROVE  /\ SubSeq(s, 1, n) \in Seq(S) /\ SubSeq(s, n + 1, Len(s)) \in Seq(S)
         /\ Len(SubSeq(s, 1, n)) = n /\ Len(SubSeq(s, n + 1, Len(s))) = Len(s) - n
         /\ SubSeq(s, 1, n) \o SubSeq(s, n + 1, Len(s)) = s
<1>1. Len(s) \in Nat /\ \A i \in 1..Len(s) : s[i] \in S
  BY LenProperties, ElementOfSeq
<1>2. SubSeq(s, 1, n) \in Seq(S) /\ Len(SubSeq(s, 1, n)) = n
  BY <1>1, SubSeqProperties
<1>3. SubSeq(s, n + 1, Len(s)) \in Seq(S) /\ Len(SubSeq(s, n + 1, Len(s))) = Len(s) - n
  BY <1>1, SubSeqProperties
<1>4. SubSeq(s, 1, n) \o SubSeq(s, n + 1, Len(s)) = SubSeq(s, 1, Len(s))
  <2>1. 1 \in 1 .. Len(s) + 1 /\ n \in 1 - 1 .. Len(s) /\ Len(s) \in n .. Len(s)
    BY <1>1
  <2> QED BY <2>1, ConcatAdjacentSubSeq, Zenon
<1> QED BY <1>2, <1>3, <1>4, SubSeqFull

\* A sequence that is cut after its first part.
LEMMA Cut ==
  ASSUME NEW S, NEW s \in Seq(S), NEW t \in Seq(S)
  PROVE  /\ SubSeq(s \o t, 1, Len(s)) = s
         /\ SubSeq(s \o t, Len(s) + 1, Len(s \o t)) = t
<1> DEFINE u == s \o t
<1>1. /\ u \in Seq(S) /\ Len(s) \in Nat /\ Len(t) \in Nat /\ Len(u) = Len(s) + Len(t)
      /\ \A i \in 1..Len(u) : u[i] = IF i <= Len(s) THEN s[i] ELSE t[i - Len(s)]
  BY ConcatProperties, LenProperties
<1> HIDE DEF u
<1>2. SubSeq(u, 1, Len(s)) = s
  <2>1. /\ SubSeq(u, 1, Len(s)) \in Seq(S) /\ Len(SubSeq(u, 1, Len(s))) = Len(s)
        /\ \A i \in 1..Len(s) : SubSeq(u, 1, Len(s))[i] = u[i]
    <3>1. \A i \in 1..Len(s) : u[i] \in S
      BY <1>1, ElementOfSeq
    <3> QED BY <1>1, <3>1, SubSeqProperties
  <2> QED BY <1>1, <2>1, SeqEqual
<1>3. SubSeq(u, Len(s) + 1, Len(u)) = t
  <2>1. /\ SubSeq(u, Len(s) + 1, Len(u)) \in Seq(S) /\ Len(SubSeq(u, Len(s) + 1, Len(u))) = Len(t)
        /\ \A i \in 1..Len(t) : SubSeq(u, Len(s) + 1, Len(u))[i] = u[Len(s) + i]
    <3>1. \A i \in Len(s) + 1 .. Len(u) : u[i] \in S
      BY <1>1, ElementOfSeq
    <3>2. /\ SubSeq(u, Len(s) + 1, Len(u)) \in Seq(S)
          /\ Len(SubSeq(u, Len(s) + 1, Len(u))) = IF Len(s) + 1 <= Len(u) THEN Len(u) - (Len(s) + 1) + 1 ELSE 0
          /\ \A i \in 1 .. Len(u) - (Len(s) + 1) + 1 :
               SubSeq(u, Len(s) + 1, Len(u))[i] = u[Len(s) + 1 + i - 1]
      BY <1>1, <3>1, SubSeqProperties
    <3> QED BY <1>1, <3>2
  <2>2. \A i \in 1..Len(t) : u[Len(s) + i] = t[i]
    <3>1. TAKE i \in 1..Len(t)
    <3>2. i \in Nat /\ i > 0 /\ i <= Len(t)
      BY <1>1
    <3>3. Len(s) + i \in 1..Len(u) /\ ~ (Len(s) + i <= Len(s)) /\ Len(s) + i - Len(s) = i
      BY <1>1, <3>2
    <3> QED BY <1>1, <3>3
  <2> QED BY <1>1, <2>1, <2>2, SeqEqual
<1> QED BY <1>2, <1>3 DEF u


LEMMA Shapes ==
  ASSUME Typed
  PROVE  /\ buf \in Seq(Pieces) /\ Len(buf) \in Nat /\ Len(buf) < BufLimit + ReadSize
         /\ pipe \in Seq(Pieces) /\ Len(pipe) \in Nat /\ Len(pipe) <= PipeSize
         /\ got \in Seq(Pieces) /\ printed \in Seq(Pieces)
         /\ BufLimit \in Nat /\ BufLimit > 0 /\ ReadSize \in Nat /\ ReadSize > 0 /\ PipeSize \in Nat
         /\ InSize \in Nat /\ MaxLines \in Nat
<1>1. /\ buf \in Seq(Pieces) /\ Len(buf) < BufLimit + ReadSize
      /\ pipe \in Seq(Pieces) /\ Len(pipe) <= PipeSize
      /\ got \in Seq(Pieces) /\ printed \in Seq(Pieces)
  BY Zenon DEF Typed, TypeOK, ProcTypeOK, Pieces
<1> QED BY <1>1, SizesAssumption, LenProperties

\* What the buffer and the pipe hold together when the output is drained: the
\* same, unless the buffer was full.
LEMMA Drained ==
  ASSUME Typed, NEW n \in 1..ReadSize, Drain(n)
  PROVE  /\ pipe' \in Seq(Pieces) /\ Len(pipe') = Len(pipe) - n
         /\ buf' \in Seq(Pieces) /\ Len(buf') < BufLimit + ReadSize
         /\ Len(buf) < BufLimit => buf' \o pipe' = buf \o pipe /\ dropped' = dropped
         /\ Len(buf) >= BufLimit => buf' = buf /\ dropped' = TRUE
<1> DEFINE kept == SubSeq(pipe, 1, n)
           rest == SubSeq(pipe, n + 1, Len(pipe))
<1>1. /\ pipe' = rest /\ n <= Len(pipe)
      /\ IF Len(buf) < BufLimit THEN buf' = buf \o kept /\ dropped' = dropped
                                ELSE dropped' = TRUE /\ buf' = buf
  BY DEF Drain
<1>2. /\ pipe \in Seq(Pieces) /\ buf \in Seq(Pieces) /\ Len(buf) < BufLimit + ReadSize
      /\ Len(pipe) \in Nat /\ Len(buf) \in Nat /\ n \in 0..Len(pipe)
      /\ n \in Nat /\ n <= ReadSize /\ BufLimit \in Nat /\ ReadSize \in Nat /\ ReadSize > 0
  BY <1>1, Shapes
<1>3. /\ kept \in Seq(Pieces) /\ rest \in Seq(Pieces) /\ Len(kept) = n /\ Len(rest) = Len(pipe) - n
      /\ kept \o rest = pipe
  BY <1>1, <1>2, Halves
<1> HIDE DEF kept, rest
<1>4. buf \o kept \in Seq(Pieces) /\ Len(buf \o kept) = Len(buf) + n
  BY <1>2, <1>3, ConcatProperties
<1>5. (buf \o kept) \o rest = buf \o pipe
  <2>1. buf \in Seq(Pieces) /\ kept \in Seq(Pieces) /\ rest \in Seq(Pieces)
    BY <1>2, <1>3
  <2>2. (buf \o kept) \o rest = buf \o (kept \o rest)
    BY <2>1, ConcatAssociative, SMTT(30)
  <2> QED BY <1>3, <2>2, Zenon
<1>6. pipe' \in Seq(Pieces) /\ Len(pipe') = Len(pipe) - n
  BY <1>1, <1>3, Zenon
<1>7. CASE Len(buf) < BufLimit
  <2>1. buf' = buf \o kept /\ dropped' = dropped /\ ~ (Len(buf) >= BufLimit)
    BY <1>1, <1>2, <1>7
  <2>2. Len(buf) + n < BufLimit + ReadSize
    BY <1>2, <1>7
  <2>3. buf' \in Seq(Pieces) /\ Len(buf') < BufLimit + ReadSize
    BY <1>4, <2>1, <2>2, Zenon
  <2>4. buf' \o pipe' = buf \o pipe
    BY <1>1, <1>5, <2>1, Zenon
  <2> QED BY <1>6, <1>7, <2>1, <2>3, <2>4, Zenon
<1>8. CASE ~ (Len(buf) < BufLimit)
  BY <1>1, <1>2, <1>6, <1>8
<1> QED BY <1>7, <1>8

\* A read of the buffer appends it to what was read.
LEMMA OutputRead ==
  ASSUME Typed, NEW r \in Readers, GetOutput(r)
  PROVE  /\ got' \in Seq(Pieces) /\ buf' \in Seq(Pieces) /\ Len(buf') = 0
         /\ got' = got \o buf /\ buf' \o pipe' = pipe /\ pipe' = pipe
         /\ got' = <<>> => got = <<>> /\ buf = <<>>
<1>1. /\ got \in Seq(Pieces) /\ buf \in Seq(Pieces) /\ pipe \in Seq(Pieces)
      /\ got' = got \o buf /\ buf' = <<>> /\ pipe' = pipe
  BY Shapes DEF GetOutput, ReadOutput
<1>2. got \o buf \in Seq(Pieces) /\ (got \o buf = <<>> => got = <<>> /\ buf = <<>>)
  BY <1>1, ConcatProperties, ConcatEqualIffEmpty
<1>3. <<>> \o pipe = pipe
  BY <1>1, ConcatEmptySeq
<1>4. <<>> \in Seq(Pieces) /\ Len(<<>>) = 0
  BY EmptySeq
<1> QED BY <1>1, <1>2, <1>3, <1>4

\* What is printed comes last.
LEMMA Emitted ==
  ASSUME Typed, NEW line \in Lines, Emit(line)
  PROVE  /\ pipe' \in Seq(Pieces) /\ Len(pipe') <= PipeSize /\ printed' \in Seq(Pieces)
         /\ pipe' = pipe \o line /\ printed' = printed \o line /\ line \in Seq(Pieces)
         /\ buf \o pipe' = (buf \o pipe) \o line
<1>1. /\ line \in Seq(Pieces) /\ buf \in Seq(Pieces) /\ pipe \in Seq(Pieces)
      /\ printed \in Seq(Pieces) /\ pipe' = pipe \o line /\ printed' = printed \o line
      /\ Len(pipe) + Len(line) <= PipeSize
  BY Shapes, LinesAreSeqs DEF Emit
<1>2. pipe \o line \in Seq(Pieces) /\ Len(pipe \o line) = Len(pipe) + Len(line)
      /\ printed \o line \in Seq(Pieces)
  BY <1>1, ConcatProperties
<1>3. (buf \o pipe) \o line = buf \o (pipe \o line)
  <2>1. line \in Seq(Pieces) /\ buf \in Seq(Pieces) /\ pipe \in Seq(Pieces)
    BY <1>1
  <2> QED BY <2>1, ConcatAssociative, SMTT(30)
<1> QED BY <1>1, <1>2, <1>3


\* What every part of the invariant is about: the steps that leave it all alone
\* concern the requests, the readers and the launching of the executor.
Watched == <<pipe, buf, printed, got, dropped, drained, held>>

\* A step at which the output stays as it is, and the process does not come back
\* to life, keeps the invariant, if no search has seen more than there was.
LEMMA BystandersKeep ==
  ASSUME IInv, Typed', UNCHANGED Watched, ~ Alive => ~ Alive', done => done', done' => done \/ drained,
         search'.process = search.process \/ search'.process \notin {"last", "absent"}
  PROVE  IInv'
<1>1. Kept' /\ Ended'
  BY DEF Watched, IInv, Kept, Ended
<1>2. Looked'
  BY DEF Watched, IInv, Looked
<1> QED BY <1>1, <1>2 DEF IInv

LEMMA InitInvariant == Init => IInv
<1> SUFFICES ASSUME Init PROVE IInv
  OBVIOUS
<1>1. <<>> \in Seq(Pieces) /\ Len(<<>>) = 0 /\ <<>> \o <<>> = <<>>
  BY EmptySeq, ConcatEmptySeq
<1>2. ProcTypeOK
  <2>1. buf \in Seq(Pieces) /\ pipe \in Seq(Pieces) /\ Len(buf) < BufLimit + ReadSize
        /\ Len(pipe) <= PipeSize /\ inputs \in 0..InSize
    BY <1>1, SizesAssumption DEF Init, Started
  <2>2. /\ child = "running" /\ stopper = "none" /\ stdin \in {"open", "closed"}
        /\ {held, drained, reaped, done, dropped} \subseteq BOOLEAN
    BY DEF Init, Started
  <2> QED BY <2>1, <2>2, Zenon DEF ProcTypeOK, Pieces
<1>3. Typed
  BY <1>1, <1>2 DEF Init, Started, Typed, TypeOK, NoPost
<1> QED BY <1>1, <1>3 DEF Init, Started, IInv, Kept, Ended, Looked


\* A step that leaves the process, the reads and the search alone keeps the
\* invariant if it keeps the types of the rest.
LEMMA RestKeeps ==
  ASSUME IInv, UNCHANGED <<procVars, got, search>>,
         session' \in {"launched", "registered", "stopping", "refused"}, listed' \in BOOLEAN,
         readers' \subseteq Readers,
         posts' \in [Posts -> [answer : {None, "missing", "open", "written", "failed", "canceled"},
                               pen    : {"none", "check", "write", "written", "failed", "gone"},
                               result : {None, "written", "failed"}]],
         outcome' \in {"pending", "reported", "refused", "unknown"}
  PROVE  IInv'
<1>1. ProcTypeOK'
  BY DEF IInv, Typed, TypeOK, ProcTypeOK, procVars
<1>2. Typed'
  BY <1>1 DEF IInv, Typed, TypeOK, procVars
<1> QED BY <1>2, BystandersKeep DEF Watched, Alive, procVars, IInv, Typed

\* The same of a step of the process that does not touch its output.
LEMMA ProcKeeps ==
  ASSUME IInv, ProcTypeOK', UNCHANGED <<Others, Watched>>,
         ~ Alive => ~ Alive', done => done', done' => done \/ drained
  PROVE  IInv'
<1>1. Typed'
  BY DEF IInv, Typed, TypeOK, Others, Watched
<1> QED BY <1>1, BystandersKeep DEF Others

LEMMA EmitKeeps ==
  ASSUME IInv, NEW line \in Lines, Emit(line), UNCHANGED Others
  PROVE  IInv'
<1>1. /\ pipe' \in Seq(Pieces) /\ Len(pipe') <= PipeSize /\ printed' \in Seq(Pieces)
      /\ printed' = printed \o line /\ buf \o pipe' = (buf \o pipe) \o line
  BY Emitted DEF IInv
<1>2. /\ ~ drained /\ UNCHANGED Others
      /\ UNCHANGED <<child, held, buf, drained, reaped, done, stdin, inputs, stopper, dropped>>
  BY DEF Emit, IInv, Ended
<1>3. ProcTypeOK'
  BY <1>1, <1>2 DEF IInv, Typed, TypeOK, ProcTypeOK, Pieces
<1>4. Typed'
  BY <1>1, <1>2, <1>3 DEF IInv, Typed, TypeOK, Others
<1>5. Kept' /\ Ended' /\ Looked'
  BY <1>1, <1>2 DEF IInv, Kept, Ended, Looked, Others
<1> QED BY <1>4, <1>5 DEF IInv

LEMMA DrainKeeps ==
  ASSUME IInv, NEW n \in 1..ReadSize, Drain(n), UNCHANGED Others
  PROVE  IInv'
<1>1. /\ pipe' \in Seq(Pieces) /\ Len(pipe') = Len(pipe) - n
      /\ buf' \in Seq(Pieces) /\ Len(buf') < BufLimit + ReadSize
      /\ Len(buf) < BufLimit => buf' \o pipe' = buf \o pipe /\ dropped' = dropped
      /\ Len(buf) >= BufLimit => buf' = buf /\ dropped' = TRUE
  BY Drained DEF IInv
<1>2. /\ ~ drained /\ UNCHANGED Others /\ dropped' \in {dropped, TRUE}
      /\ UNCHANGED <<child, held, drained, reaped, done, stdin, inputs, stopper, printed>>
  BY DEF Drain
<1>3. ProcTypeOK'
  <2>1. Len(pipe') <= PipeSize
    BY <1>1, Shapes DEF IInv
  <2> QED BY <1>1, <1>2, <2>1 DEF IInv, Typed, TypeOK, ProcTypeOK, Pieces
<1>4. Typed'
  BY <1>1, <1>2, <1>3 DEF IInv, Typed, TypeOK, Others
<1>5. Kept'
  <2>1. CASE Len(buf) < BufLimit
    <3>1. got' = got /\ printed' = printed
      BY <1>2 DEF Others
    <3>2. buf' \o pipe' = buf \o pipe /\ dropped' = dropped
      BY <1>1, <2>1
    <3>3. Kept
      BY DEF IInv
    <3> QED BY <3>1, <3>2, <3>3 DEF Kept
  <2>2. CASE Len(buf) >= BufLimit
    BY <1>1, <2>2, Zenon DEF Kept
  <2> QED BY <2>1, <2>2, Shapes DEF IInv
<1>6. Ended' /\ Looked'
  BY <1>2 DEF IInv, Ended, Looked, Others
<1> QED BY <1>4, <1>5, <1>6 DEF IInv

\* Nothing printed is left when the drain meets the end of the output.
LEMMA EndOfOutputKeeps ==
  ASSUME IInv, EndOfOutput, UNCHANGED Others
  PROVE  IInv'
<1>1. ProcTypeOK'
  BY DEF EndOfOutput, IInv, Typed, TypeOK, ProcTypeOK
<1>2. Typed'
  BY <1>1 DEF EndOfOutput, IInv, Typed, TypeOK, Others
<1>3. Kept' /\ Ended' /\ Looked'
  BY DEF EndOfOutput, IInv, Kept, Ended, Looked, Others, Alive
<1> QED BY <1>2, <1>3 DEF IInv

\* The descendants that hold the output are only forked by a child that lives.
LEMMA HoldingKeeps ==
  ASSUME IInv, Fork \/ DescendantsEnd, UNCHANGED Others
  PROVE  IInv'
<1>1. ProcTypeOK'
  BY DEF Fork, DescendantsEnd, IInv, Typed, TypeOK, ProcTypeOK
<1>2. Typed'
  BY <1>1 DEF Fork, DescendantsEnd, IInv, Typed, TypeOK, Others
<1>3. /\ UNCHANGED <<child, pipe, buf, drained, done, printed, dropped, got, search>>
      /\ held' => held \/ Alive
  BY DEF Fork, DescendantsEnd, Others
<1>4. Kept' /\ Looked'
  BY <1>3, Zenon DEF IInv, Kept, Looked
<1>5. Ended'
  BY <1>3 DEF IInv, Ended, Alive
<1> QED BY <1>2, <1>4, <1>5 DEF IInv

LEMMA ProcessKeeps ==
  ASSUME IInv, Process
  PROVE  IInv'
<1>1. UNCHANGED Others
  BY DEF Process, Others
<1>2. CASE TakeInput \/ Exit \/ Die \/ WaitReturns \/ CloseDone
  <2>1. /\ UNCHANGED <<pipe, buf, printed, dropped, drained, held, stopper>>
        /\ child' = child \/ child' = "exited"
        /\ stdin' = stdin \/ stdin' = "closed"
        /\ inputs' = inputs \/ (inputs > 0 /\ inputs' = inputs - 1)
        /\ reaped' = reaped \/ reaped' = TRUE
        /\ done' = done \/ (drained /\ done' = TRUE)
    BY <1>2 DEF TakeInput, Exit, Die, WaitReturns, CloseDone
  <2>2. inputs' \in 0..InSize
    BY <2>1, SizesAssumption DEF IInv, Typed, TypeOK, ProcTypeOK
  <2>3. ProcTypeOK'
    BY <2>1, <2>2 DEF IInv, Typed, TypeOK, ProcTypeOK
  <2>4. UNCHANGED Watched
    BY <1>1, <2>1 DEF Watched, Others
  <2> QED BY <1>1, <2>1, <2>3, <2>4, ProcKeeps DEF Alive
<1> QED BY <1>1, <1>2, EmitKeeps, DrainKeeps, EndOfOutputKeeps, HoldingKeeps
        DEF Process, Environment, Goroutines

\* The launch, up to the stop of an executor whose session cannot be stored.
LEMMA LaunchKeeps ==
  ASSUME IInv, Store \/ StoreFails \/ Stopping \/ Stopped \/ Cleanup
  PROVE  IInv'
<1>1. CASE Store
  <2>1. ProcTypeOK'
    BY <1>1 DEF Store, IInv, Typed, TypeOK, ProcTypeOK, procVars
  <2>2. Typed'
    BY <1>1, <2>1 DEF Store, IInv, Typed, TypeOK, procVars
  <2> QED BY <1>1, <2>2, BystandersKeep DEF Store, Watched, Alive, procVars, IInv, Typed, TypeOK
<1>2. CASE Cleanup
  BY <1>2, RestKeeps DEF Cleanup, IInv, Typed, TypeOK
<1>3. CASE StoreFails \/ Stopping \/ Stopped
  <2>1. ProcTypeOK'
    BY <1>3 DEF StoreFails, Stopping, Stopped, StopBegins, StopKills, StopReturns,
                IInv, Typed, TypeOK, ProcTypeOK
  <2>2. Typed'
    BY <1>3, <2>1 DEF StoreFails, Stopping, Stopped, StopBegins, StopKills, StopReturns,
                      IInv, Typed, TypeOK
  <2> QED BY <1>3, <2>2, BystandersKeep
          DEF StoreFails, Stopping, Stopped, StopBegins, StopKills, StopReturns, Watched, Alive
<1> QED BY <1>1, <1>2, <1>3

LEMMA ReadersKeep ==
  ASSUME IInv, NEW r \in Readers, GetProcess(r) \/ GetOutput(r)
  PROVE  IInv'
<1>1. CASE GetProcess(r)
  BY <1>1, RestKeeps DEF GetProcess, IInv, Typed, TypeOK
<1>2. CASE GetOutput(r)
  <2>1. /\ got' \in Seq(Pieces) /\ buf' \in Seq(Pieces) /\ Len(buf') = 0
        /\ got' = <<>> => got = <<>> /\ buf = <<>>
    BY <1>2, OutputRead DEF IInv
  <2>2. /\ readers' = readers \ {r} /\ buf' = <<>>
        /\ UNCHANGED <<child, held, pipe, drained, reaped, done, stdin, inputs, stopper, printed, dropped>>
        /\ UNCHANGED <<executor, session, listed, posts, search, outcome>>
    BY <1>2 DEF GetOutput, ReadOutput
  <2>3. ProcTypeOK'
    BY <2>1, <2>2, SizesAssumption DEF IInv, Typed, TypeOK, ProcTypeOK, Pieces
  <2>4. Typed'
    BY <2>1, <2>2, <2>3 DEF IInv, Typed, TypeOK
  <2>5. Kept' /\ Ended' /\ Looked'
    BY <2>1, <2>2 DEF IInv, Kept, Ended, Looked, Alive
  <2> QED BY <2>4, <2>5 DEF IInv
<1> QED BY <1>1, <1>2

\* A request changes nothing but its own state and what is in the stdin pipe.
LEMMA PostsKeep ==
  ASSUME IInv, NEW p \in Posts, PostInput(p) \/ Pen(p) \/ Answer(p) \/ Cancel(p)
  PROVE  IInv'
<1>1. posts \in [Posts -> [answer : {None, "missing", "open", "written", "failed", "canceled"},
                           pen    : {"none", "check", "write", "written", "failed", "gone"},
                           result : {None, "written", "failed"}]]
  BY DEF IInv, Typed, TypeOK
<1>2. posts' \in [Posts -> [answer : {None, "missing", "open", "written", "failed", "canceled"},
                            pen    : {"none", "check", "write", "written", "failed", "gone"},
                            result : {None, "written", "failed"}]]
  <2>1. CASE PostInput(p)
    BY ZenonT(60), <1>1, <2>1 DEF PostInput
  <2>2. CASE CheckDone(p) \/ Write(p)
    BY <1>1, <2>2 DEF CheckDone, Write
  <2>3. CASE Send(p)
    BY <1>1, <2>3 DEF Send
  <2>4. CASE Answer(p) \/ Cancel(p)
    BY <1>1, <2>4 DEF Answer, Cancel
  <2> QED BY <2>1, <2>2, <2>3, <2>4 DEF Pen
<1>3. CASE Write(p)
  <2>1. /\ inputs' \in 0..InSize
        /\ UNCHANGED <<child, held, pipe, buf, drained, reaped, done, stdin, stopper, printed, dropped>>
        /\ UNCHANGED <<executor, session, listed, readers, got, search, outcome>>
    BY <1>3, SizesAssumption DEF Write, WriteGoesThrough, IInv, Typed, TypeOK, ProcTypeOK
  <2>2. ProcTypeOK'
    BY <2>1 DEF IInv, Typed, TypeOK, ProcTypeOK
  <2>3. Typed'
    BY <1>2, <2>1, <2>2 DEF IInv, Typed, TypeOK
  <2> QED BY <2>1, <2>3, BystandersKeep DEF Watched, Alive
<1>4. CASE ~ Write(p)
  BY <1>2, <1>4, RestKeeps DEF PostInput, Pen, CheckDone, Send, Answer, Cancel, IInv, Typed, TypeOK
<1> QED BY <1>3, <1>4

\* The last look is taken when the process is done, so it sees all there will be.
LEMMA SearchKeeps ==
  ASSUME IInv, Search
  PROVE  IInv'
<1>1. CASE Report
  BY <1>1, RestKeeps DEF Report, IInv, Typed, TypeOK
<1>2. CASE Peek \/ Tick \/ LastLook \/ Poll \/ \E s \in {"process", "api"} : GiveUp(s)
  <2>1. /\ UNCHANGED <<procVars, executor, session, listed, readers, got, posts, outcome>>
        /\ search' \in [process : {"off", "peek", "wait", "last", "found", "absent", "gaveup"},
                        api     : {"off", "poll", "found", "gaveup"}]
    BY <1>2 DEF Peek, Tick, LastLook, Poll, GiveUp, IInv, Typed, TypeOK
  <2>2. ProcTypeOK'
    BY <2>1 DEF IInv, Typed, TypeOK, ProcTypeOK, procVars
  <2>3. Typed'
    BY <2>1, <2>2 DEF IInv, Typed, TypeOK, procVars
  <2>4. Kept'
    BY <2>1 DEF IInv, Kept, procVars
  <2>5. /\ search'.process \in {"last", "absent"} => done
        /\ search'.process = "absent" =>
             search.process = "absent" \/ ~ Announced(TailOf(buf, TailLines))
    BY <1>2 DEF Peek, Tick, LastLook, Poll, GiveUp, IInv, Typed, TypeOK, Ended
  <2>6. Ended' /\ Looked'
    BY <2>1, <2>5 DEF IInv, Ended, Looked, Alive, procVars
  <2> QED BY <2>3, <2>4, <2>6 DEF IInv
<1> QED BY <1>1, <1>2 DEF Search

LEMMA NextKeeps ==
  ASSUME IInv, [Next]_vars
  PROVE  IInv'
<1>1. CASE UNCHANGED vars
  BY <1>1, RestKeeps DEF vars, IInv, Typed, TypeOK
<1>2. CASE Next
  BY <1>2, ProcessKeeps, LaunchKeeps, ReadersKeep, PostsKeep, SearchKeeps DEF Next
<1> QED BY <1>1, <1>2


\* The inductive invariant holds in every behaviour.
THEOREM InductiveInvariant == Spec => []IInv
BY InitInvariant, NextKeeps, PTL DEF Spec

\* Type correctness: the states of the process, of the requests and of the
\* searches, and the limits of the pipes and the buffer.
THEOREM TypeCorrect == Spec => []TypeOK
<1>1. IInv => TypeOK
  BY DEF IInv, Typed
<1> QED BY <1>1, InductiveInvariant, PTL

\* Two line ends of a text are not followed by the same number of line ends, so
\* the tail begins after the only one that n line ends follow.
LEMMA TailBegins ==
  ASSUME NEW text \in Seq(Pieces), NEW n \in Nat, NEW i \in EndsBefore(text, n)
  PROVE  TailOf(text, n) = SubSeq(text, i + 1, Len(text))
<1> DEFINE After(k) == {j \in LineEnds(text) : k < j}
<1>1. Len(text) \in Nat /\ LineEnds(text) \subseteq 1..Len(text)
  BY LenProperties DEF LineEnds
<1>2. IsFiniteSet(LineEnds(text))
  <2>1. IsFiniteSet(1..Len(text))
    BY <1>1, FS_Interval
  <2> QED BY <1>1, <2>1, FS_Subset
<1>3. ASSUME NEW k \in EndsBefore(text, n), NEW l \in EndsBefore(text, n), k < l
      PROVE  FALSE
  <2>1. k \in LineEnds(text) /\ l \in LineEnds(text) /\ Cardinality(After(k)) = n /\ Cardinality(After(l)) = n
    BY DEF EndsBefore
  <2>2. k \in Int /\ l \in Int /\ \A j \in LineEnds(text) : j \in Int
    BY <1>1, <2>1
  <2>3. /\ \A j \in After(l) : j \in After(k)
        /\ l \in After(k) /\ l \notin After(l)
    <3>1. ~ (l < l) /\ \A j \in LineEnds(text) : l < j => k < j
      BY <1>3, <2>2
    <3> QED BY <1>3, <2>1, <3>1
  <2>4. IsFiniteSet(After(k))
    BY <1>2, FS_Subset
  <2> HIDE DEF After
  <2>5. After(l) \subseteq After(k)
    BY <2>3
  <2>6. After(l) = After(k)
    BY <2>1, <2>4, <2>5, FS_Subset
  <2> QED BY <2>3, <2>6
<1>4. \A k \in EndsBefore(text, n) : k = i
  <2>1. TAKE k \in EndsBefore(text, n)
  <2>2. k \in Int /\ i \in Int
    BY <1>1 DEF EndsBefore
  <2> QED BY <1>3, <2>2
<1>5. (CHOOSE k \in EndsBefore(text, n) : TRUE) = i /\ EndsBefore(text, n) # {}
  BY <1>4
<1>6. 1 + i = i + 1
  BY <1>1 DEF EndsBefore
<1> QED BY <1>5, <1>6 DEF TailOf

\* A search that the end of the process ended with nothing has missed nothing in
\* an output that is long enough to have a tail.
THEOREM AbsentMissedNothing == Spec => []AbsentIsAbsent
<1>1. IInv => AbsentIsAbsent
  <2> SUFFICES ASSUME IInv, search.process = "absent", got = <<>>, ~ dropped,
                      NEW i \in EndsBefore(printed, TailLines)
               PROVE  ~ Announced(SubSeq(printed, i + 1, Len(printed)))
    BY DEF AbsentIsAbsent
  <2>1. printed = buf \o pipe /\ pipe = <<>>
    BY DEF IInv, Kept, Ended
  <2>2. buf \o <<>> = buf
    BY Shapes, ConcatEmptySeq DEF IInv
  <2>3. ~ Announced(TailOf(buf, TailLines))
    BY DEF IInv, Looked
  <2>4. TailOf(printed, TailLines) = SubSeq(printed, i + 1, Len(printed))
    BY TailBegins, Shapes, TailAssumption DEF IInv
  <2> QED BY <2>1, <2>2, <2>3, <2>4, Zenon
<1> QED BY <1>1, InductiveInvariant, PTL
-----------------------------------------------------------------------------
(* The output is a stream *)

\* What is left of the second part of a sequence when its first n pieces go.
LEMMA CutMore ==
  ASSUME NEW S, NEW s \in Seq(S), NEW t \in Seq(S), NEW n \in 1..Len(t)
  PROVE  SubSeq(s \o t, Len(s) + n + 1, Len(s \o t)) = SubSeq(t, n + 1, Len(t))
<1>1. Len(s) \in Nat /\ Len(t) \in Nat /\ Len(s \o t) = Len(s) + Len(t)
  BY LenProperties, ConcatProperties
<1>2. CASE n = Len(t)
  <2>1. SubSeq(s \o t, Len(s) + n + 1, Len(s \o t)) = <<>>
    BY <1>1, <1>2, SubSeqEmpty
  <2>2. SubSeq(t, n + 1, Len(t)) = <<>>
    BY <1>1, <1>2, SubSeqEmpty
  <2> QED BY <2>1, <2>2
<1>3. CASE n < Len(t)
  <2>1. /\ Len(s) + n + 1 \in Len(s) + 1 .. Len(s) + Len(t)
        /\ Len(s) + Len(t) \in Len(s) + 1 .. Len(s) + Len(t)
        /\ Len(s) + n + 1 - Len(s) = n + 1 /\ Len(s) + Len(t) - Len(s) = Len(t)
    BY <1>1, <1>3
  <2>2. SubSeq(s \o t, Len(s) + n + 1, Len(s) + Len(t))
          = SubSeq(t, Len(s) + n + 1 - Len(s), Len(s) + Len(t) - Len(s))
    BY <2>1, SubSeqOfConcat2
  <2> QED BY <1>1, <2>1, <2>2, Zenon
<1> QED BY <1>1, <1>2, <1>3

\* A chunk that is drained stays in the stream, or is lost behind a full buffer.
LEMMA DrainImplements ==
  ASSUME IInv, NEW n \in 1..ReadSize, Drain(n), UNCHANGED Others
  PROVE  [Stream!Next]_Stream!vars
<1>1. got' = got
  BY DEF Others
<1>2. CASE Len(buf) < BufLimit
  <2>1. buf' \o pipe' = buf \o pipe
    BY <1>2, Drained DEF IInv
  <2> QED BY <1>1, <2>1 DEF Stream!vars
<1>3. CASE ~ (Len(buf) < BufLimit)
  <2>1. buf' = buf /\ pipe' = SubSeq(pipe, n + 1, Len(pipe)) /\ n <= Len(pipe)
    BY <1>3 DEF Drain
  <2>2. /\ buf \in Seq(Pieces) /\ pipe \in Seq(Pieces) /\ Len(buf) \in Nat /\ Len(pipe) \in Nat
        /\ Len(buf) >= BufLimit /\ BufLimit \in Nat /\ n \in 1..Len(pipe)
    BY <1>3, <2>1, Shapes DEF IInv
  <2>3. /\ buf \o pipe \in Seq(Pieces) /\ Len(buf \o pipe) = Len(buf) + Len(pipe)
        /\ DOMAIN (buf \o pipe) = 1 .. Len(buf) + Len(pipe)
    BY <2>2, ConcatProperties, LenProperties
  <2>4. SubSeq(buf \o pipe, 1, Len(buf) + 1 - 1) = buf
    <3>1. SubSeq(buf \o pipe, 1, Len(buf)) = buf
      BY <2>2, Cut
    <3>2. Len(buf) + 1 - 1 = Len(buf)
      BY <2>2
    <3> QED BY <3>1, <3>2, Zenon
  <2>5. SubSeq(buf \o pipe, Len(buf) + n + 1, Len(buf \o pipe)) = SubSeq(pipe, n + 1, Len(pipe))
    BY <2>2, CutMore
  <2>6. Len(buf) + 1 > BufLimit /\ Len(buf) + 1 <= Len(buf) + n
        /\ {Len(buf) + 1, Len(buf) + n} \subseteq DOMAIN (buf \o pipe)
    BY <2>2, <2>3
  <2>7. Stream!Lose(Len(buf) + 1, Len(buf) + n)
    <3>1. buf' \o pipe' = SubSeq(buf \o pipe, 1, Len(buf) + 1 - 1)
                            \o SubSeq(buf \o pipe, Len(buf) + n + 1, Len(buf \o pipe))
      BY <2>1, <2>4, <2>5, Zenon
    <3> QED BY <1>1, <2>6, <3>1 DEF Stream!Lose
  <2> QED BY <2>6, <2>7, Zenon DEF Stream!Next
<1> QED BY <1>2, <1>3

\* A reader takes all there is in the buffer, and nothing that is not there yet.
LEMMA ReadImplements ==
  ASSUME IInv, NEW r \in Readers, GetOutput(r)
  PROVE  [Stream!Next]_Stream!vars
<1>1. got' = got \o buf /\ buf' \o pipe' = pipe
  BY OutputRead DEF IInv
<1>2. /\ got \in Seq(Pieces) /\ buf \in Seq(Pieces) /\ pipe \in Seq(Pieces)
      /\ Len(buf) \in Nat /\ Len(pipe) \in Nat
  BY Shapes DEF IInv
<1>3. /\ SubSeq(buf \o pipe, 1, Len(buf)) = buf
      /\ SubSeq(buf \o pipe, Len(buf) + 1, Len(buf \o pipe)) = pipe
      /\ Len(buf \o pipe) = Len(buf) + Len(pipe)
  BY <1>2, Cut, ConcatProperties
<1>4. CASE buf = <<>>
  <2>1. got \o <<>> = got /\ <<>> \o pipe = pipe
    BY <1>2, ConcatEmptySeq
  <2> QED BY <1>1, <1>4, <2>1 DEF Stream!vars
<1>5. CASE buf # <<>>
  <2>1. Len(buf) \in 1..Len(buf \o pipe)
    <3>1. Len(buf) > 0
      BY <1>2, <1>5, EmptySeq
    <3> QED BY <1>2, <1>3, <3>1
  <2>2. Stream!Read(Len(buf))
    BY <1>1, <1>3, Zenon DEF Stream!Read
  <2> QED BY <2>1, <2>2, Zenon DEF Stream!Next
<1> QED BY <1>4, <1>5

\* Every step of Forge, the executor and their clients is a step of the stream,
\* or leaves it as it is.
LEMMA NextImplements ==
  ASSUME IInv, [Next]_vars
  PROVE  [Stream!Next]_Stream!vars
<1>1. CASE UNCHANGED <<buf, pipe, got>>
  BY <1>1 DEF Stream!vars
<1>2. CASE Process
  <2>1. UNCHANGED Others
    BY <1>2 DEF Process, Others
  <2>2. ASSUME NEW line \in Lines, Emit(line)
        PROVE  Stream!Next
    <3>1. buf' \o pipe' = (buf \o pipe) \o line
      BY <2>2, Emitted DEF IInv, Emit
    <3> QED BY <2>1, <3>1 DEF Others, Stream!Next, Stream!Emit
  <2>3. CASE \E n \in 1..ReadSize : Drain(n)
    BY <2>1, <2>3, DrainImplements
  <2>4. CASE \/ Fork \/ DescendantsEnd \/ TakeInput \/ Exit
             \/ EndOfOutput \/ WaitReturns \/ CloseDone \/ Die
    BY <1>1, <2>1, <2>4 DEF Fork, DescendantsEnd, TakeInput, Exit, EndOfOutput, WaitReturns, CloseDone,
                            Die, Others
  <2> QED BY <1>2, <2>2, <2>3, <2>4 DEF Process, Environment, Goroutines
<1>3. CASE Store \/ StoreFails \/ Stopping \/ Stopped \/ Cleanup
  BY <1>1, <1>3 DEF Store, StoreFails, Stopping, Stopped, Cleanup, StopBegins, StopKills, StopReturns,
                    procVars
<1>4. ASSUME NEW r \in Readers, GetProcess(r) \/ GetOutput(r)
      PROVE  [Stream!Next]_Stream!vars
  BY <1>1, <1>4, ReadImplements DEF GetProcess, procVars
<1>5. CASE \E p \in Posts : PostInput(p) \/ Pen(p) \/ Answer(p) \/ Cancel(p)
  BY <1>1, <1>5 DEF PostInput, Pen, CheckDone, Write, Send, Answer, Cancel, procVars
<1>6. CASE Search
  BY <1>1, <1>6 DEF Search, Peek, Tick, LastLook, Poll, Report, GiveUp, procVars
<1>7. CASE UNCHANGED vars
  BY <1>1, <1>7 DEF vars, procVars
<1> QED BY <1>2, <1>3, <1>4, <1>5, <1>6, <1>7 DEF Next

\* The output of an executor is a stream: whoever reads, and however the child and
\* its descendants end, every piece is handed out once and in order, and one is
\* only lost behind a full buffer.
THEOREM Implements == Spec => ImplementsStream
<1>1. Init => Stream!Init
  BY ConcatEmptySeq, EmptySeq DEF Init, Started, Stream!Init
<1>2. IInv /\ [Next]_vars => [Stream!Next]_Stream!vars
  BY NextImplements
<1> QED BY <1>1, <1>2, InductiveInvariant, PTL DEF Spec, ImplementsStream, Stream!Spec
=============================================================================
