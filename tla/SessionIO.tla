------------------------------ MODULE SessionIO ------------------------------
(***************************************************************************)
(* What Forge does with an executor it has launched (forge/internal/       *)
(* httpapi): it registers the session, or stops the executor when the      *)
(* session cannot be stored; it serves the output and takes input for it,  *)
(* and it finds out which session opencode works in and tells Hermes.      *)
(* Reads of the tail, which change nothing, are only modelled where the    *)
(* search for the session uses them.                                       *)
(***************************************************************************)
EXTENDS Runner

CONSTANTS
  Readers,    \* clients of GET /sessions/{id}/output
  Posts,      \* requests POST /sessions/{id}/input, each with an input of its own
  TailLines,  \* openCodeSessionDiscoveryTailSize
  None

ASSUME TailAssumption == TailLines \in Nat \ {0}

VARIABLES
  executor,  \* "claude" or "opencode"
  session,   \* "launched", then "registered", "stopping" or "refused"
  listed,    \* the process registry has the session
  readers,   \* readers that hold the process and have not read yet
  got,       \* history: what the reads returned
  posts,     \* per request what its client knows, its goroutine, and the channel between
  search,    \* the two searches for the session of opencode
  outcome    \* "pending", then "reported" to Hermes, "refused" by it, or "unknown"

vars == <<procVars, executor, session, listed, readers, got, posts, search, outcome>>

NoPost == [answer |-> None, pen |-> "none", result |-> None]

Init ==
  /\ executor \in {"claude", "opencode"}
  /\ Started(IF executor = "opencode" THEN "closed" ELSE "open")
  /\ session = "launched" /\ listed = FALSE
  /\ readers = {} /\ got = <<>>
  /\ posts = [p \in Posts |-> NoPost]
  /\ search = [process |-> "off", api |-> "off"]
  /\ outcome = "pending"
-----------------------------------------------------------------------------
(* The launching request: it holds the spawn gate until session is decided *)

Store ==
  /\ session = "launched"
  /\ session' = "registered" /\ listed' = TRUE
  /\ search' = IF executor = "opencode" THEN [process |-> "peek", api |-> "poll"] ELSE search
  /\ UNCHANGED <<procVars, executor, readers, got, posts, outcome>>

StoreFails ==
  /\ session = "launched"
  /\ session' = "stopping"
  /\ StopBegins
  /\ UNCHANGED <<executor, listed, readers, got, posts, search, outcome>>

Stopping ==
  /\ StopKills
  /\ UNCHANGED <<executor, session, listed, readers, got, posts, search, outcome>>

Stopped ==
  /\ session = "stopping"
  /\ StopReturns
  /\ session' = "refused"
  /\ UNCHANGED <<executor, listed, readers, got, posts, search, outcome>>

\* The goroutine of Register.
Cleanup ==
  /\ listed /\ done
  /\ listed' = FALSE
  /\ UNCHANGED <<procVars, executor, session, readers, got, posts, search, outcome>>
-----------------------------------------------------------------------------
(* GET /sessions/{id}/output without tail *)

GetProcess(r) ==
  /\ listed /\ r \notin readers
  /\ readers' = readers \cup {r}
  /\ UNCHANGED <<procVars, executor, session, listed, got, posts, search, outcome>>

GetOutput(r) ==
  /\ r \in readers
  /\ readers' = readers \ {r}
  /\ got' = got \o buf
  /\ ReadOutput
  /\ UNCHANGED <<executor, session, listed, posts, search, outcome>>
-----------------------------------------------------------------------------
(* POST /sessions/{id}/input *)

PostInput(p) ==
  /\ posts[p] = NoPost
  /\ posts' = [posts EXCEPT ![p] =
       IF listed THEN [@ EXCEPT !.answer = "open", !.pen = "check"] ELSE [@ EXCEPT !.answer = "missing"]]
  /\ UNCHANGED <<procVars, executor, session, listed, readers, got, search, outcome>>

CheckDone(p) ==
  /\ posts[p].pen = "check"
  /\ posts' = [posts EXCEPT ![p].pen = IF done THEN "failed" ELSE "write"]
  /\ UNCHANGED <<procVars, executor, session, listed, readers, got, search, outcome>>

Write(p) ==
  /\ posts[p].pen = "write"
  /\ \/ WriteGoesThrough /\ inputs' = inputs + 1 /\ posts' = [posts EXCEPT ![p].pen = "written"]
     \/ WriteFails /\ UNCHANGED inputs /\ posts' = [posts EXCEPT ![p].pen = "failed"]
  /\ UNCHANGED <<child, held, pipe, buf, drained, reaped, done, stdin, stopper, printed, dropped>>
  /\ UNCHANGED <<executor, session, listed, readers, got, search, outcome>>

\* Mutant: the channel has no buffer, the result waits for the request.
Send_Unbuffered(p) ==
  /\ posts[p].pen \in {"written", "failed"}
  /\ posts[p].answer = "open"
  /\ posts' = [posts EXCEPT ![p] = [@ EXCEPT !.pen = "gone", !.result = posts[p].pen]]
  /\ UNCHANGED <<procVars, executor, session, listed, readers, got, search, outcome>>

\* The channel has room for the result, whether or not somebody waits for it.
Send(p) ==
  /\ posts[p].pen \in {"written", "failed"}
  /\ posts' = [posts EXCEPT ![p] = [@ EXCEPT !.pen = "gone", !.result = posts[p].pen]]
  /\ UNCHANGED <<procVars, executor, session, listed, readers, got, search, outcome>>

Answer(p) ==
  /\ posts[p].answer = "open" /\ posts[p].result # None
  /\ posts' = [posts EXCEPT ![p].answer = posts[p].result]
  /\ UNCHANGED <<procVars, executor, session, listed, readers, got, search, outcome>>

\* The client goes away; what its goroutine has begun goes on.
Cancel(p) ==
  /\ posts[p].answer = "open"
  /\ posts' = [posts EXCEPT ![p].answer = "canceled"]
  /\ UNCHANGED <<procVars, executor, session, listed, readers, got, search, outcome>>
-----------------------------------------------------------------------------
(* discoverAndStoreSessionID: which session does opencode work in? *)

Announced(text) == \E i \in 1..Len(text) - 1 : SubSeq(text, i, i + 1) = Id

\* One look at the tail of the output, then at whichever is ready of the end of
\* the process and the next tick.
Peek ==
  /\ search.process = "peek"
  /\ search' = [search EXCEPT !.process = IF Announced(TailOf(buf, TailLines)) THEN "found" ELSE "wait"]
  /\ UNCHANGED <<procVars, executor, session, listed, readers, got, posts, outcome>>

Tick ==
  /\ search.process = "wait"
  /\ search' = [search EXCEPT !.process = IF done THEN "last" ELSE "peek"]
  /\ UNCHANGED <<procVars, executor, session, listed, readers, got, posts, outcome>>

LastLook ==
  /\ search.process = "last"
  /\ search' = [search EXCEPT !.process = IF Announced(TailOf(buf, TailLines)) THEN "found" ELSE "absent"]
  /\ UNCHANGED <<procVars, executor, session, listed, readers, got, posts, outcome>>

\* Three minutes have passed, or the other search was first.
GiveUp(s) ==
  /\ search[s] \in {"wait", "poll"}
  /\ search' = [search EXCEPT ![s] = "gaveup"]
  /\ UNCHANGED <<procVars, executor, session, listed, readers, got, posts, outcome>>

\* GET /session of opencode's own server lists exactly one session under the title
\* of the envelope.  None or several are polled again.
Poll ==
  /\ search.api = "poll"
  /\ search' = [search EXCEPT !.api = "found"]
  /\ UNCHANGED <<procVars, executor, session, listed, readers, got, posts, outcome>>

\* The first search that succeeds is reported to Hermes, once; Hermes may be
\* away, or refuse it because the envelope is finished.
Report ==
  /\ outcome = "pending"
  /\ \/ "found" \in {search.process, search.api} /\ outcome' \in {"reported", "refused"}
     \/ search.process \in {"absent", "gaveup"} /\ search.api = "gaveup" /\ outcome' = "unknown"
  /\ UNCHANGED <<procVars, executor, session, listed, readers, got, posts, search>>
-----------------------------------------------------------------------------
Search == Peek \/ Tick \/ LastLook \/ Poll \/ Report \/ \E s \in {"process", "api"} : GiveUp(s)

Process ==
  /\ Environment \/ Goroutines
  /\ UNCHANGED <<executor, session, listed, readers, got, posts, search, outcome>>

Pen(p) == CheckDone(p) \/ Write(p) \/ Send(p)

Next ==
  \/ Process
  \/ Store \/ StoreFails \/ Stopping \/ Stopped \/ Cleanup
  \/ \E r \in Readers : GetProcess(r) \/ GetOutput(r)
  \/ \E p \in Posts : PostInput(p) \/ Pen(p) \/ Answer(p) \/ Cancel(p)
  \/ Search

Spec == Init /\ [][Next]_vars

Others == <<executor, session, listed, readers, got, posts, search, outcome>>

(***************************************************************************)
(* The goroutines of Forge are scheduled, a killed child ends, and the     *)
(* timer of Stop runs out.  Nothing makes a child that is not killed end,  *)
(* read its input, or print, and nothing makes its descendants end.        *)
(***************************************************************************)
Fairness ==
  /\ WF_vars(Goroutines /\ UNCHANGED Others)
  /\ WF_vars(Stopping) /\ WF_vars(Stopped)
  /\ \A p \in Posts : WF_vars(Pen(p))

FairSpec == Spec /\ Fairness
-----------------------------------------------------------------------------
\* The states of the process, of the requests and of the searches; the buffer
\* exceeds its limit by less than one read.
TypeOK ==
  /\ ProcTypeOK
  /\ session \in {"launched", "registered", "stopping", "refused"} /\ listed \in BOOLEAN
  /\ readers \subseteq Readers
  /\ posts \in [Posts -> [answer : {None, "missing", "open", "written", "failed", "canceled"},
                          pen    : {"none", "check", "write", "written", "failed", "gone"},
                          result : {None, "written", "failed"}]]
  /\ search.process \in {"off", "peek", "wait", "last", "found", "absent", "gaveup"}
  /\ search.api \in {"off", "poll", "found", "gaveup"}
  /\ outcome \in {"pending", "reported", "refused", "unknown"}

Stream == INSTANCE OutputStream WITH waiting <- buf \o pipe, Limit <- BufLimit

\* Whoever reads, and whenever the child and its descendants end: the reads hand
\* out every piece of the output once and in order, and a piece is only lost
\* behind a full buffer.
ImplementsStream == Stream!Spec

\* A search that the end of the process ended with nothing has missed nothing:
\* unless a reader took output away or the buffer was full, no id is in the last
\* TailLines lines of all that the process and its descendants ever printed.  This
\* is so of an output of more than TailLines lines; of a shorter one the search
\* is handed an empty tail (TailOf), and it ends like this whatever was announced.
AbsentIsAbsent ==
  search.process = "absent" /\ got = <<>> /\ ~ dropped =>
    \A i \in EndsBefore(printed, TailLines) : ~ Announced(SubSeq(printed, i + 1, Len(printed)))

\* A launch whose session cannot be stored gives the spawn gate back, even if
\* the child ignores the end of its input; only a descendant that never closes
\* the output can hold it for ever.
GateReleased == (session = "stopping") ~> (session = "refused" \/ [](held))

\* Once the child is gone no goroutine of an input remains, blocked on a full
\* pipe or on a client that went away.
WritersReleased ==
  \A p \in Posts : (~ Alive /\ posts[p].pen # "none") ~> posts[p].pen = "gone"
=============================================================================
