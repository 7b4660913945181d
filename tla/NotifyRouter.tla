---------------------------- MODULE NotifyRouter ----------------------------
(***************************************************************************)
(* hermes-notify: webhooks from Hermes are forwarded to Telegram at once,  *)
(* or buffered until the operator is free.  Three kinds of goroutines      *)
(* share the router's mutex and send outside of it: one per webhook, the   *)
(* poller that obeys /busy and /free, and autoFlush with its ticker.       *)
(***************************************************************************)
EXTENDS Naturals, Sequences, SequencesExt

CONSTANTS
  Items,         \* webhook payloads
  Status,        \* Items -> their status
  BufferCap,     \* bufferCap
  PartialAfter,  \* autoFlush's 30 minutes, in ticks
  AutoFree,      \* its 2 hours
  MaxCommands,   \* bound on the operator's /busy commands
  SendMayFail

ASSUME BufferCapAssumption == BufferCap \in Nat \ {0}
ASSUME TimesAssumption == PartialAfter \in Nat /\ AutoFree \in Nat
ASSUME MaxCommandsAssumption == MaxCommands \in Nat

Flushers == {"poll", "auto"}

VARIABLES
  busy, buffer,  \* router.busy, router.buffer
  elapsed,       \* time since busySince, as far as autoFlush can tell
  hooks,         \* the goroutine of each webhook
  flushers,      \* pollCommands and autoFlush: where they are, what they took
  outcome,       \* what became of each payload
  commands       \* /busy commands so far

vars == <<busy, buffer, elapsed, hooks, flushers, outcome, commands>>

priority(status) ==
  CASE status \in {"blocked", "failed", "loop_detected"} -> "urgent"
    [] status \in {"done", "awaiting_confirm"}           -> "normal"
    [] OTHER                                             -> "low"

Resting == [pc |-> "resting", hand |-> <<>>]

Init ==
  /\ busy     = FALSE
  /\ buffer   = <<>>
  /\ elapsed  = 0
  /\ hooks    = [i \in Items |-> "expected"]
  /\ flushers = [f \in Flushers |-> Resting]
  /\ outcome  = [i \in Items |-> "pending"]
  /\ commands = 0

\* Telegram took the text, or Send returned an error that is only logged.
Send(items) ==
  \E result \in {"sent"} \cup (IF SendMayFail THEN {"failed"} ELSE {}) :
    outcome' = [i \in Items |-> IF i \in items THEN result ELSE outcome[i]]
-----------------------------------------------------------------------------
(* Webhooks *)

\* route: the mode is read under the lock and acted upon after it.
Route(i) ==
  /\ hooks[i] = "expected"
  /\ LET pri == priority(Status[i]) IN
       hooks' = [hooks EXCEPT ![i] =
         IF pri = "urgent" \/ (pri = "normal" /\ ~ busy) THEN "send" ELSE "buffer"]
  /\ UNCHANGED <<busy, buffer, elapsed, flushers, outcome, commands>>

SendNow(i) ==
  /\ hooks[i] = "send"
  /\ Send({i})
  /\ hooks' = [hooks EXCEPT ![i] = "handled"]
  /\ UNCHANGED <<busy, buffer, elapsed, flushers, commands>>

\* Mutant: the limit is checked after the payload was added.
AddToBuffer_ChecksLate(i) ==
  /\ hooks[i] = "buffer"
  /\ LET full == Len(buffer) > BufferCap IN
       /\ buffer'  = Append(IF full THEN Tail(buffer) ELSE buffer, i)
       /\ outcome' = IF full THEN [outcome EXCEPT ![Head(buffer)] = "dropped"] ELSE outcome
  /\ hooks' = [hooks EXCEPT ![i] = "handled"]
  /\ UNCHANGED <<busy, elapsed, flushers, commands>>

\* A full buffer loses its oldest payload.
AddToBuffer(i) ==
  /\ hooks[i] = "buffer"
  /\ LET full == Len(buffer) >= BufferCap IN
       /\ buffer'  = Append(IF full THEN Tail(buffer) ELSE buffer, i)
       /\ outcome' = IF full THEN [outcome EXCEPT ![Head(buffer)] = "dropped"] ELSE outcome
  /\ hooks' = [hooks EXCEPT ![i] = "handled"]
  /\ UNCHANGED <<busy, elapsed, flushers, commands>>
-----------------------------------------------------------------------------
(* The poller and autoFlush *)

Goto(f, pc) == flushers' = [flushers EXCEPT ![f].pc = pc]

SetBusy ==
  /\ flushers["poll"] = Resting
  /\ commands < MaxCommands /\ commands' = commands + 1  \* bound
  /\ busy' = TRUE
  /\ elapsed' = 0
  /\ UNCHANGED <<buffer, hooks, flushers, outcome>>

FreeCommand ==
  /\ flushers["poll"] = Resting
  /\ Goto("poll", "free")
  /\ UNCHANGED <<busy, buffer, elapsed, hooks, outcome, commands>>

\* One firing of autoFlush's ticker that finds something to do.
AutoFlush ==
  /\ flushers["auto"] = Resting
  /\ busy
  /\ \/ elapsed > AutoFree /\ Goto("auto", "free")
     \/ elapsed <= AutoFree /\ elapsed > PartialAfter /\ Len(buffer) > 0 /\ Goto("auto", "flush")
  /\ UNCHANGED <<busy, buffer, elapsed, hooks, outcome, commands>>

\* Mutant: SetFree without its Flush.
SetFree_NoFlush(f) ==
  /\ flushers[f].pc = "free"
  /\ busy' = FALSE
  /\ Goto(f, "resting")
  /\ UNCHANGED <<buffer, elapsed, hooks, outcome, commands>>

SetFree(f) ==
  /\ flushers[f].pc = "free"
  /\ busy' = FALSE
  /\ Goto(f, "flush")
  /\ UNCHANGED <<buffer, elapsed, hooks, outcome, commands>>

\* Mutant: the buffer is copied but not emptied.
Flush_Keeps(f) ==
  /\ flushers[f].pc = "flush"
  /\ flushers' = [flushers EXCEPT ![f] = [pc |-> "send", hand |-> buffer]]
  /\ UNCHANGED <<busy, buffer, elapsed, hooks, outcome, commands>>

\* Flush up to the end of its lock section.
Flush(f) ==
  /\ flushers[f].pc = "flush"
  /\ flushers' = [flushers EXCEPT ![f] =
       IF buffer = <<>> THEN Resting ELSE [pc |-> "send", hand |-> buffer]]
  /\ buffer' = <<>>
  /\ UNCHANGED <<busy, elapsed, hooks, outcome, commands>>

\* One message for all of them, a summary when there are several.
SendBatch(f) ==
  /\ flushers[f].pc = "send"
  /\ Send(ToSet(flushers[f].hand))
  /\ flushers' = [flushers EXCEPT ![f] = Resting]
  /\ UNCHANGED <<busy, buffer, elapsed, hooks, commands>>

\* Time beyond what autoFlush distinguishes is not counted.
Pass ==
  /\ busy /\ elapsed <= AutoFree
  /\ elapsed' = elapsed + 1
  /\ UNCHANGED <<busy, buffer, hooks, flushers, outcome, commands>>

Next ==
  \/ \E i \in Items : Route(i) \/ SendNow(i) \/ AddToBuffer(i)
  \/ SetBusy \/ FreeCommand \/ AutoFlush \/ Pass
  \/ \E f \in Flushers : SetFree(f) \/ Flush(f) \/ SendBatch(f)

Spec == Init /\ [][Next]_vars

\* Goroutines run on, the ticker fires and time passes; nobody has to type
\* a command or post a webhook.
Fairness ==
  /\ \A i \in Items : WF_vars(SendNow(i)) /\ WF_vars(AddToBuffer(i))
  /\ WF_vars(AutoFlush) /\ WF_vars(Pass)
  /\ \A f \in Flushers : WF_vars(SetFree(f)) /\ WF_vars(Flush(f)) /\ WF_vars(SendBatch(f))

FairSpec == Spec /\ Fairness
-----------------------------------------------------------------------------
\* The router's fields and its goroutines; the buffer keeps within its limit.
TypeOK ==
  /\ busy \in BOOLEAN
  /\ buffer \in Seq(Items) /\ Len(buffer) <= BufferCap
  /\ elapsed \in 0..AutoFree+1
  /\ hooks \in [Items -> {"expected", "send", "buffer", "handled"}]
  /\ flushers \in [Flushers -> [pc : {"resting", "free", "flush", "send"}, hand : Seq(Items)]]
  /\ outcome \in [Items -> {"pending", "sent", "failed", "dropped"}]
  /\ commands \in 0..MaxCommands

Places(i) ==
  {<<"buffer", n>> : n \in {n \in DOMAIN buffer : buffer[n] = i}} \cup
  UNION {{<<f, n>> : n \in {n \in DOMAIN flushers[f].hand : flushers[f].hand[n] = i}} : f \in Flushers}

\* No payload is lost between the lock sections of route, addToBuffer and two
\* concurrent Flushes, and none is sent twice: a handled payload without an
\* outcome waits in exactly one place, and one with an outcome waits nowhere.
HeldOnce ==
  \A i \in Items :
    Cardinality(Places(i)) = IF hooks[i] = "handled" /\ outcome[i] = "pending" THEN 1 ELSE 0

\* What is in the buffer while the operator is busy does not stay in it: the
\* operator's /free, the partial flush or the automatic one takes it, a full
\* buffer drops it.
BusyIsFlushed ==
  \A i \in Items : (busy /\ i \in ToSet(buffer)) ~> (i \notin ToSet(buffer))

\* "Forwards to Telegram, with buffering when the user is busy": refuted, what
\* is put into the buffer while the user is free stays there, since autoFlush
\* only looks at a busy router's buffer.
HandledIsForwarded ==
  \A i \in Items : (hooks[i] = "handled") ~> (outcome[i] # "pending")
=============================================================================
