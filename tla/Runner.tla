------------------------------- MODULE Runner -------------------------------
(***************************************************************************)
(* One executor process as Forge runs it (forge/internal/runner): a child  *)
(* with a stdin pipe and one pipe for stdout and stderr, the goroutine     *)
(* that drains the output into a buffer, the goroutine that waits for the  *)
(* child, and Stop.  The child may leave descendants that hold the output  *)
(* pipe open after it is gone.  Output is a sequence of pieces: "log" is a *)
(* whole line, "head" and "tail" are the two halves of the line in which   *)
(* an executor announces its session id.                                   *)
(***************************************************************************)
EXTENDS Naturals, Sequences, FiniteSets

CONSTANTS
  PipeSize,  \* pieces the output pipe holds
  ReadSize,  \* pieces one Read of the drain returns at most: 4096 bytes
  BufLimit,  \* maxOutBuf: 100 MiB
  InSize,    \* inputs the stdin pipe holds
  MaxLines   \* bound on the lines that are printed

ASSUME SizesAssumption ==
  {PipeSize, InSize, MaxLines} \subseteq Nat /\ {ReadSize, BufLimit} \subseteq Nat \ {0}

Id  == <<"head", "tail">>
Log == <<"log">>
Lines == {Id, Log}

VARIABLES
  child,    \* "running", "killed" (the signal is under way) or "exited"
  held,     \* a descendant has the output pipe open
  pipe,     \* what was printed and not yet drained
  buf,      \* outBuf
  drained,  \* the drain goroutine met the end of the output
  reaped,   \* cmd.Wait has returned
  done,     \* the channel of Done is closed
  stdin,    \* "open" or "closed", on the side of Forge
  inputs,   \* inputs in the stdin pipe
  stopper,  \* the goroutine in Stop, if there is one
  printed,  \* history: everything that was printed
  dropped   \* history: the drain threw something away

procVars == <<child, held, pipe, buf, drained, reaped, done, stdin, inputs, stopper, printed, dropped>>

\* A process that was just started; opencode has its stdin closed at once.
Started(in) ==
  /\ child = "running" /\ held = FALSE
  /\ pipe = <<>> /\ buf = <<>>
  /\ drained = FALSE /\ reaped = FALSE /\ done = FALSE
  /\ stdin = in /\ inputs = 0 /\ stopper = "none"
  /\ printed = <<>> /\ dropped = FALSE
-----------------------------------------------------------------------------
(* The child and its descendants *)

Alive == child # "exited"

Emit(line) ==
  /\ Alive \/ (held /\ line = Log)
  /\ Len(pipe) + Len(line) <= PipeSize
  /\ Len(printed) + Len(line) <= MaxLines  \* bound
  /\ pipe' = pipe \o line
  /\ printed' = printed \o line
  /\ UNCHANGED <<child, held, buf, drained, reaped, done, stdin, inputs, stopper, dropped>>

Fork ==
  /\ Alive /\ ~ held
  /\ held' = TRUE
  /\ UNCHANGED <<child, pipe, buf, drained, reaped, done, stdin, inputs, stopper, printed, dropped>>

DescendantsEnd ==
  /\ held
  /\ held' = FALSE
  /\ UNCHANGED <<child, pipe, buf, drained, reaped, done, stdin, inputs, stopper, printed, dropped>>

TakeInput ==
  /\ Alive /\ inputs > 0
  /\ inputs' = inputs - 1
  /\ UNCHANGED <<child, held, pipe, buf, drained, reaped, done, stdin, stopper, printed, dropped>>

\* On its own, or because it was killed: Die is what Kill makes certain.
Exit ==
  /\ child = "running"
  /\ child' = "exited"
  /\ UNCHANGED <<held, pipe, buf, drained, reaped, done, stdin, inputs, stopper, printed, dropped>>

Die ==
  /\ child = "killed"
  /\ child' = "exited"
  /\ UNCHANGED <<held, pipe, buf, drained, reaped, done, stdin, inputs, stopper, printed, dropped>>
-----------------------------------------------------------------------------
(* The goroutines of Start *)

\* Mutant: the buffer grows without a limit.
Drain_NoLimit(n) ==
  /\ ~ drained
  /\ n <= Len(pipe)
  /\ pipe' = SubSeq(pipe, n + 1, Len(pipe))
  /\ buf' = buf \o SubSeq(pipe, 1, n)
  /\ UNCHANGED <<child, held, drained, reaped, done, stdin, inputs, stopper, printed, dropped>>

\* One Read: a chunk that meets a full buffer is thrown away, one that meets
\* less is kept whole.
Drain(n) ==
  /\ ~ drained
  /\ n <= Len(pipe)
  /\ pipe' = SubSeq(pipe, n + 1, Len(pipe))
  /\ IF Len(buf) < BufLimit
       THEN buf' = buf \o SubSeq(pipe, 1, n) /\ UNCHANGED dropped
       ELSE dropped' = TRUE /\ UNCHANGED buf
  /\ UNCHANGED <<child, held, drained, reaped, done, stdin, inputs, stopper, printed>>

\* The output ends when nobody can print any more and everything was read.
EndOfOutput ==
  /\ ~ drained /\ pipe = <<>> /\ child = "exited" /\ ~ held
  /\ drained' = TRUE
  /\ UNCHANGED <<child, held, pipe, buf, reaped, done, stdin, inputs, stopper, printed, dropped>>

\* cmd.Wait closes the stdin pipe on its way.
WaitReturns ==
  /\ child = "exited" /\ ~ reaped
  /\ reaped' = TRUE
  /\ stdin' = "closed"
  /\ UNCHANGED <<child, held, pipe, buf, drained, done, inputs, stopper, printed, dropped>>

\* Mutant: the process counts as done as soon as the child was waited for.
CloseDone_Undrained ==
  /\ reaped /\ ~ done
  /\ done' = TRUE
  /\ UNCHANGED <<child, held, pipe, buf, drained, reaped, stdin, inputs, stopper, printed, dropped>>

CloseDone ==
  /\ reaped /\ drained /\ ~ done
  /\ done' = TRUE
  /\ UNCHANGED <<child, held, pipe, buf, drained, reaped, stdin, inputs, stopper, printed, dropped>>
-----------------------------------------------------------------------------
(* The methods that others call *)

\* Mutant: the buffer is handed out and kept.
ReadOutput_Keeps ==
  UNCHANGED procVars

\* What is handed out is buf.
ReadOutput ==
  /\ buf' = <<>>
  /\ UNCHANGED <<child, held, pipe, drained, reaped, done, stdin, inputs, stopper, printed, dropped>>

\* The line ends of a text that exactly n line ends follow: one or none.
LineEnds(text) == {i \in DOMAIN text : text[i] # "head"}
EndsBefore(text, n) == {i \in LineEnds(text) : Cardinality({j \in LineEnds(text) : i < j}) = n}

\* ReadOutputTail: the text is read from its end until n + 1 line ends were met, and
\* what follows the last one met is the tail.  A text with n line ends or fewer has
\* an empty tail: start was set to the length of the text and stays there.
TailOf(text, n) ==
  IF EndsBefore(text, n) = {} THEN <<>>
  ELSE SubSeq(text, 1 + (CHOOSE i \in EndsBefore(text, n) : TRUE), Len(text))

\* The pipe takes the input, refuses it, or blocks the writer.  When the child is
\* gone a descendant may still have it open.
WriteGoesThrough == stdin = "open" /\ (Alive \/ held) /\ inputs < InSize
WriteFails == stdin = "closed" \/ ~ Alive

StopBegins ==
  /\ stopper = "none"
  /\ stdin' = "closed"
  /\ stopper' = "waiting"
  /\ UNCHANGED <<child, held, pipe, buf, drained, reaped, done, inputs, printed, dropped>>

\* Mutant: the signal is not sent.
StopKills_NoSignal ==
  /\ stopper = "waiting" /\ ~ done
  /\ stopper' = "killing"
  /\ UNCHANGED <<child, held, pipe, buf, drained, reaped, done, stdin, inputs, printed, dropped>>

\* Three seconds after its stdin was closed.
StopKills ==
  /\ stopper = "waiting" /\ ~ done
  /\ stopper' = "killing"
  /\ child' = IF child = "running" THEN "killed" ELSE child
  /\ UNCHANGED <<held, pipe, buf, drained, reaped, done, stdin, inputs, printed, dropped>>

StopReturns ==
  /\ stopper \in {"waiting", "killing"} /\ done
  /\ stopper' = "returned"
  /\ UNCHANGED <<child, held, pipe, buf, drained, reaped, done, stdin, inputs, printed, dropped>>
-----------------------------------------------------------------------------
Environment ==
  \/ \E line \in Lines : Emit(line)
  \/ Fork \/ DescendantsEnd \/ TakeInput \/ Exit

Goroutines ==
  \/ \E n \in 1..ReadSize : Drain(n)
  \/ EndOfOutput \/ WaitReturns \/ CloseDone \/ Die

ProcTypeOK ==
  /\ child \in {"running", "killed", "exited"}
  /\ pipe \in Seq({"head", "tail", "log"}) /\ Len(pipe) <= PipeSize
  /\ buf \in Seq({"head", "tail", "log"}) /\ Len(buf) < BufLimit + ReadSize
  /\ {held, drained, reaped, done, dropped} \subseteq BOOLEAN
  /\ stdin \in {"open", "closed"}
  /\ inputs \in 0..InSize
  /\ stopper \in {"none", "waiting", "killing", "returned"}
=============================================================================
