-------------------- MODULE RouterAndMessagesProofs --------------------
(***************************************************************************)
(* Proofs about two components of Hermes that share no state.              *)
(*                                                                         *)
(* NotifyRouter: hermes-notify holds every payload it has handled and not  *)
(* yet decided upon in exactly one place, for any payloads, statuses and   *)
(* size of the buffer, however the webhooks and the two flushers           *)
(* interleave.                                                             *)
(*                                                                         *)
(* SessionMessages: whatever database an earlier version left and wherever *)
(* starts are broken off, Hermes starts, serves a complete schema, and     *)
(* gives every reader each message of a session once and in order.         *)
(***************************************************************************)
EXTENDS NotifyRouter, SessionMessages,
        FiniteSetTheorems, SequenceTheorems, WellFoundedInduction, TLAPS

\* What a payload can wait in: the router's buffer, and the batch a flusher
\* took from it and has not sent.
Containers == {"buffer"} \cup Flushers

Content(c) == IF c = "buffer" THEN buffer ELSE flushers[c].hand

Pending(i) == hooks[i] = "handled" /\ outcome[i] = "pending"

\* A flusher holds payloads only between the two halves of Flush.
Carrying == \A f \in Flushers : flushers[f].pc # "send" => flushers[f].hand = <<>>

\* No two places hold the same payload.
Once ==
  \A c, d \in Containers : \A n \in 1..Len(Content(c)), m \in 1..Len(Content(d)) :
    Content(c)[n] = Content(d)[m] => c = d /\ n = m

\* Only payloads that were handled and are undecided are held.
Waiting == \A c \in Containers : \A n \in 1..Len(Content(c)) : Pending(Content(c)[n])

\* And those are.
Covered ==
  \A i \in Items : Pending(i) => \E c \in Containers : \E n \in 1..Len(Content(c)) : Content(c)[n] = i

\* Nothing is decided upon before it is handled.
Undecided == \A i \in Items : hooks[i] # "handled" => outcome[i] = "pending"

\* The inductive invariant.  HeldOnce counts places; what keeps the count is that
\* places differ in what they hold, and that a flusher has nothing in hand when it
\* takes the buffer.
IInv == TypeOK /\ Carrying /\ Undecided /\ Once /\ Waiting /\ Covered

LEMMA Shapes ==
  ASSUME TypeOK
  PROVE  /\ \A c \in Containers : Content(c) \in Seq(Items) /\ Len(Content(c)) \in Nat
         /\ \A c \in Containers : \A n \in 1..Len(Content(c)) : Content(c)[n] \in Items
         /\ \A f \in Flushers : f # "buffer" /\ f \in Containers
         /\ "buffer" \in Containers
<1>1. \A c \in Containers : Content(c) \in Seq(Items)
  BY DEF TypeOK, Containers, Content, Flushers
<1> QED BY <1>1 DEF Containers, Flushers

\* A step that moves no payload and decides upon none that is held.
LEMMA StillKeeps ==
  ASSUME IInv, TypeOK', Carrying', Undecided', \A c \in Containers : Content(c)' = Content(c),
         \A i \in Items : Pending(i)' <=> Pending(i)
  PROVE  IInv'
<1>1. Once'
  BY DEF IInv, Once
<1>2. Waiting' /\ Covered'
  BY Shapes DEF IInv, Waiting, Covered
<1> QED BY <1>1, <1>2 DEF IInv

\* Webhooks that are not buffered, commands, the ticker and the time.
LEMMA BystandersKeep ==
  ASSUME IInv,
         \/ \E i \in Items : Route(i) \/ SendNow(i)
         \/ SetBusy \/ FreeCommand \/ AutoFlush \/ Pass
         \/ \E f \in Flushers : SetFree(f)
  PROVE  IInv'
<1> USE BufferCapAssumption, TimesAssumption, MaxCommandsAssumption
<1>1. CASE \E i \in Items : Route(i)
  <2>1. PICK i \in Items : Route(i)
    BY <1>1
  <2>2. TypeOK' /\ Carrying' /\ Undecided' /\ UNCHANGED <<buffer, flushers, outcome>>
    BY <2>1 DEF Route, IInv, TypeOK, Carrying, Undecided
  <2>3. \A j \in Items : Pending(j)' <=> Pending(j)
    BY <2>1 DEF Route, IInv, TypeOK, Pending
  <2> QED BY <2>2, <2>3, StillKeeps DEF Content
<1>2. CASE \E i \in Items : SendNow(i)
  <2>1. PICK i \in Items : SendNow(i)
    BY <1>2
  <2>2. PICK result \in {"sent", "failed"} :
          \A j \in Items : outcome'[j] = IF j = i THEN result ELSE outcome[j]
    BY <2>1 DEF SendNow, Send
  <2>3. TypeOK' /\ Carrying' /\ UNCHANGED <<buffer, flushers>>
    BY <2>1 DEF SendNow, Send, IInv, TypeOK, Carrying
  <2>4. \A j \in Items : Pending(j)' <=> Pending(j)
    BY <2>1, <2>2 DEF SendNow, IInv, TypeOK, Pending
  <2>5. Undecided'
    BY <2>1, <2>2 DEF SendNow, IInv, TypeOK, Undecided
  <2> QED BY <2>3, <2>4, <2>5, StillKeeps DEF Content
<1>3. CASE \/ SetBusy \/ FreeCommand \/ AutoFlush \/ Pass
           \/ \E f \in Flushers : SetFree(f)
  <2>1. UNCHANGED <<buffer, hooks, outcome>>
    BY <1>3 DEF SetBusy, FreeCommand, AutoFlush, Pass, SetFree
  <2>2. flushers \in [Flushers -> [pc : {"resting", "free", "flush", "send"}, hand : Seq(Items)]]
    BY DEF IInv, TypeOK
  <2>3. \/ UNCHANGED flushers
        \/ \E g \in Flushers, pc \in {"free", "flush"} :
             flushers' = [flushers EXCEPT ![g].pc = pc] /\ flushers[g].pc # "send"
    BY <1>3 DEF SetBusy, FreeCommand, AutoFlush, Pass, SetFree, Goto, Resting, Flushers
  <2>4. TypeOK'
    <3>1. flushers' \in [Flushers -> [pc : {"resting", "free", "flush", "send"}, hand : Seq(Items)]]
      BY <2>2, <2>3
    <3>2. /\ busy' = busy \/ busy' = TRUE \/ busy' = FALSE
          /\ elapsed' = elapsed \/ elapsed' = 0 \/ (elapsed <= AutoFree /\ elapsed' = elapsed + 1)
          /\ commands' = commands \/ (commands < MaxCommands /\ commands' = commands + 1)
      BY <1>3 DEF SetBusy, FreeCommand, AutoFlush, Pass, SetFree
    <3>3. elapsed' \in 0..AutoFree+1 /\ commands' \in 0..MaxCommands
      BY <3>2 DEF IInv, TypeOK
    <3>4. busy' \in BOOLEAN
      BY <3>2, Zenon DEF IInv, TypeOK
    <3> QED BY <2>1, <3>1, <3>3, <3>4 DEF IInv, TypeOK
  <2>5. \A f \in Flushers : /\ flushers'[f].hand = flushers[f].hand
                            /\ flushers'[f].pc # "send" => flushers[f].pc # "send"
    <3>1. CASE UNCHANGED flushers
      BY <3>1
    <3>2. ASSUME NEW g \in Flushers, NEW pc \in {"free", "flush"},
                 flushers' = [flushers EXCEPT ![g].pc = pc], flushers[g].pc # "send"
          PROVE  \A f \in Flushers : /\ flushers'[f].hand = flushers[f].hand
                                     /\ flushers'[f].pc # "send" => flushers[f].pc # "send"
      BY <2>2, <3>2
    <3> QED BY <2>3, <3>1, <3>2
  <2>6. Carrying'
    BY <2>5 DEF IInv, Carrying
  <2>7. \A c \in Containers : Content(c)' = Content(c)
    BY <2>1, <2>5 DEF Content, Containers
  <2> QED BY <2>1, <2>4, <2>6, <2>7, StillKeeps DEF Pending, IInv, Undecided
<1> QED BY <1>1, <1>2, <1>3


\* A payload enters the buffer at its end; what a full buffer drops was only there.
LEMMA AddToBufferKeeps ==
  ASSUME IInv, NEW i \in Items, AddToBuffer(i)
  PROVE  IInv'
<1> DEFINE full == Len(buffer) >= BufferCap
           kept == IF full THEN Tail(buffer) ELSE buffer
           skip == IF full THEN 1 ELSE 0
<1> USE BufferCapAssumption
<1>1. /\ hooks[i] = "buffer" /\ hooks' = [hooks EXCEPT ![i] = "handled"]
      /\ buffer' = Append(kept, i)
      /\ outcome' = IF full THEN [outcome EXCEPT ![Head(buffer)] = "dropped"] ELSE outcome
      /\ UNCHANGED <<busy, elapsed, flushers, commands>>
  BY DEF AddToBuffer
<1>2. /\ buffer \in Seq(Items) /\ Len(buffer) \in Nat /\ Len(buffer) <= BufferCap
      /\ full => Len(buffer) > 0 /\ buffer # <<>>
      /\ hooks \in [Items -> {"expected", "send", "buffer", "handled"}]
      /\ outcome \in [Items -> {"pending", "sent", "failed", "dropped"}]
  BY DEF IInv, TypeOK
<1>3. /\ kept \in Seq(Items) /\ Len(kept) = Len(buffer) - skip
      /\ \A n \in 1..Len(kept) : kept[n] = buffer[n + skip]
      /\ full => Head(buffer) = buffer[1] /\ Head(buffer) \in Items
  BY <1>2
<1>4. skip \in {0, 1} /\ (full <=> skip = 1)
  OBVIOUS
<1> HIDE DEF kept, skip
<1>5. /\ buffer' \in Seq(Items) /\ Len(buffer') = Len(kept) + 1 /\ Len(kept) \in Nat
      /\ Len(buffer') <= BufferCap
      /\ buffer'[Len(kept) + 1] = i
      /\ \A n \in 1..Len(kept) : buffer'[n] = kept[n]
  BY <1>1, <1>2, <1>3, <1>4
<1>6. TypeOK' /\ Carrying'
  BY <1>1, <1>2, <1>3, <1>5 DEF IInv, TypeOK, Carrying
\* Whatever is held was held before, further on by one if the buffer was full, or is i.
<1> DEFINE From(c, n) == IF c = "buffer" THEN n + skip ELSE n
<1>7. ASSUME NEW c \in Containers, NEW n \in 1..Len(Content(c)')
      PROVE  \/ c = "buffer" /\ n = Len(kept) + 1 /\ Content(c)'[n] = i
             \/ /\ From(c, n) \in 1..Len(Content(c))
                /\ Content(c)'[n] = Content(c)[From(c, n)]
                /\ full => ~ (c = "buffer" /\ From(c, n) = 1)
                /\ c = "buffer" => n \in 1..Len(kept)
  <2>1. CASE c = "buffer"
    <3>1. Content(c)' = buffer' /\ Content(c) = buffer
      BY <2>1 DEF Content
    <3>2. CASE n = Len(kept) + 1
      BY <1>5, <2>1, <3>1, <3>2
    <3>3. CASE n \in 1..Len(kept)
      BY SMTT(20), <1>2, <1>3, <1>4, <1>5, <2>1, <3>1, <3>3
    <3> QED BY <1>5, <3>1, <3>2, <3>3
  <2>2. CASE c # "buffer"
    BY <1>1, <2>2 DEF Content
  <2> QED BY <2>1, <2>2
<1>8. \A j \in Items : Pending(j)' <=> j = i \/ (Pending(j) /\ ~ (full /\ j = Head(buffer)))
  <2>1. \A j \in Items : /\ hooks'[j] = IF j = i THEN "handled" ELSE hooks[j]
                         /\ outcome'[j] = IF full /\ j = Head(buffer) THEN "dropped" ELSE outcome[j]
    BY <1>1, <1>2, <1>3
  <2>2. outcome[i] = "pending" /\ ~ (full /\ i = Head(buffer))
    <3>1. full => Content("buffer")[1] = Head(buffer) /\ "buffer" \in Containers
                  /\ 1 \in 1..Len(Content("buffer"))
      BY <1>2, <1>3 DEF Content, Containers
    <3> QED BY <1>1, <3>1 DEF IInv, Undecided, Waiting, Pending
  <2> QED BY <1>1, <2>1, <2>2 DEF Pending
<1>9. \A c \in Containers : \A n \in 1..Len(Content(c)) : Content(c)[n] # i /\ Content(c)[n] \in Items
  BY <1>1, Shapes DEF IInv, Waiting, Pending
<1>10. ASSUME full, NEW c \in Containers, NEW n \in 1..Len(Content(c)), Content(c)[n] = Head(buffer)
       PROVE  c = "buffer" /\ n = 1
  <2>1. "buffer" \in Containers /\ Content("buffer") = buffer /\ 1 \in 1..Len(buffer)
    BY <1>2, <1>10 DEF Containers, Content
  <2>2. Content(c)[n] = Content("buffer")[1]
    BY <1>3, <1>10, <2>1
  <2> QED BY <2>1, <2>2 DEF IInv, Once
<1>11. Once'
  <2> SUFFICES ASSUME NEW c \in Containers, NEW d \in Containers,
                      NEW n \in 1..Len(Content(c)'), NEW m \in 1..Len(Content(d)'),
                      Content(c)'[n] = Content(d)'[m]
               PROVE  c = d /\ n = m
    BY DEF Once
  <2>1. CASE c = "buffer" /\ n = Len(kept) + 1 /\ Content(c)'[n] = i
    BY <1>7, <1>9, <2>1
  <2>2. CASE d = "buffer" /\ m = Len(kept) + 1 /\ Content(d)'[m] = i
    BY <1>7, <1>9, <2>2
  <2>3. CASE /\ From(c, n) \in 1..Len(Content(c)) /\ Content(c)'[n] = Content(c)[From(c, n)]
             /\ From(d, m) \in 1..Len(Content(d)) /\ Content(d)'[m] = Content(d)[From(d, m)]
    <3>1. \A a \in 1..Len(Content(c)), b \in 1..Len(Content(d)) :
            Content(c)[a] = Content(d)[b] => c = d /\ a = b
      BY DEF IInv, Once
    <3>2. c = d /\ From(c, n) = From(d, m)
      BY <2>3, <3>1, Zenon
    <3> QED BY <1>4, <3>2
  <2> QED BY <1>7, <2>1, <2>2, <2>3
<1>12. Waiting'
  <2> SUFFICES ASSUME NEW c \in Containers, NEW n \in 1..Len(Content(c)')
               PROVE  hooks'[Content(c)'[n]] = "handled" /\ outcome'[Content(c)'[n]] = "pending"
    BY DEF Waiting, Pending
  <2>1. CASE c = "buffer" /\ n = Len(kept) + 1 /\ Content(c)'[n] = i
    BY <1>8, <2>1 DEF Pending
  <2>2. CASE /\ From(c, n) \in 1..Len(Content(c)) /\ Content(c)'[n] = Content(c)[From(c, n)]
             /\ full => ~ (c = "buffer" /\ From(c, n) = 1)
    <3> DEFINE k == From(c, n)
    <3>1. k \in 1..Len(Content(c)) /\ Content(c)'[n] = Content(c)[k] /\ (full => ~ (c = "buffer" /\ k = 1))
      BY <2>2
    <3> HIDE DEF k
    <3>2. Content(c)[k] \in Items /\ Content(c)[k] # i /\ Pending(Content(c)[k])
      BY <1>9, <3>1 DEF IInv, Waiting
    <3>3. ~ (full /\ Content(c)[k] = Head(buffer))
      BY <1>10, <3>1
    <3> QED BY <1>8, <3>1, <3>2, <3>3 DEF Pending
  <2> QED BY <1>7, <2>1, <2>2
<1>13. Covered'
  <2> SUFFICES ASSUME NEW j \in Items, Pending(j)'
               PROVE  \E c \in Containers : \E n \in 1..Len(Content(c)') : Content(c)'[n] = j
    BY DEF Covered
  <2>1. CASE j = i
    <3>1. "buffer" \in Containers /\ Content("buffer")' = buffer' /\ Len(kept) + 1 \in 1..Len(buffer')
      BY <1>5 DEF Containers, Content
    <3> QED BY <1>5, <2>1, <3>1
  <2>2. CASE j # i
    <3>1. Pending(j) /\ ~ (full /\ j = Head(buffer))
      BY <1>8, <2>2
    <3>2. PICK c \in Containers : \E n \in 1..Len(Content(c)) : Content(c)[n] = j
      BY <3>1 DEF IInv, Covered
    <3>3. PICK n \in 1..Len(Content(c)) : Content(c)[n] = j
      BY <3>2
    <3>4. CASE c = "buffer"
      <4>1. n - skip \in 1..Len(kept) /\ buffer'[n - skip] = j
        BY <1>2, <1>3, <1>4, <1>5, <3>1, <3>3, <3>4 DEF Content
      <4> QED BY <1>5, <3>4, <4>1 DEF Content
    <3>5. CASE c # "buffer"
      BY <1>1, <3>3, <3>5 DEF Content
    <3> QED BY <3>4, <3>5
  <2> QED BY <2>1, <2>2
<1>14. Undecided'
  <2>1. full => hooks[Head(buffer)] = "handled"
    <3>1. full => Content("buffer")[1] = Head(buffer) /\ "buffer" \in Containers
                  /\ 1 \in 1..Len(Content("buffer"))
      BY <1>2, <1>3 DEF Content, Containers
    <3> QED BY <3>1 DEF IInv, Waiting, Pending
  <2> QED BY <1>1, <1>2, <1>3, <2>1 DEF IInv, Undecided
<1> QED BY <1>6, <1>11, <1>12, <1>13, <1>14 DEF IInv

\* The flusher takes what the buffer held, in the order it was in; what the buffer
\* gets from now on is for the next to take.
LEMMA FlushKeeps ==
  ASSUME IInv, NEW f \in Flushers, Flush(f)
  PROVE  IInv'
<1>1. /\ flushers[f].hand = <<>> /\ buffer' = <<>> /\ f # "buffer" /\ "buffer" \notin Flushers
      /\ flushers' = [flushers EXCEPT ![f] =
           IF buffer = <<>> THEN Resting ELSE [pc |-> "send", hand |-> buffer]]
      /\ UNCHANGED <<busy, elapsed, hooks, outcome, commands>>
  BY DEF Flush, IInv, Carrying, Flushers
<1>2. /\ buffer \in Seq(Items) /\ <<>> \in Seq(Items) /\ Len(<<>>) = 0
      /\ flushers \in [Flushers -> [pc : {"resting", "free", "flush", "send"}, hand : Seq(Items)]]
  BY DEF IInv, TypeOK
<1>3. /\ flushers'[f].hand = buffer /\ (flushers'[f].pc = "send" \/ buffer = <<>>)
      /\ \A g \in Flushers \ {f} : flushers'[g] = flushers[g]
      /\ flushers' \in [Flushers -> [pc : {"resting", "free", "flush", "send"}, hand : Seq(Items)]]
  BY <1>1, <1>2 DEF Resting
<1>4. TypeOK' /\ Carrying'
  BY <1>1, <1>2, <1>3, BufferCapAssumption DEF IInv, TypeOK, Carrying
\* What was in the buffer is in the hand, and the other flusher's is left alone.
<1> DEFINE From(c) == IF c = f THEN "buffer" ELSE c
<1>5. \A c \in Containers :
        /\ c = "buffer" => Content(c)' = <<>>
        /\ c # "buffer" => From(c) \in Containers /\ Content(c)' = Content(From(c))
  BY <1>1, <1>3 DEF Content, Containers
<1>6. \A c \in Containers : \A n \in 1..Len(Content(c)) : c # f
  BY <1>1, <1>2 DEF Content
<1>7. \A i \in Items : Pending(i)' <=> Pending(i)
  BY <1>1 DEF Pending
<1>8. Once'
  <2> SUFFICES ASSUME NEW c \in Containers, NEW d \in Containers,
                      NEW n \in 1..Len(Content(c)'), NEW m \in 1..Len(Content(d)'),
                      Content(c)'[n] = Content(d)'[m]
               PROVE  c = d /\ n = m
    BY DEF Once
  <2>1. c # "buffer" /\ d # "buffer"
    BY <1>2, <1>5
  <2>2. From(c) = From(d) /\ n = m
    BY <1>5, <2>1 DEF IInv, Once
  <2> QED BY <2>1, <2>2
<1>9. Waiting'
  <2> SUFFICES ASSUME NEW c \in Containers, NEW n \in 1..Len(Content(c)')
               PROVE  hooks'[Content(c)'[n]] = "handled" /\ outcome'[Content(c)'[n]] = "pending"
    BY DEF Waiting, Pending
  <2>1. c # "buffer"
    BY <1>2, <1>5
  <2>2. From(c) \in Containers /\ Content(c)' = Content(From(c)) /\ n \in 1..Len(Content(From(c)))
    BY <1>5, <2>1
  <2> QED BY <1>7, <2>2, Shapes DEF IInv, Waiting, Pending
<1>10. Covered'
  <2> SUFFICES ASSUME NEW i \in Items, Pending(i)'
               PROVE  \E c \in Containers : \E n \in 1..Len(Content(c)') : Content(c)'[n] = i
    BY DEF Covered
  <2>1. PICK c \in Containers : \E n \in 1..Len(Content(c)) : Content(c)[n] = i
    BY <1>7 DEF IInv, Covered
  <2>2. c # f
    BY <1>6, <2>1
  <2>3. PICK d \in Containers : d # "buffer" /\ From(d) = c
    BY <1>1, <2>2 DEF Containers
  <2>4. Content(d)' = Content(c)
    BY <1>5, <2>3
  <2> QED BY <2>1, <2>3, <2>4
<1>11. Undecided'
  BY <1>1 DEF IInv, Undecided
<1> QED BY <1>4, <1>8, <1>9, <1>10, <1>11 DEF IInv

\* Sending decides upon the batch, and the batch alone is let go.
LEMMA SendBatchKeeps ==
  ASSUME IInv, NEW f \in Flushers, SendBatch(f)
  PROVE  IInv'
<1> DEFINE batch == ToSet(flushers[f].hand)
<1>1. /\ f # "buffer" /\ "buffer" \notin Flushers
      /\ flushers' = [flushers EXCEPT ![f] = Resting]
      /\ UNCHANGED <<busy, buffer, elapsed, hooks, commands>>
  BY DEF SendBatch, Flushers
<1>2. PICK result \in {"sent", "failed"} :
        outcome' = [i \in Items |-> IF i \in batch THEN result ELSE outcome[i]]
  BY DEF SendBatch, Send
<1>3. /\ <<>> \in Seq(Items) /\ Len(<<>>) = 0
      /\ flushers \in [Flushers -> [pc : {"resting", "free", "flush", "send"}, hand : Seq(Items)]]
      /\ outcome \in [Items -> {"pending", "sent", "failed", "dropped"}]
  BY DEF IInv, TypeOK
<1>4. /\ flushers'[f].hand = <<>> /\ \A g \in Flushers \ {f} : flushers'[g] = flushers[g]
      /\ flushers' \in [Flushers -> [pc : {"resting", "free", "flush", "send"}, hand : Seq(Items)]]
  BY <1>1, <1>3 DEF Resting
<1>5. outcome' \in [Items -> {"pending", "sent", "failed", "dropped"}]
  BY <1>2, <1>3
<1>6. TypeOK' /\ Carrying'
  BY <1>1, <1>4, <1>5 DEF IInv, TypeOK, Carrying
<1>7. \A i \in Items : i \in batch <=> \E n \in 1..Len(flushers[f].hand) : flushers[f].hand[n] = i
  BY <1>3 DEF ToSet
<1>8. \A i \in Items : Pending(i)' <=> Pending(i) /\ i \notin batch
  BY <1>1, <1>2, <1>3 DEF Pending
<1>9. /\ \A c \in Containers : c # f => Content(c)' = Content(c)
      /\ f \in Containers /\ Len(Content(f)') = 0 /\ Content(f) = flushers[f].hand
  BY <1>1, <1>3, <1>4 DEF Content, Containers
<1>10. Once'
  BY <1>9 DEF IInv, Once
<1>11. Waiting'
  <2> SUFFICES ASSUME NEW c \in Containers, NEW n \in 1..Len(Content(c)')
               PROVE  hooks'[Content(c)'[n]] = "handled" /\ outcome'[Content(c)'[n]] = "pending"
    BY DEF Waiting, Pending
  <2>1. c # f /\ Content(c)' = Content(c) /\ Content(c)[n] \in Items /\ Pending(Content(c)[n])
    BY <1>9, Shapes DEF IInv, Waiting
  <2>2. Content(c)[n] \notin batch
    BY <1>7, <1>9, <2>1 DEF IInv, Once
  <2> QED BY <1>8, <2>1, <2>2 DEF Pending
<1>12. Covered'
  <2> SUFFICES ASSUME NEW i \in Items, Pending(i)'
               PROVE  \E c \in Containers : \E n \in 1..Len(Content(c)') : Content(c)'[n] = i
    BY DEF Covered
  <2>1. PICK c \in Containers : \E n \in 1..Len(Content(c)) : Content(c)[n] = i
    BY <1>8 DEF IInv, Covered
  <2>2. c # f
    BY <1>7, <1>8, <1>9, <2>1
  <2> QED BY <1>9, <2>1, <2>2
<1>13. Undecided'
  BY <1>1, <1>2, <1>3, <1>7, <1>9 DEF IInv, Undecided, Waiting, Pending
<1> QED BY <1>6, <1>10, <1>11, <1>12, <1>13 DEF IInv

LEMMA NextKeeps ==
  ASSUME IInv, [Next]_vars
  PROVE  IInv'
<1>1. CASE UNCHANGED vars
  BY <1>1, StillKeeps DEF vars, IInv, TypeOK, Carrying, Undecided, Content, Pending
<1>2. CASE Next
  BY <1>2, BystandersKeep, AddToBufferKeeps, FlushKeeps, SendBatchKeeps DEF Next
<1> QED BY <1>1, <1>2

LEMMA InitInvariant == Init => IInv
<1> SUFFICES ASSUME Init PROVE IInv
  OBVIOUS
<1>1. TypeOK
  <2>1. buffer \in Seq(Items) /\ Len(buffer) <= BufferCap
    BY BufferCapAssumption DEF Init
  <2>2. flushers \in [Flushers -> [pc : {"resting", "free", "flush", "send"}, hand : Seq(Items)]]
    BY DEF Init, Resting
  <2>3. elapsed \in 0..AutoFree+1 /\ commands \in 0..MaxCommands
    BY TimesAssumption, MaxCommandsAssumption DEF Init
  <2> QED BY <2>1, <2>2, <2>3 DEF Init, TypeOK
<1>2. \A c \in Containers : Len(Content(c)) = 0
  BY DEF Init, Content, Containers, Resting
<1> QED BY <1>1, <1>2 DEF Init, IInv, Carrying, Undecided, Once, Waiting, Covered, Pending, Resting

\* The inductive invariant holds in every behaviour.
THEOREM InductiveInvariant == Spec => []IInv
BY InitInvariant, NextKeeps, PTL DEF Spec

\* Type correctness: the buffer keeps within its limit, and the goroutines to
\* what they can do.
THEOREM TypeCorrect == Spec => []TypeOK
<1>1. IInv => TypeOK
  BY DEF IInv
<1> QED BY <1>1, InductiveInvariant, PTL

\* A place of a payload, as HeldOnce counts them, is an entry of a container.
LEMMA PlacesAreEntries ==
  ASSUME TypeOK, NEW i \in Items
  PROVE  /\ \A p \in Places(i) : \E c \in Containers : \E n \in 1..Len(Content(c)) :
              p = <<c, n>> /\ Content(c)[n] = i
         /\ \A c \in Containers : \A n \in 1..Len(Content(c)) : Content(c)[n] = i => <<c, n>> \in Places(i)
<1>1. /\ DOMAIN buffer = 1..Len(buffer) /\ Content("buffer") = buffer /\ "buffer" \in Containers
      /\ \A f \in Flushers : /\ DOMAIN flushers[f].hand = 1..Len(flushers[f].hand)
                             /\ Content(f) = flushers[f].hand /\ f \in Containers
  BY DEF TypeOK, Content, Containers, Flushers
<1>2. \A p : p \in Places(i) <=>
        \/ \E n \in DOMAIN buffer : buffer[n] = i /\ p = <<"buffer", n>>
        \/ \E f \in Flushers : \E n \in DOMAIN flushers[f].hand :
             flushers[f].hand[n] = i /\ p = <<f, n>>
  <2> DEFINE inBuffer == {<<"buffer", n>> : n \in {n \in DOMAIN buffer : buffer[n] = i}}
             inHand(f) == {<<f, n>> : n \in {n \in DOMAIN flushers[f].hand : flushers[f].hand[n] = i}}
             inHands == {inHand(f) : f \in Flushers}
  <2>1. \A p : p \in inBuffer <=> \E n \in DOMAIN buffer : buffer[n] = i /\ p = <<"buffer", n>>
    OBVIOUS
  <2>2. \A p, f : p \in inHand(f) <=> \E n \in DOMAIN flushers[f].hand :
                                       flushers[f].hand[n] = i /\ p = <<f, n>>
    OBVIOUS
  <2>3. Places(i) = inBuffer \cup UNION inHands
    BY DEF Places
  <2> HIDE DEF inBuffer, inHand
  <2>4. \A p : p \in UNION inHands <=> \E f \in Flushers : p \in inHand(f)
    OBVIOUS
  <2> QED BY <2>1, <2>2, <2>3, <2>4, Zenon
<1>3. \A c \in Containers : c = "buffer" \/ c \in Flushers
  BY DEF Containers
<1> QED BY <1>1, <1>2, <1>3

\* No payload is lost between the lock sections, and none is sent twice.
THEOREM PayloadsHeldOnce == Spec => []HeldOnce
<1>1. ASSUME IInv, NEW i \in Items
      PROVE  Cardinality(Places(i)) = IF hooks[i] = "handled" /\ outcome[i] = "pending" THEN 1 ELSE 0
  <2>1. CASE Pending(i)
    <3>1. PICK c \in Containers : \E n \in 1..Len(Content(c)) : Content(c)[n] = i
      BY <1>1, <2>1 DEF IInv, Covered
    <3>2. PICK n \in 1..Len(Content(c)) : Content(c)[n] = i
      BY <3>1
    <3>3. Places(i) = {<<c, n>>}
      BY <1>1, <3>2, PlacesAreEntries DEF IInv, Once
    <3> QED BY <2>1, <3>3, FS_Singleton DEF Pending
  <2>2. CASE ~ Pending(i)
    <3>1. Places(i) = {}
      BY <1>1, <2>2, PlacesAreEntries DEF IInv, Waiting
    <3> QED BY <2>2, <3>1, FS_EmptySet DEF Pending
  <2> QED BY <2>1, <2>2
<1>2. IInv => HeldOnce
  BY <1>1 DEF HeldOnce
<1> QED BY <1>2, InductiveInvariant, PTL
-----------------------------------------------------------------------------
(* Induction *)

Below == {p \in Nat \X Nat : p[1] < p[2]}

LEMMA BelowIsWellFounded == IsWellFoundedOn(Below, Nat)
BY NatLessThanWellFounded, Zenon DEF OpToRel, Below

LEMMA Induction ==
  ASSUME NEW N \in Nat, NEW T, 0 \in T, \A k \in 0..N : k < N /\ k \in T => k + 1 \in T
  PROVE  0..N \subseteq T
<1> SUFFICES ASSUME 0..N \ T # {}
             PROVE  FALSE
  OBVIOUS
<1>1. PICK k \in 0..N \ T : \A j \in 0..N \ T : <<j, k>> \notin Below
  <2>1. 0..N \ T \subseteq Nat
    OBVIOUS
  <2> QED BY <2>1, BelowIsWellFounded, WFMin
<1>2. k # 0 /\ k - 1 \in 0..N
  OBVIOUS
<1>3. <<k - 1, k>> \in Below
  BY <1>2 DEF Below
<1>4. k - 1 \in T /\ k - 1 < N /\ (k - 1) + 1 = k
  BY <1>1, <1>2, <1>3
<1> QED BY <1>4, <1>2

-----------------------------------------------------------------------------
(* The rows in order *)

\* S is a set of rows of t with orders of their own.
Ordered(S, t) ==
  /\ IsFiniteSet(S)
  /\ \A n \in S : t[n].order \in Nat
  /\ \A m, n \in S : t[m].order = t[n].order => m = n

Ahead(S, t, n) == {m \in S : t[m].order < t[n].order}

\* q lists the rows of S, each after those with a lower order.
Sorted(q, S, t) ==
  /\ q \in Seq(S)
  /\ \A n \in S : \E i \in 1..Len(q) : q[i] = n
  /\ \A i, j \in 1..Len(q) : i < j => t[q[i]].order < t[q[j]].order

LEMMA PlacesInOrder ==
  ASSUME NEW S, NEW t, Ordered(S, t)
  PROVE  /\ Cardinality(S) \in Nat
         /\ \A n \in S : Cardinality(Ahead(S, t, n)) \in 0..(Cardinality(S) - 1)
         /\ \A m, n \in S : t[m].order < t[n].order =>
              Cardinality(Ahead(S, t, m)) < Cardinality(Ahead(S, t, n))
         /\ \A m, n \in S : Cardinality(Ahead(S, t, m)) = Cardinality(Ahead(S, t, n)) => m = n
<1>1. IsFiniteSet(S) /\ Cardinality(S) \in Nat
  BY FS_CardinalityType DEF Ordered
<1>2. \A n \in S : IsFiniteSet(Ahead(S, t, n)) /\ Cardinality(Ahead(S, t, n)) \in Nat
  BY <1>1, FS_Subset, FS_CardinalityType DEF Ahead
<1>3. ASSUME NEW n \in S
      PROVE  Cardinality(Ahead(S, t, n)) \in 0..(Cardinality(S) - 1)
  <2>1. Ahead(S, t, n) \in SUBSET S /\ Ahead(S, t, n) # S
    BY DEF Ahead, Ordered
  <2>2. Cardinality(Ahead(S, t, n)) <= Cardinality(S) /\ Cardinality(Ahead(S, t, n)) # Cardinality(S)
    BY <1>1, <2>1, FS_Subset
  <2> QED BY <1>1, <1>2, <2>2
<1>4. ASSUME NEW m \in S, NEW n \in S, t[m].order < t[n].order
      PROVE  Cardinality(Ahead(S, t, m)) < Cardinality(Ahead(S, t, n))
  <2>1. Ahead(S, t, m) \in SUBSET Ahead(S, t, n) /\ m \in Ahead(S, t, n) /\ m \notin Ahead(S, t, m)
    BY <1>4 DEF Ahead, Ordered
  <2>2. /\ Cardinality(Ahead(S, t, m)) <= Cardinality(Ahead(S, t, n))
        /\ Cardinality(Ahead(S, t, m)) # Cardinality(Ahead(S, t, n))
    BY <1>2, <2>1, FS_Subset
  <2> QED BY <1>2, <2>2
<1>5. ASSUME NEW m \in S, NEW n \in S, Cardinality(Ahead(S, t, m)) = Cardinality(Ahead(S, t, n))
      PROVE  m = n
  <2>1. ~ (t[m].order < t[n].order) /\ ~ (t[n].order < t[m].order)
    BY <1>2, <1>4, <1>5
  <2> QED BY <2>1 DEF Ordered
<1> QED BY <1>1, <1>3, <1>4, <1>5

LEMMA InOrderSorts ==
  ASSUME NEW S, NEW t, Ordered(S, t)
  PROVE  /\ Sorted(InOrder(S, t), S, t)
         /\ Len(InOrder(S, t)) = Cardinality(S)
         /\ \A i \in 1..Cardinality(S) : Cardinality(Ahead(S, t, InOrder(S, t)[i])) = i - 1
<1> DEFINE N == Cardinality(S)
           q == InOrder(S, t)
           place == [n \in S |-> Cardinality(Ahead(S, t, n)) + 1]
<1>1. N \in Nat /\ IsFiniteSet(S)
  BY PlacesInOrder DEF Ordered
<1>2. place \in Injection(S, 1..N)
  <2>1. \A n \in S : Cardinality(Ahead(S, t, n)) + 1 \in 1..N
    BY PlacesInOrder, <1>1
  <2>2. \A m, n \in S : Cardinality(Ahead(S, t, m)) + 1 = Cardinality(Ahead(S, t, n)) + 1 => m = n
    BY PlacesInOrder, <1>1
  <2> QED BY <2>1, <2>2 DEF Injection, IsInjective
<1>3. \A i \in 1..N : \E n \in S : Cardinality(Ahead(S, t, n)) = i - 1
  <2>1. IsFiniteSet(1..N) /\ Cardinality(1..N) = N
    BY <1>1, FS_Interval
  <2>2. place \in Surjection(S, 1..N)
    <3> HIDE DEF place, N
    <3> QED BY <1>1, <1>2, <2>1, FS_Injection DEF N
  <2>3. ASSUME NEW i \in 1..N
        PROVE  \E n \in S : Cardinality(Ahead(S, t, n)) = i - 1
    <3>1. PICK n \in S : place[n] = i
      BY <2>2 DEF Surjection
    <3>2. Cardinality(Ahead(S, t, n)) + 1 = i /\ Cardinality(Ahead(S, t, n)) \in Int
      BY <3>1, PlacesInOrder
    <3> QED BY <3>2, <1>1
  <2> QED BY <2>3
<1>4. \A i \in 1..N : q[i] \in S /\ Cardinality(Ahead(S, t, q[i])) = i - 1
  <2> TAKE i \in 1..N
  <2>1. q[i] = CHOOSE n \in S : Cardinality(Ahead(S, t, n)) = i - 1
    BY Zenon DEF InOrder, Ahead
  <2> HIDE DEF q
  <2> QED BY <1>3, <2>1, Zenon
<1>5. q \in Seq(S) /\ Len(q) = N
  <2> DEFINE at(i) == CHOOSE n \in S : Cardinality(Ahead(S, t, n)) = i - 1
  <2>1. q = [i \in 1..N |-> at(i)]
    BY Zenon DEF InOrder, Ahead
  <2>2. \A i \in 1..N : at(i) \in S
    <3> HIDE DEF N
    <3> QED BY <1>3, Zenon
  <2> HIDE DEF q, N, at
  <2> QED BY <1>1, <2>1, <2>2
<1> HIDE DEF q, N
<1>6. ASSUME NEW n \in S
      PROVE  \E i \in 1..Len(q) : q[i] = n
  <2>1. Cardinality(Ahead(S, t, n)) + 1 \in 1..N
    BY PlacesInOrder, <1>1 DEF N
  <2>2. q[Cardinality(Ahead(S, t, n)) + 1] = n
    <3>1. /\ q[Cardinality(Ahead(S, t, n)) + 1] \in S
          /\ Cardinality(Ahead(S, t, q[Cardinality(Ahead(S, t, n)) + 1])) =
               (Cardinality(Ahead(S, t, n)) + 1) - 1
      BY <1>4, <2>1
    <3>2. (Cardinality(Ahead(S, t, n)) + 1) - 1 = Cardinality(Ahead(S, t, n))
      BY PlacesInOrder
    <3> QED BY <3>1, <3>2, PlacesInOrder
  <2> QED BY <1>5, <2>1, <2>2
<1>7. ASSUME NEW i \in 1..N, NEW j \in 1..N, i < j
      PROVE  t[q[i]].order < t[q[j]].order
  <2>1. Cardinality(Ahead(S, t, q[i])) < Cardinality(Ahead(S, t, q[j])) /\ q[i] \in S /\ q[j] \in S
    BY <1>1, <1>4, <1>7
  <2>2. ~ (t[q[j]].order < t[q[i]].order) /\ q[i] # q[j]
    BY <2>1, PlacesInOrder
  <2> QED BY <2>1, <2>2 DEF Ordered
<1> QED BY <1>4, <1>5, <1>6, <1>7 DEF Sorted, q, N

\* There is one way to list them in order.
LEMMA SortedIsInOrder ==
  ASSUME NEW S, NEW t, Ordered(S, t), NEW q, Sorted(q, S, t)
  PROVE  q = InOrder(S, t)
<1> DEFINE N == Len(q)
<1>1. N \in Nat /\ q \in [1..N -> S] /\ DOMAIN q = 1..N
  BY DEF Sorted
<1>2. \A i, j \in 1..N : i < j <=> t[q[i]].order < t[q[j]].order
  <2> TAKE i, j \in 1..N
  <2>1. q[i] \in S /\ q[j] \in S /\ t[q[i]].order \in Nat /\ t[q[j]].order \in Nat
    BY <1>1 DEF Ordered
  <2>2. i < j => t[q[i]].order < t[q[j]].order
    BY DEF Sorted
  <2>3. j < i => t[q[j]].order < t[q[i]].order
    BY DEF Sorted
  <2> QED BY <1>1, <2>1, <2>2, <2>3
<1>3. \A i, j \in 1..N : q[i] = q[j] => i = j
  <2> TAKE i, j \in 1..N
  <2>1. t[q[i]].order \in Nat
    BY <1>1 DEF Ordered
  <2> QED BY <1>1, <1>2, <2>1
<1> HIDE DEF N
<1>4. ASSUME NEW i \in 1..N
      PROVE  Cardinality(Ahead(S, t, q[i])) = i - 1
  <2> DEFINE f == [j \in 1..(i - 1) |-> q[j]]
             A == Ahead(S, t, q[i])
  <2>1. \A j \in 1..(i - 1) : j \in 1..N /\ j < i
    BY <1>1
  <2>2. f \in [1..(i - 1) -> A]
    BY <1>1, <1>2, <2>1 DEF Ahead
  <2>3. \A a \in A : \E j \in 1..(i - 1) : f[j] = a
    <3> TAKE a \in A
    <3>1. a \in S /\ t[a].order < t[q[i]].order
      BY DEF Ahead
    <3>2. PICK j \in 1..N : q[j] = a
      BY <3>1 DEF Sorted, N
    <3>3. j < i
      BY <1>2, <3>1, <3>2
    <3>4. j \in 1..(i - 1)
      BY <1>1, <3>3
    <3> QED BY <3>2, <3>4
  <2>4. f \in Injection(1..(i - 1), A) /\ f \in Surjection(1..(i - 1), A)
    <3>1. \A j, k \in 1..(i - 1) : f[j] = f[k] => j = k
      BY <1>3, <2>1
    <3> HIDE DEF f, A
    <3> QED BY <2>2, <2>3, <3>1 DEF Injection, IsInjective, Surjection
  <2>5. IsFiniteSet(1..(i - 1)) /\ Cardinality(1..(i - 1)) = i - 1
    <3>1. 1 \in Int /\ i - 1 \in Int /\ i - 1 \in Nat
      BY <1>1
    <3>2. Cardinality(1..(i - 1)) = IF 1 > i - 1 THEN 0 ELSE (i - 1) - 1 + 1
      BY <3>1, FS_Interval
    <3> QED BY <3>1, <3>2, FS_Interval
  <2> HIDE DEF f, A
  <2>6. Cardinality(A) = Cardinality(1..(i - 1))
    BY <2>4, <2>5, FS_Surjection
  <2> QED BY <2>5, <2>6 DEF A
<1>5. N = Cardinality(S)
  <2>1. q \in Injection(1..N, S) /\ q \in Surjection(1..N, S)
    BY <1>1, <1>3 DEF Sorted, Injection, IsInjective, Surjection, N
  <2>2. IsFiniteSet(1..N) /\ Cardinality(1..N) = N
    BY <1>1, FS_Interval
  <2> QED BY <2>1, <2>2, FS_Surjection
<1>6. \A i \in 1..N : q[i] = InOrder(S, t)[i]
  <2> TAKE i \in 1..N
  <2>1. InOrder(S, t)[i] \in S /\ Cardinality(Ahead(S, t, InOrder(S, t)[i])) = i - 1
    <3>1. InOrder(S, t) \in Seq(S) /\ Len(InOrder(S, t)) = N
      BY <1>5, InOrderSorts DEF Sorted
    <3>2. Cardinality(Ahead(S, t, InOrder(S, t)[i])) = i - 1
      BY <1>5, InOrderSorts
    <3> QED BY <1>1, <3>1, <3>2
  <2>2. q[i] \in S /\ Cardinality(Ahead(S, t, q[i])) = i - 1
    BY <1>1, <1>4
  <2> QED BY <2>1, <2>2, PlacesInOrder
<1>7. InOrder(S, t) \in Seq(S) /\ Len(InOrder(S, t)) = N
  BY <1>5, InOrderSorts DEF Sorted
<1>8. q \in Seq(S) /\ Len(q) = N
  BY DEF Sorted, N
<1> QED BY <1>6, <1>7, <1>8

\* Row x of u has a higher order than the rows of S, which have those of t.
Latest(x, S, t, u) ==
  /\ x \notin S /\ u[x].order \in Nat
  /\ \A n \in S : u[n].order = t[n].order /\ t[n].order < u[x].order

ComesLast(x, S, t, u) ==
  /\ Ordered(S \cup {x}, u)
  /\ InOrder(S \cup {x}, u) = Append(InOrder(S, t), x)

LEMMA LastInOrder ==
  ASSUME NEW S, NEW t, Ordered(S, t), NEW u, NEW x, Latest(x, S, t, u)
  PROVE  ComesLast(x, S, t, u)
<1> DEFINE q == InOrder(S, t)
           N == Len(q)
           r == Append(q, x)
<1> USE DEF Latest
<1>1. /\ q \in Seq(S) /\ N \in Nat
      /\ \A n \in S : \E i \in 1..N : q[i] = n
      /\ \A i, j \in 1..N : i < j => t[q[i]].order < t[q[j]].order
  BY InOrderSorts DEF Sorted
<1>2. Ordered(S \cup {x}, u)
  <2>1. IsFiniteSet(S \cup {x})
    BY FS_AddElement DEF Ordered
  <2>2. \A n \in S : t[n].order \in Nat /\ t[n].order # u[x].order
    BY DEF Ordered
  <2> QED BY <2>1, <2>2 DEF Ordered
<1> HIDE DEF q
<1>3. /\ r \in Seq(S \cup {x}) /\ Len(r) = N + 1 /\ r[N + 1] = x
      /\ \A i \in 1..N : r[i] = q[i] /\ q[i] \in S
  <2>1. q \in Seq(S \cup {x})
    BY <1>1
  <2> QED BY <1>1, <2>1
<1> HIDE DEF r, N
<1>4. Sorted(r, S \cup {x}, u)
  <2>1. \A n \in S \cup {x} : \E i \in 1..Len(r) : r[i] = n
    <3> TAKE n \in S \cup {x}
    <3>1. CASE n = x
      <4>1. N + 1 \in 1..Len(r)
        BY <1>1, <1>3
      <4> QED BY <1>3, <3>1, <4>1
    <3>2. CASE n \in S
      <4>1. PICK i \in 1..N : q[i] = n
        BY <1>1, <3>2
      <4>2. i \in 1..Len(r)
        BY <1>1, <1>3
      <4> QED BY <1>3, <4>1, <4>2
    <3> QED BY <3>1, <3>2
  <2>2. ASSUME NEW i \in 1..Len(r), NEW j \in 1..Len(r), i < j
        PROVE  u[r[i]].order < u[r[j]].order
    <3>1. i \in 1..N /\ (j \in 1..N \/ j = N + 1)
      BY <1>1, <1>3, <2>2
    <3>2. r[i] = q[i] /\ q[i] \in S /\ u[q[i]].order = t[q[i]].order
      BY <1>3, <3>1
    <3>3. CASE j = N + 1
      BY <1>3, <3>2, <3>3
    <3>4. CASE j \in 1..N
      <4>1. r[j] = q[j] /\ q[j] \in S /\ u[q[j]].order = t[q[j]].order
        BY <1>3, <3>4
      <4>2. t[q[i]].order < t[q[j]].order
        BY <1>1, <2>2, <3>1, <3>4
      <4> QED BY <3>2, <4>1, <4>2
    <3> QED BY <3>1, <3>3, <3>4
  <2> QED BY <1>3, <2>1, <2>2 DEF Sorted
<1> QED BY <1>2, <1>4, SortedIsInOrder DEF r, q, ComesLast

LEMMA Behind ==
  ASSUME NEW S, NEW q \in Seq(S), NEW k \in 0..Len(q)
  PROVE  /\ SubSeq(q, k + 1, Len(q)) \in Seq(S)
         /\ Len(SubSeq(q, k + 1, Len(q))) = Len(q) - k
         /\ \A i \in 1..(Len(q) - k) :
              SubSeq(q, k + 1, Len(q))[i] = q[k + i] /\ k + i \in 1..Len(q) /\ k + i > k
         /\ SubSeq(q, 1, k) \o SubSeq(q, k + 1, Len(q)) = q
<1> DEFINE N == Len(q)
<1>1. N \in Nat /\ k \in Int /\ k + 1 \in Int /\ k \in 0..N
  OBVIOUS
<1>2. \A i \in (k + 1)..N : q[i] \in S
  OBVIOUS
<1> HIDE DEF N
<1>3. /\ SubSeq(q, k + 1, N) \in Seq(S)
      /\ Len(SubSeq(q, k + 1, N)) = IF k + 1 <= N THEN N - (k + 1) + 1 ELSE 0
      /\ \A i \in 1..(N - (k + 1) + 1) : SubSeq(q, k + 1, N)[i] = q[(k + 1) + i - 1]
  BY <1>1, <1>2, SubSeqProperties
<1>4. Len(SubSeq(q, k + 1, N)) = N - k
  BY <1>1, <1>3
<1>5. ASSUME NEW i \in 1..(N - k)
      PROVE  SubSeq(q, k + 1, N)[i] = q[k + i] /\ k + i \in 1..N /\ k + i > k
  <2>1. i \in 1..(N - (k + 1) + 1) /\ (k + 1) + i - 1 = k + i
    BY <1>1
  <2>2. k + i \in 1..N /\ k + i > k
    BY <1>1
  <2> QED BY <1>3, <2>1, <2>2
<1>6. SubSeq(q, 1, k) \o SubSeq(q, k + 1, N) = SubSeq(q, 1, N)
  <2>1. 1 \in 1..(Len(q) + 1) /\ k \in (1 - 1)..Len(q) /\ N \in k..Len(q)
    BY <1>1 DEF N
  <2> QED BY <2>1, ConcatAdjacentSubSeq
<1>7. SubSeq(q, 1, N) = q
  BY SubSeqFull DEF N
<1> QED BY <1>3, <1>4, <1>5, <1>6, <1>7 DEF N

\* The rows behind the k-th, which are those with a higher order, complete the list.
LEMMA RestInOrder ==
  ASSUME NEW S, NEW t, Ordered(S, t), NEW k \in 0..Len(InOrder(S, t)), NEW c \in Nat,
         IF k = 0 THEN \A n \in S : t[n].order > c ELSE c = t[InOrder(S, t)[k]].order
  PROVE  SubSeq(InOrder(S, t), 1, k) \o InOrder({n \in S : t[n].order > c}, t) = InOrder(S, t)
<1> DEFINE q == InOrder(S, t)
           N == Len(q)
           R == {n \in S : t[n].order > c}
           r == SubSeq(q, k + 1, N)
<1>1. /\ q \in Seq(S) /\ N \in Nat /\ k \in 0..N
      /\ \A n \in S : t[n].order \in Nat /\ \E i \in 1..N : q[i] = n
      /\ \A i, j \in 1..N : i < j => t[q[i]].order < t[q[j]].order
  BY InOrderSorts DEF Sorted, Ordered
<1>2. Ordered(R, t)
  <2>1. IsFiniteSet(R)
    BY FS_Subset DEF Ordered
  <2> QED BY <2>1 DEF Ordered
<1>3. IF k = 0 THEN \A n \in S : t[n].order > c ELSE c = t[q[k]].order
  OBVIOUS
<1> HIDE DEF q
<1>4. \A i \in 1..N : q[i] \in S /\ (q[i] \in R <=> i > k)
  <2> TAKE i \in 1..N
  <2>1. q[i] \in S /\ t[q[i]].order \in Nat
    BY SMTT(20), <1>1
  <2>2. CASE k = 0
    BY <1>3, <2>1, <2>2
  <2>3. CASE k # 0
    <3>1. k \in 1..N /\ c = t[q[k]].order
      BY <1>1, <1>3, <2>3
    <3>2. i < k => t[q[i]].order < c
      BY <1>1, <3>1
    <3>3. k < i => c < t[q[i]].order
      BY <1>1, <3>1
    <3>4. i = k => t[q[i]].order = c
      BY <3>1
    <3>5. i < k \/ i = k \/ k < i
      BY <3>1
    <3> QED BY <2>1, <3>1, <3>2, <3>3, <3>4, <3>5
  <2> QED BY <2>2, <2>3
<1>5. /\ r \in Seq(S) /\ Len(r) = N - k
      /\ \A i \in 1..Len(r) : r[i] = q[k + i] /\ k + i \in 1..N /\ k + i > k
  <2>1. k \in 0..Len(q)
    BY <1>1
  <2> HIDE DEF r
  <2>2. r \in Seq(S) /\ Len(r) = N - k
    BY <1>1, <2>1, Behind DEF r
  <2>3. \A i \in 1..(N - k) : r[i] = q[k + i] /\ k + i \in 1..N /\ k + i > k
    BY <1>1, <2>1, Behind DEF r
  <2> QED BY <2>2, <2>3
<1> HIDE DEF r
<1>6. Sorted(r, R, t)
  <2>1. r \in Seq(R)
    <3>1. ASSUME NEW i \in 1..Len(r)
          PROVE  r[i] \in R
      <4> HIDE DEF R
      <4> QED BY <1>4, <1>5
    <3> HIDE DEF R
    <3> QED BY <1>5, <3>1
  <2>2. ASSUME NEW n \in R
        PROVE  \E i \in 1..Len(r) : r[i] = n
    <3>1. PICK i \in 1..N : q[i] = n
      BY <1>1
    <3>2. i > k
      BY <1>4, <3>1
    <3>3. i - k \in 1..Len(r) /\ k + (i - k) = i
      BY <1>1, <1>5, <3>2
    <3> QED BY <1>5, <3>1, <3>3
  <2>3. ASSUME NEW i \in 1..Len(r), NEW j \in 1..Len(r), i < j
        PROVE  t[r[i]].order < t[r[j]].order
    <3>1. r[i] = q[k + i] /\ k + i \in 1..N /\ r[j] = q[k + j] /\ k + j \in 1..N /\ k + i < k + j
      <4> HIDE DEF R, N
      <4>1. i \in Int /\ j \in Int /\ k \in Int /\ k + i < k + j
        BY <1>1, <2>3
      <4> QED BY <1>5, <4>1
    <3> QED BY <1>1, <3>1
  <2> HIDE DEF R
  <2> QED BY <2>1, <2>2, <2>3 DEF Sorted
<1>7. r = InOrder(R, t)
  <2> HIDE DEF R
  <2> QED BY <1>2, <1>6, SortedIsInOrder
<1>8. SubSeq(q, 1, k) \o r = q
  BY <1>1, Behind DEF r, N
<1> QED BY <1>7, <1>8 DEF q
-----------------------------------------------------------------------------
(* Numbers *)

\* The highest order of the session, 0 when there is none.
IsMax(o, t, s) ==
  /\ o \in Nat
  /\ \A n \in Of(t, s) : t[n].order <= o
  /\ o = 0 \/ \E n \in Of(t, s) : t[n].order = o

LEMMA Rows ==
  ASSUME NEW t \in Seq(Message)
  PROVE  /\ Len(t) \in Nat /\ DOMAIN t = 1..Len(t)
         /\ \A n \in 1..Len(t) : t[n] \in Message /\ t[n].order \in Nat /\ t[n].session \in Sessions
         /\ \A s : Of(t, s) = {n \in 1..Len(t) : t[n].session = s}
         /\ \A s : IsFiniteSet(Of(t, s))
<1>1. Len(t) \in Nat /\ DOMAIN t = 1..Len(t) /\ \A n \in 1..Len(t) : t[n] \in Message
  OBVIOUS
<1>2. \A n \in 1..Len(t) : t[n].order \in Nat /\ t[n].session \in Sessions
  BY <1>1 DEF Message
<1>3. \A s : Of(t, s) = {n \in 1..Len(t) : t[n].session = s}
  BY <1>1 DEF Of
<1>4. IsFiniteSet(1..Len(t))
  BY <1>1, FS_Interval
<1>5. ASSUME NEW s
      PROVE  IsFiniteSet(Of(t, s))
  <2>1. Of(t, s) \in SUBSET (1..Len(t))
    BY <1>3
  <2> QED BY <1>4, <2>1, FS_Subset
<1> QED BY <1>1, <1>2, <1>3, <1>5

LEMMA MaxExists ==
  ASSUME NEW t \in Seq(Message), NEW s
  PROVE  \E o : IsMax(o, t, s)
<1> DEFINE upTo(k) == {n \in Of(t, s) : n <= k}
           Highest(o, k) == /\ o \in Nat
                            /\ \A n \in upTo(k) : t[n].order <= o
                            /\ o = 0 \/ \E n \in upTo(k) : t[n].order = o
           T == {k \in 0..Len(t) : \E o : Highest(o, k)}
<1>1. /\ Len(t) \in Nat
      /\ \A n \in Of(t, s) : n \in 1..Len(t) /\ t[n].order \in Nat
  BY Rows
<1>2. 0 \in T
  <2>1. upTo(0) = {}
    BY <1>1
  <2>2. Highest(0, 0)
    BY <2>1
  <2> QED BY <1>1, <2>2
<1>3. ASSUME NEW k \in 0..Len(t), k < Len(t), k \in T
      PROVE  k + 1 \in T
  <2>1. PICK o : Highest(o, k)
    BY <1>3
  <2>2. k + 1 \in 0..Len(t)
    BY <1>1, <1>3
  <2>3. \A n \in upTo(k + 1) : n \in upTo(k) \/ (n = k + 1 /\ n \in Of(t, s))
    BY <1>1
  <2>4. \A n \in upTo(k) : n \in upTo(k + 1)
    BY <1>1
  <2>5. CASE k + 1 \in Of(t, s) /\ t[k + 1].order > o
    <3>1. k + 1 \in upTo(k + 1) /\ t[k + 1].order \in Nat
      BY <1>1, <2>2, <2>5
    <3>2. \A n \in upTo(k + 1) : t[n].order <= t[k + 1].order
      BY <1>1, <2>1, <2>3, <2>5, <3>1
    <3>3. Highest(t[k + 1].order, k + 1)
      BY <3>1, <3>2
    <3> HIDE DEF Highest
    <3> QED BY <2>2, <3>3
  <2>6. CASE ~ (k + 1 \in Of(t, s) /\ t[k + 1].order > o)
    <3>1. \A n \in upTo(k + 1) : t[n].order <= o
      BY <1>1, <2>1, <2>3, <2>6
    <3>2. Highest(o, k + 1)
      BY <2>1, <2>4, <3>1
    <3> HIDE DEF Highest
    <3> QED BY <2>2, <3>2
  <2> QED BY <2>5, <2>6
<1>4. Len(t) \in T
  <2>1. \A k \in 0..Len(t) : k < Len(t) /\ k \in T => k + 1 \in T
    BY <1>3
  <2> HIDE DEF T
  <2>2. 0..Len(t) \subseteq T
    BY <1>1, <1>2, <2>1, Induction
  <2> QED BY <1>1, <2>2
<1>5. PICK o : Highest(o, Len(t))
  BY <1>4
<1>6. upTo(Len(t)) = Of(t, s)
  BY <1>1
<1> QED BY <1>5, <1>6 DEF IsMax

LEMMA MaxOrderIs ==
  ASSUME NEW t \in Seq(Message), NEW s, NEW o, IsMax(o, t, s)
  PROVE  MaxOrder(t, s) = o
<1> DEFINE orders == {t[n].order : n \in Of(t, s)} \cup {0}
           c == CHOOSE x \in orders : \A p \in orders : p <= x
<1>1. MaxOrder(t, s) = c
  BY Zenon DEF MaxOrder
<1>2. orders \subseteq Nat
  BY Rows
<1>3. o \in orders /\ \A p \in orders : p <= o
  BY DEF IsMax
<1>4. c \in orders /\ \A p \in orders : p <= c
  <2> HIDE DEF orders
  <2> QED BY <1>3
<1> HIDE DEF c, orders
<1>5. c <= o /\ o <= c /\ c \in Nat /\ o \in Nat
  BY <1>2, <1>3, <1>4
<1> QED BY <1>1, <1>5

LEMMA MaxOrderBounds ==
  ASSUME NEW t \in Seq(Message), NEW s
  PROVE  IsMax(MaxOrder(t, s), t, s)
BY MaxExists, MaxOrderIs

\* The rows that the backfill numbers no later than row k.
Early(t, s, k) == {m \in Of(t, s) : t[m].order = 0 /\ m <= k}

LEMMA EarlyCounts ==
  ASSUME NEW t \in Seq(Message), NEW s
  PROVE  /\ Cardinality(Early(t, s, 0)) = 0
         /\ \A k \in Nat :
              /\ Cardinality(Early(t, s, k)) \in Nat
              /\ IF k + 1 \in Of(t, s) /\ t[k + 1].order = 0
                   THEN Cardinality(Early(t, s, k + 1)) = Cardinality(Early(t, s, k)) + 1
                   ELSE Cardinality(Early(t, s, k + 1)) = Cardinality(Early(t, s, k))
         /\ \A m, n \in Of(t, s) :
              t[n].order = 0 /\ m < n => Cardinality(Early(t, s, m)) < Cardinality(Early(t, s, n))
         /\ \A n \in Of(t, s) : t[n].order = 0 => Cardinality(Early(t, s, n)) > 0
<1>1. \A n \in Of(t, s) : n \in Nat /\ n # 0
  BY Rows
<1>2. ASSUME NEW k \in Nat
      PROVE  IsFiniteSet(Early(t, s, k)) /\ Cardinality(Early(t, s, k)) \in Nat
  <2>1. Early(t, s, k) \in SUBSET Of(t, s)
    BY DEF Early
  <2> QED BY <2>1, Rows, FS_Subset, FS_CardinalityType
<1>3. Cardinality(Early(t, s, 0)) = 0
  <2>1. Early(t, s, 0) = {}
    BY <1>1 DEF Early
  <2> QED BY <2>1, FS_EmptySet
<1>4. ASSUME NEW k \in Nat
      PROVE  IF k + 1 \in Of(t, s) /\ t[k + 1].order = 0
               THEN Cardinality(Early(t, s, k + 1)) = Cardinality(Early(t, s, k)) + 1
               ELSE Cardinality(Early(t, s, k + 1)) = Cardinality(Early(t, s, k))
  <2>1. CASE k + 1 \in Of(t, s) /\ t[k + 1].order = 0
    <3>1. Early(t, s, k + 1) = Early(t, s, k) \cup {k + 1} /\ k + 1 \notin Early(t, s, k)
      BY <1>1, <2>1 DEF Early
    <3> QED BY <1>2, <2>1, <3>1, FS_AddElement
  <2>2. CASE ~ (k + 1 \in Of(t, s) /\ t[k + 1].order = 0)
    <3>1. Early(t, s, k + 1) = Early(t, s, k)
      BY <1>1, <2>2 DEF Early
    <3> QED BY <2>2, <3>1
  <2> QED BY <2>1, <2>2
<1>5. ASSUME NEW A \in SUBSET Of(t, s), NEW n \in Of(t, s), A \subseteq Early(t, s, n),
             n \in Early(t, s, n), n \notin A
      PROVE  Cardinality(A) < Cardinality(Early(t, s, n))
  <2>1. Cardinality(A) <= Cardinality(Early(t, s, n)) /\ Cardinality(A) # Cardinality(Early(t, s, n))
    BY <1>1, <1>2, <1>5, FS_Subset
  <2>2. Cardinality(A) \in Nat
    BY Rows, FS_Subset, FS_CardinalityType
  <2> QED BY <1>1, <1>2, <2>1, <2>2
<1>6. ASSUME NEW m \in Of(t, s), NEW n \in Of(t, s), t[n].order = 0, m < n
      PROVE  Cardinality(Early(t, s, m)) < Cardinality(Early(t, s, n))
  BY <1>1, <1>5, <1>6 DEF Early
<1>7. ASSUME NEW n \in Of(t, s), t[n].order = 0
      PROVE  Cardinality(Early(t, s, n)) > 0
  <2>1. n \in Early(t, s, n)
    BY <1>1, <1>7 DEF Early
  <2>2. Cardinality({}) < Cardinality(Early(t, s, n))
    BY <1>5, <2>1
  <2> QED BY <1>1, <1>2, <2>2, FS_EmptySet
<1> QED BY <1>2, <1>3, <1>4, <1>6, <1>7

LEMMA NumberIs ==
  ASSUME NEW t, NEW n
  PROVE  Number(t, n) = Cardinality(Early(t, t[n].session, n)) + MaxOrder(t, t[n].session)
BY Zenon DEF Number, Early

\* The table when the backfill has been through row k.
Partly(t, k) ==
  [n \in DOMAIN t |->
     IF n <= k /\ t[n].order = 0 THEN [t[n] EXCEPT !.order = Number(t, n)] ELSE t[n]]

LEMMA PartlyIs ==
  ASSUME NEW t \in Seq(Message), NEW k \in 0..Len(t)
  PROVE  /\ Partly(t, k) \in Seq(Message) /\ Len(Partly(t, k)) = Len(t)
         /\ \A s : Of(Partly(t, k), s) = Of(t, s)
         /\ \A n \in 1..Len(t) :
              /\ Number(t, n) \in Nat
              /\ t[n].order = 0 => Number(t, n) > 0
              /\ Partly(t, k)[n].session = t[n].session
              /\ Partly(t, k)[n].order = IF n <= k /\ t[n].order = 0 THEN Number(t, n) ELSE t[n].order
<1> DEFINE u == Partly(t, k)
<1>1. /\ Len(t) \in Nat /\ DOMAIN t = 1..Len(t)
      /\ \A n \in 1..Len(t) : t[n] \in Message /\ n \in Of(t, t[n].session) /\ n \in Nat
  BY Rows
<1>2. \A n \in 1..Len(t) : Number(t, n) \in Nat /\ (t[n].order = 0 => Number(t, n) > 0)
  <2> TAKE n \in 1..Len(t)
  <2>1. MaxOrder(t, t[n].session) \in Nat
    BY MaxOrderBounds DEF IsMax
  <2>2. Cardinality(Early(t, t[n].session, n)) \in Nat
    BY <1>1, EarlyCounts
  <2>3. t[n].order = 0 => Cardinality(Early(t, t[n].session, n)) > 0
    BY <1>1, EarlyCounts
  <2> QED BY <2>1, <2>2, <2>3, NumberIs
<1>3. \A n \in 1..Len(t) :
        u[n] = IF n <= k /\ t[n].order = 0 THEN [t[n] EXCEPT !.order = Number(t, n)] ELSE t[n]
  BY <1>1, Zenon DEF Partly
<1>4. \A n \in 1..Len(t) :
        /\ u[n] \in Message
        /\ u[n].session = t[n].session
        /\ u[n].order = IF n <= k /\ t[n].order = 0 THEN Number(t, n) ELSE t[n].order
  <2> TAKE n \in 1..Len(t)
  <2> HIDE DEF u
  <2>1. CASE n <= k /\ t[n].order = 0
    <3>1. u[n] = [t[n] EXCEPT !.order = Number(t, n)]
      BY <1>3, <2>1
    <3> QED BY <1>1, <1>2, <2>1, <3>1 DEF Message
  <2>2. CASE ~ (n <= k /\ t[n].order = 0)
    <3>1. u[n] = t[n]
      BY <1>3, <2>2
    <3> QED BY <1>1, <2>2, <3>1
  <2> QED BY <2>1, <2>2
<1>5. DOMAIN u = 1..Len(t) /\ u = [n \in 1..Len(t) |-> u[n]]
  BY <1>1, Zenon DEF Partly
<1> HIDE DEF u
<1>6. u \in Seq(Message) /\ Len(u) = Len(t)
  BY <1>1, <1>4, <1>5
<1>7. \A s : Of(u, s) = Of(t, s)
  BY <1>1, <1>4, <1>5 DEF Of
<1> QED BY <1>2, <1>4, <1>6, <1>7 DEF u

LEMMA PartlyMax ==
  ASSUME NEW t \in Seq(Message), NEW k \in 0..Len(t), NEW s
  PROVE  MaxOrder(Partly(t, k), s) = MaxOrder(t, s) + Cardinality(Early(t, s, k))
<1> DEFINE M == MaxOrder(t, s)
           C(j) == Cardinality(Early(t, s, j))
           T == {j \in 0..Len(t) : IsMax(M + C(j), Partly(t, j), s)}
<1>1. /\ Len(t) \in Nat
      /\ \A n \in Of(t, s) : n \in 1..Len(t) /\ n \in Nat /\ t[n].order \in Nat /\ t[n].session = s
  BY Rows
<1>2. IsMax(M, t, s)
  BY MaxOrderBounds
<1>3. /\ C(0) = 0
      /\ \A j \in Nat : C(j) \in Nat /\ C(j + 1) = IF j + 1 \in Of(t, s) /\ t[j + 1].order = 0
                                                     THEN C(j) + 1 ELSE C(j)
  BY EarlyCounts
<1>4. \A n \in Of(t, s) : Number(t, n) = M + C(n)
  <2> TAKE n \in Of(t, s)
  <2>1. Number(t, n) = C(n) + M
    BY <1>1, NumberIs
  <2>2. C(n) \in Nat /\ M \in Nat
    BY <1>1, <1>2, <1>3 DEF IsMax
  <2> HIDE DEF C, M
  <2> QED BY <2>1, <2>2
<1>5. \A j \in 0..Len(t) : Of(Partly(t, j), s) = Of(t, s)
  BY PartlyIs
<1>6. \A j \in 0..Len(t) : \A n \in Of(t, s) :
        Partly(t, j)[n].order = IF n <= j /\ t[n].order = 0 THEN M + C(n) ELSE t[n].order
  BY <1>1, <1>4, PartlyIs
<1>7. M \in Nat
  BY <1>2 DEF IsMax
<1> HIDE DEF C, M
<1>8. 0 \in T
  <2>1. \A n \in Of(t, s) : Partly(t, 0)[n].order = t[n].order
    BY <1>1, <1>6
  <2>2. M + C(0) = M
    BY <1>3, <1>7
  <2>3. IsMax(M, Partly(t, 0), s)
    BY <1>1, <1>2, <1>5, <2>1 DEF IsMax
  <2> QED BY <1>1, <2>2, <2>3
<1>9. ASSUME NEW j \in 0..Len(t), j < Len(t), j \in T
      PROVE  j + 1 \in T
  <2>1. j + 1 \in 0..Len(t) /\ j \in Nat /\ C(j) \in Nat
    BY <1>1, <1>3, <1>9
  <2>2. IsMax(M + C(j), Partly(t, j), s)
    BY <1>9
  <2>3. \A n \in Of(t, s) : n # j + 1 => Partly(t, j + 1)[n].order = Partly(t, j)[n].order
    BY <1>1, <1>6, <2>1
  <2>4. \A n \in Of(t, s) : Partly(t, j)[n].order <= M + C(j)
    BY <1>5, <2>2 DEF IsMax
  <2>5. CASE j + 1 \in Of(t, s) /\ t[j + 1].order = 0
    <3>1. C(j + 1) = C(j) + 1
      BY <1>3, <2>1, <2>5
    <3>2. Partly(t, j + 1)[j + 1].order = M + C(j + 1)
      BY <1>6, <2>1, <2>5
    <3>3. \A n \in Of(t, s) : Partly(t, j)[n].order \in Nat
      <4> TAKE n \in Of(t, s)
      <4>1. t[n].order \in Nat /\ C(n) \in Nat
        BY <1>1, <1>3
      <4>2. M + C(n) \in Nat
        BY <1>7, <4>1
      <4> QED BY <1>6, <4>1, <4>2
    <3>4. \A n \in Of(t, s) : Partly(t, j + 1)[n].order <= M + C(j + 1)
      BY <1>7, <2>1, <2>3, <2>4, <3>1, <3>2, <3>3
    <3>5. M + C(j + 1) \in Nat
      BY <1>7, <2>1, <3>1
    <3>6. IsMax(M + C(j + 1), Partly(t, j + 1), s)
      BY <1>5, <2>1, <2>5, <3>2, <3>4, <3>5 DEF IsMax
    <3> QED BY <2>1, <3>6
  <2>6. CASE ~ (j + 1 \in Of(t, s) /\ t[j + 1].order = 0)
    <3>1. C(j + 1) = C(j)
      BY <1>3, <2>1, <2>6
    <3>2. \A n \in Of(t, s) : Partly(t, j + 1)[n].order = Partly(t, j)[n].order
      BY <1>1, <1>6, <2>1, <2>6
    <3>3. IsMax(M + C(j + 1), Partly(t, j + 1), s)
      BY <1>5, <2>1, <2>2, <3>1, <3>2 DEF IsMax
    <3> QED BY <2>1, <3>3
  <2> QED BY <2>5, <2>6
<1>10. k \in T
  <2>1. \A j \in 0..Len(t) : j < Len(t) /\ j \in T => j + 1 \in T
    BY <1>9
  <2> HIDE DEF T
  <2>2. 0..Len(t) \subseteq T
    BY <1>1, <1>8, <2>1, Induction
  <2> QED BY <2>2
<1>11. IsMax(M + C(k), Partly(t, k), s)
  BY <1>10
<1>12. Partly(t, k) \in Seq(Message)
  BY PartlyIs
<1> QED BY <1>11, <1>12, MaxOrderIs DEF M, C

LEMMA AtOnceIsPartly ==
  ASSUME NEW t \in Seq(Message)
  PROVE  AtOnce(t) = Partly(t, Len(t))
<1>1. DOMAIN t = 1..Len(t) /\ \A n \in 1..Len(t) : n <= Len(t)
  BY Rows
<1> DEFINE new(n) == [t[n] EXCEPT !.order = Number(t, n)]
<1>2. AtOnce(t) = [n \in DOMAIN t |-> IF t[n].order = 0 THEN new(n) ELSE t[n]]
  BY Zenon DEF AtOnce
<1>3. Partly(t, Len(t)) = [n \in DOMAIN t |-> IF n <= Len(t) /\ t[n].order = 0 THEN new(n) ELSE t[n]]
  BY Zenon DEF Partly
<1> HIDE DEF new
<1> QED BY <1>1, <1>2, <1>3

\* What the update does to row n, and to the rows one after the other.
Updated(u, n) == IF u[n].order = 0 THEN [u EXCEPT ![n].order = Number(u, n)] ELSE u

Updates(f, t) == f = [n \in 0..Len(t) |-> IF n = 0 THEN t ELSE Updated(f[n - 1], n)]

LEMMA UpdatedIsPartly ==
  ASSUME NEW t \in Seq(Message), NEW k \in 1..Len(t)
  PROVE  Updated(Partly(t, k - 1), k) = Partly(t, k)
<1> DEFINE u == Partly(t, k - 1)
           s == t[k].session
<1>1. /\ Len(t) \in Nat /\ DOMAIN t = 1..Len(t) /\ k \in Of(t, s)
      /\ k \in Nat /\ k - 1 \in Nat /\ k - 1 \in 0..Len(t) /\ k \in 0..Len(t) /\ (k - 1) + 1 = k
      /\ \A n \in 1..Len(t) : n \in Nat /\ t[n] \in Message
  BY Rows
<1>2. /\ u \in Seq(Message) /\ Len(u) = Len(t)
      /\ Of(u, s) = Of(t, s)
      /\ \A n \in 1..Len(t) :
           /\ t[n].order = 0 => Number(t, n) > 0
           /\ Number(t, n) \in Nat
           /\ u[n].session = t[n].session
           /\ u[n].order = IF n <= k - 1 /\ t[n].order = 0 THEN Number(t, n) ELSE t[n].order
  BY <1>1, PartlyIs
<1>3. u[k].order = t[k].order /\ u[k].session = s
  BY <1>1, <1>2
<1>4. \A n \in 1..Len(t) : Partly(t, k)[n] =
        IF n <= k /\ t[n].order = 0 THEN [t[n] EXCEPT !.order = Number(t, n)] ELSE t[n]
  BY <1>1, Zenon DEF Partly
<1>5. \A n \in 1..Len(t) : u[n] =
        IF n <= k - 1 /\ t[n].order = 0 THEN [t[n] EXCEPT !.order = Number(t, n)] ELSE t[n]
  BY <1>1, Zenon DEF Partly
<1>6. Partly(t, k) \in Seq(Message) /\ Len(Partly(t, k)) = Len(t)
  BY <1>1, PartlyIs
<1>7. MaxOrder(u, s) = MaxOrder(t, s) + Cardinality(Early(t, s, k - 1))
  BY <1>1, PartlyMax
<1> HIDE DEF u
<1>8. CASE t[k].order = 0
  <2>1. Cardinality(Early(u, s, k)) = 1
    <3>1. Early(u, s, k) = {k}
      <4>1. \A n \in Of(t, s) : n \in 1..Len(t)
        BY Rows
      <4>2. \A n \in Of(t, s) : n <= k - 1 => u[n].order # 0
        <5> TAKE n \in Of(t, s)
        <5>1. n \in 1..Len(t) /\ t[n].order \in Nat
          BY <4>1, Rows
        <5>2. u[n].order = IF n <= k - 1 /\ t[n].order = 0 THEN Number(t, n) ELSE t[n].order
          BY <1>2, <5>1
        <5>3. Number(t, n) \in Nat /\ (t[n].order = 0 => Number(t, n) > 0)
          BY <1>2, <5>1
        <5> QED BY <5>2, <5>3
      <4>3. \A n \in Of(t, s) : n <= k => n = k \/ n <= k - 1
        BY <1>1, <4>1
      <4> QED BY <1>1, <1>2, <1>3, <1>8, <4>2, <4>3 DEF Early
    <3> QED BY <3>1, FS_Singleton
  <2>2. /\ Cardinality(Early(t, s, k)) = Cardinality(Early(t, s, k - 1)) + 1
        /\ Cardinality(Early(t, s, k - 1)) \in Nat
    BY <1>1, <1>8, EarlyCounts
  <2>3. MaxOrder(t, s) \in Nat
    BY MaxOrderBounds DEF IsMax
  <2>4. Number(u, k) = Number(t, k)
    BY <1>3, <1>7, <2>1, <2>2, <2>3, NumberIs
  <2>5. Updated(u, k) = [u EXCEPT ![k].order = Number(t, k)]
    BY <1>3, <1>8, <2>4 DEF Updated
  <2>6. u[k] = t[k]
    <3>1. k \in 1..Len(t) /\ ~ (k <= k - 1)
      BY <1>1
    <3> QED BY <1>5, <3>1
  <2>7. Partly(t, k)[k] = [t[k] EXCEPT !.order = Number(t, k)]
    BY <1>1, <1>4, <1>8
  <2>8. \A n \in 1..Len(t) : n # k => Partly(t, k)[n] = u[n]
    <3> TAKE n \in 1..Len(t)
    <3>1. n # k => (n <= k <=> n <= k - 1)
      BY <1>1
    <3> QED BY <1>4, <1>5, <3>1
  <2> DEFINE x == [t[k] EXCEPT !.order = Number(t, k)]
  <2>9. Updated(u, k) = [u EXCEPT ![k] = x]
    BY <2>5, <2>6
  <2>10. Partly(t, k)[k] = x
    BY <2>7
  <2> HIDE DEF x
  <2>11. /\ DOMAIN u = 1..Len(t) /\ u = [n \in 1..Len(t) |-> u[n]]
         /\ Partly(t, k) = [n \in 1..Len(t) |-> Partly(t, k)[n]]
    BY <1>2, <1>6
  <2>12. [u EXCEPT ![k] = x] = [n \in 1..Len(t) |-> IF n = k THEN x ELSE u[n]]
    BY <2>11
  <2>13. Partly(t, k) = [n \in 1..Len(t) |-> IF n = k THEN x ELSE u[n]]
    BY <2>8, <2>10, <2>11
  <2> QED BY <2>9, <2>12, <2>13 DEF u
<1>9. CASE t[k].order # 0
  <2>1. Updated(u, k) = u
    BY <1>3, <1>9 DEF Updated
  <2>2. \A n \in 1..Len(t) : Partly(t, k)[n] = u[n]
    <3> TAKE n \in 1..Len(t)
    <3>1. n # k => (n <= k <=> n <= k - 1)
      BY <1>1
    <3> QED BY <1>4, <1>5, <1>9, <3>1
  <2> QED BY <1>2, <1>6, <2>1, <2>2 DEF u
<1> QED BY <1>8, <1>9

LEMMA RowByRowIsAtOnce ==
  ASSUME NEW t \in Seq(Message)
  PROVE  RowByRow(t) = AtOnce(t)
<1> DEFINE f == CHOOSE g : Updates(g, t)
           w == [k \in 0..Len(t) |-> Partly(t, k)]
           T == {k \in 0..Len(t) : f[k] = Partly(t, k)}
<1>1. RowByRow(t) = f[Len(t)]
  BY Zenon DEF RowByRow, Updates, Updated
<1>2. Len(t) \in Nat
  BY Rows
<1>3. Partly(t, 0) = t
  <2>1. /\ DOMAIN t = 1..Len(t) /\ t = [n \in 1..Len(t) |-> t[n]]
        /\ \A n \in 1..Len(t) : ~ (n <= 0)
    BY Rows
  <2>2. \A n \in 1..Len(t) : Partly(t, 0)[n] = t[n]
    BY <2>1, Zenon DEF Partly
  <2>3. Partly(t, 0) \in Seq(Message) /\ Len(Partly(t, 0)) = Len(t)
    BY <1>2, PartlyIs
  <2> QED BY <2>2, <2>3
<1>4. Updates(w, t)
  <2>1. \A k \in 0..Len(t) : Partly(t, k) = IF k = 0 THEN t ELSE Updated(w[k - 1], k)
    <3> TAKE k \in 0..Len(t)
    <3>1. k # 0 => k \in 1..Len(t) /\ k - 1 \in 0..Len(t)
      BY <1>2
    <3>2. k # 0 => w[k - 1] = Partly(t, k - 1)
      BY <3>1
    <3> QED BY <1>3, <3>1, <3>2, UpdatedIsPartly
  <2>2. w = [k \in 0..Len(t) |-> IF k = 0 THEN t ELSE Updated(w[k - 1], k)]
    <3> DEFINE e(k) == IF k = 0 THEN t ELSE Updated(w[k - 1], k)
    <3>1. \A k \in 0..Len(t) : Partly(t, k) = e(k)
      BY <2>1
    <3>2. w = [k \in 0..Len(t) |-> Partly(t, k)]
      OBVIOUS
    <3> HIDE DEF e, w
    <3>3. w = [k \in 0..Len(t) |-> e(k)]
      BY <3>1, <3>2
    <3> QED BY <3>3 DEF e
  <2> HIDE DEF w
  <2> QED BY <2>2 DEF Updates
<1>5. Updates(f, t)
  <2> HIDE DEF w
  <2> QED BY <1>4, Zenon
<1> HIDE DEF f, w
<1>6. \A k \in 0..Len(t) : f[k] = IF k = 0 THEN t ELSE Updated(f[k - 1], k)
  BY <1>5, Zenon DEF Updates
<1>7. 0 \in T
  BY <1>2, <1>3, <1>6
<1>8. ASSUME NEW k \in 0..Len(t), k < Len(t), k \in T
      PROVE  k + 1 \in T
  <2>1. k + 1 \in 1..Len(t) /\ k + 1 \in 0..Len(t) /\ k + 1 # 0 /\ (k + 1) - 1 = k
    BY <1>2, <1>8
  <2>2. f[k + 1] = Updated(f[k], k + 1)
    BY <1>6, <2>1
  <2>3. f[k + 1] = Partly(t, k + 1)
    BY <1>8, <2>1, <2>2, UpdatedIsPartly
  <2> QED BY <2>1, <2>3
<1>9. Len(t) \in T
  <2>1. \A k \in 0..Len(t) : k < Len(t) /\ k \in T => k + 1 \in T
    BY <1>8
  <2> HIDE DEF T
  <2>2. 0..Len(t) \subseteq T
    BY <1>2, <1>7, <2>1, Induction
  <2> QED BY <1>2, <2>2
<1> QED BY <1>1, <1>9, AtOnceIsPartly

-----------------------------------------------------------------------------
(* The migration files *)

LEMMA FilesAre ==
  /\ DOMAIN Migrations = 1..9 /\ Len(Migrations) = 9
  /\ Migrations[1] = File("envelopes", "001_envelopes", <<Create("envelopes")>>)
  /\ Migrations[2] = File("envelopes", "003_thread",
       <<AddColumn("title"), AddColumn("executor_session_id"), AddColumn("thread")>>)
  /\ Migrations[3] = File("projects", "001_projects", <<Create("projects")>>)
  /\ Migrations[4] = File("projects", "002_icon_path", <<AddColumn("icon_path")>>)
  /\ Migrations[5] = File("notifications", "001_notifications",
       <<Create("notifications"), AddAPIKey, RebuildIndex>>)
  /\ Migrations[6] = File("sessions", "001_sessions", <<Create("sessions"), Create("session_messages")>>)
  /\ Migrations[7] = File("sessions", "002_order", <<AddColumn("insert_order"), Create("set_insert_order")>>)
  /\ Migrations[8] = File("sessions", "003_backfill", <<Backfill, Unique("idx_session_order")>>)
  /\ Migrations[9] = File("keys", "001_api_keys", <<Create("api_keys")>>)
BY DEF Migrations

\* The statements of a file.
Size(f) == Len(Migrations[f].body)

LEMMA Shape ==
  ASSUME NEW f \in 1..9
  PROVE  /\ DOMAIN Migrations[f].body = 1..Size(f)
         /\ Size(f) \in 1..3
         /\ f = 8 => Size(f) = 2
         /\ Migrations[f].name = "003_thread" <=> f = 2
         /\ Migrations[f].store \in Tracks <=> f \in 1..4
         /\ Migrations[f].store \in Forgives <=> f \in {3, 4, 6, 7, 8}
<1> USE FilesAre DEF File, Tracks, Forgives, Size
<1>1. CASE f \in {1, 2, 3}
  BY <1>1
<1>2. CASE f \in {4, 5, 6}
  BY <1>2
<1>3. CASE f \in {7, 8, 9}
  BY <1>3
<1> QED BY <1>1, <1>2, <1>3

LEMMA Names ==
  ASSUME NEW f \in 1..9, NEW g \in 1..9, Migrations[f].name = Migrations[g].name
  PROVE  f = g
BY FilesAre DEF File

IsLine(f, l, st) ==
  \/ f = 1 /\ l = 1 /\ st = Create("envelopes")
  \/ f = 2 /\ l = 1 /\ st = AddColumn("title")
  \/ f = 2 /\ l = 2 /\ st = AddColumn("executor_session_id")
  \/ f = 2 /\ l = 3 /\ st = AddColumn("thread")
  \/ f = 3 /\ l = 1 /\ st = Create("projects")
  \/ f = 4 /\ l = 1 /\ st = AddColumn("icon_path")
  \/ f = 5 /\ l = 1 /\ st = Create("notifications")
  \/ f = 5 /\ l = 2 /\ st = AddAPIKey
  \/ f = 5 /\ l = 3 /\ st = RebuildIndex
  \/ f = 6 /\ l = 1 /\ st = Create("sessions")
  \/ f = 6 /\ l = 2 /\ st = Create("session_messages")
  \/ f = 7 /\ l = 1 /\ st = AddColumn("insert_order")
  \/ f = 7 /\ l = 2 /\ st = Create("set_insert_order")
  \/ f = 8 /\ l = 1 /\ st = Backfill
  \/ f = 8 /\ l = 2 /\ st = Unique("idx_session_order")
  \/ f = 9 /\ l = 1 /\ st = Create("api_keys")

LEMMA Lines ==
  ASSUME NEW f \in 1..9, NEW l \in DOMAIN Migrations[f].body
  PROVE  IsLine(f, l, Migrations[f].body[l])
<1> USE DEF IsLine
<1>1. CASE f = 1
  <2>1. Migrations[f].body = <<Create("envelopes")>>
    BY <1>1, FilesAre DEF File
  <2>2. l \in 1..1
    BY <2>1
  <2> QED BY <1>1, <2>1, <2>2
<1>2. CASE f = 2
  <2>1. Migrations[f].body = <<AddColumn("title"), AddColumn("executor_session_id"), AddColumn("thread")>>
    BY <1>2, FilesAre DEF File
  <2>2. l \in 1..3
    BY <2>1
  <2> QED BY <1>2, <2>1, <2>2
<1>3. CASE f = 3
  <2>1. Migrations[f].body = <<Create("projects")>>
    BY <1>3, FilesAre DEF File
  <2>2. l \in 1..1
    BY <2>1
  <2> QED BY <1>3, <2>1, <2>2
<1>4. CASE f = 4
  <2>1. Migrations[f].body = <<AddColumn("icon_path")>>
    BY <1>4, FilesAre DEF File
  <2>2. l \in 1..1
    BY <2>1
  <2> QED BY <1>4, <2>1, <2>2
<1>5. CASE f = 5
  <2>1. Migrations[f].body = <<Create("notifications"), AddAPIKey, RebuildIndex>>
    BY <1>5, FilesAre DEF File
  <2>2. l \in 1..3
    BY <2>1
  <2> QED BY <1>5, <2>1, <2>2
<1>6. CASE f = 6
  <2>1. Migrations[f].body = <<Create("sessions"), Create("session_messages")>>
    BY <1>6, FilesAre DEF File
  <2>2. l \in 1..2
    BY <2>1
  <2> QED BY <1>6, <2>1, <2>2
<1>7. CASE f = 7
  <2>1. Migrations[f].body = <<AddColumn("insert_order"), Create("set_insert_order")>>
    BY <1>7, FilesAre DEF File
  <2>2. l \in 1..2
    BY <2>1
  <2> QED BY <1>7, <2>1, <2>2
<1>8. CASE f = 8
  <2>1. Migrations[f].body = <<Backfill, Unique("idx_session_order")>>
    BY <1>8, FilesAre DEF File
  <2>2. l \in 1..2
    BY <2>1
  <2> QED BY <1>8, <2>1, <2>2
<1>9. CASE f = 9
  <2>1. Migrations[f].body = <<Create("api_keys")>>
    BY <1>9, FilesAre DEF File
  <2>2. l \in 1..1
    BY <2>1
  <2> QED BY <1>9, <2>1, <2>2
<1> QED BY <1>1, <1>2, <1>3, <1>4, <1>5, <1>6, <1>7, <1>8, <1>9

LEMMA StatementsAre ==
  ASSUME NEW f, NEW l, NEW st, IsLine(f, l, st)
  PROVE  /\ st.does = "unique" <=> f = 8 /\ l = 2
         /\ st.does = "scope" <=> f = 5 /\ l = 2
         /\ st = Backfill <=> f = 8 /\ l = 1
         /\ st.object = "api_key" <=> f = 5 /\ l = 2
         /\ st.does = "add" <=> f \in {2, 4} \/ (f = 7 /\ l = 1)
         /\ st.object \in {"title", "executor_session_id", "thread"} <=> f = 2
         /\ f = 7 /\ l = 2 => st.object = "set_insert_order"
         /\ f = 4 => l = 1
         /\ f = 7 => l \in {1, 2}
<1> USE DEF IsLine, Create, AddColumn, Unique, Backfill, AddAPIKey, RebuildIndex
<1>2. st.does = "unique" <=> f = 8 /\ l = 2
  OBVIOUS
<1>3. st.does = "scope" <=> f = 5 /\ l = 2
  OBVIOUS
<1>4. st = Backfill <=> f = 8 /\ l = 1
  OBVIOUS
<1>5. st.object = "api_key" <=> f = 5 /\ l = 2
  OBVIOUS
<1>6. st.does = "add" <=> f \in {2, 4} \/ (f = 7 /\ l = 1)
  OBVIOUS
<1>7. st.object \in {"title", "executor_session_id", "thread"} <=> f = 2
  OBVIOUS
<1>8. f = 7 /\ l = 2 => st.object = "set_insert_order"
  OBVIOUS
<1>9. f = 4 => l = 1
  OBVIOUS
<1>10. f = 7 => l \in {1, 2}
  OBVIOUS
<1> QED BY <1>2, <1>3, <1>4, <1>5, <1>6, <1>7, <1>8, <1>9, <1>10

LEMMA ObjectsAre ==
  /\ \A f \in 1..9 : Migrations[f] \in Range(Migrations)
  /\ \A f \in 1..9 : \A l \in DOMAIN Migrations[f].body :
       /\ Migrations[f].body[l] \in Statements
       /\ Migrations[f].body[l] \in Range(Migrations[f].body)
       /\ Migrations[f].body[l].object \in Objects
  /\ \A o \in Objects : \E f \in 1..9 : \E l \in DOMAIN Migrations[f].body :
       o = Migrations[f].body[l].object
<1>1. \A f \in 1..9 : Migrations[f] \in Range(Migrations)
  BY FilesAre DEF Range
<1>2. ASSUME NEW f \in 1..9, NEW l \in DOMAIN Migrations[f].body
      PROVE  /\ Migrations[f].body[l] \in Statements
             /\ Migrations[f].body[l] \in Range(Migrations[f].body)
             /\ Migrations[f].body[l].object \in Objects
  <2>1. Migrations[f].body[l] \in Range(Migrations[f].body)
    BY DEF Range
  <2>2. Migrations[f].body[l] \in Statements
    BY <1>1, <2>1, Zenon DEF Statements
  <2> QED BY <2>1, <2>2, Zenon DEF Objects
<1>3. ASSUME NEW o \in Objects
      PROVE  \E f \in 1..9 : \E l \in DOMAIN Migrations[f].body : o = Migrations[f].body[l].object
  <2>1. PICK st \in Statements : o = st.object
    BY Zenon DEF Objects
  <2>2. PICK file \in Range(Migrations) : st \in Range(file.body)
    BY Zenon DEF Statements
  <2>3. PICK f \in 1..9 : file = Migrations[f]
    BY FilesAre, Zenon DEF Range
  <2>4. PICK l \in DOMAIN Migrations[f].body : st = Migrations[f].body[l]
    BY <2>2, <2>3, Zenon DEF Range
  <2> QED BY <2>1, <2>4, Zenon
<1> QED BY <1>1, <1>2, <1>3, Zenon

-----------------------------------------------------------------------------
(* Where a start is *)

\* A start is at a statement, or about to record a file.
Placed ==
  boot \in {Down, Failed, Serving} \/
    /\ boot = At("starting", boot.file, boot.line)
    /\ boot.file \in 1..9
    /\ boot.line \in 1..Size(boot.file) \/ (Current.store \in Tracks /\ boot.line = Size(boot.file) + 1)

\* The start, or all of it, is past line l of file f.
Past(f, l) ==
  \/ boot = Serving
  \/ boot.pc = "starting" /\ (f < boot.file \/ (f = boot.file /\ l < boot.line))

Starting == boot.pc = "starting"

LEMMA StartingAt ==
  ASSUME Placed, Starting
  PROVE  /\ boot = At("starting", boot.file, boot.line) /\ boot \notin {Down, Failed, Serving}
         /\ boot.file \in 1..9 /\ Size(boot.file) \in 1..3
         /\ boot.line \in 1..Size(boot.file) \/ (Current.store \in Tracks /\ boot.line = Size(boot.file) + 1)
         /\ DOMAIN Current.body = 1..Size(boot.file)
<1>1. boot \notin {Down, Failed, Serving}
  BY DEF Starting, Down, Failed, Serving, At
<1>2. boot.file \in 1..9
  BY <1>1 DEF Placed
<1>3. Size(boot.file) \in 1..3 /\ DOMAIN Current.body = 1..Size(boot.file)
  BY <1>2, Shape DEF Current
<1> QED BY <1>1, <1>2, <1>3 DEF Placed

\* The next file is opened when all of this one has been passed.
LEMMA FileIsPassed ==
  ASSUME Placed, Starting, NextFile
  PROVE  /\ Placed' /\ boot' # Failed
         /\ \A f \in 1..9 : \A l \in 1..3 : Past(f, l)' <=> f <= boot.file
<1>1. CASE boot.file = 9
  <2>1. boot' = Serving
    BY <1>1, FilesAre DEF NextFile
  <2>2. boot' # Failed
    BY <2>1 DEF Serving, Failed, At
  <2> QED BY <1>1, <2>1, <2>2 DEF Placed, Past
<1>2. CASE boot.file # 9
  <2>1. boot' = At("starting", boot.file + 1, 1) /\ boot.file + 1 \in 1..9
    BY <1>2, FilesAre, StartingAt DEF NextFile
  <2>2. boot'.pc = "starting" /\ boot'.file = boot.file + 1 /\ boot'.line = 1 /\ boot' # Serving
        /\ boot' # Failed
    BY <2>1 DEF At, Serving, Failed
  <2>3. Size(boot.file + 1) \in 1..3
    BY <2>1, Shape
  <2>4. 1 \in 1..Size(boot'.file)
    BY <2>2, <2>3
  <2>5. Placed'
    BY <2>1, <2>2, <2>4 DEF Placed, Current
  <2> QED BY <2>1, <2>2, <2>5, StartingAt DEF Past
<1> QED BY <1>1, <1>2

LEMMA EndIsPassed ==
  ASSUME Placed, Starting, boot.line <= Size(boot.file), EndOfFile
  PROVE  /\ Placed' /\ boot' # Failed
         /\ \A f \in 1..9 : \A l \in 1..Size(f) :
              Past(f, l)' <=> f <= boot.file
<1>1. \A f \in 1..9 : Size(f) \in 1..3
  BY Shape
<1>2. CASE Current.store \in Tracks
  <2>1. boot' = At("starting", boot.file, Size(boot.file) + 1)
    BY <1>2 DEF EndOfFile, Size, Current
  <2>2. boot'.pc = "starting" /\ boot'.file = boot.file /\ boot'.line = Size(boot.file) + 1
        /\ boot' # Serving /\ boot' # Failed
    BY <2>1 DEF At, Serving, Failed
  <2>3. Placed'
    BY <1>2, <2>1, <2>2, StartingAt DEF Placed, Current
  <2> QED BY SMTT(20), <1>1, <2>2, <2>3, StartingAt DEF Past, Current
<1>3. CASE Current.store \notin Tracks
  <2>1. NextFile
    BY <1>3 DEF EndOfFile
  <2> QED BY <1>1, <2>1, FileIsPassed
<1> QED BY <1>2, <1>3

LEMMA StatementIsPassed ==
  ASSUME Placed, Starting, boot.line <= Size(boot.file), NextStatement
  PROVE  /\ Placed' /\ boot' # Failed
         /\ \A f \in 1..9 : \A l \in 1..Size(f) :
              Past(f, l)' <=> Past(f, l) \/ (f = boot.file /\ l = boot.line)
<1>1. \A f \in 1..9 : Size(f) \in 1..3
  BY Shape
<1>2. CASE boot.line = Size(boot.file)
  <2>1. EndOfFile
    BY <1>2 DEF NextStatement, Size, Current
  <2>2. /\ Placed' /\ boot' # Failed
        /\ \A f \in 1..9 : \A l \in 1..Size(f) : Past(f, l)' <=> f <= boot.file
    BY <1>2, <2>1, EndIsPassed, StartingAt
  <2>3. \A f \in 1..9 : \A l \in 1..Size(f) :
          Past(f, l) <=> f < boot.file \/ (f = boot.file /\ l < boot.line)
    BY StartingAt DEF Past, Starting
  <2>4. \A f \in 1..9 : \A l \in 1..Size(f) :
          f <= boot.file <=>
            (f < boot.file \/ (f = boot.file /\ l < boot.line)) \/ (f = boot.file /\ l = boot.line)
    BY <1>1, <1>2, StartingAt
  <2> QED BY <2>2, <2>3, <2>4
<1>3. CASE boot.line # Size(boot.file)
  <2>1. boot' = At("starting", boot.file, boot.line + 1)
    BY <1>3, StartingAt DEF NextStatement, At, Size, Current
  <2>2. boot'.pc = "starting" /\ boot'.file = boot.file /\ boot'.line = boot.line + 1
        /\ boot' # Serving /\ boot' # Failed
    BY <2>1 DEF At, Serving, Failed
  <2>3. Placed'
    BY <1>3, <2>1, <2>2, StartingAt DEF Placed, Current
  <2>4. boot.line \in Int /\ boot # Serving /\ boot.pc = "starting"
    BY <1>1, StartingAt DEF Starting
  <2>5. \A f \in 1..9 : \A l \in 1..Size(f) :
          Past(f, l)' <=> f < boot.file \/ (f = boot.file /\ l < boot.line + 1)
    BY <2>2 DEF Past
  <2>6. \A f \in 1..9 : \A l \in 1..Size(f) :
          Past(f, l) <=> f < boot.file \/ (f = boot.file /\ l < boot.line)
    BY <2>4 DEF Past
  <2>7. \A f \in 1..9 : \A l \in 1..Size(f) :
          l < boot.line + 1 <=> l < boot.line \/ l = boot.line
    BY <1>1, <2>4
  <2> QED BY <2>2, <2>3, <2>5, <2>6, <2>7
<1> QED BY <1>2, <1>3

-----------------------------------------------------------------------------
(* The state of a start *)

Object(f, l) == Migrations[f].body[l].object

\* What a start has been through exists, and so does what a recorded file made.
Built ==
  \A f \in 1..9 : \A l \in 1..Size(f) :
    /\ Past(f, l) \/ Migrations[f].name \in applied
    /\ Object(f, l) # "set_insert_order"
    => Object(f, l) \in schema

PhantomOld == phantom => "api_key" \notin schema

StartupInv == StartupTypeOK /\ Placed /\ Built /\ PhantomOld

BootTyped ==
  boot \in {Down, Failed, Serving} \cup {At("starting", f, l) : f \in DOMAIN Migrations, l \in 1..4}

LEMMA PlacedTyped == Placed => BootTyped
<1> SUFFICES ASSUME Placed
             PROVE  BootTyped
  OBVIOUS
<1>1. CASE Starting
  <2>1. boot.file \in DOMAIN Migrations /\ boot.line \in 1..4
    BY <1>1, StartingAt, FilesAre
  <2>2. boot = At("starting", boot.file, boot.line)
    BY <1>1, StartingAt
  <2> DEFINE positions == {At("starting", f, l) : f \in DOMAIN Migrations, l \in 1..4}
  <2>3. \A f \in DOMAIN Migrations, l \in 1..4 : At("starting", f, l) \in positions
    OBVIOUS
  <2> HIDE DEF positions
  <2>4. boot \in positions
    BY <2>1, <2>2, <2>3
  <2> QED BY <2>4 DEF BootTyped, positions
<1>2. CASE ~ Starting
  <2>1. boot # At("starting", boot.file, boot.line)
    BY <1>2 DEF Starting, At
  <2> QED BY <2>1 DEF Placed, BootTyped
<1> QED BY <1>1, <1>2

LEMMA PlacedTypedNext == Placed' => BootTyped'
BY PlacedTyped, PTL

LEMMA StartupTypedNext ==
  ASSUME Placed', schema' \subseteq Objects,
         applied' \subseteq {f.name : f \in Range(Migrations)}, phantom' \in BOOLEAN
  PROVE  StartupTypeOK'
BY PlacedTypedNext DEF StartupTypeOK, BootTyped

\* The file and the statement that a start is at.
LEMMA StatementAt ==
  ASSUME Placed, Starting, boot.line <= Len(Current.body)
  PROVE  /\ boot.file \in 1..9 /\ boot.line \in 1..Size(boot.file)
         /\ IsLine(boot.file, boot.line, Statement)
         /\ Statement.object = Object(boot.file, boot.line)
         /\ Statement.object \in Objects
<1>1. boot.file \in 1..9 /\ boot.line \in 1..Size(boot.file)
  BY StartingAt DEF Current, Size
<1>2. boot.line \in DOMAIN Migrations[boot.file].body
  BY <1>1, Shape
<1>3. Statement = Migrations[boot.file].body[boot.line]
  BY DEF Statement, Current
<1> QED BY <1>1, <1>2, <1>3, Lines, ObjectsAre DEF Object

LEMMA InitStartup ==
  ASSUME StartupInit
  PROVE  StartupInv
<1>1. PICK v \in Vintages : schema = v.schema /\ applied = v.applied /\ phantom = v.phantom
  BY DEF StartupInit
<1>2. boot = Down
  BY DEF StartupInit
<1>3. Placed
  BY <1>2 DEF Placed
<1>4. StartupTypeOK
  BY <1>1, <1>3, PlacedTyped, VintagesAssumption DEF StartupTypeOK, BootTyped
<1>5. PhantomOld
  BY <1>1, VintagesAssumption DEF PhantomOld
<1>6. Built
  <2> SUFFICES ASSUME NEW f \in 1..9, NEW l \in 1..Size(f), Migrations[f].name \in applied
               PROVE  Object(f, l) \in schema
    BY <1>2 DEF Built, Past, Down, Serving, At
  <2>1. /\ Migrations[f] \in Range(Migrations)
        /\ Migrations[f].body[l] \in Statements /\ Migrations[f].body[l] \in Range(Migrations[f].body)
    BY ObjectsAre, Shape
  <2> QED BY <1>1, <2>1, VintagesAssumption DEF Object
<1> QED BY <1>3, <1>4, <1>5, <1>6 DEF StartupInv

\* A start begins, is broken off or is over: nothing has changed.
LEMMA RestKeeps ==
  ASSUME StartupInv, UNCHANGED <<schema, applied, phantom>>,
         boot' \in {Down, Failed, At("starting", 1, 1)}
  PROVE  StartupInv'
<1>1. Placed'
  <2>1. CASE boot' = At("starting", 1, 1)
    <3>1. boot' = At("starting", boot'.file, boot'.line) /\ boot'.file = 1 /\ boot'.line = 1
      BY <2>1 DEF At
    <3>2. 1 \in 1..Size(1)
      BY Shape
    <3> QED BY <3>1, <3>2 DEF Placed
  <2> QED BY <2>1 DEF Placed
<1>2. \A f \in 1..9 : \A l \in 1..Size(f) : ~ Past(f, l)'
  BY DEF Past, Down, Failed, Serving, At
<1> QED BY <1>1, <1>2, StartupTypedNext DEF StartupInv, StartupTypeOK, Built, PhantomOld

LEMMA SkipKeeps ==
  ASSUME StartupInv, Skip
  PROVE  StartupInv' /\ boot' # Failed
<1>1. Placed /\ Starting /\ NextFile /\ Recorded /\ boot.line = 1
  BY DEF Skip, Opening, Starting, StartupInv
<1>2. /\ Placed' /\ boot' # Failed
      /\ \A f \in 1..9 : \A l \in 1..3 : Past(f, l)' <=> f <= boot.file
  BY <1>1, FileIsPassed
<1>3. Built'
  <2> SUFFICES ASSUME NEW f \in 1..9, NEW l \in 1..Size(f), Past(f, l)' \/ Migrations[f].name \in applied,
                      Object(f, l) # "set_insert_order"
               PROVE  Object(f, l) \in schema
    BY DEF Skip, Built
  <2>1. l \in 1..3
    BY Shape
  <2>2. f < boot.file \/ Migrations[f].name \in applied
    BY <1>1, <1>2, <2>1, StartingAt DEF Recorded, Current
  <2>3. Past(f, l) \/ Migrations[f].name \in applied
    BY <1>1, <2>2 DEF Past, Starting
  <2> QED BY <2>3 DEF StartupInv, Built
<1> QED BY <1>2, <1>3, StartupTypedNext DEF Skip, StartupInv, StartupTypeOK, PhantomOld

LEMMA RecordKeeps ==
  ASSUME StartupInv, Record
  PROVE  StartupInv' /\ boot' # Failed
<1>1. Placed /\ Starting /\ NextFile
  BY DEF Record, Starting, StartupInv
<1>2. /\ Placed' /\ boot' # Failed
      /\ \A f \in 1..9 : \A l \in 1..3 : Past(f, l)' <=> f <= boot.file
  BY <1>1, FileIsPassed
<1>3. \A l \in 1..Size(boot.file) : Past(boot.file, l)
  BY <1>1, StartingAt DEF Past, Starting, Record, Current, Size
<1>4. Current.name = Migrations[boot.file].name /\ boot.file \in 1..9
  BY <1>1, StartingAt DEF Current
<1>5. Built'
  <2> SUFFICES ASSUME NEW f \in 1..9, NEW l \in 1..Size(f), Past(f, l)' \/ Migrations[f].name \in applied',
                      Object(f, l) # "set_insert_order"
               PROVE  Object(f, l) \in schema
    BY DEF Record, Built
  <2>1. l \in 1..3
    BY Shape
  <2>2. f = boot.file \/ f < boot.file \/ Migrations[f].name \in applied
    BY SMTT(20), <1>2, <1>4, <2>1, Names DEF Record
  <2>3. Past(f, l) \/ Migrations[f].name \in applied
    BY <1>1, <1>3, <2>2 DEF Past, Starting
  <2> QED BY <2>3 DEF StartupInv, Built
<1>6. Current.name \in {f.name : f \in Range(Migrations)}
  BY <1>4, ObjectsAre
<1> QED BY <1>2, <1>5, <1>6, StartupTypedNext DEF Record, StartupInv, StartupTypeOK, PhantomOld

LEMMA ScopeKeeps ==
  ASSUME StartupInv, ScopeNotifications
  PROVE  StartupInv' /\ boot' # Failed
<1>1. Placed /\ Starting /\ NextStatement /\ boot.line <= Len(Current.body)
  BY DEF ScopeNotifications, Opening, Starting, StartupInv
<1>2. /\ Placed' /\ boot' # Failed
      /\ \A f \in 1..9 : \A l \in 1..Size(f) :
           Past(f, l)' <=> Past(f, l) \/ (f = boot.file /\ l = boot.line)
  BY <1>1, StatementIsPassed, StartingAt DEF Current, Size
<1>3. Statement.object = "api_key" /\ "api_key" \in Objects /\ Object(boot.file, boot.line) = "api_key"
  BY <1>1, StatementAt, StatementsAre DEF ScopeNotifications
<1>4. Built'
  BY <1>2, <1>3 DEF ScopeNotifications, StartupInv, Built
<1>5. phantom \in BOOLEAN /\ (phantom => "api_key" \notin schema)
  BY DEF StartupInv, StartupTypeOK, PhantomOld
<1>6. schema' = schema \cup {"api_key"} /\ phantom' = FALSE /\ applied' = applied
  BY <1>5, Zenon DEF ScopeNotifications
<1>7. PhantomOld'
  BY <1>6 DEF PhantomOld
<1>8. StartupTypeOK'
  <2>1. schema' \subseteq Objects
    BY <1>3, <1>6 DEF StartupInv, StartupTypeOK
  <2>2. applied' \subseteq {f.name : f \in Range(Migrations)}
    BY <1>6 DEF StartupInv, StartupTypeOK
  <2>3. phantom' \in BOOLEAN
    BY <1>6
  <2> QED BY <1>2, <2>1, <2>2, <2>3, StartupTypedNext
<1> QED BY <1>2, <1>4, <1>7, <1>8 DEF StartupInv

\* A statement that is refused, a column that exists, and any other statement.
LEMMA ExecuteKeeps ==
  ASSUME StartupInv, NEW refused \in BOOLEAN, Execute(refused)
  PROVE  /\ StartupInv'
         /\ boot' = Failed => refused \/ (boot.file = 2 /\ Duplicate(Statement))
<1>1. Placed /\ Starting /\ boot.line <= Len(Current.body) /\ UNCHANGED <<applied, phantom>>
  BY DEF Execute, Opening, Starting, StartupInv
<1>2. /\ boot.file \in 1..9 /\ boot.line \in 1..Size(boot.file)
      /\ IsLine(boot.file, boot.line, Statement)
      /\ Statement.object = Object(boot.file, boot.line) /\ Statement.object \in Objects
  BY <1>1, StatementAt
<1>3. boot.line <= Size(boot.file)
  BY <1>1 DEF Current, Size
<1>4. CASE boot' = Failed /\ UNCHANGED schema
  <2>1. refused \/ (Duplicate(Statement) /\ Current.store \notin Forgives)
    BY <1>1, <1>3, <1>4, EndIsPassed, StatementIsPassed DEF Execute
  <2>2. Duplicate(Statement) /\ Current.store \notin Forgives => boot.file = 2
    BY <1>2, StatementsAre, Shape DEF Duplicate, Current
  <2> QED BY <1>1, <1>4, <2>1, <2>2, RestKeeps
<1>5. CASE Duplicate(Statement) /\ EndOfFile /\ UNCHANGED schema /\ Current.store \in Forgives
  <2>1. /\ Placed' /\ boot' # Failed
        /\ \A f \in 1..9 : \A l \in 1..Size(f) : Past(f, l)' <=> f <= boot.file
    BY <1>1, <1>3, <1>5, EndIsPassed
  <2>2. Built'
    <3> SUFFICES ASSUME NEW f \in 1..9, NEW l \in 1..Size(f), Past(f, l)' \/ Migrations[f].name \in applied,
                        Object(f, l) # "set_insert_order"
                 PROVE  Object(f, l) \in schema
      BY <1>1, <1>5 DEF Built
    <3>1. CASE f = boot.file
      <4>1. boot.line = 1 /\ boot.file \in {4, 7}
        BY <1>2, <1>5, StatementsAre, Shape DEF Duplicate, Current
      <4>2. l = 1
        <5>1. IsLine(f, l, Migrations[f].body[l])
          BY Shape, Lines
        <5> QED BY <3>1, <4>1, <5>1, StatementsAre DEF Object
      <4> QED BY <1>2, <1>5, <3>1, <4>1, <4>2 DEF Duplicate
    <3>2. CASE f # boot.file
      <4>1. Past(f, l) \/ Migrations[f].name \in applied
        BY <1>1, <1>2, <2>1, <3>2 DEF Past, Starting
      <4> QED BY <4>1 DEF StartupInv, Built
    <3> QED BY <3>1, <3>2
  <2> QED BY <1>1, <1>5, <2>1, <2>2, StartupTypedNext DEF StartupInv, StartupTypeOK, PhantomOld
<1>6. CASE schema' = schema \cup {Statement.object} /\ NextStatement
  <2>1. /\ Placed' /\ boot' # Failed
        /\ \A f \in 1..9 : \A l \in 1..Size(f) :
             Past(f, l)' <=> Past(f, l) \/ (f = boot.file /\ l = boot.line)
    BY <1>1, <1>3, <1>6, StatementIsPassed
  <2>2. Built'
    BY <1>1, <1>2, <1>6, <2>1 DEF StartupInv, Built
  <2>3. Statement.object # "api_key"
    BY <1>2, StatementsAre DEF Execute
  <2> QED BY <1>1, <1>2, <1>6, <2>1, <2>2, <2>3, StartupTypedNext
          DEF StartupInv, StartupTypeOK, PhantomOld
<1> QED BY <1>4, <1>5, <1>6 DEF Execute
-----------------------------------------------------------------------------
(* The table *)

\* No two rows of a session have the same number.
NumbersApart(t) ==
  \A m, n \in DOMAIN t :
    t[m].session = t[n].session /\ t[m].order = t[n].order => m = n \/ t[n].order = 0

LEMMA LegacyNumbersApart ==
  ASSUME NEW t \in Seq(Message), LegacyTable(t)
  PROVE  NumbersApart(t)
<1>1. Len(t) \in Nat /\ DOMAIN t = 1..Len(t) /\ \A s : IsFiniteSet(Of(t, s))
  BY Rows
<1>2. PICK added \in 1..Len(t) + 1 :
        \A n \in DOMAIN t :
          t[n].order = IF n < added THEN 0
                       ELSE Cardinality({m \in Of(t, t[n].session) : added <= m /\ m <= n})
  BY Zenon DEF LegacyTable
<1> DEFINE since(s, n) == {m \in Of(t, s) : added <= m /\ m <= n}
<1>3. ASSUME NEW m \in DOMAIN t, NEW n \in DOMAIN t, t[m].session = t[n].session,
             added <= m, added <= n, m < n
      PROVE  t[m].order # t[n].order
  <2> DEFINE s == t[n].session
  <2>1. n \in since(s, n) /\ n \notin since(s, m) /\ since(s, m) \in SUBSET since(s, n)
    BY <1>1, <1>3, Rows
  <2>2. IsFiniteSet(since(s, n))
    BY <1>1, FS_Subset
  <2>3. Cardinality(since(s, m)) # Cardinality(since(s, n))
    <3> HIDE DEF since
    <3> QED BY <2>1, <2>2, FS_Subset
  <2>4. t[m].order = Cardinality(since(s, m)) /\ t[n].order = Cardinality(since(s, n))
    <3>1. ~ (m < added) /\ ~ (n < added)
      BY <1>1, <1>3
    <3> QED BY <1>2, <1>3, <3>1, Zenon
  <2> QED BY <2>3, <2>4
<1>4. ASSUME NEW m \in DOMAIN t, NEW n \in DOMAIN t, t[m].session = t[n].session,
             t[m].order = t[n].order, t[n].order # 0
      PROVE  m = n
  <2>1. ~ (m < added) /\ ~ (n < added)
    BY <1>2, <1>4, Zenon
  <2>2. m \in Int /\ n \in Int /\ added \in Int
    BY <1>1
  <2> QED BY <1>3, <1>4, <2>1, <2>2
<1> QED BY <1>4 DEF NumbersApart

\* The backfill keeps the numbers there are and leaves no row without one.
LEMMA AtOnceNumbers ==
  ASSUME NEW t \in Seq(Message), NumbersApart(t)
  PROVE  /\ AtOnce(t) \in Seq(Message) /\ Len(AtOnce(t)) = Len(t)
         /\ \A s : Of(AtOnce(t), s) = Of(t, s)
         /\ Unnumbered(AtOnce(t)) = {}
         /\ OrdersUnique(AtOnce(t))
<1> DEFINE u == AtOnce(t)
           N == Len(t)
<1>1. /\ N \in Nat /\ DOMAIN t = 1..N
      /\ \A n \in 1..N : t[n].order \in Nat /\ n \in Of(t, t[n].session)
      /\ \A s : \A n \in Of(t, s) : n \in 1..N /\ n \in Nat /\ t[n].session = s
  BY Rows
<1>2. N \in 0..N
  BY <1>1
<1>3. u = Partly(t, N)
  BY AtOnceIsPartly
<1>4. /\ u \in Seq(Message) /\ Len(u) = N
      /\ \A s : Of(u, s) = Of(t, s)
      /\ \A n \in 1..N :
           /\ Number(t, n) \in Nat
           /\ t[n].order = 0 => Number(t, n) > 0
           /\ u[n].session = t[n].session
           /\ u[n].order = IF n <= N /\ t[n].order = 0 THEN Number(t, n) ELSE t[n].order
  BY <1>2, <1>3, PartlyIs
<1> HIDE DEF u
<1>5. DOMAIN u = 1..N
  BY <1>4
<1>6. \A n \in 1..N : u[n].order = IF t[n].order = 0 THEN Number(t, n) ELSE t[n].order
  <2>1. \A n \in 1..N : n <= N
    BY <1>1
  <2> HIDE DEF N
  <2> QED BY <1>4, <2>1
<1> HIDE DEF N
<1>7. Unnumbered(u) = {}
  <2>1. \A n \in 1..N : u[n].order # 0
    BY <1>1, <1>4, <1>6
  <2> QED BY <1>5, <2>1 DEF Unnumbered
<1>8. ASSUME NEW s, NEW m \in Of(t, s), NEW n \in Of(t, s), t[n].order = 0, m # n
      PROVE  u[m].order # u[n].order
  <2> DEFINE K(i) == Cardinality(Early(t, s, i))
             M == MaxOrder(t, s)
  <2>1. IsMax(M, t, s) /\ M \in Nat
    BY MaxOrderBounds DEF IsMax
  <2>2. \A i \in Of(t, s) : K(i) \in Nat
    BY <1>1, EarlyCounts
  <2>3. /\ \A i, j \in Of(t, s) : t[j].order = 0 /\ i < j => K(i) < K(j)
        /\ K(n) > 0
    BY <1>8, EarlyCounts
  <2>4. \A i \in Of(t, s) : Number(t, i) = K(i) + M
    BY <1>1, NumberIs
  <2>5. t[m].order <= M
    BY <2>1 DEF IsMax
  <2> HIDE DEF K, M
  <2>6. u[n].order = K(n) + M
    BY <1>1, <1>6, <1>8, <2>4
  <2>7. CASE t[m].order # 0
    <3>1. u[m].order = t[m].order
      BY <1>1, <1>6, <2>7
    <3>2. t[m].order \in Nat
      BY <1>1
    <3> QED BY <2>1, <2>2, <2>3, <2>5, <2>6, <3>1, <3>2
  <2>8. CASE t[m].order = 0
    <3>1. u[m].order = K(m) + M
      BY <1>1, <1>6, <2>4, <2>8
    <3>2. m < n \/ n < m
      BY <1>1, <1>8
    <3>3. K(m) # K(n)
      BY <1>8, <2>2, <2>3, <2>8, <3>2
    <3> QED BY <2>1, <2>2, <2>6, <3>1, <3>3
  <2> QED BY <2>7, <2>8
<1>9. ASSUME NEW m \in 1..N, NEW n \in 1..N, u[m].session = u[n].session, u[m].order = u[n].order
      PROVE  m = n
  <2> DEFINE s == t[n].session
  <2>1. m \in Of(t, s) /\ n \in Of(t, s) /\ t[m].session = t[n].session
    BY <1>1, <1>4, <1>9
  <2>2. CASE t[m].order = 0 \/ t[n].order = 0
    BY <1>8, <1>9, <2>1, <2>2
  <2>3. CASE t[m].order # 0 /\ t[n].order # 0
    BY <1>1, <1>6, <1>9, <2>1, <2>3 DEF NumbersApart
  <2> QED BY <2>2, <2>3
<1>10. OrdersUnique(u)
  BY <1>5, <1>9 DEF OrdersUnique
<1> QED BY <1>4, <1>7, <1>10 DEF u, N

LEMMA AtOnceAgain ==
  ASSUME NEW t \in Seq(Message), Unnumbered(t) = {}
  PROVE  AtOnce(t) = t
<1>1. \A n \in DOMAIN t : t[n].order # 0
  BY DEF Unnumbered
<1>2. t = [n \in DOMAIN t |-> t[n]]
  OBVIOUS
<1> DEFINE new(n) == [t[n] EXCEPT !.order = Number(t, n)]
<1>3. AtOnce(t) = [n \in DOMAIN t |-> IF t[n].order = 0 THEN new(n) ELSE t[n]]
  BY Zenon DEF AtOnce
<1> HIDE DEF new
<1> QED BY <1>1, <1>2, <1>3

LEMMA UniqueIsOrdered ==
  ASSUME NEW t \in Seq(Message), OrdersUnique(t), NEW s
  PROVE  Ordered(Of(t, s), t)
<1>1. \A n \in Of(t, s) : n \in DOMAIN t /\ t[n].order \in Nat /\ t[n].session = s
  BY Rows
<1> QED BY <1>1, Rows DEF Ordered, OrdersUnique

LEMMA ApartIsUnique ==
  ASSUME NEW t, NumbersApart(t), Unnumbered(t) = {}
  PROVE  OrdersUnique(t)
BY DEF NumbersApart, OrdersUnique, Unnumbered

LEMMA UniqueIsApart ==
  ASSUME NEW t, OrdersUnique(t)
  PROVE  NumbersApart(t)
BY DEF NumbersApart, OrdersUnique

\* The lane of a session in the table t.
LaneOf(t, s) == InOrder(Of(t, s), AtOnce(t))

LEMMA LaneIs ==
  ASSUME NEW t \in Seq(Message), NumbersApart(t), NEW s
  PROVE  /\ Ordered(Of(t, s), AtOnce(t))
         /\ LaneOf(t, s) \in Seq(Of(t, s))
         /\ LaneOf(t, s) \in Seq(1..Len(t))
<1>1. Ordered(Of(t, s), AtOnce(t))
  <2>1. Ordered(Of(AtOnce(t), s), AtOnce(t))
    BY AtOnceNumbers, UniqueIsOrdered
  <2> QED BY <2>1, AtOnceNumbers
<1>2. LaneOf(t, s) \in Seq(Of(t, s))
  BY <1>1, InOrderSorts DEF Sorted, LaneOf
<1>3. Of(t, s) \subseteq 1..Len(t)
  BY Rows
<1> QED BY <1>1, <1>2, <1>3

\* The backfill does not change the lanes.
LEMMA BackfillKeepsLanes ==
  ASSUME NEW t \in Seq(Message), NumbersApart(t), NEW s
  PROVE  LaneOf(AtOnce(t), s) = LaneOf(t, s)
<1>1. AtOnce(AtOnce(t)) = AtOnce(t)
  BY AtOnceNumbers, AtOnceAgain
<1> QED BY <1>1, AtOnceNumbers DEF LaneOf

LEMMA SameOrders ==
  ASSUME NEW S, NEW t, NEW u, Ordered(S, t), \A n \in S : u[n].order = t[n].order
  PROVE  InOrder(S, u) = InOrder(S, t)
<1> DEFINE q == InOrder(S, t)
<1>1. Ordered(S, u)
  BY DEF Ordered
<1>2. Sorted(q, S, t)
  BY InOrderSorts
<1> HIDE DEF q
<1>3. Sorted(q, S, u)
  <2>1. \A i \in 1..Len(q) : q[i] \in S
    BY <1>2 DEF Sorted
  <2> QED BY <1>2, <2>1 DEF Sorted
<1> QED BY <1>1, <1>3, SortedIsInOrder DEF q

\* The table u is t with one message more, the last of lane s.
Posted(t, s, u) ==
  /\ u \in Seq(Message) /\ Len(u) = Len(t) + 1
  /\ \A n \in DOMAIN t : u[n] = t[n]
  /\ NumbersApart(u) /\ Unnumbered(u) = {}
  /\ LaneOf(u, s) = Append(LaneOf(t, s), Len(t) + 1)
  /\ \A l : l # s => LaneOf(u, l) = LaneOf(t, l)

LEMMA PostAtEnd ==
  ASSUME NEW t \in Seq(Message), NumbersApart(t), Unnumbered(t) = {}, NEW s \in Sessions, NEW u,
         u = Append(t, [session |-> s, order |-> MaxOrder(t, s) + 1])
  PROVE  Posted(t, s, u)
<1> DEFINE x == Len(t) + 1
           m == [session |-> s, order |-> MaxOrder(t, s) + 1]
<1>1. /\ Len(t) \in Nat /\ DOMAIN t = 1..Len(t) /\ x \in Nat /\ x \notin DOMAIN t
      /\ \A n \in 1..Len(t) : t[n].order \in Nat /\ n \in Of(t, t[n].session)
      /\ \A l : \A n \in Of(t, l) : n \in 1..Len(t) /\ t[n].session = l
  BY SMTT(20), Rows
<1>2. /\ MaxOrder(t, s) \in Nat
      /\ \A n \in Of(t, s) : t[n].order <= MaxOrder(t, s)
  BY MaxOrderBounds DEF IsMax
<1>3. m \in Message /\ m.session = s /\ m.order = MaxOrder(t, s) + 1 /\ m.order \in Nat /\ m.order # 0
  BY <1>2 DEF Message
<1> HIDE DEF m
<1>4. u = Append(t, m)
  BY DEF m
<1>5. /\ u \in Seq(Message) /\ Len(u) = x /\ DOMAIN u = 1..x
      /\ u[x] = m /\ \A n \in 1..Len(t) : u[n] = t[n]
  BY <1>1, <1>3, <1>4
<1> HIDE DEF x
<1>6. \A n \in 1..x : n = x \/ n \in 1..Len(t)
  BY <1>1 DEF x
<1>7. \A n \in Of(t, s) : t[n].order < m.order
  BY <1>1, <1>2, <1>3
<1>8. Of(u, s) = Of(t, s) \cup {x} /\ \A l : l # s => Of(u, l) = Of(t, l)
  <2>1. 1..x = 1..Len(t) \cup {x}
    BY <1>1, <1>6 DEF x
  <2>2. \A l : Of(u, l) = {n \in 1..x : u[n].session = l}
    BY <1>5 DEF Of
  <2>3. \A l : Of(t, l) = {n \in 1..Len(t) : t[n].session = l}
    BY <1>1 DEF Of
  <2>4. Of(u, s) = Of(t, s) \cup {x}
    <3>1. {n \in 1..x : u[n].session = s} = {n \in 1..Len(t) : t[n].session = s} \cup {x}
      BY <1>3, <1>5, <2>1
    <3> QED BY <2>2, <2>3, <3>1
  <2>5. ASSUME NEW l, l # s
        PROVE  Of(u, l) = Of(t, l)
    <3>1. {n \in 1..x : u[n].session = l} = {n \in 1..Len(t) : t[n].session = l}
      BY <1>3, <1>5, <2>1, <2>5
    <3> QED BY <2>2, <2>3, <3>1
  <2> QED BY <2>4, <2>5
<1>9. OrdersUnique(t)
  BY ApartIsUnique
<1>10. OrdersUnique(u)
  <2> SUFFICES ASSUME NEW i \in 1..x, NEW j \in 1..x,
                      u[i].session = u[j].session, u[i].order = u[j].order
               PROVE  i = j
    BY <1>5 DEF OrdersUnique
  <2>1. CASE i = x /\ j # x
    <3>1. j \in Of(t, s)
      BY <1>1, <1>3, <1>5, <1>6, <2>1
    <3> QED BY <1>1, <1>3, <1>5, <1>6, <1>7, <2>1, <3>1
  <2>2. CASE i # x /\ j = x
    <3>1. i \in Of(t, s)
      BY <1>1, <1>3, <1>5, <1>6, <2>2
    <3> QED BY <1>1, <1>3, <1>5, <1>6, <1>7, <2>2, <3>1
  <2>3. CASE i # x /\ j # x
    BY <1>1, <1>5, <1>6, <1>9, <2>3 DEF OrdersUnique
  <2> QED BY <2>1, <2>2, <2>3
<1>11. Unnumbered(u) = {}
  BY <1>1, <1>3, <1>5, <1>6 DEF Unnumbered
<1>12. AtOnce(t) = t /\ AtOnce(u) = u
  BY <1>5, <1>11, AtOnceAgain
<1>13. \A l : Ordered(Of(t, l), t)
  BY <1>9, UniqueIsOrdered
<1>14. \A l : \A n \in Of(t, l) : u[n].order = t[n].order
  BY <1>1, <1>5
<1>15. InOrder(Of(t, s) \cup {x}, u) = Append(InOrder(Of(t, s), t), x)
  <2>1. x \notin Of(t, s)
    BY <1>1 DEF x
  <2>2. Ordered(Of(t, s), t) /\ u[x].order \in Nat
    BY <1>3, <1>5, <1>13
  <2>3. \A n \in Of(t, s) : u[n].order = t[n].order /\ t[n].order < u[x].order
    BY <1>5, <1>7, <1>14
  <2>4. Latest(x, Of(t, s), t, u)
    BY <2>1, <2>2, <2>3 DEF Latest
  <2>5. ComesLast(x, Of(t, s), t, u)
    BY <2>2, <2>4, LastInOrder
  <2> QED BY <2>5, Zenon DEF ComesLast
<1>16. LaneOf(u, s) = Append(LaneOf(t, s), x)
  BY <1>8, <1>12, <1>15 DEF LaneOf
<1>17. ASSUME NEW l, l # s
       PROVE  LaneOf(u, l) = LaneOf(t, l)
  <2>1. InOrder(Of(t, l), u) = InOrder(Of(t, l), t)
    BY <1>13, <1>14, SameOrders
  <2> QED BY <1>8, <1>12, <1>17, <2>1 DEF LaneOf
<1>18. NumbersApart(u)
  BY <1>10, UniqueIsApart
<1> QED BY <1>1, <1>5, <1>11, <1>16, <1>17, <1>18 DEF x, Posted
-----------------------------------------------------------------------------
(* The start and the rows *)

\* A step of a start, or its end: only the unique index can be refused.
StartStep ==
  \/ Boot \/ Stop
  \/ \E refused \in BOOLEAN : Execute(refused) /\ (refused => Statement.does = "unique")

\* The backfill is behind a start only when this step runs it.
LEMMA BackfillIsPassed ==
  ASSUME StartupInv, StartStep
  PROVE  /\ boot # Serving \/ Stop
         /\ Past(8, 1)' => Past(8, 1) \/ (Opening /\ Statement = Backfill)
<1>1. Placed /\ \A f \in 1..9 : Size(f) \in 1..3 /\ (f = 8 => Size(f) = 2)
  BY Shape DEF StartupInv
<1>2. CASE boot' \in {Down, Failed, At("starting", 1, 1)}
  <2>1. ~ Past(8, 1)'
    BY <1>2 DEF Past, Down, Failed, Serving, At
  <2>2. boot # Serving \/ Stop
    BY DEF Boot, Start, Skip, ScopeNotifications, Record, Interrupt, Execute, Opening, Stop,
           Serving, Down, Failed, At, StartStep
  <2> QED BY <2>1, <2>2
<1>3. CASE Skip \/ Record
  <2>1. Starting /\ NextFile /\ boot # Serving
    BY <1>3 DEF Skip, Record, Opening, Starting, Serving, At
  <2>2. Past(8, 1)' <=> 8 <= boot.file
    BY <1>1, <2>1, FileIsPassed
  <2>3. boot.file \in 1..9 /\ boot.file # 8
    <3>1. boot.file \in 1..9
      BY <1>1, <2>1, StartingAt
    <3>2. Current.store \in Tracks
      BY <1>1, <1>3, <2>1, StartingAt DEF Skip, Record, Recorded, Current, Size
    <3> QED BY <3>1, <3>2, Shape DEF Current
  <2> QED BY <2>1, <2>2, <2>3 DEF Past, Starting
<1>4. CASE ScopeNotifications \/ \E refused \in BOOLEAN : Execute(refused) /\ boot' # Failed
  <2>1. Starting /\ Opening /\ boot # Serving
    BY <1>4 DEF ScopeNotifications, Execute, Opening, Starting, Serving, At
  <2>2. boot.line <= Size(boot.file) /\ boot.file \in 1..9
    BY <1>1, <2>1, StartingAt DEF Opening, Current, Size
  <2>3. IsLine(boot.file, boot.line, Statement) /\ boot.line \in 1..Size(boot.file)
    BY <1>1, <2>1, StatementAt DEF Opening
  <2>4. CASE NextStatement
    <3>1. Past(8, 1)' <=> Past(8, 1) \/ (8 = boot.file /\ 1 = boot.line)
      BY <1>1, <2>1, <2>2, <2>4, StatementIsPassed
    <3> QED BY <2>1, <2>3, <3>1, StatementsAre
  <2>5. CASE EndOfFile /\ Duplicate(Statement)
    <3>1. Past(8, 1)' <=> 8 <= boot.file
      BY <1>1, <2>1, <2>2, <2>5, EndIsPassed
    <3>2. boot.file # 8
      BY <2>3, <2>5, StatementsAre DEF Duplicate
    <3> QED BY <2>1, <2>2, <3>1, <3>2 DEF Past, Starting
  <2> QED BY <1>4, <2>4, <2>5 DEF ScopeNotifications, Execute
<1>5. CASE Start \/ Interrupt \/ Stop \/ \E refused \in BOOLEAN : Execute(refused) /\ boot' = Failed
  <2>1. boot' \in {Down, Failed, At("starting", 1, 1)}
    BY <1>5 DEF Start, Interrupt, Stop
  <2> QED BY <1>2, <2>1
<1> QED BY <1>3, <1>4, <1>5 DEF Boot, StartStep

-----------------------------------------------------------------------------
(* 003_thread *)

\* It is recorded, or none of its columns exist, but for those that the start
\* in progress has added.
ThreadWhole ==
  \A l \in 1..3 :
    Object(2, l) \in schema /\ "003_thread" \notin applied
      => Starting /\ boot.file = 2 /\ l < boot.line

LEMMA Thread ==
  /\ Migrations[2].name = "003_thread" /\ Migrations[2].store \in Tracks /\ Size(2) = 3
  /\ Object(2, 1) = "title" /\ Object(2, 2) = "executor_session_id" /\ Object(2, 3) = "thread"
  /\ Migrations[2] \in Range(Migrations)
  /\ \A l \in 1..3 : Migrations[2].body[l] \in Statements /\ Migrations[2].body[l] \in Range(Migrations[2].body)
<1>1. Migrations[2].name = "003_thread" /\ Migrations[2].store \in Tracks
  BY FilesAre DEF File, Tracks
<1>2. Migrations[2].body = <<AddColumn("title"), AddColumn("executor_session_id"), AddColumn("thread")>>
  BY FilesAre DEF File
<1>3. Size(2) = 3 /\ DOMAIN Migrations[2].body = 1..3
  BY <1>2 DEF Size
<1>4. Object(2, 1) = "title" /\ Object(2, 2) = "executor_session_id" /\ Object(2, 3) = "thread"
  BY <1>2 DEF Object, AddColumn
<1> QED BY <1>1, <1>3, <1>4, ObjectsAre

LEMMA InitThread ==
  ASSUME StartupInit
  PROVE  ThreadWhole
<1>1. PICK v \in Vintages : schema = v.schema /\ applied = v.applied /\ phantom = v.phantom
  BY DEF StartupInit
<1>2. ASSUME NEW l \in 1..3, Object(2, l) \in schema
      PROVE  "003_thread" \in applied
  BY <1>1, <1>2, VintagesAssumption, Thread DEF Object
<1> QED BY <1>2 DEF ThreadWhole

\* No start fails for a column of 003_thread, and a start that ends leaves it whole.
LEMMA ThreadKeeps ==
  ASSUME "003_thread" \in Unbroken, StartupInv, ThreadWhole, StartStep
  PROVE  /\ ThreadWhole'
         /\ ~ (Opening /\ ~ Recorded /\ boot.file = 2 /\ Duplicate(Statement))
<1>1. Placed
  BY DEF StartupInv
<1>2. boot.file = 2 => Current.name = "003_thread" /\ Current = Migrations[2]
  BY Thread DEF Current
<1>3. ASSUME Opening
      PROVE  /\ boot.file \in 1..9 /\ boot.line \in 1..Size(boot.file) /\ Starting
             /\ boot.line <= Size(boot.file)
             /\ IsLine(boot.file, boot.line, Statement)
             /\ Statement.object = Object(boot.file, boot.line)
  <2>1. Starting /\ boot.line <= Len(Current.body)
    BY <1>3 DEF Opening, Starting
  <2> QED BY <1>1, <2>1, StatementAt DEF Current, Size
<1>4. ~ (Opening /\ ~ Recorded /\ boot.file = 2 /\ Duplicate(Statement))
  <2> SUFFICES ASSUME Opening, ~ Recorded, boot.file = 2, Duplicate(Statement)
               PROVE  FALSE
    OBVIOUS
  <2>1. "003_thread" \notin applied
    BY <1>2, Thread DEF Recorded
  <2>2. boot.line \in 1..3 /\ Object(2, boot.line) \in schema
    BY <1>3, Thread DEF Duplicate
  <2> QED BY <2>1, <2>2 DEF ThreadWhole
<1>5. ASSUME UNCHANGED schema, applied \subseteq applied',
             Starting /\ boot.file = 2 => boot.line = 1 \/ "003_thread" \in applied'
      PROVE  ThreadWhole'
  BY <1>5 DEF ThreadWhole, Starting
<1>6. CASE Start \/ Stop
  BY <1>5, <1>6 DEF Start, Stop, Starting, Down, Failed, Serving, At
<1>7. CASE Interrupt
  <2>1. Starting /\ UNCHANGED schema /\ applied \subseteq applied' /\ (boot.line > 1 => Current.name \notin Unbroken)
    BY <1>7 DEF Interrupt, Starting
  <2>2. boot.line \in Nat /\ boot.line > 0
    BY <1>1, <2>1, StartingAt
  <2>3. boot.file = 2 => boot.line = 1
    BY <1>2, <2>1, <2>2
  <2> QED BY <1>4, <1>5, <2>1, <2>3
<1>8. CASE Skip
  BY <1>5, <1>8 DEF Skip
<1>9. CASE Record
  <2>1. applied' = applied \cup {Current.name} /\ UNCHANGED schema
    BY <1>9 DEF Record
  <2>2. boot.file = 2 => "003_thread" \in applied'
    BY <1>2, <2>1
  <2>3. UNCHANGED schema /\ applied \subseteq applied'
    BY <2>1
  <2> QED BY <1>4, <1>5, <2>2, <2>3
<1>10. ASSUME Opening, NextStatement, UNCHANGED applied,
              schema' = schema \cup {Statement.object} \/ schema' = schema
       PROVE  ThreadWhole'
  <2> SUFFICES ASSUME NEW l \in 1..3, Object(2, l) \in schema', "003_thread" \notin applied
               PROVE  Starting' /\ boot'.file = 2 /\ l < boot'.line
    BY <1>10 DEF ThreadWhole
  <2>1. CASE boot.file = 2
    <3>1. l <= boot.line
      <4>1. CASE Object(2, l) \in schema
        BY <1>1, <1>3, <1>10, <2>1, <4>1 DEF ThreadWhole
      <4>2. CASE Object(2, l) = Object(2, boot.line)
        BY <1>3, <1>10, <2>1, <4>2, Thread
      <4> QED BY <1>3, <1>10, <2>1, <4>1, <4>2
    <3>2. boot' = At("starting", 2, boot.line + 1)
      <4>1. CASE boot.line = 3
        BY <1>2, <1>10, <2>1, <4>1, Thread DEF NextStatement, EndOfFile, Size
      <4>2. CASE boot.line # 3
        <5>1. boot = At("starting", boot.file, boot.line)
          BY <1>1, <1>3, <1>10, StartingAt
        <5>2. Len(Current.body) = 3
          BY <1>2, <2>1, Thread DEF Size
        <5>3. boot' = [boot EXCEPT !.line = @ + 1]
          BY <1>10, <4>2, <5>2 DEF NextStatement
        <5> QED BY <2>1, <5>1, <5>3 DEF At
      <4> QED BY <4>1, <4>2
    <3> QED BY <1>3, <1>10, <2>1, <3>1, <3>2 DEF Starting, At
  <2>2. CASE boot.file # 2
    <3>1. Object(2, l) \notin schema
      BY <2>2 DEF ThreadWhole
    <3>2. Object(2, l) = Statement.object
      BY <1>10, <3>1
    <3>3. Statement.object \in {"title", "executor_session_id", "thread"}
      BY <3>2, Thread
    <3> QED BY <1>3, <1>10, <2>2, <3>3, StatementsAre
  <2> QED BY <2>1, <2>2
<1>11. CASE ScopeNotifications
  <2>1. Opening /\ NextStatement /\ UNCHANGED applied /\ schema' = schema \cup {"api_key"}
    BY <1>11 DEF ScopeNotifications
  <2>2. Statement.object = "api_key"
    BY <1>3, <1>11, <2>1, StatementsAre DEF ScopeNotifications
  <2>3. schema' = schema \cup {Statement.object}
    BY <2>1, <2>2
  <2> QED BY <1>4, <1>10, <2>1, <2>3
<1>12. ASSUME NEW refused \in BOOLEAN, Execute(refused), refused => Statement.does = "unique"
       PROVE  ThreadWhole'
  <2>1. Opening /\ ~ Recorded /\ UNCHANGED applied
    BY <1>12 DEF Execute
  <2>2. CASE UNCHANGED schema /\ boot.file # 2
    BY <1>5, <2>1, <2>2
  <2>3. CASE schema' = schema \cup {Statement.object} /\ NextStatement
    BY <1>10, <2>1, <2>3
  <2>4. CASE refused
    <3>1. UNCHANGED <<schema, applied>> /\ boot' = Failed
      BY <1>12, <2>4 DEF Execute
    <3>2. boot.file # 2
      BY <1>3, <1>12, <2>1, <2>4, StatementsAre
    <3> QED BY <2>2, <3>1, <3>2
  <2>5. CASE Duplicate(Statement)
    BY <1>4, <1>12, <2>1, <2>2, <2>4, <2>5 DEF Execute
  <2> QED BY <1>12, <2>3, <2>4, <2>5 DEF Execute
<1> QED BY <1>4, <1>6, <1>7, <1>8, <1>9, <1>11, <1>12 DEF Boot, StartStep
-----------------------------------------------------------------------------
(* The invariant *)

RowsInv ==
  /\ rows \in Seq(Message) /\ Len(rows) <= MaxMessages
  /\ NumbersApart(rows)
  /\ Past(8, 1) => Unnumbered(rows) = {}

Poll == [pc : {"idle", "select"}, session : Sessions \cup {None}, order : Nat]
Reader == [poll : Poll, seen : [Sessions -> Seq(1..MaxMessages)]]

Seen(r, s) == readers[r].seen[s]

\* q is the beginning of p.
Begins(q, p) == Len(q) <= Len(p) /\ q = SubSeq(p, 1, Len(q))

\* What each reader has received is the beginning of the lane.
SeenInv == \A r \in Readers, s \in Sessions : Begins(Seen(r, s), LaneOf(rows, s))

\* A poll in flight asks for what comes behind it.
Cutoff(r, s) == IF Seen(r, s) = <<>> THEN 0 ELSE rows[Last(Seen(r, s))].order
InFlight(r) ==
  /\ boot = Serving
  /\ readers[r].poll.session \in Sessions
  /\ readers[r].poll.order = Cutoff(r, readers[r].poll.session)
PollsInv == \A r \in Readers : readers[r].poll = NoPoll \/ InFlight(r)

ReadersInv == readers \in [Readers -> Reader] /\ SeenInv /\ PollsInv

MessagesInv == StartupInv /\ RowsInv /\ ReadersInv

LEMMA TypedMessages == MessagesInv => MessagesTypeOK
BY DEF MessagesInv, MessagesTypeOK, StartupInv, RowsInv, ReadersInv, Reader, Poll

LEMMA BeginsAppend ==
  ASSUME NEW S, NEW p \in Seq(S), NEW q \in Seq(S), NEW x \in S, Begins(q, p)
  PROVE  Begins(q, Append(p, x))
<1> DEFINE a == Append(p, x)
           n == Len(q)
<1>1. a \in Seq(S) /\ Len(a) = Len(p) + 1 /\ \A i \in 1..Len(p) : a[i] = p[i]
  OBVIOUS
<1>2. n \in Nat /\ Len(p) \in Nat /\ n <= Len(p)
  BY DEF Begins
<1>3. SubSeq(p, 1, n) = q
  BY DEF Begins
<1> HIDE DEF a
<1>4. \A i \in 1..n : i \in 1..Len(p) /\ i \in 1..Len(a)
  BY <1>1, <1>2
<1>5. \A i \in 1..n : a[i] = p[i] /\ a[i] \in S /\ p[i] \in S
  BY <1>1, <1>4
<1> HIDE DEF n
<1>6. SubSeq(a, 1, n) \in Seq(S) /\ Len(SubSeq(a, 1, n)) = n
      /\ \A i \in 1..n : SubSeq(a, 1, n)[i] = a[i]
  <2>1. /\ SubSeq(a, 1, n) \in Seq(S)
        /\ Len(SubSeq(a, 1, n)) = IF 1 <= n THEN n - 1 + 1 ELSE 0
        /\ \A i \in 1..(n - 1 + 1) : SubSeq(a, 1, n)[i] = a[1 + i - 1]
    <3>1. 1 \in Int /\ n \in Int
      BY <1>2
    <3> QED BY <1>5, <3>1, SubSeqProperties
  <2>2. \A i \in 1..n : 1 + i - 1 = i /\ i \in 1..(n - 1 + 1)
    BY <1>2
  <2> QED BY <1>2, <2>1, <2>2
<1>7. SubSeq(p, 1, n) \in Seq(S) /\ Len(SubSeq(p, 1, n)) = n
      /\ \A i \in 1..n : SubSeq(p, 1, n)[i] = p[i]
  <2>1. /\ SubSeq(p, 1, n) \in Seq(S)
        /\ Len(SubSeq(p, 1, n)) = IF 1 <= n THEN n - 1 + 1 ELSE 0
        /\ \A i \in 1..(n - 1 + 1) : SubSeq(p, 1, n)[i] = p[1 + i - 1]
    <3>1. 1 \in Int /\ n \in Int
      BY <1>2
    <3> QED BY <1>5, <3>1, SubSeqProperties
  <2>2. \A i \in 1..n : 1 + i - 1 = i /\ i \in 1..(n - 1 + 1)
    BY <1>2
  <2> QED BY <1>2, <2>1, <2>2
<1>8. SubSeq(a, 1, n) = SubSeq(p, 1, n)
  BY <1>5, <1>6, <1>7
<1>9. n <= Len(a)
  BY <1>1, <1>2
<1> QED BY <1>3, <1>8, <1>9 DEF Begins, a, n

LEMMA BeginsItself ==
  ASSUME NEW S, NEW p \in Seq(S)
  PROVE  Begins(p, p)
BY SubSeqFull DEF Begins

LEMMA LaneTyped ==
  ASSUME RowsInv, NEW s
  PROVE  LaneOf(rows, s) \in Seq(1..Len(rows)) /\ LaneOf(rows, s) \in Seq(1..MaxMessages)
<1> DEFINE p == LaneOf(rows, s)
<1>1. p \in Seq(1..Len(rows))
  BY LaneIs DEF RowsInv
<1>2. Len(rows) \in Nat /\ Len(rows) <= MaxMessages /\ MaxMessages \in Nat
  BY Rows, BoundsAssumption DEF RowsInv
<1>3. p \in Seq(1..MaxMessages)
  <2>1. 1..Len(rows) \subseteq 1..MaxMessages
    BY <1>2
  <2> HIDE DEF p
  <2>2. \A i \in 1..Len(p) : p[i] \in 1..MaxMessages
    BY <1>1, <2>1
  <2>3. Len(p) \in Nat /\ p = [i \in 1..Len(p) |-> p[i]]
    BY <1>1
  <2>4. p \in [1..Len(p) -> 1..MaxMessages]
    <3> DEFINE T == 1..MaxMessages
    <3> HIDE DEF T
    <3>1. [i \in 1..Len(p) |-> p[i]] \in [1..Len(p) -> T]
      BY <2>2 DEF T
    <3> QED BY <2>3, <3>1, Zenon DEF T
  <2> QED BY <2>3, <2>4, SeqDef, Zenon
<1> QED BY <1>1, <1>3

\* The cursor of a reader is a row of the session.
LEMMA CursorIs ==
  ASSUME RowsInv, ReadersInv, NEW r \in Readers, NEW s \in Sessions
  PROVE  /\ Seen(r, s) \in Seq(1..MaxMessages)
         /\ LaneOf(rows, s) \in Seq(1..Len(rows)) /\ LaneOf(rows, s) \in Seq(1..MaxMessages)
         /\ Seen(r, s) # <<>> =>
              /\ Len(Seen(r, s)) \in 1..Len(LaneOf(rows, s))
              /\ Last(Seen(r, s)) = LaneOf(rows, s)[Len(Seen(r, s))]
              /\ Last(Seen(r, s)) \in 1..Len(rows)
         /\ Cutoff(r, s) \in Nat
<1> DEFINE q == Seen(r, s)
           p == LaneOf(rows, s)
<1>1. q \in Seq(1..MaxMessages)
  BY DEF ReadersInv, Reader, Seen
<1>2. p \in Seq(1..Len(rows))
  BY LaneIs DEF RowsInv
<1>3. Len(rows) \in Nat /\ Len(rows) <= MaxMessages /\ MaxMessages \in Nat
  BY Rows, BoundsAssumption DEF RowsInv
<1>4. p \in Seq(1..MaxMessages)
  BY LaneTyped
<1>5. Begins(q, p)
  BY DEF ReadersInv, SeenInv
<1> HIDE DEF q, p
<1>6. ASSUME q # <<>>
      PROVE  Len(q) \in 1..Len(p) /\ Last(q) = p[Len(q)] /\ Last(q) \in 1..Len(rows)
  <2>1. Len(q) \in Nat /\ Len(q) # 0 /\ Len(p) \in Nat /\ Len(q) <= Len(p)
    BY <1>1, <1>2, <1>5, <1>6 DEF Begins
  <2>2. q = SubSeq(p, 1, Len(q))
    BY <1>5 DEF Begins
  <2> DEFINE n == Len(q)
  <2>3. n \in 1..Len(p)
    BY <2>1
  <2> HIDE DEF n
  <2>4. SubSeq(p, 1, n)[n] = p[n]
    BY <1>2, <2>3
  <2>5. q[n] = p[n]
    BY <2>2, <2>4 DEF n
  <2>6. p[n] \in 1..Len(rows)
    BY <1>2, <2>3
  <2> QED BY <2>3, <2>5, <2>6 DEF n, Last
<1>7. Cutoff(r, s) \in Nat
  <2>1. \A n \in 1..Len(rows) : rows[n].order \in Nat
    BY Rows DEF RowsInv
  <2> QED BY <1>6, <2>1 DEF Cutoff, q
<1> QED BY <1>1, <1>2, <1>4, <1>6, <1>7 DEF q, p

LEMMA InitMessages ==
  ASSUME MessagesInit
  PROVE  MessagesInv
<1>1. StartupInv
  BY InitStartup DEF MessagesInit
<1>2. PICK n \in 0..MaxLegacy : rows \in [1..n -> [session : Sessions, order : 0..MaxLegacy]]
  BY Zenon DEF MessagesInit
<1>3. MaxLegacy \in Nat /\ MaxMessages \in Nat /\ MaxLegacy <= MaxMessages
  BY BoundsAssumption
<1>4. rows \in Seq(Message) /\ Len(rows) = n
  <2>1. [session : Sessions, order : 0..MaxLegacy] \subseteq Message
    BY <1>3 DEF Message
  <2>2. rows \in [1..n -> Message]
    BY <1>2, <2>1
  <2> QED BY <1>2, <1>3, <2>2
<1>5. NumbersApart(rows)
  BY <1>4, LegacyNumbersApart DEF MessagesInit
<1>6. ~ Past(8, 1)
  BY DEF MessagesInit, StartupInit, Past, Down, Serving, At
<1>7. RowsInv
  BY <1>2, <1>3, <1>4, <1>5, <1>6 DEF RowsInv
<1>8. readers = [r \in Readers |-> [poll |-> NoPoll, seen |-> [s \in Sessions |-> <<>>]]]
  BY Zenon DEF MessagesInit
<1>9. NoPoll \in Poll
  BY DEF NoPoll, Poll
<1>10. readers \in [Readers -> Reader]
  <2>1. [poll |-> NoPoll, seen |-> [s \in Sessions |-> <<>>]] \in Reader
    <3>1. [s \in Sessions |-> <<>>] \in [Sessions -> Seq(1..MaxMessages)]
      OBVIOUS
    <3> QED BY <1>9, <3>1 DEF Reader
  <2> QED BY <1>8, <2>1
<1>11. \A r \in Readers : readers[r].poll = NoPoll /\ \A s \in Sessions : Seen(r, s) = <<>>
  BY <1>8 DEF Seen
<1>12. SeenInv
  <2> SUFFICES ASSUME NEW r \in Readers, NEW s \in Sessions
               PROVE  Begins(Seen(r, s), LaneOf(rows, s))
    BY DEF SeenInv
  <2>1. LaneOf(rows, s) \in Seq(1..Len(rows))
    BY <1>4, <1>5, LaneIs
  <2>2. SubSeq(LaneOf(rows, s), 1, 0) = <<>>
    BY SubSeqEmpty
  <2>3. Seen(r, s) = <<>> /\ Len(Seen(r, s)) = 0
    BY <1>11
  <2>4. 0 <= Len(LaneOf(rows, s))
    BY <2>1
  <2> QED BY <2>2, <2>3, <2>4 DEF Begins
<1> QED BY <1>1, <1>7, <1>10, <1>11, <1>12 DEF MessagesInv, ReadersInv, PollsInv
-----------------------------------------------------------------------------
(* The steps *)

\* The readers have received what they had, and no lane has changed.
SameView ==
  /\ readers' \in [Readers -> Reader]
  /\ \A r \in Readers, s \in Sessions : Seen(r, s)' = Seen(r, s)
  /\ \A s \in Sessions : LaneOf(rows, s)' = LaneOf(rows, s)

LEMMA SameViewKeeps ==
  ASSUME ReadersInv, SameView
  PROVE  SeenInv'
BY DEF ReadersInv, SameView, SeenInv, Begins

LEMMA NoPollIsPoll == NoPoll \in Poll /\ NoPoll.pc # "select"
BY DEF NoPoll, Poll

\* No polls are in flight when Hermes does not serve.
LEMMA NoneInFlight ==
  ASSUME ReadersInv, boot # Serving
  PROVE  \A r \in Readers : readers[r].poll = NoPoll
BY DEF ReadersInv, PollsInv, InFlight

LEMMA BootKeeps ==
  ASSUME MessagesInv, Boot
  PROVE  MessagesInv' /\ StartStep /\ SameView
<1>1. StartupInv /\ RowsInv /\ ReadersInv
  BY DEF MessagesInv
<1>2. StartStep /\ UNCHANGED <<rows, readers>>
  BY DEF Boot, StartStep
<1>3. StartupInv'
  <2>1. CASE Start
    <3>1. boot' = At("starting", 1, 1) /\ UNCHANGED <<schema, applied, phantom>>
      BY <2>1 DEF Start
    <3> QED BY <1>1, <3>1, RestKeeps
  <2>2. CASE Interrupt
    <3>1. boot' = Down /\ UNCHANGED <<schema, applied, phantom>>
      BY <2>2 DEF Interrupt
    <3> QED BY <1>1, <3>1, RestKeeps
  <2>3. CASE Skip
    BY <1>1, <2>3, SkipKeeps
  <2>4. CASE Record
    BY <1>1, <2>4, RecordKeeps
  <2>5. CASE ScopeNotifications
    BY <1>1, <2>5, ScopeKeeps
  <2> QED BY <2>1, <2>2, <2>3, <2>4, <2>5 DEF Boot
<1>4. boot # Serving
  BY DEF Boot, Start, Skip, ScopeNotifications, Record, Interrupt, Opening,
         Serving, Down, Failed, At
<1>5. ~ (Opening /\ Statement = Backfill) \/ ~ Past(8, 1)'
  <2>1. CASE Opening /\ Statement = Backfill
    <3>1. Starting /\ boot.line <= Len(Current.body) /\ Placed
      BY <1>1, <2>1 DEF Opening, Starting, StartupInv
    <3>2. IsLine(boot.file, boot.line, Statement) /\ boot.file = 8
      BY <2>1, <3>1, StatementAt, StatementsAre
    <3>3. Current.store \notin Tracks
      BY <3>2, Shape DEF Current
    <3>4. boot.file # 5 /\ ~ Record /\ ~ Skip
      <4>1. boot.line \in Int /\ Size(boot.file) \in Int /\ boot.line <= Size(boot.file)
        BY <3>1, <3>2, StatementAt, Shape DEF Current, Size
      <4> QED BY <3>2, <3>3, <4>1 DEF Record, Skip, Recorded, Current, Size
    <3>5. ~ ScopeNotifications
      BY <3>2, StatementsAre DEF ScopeNotifications
    <3>6. ~ Start
      BY <1>1, <2>1 DEF Start, Opening, Down, Failed, At
    <3>7. boot' = Down
      BY <3>4, <3>5, <3>6 DEF Boot, Interrupt
    <3> QED BY <3>7 DEF Past, Down, Serving, At
  <2> QED BY <2>1
<1>6. Past(8, 1)' => Past(8, 1)
  BY <1>1, <1>2, <1>5, BackfillIsPassed
<1>7. RowsInv'
  BY <1>1, <1>2, <1>6 DEF RowsInv
<1>8. SameView
  BY <1>1, <1>2 DEF SameView, ReadersInv, Seen
<1>9. ReadersInv'
  BY <1>1, <1>2, <1>4, <1>8, SameViewKeeps, NoneInFlight DEF ReadersInv, PollsInv
<1> QED BY <1>2, <1>3, <1>7, <1>8, <1>9 DEF MessagesInv

LEMMA RestartKeeps ==
  ASSUME MessagesInv, Restart
  PROVE  MessagesInv' /\ StartStep /\ SameView
<1>1. StartupInv /\ RowsInv /\ ReadersInv
  BY DEF MessagesInv
<1>2. Stop /\ StartStep /\ UNCHANGED rows /\ boot' = Down /\ UNCHANGED <<schema, applied, phantom>>
  BY DEF Restart, StartStep, Stop
<1>3. StartupInv'
  BY <1>1, <1>2, RestKeeps
<1>4. ~ Past(8, 1)'
  BY <1>2 DEF Past, Down, Serving, At
<1>5. RowsInv'
  BY <1>1, <1>2, <1>4 DEF RowsInv
<1>6. readers' = [r \in Readers |-> [readers[r] EXCEPT !.poll = NoPoll]]
  BY DEF Restart
<1>7. \A r \in Readers : /\ readers'[r] \in Reader
                         /\ readers'[r].poll = NoPoll
                         /\ readers'[r].seen = readers[r].seen
  <2> TAKE r \in Readers
  <2>1. readers[r] \in Reader
    BY <1>1 DEF ReadersInv
  <2>2. readers'[r] = [readers[r] EXCEPT !.poll = NoPoll]
    BY <1>6
  <2> QED BY <2>1, <2>2, NoPollIsPoll DEF Reader
<1>8. readers' \in [Readers -> Reader]
  <2>1. \A r \in Readers : [readers[r] EXCEPT !.poll = NoPoll] \in Reader
    BY <1>6, <1>7
  <2> QED BY <1>6, <2>1
<1>9. SameView
  BY <1>2, <1>7, <1>8 DEF SameView, Seen
<1>10. ReadersInv'
  BY <1>1, <1>7, <1>8, <1>9, SameViewKeeps DEF ReadersInv, PollsInv
<1> QED BY <1>2, <1>3, <1>5, <1>9, <1>10 DEF MessagesInv

\* The unique index is never refused: the backfill is behind the start.
LEMMA IndexIsAllowed ==
  ASSUME MessagesInv, Opening, Statement.does = "unique"
  PROVE  OrdersUnique(rows)
<1>1. Starting /\ boot.line <= Len(Current.body) /\ Placed
  BY DEF Opening, Starting, MessagesInv, StartupInv
<1>2. boot.file = 8 /\ boot.line = 2
  BY <1>1, StatementAt, StatementsAre
<1>3. Past(8, 1)
  BY <1>1, <1>2 DEF Past, Starting
<1> QED BY <1>3, ApartIsUnique DEF MessagesInv, RowsInv

LEMMA StatementKeeps ==
  ASSUME MessagesInv, RunStatement
  PROVE  /\ MessagesInv' /\ StartStep /\ SameView
         /\ boot' = Failed => Opening /\ ~ Recorded /\ boot.file = 2 /\ Duplicate(Statement)
<1>1. StartupInv /\ RowsInv /\ ReadersInv
  BY DEF MessagesInv
<1> DEFINE refused == Statement.does = "unique" /\ ~ OrdersUnique(rows)
<1>2. Execute(refused) /\ refused \in BOOLEAN /\ UNCHANGED readers
  BY DEF RunStatement
<1>3. Opening /\ ~ Recorded
  BY <1>2 DEF Execute
<1>4. ~ refused
  BY <1>3, IndexIsAllowed
<1> HIDE DEF refused
<1>5. StartStep
  BY <1>2, <1>4 DEF StartStep
<1>6. /\ StartupInv'
      /\ boot' = Failed => refused \/ (boot.file = 2 /\ Duplicate(Statement))
  BY <1>1, <1>2, ExecuteKeeps
<1>7. rows' = IF Statement = Backfill THEN AtOnce(rows) ELSE rows
  <2>1. rows' \in IF Statement = Backfill THEN {AtOnce(rows), RowByRow(rows)} ELSE {rows}
    BY Zenon DEF RunStatement
  <2> QED BY <1>1, <2>1, RowByRowIsAtOnce DEF RowsInv
<1>8. RowsInv' /\ \A s \in Sessions : LaneOf(rows, s)' = LaneOf(rows, s)
  <2>1. CASE Statement = Backfill
    <3>1. rows' = AtOnce(rows)
      BY <1>7, <2>1
    <3>2. /\ rows' \in Seq(Message) /\ Len(rows') = Len(rows)
          /\ Unnumbered(rows') = {} /\ NumbersApart(rows')
      BY <1>1, <3>1, AtOnceNumbers, UniqueIsApart DEF RowsInv
    <3>3. \A s \in Sessions : LaneOf(rows', s) = LaneOf(rows, s)
      BY <1>1, <3>1, BackfillKeepsLanes DEF RowsInv
    <3> QED BY <1>1, <3>2, <3>3 DEF RowsInv
  <2>2. CASE Statement # Backfill
    <3>1. UNCHANGED rows
      BY <1>7, <2>2
    <3>2. Past(8, 1)' => Past(8, 1)
      BY <1>1, <1>5, <2>2, BackfillIsPassed
    <3> QED BY <1>1, <3>1, <3>2 DEF RowsInv
  <2> QED BY <2>1, <2>2
<1>9. SameView
  BY <1>1, <1>2, <1>8 DEF SameView, ReadersInv, Seen
<1>10. boot # Serving
  BY <1>3 DEF Opening, Serving, At
<1>11. ReadersInv'
  BY <1>1, <1>2, <1>9, <1>10, SameViewKeeps, NoneInFlight DEF ReadersInv, PollsInv
<1> QED BY <1>3, <1>4, <1>5, <1>6, <1>8, <1>9, <1>11 DEF MessagesInv

\* The steps of the server leave the start as it is.
LEMMA StartupStays ==
  ASSUME StartupInv, UNCHANGED startupVars
  PROVE  StartupInv' /\ \A f, l : Past(f, l)' <=> Past(f, l)
<1>1. UNCHANGED <<schema, applied, phantom, boot>>
  BY DEF startupVars
<1>2. Placed'
  BY <1>1 DEF StartupInv, Placed, Current
<1>3. \A f, l : Past(f, l)' <=> Past(f, l)
  BY <1>1 DEF Past
<1>4. StartupTypeOK'
  BY <1>1, <1>2, StartupTypedNext DEF StartupInv, StartupTypeOK
<1> QED BY <1>1, <1>2, <1>3, <1>4 DEF StartupInv, Built, PhantomOld

LEMMA ServingIsPast == boot = Serving => Past(8, 1)
BY DEF Past

LEMMA InsertKeeps ==
  ASSUME MessagesInv, NEW s \in Sessions, InsertMessage(s)
  PROVE  /\ MessagesInv'
         /\ LaneOf(rows, s)' = Append(LaneOf(rows, s), Len(rows) + 1)
         /\ \A l \in Sessions : l # s => LaneOf(rows, l)' = LaneOf(rows, l)
         /\ Len(rows) + 1 \in 1..MaxMessages
<1>1. StartupInv /\ RowsInv /\ ReadersInv
  BY DEF MessagesInv
<1>2. boot = Serving /\ Len(rows) < MaxMessages /\ UNCHANGED <<readers, startupVars>>
  BY DEF InsertMessage
<1>3. rows' = Append(rows, [session |-> s, order |-> MaxOrder(rows, s) + 1])
  BY DEF InsertMessage, getNextInsertOrder
<1>4. StartupInv'
  BY <1>1, <1>2, StartupStays
<1>5. Unnumbered(rows) = {}
  BY <1>1, <1>2, ServingIsPast DEF RowsInv
<1>6. /\ rows' \in Seq(Message) /\ Len(rows') = Len(rows) + 1
      /\ \A n \in DOMAIN rows : rows'[n] = rows[n]
      /\ NumbersApart(rows') /\ Unnumbered(rows') = {}
      /\ LaneOf(rows', s) = Append(LaneOf(rows, s), Len(rows) + 1)
      /\ \A l : l # s => LaneOf(rows', l) = LaneOf(rows, l)
  <2>1. Posted(rows, s, rows')
    BY <1>1, <1>3, <1>5, PostAtEnd DEF RowsInv
  <2> QED BY <2>1, Zenon DEF Posted
<1>7. Len(rows) \in Nat /\ MaxMessages \in Nat /\ DOMAIN rows = 1..Len(rows)
  BY <1>1, Rows, BoundsAssumption DEF RowsInv
<1>8. Len(rows) + 1 \in 1..MaxMessages /\ Len(rows') <= MaxMessages
  BY <1>2, <1>6, <1>7
<1>9. RowsInv'
  BY <1>6, <1>8 DEF RowsInv
<1>10. SeenInv'
  <2> SUFFICES ASSUME NEW r \in Readers, NEW l \in Sessions
               PROVE  Begins(Seen(r, l), LaneOf(rows', l))
    BY <1>2 DEF SeenInv, Seen
  <2>1. Begins(Seen(r, l), LaneOf(rows, l))
    BY <1>1 DEF ReadersInv, SeenInv
  <2>2. Seen(r, l) \in Seq(1..MaxMessages) /\ LaneOf(rows, l) \in Seq(1..MaxMessages)
    BY <1>1, CursorIs
  <2>3. CASE l # s
    BY <1>6, <2>1, <2>3
  <2>4. CASE l = s
    BY <1>6, <1>8, <2>1, <2>2, <2>4, BeginsAppend
  <2> QED BY <2>3, <2>4
<1>11. PollsInv'
  <2> SUFFICES ASSUME NEW r \in Readers, readers[r].poll # NoPoll
               PROVE  InFlight(r)'
    BY <1>2 DEF PollsInv
  <2> DEFINE l == readers[r].poll.session
  <2>1. InFlight(r)
    BY <1>1 DEF ReadersInv, PollsInv
  <2>2. l \in Sessions
    BY <2>1 DEF InFlight
  <2>3. Seen(r, l) # <<>> => rows'[Last(Seen(r, l))] = rows[Last(Seen(r, l))]
    BY <1>1, <1>6, <1>7, <2>2, CursorIs
  <2>4. readers' = readers /\ boot' = boot
    BY <1>2 DEF startupVars
  <2>5. (IF Seen(r, l) = <<>> THEN 0 ELSE rows'[Last(Seen(r, l))].order) = Cutoff(r, l)
    BY <2>3 DEF Cutoff
  <2> QED BY <2>1, <2>4, <2>5 DEF InFlight, Cutoff, Seen
<1>12. ReadersInv'
  BY <1>1, <1>2, <1>10, <1>11 DEF ReadersInv
<1> QED BY <1>4, <1>6, <1>8, <1>9, <1>12 DEF MessagesInv

LEMMA PollKeeps ==
  ASSUME MessagesInv, NEW r \in Readers, NEW p \in Poll,
         readers' = [readers EXCEPT ![r].poll = p], UNCHANGED <<rows, startupVars>>,
         p = NoPoll \/ (boot = Serving /\ p.session \in Sessions /\ p.order = Cutoff(r, p.session))
  PROVE  MessagesInv' /\ SameView
<1>1. StartupInv /\ RowsInv /\ ReadersInv
  BY DEF MessagesInv
<1>2. StartupInv' /\ RowsInv'
  BY <1>1, StartupStays DEF RowsInv
<1>3. \A x \in Readers : readers[x] \in Reader
  BY <1>1 DEF ReadersInv
<1>4. \A x \in Readers : readers'[x] = IF x = r THEN [readers[x] EXCEPT !.poll = p] ELSE readers[x]
  BY <1>1 DEF ReadersInv
<1>5. \A x \in Readers : /\ readers'[x] \in Reader
                         /\ readers'[x].poll = IF x = r THEN p ELSE readers[x].poll
                         /\ readers'[x].seen = readers[x].seen
  <2> TAKE x \in Readers
  <2>1. CASE x = r
    <3>1. readers'[x] = [readers[x] EXCEPT !.poll = p]
      BY <1>4, <2>1
    <3> QED BY ZenonT(60), <1>3, <2>1, <3>1 DEF Reader
  <2>2. CASE x # r
    BY <1>3, <1>4, <2>2
  <2> QED BY <2>1, <2>2
<1>6. readers' \in [Readers -> Reader]
  <2>1. DOMAIN readers' = Readers /\ readers' = [x \in Readers |-> readers'[x]]
    BY <1>1 DEF ReadersInv
  <2> QED BY <1>5, <2>1
<1>7. SameView
  BY <1>5, <1>6 DEF SameView, Seen
<1>8. PollsInv'
  <2> SUFFICES ASSUME NEW x \in Readers, readers'[x].poll # NoPoll
               PROVE  InFlight(x)'
    BY DEF PollsInv
  <2> DEFINE l == readers'[x].poll.session
  <2>1. boot' = boot /\ rows' = rows
    BY DEF startupVars
  <2>2. boot = Serving /\ l \in Sessions /\ readers'[x].poll.order = Cutoff(x, l)
    <3>1. CASE x = r
      BY <1>5, <2>1, <3>1
    <3>2. CASE x # r
      <4>1. InFlight(x) /\ readers'[x].poll = readers[x].poll
        BY <1>1, <1>5, <3>2 DEF ReadersInv, PollsInv
      <4> QED BY <4>1 DEF InFlight
    <3> QED BY <3>1, <3>2
  <2>3. Cutoff(x, readers[x].poll.session)' = Cutoff(x, l)
    BY <2>1, <1>5 DEF Cutoff, Seen
  <2> QED BY <2>1, <2>2, <2>3 DEF InFlight
<1>9. ReadersInv'
  BY <1>1, <1>6, <1>7, <1>8, SameViewKeeps DEF ReadersInv
<1> QED BY <1>2, <1>7, <1>9 DEF MessagesInv

LEMMA LookUpKeeps ==
  ASSUME MessagesInv, NEW r \in Readers, NEW s \in Sessions, LookUp(r, s)
  PROVE  MessagesInv' /\ SameView
<1> DEFINE p == [pc |-> "select", session |-> s, order |-> Cutoff(r, s)]
<1>1. readers' = [readers EXCEPT ![r].poll = p] /\ UNCHANGED <<rows, startupVars>> /\ boot = Serving
  BY Zenon DEF LookUp, Cutoff, Seen
<1>2. Cutoff(r, s) \in Nat
  BY CursorIs DEF MessagesInv
<1>3. p \in Poll /\ p.session = s /\ p.order = Cutoff(r, s)
  BY <1>2 DEF Poll
<1> HIDE DEF p
<1> QED BY <1>1, <1>3, PollKeeps

LEMMA PollLostKeeps ==
  ASSUME MessagesInv, NEW r \in Readers, PollLost(r)
  PROVE  MessagesInv' /\ SameView
BY PollKeeps, NoPollIsPoll DEF PollLost

LEMMA SelectKeeps ==
  ASSUME MessagesInv, NEW r \in Readers, Select(r)
  PROVE  /\ MessagesInv'
         /\ UNCHANGED rows
         /\ \E s \in Sessions :
              /\ Len(Seen(r, s)) <= Len(LaneOf(rows, s))
              /\ \A x \in Readers, l \in Sessions :
                   Seen(x, l)' = IF x = r /\ l = s THEN LaneOf(rows, s) ELSE Seen(x, l)
<1>1. StartupInv /\ RowsInv /\ ReadersInv
  BY DEF MessagesInv
<1> DEFINE s == readers[r].poll.session
           c == readers[r].poll.order
           q == LaneOf(rows, s)
           k == Len(Seen(r, s))
<1>2. UNCHANGED <<rows, startupVars>> /\ readers[r].poll.pc = "select"
  BY DEF Select
<1>3. boot = Serving /\ s \in Sessions /\ c = Cutoff(r, s)
  BY <1>1, <1>2, NoPollIsPoll DEF ReadersInv, PollsInv, InFlight
<1>4. Unnumbered(rows) = {}
  BY <1>1, <1>3, ServingIsPast DEF RowsInv
<1>5. AtOnce(rows) = rows
  BY <1>1, <1>4, AtOnceAgain DEF RowsInv
<1>6. /\ Seen(r, s) \in Seq(1..MaxMessages) /\ q \in Seq(1..MaxMessages)
      /\ Seen(r, s) # <<>> => k \in 1..Len(q) /\ Last(Seen(r, s)) = q[k]
      /\ c \in Nat
  BY <1>1, <1>3, CursorIs
<1>7. Begins(Seen(r, s), q)
  BY <1>1, <1>3 DEF ReadersInv, SeenInv
<1>8. q = InOrder(Of(rows, s), rows) /\ Ordered(Of(rows, s), rows)
  <2>1. q = InOrder(Of(rows, s), AtOnce(rows)) /\ Ordered(Of(rows, s), AtOnce(rows))
    BY <1>1, LaneIs DEF LaneOf, RowsInv
  <2> QED BY <1>5, <2>1
<1>9. Seen(r, s) \o After(s, c) = q
  <2> DEFINE S == Of(rows, s)
  <2>1. k \in 0..Len(InOrder(S, rows))
    BY <1>6, <1>7, <1>8 DEF Begins
  <2>2. IF k = 0 THEN \A n \in S : rows[n].order > c ELSE c = rows[InOrder(S, rows)[k]].order
    <3>1. CASE k = 0
      <4>1. Seen(r, s) = <<>>
        BY <1>6, <3>1
      <4>2. c = 0
        BY <1>3, <4>1 DEF Cutoff
      <4>3. \A n \in S : n \in DOMAIN rows /\ rows[n].order \in Nat
        BY <1>1, Rows DEF RowsInv
      <4>4. \A n \in S : rows[n].order # 0
        BY <1>4, <4>3 DEF Unnumbered
      <4> QED BY <3>1, <4>2, <4>3, <4>4
    <3>2. CASE k # 0
      <4>1. Seen(r, s) # <<>>
        BY <3>2
      <4>2. c = rows[Last(Seen(r, s))].order
        BY <1>3, <4>1 DEF Cutoff
      <4> QED BY <1>6, <1>8, <3>2, <4>1, <4>2
    <3> QED BY <3>1, <3>2
  <2>3. SubSeq(InOrder(S, rows), 1, k) \o InOrder({n \in S : rows[n].order > c}, rows) = InOrder(S, rows)
    <3> HIDE DEF k, c, S, s
    <3> QED BY <1>6, <1>8, <2>1, <2>2, RestInOrder DEF S
  <2>4. After(s, c) = InOrder({n \in S : rows[n].order > c}, rows)
    BY Zenon DEF After
  <2>5. SubSeq(InOrder(S, rows), 1, k) = Seen(r, s)
    BY <1>7, <1>8 DEF Begins
  <2> QED BY <1>8, <2>3, <2>4, <2>5
<1>10. readers' = [readers EXCEPT ![r] =
         [poll |-> NoPoll, seen |-> [readers[r].seen EXCEPT ![s] = Seen(r, s) \o After(s, c)]]]
  BY DEF Select, Seen
<1>11. readers' = [readers EXCEPT ![r] =
         [poll |-> NoPoll, seen |-> [readers[r].seen EXCEPT ![s] = q]]]
  BY <1>9, <1>10
<1> HIDE DEF s, c, q, k
<1> DEFINE new == [readers[r].seen EXCEPT ![s] = q]
<1>12. /\ new \in [Sessions -> Seq(1..MaxMessages)]
       /\ \A l \in Sessions : new[l] = IF l = s THEN q ELSE readers[r].seen[l]
  <2>1. readers[r].seen \in [Sessions -> Seq(1..MaxMessages)]
    BY <1>1 DEF ReadersInv, Reader
  <2> QED BY <1>3, <1>6, <2>1
<1>13. readers' = [readers EXCEPT ![r] = [poll |-> NoPoll, seen |-> new]]
  BY <1>11
<1> HIDE DEF new
<1>14. [poll |-> NoPoll, seen |-> new] \in Reader
  BY <1>12, NoPollIsPoll DEF Reader
<1>15. /\ readers' \in [Readers -> Reader]
       /\ \A x \in Readers : readers'[x] = IF x = r THEN [poll |-> NoPoll, seen |-> new] ELSE readers[x]
  BY <1>1, <1>13, <1>14 DEF ReadersInv
<1>16. \A x \in Readers, l \in Sessions :
         Seen(x, l)' = IF x = r /\ l = s THEN q ELSE Seen(x, l)
  BY <1>12, <1>15 DEF Seen
<1>17. SeenInv'
  <2> SUFFICES ASSUME NEW x \in Readers, NEW l \in Sessions
               PROVE  Begins(Seen(x, l)', LaneOf(rows, l))
    BY <1>2 DEF SeenInv, Begins
  <2>1. Begins(Seen(x, l), LaneOf(rows, l))
    BY <1>1 DEF ReadersInv, SeenInv
  <2>2. Begins(q, q)
    BY <1>6, BeginsItself
  <2> QED BY <1>16, <2>1, <2>2 DEF q
<1>18. PollsInv'
  <2> SUFFICES ASSUME NEW x \in Readers, readers'[x].poll # NoPoll
               PROVE  InFlight(x)'
    BY DEF PollsInv
  <2>1. x # r /\ readers'[x] = readers[x]
    BY <1>15
  <2>2. InFlight(x)
    BY <1>1, <2>1 DEF ReadersInv, PollsInv
  <2>3. boot' = boot /\ rows' = rows
    BY <1>2 DEF startupVars
  <2> QED BY <2>1, <2>2, <2>3 DEF InFlight, Cutoff, Seen
<1>19. StartupInv' /\ RowsInv'
  BY <1>1, <1>2, StartupStays DEF RowsInv
<1>20. k <= Len(q)
  BY <1>7 DEF Begins, k
<1> QED BY <1>2, <1>3, <1>15, <1>16, <1>17, <1>18, <1>19, <1>20 DEF MessagesInv, ReadersInv, k, q
-----------------------------------------------------------------------------
(* The theorems *)

LEMMA MessagesStep ==
  ASSUME MessagesInv, MessagesNext
  PROVE  MessagesInv'
<1>1. CASE Boot
  BY <1>1, BootKeeps
<1>2. CASE RunStatement
  BY <1>2, StatementKeeps
<1>3. CASE Restart
  BY <1>3, RestartKeeps
<1>4. ASSUME NEW s \in Sessions, InsertMessage(s)
      PROVE  MessagesInv'
  BY <1>4, InsertKeeps
<1>5. ASSUME NEW r \in Readers, NEW s \in Sessions, LookUp(r, s)
      PROVE  MessagesInv'
  BY <1>5, LookUpKeeps
<1>6. ASSUME NEW r \in Readers, Select(r)
      PROVE  MessagesInv'
  BY <1>6, SelectKeeps
<1>7. ASSUME NEW r \in Readers, PollLost(r)
      PROVE  MessagesInv'
  BY <1>7, PollLostKeeps
<1> QED BY <1>1, <1>2, <1>3, <1>4, <1>5, <1>6, <1>7 DEF MessagesNext

LEMMA MessagesStutter ==
  ASSUME MessagesInv, UNCHANGED messagesVars
  PROVE  MessagesInv'
<1>1. UNCHANGED <<rows, readers>> /\ UNCHANGED startupVars
  BY DEF messagesVars
<1>2. StartupInv' /\ RowsInv'
  BY <1>1, StartupStays DEF MessagesInv, RowsInv
<1>3. boot' = boot
  BY <1>1 DEF startupVars
<1>4. SeenInv'
  BY <1>1 DEF MessagesInv, ReadersInv, SeenInv, Seen
<1>5. PollsInv'
  BY <1>1, <1>3 DEF MessagesInv, ReadersInv, PollsInv, InFlight, Cutoff, Seen
<1> QED BY <1>1, <1>2, <1>4, <1>5 DEF MessagesInv, ReadersInv

THEOREM MessagesInvariant == MessagesSpec => []MessagesInv
<1>1. MessagesInit => MessagesInv
  BY InitMessages
<1>2. MessagesInv /\ [MessagesNext]_messagesVars => MessagesInv'
  BY MessagesStep, MessagesStutter
<1> QED BY <1>1, <1>2, PTL DEF MessagesSpec

\* The table, the polls, the clients' copies and the start have their types.
THEOREM MessagesTyped == MessagesSpec => []MessagesTypeOK
BY MessagesInvariant, TypedMessages, PTL

LEMMA ServingIsComplete ==
  ASSUME MessagesInv, boot = Serving
  PROVE  Needed \subseteq schema /\ Unnumbered(rows) = {} /\ ~ phantom
<1>1. \A f, l : Past(f, l)
  BY DEF Past
<1>2. Unnumbered(rows) = {}
  BY <1>1 DEF MessagesInv, RowsInv
<1>3. \A f \in 1..9 : \A l \in 1..Size(f) : Object(f, l) # "set_insert_order" => Object(f, l) \in schema
  BY <1>1 DEF MessagesInv, StartupInv, Built
<1>4. ASSUME NEW o \in Needed
      PROVE  o \in schema
  <2>1. o \in Objects /\ o # "set_insert_order"
    BY DEF Needed
  <2>2. PICK f \in 1..9 : \E l \in DOMAIN Migrations[f].body : o = Migrations[f].body[l].object
    BY <2>1, ObjectsAre
  <2>3. PICK l \in DOMAIN Migrations[f].body : o = Migrations[f].body[l].object
    BY <2>2
  <2>4. l \in 1..Size(f) /\ Object(f, l) = o
    BY <2>3, Shape DEF Object
  <2> QED BY <1>3, <2>1, <2>4
<1>5. "api_key" \in schema
  <2>1. Size(5) = 3 /\ Object(5, 2) = "api_key"
    BY FilesAre DEF File, Size, Object, AddAPIKey
  <2> QED BY <1>3, <2>1
<1>6. ~ phantom
  BY <1>5 DEF MessagesInv, StartupInv, PhantomOld
<1> QED BY <1>2, <1>4, <1>6

\* When Hermes serves, its start has made everything its statements name.
THEOREM ServesComplete == MessagesSpec => []SchemaComplete
<1>1. MessagesInv => SchemaComplete
  BY ServingIsComplete DEF SchemaComplete
<1> QED BY <1>1, MessagesInvariant, PTL

\* No start fails.
THEOREM AlwaysStarts ==
  ASSUME "003_thread" \in Unbroken
  PROVE  MessagesSpec => []StartsAgain
<1> DEFINE Inv == MessagesInv /\ ThreadWhole /\ StartsAgain
<1>1. MessagesInit => Inv
  <2>1. ASSUME MessagesInit
        PROVE  StartsAgain
    BY <2>1 DEF MessagesInit, StartupInit, StartsAgain, Down, Failed, At
  <2> QED BY <2>1, InitMessages, InitThread DEF MessagesInit
<1>2. Inv /\ [MessagesNext]_messagesVars => Inv'
  <2> SUFFICES ASSUME Inv, [MessagesNext]_messagesVars
               PROVE  ThreadWhole' /\ StartsAgain'
    BY MessagesStep, MessagesStutter
  <2>1. CASE UNCHANGED startupVars
    <3>1. UNCHANGED <<schema, applied, phantom, boot>>
      BY <2>1 DEF startupVars
    <3> QED BY <3>1 DEF ThreadWhole, Starting, StartsAgain
  <2>2. CASE StartStep /\ (boot' = Failed => Opening /\ ~ Recorded /\ boot.file = 2 /\ Duplicate(Statement))
    <3>1. StartupInv
      BY DEF MessagesInv
    <3> QED BY <2>2, <3>1, ThreadKeeps DEF StartsAgain
  <2>3. CASE Boot
    <3>1. StartStep
      BY <2>3 DEF StartStep
    <3>2. boot' # Failed
      <4>1. StartupInv
        BY DEF MessagesInv
      <4>2. CASE Start \/ Interrupt
        BY <4>2 DEF Start, Interrupt, Down, Failed, At
      <4> QED BY <2>3, <4>1, <4>2, SkipKeeps, RecordKeeps, ScopeKeeps DEF Boot
    <3> QED BY <2>2, <3>1, <3>2
  <2>4. CASE RunStatement
    BY <2>2, <2>4, StatementKeeps
  <2>5. CASE Restart
    <3>1. StartStep /\ boot' # Failed
      BY <2>5 DEF Restart, Stop, StartStep, Down, Failed, At
    <3> QED BY <2>2, <3>1
  <2>6. CASE \E s \in Sessions : InsertMessage(s)
    BY <2>1, <2>6 DEF InsertMessage
  <2>7. CASE \E r \in Readers : (\E s \in Sessions : LookUp(r, s)) \/ Select(r) \/ PollLost(r)
    BY <2>1, <2>7 DEF LookUp, Select, PollLost
  <2>8. CASE UNCHANGED messagesVars
    BY <2>1, <2>8 DEF messagesVars
  <2> QED BY <2>3, <2>4, <2>5, <2>6, <2>7, <2>8 DEF MessagesNext
<1>3. Inv => StartsAgain
  OBVIOUS
<1> HIDE DEF Inv
<1> QED BY <1>1, <1>2, <1>3, PTL DEF MessagesSpec

-----------------------------------------------------------------------------
(* The lane *)

Logs == [s \in Sessions |-> LaneOf(rows, s)]
Copies == [r \in Readers |-> readers[r].seen]

LEMMA LaneIsLogs ==
  /\ Lane!Init <=> /\ Logs \in [Sessions -> Seq(1..MaxMessages)]
                   /\ Copies = [r \in Readers |-> [l \in Sessions |-> <<>>]]
  /\ \A l, m : Lane!Post(l, m) <=> Logs' = [Logs EXCEPT ![l] = Append(@, m)] /\ UNCHANGED Copies
  /\ \A r, l : Lane!Receive(r, l) <=>
       /\ \E n \in Len(Copies[r][l])..Len(Logs[l]) : Copies' = [Copies EXCEPT ![r][l] = SubSeq(Logs[l], 1, n)]
       /\ UNCHANGED Logs
<1>1. Logs = [s \in Sessions |-> InOrder(Of(rows, s), AtOnce(rows))]
  BY Zenon DEF Logs, LaneOf
<1>2. Lane!Init <=> /\ Logs \in [Sessions -> Seq(1..MaxMessages)]
                    /\ Copies = [r \in Readers |-> [l \in Sessions |-> <<>>]]
  BY <1>1, Zenon DEF Lane!Init, Copies
<1>3. \A l, m : Lane!Post(l, m) <=> Logs' = [Logs EXCEPT ![l] = Append(@, m)] /\ UNCHANGED Copies
  BY Zenon DEF Lane!Post, Logs, LaneOf, Copies
<1>4. \A r, l : Lane!Receive(r, l) <=>
        /\ \E n \in Len(Copies[r][l])..Len(Logs[l]) : Copies' = [Copies EXCEPT ![r][l] = SubSeq(Logs[l], 1, n)]
        /\ UNCHANGED Logs
  BY Zenon DEF Lane!Receive, Logs, LaneOf, Copies
<1> QED BY <1>2, <1>3, <1>4

LEMMA InitLane ==
  ASSUME MessagesInit
  PROVE  Lane!Init
<1>1. RowsInv
  BY InitMessages DEF MessagesInv
<1>2. Logs \in [Sessions -> Seq(1..MaxMessages)]
  BY <1>1, LaneTyped DEF Logs
<1>3. Copies = [r \in Readers |-> [l \in Sessions |-> <<>>]]
  BY DEF MessagesInit, Copies
<1> QED BY <1>2, <1>3, LaneIsLogs

LEMMA SameViewStutters ==
  ASSUME ReadersInv, SameView
  PROVE  UNCHANGED Logs /\ UNCHANGED Copies
<1>1. UNCHANGED Logs
  BY DEF SameView, Logs
<1>2. ASSUME NEW r \in Readers
      PROVE  readers'[r].seen = readers[r].seen
  <2>1. readers[r].seen \in [Sessions -> Seq(1..MaxMessages)]
        /\ readers'[r].seen \in [Sessions -> Seq(1..MaxMessages)]
    BY DEF ReadersInv, SameView, Reader
  <2>2. \A s \in Sessions : readers'[r].seen[s] = readers[r].seen[s]
    BY DEF SameView, Seen
  <2> QED BY <2>1, <2>2
<1>3. UNCHANGED Copies
  BY <1>2 DEF Copies
<1> QED BY <1>1, <1>3

\* Each step posts a message, delivers to one reader, or changes neither.
LEMMA LaneStep ==
  ASSUME MessagesInv, [MessagesNext]_messagesVars
  PROVE  [Lane!Next]_(Lane!vars)
<1>1. ReadersInv /\ RowsInv
  BY DEF MessagesInv
<1>2. CASE SameView
  <2>1. UNCHANGED Logs /\ UNCHANGED Copies
    BY <1>1, <1>2, SameViewStutters
  <2>2. UNCHANGED Lane!vars
    BY <2>1, Zenon DEF Lane!vars, Logs, LaneOf, Copies
  <2> QED BY <2>2
<1>3. ASSUME NEW s \in Sessions, InsertMessage(s)
      PROVE  Lane!Next
  <2> DEFINE m == Len(rows) + 1
  <2>1. /\ LaneOf(rows, s)' = Append(LaneOf(rows, s), m)
        /\ \A l \in Sessions : l # s => LaneOf(rows, l)' = LaneOf(rows, l)
        /\ m \in 1..MaxMessages
    BY <1>3, InsertKeeps
  <2> HIDE DEF m
  <2>2. Logs' = [Logs EXCEPT ![s] = Append(@, m)]
    BY <2>1 DEF Logs
  <2>3. UNCHANGED Copies
    BY <1>3 DEF InsertMessage, Copies
  <2>4. Lane!Post(s, m)
    BY <2>2, <2>3, LaneIsLogs
  <2> QED BY <2>1, <2>4, Zenon DEF Lane!Next
<1>4. ASSUME NEW r \in Readers, Select(r)
      PROVE  Lane!Next
  <2>1. UNCHANGED rows /\ MessagesInv'
    BY <1>4, SelectKeeps
  <2>2. PICK s \in Sessions :
          /\ Len(Seen(r, s)) <= Len(LaneOf(rows, s))
          /\ \A x \in Readers, l \in Sessions :
               Seen(x, l)' = IF x = r /\ l = s THEN LaneOf(rows, s) ELSE Seen(x, l)
    BY <1>4, SelectKeeps
  <2> DEFINE q == LaneOf(rows, s)
  <2>3. q \in Seq(1..MaxMessages) /\ Seen(r, s) \in Seq(1..MaxMessages)
    BY <1>1, CursorIs
  <2>4. Logs[s] = q /\ UNCHANGED Logs /\ Copies[r][s] = Seen(r, s)
    BY <2>1 DEF Logs, Copies, Seen
  <2>5. Len(q) \in Len(Copies[r][s])..Len(Logs[s])
    <3> HIDE DEF q
    <3> QED BY <2>2, <2>3, <2>4 DEF q
  <2>6. SubSeq(Logs[s], 1, Len(q)) = q
    BY <2>3, <2>4, SubSeqFull
  <2>7. Copies' = [Copies EXCEPT ![r][s] = q]
    <3>1. \A x \in Readers : /\ readers[x].seen \in [Sessions -> Seq(1..MaxMessages)]
                             /\ readers'[x].seen \in [Sessions -> Seq(1..MaxMessages)]
      BY <1>1, <2>1 DEF MessagesInv, ReadersInv, Reader
    <3>2. \A x \in Readers, l \in Sessions :
            readers'[x].seen[l] = IF x = r /\ l = s THEN q ELSE readers[x].seen[l]
      BY <2>2 DEF Seen
    <3> HIDE DEF q
    <3>3. \A x \in Readers : readers'[x].seen =
            IF x = r THEN [readers[x].seen EXCEPT ![s] = q] ELSE readers[x].seen
      <4> TAKE x \in Readers
      <4>1. CASE x = r
        BY <3>1, <3>2, <4>1
      <4>2. CASE x # r
        BY <3>1, <3>2, <4>2
      <4> QED BY <4>1, <4>2
    <3> QED BY <3>3 DEF Copies
  <2>8. Lane!Receive(r, s)
    <3> HIDE DEF q
    <3>1. Copies' = [Copies EXCEPT ![r][s] = SubSeq(Logs[s], 1, Len(q))]
      BY <2>6, <2>7
    <3> QED BY <2>4, <2>5, <3>1, LaneIsLogs
  <2> QED BY <2>8, Zenon DEF Lane!Next
<1>5. CASE UNCHANGED messagesVars
  BY <1>1, <1>2, <1>5 DEF messagesVars, SameView, ReadersInv, Seen
<1>6. CASE Boot \/ RunStatement \/ Restart
  BY <1>2, <1>6, BootKeeps, StatementKeeps, RestartKeeps
<1>7. ASSUME NEW r \in Readers, (\E s \in Sessions : LookUp(r, s)) \/ PollLost(r)
      PROVE  SameView
  BY <1>7, LookUpKeeps, PollLostKeeps
<1> QED BY <1>2, <1>3, <1>4, <1>5, <1>6, <1>7 DEF MessagesNext

\* A reader that polls receives every message of the lane once and in order.
THEOREM MessagesImplementLane == MessagesSpec => ImplementsLane
<1>1. MessagesInit => Lane!Init
  BY InitLane
<1>2. MessagesInv /\ [MessagesNext]_messagesVars => [Lane!Next]_(Lane!vars)
  BY LaneStep
<1> QED BY <1>1, <1>2, MessagesInvariant, PTL DEF MessagesSpec, ImplementsLane, Lane!Spec
=============================================================================
