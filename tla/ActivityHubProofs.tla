-------------------------- MODULE ActivityHubProofs --------------------------
(***************************************************************************)
(* Proofs that a client that subscribes and then reads misses no event,    *)
(* that nobody sends on a closed channel, and that a page shows the newest *)
(* events, for any number of publishers and clients and any sizes.         *)
(***************************************************************************)
EXTENDS ActivityHub, SequenceTheorems, TLAPS

Pub == [finished : 0..2, fanning : BOOLEAN, todo : SUBSET Clients]

\* The part of TypeOK the proofs need, and the history variables' types.
Types ==
  /\ pubs    \in [Events -> Pub]
  /\ conns   \in [Clients -> {"away", "open", "removed", "closed"}]
  /\ written \in Seq(Events)
  /\ before  \in [Clients -> SUBSET Events]
  /\ offered \in [Clients -> SUBSET Events]

\* A loop over the subscribers runs in the second half of its call and has
\* only open connections left: none can be closed while it runs.
Loops ==
  \A e \in Events :
    /\ pubs[e].fanning => pubs[e].finished = 1
    /\ \A c \in pubs[e].todo : pubs[e].fanning /\ conns[c] = "open"

Stored == \A e \in Events : pubs[e].finished > 0 => e \in ToSet(written)

\* The loop of event e is past client c.
Past(e, c) == pubs[e].finished = 2 \/ (pubs[e].fanning /\ c \notin pubs[e].todo)

Covered ==
  \A e \in Events, c \in Clients :
    conns[c] = "open" /\ Matches(e, ScopeOf[c]) /\ Past(e, c)
      => e \in before[c] \cup offered[c]

\* The inductive invariant: NoGap says nothing of calls in progress, and what
\* a new subscriber finds in the ring is Stored.
IInv == Types /\ Loops /\ Stored /\ Covered

\* Which half a call is about to enter, from the number of halves behind it.
LEMMA HalfReached ==
  ASSUME NEW e \in Events, Types
  PROVE  /\ AtHalf(e, "ring") => pubs[e].finished = 0
         /\ AtHalf(e, "fan out") => pubs[e].finished = 1
<1>1. pubs[e].finished \in 0..2
  BY DEF Types, Pub
<1>2. Len(Halves) = 2 /\ Halves[1] = "ring" /\ Halves[2] = "fan out"
  BY DEF Halves
<1>3. ASSUME NEW n \in 0..2, n < Len(Halves)
      PROVE  \/ n = 0 /\ Halves[n + 1] = "ring"
             \/ n = 1 /\ Halves[n + 1] = "fan out"
  <2>1. n = 0 \/ n = 1
    BY <1>3 DEF Halves
  <2>2. CASE n = 0
    BY <2>2, n + 1 = 1, <1>2
  <2>3. CASE n = 1
    BY <2>3, n + 1 = 2, <1>2
  <2> QED BY <2>1, <2>2, <2>3
<1>4. ASSUME AtHalf(e, "ring")
      PROVE  pubs[e].finished = 0
  <2>1. pubs[e].finished < Len(Halves) /\ Halves[pubs[e].finished + 1] = "ring"
    BY <1>4, Zenon DEF AtHalf
  <2> QED BY <1>1, <1>3, <2>1, "ring" # "fan out"
<1>5. ASSUME AtHalf(e, "fan out")
      PROVE  pubs[e].finished = 1
  <2>1. pubs[e].finished < Len(Halves) /\ Halves[pubs[e].finished + 1] = "fan out"
    BY <1>5, Zenon DEF AtHalf
  <2> QED BY <1>1, <1>3, <2>1, "ring" # "fan out"
<1> QED BY <1>4, <1>5

\* What has entered the ring stays among what entered it.
LEMMA AppendToSet ==
  ASSUME NEW s \in Seq(Events), NEW e \in Events
  PROVE  ToSet(Append(s, e)) = ToSet(s) \cup {e}
<1>1. /\ DOMAIN s = 1..Len(s) /\ DOMAIN Append(s, e) = 1..(Len(s) + 1)
      /\ \A i \in 1..Len(s) : Append(s, e)[i] = s[i]
      /\ Append(s, e)[Len(s) + 1] = e /\ Len(s) \in Nat
  OBVIOUS
<1>2. ToSet(Append(s, e)) \subseteq ToSet(s) \cup {e}
  BY <1>1 DEF ToSet
<1>3. ToSet(s) \subseteq ToSet(Append(s, e))
  BY <1>1 DEF ToSet
<1>4. e \in ToSet(Append(s, e))
  BY <1>1 DEF ToSet
<1> QED BY <1>2, <1>3, <1>4

\* The event enters the ring while no loop of its call runs (Publish, under mu).
LEMMA StoreKeeps ==
  ASSUME IInv, NEW e \in Events, Store(e)
  PROVE  IInv'
<1>1. /\ pubs[e].finished = 0
      /\ pubs' = [pubs EXCEPT ![e].finished = @ + 1]
      /\ written' = Append(written, e)
      /\ UNCHANGED <<conns, before, offered>>
  BY HalfReached DEF IInv, Store
<1>2. ToSet(written') = ToSet(written) \cup {e}
  BY <1>1, AppendToSet DEF IInv, Types
<1>3. Types'
  BY <1>1 DEF IInv, Types, Pub
<1>4. ~ pubs[e].fanning
  BY <1>1 DEF IInv, Loops
<1>5. Loops'
  BY <1>1, <1>4 DEF IInv, Types, Pub, Loops
<1>6. Stored'
  BY <1>1, <1>2 DEF IInv, Types, Pub, Stored
<1>7. Covered'
  BY <1>1, <1>4 DEF IInv, Types, Pub, Covered, Past, Matches
<1> QED BY <1>3, <1>5, <1>6, <1>7 DEF IInv

\* A loop starts on the clients that are open, and has passed none of them.
LEMMA FanOutKeeps ==
  ASSUME IInv, NEW e \in Events, FanOut(e)
  PROVE  IInv'
<1>1. /\ pubs[e].finished = 1 /\ ~ pubs[e].fanning
      /\ pubs' = [pubs EXCEPT ![e].fanning = TRUE,
                              ![e].todo = {c \in Clients : conns[c] = "open"}]
      /\ UNCHANGED <<conns, before, offered, written>>
  BY HalfReached DEF IInv, FanOut, hub
<1>2. Types'
  BY ZenonT(60), <1>1 DEF IInv, Types, Pub
<1>3. Loops'
  BY <1>1 DEF IInv, Types, Pub, Loops
<1>4. Stored'
  BY <1>1 DEF IInv, Types, Pub, Stored
<1>5. Covered'
  BY <1>1 DEF IInv, Types, Pub, Covered, Past, Matches
<1> QED BY <1>2, <1>3, <1>4, <1>5 DEF IInv

\* The loop passes one client, which now has the event if the event is for it.
LEMMA OfferKeeps ==
  ASSUME IInv, NEW e \in Events, NEW c \in Clients, Offer(e, c)
  PROVE  IInv'
<1>1. /\ c \in pubs[e].todo
      /\ pubs' = [pubs EXCEPT ![e].todo = @ \ {c}]
      /\ offered' = IF Matches(e, ScopeOf[c]) THEN [offered EXCEPT ![c] = @ \cup {e}] ELSE offered
      /\ UNCHANGED <<conns, before, written>>
  BY DEF Offer, hub
<1>2. Types'
  BY <1>1 DEF IInv, Types, Pub
<1>3. Loops'
  BY <1>1 DEF IInv, Types, Pub, Loops
<1>4. Stored'
  BY <1>1 DEF IInv, Types, Pub, Stored
<1>5. Covered'
  <2> SUFFICES ASSUME NEW d \in Events, NEW x \in Clients, conns[x] = "open",
                      Matches(d, ScopeOf[x]), Past(d, x)'
               PROVE  d \in before[x] \cup offered'[x]
    BY <1>1 DEF Covered, Matches
  <2>1. offered[x] \subseteq offered'[x]
    BY <1>1 DEF IInv, Types
  <2>2. CASE d = e /\ x = c
    BY <1>1, <2>2 DEF IInv, Types
  <2>3. CASE ~ (d = e /\ x = c)
    <3>1. Past(d, x)
      BY <1>1, <2>3 DEF IInv, Types, Pub, Past
    <3> QED BY <2>1, <3>1 DEF IInv, Covered
  <2> QED BY <2>2, <2>3
<1> QED BY <1>2, <1>3, <1>4, <1>5 DEF IInv

\* A call returns with nobody left to visit, so it was past every client before.
LEMMA ReturnKeeps ==
  ASSUME IInv, NEW e \in Events, Return(e)
  PROVE  IInv'
<1>1. /\ pubs[e].fanning /\ pubs[e].todo = {} /\ pubs[e].finished = 1
      /\ pubs' = [pubs EXCEPT ![e].finished = @ + 1, ![e].fanning = FALSE]
      /\ UNCHANGED <<conns, before, offered, written>>
  BY DEF IInv, Loops, Return, hub
<1>2. Types'
  BY <1>1 DEF IInv, Types, Pub
<1>3. Loops'
  BY <1>1 DEF IInv, Types, Pub, Loops
<1>4. Stored'
  BY <1>1 DEF IInv, Types, Pub, Stored
<1>5. Covered'
  <2> SUFFICES ASSUME NEW d \in Events, NEW x \in Clients, conns[x] = "open",
                      Matches(d, ScopeOf[x]), Past(d, x)'
               PROVE  Past(d, x)
    BY <1>1 DEF IInv, Covered, Matches
  <2> QED BY <1>1 DEF IInv, Types, Pub, Past
<1> QED BY <1>2, <1>3, <1>4, <1>5 DEF IInv

\* Nobody sends while a client subscribes: what is finished is in the ring.
LEMMA SubscribeKeeps ==
  ASSUME IInv, NEW c \in Clients, Subscribe(c)
  PROVE  IInv'
<1>1. /\ conns[c] = "away" /\ \A e \in Events : ~ pubs[e].fanning
      /\ conns' = [conns EXCEPT ![c] = "open"]
      /\ before' = [before EXCEPT ![c] = ToSet(written)]
      /\ UNCHANGED <<pubs, offered, written>>
  BY DEF Subscribe, NobodyFans, hub
<1>2. ToSet(written) \subseteq Events
  BY DEF IInv, Types, ToSet
<1>3. Types'
  BY <1>1, <1>2 DEF IInv, Types
<1>4. Loops'
  BY <1>1 DEF IInv, Types, Loops
<1>5. Stored'
  BY <1>1 DEF IInv, Stored
<1>6. Covered'
  <2> SUFFICES ASSUME NEW d \in Events, NEW x \in Clients, conns'[x] = "open",
                      Matches(d, ScopeOf[x]), Past(d, x)
               PROVE  d \in before'[x] \cup offered[x]
    BY <1>1 DEF Covered, Matches, Past
  <2>1. pubs[d].finished = 2
    BY <1>1 DEF Past
  <2>2. CASE x = c
    BY <1>1, <2>1, <2>2 DEF IInv, Types, Stored
  <2>3. CASE x # c
    BY <1>1, <2>3 DEF IInv, Types, Covered
  <2> QED BY <2>2, <2>3
<1> QED BY <1>3, <1>4, <1>5, <1>6 DEF IInv

\* Closing a connection, in either of its steps, opens none.
LEMMA LeavingKeeps ==
  ASSUME IInv, NEW c \in Clients, Unregister(c) \/ CloseChannel(c)
  PROVE  IInv'
<1>1. /\ \E state \in {"removed", "closed"} : conns' = [conns EXCEPT ![c] = state]
      /\ UNCHANGED <<pubs, before, offered, written>>
  BY DEF Unregister, CloseChannel, hub
<1>2. Types'
  BY <1>1 DEF IInv, Types
<1>3. \A e \in Events : c \notin pubs[e].todo
  <2>1. CASE Unregister(c)
    BY <2>1 DEF IInv, Loops, Unregister, NobodyFans
  <2>2. CASE CloseChannel(c)
    BY <2>2 DEF IInv, Loops, CloseChannel
  <2> QED BY <2>1, <2>2
<1>4. Loops'
  BY <1>1, <1>3 DEF IInv, Types, Loops
<1>5. Stored'
  BY <1>1 DEF IInv, Stored
<1>6. Covered'
  BY <1>1 DEF IInv, Types, Covered, Past, Matches
<1> QED BY <1>2, <1>4, <1>5, <1>6 DEF IInv

\* Reading a channel, and stuttering, touch nothing the invariant speaks of.
LEMMA OthersKeep ==
  ASSUME IInv, UNCHANGED <<pubs, conns, before, offered, written>>
  PROVE  IInv'
BY DEF IInv, Types, Loops, Stored, Covered, Past, Matches

\* Each step of the hub keeps the invariant.
LEMMA NextKeeps == IInv /\ [Next]_vars => IInv'
<1> SUFFICES ASSUME IInv, [Next]_vars PROVE IInv'
  OBVIOUS
<1>1. ASSUME NEW e \in Events, Store(e) \/ FanOut(e) \/ Return(e) \/ \E c \in Clients : Offer(e, c)
      PROVE  IInv'
  BY <1>1, StoreKeeps, FanOutKeeps, ReturnKeeps, OfferKeeps
<1>2. ASSUME NEW c \in Clients, Subscribe(c) \/ Unregister(c) \/ CloseChannel(c)
      PROVE  IInv'
  BY <1>2, SubscribeKeeps, LeavingKeeps
<1>3. ASSUME NEW c \in Clients, Receive(c)
      PROVE  IInv'
  BY <1>3, OthersKeep DEF Receive, hub
<1>4. CASE UNCHANGED vars
  BY <1>4, OthersKeep DEF vars, hub
<1> QED BY <1>1, <1>2, <1>3, <1>4 DEF Next

LEMMA InitHolds == Init => IInv
<1> SUFFICES ASSUME Init PROVE IInv
  OBVIOUS
<1>1. Types
  BY DEF Init, Types, Pub, Fresh
<1>2. Loops /\ Stored /\ Covered
  BY DEF Init, Fresh, Loops, Stored, Covered, Past
<1> QED BY <1>1, <1>2 DEF IInv

\* The invariant holds of every reachable state of the hub.
THEOREM InductiveInvariant == Spec => []IInv
BY InitHolds, NextKeeps, PTL DEF Spec

\* Page and stream of a client that subscribes first leave no gap: NoGap for
\* any number of concurrent publishers (hub.go's Publish and Subscribe).
THEOREM NothingIsMissed == Spec => []NoGap
<1>1. IInv => NoGap
  <2>1. Len(Halves) = 2
    BY DEF Halves
  <2> QED BY <2>1 DEF IInv, Covered, Past, NoGap
<1> QED BY <1>1, InductiveInvariant, PTL

\* No publisher panics: NoSendOnClosed for any number of clients that come and
\* go (Subscription.Close).
THEOREM NobodyPanics == Spec => []NoSendOnClosed
<1>1. IInv => NoSendOnClosed
  BY DEF IInv, Types, Pub, Loops, NoSendOnClosed
<1> QED BY <1>1, InductiveInvariant, PTL
-----------------------------------------------------------------------------
(* The ring *)

\* The place of the i-th newest event when the head is h.
Slot(h, i) == (h - i + RingSize) % RingSize

\* The ring holds the newest events that entered it, back from its head.
Ring ==
  /\ filled = Least(RingSize, Len(written))
  /\ \A i \in 1..filled : ring[Slot(head, i)] = written[Len(written) - i + 1]

RingInv == TypeOK /\ IInv /\ Ring

\* Going back from the head, with the wrap spelled out.
LEMMA SlotWraps ==
  ASSUME NEW h \in Slots, NEW i \in 1..RingSize
  PROVE  Slot(h, i) = (IF i <= h THEN h - i ELSE h - i + RingSize) /\ Slot(h, i) \in Slots
<1>1. RingSize \in Nat /\ RingSize > 0 /\ h \in Int /\ i \in Int
  BY SizesAssumption DEF Slots
<1>2. ASSUME NEW a \in Slots
      PROVE  a % RingSize = a /\ (a + RingSize) % RingSize = a
  BY <1>1 DEF Slots
<1>3. CASE i <= h
  <2>1. h - i \in Slots
    BY <1>1, <1>3 DEF Slots
  <2> QED BY <1>2, <1>3, <2>1 DEF Slot
<1>4. CASE ~ (i <= h)
  <2>1. h - i + RingSize \in Slots
    BY <1>1, <1>4 DEF Slots
  <2> QED BY <1>2, <1>4, <2>1 DEF Slot
<1> QED BY <1>3, <1>4

\* The head moves on, and back round to the first slot.
LEMMA HeadWraps ==
  ASSUME NEW h \in Slots
  PROVE  (h + 1) % RingSize = (IF h + 1 = RingSize THEN 0 ELSE h + 1) /\ (h + 1) % RingSize \in Slots
<1>1. RingSize \in Nat /\ RingSize > 0 /\ h \in Int
  BY SizesAssumption DEF Slots
<1>2. CASE h + 1 = RingSize
  BY <1>1, <1>2 DEF Slots
<1>3. CASE h + 1 # RingSize
  BY <1>1, <1>3 DEF Slots
<1> QED BY <1>2, <1>3

\* After a store the newest event is where the head was, and each other event is
\* one further back; the one that was RingSize back is overwritten.
LEMMA StoreMovesSlots ==
  ASSUME NEW h \in Slots, NEW g, g = (h + 1) % RingSize
  PROVE  /\ Slot(g, 1) = h
         /\ \A i \in 1..RingSize - 1 : Slot(g, i + 1) = Slot(h, i) /\ Slot(h, i) # h
<1>1. RingSize \in Nat /\ RingSize > 0 /\ h \in 0..RingSize-1 /\ g \in Slots
      /\ g = (IF h + 1 = RingSize THEN 0 ELSE h + 1)
  BY SizesAssumption, HeadWraps DEF Slots
<1>2. Slot(g, 1) = h
  <2>1. Slot(g, 1) = (IF 1 <= g THEN g - 1 ELSE g - 1 + RingSize)
    BY <1>1, SlotWraps
  <2> QED BY <1>1, <2>1
<1>3. ASSUME NEW i \in 1..RingSize - 1
      PROVE  Slot(g, i + 1) = Slot(h, i) /\ Slot(h, i) # h
  <2>1. Slot(g, i + 1) = (IF i + 1 <= g THEN g - (i + 1) ELSE g - (i + 1) + RingSize)
    BY <1>1, SlotWraps
  <2>2. Slot(h, i) = (IF i <= h THEN h - i ELSE h - i + RingSize)
    BY <1>1, SlotWraps
  <2> QED BY <1>1, <2>1, <2>2
<1> QED BY <1>2, <1>3

LEMMA StoreKeepsRing ==
  ASSUME RingInv, NEW e \in Events, Store(e)
  PROVE  Ring' /\ ring' \in [Slots -> Events \cup {None}] /\ head' \in Slots /\ filled' \in 0..RingSize
<1>1. /\ ring \in [Slots -> Events \cup {None}] /\ head \in Slots /\ filled \in 0..RingSize
      /\ written \in Seq(Events) /\ RingSize \in Nat /\ RingSize > 0
      /\ filled = (IF RingSize < Len(written) THEN RingSize ELSE Len(written))
      /\ \A i \in 1..filled : ring[Slot(head, i)] = written[Len(written) - i + 1]
  BY SizesAssumption DEF RingInv, Ring, TypeOK, IInv, Types, Least
<1>2. /\ ring' = [ring EXCEPT ![head] = e] /\ head' = (head + 1) % RingSize
      /\ filled' = (IF filled < RingSize THEN filled + 1 ELSE filled) /\ written' = Append(written, e)
  BY DEF Store
<1>3. /\ ring' \in [Slots -> Events \cup {None}] /\ head' \in Slots /\ filled' \in 0..RingSize
  BY <1>1, <1>2, HeadWraps
<1>4. /\ Len(written') = Len(written) + 1 /\ written'[Len(written) + 1] = e
      /\ \A i \in 1..Len(written) : written'[i] = written[i]
      /\ Len(written) \in Nat
  BY <1>1, <1>2
<1>5. filled' = Least(RingSize, Len(written'))
  BY <1>1, <1>2, <1>4 DEF Least
<1>6. ASSUME NEW i \in 1..filled'
      PROVE  ring'[Slot(head', i)] = written'[Len(written') - i + 1]
  <2>1. CASE i = 1
    <3>1. Slot(head', i) = head
      BY <1>1, <1>2, <2>1, StoreMovesSlots
    <3>2. ring'[head] = e
      BY <1>1, <1>2
    <3>3. Len(written') - i + 1 = Len(written) + 1
      BY <1>4, <2>1
    <3> QED BY <1>4, <3>1, <3>2, <3>3
  <2>2. CASE i # 1
    <3>1. PICK j \in 1..RingSize - 1 : i = j + 1 /\ j \in 1..filled /\ Len(written) - j + 1 \in 1..Len(written)
      <4>1. i - 1 \in 1..RingSize - 1 /\ i = (i - 1) + 1 /\ i - 1 \in 1..filled
            /\ Len(written) - (i - 1) + 1 \in 1..Len(written)
        BY <1>1, <1>2, <1>3, <1>4, <2>2
      <4> QED BY <4>1
    <3>2. Slot(head', i) = Slot(head, j) /\ Slot(head, j) # head /\ Slot(head, j) \in Slots
      <4>1. j \in 1..RingSize
        BY <1>1
      <4> QED BY <1>1, <1>2, <3>1, <4>1, StoreMovesSlots, SlotWraps
    <3>3. ring'[Slot(head, j)] = ring[Slot(head, j)]
      BY <1>1, <1>2, <3>2
    <3>4. Len(written') - i + 1 = Len(written) - j + 1
      BY <1>4, <3>1
    <3> QED BY <1>1, <1>4, <3>1, <3>2, <3>3, <3>4
  <2> QED BY <2>1, <2>2
<1> QED BY <1>3, <1>5, <1>6 DEF Ring

\* A full channel takes nothing; the ring's indices stay where they are.
LEMMA TypesKeep ==
  ASSUME RingInv, IInv', [Next]_vars
  PROVE  TypeOK'
<1>1. /\ pubs' \in [Events -> [finished : 0..2, fanning : BOOLEAN, todo : SUBSET Clients]]
      /\ conns' \in [Clients -> {"away", "open", "removed", "closed"}]
  BY DEF IInv, Types, Pub
<1>2. /\ ring \in [Slots -> Events \cup {None}] /\ head \in Slots /\ filled \in 0..RingSize
      /\ \A c \in Clients : chan[c] \in Seq(Events) /\ Len(chan[c]) <= ChanSize
  BY DEF RingInv, TypeOK
<1>3. ring' \in [Slots -> Events \cup {None}] /\ head' \in Slots /\ filled' \in 0..RingSize
  <2>1. (\E e \in Events : Store(e)) \/ UNCHANGED hub
    BY DEF Next, vars, FanOut, Return, Offer, Subscribe, Receive, Unregister, CloseChannel
  <2> QED BY <1>2, <2>1, StoreKeepsRing DEF hub
<1>4. ASSUME NEW c \in Clients
      PROVE  chan'[c] \in Seq(Events) /\ Len(chan'[c]) <= ChanSize
  <2>1. \/ chan' = chan
        \/ \E e \in Events, d \in Clients : Len(chan[d]) < ChanSize /\ chan' = [chan EXCEPT ![d] = Append(@, e)]
        \/ \E d \in Clients : chan[d] # <<>> /\ chan' = [chan EXCEPT ![d] = Tail(@)]
    BY DEF Next, vars, Store, FanOut, Return, Offer, Subscribe, Receive, Unregister, CloseChannel
  <2>2. ChanSize \in Nat
    BY SizesAssumption
  <2>3. ASSUME NEW e \in Events, NEW s \in Seq(Events), Len(s) < ChanSize
        PROVE  Append(s, e) \in Seq(Events) /\ Len(Append(s, e)) <= ChanSize
    BY <2>2, <2>3
  <2>4. ASSUME NEW s \in Seq(Events), s # <<>>, Len(s) <= ChanSize
        PROVE  Tail(s) \in Seq(Events) /\ Len(Tail(s)) <= ChanSize
    BY <2>2, <2>4
  <2>5. ASSUME NEW d, NEW new, chan' = [chan EXCEPT ![d] = new], d = c => new \in Seq(Events) /\ Len(new) <= ChanSize
        PROVE  chan'[c] \in Seq(Events) /\ Len(chan'[c]) <= ChanSize
    BY <1>2, <2>5
  <2> QED BY <1>2, <2>1, <2>3, <2>4, <2>5
<1> QED BY <1>1, <1>3, <1>4 DEF TypeOK

\* The invariant of the page: the one of the stream and the contents of the ring.
LEMMA RingInvariant == Spec => []RingInv
<1>1. Init => RingInv
  <2> SUFFICES ASSUME Init PROVE RingInv
    OBVIOUS
  <2>1. IInv
    BY InitHolds
  <2>2. RingSize \in Nat /\ RingSize > 0 /\ ChanSize \in Nat
    BY SizesAssumption
  <2>3. \A c \in Clients : chan[c] \in Seq(Events) /\ Len(chan[c]) <= ChanSize
    BY <2>2 DEF Init
  <2>4. TypeOK
    BY <2>1, <2>2, <2>3 DEF IInv, Types, Pub, TypeOK, Init, Slots
  <2>5. Ring
    BY <2>2 DEF Init, Ring, Least
  <2> QED BY <2>1, <2>4, <2>5 DEF RingInv
<1>2. RingInv /\ [Next]_vars => RingInv'
  <2> SUFFICES ASSUME RingInv, [Next]_vars PROVE RingInv'
    OBVIOUS
  <2>1. IInv'
    BY NextKeeps DEF RingInv
  <2>2. TypeOK'
    BY <2>1, TypesKeep
  <2>3. Ring'
    <3>1. CASE \E e \in Events : Store(e)
      BY <3>1, StoreKeepsRing
    <3>2. CASE UNCHANGED hub
      BY <3>2 DEF RingInv, Ring, hub, Slot
    <3>3. (\E e \in Events : Store(e)) \/ UNCHANGED hub
      BY DEF Next, vars, FanOut, Return, Offer, Subscribe, Receive, Unregister, CloseChannel
    <3> QED BY <3>1, <3>2, <3>3
  <2> QED BY <2>1, <2>2, <2>3 DEF RingInv
<1> QED BY <1>1, <1>2, PTL DEF Spec

\* Type correctness: the ring's indices, the calls and the channels.
THEOREM TypeCorrect == Spec => []TypeOK
<1>1. RingInv => TypeOK
  BY DEF RingInv
<1> QED BY <1>1, RingInvariant, PTL

\* The last n elements of a sequence, backwards.
LEMMA LastOfSeq ==
  ASSUME NEW s \in Seq(Events), NEW n \in Nat, n <= Len(s)
  PROVE  /\ Len(SubSeq(s, Len(s) - n + 1, Len(s))) = n
         /\ \A i \in 1..n : SubSeq(s, Len(s) - n + 1, Len(s))[(n - i) + 1] = s[Len(s) - i + 1]
<1>1. \A l \in Nat : n <= l =>
        /\ l - n + 1 \in Int /\ l - n + 1 >= 1 /\ l - (l - n + 1) + 1 = n
        /\ l - n + 1 <= l <=> n >= 1
        /\ \A i \in 1..n : (n - i) + 1 \in 1..n /\ (l - n + 1) + ((n - i) + 1) - 1 = l - i + 1
  OBVIOUS
<1>2. PICK l \in Nat, m \in Int :
        /\ l = Len(s) /\ m = l - n + 1 /\ m >= 1 /\ l - m + 1 = n /\ (m <= l <=> n >= 1)
        /\ \A i \in 1..n : (n - i) + 1 \in 1..n /\ m + ((n - i) + 1) - 1 = l - i + 1
  BY <1>1
<1>3. \A i \in m..l : s[i] \in Events
  BY <1>2
<1>4. /\ Len(SubSeq(s, m, l)) = IF m <= l THEN l - m + 1 ELSE 0
      /\ \A i \in 1..l - m + 1 : SubSeq(s, m, l)[i] = s[m + i - 1]
  BY <1>3, SubSeqProperties
<1>5. Len(SubSeq(s, m, l)) = n
  BY <1>2, <1>4
<1>6. \A i \in 1..n : SubSeq(s, m, l)[(n - i) + 1] = s[l - i + 1]
  BY <1>2, <1>4
<1> QED BY <1>2, <1>5, <1>6

\* What Recent walks over is the end of the history, backwards.
LEMMA RingIsNewest ==
  ASSUME RingInv, NEW kept,
         kept = SubSeq(written, Len(written) - Least(RingSize, Len(written)) + 1, Len(written))
  PROVE  [i \in 1..filled |-> ring[(head - i + RingSize) % RingSize]] = Reverse(kept)
<1>1. /\ written \in Seq(Events) /\ Len(written) \in Nat /\ RingSize \in Nat
      /\ filled = (IF RingSize < Len(written) THEN RingSize ELSE Len(written))
      /\ filled = Least(RingSize, Len(written))
      /\ \A i \in 1..filled : ring[(head - i + RingSize) % RingSize] = written[Len(written) - i + 1]
  BY SizesAssumption DEF RingInv, IInv, Types, Ring, Slot, Least
<1>2. filled \in Nat /\ filled <= Len(written)
  BY <1>1
<1>3. Len(kept) = filled
  BY <1>1, <1>2, LastOfSeq, Zenon
<1>4. ASSUME NEW i \in 1..filled
      PROVE  ring[(head - i + RingSize) % RingSize] = kept[(Len(kept) - i) + 1]
  BY <1>1, <1>2, <1>3, LastOfSeq, Zenon
<1> QED BY <1>3, <1>4 DEF Reverse

\* GET /activity shows the newest events of the history, wherever the ring has
\* wrapped to, for any size of it (hub.go's Publish and Recent).
THEOREM PageIsLatest == Spec => []RecentIsLatest
<1>1. RingInv => RecentIsLatest
  <2> SUFFICES ASSUME RingInv, NEW key, NEW n, NEW kept,
                      kept = SubSeq(written, Len(written) - Least(RingSize, Len(written)) + 1, Len(written))
               PROVE  Recent(key, n) = SubSeq(VisibleTo(key, Reverse(kept)), 1,
                                              Least(n, Len(VisibleTo(key, Reverse(kept)))))
    BY Zenon DEF RecentIsLatest
  <2>1. [i \in 1..filled |-> ring[(head - i + RingSize) % RingSize]] = Reverse(kept)
    BY RingIsNewest
  <2> QED BY <2>1, Zenon DEF Recent, Least
<1> QED BY <1>1, RingInvariant, PTL
=============================================================================
