----------------------------- MODULE ActivityHub -----------------------------
(***************************************************************************)
(* Hermes' activity stream (hermes/internal/activityhub): a ring of the    *)
(* last events under one lock, and the subscribers of GET /events under    *)
(* another.  Publish takes the two locks one after the other, so writers,  *)
(* subscribers and readers interleave between and during its two halves.   *)
(***************************************************************************)
EXTENDS Integers, FiniteSets, Sequences, SequencesExt

CONSTANTS
  Events,    \* events that may be published, each once
  KeyOf,     \* Events -> the publisher's API key, or Public
  Clients,   \* connections to GET /events, each opened once
  ScopeOf,   \* Clients -> an API key, or All for administrators
  Public,    \* APIKey = "" of an event
  All,       \* key = "" of a subscriber or reader
  RingSize,  \* ringSize
  ChanSize,  \* the capacity of a subscriber's channel
  MaxCalls,  \* bound on the Publish calls in progress
  None

ASSUME SizesAssumption == RingSize \in Nat \ {0} /\ ChanSize \in Nat \ {0} /\ MaxCalls \in Nat

VARIABLES
  ring, head, filled,  \* Hub.ring, Hub.head and Hub.len
  pubs,    \* the Publish calls: halves finished, and the current loop over subs
  conns,   \* each client's connection: "away", "open", "removed" or "closed"
  chan,    \* its channel
  written, \* history: the events in the order they entered the ring
  before,  \* history: the events in `written` when a client subscribed
  offered  \* history: the events a client was sent or, its channel full, not

hub  == <<ring, head, filled, written>>
vars == <<hub, pubs, conns, chan, before, offered>>

Slots == 0..RingSize-1

\* The order of Publish's two lock sections.  Mutant: the events go out first.
Halves_Swapped == <<"fan out", "ring">>
Halves == <<"ring", "fan out">>

Fresh == [finished |-> 0, fanning |-> FALSE, todo |-> {}]

Init ==
  /\ ring    = [i \in Slots |-> None]
  /\ head    = 0
  /\ filled  = 0
  /\ pubs    = [e \in Events |-> Fresh]
  /\ conns   = [c \in Clients |-> "away"]
  /\ chan    = [c \in Clients |-> <<>>]
  /\ written = <<>>
  /\ before  = [c \in Clients |-> {}]
  /\ offered = [c \in Clients |-> {}]
-----------------------------------------------------------------------------
(* Publish *)

Begun(e) == pubs[e] # Fresh /\ pubs[e].finished < Len(Halves)

\* Call e is about to enter one of its sections, which for a new call is bounded.
AtHalf(e, half) ==
  /\ pubs[e].finished < Len(Halves) /\ Halves[pubs[e].finished + 1] = half
  /\ Begun(e) \/ Cardinality({d \in Events : Begun(d)}) < MaxCalls

\* Mutant: the head is not wrapped.
Store_NoWrap(e) ==
  /\ AtHalf(e, "ring")
  /\ ring'    = [ring EXCEPT ![head] = e]
  /\ head'    = head + 1
  /\ filled'  = IF filled < RingSize THEN filled + 1 ELSE filled
  /\ written' = Append(written, e)
  /\ pubs'    = [pubs EXCEPT ![e].finished = @ + 1]
  /\ UNCHANGED <<conns, chan, before, offered>>

\* The section under mu.
Store(e) ==
  /\ AtHalf(e, "ring")
  /\ ring'    = [ring EXCEPT ![head] = e]
  /\ head'    = (head + 1) % RingSize
  /\ filled'  = IF filled < RingSize THEN filled + 1 ELSE filled
  /\ written' = Append(written, e)
  /\ pubs'    = [pubs EXCEPT ![e].finished = @ + 1]
  /\ UNCHANGED <<conns, chan, before, offered>>

\* subsMu.RLock: readers share it, so several loops run side by side.
FanOut(e) ==
  /\ AtHalf(e, "fan out") /\ ~ pubs[e].fanning
  /\ pubs' = [pubs EXCEPT ![e].fanning = TRUE,
                          ![e].todo = {c \in Clients : conns[c] = "open"}]
  /\ UNCHANGED <<hub, conns, chan, before, offered>>

Matches(e, key) == key = All \/ KeyOf[e] = Public \/ KeyOf[e] = key

\* Mutant: the send waits for room.
Offer_Blocks(e, c) ==
  /\ c \in pubs[e].todo
  /\ Matches(e, ScopeOf[c]) => Len(chan[c]) < ChanSize
  /\ IF Matches(e, ScopeOf[c])
     THEN /\ chan' = [chan EXCEPT ![c] = Append(@, e)]
          /\ offered' = [offered EXCEPT ![c] = @ \cup {e}]
     ELSE UNCHANGED <<chan, offered>>
  /\ pubs' = [pubs EXCEPT ![e].todo = @ \ {c}]
  /\ UNCHANGED <<hub, conns, before>>

\* One round of the loop; a full channel drops the event for this client.
Offer(e, c) ==
  /\ c \in pubs[e].todo
  /\ IF Matches(e, ScopeOf[c])
     THEN /\ chan' = IF Len(chan[c]) < ChanSize THEN [chan EXCEPT ![c] = Append(@, e)] ELSE chan
          /\ offered' = [offered EXCEPT ![c] = @ \cup {e}]
     ELSE UNCHANGED <<chan, offered>>
  /\ pubs' = [pubs EXCEPT ![e].todo = @ \ {c}]
  /\ UNCHANGED <<hub, conns, before>>

\* subsMu.RUnlock.
Return(e) ==
  /\ pubs[e].fanning /\ pubs[e].todo = {}
  /\ pubs' = [pubs EXCEPT ![e].finished = @ + 1, ![e].fanning = FALSE]
  /\ UNCHANGED <<hub, conns, chan, before, offered>>
-----------------------------------------------------------------------------
(* Subscribers *)

\* subsMu can be locked exclusively.
NobodyFans == \A e \in Events : ~ pubs[e].fanning

Subscribe(c) ==
  /\ conns[c] = "away"
  /\ NobodyFans
  /\ conns'  = [conns EXCEPT ![c] = "open"]
  /\ before' = [before EXCEPT ![c] = ToSet(written)]
  /\ UNCHANGED <<hub, pubs, chan, offered>>

\* The handler's loop passes one event on to the client.
Receive(c) ==
  /\ conns[c] = "open" /\ chan[c] # <<>>
  /\ chan' = [chan EXCEPT ![c] = Tail(@)]
  /\ UNCHANGED <<hub, pubs, conns, before, offered>>

\* Mutant: the subscriber is deleted without the lock.
Unregister_NoLock(c) ==
  /\ conns[c] = "open"
  /\ conns' = [conns EXCEPT ![c] = "removed"]
  /\ UNCHANGED <<hub, pubs, chan, before, offered>>

\* Close, when the client's context ends: first the entry of subs goes,
Unregister(c) ==
  /\ conns[c] = "open"
  /\ NobodyFans
  /\ conns' = [conns EXCEPT ![c] = "removed"]
  /\ UNCHANGED <<hub, pubs, chan, before, offered>>

\* then, without the lock, the channel is closed.
CloseChannel(c) ==
  /\ conns[c] = "removed"
  /\ conns' = [conns EXCEPT ![c] = "closed"]
  /\ UNCHANGED <<hub, pubs, chan, before, offered>>

VisibleTo(key, events) == SelectSeq(events, LAMBDA e : Matches(e, key))

\* Mutant: the newest n are looked at, rather than n found.
Recent_LooksAtN(key, n) ==
  LET newest == [i \in 1..(IF n < filled THEN n ELSE filled) |-> ring[(head - i + RingSize) % RingSize]]
  IN  VisibleTo(key, newest)

\* GET /activity: up to n events the key may see, the newest first.
Recent(key, n) ==
  LET newestFirst == [i \in 1..filled |-> ring[(head - i + RingSize) % RingSize]]
      mine == VisibleTo(key, newestFirst)
  IN  SubSeq(mine, 1, IF n < Len(mine) THEN n ELSE Len(mine))

Next ==
  \/ \E e \in Events : Store(e) \/ FanOut(e) \/ Return(e) \/ \E c \in Clients : Offer(e, c)
  \/ \E c \in Clients : Subscribe(c) \/ Receive(c) \/ Unregister(c) \/ CloseChannel(c)

Spec == Init /\ [][Next]_vars

\* The goroutine of a Publish that has begun runs on; a client may read as
\* slowly as it likes, or never.
Fairness ==
  \A e \in Events :
    WF_vars(FanOut(e)) /\ WF_vars(Return(e)) /\ \A c \in Clients : WF_vars(Offer(e, c))

FairSpec == Spec /\ Fairness
-----------------------------------------------------------------------------
\* The ring's indices, the calls and the channels; no channel exceeds its size.
TypeOK ==
  /\ ring \in [Slots -> Events \cup {None}] /\ head \in Slots /\ filled \in 0..RingSize
  /\ pubs \in [Events -> [finished : 0..2, fanning : BOOLEAN, todo : SUBSET Clients]]
  /\ conns \in [Clients -> {"away", "open", "removed", "closed"}]
  /\ \A c \in Clients : chan[c] \in Seq(Events) /\ Len(chan[c]) <= ChanSize

Least(m, n) == IF m < n THEN m ELSE n

\* Recent, whatever the wrap of the ring: of the last RingSize events the newest
\* n that the key may see, the newest first.
RecentIsLatest ==
  \A key \in {ScopeOf[c] : c \in Clients}, n \in 1..RingSize :
    LET kept == SubSeq(written, Len(written) - Least(RingSize, Len(written)) + 1, Len(written))
        mine == VisibleTo(key, Reverse(kept))
    IN  Recent(key, n) = SubSeq(mine, 1, Least(n, Len(mine)))

\* A client that opens GET /events first and reads GET /activity afterwards has
\* no gap between the two, although Publish lets go of one lock before it takes
\* the other: each finished event was in the ring when it subscribed, or was
\* offered to its channel.  That is all it is told: what the ring has overwritten
\* by the time it is read, and what is offered to a full channel, it does not get.
NoGap ==
  \A c \in Clients, e \in Events :
    conns[c] = "open" /\ Matches(e, ScopeOf[c]) /\ pubs[e].finished = Len(Halves)
      => e \in before[c] \cup offered[c]

\* No Publish is about to send on a channel that Close has closed, which would
\* panic, although Close closes it without holding the lock.
NoSendOnClosed ==
  \A e \in Events : \A c \in pubs[e].todo : conns[c] # "closed"

\* Publish never waits for a client: once begun it returns, full channels and
\* clients that come and go notwithstanding.
PublishReturns ==
  \A e \in Events : (pubs[e].finished > 0) ~> (pubs[e].finished = Len(Halves))
=============================================================================
