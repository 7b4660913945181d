----------------------------- MODULE AgentStore -----------------------------
(***************************************************************************)
(* The live picture of agents: Forge's reporter on each host scans its     *)
(* processes and posts snapshots; Hermes' in-memory agent store merges     *)
(* them under one lock.  A scan takes time and is stamped at its end, by   *)
(* the clock of its host; the store compares the stamps with its own.  A   *)
(* post that timed out at the reporter may still arrive, after later ones. *)
(***************************************************************************)
EXTENDS Integers, FiniteSets

CONSTANTS
  Hosts,
  Agents,     \* agent ids
  HostOf,     \* Agents -> the host an id begins with
  Children,   \* the agents that links are posted for
  Parents,    \* the agents they are linked to
  TTL,        \* how long an agent stays visible unreported, in ticks
  ScanTime,   \* how long ps and the lsof of every agent take at most, together
  Clock,      \* host -> by how much its clock may be off from Hermes'
  Ahead,      \* host -> by how much its clock is fast at most
  MaxPosts,   \* bound on the scans and posts under way
  MaxNow,     \* bound on the time
  None

ASSUME HostOfAssumption == HostOf \in [Agents -> Hosts]
ASSUME LinkAssumption == Children \subseteq Agents /\ Parents \subseteq Agents
ASSUME TimesAssumption == {TTL, ScanTime, MaxNow} \subseteq Nat
ASSUME ClockAssumption ==
  \A h \in Hosts : Ahead[h] \in Int /\ \A d \in Clock[h] : d \in Int /\ d <= Ahead[h]

VARIABLES
  now,        \* by Hermes' clock
  ranAt,      \* when each agent was last alive: it runs now if that is now
  links,      \* each Forge's agentLinkStore: agent -> parent or None
  scans,      \* host -> what its reporter's ps has found, and when; None between scans
  flight,     \* snapshots posted and not yet applied or lost
  agents,     \* Store.agents: id -> record or None
  latest,     \* history: of the snapshots of each host that Hermes has applied since
              \* its start, stamp and agents of the one with the last stamp
  overtaken   \* history: hosts of which an earlier snapshot than that was applied since

vars == <<now, ranAt, links, scans, flight, agents, latest, overtaken>>

Times == 0..MaxNow

\* Agents not in the snapshot have no entry; a linked one carries its parent.
Snapshot == {s \in [host : Hosts, takenAt : Int, ids : SUBSET Agents,
                    parentOf : [Agents -> Parents \cup {None}]] :
               \A a \in s.ids : HostOf[a] = s.host}

Report == [takenAt : Int, ids : SUBSET Agents]

Agent == [lastSeen : Int, stale : BOOLEAN, parent : Parents \cup {None}]

ScanRecord == [at : Times, ids : SUBSET Agents]

ASSUME NoneAssumption == None \notin Times \cup Agent \cup Report \cup ScanRecord

Init ==
  /\ now     = 0
  /\ ranAt   \in [Agents -> {0, None}]
  /\ links   = [a \in Agents |-> None]
  /\ scans   = [h \in Hosts |-> None]
  /\ flight  = {}
  /\ agents  = [a \in Agents |-> None]
  /\ latest  = [h \in Hosts |-> None]
  /\ overtaken = {}
-----------------------------------------------------------------------------
(* The hosts *)

\* POST /agent/link: a later call for the same agent overwrites.
Link(a, p) ==
  /\ links[a] # p
  /\ links' = [links EXCEPT ![a] = p]
  /\ UNCHANGED <<now, ranAt, scans, flight, agents, latest, overtaken>>

\* A host's Forge starts anew: the links were in its memory, a scan is given up.
ForgeRestart(h) ==
  /\ scans[h] # None \/ \E a \in Agents : HostOf[a] = h /\ links[a] # None
  /\ links' = [a \in Agents |-> IF HostOf[a] = h THEN None ELSE links[a]]
  /\ scans' = [scans EXCEPT ![h] = None]
  /\ UNCHANGED <<now, ranAt, flight, agents, latest, overtaken>>

\* The agents that ps shows on a host.
OnHost(h) == {a \in Agents : HostOf[a] = h /\ ranAt[a] = now}

\* runPS: who runs now.  A scan that finds nobody is not posted.  The bound is the
\* last guard.
Scan(h) ==
  /\ scans[h] = None
  /\ OnHost(h) # {}
  /\ Cardinality(flight) + Cardinality({k \in Hosts : scans[k] # None}) < MaxPosts
  /\ scans' = [scans EXCEPT ![h] = [at |-> now, ids |-> OnHost(h)]]
  /\ UNCHANGED <<now, ranAt, links, flight, agents, latest, overtaken>>

\* resolveParentAgents: a parent is named if the same scan found it.
ScannedParent(a, ids) == IF {a, links[a]} \subseteq ids THEN links[a] ELSE None

\* The rest of fire: lsof has run for every agent found, the parents are looked up,
\* and the snapshot is stamped by the host's clock and posted.
Fire(h) ==
  /\ scans[h] # None
  /\ \E d \in Clock[h] :
       flight' = flight \cup
         {[host |-> h, takenAt |-> now + d, ids |-> scans[h].ids,
           parentOf |-> [a \in Agents |-> ScannedParent(a, scans[h].ids)]]}
  /\ scans' = [scans EXCEPT ![h] = None]
  /\ UNCHANGED <<now, ranAt, links, agents, latest, overtaken>>

Lose(s) ==
  /\ s \in flight
  /\ flight' = flight \ {s}
  /\ UNCHANGED <<now, ranAt, links, scans, agents, latest, overtaken>>

\* Time passes: agents end, start and run on, but no scan takes longer than
\* ScanTime.
Tick ==
  /\ now < MaxNow
  /\ \A h \in Hosts : scans[h] # None => now < scans[h].at + ScanTime
  /\ now' = now + 1
  /\ \E alive \in SUBSET Agents :
       ranAt' = [a \in Agents |-> IF a \in alive THEN now + 1 ELSE ranAt[a]]
  /\ UNCHANGED <<links, scans, flight, agents, latest, overtaken>>
-----------------------------------------------------------------------------
(* Hermes *)

\* Mutant: the record is returned for its parent.
existingParentID_Record(a) == agents[a]

existingParentID(a) == IF agents[a] = None THEN None ELSE agents[a].parent

\* Mutants: the time of receipt is taken for the time of the snapshot; the
\* parent is replaced like every other field.
prepareSnapshotAgent_SeenOnReceipt(a, snap) ==
  [lastSeen |-> now, stale |-> FALSE,
   parent |-> IF snap.parentOf[a] = None THEN existingParentID(a) ELSE snap.parentOf[a]]
prepareSnapshotAgent_DropsParent(a, snap) ==
  [lastSeen |-> snap.takenAt, stale |-> FALSE, parent |-> snap.parentOf[a]]

prepareSnapshotAgent(a, snap) ==
  [lastSeen |-> snap.takenAt, stale |-> FALSE,
   parent |-> IF snap.parentOf[a] = None THEN existingParentID(a) ELSE snap.parentOf[a]]

\* Mutant: the absent agents of every host are evicted.
shouldMarkStale_AnyHost(a, snap) ==
  /\ agents[a] # None
  /\ a \notin snap.ids
  /\ snap.takenAt >= agents[a].lastSeen

shouldMarkStale(a, snap) ==
  /\ agents[a] # None
  /\ HostOf[a] = snap.host
  /\ a \notin snap.ids
  /\ snap.takenAt >= agents[a].lastSeen

\* No snapshot of its host that was applied so far has a later stamp.
Newest(snap) == latest[snap.host] = None \/ latest[snap.host].takenAt <= snap.takenAt

Apply(snap) ==
  /\ snap \in flight
  /\ flight' = flight \ {snap}
  /\ agents' = [a \in Agents |->
       IF a \in snap.ids THEN prepareSnapshotAgent(a, snap)
       ELSE IF shouldMarkStale(a, snap) THEN [agents[a] EXCEPT !.stale = TRUE]
       ELSE agents[a]]
  /\ IF Newest(snap)
       THEN /\ latest' = [latest EXCEPT ![snap.host] = [takenAt |-> snap.takenAt, ids |-> snap.ids]]
            /\ overtaken' = overtaken \ {snap.host}
       ELSE overtaken' = overtaken \cup {snap.host} /\ UNCHANGED latest
  /\ UNCHANGED <<now, ranAt, links, scans>>

Expired(a) == agents[a].lastSeen + TTL < now

Visible(a) == agents[a] # None /\ ~ agents[a].stale /\ ~ Expired(a)

\* What GET /agents lists, and GET /agents/{id} finds.
Recent == {a \in Agents : Visible(a)}

\* The pruner's ticker, or an administrator's POST /agents/prune.
Prune ==
  /\ \E a \in Agents : agents[a] # None /\ ~ Visible(a)
  /\ agents' = [a \in Agents |-> IF Visible(a) THEN agents[a] ELSE None]
  /\ UNCHANGED <<now, ranAt, links, scans, flight, latest, overtaken>>

HermesRestart ==
  /\ \E a \in Agents : agents[a] # None
  /\ agents' = [a \in Agents |-> None]
  /\ latest' = [h \in Hosts |-> None]
  /\ overtaken' = {}
  /\ UNCHANGED <<now, ranAt, links, scans, flight>>

Next ==
  \/ \E a \in Children, p \in Parents : Link(a, p)
  \/ HermesRestart \/ Tick \/ Prune
  \/ \E h \in Hosts : Scan(h) \/ Fire(h) \/ ForgeRestart(h)
  \/ \E s \in flight : Apply(s) \/ Lose(s)

Spec == Init /\ [][Next]_vars
-----------------------------------------------------------------------------
\* The store's map, the reporters' scans and posts, and the history variables.
TypeOK ==
  /\ now \in Times
  /\ ranAt  \in [Agents -> Times \cup {None}]
  /\ links  \in [Agents -> Parents \cup {None}]
  /\ scans  \in [Hosts -> ScanRecord \cup {None}]
  /\ \A s \in flight : s \in Snapshot
  /\ agents \in [Agents -> Agent \cup {None}]
  /\ latest \in [Hosts -> Report \cup {None}]
  /\ overtaken \subseteq Hosts

\* The list shows of a host exactly what the snapshot with its last stamp contained,
\* until that is older than the TTL: nothing of an earlier one, nothing evicted by
\* another host, whatever was lost or pruned.  It is not so after a snapshot was
\* applied behind a later one, until the next that is not.  Agents that a snapshot
\* leaves out are gone at once, as Apply's comment has it, and not after the TTL,
\* as the comments on Snapshot and on the agent handler do.
ListIsLatest ==
  \A h \in Hosts \ overtaken :
    {a \in Recent : HostOf[a] = h} =
      IF latest[h] # None /\ latest[h].takenAt + TTL >= now THEN latest[h].ids ELSE {}

\* However late or disordered the posts, an agent that has ended is not shown for
\* ever: for the TTL, and for as long as its last scan took and the clock of its
\* host is fast.
ShownWasAlive ==
  \A a \in Recent :
    ranAt[a] # None /\ ranAt[a] + ScanTime + Ahead[HostOf[a]] + TTL >= now

\* "ParentID is preserved across snapshots": a record keeps its parent through
\* snapshots without one, a restart of Forge between them included.
ParentKept ==
  [][\A a \in Agents :
       agents[a] # None /\ agents[a].parent # None /\ agents'[a] # None
         => agents'[a].parent # None]_vars
=============================================================================
