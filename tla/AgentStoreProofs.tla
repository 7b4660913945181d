--------------------------- MODULE AgentStoreProofs ---------------------------
(***************************************************************************)
(* Proofs that the list of agents shows of every host the snapshot with    *)
(* the last stamp, unless it was overtaken, and nobody who has long been   *)
(* gone, for any hosts, agents, TTL, scan time and clocks.                 *)
(***************************************************************************)
EXTENDS AgentStore, TLAPS

\* An agent was alive no longer before the time t of a report than a scan takes and
\* the clock of the host is fast.
Claimed(a, t) == ranAt[a] # None /\ t <= ranAt[a] + ScanTime + Ahead[HostOf[a]]

\* The scan that is running on a host found who was alive when it began.
ScanTrue(h) ==
  scans[h] # None =>
    /\ scans[h].at <= now /\ now <= scans[h].at + ScanTime
    /\ \A a \in scans[h].ids : HostOf[a] = h /\ ranAt[a] # None /\ scans[h].at <= ranAt[a]

\* What Hermes knows of the agents, or is about to learn, is true.
Truthful ==
  /\ \A a \in Agents : ranAt[a] # None => ranAt[a] <= now
  /\ \A h \in Hosts : ScanTrue(h)
  /\ \A s \in flight : \A a \in s.ids : Claimed(a, s.takenAt)
  /\ \A a \in Agents : agents[a] # None => Claimed(a, agents[a].lastSeen)

\* No record is younger than the snapshot with the last stamp.
Behind(a, last) == agents[a] # None => last # None /\ agents[a].lastSeen <= last.takenAt

\* The record of an agent is that of the last snapshot, or was pruned when the
\* snapshot had expired.
Current(a, last) ==
  /\ agents[a] # None /\ ~ agents[a].stale =>
       last # None /\ a \in last.ids /\ agents[a].lastSeen = last.takenAt
  /\ last # None /\ a \in last.ids =>
       \/ agents[a] # None /\ ~ agents[a].stale
       \/ agents[a] = None /\ last.takenAt + TTL < now

UpToDate ==
  \A h \in Hosts :
    /\ latest[h] # None => \A a \in latest[h].ids : HostOf[a] = h
    /\ \A a \in Agents : HostOf[a] = h =>
         Behind(a, latest[h]) /\ (h \notin overtaken => Current(a, latest[h]))

\* The inductive invariant.  ListIsLatest says nothing of the scans and posts under
\* way, of the agents that are not listed, nor of a host that was overtaken, whose
\* next snapshot has to set everything right.
IInv == TypeOK /\ Truthful /\ UpToDate

\* A new link, or a scan given up, is not seen before the next post.
LEMMA HostsKeep ==
  ASSUME IInv, (\E a \in Children, p \in Parents : Link(a, p))
               \/ (\E h \in Hosts : ForgeRestart(h))
  PROVE  IInv'
<1> USE TimesAssumption, LinkAssumption, NoneAssumption
<1>1. UNCHANGED <<now, ranAt, flight, agents, latest, overtaken>>
  BY DEF Link, ForgeRestart
<1>2. \A h \in Hosts : scans'[h] \in {scans[h], None}
  BY DEF Link, ForgeRestart, IInv, TypeOK
<1>3. TypeOK'
  BY DEF IInv, TypeOK, Link, ForgeRestart
<1>4. Truthful'
  BY <1>1, <1>2 DEF IInv, Truthful, ScanTrue, Claimed
<1>5. UpToDate'
  BY <1>1 DEF IInv, UpToDate, Behind, Current
<1> QED BY <1>3, <1>4, <1>5 DEF IInv

\* A scan finds who runs now.
LEMMA ScanKeeps ==
  ASSUME IInv, NEW h \in Hosts, Scan(h)
  PROVE  IInv'
<1> USE TimesAssumption, NoneAssumption
<1> DEFINE scan == [at |-> now, ids |-> OnHost(h)]
<1>1. /\ scans' = [scans EXCEPT ![h] = scan]
      /\ UNCHANGED <<now, ranAt, links, flight, agents, latest, overtaken>>
  BY DEF Scan
<1>2. scan \in ScanRecord /\ scan.at = now /\ scan.ids = OnHost(h)
  BY DEF IInv, TypeOK, ScanRecord, OnHost
<1> HIDE DEF scan
<1>3. TypeOK'
  BY <1>1, <1>2 DEF IInv, TypeOK
<1>4. Truthful'
  <2>1. ASSUME NEW k \in Hosts PROVE ScanTrue(k)'
    <3>1. CASE k = h
      BY <1>1, <1>2, <3>1 DEF IInv, TypeOK, ScanTrue, OnHost, Times
    <3>2. CASE k # h
      BY <1>1, <3>2 DEF IInv, TypeOK, Truthful, ScanTrue
    <3> QED BY <3>1, <3>2
  <2> QED BY <1>1, <2>1 DEF IInv, Truthful, Claimed
<1>5. UpToDate'
  BY <1>1 DEF IInv, UpToDate, Behind, Current
<1> QED BY <1>3, <1>4, <1>5 DEF IInv

\* A snapshot is stamped no later than the scan takes and the clock is fast.
LEMMA FireKeeps ==
  ASSUME IInv, NEW h \in Hosts, Fire(h)
  PROVE  IInv'
<1> USE TimesAssumption, ClockAssumption, LinkAssumption, NoneAssumption
<1>1. PICK d \in Clock[h] :
        flight' = flight \cup
          {[host |-> h, takenAt |-> now + d, ids |-> scans[h].ids,
            parentOf |-> [a \in Agents |-> ScannedParent(a, scans[h].ids)]]}
  BY DEF Fire
<1> DEFINE snap == [host |-> h, takenAt |-> now + d, ids |-> scans[h].ids,
                    parentOf |-> [a \in Agents |-> ScannedParent(a, scans[h].ids)]]
<1>2. /\ flight' = flight \cup {snap} /\ scans[h] # None
      /\ scans' = [scans EXCEPT ![h] = None]
      /\ UNCHANGED <<now, ranAt, links, agents, latest, overtaken>>
  BY <1>1 DEF Fire
<1>3. scans[h] \in ScanRecord /\ ScanTrue(h) /\ d \in Int /\ d <= Ahead[h] /\ Ahead[h] \in Int
  BY <1>2 DEF IInv, TypeOK, Truthful
<1>4. snap \in Snapshot
  BY <1>2, <1>3 DEF IInv, TypeOK, Times, Snapshot, ScannedParent, ScanRecord, ScanTrue
<1>5. \A a \in snap.ids : Claimed(a, snap.takenAt)
  BY <1>2, <1>3 DEF IInv, TypeOK, Times, ScanRecord, ScanTrue, Claimed
<1> HIDE DEF snap
<1>6. TypeOK'
  BY <1>2, <1>4 DEF IInv, TypeOK
<1>7. \A k \in Hosts : ScanTrue(k)'
  BY <1>2 DEF IInv, TypeOK, Truthful, ScanTrue
<1>8. Truthful'
  BY <1>2, <1>5, <1>7 DEF IInv, Truthful, Claimed
<1>9. UpToDate'
  BY <1>2 DEF IInv, UpToDate, Behind, Current
<1> QED BY <1>6, <1>8, <1>9 DEF IInv

\* A post that is lost was never known of.
LEMMA LoseKeeps ==
  ASSUME IInv, NEW s \in flight, Lose(s)
  PROVE  IInv'
BY DEF Lose, IInv, TypeOK, Truthful, ScanTrue, Claimed, UpToDate, Behind, Current

\* Nobody was last alive earlier than was known, and no scan takes too long.
LEMMA TickKeeps ==
  ASSUME IInv, Tick
  PROVE  IInv'
<1> USE TimesAssumption, ClockAssumption, HostOfAssumption, NoneAssumption
<1>1. /\ now' = now + 1 /\ now' \in Times /\ now \in Times
      /\ \A h \in Hosts : scans[h] # None => now < scans[h].at + ScanTime
      /\ UNCHANGED <<links, scans, flight, agents, latest, overtaken>>
  BY DEF Tick, IInv, TypeOK, Times
<1>2. \A a \in Agents : ranAt'[a] \in {now + 1, ranAt[a]}
  BY DEF Tick
<1>3. ranAt' \in [Agents -> Times \cup {None}]
  BY <1>1 DEF Tick, IInv, TypeOK
<1>4. \A a \in Agents : ranAt[a] # None => ranAt'[a] # None /\ ranAt[a] <= ranAt'[a]
  BY <1>1, <1>2 DEF IInv, TypeOK, Truthful, Times
<1>5. TypeOK'
  BY <1>1, <1>3 DEF IInv, TypeOK
<1>6. ASSUME NEW a \in Agents, NEW t \in Int, Claimed(a, t)
      PROVE  Claimed(a, t)'
  BY <1>3, <1>4, <1>6 DEF IInv, TypeOK, Times, Claimed
<1>7. \A h \in Hosts : ScanTrue(h)'
  BY <1>1, <1>3, <1>4 DEF IInv, TypeOK, Truthful, ScanTrue, ScanRecord, Times
<1>8. \A s \in flight : \A a \in s.ids : Claimed(a, s.takenAt)'
  BY <1>6 DEF IInv, TypeOK, Truthful, Snapshot
<1>9. \A a \in Agents : agents[a] # None => Claimed(a, agents[a].lastSeen)'
  BY <1>1, <1>6 DEF IInv, TypeOK, Truthful, Agent
<1>10. \A a \in Agents : ranAt'[a] # None => ranAt'[a] <= now'
  BY <1>1, <1>2 DEF IInv, TypeOK, Truthful, Times
<1>11. Truthful'
  BY <1>1, <1>7, <1>8, <1>9, <1>10 DEF Truthful, Claimed
<1>12. UpToDate'
  BY <1>1 DEF IInv, TypeOK, UpToDate, Behind, Current, Times, Report
<1> QED BY <1>5, <1>11, <1>12 DEF IInv

\* The record a snapshot leaves of an agent it contains.
LEMMA PreparedAgent ==
  ASSUME TypeOK, NEW snap \in flight, NEW a \in snap.ids
  PROVE  /\ a \in Agents /\ HostOf[a] = snap.host
         /\ prepareSnapshotAgent(a, snap) \in Agent
         /\ prepareSnapshotAgent(a, snap).lastSeen = snap.takenAt
         /\ ~ prepareSnapshotAgent(a, snap).stale
BY DEF TypeOK, Snapshot, prepareSnapshotAgent, existingParentID, Agent

\* What Apply makes of the record of an agent.
LEMMA AppliedAgent ==
  ASSUME TypeOK, NEW snap \in flight, Apply(snap), NEW a \in Agents
  PROVE  /\ agents'[a] \in Agent \cup {None}
         /\ a \in snap.ids => agents'[a] = prepareSnapshotAgent(a, snap)
         /\ a \notin snap.ids =>
              IF shouldMarkStale(a, snap) THEN /\ agents'[a] \in Agent /\ agents'[a].stale
                                               /\ agents'[a].lastSeen = agents[a].lastSeen
                                               /\ agents'[a].parent = agents[a].parent
                                          ELSE agents'[a] = agents[a]
<1>1. agents'[a] = IF a \in snap.ids THEN prepareSnapshotAgent(a, snap)
                   ELSE IF shouldMarkStale(a, snap) THEN [agents[a] EXCEPT !.stale = TRUE]
                   ELSE agents[a]
  BY DEF Apply
<1>2. agents[a] \in Agent \cup {None}
  BY DEF TypeOK
<1> QED BY <1>1, <1>2, PreparedAgent DEF shouldMarkStale, Agent

\* A snapshot that arrives with the last stamp of its host replaces everything that
\* is known of the host; an earlier one leaves nothing younger than the last.
LEMMA ApplyKeeps ==
  ASSUME IInv, NEW snap \in flight, Apply(snap)
  PROVE  IInv'
<1> USE TimesAssumption, LinkAssumption, HostOfAssumption, NoneAssumption
<1> DEFINE report == [takenAt |-> snap.takenAt, ids |-> snap.ids]
<1>1. /\ flight' = flight \ {snap} /\ UNCHANGED <<now, ranAt, links, scans>>
      /\ snap \in Snapshot /\ snap.host \in Hosts
      /\ IF Newest(snap)
           THEN /\ latest' = [latest EXCEPT ![snap.host] = report]
                /\ overtaken' = overtaken \ {snap.host}
           ELSE overtaken' = overtaken \cup {snap.host} /\ latest' = latest
  BY DEF Apply, IInv, TypeOK, Snapshot
<1>2. report \in Report /\ report.takenAt = snap.takenAt /\ report.ids = snap.ids
  BY <1>1 DEF Snapshot, Report
<1> HIDE DEF report
<1>3. TypeOK'
  <2>1. agents' \in [Agents -> Agent \cup {None}]
    BY AppliedAgent DEF IInv, Apply
  <2>2. latest' \in [Hosts -> Report \cup {None}] /\ overtaken' \subseteq Hosts
    BY <1>1, <1>2 DEF IInv, TypeOK
  <2> QED BY <1>1, <2>1, <2>2 DEF IInv, TypeOK
<1>4. Truthful'
  <2>1. ASSUME NEW a \in Agents, agents'[a] # None
        PROVE  Claimed(a, agents'[a].lastSeen)
    <3>1. CASE a \in snap.ids
      BY <3>1, AppliedAgent, PreparedAgent DEF IInv, Truthful
    <3>2. CASE a \notin snap.ids /\ shouldMarkStale(a, snap)
      BY <3>2, AppliedAgent DEF IInv, Truthful, shouldMarkStale
    <3>3. CASE a \notin snap.ids /\ ~ shouldMarkStale(a, snap)
      BY <2>1, <3>3, AppliedAgent DEF IInv, Truthful
    <3> QED BY <3>1, <3>2, <3>3
  <2> QED BY <1>1, <2>1 DEF IInv, Truthful, ScanTrue, Claimed
<1>5. UpToDate'
  <2> SUFFICES ASSUME NEW h \in Hosts
               PROVE  /\ latest'[h] # None => \A a \in latest'[h].ids : HostOf[a] = h
                      /\ \A a \in Agents : HostOf[a] = h =>
                           /\ Behind(a, latest[h])'
                           /\ h \notin overtaken' => Current(a, latest[h])'
    BY DEF UpToDate
  <2>1. CASE h # snap.host
    <3>1. latest'[h] = latest[h] /\ (h \in overtaken' <=> h \in overtaken)
      BY <1>1, <2>1 DEF IInv, TypeOK
    <3>2. ASSUME NEW a \in Agents, HostOf[a] = h
          PROVE  agents'[a] = agents[a]
      BY <2>1, <3>2, AppliedAgent, PreparedAgent DEF IInv, shouldMarkStale
    <3> QED BY <1>1, <3>1, <3>2 DEF IInv, UpToDate, Behind, Current
  <2>2. CASE h = snap.host /\ Newest(snap)
    <3>1. latest'[h] = report /\ (latest[h] # None => latest[h].takenAt <= snap.takenAt)
      BY <1>1, <2>2 DEF IInv, TypeOK, Newest
    <3>2. \A a \in snap.ids : HostOf[a] = h
      BY <1>1, <2>2 DEF Snapshot
    <3>3. ASSUME NEW a \in Agents, HostOf[a] = h
          PROVE  Behind(a, latest[h])' /\ Current(a, latest[h])'
      <4>1. CASE a \in snap.ids
        BY <1>1, <1>2, <3>1, <4>1, AppliedAgent, PreparedAgent
           DEF IInv, Behind, Current, Snapshot
      <4>2. CASE a \notin snap.ids
        <5>1. agents[a] # None => /\ agents[a] \in Agent /\ latest[h] \in Report
                                  /\ agents[a].lastSeen <= latest[h].takenAt
          BY <3>3 DEF IInv, TypeOK, UpToDate, Behind
        <5>2. agents[a] # None => /\ agents[a].lastSeen <= snap.takenAt
                                  /\ shouldMarkStale(a, snap)
          BY <1>1, <2>2, <3>1, <3>3, <4>2, <5>1
             DEF shouldMarkStale, Snapshot, Agent, Report
        <5>3. latest'[h] # None /\ latest'[h].takenAt = snap.takenAt /\ latest'[h].ids = snap.ids
          BY <1>2, <3>1
        <5>4. agents'[a] # None => agents'[a].stale /\ agents'[a].lastSeen <= snap.takenAt
          <6>1. shouldMarkStale(a, snap) => agents[a] # None
            BY DEF shouldMarkStale
          <6> QED BY <4>2, <5>2, <6>1, AppliedAgent DEF IInv
        <5> QED BY <4>2, <5>3, <5>4 DEF Behind, Current
      <4> QED BY <4>1, <4>2
    <3> QED BY <1>2, <3>1, <3>2, <3>3
  <2>3. CASE h = snap.host /\ ~ Newest(snap)
    <3>1. /\ latest'[h] = latest[h] /\ h \in overtaken' /\ latest[h] \in Report
          /\ snap.takenAt <= latest[h].takenAt
      BY <1>1, <2>3 DEF IInv, TypeOK, Newest, Report, Snapshot
    <3>2. ASSUME NEW a \in Agents, HostOf[a] = h
          PROVE  Behind(a, latest[h])'
      <4>1. CASE a \in snap.ids
        BY <3>1, <4>1, AppliedAgent, PreparedAgent DEF IInv, Behind, Report
      <4>2. CASE a \notin snap.ids
        BY <3>1, <3>2, <4>2, AppliedAgent
           DEF IInv, UpToDate, Behind, Report, shouldMarkStale
      <4> QED BY <4>1, <4>2
    <3> QED BY <3>1, <3>2 DEF IInv, UpToDate
  <2> QED BY <2>1, <2>2, <2>3
<1> QED BY <1>3, <1>4, <1>5 DEF IInv

\* Only what nobody can see any more is pruned.
LEMMA PruneKeeps ==
  ASSUME IInv, Prune
  PROVE  IInv'
<1> USE TimesAssumption, NoneAssumption
<1>1. /\ \A a \in Agents : agents'[a] = IF Visible(a) THEN agents[a] ELSE None
      /\ UNCHANGED <<now, ranAt, links, scans, flight, latest, overtaken>>
  BY DEF Prune
<1>2. TypeOK'
  BY <1>1 DEF Prune, IInv, TypeOK
<1>3. Truthful'
  BY <1>1 DEF IInv, Truthful, ScanTrue, Claimed
<1>4. UpToDate'
  BY <1>1 DEF IInv, UpToDate, Behind, Current, Visible, Expired
<1> QED BY <1>2, <1>3, <1>4 DEF IInv

\* A restart forgets the snapshots with the agents.
LEMMA RestartKeeps ==
  ASSUME IInv, HermesRestart
  PROVE  IInv'
<1> USE TimesAssumption, NoneAssumption
<1>1. /\ agents' = [a \in Agents |-> None] /\ latest' = [h \in Hosts |-> None]
      /\ overtaken' = {}
      /\ UNCHANGED <<now, ranAt, links, scans, flight>>
  BY DEF HermesRestart
<1>2. TypeOK'
  BY <1>1 DEF IInv, TypeOK
<1>3. Truthful'
  BY <1>1 DEF IInv, Truthful, ScanTrue, Claimed
<1>4. UpToDate'
  BY <1>1 DEF IInv, UpToDate, Behind, Current
<1> QED BY <1>2, <1>3, <1>4 DEF IInv

LEMMA NextKeeps ==
  ASSUME IInv, [Next]_vars
  PROVE  IInv'
<1>1. CASE UNCHANGED vars
  BY <1>1 DEF vars, IInv, TypeOK, Truthful, ScanTrue, Claimed, UpToDate, Behind, Current
<1>2. CASE Next
  BY <1>2, HostsKeep, ScanKeeps, FireKeeps, LoseKeeps, TickKeeps, ApplyKeeps, PruneKeeps,
     RestartKeeps DEF Next
<1> QED BY <1>1, <1>2

LEMMA InitInvariant == Init => IInv
BY TimesAssumption, NoneAssumption
   DEF Init, IInv, TypeOK, Truthful, ScanTrue, Claimed, UpToDate, Behind, Current, Times

\* The inductive invariant holds in every behaviour: every scan and post under way
\* and every record names an agent that was alive at most ScanTime, and what its
\* host's clock is fast, before the stamp.
THEOREM InductiveInvariant == Spec => []IInv
BY InitInvariant, NextKeeps, PTL DEF Spec

\* Type correctness: the store's map, the scans, the posts and the histories keep
\* their shape.
THEOREM TypeCorrect == Spec => []TypeOK
<1>1. IInv => TypeOK
  BY DEF IInv
<1> QED BY <1>1, InductiveInvariant, PTL

\* GET /agents lists of a host exactly the agents of the snapshot with its last
\* stamp, until that is older than the TTL, unless an earlier one was applied since.
THEOREM ListCorrect == Spec => []ListIsLatest
<1>1. ASSUME IInv, NEW h \in Hosts \ overtaken
      PROVE  {a \in Recent : HostOf[a] = h} =
               IF latest[h] # None /\ latest[h].takenAt + TTL >= now THEN latest[h].ids ELSE {}
  <2>1. \A a \in Agents : HostOf[a] = h => Current(a, latest[h])
    BY <1>1 DEF IInv, UpToDate
  <2>2. latest[h] # None => /\ latest[h].takenAt \in Int
                            /\ \A a \in latest[h].ids : a \in Agents /\ HostOf[a] = h
    BY <1>1 DEF IInv, TypeOK, Report, UpToDate
  <2>3. ASSUME NEW a \in Agents, HostOf[a] = h
        PROVE  Visible(a) <=> /\ latest[h] # None /\ latest[h].takenAt + TTL >= now
                              /\ a \in latest[h].ids
    <3>1. Current(a, latest[h])
      BY <2>1, <2>3
    <3>2. now \in Times /\ (agents[a] # None => agents[a].lastSeen \in Int)
      BY <1>1 DEF IInv, TypeOK, Agent
    <3> QED BY <2>2, <3>1, <3>2, TimesAssumption DEF Current, Visible, Expired, Times
  <2> QED BY <2>2, <2>3 DEF Recent
<1>2. IInv => ListIsLatest
  BY <1>1 DEF ListIsLatest
<1> QED BY <1>2, InductiveInvariant, PTL

\* However late or disordered the posts, nobody is listed for longer after it was
\* last alive than the TTL, a scan and the advance of its host's clock together.
THEOREM ListedWasAlive == Spec => []ShownWasAlive
<1>1. ASSUME IInv, NEW a \in Recent
      PROVE  ranAt[a] # None /\ ranAt[a] + ScanTime + Ahead[HostOf[a]] + TTL >= now
  <2>1. /\ ranAt[a] # None /\ ranAt[a] \in Times /\ agents[a].lastSeen \in Int /\ now \in Times
        /\ agents[a].lastSeen <= ranAt[a] + ScanTime + Ahead[HostOf[a]]
        /\ ~ (agents[a].lastSeen + TTL < now)
    BY <1>1 DEF IInv, TypeOK, Truthful, Claimed, Recent, Visible, Expired, Agent
  <2>2. Ahead[HostOf[a]] \in Int
    BY HostOfAssumption, ClockAssumption DEF Recent
  <2> QED BY <2>1, <2>2, TimesAssumption DEF Times
<1>2. IInv => ShownWasAlive
  BY <1>1 DEF ShownWasAlive
<1> QED BY <1>2, InductiveInvariant, PTL

\* A snapshot without the parent of an agent does not make its record forget it.
THEOREM ParentStays == Spec => ParentKept
<1> DEFINE Kept(a) == agents[a] # None /\ agents[a].parent # None /\ agents'[a] # None
                        => agents'[a].parent # None
<1>1. ASSUME IInv, [Next]_vars, NEW a \in Agents
      PROVE  Kept(a)
  <2>1. CASE UNCHANGED agents
    BY <2>1
  <2>2. ASSUME NEW snap \in flight, Apply(snap)
        PROVE  Kept(a)
    <3>1. CASE a \in snap.ids
      <4>1. /\ agents'[a] = prepareSnapshotAgent(a, snap)
            /\ snap.parentOf[a] = None => agents'[a].parent = existingParentID(a)
            /\ snap.parentOf[a] # None => agents'[a].parent = snap.parentOf[a]
        BY <1>1, <2>2, <3>1, AppliedAgent DEF IInv, prepareSnapshotAgent
      <4> QED BY <4>1 DEF existingParentID
    <3>2. CASE a \notin snap.ids
      BY <1>1, <2>2, <3>2, AppliedAgent DEF IInv
    <3> QED BY <3>1, <3>2
  <2>3. CASE Prune \/ HermesRestart
    BY <2>3 DEF Prune, HermesRestart
  <2> QED BY <1>1, <2>1, <2>2, <2>3
          DEF Next, Link, ForgeRestart, Scan, Fire, Lose, Tick, vars
<1>2. IInv /\ [Next]_vars => [\A a \in Agents : Kept(a)]_vars
  BY <1>1
<1> QED BY <1>2, InductiveInvariant, PTL DEF Spec, ParentKept
===============================================================================
