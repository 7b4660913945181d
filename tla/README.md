# TLA+ verification of Hermes / Forge

Hermes is a transport and status service: it stores *envelopes* (delegated
work), hands them to an execution gateway and keeps what it is told about them.
Forge is that gateway: it starts an executor process per envelope and keeps a
register of sessions. Both are Go programs with SQLite (one connection each) and
a goroutine per HTTP request. The modules here describe the control of those
programs, TLC checks them on small instances, and TLAPS proves their safety, as far
as it is stated here, for instances of any size.

1. [The system](#1-the-system)
2. [Modules](#2-modules)
3. [Runs](#3-runs)
4. [Fairness](#4-fairness)
5. [Proofs](#5-proofs)
6. [Where code and documents part](#6-where-code-and-documents-part)
7. [What is not modelled](#7-what-is-not-modelled)
8. [Plan](#8-plan)

## 1. The system

```
 clients, MCP bridge ──PATCH/POST──▶ envelope register ◀──poll── delivery worker
        ▲                              │    │                        │ POST /deliver
        │ GET /events, /activity       │    └─▶ notification queue   ▼
   activity stream ◀───────────────────┘           │            Forge handlers ── spawn gate
                                                    ▼ webhook        │   registry, session rows
   live agents ◀── snapshots ── reporter      Telegram notifier      ▼
   session lane (chat rows, polled)                            executor processes ──PATCH──▶ Hermes
```

| Part | State | Operations | What makes it correct |
| --- | --- | --- | --- |
| Envelope register (`hermes/internal/envelopestore`, `hermes/envelope`) | one row per envelope | insert, status update with proof, delivered flip, executor session id, history line, message of the thread | status, history, proof, delivery record and completion time tell one story; a terminal row is closed; nothing is forgotten |
| Delivery worker (`hermes/internal/worker`) | nothing between ticks | pick the oldest created row, POST it, flip it | a row says "delivered" only of a session that exists; a queued envelope is delivered in the end |
| Forge handlers (`forge/internal/httpapi`) | ack cache, spawn gate, process registry | `/deliver`, `/sessions/{id}/resume`, process cleanup | one live executor per envelope, reachable under its row's session id; every request is answered unless it waits for a process that never lets go of its output |
| Forge session register (`forge/internal/sessionstore`) | one row per envelope | insert, replace the session id, look up | an ack is never without its row |
| Executor processes (`forge/internal/runner`) | the OS's processes, an output buffer each | start, exit, drain, read, write, stop | a running process is never lost; its output is handed out once and in order; nobody waits for one that is gone |
| Executor session discovery (`deliver.go`, `resume_handler.go`) | none | search the output and the server of opencode, report an id to Hermes | what was printed is found, even at the end of the process |
| Notification queue (`hermes/internal/notifystore`) | rows with an ack flag | insert, alert, count, flag a loop, acknowledge, bulk acknowledge | no loop unflagged, no flag unearned; alerts and rows agree; a reply counts what was done |
| Telegram notifier (`hermes/cmd/hermes-notify`) | busy flag and buffer | route, /busy, /free, automatic flush | no payload lost or doubled between the lock sections |
| Live agents (`hermes/internal/agentstore`, `forge/internal/agentreport`) | in-memory map | apply a snapshot, list, prune | the list is what hosts last said; nobody is shown for ever after its end |
| Start of Hermes (`migrate` of the five stores) | the schema, `schema_migrations` | migration files, statement by statement | every start gets through, whatever was interrupted before, and leaves nothing half done |
| Session lane (`hermes/internal/sessionstore`) | numbered messages | insert, poll after a cursor, number old rows | an ordered log of which each poller sees a prefix |
| Activity stream (`hermes/internal/activityhub`) | ring, subscribers | publish, subscribe, close, recent | no gap between page and stream; no publisher waits or panics |
| API keys, project registry, webhooks, MCP bridge, dashboard, log view | small tables or nothing | sequential requests | see section 7 |

The parts meet in three ways: HTTP calls that can time out while the other side
goes on (worker to Forge, executors to Hermes, reporter to Hermes, Hermes to the
notifier), shared SQLite rows written statement by statement, and in-memory maps
under a mutex that is released between two steps of one handler. That is where
the hazards are; `PROJECT.json` lists each at its line with the properties that
watch it.

## 2. Modules

| Module | Models | Correspondence |
| --- | --- | --- |
| `Envelope` | status vocabulary, `IsTerminal`, `CanTransition`, proof maps | a proof map gives each required key `absent`, `empty` or a value class |
| `EnvelopeStore` | the envelope register and its handlers | a variable `rows`; one action per statement or transaction, which SQLite's single connection makes atomic |
| `EnvelopeStoreProofs` | theorems about `EnvelopeStore` | |
| `ForgeDelivery` | `/deliver`, `/resume`, spawn gate, registry, session rows, processes | each request has a program counter; one step per lock section, store call or process operation. Session ids are (envelope, pid) pairs as in the code, and pids are reused; so are the handles that stand for processes, once nothing refers to one |
| `ForgeDeliveryProofs` | theorems about `ForgeDelivery`, the refinement among them | |
| `ForgeService` | what Forge promises its callers, without sessions, locks or cache | abstract; `ForgeDelivery` implements it under the mapping in `ForgeDelivery!Service` |
| `Delivery` | Hermes and Forge together: `EnvelopeStore` and `ForgeDelivery` by `INSTANCE`, the worker, executors that report, operators, faults | the delivery id is derived from the envelope id, so the ack cache is indexed by envelope |
| `DeliveryProofs` | theorems about `Delivery`, and what carries over to it from the parts | |
| `Notifications` | `maybeNotify`, what a session message notifies and alerts, and the acknowledgement endpoints | one step per statement; time in ticks |
| `NotificationsProofs` | theorems about `Notifications` | |
| `NotifyRouter` | the notifier's router | one step per lock section of `route`, `addToBuffer`, `SetFree`, `Flush`, `autoFlush` |
| `AgentStore` | reporter, link store and agent store | a scan is two steps, `ps` (`Scan`) and the stamp and post after the `lsof`s (`Fire`); snapshots are messages that can be lost or late; time in ticks of Hermes' clock, from which a host's can differ |
| `AgentStoreProofs` | theorems about `AgentStore` | |
| `Lane` | an ordered log and its pollers | abstract |
| `Startup` | the migrations of the five stores, in the order `main` opens them | a position in the list of files and statements; a start can end at any of them |
| `SessionMessages` | the message table, its cursor query (two statements) and the numbering of old rows, which is a statement of `Startup` | implements `Lane` |
| `RouterAndMessagesProofs` | theorems about `NotifyRouter` and about `SessionMessages`, the refinement of `Lane` among them | two components in one module; they share nothing but the library |
| `OutputStream` | what the output of an executor is for its readers | abstract |
| `Runner` | one executor process: pipes, output buffer, drain and wait goroutines, input, `Stop`, descendants | one step per `Read`, per goroutine and per method |
| `SessionIO` | a launch from the store of its session on: registry entry, reads of the output, inputs, the search for the session of opencode | extends `Runner`; implements `OutputStream` |
| `SessionIOProofs` | theorems about `SessionIO`, the refinement among them | |
| `ActivityHub` | ring, subscribers, SSE loop | one step per lock section, one per send in the fan-out |
| `ActivityHubProofs` | theorems about `ActivityHub` | |
| `MC*` | instances for TLC | orders, owners, symmetry sets |

Definitions whose names carry a suffix after an underscore (`Confirm_WrongId`,
`Halves_Swapped`) are mutated forms of the definition they precede: each is a
plausible mistake in the code, and for each the property paired with it in
`PROJECT.json` is violated. No specification uses them.

Conventions: `None` is SQL NULL, a nil pointer or a missing map entry. A refused
operation that writes nothing is not a step. History variables (`written`,
`before`, `offered`, `latest`, `overtaken`, `slipped`, `started`, `posted`, `printed`,
`dropped`, `got`) are marked as such and guard nothing.

Abstractions that matter when reading a result:

- `EnvelopeStore!Insert` models clients that leave history, delivery record,
  binding and metrics of a new envelope to the service. The endpoint would store
  such fields from the body as they are.
- `Delivery` has one Forge; routing by target is a stateless look-up.
- `Crash` ends Forge and empties its memory. With the failure point `orphan` any
  set of its child processes lives on, as orphans do, and can still report to
  Hermes; without it they end with Forge.
- `ForgeDelivery` takes one unused handle, and of the pids nobody remembers one:
  handles that nothing refers to cannot be told apart, nor can such pids.
- When a session cannot be stored, `ForgeDelivery` waits with the gate held for the
  process to be gone (`DeliverStoreFails`, then `StopReturns`). Nothing makes it go:
  `Stop` kills the child after three seconds and then waits for the end of the
  output without a limit, so a descendant can keep it waiting. `SessionIO` has the
  parts of `Stop`.
- In `SessionIO` a line of output is one piece, or two for the line that
  announces a session, so that a `Read` can split it. A line is written to the
  pipe at once; a longer one than the pipe takes could be mixed with the output
  of a descendant. An input fits into the pipe whole or waits.
- `Startup` leaves out plain indexes, which change no answer, and takes a
  statement for atomic, as SQLite does.
- `AgentStore` takes the scans and clocks of hosts as it finds them: a scan takes up
  to `ScanTime`, a clock is off by one of `Clock[h]` and fast by `Ahead[h]` at most.
  Nothing in the code limits either; they are what the bound of `ShownWasAlive` is
  made of. Within a tick the same agents run. Links are posted for one agent, since
  only a child and a parent on one host are ever joined.

## 3. Runs

Passing runs:

| Run | Bounds | Shows |
| --- | --- | --- |
| `EnvelopeStore` | 1 envelope, 2 proof keys, 2 sessions, 2 messages, histories of 3 lines, births as created, in_progress or done; 274k states | history chains up and ends in the status; done was proven; completion and status agree; terminal rows are closed to moves; nothing, messages included, is forgotten |
| `ForgeDelivery` | 2 envelopes (one unknown to this Forge), 2 requests, 2 processes at a time that are replaced without limit, 2 pids, every call may fail, a crash at any time; 266k | one live executor, reachable once the gate is free; callers see `ForgeService`; every request is answered, unless a stop that never ends holds its gate |
| `Delivery` | 2 queued envelopes, 2 requests, 3 processes at a time, one disturbance: a fault of any kind, a crash that leaves orphans, a timeout, a restart of Hermes or an operator's move; 279k | a row bound to a session names one of Forge's register and a process that was started for it; every queued envelope leaves the queue unless a stop that never ends holds its gate, and it leaves when a process had been started for it or an operator had given it a status |
| `Notifications` | 1 envelope, 1 session, 2 keys, 2 updates in flight, 3 rows, loop limit 1, window 1, chunks of 2, insertions that fail; 979k | loops are flagged and flags earned; every alert belongs to what was stored and each stored event is alerted; bulk replies are truthful for repeated, unknown and foreign ids |
| `NotifyRouter` | 3 payloads of 3 priorities, a buffer of 1, 2 commands, sends that fail; 16k | payloads are in one place at a time; a busy router's buffer is emptied |
| `Agents` | a host with a fast clock and a linked pair, a host with a slow one, scans of up to a tick, TTL 1, 3 instants, 2 scans and posts under way, restarts of both sides; 636k | the list is the snapshot with the last stamp of every host that was not overtaken; TTL, scan and clock bound every display; parents stay |
| `SessionMessages` | 2 sessions, 2 pollers, 17 databases of earlier versions with up to 3 old rows, 5 messages, starts that end at any statement but inside `003_thread`; 91k | every start gets through, leaves the schema complete and every row numbered; pollers see prefixes |
| `SessionIO` | 1 executor of either kind, 4 pieces of output, pipe and buffer of 2, 1 clearing reader, 1 input, a descendant; 521k | reads hand out each piece once and in order; a search that ends with the process missed nothing in the tail of an output that has one; a failed launch gives the gate back; no goroutine of an input outlives the executor |
| `ActivityHub` | 3 events, 2 publishers at a time, 2 subscribers, ring of 2, channels of 1; 377k | the ring reads back right over its wrap; every finished event was in the ring at the subscription or is offered to the channel; no blocked publisher, no send on a closed channel |

Why the bounds suffice: operations on different envelopes touch different rows,
gate entries and registry keys, so one envelope shows the races for it; what
envelopes share (the ack cache, the queue's order) is checked with two. Two
requests are what a lock separates; a third would wait at the same gate. Handles
are used again, so that the number of starts in a behaviour is not bounded, only
the number of processes that something still refers to. A slot of a request is
used again as well. One disturbance in `Delivery` meets every step of a delivery,
its retry and a second envelope; what several failures do to Forge alone is in
`ForgeDelivery`, where their number is not bounded. Rings, buffers, pipes and chunks
of one or two elements reach their limit and wrap within the first events. A
vintage of `MCSessionMessages` has one store that is older than the others, since
the stores share no table. Each run fires the action the property is about, and
each property has a mutant that the same instance refutes.

`OneLiveExecutor` and `LiveIsReachable` except the envelopes in `slipped`: those
for which the second look-up of a resume failed (`resume_handler.go:123`: the error
is ignored and the stale row used) or whose respawned process could not be stored
(`resume_handler.go:177`: the process is not stopped). The promise of one executor
is suspended for them until Forge restarts; `ForgeService` says so as `Lapse`.

`GateReleased` excepts a descendant that never closes the output: `Stop` kills the
child and then waits for the end of the output (`runner.go:290`), for ever if need
be, and the request keeps the spawn gate of its envelope meanwhile. For the same
reason `EveryRequestAnswered` and `QueuedIsStarted` except the requests and the queue
behind such a stop (`Stopping`), and only if it goes on for ever: after one that
ends, all that waited for the gate are answered.

`QueuedIsStarted` says that an envelope leaves the queue, and that from then on a
process had been started for it or an operator had given it a status. It does not
say that the process is that of the last request.

`AbsentIsAbsent` excepts output that a read took away and output that met a full
buffer, and it speaks of the lines behind the line end that `TailLines` others
follow. An output with no more line ends than that has an *empty* tail (section 6), so
the search finds nothing in it whatever it announces: `TailOf` does as the code does. The output that is unread when an executor ends cannot be read any more:
its registry entry goes with it.

`ListIsLatest` excepts a host from the moment a snapshot is applied behind one with a
later stamp until one is applied that is not behind. With clocks that step back even
posts that arrive in order are behind; the store, which compares stamps, cannot tell.

`NoGap` counts an event as covered that was in the ring when the client subscribed, or
was offered to its channel. The ring may have overwritten it before the page is read,
and an offer to a full channel is dropped; the code promises no more.

`LoopIsFlagged` is claimed for rows that were inserted, with a count and a flag
that do not fail; all of `maybeNotify` is best effort by its own comment.

`QueuedIsStarted` is claimed of envelopes Forge can run (`Launchable`). The worker
treats a 422 like any other error and polls the same, oldest row again, so a
queue that begins with an unknown executor stays where it is.

Three runs end in a violation: section 6.

## 4. Fairness

- `ForgeDelivery!Fairness`: each handler runs on (weak fairness of its next step,
  failing or not), and a request waiting at the gate gets it in the end (strong
  fairness, since others may take it in between): Go schedules every goroutine,
  and `sync.Mutex` hands the lock to a waiter overtaken for a millisecond.
- `Delivery!Fairness`: the worker's ticker fires and its steps go on; Forge's
  *successful* handler steps are fair and disturbances are limited to `MaxFaults`, so
  liveness is claimed for a system in which finitely many things go wrong.
  Executors, operators and clients owe nothing. No executor owes Forge its end either,
  so a `Stop` need not return.
- `SessionIO!Fairness`: the goroutines of Forge run, a killed child ends, the three
  seconds of `Stop` pass. Nothing makes a child that is not killed end, print or
  read its input, and nothing makes a descendant end.
- `NotifyRouter!Fairness`: goroutines run on and the automatic flush's ticker
  fires. No command need be typed.
- `ActivityHub!Fairness`: a publisher that has begun runs on. Clients need not read.

## 5. Proofs

Every safety invariant, action property and refinement the passing runs check of
`EnvelopeStore`, `ForgeDelivery`, `Delivery`, `SessionIO`, `AgentStore`,
`NotifyRouter`, `Notifications`, `SessionMessages` and `ActivityHub` is also a
theorem, for all values of the constants. Each proof
module has an inductive invariant (`IInv`, `MessagesInv`, or one per property in
`NotificationsProofs`) as a conjunction of named parts, a lemma per action or per
part, and the theorems at its end. The constants are assumed to be what the `ASSUME`s of the
modules say: bounds are naturals, limits of rings, buffers, caches and chunks
positive (`SizesAssumption`, `BufferCapAssumption`, `BoundsAssumption`,
`MaxCachedAssumption`, `MaxCommandsAssumption`, `MaxFaultsAssumption`, ...), `None` is no other
value (`NoneAssumption`, `NoneIsNoRow`), failure points are ones the model knows
(`FailuresAssumption`), the ids a client lists in a bulk
acknowledgement are integers (`BulkIdsAssumption`), and what a part is instantiated with meets the part's
assumptions (`ForgeAssumption`, `StoreAssumption`). Bounds are parameters, so the
theorems hold for any of them. Two assumptions say more than that a constant has its
type. `VintagesAssumption` describes the databases earlier versions leave: a file that
is recorded is there completely; none of the columns of `003_thread` is
there unless that file is recorded; and notifications of the time before API keys are
unacknowledged only where their column is missing. `AlwaysStarts` has the hypothesis
that `003_thread` is not interrupted, which the run `StartupStuck` shows to be needed;
no other theorem has it.

**`EnvelopeStoreProofs`.** `IInv` is `TypeOK` and, for each stored row, four facts
about the row alone (`RowTruthful`, `RowProven`, `RowCompletion`, `RowBinding`).
They are needed together: `DoneWasProven` is not inductive, because a later update
may merge an empty value into the proof of a done row; `CompletionAgrees` excludes
that, since a row whose history says done is terminal and `UpdateStatus` refuses
terminal rows; and chaining of the history (`HistoryTruthful`) needs that its last
move is the status it is appended to. `StepType` shows that a step changes one row
and keeps it a row, one lemma per operation that it keeps `RowInv`, and
`AppendMove`/`AppendNote` are the two facts about histories all of them use.
`TerminalIsFrozen` and `NothingIsForgotten` are proved step by step from `TypeOK`.

**`ForgeDeliveryProofs`.** `OneLiveExecutor` says nothing of a request that has
looked an envelope up and is about to launch, and `LiveIsReachable` nothing of the
time the gate is held. `Lives` does: by what the holder of an envelope's gate is
doing, where a live process of that envelope can be: found through row and
registry, in the holder's hands, or nowhere when the holder is about to launch.
Its preservation rests on `Locks` (whoever is between look-up and reply holds
the gate, which is what the spawn gate is for), `Hands` (a process that is launched and
not registered is known to nobody else), `Backing` (who waits for a process waits
for the one the session id names, so the clean-up of an old process does not
unlink a new one that got its pid) and `Records` (an ack or a look-up that found
a row still has one; rows are renamed, never removed). `OneExecutor` and
`Reachable` follow. `Implements` shows that the initial states and each action map
to `ForgeService`'s or to a stutter, action by action.

**`DeliveryProofs`.** `BoundIsReal` is the last link of a chain: process, row, ack,
answer, worker, binding. `IInv` names each link (`Genuine`, `Attached`, `Real`) and
keeps `ForgeDeliveryProofs!IInv` beside them, because a link is made by a step of
Forge and must survive its crash. Two theorems make the composition worth its
while: `ForgeBehaves` and `StoreBehaves` say that a behaviour of the composed system,
seen at Forge or at the register, is a behaviour of `ForgeDelivery` or
`EnvelopeStore`. What was proved of the parts then holds of the whole without
another proof: `OneExecutor`, `Reachable`, `Implements`, `HistoryIsTruthful`,
`TerminalIsFrozen`, `NothingIsForgotten`.

**`SessionIOProofs`.** `AbsentIsAbsent` needs `Kept` (while nothing was read or dropped,
what was printed is the buffer followed by the pipe), `Ended` (a process that is
drained has an empty pipe, and nobody is left that could write to it) and `Looked`
(what the last look did not find is not in the tail of the buffer). `TailBegins` says
where that tail begins, for a text that has one. The refinement of
`OutputStream` maps the stream's pending output to buffer and pipe.

**`AgentStoreProofs`.** `Truthful` extends `ShownWasAlive` to scans and snapshots under way:
an agent that a scan found was alive when it began (`ScanTrue`), and one that a post or a
record names was alive no longer before the stamp than a scan takes and the host's clock
is fast (`Claimed`). `UpToDate` extends `ListIsLatest` to the records that are not
listed and to hosts that were overtaken: no record is younger than the snapshot
with the last stamp (`Behind`), which is why the next snapshot that is not late sets a
host right, and those of a host that was not overtaken are current or were pruned
after they expired (`Current`). `ParentStays` is an action property.

**`RouterAndMessagesProofs`, the router.** `HeldOnce` counts places; counts are not inductive. The
invariant says instead that places differ in what they hold (`Once`), that what is
held is undecided (`Waiting`) and that what is undecided is held (`Covered`); `Carrying`
(a flusher has nothing in hand when it takes the buffer) is what the two halves of
`Flush` rest on.

**`RouterAndMessagesProofs`, the messages.** `MessagesInv` has three parts.
`StartupInv` ties the schema to the position of the start: it is at a place of the
list of files (`Placed`), and what the statements before that place make is there,
as is what a recorded file makes (`Built`); an interruption only gives the position
up. `RowsInv` says that the numbers of a session's rows differ once it has any
(`NumbersApart`), and that no row is unnumbered once the start is past the
backfill. `ReadersInv` says that what a poller received begins its lane
(`SeenInv`), and that the number a poll looked up is that of the last row received
(`PollsInv`), which an insert in between leaves as it is. `ServesComplete`
follows from the first two. `AlwaysStarts` needs besides that columns of
`003_thread` exist without its record only while the start that adds them is under way
(`ThreadWhole`), and that numbering yields a table the
unique index accepts. `MessagesImplementLane` maps a lane to the rows of a session
listed as they are numbered *after* the backfill, so that the backfill is a stutter:
numbering rows that are numbered changes nothing (`AtOnceAgain`), an insert is an
append at the end (`PostAtEnd`), and a poll hands out a stretch of the rest
(`RestInOrder`). SQLite may let the subqueries of the backfill see the rows it has
already written or not; `RowByRowIsAtOnce` proves that it makes no difference. The
lists are chosen by what holds of them (`InOrder`); `InOrderSorts` shows
that there is one, and `SortedIsInOrder` that there is one only.

**`NotificationsProofs`.** Three invariants. `LoopsInv`: a loop is flagged, or some
request that will see it has not counted yet. `LoopsAreFlagged` assumes that counting
and flagging do not fail, which is what the property is claimed for; insertions may. `FlagsInv`: whoever is about
to flag has counted more than the limit in a window of the past. `AlertsInv`: the
counts of alerts equal rows less the alerts still due, envelope by envelope and
session by session. `BulkAcksAreTruthful` is about one operation: the reply is a fold over
the chunks of the list, each chunk seeing what the ones before it acknowledged. The
induction over the chunks keeps that after each of them the counts are those of the
places done so far.

The inductions over data in these modules are first-order: the library's induction
theorems take an operator, which the provers cannot instantiate, so a lemma
`Induction` derives the principle for a *set* of numbers from the well-foundedness
of the order (`WFMin`), and each proof names the set of numbers for which its claim
holds.

**`ActivityHubProofs`.** `NoGap` speaks only of calls that have returned, so `IInv` adds what
holds half-way. `Loops`: a call that is sending has stored its event, and the
subscribers it still has to visit are open, since nobody subscribes or leaves while
it sends. `Stored`: a call past its first half has its event among those written.
`Covered`: an open client that the loop is past has the event one way or the other.
`NoGap` depends on the order of the two halves: `HalfReached` is where the proof uses
it, and with the halves swapped (the mutant) the invariant is lost. `RingInv` adds
`Ring`, which says where in the ring the n-th last event stands; `PageIsLatest` and
`TypeCorrect` follow.

Only model-checked is liveness, which is out of the prover's reach:
`EveryRequestAnswered`, `QueuedIsStarted`, `BusyIsFlushed`, `PublishReturns`,
`GateReleased`, `WritersReleased`. The three runs of section 6 show violations, and what
they show is not claimed anywhere.

## 6. Where code and documents part

- `DeliveryUnrecorded` violates `DeliveryIsRecorded`. An executor can report a
  status between Forge's ack and the worker's flip; `MarkDelivered` then matches
  no row (`sqlite.go:412`), the error is logged, and the row never receives its
  session binding or `delivered_at`.
- `NotifyStranded` violates `HandledIsForwarded`. `route` decides on a busy flag
  it read before it unlocked (`router.go:71`); the payload can reach the buffer
  after `/free` has flushed it and the automatic flush skips a free router.

- `StartupStuck` violates `StartsAgain`. The envelope store runs the statements of
  `003_thread.sql` one by one and records the file afterwards (`sqlite.go:111`).
  A start that ends in between leaves columns without the record, and every later
  start fails at "duplicate column name", which the project and session stores
  forgive and this one does not.

Met while modelling and visible in the modules, but not kept as runs: an envelope
can be POSTed as done without proof (`EnvelopeStore!Insert`); a respawn renames the
old session's row (`ForgeDelivery!UpdateSessionID`); the duplicate check and the
recording of an ack are separate lock sections, so two equal deliveries pass it
and only the gate keeps them from starting two executors; an envelope moved back
to created is acked from the cache without being run again; an automatic flush
can free an operator who has just become busy.

Disagreements with comments, seen in the same way:

- `ReadOutputTail` "returns the last n lines from the output buffer"
  (`runner.go:213`). `start` is set to the length of the text (`runner.go:228`) and
  moves only when more than n line ends are met, so an output of n lines or fewer has
  an empty tail. The search for the session of opencode asks for 65536 lines
  (`resume_handler.go:32`): on any output up to that length it finds nothing, and the
  search by opencode's server is what is left. `GET /sessions/{id}/output?tail=n` has
  the same empty answer. `Runner!TailOf` does as the code does; the exact claim that
  remains is `AbsentIsAbsent`.
- "Agents not present in a new snapshot from the same host may be dropped after TTL"
  (`hermes/internal/agentstore/store.go:96`), and missing agents "fall out via TTL"
  (`hermes/internal/httpapi/agent_handler.go:32`). `Apply` makes them disappear at once, as
  its own comment says (`store.go:124`); `ListIsLatest` states that. Only the agents of a
  host that posts nothing more go by the TTL.
- "An out-of-order snapshot must not evict agents reported later" (`store.go:207`).
  The comparison is with the record's `LastSeenAt`, which a late snapshot that names
  the agent sets back (`store.go:168`); a second late one, between the two, then hides
  the agent although the newest snapshot reported it, until the next scan. This is
  what `overtaken` excepts.

## 7. What is not modelled

- What the server of opencode lists: `SessionIO` lets its search succeed or not. A
  session of an earlier launch under the same title may be listed alone before the
  new one is there, and is then reported for the new launch.
- The order in which two launches of an envelope report their session ids, and
  the push of the id that is pinned for claude: Hermes keeps what comes last.
- `/notify`: a look-up in the register and the registry and a call to opencode.
- The temporary files of a launch, removed when the process is done.
- `List`, `ListActiveSessions`, `GetThread`: they only read.
- API keys and authentication, project registry and icons: one sequential
  statement per request on a small table, whose migrations are in `Startup`. Keys appear as model values.
- The payloads of webhooks, summaries by a language model, the MCP bridge's other tools: one
  request translated into another, nothing kept.
- Dashboard, log view, logging, health checks: no state.
- In `notifystore`, `PurgeOld`, `ListUnacknowledged` and `Acknowledge` have no
  caller outside the tests.
- A restart of Hermes in `ActivityHub` and `NotifyRouter`: it empties memory that
  is ephemeral by design.

## 8. Plan

Done: the core (`Envelope`, `EnvelopeStore`), Forge and its service, the composition,
the start of Hermes, the executor process and its sessions, the satellites above,
and the proofs of section 5. No safety property of a passing run is left unproved.
What could be added is in section 7: the order in which the session ids of two launches of
one envelope are reported, and the routing of the worker to several Forge targets.
