# Formal models of reemoat

TLA+ models of reemoat: the daemon that runs coding agents on a machine, the
relay that makes it reachable, and the clients that follow what the agents
say. The models are written from the source (`src/`, `packages/`); a comment in
a module that has a line number refers to the file of the same name there.
`PROJECT.json` maps every definition to the lines it stands for.

Contents

1. The system and its parts
2. The modules
3. What each run checks, with its bounds and its fairness
4. What is proved
5. Where code and documentation disagree
6. What is not modelled
7. Plan

## 1. The system and its parts

| Part | State it keeps | Operations | What is hard |
|---|---|---|---|
| `Session` (`src/session.ts`) | one agent: its event queue, whether a turn runs, the prompt epoch, a held tool draft | prompt (a generator), steer, cancel, abandonTurn, drainBetweenTurns, clearContext, dispose | the queue changes hands between generators while one of them is parked; answers arrive after their turn was given up |
| `ManagedSession`, turns (`src/registry.ts`) | the turn, the queue of messages, reservations for it, pending asks, the exit record | prompt, sendMidTurn, pump, cancelTurn, clearContext, settle, restartAgent | every one of them awaits, and any other may run meanwhile |
| `ManagedSession`, lifecycle | launch and stop promises, the exit record and its reason | launch, stop, doStop, doResume, applyCredentialChange | a stop meets a launch; a launch outlasts its deadline; a stop meets a wake |
| `SessionRegistry` (`src/registry.ts`) | the sessions, the slots agents take | create, restore, autoResume, park, makeRoomForWake, signOutSessions, reloadCredentials, shutdown | slots are freed and taken across awaits; retries act on what was true minutes ago |
| Event log and stores (`src/events.ts`, `src/store/sqlite.ts`) | events by sequence number, the oldest kept | append, read, evict, subscribe | readers and eviction |
| Event stream (`src/server.ts` `StreamConnection`, `packages/web/src/stream.ts` `SessionStream`) | a cursor on each side, a bounded queue between them | attach with replay, live events, collapse of a slow consumer, reconnect, rotation | replay meets live events; two sockets overlap; gaps |
| Relay, daemon side (`src/relay/tunnel.ts`) | the tunnel, its retry | dial, announce, serve, supersede, back off | a connection that is dead and not known to be |
| Relay, control plane (`packages/control-plane/src/relay`) | tunnels by machine, presence rows, relay ids | attach, supersede, up, down, flush, claim | several relays share a database; a relay crashes with its rows in it |
| End-to-end encryption (`src/e2ee.ts`, `packages/protocol`) | handshake and frame counters | handshake, seal, open | ordering, replays |
| Control plane (`packages/control-plane/src`) | accounts, machines, sessions, keys, the mail outbox, throttles | request handlers on one SQLite database | outbox retries, windows of throttles |
| Plugins (`src/plugins`) | installed versions, running hooks | install, update, roll back, run | partial failure of an install |
| Agents (`src/agent*.ts`, `src/acp`, `src/runtime`) | installed versions, sign-in state, processes | install, update, sign in, spawn, kill | external programs |
| Files (`src/uploads.ts`, `src/worktree.ts`, `src/git.ts`, `src/archive.ts`, ...) | the file system | upload, sweep, worktrees, import | quotas; partial failure |
| App and shell (`packages/web`, `packages/native`) | caches, view state | presentation | reconnects |

How they meet. A client's request reaches `server.ts`, which calls a
`ManagedSession`. That owns a `Session`, which owns an agent process. The agent
emits updates, which `Session` queues. `ManagedSession`'s pump (during a turn)
or its drain (between turns) takes them off the queue and appends them to the
session's log. `StreamConnection`s replay and follow the log, and the client's
`SessionStream` applies it. `SessionRegistry` starts, parks, wakes and stops the
sessions, and the relay carries requests and streams when the client cannot
reach the daemon directly.

Everything in one process runs on one JavaScript thread, so a model step is one
run of code between two `await`s. What can be inside an `await` at the same time
has a control variable of its own. That is where nearly every hazard of this
code is, and `PROJECT.json` lists them at their lines.

## 2. The modules

| Module | Models |
|---|---|
| `TurnQueue` | `EventQueue` and its readers in `Session` |
| `MCTurnQueue` | its properties |
| `TurnQueueProofs` | its theorems |
| `ManagedSession` | one `ManagedSession`: messages, turns, asks, stops and restarts |
| `MCManagedSession` | its properties |
| `ManagedSessionProofs` | its theorems |
| `SessionLifecycle` | the launches, stops and exit records of one session, and the parts of `SessionRegistry` that start and stop it |
| `MCSessionLifecycle` | its properties |
| `SessionLifecycleProofs` | its theorems |
| `DaemonRestart` | one session across the lives of the daemon: its row, its log, its agents' processes, restore and the boot pass |
| `MCDaemonRestart` | its properties |
| `DaemonRestartProofs` | its theorems |
| `EventDelivery` | what the event stream promises a client, on its own |
| `EventStream` | the log, its store, the daemon's end of a stream and the client's |
| `MCEventStream` | its properties, one of which is `EventDelivery` |
| `EventStreamProofs` | the theorems of both |
| `Admission` | many sessions, and what decides which of them has an agent: the ceiling, parking, wakes, creations, the idle sweep |
| `MCAdmission` | its liveness |
| `AdmissionProofs` | its theorems |
| `RelayPresence` | the daemon's tunnel, the relays' tunnels, and the rows they share |
| `MCRelayPresence` | its liveness and an instance |
| `RelayPresenceProofs` | its theorems |
| `MailOutbox` | the control plane's mail queue and the pumps that empty it |
| `MCMailOutbox` | its liveness |
| `MailOutboxProofs` | its theorems |

`EventStream` begins where the other three end: the events they emit are its
`Log`, reduced to their numbers. Those three are three views of one session. `TurnQueue` is
what is below `ManagedSession.pump`: its `pump` variable is that function's
control state. `ManagedSession` reduces the queue to "the pump of turn m awaits
the agent" and keeps launches as one step each. `SessionLifecycle` reduces turns
to nothing and has launches, timeouts, exit records and every caller.
`DaemonRestart` has one launch at a time and no restart of an agent, but the
disk, the processes and several daemons one after the other.
`Admission` reduces a whole session to one word, and has many of them; its
`Works`, `Rests`, `Stopped` and `StopEnds` are what the other views look like from
the next session. `RelayPresence` is what is below the requests and streams, and
`MailOutbox` stands alone in the control plane.

In each module a definition named `X_Y` is `X` with a fault: the configurations
never use it, and each property of a passing run is known to fail when `X` is
replaced by one of them.

### TurnQueue

| Code | Model |
|---|---|
| `EventQueue.buffered`, `waiting`, `closed`, `reader`, `turnHolds` | the variables of the same names; a claim is a number |
| a generator or the drain after `await next()` | `readers[c].st = "got"`; `Resume(c)` is its continuation, taken in the order of the microtask queue |
| `claimForTurn`, `claimForIdle`, `handover` | `Claimable`, `DrainBetweenTurns`, `HandOver` |
| `push`, with its cap | `Push1`, `Buffered` |
| `toolDraft`, `flushToolDraft`, `holdsToolDraft` | `draft`, `FlushAndPush`, `HoldDraft` |
| the request's callbacks, checked against `promptEpoch` | `Answer`, `Current` |
| `abandonTurn`, `doDispose` | `AbandonTurn`; `DisposeFlush` and `DisposeClose`, between which the client is closed |
| `pump` and its `finally` | `pump`, `ArmTurn`, `Prompt`, `PumpFinally` |

An event is its kind, the turn it ends (if any) and its number. `log`, `dropped`
and `emitted` are history. `Consumers` says how a behaviour may begin: with a
session that `ManagedSession` is about to read ("unstarted"), or with one that a
caller prompts when it likes ("bare"), which is how the repository's own harness
uses it.

### ManagedSession

A message is a model value; `msg[m]` says where it is, and a turn is named by
the message it is for. `SendMidTurn`, `Attached`, `Steered` and `NotSteered` are
`sendMidTurn` cut at its two awaits; `Unsteered` is the rest of it. `PumpPrompts`,
`PumpFails`, `TurnEnds`, `TurnErrs` and `TurnCloses` are `pump` cut at its awaits;
`PumpEnds` is its `finally`. `StopSweeps`, `StopDisposes` and `StopEnds` are
`doStop`. `Settled` is the timing the code relies on: what a close settles within
the same task has run before the next agent is up. The constant `Slow` gives it
up for reading attachments, and lets a steer time out although the agent took
the message. `Steering` is what the agents can do.

### SessionLifecycle

A launch is a number and so is its agent. `stops` are the `doStop` calls, each a
process of its own, because one can still wait for a launch that the session has
given up on. `memo` is the promise `this.stopping`. `waiter` is the one `create`
or `doResume` that waits for a launch. `boot` is what `autoResumePass` does with
this session. `Due` says that continuations which are due run before any other
request or timer. `Features` says what the session is exposed to, so that a run
can be about one of them, and `MaxSlow` how many launches may outlast their
deadline. A stop that waits for one of those is marked `late`: it goes on in
whatever life the session has by then (section 5), and the properties that this
breaks are stated for behaviours without one (`Astray`).

### DaemonRestart

| Code | Model |
|---|---|
| a row of `sessions` | `row`: the exit (or "running"), the agent's handle, whether a conversation is known, whether it was given up for good |
| the last `status` event | `said` |
| a process and its number | `agent[l]`: launches are numbered and so are their processes; after a reboot a number may be somebody else's ("reused"), and a signal to it is recorded ("shot") |
| the fields of a `ManagedSession` | `s`, which a crash loses |
| `touchSafe`, at the end of every handler | `owed` and `Touch`: a crash can come between what a handler did to the log and the processes and what it writes to the row; a write may be refused, which nobody is told of |
| `restore`, `LocalRuntime.reap`, `markInterrupted` | `Boot`, one step, as the code is synchronous up to the server's first request; the row of an interrupted session is owed |
| `autoResumePass`, `drive` | `pass`: queued, trying, waiting for the next attempt, deferred to a later pass; `Settled` is what a failure counts as |
| `SessionRegistry.shutdown` | `Shutdown`, the stop it begins, and `Exit`, which signals the handles collected before; its budget may run out first |

`unknown`, `torn`, `answered` and `stale` are history: agents whose number never
reached the row, log entries whose row was not written, the answer a person was
given to a stop, and a refused write. The properties that a crash between two
statements breaks by its nature are stated with them, so that what remains is
what the code promises. Requests are assumed to stop once the daemon shuts down
(the server is closed first). A launch that outlasts its deadline and the wait for
a place are in `SessionLifecycle` and `Admission`; a number that is given out again
within one boot is not modelled, and a comment at local.ts:1411 says the code does
not guard against it either. A conversation that was never used is not given up
for good when its agent has forgotten it (registry.ts:3363), which is left out.

### EventDelivery and EventStream

`EventDelivery` has a log head, a cursor and two histories: what the client was
handed (`onEvents`) and what it was told it would not get (`onGap`). The cursor
moves by handing over the next events, by telling of a range that begins at the
cursor at the latest, or by skipping to the newest `ReplayMax` events. It is an
abstraction of both ends at once, and says nothing of sockets.

| Code | Model |
|---|---|
| `SessionLog.append`, `SqliteEventStore.append` and `evict`, `MemoryEventStore` | `Log`: the number, whether the row landed, a prefix evicted, every connection given the event |
| `openStores`: `prune`, `loadCounters`, `seedFloors` | `DaemonRestarts`: the session may be `gone`; the rows and a session record that may be behind decide the next number |
| the route's guard and `onOpen` | `Attach`: a handshake for a session that is gone is refused (`Cut`), any other is `Attached` |
| a `StreamConnection` and its WebSocket | one record of `conns`: cursor, `lastSentSeq`, queue, `sending`, the frames in flight, the close code |
| `attach`, `emit`, `control`, `enqueue`, `collapse`, `flush` | `Attached`, `Emit`, `Control`, `Enqueue`, `Collapse`, `Flush`, which compute the record |
| the loop in `attach` that emits the backlog | `Greeted`, `Replay`, `Replayed`: the first frame is on its way and no callback runs in between, so the rest is a queue that fits, or one collapse of it |
| `collapses` within `COLLAPSE_WINDOW_MS` | the flag `collapsed`, until `WindowPasses` |
| `SessionStream`'s `socket`, `successor`, `phase`, timers | the fields of `client` |
| `connect`, `rotate`, `ensureToken(true)`, cut at their awaits | `dials`, `rotations`, `refreshes` count the calls under way; `DialOpens`, `RotateOpens`, `RefreshComes` are the rest of them |
| `generation` | `Forgotten`: a socket of an older generation is not heeded, so it is dropped from the model |
| `apply` | `DeliverHello`, `DeliverEvents`, `DeliverLagged`, `DeliverSnapshot`, `DeliverCaughtUp` |
| `onclose`, `handleClose` | `Closed`, `HandleClose` |

A queue is bounded by its length; that the code also weighs it makes the bound
smaller, not different. Eviction is by count or by weight, so any prefix that
leaves the newest event may go; the default keeps everything, and a log that an
older daemon has evicted from is an initial state. The network keeps order and
loses only what is behind the end of a connection. `Faults` has what the daemon
meets on a bad machine: `disk` (an event whose row never landed) and `stall` (a
socket that takes nothing for so long that a second collapse meets the notice of
the first).

### Admission

| Code | Model |
|---|---|
| `status`, `parkable` | `st`: where a session stands; "busy" is every state that `parkable` refuses: a turn, an ask, a clear, a restart of the agent, a queue, work in the background |
| `lastActivityAt` against `ceilingParkFloorMs` and `effectiveIdleParkMs` | `age`: 0, 1 past the floor, 2 past the idle time; the idle time is assumed to be the longer one |
| `create`, cut at the await of `releaseOneSlot` and at its entry in `sessions` | `Create`; `CreateFails` or `Register` |
| `doResume`, cut at `makeRoomForWake` | `Wake`; `WakeGoes` or `WakeMoved` |
| `autoResumePass`, `reloadCredentials` | `QuietlyResumes`: neither looks at the ceiling |
| `parkIdleSessions`, cut at each `stop` | `SweepBegins`, `SweepNext`; `stirred` has what the second `parkable` would refuse |
| `createTokens` | `tokens`; `Refill` is time |

A restart is `Stopped`, `StopEnds` and `Wake`, as its resume is not quiet
(registry.ts:4870). What a creation may bring the number of live sessions to is
the history variable `allowed`: creations are weighed at 7771 and counted from
7947 on, after awaits, so several of them can overshoot the ceiling together,
and each admission in between raises `allowed` by one. Shutdown, deletion and
`returnToParked` are left out.

### RelayPresence

| Code | Model |
|---|---|
| one WebSocket between a daemon and a relay | a link, whose ends (`near` the relay's, `far` the daemon's) end each on its own |
| `TunnelRegistry.tunnels` | `tunnels` |
| `attach`, with `register` and what it supersedes | `Attach`; `Closed` is a socket on which the relay has called `close()` and whose close event is to come |
| `relay_tunnels`: upsert, refresh, remove, flush | `Upserted`, `Refreshed`, `Removed`, `Flushed`; a write may be lost |
| `relay_instances`: `claimRelayId` | `ReadClaim` and `WriteClaim`, its two statements |
| the staleness of either | a flag, that `RowAges` and `ClaimAges` clear when nobody refreshes |
| `RelayTunnel` of the daemon | `daemon`, `ws`, `Open`, `Serve`, `SocketCloses`, `Stop` |

A process is started once with a relay id; a restart is another process with the
same id. `Slips` names the two ways in which an id can have two holders: a
process that stands still for longer than its claim lasts ("pause"), and two
processes of one id that start together ("overlap"). Without it, a supervisor
runs one at a time.

### MailOutbox

A row is due or not and stale or not, and there is no clock. `Drain` and `Claim`
are a turn of `drain`'s loop, cut between the two statements of `claimNextMail`
(another process can write between them). `Take` is the server taking the
message while it is waited for, `TakeLate` when nobody waits any more. `Unanswered`
is an error after which the sender cannot know what the server did: a step of
the dialogue runs out of time, the connection is lost, the watchdog fires.
`Unrecorded` is a write of the outcome that throws. `Dies` is a shutdown or a
crash. Every one of those counts against `MaxTrouble`, and those in the middle of
a send are counted by `excused`. `handed` and `excused` are history.

## 3. The runs

| Run | Bounds | Shows |
|---|---|---|
| `managed` | 2 turns, 5 claims, 5 events, cap 3, both consumers | no event lost, reordered or given to the wrong turn; no stranded hold; turns end; the buffer drains |
| `safety` | 3 messages, 1 ask, 2 agents, queue of 2 | queue order, nothing stranded, one turn, nothing told twice, asks and cancels keep to their turn |
| `live` | 3 messages, 2 agents, queue of 1, slow steers | reservations; messages settle; restarts end |
| `lifecycle` | 3 launches, 2 stops, 2 attempts, the first launch may be slow, every feature | agents are held, reasons stand, a wake heeds a stop, stops complete |
| `stream` | 4 events, 2 retained, queue of 3, replay of 2, batches of 2, 3 sockets, 1 snapshot, 2 troubles | the stream is the abstract delivery; no holes, no unheard successor; it settles, at the head of the log, unless its session was pruned |
| `admission` | 3 sessions, 2 of them to be created, ceiling 1, bucket of 1, 1 refill | what is parked is paid for and quiet; a creation keeps its place; calls return; the idle are released |
| `restart` | 3 launches, 3 daemons, 1 refused write, 2 attempts, reboots | orphans are reaped; the log ends as the session does; a stop is kept; the boot pass decides |
| `relay` | 1 machine, 3 dials, 3 processes for 2 relay ids | an id has one holder, a live row stands; presence settles |
| `outbox` | 2 messages, 1 of them for anybody to ask for, 2 processes, 2 attempts, breaker at 2, 2 troubles | one sender; duplicates have an excuse; every message settles |
| `final`, `skipped`, `revived` | as `lifecycle`, `stream`, `restart`, reduced | section 5 |

Why the bounds are enough. Two turns are what it takes for an answer of one to
meet the other, and a third claim for a drain between them; five events let a
draft, a log line and two ends of turns overlap, and a cap of three makes them
overflow. Three messages are a turn, one inside an await and one queued (in
`safety` two can be queued and so be out of order; in `live` the third meets a
full queue). Two agents are a restart or a wake. Three launches are a first
agent, one that fails or is replaced, and one that would be wrong to start; two
stops are one that waits and one that joins or follows it. In `stream`, four
events are more than the queue and twice the replay, so an attach can meet
evicted events, events it will not replay and a collapse; three sockets are a
primary and two successors, which is as many as are heeded; a trouble is a lost,
expired or refused connection, a rotation, a resume, a stop or a restart, and two
of them are what every race of section 5 takes. In `admission`, a ceiling of one
is exceeded by any second session, and three sessions are one that is parked, one
that it is parked for and one that comes in between or is waited for by the
sweep. In `restart`, three launches are an agent, the one that succeeds it when it
was orphaned, and one more to be started wrongly; three daemons are two crashes, of
which the second can meet what the first left half done; one refused write is
enough for a row to be behind when its daemon ends. In `relay`, three dials are a tunnel, its successor and one that the daemon
has given up on; two processes of one id are a relay and its replacement, and the
third is another relay that the machine moves to. In `outbox`, two processes
compete for a row, two attempts reach the last one, and two troubles are a send
without an answer and a second one that is lost too.

Symmetry is used in `safety` only, where no property is a liveness property:
messages and asks are interchangeable.

Fairness. `TurnQueue`: continuations of promises run, and `pump` goes on; the
agent need not do anything, and nobody need abandon a turn, so `TurnEnds` is
about turns that were answered, abandoned or disposed of. `ManagedSession`: what
has a deadline or waits for the machine only (reads, steers, launches, the parts
of a stop and of a restart) happens, and a turn ends, because the agent answers
or the sweep for silent turns abandons it. `SessionLifecycle`: a launch settles,
an agent that is being closed dies (SIGKILL at the latest), continuations run.
Nobody is assumed to send, stop, park or resume anything. `DaemonRestart`: the
daemon goes on from one statement to the next, a launch settles (it has a
deadline), the boot pass tries again after its wait, and a supervisor starts a
daemon that ended; no daemon need crash and no write need be refused. `EventStream`: as long
as a handshake, a frame, a close, a token or a retry is under way, one of them
gets on. `Fairness` is weak fairness of `Progress` with its enabling condition
written out (`AtRest` is where no step of `Progress` is possible), because
`ENABLED` of so wide an action is slow to evaluate. `StreamSettles` says that
rest is reached and `RestsAtTheHead` what is true there; a client whose session was
pruned is excepted, for it retries until it is stopped, and no step of a person or
of the list of sessions is assumed (section 5). The network does not
fail more often than the bound: a client whose every connection is lost never
catches up, and the code does not claim it.

`stream` leaves out `Faults`. With `disk`, `HolesAreImpossible` fails
(section 5). With `stall`, a collapse clears the queued notice of an earlier
one and starts its own notice after it: the client then meets events that do not
follow on, and reconnects. A socket has to stand still for a whole queue of
events after a collapse, which the heartbeat ends within 40 s.

`Admission`: a stop ends (its parts have deadlines, and a kill that is forced),
the awaits of a creation or a wake that has its room come back, and the sweep's
timer is armed again by every tick. Sessions need not do anything, and nobody
need create or wake one. `RelayPresence`: live processes flush and attach, the end
of a link notices that the other one is gone (a FIN or missed pings), a daemon
that is not stopped dials again, rows and claims age. Each link and each process
fails at most once, which the bounds say. `MailOutbox`: a live pump ticks, a
lease and a back-off run out, a message goes stale, a process that ended is
started again. The server need never answer: the watchdog does.

The runs disable deadlock checking where the system may stop: a session nobody
talks to rests, an outbox may be empty, and the bounds end every behaviour.
`admission` does not: there is always somebody who may be active.

## 4. What is proved

All theorems hold for every value of the constants that the named assumptions
allow.

`TurnQueueProofs` (assumptions `BoundsAssumption`, `ModeAssumption`):

* `TypeCorrect`: `Spec => []TypeOK`. By induction over `Next`, one lemma per
  operation of the queue and one step per action.
* `TurnHoldsAlwaysHasOwner`: `Spec => []TurnHoldsHasOwner`. The property is not
  inductive: that a hold has a live owner needs the claims beyond `reader` to be
  unused, a displaced reader to have been given `NoEvent`, and the parked reader
  to be the current one. `OwnInv` says that.
* `NoEventIsLost`: `Spec => []NothingLost`. `KeptInv` is the property over sets of
  numbers; what is new in it is said of the operations. `PushLeaves` is the lemma
  this and the next two rest on: what `push` leaves is part of the buffer, the
  event and the notice of an overflow, in that order, and what it does not leave
  it counts as dropped. A hand-over loses nothing because the reader it displaces
  is parked, and a parked reader has been given nothing (`OwnInv`).
* `EventsAreReadInOrder`: `Spec => []ReadInOrder`. `OrderInv`: the log, what readers
  have been given, in the order of their claims, and the buffer follow one another,
  all of it before the next number, and all but that before a draft that is held.
  It takes `ParkedInv` (a reader is parked only on an empty buffer), so that an
  event handed over directly overtakes nothing; and that continuations run in the
  order of the claims, so that what is recorded is the oldest that is not.
* `EveryEndReachesItsTurn`: `Spec => []EndReachesItsTurn`. `EndsPlaced`: an end in
  the buffer is the only one there and of the turn that holds the queue, whose
  request is settled and whose reader has not been given it; or it is what adopt
  left, and the first drain has yet to read it. An active turn holds the queue
  unless that is closed. `RpcInv` says which callbacks still count, and
  `ReaderInv` that the current reader is never displaced and is given CLOSED only
  at the end of everything. Under these, at most one end is on its way at a time.

`ManagedSessionProofs` (`ManagedSessionAssumption`):

* `QueueBounded`, `ReservationsAreHeld`, `ThereIsOneTurn`,
  `BackstopIsNotReached`. All four follow from `QueueInv`: the queue holds
  queued messages, each once; the turn is the one message whose pump is under
  way; `midTurnAccepted` is the number of messages inside an await of
  `sendMidTurn`; and the queue and the reservations together fit
  `MAX_QUEUED_PROMPTS`. `QueueBound` needs the other parts, because a send that
  falls back to the queue spends a reservation, and it must have had one.
  `registry.ts:5733-5772` argues for the last theorem in a comment; the code
  keeps the check all the same.
* `TypeCorrect`: `Spec => []TypeOK`, which takes `QueueInv` for the queue, and
  that a launch is only under way while another incarnation may be numbered.
* `EveryAskHasItsTurn` and `CancelsKeepToTheirTurn`, from `AskInv` (a pending ask
  is of the turn there is, of a session that has not ended and is not being torn
  down, and was settled by nobody) and `OpenInv` (the one event stream that is open is
  the current agent's, and none is while an agent is started, closed or gone).
* `QueueIsInAcceptOrder`, from `OrderInv`: numbers are given out once (`Stamped`),
  whoever waits for room has one (`Numbered`), and the queue is sorted by them and
  complete (`Filed`). A send that falls back to the queue after its awaits is filed
  before those accepted after it (`PlacedFiled`), which is what
  `registry.ts` computes an index for.
* `NoQueueIsStranded`, if `"reads" \notin Slow`: from `QuietInv` (while an agent is
  started nobody prompts, attaches or steers) and `StrandInv`, which adds to the
  property what becomes of the queue while no agent is up.
* `EachMessageIsToldOnce`, if `"steers" \notin Slow`: from `ToldInv`, a message that
  was told is in a state that does not lead back to the queue.

  The two assumptions are the timing the code relies on; without them the
  properties are false (section 5), so no theorem can do without.

`EventStreamProofs` (`EventStreamAssumption`, and `Faults = {}`: with either
fault the properties are false, sections 3 and 5). First what `EventStream` is:

* `NothingIsLeftOut`: `Spec => []StreamInv`. A frame or an item "brings" a client
  to the number it will stand at when it has heeded it. `StreamInv` says that
  each batch, notice and item, on each wire and in each queue, begins at most one
  beyond what the client already has or what is in front of it brings
  (`FrameFits`, `ItemFits`); that the queue of an attached socket ends by bringing
  the head of the log, and is empty unless a send is under way (`QueueFits`); that
  `lastSentSeq` is where the client will stand when what was sent has arrived
  (`SentFits`), which is what a collapse relies on; that the store has the newest
  event and all from its oldest on; and that the client's fields name sockets in
  use and leave no stream without a socket or a call under way (`FieldsFit`). One
  lemma per operation of a socket (`FlushFits`, `AppendFits`, `CollapseFits`,
  `EnqueueFits`, `AttachedFits`, `TakenFits`...) says that it keeps `SocketFits`,
  for any cursor; `FitsLater` says that a client that is further on breaks
  nothing, which is why two sockets can be read side by side.
* `NoFrameLeavesAHole`, `EverySuccessorIsHeard`, `AStreamAtRestIsAtTheHead`:
  three properties of the run, from `StreamInv`; the third needs `Deserted` as well: no
  socket is attached to a session that is gone.
* `TheStreamDeliversTheLog`: `Spec => DeliversTheLog`, the refinement. A hello is a
  `Skip` or nothing, a batch is a `Hand` or nothing, a notice is a `Tell`, an
  append is a `Log`, and every other step leaves the delivery alone.

Then what the delivery is worth, for whoever implements it:

* `DeliveryIsBounded`: what was handed or told lies between the beginning and
  the cursor. This is inductive with `TypeOK`, and the two others need it.
* `EachEventOnceAndInOrder`: since nothing that was handed or told is beyond the
  cursor, what is handed next is new. `NothingIsSkippedNearTheHead`: only a `Skip`
  passes events over, and it stays `ReplayMax` behind the head.
* `TheStreamHandsEachEventOnce`: both, of `EventStream` itself.

`AdmissionProofs` (`SessionsAssumption`, `BoundAssumption`), all from
`AdmissionInv`:

* `TypeCorrect`, and `EvictionsArePaid`: `evicted + tokens <= Burst + refills`.
* `EachTakesItsOwn`: no two parties wait for the same stop. This is what makes
  one stop free one place: a stop that ends lets one party go on.
* `PlacesAreKept`: `Spec => []PlaceIsKept`. By counting: a creation waits either
  for the stop of a session that is still counted, or for nothing; and a session
  that is admitted adds one to both sides. It needs `EachTakesItsOwn`, and that
  somebody who waits has a call that makes room (`MakesRoom`).
* `OnlyTheQuietAreParked`: `Spec => ParksOnlyTheQuiet`. The sweep's list is old
  when it is used; `StaysQuiet` says that what is on it and did nothing since is
  as quiet as it was when the list was made.

`RelayPresenceProofs` (`SlotAssumption`, `BoundAssumption`, `NoneAssumption`):

* `TypeCorrect` and `OpenTunnelsAreFound`, from `RelayInv`: what a relay has open
  or closing belongs to a process that runs and a machine, and `since` is never
  in the future.
* `OneHolderHolds`, if `Slips = {}`. `HolderInv`: the claim of a process that
  runs is fresh, one that is about to claim has read what is still true, and two
  are never about to claim the same id.
* `LiveRowsStand`, if `Slips = {}`: from both invariants. A row is taken by an
  upsert, whose tunnel is newer; by a heartbeat of another relay, whose tunnel
  must be as new; or by the relay's own name, which only the holder of the id
  uses, and the holder has the tunnel in its map.

`DaemonRestartProofs` (`RestartAssumption`), from `RestartInv`. Its parts are
`Coherent` (the fields of a session fit together), `Kept` (whenever no write is
owed and none was refused, the row is what the session is), `Held`, `Told` and
`Answered` (what the processes, the log and the answers given say, against the
session while a daemon runs and against the row between two of them). `Kept` is
what makes a crash harmless: everything the next daemon knows comes through it.

* `TypeCorrect`.
* `OrphansAreAlwaysReaped`: `Spec => []OrphansAreReaped`, for any number of
  crashes. An agent that lives when a daemon ends is named by a row that says
  "running", so that `Boot` kills it, or is one of `unknown`.
* `LogAlwaysTellsTheEnd`: `Spec => []LogTellsTheEnd`. A quiet resume leaves the log
  alone, so the invariant must remember that the log says what the session will
  go back to if it fails.
* `StopsOutliveDaemons`: `Spec => StopOutlivesDaemon`.

`SessionLifecycleProofs` (`LifecycleAssumption`):

* `TypeCorrect` and `WakesHeedStops`, from `LifeInv`. `WakeIsWanted`: a wake that
  is still making room was asked for and not stopped since, because a stop that
  changes the exit record turns it to "moved".
* `LiveAgentsAreHeld`, `StopsEndTheirOwnLife` and `ReasonsStand`, from `LivesInv`,
  which says that the lives of a session do not overlap. A session that ended has
  no launch that could still come up for it and no stop with work to do
  (`Ended`), so the next life starts clean; a session that runs has at most one
  stop, and that is about its own agent (`OwnStop`); whoever waits for a launch
  waits for the session's (`Woken`). All of that is lost once a stop waits for a
  launch that was given up on, which is why the three say `~Astray`. Launches and
  stops are taken in turn (`Numbered`), so the next one is always unused.

`MailOutboxProofs` (`OutboxAssumption`, `NoneAssumption`), from `OutboxInv`:

* `TypeCorrect` and `OneSenderHolds`. `Leased`: a row that is being sent is
  leased, and is not due, so that no second claim succeeds.
* `DuplicatesAreAccounted`. `Accounted`: what the server has of a message or may
  still take is at most one more than the excuses there are, and no more than
  they while the message is neither taken in a send under way nor recorded.

Every invariant and action property of a passing run is a theorem here. What is
only checked by TLC is liveness: `TurnEnds`, `BufferDrains`, `AcceptedSettles`,
`RestartEndsSometime`, `StopCompletes`, `StreamSettles`, `PresenceSettles`,
`EveryMessageSettles`, `CallsReturn`, `IdleIsReleased` and `PassDecides`. They rest on
weak fairness, hence on `ENABLED`, which the proof system does not reason about.
The types of `TurnQueue`, `ManagedSession`, `RelayPresence`, `MailOutbox`, `Admission`,
`DaemonRestart` and `SessionLifecycle` are proved and no longer checked, and so are
`RoomForEverySend` and `OpenTunnelIsFound`. That of `EventStream` documents its
variables.

## 5. Where code and documentation disagree

Three runs end in a counterexample to a sentence of the repository.

* `final`: a person's stop that arrives while `restartAgent` stops the agent joins
  that stop, and the restart resumes the session ("nothing revives a stopped
  conversation on its own"). The boot pass does the same to a stop that meets an
  attempt which fails, because `doResume` puts the previous exit back.
* `skipped`: an attach that is more than `ATTACH_REPLAY_MAX` behind sends a hello
  with the cursor it starts from and then a notice of what it leaves out. The
  client moves its cursor on the hello. If its socket ends or is replaced before
  the notice arrives, the next attach starts from the moved cursor and has
  nothing to announce ("Nothing is destroyed and nothing is silently skipped").
  The abstract delivery has this as `Skip`; `NothingSkippedNearHead` is what
  remains true.
* `revived`: the boot pass makes its list once (registry.ts:8081) and tries each
  session for minutes, waiting up to 60 s between attempts. It does not ask again
  how a session stands. One that a person resumes meanwhile, and then stops, is
  started by the pass ("nothing revives a stopped conversation on its own").

Some more were counterexamples of runs that others have displaced, and come back
with one constant. With `Slow = {"reads"}`, `NoStrandedQueue` fails: a message
whose attachment is read for longer than a stop and the next start take stays
queued in an idle session, since `onStarted` does not call `deliverQueued`
(registry.ts:6024-6036, "every path out of one asks again"); with `Slow = {"steers"}`
it is `ToldOnce` that fails, as session.ts:179 says it may. With
`Slips = {"pause"}`, `OneHolder` and `LiveRowStands` fail: a relay that stood still
until another process took its id goes on writing its tunnels' rows under that id
with every flush, and its sweep removes the rows of the new holder
(presence.ts:238-241, "its rows go stale"). Only the claim's heartbeat looks at the
nonce.

Smaller ones, met while modelling and not kept as runs: an authentication
failure replaces the agent before `pump` writes the `turn_end` of the errored
turn (registry.ts:6247 against 6224-6246); `connect` is reached with a live
primary, when the primary closes during a rotation, the successor's hello
promotes it and the retry then connects all the same (stream.ts:214-216), and
the promoted socket is left open; after a crash, a disk that refused the last
events lets their numbers be given out again (sqlite.ts:1128); a second collapse
drops an unsent notice of the first (server.ts:5222); a line of stderr
overtakes an older tool draft (session.ts:1507 against 2599-2603); a full queue
with nothing to drop grows by one with every push (3172-3177 against 3152-3158);
a bare session's second prompt can leave `turnActive` set (3114 against
2131-2138); of two steers under way, the one that falls back to the queue is told
after the later one (registry.ts:5793-5800); a wake that makes room while the
daemon shuts down still launches (4112 against 8103-8107), and so does one whose
session read as ended, and not as parked, when it was stopped (5113-5116);
`parkable` (registry.ts:3145 and after) takes a queue behind an idle session for
impossible, which the message above refutes; `stop` says that `doResume` looks at
`stopRequested` again, and it compares the exit record.

A `doStop` that waits for a launch which timed out carries on in the next life of
the session, disposes of its agent or marks it as ended (`Astray` in
`MCSessionLifecycle`). An event whose row and placeholder were both refused by the
disk is missing from every later replay: a client behind it takes the gap for a
bug of its own cursor and reconnects to the same gap for ever ("This should be
impossible on one socket"; `EventStream` with `Faults = {"disk"}`).

A failure can keep a stream busy for ever. A daemon drops a session only when it
starts and prunes (sqlite.ts:1633); nothing deletes from `registry.sessions`, and
`SessionLog.drop` has no caller. From then on the guard of the stream's route
refuses every handshake with a 404 (server.ts:4885-4888), which a client sees as a
socket closed with 1006. It takes that for a failure of its transport ("nothing
here can be the daemon answering", stream.ts:430-431), forgets the route each time
and retries: `<>[]AtRest` fails in `stream`, and so `StreamSettles` excepts a client
whose session is gone and that was not stopped. What ends it is outside the
stream: the app's poll of the sessions, when the list is whole and the tab visible
(store.ts:2684, 2876), or the person. The code that makes a client give up, 4404
(server.ts:4903-4908), is for a session "dropped between that check and the
upgrade"; both look it up in one turn of the event loop, so that no daemon sends
it, and the model has no such close.

Restarts of the daemon. `shutdown` collects the handle of a session that is being
started again, which is the previous agent's, and signals it at the end without
the fence and the probe that `reap` has; after a reboot the number may be another
process's ("shot"; registry.ts:8490-8522). The fence of `reap` compares the time at
which the session was created, so after a reboot no agent of an older session is
reaped, those launched since included (local.ts:1447; `old` in
`OrphansAreReaped`). A crash during a launch leaves an agent that no row names, and
so does an agent that comes up while its session is being stopped, since
`onStarted` returns before it writes (registry.ts:4265; `unknown`). When a quiet
resume fails while a stop waits for it, the log is told "start_failed" and the
previous exit is put back without a word (`torn`). `restore` appends nothing for a
row that has an exit, so when a crash falls between the event of a resume that
begins and its row, the log says "starting" and the session has ended (8012); the
comment at 5393 has the next boot's
reaper look at `agentConfirmedDead`, which it does not for such a row. A boot pass
that meets a session which already runs counts a failed attempt for every try, and
can end by telling that session's log that no agent could be reattached
(8160, 8223). A session that a person's resume keeps out of a pass, and whose
resume then fails, waits for the next pass. The comment at 3389 calls
`attempts_exhausted` "final for a daemon's life" and says that "nothing re-drives
it"; the pass after an agent update filters only on verdicts that persist (8083),
and does.

Admission. `parkIdleSessions` reads the idle time anew for each session of its
list (7541). When releasing is switched off during a sweep, that time is 0, every
idle session passes, and the sweep goes on; `ParksOnlyTheQuiet` shows that it
still parks only what was quiet since the list was made. The comment at 4085 has
a boot pass stop at the ceiling, but a quiet resume does not look at it. `create`
refuses after `releaseOneSlot` "if the race was lost" (7826), which cannot happen,
as no await lies between weighing and releasing.

Relay. `claimRelayId` reads and writes in two statements outside a transaction
("overlap" in `Slips`). A row with a later time than the live tunnel's, left by a
relay that nobody runs any more, is overwritten by no heartbeat: the machine is
sent for nowhere once the row is stale (`LeftBehind` in `MCRelayPresence`). A dial
that the daemon has given up on can still be attached and takes the row for as
long as its pings go unanswered.

Mail. main.ts:1015-1018 says of an interrupted message that it is neither lost nor
sent twice; one that the server took and that was not recorded before the
shutdown is sent twice. `recordMailSent` is inside the `try`, so a success whose
write fails is recorded as a failure and retried (589-596). A row that expires
while it is being sent is failed, and marked as sent as well afterwards. The
check of `notAfter` after the claim (572-580) is not reached, since the sweep
before it has the same clock. A crash in the middle of a send counts as an attempt but never
as the last one.

## 6. What is not modelled

What an update or a prompt says; the agent's configuration and its controls;
background tasks, except that they keep a session from being parked; queued slash
commands; elicitations apart from their being asks; files, git and worktrees;
plugins; the agents' installation and sign-in beyond their effect on sessions;
cryptography; the requests and streams that a tunnel carries; the control plane's
request handlers; the pruning of the outbox and the SMTP dialogue; the user
interface; the harnesses under `scripts/` that exercise all of these, which are
tests and a large part of the repository's lines. `PROJECT.json` has a row for
every part with its reason.

Two hazards of `PROJECT.json` have no property, because the code does not hold to
one: a relay that goes on after its claim was taken (presence.ts:243), and a stream
whose session was pruned (server.ts:4886). Section 5 has both.

## 7. Plan

1. `DaemonRestart` joined to `SessionLifecycle` and `Admission`: a boot pass over
   several sessions, the restart of an agent met by a crash.
2. The streams over a tunnel (flow control, frames of a closed stream), throttles,
   uploads, plugin installation, framing.
3. Proofs: more abstract specifications, in the way of `EventDelivery`: the queue
   of a session as a channel that loses only what it counts, the stop of a session
   as one step.

The runs stay few: a new component brings one passing run and, where code and
documentation part, one counterexample, and a property that is proved need not be
checked any longer.
