---------------------------- MODULE EventStream ----------------------------
(***************************************************************************)
(* The event stream of one session, from the log to a client's screen:     *)
(* SessionLog and its store (src/events.ts, src/store/sqlite.ts), a        *)
(* StreamConnection per socket on the daemon (src/server.ts), and the      *)
(* client's SessionStream, which opens sockets, rotates them before their  *)
(* token expires and reconnects after they end                             *)
(* (packages/web/src/stream.ts).                                           *)
(*                                                                         *)
(* A socket is one record: what the daemon's StreamConnection holds, the   *)
(* frames on their way to the client and, once the daemon's end is gone,   *)
(* the close code behind them.  It is "unused" again when the client has   *)
(* closed it or seen its close, and when the client's generation moves on: *)
(* from then on its handlers return at once, whether or not the socket was *)
(* closed, and nothing it carries is heeded.  An event is its number.      *)
(* Frames are counted, never weighed: a byte bound that bites earlier is a *)
(* smaller bound.                                                          *)
(***************************************************************************)
EXTENDS Integers, Sequences, FiniteSetsExt

CONSTANTS
    ReplayMax,     \* ATTACH_REPLAY_MAX, server.ts:146
    QueueMax,      \* MAX_QUEUE_EVENTS, server.ts:119
    BatchMax,      \* BATCH_MAX_EVENTS, server.ts:147
    RetainMax,     \* maxEventsPerSession, events.ts:1479; the default is no bound
    MaxSockets,    \* bound: sockets that exist at a time
    MaxSeq,        \* bound: events
    MaxSnapshots,  \* bound: snapshots of the session sent to its watchers
    MaxTrouble,    \* bound: what the client, the network and the clock do
    WireMax,       \* bound: frames the network holds before the daemon waits
    Faults         \* the faults modelled: a subset of FaultKinds

FaultKinds == {"disk", "stall"}

ASSUME EventStreamAssumption ==
    /\ {ReplayMax, QueueMax, BatchMax, RetainMax, MaxSockets, WireMax} \subseteq Nat \ {0}
    /\ QueueMax >= 3
    /\ {MaxSeq, MaxSnapshots, MaxTrouble} \subseteq Nat
    /\ Faults \subseteq FaultKinds

VARIABLES
    head,      \* the number last given: Counters.lastSeq
    rows,      \* the events the store still has
    gone,      \* the session was pruned when the daemon started
    conns,     \* the sockets
    client,    \* the client's SessionStream
    base,      \* the cursor the stream was created with (history)
    handed,    \* what onEvents was called with (history)
    told,      \* what onGap was called with (history)
    snapshots, trouble   \* how often so far

log == <<head, rows, gone>>
seen == <<handed, told>>
vars == <<head, rows, gone, conns, client, base, handed, told, snapshots, trouble>>

Sockets == 1..MaxSockets
None == 0
Larger(a, b) == IF a > b THEN a ELSE b
Smaller(a, b) == IF a < b THEN a ELSE b

Event(n) == [kind |-> "event", seq |-> n]
Hello(since) == [kind |-> "hello", since |-> since]
Lagged(from, to) == [kind |-> "lagged", from |-> from, to |-> to]
Snapshot == [kind |-> "snapshot"]
CaughtUp == [kind |-> "caught_up"]

Trouble == trouble < MaxTrouble /\ trouble' = trouble + 1
-----------------------------------------------------------------------------
(* The daemon's end of a socket                                            *)

Unused ==
    [st |-> "unused", succ |-> FALSE, since |-> 0, cursor |-> 0, sent |-> 0, queue |-> <<>>,
     sending |-> FALSE, collapsed |-> FALSE, wire |-> <<>>, code |-> 0]

Opening(since, succ) == [Unused EXCEPT !.st = "opening", !.since = since, !.succ = succ]

(* close and dispose: what is queued is dropped, what was sent arrives.    *)
Ended(c, code) ==
    [Unused EXCEPT !.st = "ended", !.succ = c.succ, !.wire = c.wire, !.code = code]

(* The connection is lost with what was on it.                             *)
Cut(c) == Ended([c EXCEPT !.wire = <<>>], 1006)

(* How many items the next frame takes: a control frame goes alone, events *)
(* in a batch.                                                             *)
BatchSize(q) ==
    IF Head(q).kind # "event" THEN 1
    ELSE Max({n \in 1..Smaller(BatchMax, Len(q)) : \A i \in 1..n : q[i].kind = "event"})

(* flush: one frame at a time, the next when the socket has taken it.      *)
Flush(c) ==
    IF c.st # "attached" \/ c.sending \/ c.queue = <<>> THEN c
    ELSE LET n == BatchSize(c.queue)
             events == Head(c.queue).kind = "event"
             batch == SubSeq(c.queue, 1, n)
             frame == IF events
                      THEN [kind |-> "events", seqs |-> {batch[i].seq : i \in 1..n}]
                      ELSE Head(c.queue)
         IN [c EXCEPT !.queue = SubSeq(@, n + 1, Len(@)),
                      !.wire = Append(@, frame),
                      !.sending = TRUE,
                      !.sent = IF events THEN batch[n].seq ELSE @]

(* Mutant: a collapse that gives the client no news of what it dropped.     *)
Collapse_Silent(c, newest, replaying) ==
    LET d == [c EXCEPT !.queue = <<Snapshot>>, !.cursor = newest, !.sent = newest,
                       !.collapsed = @ \/ ~replaying]
    IN IF ~replaying /\ c.collapsed THEN Ended(d, 4003) ELSE d

(* collapse: what is queued is given up for the news that it was.  Only a  *)
(* client that is slow is counted, and the second time closed.  newest is  *)
(* the log's last number at that moment.                                   *)
Collapse(c, newest, replaying) ==
    LET news == IF newest > c.sent THEN <<Lagged(c.sent + 1, newest)>> ELSE <<>>
        d == [c EXCEPT !.queue = Append(news, Snapshot), !.cursor = newest, !.sent = newest,
                       !.collapsed = @ \/ ~replaying]
    IN IF ~replaying /\ c.collapsed THEN Ended(d, 4003) ELSE d

Enqueue(c, item, newest) ==
    LET d == [c EXCEPT !.queue = Append(@, item)]
    IN IF c.st # "attached" THEN c
       ELSE IF Len(d.queue) > QueueMax THEN Collapse(d, newest, FALSE) ELSE Flush(d)

Control(c, frame) == Enqueue(c, frame, head)

Emit(c, n) ==
    IF c.st # "attached" \/ n <= c.cursor THEN c
    ELSE Enqueue([c EXCEPT !.cursor = n], Event(n), n)

OldestAvailable == IF rows = {} THEN head + 1 ELSE Min(rows)

(* The rows after since, in order.                                         *)
Replay(since) ==
    LET later == {n \in rows : n > since}
        nth(i) == CHOOSE n \in later : Cardinality({m \in later : m <= n}) = i
    IN [i \in 1..Cardinality(later) |-> Event(nth(i))]

(* The hello goes out at once, and what follows it waits behind it.        *)
Greeted(c, since) ==
    [c EXCEPT !.st = "attached", !.since = 0, !.cursor = since, !.sent = since,
              !.wire = <<Hello(since)>>, !.sending = TRUE]

(* A backlog that overruns the queue is collapsed, and the rows after that *)
(* are behind the cursor: they change nothing.                             *)
Replayed(c, backlog) ==
    IF Len(backlog) > QueueMax THEN Collapse(c, head, TRUE)
    ELSE [c EXCEPT !.queue = backlog, !.cursor = Larger(@, Max(rows \cup {0}))]

(* Mutant: an attach that has no word for what was evicted.                 *)
Attached_Unannounced(c) ==
    LET asked == Smaller(c.since, head)
        since == Larger(asked, head - ReplayMax)
        skipped == Larger(asked, OldestAvailable - 1)
        declined == IF since > skipped THEN <<Lagged(skipped + 1, since)>> ELSE <<>>
    IN Control(Replayed(Greeted(c, since), declined \o Replay(since)), CaughtUp)

(* attach: the hello, what will not be sent, the backlog, and live from    *)
(* there, in one synchronous block, so that nothing drains meanwhile.      *)
Attached(c) ==
    LET asked == Smaller(c.since, head)
        since == Larger(asked, head - ReplayMax)
        skipped == Larger(asked, OldestAvailable - 1)
        evicted == IF asked < OldestAvailable - 1
                   THEN <<Lagged(asked + 1, OldestAvailable - 1)>> ELSE <<>>
        declined == IF since > skipped THEN <<Lagged(skipped + 1, since)>> ELSE <<>>
    IN Control(Replayed(Greeted(c, since), evicted \o declined \o Replay(since)), CaughtUp)
-----------------------------------------------------------------------------
(* The client                                                              *)

(* dials, refreshes, rotations: calls of connect, ensureToken(true) and    *)
(* rotate that have not come back.  retries: timers that will connect, of  *)
(* which retryTimer names the last one set, if it is armed.                *)
Idle ==
    [last |-> 0, phase |-> "idle", stopped |-> FALSE,
     socket |-> None, successor |-> None,
     dials |-> 0, refreshes |-> 0, rotations |-> 0,
     retries |-> 0, armed |-> FALSE, rotateTimer |-> FALSE]

Close(S, f) == [s \in Sockets |-> IF s \in S THEN Unused ELSE f[s]]
InUse == {s \in Sockets : conns[s].st # "unused"}
Forgotten == Close(Sockets, conns)

(* connect, up to its first await.                                         *)
Connecting(c) ==
    IF c.stopped THEN c
    ELSE [c EXCEPT !.phase = "connecting", !.dials = @ + 1]

(* clearTimers can only clear the retry it still knows.                    *)
ClearTimers(c) ==
    [c EXCEPT !.retries = IF c.armed THEN @ - 1 ELSE @, !.armed = FALSE, !.rotateTimer = FALSE]

(* teardown: both sockets are closed, and the generation moves on.         *)
TornDown(c) == [ClearTimers(c) EXCEPT !.socket = None, !.successor = None]

(* reconnect leaves a young connect alone; one that is overdue it replaces. *)
LeftAlone(c) == c.stopped \/ c.phase = "connecting"
Reconnected(c) == IF LeftAlone(c) THEN c ELSE Connecting(TornDown(c))
ReconnectCloses(c) == IF LeftAlone(c) THEN {} ELSE Sockets

RetryLater(c) ==
    IF c.stopped THEN c
    ELSE [c EXCEPT !.phase = "waiting", !.retries = @ + 1, !.armed = TRUE]

ScheduleRotation(c) == [c EXCEPT !.rotateTimer = ~c.stopped]

(* handleClose, by the code the socket was closed with.  No daemon of this *)
(* version closes a socket with 4404: see Attach.                          *)
HandleClose(c, code) ==
    LET d == ClearTimers(c)
    IN CASE c.stopped -> c
         [] ~c.stopped /\ code = 4401 -> [d EXCEPT !.refreshes = @ + 1]
         [] ~c.stopped /\ code = 4404 -> [d EXCEPT !.stopped = TRUE, !.phase = "closed"]
         [] OTHER -> RetryLater(d)
-----------------------------------------------------------------------------
(* A session that runs or has run, whose oldest events an older daemon may *)
(* have evicted; a stream created at some cursor and started.              *)
Init ==
    /\ head \in 0..Smaller(2, MaxSeq)
    /\ rows \in {1..head, {head} \ {0}}
    /\ gone = FALSE
    /\ conns = [s \in Sockets |-> Unused]
    /\ base \in 0..head
    /\ client = Connecting([Idle EXCEPT !.last = base])
    /\ handed = {} /\ told = {}
    /\ snapshots = 0 /\ trouble = 0

(* What a collapse queued has not been taken.  A socket that stands still  *)
(* like this while the queue fills again, or for all of                    *)
(* COLLAPSE_WINDOW_MS, is a fault (the heartbeat terminates it within      *)
(* 40 s): the next collapse drops the news of the first.                   *)
Stalled(s) ==
    /\ "stall" \notin Faults
    /\ Len(conns[s].queue) > 1
    /\ conns[s].queue[1].kind = "lagged" /\ conns[s].queue[2] = Snapshot

Overruns(s) == Stalled(s) /\ Len(conns[s].queue) = QueueMax /\ ~conns[s].collapsed

(* SessionLog.append: the store gives the number, keeps the event unless   *)
(* the disk refuses it, evicts a prefix, and every connection is given it. *)
Log ==
    /\ head < MaxSeq /\ ~gone /\ ~\E s \in Sockets : Overruns(s)
    /\ head' = head + 1
    /\ \E kept \in {{head + 1}} \cup (IF "disk" \in Faults THEN {{}} ELSE {}) :
        \E first \in {0} \cup rows \cup kept :
            LET all == rows \cup kept
                left == {n \in all : n >= first}
            IN /\ IF kept = {} \/ Cardinality(all) <= RetainMax THEN first = 0
                  ELSE left # {} /\ Cardinality(left) <= RetainMax
               /\ rows' = left
    /\ conns' = [s \in Sockets |-> Emit(conns[s], head + 1)]
    /\ UNCHANGED <<gone, client, base, handed, told, snapshots, trouble>>

(* The session changes, and its watchers are sent the new snapshot.        *)
Watch ==
    /\ snapshots < MaxSnapshots /\ ~gone /\ ~\E s \in Sockets : Overruns(s)
    /\ snapshots' = snapshots + 1
    /\ conns' = [s \in Sockets |-> Control(conns[s], Snapshot)]
    /\ UNCHANGED <<log, client, base, handed, told, trouble>>

(* The handshake ends.  For a session that the daemon does not have, the   *)
(* route's guard answers 404 before a socket is open, and all a client     *)
(* learns of a refused handshake is 1006.  (The 4404 of onOpen asks for a  *)
(* session that the guard found and the same turn of the event loop did    *)
(* not: a running daemon drops none.)                                      *)
Attach(s) ==
    /\ conns[s].st = "opening"
    /\ conns' = [conns EXCEPT ![s] = IF gone THEN Cut(@) ELSE Attached(@)]
    /\ UNCHANGED <<log, client, base, handed, told, snapshots, trouble>>

(* Mutant: a send callback that does not flush what was queued meanwhile.   *)
SendDone_Idles(s) ==
    /\ conns[s].sending /\ Len(conns[s].wire) <= WireMax
    /\ conns' = [conns EXCEPT ![s].sending = FALSE]
    /\ UNCHANGED <<log, client, base, handed, told, snapshots, trouble>>

(* The socket has taken the frame: the send callback flushes again.        *)
SendDone(s) ==
    /\ conns[s].sending /\ Len(conns[s].wire) <= WireMax
    /\ conns' = [conns EXCEPT ![s] = Flush([@ EXCEPT !.sending = FALSE])]
    /\ UNCHANGED <<log, client, base, handed, told, snapshots, trouble>>

(* COLLAPSE_WINDOW_MS passes since the collapse.                           *)
WindowPasses(s) ==
    /\ conns[s].collapsed /\ ~Stalled(s)
    /\ conns' = [conns EXCEPT ![s].collapsed = FALSE]
    /\ UNCHANGED <<log, client, base, handed, told, snapshots, trouble>>

(* The heartbeat finds the token expired.                                  *)
Expire(s) ==
    /\ conns[s].st = "attached" /\ Trouble
    /\ conns' = [conns EXCEPT ![s] = Ended(@, 4401)]
    /\ UNCHANGED <<log, client, base, handed, told, snapshots>>

(* The network fails, a handshake is refused for its token or on the way,  *)
(* or the heartbeat terminates.                                            *)
Drop(s) ==
    /\ conns[s].st \in {"opening", "attached"} /\ Trouble
    /\ conns' = [conns EXCEPT ![s] = Cut(@)]
    /\ UNCHANGED <<log, client, base, handed, told, snapshots>>

(* The daemon restarts.  The last number is what the rows and the session  *)
(* record say, and the record may be behind.  openStores may prune the     *)
(* session: what head and rows say is then of no account.                  *)
DaemonRestarts ==
    /\ Trouble
    /\ \E floor \in 0..head : head' = Max(rows \cup {floor})
    /\ conns' = [s \in Sockets |->
                    IF conns[s].st \in {"opening", "attached"} THEN Cut(conns[s]) ELSE conns[s]]
    /\ gone' \in {gone, TRUE}
    /\ UNCHANGED <<rows, client, base, handed, told, snapshots>>
-----------------------------------------------------------------------------
(* Mutant: a connect that leaves the successor's field as it was.           *)
DialOpens_Beside ==
    /\ client.dials > 0
    /\ IF client.stopped
       THEN client' = [client EXCEPT !.dials = @ - 1] /\ UNCHANGED conns
       ELSE /\ conns' = [Forgotten EXCEPT ![1] = Opening(client.last, FALSE)]
            /\ client' = [client EXCEPT !.dials = @ - 1, !.socket = 1]
    /\ UNCHANGED <<log, base, handed, told, snapshots, trouble>>

(* The token and the route are there: the successor goes, the generation   *)
(* moves on, and the new socket becomes the socket whatever that was.      *)
DialOpens ==
    /\ client.dials > 0
    /\ IF client.stopped
       THEN client' = [client EXCEPT !.dials = @ - 1] /\ UNCHANGED conns
       ELSE /\ conns' = [Forgotten EXCEPT ![1] = Opening(client.last, FALSE)]
            /\ client' = [client EXCEPT !.dials = @ - 1, !.socket = 1, !.successor = None]
    /\ UNCHANGED <<log, base, handed, told, snapshots, trouble>>

DialFails ==
    /\ client.dials > 0 /\ Trouble
    /\ client' = RetryLater([client EXCEPT !.dials = @ - 1])
    /\ UNCHANGED <<log, conns, base, handed, told, snapshots>>

(* A retry's timer forgets retryTimer even when that names another.        *)
RetryFires ==
    /\ client.retries > 0
    /\ client' = Connecting([client EXCEPT !.retries = @ - 1, !.armed = FALSE])
    /\ UNCHANGED <<log, conns, base, handed, told, snapshots, trouble>>

(* ensureToken(true) after an expiry comes back.                           *)
RefreshComes ==
    /\ client.refreshes > 0
    /\ client' = Connecting([client EXCEPT !.refreshes = @ - 1])
    /\ UNCHANGED <<log, conns, base, handed, told, snapshots, trouble>>

RefreshFails ==
    /\ client.refreshes > 0 /\ Trouble
    /\ client' = RetryLater([client EXCEPT !.refreshes = @ - 1])
    /\ UNCHANGED <<log, conns, base, handed, told, snapshots>>

(* CONNECT_SETTLE_MS passes since the connect began.                       *)
Settles ==
    /\ client.phase = "connecting"
    /\ client' = [client EXCEPT !.phase = "overdue"]
    /\ UNCHANGED <<log, conns, base, handed, told, snapshots, trouble>>

(* The app resumes, or finds the machine again.                            *)
Resume ==
    /\ Trouble
    /\ conns' = Close(ReconnectCloses(client), conns)
    /\ client' = Reconnected(client)
    /\ UNCHANGED <<log, base, handed, told, snapshots>>

(* closeStream: the person moves on, or the list of sessions says that the *)
(* daemon has this one no more.                                            *)
Stop ==
    /\ ~client.stopped /\ Trouble
    /\ conns' = Forgotten
    /\ client' = [TornDown(client) EXCEPT !.stopped = TRUE, !.phase = "closed"]
    /\ UNCHANGED <<log, base, handed, told, snapshots>>

(* The rotation's timer fires: rotate, up to its first await.              *)
RotateFires ==
    /\ client.rotateTimer /\ Trouble
    /\ LET waits == client.stopped \/ client.socket = None \/ client.successor # None
       IN client' = [client EXCEPT !.rotateTimer = FALSE,
                                   !.rotations = IF waits THEN @ ELSE @ + 1]
    /\ UNCHANGED <<log, conns, base, handed, told, snapshots>>

(* The rotation has its token, and opens the successor if there is still a *)
(* socket to succeed.                                                      *)
RotateOpens ==
    /\ client.rotations > 0
    /\ IF client.stopped \/ client.socket = None
       THEN /\ client' = ScheduleRotation([client EXCEPT !.rotations = @ - 1])
            /\ UNCHANGED conns
       ELSE /\ InUse # Sockets
            /\ LET s == Min(Sockets \ InUse)
               IN /\ conns' = [conns EXCEPT ![s] = Opening(client.last, TRUE)]
                  /\ client' = [client EXCEPT !.rotations = @ - 1, !.successor = s]
    /\ UNCHANGED <<log, base, handed, told, snapshots, trouble>>

RotateFails ==
    /\ client.rotations > 0 /\ Trouble
    /\ client' = ScheduleRotation([client EXCEPT !.rotations = @ - 1])
    /\ UNCHANGED <<log, conns, base, handed, told, snapshots>>
-----------------------------------------------------------------------------
(* A frame arrives                                                         *)

Taken(s) == [conns EXCEPT ![s].wire = Tail(@)]
Arrives(s, kind) == conns[s].wire # <<>> /\ Head(conns[s].wire).kind = kind

(* Mutant: a hello whose cursor is believed even when the client is ahead.  *)
DeliverHello_Believed(s) ==
    /\ Arrives(s, "hello")
    /\ LET since == Head(conns[s].wire).since
           live == [client EXCEPT !.last = since, !.phase = "live"]
       IN IF conns[s].succ
          THEN /\ conns' = Close({client.socket} \ {s}, Taken(s))
               /\ client' = ScheduleRotation([live EXCEPT !.socket = s, !.successor = None])
          ELSE conns' = Taken(s) /\ client' = ScheduleRotation(live)
    /\ UNCHANGED <<log, base, handed, told, snapshots, trouble>>

(* hello: the successor takes over, and the cursor never goes backwards.   *)
DeliverHello(s) ==
    /\ Arrives(s, "hello")
    /\ LET since == Head(conns[s].wire).since
           live == [client EXCEPT !.last = Larger(@, since), !.phase = "live"]
       IN IF conns[s].succ
          THEN /\ conns' = Close({client.socket} \ {s}, Taken(s))
               /\ client' = ScheduleRotation([live EXCEPT !.socket = s, !.successor = None])
          ELSE conns' = Taken(s) /\ client' = ScheduleRotation(live)
    /\ UNCHANGED <<log, base, handed, told, snapshots, trouble>>

(* The events of a frame that the client takes, and those it would have to *)
(* leave a hole for.                                                       *)
Unread(s) == {n \in Head(conns[s].wire).seqs : n > client.last}
NextRun(s) == {n \in Unread(s) : (client.last + 1)..n \subseteq Unread(s)}

(* events: what was applied is skipped, what follows on is handed over,    *)
(* and at a hole the stream reconnects.                                    *)
DeliverEvents(s) ==
    /\ Arrives(s, "events")
    /\ LET read == [client EXCEPT !.last = Larger(@, Max(NextRun(s) \cup {0}))]
           hole == NextRun(s) # Unread(s)
       IN /\ handed' = handed \cup NextRun(s)
          /\ client' = IF hole THEN Reconnected(read) ELSE read
          /\ conns' = Close(IF hole THEN ReconnectCloses(read) ELSE {}, Taken(s))
    /\ UNCHANGED <<log, base, told, snapshots, trouble>>

DeliverLagged(s) ==
    /\ Arrives(s, "lagged")
    /\ LET gap == Head(conns[s].wire)
       IN /\ told' = told \cup gap.from..gap.to
          /\ client' = [client EXCEPT !.last = Larger(@, gap.to)]
    /\ conns' = Taken(s)
    /\ UNCHANGED <<log, base, handed, snapshots, trouble>>

DeliverSnapshot(s) ==
    /\ Arrives(s, "snapshot")
    /\ conns' = Taken(s)
    /\ UNCHANGED <<log, client, base, handed, told, snapshots, trouble>>

DeliverCaughtUp(s) ==
    /\ Arrives(s, "caught_up")
    /\ conns' = Taken(s)
    /\ client' = [client EXCEPT !.phase = "live"]
    /\ UNCHANGED <<log, base, handed, told, snapshots, trouble>>

(* onclose, after all that arrived: a successor that failed is tried       *)
(* again; any other socket is taken for the one in use.                    *)
Closed(s) ==
    /\ conns[s].st = "ended" /\ conns[s].wire = <<>>
    /\ conns' = Close({s}, conns)
    /\ client' = IF conns[s].succ /\ client.successor = s
                 THEN ScheduleRotation([client EXCEPT !.successor = None])
                 ELSE HandleClose([client EXCEPT !.socket = None], conns[s].code)
    /\ UNCHANGED <<log, base, handed, told, snapshots, trouble>>

Deliver(s) ==
    \/ DeliverHello(s) \/ DeliverEvents(s) \/ DeliverLagged(s)
    \/ DeliverSnapshot(s) \/ DeliverCaughtUp(s)

Next ==
    \/ Log \/ Watch \/ DaemonRestarts
    \/ \E s \in Sockets : Attach(s) \/ SendDone(s) \/ WindowPasses(s) \/ Expire(s) \/ Drop(s)
    \/ DialOpens \/ DialFails \/ RetryFires \/ RefreshComes \/ RefreshFails \/ Settles
    \/ Resume \/ Stop \/ RotateFires \/ RotateOpens \/ RotateFails
    \/ \E s \in Sockets : Deliver(s) \/ Closed(s)

(* What happens of itself: handshakes end, sockets are written, read and   *)
(* closed, tokens are minted and a retry's timer fires.                    *)
Progress ==
    \/ \E s \in Sockets : Attach(s) \/ SendDone(s) \/ Deliver(s) \/ Closed(s)
    \/ DialOpens \/ RetryFires \/ RefreshComes \/ RotateOpens

(* Nothing is under way: nothing on a socket, no call, no retry.           *)
AtRest ==
    /\ \A s \in Sockets :
        conns[s].st \in {"unused", "attached"} /\ ~conns[s].sending /\ conns[s].wire = <<>>
    /\ client.dials = 0 /\ client.refreshes = 0 /\ client.retries = 0 /\ client.rotations = 0

(* As long as something is under way, it goes on: WF_vars(Progress), for   *)
(* AtRest is where no step of Progress is enabled.  Nothing is assumed of  *)
(* the agent, the person, the clock or the network.                        *)
Fairness == []<>AtRest \/ []<><<Progress>>_vars

Spec == Init /\ [][Next]_vars /\ Fairness
-----------------------------------------------------------------------------
ConnType(c) ==
    /\ c.st \in {"unused", "opening", "attached", "ended"}
    /\ {c.since, c.cursor, c.sent} \subseteq 0..MaxSeq
    /\ {c.succ, c.sending, c.collapsed} \subseteq BOOLEAN
    /\ Len(c.queue) <= QueueMax
    /\ c.code \in {0, 1006, 4003, 4401}

TypeOK ==
    /\ head \in 0..MaxSeq /\ rows \subseteq 1..head /\ gone \in BOOLEAN
    /\ \A s \in Sockets : ConnType(conns[s])
    /\ client.last \in 0..MaxSeq
    /\ client.phase \in {"connecting", "overdue", "live", "waiting", "closed"}
    /\ {client.socket, client.successor} \subseteq Sockets \cup {None}
    /\ {client.dials, client.refreshes, client.rotations, client.retries} \subseteq Nat
    /\ base \in 0..head /\ handed \subseteq 1..head /\ told \subseteq 1..head
    /\ snapshots \in 0..MaxSnapshots /\ trouble \in 0..MaxTrouble
=============================================================================
