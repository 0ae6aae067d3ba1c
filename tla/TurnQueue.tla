----------------------------- MODULE TurnQueue -----------------------------
(***************************************************************************)
(* The event queue of one agent session (session.ts: class EventQueue) and *)
(* the readers it changes hands between: the generator of a turn           *)
(* (Session.prompt), the reader between turns (drainBetweenTurns), the     *)
(* abandoning of a wedged turn, and disposal.  The agent is the            *)
(* environment: it emits updates and log lines, and answers or fails each  *)
(* session/prompt request, when it likes or never.                         *)
(*                                                                         *)
(* A step is one run of JavaScript between two awaits.  A reader that has  *)
(* been given an event but whose continuation has not run yet is in state  *)
(* "got"; continuations run in the order their claims were taken, which is *)
(* the order of the microtask queue.                                       *)
(***************************************************************************)
EXTENDS Naturals, Sequences

CONSTANTS
    MaxTurns,     \* bound: prompts started
    MaxClaims,    \* bound: claims taken (EventQueue.reader)
    MaxEvents,    \* bound: events the session emits
    MaxBuffered,  \* MAX_BUFFERED_EVENTS
    Consumers,    \* who may read the session: "unstarted", a ManagedSession that
                  \* has yet to start reading, or "bare", its caller itself
    PinFailed     \* TRUE: the session was resumed without its model, and
                  \* openResumed left an error event in the queue

ASSUME BoundsAssumption ==
    /\ MaxTurns \in Nat
    /\ MaxClaims \in Nat
    /\ MaxEvents \in Nat
    /\ MaxBuffered \in Nat \ {0}

ASSUME ModeAssumption == Consumers \subseteq {"unstarted", "bare"} /\ PinFailed \in BOOLEAN

Turns  == 1 .. MaxTurns
Claims == 1 .. MaxClaims

(* An event: its kind, the turn it is the end of (0: of none), and a       *)
(* number in the order the session emitted them.                           *)
SessionEvent == [kind : {"update", "other", "log", "turn_end", "error"}, turn : Nat, id : Nat]
Ev(kind, turn, id) == [kind |-> kind, turn |-> turn, id |-> id]

NoEvent == Ev("null", 0, 0)     \* what a displaced reader is given
Closed  == Ev("closed", 0, 0)   \* the CLOSED sentinel
Event   == SessionEvent \cup {NoEvent, Closed}

VARIABLES
    buffered,    \* EventQueue.buffered
    waiting,     \* the claim whose resolver is parked in EventQueue.waiting, or 0
    closed,      \* EventQueue.closed
    reader,      \* EventQueue.reader: the last claim taken
    turnHolds,   \* EventQueue.turnHolds
    readers,     \* what each claim's reader is doing
    turnActive,  \* Session.turnActive
    promptEpoch, \* Session.promptEpoch
    prompts,     \* number of prompts that were sent to the agent
    rpc,         \* each prompt's session/prompt request and the epoch it captured
    toolSent,    \* a tool_call_update was pushed (Session.toolDraft is set)
    draft,       \* the id of the held tool draft (toolDraft.held), or 0
    disposal,    \* how far doDispose has come
    pump,        \* the consumer: ManagedSession.turn and its pump
    emitted,     \* number of events emitted so far
    log,         \* the events readers have been handed, in order
    dropped      \* ids that will not be read: evicted by an overflow, a draft
                 \* that a longer one replaced, or pushed after close

queueVars   == <<buffered, waiting, closed, reader, turnHolds, readers>>
sessionVars == <<turnActive, promptEpoch, prompts, rpc, toolSent, draft,
                 disposal>>
ghostVars   == <<emitted, log, dropped>>
vars        == <<queueVars, sessionVars, pump, ghostVars>>

Unused == [kind |-> "none", st |-> "unused", ev |-> NoEvent, of |-> 0]
Reader == [kind : {"none", "turn", "drain"},
           st   : {"unused", "parked", "got", "done"},
           ev   : Event,
           of   : Nat]
Rpc    == [st : {"none", "open", "answered"}, epoch : Nat]

TypeOK ==
    /\ buffered \in Seq(SessionEvent)
    /\ waiting \in 0 .. MaxClaims
    /\ closed \in BOOLEAN
    /\ reader \in 0 .. MaxClaims
    /\ turnHolds \in BOOLEAN
    /\ readers \in [Claims -> Reader]
    /\ turnActive \in BOOLEAN
    /\ promptEpoch \in Nat
    /\ prompts \in 0 .. MaxTurns
    /\ rpc \in [Turns -> Rpc]
    /\ toolSent \in BOOLEAN
    /\ draft \in Nat
    /\ disposal \in {"none", "flushed", "closed"}
    /\ pump \in {"unstarted", "idle", "attach", "stream", "bare"}
    /\ emitted \in Nat
    /\ log \in Seq(SessionEvent)
    /\ dropped \subseteq Nat

(***************************************************************************)
(* The session as adopt leaves it: session_started is already queued, and  *)
(* after it the error of a resume that could not pin its model.            *)
(***************************************************************************)
Init ==
    /\ buffered = IF PinFailed THEN <<Ev("update", 0, 1), Ev("error", 0, 2)>>
                               ELSE <<Ev("update", 0, 1)>>
    /\ emitted = IF PinFailed THEN 2 ELSE 1
    /\ waiting = 0
    /\ closed = FALSE
    /\ reader = 0
    /\ turnHolds = FALSE
    /\ readers = [c \in Claims |-> Unused]
    /\ turnActive = FALSE
    /\ promptEpoch = 0
    /\ prompts = 0
    /\ rpc = [n \in Turns |-> [st |-> "none", epoch |-> 0]]
    /\ toolSent = FALSE
    /\ draft = 0
    /\ disposal = "none"
    /\ pump \in Consumers
    /\ log = <<>>
    /\ dropped = {}

(***************************************************************************)
(* EventQueue.push.  A parked reader is handed the event; otherwise it is  *)
(* buffered, and over the cap the oldest droppable event goes, or the head *)
(* with an error event to say so.                                          *)
(***************************************************************************)
Give(rs, c, e) == [rs EXCEPT ![c].st = "got", ![c].ev = e]

Without(s, i) == SubSeq(s, 1, i - 1) \o SubSeq(s, i + 1, Len(s))

Droppable(s) == {i \in 1 .. Len(s) : s[i].kind \in {"log", "other"}}
OldestDroppable(s) == CHOOSE i \in Droppable(s) : \A j \in Droppable(s) : i <= j

(* The buffer after e is appended, and the ids evicted to make room.       *)
Buffered(s, e) ==
    LET t == Append(s, e) IN
    IF Len(t) <= MaxBuffered THEN [seq |-> t, gone |-> {}]
    ELSE IF Droppable(t) # {}
    THEN [seq |-> Without(t, OldestDroppable(t)), gone |-> {t[OldestDroppable(t)].id}]
    ELSE [seq |-> Append(Tail(t), Ev("error", 0, 0)), gone |-> {t[1].id}]

(* Pushing the events of es, one after the other.  At most one of them can *)
(* meet a parked reader.                                                   *)
Push1(e) ==
    IF closed
    THEN /\ dropped' = dropped \cup {e.id}
         /\ UNCHANGED <<waiting, readers, buffered>>
    ELSE IF waiting # 0
    THEN /\ readers' = Give(readers, waiting, e)
         /\ waiting' = 0
         /\ UNCHANGED <<buffered, dropped>>
    ELSE /\ buffered' = Buffered(buffered, e).seq
         /\ dropped' = dropped \cup Buffered(buffered, e).gone
         /\ UNCHANGED <<waiting, readers>>

Push2(e, f) ==
    IF closed
    THEN /\ dropped' = dropped \cup {e.id, f.id}
         /\ UNCHANGED <<waiting, readers, buffered>>
    ELSE IF waiting # 0
    THEN /\ readers' = Give(readers, waiting, e)
         /\ waiting' = 0
         /\ buffered' = Buffered(buffered, f).seq
         /\ dropped' = dropped \cup Buffered(buffered, f).gone
    ELSE LET b == Buffered(buffered, e) IN
         /\ buffered' = Buffered(b.seq, f).seq
         /\ dropped' = dropped \cup b.gone \cup Buffered(b.seq, f).gone
         /\ UNCHANGED <<waiting, readers>>

(* flushToolDraft, then push of e: the draft is always the older one.      *)
(* (Definitions named X_Y are X with a fault, for MCTurnQueue.)            *)
FlushAndPush_Forgets(e) == draft' = 0 /\ Push1(e)
FlushAndPush_After(e) ==
    /\ draft' = 0
    /\ IF draft = 0 THEN Push1(e) ELSE Push2(e, Ev("update", 0, draft))

FlushAndPush(e) ==
    /\ draft' = 0
    /\ IF draft = 0 THEN Push1(e) ELSE Push2(Ev("update", 0, draft), e)

(***************************************************************************)
(* EventQueue.next for the claim that is current: the oldest buffered      *)
(* event, CLOSED, or a parked resolver.  rs is the readers' state so far.  *)
(***************************************************************************)
Take(rs, c) ==
    IF buffered # <<>>
    THEN /\ readers' = Give(rs, c, Head(buffered))
         /\ buffered' = Tail(buffered)
         /\ waiting' = 0
    ELSE IF closed
    THEN /\ readers' = Give(rs, c, Closed)
         /\ waiting' = 0
         /\ UNCHANGED buffered
    ELSE /\ readers' = [rs EXCEPT ![c].st = "parked"]
         /\ waiting' = c
         /\ UNCHANGED buffered

(* handover: a new claim, the parked reader displaced with null; and the   *)
(* new reader's first next(), which runs before anything else can.         *)
HandOver(kind, turn) ==
    LET c == reader + 1
        displaced == IF waiting = 0 THEN readers ELSE Give(readers, waiting, NoEvent)
    IN  /\ reader' = c
        /\ Take([displaced EXCEPT ![c] = [kind |-> kind, st |-> "got",
                                          ev |-> NoEvent, of |-> turn]], c)

-----------------------------------------------------------------------------
(* The agent. *)

MayEmit == emitted < MaxEvents /\ disposal = "none"

(* A session/update that carries news, of a tool or not, or of a kind the  *)
(* daemon does not know ("other"): a held draft goes out before it.        *)
Update ==
    /\ MayEmit
    /\ emitted' = emitted + 1
    /\ \/ /\ toolSent' \in {toolSent, TRUE}
          /\ FlushAndPush(Ev("update", 0, emitted + 1))
       \/ /\ UNCHANGED toolSent
          /\ FlushAndPush(Ev("other", 0, emitted + 1))
    /\ UNCHANGED <<closed, reader, turnHolds, turnActive, promptEpoch, prompts,
                   rpc, disposal, pump, log>>

(* A tool_call_update that only extends the block already sent: it is held, *)
(* in the place of the one held before it, which it repeats and extends.    *)
HoldDraft ==
    /\ MayEmit
    /\ toolSent
    /\ emitted' = emitted + 1
    /\ draft' = emitted + 1
    /\ dropped' = IF draft = 0 THEN dropped ELSE dropped \cup {draft}
    /\ UNCHANGED <<queueVars, turnActive, promptEpoch, prompts, rpc,
                   toolSent, disposal, pump, log>>

(* A line of stderr, pushed as it is.                                      *)
AgentLog ==
    /\ MayEmit
    /\ emitted' = emitted + 1
    /\ Push1(Ev("log", 0, emitted + 1))
    /\ UNCHANGED <<closed, reader, turnHolds, turnActive, promptEpoch, prompts,
                   rpc, toolSent, draft, disposal, pump, log>>

(* The callbacks of prompt n do nothing when the epoch has moved on.       *)
Current_Unchecked(n) == TRUE
Current(n) == rpc[n].epoch = promptEpoch

(* The request of prompt n is answered ("turn_end") or fails ("error").    *)
Answer(n) ==
    /\ rpc[n].st = "open"
    /\ rpc' = [rpc EXCEPT ![n].st = "answered"]
    /\ IF Current(n)
       THEN /\ emitted' = emitted + 1
            /\ \E kind \in {"turn_end", "error"} :
                   FlushAndPush(Ev(kind, n, emitted + 1))
            /\ turnActive' = FALSE
       ELSE UNCHANGED <<emitted, draft, turnActive, waiting, readers, buffered, dropped>>
    /\ UNCHANGED <<closed, reader, turnHolds, promptEpoch, prompts, toolSent,
                   disposal, pump, log>>

-----------------------------------------------------------------------------
(* The consumer. *)

(* ManagedSession prompts only from its pump; a bare Session whenever its  *)
(* caller likes.                                                           *)
MayPrompt == pump \in {"attach", "bare"}

(* claimForTurn refuses a queue a turn holds.                              *)
Claimable_Always == TRUE
Claimable == ~turnHolds

(* Session.prompt, first pull: the flag, the claim, the epoch, the request *)
(* and the first next(), in one step.                                      *)
Prompt ==
    /\ MayPrompt
    /\ prompts < MaxTurns
    /\ reader < MaxClaims
    /\ ~turnActive
    /\ Claimable
    /\ turnActive' = TRUE
    /\ turnHolds' = TRUE
    /\ HandOver("turn", prompts + 1)
    /\ promptEpoch' = promptEpoch + 1
    /\ prompts' = prompts + 1
    /\ rpc' = [rpc EXCEPT ![prompts + 1] = [st |-> "open", epoch |-> promptEpoch + 1]]
    /\ pump' = IF pump = "attach" THEN "stream" ELSE pump
    /\ UNCHANGED <<closed, toolSent, draft, disposal, emitted, log, dropped>>

(* The same call when it throws: on its own flag, or, with that flag set,  *)
(* in claimForTurn because another turn's reader has not released yet.     *)
PromptThrows ==
    /\ MayPrompt
    /\ prompts < MaxTurns
    /\ turnActive \/ ~Claimable
    /\ turnActive' = TRUE
    /\ pump' = IF pump = "attach" THEN "stream" ELSE pump
    /\ UNCHANGED <<queueVars, promptEpoch, prompts, rpc, toolSent, draft, disposal,
                   ghostVars>>

(* drainBetweenTurns: refused while a turn holds the queue.                *)
DrainBetweenTurns_Never == UNCHANGED queueVars

DrainBetweenTurns ==
    IF turnHolds \/ reader = MaxClaims
    THEN UNCHANGED queueVars
    ELSE HandOver("drain", 0) /\ UNCHANGED <<closed, turnHolds>>

(* onStarted attaches the first drain.                                     *)
OnStarted ==
    /\ pump = "unstarted"
    /\ pump' = "idle"
    /\ DrainBetweenTurns
    /\ UNCHANGED <<sessionVars, ghostVars>>

(* A message arrives: ManagedSession.turn is set and the pump awaits its   *)
(* attachments before it pulls the generator.  A request is a task of its  *)
(* own, so continuations that are already due have run.                    *)
ArmTurn ==
    /\ pump = "idle"
    /\ \A c \in Claims : readers[c].st # "got"
    /\ prompts < MaxTurns
    /\ disposal = "none"
    /\ pump' = "attach"
    /\ UNCHANGED <<queueVars, sessionVars, ghostVars>>

(* The continuation of next() in the reader of claim c: a displaced reader *)
(* returns; an event is recorded; a turn returns, and releases the queue,  *)
(* on any turn_end or error; a drain returns on CLOSED; any other asks for *)
(* the next event, and is refused one when its claim is stale.             *)
Ends_OnTurnEndOnly(r) ==
    \/ r.ev = NoEvent
    \/ r.ev = Closed
    \/ r.kind = "turn" /\ r.ev.kind = "turn_end"

Ends(r) ==
    \/ r.ev = NoEvent
    \/ r.ev = Closed
    \/ r.kind = "turn" /\ r.ev.kind \in {"turn_end", "error"}

Release_OnTurnEndOnly(c) ==
    turnHolds' = (turnHolds /\ ~(c = reader /\ readers[c].ev.kind = "turn_end"))
Release(c) == turnHolds' = (turnHolds /\ ~(c = reader /\ readers[c].kind = "turn"))

(* What is not an event of the session and is not recorded.                *)
Sentinel(e) == e \in {NoEvent, Closed}

Resume(c) ==
    LET r == readers[c] IN
    /\ r.st = "got"
    /\ \A d \in Claims : d < c => readers[d].st # "got"
    /\ log' = IF Sentinel(r.ev) THEN log ELSE Append(log, r.ev)
    /\ IF Ends(r)
       THEN /\ readers' = [readers EXCEPT ![c].st = "done"]
            /\ Release(c)
            /\ UNCHANGED <<buffered, waiting>>
       ELSE /\ UNCHANGED turnHolds
            /\ IF c = reader THEN Take(readers, c)
               ELSE /\ readers' = Give(readers, c, NoEvent)
                    /\ UNCHANGED <<buffered, waiting>>
    /\ UNCHANGED <<closed, reader, sessionVars, pump, emitted, dropped>>

(* The readers of turns that have not returned.                            *)
Live(c) == readers[c].st \in {"parked", "got"}
LiveTurns == {c \in Claims : readers[c].kind = "turn" /\ Live(c)}

(* The pump's finally: the drain gets the queue back, unless a queued      *)
(* message is delivered at once and the next turn is armed instead.        *)
PumpFinally ==
    /\ pump = "stream"
    /\ LiveTurns = {}
    /\ \/ pump' = "idle" /\ DrainBetweenTurns
       \/ /\ pump' = "attach" /\ prompts < MaxTurns /\ disposal = "none"
          /\ UNCHANGED queueVars
    /\ UNCHANGED <<sessionVars, ghostVars>>

(* abandonTurn: the epoch moves first, so the outstanding request's        *)
(* callbacks are dead before its replacement for the answer is pushed.     *)
AbandonTurn ==
    /\ turnActive
    /\ promptEpoch < 2 * MaxTurns      \* bound: as many abandonments as turns
    /\ promptEpoch' = promptEpoch + 1
    /\ turnActive' = FALSE
    /\ emitted' = emitted + 1
    /\ FlushAndPush(Ev("turn_end", prompts, emitted + 1))
    /\ UNCHANGED <<closed, reader, turnHolds, prompts, rpc, toolSent, disposal, pump, log>>

(* doDispose, after its bounded wait for the turn to settle: the handlers  *)
(* are unregistered and a held draft goes out ...                          *)
DisposeFlush ==
    /\ disposal = "none"
    /\ pump # "unstarted"
    /\ disposal' = "flushed"
    /\ draft' = 0
    /\ IF draft = 0 THEN UNCHANGED <<waiting, readers, buffered, dropped>>
                    ELSE Push1(Ev("update", 0, draft))
    /\ UNCHANGED <<closed, reader, turnHolds, turnActive, promptEpoch, prompts,
                   rpc, toolSent, pump, emitted, log>>

(* ... and once the client is closed, so is the queue.                     *)
DisposeClose ==
    /\ disposal = "flushed"
    /\ disposal' = "closed"
    /\ closed' = TRUE
    /\ waiting' = 0
    /\ readers' = IF waiting = 0 THEN readers ELSE Give(readers, waiting, Closed)
    /\ UNCHANGED <<buffered, reader, turnHolds, turnActive, promptEpoch, prompts,
                   rpc, toolSent, draft, pump, ghostVars>>

-----------------------------------------------------------------------------
ResumeAny == \E c \in Claims : Resume(c)
AnswerAny == \E n \in Turns : Answer(n)

Next ==
    \/ Update \/ HoldDraft \/ AgentLog \/ AnswerAny
    \/ Prompt \/ PromptThrows \/ OnStarted \/ ArmTurn
    \/ ResumeAny \/ PumpFinally \/ AbandonTurn
    \/ DisposeFlush \/ DisposeClose

(* Continuations run; the agent need not do anything, and a turn is        *)
(* abandoned only when somebody asks for it.                               *)
Fairness ==
    /\ WF_vars(ResumeAny)
    /\ WF_vars(Prompt)
    /\ WF_vars(PumpFinally)
    /\ WF_vars(OnStarted)

Spec == Init /\ [][Next]_vars /\ Fairness
=============================================================================
