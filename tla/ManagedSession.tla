--------------------------- MODULE ManagedSession ---------------------------
(***************************************************************************)
(* One supervised session (registry.ts: class ManagedSession) as its turns *)
(* and messages see it: prompts, messages sent while a turn runs (steered  *)
(* into it or queued behind it), the pump of each turn, cancelling,        *)
(* clearing the conversation, permission requests, and the ways the agent  *)
(* is taken away underneath all of them: a stop, an agent that exits, a    *)
(* restart, and the wake that brings a stopped session back.               *)
(*                                                                         *)
(* A step is one run of JavaScript between two awaits.  Everything that    *)
(* can be waiting for an await at once has a control variable of its own.  *)
(* A turn is named by the message it is for, so the pump of turn m is the  *)
(* state of message m.  How the session reads one agent's events is        *)
(* TurnQueue; launches, exit records and timeouts are SessionLifecycle.    *)
(***************************************************************************)
EXTENDS Naturals, Sequences, FiniteSets

CONSTANTS
    Messages,          \* the messages clients send
    Asks,              \* the permission requests and questions agents raise
    NoTurn,            \* not a message
    MaxQueuedPrompts,  \* MAX_QUEUED_PROMPTS
    MaxSessions,       \* bound: agents started
    Steering,          \* "none", "strict" or "loose": whether agents take a
                       \* message into a running turn, and whether one that
                       \* has no turn then starts one nobody sees end
    Slow               \* what may outlast the timing the code relies on:
                       \* "reads", an attachment takes longer to read than a
                       \* stop and the arming of the next agent; "steers", an
                       \* agent takes a message when its steer has timed out

ASSUME ManagedSessionAssumption ==
    /\ IsFiniteSet(Messages) /\ NoTurn \notin Messages
    /\ MaxQueuedPrompts \in Nat \ {0}
    /\ MaxSessions \in Nat \ {0}
    /\ Steering \in {"none", "strict", "loose"}
    /\ Slow \subseteq {"reads", "steers"}

Sessions == 1 .. MaxSessions
Turns    == Messages \cup {NoTurn}

VARIABLES
    (* The agent. *)
    session,        \* this.session: the incarnation, or 0 for null
    lastSession,    \* the last incarnation started
    open,           \* incarnations whose connection and queue are open
    launching,      \* an agent is being started (resume, after armForStart)
    terminal,       \* exitRecord is set
    stopRequested,
    stopping,       \* doStop: none, await (a start), dispose, kill
    comingBack,     \* the stop under way is the restart's own
    restart,        \* restartAgent: none, stop, resume, restore, failed
    armed,          \* authRestartArmed
    clearing,
    (* Turns. *)
    turn,           \* this.turn, or NoTurn for null
    cancelled,      \* cancelRequestedAt is set
    cancelling,     \* the turn a cancelTurn call captured, or NoTurn
    (* Messages. *)
    msg,            \* where each message is
    order,          \* the ordinal sendMidTurn took for it
    captured,       \* the session its sendMidTurn or its pump captured
    acceptOrder,
    midTurnAccepted,
    queue,          \* queuedPrompts
    (* Asks. *)
    ask,            \* pending and resolved
    (* What agents were told: history. *)
    told            \* messages in the order agents were handed them

agentVars == <<session, lastSession, open, launching, terminal, stopRequested,
               stopping, comingBack, restart, armed, clearing>>
turnVars  == <<turn, cancelled, cancelling>>
msgVars   == <<msg, order, captured, acceptOrder, midTurnAccepted, queue>>
vars      == <<agentVars, turnVars, msgVars, ask, told>>

(* new: not sent.  attach, steer: sendMidTurn awaits its attachments or    *)
(* the agent.  queued.  arming, running: the pump of its turn awaits its   *)
(* attachments or the agent's events.  Then one of: ended (its turn ended, *)
(* and the log says so), failed (it ended in an error with no turn_end),   *)
(* silent (it ended and the log says nothing of it), steered, dropped (the *)
(* log says it will not be delivered), refused (it was never accepted).    *)
Waiting == {"attach", "steer"}
Pumped  == {"arming", "running"}
Final   == {"ended", "failed", "silent", "steered", "dropped", "refused"}
MessageState == {"new", "queued"} \cup Waiting \cup Pumped \cup Final

NewAsk == [st |-> "new", turn |-> NoTurn, by |-> "none"]
Ask == [st   : {"new", "pending", "resolved"},
        turn : Turns,
        by   : {"none", "client", "agent_withdrew", "turn_ended", "turn_cancelled",
                "session_stopped", "no_turn"}]

TypeOK ==
    /\ session \in 0 .. MaxSessions
    /\ lastSession \in 0 .. MaxSessions
    /\ open \subseteq Sessions
    /\ launching \in BOOLEAN
    /\ terminal \in BOOLEAN
    /\ stopRequested \in BOOLEAN
    /\ stopping \in {"none", "await", "dispose", "kill"}
    /\ comingBack \in BOOLEAN
    /\ restart \in {"none", "stop", "resume", "restore", "failed"}
    /\ armed \in BOOLEAN
    /\ clearing \in BOOLEAN
    /\ turn \in Turns
    /\ cancelled \in BOOLEAN
    /\ cancelling \in Turns
    /\ msg \in [Messages -> MessageState]
    /\ order \in [Messages -> Nat]
    /\ captured \in [Messages -> 0 .. MaxSessions]
    /\ acceptOrder \in Nat
    /\ midTurnAccepted \in Nat
    /\ queue \in Seq(Messages)
    /\ ask \in [Asks -> Ask]
    /\ told \in Seq(Messages)

(* A session whose first agent is up and has been sent nothing.            *)
Init ==
    /\ session = 1
    /\ lastSession = 1
    /\ open = {1}
    /\ launching = FALSE
    /\ terminal = FALSE
    /\ stopRequested = FALSE
    /\ stopping = "none"
    /\ comingBack = FALSE
    /\ restart = "none"
    /\ armed = FALSE
    /\ clearing = FALSE
    /\ turn = NoTurn
    /\ cancelled = FALSE
    /\ cancelling = NoTurn
    /\ msg = [m \in Messages |-> "new"]
    /\ order = [m \in Messages |-> 0]
    /\ captured = [m \in Messages |-> 0]
    /\ acceptOrder = 0
    /\ midTurnAccepted = 0
    /\ queue = <<>>
    /\ ask = [a \in Asks |-> NewAsk]
    /\ told = <<>>

-----------------------------------------------------------------------------
(* The parts handlers share. *)

Live       == ~terminal /\ ~stopRequested
restarting == restart # "none"
Ready      == Live /\ session # 0 /\ ~clearing /\ ~restarting

(* armTurn and runTurn: the turn of message m begins, on the session of    *)
(* now.  ms is where the messages are otherwise.                           *)
ArmTurn(ms, m) ==
    /\ turn' = m
    /\ armed' = TRUE
    /\ msg' = [ms EXCEPT ![m] = "arming"]
    /\ captured' = [captured EXCEPT ![m] = session]

(* deliverQueued with the queue q, no turn running.                        *)
(* (Definitions named X_Y are X with a fault, for MCManagedSession.)       *)
DeliverQueued(ms, q) ==
    IF q # <<>> /\ Ready
    THEN ArmTurn(ms, Head(q)) /\ queue' = Tail(q)
    ELSE turn' = NoTurn /\ msg' = ms /\ queue' = q /\ UNCHANGED <<armed, captured>>

(* deliverQueued on the way out of a clear or a restart, and what becomes  *)
(* of the queue when it delivers nothing.                                  *)
DeliverOnExit_Not(ready, Otherwise) == Otherwise /\ UNCHANGED <<turn, armed, captured>>
DeliverOnExit_Peeks(ready, Otherwise) ==
    IF turn = NoTurn /\ queue # <<>> /\ Live /\ session # 0 /\ ready
    THEN ArmTurn(msg, Head(queue)) /\ UNCHANGED queue
    ELSE Otherwise /\ UNCHANGED <<turn, armed, captured>>
DeliverOnExit(ready, Otherwise) ==
    IF turn = NoTurn /\ queue # <<>> /\ Live /\ session # 0 /\ ready
    THEN ArmTurn(msg, Head(queue)) /\ queue' = Tail(queue)
    ELSE Otherwise /\ UNCHANGED <<turn, armed, captured>>

(* dropQueuedUndelivered: the queue is emptied, and the log says so.       *)
DropQueued ==
    /\ queue' = <<>>
    /\ msg' = [m \in Messages |-> IF \E i \in DOMAIN queue : queue[i] = m
                                  THEN "dropped" ELSE msg[m]]

(* sweepPending: every pending ask is settled.                             *)
Swept_Not(by) == ask
Swept(by) ==
    [a \in Asks |-> IF ask[a].st = "pending"
                    THEN [ask[a] EXCEPT !.st = "resolved", !.by = by]
                    ELSE ask[a]]

(* stop(), from a caller that found the session live, up to its await.     *)
StopBegins(back) ==
    /\ stopRequested' = TRUE
    /\ stopping' = "await"
    /\ comingBack' = back

(* onAgentUnusable: whether it replaces the agent.  Armed once per turn,   *)
(* so a fresh agent that fails the same way is not replaced again.         *)
Replaces == Live /\ ~restarting /\ armed

(* restartAgent, up to its first await.                                    *)
RestartBegins == restart' = "stop" /\ StopBegins(TRUE)

-----------------------------------------------------------------------------
(* Messages. *)

(* Every slot is a queued message or a reservation for one.                *)
Full_QueueOnly == Len(queue) >= MaxQueuedPrompts
Full == Len(queue) + midTurnAccepted >= MaxQueuedPrompts

(* A message that is not taken: nothing is written.                        *)
Refuse(m) ==
    /\ msg[m] = "new"
    /\ \/ ~Ready
       \/ turn # NoTurn /\ Full
    /\ msg' = [msg EXCEPT ![m] = "refused"]
    /\ UNCHANGED <<agentVars, turnVars, order, captured, acceptOrder,
                   midTurnAccepted, queue, ask, told>>

(* prompt(), when no turn is running.                                      *)
SendPrompt(m) ==
    /\ msg[m] = "new"
    /\ Ready
    /\ turn = NoTurn
    /\ ArmTurn(msg, m)
    /\ UNCHANGED <<session, lastSession, open, launching, terminal, stopRequested,
                   stopping, comingBack, restart, clearing, cancelled, cancelling,
                   order, acceptOrder, midTurnAccepted, queue, ask, told>>

(* The queue with m placed before the first entry accepted after ord.      *)
Placed_Last(m, ord) == Append(queue, m)
Placed(m, ord) ==
    LET later == {i \in DOMAIN queue : order[queue[i]] > ord}
        at    == IF later = {} THEN Len(queue) + 1
                 ELSE CHOOSE i \in later : \A j \in later : i <= j
    IN  SubSeq(queue, 1, at - 1) \o <<m>> \o SubSeq(queue, at, Len(queue))

(* promptRequired, and the turn it was sent into is over.                  *)
OwnTurn_Unchecked(promptRequired) == promptRequired /\ Ready
OwnTurn(promptRequired) == promptRequired /\ turn = NoTurn /\ Ready

(* The rest of sendMidTurn once the steer is off the table.  taken is the  *)
(* number of reservations, its own included, and ord its ordinal.          *)
(* A session that ended during an await, or a queue that is full after     *)
(* all, drops it and the log says so; an agent that wants it as a prompt,  *)
(* its turn being over, gets a turn of its own; otherwise it is queued.    *)
Unsteered(m, promptRequired, taken, ord) ==
    LET ownTurn == OwnTurn(promptRequired)
        queued  == [msg EXCEPT ![m] = "queued"]
    IN
    /\ midTurnAccepted' = taken - 1
    /\ \/ /\ ~Live \/ (~ownTurn /\ Len(queue) >= MaxQueuedPrompts)
          /\ msg' = [msg EXCEPT ![m] = "dropped"]
          /\ UNCHANGED <<turn, armed, captured, queue>>
       \/ /\ ownTurn
          /\ ArmTurn(msg, m)
          /\ UNCHANGED queue
       \/ /\ Live /\ ~ownTurn /\ Len(queue) < MaxQueuedPrompts
          /\ IF turn = NoTurn
             THEN DeliverQueued(queued, Placed(m, ord))
             ELSE /\ msg' = queued
                  /\ queue' = Placed(m, ord)
                  /\ UNCHANGED <<turn, armed, captured>>
    /\ UNCHANGED <<session, lastSession, open, launching, terminal, stopRequested,
                   stopping, comingBack, restart, clearing, cancelled, cancelling,
                   ask>>

(* sendMidTurn: a slot is reserved and the prompt event written; then the  *)
(* attachments are awaited, or there is nothing to steer and no await.     *)
SendMidTurn(m) ==
    /\ msg[m] = "new"
    /\ Ready
    /\ turn # NoTurn
    /\ ~Full
    /\ acceptOrder' = acceptOrder + 1
    /\ order' = [order EXCEPT ![m] = acceptOrder + 1]
    /\ IF Steering # "none" /\ ~cancelled
       THEN /\ msg' = [msg EXCEPT ![m] = "attach"]
            /\ captured' = [captured EXCEPT ![m] = session]
            /\ midTurnAccepted' = midTurnAccepted + 1
            /\ UNCHANGED <<agentVars, turnVars, queue, ask, told>>
       ELSE Unsteered(m, FALSE, midTurnAccepted + 1, acceptOrder + 1) /\ UNCHANGED told

(* The attachments are read: a cancel that came meanwhile is the last word *)
(* on steering, otherwise the steer is sent.                               *)
Attached(m) ==
    /\ msg[m] = "attach"
    /\ IF cancelled
       THEN Unsteered(m, FALSE, midTurnAccepted, order[m]) /\ UNCHANGED told
       ELSE /\ msg' = [msg EXCEPT ![m] = "steer"]
            /\ UNCHANGED <<agentVars, turnVars, captured, midTurnAccepted, queue,
                           ask, told>>
    /\ UNCHANGED <<order, acceptOrder>>

(* The agent of m's sendMidTurn, and whether it is in a turn.              *)
Reachable(m) == captured[m] \in open
InTurn(m)    == \E n \in Messages : msg[n] = "running" /\ captured[n] = captured[m]

(* Steered: the reservation is given back.                                 *)
Released == midTurnAccepted - 1

(* The agent took it, into the running turn or a turn of its own.          *)
Steered(m) ==
    /\ msg[m] = "steer"
    /\ Reachable(m)
    /\ InTurn(m) \/ Steering = "loose"
    /\ msg' = [msg EXCEPT ![m] = "steered"]
    /\ told' = Append(told, m)
    /\ midTurnAccepted' = Released
    /\ UNCHANGED <<agentVars, turnVars, order, captured, acceptOrder, queue, ask>>

(* The agent answers promptRequired; or it refuses, goes away or is not    *)
(* heard in time, in which case it may have taken the message all the same. *)
NotSteered(m) ==
    /\ msg[m] = "steer"
    /\ \/ Reachable(m) /\ Unsteered(m, TRUE, midTurnAccepted, order[m]) /\ UNCHANGED told
       \/ Unsteered(m, FALSE, midTurnAccepted, order[m]) /\ UNCHANGED told
       \/ /\ "steers" \in Slow /\ Reachable(m) /\ InTurn(m)
          /\ Unsteered(m, FALSE, midTurnAccepted, order[m])
          /\ told' = Append(told, m)
    /\ UNCHANGED <<order, acceptOrder>>

-----------------------------------------------------------------------------
(* The pump of turn m. *)

(* cancelRequestedAt goes with the turn it was for.                        *)
CancelledAfter(m) == cancelled /\ turn # m

(* What is left of it after its last await: its message ends in state end, *)
(* the agent is replaced if it turned out unusable, and otherwise the next *)
(* message is delivered.  The sweep is of every ask there is.              *)
PumpEnds(m, end, unusable) ==
    /\ unusable => lastSession < MaxSessions      \* bound
    /\ cancelled' = CancelledAfter(m)
    /\ ask' = Swept("turn_ended")
    /\ LET ms == [msg EXCEPT ![m] = end] IN
       IF unusable /\ Replaces
       THEN /\ RestartBegins
            /\ armed' = FALSE
            /\ turn' = IF turn = m THEN NoTurn ELSE turn
            /\ msg' = ms
            /\ UNCHANGED <<captured, queue>>
       ELSE /\ IF turn = m THEN DeliverQueued(ms, queue)
               ELSE msg' = ms /\ UNCHANGED <<turn, armed, captured, queue>>
            /\ UNCHANGED <<stopRequested, stopping, comingBack, restart>>
    /\ UNCHANGED <<session, lastSession, open, launching, terminal, clearing,
                   cancelling, order, acceptOrder, midTurnAccepted>>

(* The attachments are read.  A cancel that came meanwhile ends the turn   *)
(* here; otherwise the agent is sent the prompt, if it is still there.     *)
PumpPrompts(m) ==
    /\ msg[m] = "arming"
    /\ IF turn = m /\ cancelled
       THEN PumpEnds(m, "ended", FALSE) /\ UNCHANGED told
       ELSE /\ msg' = [msg EXCEPT ![m] = "running"]
            /\ told' = IF captured[m] \in open THEN Append(told, m) ELSE told
            /\ UNCHANGED <<agentVars, turnVars, order, captured, acceptOrder,
                           midTurnAccepted, queue, ask>>

(* Reading them threw, or the agent never took the prompt.  An error is    *)
(* recorded, unless the session is stopping.                               *)
PumpFails(m) ==
    /\ msg[m] = "arming"
    /\ PumpEnds(m, IF stopRequested THEN "silent" ELSE "failed", TRUE)
    /\ UNCHANGED told

(* The turn ends in an answer from the agent, or is abandoned.             *)
TurnEnds(m) ==
    /\ msg[m] = "running"
    /\ captured[m] \in open
    /\ PumpEnds(m, "ended", FALSE)
    /\ UNCHANGED told

(* It ends in an error.  record() sees an authentication failure and       *)
(* replaces the agent before pump gets to write the turn's end, which it   *)
(* does not do while a stop is requested.                                  *)
TurnErrs(m) ==
    /\ msg[m] = "running"
    /\ captured[m] \in open
    /\ \E auth \in BOOLEAN :
           PumpEnds(m, IF stopRequested THEN "silent"
                       ELSE IF auth /\ Replaces THEN "failed"
                       ELSE "ended", auth)
    /\ UNCHANGED told

(* It ends because the agent was taken away: nothing is recorded.          *)
TurnCloses(m) ==
    /\ msg[m] = "running"
    /\ captured[m] \notin open
    /\ PumpEnds(m, "silent", FALSE)
    /\ UNCHANGED told

(* Between turns, and while a pump is still reading attachments, the idle  *)
(* drain records; an authentication failure there replaces the agent too.  *)
IdleAuthFails ==
    /\ session \in open
    /\ ~stopRequested
    /\ \A m \in Messages : msg[m] = "running" => captured[m] # session
    /\ Replaces
    /\ lastSession < MaxSessions                  \* bound
    /\ armed' = FALSE
    /\ RestartBegins
    /\ UNCHANGED <<session, lastSession, open, launching, terminal, clearing,
                   turnVars, msgVars, ask, told>>

-----------------------------------------------------------------------------
(* Cancelling a turn, and clearing the conversation. *)

CancelTurn ==
    /\ Ready
    /\ turn # NoTurn
    /\ cancelling = NoTurn          \* bound: one cancel call at a time
    /\ cancelled' = TRUE
    /\ cancelling' = turn
    /\ UNCHANGED <<agentVars, turn, msgVars, ask, told>>

(* The agent was told.  Only the turn that was cancelled is swept.         *)
CancelSent_SweepsAny ==
    /\ cancelling # NoTurn
    /\ cancelling' = NoTurn
    /\ ask' = Swept("turn_cancelled")
    /\ UNCHANGED <<agentVars, turn, cancelled, msgVars, told>>
CancelSent ==
    /\ cancelling # NoTurn
    /\ cancelling' = NoTurn
    /\ ask' = IF turn = cancelling THEN Swept("turn_cancelled") ELSE ask
    /\ UNCHANGED <<agentVars, turn, cancelled, msgVars, told>>

ClearContext ==
    /\ Ready
    /\ turn = NoTurn
    /\ clearing' = TRUE
    /\ UNCHANGED <<session, lastSession, open, launching, terminal, stopRequested,
                   stopping, comingBack, restart, armed, turnVars, msgVars, ask,
                   told>>

(* The new conversation is open, or opening it failed; a message taken     *)
(* meanwhile is delivered either way.                                      *)
ClearEnds ==
    /\ clearing
    /\ clearing' = FALSE
    /\ DeliverOnExit(~restarting, UNCHANGED <<msg, queue>>)
    /\ UNCHANGED <<session, lastSession, open, launching, terminal, stopRequested,
                   stopping, comingBack, restart, cancelled, cancelling, order,
                   acceptOrder, midTurnAccepted, ask, told>>

-----------------------------------------------------------------------------
(* Asks. *)

(* resolvePermission and resolveElicitation.                               *)
Raise(a) ==
    /\ ask[a].st = "new"
    /\ session \in open
    /\ ask' = [ask EXCEPT ![a] =
            IF ~Live THEN [st |-> "resolved", turn |-> turn, by |-> "session_stopped"]
            ELSE IF turn = NoTurn THEN [st |-> "resolved", turn |-> turn, by |-> "no_turn"]
            ELSE [st |-> "pending", turn |-> turn, by |-> "none"]]
    /\ UNCHANGED <<agentVars, turnVars, msgVars, told>>

(* settle: a client's answer, or the agent withdrawing the request.        *)
Settle(a) ==
    /\ ask[a].st = "pending"
    /\ \E by \in {"client", "agent_withdrew"} :
           ask' = [ask EXCEPT ![a].st = "resolved", ![a].by = by]
    /\ UNCHANGED <<agentVars, turnVars, msgVars, told>>

-----------------------------------------------------------------------------
(* Stopping, restarting, waking. *)

(* A client's stop, parking, signing out, or the agent exiting.  While     *)
(* another stop is under way the caller is given that one's promise.       *)
Stop ==
    /\ Live
    /\ StopBegins(FALSE)
    /\ UNCHANGED <<session, lastSession, open, launching, terminal, restart, armed,
                   clearing, turnVars, msgVars, ask, told>>

(* doStop once no start is in flight: asks are swept before the agent is   *)
(* disposed of, and queued messages dropped unless the agent comes back.   *)
StopSweeps ==
    /\ stopping = "await"
    /\ ~launching
    /\ stopping' = "dispose"
    /\ ask' = Swept("session_stopped")
    /\ IF comingBack THEN UNCHANGED <<queue, msg>> ELSE DropQueued
    /\ UNCHANGED <<session, lastSession, open, launching, terminal, stopRequested,
                   comingBack, restart, armed, clearing, turnVars, order, captured,
                   acceptOrder, midTurnAccepted, told>>

(* Session.dispose closes the agent's connection and its queue.            *)
StopDisposes ==
    /\ stopping = "dispose"
    /\ stopping' = "kill"
    /\ open' = open \ {session}
    /\ UNCHANGED <<session, lastSession, launching, terminal, stopRequested,
                   comingBack, restart, armed, clearing, turnVars, msgVars, ask,
                   told>>

(* The kill is confirmed, or not, and the exit recorded.                   *)
StopEnds ==
    /\ stopping = "kill"
    /\ stopping' = "none"
    /\ terminal' = TRUE
    /\ UNCHANGED <<session, lastSession, open, launching, stopRequested, comingBack,
                   restart, armed, clearing, turnVars, msgVars, ask, told>>

(* Work that a close settles within the same task: it has run before any   *)
(* agent started afterwards can be up.                                     *)
Settled ==
    \A m \in Messages :
        /\ msg[m] \in {"steer", "running"} => captured[m] \in open
        /\ "reads" \notin Slow => msg[m] \notin {"attach", "arming"}

(* doResume from armForStart on: for a restart, or to wake the session.    *)
Arm ==
    /\ terminal
    /\ ~launching
    /\ stopping = "none"
    /\ restart \in {"none", "stop"}
    /\ lastSession < MaxSessions
    /\ Settled
    /\ terminal' = FALSE
    /\ stopRequested' = FALSE
    /\ session' = 0
    /\ launching' = TRUE
    /\ restart' = IF restart = "stop" THEN "resume" ELSE restart
    /\ UNCHANGED <<lastSession, open, stopping, comingBack, armed, clearing,
                   turnVars, msgVars, ask, told>>

(* How a launch leaves the restart that waits for it.                      *)
RestartAfter_IgnoresFailure(outcome) ==
    IF restart = "resume" /\ outcome = "restore" THEN outcome ELSE restart
RestartAfter(outcome) == IF restart = "resume" THEN outcome ELSE restart

(* onStarted.  With a stop already requested the new agent is disposed of  *)
(* and doStop finishes the work.                                           *)
LaunchSucceeds ==
    /\ launching
    /\ launching' = FALSE
    /\ lastSession' = lastSession + 1
    /\ session' = lastSession + 1
    /\ open' = open \cup {lastSession + 1}
    /\ restart' = RestartAfter("restore")
    /\ UNCHANGED <<terminal, stopRequested, stopping, comingBack, armed, clearing,
                   turnVars, msgVars, ask, told>>

(* The previous exit is put back.                                          *)
LaunchFails ==
    /\ launching
    /\ launching' = FALSE
    /\ terminal' = TRUE
    /\ restart' = RestartAfter("failed")
    /\ UNCHANGED <<session, lastSession, open, stopRequested, stopping, comingBack,
                   armed, clearing, turnVars, msgVars, ask, told>>

(* Changing ultracode, or a credential, replaces the agent between turns.  *)
RestartAgent ==
    /\ Ready
    /\ turn = NoTurn
    /\ \A a \in Asks : ask[a].st # "pending"
    /\ lastSession < MaxSessions                  \* bound
    /\ RestartBegins
    /\ UNCHANGED <<session, lastSession, open, launching, terminal, armed, clearing,
                   turnVars, msgVars, ask, told>>

(* restartAgent's finally, after restoreConfig or after resume() threw.    *)
RestartEnds ==
    /\ restart \in {"restore", "failed"}
    /\ restart' = "none"
    /\ DeliverOnExit(~clearing, IF session = 0 THEN DropQueued ELSE UNCHANGED <<msg, queue>>)
    /\ UNCHANGED <<session, lastSession, open, launching, terminal, stopRequested,
                   stopping, comingBack, clearing, cancelled, cancelling, order,
                   acceptOrder, midTurnAccepted, ask, told>>

-----------------------------------------------------------------------------
MessageStep(m) ==
    \/ SendPrompt(m) \/ SendMidTurn(m) \/ Refuse(m)
    \/ Attached(m) \/ Steered(m) \/ NotSteered(m)
    \/ PumpPrompts(m) \/ PumpFails(m)
    \/ TurnEnds(m) \/ TurnErrs(m) \/ TurnCloses(m)

Next ==
    \/ \E m \in Messages : MessageStep(m)
    \/ \E a \in Asks : Raise(a) \/ Settle(a)
    \/ IdleAuthFails \/ CancelTurn \/ CancelSent \/ ClearContext \/ ClearEnds
    \/ Stop \/ StopSweeps \/ StopDisposes \/ StopEnds
    \/ Arm \/ LaunchSucceeds \/ LaunchFails \/ RestartAgent \/ RestartEnds

(* What has a deadline or only awaits the machine happens: reads, steers   *)
(* and launches are bounded, and a restart goes on to its end.  A turn is  *)
(* assumed to end: the agent answers, or the sweep for silent turns        *)
(* abandons it.                                                            *)
Fairness ==
    /\ \A m \in Messages :
        /\ WF_vars(Attached(m))
        /\ WF_vars(Steered(m) \/ NotSteered(m))
        /\ WF_vars(PumpPrompts(m))
        /\ WF_vars(TurnEnds(m) \/ TurnErrs(m) \/ TurnCloses(m))
    /\ WF_vars(CancelSent)
    /\ WF_vars(ClearEnds)
    /\ WF_vars(StopSweeps)
    /\ WF_vars(StopDisposes)
    /\ WF_vars(StopEnds)
    /\ WF_vars(restart = "stop" /\ Arm)
    /\ WF_vars(LaunchSucceeds \/ LaunchFails)
    /\ WF_vars(RestartEnds)

Spec == Init /\ [][Next]_vars /\ Fairness
=============================================================================
