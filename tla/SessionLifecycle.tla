-------------------------- MODULE SessionLifecycle --------------------------
(***************************************************************************)
(* The life of one supervised session (registry.ts: class ManagedSession): *)
(* the launches of its agents, stopping, resuming, restarting, parking and *)
(* being signed out, and the exit record that says why it is not running.  *)
(* Around it are the parts of SessionRegistry that start and stop it: the  *)
(* boot pass that resumes what the last daemon left, signing an agent out  *)
(* and in, and shutdown.                                                   *)
(*                                                                         *)
(* A step is one run of JavaScript between two awaits.  A launch is named  *)
(* by a number and so is the agent it brings up.  Stops are processes of   *)
(* their own: one can still be waiting for a launch that the session has   *)
(* long given up on.                                                       *)
(***************************************************************************)
EXTENDS Naturals, FiniteSets

CONSTANTS
    MaxLaunches,   \* bound: agents launched
    MaxStops,      \* bound: doStop calls
    MaxAttempts,   \* MAX_RESUME_ATTEMPTS
    MaxSlow,       \* bound: the first MaxSlow launches may outlast their deadline
    Features       \* what the session is exposed to: "restart" (its agent is
                   \* replaced), "boot" (a restored session and the boot pass),
                   \* "signing" (its agent is signed out and in), "shutdown"

ASSUME LifecycleAssumption ==
    /\ MaxLaunches \in Nat \ {0}
    /\ MaxStops \in Nat \ {0}
    /\ MaxAttempts \in Nat \ {0}
    /\ MaxSlow \in Nat
    /\ Features \subseteq {"restart", "boot", "signing", "shutdown"}

Launches == 1 .. MaxLaunches
Stops    == 1 .. MaxStops

Reasons == {"stopped", "parked", "agent_signed_out", "agent_exited", "config_changed",
            "daemon_restarted", "daemon_shutdown", "start_failed", "start_timeout"}
Running == "running"             \* no exit record
Exits   == Reasons \cup {Running}

VARIABLES
    (* The session's own fields. *)
    exit,           \* exitRecord's reason
    stopRequested,
    memo,           \* stopping: the doStop it is the promise of, or 0 for null
    startPromise,   \* the launch the session is waiting on, or has, or 0
    startAbandoned,
    session,        \* this.session: an agent, or 0 for null
    parkedAtSignOut,
    restart,        \* restartAgent: none, stop, resume
    givenUp,        \* resumeGivenUp
    attempts,       \* resumeAttempts
    (* Processes. *)
    agent,          \* each launch and its agent
    stops,          \* each doStop
    waiter,         \* the create or doResume that waits for a launch
    boot,           \* autoResumePass, as far as this session goes
    returning,      \* reloadCredentials has the session on its list
    shuttingDown,
    (* What people asked for: history. *)
    person,         \* wants; stopped
    parkedOnce      \* what the exit record said before it said signed out

fields == <<exit, stopRequested, memo, startPromise, startAbandoned, session,
            parkedAtSignOut, givenUp, attempts>>
procs  == <<agent, stops, waiter, boot, restart, returning, shuttingDown>>
vars   == <<fields, procs, person, parkedOnce>>

(* (Definitions named X_Y are X with a fault, for MCSessionLifecycle.)     *)
(* starting; up; closing: its dispose has been called; dead; failed.       *)
AgentState == {"none", "starting", "up", "closing", "dead", "failed"}
Settled_UpOrFailed(l) == agent[l] \in {"up", "failed"}
Settled(l) == agent[l] \in {"up", "closing", "dead", "failed"}

(* A doStop: awaiting the launch of, then, that settled, disposing of the  *)
(* agent of, then done.  It is late when that launch was given up on       *)
(* before it settled.                                                      *)
StopProc == [st : {"none", "await", "dispose", "done"},
             reason : Reasons \cup {"none"}, of : 0 .. MaxLaunches, late : BOOLEAN]
NoStop   == [st |-> "none", reason |-> "none", of |-> 0, late |-> FALSE]

(* The one caller that waits for a launch: making room first, unless it is *)
(* quiet ("moved": the exit record it saw was replaced meanwhile); then    *)
(* launching; then restoring the configuration.                            *)
Waiter  == [st : {"none", "room", "moved", "launch", "restore"},
            by : {"none", "create", "person", "daemon"}, prev : Exits]
Idle    == [st |-> "none", by |-> "none", prev |-> Running]

TypeOK ==
    /\ exit \in Exits
    /\ stopRequested \in BOOLEAN
    /\ memo \in 0 .. MaxStops + 1
    /\ startPromise \in 0 .. MaxLaunches
    /\ startAbandoned \in BOOLEAN
    /\ session \in 0 .. MaxLaunches
    /\ parkedAtSignOut \in BOOLEAN
    /\ restart \in {"none", "stop", "resume"}
    /\ givenUp \in BOOLEAN
    /\ attempts \in 0 .. MaxAttempts
    /\ agent \in [Launches -> AgentState]
    /\ stops \in [Stops -> StopProc]
    /\ waiter \in Waiter
    /\ boot \in {"off", "queued", "trying", "backoff"}
    /\ returning \in BOOLEAN
    /\ shuttingDown \in BOOLEAN
    /\ person \in {"wants", "stopped"}
    /\ parkedOnce \in BOOLEAN

(* The promise of a stop that had nothing to do: stop()'s Promise.resolve. *)
Resolved == MaxStops + 1

terminal == exit # Running
Used     == {l \in Launches : agent[l] # "none"}
NewLaunch == Cardinality(Used) + 1
StopsUsed == {s \in Stops : stops[s].st # "none"}
NewStop   == Cardinality(StopsUsed) + 1

(* A session being created, or one restored from the store at boot.        *)
Init ==
    /\ \/ /\ exit = Running
          /\ startPromise = 1
          /\ agent = [l \in Launches |-> IF l = 1 THEN "starting" ELSE "none"]
          /\ waiter = [st |-> "launch", by |-> "create", prev |-> Running]
          /\ boot = "off"
       \/ /\ "boot" \in Features
          /\ exit \in {"daemon_restarted", "daemon_shutdown", "parked", "stopped"}
          /\ startPromise = 0
          /\ agent = [l \in Launches |-> "none"]
          /\ waiter = Idle
          /\ boot = IF exit \in {"daemon_restarted", "daemon_shutdown"} THEN "queued" ELSE "off"
    /\ stopRequested = FALSE
    /\ memo = 0
    /\ startAbandoned = FALSE
    /\ session = 0
    /\ parkedAtSignOut = FALSE
    /\ restart = "none"
    /\ givenUp = FALSE
    /\ attempts = 0
    /\ stops = [s \in Stops |-> NoStop]
    /\ returning = FALSE
    /\ shuttingDown = FALSE
    /\ person = IF exit = "stopped" THEN "stopped" ELSE "wants"
    /\ parkedOnce = FALSE

(* Continuations run in the microtasks of the moment they become due,      *)
(* before any other request or timer: a doStop whose launch has settled,   *)
(* and a restart whose stop, or whose resume, is over.                     *)
StopIsDue(s) == stops[s].st = "await" /\ (stops[s].of # 0 => Settled(stops[s].of))
StopDue == \E s \in Stops : StopIsDue(s)
RestartDue ==
    \/ restart = "stop" /\ (memo \in Stops => stops[memo].st = "done")
    \/ restart = "resume" /\ waiter.st = "none"
Due == StopDue \/ RestartDue

-----------------------------------------------------------------------------
(* stop() *)

(* The exit record of a parked session is replaced, which a wake that is   *)
(* making room notices; a stop under way is joined; otherwise doStop runs  *)
(* to its first await.                                                     *)
Relabels(reason) == reason \in {"stopped", "agent_signed_out"} /\ exit = "parked"

MarksParked(reason) == parkedAtSignOut \/ reason = "agent_signed_out"

NoticedBy_Nobody(w) == w
NoticedBy(w) == IF w.st = "room" THEN [w EXCEPT !.st = "moved"] ELSE w

Relabel(reason) ==
    /\ exit' = reason
    /\ stopRequested' = TRUE
    /\ memo' = IF memo = 0 THEN Resolved ELSE memo
    /\ parkedAtSignOut' = MarksParked(reason)
    /\ parkedOnce' = (reason = "agent_signed_out")
    /\ waiter' = NoticedBy(waiter)
    /\ UNCHANGED stops

BeginStop(reason) ==
    /\ NewStop \in Stops          \* bound
    /\ stopRequested' = TRUE
    /\ memo' = NewStop
    /\ stops' = [stops EXCEPT ![NewStop] =
                    [st |-> "await", reason |-> reason, of |-> startPromise,
                     late |-> startAbandoned]]
    /\ parkedOnce' = FALSE
    /\ UNCHANGED <<exit, parkedAtSignOut, waiter>>

StopCall(reason) ==
    \/ Relabels(reason) /\ Relabel(reason)
    \/ /\ ~Relabels(reason) /\ memo # 0
       /\ UNCHANGED <<exit, stopRequested, memo, parkedAtSignOut, parkedOnce, stops, waiter>>
    \/ ~Relabels(reason) /\ memo = 0 /\ BeginStop(reason)

(* What no stop touches.                                                   *)
StopKeeps == UNCHANGED <<startPromise, startAbandoned, session, givenUp, attempts,
                         agent, boot, restart>>

(* DELETE /sessions/:id.  Of a session that ended otherwise it leaves the  *)
(* exit record, and so whoever is about to start it, as they are.          *)
Delete ==
    /\ ~Due
    /\ ~shuttingDown
    /\ StopCall("stopped")
    /\ person' = IF exit \in {Running, "parked"} THEN "stopped" ELSE person
    /\ StopKeeps /\ UNCHANGED <<returning, shuttingDown>>

(* The idle sweep, or another session's wake that needs the room.          *)
Park ==
    /\ ~Due
    /\ ~terminal /\ ~stopRequested /\ session # 0 /\ restart = "none" /\ ~givenUp
    /\ StopCall("parked")
    /\ StopKeeps /\ UNCHANGED <<returning, shuttingDown, person>>

(* signOutSessions.                                                        *)
SignOut ==
    /\ "signing" \in Features
    /\ ~Due
    /\ ~terminal \/ exit = "parked"
    /\ StopCall("agent_signed_out")
    /\ StopKeeps /\ UNCHANGED <<returning, shuttingDown, person>>

(* SessionRegistry.shutdown, which stops what is not terminal.             *)
Shutdown ==
    /\ "shutdown" \in Features
    /\ ~Due
    /\ ~shuttingDown
    /\ shuttingDown' = TRUE
    /\ IF terminal
       THEN UNCHANGED <<exit, stopRequested, memo, parkedAtSignOut, parkedOnce, stops, waiter>>
       ELSE StopCall("daemon_shutdown")
    /\ StopKeeps /\ UNCHANGED <<returning, person>>

(* onAgentGone, where it acts: the agent in use went away by itself.       *)
AgentGone(l) == session = l /\ ~stopRequested /\ ~terminal

(* The process of an agent ends, or its connection does.                   *)
AgentExits(l) ==
    /\ ~Due
    /\ agent[l] \in {"up", "closing"}
    /\ agent' = [agent EXCEPT ![l] = "dead"]
    /\ IF AgentGone(l) THEN StopCall("agent_exited")
       ELSE UNCHANGED <<exit, stopRequested, memo, parkedAtSignOut, parkedOnce, stops, waiter>>
    /\ UNCHANGED <<startPromise, startAbandoned, session, givenUp, attempts, boot,
                   restart, returning, shuttingDown, person>>

-----------------------------------------------------------------------------
(* doStop, after its first await. *)

(* exitRecord ??= : the first reason stands.                               *)
RecordExit_Overwrites(reason) == exit' = reason
RecordExit(reason) == exit' = IF terminal THEN exit ELSE reason

(* The launch it waited for has settled: it takes the session there is now.*)
StopTakesSession(s) ==
    /\ StopIsDue(s)
    /\ IF session = 0
       THEN /\ RecordExit(stops[s].reason)
            /\ stops' = [stops EXCEPT ![s].st = "done"]
            /\ UNCHANGED agent
       ELSE /\ stops' = [stops EXCEPT ![s].st = "dispose", ![s].of = session]
            /\ agent' = IF agent[session] = "up" THEN [agent EXCEPT ![session] = "closing"]
                                                 ELSE agent
            /\ UNCHANGED exit
    /\ UNCHANGED <<stopRequested, memo, startPromise, startAbandoned, session,
                   parkedAtSignOut, givenUp, attempts, waiter, boot, restart,
                   returning, shuttingDown, person, parkedOnce>>

(* The agent is disposed of and its death confirmed, by force if need be.  *)
StopEnds(s) ==
    /\ ~Due
    /\ stops[s].st = "dispose"
    /\ agent[stops[s].of] = "dead"
    /\ RecordExit(stops[s].reason)
    /\ stops' = [stops EXCEPT ![s].st = "done"]
    /\ UNCHANGED <<stopRequested, memo, startPromise, startAbandoned, session,
                   parkedAtSignOut, givenUp, attempts, agent, waiter, boot, restart,
                   returning, shuttingDown, person, parkedOnce>>

-----------------------------------------------------------------------------
(* Launches. *)

(* The caller of a resume is told how it went.  Failures count only for    *)
(* the boot pass, which gives up after MaxAttempts; a success forgets them.*)
AttemptFails ==
    /\ attempts' = attempts + 1
    /\ givenUp' = (attempts + 1 >= MaxAttempts)
    /\ boot' = IF attempts + 1 >= MaxAttempts THEN "off" ELSE "backoff"
BootAfterFailure ==
    IF boot = "trying" THEN AttemptFails ELSE UNCHANGED <<attempts, givenUp, boot>>

(* armForStart and the start of the launch.                                *)
Arm(by) ==
    /\ NewLaunch \in Launches     \* bound
    /\ waiter' = [st |-> "launch", by |-> by, prev |-> exit]
    /\ exit' = Running
    /\ parkedAtSignOut' = FALSE
    /\ stopRequested' = FALSE
    /\ memo' = 0
    /\ startAbandoned' = FALSE
    /\ startPromise' = NewLaunch
    /\ session' = 0
    /\ agent' = [agent EXCEPT ![NewLaunch] = "starting"]

(* makeRoomForWake returned.                                               *)
RoomMade ==
    /\ ~Due
    /\ waiter.st = "room"
    /\ Arm(waiter.by)
    /\ UNCHANGED <<givenUp, attempts, stops, boot, restart, returning, shuttingDown,
                   person, parkedOnce>>

(* It returned to another exit record than it left: the resume is refused. *)
RoomMoved ==
    /\ ~Due
    /\ waiter.st = "moved"
    /\ waiter' = Idle
    /\ BootAfterFailure
    /\ UNCHANGED <<exit, stopRequested, memo, startPromise, startAbandoned, session,
                   parkedAtSignOut, agent, stops, restart, returning, shuttingDown,
                   person, parkedOnce>>

(* The launch came up: onStarted, and then whoever waits for it.           *)
LaunchUp(l) ==
    /\ ~Due
    /\ agent[l] = "starting"
    /\ IF startPromise # l
       THEN agent' = [agent EXCEPT ![l] = "closing"] /\ UNCHANGED session
       ELSE /\ session' = l
            /\ agent' = [agent EXCEPT ![l] = IF stopRequested \/ startAbandoned
                                             THEN "closing" ELSE "up"]
    /\ IF waiter.st = "launch" /\ startPromise = l
       THEN /\ waiter' = IF waiter.by = "create" THEN Idle ELSE [waiter EXCEPT !.st = "restore"]
            /\ attempts' = 0 /\ givenUp' = FALSE
       ELSE UNCHANGED <<waiter, attempts, givenUp>>
    /\ UNCHANGED <<exit, stopRequested, memo, startPromise, startAbandoned,
                   parkedAtSignOut, stops, boot, restart, returning, shuttingDown,
                   person, parkedOnce>>

(* The launch failed: onStartFailed, then doStop if it waits, then the     *)
(* caller, which puts the previous exit back.                              *)
LaunchFails(l) ==
    /\ ~Due
    /\ agent[l] = "starting"
    /\ agent' = [agent EXCEPT ![l] = "failed"]
    /\ IF waiter.st = "launch" /\ startPromise = l
       THEN /\ exit' = IF waiter.prev # Running THEN waiter.prev
                       ELSE IF terminal THEN exit ELSE "start_failed"
            /\ waiter' = Idle
            /\ BootAfterFailure
       ELSE /\ exit' = IF startPromise = l /\ ~terminal THEN "start_timeout" ELSE exit
            /\ UNCHANGED <<waiter, attempts, givenUp, boot>>
    /\ UNCHANGED <<stopRequested, memo, startPromise, startAbandoned, session,
                   parkedAtSignOut, stops, restart, returning, shuttingDown, person,
                   parkedOnce>>

(* The deadline of the launch passes first: its caller gives up on it.     *)
LaunchTimesOut ==
    /\ startPromise <= MaxSlow    \* bound
    /\ ~Due
    /\ waiter.st = "launch"
    /\ agent[startPromise] = "starting"
    /\ startAbandoned' = TRUE
    /\ exit' = IF waiter.prev # Running THEN waiter.prev ELSE exit
    /\ waiter' = Idle
    /\ BootAfterFailure
    /\ stops' = [s \in Stops |-> [stops[s] EXCEPT !.late = @ \/ stops[s].st = "await"]]
    /\ UNCHANGED <<stopRequested, memo, startPromise, session, parkedAtSignOut, agent,
                   restart, returning, shuttingDown, person, parkedOnce>>

(* restoreConfig returned: the resume is over.                             *)
ResumeEnds ==
    /\ ~Due
    /\ waiter.st = "restore"
    /\ waiter' = Idle
    /\ boot' = IF boot = "trying" THEN "off" ELSE boot
    /\ UNCHANGED <<fields, agent, stops, restart, returning, shuttingDown, person,
                   parkedOnce>>

-----------------------------------------------------------------------------
(* Resuming. *)

Resuming == waiter.st \in {"room", "moved", "launch", "restore"} /\ waiter.by # "create"

(* What a message may wake: nothing that runs, or never ran.               *)
MayResume_Running == exit \notin {"start_failed", "start_timeout"}
MayResume == exit \notin {Running, "start_failed", "start_timeout"}

(* A message to a session that ended, or POST /sessions/:id/resume.  With  *)
(* a resume under way it is joined.                                        *)
PersonResumes ==
    /\ ~Due
    /\ ~shuttingDown
    /\ MayResume
    /\ person' = "wants"
    /\ IF Resuming THEN UNCHANGED waiter
       ELSE waiter' = [st |-> "room", by |-> "person", prev |-> exit]
    /\ UNCHANGED <<fields, agent, stops, boot, restart, returning, shuttingDown, parkedOnce>>

(* One attempt of the boot pass, which chose its sessions when it began    *)
(* and asks of this one only whether it is terminal.                       *)
BootAttempt ==
    /\ ~Due
    /\ boot \in {"queued", "backoff"}
    /\ IF shuttingDown
       THEN boot' = "off" /\ UNCHANGED <<fields, agent, waiter>>
       ELSE IF Resuming
       THEN boot' = "trying" /\ UNCHANGED <<fields, agent, waiter>>
       ELSE IF terminal
       THEN boot' = "trying" /\ Arm("daemon") /\ UNCHANGED <<givenUp, attempts>>
       ELSE /\ AttemptFails
            /\ UNCHANGED <<exit, stopRequested, memo, startPromise, startAbandoned,
                           session, parkedAtSignOut, agent, waiter>>
    /\ UNCHANGED <<stops, restart, returning, shuttingDown, person, parkedOnce>>

(* A sign-in lists the sessions that were signed out, and its loop comes   *)
(* to this one later: it is put back to parked, or resumed quietly.        *)
SignIn ==
    /\ ~Due
    /\ ~returning
    /\ exit = "agent_signed_out"
    /\ returning' = TRUE
    /\ UNCHANGED <<fields, agent, stops, waiter, boot, restart, shuttingDown, person,
                   parkedOnce>>

SignInReturns ==
    /\ ~Due
    /\ returning
    /\ returning' = FALSE
    /\ IF shuttingDown \/ exit # "agent_signed_out" THEN UNCHANGED <<fields, agent, waiter>>
       ELSE IF parkedAtSignOut
       THEN /\ parkedAtSignOut' = FALSE
            /\ exit' = "parked"
            /\ waiter' = NoticedBy(waiter)
            /\ UNCHANGED <<stopRequested, memo, startPromise, startAbandoned, session,
                           givenUp, attempts, agent>>
       ELSE IF Resuming THEN UNCHANGED <<fields, agent, waiter>>
       ELSE Arm("daemon") /\ UNCHANGED <<givenUp, attempts>>
    /\ UNCHANGED <<stops, boot, restart, shuttingDown, person, parkedOnce>>

-----------------------------------------------------------------------------
(* restartAgent. *)

RestartBegins ==
    /\ "restart" \in Features
    /\ ~Due
    /\ ~terminal /\ ~stopRequested /\ session # 0 /\ restart = "none"
    /\ restart' = "stop"
    /\ StopCall("config_changed")
    /\ UNCHANGED <<startPromise, startAbandoned, session, givenUp, attempts, agent, boot,
                   returning, shuttingDown, person>>

(* Its stop is done, and it resumes: joining a resume under way, refused   *)
(* if the session is not terminal.                                         *)
RestartResumes ==
    /\ ~StopDue
    /\ restart = "stop"
    /\ memo \in Stops => stops[memo].st = "done"
    /\ restart' = IF Resuming \/ terminal THEN "resume" ELSE "none"
    /\ IF Resuming \/ ~terminal THEN UNCHANGED waiter
       ELSE waiter' = [st |-> "room", by |-> "daemon", prev |-> exit]
    /\ UNCHANGED <<fields, agent, stops, boot, returning, shuttingDown, person, parkedOnce>>

(* The resume is over, and with it the restart.                            *)
RestartEnds ==
    /\ ~StopDue
    /\ restart = "resume"
    /\ waiter.st = "none"
    /\ restart' = "none"
    /\ UNCHANGED <<fields, agent, stops, waiter, boot, returning, shuttingDown, person,
                   parkedOnce>>

-----------------------------------------------------------------------------
Next ==
    \/ Delete \/ Park \/ SignOut \/ Shutdown
    \/ \E l \in Launches : AgentExits(l) \/ LaunchUp(l) \/ LaunchFails(l)
    \/ \E s \in Stops : StopTakesSession(s) \/ StopEnds(s)
    \/ LaunchTimesOut \/ RoomMade \/ RoomMoved \/ ResumeEnds
    \/ PersonResumes \/ BootAttempt \/ SignIn \/ SignInReturns
    \/ RestartBegins \/ RestartResumes \/ RestartEnds

(* Steps that wait for nothing but the machine are taken; an agent that is *)
(* being closed dies, by SIGKILL at the latest.  That a launch settles is  *)
(* the agent's doing: it answers or its process ends.                      *)
Fairness ==
    /\ \A l \in Launches : WF_vars(agent[l] = "closing" /\ AgentExits(l))
    /\ \A l \in Launches : WF_vars(LaunchUp(l) \/ LaunchFails(l))
    /\ \A s \in Stops : WF_vars(StopTakesSession(s)) /\ WF_vars(StopEnds(s))
    /\ WF_vars(RoomMade) /\ WF_vars(RoomMoved) /\ WF_vars(ResumeEnds)
    /\ WF_vars(RestartResumes) /\ WF_vars(RestartEnds)

Spec == Init /\ [][Next]_vars /\ Fairness
=============================================================================
