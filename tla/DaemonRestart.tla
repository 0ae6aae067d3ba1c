---------------------------- MODULE DaemonRestart ----------------------------
(***************************************************************************)
(* One session across the lives of the daemon: what a crash, a shutdown or *)
(* a reboot of the host leaves behind (its row in the store, its event     *)
(* log, the processes of its agents), and what the next daemon makes of it *)
(* (SessionRegistry.restore, the reaping of orphans, the boot pass).       *)
(*                                                                         *)
(* A daemon can be killed between any two statements.  What it keeps in    *)
(* memory reaches the disk in touchSafe, at the end of every handler: a    *)
(* handler is a step that leaves `owed' set, and Touch is the next step of *)
(* that daemon, if it lives.                                               *)
(***************************************************************************)
EXTENDS Naturals

CONSTANTS
    MaxLaunches,   \* bound: agents launched
    MaxLives,      \* bound: daemons
    MaxRefused,    \* bound: writes of the row that the disk refuses
    MaxAttempts,   \* MAX_RESUME_ATTEMPTS
    Reboots        \* whether the host may reboot between two daemons

ASSUME RestartAssumption ==
    /\ MaxLaunches \in Nat \ {0}
    /\ MaxLives \in Nat \ {0}
    /\ MaxRefused \in Nat
    /\ MaxAttempts \in Nat \ {0}
    /\ Reboots \in BOOLEAN

Launches == 1 .. MaxLaunches
Reasons  == {"stopped", "parked", "agent_exited", "daemon_shutdown", "daemon_restarted",
             "start_failed"}
Running  == "running"            \* no exit record
Exits    == Reasons \cup {Running}

(* What autoResumable answers at boot.                                     *)
BootResumes_Stopped(exit) == exit \in {"daemon_shutdown", "daemon_restarted", "stopped"}
BootResumes(exit) == exit \in {"daemon_shutdown", "daemon_restarted"}

(* none; starting and up: alive; dying: sent SIGKILL; dead; reused: its    *)
(* number is now somebody else's process; shot: and that was sent SIGKILL. *)
AgentState == {"none", "starting", "up", "dying", "dead", "reused", "shot"}

VARIABLES
    (* What outlives the daemon. *)
    agent,      \* each launch and its agent
    row,        \* the session's row
    said,       \* the exit in the log's last status event
    old,        \* the session was created before the host's last boot
    (* The daemon. *)
    up,
    s,          \* the fields of its ManagedSession
    pass,       \* autoResumePass, as far as this session goes
    shutting,   \* shuttingDown
    doomed,     \* the handle shutdown collected, or 0
    owed,       \* touchSafe is the next statement
    (* Bounds and history. *)
    life, refused,
    stale,      \* the last write of the row was refused
    unknown,    \* agents that no row names though a daemon had them
    answered,   \* a person was told that the session is stopped, and it is
    torn        \* the log tells of something that the row does not

world  == <<agent, row, said, old>>
rest   == <<up, pass, shutting, doomed>>
past   == <<life, refused, stale, unknown, answered, torn>>
vars   == <<world, s, owed, rest, past>>

Row == [exit : Exits, handle : 0 .. MaxLaunches, convo : BOOLEAN, forgotten : BOOLEAN]

(* stopping: the reason of the doStop under way; session: the agent it     *)
(* has, or 0; handle: restoredAgentHandle; convo: an agentSessionId is     *)
(* known; gaveUp: resumeGivenUp ("spent" is any verdict that the row does  *)
(* not keep); waiter: who waits for a launch, by whose failure the exit    *)
(* goes back to prev; launch: its agent, 0 before the spawn.               *)
Fields == [exit : Exits, stopping : Reasons \cup {"none"}, session : 0 .. MaxLaunches,
           handle : 0 .. MaxLaunches, convo : BOOLEAN,
           gaveUp : {"none", "forgotten", "spent"}, attempts : 0 .. MaxAttempts,
           waiter : {"none", "create", "person", "daemon"}, prev : Exits,
           launch : 0 .. MaxLaunches]

TypeOK ==
    /\ agent \in [Launches -> AgentState]
    /\ row \in Row
    /\ said \in Exits
    /\ old \in BOOLEAN
    /\ up \in BOOLEAN
    /\ s \in Fields
    /\ pass \in {"off", "queued", "trying", "backoff", "deferred"}
    /\ shutting \in BOOLEAN
    /\ doomed \in 0 .. MaxLaunches
    /\ owed \in BOOLEAN
    /\ life \in 1 .. MaxLives
    /\ refused \in 0 .. MaxRefused
    /\ stale \in BOOLEAN
    /\ unknown \subseteq 0 .. MaxLaunches
    /\ answered \in BOOLEAN
    /\ torn \in BOOLEAN

Blank == [exit |-> Running, stopping |-> "none", session |-> 0, handle |-> 0,
          convo |-> FALSE, gaveUp |-> "none", attempts |-> 0,
          waiter |-> "none", prev |-> Running, launch |-> 0]

(* A session is created: its constructor has written the row.              *)
Init ==
    /\ agent = [l \in Launches |-> "none"]
    /\ row = [exit |-> Running, handle |-> 0, convo |-> FALSE, forgotten |-> FALSE]
    /\ said = Running
    /\ old = FALSE
    /\ up = TRUE
    /\ s = [Blank EXCEPT !.waiter = "create"]
    /\ pass = "off"
    /\ shutting = FALSE
    /\ doomed = 0
    /\ owed = FALSE
    /\ life = 1
    /\ refused = 0
    /\ stale = FALSE
    /\ unknown = {}
    /\ answered = FALSE
    /\ torn = FALSE

Living(l)   == agent[l] \in {"starting", "up"}
Unused      == {l \in Launches : agent[l] = "none"}
NewLaunch   == CHOOSE l \in Unused : TRUE
AgentHandle == IF s.session # 0 THEN s.session ELSE s.handle
Spawning    == s.waiter # "none" /\ s.launch = 0
Ready       == up /\ ~owed /\ ~Spawning

(* SIGKILL, sent to whatever has the number.                               *)
Signal(a) == IF a \in {"starting", "up"} THEN "dying"
             ELSE IF a = "reused" THEN "shot" ELSE a
Kill(h) == [l \in Launches |-> IF l = h THEN Signal(agent[l]) ELSE agent[l]]

-----------------------------------------------------------------------------
(* touchSafe and persistedRow *)

Persisted_EndsEarly == [exit |-> IF s.stopping # "none" THEN s.stopping ELSE s.exit,
                        handle |-> AgentHandle, convo |-> s.convo,
                        forgotten |-> s.gaveUp = "forgotten"]
Persisted == [exit |-> s.exit, handle |-> AgentHandle, convo |-> s.convo,
              forgotten |-> s.gaveUp = "forgotten"]

(* A write that the disk refuses is swallowed.  Whoever waits for a stop   *)
(* is answered after it.                                                   *)
Touch ==
    /\ up /\ owed
    /\ owed' = FALSE
    /\ \/ /\ row' = Persisted
          /\ stale' = FALSE
          /\ UNCHANGED refused
       \/ /\ refused < MaxRefused      \* bound
          /\ refused' = refused + 1
          /\ stale' = TRUE
          /\ UNCHANGED row
    /\ answered' = (answered \/ s.exit = "stopped")
    /\ UNCHANGED <<agent, said, old, s, rest, life, unknown, torn>>

-----------------------------------------------------------------------------
(* Stopping *)

MayStop == s.exit = Running /\ s.stopping = "none"

(* The start of doStop, up to its first await.                             *)
BeginStop(reason) ==
    /\ s' = [s EXCEPT !.stopping = reason]
    /\ owed' = TRUE

(* DELETE /sessions/:id of a session that runs, or is parked.              *)
Delete ==
    /\ Ready /\ ~shutting
    /\ \/ MayStop /\ BeginStop("stopped") /\ UNCHANGED <<said, torn>>
       \/ /\ s.exit = "parked"
          /\ s' = [s EXCEPT !.exit = "stopped"]
          /\ said' = "stopped"
          /\ torn' = FALSE
          /\ owed' = TRUE
    /\ UNCHANGED <<agent, row, old, rest, life, refused, stale, unknown, answered>>

(* The idle sweep.                                                         *)
Park ==
    /\ Ready
    /\ MayStop /\ s.session # 0 /\ s.waiter = "none"
    /\ BeginStop("parked")
    /\ UNCHANGED <<world, rest, past>>

(* An agent ends by itself; onAgentGone stops the session whose it was.    *)
AgentDies(l) ==
    /\ \/ agent[l] \in {"up", "dying", "reused"}
       \/ agent[l] = "starting" /\ (up => s.launch # l)
    /\ up => Ready
    /\ agent' = [agent EXCEPT ![l] = "dead"]
    /\ IF up /\ s.session = l /\ MayStop
       THEN BeginStop("agent_exited")
       ELSE UNCHANGED <<s, owed>>
    /\ UNCHANGED <<row, said, old, rest, past>>

(* doStop goes on when no launch is in flight: the agent is disposed of,   *)
(* killed if it must be, and the first reason a session ended for stands.  *)
StopEnds ==
    /\ Ready
    /\ s.stopping # "none" /\ s.launch = 0
    /\ IF s.session # 0 /\ Living(s.session)
       THEN \E a \in {"dying", "dead"} : agent' = [agent EXCEPT ![s.session] = a]
       ELSE UNCHANGED agent
    /\ LET exit == IF s.exit = Running THEN s.stopping ELSE s.exit IN
       /\ s' = [s EXCEPT !.exit = exit, !.stopping = "none"]
       /\ said' = exit
    /\ torn' = FALSE
    /\ owed' = TRUE
    /\ UNCHANGED <<row, old, rest, life, refused, stale, unknown, answered>>

-----------------------------------------------------------------------------
(* Launching *)

(* armForStart, and the event that says so to whoever asked.               *)
Armed_StartFailed(by) == [s EXCEPT !.exit = Running, !.session = 0, !.stopping = "none",
                                   !.waiter = by, !.prev = "start_failed"]
Armed(by) == [s EXCEPT !.exit = Running, !.session = 0, !.stopping = "none",
                       !.waiter = by, !.prev = s.exit]

(* A message to a session that ended, or POST /sessions/:id/resume.        *)
PersonResumes ==
    /\ Ready /\ ~shutting
    /\ s.exit \notin {Running, "start_failed"} /\ s.convo
    /\ Unused # {}                     \* bound
    /\ s' = Armed("person")
    /\ said' = Running
    /\ torn' = FALSE
    /\ answered' = FALSE
    /\ owed' = TRUE
    /\ UNCHANGED <<agent, row, old, rest, life, refused, stale, unknown>>

Spawn ==
    /\ up /\ ~owed /\ Spawning
    /\ s' = [s EXCEPT !.launch = NewLaunch]
    /\ agent' = [agent EXCEPT ![NewLaunch] = "starting"]
    /\ UNCHANGED <<row, said, old, owed, rest, past>>

(* onStarted, which leaves before it writes anything if the session is     *)
(* being stopped, and then onResumed, which writes.                        *)
LaunchUp ==
    /\ Ready
    /\ s.launch # 0
    /\ agent' = [agent EXCEPT ![s.launch] = "up"]
    /\ s' = [s EXCEPT !.session = s.launch, !.handle = s.launch, !.convo = TRUE,
                      !.launch = 0, !.waiter = "none", !.prev = Running,
                      !.attempts = 0, !.gaveUp = "none"]
    /\ IF s.stopping = "none" THEN said' = Running /\ torn' = FALSE
                              ELSE UNCHANGED <<said, torn>>
    /\ owed' = (s.stopping = "none" \/ s.waiter # "create")
    /\ unknown' = IF owed' THEN unknown ELSE unknown \cup {s.launch}
    /\ pass' = IF pass = "trying" THEN "off" ELSE pass
    /\ UNCHANGED <<row, old, up, shutting, doomed, life, refused, stale, answered>>

(* How an attempt of the boot pass can fail: an agent that has forgotten   *)
(* the conversation ends it for good, a directory that is gone and an      *)
(* agent that cannot resume end it in this life, an agent that is not      *)
(* installed leaves it to the next pass, anything else is tried again      *)
(* MaxAttempts times.                                                      *)
Failures == {"failed", "forgotten", "refused", "deferred"}
Settled_NotGivenUp(f, how) ==
    IF how = "forgotten" THEN [f EXCEPT !.gaveUp = IF @ = "none" THEN how ELSE @]
    ELSE IF how = "failed" THEN [f EXCEPT !.attempts = IF @ < MaxAttempts THEN @ + 1 ELSE @]
    ELSE f
Settled(f, how) ==
    IF how = "forgotten" THEN [f EXCEPT !.gaveUp = IF @ = "none" THEN how ELSE @]
    ELSE IF how = "refused" THEN [f EXCEPT !.gaveUp = IF @ = "none" THEN "spent" ELSE @]
    ELSE IF how = "deferred" THEN f
    ELSE IF f.attempts + 1 >= MaxAttempts
    THEN [f EXCEPT !.attempts = MaxAttempts, !.gaveUp = IF @ = "none" THEN "spent" ELSE @]
    ELSE [f EXCEPT !.attempts = @ + 1]

PassAfter(how) ==
    IF how = "deferred" THEN how
    ELSE IF how = "failed" /\ s.attempts + 1 < MaxAttempts THEN "backoff" ELSE "off"

(* The launch fails: onStartFailed, a doStop that waits for it, and then   *)
(* its caller, which puts the previous exit back, and says so in the log   *)
(* unless nobody asked.                                                    *)
LaunchFails(how) ==
    /\ Ready
    /\ s.launch # 0
    /\ agent' = [agent EXCEPT ![s.launch] = "dead"]
    /\ LET exit == IF s.waiter = "create" THEN "start_failed" ELSE s.prev
           f    == [s EXCEPT !.exit = exit, !.launch = 0, !.waiter = "none",
                             !.prev = Running, !.stopping = "none"]
       IN  /\ s' = IF pass = "trying" THEN Settled(f, how) ELSE f
           /\ said' = IF s.waiter # "daemon" THEN exit
                      ELSE IF s.stopping # "none" THEN "start_failed" ELSE said
    /\ torn' = IF s.waiter # "daemon" THEN FALSE ELSE (torn \/ s.stopping # "none")
    /\ pass' = IF pass = "trying" THEN PassAfter(how) ELSE pass
    /\ owed' = TRUE
    /\ UNCHANGED <<row, old, up, shutting, doomed, life, refused, stale, unknown, answered>>

-----------------------------------------------------------------------------
(* autoResumePass *)

ToBeResumed(f) == BootResumes(f.exit) /\ f.convo /\ f.gaveUp # "forgotten"

(* One attempt: joining a resume under way, resuming quietly, or failing   *)
(* because the session runs, or its directory is gone or does not answer.  *)
BootAttempt ==
    /\ Ready
    /\ pass \in {"queued", "backoff"}
    /\ \/ /\ shutting
          /\ pass' = "off"
          /\ UNCHANGED <<s, owed, answered>>
       \/ /\ ~shutting /\ s.waiter # "none"
          /\ pass' = "trying"
          /\ UNCHANGED <<s, owed, answered>>
       \/ /\ ~shutting /\ s.waiter = "none" /\ s.exit # Running
          /\ Unused # {}               \* bound
          /\ pass' = "trying"
          /\ s' = Armed("daemon")
          /\ answered' = FALSE
          /\ owed' = TRUE
       \/ /\ ~shutting /\ s.waiter = "none"
          /\ \E how \in {"failed", "refused"} :
               s' = Settled(s, how) /\ pass' = PassAfter(how)
          /\ owed' = TRUE
          /\ UNCHANGED answered
    /\ UNCHANGED <<world, up, shutting, doomed, life, refused, stale, unknown, torn>>

(* A pass that follows an update of the agents.                            *)
NextPass ==
    /\ Ready /\ ~shutting
    /\ pass \in {"off", "deferred"}
    /\ pass = "deferred" \/ ToBeResumed(s)
    /\ pass' = IF ToBeResumed(s) THEN "queued" ELSE "off"
    /\ UNCHANGED <<world, s, owed, up, shutting, doomed, past>>

-----------------------------------------------------------------------------
(* The end of a daemon, and the next one *)

Unsaved == owed \/ stale

Ends ==
    /\ life < MaxLives                 \* bound
    /\ life' = life + 1
    /\ up' = FALSE
    /\ s' = Blank
    /\ pass' = "off" /\ shutting' = FALSE /\ doomed' = 0 /\ owed' = FALSE
    /\ unknown' = unknown \cup {s.launch} \cup (IF Unsaved THEN {s.session} ELSE {})
    /\ answered' = (answered /\ ~stale)
    /\ torn' = (torn \/ (Unsaved /\ row.exit # Running))
    /\ stale' = FALSE
    /\ UNCHANGED <<row, said, old, refused>>

Crash == up /\ Ends /\ UNCHANGED agent

(* shutdown: it stops what runs, for as long as its budget lasts, and then *)
(* kills what it had collected.                                            *)
Shutdown ==
    /\ Ready /\ ~shutting
    /\ shutting' = TRUE
    /\ doomed' = IF s.exit = Running THEN AgentHandle ELSE 0
    /\ IF MayStop THEN BeginStop("daemon_shutdown") ELSE UNCHANGED <<s, owed>>
    /\ UNCHANGED <<world, up, pass, past>>

Exit ==
    /\ Ready /\ shutting
    /\ agent' = Kill(doomed)
    /\ Ends

(* No process outlives it, and its numbers are given out again.            *)
Reboot ==
    /\ Reboots /\ ~up /\ ~old
    /\ old' = TRUE
    /\ \E reused \in SUBSET {row.handle} :
         agent' = [l \in Launches |-> IF agent[l] = "none" THEN "none"
                                      ELSE IF l \in reused THEN "reused" ELSE "dead"]
    /\ UNCHANGED <<row, said, s, owed, rest, past>>

(* LocalRuntime.reap: an agent that lives, and a session that was created  *)
(* since the host booted.                                                  *)
Reaps == row.exit = Running /\ ~old

Interrupted == row.exit = Running

(* restore, markInterrupted and the start of the boot pass.                *)
Boot ==
    /\ ~up
    /\ up' = TRUE
    /\ agent' = IF Reaps THEN Kill(row.handle) ELSE agent
    /\ s' = [Blank EXCEPT !.exit = IF Interrupted THEN "daemon_restarted" ELSE row.exit,
                          !.handle = row.handle, !.convo = row.convo,
                          !.gaveUp = IF row.forgotten THEN "forgotten" ELSE "none"]
    /\ said' = IF Interrupted THEN "daemon_restarted" ELSE said
    /\ torn' = (torn /\ ~Interrupted)
    /\ owed' = Interrupted
    /\ pass' = IF ToBeResumed(s') THEN "queued" ELSE "off"
    /\ UNCHANGED <<row, old, shutting, doomed, life, refused, stale, unknown, answered>>

-----------------------------------------------------------------------------
Next ==
    \/ Touch \/ Delete \/ Park \/ StopEnds
    \/ \E l \in Launches : AgentDies(l)
    \/ PersonResumes \/ Spawn \/ LaunchUp
    \/ \E how \in Failures : LaunchFails(how)
    \/ BootAttempt \/ NextPass
    \/ Crash \/ Shutdown \/ Exit \/ Reboot \/ Boot

(* The daemon goes on, a launch settles (its agent answers, or the launch  *)
(* is given up on), and a dead daemon is started again by its supervisor.  *)
Fairness ==
    /\ WF_vars(Touch) /\ WF_vars(Spawn) /\ WF_vars(StopEnds)
    /\ WF_vars(LaunchUp \/ \E how \in Failures : LaunchFails(how))
    /\ WF_vars(BootAttempt) /\ WF_vars(Boot) /\ WF_vars(Exit)

Spec == Init /\ [][Next]_vars /\ Fairness
=============================================================================
