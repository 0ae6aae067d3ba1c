------------------------ MODULE SessionLifecycleProofs ------------------------
(***************************************************************************)
(* The theorems of SessionLifecycle.                                       *)
(***************************************************************************)
EXTENDS MCSessionLifecycle, FiniteSetTheorems, TLAPS

(* While the boot pass has the session on its list, an attempt is left.    *)
AttemptsLeft == boot # "off" => attempts < MaxAttempts

(* A wake that is making room is of a session that ended, and one that a   *)
(* person asked for has not been stopped since.                            *)
WakeIsWanted ==
    waiter.st = "room" => exit # Running /\ (waiter.by = "person" => person = "wants")

(* A doStop was called for a reason.                                       *)
StopHasReason == \A t \in Stops : stops[t].st # "none" => stops[t].reason \in Reasons

LifeInv == TypeOK /\ AttemptsLeft /\ WakeIsWanted /\ StopHasReason

(* Launches and stops are used one after the other.                        *)
Numbered ==
    /\ \A a, b \in Stops : a < b /\ stops[b].st # "none" => stops[a].st # "none"
    /\ \A a, b \in Launches : a < b /\ agent[b] # "none" => agent[a] # "none"
    /\ \A t \in Stops : stops[t].st = "none" => ~stops[t].late

(* The launch of a session, and the agent it gets from it.                 *)
Launched ==
    /\ ~terminal => startPromise # 0
    /\ startPromise # 0 => agent[startPromise] # "none"
    /\ startPromise # 0 /\ agent[startPromise] = "starting" => session = 0

(* Who waits for a launch waits for the session's.                         *)
Woken ==
    waiter.st = "launch" =>
        ~terminal /\ startPromise # 0 /\ agent[startPromise] = "starting"

(* A session that ended leaves no launch that may yet come up, unless it   *)
(* was given up on, and no stop that has something to dispose of.          *)
Ended ==
    terminal =>
        /\ startPromise # 0 => Settled(startPromise) \/ startAbandoned
        /\ memo = 0 => session = 0 \/ startAbandoned
        /\ \A t \in Stops :
              /\ stops[t].st # "dispose"
              /\ stops[t].st = "await" => StopIsDue(t) /\ session = 0

(* A session that runs has at most one stop, and that is about its agent.  *)
OwnStop ==
    ~terminal => \A t \in Stops :
        /\ stops[t].st \in {"await", "dispose"} => memo = t
        /\ stops[t].st = "await" => stops[t].of = startPromise
        /\ stops[t].st = "dispose" => stops[t].of = session /\ session # 0

Held == \A l \in Launches : agent[l] = "up" => startPromise = l /\ session = l /\ ~terminal

(* What was asleep when its agent was signed out.                          *)
Relabelled ==
    parkedAtSignOut => terminal /\ memo # 0 /\ (exit = "agent_signed_out" => parkedOnce)

InOrder == Woken /\ Ended /\ OwnStop /\ Held /\ Relabelled

(* The lives of a session do not meet, unless a stop went astray.          *)
LivesInv == LifeInv /\ Numbered /\ Launched /\ (~Astray => InOrder)

-----------------------------------------------------------------------------
(* What stop() does before it first waits.                                 *)
StopFields == <<exit, stopRequested, memo, parkedAtSignOut, parkedOnce, stops, waiter>>

(* It ends no session that runs and starts none, and moves a wake that is  *)
(* making room if it replaces the exit record that wake saw.               *)
LEMMA StopCallFields ==
    ASSUME TypeOK, StopHasReason, NEW reason \in Reasons, StopCall(reason)
    PROVE  /\ StopHasReason'
           /\ exit' \in Exits /\ stopRequested' \in BOOLEAN /\ memo' \in 0 .. MaxStops + 1
           /\ parkedAtSignOut' \in BOOLEAN /\ stops' \in [Stops -> StopProc]
           /\ waiter' \in Waiter /\ parkedOnce' \in BOOLEAN
           /\ (exit' = Running <=> exit = Running)
           /\ waiter'.by = waiter.by
           /\ waiter'.st = waiter.st \/ waiter'.st = "moved"
           /\ reason = "stopped" /\ exit = "parked" => waiter'.st # "room"
<1>0. MaxStops \in Nat /\ MaxStops + 1 \in 0 .. MaxStops + 1 /\ Stops \subseteq 0 .. MaxStops + 1
  BY LifecycleAssumption DEF Stops
<1>1. /\ NoticedBy(waiter) \in Waiter
      /\ NoticedBy(waiter).by = waiter.by
      /\ NoticedBy(waiter).st = waiter.st \/ NoticedBy(waiter).st = "moved"
      /\ NoticedBy(waiter).st # "room"
  BY DEF NoticedBy, TypeOK, Waiter
<1>2. CASE Relabels(reason) /\ Relabel(reason)
  <2>1. reason \in Exits /\ reason # Running
    BY DEF Exits, Reasons, Running
  <2>2. exit # Running
    BY <1>2 DEF Relabels, Running
  <2>3. memo' \in 0 .. MaxStops + 1
    BY <1>0, <1>2 DEF Relabel, Resolved, TypeOK
  <2>4. MarksParked(reason) \in BOOLEAN
    BY DEF MarksParked, TypeOK
  <2> QED
    BY <1>1, <1>2, <2>1, <2>2, <2>3, <2>4 DEF Relabel, TypeOK, StopHasReason
<1>3. CASE ~Relabels(reason) /\ memo # 0 /\ UNCHANGED StopFields
  BY <1>3 DEF StopFields, TypeOK, Relabels, StopHasReason
<1>4. CASE ~Relabels(reason) /\ BeginStop(reason)
  <2>1. [st |-> "await", reason |-> reason, of |-> startPromise, late |-> startAbandoned]
            \in StopProc
    BY DEF StopProc, TypeOK
  <2>2. stops' \in [Stops -> StopProc] /\ StopHasReason'
    BY <1>4, <2>1 DEF BeginStop, TypeOK, StopHasReason
  <2>3. memo' \in 0 .. MaxStops + 1
    BY <1>0, <1>4 DEF BeginStop
  <2> QED
    BY <1>4, <2>2, <2>3 DEF BeginStop, TypeOK, Relabels
<1> QED
  BY <1>2, <1>3, <1>4 DEF StopCall, StopFields

(* A launch begins with the session as armForStart leaves it.              *)
LEMMA ArmFields ==
    ASSUME TypeOK, NEW by \in {"none", "create", "person", "daemon"}, Arm(by)
    PROVE  /\ waiter' \in Waiter /\ waiter'.st = "launch" /\ waiter'.by = by
           /\ exit' \in Exits /\ parkedAtSignOut' \in BOOLEAN /\ stopRequested' \in BOOLEAN
           /\ memo' \in 0 .. MaxStops + 1 /\ startAbandoned' \in BOOLEAN
           /\ startPromise' \in 0 .. MaxLaunches /\ session' \in 0 .. MaxLaunches
           /\ agent' \in [Launches -> AgentState]
<1>1. 0 \in 0 .. MaxStops + 1 /\ 0 \in 0 .. MaxLaunches /\ Launches \subseteq 0 .. MaxLaunches
  BY LifecycleAssumption DEF Launches
<1>2. waiter' = [st |-> "launch", by |-> by, prev |-> exit] /\ exit \in Exits
  BY DEF Arm, TypeOK
<1>3. waiter' \in Waiter /\ waiter'.st = "launch" /\ waiter'.by = by
  BY <1>2 DEF Waiter
<1>4. agent' \in [Launches -> AgentState]
  BY DEF Arm, TypeOK, AgentState
<1> QED
  BY <1>1, <1>3, <1>4 DEF Arm, Exits

(* A failure is counted only while an attempt is left.                     *)
LEMMA FailureFields ==
    ASSUME TypeOK, AttemptsLeft, BootAfterFailure \/ (boot # "off" /\ AttemptFails)
    PROVE  /\ attempts' \in 0 .. MaxAttempts /\ givenUp' \in BOOLEAN
           /\ boot' \in {"off", "queued", "trying", "backoff"}
           /\ AttemptsLeft'
<1>1. MaxAttempts \in Nat /\ attempts \in 0 .. MaxAttempts
  BY LifecycleAssumption DEF TypeOK
<1>2. CASE boot # "off" /\ AttemptFails
  <2>1. attempts < MaxAttempts
    BY <1>2 DEF AttemptsLeft
  <2>2. attempts' = attempts + 1 /\ attempts + 1 \in 0 .. MaxAttempts
    BY <1>1, <1>2, <2>1 DEF AttemptFails
  <2>3. boot' = (IF attempts + 1 >= MaxAttempts THEN "off" ELSE "backoff")
    BY <1>2 DEF AttemptFails
  <2>4. givenUp' \in BOOLEAN
    BY <1>2 DEF AttemptFails
  <2> QED
    BY <1>1, <2>2, <2>3, <2>4 DEF AttemptsLeft
<1>3. CASE UNCHANGED <<attempts, givenUp, boot>>
  BY <1>3 DEF AttemptsLeft, TypeOK
<1> QED
  BY <1>2, <1>3 DEF BootAfterFailure

(* Nobody waits.                                                           *)
LEMMA IdleIsAWaiter == Idle \in Waiter /\ Idle.st = "none"
  BY DEF Idle, Waiter, Exits

-----------------------------------------------------------------------------
(* A session that is created, or restored, is well typed and nobody's wake.*)
LEMMA InitInv == Init => LifeInv
<1> SUFFICES ASSUME Init PROVE LifeInv
  OBVIOUS
<1>1. /\ MaxLaunches \in Nat \ {0} /\ MaxStops \in Nat \ {0} /\ MaxAttempts \in Nat \ {0}
      /\ 0 \in 0 .. MaxStops + 1 /\ 0 \in 0 .. MaxLaunches /\ 1 \in 0 .. MaxLaunches
      /\ 0 \in 0 .. MaxAttempts
  BY LifecycleAssumption
<1>2. [st |-> "launch", by |-> "create", prev |-> Running] \in Waiter
  BY DEF Waiter, Exits
<1>3. waiter \in Waiter /\ waiter.st # "room"
  BY <1>2, IdleIsAWaiter DEF Init
<1>4. agent \in [Launches -> AgentState] /\ startPromise \in 0 .. MaxLaunches
  BY <1>1 DEF Init, AgentState
<1>5. stops \in [Stops -> StopProc]
  BY <1>1 DEF Init, NoStop, StopProc
<1>6. exit \in Exits
  BY DEF Init, Exits, Reasons
<1>7. boot \in {"off", "queued", "trying", "backoff"}
  BY DEF Init
<1>8. person \in {"wants", "stopped"}
  BY DEF Init
<1>9. TypeOK
  BY <1>1, <1>3, <1>4, <1>5, <1>6, <1>7, <1>8 DEF Init, TypeOK
<1> QED
  BY <1>1, <1>3, <1>9 DEF Init, LifeInv, AttemptsLeft, WakeIsWanted, StopHasReason, NoStop

-----------------------------------------------------------------------------
(* Every step keeps the types, an attempt for the boot pass, and a wake    *)
(* that is making room wanted.                                             *)
LEMMA StepInv == LifeInv /\ [Next]_vars => LifeInv'
<1> SUFFICES ASSUME LifeInv, [Next]_vars PROVE LifeInv'
  OBVIOUS
<1> USE DEF LifeInv
<1>0. /\ MaxLaunches \in Nat \ {0} /\ MaxStops \in Nat \ {0} /\ MaxAttempts \in Nat \ {0}
      /\ 0 \in 0 .. MaxAttempts /\ Launches \subseteq 0 .. MaxLaunches
  BY LifecycleAssumption DEF Launches
<1>1. ASSUME NEW reason \in Reasons, StopCall(reason), StopKeeps,
             returning' \in BOOLEAN, shuttingDown' \in BOOLEAN,
             \/ person' = person
             \/ /\ reason = "stopped"
                /\ person' = IF exit \in {Running, "parked"} THEN "stopped" ELSE person
      PROVE  LifeInv'
  <2>1. TypeOK'
    BY <1>1, StopCallFields DEF StopKeeps, TypeOK
  <2>2. AttemptsLeft'
    BY <1>1 DEF StopKeeps, AttemptsLeft
  <2>3. WakeIsWanted' /\ StopHasReason'
    BY <1>1, StopCallFields DEF WakeIsWanted
  <2> QED
    BY <2>1, <2>2, <2>3
<1>2. CASE Delete
  BY <1>1, <1>2 DEF Delete, Reasons, TypeOK
<1>3. CASE Park
  BY <1>1, <1>3 DEF Park, Reasons, TypeOK
<1>4. CASE SignOut
  BY <1>1, <1>4 DEF SignOut, Reasons, TypeOK
<1>5. CASE Shutdown
  <2>1. CASE terminal
    BY <1>5, <2>1 DEF Shutdown, StopKeeps, TypeOK, AttemptsLeft, WakeIsWanted, StopHasReason
  <2>2. CASE ~terminal
    BY <1>1, <1>5, <2>2 DEF Shutdown, Reasons, TypeOK
  <2> QED
    BY <2>1, <2>2
<1>6. ASSUME NEW l \in Launches, AgentExits(l) PROVE LifeInv'
  <2>1. agent' \in [Launches -> AgentState]
    BY <1>6 DEF AgentExits, TypeOK, AgentState
  <2>2. /\ UNCHANGED <<startPromise, startAbandoned, session, givenUp, attempts, boot,
                       restart, returning, shuttingDown, person>>
        /\ UNCHANGED StopFields \/ StopCall("agent_exited")
    BY <1>6 DEF AgentExits, StopFields
  <2>3. AttemptsLeft'
    BY <2>2 DEF AttemptsLeft
  <2>4. CASE UNCHANGED StopFields
    BY <2>1, <2>2, <2>3, <2>4 DEF StopFields, TypeOK, WakeIsWanted, StopHasReason
  <2>5. CASE StopCall("agent_exited")
    <3>1. "agent_exited" \in Reasons
      BY DEF Reasons
    <3>2. TypeOK'
      BY <2>1, <2>2, <2>5, <3>1, StopCallFields DEF TypeOK
    <3>3. WakeIsWanted' /\ StopHasReason'
      BY <2>2, <2>5, <3>1, StopCallFields DEF WakeIsWanted
    <3> QED
      BY <2>3, <3>2, <3>3
  <2> QED
    BY <2>2, <2>4, <2>5
<1>7. ASSUME NEW l \in Launches, LaunchUp(l) PROVE LifeInv'
  <2>1. agent' \in [Launches -> AgentState] /\ session' \in 0 .. MaxLaunches
    BY <1>0, <1>7 DEF LaunchUp, TypeOK, AgentState
  <2>2. /\ waiter' \in Waiter /\ (waiter'.st = "room" => waiter' = waiter)
        /\ attempts' \in 0 .. MaxAttempts /\ attempts' \in {0, attempts}
        /\ givenUp' \in BOOLEAN
    <3>1. [waiter EXCEPT !.st = "restore"] \in Waiter
          /\ [waiter EXCEPT !.st = "restore"].st = "restore"
      BY DEF TypeOK, Waiter
    <3> QED
      BY <1>0, <1>7, <3>1, IdleIsAWaiter DEF LaunchUp, TypeOK
  <2>3. AttemptsLeft'
    BY <1>0, <1>7, <2>2 DEF LaunchUp, AttemptsLeft, TypeOK
  <2>4. WakeIsWanted'
    BY <1>7, <2>2 DEF LaunchUp, WakeIsWanted
  <2> QED
    BY <1>7, <2>1, <2>2, <2>3, <2>4 DEF LaunchUp, TypeOK, StopHasReason
<1>8. ASSUME NEW l \in Launches, LaunchFails(l) PROVE LifeInv'
  <2>1. agent' \in [Launches -> AgentState]
    BY <1>8 DEF LaunchFails, TypeOK, AgentState
  <2>2. exit' \in Exits
    BY <1>8 DEF LaunchFails, TypeOK, Waiter, Exits, Reasons
  <2>3. CASE waiter.st = "launch" /\ startPromise = l
    <3>1. waiter' = Idle /\ BootAfterFailure
      BY <1>8, <2>3 DEF LaunchFails
    <3>2. TypeOK' /\ AttemptsLeft'
      BY <1>8, <2>1, <2>2, <3>1, FailureFields, IdleIsAWaiter DEF LaunchFails, TypeOK
    <3> QED
      BY <1>8, <3>1, <3>2, IdleIsAWaiter DEF LaunchFails, WakeIsWanted, StopHasReason
  <2>4. CASE ~(waiter.st = "launch" /\ startPromise = l)
    <3>1. UNCHANGED <<waiter, attempts, givenUp, boot, person>>
          /\ (exit # Running => exit' # Running)
      BY <1>8, <2>4 DEF LaunchFails, Running
    <3> QED
      BY <1>8, <2>1, <2>2, <3>1 DEF LaunchFails, TypeOK, AttemptsLeft, WakeIsWanted, StopHasReason
  <2> QED
    BY <2>3, <2>4
<1>9. ASSUME NEW t \in Stops, StopTakesSession(t) PROVE LifeInv'
  <2>1. exit' \in Exits /\ (exit # Running => exit' # Running)
    BY <1>9 DEF StopTakesSession, StopIsDue, RecordExit, terminal, TypeOK, StopHasReason,
       Reasons, Exits, Running
  <2>2. agent' \in [Launches -> AgentState]
    BY <1>9 DEF StopTakesSession, TypeOK, AgentState
  <2>3. stops' \in [Stops -> StopProc] /\ StopHasReason'
    <3>1. [stops[t] EXCEPT !.st = "done"] \in StopProc
      BY DEF TypeOK, StopProc
    <3>2. [stops[t] EXCEPT !.st = "dispose", !.of = session] \in StopProc
      BY DEF TypeOK, StopProc
    <3> QED
      BY <1>9, <3>1, <3>2 DEF StopTakesSession, StopIsDue, TypeOK, StopProc, StopHasReason
  <2> QED
    BY <1>9, <2>1, <2>2, <2>3 DEF StopTakesSession, TypeOK, AttemptsLeft, WakeIsWanted
<1>10. ASSUME NEW t \in Stops, StopEnds(t) PROVE LifeInv'
  <2>1. exit' \in Exits /\ (exit # Running => exit' # Running)
    BY <1>10 DEF StopEnds, RecordExit, terminal, TypeOK, StopHasReason, Reasons, Exits,
       Running
  <2>2. stops' \in [Stops -> StopProc] /\ StopHasReason'
    BY <1>10 DEF StopEnds, TypeOK, StopProc, StopHasReason
  <2> QED
    BY <1>10, <2>1, <2>2 DEF StopEnds, TypeOK, AttemptsLeft, WakeIsWanted
<1>11. CASE LaunchTimesOut
  <2>1. exit' \in Exits
    BY <1>11 DEF LaunchTimesOut, TypeOK, Waiter
  <2>2. stops' \in [Stops -> StopProc] /\ StopHasReason'
    BY <1>11 DEF LaunchTimesOut, TypeOK, StopProc, StopHasReason
  <2>3. waiter' = Idle /\ BootAfterFailure
    BY <1>11 DEF LaunchTimesOut
  <2>4. TypeOK' /\ AttemptsLeft'
    BY <1>11, <2>1, <2>2, <2>3, FailureFields, IdleIsAWaiter DEF LaunchTimesOut, TypeOK
  <2> QED
    BY <2>2, <2>3, <2>4, IdleIsAWaiter DEF WakeIsWanted
<1>12. CASE RoomMade
  <2>1. waiter.by \in {"none", "create", "person", "daemon"}
    BY DEF TypeOK, Waiter
  <2> QED
    BY <1>12, <2>1, ArmFields DEF RoomMade, TypeOK, AttemptsLeft, WakeIsWanted, StopHasReason
<1>13. CASE RoomMoved
  <2>1. waiter' = Idle /\ BootAfterFailure
    BY <1>13 DEF RoomMoved
  <2>2. TypeOK' /\ AttemptsLeft'
    BY <1>13, <2>1, FailureFields, IdleIsAWaiter DEF RoomMoved, TypeOK
  <2> QED
    BY <1>13, <2>1, <2>2, IdleIsAWaiter DEF RoomMoved, WakeIsWanted, StopHasReason
<1>14. CASE ResumeEnds
  BY <1>14, IdleIsAWaiter DEF ResumeEnds, fields, TypeOK, AttemptsLeft, WakeIsWanted, StopHasReason
<1>15. CASE PersonResumes
  <2>1. exit # Running
    BY <1>15 DEF PersonResumes, MayResume
  <2>2. waiter' \in Waiter
    BY <1>15 DEF PersonResumes, TypeOK, Waiter
  <2> QED
    BY <1>15, <2>1, <2>2 DEF PersonResumes, fields, TypeOK, AttemptsLeft, WakeIsWanted, StopHasReason
<1>16. CASE BootAttempt
  <2>1. /\ boot # "off"
        /\ UNCHANGED <<stops, restart, returning, shuttingDown, person, parkedOnce>>
    BY <1>16 DEF BootAttempt
  <2>2. CASE boot' = "off" /\ UNCHANGED <<fields, agent, waiter>>
    BY <2>1, <2>2 DEF fields, TypeOK, AttemptsLeft, WakeIsWanted, StopHasReason
  <2>3. CASE boot' = "trying" /\ UNCHANGED <<fields, agent, waiter>>
    BY <2>1, <2>3 DEF fields, TypeOK, AttemptsLeft, WakeIsWanted, StopHasReason
  <2>4. CASE boot' = "trying" /\ Arm("daemon") /\ UNCHANGED <<givenUp, attempts>>
    BY <2>1, <2>4, ArmFields DEF TypeOK, AttemptsLeft, WakeIsWanted, StopHasReason
  <2>5. CASE /\ AttemptFails
             /\ UNCHANGED <<exit, stopRequested, memo, startPromise, startAbandoned,
                            session, parkedAtSignOut, agent, waiter>>
    BY <2>1, <2>5, FailureFields DEF TypeOK, WakeIsWanted, StopHasReason
  <2> QED
    BY <1>16, <2>2, <2>3, <2>4, <2>5 DEF BootAttempt
<1>17. CASE SignIn
  BY <1>17 DEF SignIn, fields, TypeOK, AttemptsLeft, WakeIsWanted, StopHasReason
<1>18. CASE SignInReturns
  <2>1. /\ returning' = FALSE
        /\ UNCHANGED <<stops, boot, restart, shuttingDown, person, parkedOnce>>
    BY <1>18 DEF SignInReturns
  <2>2. CASE UNCHANGED <<fields, agent, waiter>>
    BY <2>1, <2>2 DEF fields, TypeOK, AttemptsLeft, WakeIsWanted, StopHasReason
  <2>3. CASE /\ parkedAtSignOut' = FALSE /\ exit' = "parked"
             /\ waiter' = NoticedBy(waiter)
             /\ UNCHANGED <<stopRequested, memo, startPromise, startAbandoned, session,
                            givenUp, attempts, agent>>
    <3>1. NoticedBy(waiter) \in Waiter /\ NoticedBy(waiter).st # "room"
      BY DEF NoticedBy, TypeOK, Waiter
    <3> QED
      BY <2>1, <2>3, <3>1 DEF TypeOK, AttemptsLeft, WakeIsWanted, StopHasReason, Exits, Reasons
  <2>4. CASE Arm("daemon") /\ UNCHANGED <<givenUp, attempts>>
    BY <2>1, <2>4, ArmFields DEF TypeOK, AttemptsLeft, WakeIsWanted, StopHasReason
  <2> QED
    BY <1>18, <2>2, <2>3, <2>4 DEF SignInReturns
<1>19. CASE RestartBegins
  <2>1. "config_changed" \in Reasons /\ StopCall("config_changed") /\ restart' = "stop"
    BY <1>19 DEF RestartBegins, Reasons
  <2>2. UNCHANGED <<startPromise, startAbandoned, session, givenUp, attempts, agent, boot,
                    returning, shuttingDown, person>>
    BY <1>19 DEF RestartBegins
  <2>3. TypeOK'
    BY <2>1, <2>2, StopCallFields DEF TypeOK
  <2>4. WakeIsWanted' /\ StopHasReason'
    BY <2>1, <2>2, StopCallFields DEF WakeIsWanted
  <2> QED
    BY <2>2, <2>3, <2>4 DEF AttemptsLeft
<1>20. CASE RestartResumes
  <2>1. waiter' = waiter \/ (exit # Running /\ waiter' = [st |-> "room", by |-> "daemon", prev |-> exit])
    BY <1>20 DEF RestartResumes, terminal
  <2>2. waiter' \in Waiter
    BY <2>1 DEF TypeOK, Waiter
  <2> QED
    BY <1>20, <2>1, <2>2 DEF RestartResumes, fields, TypeOK, AttemptsLeft, WakeIsWanted, StopHasReason
<1>21. CASE RestartEnds
  BY <1>21 DEF RestartEnds, fields, TypeOK, AttemptsLeft, WakeIsWanted, StopHasReason
<1>22. CASE UNCHANGED vars
  BY <1>22 DEF vars, fields, procs, TypeOK, AttemptsLeft, WakeIsWanted, StopHasReason
<1> QED
  BY <1>2, <1>3, <1>4, <1>5, <1>6, <1>7, <1>8, <1>9, <1>10, <1>11, <1>12, <1>13, <1>14,
     <1>15, <1>16, <1>17, <1>18, <1>19, <1>20, <1>21, <1>22 DEF Next

-----------------------------------------------------------------------------
(* Numbers taken in order: the next one is free, and all before it taken.  *)
LEMMA NextInLine ==
    ASSUME NEW n \in Nat, NEW U \in SUBSET (1 .. n),
           \A a, b \in 1 .. n : a < b /\ b \in U => a \in U
    PROVE  /\ Cardinality(U) + 1 \notin U
           /\ \A a \in 1 .. n : a < Cardinality(U) + 1 => a \in U
<1>1. IsFiniteSet(1 .. n)
  BY FS_Interval
<1>2. IsFiniteSet(U) /\ Cardinality(U) \in Nat
  BY <1>1, FS_Subset, FS_CardinalityType
<1> DEFINE c == Cardinality(U)
<1>3. c + 1 \notin U
  <2> SUFFICES ASSUME c + 1 \in U PROVE FALSE
    OBVIOUS
  <2>1. 1 .. (c + 1) \subseteq U
    BY <1>2
  <2>2. Cardinality(1 .. (c + 1)) <= c
    BY <1>2, <2>1, FS_Subset
  <2>3. Cardinality(1 .. (c + 1)) = c + 1
    BY <1>2, FS_Interval
  <2> HIDE DEF c
  <2> QED
    BY <1>2, <2>2, <2>3 DEF c
<1>4. ASSUME NEW a \in 1 .. n, a < c + 1 PROVE a \in U
  <2> SUFFICES ASSUME a \notin U PROVE FALSE
    OBVIOUS
  <2>1. U \subseteq 1 .. (a - 1)
    <3> SUFFICES ASSUME NEW b \in U, ~(b < a) PROVE FALSE
      OBVIOUS
    <3>1. a < b \/ a = b
      OBVIOUS
    <3> QED
      BY <3>1
  <2>2. IsFiniteSet(1 .. (a - 1)) /\ Cardinality(1 .. (a - 1)) = a - 1
    BY FS_Interval
  <2>3. c <= a - 1
    BY <2>1, <2>2, FS_Subset
  <2> QED
    BY <1>2, <1>4, <2>3
<1> QED
  BY <1>3, <1>4

(* A doStop is a new one.                                                  *)
LEMMA NewStopIsNext ==
    ASSUME TypeOK, Numbered, NewStop \in Stops
    PROVE  stops[NewStop].st = "none" /\ \A t \in Stops : t < NewStop => stops[t].st # "none"
<1>1. MaxStops \in Nat /\ Stops = 1 .. MaxStops /\ StopsUsed \in SUBSET (1 .. MaxStops)
  BY LifecycleAssumption DEF Stops, StopsUsed
<1>2. \A a, b \in 1 .. MaxStops : a < b /\ b \in StopsUsed => a \in StopsUsed
  BY <1>1 DEF Numbered, StopsUsed
<1>3. NewStop \notin StopsUsed /\ \A a \in 1 .. MaxStops : a < NewStop => a \in StopsUsed
  BY <1>1, <1>2, NextInLine DEF NewStop
<1> QED
  BY <1>1, <1>3 DEF StopsUsed

(* A launch is a new one.                                                  *)
LEMMA NewLaunchIsNext ==
    ASSUME TypeOK, Numbered, NewLaunch \in Launches
    PROVE  agent[NewLaunch] = "none" /\ \A l \in Launches : l < NewLaunch => agent[l] # "none"
<1>1. MaxLaunches \in Nat /\ Launches = 1 .. MaxLaunches /\ Used \in SUBSET (1 .. MaxLaunches)
  BY LifecycleAssumption DEF Launches, Used
<1>2. \A a, b \in 1 .. MaxLaunches : a < b /\ b \in Used => a \in Used
  BY <1>1 DEF Numbered, Used
<1>3. NewLaunch \notin Used /\ \A a \in 1 .. MaxLaunches : a < NewLaunch => a \in Used
  BY <1>1, <1>2, NextInLine DEF NewLaunch
<1> QED
  BY <1>1, <1>3 DEF Used

(* What every step but the settling of a launch may do to agents.          *)
OnlyDies ==
    \A l \in Launches : \/ agent'[l] = agent[l]
                        \/ agent[l] \in {"up", "closing"} /\ agent'[l] = "dead"

Lives == Numbered /\ Launched /\ (~Astray => InOrder)

(* A step that leaves stops, launches and the exit record alone.           *)
LEMMA QuietStep ==
    ASSUME LivesInv, OnlyDies, waiter'.st = "launch" => waiter' = waiter,
           UNCHANGED <<exit, memo, startPromise, startAbandoned, session, parkedAtSignOut,
                       stops, parkedOnce>>
    PROVE  Lives'
<1>1. startPromise \in 0 .. MaxLaunches /\ Launches = 1 .. MaxLaunches
      /\ MaxLaunches \in Nat
  BY LifecycleAssumption DEF LivesInv, LifeInv, TypeOK, Launches
<1>2. Numbered' /\ Launched'
  BY <1>1 DEF LivesInv, Numbered, Launched, OnlyDies, terminal
<1>3. ASSUME NEW l \in Launches, Settled(l) PROVE Settled(l)'
  BY <1>3 DEF OnlyDies, Settled
<1>4. ASSUME ~Astray' PROVE InOrder'
  <2>1. InOrder
    BY <1>4 DEF LivesInv, Astray
  <2>2. Woken' /\ Held' /\ Relabelled' /\ OwnStop'
    BY <1>1, <2>1 DEF InOrder, Woken, Held, Relabelled, OwnStop, OnlyDies, terminal
  <2>3. Ended'
    <3>1. \A u \in Stops : stops[u].of \in 0 .. MaxLaunches
      BY DEF LivesInv, LifeInv, TypeOK, StopProc
    <3> QED
      BY <1>1, <1>3, <2>1, <3>1 DEF InOrder, Ended, StopIsDue, terminal
  <2> QED
    BY <2>2, <2>3 DEF InOrder
<1> QED
  BY <1>2, <1>4 DEF Lives

(* A call of stop(), when no continuation of another one is due.           *)
LEMMA StopStep ==
    ASSUME LivesInv, NEW reason \in Reasons, StopCall(reason), ~StopDue, OnlyDies,
           UNCHANGED <<startPromise, startAbandoned, session>>
    PROVE  Lives'
<1> USE DEF LivesInv, LifeInv
<1>1. /\ startPromise \in 0 .. MaxLaunches /\ Launches = 1 .. MaxLaunches
      /\ MaxLaunches \in Nat /\ MaxStops \in Nat /\ Stops = 1 .. MaxStops
  BY LifecycleAssumption DEF TypeOK, Launches, Stops
<1>2. \A l \in Launches : Settled(l) => Settled(l)'
  BY DEF OnlyDies, Settled
<1>3. CASE Relabels(reason) /\ Relabel(reason)
  <2>1. exit = "parked" /\ exit' = reason /\ reason # Running /\ memo' # 0
    BY <1>1, <1>3 DEF Relabels, Relabel, Resolved, Running
  <2>2. Numbered' /\ Launched'
    BY <1>1, <1>3, <2>1 DEF Relabel, Numbered, Launched, OnlyDies, terminal, Running
  <2>3. ASSUME ~Astray' PROVE InOrder'
    <3>1. InOrder
      BY <1>3, <2>3 DEF Relabel, Astray
    <3>2. waiter'.st # "launch"
      BY <1>3, <2>1, <3>1 DEF Relabel, NoticedBy, InOrder, Woken, terminal, Running, TypeOK,
         Waiter
    <3>3. Ended'
      <4>1. \A u \in Stops : stops[u].of \in 0 .. MaxLaunches
        BY DEF TypeOK, StopProc
      <4> QED
        BY <1>1, <1>2, <1>3, <2>1, <3>1, <4>1
        DEF Relabel, InOrder, Ended, StopIsDue, terminal, Running
    <3>4. OwnStop' /\ Held'
      BY <1>3, <2>1, <3>1 DEF Relabel, InOrder, OwnStop, Held, OnlyDies, terminal, Running
    <3>5. Relabelled'
      BY <1>3, <2>1, <3>1 DEF Relabel, InOrder, Relabelled, MarksParked, terminal
    <3> QED
      BY <3>2, <3>3, <3>4, <3>5 DEF InOrder, Woken
  <2> QED
    BY <2>2, <2>3 DEF Lives
<1>4. CASE UNCHANGED StopFields
  BY <1>4, QuietStep DEF StopFields
<1>5. CASE memo = 0 /\ BeginStop(reason)
  <2> DEFINE n == NewStop
  <2>1. n \in Stops /\ stops[n].st = "none"
        /\ \A u \in Stops : u < n => stops[u].st # "none"
    BY <1>5, NewStopIsNext DEF BeginStop
  <2>2. stops' = [stops EXCEPT ![n] = [st |-> "await", reason |-> reason, of |-> startPromise,
                                       late |-> startAbandoned]]
    BY <1>5 DEF BeginStop
  <2> HIDE DEF n
  <2>3. /\ stops'[n].st = "await" /\ stops'[n].of = startPromise
        /\ stops'[n].late = startAbandoned
        /\ \A u \in Stops : u # n => stops'[u] = stops[u]
    BY <2>1, <2>2 DEF TypeOK
  <2>4. memo' = n /\ UNCHANGED <<exit, parkedAtSignOut, waiter>> /\ parkedOnce' = FALSE
    BY <1>5 DEF BeginStop, n
  <2>5. Numbered'
    BY <1>1, <2>1, <2>3 DEF Numbered, OnlyDies
  <2>6. Launched'
    BY <1>1, <2>4 DEF Launched, OnlyDies, terminal
  <2>7. ASSUME ~Astray' PROVE InOrder'
    <3>1. InOrder /\ ~startAbandoned
      BY <2>1, <2>3, <2>7 DEF Astray, Numbered
    <3>2. Woken' /\ Held' /\ Relabelled'
      BY <1>1, <1>5, <2>4, <3>1 DEF InOrder, Woken, Held, Relabelled, OnlyDies, terminal
    <3>3. OwnStop'
      BY <1>1, <1>5, <2>1, <2>3, <2>4, <3>1 DEF InOrder, OwnStop, terminal
    <3>4. Ended'
      <4>1. \A u \in Stops : stops[u].of \in 0 .. MaxLaunches
        BY DEF TypeOK, StopProc
      <4>2. terminal => session = 0 /\ (startPromise # 0 => Settled(startPromise)')
        BY <1>1, <1>2, <1>5, <3>1 DEF InOrder, Ended
      <4> QED
        BY <1>1, <1>2, <2>1, <2>3, <2>4, <3>1, <4>1, <4>2 DEF InOrder, Ended, StopIsDue,
           terminal
    <3> QED
      BY <3>2, <3>3, <3>4 DEF InOrder
  <2> QED
    BY <2>5, <2>6, <2>7 DEF Lives
<1> QED
  BY <1>3, <1>4, <1>5 DEF StopCall, StopFields

(* A launch of a session that ended, when no continuation is due: nothing  *)
(* of its last life is left.                                               *)
LEMMA ArmStep ==
    ASSUME LivesInv, NEW by, Arm(by), terminal, ~StopDue, UNCHANGED <<stops, parkedOnce>>
    PROVE  Lives'
<1> USE DEF LivesInv, LifeInv
<1>1. MaxLaunches \in Nat /\ Launches = 1 .. MaxLaunches
  BY LifecycleAssumption DEF Launches
<1> DEFINE n == NewLaunch
<1>2. n \in Launches /\ agent[n] = "none" /\ \A l \in Launches : l < n => agent[l] # "none"
  BY NewLaunchIsNext DEF Arm
<1>3. /\ agent' = [agent EXCEPT ![n] = "starting"] /\ startPromise' = n /\ session' = 0
      /\ exit' = Running /\ memo' = 0 /\ parkedAtSignOut' = FALSE
  BY DEF Arm
<1> HIDE DEF n
<1>4. agent'[n] = "starting" /\ \A l \in Launches : l # n => agent'[l] = agent[l]
  BY <1>2, <1>3 DEF TypeOK
<1>5. Numbered'
  BY <1>1, <1>2, <1>4 DEF Numbered
<1>6. Launched'
  BY <1>1, <1>2, <1>3, <1>4 DEF Launched
<1>7. ASSUME ~Astray' PROVE InOrder'
  <2>1. InOrder
    BY <1>7 DEF Astray
  <2>2. \A t \in Stops : stops[t].st \notin {"await", "dispose"}
    BY <2>1 DEF InOrder, Ended, StopDue
  <2>3. Ended' /\ OwnStop' /\ Relabelled'
    BY <1>3, <2>2 DEF Ended, OwnStop, Relabelled, terminal
  <2>4. Held'
    BY <1>4, <2>1 DEF InOrder, Held
  <2>5. Woken'
    BY <1>1, <1>2, <1>3, <1>4 DEF Woken, terminal
  <2> QED
    BY <2>3, <2>4, <2>5 DEF InOrder
<1> QED
  BY <1>5, <1>6, <1>7 DEF Lives

(* A launch comes up.                                                      *)
LEMMA LaunchUpStep ==
    ASSUME LivesInv, NEW l \in Launches, LaunchUp(l)
    PROVE  Lives'
<1> USE DEF LivesInv, LifeInv
<1>1. MaxLaunches \in Nat /\ Launches = 1 .. MaxLaunches /\ startPromise \in 0 .. MaxLaunches
  BY LifecycleAssumption DEF Launches, TypeOK
<1>2. /\ agent[l] = "starting" /\ agent'[l] \in {"up", "closing"}
      /\ \A k \in Launches : k # l => agent'[k] = agent[k]
      /\ agent'[l] = "up" => startPromise = l /\ session' = l /\ ~startAbandoned
      /\ (IF startPromise = l THEN session' = l ELSE session' = session)
      /\ UNCHANGED <<exit, memo, startPromise, startAbandoned, parkedAtSignOut, stops, parkedOnce>>
      /\ ~StopDue
  BY DEF LaunchUp, Due, TypeOK
<1>3. waiter'.st = "launch" => waiter' = waiter /\ startPromise # l
  BY IdleIsAWaiter DEF LaunchUp, TypeOK, Waiter
<1>4. Numbered' /\ Launched'
  BY <1>1, <1>2 DEF Numbered, Launched, terminal
<1>5. \A k \in Launches : Settled(k) => Settled(k)'
  BY <1>2 DEF Settled
<1>6. ASSUME ~Astray' PROVE InOrder'
  <2>1. InOrder
    BY <1>2, <1>6 DEF Astray
  <2>2. Woken'
    BY <1>1, <1>2, <1>3, <2>1 DEF InOrder, Woken, terminal
  <2>3. startPromise = l => session = 0 /\ (terminal => startAbandoned)
    BY <1>1, <1>2, <2>1 DEF Launched, InOrder, Ended, Settled
  <2>4. Held'
    BY <1>1, <1>2, <2>1, <2>3 DEF InOrder, Held, terminal
  <2>5. OwnStop'
    BY <1>1, <1>2, <2>1, <2>3 DEF InOrder, OwnStop, terminal
  <2>6. Relabelled'
    BY <1>2, <2>1 DEF InOrder, Relabelled, terminal
  <2>7. Ended'
    <3>1. terminal => \A u \in Stops : stops[u].st \notin {"await", "dispose"}
      BY <1>2, <2>1 DEF InOrder, Ended, StopDue
    <3>2. startPromise \in 0 .. MaxLaunches
      BY DEF TypeOK
    <3> QED
      BY <1>1, <1>2, <1>5, <2>1, <2>3, <3>1, <3>2 DEF InOrder, Ended, terminal
  <2> QED
    BY <2>2, <2>4, <2>5, <2>6, <2>7 DEF InOrder
<1> QED
  BY <1>4, <1>6 DEF Lives

(* A launch fails.                                                         *)
LEMMA LaunchFailsStep ==
    ASSUME LivesInv, NEW l \in Launches, LaunchFails(l)
    PROVE  Lives'
<1> USE DEF LivesInv, LifeInv
<1>1. MaxLaunches \in Nat /\ Launches = 1 .. MaxLaunches /\ startPromise \in 0 .. MaxLaunches
  BY LifecycleAssumption DEF Launches, TypeOK
<1>2. /\ agent[l] = "starting" /\ agent'[l] = "failed"
      /\ \A k \in Launches : k # l => agent'[k] = agent[k]
      /\ UNCHANGED <<memo, startPromise, startAbandoned, session, parkedAtSignOut, stops,
                     parkedOnce>>
      /\ ~StopDue
  BY DEF LaunchFails, Due, TypeOK
<1>3. /\ waiter'.st = "launch" => waiter' = waiter /\ startPromise # l
      /\ exit' # exit => startPromise = l
      /\ exit # Running => exit' # Running
      /\ exit' = exit \/ exit = Running \/ waiter.st = "launch"
  BY IdleIsAWaiter DEF LaunchFails, terminal, Running
<1>4. Numbered'
  BY <1>1, <1>2 DEF Numbered
<1>5. Launched'
  BY <1>1, <1>2, <1>3 DEF Launched, terminal
<1>6. \A k \in Launches : Settled(k) => Settled(k)'
  BY <1>2 DEF Settled
<1>7. ASSUME ~Astray' PROVE InOrder'
  <2>1. InOrder
    BY <1>2, <1>7 DEF Astray
  <2>2. Woken'
    BY <1>1, <1>2, <1>3, <2>1 DEF InOrder, Woken, terminal
  <2>3. startPromise = l => session = 0
    BY <1>1, <1>2 DEF Launched
  <2>4. Held'
    BY <1>1, <1>2, <1>3, <2>1, <2>3 DEF InOrder, Held, terminal
  <2>5. OwnStop'
    BY <1>1, <1>2, <1>3, <2>1 DEF InOrder, OwnStop, terminal
  <2>6. Relabelled'
    BY <1>2, <1>3, <2>1 DEF InOrder, Relabelled, Woken, terminal
  <2>7. Ended'
    <3>1. startPromise \in 0 .. MaxLaunches /\ \A u \in Stops : stops[u].of \in 0 .. MaxLaunches
      BY DEF TypeOK, StopProc
    <3>2. CASE terminal
      BY <1>1, <1>2, <1>6, <2>1, <3>1, <3>2 DEF InOrder, Ended, StopIsDue, terminal
    <3>3. CASE ~terminal /\ terminal'
      <4>1. startPromise = l /\ session = 0 /\ Settled(l)'
        BY <1>2, <1>3, <2>3, <3>3 DEF terminal, Settled
      <4>2. \A u \in Stops : stops[u].st # "dispose"
                              /\ (stops[u].st = "await" => stops[u].of = l)
        BY <2>1, <3>3, <4>1 DEF InOrder, OwnStop
      <4> QED
        BY <1>2, <4>1, <4>2 DEF Ended, StopIsDue
    <3> QED
      BY <3>2, <3>3 DEF Ended
  <2> QED
    BY <2>2, <2>4, <2>5, <2>6, <2>7 DEF InOrder
<1> QED
  BY <1>4, <1>5, <1>7 DEF Lives

(* A launch is given up on: a stop that waits for it goes astray.          *)
LEMMA LaunchTimesOutStep ==
    ASSUME LivesInv, LaunchTimesOut
    PROVE  Lives'
<1> USE DEF LivesInv, LifeInv
<1>1. /\ waiter.st = "launch" /\ waiter'.st = "none" /\ startAbandoned' = TRUE
      /\ agent[startPromise] = "starting" /\ exit' \in {exit, waiter.prev}
      /\ exit # Running => exit' # Running
      /\ UNCHANGED <<memo, startPromise, session, parkedAtSignOut, agent, parkedOnce>>
  BY IdleIsAWaiter DEF LaunchTimesOut, Running
<1>2. \A t \in Stops : /\ stops'[t].st = stops[t].st /\ stops'[t].of = stops[t].of
                       /\ stops'[t].late = (stops[t].late \/ stops[t].st = "await")
  BY DEF LaunchTimesOut, TypeOK, StopProc
<1>3. Numbered'
  BY <1>1, <1>2 DEF Numbered
<1>4. Launched'
  BY <1>1 DEF Launched, terminal
<1>5. ASSUME ~Astray' PROVE InOrder'
  <2>1. InOrder /\ \A t \in Stops : stops[t].st # "await"
    BY <1>2, <1>5 DEF Astray
  <2>2. ~terminal /\ session = 0
    BY <1>1, <2>1 DEF InOrder, Woken, Launched
  <2>3. \A t \in Stops : stops[t].st # "dispose"
    BY <2>1, <2>2 DEF InOrder, OwnStop
  <2>4. \A l \in Launches : agent[l] # "up"
    BY <2>1, <2>2, LifecycleAssumption DEF InOrder, Held, Launches
  <2>5. parkedAtSignOut = FALSE
    BY <2>1, <2>2 DEF InOrder, Relabelled, TypeOK
  <2> QED
    BY <1>1, <1>2, <2>1, <2>2, <2>3, <2>4, <2>5
    DEF InOrder, Woken, Ended, OwnStop, Held, Relabelled
<1> QED
  BY <1>3, <1>4, <1>5 DEF Lives

(* A stop goes on when the launch it waited for has settled.               *)
LEMMA StopTakesStep ==
    ASSUME LivesInv, NEW t \in Stops, StopTakesSession(t)
    PROVE  Lives'
<1> USE DEF LivesInv, LifeInv
<1>1. /\ MaxLaunches \in Nat /\ Launches = 1 .. MaxLaunches
      /\ 0 \notin Stops /\ startPromise \in 0 .. MaxLaunches /\ session \in 0 .. MaxLaunches
  BY LifecycleAssumption DEF Launches, Stops, TypeOK
<1>2. /\ StopIsDue(t) /\ stops[t].st = "await"
      /\ UNCHANGED <<memo, startPromise, startAbandoned, session, parkedAtSignOut, waiter,
                     parkedOnce>>
  BY DEF StopTakesSession, StopIsDue
<1>3. \A u \in Stops : u # t => stops'[u] = stops[u]
  BY DEF StopTakesSession, TypeOK
<1>4. /\ stops'[t].late = stops[t].late
      /\ session = 0 => stops'[t].st = "done"
      /\ session # 0 => stops'[t].st = "dispose" /\ stops'[t].of = session
  BY DEF StopTakesSession, TypeOK, StopProc
<1>5. /\ \A l \in Launches : agent'[l] = agent[l]
                              \/ (agent[l] = "up" /\ agent'[l] = "closing")
      /\ session = 0 => agent' = agent
      /\ session # 0 => exit' = exit
      /\ exit # Running => exit' = exit
  BY DEF StopTakesSession, RecordExit, terminal, TypeOK
<1>6. Numbered'
  BY <1>1, <1>2, <1>3, <1>4, <1>5 DEF Numbered
<1>7. Launched'
  BY <1>1, <1>2, <1>5 DEF Launched, terminal
<1>8. \A l \in Launches : Settled(l) => Settled(l)'
  BY <1>5 DEF Settled
<1>9. ASSUME ~Astray' PROVE InOrder'
  <2>1. InOrder
    BY <1>3, <1>4, <1>9 DEF Astray
  <2>2. \A u \in Stops : stops[u].of \in 0 .. MaxLaunches
    BY DEF TypeOK, StopProc
  <2>3. CASE terminal
    <3>1. session = 0
      BY <1>2, <2>1, <2>3 DEF InOrder, Ended
    <3>2. exit' = exit /\ agent' = agent /\ stops'[t].st = "done"
      BY <1>4, <1>5, <2>3, <3>1 DEF terminal
    <3>3. Ended'
      BY <1>2, <1>3, <2>1, <2>3, <3>2 DEF InOrder, Ended, StopIsDue, Settled, terminal
    <3> QED
      BY <1>2, <2>1, <2>3, <3>2, <3>3
      DEF InOrder, Woken, OwnStop, Held, Relabelled, terminal
  <2>4. CASE ~terminal
    <3>1. memo = t /\ stops[t].of = startPromise /\ startPromise # 0 /\ Settled(startPromise)
      BY <1>2, <2>1, <2>4 DEF InOrder, OwnStop, Launched, StopIsDue
    <3>2. \A u \in Stops : u # t => stops[u].st \notin {"await", "dispose"}
      BY <2>1, <2>4, <3>1 DEF InOrder, OwnStop
    <3>3. waiter.st # "launch"
      BY <2>1, <3>1 DEF InOrder, Woken, Settled
    <3>4. ~parkedAtSignOut
      BY <2>1, <2>4 DEF InOrder, Relabelled
    <3>5. OwnStop'
      BY <1>2, <1>3, <1>4, <3>1, <3>2 DEF OwnStop
    <3>6. Held'
      <4>1. CASE session = 0
        BY <1>1, <1>5, <2>1, <4>1 DEF InOrder, Held
      <4>2. CASE session # 0
        BY <1>2, <1>5, <2>1, <4>2 DEF InOrder, Held, terminal
      <4> QED
        BY <4>1, <4>2
    <3>7. Ended'
      <4>1. CASE session = 0
        BY <1>1, <1>2, <1>3, <1>4, <1>8, <3>1, <3>2, <4>1 DEF Ended
      <4>2. CASE session # 0
        BY <1>5, <2>4, <4>2 DEF Ended, terminal
      <4> QED
        BY <4>1, <4>2
    <3> QED
      BY <1>2, <3>3, <3>4, <3>5, <3>6, <3>7 DEF InOrder, Woken, Relabelled
  <2> QED
    BY <2>3, <2>4
<1> QED
  BY <1>6, <1>7, <1>9 DEF Lives

(* A stop is over.                                                         *)
LEMMA StopEndsStep ==
    ASSUME LivesInv, NEW t \in Stops, StopEnds(t)
    PROVE  Lives'
<1> USE DEF LivesInv, LifeInv
<1>1. /\ MaxLaunches \in Nat /\ Launches = 1 .. MaxLaunches
      /\ 0 \notin Stops /\ startPromise \in 0 .. MaxLaunches /\ session \in 0 .. MaxLaunches
  BY LifecycleAssumption DEF Launches, Stops, TypeOK
<1>2. /\ stops[t].st = "dispose" /\ agent[stops[t].of] = "dead"
      /\ UNCHANGED <<memo, startPromise, startAbandoned, session, parkedAtSignOut, waiter,
                     agent, parkedOnce>>
      /\ exit # Running => exit' = exit
  BY DEF StopEnds, RecordExit, terminal
<1>3. /\ \A u \in Stops : u # t => stops'[u] = stops[u]
      /\ stops'[t].st = "done" /\ stops'[t].late = stops[t].late
  BY DEF StopEnds, TypeOK, StopProc
<1>4. Numbered'
  BY <1>1, <1>2, <1>3 DEF Numbered
<1>5. Launched'
  BY <1>1, <1>2 DEF Launched, terminal
<1>6. ASSUME ~Astray' PROVE InOrder'
  <2>1. InOrder
    BY <1>3, <1>6 DEF Astray
  <2>2. ~terminal
    BY <1>2, <2>1 DEF InOrder, Ended
  <2>3. memo = t /\ stops[t].of = session /\ session # 0
    BY <1>2, <2>1, <2>2 DEF InOrder, OwnStop
  <2>4. \A u \in Stops : stops'[u].st \notin {"await", "dispose"}
    BY <1>3, <2>1, <2>2, <2>3 DEF InOrder, OwnStop
  <2>5. startPromise # 0 /\ agent[startPromise] \notin {"none", "starting"}
    BY <2>2, <2>3 DEF Launched
  <2>6. Settled(startPromise)
    BY <1>1, <2>5 DEF Settled, TypeOK, AgentState
  <2>7. \A l \in Launches : agent[l] # "up"
    BY <1>2, <2>1, <2>3 DEF InOrder, Held
  <2>8. waiter.st # "launch" /\ ~parkedAtSignOut
    BY <2>1, <2>2, <2>5 DEF InOrder, Woken, Relabelled
  <2> QED
    BY <1>1, <1>2, <2>3, <2>4, <2>6, <2>7, <2>8
    DEF InOrder, Woken, Ended, OwnStop, Held, Relabelled, Settled
<1> QED
  BY <1>4, <1>5, <1>6 DEF Lives

(* Every step.                                                             *)
LEMMA LivesStep == LivesInv /\ [Next]_vars => LivesInv'
<1> SUFFICES ASSUME LivesInv, [Next]_vars PROVE Lives'
  BY StepInv DEF LivesInv, Lives
<1> DEFINE Untouched == UNCHANGED <<exit, memo, startPromise, startAbandoned, session,
                                    parkedAtSignOut, stops, parkedOnce>>
<1>1. agent' = agent => OnlyDies
  BY DEF OnlyDies
<1>2. CASE Delete \/ Park \/ SignOut
  <2>1. /\ ~StopDue /\ agent' = agent /\ UNCHANGED <<startPromise, startAbandoned, session>>
        /\ \E reason \in {"stopped", "parked", "agent_signed_out"} : StopCall(reason)
    BY <1>2 DEF Delete, Park, SignOut, Due, StopKeeps
  <2> QED
    BY <1>1, <2>1, StopStep DEF Reasons
<1>3. CASE Shutdown
  <2>1. /\ ~StopDue /\ agent' = agent /\ UNCHANGED <<startPromise, startAbandoned, session>>
        /\ StopCall("daemon_shutdown") \/ (Untouched /\ waiter' = waiter)
    BY <1>3 DEF Shutdown, Due, StopKeeps
  <2> HIDE DEF Untouched
  <2>2. CASE StopCall("daemon_shutdown")
    BY <1>1, <2>1, <2>2, StopStep DEF Reasons
  <2>3. CASE Untouched /\ waiter' = waiter
    BY <1>1, <2>1, <2>3, QuietStep DEF Untouched
  <2> QED
    BY <2>1, <2>2, <2>3
<1>4. ASSUME NEW l \in Launches, AgentExits(l) PROVE Lives'
  <2>1. OnlyDies
    BY <1>4 DEF AgentExits, OnlyDies, LivesInv, LifeInv, TypeOK
  <2>2. /\ ~StopDue /\ UNCHANGED <<startPromise, startAbandoned, session>>
        /\ StopCall("agent_exited") \/ (Untouched /\ waiter' = waiter)
    BY <1>4 DEF AgentExits, Due
  <2> HIDE DEF Untouched
  <2>3. CASE StopCall("agent_exited")
    BY <2>1, <2>2, <2>3, StopStep DEF Reasons
  <2>4. CASE Untouched /\ waiter' = waiter
    BY <2>1, <2>2, <2>4, QuietStep DEF Untouched
  <2> QED
    BY <2>2, <2>3, <2>4
<1>5. CASE RestartBegins
  <2>1. /\ ~StopDue /\ agent' = agent /\ UNCHANGED <<startPromise, startAbandoned, session>>
        /\ StopCall("config_changed")
    BY <1>5 DEF RestartBegins, Due
  <2> QED
    BY <1>1, <2>1, StopStep DEF Reasons
<1>6. CASE RoomMade
  <2>1. /\ waiter.st = "room" /\ Arm(waiter.by) /\ ~StopDue
        /\ UNCHANGED <<stops, parkedOnce>>
    BY <1>6 DEF RoomMade, Due
  <2>2. terminal
    BY <2>1 DEF LivesInv, LifeInv, WakeIsWanted, terminal
  <2> QED
    BY <2>1, <2>2, ArmStep
<1>7. CASE BootAttempt
  <2>1. /\ ~StopDue /\ UNCHANGED <<stops, parkedOnce>>
        /\ \/ UNCHANGED <<fields, agent, waiter>>
           \/ terminal /\ Arm("daemon")
           \/ UNCHANGED <<exit, stopRequested, memo, startPromise, startAbandoned,
                          session, parkedAtSignOut, agent, waiter>>
    BY <1>7 DEF BootAttempt, Due
  <2>2. CASE terminal /\ Arm("daemon")
    BY <2>1, <2>2, ArmStep
  <2>3. CASE Untouched /\ agent' = agent /\ waiter' = waiter
    BY <1>1, <2>3, QuietStep
  <2> QED
    BY <2>1, <2>2, <2>3 DEF fields
<1>8. CASE SignInReturns
  <2>1. /\ ~StopDue /\ UNCHANGED <<stops, parkedOnce>>
        /\ \/ UNCHANGED <<fields, agent, waiter>>
           \/ terminal /\ Arm("daemon")
           \/ /\ exit = "agent_signed_out" /\ exit' = "parked"
              /\ parkedAtSignOut' = FALSE /\ waiter' = NoticedBy(waiter)
              /\ UNCHANGED <<memo, startPromise, startAbandoned, session, agent>>
    BY <1>8 DEF SignInReturns, Due, terminal, Running
  <2>2. CASE terminal /\ Arm("daemon")
    BY <2>1, <2>2, ArmStep
  <2>3. CASE UNCHANGED <<fields, agent, waiter>>
    BY <1>1, <2>1, <2>3, QuietStep DEF fields
  <2>4. CASE /\ exit = "agent_signed_out" /\ exit' = "parked"
             /\ parkedAtSignOut' = FALSE /\ waiter' = NoticedBy(waiter)
             /\ UNCHANGED <<memo, startPromise, startAbandoned, session, agent>>
    <3>1. terminal /\ terminal'
      BY <2>4 DEF terminal, Running
    <3>2. Numbered' /\ Launched'
      BY <2>1, <2>4, <3>1 DEF LivesInv, Numbered, Launched
    <3>3. ASSUME ~Astray' PROVE InOrder'
      <4>1. InOrder
        BY <2>1, <3>3 DEF LivesInv, Astray
      <4>2. waiter'.st # "launch"
        BY <2>4, <3>1, <4>1 DEF InOrder, Woken, NoticedBy, LivesInv, LifeInv, TypeOK, Waiter
      <4> QED
        BY <2>1, <2>4, <3>1, <4>1, <4>2
        DEF InOrder, Woken, Ended, OwnStop, Held, Relabelled, StopIsDue, Settled
    <3> QED
      BY <3>2, <3>3 DEF Lives
  <2> QED
    BY <2>1, <2>2, <2>3, <2>4
<1>9. CASE RoomMoved \/ ResumeEnds \/ PersonResumes \/ SignIn \/ RestartResumes \/ RestartEnds
  <2>1. Untouched /\ agent' = agent
    BY <1>9 DEF RoomMoved, ResumeEnds, PersonResumes, SignIn, RestartResumes, RestartEnds,
       fields
  <2>2. waiter' = waiter \/ waiter'.st # "launch"
    BY <1>9, IdleIsAWaiter DEF RoomMoved, ResumeEnds, PersonResumes, SignIn, RestartResumes,
       RestartEnds
  <2> QED
    BY <1>1, <2>1, <2>2, QuietStep
<1>10. CASE UNCHANGED vars
  BY <1>1, <1>10, QuietStep DEF vars, fields, procs
<1> QED
  BY <1>2, <1>3, <1>4, <1>5, <1>6, <1>7, <1>8, <1>9, <1>10, LaunchUpStep, LaunchFailsStep,
     LaunchTimesOutStep, StopTakesStep, StopEndsStep DEF Next

-----------------------------------------------------------------------------
(* The invariant holds in every reachable state.                           *)
LEMMA Invariance == Spec => []LifeInv
<1>1. LifeInv /\ [Next]_vars => LifeInv'
  BY StepInv
<1> QED
  BY InitInv, <1>1, PTL DEF Spec

(* The variables keep to their types, and the boot pass to its attempts.   *)
THEOREM TypeCorrect == Spec => []TypeOK
<1>1. LifeInv => TypeOK
  BY DEF LifeInv
<1> QED
  BY Invariance, <1>1, PTL

(* A wake that waits for room launches nothing that a person has stopped   *)
(* since (registry.ts:4095-4125, 5106-5119).                               *)
THEOREM WakesHeedStops == Spec => WakeHeedsStop
<1>1. ASSUME LifeInv, [Next]_vars
      PROVE  [Launching /\ waiter'.by = "person" => person # "stopped"]_vars
  <2> SUFFICES ASSUME Next, Launching, waiter'.by = "person"
               PROVE  person # "stopped"
    BY <1>1
  <2>1. RoomMade \/ BootAttempt \/ SignInReturns
    BY DEF Next, Launching, Delete, Park, SignOut, Shutdown, StopKeeps, AgentExits, LaunchUp,
       LaunchFails, StopTakesSession, StopEnds, LaunchTimesOut, RoomMoved, ResumeEnds,
       PersonResumes, SignIn, RestartBegins, RestartResumes, RestartEnds, fields
  <2>2. RoomMade
    BY <1>1, <2>1, ArmFields DEF BootAttempt, SignInReturns, Launching, fields, LifeInv
  <2>3. waiter.st = "room" /\ Arm(waiter.by)
    BY <2>2 DEF RoomMade
  <2>4. waiter.by = "person"
    BY <1>1, <2>3 DEF Arm
  <2> QED
    BY <1>1, <2>3, <2>4 DEF LifeInv, WakeIsWanted
<1> QED
  BY Invariance, <1>1, PTL DEF Spec, WakeHeedsStop

-----------------------------------------------------------------------------
(* The first life: a session being created, or one restored at boot.       *)
LEMMA LivesInit == Init => LivesInv
<1> SUFFICES ASSUME Init PROVE Numbered /\ Launched /\ InOrder
  BY InitInv DEF LivesInv
<1>1. /\ MaxLaunches \in Nat \ {0} /\ Launches = 1 .. MaxLaunches
      /\ 0 \notin Stops
  BY LifecycleAssumption DEF Launches, Stops
<1>2. /\ \A t \in Stops : stops[t].st = "none" /\ ~stops[t].late
      /\ session = 0 /\ memo = 0 /\ parkedAtSignOut = FALSE
  BY DEF Init, NoStop
<1>3. \/ ~terminal /\ startPromise = 1 /\ agent = [l \in Launches |-> IF l = 1 THEN "starting" ELSE "none"]
      \/ terminal /\ startPromise = 0 /\ agent = [l \in Launches |-> "none"] /\ waiter = Idle
  BY DEF Init, terminal, Running
<1>4. Numbered
  BY <1>1, <1>2, <1>3 DEF Numbered
<1>5. Launched
  BY <1>1, <1>2, <1>3 DEF Launched
<1>6. InOrder
  BY <1>1, <1>2, <1>3 DEF InOrder, Woken, Ended, OwnStop, Held, Relabelled, Idle
<1> QED
  BY <1>4, <1>5, <1>6

LEMMA LivesInvariance == Spec => []LivesInv
  BY LivesInit, LivesStep, PTL DEF Spec

(* An agent that is up is the one of a session that does not read as       *)
(* ended, so that somebody disposes of it (registry.ts:3846-3861), unless  *)
(* a stop outlived the launch it waited for.                               *)
THEOREM LiveAgentsAreHeld == Spec => []LiveAgentIsHeld
<1>1. LivesInv => LiveAgentIsHeld
  BY DEF LivesInv, InOrder, Held, LiveAgentIsHeld
<1> QED
  BY LivesInvariance, <1>1, PTL

(* The doStop that waits for an agent, or disposes of one, while the       *)
(* session runs is the one the session calls its stopping: a start that    *)
(* forgot it, or a second stop, would leave two (registry.ts:5410-5426).   *)
THEOREM StopsEndTheirOwnLife == Spec => []StopsItsOwnLife
<1>1. LivesInv => StopsItsOwnLife
  BY DEF LivesInv, InOrder, OwnStop, StopsItsOwnLife
<1> QED
  BY LivesInvariance, <1>1, PTL

(* Neither a failed wake, nor a late stop, nor a second one rewrites why a *)
(* session ended: only a parked one is relabelled, and what a sign-in puts *)
(* back to parked was parked (registry.ts:5421, 5170-5177).                *)
THEOREM ReasonsStand == Spec => ReasonStands
<1> DEFINE Kept == \/ exit' = Running
                   \/ exit = "parked" /\ exit' \in {"stopped", "agent_signed_out"}
                   \/ exit = "agent_signed_out" /\ exit' = "parked" /\ parkedOnce
<1>1. ASSUME LivesInv, [Next]_vars
      PROVE  [terminal /\ exit' # exit /\ ~Astray => Kept]_vars
  <2> SUFFICES ASSUME Next, terminal, exit' # exit, ~Astray
               PROVE  Kept
    BY <1>1
  <2>1. LifeInv /\ InOrder
    BY <1>1 DEF LivesInv
  <2>2. ASSUME NEW reason \in Reasons, StopCall(reason) PROVE Kept
    BY <2>2 DEF StopCall, Relabels, Relabel, BeginStop
  <2>3. CASE Delete \/ Park \/ SignOut \/ Shutdown \/ RestartBegins
    <3>1. \E reason \in Reasons : StopCall(reason)
      BY <2>3 DEF Delete, Park, SignOut, Shutdown, RestartBegins, Reasons
    <3> QED
      BY <2>2, <3>1
  <2>4. ASSUME NEW l \in Launches, AgentExits(l) \/ LaunchUp(l) \/ LaunchFails(l)
        PROVE  Kept
    <3>1. waiter.st # "launch"
      BY <2>1 DEF InOrder, Woken
    <3>2. AgentExits(l)
      BY <2>4, <3>1 DEF LaunchUp, LaunchFails
    <3>3. \E reason \in Reasons : StopCall(reason)
      BY <3>2 DEF AgentExits, Reasons
    <3> QED
      BY <2>2, <3>3
  <2>5. ASSUME NEW t \in Stops PROVE ~StopTakesSession(t) /\ ~StopEnds(t)
    BY DEF StopTakesSession, StopEnds, RecordExit
  <2>6. CASE LaunchTimesOut
    BY <2>1, <2>6 DEF LaunchTimesOut, InOrder, Woken
  <2>7. CASE RoomMade \/ BootAttempt
    BY <2>7 DEF RoomMade, BootAttempt, Arm, fields
  <2>8. CASE SignInReturns
    BY <2>1, <2>8 DEF SignInReturns, Arm, fields, InOrder, Relabelled
  <2>9. CASE RoomMoved \/ ResumeEnds \/ PersonResumes \/ SignIn \/ RestartResumes \/ RestartEnds
    BY <2>9 DEF RoomMoved, ResumeEnds, PersonResumes, SignIn, RestartResumes, RestartEnds,
       fields
  <2> QED
    BY <2>3, <2>4, <2>5, <2>6, <2>7, <2>8, <2>9 DEF Next
<1> QED
  BY LivesInvariance, <1>1, PTL DEF Spec, ReasonStands
=============================================================================
