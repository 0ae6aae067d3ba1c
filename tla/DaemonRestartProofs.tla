------------------------- MODULE DaemonRestartProofs -------------------------
(***************************************************************************)
(* The theorems of DaemonRestart.  What a later daemon may rely on is in   *)
(* RestartInv: what the row, the log and the processes say of each other   *)
(* while a daemon runs (Kept), and between two of them.                    *)
(***************************************************************************)
EXTENDS MCDaemonRestart, TLAPS

(* The parts of a ManagedSession that depend on each other.                *)
Coherent ==
    /\ s.launch # 0 => s.waiter # "none"
    /\ s.waiter # "none" => s.exit = Running /\ s.session = 0
    /\ s.stopping # "none" => s.exit = Running
    /\ Spawning => Unused # {}
    /\ ~up => ~stale

(* A row that is written agrees with the session, except for an agent that *)
(* came up while its session was being stopped.                            *)
Kept ==
    up /\ ~owed /\ ~stale =>
        /\ row.exit = s.exit
        /\ row.handle = AgentHandle \/ s.session \in unknown

(* Where the living agents are.                                            *)
Held ==
    /\ \A l \in Launches : Living(l) /\ l = s.session => s.exit = Running
    /\ OrphansAreReaped
    /\ ~up /\ ~old =>
           \A l \in Launches :
               Living(l) => l \in unknown \/ (row.exit = Running /\ row.handle = l)

(* What the log says.                                                      *)
Told ==
    /\ LogTellsTheEnd
    /\ up /\ ~torn /\ s.waiter = "daemon" /\ s.stopping = "none" => said = s.prev
    /\ ~up /\ ~torn => row.exit = Running \/ said = row.exit

(* Where a stop is written down.                                           *)
Answered ==
    /\ up /\ answered => s.exit = "stopped"
    /\ answered /\ ~stale => row.exit = "stopped"

RestartInv == TypeOK /\ Coherent /\ Kept /\ Held /\ Told /\ Answered

-----------------------------------------------------------------------------
(* The operators the actions are built from.                               *)

(* A verdict or a count of the boot pass changes nothing else of a session. *)
LEMMA SettledFields ==
    ASSUME NEW f \in Fields, NEW how
    PROVE  /\ Settled(f, how) \in Fields
           /\ Settled(f, how).exit = f.exit /\ Settled(f, how).stopping = f.stopping
           /\ Settled(f, how).session = f.session /\ Settled(f, how).handle = f.handle
           /\ Settled(f, how).waiter = f.waiter /\ Settled(f, how).prev = f.prev
           /\ Settled(f, how).launch = f.launch
<1>0. MaxAttempts \in Nat \ {0} /\ f.attempts \in 0 .. MaxAttempts
  BY RestartAssumption DEF Fields
<1>1. CASE how = "forgotten"
  BY <1>1 DEF Settled, Fields
<1>2. CASE how = "deferred"
  BY <1>2 DEF Settled
<1>3. CASE how \notin {"forgotten", "refused", "deferred"} /\ f.attempts + 1 >= MaxAttempts
  <2>1. MaxAttempts \in 0 .. MaxAttempts
    BY <1>0
  <2>2. (IF f.gaveUp = "none" THEN "spent" ELSE f.gaveUp) \in {"none", "forgotten", "spent"}
    BY DEF Fields
  <2> QED
    BY <1>3, <2>1, <2>2 DEF Settled, Fields
<1>4. CASE how \notin {"forgotten", "refused", "deferred"} /\ ~(f.attempts + 1 >= MaxAttempts)
  <2>1. f.attempts + 1 \in 0 .. MaxAttempts
    BY <1>0, <1>4
  <2> QED
    BY <1>4, <2>1 DEF Settled, Fields
<1>5. CASE how = "refused"
  <2>1. (IF f.gaveUp = "none" THEN "spent" ELSE f.gaveUp) \in {"none", "forgotten", "spent"}
    BY DEF Fields
  <2> QED
    BY <1>5, <2>1 DEF Settled, Fields
<1> QED
  BY <1>1, <1>2, <1>3, <1>4, <1>5

(* armForStart: the session runs, has no agent, and somebody waits for one. *)
LEMMA ArmedFields ==
    ASSUME s \in Fields, NEW by \in {"create", "person", "daemon"}
    PROVE  /\ Armed(by) \in Fields
           /\ Armed(by).exit = Running /\ Armed(by).stopping = "none"
           /\ Armed(by).session = 0 /\ Armed(by).handle = s.handle
           /\ Armed(by).waiter = by /\ Armed(by).prev = s.exit
           /\ Armed(by).launch = s.launch
<1>1. 0 \in 0 .. MaxLaunches /\ Running \in Exits
  BY RestartAssumption DEF Exits
<1> QED
  BY <1>1 DEF Armed, Fields

(* The start of a stop changes its reason and nothing else.                *)
LEMMA BeginStopFields ==
    ASSUME s \in Fields, NEW reason \in Reasons, BeginStop(reason)
    PROVE  /\ s' \in Fields /\ owed' = TRUE
           /\ s'.stopping = reason /\ s'.exit = s.exit /\ s'.session = s.session
           /\ s'.handle = s.handle /\ s'.waiter = s.waiter /\ s'.prev = s.prev
           /\ s'.launch = s.launch
  BY DEF BeginStop, Fields

(* A signal makes no process, and none that was not launched.              *)
LEMMA KillSpares ==
    ASSUME TypeOK, NEW h
    PROVE  /\ Kill(h) \in [Launches -> AgentState]
           /\ \A l \in Launches : Kill(h)[l] \in {"starting", "up"} => Living(l) /\ l # h
           /\ \A l \in Launches : Kill(h)[l] = "none" <=> agent[l] = "none"
  BY DEF Kill, Signal, TypeOK, AgentState, Living

(* A spawn takes a launch that was not used.                               *)
LEMMA NewLaunchIsUnused ==
    ASSUME Unused # {}
    PROVE  NewLaunch \in Launches /\ agent[NewLaunch] = "none"
  BY DEF NewLaunch, Unused

(* What is left of a session whose launch has failed.                      *)
LEMMA LaunchFailsFields ==
    ASSUME TypeOK, NEW how \in Failures, LaunchFails(how)
    PROVE  /\ s'.exit = IF s.waiter = "create" THEN "start_failed" ELSE s.prev
           /\ s'.stopping = "none" /\ s'.waiter = "none" /\ s'.launch = 0
           /\ s'.session = s.session /\ s'.handle = s.handle
<1> DEFINE exit == IF s.waiter = "create" THEN "start_failed" ELSE s.prev
           f    == [s EXCEPT !.exit = exit, !.launch = 0, !.waiter = "none",
                             !.prev = Running, !.stopping = "none"]
<1>1. s \in Fields /\ exit \in Exits /\ Running \in Exits /\ 0 \in 0 .. MaxLaunches
  BY RestartAssumption DEF TypeOK, Fields, Exits, Reasons
<1>2. f \in Fields
  BY <1>1 DEF Fields
<1>3. /\ f.exit = exit /\ f.stopping = "none" /\ f.waiter = "none" /\ f.launch = 0
      /\ f.session = s.session /\ f.handle = s.handle
  BY <1>1 DEF Fields
<1>4. s' = IF pass = "trying" THEN Settled(f, how) ELSE f
  BY DEF LaunchFails
<1> HIDE DEF f
<1> QED
  BY <1>2, <1>3, <1>4, SettledFields

(* The boot pass leaves a session alone, or starts it, or counts a failure. *)
LEMMA BootAttemptFields ==
    ASSUME TypeOK, BootAttempt
    PROVE  \/ UNCHANGED <<s, owed, answered>>
           \/ /\ s' = Armed("daemon") /\ owed' = TRUE /\ answered' = FALSE
              /\ s.waiter = "none" /\ s.exit # Running /\ Unused # {}
           \/ /\ owed' = TRUE /\ answered' = answered
              /\ s'.exit = s.exit /\ s'.stopping = s.stopping /\ s'.session = s.session
              /\ s'.handle = s.handle /\ s'.waiter = s.waiter /\ s'.prev = s.prev
              /\ s'.launch = s.launch
  BY SettledFields DEF BootAttempt, TypeOK

-----------------------------------------------------------------------------
(* The invariant holds of a session that is being created.                 *)
LEMMA InitInv == Init => RestartInv
<1> SUFFICES ASSUME Init PROVE RestartInv
  OBVIOUS
<1>0. 0 \in 0 .. MaxLaunches /\ 0 \in 0 .. MaxAttempts /\ 0 \in 0 .. MaxRefused
      /\ 1 \in 1 .. MaxLives /\ 1 \in Launches /\ Running \in Exits
  BY RestartAssumption DEF Launches, Exits
<1>1. s \in Fields
  BY <1>0 DEF Init, Blank, Fields
<1>2. row \in Row
  BY <1>0 DEF Init, Row
<1>3. TypeOK
  BY <1>0, <1>1, <1>2 DEF Init, TypeOK, AgentState
<1>4. Coherent
  BY <1>0 DEF Init, Coherent, Blank, Unused, Spawning, Running
<1>5. Kept /\ Told /\ Answered
  BY DEF Init, Kept, Told, Answered, LogTellsTheEnd, Blank, AgentHandle, Running
<1>6. Held
  BY DEF Init, Held, OrphansAreReaped, Living
<1> QED
  BY <1>3, <1>4, <1>5, <1>6 DEF RestartInv

(* The types, step by step.                                                *)
LEMMA TypeStep == TypeOK /\ Coherent /\ [Next]_vars => TypeOK'
<1> SUFFICES ASSUME TypeOK, Coherent, [Next]_vars PROVE TypeOK'
  OBVIOUS
<1> USE DEF world, rest, past
<1>0. 0 \in 0 .. MaxLaunches /\ s \in Fields /\ Running \in Exits
  BY RestartAssumption DEF TypeOK, Exits
<1>1. CASE Touch
  <2>1. Persisted \in Row
    BY <1>0 DEF Persisted, Row, Fields, AgentHandle
  <2>2. refused' \in 0 .. MaxRefused
    BY <1>1, RestartAssumption DEF Touch, TypeOK
  <2>3. row' \in Row /\ stale' \in BOOLEAN
    BY <1>1, <2>1 DEF Touch, TypeOK
  <2>4. answered' \in BOOLEAN
    BY <1>1 DEF Touch
  <2> QED
    BY <1>1, <2>2, <2>3, <2>4 DEF Touch, TypeOK
<1>2. CASE Delete
  <2>1. s' \in Fields /\ owed' \in BOOLEAN /\ said' \in Exits /\ torn' \in BOOLEAN
    <3>1. CASE BeginStop("stopped") /\ UNCHANGED <<said, torn>>
      BY <1>0, <3>1, BeginStopFields DEF Reasons, TypeOK
    <3>2. CASE s' = [s EXCEPT !.exit = "stopped"] /\ said' = "stopped" /\ torn' = FALSE
               /\ owed' = TRUE
      BY <1>0, <3>2 DEF Fields, Exits, Reasons
    <3> QED
      BY <1>2, <3>1, <3>2 DEF Delete
  <2> QED
    BY <1>2, <2>1 DEF Delete, TypeOK
<1>3. CASE Park
  <2>1. s' \in Fields /\ owed' \in BOOLEAN
    BY <1>0, <1>3, BeginStopFields DEF Park, Reasons
  <2> QED
    BY <1>3, <2>1 DEF Park, TypeOK
<1>4. CASE StopEnds
  <2>1. s' \in Fields /\ said' \in Exits
    BY <1>4 DEF StopEnds, TypeOK, Fields, Exits, Running
  <2>2. agent' \in [Launches -> AgentState]
    BY <1>4 DEF StopEnds, TypeOK, AgentState
  <2> QED
    BY <1>4, <2>1, <2>2 DEF StopEnds, TypeOK
<1>5. CASE \E l \in Launches : AgentDies(l)
  <2>1. PICK l \in Launches : AgentDies(l)
    BY <1>5
  <2>2. s' \in Fields /\ owed' \in BOOLEAN
    BY <1>0, <2>1, BeginStopFields DEF AgentDies, Reasons, TypeOK
  <2>3. agent' \in [Launches -> AgentState]
    BY <2>1 DEF AgentDies, TypeOK, AgentState
  <2> QED
    BY <2>1, <2>2, <2>3 DEF AgentDies, TypeOK
<1>6. CASE PersonResumes
  BY <1>6, ArmedFields DEF PersonResumes, TypeOK, Exits
<1>7. CASE Spawn
  BY <1>7, NewLaunchIsUnused DEF Spawn, Coherent, TypeOK, Fields, Launches, AgentState
<1>8. CASE LaunchUp
  <2>1. s' \in Fields
    <3>1. 0 \in 0 .. MaxAttempts
      BY RestartAssumption
    <3> QED
      BY <1>0, <1>8, <3>1 DEF LaunchUp, Fields
  <2>2. unknown' \subseteq 0 .. MaxLaunches /\ owed' \in BOOLEAN
    BY <1>8 DEF LaunchUp, TypeOK, Fields
  <2>3. agent' \in [Launches -> AgentState] /\ said' \in Exits
    BY <1>8 DEF LaunchUp, TypeOK, AgentState, Exits
  <2> QED
    BY <1>8, <2>1, <2>2, <2>3 DEF LaunchUp, TypeOK
<1>9. CASE \E how \in Failures : LaunchFails(how)
  <2>1. PICK how \in Failures : LaunchFails(how)
    BY <1>9
  <2> DEFINE exit == IF s.waiter = "create" THEN "start_failed" ELSE s.prev
             f    == [s EXCEPT !.exit = exit, !.launch = 0, !.waiter = "none",
                               !.prev = Running, !.stopping = "none"]
  <2>2. exit \in Exits
    BY <1>0 DEF Fields, Exits, Reasons
  <2>21. f \in Fields
    BY <1>0, <2>2 DEF Fields
  <2> HIDE DEF f
  <2>3. s' \in Fields
    BY <2>1, <2>21, SettledFields DEF LaunchFails, f
  <2>4. agent' \in [Launches -> AgentState] /\ said' \in Exits /\ torn' \in BOOLEAN
    BY <2>1, <2>2 DEF LaunchFails, TypeOK, AgentState, Exits, Reasons
  <2>5. pass' \in {"off", "queued", "trying", "backoff", "deferred"}
    BY <2>1 DEF LaunchFails, TypeOK, PassAfter
  <2> QED
    BY <2>1, <2>3, <2>4, <2>5 DEF LaunchFails, TypeOK
<1>10. CASE BootAttempt
  <2>1. s' \in Fields
    BY <1>10, ArmedFields, SettledFields DEF BootAttempt, TypeOK
  <2>2. pass' \in {"off", "queued", "trying", "backoff", "deferred"}
    BY <1>10 DEF BootAttempt, PassAfter
  <2> QED
    BY <1>10, <2>1, <2>2 DEF BootAttempt, TypeOK
<1>11. CASE NextPass
  BY <1>11 DEF NextPass, TypeOK
<1>12. ASSUME Ends, agent' \in [Launches -> AgentState] PROVE TypeOK'
  <2>1. s' \in Fields
    BY <1>12, RestartAssumption DEF Ends, Blank, Fields, Exits, Reasons, Running
  <2>2. unknown' \subseteq 0 .. MaxLaunches
    BY <1>12 DEF Ends, TypeOK, Fields
  <2>3. torn' \in BOOLEAN /\ answered' \in BOOLEAN /\ life' \in 1 .. MaxLives
    BY <1>12, RestartAssumption DEF Ends, TypeOK, Unsaved
  <2>4. UNCHANGED <<row, said, old, refused>> /\ up' = FALSE /\ pass' = "off"
        /\ shutting' = FALSE /\ doomed' = 0 /\ owed' = FALSE /\ stale' = FALSE
    BY <1>12 DEF Ends
  <2> QED
    BY <1>0, <1>12, <2>1, <2>2, <2>3, <2>4 DEF TypeOK
<1>13. CASE Crash
  BY <1>12, <1>13 DEF Crash, TypeOK
<1>14. CASE Shutdown
  <2>1. s' \in Fields /\ owed' \in BOOLEAN
    BY <1>0, <1>14, BeginStopFields DEF Shutdown, Reasons, TypeOK
  <2>2. doomed' \in 0 .. MaxLaunches
    BY <1>0, <1>14 DEF Shutdown, AgentHandle, Fields
  <2> QED
    BY <1>14, <2>1, <2>2 DEF Shutdown, TypeOK
<1>15. CASE Exit
  BY <1>12, <1>15, KillSpares DEF Exit
<1>16. CASE Reboot
  BY <1>16 DEF Reboot, TypeOK, AgentState
<1>17. CASE Boot
  <2>1. agent' \in [Launches -> AgentState]
    BY <1>17, KillSpares DEF Boot, TypeOK
  <2> DEFINE exit == IF Interrupted THEN "daemon_restarted" ELSE row.exit
             gaveUp == IF row.forgotten THEN "forgotten" ELSE "none"
  <2>3. exit \in Exits /\ gaveUp \in {"none", "forgotten", "spent"}
    BY DEF TypeOK, Row, Exits, Reasons
  <2>4. 0 \in 0 .. MaxAttempts /\ row.handle \in 0 .. MaxLaunches /\ row.convo \in BOOLEAN
    BY RestartAssumption DEF TypeOK, Row
  <2>5. s' = [Blank EXCEPT !.exit = exit, !.handle = row.handle, !.convo = row.convo,
                           !.gaveUp = gaveUp]
    BY <1>17 DEF Boot
  <2> HIDE DEF exit, gaveUp
  <2>6. s' \in Fields
    BY <1>0, <2>3, <2>4, <2>5 DEF Blank, Fields
  <2>7. said' \in Exits
    BY <1>17 DEF Boot, TypeOK, Exits, Reasons
  <2>2. s' \in Fields /\ said' \in Exits
    BY <2>6, <2>7
  <2> QED
    BY <1>17, <2>1, <2>2 DEF Boot, TypeOK, Interrupted
<1>18. CASE UNCHANGED vars
  BY <1>18 DEF vars, TypeOK
<1> QED
  BY <1>1, <1>2, <1>3, <1>4, <1>5, <1>6, <1>7, <1>8, <1>9, <1>10, <1>11, <1>13, <1>14,
     <1>15, <1>16, <1>17, <1>18 DEF Next

-----------------------------------------------------------------------------
(* The fields of the session fit together.                                 *)
LEMMA CoherentStep == TypeOK /\ Coherent /\ [Next]_vars => Coherent'
<1> SUFFICES ASSUME TypeOK, Coherent, [Next]_vars PROVE Coherent'
  OBVIOUS
<1> USE DEF world, rest, past
<1>0. s \in Fields
  BY DEF TypeOK
<1>1. CASE Touch
  BY <1>1 DEF Touch, Coherent, Spawning, Unused
<1>2. CASE Delete
  <2>1. CASE MayStop /\ BeginStop("stopped")
    BY <1>0, <1>2, <2>1, BeginStopFields
    DEF Delete, Coherent, Spawning, Unused, MayStop, Reasons
  <2>2. CASE s.exit = "parked" /\ s' = [s EXCEPT !.exit = "stopped"]
    BY <1>0, <1>2, <2>2 DEF Delete, Coherent, Spawning, Unused, Fields, Running
  <2> QED
    BY <1>2, <2>1, <2>2 DEF Delete
<1>3. CASE Park
  BY <1>0, <1>3, BeginStopFields DEF Park, Coherent, Spawning, Unused, MayStop, Reasons
<1>4. CASE StopEnds
  BY <1>0, <1>4 DEF StopEnds, Ready, Coherent, Spawning, Unused, Fields
<1>5. CASE \E l \in Launches : AgentDies(l)
  <2>1. PICK l \in Launches : AgentDies(l)
    BY <1>5
  <2>2. Unused' = Unused
    BY <2>1 DEF AgentDies, Unused, TypeOK
  <2>3. CASE MayStop /\ BeginStop("agent_exited")
    BY <1>0, <2>1, <2>2, <2>3, BeginStopFields
    DEF AgentDies, Coherent, Spawning, MayStop, Reasons
  <2>4. CASE UNCHANGED s
    BY <2>1, <2>2, <2>4 DEF AgentDies, Coherent, Spawning
  <2> QED
    BY <2>1, <2>3, <2>4 DEF AgentDies
<1>6. CASE PersonResumes
  BY <1>0, <1>6, ArmedFields DEF PersonResumes, Ready, Coherent, Spawning, Unused
<1>7. CASE Spawn
  <2>1. s'.launch # 0
    BY <1>0, <1>7, NewLaunchIsUnused DEF Spawn, Coherent, Fields, Launches
  <2>2. s'.waiter = s.waiter /\ s'.exit = s.exit /\ s'.session = s.session
        /\ s'.stopping = s.stopping
    BY <1>0, <1>7 DEF Spawn, Fields
  <2> QED
    BY <1>7, <2>1, <2>2 DEF Spawn, Coherent, Spawning
<1>8. CASE LaunchUp
  BY <1>0, <1>8 DEF LaunchUp, Ready, Coherent, Spawning, Fields
<1>9. CASE \E how \in Failures : LaunchFails(how)
  BY <1>9, LaunchFailsFields DEF LaunchFails, Ready, Coherent, Spawning
<1>10. CASE BootAttempt
  <2>1. Unused' = Unused /\ UNCHANGED <<up, stale>>
    BY <1>10 DEF BootAttempt, Unused
  <2>2. CASE UNCHANGED s
    BY <2>1, <2>2 DEF Coherent, Spawning
  <2>3. CASE s' = Armed("daemon") /\ s.waiter = "none" /\ s.exit # Running /\ Unused # {}
    <3>1. /\ s'.exit = Running /\ s'.stopping = "none" /\ s'.session = 0
          /\ s'.waiter = "daemon"
      BY <1>0, <2>3, ArmedFields
    <3> QED
      BY <2>1, <2>3, <3>1 DEF Coherent, Spawning
  <2>4. CASE /\ s'.exit = s.exit /\ s'.stopping = s.stopping /\ s'.session = s.session
             /\ s'.waiter = s.waiter /\ s'.launch = s.launch
    BY <2>1, <2>4 DEF Coherent, Spawning
  <2> QED
    BY <1>10, <2>2, <2>3, <2>4, BootAttemptFields
<1>11. CASE NextPass
  BY <1>11 DEF NextPass, Coherent, Spawning, Unused
<1>12. ASSUME Ends PROVE Coherent'
  BY <1>12 DEF Ends, Coherent, Blank, Spawning
<1>13. CASE Crash \/ Exit
  BY <1>12, <1>13 DEF Crash, Exit
<1>14. CASE Shutdown
  <2>1. CASE MayStop /\ BeginStop("daemon_shutdown")
    BY <1>0, <1>14, <2>1, BeginStopFields
    DEF Shutdown, Coherent, Spawning, Unused, MayStop, Reasons
  <2>2. CASE UNCHANGED s
    BY <1>14, <2>2 DEF Shutdown, Coherent, Spawning, Unused
  <2> QED
    BY <1>14, <2>1, <2>2 DEF Shutdown
<1>15. CASE Reboot
  <2>1. Unused' = Unused
    BY <1>15 DEF Reboot, Unused, TypeOK
  <2> QED
    BY <1>15, <2>1 DEF Reboot, Coherent, Spawning
<1>16. CASE Boot
  BY <1>16 DEF Boot, Coherent, Spawning, Blank
<1>17. CASE UNCHANGED vars
  BY <1>17 DEF vars, Coherent, Spawning, Unused
<1> QED
  BY <1>1, <1>2, <1>3, <1>4, <1>5, <1>6, <1>7, <1>8, <1>9, <1>10, <1>11, <1>13, <1>14,
     <1>15, <1>16, <1>17 DEF Next

(* What is not owed to the row is in it.                                   *)
LEMMA KeptStep == TypeOK /\ Coherent /\ Kept /\ [Next]_vars => Kept'
<1> SUFFICES ASSUME TypeOK, Coherent, Kept, [Next]_vars PROVE Kept'
  OBVIOUS
<1> USE DEF world, rest, past
<1>0. s \in Fields
  BY DEF TypeOK
<1>1. CASE Touch
  <2>1. CASE row' = Persisted
    BY <1>1, <2>1 DEF Touch, Kept, Persisted, AgentHandle
  <2>2. CASE stale' = TRUE
    BY <2>2 DEF Kept
  <2> QED
    BY <1>1, <2>1, <2>2 DEF Touch
<1>2. CASE owed' = TRUE
  BY <1>2 DEF Kept
<1>3. CASE Delete \/ Park \/ StopEnds \/ PersonResumes
           \/ \E how \in Failures : LaunchFails(how)
  BY <1>2, <1>3 DEF Delete, Park, StopEnds, PersonResumes, LaunchFails, BeginStop
<1>4. CASE \E l \in Launches : AgentDies(l)
  BY <1>2, <1>4 DEF AgentDies, BeginStop, Kept, AgentHandle
<1>5. CASE Spawn
  <2>1. s'.exit = s.exit /\ s'.session = s.session /\ s'.handle = s.handle
    BY <1>0, <1>5 DEF Spawn, Fields
  <2> QED
    BY <1>5, <2>1 DEF Spawn, Kept, AgentHandle
<1>6. CASE LaunchUp /\ owed' # TRUE
  <2>1. s'.exit = s.exit /\ s'.session = s.launch
    BY <1>0, <1>6 DEF LaunchUp, Fields
  <2>2. s'.session \in unknown'
    <3>1. owed' = (s.stopping = "none" \/ s.waiter # "create")
      BY <1>6 DEF LaunchUp
    <3>2. ~owed'
      BY <1>6, <3>1
    <3>3. unknown' = unknown \cup {s.launch}
      BY <1>6, <3>2 DEF LaunchUp
    <3> QED
      BY <2>1, <3>3
  <2>3. ~owed /\ UNCHANGED <<row, up, stale>>
    BY <1>6 DEF LaunchUp, Ready
  <2> QED
    BY <2>1, <2>2, <2>3 DEF Kept
<1>7. CASE BootAttempt /\ owed' # TRUE
  BY <1>7, BootAttemptFields DEF BootAttempt, Kept, AgentHandle
<1>8. CASE NextPass
  BY <1>8 DEF NextPass, Kept, AgentHandle
<1>9. CASE Crash \/ Exit
  BY <1>9 DEF Crash, Exit, Ends, Kept
<1>10. CASE Shutdown
  BY <1>2, <1>10 DEF Shutdown, BeginStop, Kept, AgentHandle
<1>11. CASE Reboot
  BY <1>11 DEF Reboot, Kept
<1>12. CASE Boot /\ owed' # TRUE
  <2>1. ~Interrupted
    BY <1>12 DEF Boot, Interrupted
  <2>2. s'.exit = row.exit /\ s'.session = 0 /\ s'.handle = row.handle
    BY <1>12, <2>1 DEF Boot, Blank
  <2> QED
    BY <1>12, <2>2 DEF Boot, Kept, AgentHandle
<1>13. CASE UNCHANGED vars
  BY <1>13 DEF vars, Kept, AgentHandle
<1> QED
  BY <1>1, <1>2, <1>3, <1>4, <1>5, <1>6, <1>7, <1>8, <1>9, <1>10, <1>11, <1>12, <1>13
  DEF Next

(* An agent that lives is held by the daemon, or by the row, or is unknown.*)
LEMMA HeldStep == TypeOK /\ Coherent /\ Kept /\ Held /\ [Next]_vars => Held'
<1> SUFFICES ASSUME TypeOK, Coherent, Kept, Held, [Next]_vars PROVE Held'
  OBVIOUS
<1> USE DEF world, rest, past
<1>0. s \in Fields
  BY DEF TypeOK
<1> DEFINE Lives(l) == agent[l] \in {"starting", "up"}
(* An action that lets no agent begin, and moves none.                     *)
<1>1. ASSUME UNCHANGED <<up, old, row, unknown>>, s'.session = s.session,
             s'.launch = s.launch, s'.exit = s.exit,
             \A l \in Launches : Lives(l)' => Lives(l)
      PROVE  Held'
  BY <1>1 DEF Held, OrphansAreReaped, Living
<1>2. CASE Touch
  <2>1. UNCHANGED <<agent, s, up, old, unknown>>
    BY <1>2 DEF Touch
  <2>2. up'
    BY <1>2 DEF Touch
  <2> QED
    BY <2>1, <2>2 DEF Held, OrphansAreReaped, Living
<1>3. CASE Delete
  <2>1. CASE MayStop /\ BeginStop("stopped")
    BY <1>0, <1>1, <1>3, <2>1, BeginStopFields DEF Delete, Reasons
  <2>2. CASE s.exit = "parked" /\ s' = [s EXCEPT !.exit = "stopped"]
    <3>1. s'.session = s.session /\ s'.launch = s.launch
      BY <1>0, <2>2 DEF Fields
    <3>2. s.session \in Launches => ~Lives(s.session)
      BY <2>2 DEF Held, Living, Running
    <3>3. UNCHANGED <<agent, up, old, row, unknown>>
      BY <1>3 DEF Delete
    <3> QED
      BY <3>1, <3>2, <3>3 DEF Held, OrphansAreReaped, Living
  <2> QED
    BY <1>3, <2>1, <2>2 DEF Delete
<1>4. CASE Park
  BY <1>0, <1>1, <1>4, BeginStopFields DEF Park, Reasons
<1>5. CASE StopEnds
  <2>1. s'.session = s.session /\ s'.launch = s.launch
    BY <1>0, <1>5 DEF StopEnds, Fields
  <2>2. UNCHANGED <<up, old, row, unknown>>
    BY <1>5 DEF StopEnds
  <2>3. /\ \A l \in Launches : Lives(l)' => Lives(l)
        /\ s.session \in Launches => ~Lives(s.session)'
    <3>1. s.session \in 0 .. MaxLaunches /\ MaxLaunches \in Nat
      BY <1>0, RestartAssumption DEF Fields
    <3>2. CASE s.session # 0 /\ Living(s.session)
      BY <1>5, <3>1, <3>2 DEF StopEnds, TypeOK, Launches
    <3>3. CASE ~(s.session # 0 /\ Living(s.session))
      BY <1>5, <3>1, <3>3 DEF StopEnds, Living, Launches
    <3> QED
      BY <3>2, <3>3
  <2> QED
    BY <2>1, <2>2, <2>3 DEF Held, OrphansAreReaped, Living
<1>6. CASE \E l \in Launches : AgentDies(l)
  <2>1. PICK l \in Launches : AgentDies(l)
    BY <1>6
  <2>2. /\ s'.session = s.session /\ s'.launch = s.launch /\ s'.exit = s.exit
        /\ UNCHANGED <<up, old, row, unknown>>
    BY <1>0, <2>1, BeginStopFields DEF AgentDies, Reasons
  <2>3. \A k \in Launches : Lives(k)' => Lives(k)
    BY <2>1 DEF AgentDies, TypeOK
  <2> QED
    BY <1>1, <2>2, <2>3
<1>7. CASE PersonResumes
  <2>1. s'.session = 0 /\ s'.launch = s.launch
    BY <1>0, <1>7, ArmedFields DEF PersonResumes
  <2>2. s.exit # Running /\ UNCHANGED <<agent, up, old, row, unknown>> /\ up
    BY <1>7 DEF PersonResumes, Ready
  <2>3. 0 \notin Launches
    BY DEF Launches
  <2> QED
    BY <2>1, <2>2, <2>3 DEF Held, OrphansAreReaped, Living
<1>8. CASE Spawn
  <2>1. s'.session = s.session /\ s'.launch = NewLaunch /\ s'.exit = s.exit
    BY <1>0, <1>8 DEF Spawn, Fields
  <2>2. s.launch = 0 /\ up /\ UNCHANGED <<up, old, row, unknown>>
    BY <1>8 DEF Spawn, Spawning
  <2>3. NewLaunch \in Launches /\ s.session = 0 /\ s.exit = Running
    BY <1>8, NewLaunchIsUnused DEF Spawn, Coherent, Spawning
  <2>4. \A l \in Launches : Lives(l)' => Lives(l) \/ l = NewLaunch
    BY <1>8 DEF Spawn, TypeOK
  <2>5. 0 \notin Launches
    BY DEF Launches
  <2> QED
    BY <2>1, <2>2, <2>3, <2>4, <2>5 DEF Held, OrphansAreReaped, Living
<1>9. CASE LaunchUp
  <2>1. s'.session = s.launch /\ s'.launch = 0 /\ s'.exit = s.exit
    BY <1>0, <1>9 DEF LaunchUp, Fields
  <2>2. s.session = 0 /\ s.exit = Running
    BY <1>9 DEF LaunchUp, Coherent
  <2>3. UNCHANGED <<up, old, row>> /\ up /\ unknown \subseteq unknown'
    BY <1>9 DEF LaunchUp, Ready
  <2>4. \A l \in Launches : Lives(l)' => Lives(l) \/ l = s.launch
    BY <1>9 DEF LaunchUp, TypeOK
  <2>5. 0 \notin Launches
    BY DEF Launches
  <2> QED
    BY <2>1, <2>2, <2>3, <2>4, <2>5 DEF Held, OrphansAreReaped, Living
<1>10. CASE \E how \in Failures : LaunchFails(how)
  <2>1. PICK how \in Failures : LaunchFails(how)
    BY <1>10
  <2>2. s'.session = s.session /\ s'.launch = 0
    BY <2>1, LaunchFailsFields
  <2>3. s.session = 0 /\ up /\ UNCHANGED <<up, old, row, unknown>>
    BY <2>1 DEF LaunchFails, Ready, Coherent
  <2>4. \A l \in Launches : Lives(l)' => Lives(l) /\ l # s.launch
    BY <2>1 DEF LaunchFails, TypeOK
  <2>5. 0 \notin Launches
    BY DEF Launches
  <2> QED
    BY <2>2, <2>3, <2>4, <2>5 DEF Held, OrphansAreReaped, Living
<1>11. CASE BootAttempt
  <2>1. UNCHANGED <<agent, up, old, row, unknown>> /\ up
    BY <1>11 DEF BootAttempt, Ready
  <2>2. CASE s' = Armed("daemon") /\ s.waiter = "none" /\ s.exit # Running
    <3>1. s'.session = 0 /\ s'.launch = s.launch
      BY <1>0, <2>2, ArmedFields
    <3>2. 0 \notin Launches
      BY DEF Launches
    <3> QED
      BY <2>1, <2>2, <3>1, <3>2 DEF Held, OrphansAreReaped, Living
  <2>3. CASE s'.exit = s.exit /\ s'.session = s.session /\ s'.launch = s.launch
    BY <2>1, <2>3 DEF Held, OrphansAreReaped, Living
  <2> QED
    BY <1>11, <2>2, <2>3, BootAttemptFields
<1>12. CASE NextPass
  BY <1>12 DEF NextPass, Held, OrphansAreReaped, Living
<1>13. ASSUME Ends, up, \A l \in Launches : Lives(l)' => Lives(l)
       PROVE  Held'
  <2>1. ~up' /\ UNCHANGED <<row, old>> /\ s'.session = 0
    BY <1>13 DEF Ends, Blank
  <2>2. unknown \subseteq unknown' /\ s.launch \in unknown'
        /\ (Unsaved => s.session \in unknown')
    BY <1>13 DEF Ends
  <2>3. ASSUME ~old, NEW l \in Launches, Lives(l)'
        PROVE  l \in unknown' \/ (row.exit = Running /\ row.handle = l)
    <3>1. Lives(l) /\ l \in {s.session, s.launch} \cup unknown
      BY <1>13, <2>3 DEF Held, OrphansAreReaped, Living
    <3>2. CASE l = s.session /\ ~Unsaved
      <4>1. s.exit = Running /\ s.session # 0
        BY <3>1, <3>2 DEF Held, Living, Launches
      <4>2. row.exit = Running /\ (row.handle = s.session \/ s.session \in unknown)
        BY <1>13, <3>2, <4>1 DEF Kept, Unsaved, AgentHandle
      <4> QED
        BY <2>2, <3>2, <4>2
    <3> QED
      BY <2>2, <3>1, <3>2
  <2>4. 0 \notin Launches
    BY DEF Launches
  <2> QED
    BY <2>1, <2>3, <2>4 DEF Held, OrphansAreReaped, Living
<1>14. CASE Crash
  BY <1>13, <1>14 DEF Crash
<1>15. CASE Shutdown
  <2>1. s'.session = s.session /\ s'.launch = s.launch /\ s'.exit = s.exit
    BY <1>0, <1>15, BeginStopFields DEF Shutdown, Reasons
  <2> QED
    BY <1>1, <1>15, <2>1 DEF Shutdown
<1>16. CASE Exit
  <2>1. \A l \in Launches : Lives(l)' => Lives(l)
    BY <1>16, KillSpares DEF Exit, Living
  <2> QED
    BY <1>13, <1>16, <2>1 DEF Exit, Ready
<1>17. CASE Reboot
  <2>1. old' /\ UNCHANGED s /\ \A l \in Launches : ~Lives(l)'
    BY <1>17 DEF Reboot
  <2> QED
    BY <2>1 DEF Held, OrphansAreReaped, Living
<1>18. CASE Boot
  <2>1. up' /\ UNCHANGED <<old, unknown, row>> /\ s'.session = 0
    BY <1>18 DEF Boot, Blank
  <2>2. ASSUME ~old, NEW l \in Launches, Lives(l)'
        PROVE  l \in unknown
    <3>1. CASE row.exit = Running
      <4>1. agent' = Kill(row.handle)
        BY <1>18, <2>2, <3>1 DEF Boot, Reaps
      <4>2. Living(l) /\ l # row.handle
        BY <2>2, <4>1, KillSpares
      <4> QED
        BY <1>18, <2>2, <4>2 DEF Boot, Held
    <3>2. CASE row.exit # Running
      BY <1>18, <2>2, <3>2 DEF Boot, Reaps, Held, Living
    <3> QED
      BY <3>1, <3>2
  <2>3. 0 \notin Launches
    BY DEF Launches
  <2> QED
    BY <2>1, <2>2, <2>3 DEF Held, OrphansAreReaped, Living
<1>19. CASE UNCHANGED vars
  BY <1>19 DEF vars, Held, OrphansAreReaped, Living
<1> QED
  BY <1>2, <1>3, <1>4, <1>5, <1>6, <1>7, <1>8, <1>9, <1>10, <1>11, <1>12, <1>14, <1>15,
     <1>16, <1>17, <1>18, <1>19 DEF Next

(* What the log said last is how the session stands.                       *)
LEMMA ToldStep == TypeOK /\ Coherent /\ Kept /\ Told /\ [Next]_vars => Told'
<1> SUFFICES ASSUME TypeOK, Coherent, Kept, Told, [Next]_vars PROVE Told'
  OBVIOUS
<1> USE DEF world, rest, past
<1>0. s \in Fields
  BY DEF TypeOK
(* An action of a daemon that runs on, and neither writes the log nor      *)
(* touches what the log has of the session.                                *)
<1>1. ASSUME up, UNCHANGED <<up, said, torn>>, s'.exit = s.exit,
             s'.waiter = s.waiter, s'.prev = s.prev,
             s'.stopping = s.stopping \/ s'.stopping # "none"
      PROVE  Told'
  BY <1>1 DEF Told, LogTellsTheEnd
(* An action that writes the log as the session ends.                      *)
<1>2. ASSUME up, up', said' = s'.exit, s'.waiter # "daemon"
      PROVE  Told'
  BY <1>2 DEF Told, LogTellsTheEnd
<1>3. CASE Touch
  BY <1>1, <1>3 DEF Touch
<1>4. CASE Delete
  <2>1. CASE MayStop /\ BeginStop("stopped") /\ UNCHANGED <<said, torn>>
    BY <1>0, <1>1, <1>4, <2>1, BeginStopFields DEF Delete, Ready, Reasons
  <2>2. CASE s.exit = "parked" /\ s' = [s EXCEPT !.exit = "stopped"] /\ said' = "stopped"
    <3>1. s'.exit = "stopped" /\ s'.waiter = s.waiter /\ s.waiter # "daemon"
      BY <1>0, <2>2 DEF Fields, Coherent, Running
    <3> QED
      BY <1>2, <1>4, <2>2, <3>1 DEF Delete, Ready
  <2> QED
    BY <1>4, <2>1, <2>2 DEF Delete
<1>5. CASE Park
  BY <1>0, <1>1, <1>5, BeginStopFields DEF Park, Ready, Reasons
<1>6. CASE StopEnds
  <2>1. said' = s'.exit /\ s'.waiter = s.waiter
    BY <1>0, <1>6 DEF StopEnds, Fields
  <2>2. s.waiter = "none" /\ up /\ up'
    BY <1>6 DEF StopEnds, Ready, Spawning
  <2> QED
    BY <1>2, <2>1, <2>2
<1>7. CASE \E l \in Launches : AgentDies(l)
  <2>1. PICK l \in Launches : AgentDies(l)
    BY <1>7
  <2>2. UNCHANGED <<row, up, said, torn>>
    BY <2>1 DEF AgentDies
  <2>3. CASE MayStop /\ BeginStop("agent_exited") /\ up
    BY <1>0, <1>1, <2>2, <2>3, BeginStopFields DEF Reasons
  <2>4. CASE UNCHANGED s
    BY <2>2, <2>4 DEF Told, LogTellsTheEnd
  <2> QED
    BY <2>1, <2>3, <2>4 DEF AgentDies
<1>8. CASE PersonResumes
  <2>1. s'.exit = Running /\ s'.waiter = "person"
    BY <1>0, <1>8, ArmedFields DEF PersonResumes
  <2> QED
    BY <1>2, <1>8, <2>1 DEF PersonResumes, Ready
<1>9. CASE Spawn
  <2>1. /\ s'.exit = s.exit /\ s'.waiter = s.waiter /\ s'.prev = s.prev
        /\ s'.stopping = s.stopping
    BY <1>0, <1>9 DEF Spawn, Fields
  <2> QED
    BY <1>1, <1>9, <2>1 DEF Spawn
<1>10. CASE LaunchUp
  <2>1. s'.exit = Running /\ s'.waiter = "none" /\ s'.stopping = s.stopping
    BY <1>0, <1>10 DEF LaunchUp, Fields, Coherent
  <2>2. up /\ up' /\ (s.stopping = "none" => said' = Running)
    BY <1>10 DEF LaunchUp, Ready
  <2> QED
    BY <2>1, <2>2 DEF Told, LogTellsTheEnd
<1>11. CASE \E how \in Failures : LaunchFails(how)
  <2>1. PICK how \in Failures : LaunchFails(how)
    BY <1>11
  <2>2. /\ s'.exit = IF s.waiter = "create" THEN "start_failed" ELSE s.prev
        /\ s'.waiter = "none" /\ s'.stopping = "none"
    BY <2>1, LaunchFailsFields
  <2>3. up /\ up'
    BY <2>1 DEF LaunchFails, Ready
  <2>4. CASE s.waiter # "daemon"
    BY <1>2, <2>1, <2>2, <2>3, <2>4 DEF LaunchFails
  <2>5. CASE s.waiter = "daemon" /\ s.stopping = "none"
    <3>1. said' = said /\ (torn' = (torn \/ s.stopping # "none")) /\ s'.exit = s.prev
      BY <2>1, <2>2, <2>5 DEF LaunchFails
    <3> QED
      BY <2>2, <2>3, <2>5, <3>1 DEF Told, LogTellsTheEnd
  <2>6. CASE s.waiter = "daemon" /\ s.stopping # "none"
    <3>1. torn' = (torn \/ s.stopping # "none")
      BY <2>1, <2>6 DEF LaunchFails
    <3> QED
      BY <2>3, <2>6, <3>1 DEF Told, LogTellsTheEnd
  <2> QED
    BY <2>4, <2>5, <2>6
<1>12. CASE BootAttempt
  <2>1. up /\ UNCHANGED <<up, said, torn>>
    BY <1>12 DEF BootAttempt, Ready
  <2>2. CASE s' = Armed("daemon") /\ s.waiter = "none" /\ s.exit # Running
    <3>1. s'.waiter = "daemon" /\ s'.prev = s.exit
      BY <1>0, <2>2, ArmedFields
    <3>2. s.stopping = "none"
      BY <2>2 DEF Coherent
    <3> QED
      BY <2>1, <2>2, <3>1, <3>2 DEF Told, LogTellsTheEnd
  <2>3. CASE /\ s'.exit = s.exit /\ s'.stopping = s.stopping /\ s'.waiter = s.waiter
             /\ s'.prev = s.prev
    BY <1>1, <2>1, <2>3
  <2> QED
    BY <1>12, <2>2, <2>3, BootAttemptFields
<1>13. CASE NextPass
  BY <1>1, <1>13 DEF NextPass, Ready
<1>14. ASSUME Ends, up PROVE Told'
  <2>1. ~up' /\ UNCHANGED <<row, said>>
    BY <1>14 DEF Ends
  <2>2. torn' = (torn \/ (Unsaved /\ row.exit # Running))
    BY <1>14 DEF Ends
  <2>3. CASE ~torn /\ ~Unsaved /\ row.exit # Running
    <3>1. row.exit = s.exit
      BY <1>14, <2>3 DEF Kept, Unsaved
    <3>2. s.waiter = "none" /\ s.stopping = "none"
      BY <2>3, <3>1 DEF Coherent
    <3> QED
      BY <1>14, <2>1, <2>3, <3>1, <3>2 DEF Told, LogTellsTheEnd
  <2>4. CASE torn \/ row.exit = Running \/ (Unsaved /\ row.exit # Running)
    BY <2>1, <2>2, <2>4 DEF Told, LogTellsTheEnd
  <2> QED
    BY <2>3, <2>4
<1>15. CASE Crash \/ Exit
  BY <1>14, <1>15 DEF Crash, Exit, Ready
<1>16. CASE Shutdown
  <2>1. /\ s'.exit = s.exit /\ s'.waiter = s.waiter /\ s'.prev = s.prev
        /\ s'.stopping = s.stopping \/ s'.stopping # "none"
    BY <1>0, <1>16, BeginStopFields DEF Shutdown, Reasons
  <2> QED
    BY <1>1, <1>16, <2>1 DEF Shutdown, Ready
<1>17. CASE Reboot
  BY <1>17 DEF Reboot, Told, LogTellsTheEnd
<1>18. CASE Boot
  <2>1. s'.waiter = "none" /\ s'.stopping = "none" /\ up' /\ ~up
    BY <1>18 DEF Boot, Blank
  <2>2. CASE Interrupted
    <3>1. s'.exit = "daemon_restarted" /\ said' = "daemon_restarted"
      BY <1>18, <2>2 DEF Boot, Blank
    <3> QED
      BY <2>1, <3>1 DEF Told, LogTellsTheEnd
  <2>3. CASE ~Interrupted
    <3>1. s'.exit = row.exit /\ said' = said /\ (torn' = (torn /\ ~Interrupted))
      BY <1>18, <2>3 DEF Boot, Blank
    <3> QED
      BY <2>1, <2>3, <3>1 DEF Told, LogTellsTheEnd, Interrupted
  <2> QED
    BY <2>2, <2>3
<1>19. CASE UNCHANGED vars
  BY <1>19 DEF vars, Told, LogTellsTheEnd
<1> QED
  BY <1>3, <1>4, <1>5, <1>6, <1>7, <1>8, <1>9, <1>10, <1>11, <1>12, <1>13, <1>15, <1>16,
     <1>17, <1>18, <1>19 DEF Next

(* A stop that was answered is in the row.                                 *)
LEMMA AnsweredStep == TypeOK /\ Coherent /\ Kept /\ Answered /\ [Next]_vars => Answered'
<1> SUFFICES ASSUME TypeOK, Coherent, Kept, Answered, [Next]_vars PROVE Answered'
  OBVIOUS
<1> USE DEF world, rest, past
<1>0. s \in Fields
  BY DEF TypeOK
<1>1. ASSUME UNCHANGED <<row, stale, answered>>, up' => up, s'.exit = s.exit
      PROVE  Answered'
  BY <1>1 DEF Answered
(* A session that is not stopped may end in any way.                       *)
<1>2. ASSUME up, s.exit # "stopped", answered' = answered
      PROVE  Answered'
  BY <1>2 DEF Answered
<1>3. CASE Touch
  <2>1. UNCHANGED s /\ (answered' = (answered \/ s.exit = "stopped"))
    BY <1>3 DEF Touch
  <2>2. CASE row' = Persisted
    <3>1. row'.exit = s.exit
      BY <2>2 DEF Persisted
    <3> QED
      BY <1>3, <2>1, <3>1 DEF Touch, Answered
  <2>3. CASE stale' = TRUE
    BY <1>3, <2>1, <2>3 DEF Touch, Answered
  <2> QED
    BY <1>3, <2>2, <2>3 DEF Touch
<1>4. CASE Delete
  BY <1>2, <1>4 DEF Delete, Ready, MayStop, Running
<1>5. CASE Park
  BY <1>2, <1>5 DEF Park, Ready, MayStop, Running
<1>6. CASE StopEnds
  BY <1>2, <1>6 DEF StopEnds, Ready, Coherent, Running
<1>7. CASE \E l \in Launches : AgentDies(l)
  <2>1. PICK l \in Launches : AgentDies(l)
    BY <1>7
  <2>2. UNCHANGED <<row, stale, answered, up>>
    BY <2>1 DEF AgentDies
  <2>3. s'.exit = s.exit
    BY <1>0, <2>1, BeginStopFields DEF AgentDies, Reasons
  <2> QED
    BY <1>1, <2>2, <2>3
<1>8. CASE PersonResumes
  BY <1>8 DEF PersonResumes, Answered
<1>9. CASE Spawn
  <2>1. s'.exit = s.exit
    BY <1>0, <1>9 DEF Spawn, Fields
  <2> QED
    BY <1>1, <1>9, <2>1 DEF Spawn
<1>10. CASE LaunchUp
  BY <1>2, <1>10 DEF LaunchUp, Ready, Coherent, Running
<1>11. CASE \E how \in Failures : LaunchFails(how)
  BY <1>2, <1>11 DEF LaunchFails, Ready, Coherent, Running
<1>12. CASE BootAttempt
  <2>1. UNCHANGED <<row, stale, up>>
    BY <1>12 DEF BootAttempt
  <2> QED
    BY <1>1, <1>12, <2>1, BootAttemptFields DEF Answered
<1>13. CASE NextPass
  BY <1>1, <1>13 DEF NextPass
<1>14. CASE Crash \/ Exit
  <2>1. ~up' /\ row' = row /\ stale' = FALSE
    BY <1>14 DEF Crash, Exit, Ends
  <2>2. answered' = (answered /\ ~stale)
    BY <1>14 DEF Crash, Exit, Ends
  <2> QED
    BY <2>1, <2>2 DEF Answered
<1>15. CASE Shutdown
  BY <1>0, <1>1, <1>15, BeginStopFields DEF Shutdown, Reasons
<1>16. CASE Reboot
  BY <1>1, <1>16 DEF Reboot
<1>17. CASE Boot
  <2>1. UNCHANGED <<row, stale, answered>> /\ ~stale
    BY <1>17 DEF Boot, Coherent
  <2>2. row.exit # Running => s'.exit = row.exit
    BY <1>17 DEF Boot, Blank, Interrupted
  <2> QED
    BY <2>1, <2>2 DEF Answered, Running
<1>18. CASE UNCHANGED vars
  BY <1>18 DEF vars, Answered
<1> QED
  BY <1>3, <1>4, <1>5, <1>6, <1>7, <1>8, <1>9, <1>10, <1>11, <1>12, <1>13, <1>14, <1>15,
     <1>16, <1>17, <1>18 DEF Next

(* Nobody who was told of a stop finds the session on a later list.        *)
LEMMA ListStep ==
    RestartInv /\ [Next]_vars => (pass' = "queued" /\ pass # "queued" => ~answered)
<1> SUFFICES ASSUME RestartInv, [Next]_vars, pass' = "queued", pass # "queued"
             PROVE  ~answered
  OBVIOUS
<1> USE DEF world, rest, past
<1>1. CASE NextPass
  BY <1>1 DEF NextPass, Ready, ToBeResumed, BootResumes, RestartInv, Answered
<1>2. CASE Boot
  <2>1. s'.exit # "stopped"
    BY <1>2 DEF Boot, ToBeResumed, BootResumes
  <2>2. row.exit # Running => s'.exit = row.exit
    BY <1>2 DEF Boot, Blank, Interrupted
  <2> QED
    BY <1>2, <2>1, <2>2 DEF Boot, RestartInv, Answered, Coherent, Running
<1>3. CASE \E how \in Failures : LaunchFails(how)
  BY <1>3 DEF LaunchFails, PassAfter
<1>4. CASE BootAttempt
  BY <1>4 DEF BootAttempt, PassAfter
<1>5. CASE Crash \/ Exit
  BY <1>5 DEF Crash, Exit, Ends
<1>6. CASE LaunchUp
  BY <1>6 DEF LaunchUp
<1> QED
  BY <1>1, <1>2, <1>3, <1>4, <1>5, <1>6
  DEF Next, vars, Touch, Delete, Park, StopEnds, AgentDies, PersonResumes, Spawn, Shutdown,
      Reboot

-----------------------------------------------------------------------------
(* The invariant holds in every reachable state.                           *)
LEMMA Invariance == Spec => []RestartInv
<1>1. RestartInv /\ [Next]_vars => RestartInv'
  BY TypeStep, CoherentStep, KeptStep, HeldStep, ToldStep, AnsweredStep DEF RestartInv
<1> QED
  BY InitInv, <1>1, PTL DEF Spec

(* The variables keep to their types.                                      *)
THEOREM TypeCorrect == Spec => []TypeOK
<1>1. RestartInv => TypeOK
  BY DEF RestartInv
<1> QED
  BY Invariance, <1>1, PTL

(* Whatever a crash leaves running is reaped before the next daemon does   *)
(* anything else, as far as a row names it (registry.ts:8014-8021).        *)
THEOREM OrphansAreAlwaysReaped == Spec => []OrphansAreReaped
<1>1. RestartInv => OrphansAreReaped
  BY DEF RestartInv, Held
<1> QED
  BY Invariance, <1>1, PTL

(* The log and the snapshot agree on how the session ended, in every life  *)
(* of the daemon (registry.ts:5433-5450).                                  *)
THEOREM LogAlwaysTellsTheEnd == Spec => []LogTellsTheEnd
<1>1. RestartInv => LogTellsTheEnd
  BY DEF RestartInv, Told
<1> QED
  BY Invariance, <1>1, PTL

(* A stop outlives the daemon that answered it (registry.ts:564-572).      *)
THEOREM StopsOutliveDaemons == Spec => StopOutlivesDaemon
<1>1. RestartInv /\ [Next]_vars => [pass' = "queued" /\ pass # "queued" => ~answered]_vars
  BY ListStep
<1> QED
  BY Invariance, <1>1, PTL DEF Spec, StopOutlivesDaemon
=============================================================================
