--------------------------- MODULE MCDaemonRestart ---------------------------
(***************************************************************************)
(* What TLC checks of DaemonRestart.                                       *)
(***************************************************************************)
EXTENDS DaemonRestart

(* An agent that lives is the daemon's own, or one that no row ever named: *)
(* its launch was in flight when its daemon ended, it came up while its    *)
(* session was being stopped, or the write that would have named it did    *)
(* not take place.  Every other orphan is reaped before the conversation   *)
(* is given to another agent (registry.ts:8014-8021).                      *)
(* The exception is a session older than the host's boot: the fence of     *)
(* local.ts:1447 then spares agents that were launched since, too.         *)
OrphansAreReaped ==
    up /\ ~old =>
        \A l \in Launches : Living(l) => l \in {s.session, s.launch} \cup unknown

(* A stop that a person was told of outlives the daemon: no later one     *)
(* puts the session on the list of those it will bring back.               *)
StopOutlivesDaemon == [][pass' = "queued" /\ pass # "queued" => ~answered]_vars

(* autoResumable never says yes at boot to a session that somebody         *)
(* stopped, and "nothing revives a stopped conversation on its own"        *)
(* (registry.ts:564-566): a start that nobody asked for is not of a        *)
(* session that a person was told is stopped.                              *)
NothingRevivesTheStopped ==
    [][s'.waiter = "daemon" /\ s.waiter # "daemon" => ~answered]_vars

(* The log ends as the session does, across every crash: "a client folding *)
(* the log and a client reading the snapshot must not disagree"            *)
(* (registry.ts:5433-5437).                                                *)
LogTellsTheEnd ==
    up /\ s.waiter = "none" /\ s.stopping = "none" /\ ~torn => said = s.exit

(* A session that the boot pass has taken on comes back, or the pass gives *)
(* it up and says so, or leaves it to the installation of its agent; or a  *)
(* person, its agent or the end of the daemon comes first (a worker that   *)
(* leaves a session out leaves it "reconnecting" for ever).                *)
TakenOn == up /\ s.convo /\ BootResumes(s.exit) /\ pass \in {"queued", "backoff"}
Decided ==
    \/ s.session # 0 \/ s.gaveUp # "none" \/ pass = "deferred"
    \/ ~up \/ shutting
    \/ s.exit # Running /\ ~BootResumes(s.exit)
PassDecides == TakenOn ~> Decided
=============================================================================
