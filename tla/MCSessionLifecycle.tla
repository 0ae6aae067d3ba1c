------------------------- MODULE MCSessionLifecycle -------------------------
(***************************************************************************)
(* What TLC checks of SessionLifecycle.                                    *)
(***************************************************************************)
EXTENDS SessionLifecycle

Launching == startPromise' # startPromise

(* A stop waited for a launch that was given up on.  It goes on when that  *)
(* launch settles, in whatever life the session has by then.               *)
Astray == \E s \in Stops : stops[s].late

(* An agent that is up is the one the session has, and the session does    *)
(* not read as ended: nobody else would ever dispose of it                 *)
(* (registry.ts:3846-3861, 5028-5035).  A stop gone astray can break this. *)
LiveAgentIsHeld ==
    ~Astray =>
        \A l \in Launches : agent[l] = "up" => startPromise = l /\ session = l /\ ~terminal

(* A wake heeds a stop that comes while it is making room: it does not     *)
(* start the session that a person stopped after asking for it             *)
(* (registry.ts:5106-5119).  What the daemon does of its own accord is     *)
(* StopIsFinal's.                                                          *)
WakeHeedsStop == [][Launching /\ waiter'.by = "person" => person # "stopped"]_vars

(* The first reason a session ended for stands, so the daemon's promise to *)
(* bring it back is neither lost nor made up: the exception is parked,     *)
(* which a person's stop or a sign-out replaces, and which a sign-in gives *)
(* back to what was asleep when its agent was signed out.                  *)
ReasonStands ==
    [][terminal /\ exit' # exit /\ ~Astray =>
        \/ exit' = Running
        \/ exit = "parked" /\ exit' \in {"stopped", "agent_signed_out"}
        \/ exit = "agent_signed_out" /\ exit' = "parked" /\ parkedOnce]_vars

(* One doStop disposes of an agent at a time, and only of the agent of the *)
(* life it was called in.                                                  *)
StopsItsOwnLife ==
    ~Astray =>
        \A s \in Stops : stops[s].st \in {"await", "dispose"} /\ ~terminal => memo = s

(* A stop ends the session, whether its agent was up, on its way up or     *)
(* going away by itself.                                                   *)
StopCompletes == stopRequested /\ ~terminal ~> terminal

(* registry.ts:564-566: "nothing revives a stopped conversation on its     *)
(* own".                                                                   *)
StopIsFinal == [][Launching => person # "stopped"]_vars
=============================================================================
