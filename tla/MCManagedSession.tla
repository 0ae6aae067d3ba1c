-------------------------- MODULE MCManagedSession --------------------------
(***************************************************************************)
(* What TLC checks of ManagedSession.                                      *)
(***************************************************************************)
EXTENDS ManagedSession, TLC

Symmetry == Permutations(Messages) \cup Permutations(Asks)

Elements(s) == {s[i] : i \in DOMAIN s}

(* registry.ts:5733-5772 argues that no more than MAX_QUEUED_PROMPTS       *)
(* messages ever wait: every entry was covered by a reservation before it, *)
(* and a reservation outlives the await it was taken for.                  *)
QueueBound == Len(queue) + midTurnAccepted <= MaxQueuedPrompts

(* midTurnAccepted is exactly the sends that are inside an await: none     *)
(* leaks and none is given back twice, whatever ends the await.            *)
ReservationsHeld ==
    midTurnAccepted = Cardinality({m \in Messages : msg[m] \in Waiting})

(* A message whose steer gave up finds room in the queue: the check for a  *)
(* queue that filled up meanwhile (registry.ts:5772-5779) never drops it.  *)
RoomForEverySend == \A m \in Messages : msg[m] \in Waiting => Len(queue) < MaxQueuedPrompts

(* The queue holds the queued messages, each once, by the ordinal they     *)
(* were accepted under, however their steers gave up.                      *)
QueueInAcceptOrder ==
    /\ Elements(queue) = {m \in Messages : msg[m] = "queued"}
    /\ \A i, j \in DOMAIN queue : i < j => order[queue[i]] < order[queue[j]]

(* A message waits in the queue only while something is going to ask for   *)
(* it: a turn whose end does, a clear or a restart that is under way, or a *)
(* stop that drops it (registry.ts:6024-6036: "every path out of one asks  *)
(* again").                                                                *)
NoStrandedQueue ==
    queue # <<>> => \/ turn # NoTurn \/ clearing \/ restarting
                    \/ stopping = "await" /\ ~comingBack

(* The turn the session shows is the turn that is being pumped, and there  *)
(* is one: no restart, stop or steer starts a second next to it.           *)
OneTurn == \A m \in Messages : msg[m] \in Pumped <=> turn = m

(* No message reaches an agent twice, whether steered, queued or both, and *)
(* one that still waits has not reached any (session.ts:176-184 names the  *)
(* one exception, a steer that times out though the agent took it).        *)
ToldOnce ==
    /\ \A i, j \in DOMAIN told : told[i] = told[j] => i = j
    /\ \A i \in DOMAIN told : msg[told[i]] \in {"running", "ended", "failed",
                                                "silent", "steered"}

(* A question that waits for a person belongs to the turn that is running  *)
(* and to a session that has not ended: none outlives what asked it.       *)
AskHasItsTurn ==
    \A a \in Asks : ask[a].st = "pending" =>
        ask[a].turn = turn /\ turn # NoTurn /\ ~terminal

(* A cancel cancels the asks of the turn it was for and of no later turn,  *)
(* though its call to the agent may return when that turn is long over.    *)
CancelKeepsToItsTurn ==
    [][\A a \in Asks : ask'[a].by = "turn_cancelled" /\ ask[a].st = "pending"
            => ask[a].turn = cancelling]_vars

(* A message that was accepted does not wait for ever: it is delivered, or *)
(* the log says that it is not.                                            *)
AcceptedSettles ==
    \A m \in Messages : msg[m] \in Waiting \cup {"queued"} ~> msg[m] \in Final

(* The window in which prompts are refused with "restarting" closes.       *)
RestartEndsSometime == restarting ~> ~restarting
=============================================================================
