---------------------------- MODULE MCEventStream ----------------------------
(***************************************************************************)
(* What TLC checks of EventStream.                                         *)
(***************************************************************************)
EXTENDS EventStream

Delivery == INSTANCE EventDelivery WITH cursor <- client.last

(* The client is handed each event once and in order, told of what it will *)
(* not get, and skipped ahead only when it is more than ReplayMax behind,  *)
(* over whatever sockets its frames come.                                  *)
DeliversTheLog == Delivery!Spec

(* stream.ts:337: "A hole.  This should be impossible on one socket":  *)
(* the events a heeded frame brings follow on from the cursor.             *)
HolesAreImpossible ==
    \A s \in Sockets : Arrives(s, "events") => NextRun(s) = Unread(s)

(* A successor is a socket whose frames and close are heeded: were it not, *)
(* the field would never be cleared and no rotation would start again      *)
(* (stream.ts:199-216).                                                    *)
SuccessorIsHeard ==
    client.successor # None =>
        client.successor \in InUse /\ conns[client.successor].succ

(* A stream is not kept busy for ever: a socket that is opened for one     *)
(* that closed, for a hole or for a replay that was declined leads to one  *)
(* that has nothing more to bring, and a stream that is stopped lets go of *)
(* all it had under way.  The exception is a session that the daemon       *)
(* pruned: its handshakes are refused with a 404 that reads as 1006        *)
(* (server.ts:4885-4888, stream.ts:426-434), and the client tries again    *)
(* until it is stopped.                                                    *)
StreamSettles == <>[](AtRest \/ (gone /\ ~client.stopped))

(* Whatever happened to its sockets, a stream comes to rest only on one    *)
(* that is attached, at the end of the log of a session that is there, or  *)
(* because it was stopped.                                                 *)
RestsAtTheHead ==
    AtRest => \/ client.stopped
              \/ /\ client.socket # None /\ conns[client.socket].st = "attached"
                 /\ ~gone /\ client.last = head

(* server.ts:133: "Nothing is destroyed and nothing is silently skipped":  *)
(* once all that was sent has arrived, the client has been handed or told  *)
(* of every event up to its cursor.                                        *)
NothingSilentlySkipped ==
    AtRest /\ ~client.stopped => (base + 1)..client.last \subseteq handed \cup told
=============================================================================
