--------------------------- MODULE EventDelivery ---------------------------
(***************************************************************************)
(* What the event stream of a session promises the client that reads it    *)
(* (packages/web/src/stream.ts:6-18, src/server.ts:125-138).  The log      *)
(* numbers events densely.  The client stands at a cursor, and the cursor  *)
(* moves in one of three ways: the next events are handed over, all of     *)
(* them and in order; the client is told of a range it will not be sent;   *)
(* or, when it is more than ReplayMax behind, it is put at the newest      *)
(* ReplayMax events.  Nothing else ever happens to a client, whatever      *)
(* connections it takes to get there.                                      *)
(***************************************************************************)
EXTENDS Integers

CONSTANT ReplayMax    \* ATTACH_REPLAY_MAX, server.ts:146

VARIABLES
    head,     \* the newest event of the log
    base,     \* where the client began
    cursor,   \* SessionStream.lastAppliedSeq
    handed,   \* the events given to the client: StreamSink.onEvents
    told      \* the events it was told it will not be sent: StreamSink.onGap

vars == <<head, base, cursor, handed, told>>

TypeOK ==
    /\ head \in Nat /\ base \in Nat /\ cursor \in Nat
    /\ handed \subseteq Nat /\ told \subseteq Nat

Init ==
    /\ head \in Nat
    /\ base \in 0..head
    /\ cursor = base
    /\ handed = {} /\ told = {}

(* SessionLog.append (events.ts:1647-1658).                                *)
Log ==
    /\ head' = head + 1
    /\ UNCHANGED <<base, cursor, handed, told>>

(* onEvents: the events after the cursor, up to some event.                *)
Hand ==
    \E to \in (cursor + 1)..head :
        /\ cursor' = to
        /\ handed' = handed \cup (cursor + 1)..to
        /\ UNCHANGED <<head, base, told>>

(* onGap: a range that leaves nothing between it and the cursor.           *)
Tell ==
    \E from \in (base + 1)..(cursor + 1), to \in 1..head :
        /\ cursor' = IF to > cursor THEN to ELSE cursor
        /\ told' = told \cup from..to
        /\ UNCHANGED <<head, base, handed>>

(* An attach that declines to replay more than ReplayMax events.           *)
Skip ==
    \E to \in (cursor + 1)..head :
        /\ to + ReplayMax <= head
        /\ cursor' = to
        /\ UNCHANGED <<head, base, handed, told>>

Next == Log \/ Hand \/ Tell \/ Skip

Spec == Init /\ [][Next]_vars
-----------------------------------------------------------------------------
(* What has been handed over or told lies between where the client began   *)
(* and where it stands: no event comes early, and none comes from before.  *)
Bounded ==
    /\ base <= cursor /\ cursor <= head
    /\ handed \subseteq (base + 1)..cursor
    /\ told \subseteq (base + 1)..cursor

(* An event is handed over once, and after every earlier one: what a step  *)
(* hands over is above all that was handed or told before, and is the      *)
(* whole range from the old cursor to the new one.                         *)
HandedOnceInOrder ==
    [][handed' # handed =>
        /\ (handed' \ handed) \cap (base + 1)..cursor = {}
        /\ handed' \ handed = (cursor + 1)..cursor']_vars

(* A client at most ReplayMax behind the log misses nothing in silence.    *)
NothingSkippedNearHead ==
    [][head < cursor' + ReplayMax =>
        (cursor + 1)..cursor' \subseteq handed' \cup told']_vars
=============================================================================
