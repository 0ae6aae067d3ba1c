---------------------------- MODULE MCTurnQueue ----------------------------
(***************************************************************************)
(* What TLC checks of TurnQueue.                                           *)
(***************************************************************************)
EXTENDS TurnQueue

Ids(s) == {s[i].id : i \in 1 .. Len(s)}

(* The hold a turn takes on the queue always has a reader that can give it *)
(* back, and nobody else is parked: a stranded hold would answer 409       *)
(* turn_in_flight for the rest of the session's life.                      *)
TurnHoldsHasOwner ==
    /\ turnHolds => reader \in LiveTurns
    /\ waiting # 0 => waiting = reader
    /\ \A c, d \in LiveTurns : c = d

(* A reader was handed the notice of an overflow, which ends its turn.     *)
Overflowed == \E i \in 1 .. Len(log) : log[i].id = 0

(* The end of a managed turn is read by that turn's own generator, never   *)
(* by the drain between turns and never by a later turn, and a generator   *)
(* returns on no other end than its own; the exception is a turn that the  *)
(* notice of an overflow ended before its answer came.                     *)
EndReachesItsTurn ==
    pump # "bare" /\ ~Overflowed =>
        \A c \in Claims :
            LET r == readers[c] IN
            /\ r.ev.turn # 0 => r.kind = "turn" /\ r.of = r.ev.turn
            /\ r.kind = "turn" /\ r.ev.kind \in {"turn_end", "error"} /\ r.ev.id # 0
               => r.of = r.ev.turn

(* Every event the session emitted is in exactly the places it may be:     *)
(* read, on its way to a reader, buffered, held as a draft or accounted    *)
(* for as dropped.  No hand-over between readers loses one.                *)
NothingLost ==
    \A i \in 1 .. emitted :
        \/ i \in Ids(log)
        \/ i \in Ids(buffered)
        \/ \E c \in Claims : readers[c].st = "got" /\ readers[c].ev.id = i
        \/ i = draft
        \/ i \in dropped

(* Readers hand events on in the order the session emitted them, each one  *)
(* once, across every hand-over.  Lines of stderr are apart: they overtake   *)
(* a draft that is held back (session.ts:1507).                            *)
ReadInOrder ==
    \A i, j \in 1 .. Len(log) :
        i < j /\ log[i].kind # "log" /\ log[j].kind # "log"
            /\ log[i].id # 0 /\ log[j].id # 0
        => log[i].id < log[j].id

(* A turn that was answered, abandoned or disposed of ends in the managed  *)
(* session too.                                                            *)
TurnEnds == (pump = "stream" /\ (~turnActive \/ closed)) ~> (pump # "stream")

(* What the agent says is read whether or not a turn is running.           *)
BufferDrains == (pump # "bare" /\ buffered # <<>>) ~> (buffered = <<>>)
=============================================================================
