-------------------------- MODULE TurnQueueProofs --------------------------
(***************************************************************************)
(* Proofs about TurnQueue, for every number of turns, claims and events    *)
(* and every capacity of the buffer: the types, that the hold a turn takes *)
(* on the queue always has a reader that can give it back, that no event   *)
(* is lost, that events are read in order, and that the end of a turn is   *)
(* read by that turn.                                                      *)
(***************************************************************************)
EXTENDS MCTurnQueue, WellFoundedInduction, TLAPS

-----------------------------------------------------------------------------
(* The buffer. *)

(* A set of numbers that is not empty has a least one: what findIndex finds *)
(* in EventQueue.push.                                                     *)
LEMMA NatMin ==
    ASSUME NEW T \in SUBSET Nat, T # {}
    PROVE  \E i \in T : \A j \in T : i <= j
<1> DEFINE R == {ss \in Nat \X Nat : ss[1] < ss[2]}
<1>1. IsWellFoundedOn(R, Nat)
  BY NatLessThanWellFounded DEF OpToRel
<1>2. PICK i \in T : \A j \in T : <<j, i>> \notin R
  <2> HIDE DEF R
  <2> QED BY <1>1, WFMin, Zenon
<1>3. \A j \in T : ~(j < i)
  BY <1>2
<1> QED BY <1>3

(* The event EventQueue.push drops is one that is in the buffer.           *)
LEMMA OldestDroppableInRange ==
    ASSUME NEW s \in Seq(SessionEvent), Droppable(s) # {}
    PROVE  OldestDroppable(s) \in 1 .. Len(s)
<1>1. Droppable(s) \in SUBSET Nat
  BY DEF Droppable
<1>2. \E i \in Droppable(s) : \A j \in Droppable(s) : i <= j
  BY <1>1, NatMin
<1> QED BY <1>2 DEF OldestDroppable, Droppable

(* Pushing an event leaves a buffer of events and drops nothing else,      *)
(* whichever of EventQueue.push's three ways it takes.                     *)
LEMMA BufferedType ==
    ASSUME NEW s \in Seq(SessionEvent), NEW e \in SessionEvent
    PROVE  /\ Buffered(s, e).seq \in Seq(SessionEvent)
           /\ Buffered(s, e).gone \subseteq Nat
<1> DEFINE t == Append(s, e)
<1>1. t \in Seq(SessionEvent) /\ Len(t) >= 1
  OBVIOUS
<1>2. CASE Len(t) <= MaxBuffered
  BY <1>1, <1>2 DEF Buffered
<1>3. CASE ~(Len(t) <= MaxBuffered) /\ Droppable(t) # {}
  <2> DEFINE o == OldestDroppable(t)
  <2>1. Buffered(s, e) = [seq |-> Without(t, o), gone |-> {t[o].id}]
    BY <1>3 DEF Buffered
  <2> HIDE DEF t
  <2>2. o \in 1 .. Len(t)
    BY <1>1, <1>3, OldestDroppableInRange
  <2> HIDE DEF o
  <2>3. Without(t, o) \in Seq(SessionEvent)
    BY <1>1, <2>2 DEF Without
  <2>4. t[o] \in SessionEvent
    BY <1>1, <2>2
  <2> QED BY <2>1, <2>3, <2>4 DEF SessionEvent
<1>4. CASE ~(Len(t) <= MaxBuffered) /\ Droppable(t) = {}
  <2> DEFINE lost == Ev("error", 0, 0)
  <2>1. Buffered(s, e) = [seq |-> Append(Tail(t), lost), gone |-> {t[1].id}]
    BY <1>4 DEF Buffered
  <2>2. lost \in SessionEvent
    BY DEF Ev, SessionEvent
  <2> HIDE DEF t, lost
  <2>3. t[1] \in SessionEvent /\ Tail(t) \in Seq(SessionEvent)
    BY <1>1
  <2>4. Append(Tail(t), lost) \in Seq(SessionEvent)
    BY <2>2, <2>3
  <2> QED BY <2>1, <2>3, <2>4 DEF SessionEvent
<1> QED BY <1>2, <1>3, <1>4

-----------------------------------------------------------------------------
(* The types. *)

(* 0 stands for no reader. *)
LEMMA NobodyWaits == 0 \in 0 .. MaxClaims
BY BoundsAssumption

(* What a push or a hand-over changes.                                     *)
QueueTypes ==
    /\ buffered \in Seq(SessionEvent)
    /\ waiting \in 0 .. MaxClaims
    /\ readers \in [Claims -> Reader]
    /\ dropped \subseteq Nat

(* Handing an event to a reader leaves readers.                            *)
LEMMA GiveType ==
    ASSUME NEW rs \in [Claims -> Reader], NEW c \in Claims, NEW e \in Event
    PROVE  Give(rs, c, e) \in [Claims -> Reader]
BY DEF Give, Reader

(* What the session pushes is an event. *)
LEMMA EventTypes ==
    /\ SessionEvent \subseteq Event
    /\ NoEvent \in Event
    /\ Closed \in Event
    /\ \A k \in {"update", "other", "log", "turn_end", "error"}, n, i \in Nat :
           Ev(k, n, i) \in SessionEvent
BY DEF SessionEvent, Event, Ev

(* A push keeps the types (EventQueue.push).                               *)
LEMMA Push1Type ==
    ASSUME QueueTypes, NEW e \in SessionEvent, Push1(e)
    PROVE  QueueTypes'
<1>1. e \in Event /\ e.id \in Nat
  BY EventTypes DEF SessionEvent
<1>2. CASE closed
  BY <1>1, <1>2 DEF QueueTypes, Push1
<1>3. CASE ~closed /\ waiting # 0
  <2>1. waiting \in Claims
    BY <1>3 DEF QueueTypes, Claims
  <2>2. Give(readers, waiting, e) \in [Claims -> Reader]
    BY <1>1, <2>1, GiveType DEF QueueTypes
  <2>3. readers' = Give(readers, waiting, e) /\ waiting' = 0
        /\ UNCHANGED <<buffered, dropped>>
    BY <1>3 DEF Push1
  <2> QED BY <2>2, <2>3, NobodyWaits DEF QueueTypes
<1>4. CASE ~closed /\ waiting = 0
  <2>1. /\ Buffered(buffered, e).seq \in Seq(SessionEvent)
        /\ Buffered(buffered, e).gone \subseteq Nat
    BY BufferedType DEF QueueTypes
  <2> QED BY <1>4, <2>1 DEF QueueTypes, Push1
<1> QED BY <1>2, <1>3, <1>4

(* So do two in a row.                                                     *)
LEMMA Push2Type ==
    ASSUME QueueTypes, NEW e \in SessionEvent, NEW f \in SessionEvent, Push2(e, f)
    PROVE  QueueTypes'
<1>1. e \in Event /\ e.id \in Nat /\ f.id \in Nat
  BY EventTypes DEF SessionEvent
<1>2. CASE closed
  BY <1>1, <1>2 DEF QueueTypes, Push2
<1>3. CASE ~closed /\ waiting # 0
  <2>1. waiting \in Claims
    BY <1>3 DEF QueueTypes, Claims
  <2>2. Give(readers, waiting, e) \in [Claims -> Reader]
    BY <1>1, <2>1, GiveType DEF QueueTypes
  <2>3. /\ Buffered(buffered, f).seq \in Seq(SessionEvent)
        /\ Buffered(buffered, f).gone \subseteq Nat
    BY BufferedType DEF QueueTypes
  <2>4. /\ readers' = Give(readers, waiting, e)
        /\ waiting' = 0
        /\ buffered' = Buffered(buffered, f).seq
        /\ dropped' = dropped \cup Buffered(buffered, f).gone
    BY <1>3 DEF Push2
  <2> QED BY <2>2, <2>3, <2>4, NobodyWaits DEF QueueTypes
<1>4. CASE ~closed /\ waiting = 0
  <2> DEFINE b == Buffered(buffered, e)
  <2>1. b.seq \in Seq(SessionEvent) /\ b.gone \subseteq Nat
    BY BufferedType DEF QueueTypes
  <2>2. /\ Buffered(b.seq, f).seq \in Seq(SessionEvent)
        /\ Buffered(b.seq, f).gone \subseteq Nat
    BY <2>1, BufferedType
  <2>3. /\ buffered' = Buffered(b.seq, f).seq
        /\ dropped' = dropped \cup b.gone \cup Buffered(b.seq, f).gone
        /\ UNCHANGED <<waiting, readers>>
    BY <1>4 DEF Push2
  <2> QED BY <2>1, <2>2, <2>3 DEF QueueTypes
<1> QED BY <1>2, <1>3, <1>4

(* So does a push that sends the held draft first.                         *)
LEMMA FlushAndPushType ==
    ASSUME QueueTypes, draft \in Nat, NEW e \in SessionEvent, FlushAndPush(e)
    PROVE  QueueTypes' /\ draft' = 0
<1>1. Ev("update", 0, draft) \in SessionEvent
  BY EventTypes
<1> QED BY <1>1, Push1Type, Push2Type DEF FlushAndPush

(* EventQueue.next keeps the types, whichever reader asks.                 *)
LEMMA TakeType ==
    ASSUME QueueTypes, UNCHANGED dropped,
           NEW rs \in [Claims -> Reader], NEW c \in Claims, Take(rs, c)
    PROVE  QueueTypes'
<1>1. CASE buffered # <<>>
  <2>1. Head(buffered) \in Event /\ Tail(buffered) \in Seq(SessionEvent)
    BY <1>1, EventTypes DEF QueueTypes
  <2>2. Give(rs, c, Head(buffered)) \in [Claims -> Reader]
    BY <2>1, GiveType
  <2>3. /\ readers' = Give(rs, c, Head(buffered))
        /\ buffered' = Tail(buffered)
        /\ waiting' = 0
    BY <1>1 DEF Take
  <2> QED BY <2>1, <2>2, <2>3, NobodyWaits DEF QueueTypes
<1>2. CASE buffered = <<>> /\ closed
  <2>1. Give(rs, c, Closed) \in [Claims -> Reader]
    BY EventTypes, GiveType
  <2>2. readers' = Give(rs, c, Closed) /\ waiting' = 0 /\ UNCHANGED buffered
    BY <1>2 DEF Take
  <2> QED BY <2>1, <2>2, NobodyWaits DEF QueueTypes
<1>3. CASE buffered = <<>> /\ ~closed
  <2>1. [rs EXCEPT ![c].st = "parked"] \in [Claims -> Reader]
    BY DEF Reader
  <2> QED BY <1>3, <2>1 DEF QueueTypes, Take, Claims
<1> QED BY <1>1, <1>2, <1>3

(* The readers a new claim starts from: the parked one has been displaced, *)
(* and the new one is about to ask for its first event.                    *)
Displaced == IF waiting = 0 THEN readers ELSE Give(readers, waiting, NoEvent)
Claimed(kind, turn) ==
    [Displaced EXCEPT ![reader + 1] = [kind |-> kind, st |-> "got", ev |-> NoEvent,
                                       of |-> turn]]

(* A claim of the queue keeps its types. *)
LEMMA ClaimedType ==
    ASSUME QueueTypes, reader + 1 \in Claims,
           NEW kind \in {"turn", "drain"}, NEW turn \in Nat
    PROVE  /\ Displaced \in [Claims -> Reader]
           /\ Claimed(kind, turn) \in [Claims -> Reader]
<1>1. waiting # 0 => Give(readers, waiting, NoEvent) \in [Claims -> Reader]
  BY EventTypes, GiveType DEF QueueTypes, Claims
<1>2. Displaced \in [Claims -> Reader]
  BY <1>1 DEF Displaced, QueueTypes
<1>3. [kind |-> kind, st |-> "got", ev |-> NoEvent, of |-> turn] \in Reader
  BY EventTypes DEF Reader
<1> QED BY <1>2, <1>3 DEF Claimed

(* And so does a hand-over.                                                *)
LEMMA HandOverType ==
    ASSUME QueueTypes, UNCHANGED dropped, reader \in 0 .. MaxClaims, reader # MaxClaims,
           NEW kind \in {"turn", "drain"}, NEW turn \in Nat, HandOver(kind, turn)
    PROVE  QueueTypes' /\ reader' = reader + 1 /\ reader + 1 \in Claims
<1>1. reader + 1 \in Claims
  BY BoundsAssumption DEF Claims
<1>2. Take(Claimed(kind, turn), reader + 1) /\ reader' = reader + 1
  BY DEF HandOver, Claimed, Displaced
<1>3. Claimed(kind, turn) \in [Claims -> Reader]
  BY <1>1, ClaimedType
<1> QED BY <1>1, <1>2, <1>3, TakeType

(* The drain keeps the types of the queue. *)
LEMMA DrainType ==
    ASSUME QueueTypes, UNCHANGED dropped, reader \in 0 .. MaxClaims, turnHolds \in BOOLEAN,
           closed \in BOOLEAN, DrainBetweenTurns
    PROVE  /\ QueueTypes'
           /\ reader' \in 0 .. MaxClaims
           /\ turnHolds' \in BOOLEAN
           /\ closed' \in BOOLEAN
<1>1. CASE turnHolds \/ reader = MaxClaims
  BY <1>1 DEF DrainBetweenTurns, queueVars, QueueTypes
<1>2. CASE ~(turnHolds \/ reader = MaxClaims)
  <2>1. HandOver("drain", 0) /\ UNCHANGED <<closed, turnHolds>>
    BY <1>2 DEF DrainBetweenTurns
  <2>2. QueueTypes' /\ reader' = reader + 1 /\ reader + 1 \in Claims
    BY <1>2, <2>1, HandOverType
  <2> QED BY <2>1, <2>2 DEF Claims
<1> QED BY <1>1, <1>2

(* The other variables: the flags, and the rest.                           *)
FlagTypes ==
    /\ closed \in BOOLEAN
    /\ turnHolds \in BOOLEAN
    /\ turnActive \in BOOLEAN
    /\ toolSent \in BOOLEAN

OtherTypes ==
    /\ reader \in 0 .. MaxClaims
    /\ promptEpoch \in Nat
    /\ prompts \in 0 .. MaxTurns
    /\ rpc \in [Turns -> Rpc]
    /\ draft \in Nat
    /\ disposal \in {"none", "flushed", "closed"}
    /\ pump \in {"unstarted", "idle", "attach", "stream", "bare"}
    /\ emitted \in Nat
    /\ log \in Seq(SessionEvent)

(* TypeOK in the parts that steps touch separately. *)
LEMMA TypeParts == TypeOK <=> QueueTypes /\ FlagTypes /\ OtherTypes
BY DEF TypeOK, QueueTypes, FlagTypes, OtherTypes

(* The same of the next state. *)
LEMMA TypePartsPrime == TypeOK' <=> QueueTypes' /\ FlagTypes' /\ OtherTypes'
BY DEF TypeOK, QueueTypes, FlagTypes, OtherTypes

(***************************************************************************)
(* Whatever a session does (Session.prompt, abandonTurn, dispose, and the  *)
(* agent in between), its queue, flags and readers are of their types.     *)
(***************************************************************************)
THEOREM TypeCorrect == Spec => []TypeOK
<1>1. Init => TypeOK
  <2> SUFFICES ASSUME Init PROVE TypeOK
    OBVIOUS
  <2>1. QueueTypes
    <3>1. buffered \in Seq(SessionEvent)
      BY EventTypes DEF Init
    <3>2. readers \in [Claims -> Reader]
      BY EventTypes DEF Init, Unused, Reader
    <3> QED BY <3>1, <3>2, NobodyWaits DEF Init, QueueTypes
  <2>2. FlagTypes
    BY DEF Init, FlagTypes
  <2>3. OtherTypes
    <3>1. rpc \in [Turns -> Rpc]
      BY DEF Init, Rpc
    <3>2. prompts \in 0 .. MaxTurns /\ reader \in 0 .. MaxClaims
      BY BoundsAssumption DEF Init
    <3>3. log \in Seq(SessionEvent) /\ emitted \in Nat
      BY DEF Init
    <3>4. pump \in {"unstarted", "idle", "attach", "stream", "bare"}
      BY ModeAssumption DEF Init
    <3> QED BY <3>1, <3>2, <3>3, <3>4 DEF Init, OtherTypes
  <2> QED BY <2>1, <2>2, <2>3, TypeParts
<1>2. TypeOK /\ [Next]_vars => TypeOK'
  <2> SUFFICES ASSUME TypeOK, [Next]_vars PROVE QueueTypes' /\ FlagTypes' /\ OtherTypes'
    BY TypePartsPrime
  <2>1. QueueTypes /\ FlagTypes /\ OtherTypes
    BY TypeParts
  <2>2. draft \in Nat /\ emitted \in Nat /\ prompts \in Nat
    BY <2>1 DEF OtherTypes
  <2>3. CASE Update
    <3>1. /\ Ev("update", 0, emitted + 1) \in SessionEvent
          /\ Ev("other", 0, emitted + 1) \in SessionEvent
      BY <2>2, EventTypes
    <3>2. QueueTypes' /\ draft' = 0
      BY <2>1, <2>2, <2>3, <3>1, FlushAndPushType DEF Update
    <3>3. FlagTypes'
      BY <2>1, <2>3 DEF Update, FlagTypes
    <3>4. OtherTypes'
      BY <2>1, <2>3, <3>2 DEF Update, OtherTypes
    <3> QED BY <3>2, <3>3, <3>4
  <2>4. CASE HoldDraft
    <3>1. QueueTypes' /\ FlagTypes'
      BY <2>1, <2>2, <2>4 DEF HoldDraft, queueVars, QueueTypes, FlagTypes
    <3>2. OtherTypes'
      BY <2>1, <2>4 DEF HoldDraft, queueVars, OtherTypes
    <3> QED BY <3>1, <3>2
  <2>5. CASE AgentLog
    <3>1. Ev("log", 0, emitted + 1) \in SessionEvent
      BY <2>2, EventTypes
    <3>2. QueueTypes'
      BY <2>1, <2>5, <3>1, Push1Type DEF AgentLog
    <3>3. FlagTypes'
      BY <2>1, <2>5 DEF AgentLog, FlagTypes
    <3>4. OtherTypes'
      BY <2>1, <2>5 DEF AgentLog, OtherTypes
    <3> QED BY <3>2, <3>3, <3>4
  <2>6. ASSUME NEW n \in Turns, Answer(n) PROVE QueueTypes' /\ FlagTypes' /\ OtherTypes'
    <3>1. rpc' \in [Turns -> Rpc]
      BY <2>1, <2>6 DEF Answer, OtherTypes, Rpc
    <3>2. CASE Current(n)
      <4>1. PICK kind \in {"turn_end", "error"} :
                FlushAndPush(Ev(kind, n, emitted + 1))
        BY <2>6, <3>2 DEF Answer
      <4>2. Ev(kind, n, emitted + 1) \in SessionEvent
        BY <2>2, EventTypes DEF Turns
      <4>3. QueueTypes' /\ draft' = 0
        BY <2>1, <2>2, <4>1, <4>2, FlushAndPushType
      <4>4. FlagTypes'
        BY <2>1, <2>6, <3>2 DEF Answer, FlagTypes
      <4>5. emitted' = emitted + 1
            /\ UNCHANGED <<reader, promptEpoch, prompts, disposal, pump, log>>
        BY <2>6, <3>2 DEF Answer
      <4>6. OtherTypes'
        BY <2>1, <3>1, <4>3, <4>5 DEF OtherTypes
      <4> QED BY <4>3, <4>4, <4>6
    <3>3. CASE ~Current(n)
      <4>1. QueueTypes' /\ FlagTypes'
        BY <2>1, <2>6, <3>3 DEF Answer, QueueTypes, FlagTypes
      <4>2. OtherTypes'
        BY <2>1, <2>6, <3>1, <3>3 DEF Answer, OtherTypes
      <4> QED BY <4>1, <4>2
    <3> QED BY <3>2, <3>3
  <2>7. CASE Prompt
    <3>1. HandOver("turn", prompts + 1) /\ reader # MaxClaims /\ UNCHANGED dropped
      BY <2>1, <2>7, BoundsAssumption DEF Prompt, OtherTypes
    <3>2. QueueTypes' /\ reader' = reader + 1 /\ reader + 1 \in Claims
      BY <2>1, <2>2, <3>1, HandOverType DEF OtherTypes
    <3>3. FlagTypes'
      BY <2>1, <2>7 DEF Prompt, FlagTypes
    <3>4. reader' \in 0 .. MaxClaims
      BY <3>2 DEF Claims
    <3>5. prompts' \in 0 .. MaxTurns
      BY <2>1, <2>7, BoundsAssumption DEF Prompt, OtherTypes
    <3>6. rpc' \in [Turns -> Rpc]
      <4>1. [st |-> "open", epoch |-> promptEpoch + 1] \in Rpc
        BY <2>1 DEF OtherTypes, Rpc
      <4> QED BY <2>1, <2>7, <4>1 DEF Prompt, OtherTypes
    <3>7. OtherTypes'
      BY <2>1, <2>7, <3>4, <3>5, <3>6 DEF Prompt, OtherTypes
    <3> QED BY <3>2, <3>3, <3>7
  <2>8. CASE PromptThrows
    <3>1. QueueTypes' /\ FlagTypes'
      BY <2>1, <2>8 DEF PromptThrows, queueVars, ghostVars, QueueTypes, FlagTypes
    <3>2. OtherTypes'
      BY <2>1, <2>8 DEF PromptThrows, queueVars, ghostVars, OtherTypes
    <3> QED BY <3>1, <3>2
  <2>9. ASSUME DrainBetweenTurns, UNCHANGED <<sessionVars, ghostVars>>,
               pump' \in {"idle", "attach"}
        PROVE  QueueTypes' /\ FlagTypes' /\ OtherTypes'
    <3>1. /\ QueueTypes'
          /\ reader' \in 0 .. MaxClaims
          /\ turnHolds' \in BOOLEAN
          /\ closed' \in BOOLEAN
      BY <2>1, <2>9, DrainType DEF FlagTypes, OtherTypes, ghostVars
    <3>2. FlagTypes'
      BY <2>1, <2>9, <3>1 DEF FlagTypes, sessionVars
    <3>3. OtherTypes'
      BY <2>1, <2>9, <3>1 DEF OtherTypes, sessionVars, ghostVars
    <3> QED BY <3>1, <3>2, <3>3
  <2>10. CASE OnStarted
    BY <2>9, <2>10 DEF OnStarted
  <2>11. ASSUME UNCHANGED <<queueVars, sessionVars, ghostVars>>,
                pump' \in {"unstarted", "idle", "attach", "stream", "bare"}
         PROVE  QueueTypes' /\ FlagTypes' /\ OtherTypes'
    <3>1. QueueTypes' /\ FlagTypes'
      BY <2>1, <2>11 DEF queueVars, sessionVars, ghostVars, QueueTypes, FlagTypes
    <3>2. OtherTypes'
      BY <2>1, <2>11 DEF queueVars, sessionVars, ghostVars, OtherTypes
    <3> QED BY <3>1, <3>2
  <2>12. CASE ArmTurn
    BY <2>11, <2>12 DEF ArmTurn
  <2>13. ASSUME NEW c \in Claims, Resume(c) PROVE QueueTypes' /\ FlagTypes' /\ OtherTypes'
    <3>1. log' \in Seq(SessionEvent)
      <4> DEFINE e == readers[c].ev
      <4>1. e \in Event /\ log \in Seq(SessionEvent)
        BY <2>1 DEF QueueTypes, OtherTypes, Reader
      <4>2. Sentinel(e) \/ e \in SessionEvent
        BY <4>1 DEF Event, Sentinel
      <4>3. log' = IF Sentinel(e) THEN log ELSE Append(log, e)
        BY <2>13 DEF Resume
      <4>4. CASE Sentinel(e)
        BY <4>1, <4>3, <4>4
      <4>5. CASE ~Sentinel(e) /\ e \in SessionEvent
        <5> HIDE DEF e
        <5> QED BY <4>1, <4>3, <4>5
      <4> QED BY <4>2, <4>4, <4>5
    <3>2. QueueTypes'
      <4>1. CASE Ends(readers[c])
        <5>1. [readers EXCEPT ![c].st = "done"] \in [Claims -> Reader]
          BY <2>1 DEF QueueTypes, Reader
        <5>2. readers' = [readers EXCEPT ![c].st = "done"]
              /\ UNCHANGED <<buffered, waiting, dropped>>
          BY <2>13, <4>1 DEF Resume
        <5> QED BY <2>1, <5>1, <5>2 DEF QueueTypes
      <4>2. CASE ~Ends(readers[c]) /\ c = reader
        <5>1. Take(readers, c) /\ UNCHANGED dropped
          BY <2>13, <4>2 DEF Resume
        <5> QED BY <2>1, <5>1, TakeType DEF QueueTypes
      <4>3. CASE ~Ends(readers[c]) /\ c # reader
        <5>1. Give(readers, c, NoEvent) \in [Claims -> Reader]
          BY <2>1, EventTypes, GiveType DEF QueueTypes
        <5>2. readers' = Give(readers, c, NoEvent)
              /\ UNCHANGED <<buffered, waiting, dropped>>
          BY <2>13, <4>3 DEF Resume
        <5> QED BY <2>1, <5>1, <5>2 DEF QueueTypes
      <4> QED BY <4>1, <4>2, <4>3
    <3>3. FlagTypes'
      BY <2>1, <2>13 DEF Resume, Release, FlagTypes, sessionVars
    <3>4. OtherTypes'
      BY <2>1, <2>13, <3>1 DEF Resume, OtherTypes, sessionVars
    <3> QED BY <3>2, <3>3, <3>4
  <2>14. CASE PumpFinally
    BY <2>9, <2>11, <2>14 DEF PumpFinally
  <2>15. CASE AbandonTurn
    <3>1. Ev("turn_end", prompts, emitted + 1) \in SessionEvent
      BY <2>2, EventTypes
    <3>2. QueueTypes' /\ draft' = 0
      BY <2>1, <2>2, <2>15, <3>1, FlushAndPushType DEF AbandonTurn
    <3>3. FlagTypes'
      BY <2>1, <2>15 DEF AbandonTurn, FlagTypes
    <3>4. OtherTypes'
      BY <2>1, <2>15, <3>2 DEF AbandonTurn, OtherTypes
    <3> QED BY <3>2, <3>3, <3>4
  <2>16. CASE DisposeFlush
    <3>1. Ev("update", 0, draft) \in SessionEvent
      BY <2>2, EventTypes
    <3>2. QueueTypes'
      BY <2>1, <2>16, <3>1, Push1Type DEF DisposeFlush, QueueTypes
    <3>3. FlagTypes'
      BY <2>1, <2>16 DEF DisposeFlush, FlagTypes
    <3>4. OtherTypes'
      BY <2>1, <2>16 DEF DisposeFlush, OtherTypes
    <3> QED BY <3>2, <3>3, <3>4
  <2>17. CASE DisposeClose
    <3>1. readers' \in [Claims -> Reader]
      <4>1. waiting # 0 => Give(readers, waiting, Closed) \in [Claims -> Reader]
        BY <2>1, EventTypes, GiveType DEF QueueTypes, Claims
      <4> QED BY <2>1, <2>17, <4>1 DEF DisposeClose, QueueTypes
    <3>2. QueueTypes'
      BY <2>1, <2>17, <3>1, NobodyWaits DEF DisposeClose, QueueTypes, ghostVars
    <3>3. FlagTypes'
      BY <2>1, <2>17 DEF DisposeClose, FlagTypes
    <3>4. OtherTypes'
      BY <2>1, <2>17 DEF DisposeClose, OtherTypes, ghostVars
    <3> QED BY <3>2, <3>3, <3>4
  <2>18. CASE UNCHANGED vars
    BY <2>1, <2>11, <2>18 DEF vars, OtherTypes
  <2> QED BY <2>3, <2>4, <2>5, <2>6, <2>7, <2>8, <2>10, <2>12, <2>13, <2>14, <2>15,
             <2>16, <2>17, <2>18 DEF Next, AnswerAny, ResumeAny
<1> QED BY <1>1, <1>2, PTL DEF Spec

-----------------------------------------------------------------------------
(* The hold of a turn. *)

(* Nobody is parked, and the claim c is the only live turn there may be,   *)
(* and is one if the hold h is taken: what EventQueue.next starts from.    *)
Asking(c, h, rs) ==
    /\ \A d \in Claims : rs[d].st # "parked"
    /\ \A d \in Claims : d > c => rs[d].st = "unused"
    /\ rs[c].st = "got"
    /\ h => rs[c].kind = "turn"
    /\ \A d \in Claims : rs[d].kind = "turn" /\ rs[d].st = "got" => h /\ d = c

(* The strengthening of TurnHoldsHasOwner that every step keeps.  w is     *)
(* waiting, r reader, h turnHolds and rs readers.  Only the last claim is  *)
(* ever parked; claims to come are unused; and a turn is live exactly when *)
(* it holds the queue, its claim being the last one.                       *)
Own(w, r, h, rs) ==
    /\ w # 0 => w = r /\ rs[w].st = "parked"
    /\ \A d \in Claims : rs[d].st = "parked" => d = w
    /\ \A d \in Claims : d > r => rs[d].st = "unused"
    /\ h => r \in Claims /\ rs[r].kind = "turn" /\ rs[r].st \in {"parked", "got"}
    /\ \A d \in Claims : rs[d].kind = "turn" /\ rs[d].st \in {"parked", "got"}
                             => h /\ d = r

OwnInv == Own(waiting, reader, turnHolds, readers)

(* A parked reader that is handed an event is live all the same.           *)
LEMMA GiveWaiting ==
    ASSUME QueueTypes, OwnInv, waiting # 0, NEW e \in Event
    PROVE  Own(0, reader, turnHolds, Give(readers, waiting, e))
<1>1. waiting \in Claims /\ waiting = reader
  BY DEF QueueTypes, Claims, OwnInv, Own
<1>2. Give(readers, waiting, e) \in [Claims -> Reader]
  BY <1>1, GiveType DEF QueueTypes
<1>3. \A d \in Claims :
          /\ Give(readers, waiting, e)[d].kind = readers[d].kind
          /\ Give(readers, waiting, e)[d].st = IF d = waiting THEN "got" ELSE readers[d].st
  BY <1>1 DEF Give, QueueTypes, Reader
<1> HIDE DEF Give
<1> QED BY <1>1, <1>2, <1>3 DEF OwnInv, Own

(* EventQueue.push changes hands with nobody but the reader it serves.     *)
LEMMA PushOwn ==
    ASSUME QueueTypes, OwnInv, UNCHANGED <<reader, turnHolds>>,
           NEW e \in SessionEvent,
           Push1(e) \/ \E f \in SessionEvent : Push2(e, f)
    PROVE  OwnInv'
<1>1. e \in Event
  BY EventTypes
<1>2. \/ UNCHANGED <<waiting, readers>>
      \/ waiting # 0 /\ waiting' = 0 /\ readers' = Give(readers, waiting, e)
  BY DEF Push1, Push2
<1>3. CASE UNCHANGED <<waiting, readers>>
  BY <1>3 DEF OwnInv
<1>4. CASE waiting # 0 /\ waiting' = 0 /\ readers' = Give(readers, waiting, e)
  BY <1>1, <1>4, GiveWaiting DEF OwnInv
<1> QED BY <1>2, <1>3, <1>4

(* A push leaves every hold with its owner. *)
LEMMA FlushAndPushOwn ==
    ASSUME QueueTypes, OwnInv, UNCHANGED <<reader, turnHolds>>, draft \in Nat,
           NEW e \in SessionEvent, FlushAndPush(e)
    PROVE  OwnInv'
<1>1. Ev("update", 0, draft) \in SessionEvent
  BY EventTypes
<1> QED BY <1>1, PushOwn DEF FlushAndPush

(* EventQueue.next parks the claim that asks, or gives it an event.        *)
LEMMA TakeOwn ==
    ASSUME NEW rs \in [Claims -> Reader], NEW c \in Claims, NEW h \in BOOLEAN,
           Asking(c, h, rs), Take(rs, c), buffered \in Seq(SessionEvent)
    PROVE  Own(waiting', c, h, readers')
<1>1. ASSUME NEW e \in Event, readers' = Give(rs, c, e), waiting' = 0
      PROVE  Own(waiting', c, h, readers')
  <2>1. \A d \in Claims :
            /\ readers'[d].kind = rs[d].kind
            /\ readers'[d].st = rs[d].st
    BY <1>1 DEF Give, Reader, Asking
  <2>2. \A d \in Claims : rs[d].st \in {"unused", "got", "done"}
    BY DEF Reader, Asking
  <2> QED BY <1>1, <2>1, <2>2 DEF Own, Asking, Claims
<1>2. ASSUME readers' = [rs EXCEPT ![c].st = "parked"], waiting' = c
      PROVE  Own(waiting', c, h, readers')
  <2>1. \A d \in Claims :
            /\ readers'[d].kind = rs[d].kind
            /\ readers'[d].st = IF d = c THEN "parked" ELSE rs[d].st
    BY <1>2 DEF Reader
  <2> QED BY <1>2, <2>1 DEF Own, Asking, Claims
<1>3. CASE buffered # <<>>
  <2>1. Head(buffered) \in Event
    BY <1>3, EventTypes
  <2> QED BY <1>1, <1>3, <2>1 DEF Take
<1>4. CASE buffered = <<>> /\ closed
  BY <1>1, <1>4, EventTypes DEF Take
<1>5. CASE buffered = <<>> /\ ~closed
  BY <1>2, <1>5 DEF Take
<1> QED BY <1>3, <1>4, <1>5

(* A hand-over to a turn takes the hold, and one to the drain happens only *)
(* while nobody has it (claimForTurn, claimForIdle, handover).             *)
LEMMA HandOverOwn ==
    ASSUME QueueTypes, OwnInv, reader \in 0 .. MaxClaims, reader # MaxClaims, ~turnHolds,
           NEW kind \in {"turn", "drain"}, NEW turn \in Nat, HandOver(kind, turn)
    PROVE  Own(waiting', reader', kind = "turn", readers')
<1> DEFINE c == reader + 1
<1>1. c \in Claims
  BY BoundsAssumption DEF Claims
<1>2. Take(Claimed(kind, turn), c) /\ reader' = c
  BY DEF HandOver, Claimed, Displaced
<1>3. Displaced \in [Claims -> Reader] /\ Claimed(kind, turn) \in [Claims -> Reader]
  BY <1>1, ClaimedType
<1>4. Own(0, reader, turnHolds, Displaced)
  <2>1. CASE waiting = 0
    BY <2>1 DEF Displaced, OwnInv
  <2>2. CASE waiting # 0
    BY <2>2, GiveWaiting, EventTypes DEF Displaced
  <2> QED BY <2>1, <2>2
<1>5. \A d \in Claims :
          /\ d # c => Claimed(kind, turn)[d] = Displaced[d]
          /\ d = c => Claimed(kind, turn)[d].kind = kind /\ Claimed(kind, turn)[d].st = "got"
  BY <1>3 DEF Claimed
<1>6. \A d \in Claims : Displaced[d].st # "parked"
  BY <1>4 DEF Own, Claims
<1>7. Asking(c, kind = "turn", Claimed(kind, turn))
  BY <1>1, <1>4, <1>5, <1>6 DEF Own, Asking, Claims
<1> HIDE DEF c
<1>8. Own(waiting', c, kind = "turn", readers')
  BY <1>1, <1>2, <1>3, <1>7, TakeOwn DEF QueueTypes
<1> QED BY <1>2, <1>8

(* The drain leaves every hold with its owner. *)
LEMMA DrainOwn ==
    ASSUME QueueTypes, OwnInv, reader \in 0 .. MaxClaims, turnHolds \in BOOLEAN,
           DrainBetweenTurns
    PROVE  OwnInv'
<1>1. CASE turnHolds \/ reader = MaxClaims
  BY <1>1 DEF DrainBetweenTurns, queueVars, OwnInv
<1>2. CASE ~(turnHolds \/ reader = MaxClaims)
  <2>1. HandOver("drain", 0) /\ turnHolds' = FALSE
    BY <1>2 DEF DrainBetweenTurns
  <2>2. Own(waiting', reader', "drain" = "turn", readers')
    BY <1>2, <2>1, HandOverOwn
  <2> QED BY <2>1, <2>2 DEF OwnInv, Own
<1> QED BY <1>1, <1>2

(* The continuation of a reader: a turn that returns gives the hold back.  *)
LEMMA ResumeOwn ==
    ASSUME QueueTypes, FlagTypes, OwnInv, NEW c \in Claims, Resume(c)
    PROVE  OwnInv'
<1>1. readers[c].st = "got" /\ reader' = reader
  BY DEF Resume
<1>2. CASE Ends(readers[c])
  <2>1. /\ readers' = [readers EXCEPT ![c].st = "done"]
        /\ turnHolds' = (turnHolds /\ ~(c = reader /\ readers[c].kind = "turn"))
        /\ waiting' = waiting
    BY <1>2 DEF Resume, Release
  <2>2. \A d \in Claims :
            /\ readers'[d].kind = readers[d].kind
            /\ readers'[d].st = IF d = c THEN "done" ELSE readers[d].st
    BY <2>1 DEF QueueTypes, Reader
  <2>3. waiting # 0 => waiting \in Claims /\ waiting # c
    BY <1>1 DEF OwnInv, Own, QueueTypes, Claims
  <2>4. CASE c = reader /\ readers[c].kind = "turn"
    <3>1. ~turnHolds'
      BY <2>1, <2>4
    <3>2. \A d \in Claims : ~(readers'[d].kind = "turn" /\ readers'[d].st \in {"parked", "got"})
      BY <2>2, <2>4 DEF OwnInv, Own
    <3> QED BY <1>1, <2>1, <2>2, <2>3, <3>1, <3>2 DEF OwnInv, Own
  <2>5. CASE ~(c = reader /\ readers[c].kind = "turn")
    <3>1. turnHolds' <=> turnHolds
      BY <2>1, <2>5
    <3>2. turnHolds => c # reader
      BY <2>5 DEF OwnInv, Own
    <3> QED BY <1>1, <2>1, <2>2, <2>3, <3>1, <3>2 DEF OwnInv, Own
  <2> QED BY <2>4, <2>5
<1>3. CASE ~Ends(readers[c]) /\ c = reader
  <2>1. Take(readers, c) /\ turnHolds' = turnHolds
    BY <1>3 DEF Resume
  <2>2. Asking(c, turnHolds, readers)
    BY <1>1, <1>3 DEF OwnInv, Own, Asking, Claims
  <2>3. Own(waiting', c, turnHolds, readers')
    BY <2>1, <2>2, TakeOwn DEF QueueTypes, FlagTypes
  <2> QED BY <1>1, <1>3, <2>1, <2>3 DEF OwnInv
<1>4. CASE ~Ends(readers[c]) /\ c # reader
  <2>1. readers' = Give(readers, c, NoEvent) /\ UNCHANGED <<waiting, turnHolds>>
    BY <1>4 DEF Resume
  <2>2. \A d \in Claims :
            readers'[d].kind = readers[d].kind /\ readers'[d].st = readers[d].st
    BY <1>1, <2>1 DEF Give, QueueTypes, Reader
  <2>3. waiting # 0 => waiting \in Claims
    BY DEF QueueTypes, Claims
  <2> QED BY <1>1, <2>1, <2>2, <2>3 DEF OwnInv, Own
<1> QED BY <1>2, <1>3, <1>4

(* Nobody holds the queue to begin with, ... *)
LEMMA InitOwnInv == Init => OwnInv
BY DEF Init, OwnInv, Own, Unused

(* ... and every step leaves the hold with a live reader.                  *)
LEMMA NextOwnInv == ASSUME TypeOK, OwnInv, [Next]_vars PROVE OwnInv'
<1>1. QueueTypes /\ FlagTypes /\ OtherTypes
  BY TypeParts
<1>2. /\ draft \in Nat /\ emitted \in Nat /\ prompts \in Nat
      /\ reader \in 0 .. MaxClaims /\ turnHolds \in BOOLEAN
  BY <1>1 DEF OtherTypes, FlagTypes
<1>3. CASE Update
  <2>1. /\ Ev("update", 0, emitted + 1) \in SessionEvent
        /\ Ev("other", 0, emitted + 1) \in SessionEvent
    BY <1>2, EventTypes
  <2> QED BY <1>1, <1>2, <1>3, <2>1, FlushAndPushOwn DEF Update
<1>4. CASE AgentLog
  <2>1. Ev("log", 0, emitted + 1) \in SessionEvent
    BY <1>2, EventTypes
  <2> QED BY <1>1, <1>4, <2>1, PushOwn DEF AgentLog
<1>5. ASSUME NEW n \in Turns, Answer(n) PROVE OwnInv'
  <2>1. CASE Current(n)
    <3>1. PICK kind \in {"turn_end", "error"} :
              FlushAndPush(Ev(kind, n, emitted + 1))
      BY <1>5, <2>1 DEF Answer
    <3>2. Ev(kind, n, emitted + 1) \in SessionEvent
      BY <1>2, EventTypes DEF Turns
    <3>3. UNCHANGED <<reader, turnHolds>>
      BY <1>5 DEF Answer
    <3> QED BY <1>1, <1>2, <3>1, <3>2, <3>3, FlushAndPushOwn
  <2>2. CASE ~Current(n)
    BY <1>5, <2>2 DEF Answer, OwnInv
  <2> QED BY <2>1, <2>2
<1>6. CASE Prompt
  <2>1. HandOver("turn", prompts + 1) /\ reader # MaxClaims /\ ~turnHolds /\ turnHolds' = TRUE
    BY <1>2, <1>6, BoundsAssumption DEF Prompt, Claimable
  <2>2. Own(waiting', reader', "turn" = "turn", readers')
    BY <1>1, <1>2, <2>1, HandOverOwn
  <2> QED BY <2>1, <2>2 DEF OwnInv
<1>7. CASE OnStarted
  BY <1>1, <1>2, <1>7, DrainOwn DEF OnStarted
<1>8. ASSUME NEW c \in Claims, Resume(c) PROVE OwnInv'
  BY <1>1, <1>8, ResumeOwn
<1>9. ASSUME UNCHANGED queueVars PROVE OwnInv'
  BY <1>9 DEF queueVars, OwnInv
<1>10. CASE PumpFinally
  BY <1>1, <1>2, <1>9, <1>10, DrainOwn DEF PumpFinally
<1>11. CASE AbandonTurn
  <2>1. Ev("turn_end", prompts, emitted + 1) \in SessionEvent
    BY <1>2, EventTypes
  <2> QED BY <1>1, <1>2, <1>11, <2>1, FlushAndPushOwn DEF AbandonTurn
<1>12. CASE DisposeFlush
  <2>1. Ev("update", 0, draft) \in SessionEvent
    BY <1>2, EventTypes
  <2>2. CASE draft = 0
    BY <1>12, <2>2 DEF DisposeFlush, OwnInv
  <2>3. CASE draft # 0
    BY <1>1, <1>12, <2>1, <2>3, PushOwn DEF DisposeFlush
  <2> QED BY <2>2, <2>3
<1>13. CASE DisposeClose
  <2>1. CASE waiting = 0
    BY <1>13, <2>1 DEF DisposeClose, OwnInv
  <2>2. CASE waiting # 0
    BY <1>1, <1>13, <2>2, GiveWaiting, EventTypes DEF DisposeClose, OwnInv
  <2> QED BY <2>1, <2>2
<1> QED BY <1>3, <1>4, <1>5, <1>6, <1>7, <1>8, <1>9, <1>10, <1>11, <1>12, <1>13
        DEF Next, AnswerAny, ResumeAny, HoldDraft, PromptThrows, ArmTurn, vars

(* It is so in every behaviour.                                            *)
LEMMA OwnInvHolds == Spec => []OwnInv
BY InitOwnInv, NextOwnInv, TypeCorrect, PTL DEF Spec

(***************************************************************************)
(* The hold of a turn (EventQueue.turnHolds) always has its reader, the    *)
(* reader that is parked is the last to have claimed the queue, and there  *)
(* is never a second turn: for a managed session and for a bare one.       *)
(***************************************************************************)
THEOREM TurnHoldsAlwaysHasOwner == Spec => []TurnHoldsHasOwner
<1>1. TypeOK /\ OwnInv => TurnHoldsHasOwner
  BY DEF OwnInv, Own, TurnHoldsHasOwner, LiveTurns, Live, TypeOK
<1> QED BY <1>1, OwnInvHolds, TypeCorrect, PTL

-----------------------------------------------------------------------------
(* What a push leaves of the buffer. *)

(* The buffer, the event that is pushed and the notice of an overflow.     *)
Noted(s, e) == Append(Append(s, e), Ev("error", 0, 0))

(* EventQueue.push leaves some of these, in this order, and every event of *)
(* the buffer that it does not leave is one that it dropped.               *)
LEMMA PushLeaves ==
    ASSUME NEW s \in Seq(SessionEvent), NEW e \in SessionEvent
    PROVE  \E f \in [1 .. Len(Buffered(s, e).seq) -> 1 .. Len(s) + 2] :
               /\ \A i \in 1 .. Len(Buffered(s, e).seq) :
                      Buffered(s, e).seq[i] = Noted(s, e)[f[i]]
               /\ \A i, j \in 1 .. Len(Buffered(s, e).seq) : i < j => f[i] < f[j]
               /\ \A k \in 1 .. Len(s) + 1 :
                      \/ \E i \in 1 .. Len(Buffered(s, e).seq) : f[i] = k
                      \/ Noted(s, e)[k].id \in Buffered(s, e).gone
<1>1. PICK t : t = Append(s, e)
  OBVIOUS
<1>2. /\ t \in Seq(SessionEvent) /\ Len(t) = Len(s) + 1 /\ Len(s) \in Nat
      /\ \A k \in 1 .. Len(s) + 1 : Noted(s, e)[k] = t[k]
      /\ Noted(s, e)[Len(s) + 2] = Ev("error", 0, 0)
  BY <1>1 DEF Noted
<1>3. CASE Len(t) <= MaxBuffered
  <2>1. Buffered(s, e).seq = t
    BY <1>1, <1>3 DEF Buffered
  <2>2. PICK f : f = [i \in 1 .. Len(t) |-> i]
    OBVIOUS
  <2>3. f \in [1 .. Len(t) -> 1 .. Len(s) + 2]
    BY <1>2, <2>2
  <2>4. \A i \in 1 .. Len(t) : t[i] = Noted(s, e)[f[i]]
    BY <1>2, <2>2
  <2>5. \A i, j \in 1 .. Len(t) : i < j => f[i] < f[j]
    BY <1>2, <2>2
  <2>6. \A k \in 1 .. Len(s) + 1 : \E i \in 1 .. Len(t) : f[i] = k
    BY <1>2, <2>2
  <2> QED BY <2>1, <2>3, <2>4, <2>5, <2>6
<1>4. CASE ~(Len(t) <= MaxBuffered) /\ Droppable(t) # {}
  <2>1. PICK o : o = OldestDroppable(t)
    OBVIOUS
  <2>2. Buffered(s, e).seq = Without(t, o) /\ Buffered(s, e).gone = {t[o].id}
    BY <1>1, <1>4, <2>1 DEF Buffered
  <2>3. o \in 1 .. Len(t)
    BY <1>2, <1>4, <2>1, OldestDroppableInRange
  <2>4. PICK w : w = Without(t, o)
    OBVIOUS
  <2>5. /\ Len(w) = Len(s)
        /\ \A i \in 1 .. Len(s) : w[i] = IF i < o THEN t[i] ELSE t[i + 1]
    <3>1. PICK a, b : a = SubSeq(t, 1, o - 1) /\ b = SubSeq(t, o + 1, Len(t))
      OBVIOUS
    <3>2. a \in Seq(SessionEvent) /\ Len(a) = o - 1 /\ \A i \in 1 .. o - 1 : a[i] = t[i]
      BY <1>2, <2>3, <3>1
    <3>3. b \in Seq(SessionEvent) /\ Len(b) = Len(t) - o
          /\ \A i \in 1 .. Len(t) - o : b[i] = t[o + i]
      BY <1>2, <2>3, <3>1
    <3>4. w = a \o b
      BY <2>4, <3>1 DEF Without
    <3>5. Len(w) = Len(s) /\ \A i \in 1 .. Len(s) : w[i] = IF i < o THEN a[i] ELSE b[i - (o - 1)]
      BY <1>2, <2>3, <3>2, <3>3, <3>4
    <3>6. ASSUME NEW i \in 1 .. Len(s) PROVE w[i] = IF i < o THEN t[i] ELSE t[i + 1]
      <4>1. CASE i < o
        BY <1>2, <2>3, <3>2, <3>5, <4>1
      <4>2. CASE ~(i < o)
        <5>1. i - (o - 1) \in 1 .. Len(t) - o /\ o + (i - (o - 1)) = i + 1
          BY <1>2, <2>3, <4>2
        <5> QED BY <3>3, <3>5, <4>2, <5>1
      <4> QED BY <4>1, <4>2
    <3> QED BY <3>5, <3>6
  <2>6. PICK f : f = [i \in 1 .. Len(w) |-> IF i < o THEN i ELSE i + 1]
    OBVIOUS
  <2>7. f \in [1 .. Len(w) -> 1 .. Len(s) + 2]
    BY <1>2, <2>3, <2>5, <2>6
  <2>8. \A i \in 1 .. Len(w) : w[i] = Noted(s, e)[f[i]]
    BY <1>2, <2>3, <2>5, <2>6
  <2>9. \A i, j \in 1 .. Len(w) : i < j => f[i] < f[j]
    BY <1>2, <2>3, <2>5, <2>6
  <2>10. ASSUME NEW k \in 1 .. Len(s) + 1
         PROVE  (\E i \in 1 .. Len(w) : f[i] = k) \/ Noted(s, e)[k].id \in {t[o].id}
    <3>1. CASE k < o
      <4>1. k \in 1 .. Len(w) /\ f[k] = k
        BY <1>2, <2>3, <2>5, <2>6, <3>1
      <4> QED BY <4>1
    <3>2. CASE k = o
      BY <1>2, <3>2
    <3>3. CASE k > o
      <4>1. k - 1 \in 1 .. Len(w) /\ f[k - 1] = k
        BY <1>2, <2>3, <2>5, <2>6, <3>3
      <4> QED BY <4>1
    <3> QED BY <2>3, <3>1, <3>2, <3>3
  <2> QED BY <2>2, <2>4, <2>7, <2>8, <2>9, <2>10
<1>5. CASE ~(Len(t) <= MaxBuffered) /\ Droppable(t) = {}
  <2>1. PICK n : n = Ev("error", 0, 0)
    OBVIOUS
  <2>2. Buffered(s, e).seq = Append(Tail(t), n) /\ Buffered(s, e).gone = {t[1].id}
    BY <1>1, <1>5, <2>1 DEF Buffered
  <2>3. PICK w : w = Append(Tail(t), n)
    OBVIOUS
  <2>4. Tail(t) \in Seq(SessionEvent) /\ Len(Tail(t)) = Len(s)
        /\ \A i \in 1 .. Len(s) : Tail(t)[i] = t[i + 1]
    BY <1>2
  <2>5. /\ Len(w) = Len(s) + 1
        /\ \A i \in 1 .. Len(s) : w[i] = t[i + 1]
        /\ w[Len(s) + 1] = n
    BY <1>2, <2>3, <2>4
  <2>6. PICK f : f = [i \in 1 .. Len(w) |-> i + 1]
    OBVIOUS
  <2>7. f \in [1 .. Len(w) -> 1 .. Len(s) + 2]
    BY <1>2, <2>5, <2>6
  <2>8. ASSUME NEW i \in 1 .. Len(w) PROVE w[i] = Noted(s, e)[f[i]]
    <3>1. CASE i = Len(s) + 1
      BY <1>2, <2>1, <2>5, <2>6, <3>1
    <3>2. CASE i # Len(s) + 1
      <4>1. i \in 1 .. Len(s) /\ i + 1 \in 1 .. Len(s) + 1
        BY <1>2, <2>5, <3>2
      <4> QED BY <1>2, <2>5, <2>6, <4>1
    <3> QED BY <3>1, <3>2
  <2>9. \A i, j \in 1 .. Len(w) : i < j => f[i] < f[j]
    BY <1>2, <2>5, <2>6
  <2>10. ASSUME NEW k \in 1 .. Len(s) + 1
         PROVE  (\E i \in 1 .. Len(w) : f[i] = k) \/ Noted(s, e)[k].id \in {t[1].id}
    <3>1. CASE k = 1
      BY <1>2, <3>1
    <3>2. CASE k # 1
      <4>1. k - 1 \in 1 .. Len(w) /\ f[k - 1] = k
        BY <1>2, <2>5, <2>6, <3>2
      <4> QED BY <4>1
    <3> QED BY <3>1, <3>2
  <2>11. Buffered(s, e).seq = w /\ Buffered(s, e).gone = {t[1].id}
    BY <2>2, <2>3
  <2> QED BY <2>7, <2>8, <2>9, <2>10, <2>11
<1> QED BY <1>3, <1>4, <1>5

-----------------------------------------------------------------------------
(* Nothing is lost. *)

(* The ids of what readers have been given and not yet recorded.           *)
Got(rs) == {c \in Claims : rs[c].st = "got"}
GotIds(rs) == {rs[c].ev.id : c \in Got(rs)}

(* NothingLost, for the ids from 1 on.                                     *)
Kept(buf, rs) == Ids(buf) \cup GotIds(rs)
KeptInv == 1 .. emitted \subseteq Ids(log) \cup Kept(buffered, readers) \cup {draft} \cup dropped

(* A push buffers an event or drops it, and drops no other unaccounted.    *)
LEMMA BufferedKeeps ==
    ASSUME NEW s \in Seq(SessionEvent), NEW e \in SessionEvent
    PROVE  Ids(s) \cup {e.id} \subseteq Ids(Buffered(s, e).seq) \cup Buffered(s, e).gone
<1>1. PICK b : b = Buffered(s, e).seq
  OBVIOUS
<1>2. PICK f \in [1 .. Len(b) -> 1 .. Len(s) + 2] :
          /\ \A i \in 1 .. Len(b) : b[i] = Noted(s, e)[f[i]]
          /\ \A k \in 1 .. Len(s) + 1 : \/ \E i \in 1 .. Len(b) : f[i] = k
                                        \/ Noted(s, e)[k].id \in Buffered(s, e).gone
  BY <1>1, PushLeaves
<1>3. ASSUME NEW k \in 1 .. Len(s) + 1
      PROVE  Noted(s, e)[k].id \in Ids(b) \cup Buffered(s, e).gone
  <2>1. CASE \E i \in 1 .. Len(b) : f[i] = k
    <3>1. PICK i \in 1 .. Len(b) : f[i] = k
      BY <2>1
    <3>2. b[i].id = Noted(s, e)[k].id
      BY <1>2, <3>1
    <3> QED BY <3>2 DEF Ids
  <2>2. CASE ~(\E i \in 1 .. Len(b) : f[i] = k)
    BY <1>2, <2>2
  <2> QED BY <2>1, <2>2
<1>4. /\ Len(s) \in Nat
      /\ \A k \in 1 .. Len(s) : Noted(s, e)[k] = s[k]
      /\ Noted(s, e)[Len(s) + 1] = e
  BY DEF Noted
<1>5. \A k \in 1 .. Len(s) : s[k].id \in Ids(b) \cup Buffered(s, e).gone
  BY <1>3, <1>4
<1>6. e.id \in Ids(b) \cup Buffered(s, e).gone
  BY <1>3, <1>4
<1> QED BY <1>1, <1>5, <1>6 DEF Ids

(* Handing an event to a reader that has none adds it to what readers have. *)
LEMMA GiveKeeps ==
    ASSUME NEW rs \in [Claims -> Reader], NEW c \in Claims, NEW e \in Event
    PROVE  /\ e.id \in GotIds(Give(rs, c, e))
           /\ rs[c].st # "got" => GotIds(rs) \subseteq GotIds(Give(rs, c, e))
           /\ GotIds(rs) \subseteq GotIds(Give(rs, c, e)) \cup {rs[c].ev.id}
<1>1. PICK gs : gs = Give(rs, c, e)
  OBVIOUS
<1>2. \A d \in Claims : d # c => gs[d] = rs[d]
  BY <1>1 DEF Give
<1>3. gs[c].st = "got" /\ gs[c].ev = e
  BY <1>1 DEF Give, Reader
<1>4. e.id \in GotIds(gs)
  BY <1>3 DEF GotIds, Got
<1>5. ASSUME NEW d \in Claims, rs[d].st = "got", d # c
      PROVE  rs[d].ev.id \in GotIds(gs)
  BY <1>2, <1>5 DEF GotIds, Got
<1>6. GotIds(rs) \subseteq GotIds(gs) \cup {rs[c].ev.id}
  BY <1>5 DEF GotIds, Got
<1>7. rs[c].st # "got" => GotIds(rs) \subseteq GotIds(gs)
  BY <1>5 DEF GotIds, Got
<1> QED BY <1>1, <1>4, <1>6, <1>7

(* What EventQueue.push does to an event and to those before it.           *)
LEMMA Push1Keeps ==
    ASSUME QueueTypes, OwnInv, NEW e \in SessionEvent, Push1(e)
    PROVE  Kept(buffered, readers) \cup dropped \cup {e.id}
               \subseteq Kept(buffered', readers') \cup dropped'
<1>1. CASE closed
  BY <1>1 DEF Push1
<1>2. CASE ~closed /\ waiting # 0
  <2>1. waiting \in Claims /\ readers[waiting].st # "got" /\ e \in Event
    BY <1>2, EventTypes DEF QueueTypes, Claims, OwnInv, Own
  <2>2. /\ e.id \in GotIds(Give(readers, waiting, e))
        /\ GotIds(readers) \subseteq GotIds(Give(readers, waiting, e))
    BY <2>1, GiveKeeps DEF QueueTypes
  <2>3. readers' = Give(readers, waiting, e) /\ buffered' = buffered /\ dropped' = dropped
    BY <1>2 DEF Push1
  <2> QED BY <2>2, <2>3 DEF Kept
<1>3. CASE ~closed /\ waiting = 0
  <2>1. Ids(buffered) \cup {e.id} \subseteq Ids(Buffered(buffered, e).seq) \cup Buffered(buffered, e).gone
    BY BufferedKeeps DEF QueueTypes
  <2>2. /\ buffered' = Buffered(buffered, e).seq /\ readers' = readers
        /\ dropped' = dropped \cup Buffered(buffered, e).gone
    BY <1>3 DEF Push1
  <2> QED BY <2>1, <2>2 DEF Kept
<1> QED BY <1>1, <1>2, <1>3

(* And to two in a row.                                                    *)
LEMMA Push2Keeps ==
    ASSUME QueueTypes, OwnInv, NEW e \in SessionEvent, NEW f \in SessionEvent, Push2(e, f)
    PROVE  Kept(buffered, readers) \cup dropped \cup {e.id, f.id}
               \subseteq Kept(buffered', readers') \cup dropped'
<1>1. CASE closed
  BY <1>1 DEF Push2
<1>2. CASE ~closed /\ waiting # 0
  <2>1. waiting \in Claims /\ readers[waiting].st # "got" /\ e \in Event
    BY <1>2, EventTypes DEF QueueTypes, Claims, OwnInv, Own
  <2>2. /\ e.id \in GotIds(Give(readers, waiting, e))
        /\ GotIds(readers) \subseteq GotIds(Give(readers, waiting, e))
    BY <2>1, GiveKeeps DEF QueueTypes
  <2>3. Ids(buffered) \cup {f.id} \subseteq Ids(Buffered(buffered, f).seq) \cup Buffered(buffered, f).gone
    BY BufferedKeeps DEF QueueTypes
  <2>4. /\ readers' = Give(readers, waiting, e) /\ buffered' = Buffered(buffered, f).seq
        /\ dropped' = dropped \cup Buffered(buffered, f).gone
    BY <1>2 DEF Push2
  <2> QED BY <2>2, <2>3, <2>4 DEF Kept
<1>3. CASE ~closed /\ waiting = 0
  <2>1. PICK b : b = Buffered(buffered, e)
    OBVIOUS
  <2>2. Ids(buffered) \cup {e.id} \subseteq Ids(b.seq) \cup b.gone /\ b.seq \in Seq(SessionEvent)
    BY <2>1, BufferedKeeps, BufferedType DEF QueueTypes
  <2>3. Ids(b.seq) \cup {f.id} \subseteq Ids(Buffered(b.seq, f).seq) \cup Buffered(b.seq, f).gone
    BY <2>2, BufferedKeeps
  <2>4. /\ buffered' = Buffered(b.seq, f).seq /\ readers' = readers
        /\ dropped' = dropped \cup b.gone \cup Buffered(b.seq, f).gone
    BY <1>3, <2>1 DEF Push2
  <2> QED BY <2>2, <2>3, <2>4 DEF Kept
<1> QED BY <1>1, <1>2, <1>3

(* A push sends the held draft on before it, and keeps both.               *)
LEMMA FlushKeeps ==
    ASSUME QueueTypes, OwnInv, draft \in Nat, NEW e \in SessionEvent, FlushAndPush(e)
    PROVE  Kept(buffered, readers) \cup dropped \cup {e.id} \cup ({draft} \ {0})
               \subseteq Kept(buffered', readers') \cup dropped'
<1>1. CASE draft = 0
  BY <1>1, Push1Keeps DEF FlushAndPush
<1>2. CASE draft # 0
  <2>1. PICK d : d = Ev("update", 0, draft)
    OBVIOUS
  <2>2. d \in SessionEvent /\ d.id = draft
    BY <2>1, EventTypes DEF Ev
  <2>3. Push2(d, e)
    BY <1>2, <2>1 DEF FlushAndPush
  <2> QED BY <2>2, <2>3, Push2Keeps
<1> QED BY <1>1, <1>2

(* EventQueue.next moves the oldest event to the reader that asks.         *)
LEMMA TakeKeeps ==
    ASSUME NEW rs \in [Claims -> Reader], NEW c \in Claims, Take(rs, c),
           buffered \in Seq(SessionEvent)
    PROVE  Kept(buffered, rs) \subseteq Kept(buffered', readers') \cup {rs[c].ev.id}
<1>1. CASE buffered # <<>>
  <2>1. PICK e : e = Head(buffered)
    OBVIOUS
  <2>2. /\ e \in Event /\ e = buffered[1] /\ Len(buffered) \in Nat \ {0}
        /\ Len(Tail(buffered)) = Len(buffered) - 1
        /\ \A i \in 1 .. Len(buffered) - 1 : Tail(buffered)[i] = buffered[i + 1]
    BY <1>1, <2>1, EventTypes
  <2>3. readers' = Give(rs, c, e) /\ buffered' = Tail(buffered)
    BY <1>1, <2>1 DEF Take
  <2>4. ASSUME NEW k \in 1 .. Len(buffered) PROVE buffered[k].id \in Ids(buffered') \cup {e.id}
    <3>1. CASE k = 1
      BY <2>2, <3>1
    <3>2. CASE k # 1
      <4>1. k - 1 \in 1 .. Len(buffered') /\ buffered'[k - 1] = buffered[k]
        BY <2>2, <2>3, <3>2
      <4> QED BY <4>1 DEF Ids
    <3> QED BY <3>1, <3>2
  <2>5. e.id \in GotIds(readers') /\ GotIds(rs) \subseteq GotIds(readers') \cup {rs[c].ev.id}
    BY <2>2, <2>3, GiveKeeps
  <2> QED BY <2>4, <2>5 DEF Kept, Ids
<1>2. CASE buffered = <<>> /\ closed
  <2>1. readers' = Give(rs, c, Closed) /\ buffered' = buffered
    BY <1>2 DEF Take
  <2>2. GotIds(rs) \subseteq GotIds(readers') \cup {rs[c].ev.id}
    BY <2>1, GiveKeeps, EventTypes
  <2> QED BY <2>1, <2>2 DEF Kept
<1>3. CASE buffered = <<>> /\ ~closed
  <2>1. /\ buffered' = buffered
        /\ \A d \in Claims : d # c => readers'[d] = rs[d]
    BY <1>3 DEF Take
  <2>2. GotIds(rs) \subseteq GotIds(readers') \cup {rs[c].ev.id}
    BY <2>1 DEF GotIds, Got
  <2> QED BY <2>1, <2>2 DEF Kept
<1> QED BY <1>1, <1>2, <1>3

(* A step that only adds an event keeps every event accounted for.         *)
LEMMA AddKeeps ==
    ASSUME emitted \in Nat, draft \in Nat, KeptInv, log' = log, draft' = 0,
           NEW S,
           Kept(buffered, readers) \cup dropped \cup S \cup ({draft} \ {0})
               \subseteq Kept(buffered', readers') \cup dropped',
           \/ emitted' = emitted
           \/ emitted' = emitted + 1 /\ emitted + 1 \in S
    PROVE  KeptInv'
<1>1. ASSUME NEW i \in 1 .. emitted'
      PROVE  i \in Ids(log') \cup Kept(buffered', readers') \cup {draft'} \cup dropped'
  <2>1. CASE i = emitted + 1
    BY <2>1
  <2>2. CASE i # emitted + 1
    <3>1. i \in 1 .. emitted /\ i # 0
      BY <2>2
    <3>2. i \in Ids(log) \cup Kept(buffered, readers) \cup {draft} \cup dropped
      BY <3>1 DEF KeptInv
    <3> QED BY <3>1, <3>2
  <2> QED BY <2>1, <2>2
<1> QED BY <1>1 DEF KeptInv

(* A claim of the queue gives the parked reader nothing that anybody had,  *)
(* and what the last claim left it moves to the new reader.                *)
LEMMA HandOverKeeps ==
    ASSUME QueueTypes, OwnInv, reader \in 0 .. MaxClaims, reader # MaxClaims,
           NEW kind \in {"turn", "drain"}, NEW turn \in Nat, HandOver(kind, turn)
    PROVE  Kept(buffered, readers) \subseteq Kept(buffered', readers') \cup {0}
<1>1. reader + 1 \in Claims
  BY BoundsAssumption DEF Claims
<1>2. PICK c : c = reader + 1
  OBVIOUS
<1>3. PICK rs : rs = Claimed(kind, turn)
  OBVIOUS
<1>4. c \in Claims /\ rs \in [Claims -> Reader] /\ Displaced \in [Claims -> Reader] /\ Take(rs, c)
  BY <1>1, <1>2, <1>3, ClaimedType DEF HandOver, Claimed, Displaced
<1>5. rs[c].ev.id = 0
  BY <1>1, <1>2, <1>3, <1>4 DEF Claimed, NoEvent, Ev
<1>6. GotIds(readers) \subseteq GotIds(rs)
  <2>1. \A d \in Claims : readers[d].st = "got" => d # c /\ Displaced[d] = readers[d]
    <3>1. ASSUME NEW d \in Claims, readers[d].st = "got" PROVE d # c /\ Displaced[d] = readers[d]
      <4>1. d # c /\ d # waiting
        BY <1>2, <3>1 DEF OwnInv, Own, Claims
      <4> QED BY <4>1 DEF Displaced, Give, QueueTypes
    <3> QED BY <3>1
  <2>2. \A d \in Claims : d # c => rs[d] = Displaced[d]
    BY <1>2, <1>3, <1>4 DEF Claimed
  <2> QED BY <2>1, <2>2 DEF GotIds, Got
<1>7. Kept(buffered, rs) \subseteq Kept(buffered', readers') \cup {rs[c].ev.id}
  BY <1>4, TakeKeeps DEF QueueTypes
<1> QED BY <1>5, <1>6, <1>7 DEF Kept

(* The drain loses nothing either.                                         *)
LEMMA DrainKeeps ==
    ASSUME QueueTypes, OwnInv, reader \in 0 .. MaxClaims, DrainBetweenTurns
    PROVE  Kept(buffered, readers) \subseteq Kept(buffered', readers') \cup {0}
<1>1. CASE turnHolds \/ reader = MaxClaims
  BY <1>1 DEF DrainBetweenTurns, queueVars
<1>2. CASE ~(turnHolds \/ reader = MaxClaims)
  BY <1>2, HandOverKeeps DEF DrainBetweenTurns
<1> QED BY <1>1, <1>2

(* A step that moves events about and records none keeps the account.      *)
LEMMA MoveKeeps ==
    ASSUME emitted \in Nat, KeptInv, UNCHANGED <<emitted, log, draft, dropped>>,
           Kept(buffered, readers) \subseteq Kept(buffered', readers') \cup {0}
    PROVE  KeptInv'
BY DEF KeptInv

(* A reader's continuation records the event it was given before it asks   *)
(* for another.                                                            *)
LEMMA ResumeKeeps ==
    ASSUME TypeOK, KeptInv, NEW c \in Claims, Resume(c)
    PROVE  KeptInv'
<1>1. PICK e : e = readers[c].ev
  OBVIOUS
<1>2. /\ readers \in [Claims -> Reader] /\ buffered \in Seq(SessionEvent)
      /\ log \in Seq(SessionEvent) /\ e \in Event /\ emitted \in Nat
  BY <1>1 DEF TypeOK, Reader
<1>3. Ids(log) \cup {e.id} \subseteq Ids(log') \cup {0}
  <2>1. CASE Sentinel(e)
    <3>1. log' = log /\ e.id = 0
      BY <1>1, <2>1 DEF Resume, Sentinel, NoEvent, Closed, Ev
    <3> QED BY <3>1
  <2>2. CASE ~Sentinel(e)
    <3>1. log' = Append(log, e)
      BY <1>1, <2>2 DEF Resume
    <3>2. e \in SessionEvent
      BY <1>2, <2>2 DEF Event, Sentinel
    <3>3. /\ Len(log) \in Nat /\ Len(log') = Len(log) + 1 /\ log'[Len(log) + 1] = e
          /\ \A i \in 1 .. Len(log) : log'[i] = log[i]
      BY <1>2, <3>1, <3>2
    <3>4. Ids(log) \subseteq Ids(log')
      BY <3>3 DEF Ids
    <3>5. e.id \in Ids(log')
      BY <3>3 DEF Ids
    <3> QED BY <3>4, <3>5
  <2> QED BY <2>1, <2>2
<1>4. Kept(buffered, readers) \subseteq Kept(buffered', readers') \cup {e.id}
  <2>1. CASE Ends(readers[c])
    <3>1. /\ buffered' = buffered
          /\ \A d \in Claims : d # c => readers'[d] = readers[d]
      BY <1>2, <2>1 DEF Resume
    <3>2. GotIds(readers) \subseteq GotIds(readers') \cup {e.id}
      BY <1>1, <3>1 DEF GotIds, Got
    <3> QED BY <3>1, <3>2 DEF Kept
  <2>2. CASE ~Ends(readers[c]) /\ c = reader
    <3>1. Take(readers, c)
      BY <2>2 DEF Resume
    <3> QED BY <1>1, <1>2, <3>1, TakeKeeps
  <2>3. CASE ~Ends(readers[c]) /\ c # reader
    <3>1. readers' = Give(readers, c, NoEvent) /\ buffered' = buffered
      BY <2>3 DEF Resume
    <3>2. GotIds(readers) \subseteq GotIds(readers') \cup {e.id}
      BY <1>1, <1>2, <3>1, GiveKeeps, EventTypes
    <3> QED BY <3>1, <3>2 DEF Kept
  <2> QED BY <2>1, <2>2, <2>3
<1>5. UNCHANGED <<draft, emitted, dropped>>
  BY DEF Resume, sessionVars
<1> QED BY <1>2, <1>3, <1>4, <1>5 DEF KeptInv

(* What adopt left in the queue is there, ...                              *)
LEMMA InitKeptInv == Init => KeptInv
<1> SUFFICES ASSUME Init PROVE KeptInv
  OBVIOUS
<1>1. CASE PinFailed
  <2>1. /\ emitted = 2 /\ Len(buffered) = 2
        /\ buffered[1].id = 1 /\ buffered[2].id = 2
    BY <1>1 DEF Init, Ev
  <2>2. 1 \in Ids(buffered) /\ 2 \in Ids(buffered)
    BY <2>1 DEF Ids
  <2> QED BY <2>1, <2>2 DEF KeptInv, Kept
<1>2. CASE ~PinFailed
  <2>1. emitted = 1 /\ Len(buffered) = 1 /\ buffered[1].id = 1
    BY <1>2 DEF Init, Ev
  <2>2. 1 \in Ids(buffered)
    BY <2>1 DEF Ids
  <2> QED BY <2>1, <2>2 DEF KeptInv, Kept
<1> QED BY <1>1, <1>2

(* ... and every step keeps all of it accounted for.                       *)
LEMMA NextKeptInv == ASSUME TypeOK, OwnInv, KeptInv, [Next]_vars PROVE KeptInv'
<1>1. QueueTypes /\ OtherTypes
  BY TypeParts
<1>2. draft \in Nat /\ emitted \in Nat /\ prompts \in Nat /\ reader \in 0 .. MaxClaims
  BY <1>1 DEF OtherTypes
<1>3. ASSUME NEW e \in SessionEvent, e.id = emitted + 1, FlushAndPush(e),
             emitted' = emitted + 1, log' = log
      PROVE  KeptInv'
  <2>1. draft' = 0
    BY <1>3 DEF FlushAndPush
  <2>2. Kept(buffered, readers) \cup dropped \cup {e.id} \cup ({draft} \ {0})
            \subseteq Kept(buffered', readers') \cup dropped'
    BY <1>1, <1>2, <1>3, FlushKeeps
  <2> QED BY <1>2, <1>3, <2>1, <2>2, AddKeeps
<1>4. \A k \in {"update", "other", "log", "turn_end", "error"}, n \in Nat :
          Ev(k, n, emitted + 1) \in SessionEvent /\ Ev(k, n, emitted + 1).id = emitted + 1
  BY <1>2, EventTypes DEF Ev
<1>5. CASE Update
  BY <1>3, <1>4, <1>5 DEF Update
<1>6. CASE HoldDraft
  <2>1. UNCHANGED <<buffered, readers, log>> /\ emitted' = emitted + 1 /\ draft' = emitted + 1
    BY <1>6 DEF HoldDraft, queueVars
  <2>2. {draft} \ {0} \subseteq dropped' /\ dropped \subseteq dropped'
    BY <1>6 DEF HoldDraft
  <2> QED BY <1>2, <2>1, <2>2 DEF KeptInv
<1>7. CASE AgentLog
  <2>1. PICK e : e = Ev("log", 0, emitted + 1)
    OBVIOUS
  <2>2. e \in SessionEvent /\ e.id = emitted + 1
    BY <1>4, <2>1
  <2>3. Push1(e) /\ emitted' = emitted + 1 /\ log' = log /\ draft' = draft
    BY <1>7, <2>1 DEF AgentLog
  <2>4. Kept(buffered, readers) \cup dropped \cup {e.id} \subseteq Kept(buffered', readers') \cup dropped'
    BY <1>1, <2>2, <2>3, Push1Keeps
  <2> QED BY <1>2, <2>2, <2>3, <2>4 DEF KeptInv
<1>8. ASSUME NEW n \in Turns, Answer(n) PROVE KeptInv'
  <2>1. CASE Current(n)
    <3>1. PICK kind \in {"turn_end", "error"} : FlushAndPush(Ev(kind, n, emitted + 1))
      BY <1>8, <2>1 DEF Answer
    <3>2. emitted' = emitted + 1 /\ log' = log
      BY <1>8, <2>1 DEF Answer
    <3>3. n \in Nat
      BY DEF Turns
    <3> QED BY <1>3, <1>4, <3>1, <3>2, <3>3
  <2>2. CASE ~Current(n)
    BY <1>8, <2>2 DEF Answer, KeptInv
  <2> QED BY <2>1, <2>2
<1>9. CASE Prompt
  <2>1. HandOver("turn", prompts + 1) /\ reader # MaxClaims
        /\ UNCHANGED <<emitted, log, draft, dropped>>
    BY <1>2, <1>9, BoundsAssumption DEF Prompt
  <2>2. Kept(buffered, readers) \subseteq Kept(buffered', readers') \cup {0}
    BY <1>1, <1>2, <2>1, HandOverKeeps
  <2> QED BY <1>2, <2>1, <2>2, MoveKeeps
<1>10. ASSUME DrainBetweenTurns, UNCHANGED <<sessionVars, ghostVars>> PROVE KeptInv'
  <2>1. Kept(buffered, readers) \subseteq Kept(buffered', readers') \cup {0}
    BY <1>1, <1>2, <1>10, DrainKeeps
  <2>2. UNCHANGED <<emitted, log, draft, dropped>>
    BY <1>10 DEF sessionVars, ghostVars
  <2> QED BY <1>2, <2>1, <2>2, MoveKeeps
<1>11. ASSUME NEW c \in Claims, Resume(c) PROVE KeptInv'
  BY <1>11, ResumeKeeps
<1>12. ASSUME UNCHANGED <<buffered, readers, emitted, log, draft, dropped>> PROVE KeptInv'
  BY <1>12 DEF KeptInv
<1>13. CASE AbandonTurn
  BY <1>2, <1>3, <1>4, <1>13 DEF AbandonTurn
<1>14. CASE DisposeFlush
  <2>1. CASE draft = 0
    BY <1>12, <1>14, <2>1 DEF DisposeFlush
  <2>2. CASE draft # 0
    <3>1. PICK e : e = Ev("update", 0, draft)
      OBVIOUS
    <3>2. e \in SessionEvent /\ e.id = draft
      BY <1>2, <3>1, EventTypes DEF Ev
    <3>3. Push1(e) /\ UNCHANGED <<emitted, log>> /\ draft' = 0
      BY <1>14, <2>2, <3>1 DEF DisposeFlush
    <3>4. Kept(buffered, readers) \cup dropped \cup {e.id} \subseteq Kept(buffered', readers') \cup dropped'
      BY <1>1, <3>2, <3>3, Push1Keeps
    <3> QED BY <1>2, <3>2, <3>3, <3>4 DEF KeptInv
  <2> QED BY <2>1, <2>2
<1>15. CASE DisposeClose
  <2>1. GotIds(readers) \subseteq GotIds(readers')
    <3>1. CASE waiting = 0
      BY <1>15, <3>1 DEF DisposeClose
    <3>2. CASE waiting # 0
      <4>1. waiting \in Claims /\ readers[waiting].st # "got"
        BY <1>1, <3>2 DEF QueueTypes, Claims, OwnInv, Own
      <4>2. readers' = Give(readers, waiting, Closed)
        BY <1>15, <3>2 DEF DisposeClose
      <4> QED BY <1>1, <4>1, <4>2, GiveKeeps, EventTypes DEF QueueTypes
    <3> QED BY <3>1, <3>2
  <2>2. UNCHANGED <<buffered, emitted, log, draft, dropped>>
    BY <1>15 DEF DisposeClose, ghostVars
  <2> QED BY <2>1, <2>2 DEF KeptInv, Kept
<1>16. CASE PumpFinally
  BY <1>10, <1>12, <1>16 DEF PumpFinally, queueVars, sessionVars, ghostVars
<1>17. CASE OnStarted
  BY <1>10, <1>17 DEF OnStarted
<1>18. CASE PromptThrows \/ ArmTurn \/ UNCHANGED vars
  BY <1>12, <1>18 DEF PromptThrows, ArmTurn, vars, queueVars, sessionVars, ghostVars
<1> QED BY <1>5, <1>6, <1>7, <1>8, <1>9, <1>11, <1>13, <1>14, <1>15, <1>16, <1>17, <1>18
        DEF Next, AnswerAny, ResumeAny

(***************************************************************************)
(* No hand-over of the queue between a turn, the drain between turns, an   *)
(* abandonment and disposal loses an event (EventQueue.push, next and      *)
(* handover): each is read, with a reader, buffered, held as a draft or    *)
(* accounted for as dropped, however many are emitted.                     *)
(***************************************************************************)
THEOREM NoEventIsLost == Spec => []NothingLost
<1>1. KeptInv => NothingLost
  BY DEF KeptInv, Kept, GotIds, Got, NothingLost
<1> QED BY <1>1, InitKeptInv, NextKeptInv, TypeCorrect, OwnInvHolds, PTL DEF Spec

(* A reader is parked only when there is nothing to read.                  *)
ParkedInv == waiting # 0 => buffered = <<>>

(* A push that finds a reader parked frees it.                             *)
LEMMA PushParked ==
    ASSUME ParkedInv, NEW e,
           Push1(e) \/ FlushAndPush(e)
    PROVE  ParkedInv'
<1>1. ASSUME NEW d, Push1(d) PROVE ParkedInv'
  BY <1>1 DEF Push1, ParkedInv
<1>2. ASSUME NEW d, NEW f, Push2(d, f) PROVE ParkedInv'
  BY <1>2 DEF Push2, ParkedInv
<1> QED BY <1>1, <1>2 DEF FlushAndPush

(* EventQueue.next parks a reader, and EventQueue.push does not leave it   *)
(* parked, whoever has the queue.                                          *)
LEMMA NextParkedInv == ASSUME ParkedInv, [Next]_vars PROVE ParkedInv'
<1>1. ASSUME NEW rs, NEW c, Take(rs, c) PROVE ParkedInv'
  BY <1>1 DEF Take, ParkedInv
<1>2. ASSUME NEW kind, NEW turn, HandOver(kind, turn) PROVE ParkedInv'
  BY <1>1, <1>2 DEF HandOver
<1>3. ASSUME UNCHANGED <<waiting, buffered>> PROVE ParkedInv'
  BY <1>3 DEF ParkedInv
<1>4. ASSUME DrainBetweenTurns PROVE ParkedInv'
  BY <1>2, <1>3, <1>4 DEF DrainBetweenTurns, queueVars
<1>5. CASE Update \/ AgentLog \/ AbandonTurn
  BY <1>5, PushParked DEF Update, AgentLog, AbandonTurn
<1>6. ASSUME NEW n \in Turns, Answer(n) PROVE ParkedInv'
  BY <1>3, <1>6, PushParked DEF Answer
<1>7. CASE Prompt
  BY <1>2, <1>7 DEF Prompt
<1>8. ASSUME NEW c \in Claims, Resume(c) PROVE ParkedInv'
  BY <1>1, <1>3, <1>8 DEF Resume
<1>9. CASE OnStarted \/ PumpFinally
  BY <1>3, <1>4, <1>9 DEF OnStarted, PumpFinally, queueVars
<1>10. CASE DisposeFlush
  BY <1>3, <1>10, PushParked DEF DisposeFlush
<1>11. CASE DisposeClose
  BY <1>11 DEF DisposeClose, ParkedInv
<1>12. CASE HoldDraft \/ PromptThrows \/ ArmTurn \/ UNCHANGED vars
  BY <1>3, <1>12 DEF HoldDraft, PromptThrows, ArmTurn, vars, queueVars
<1> QED BY <1>5, <1>6, <1>7, <1>8, <1>9, <1>10, <1>11, <1>12 DEF Next, AnswerAny, ResumeAny

(* It is so in every behaviour.                                            *)
LEMMA ParkedInvHolds == Spec => []ParkedInv
<1>1. Init => ParkedInv
  BY DEF Init, ParkedInv
<1> QED BY <1>1, NextParkedInv, PTL DEF Spec

-----------------------------------------------------------------------------
(* Events are read in order. *)

(* Whether an event has a place in the order: lines of stderr have none,   *)
(* nor have the sentinels and the notice of an overflow.                   *)
Key(e) == e.kind # "log" /\ e.id # 0

(* Such events of s come in the order they were emitted; and before m.     *)
InOrder(s) == \A i, j \in 1 .. Len(s) : i < j /\ Key(s[i]) /\ Key(s[j]) => s[i].id < s[j].id
Under(s, m) == \A i \in 1 .. Len(s) : Key(s[i]) => s[i].id < m

(* The reader of claim c has been given one, and those of D before m.      *)
Holds(rs, c) == rs[c].st = "got" /\ Key(rs[c].ev)
Below(rs, D, m) == \A c \in D : Holds(rs, c) => rs[c].ev.id < m

(* What was read comes before what readers have been given, in the order   *)
(* of their claims, and that before what is buffered.                      *)
Sorted(l, buf, rs, D) ==
    /\ InOrder(l) /\ InOrder(buf)
    /\ \A c \in D : Holds(rs, c) => Under(l, rs[c].ev.id)
    /\ \A c, d \in D : c < d /\ Holds(rs, c) /\ Holds(rs, d) => rs[c].ev.id < rs[d].ev.id
    /\ \A i \in 1 .. Len(buf) : Key(buf[i]) => Under(l, buf[i].id) /\ Below(rs, D, buf[i].id)

(* All of it comes before m.                                               *)
Before(l, buf, rs, D, m) == Under(l, m) /\ Under(buf, m) /\ Below(rs, D, m)

(* The strengthening of ReadInOrder: whatever is to come comes later, and  *)
(* the draft that is held is later than all but that.                      *)
OrderInv ==
    /\ Sorted(log, buffered, readers, Claims)
    /\ Before(log, buffered, readers, Claims, emitted + 1)
    /\ draft # 0 => draft <= emitted /\ Before(log, buffered, readers, Claims, draft)

(* What comes before a number comes before a greater one.                  *)
LEMMA BeforeMore ==
    ASSUME NEW l \in Seq(SessionEvent), NEW buf \in Seq(SessionEvent),
           NEW rs \in [Claims -> Reader], NEW D \in SUBSET Claims,
           NEW m \in Nat, NEW n \in Nat, m <= n, Before(l, buf, rs, D, m)
    PROVE  Before(l, buf, rs, D, n)
<1>1. \A i \in 1 .. Len(l) : l[i].id \in Nat
  <2>1. \A i \in 1 .. Len(l) : l[i] \in SessionEvent
    OBVIOUS
  <2> QED BY <2>1 DEF SessionEvent
<1>2. \A i \in 1 .. Len(buf) : buf[i].id \in Nat
  <2>1. \A i \in 1 .. Len(buf) : buf[i] \in SessionEvent
    OBVIOUS
  <2> QED BY <2>1 DEF SessionEvent
<1>3. \A c \in D : rs[c].ev.id \in Nat
  <2>1. \A c \in D : rs[c].ev \in Event
    BY DEF Reader
  <2>2. \A e \in Event : e.id \in Nat
    BY DEF Event, SessionEvent, NoEvent, Closed, Ev
  <2> QED BY <2>1, <2>2
<1> QED BY <1>1, <1>2, <1>3 DEF Before, Under, Below

(* A push keeps the buffer in order, and brings nothing in but its event.  *)
LEMMA BufferedInOrder ==
    ASSUME NEW s \in Seq(SessionEvent), NEW e \in SessionEvent,
           InOrder(s), Key(e) => Under(s, e.id)
    PROVE  /\ InOrder(Buffered(s, e).seq)
           /\ \A i \in 1 .. Len(Buffered(s, e).seq) : Key(Buffered(s, e).seq[i]) =>
                  \/ Buffered(s, e).seq[i] = e
                  \/ \E k \in 1 .. Len(s) : Buffered(s, e).seq[i] = s[k]
<1>1. PICK b : b = Buffered(s, e).seq
  OBVIOUS
<1>2. PICK f \in [1 .. Len(b) -> 1 .. Len(s) + 2] :
          /\ \A i \in 1 .. Len(b) : b[i] = Noted(s, e)[f[i]]
          /\ \A i, j \in 1 .. Len(b) : i < j => f[i] < f[j]
  BY <1>1, PushLeaves
<1>3. /\ Len(s) \in Nat
      /\ \A k \in 1 .. Len(s) : Noted(s, e)[k] = s[k]
      /\ Noted(s, e)[Len(s) + 1] = e
      /\ Noted(s, e)[Len(s) + 2] = Ev("error", 0, 0)
  BY DEF Noted
<1>4. ~Key(Ev("error", 0, 0))
  BY DEF Key, Ev
<1>5. ASSUME NEW i \in 1 .. Len(b), Key(b[i])
      PROVE  f[i] \in 1 .. Len(s) + 1 /\ (f[i] \in 1 .. Len(s) \/ b[i] = e)
  <2>1. f[i] \in 1 .. Len(s) + 2 /\ b[i] = Noted(s, e)[f[i]]
    BY <1>2
  <2>2. f[i] # Len(s) + 2
    BY <1>3, <1>4, <1>5, <2>1
  <2> QED BY <1>3, <2>1, <2>2
<1>6. ASSUME NEW i \in 1 .. Len(b), NEW j \in 1 .. Len(b), i < j, Key(b[i]), Key(b[j])
      PROVE  b[i].id < b[j].id
  <2>1. /\ f[i] \in 1 .. Len(s) + 1 /\ f[j] \in 1 .. Len(s) + 1 /\ f[i] < f[j]
        /\ b[i] = Noted(s, e)[f[i]] /\ b[j] = Noted(s, e)[f[j]]
    BY <1>2, <1>5, <1>6
  <2>2. f[i] \in 1 .. Len(s) /\ b[i] = s[f[i]]
    BY <1>3, <2>1
  <2>3. CASE f[j] \in 1 .. Len(s)
    <3>1. b[j] = s[f[j]]
      BY <1>3, <2>1, <2>3
    <3> QED BY <1>6, <2>1, <2>2, <2>3, <3>1 DEF InOrder
  <2>4. CASE f[j] \notin 1 .. Len(s)
    <3>1. b[j] = e
      BY <1>5, <1>6, <2>4
    <3> QED BY <1>6, <2>2, <3>1 DEF Under
  <2> QED BY <2>3, <2>4
<1>7. \A i \in 1 .. Len(b) : Key(b[i]) => b[i] = e \/ \E k \in 1 .. Len(s) : b[i] = s[k]
  BY <1>2, <1>3, <1>5
<1> QED BY <1>1, <1>6, <1>7 DEF InOrder

(* An event that is later than all there is can be buffered.               *)
LEMMA BufferSorted ==
    ASSUME NEW l \in Seq(SessionEvent), NEW buf \in Seq(SessionEvent),
           NEW rs \in [Claims -> Reader], NEW D \in SUBSET Claims, NEW e \in SessionEvent,
           Sorted(l, buf, rs, D), Key(e) => Before(l, buf, rs, D, e.id)
    PROVE  /\ Sorted(l, Buffered(buf, e).seq, rs, D)
           /\ \A m \in Nat : Before(l, buf, rs, D, m) /\ (Key(e) => e.id < m)
                                 => Before(l, Buffered(buf, e).seq, rs, D, m)
<1>1. PICK b : b = Buffered(buf, e).seq
  OBVIOUS
<1>2. /\ InOrder(b)
      /\ \A i \in 1 .. Len(b) : Key(b[i]) => b[i] = e \/ \E k \in 1 .. Len(buf) : b[i] = buf[k]
  BY <1>1, BufferedInOrder DEF Sorted, Before
<1>3. ASSUME NEW i \in 1 .. Len(b), Key(b[i])
      PROVE  Under(l, b[i].id) /\ Below(rs, D, b[i].id)
  BY <1>2, <1>3 DEF Sorted, Before
<1>4. Sorted(l, b, rs, D)
  BY <1>2, <1>3 DEF Sorted
<1>5. ASSUME NEW m \in Nat, Before(l, buf, rs, D, m), Key(e) => e.id < m
      PROVE  Before(l, b, rs, D, m)
  <2>1. Under(b, m)
    BY <1>2, <1>5 DEF Before, Under
  <2> QED BY <1>5, <2>1 DEF Before
<1> QED BY <1>1, <1>4, <1>5

(* An event can be given to a reader that comes after all that have one,   *)
(* and a sentinel to any.                                                  *)
LEMMA GiveSorted ==
    ASSUME NEW l \in Seq(SessionEvent), NEW buf \in Seq(SessionEvent),
           NEW rs \in [Claims -> Reader], NEW c \in Claims, NEW e \in Event,
           Sorted(l, buf, rs, Claims \ {c}),
           Key(e) => /\ Under(l, e.id) /\ Below(rs, Claims \ {c}, e.id)
                     /\ \A i \in 1 .. Len(buf) : Key(buf[i]) => e.id < buf[i].id
                     /\ \A d \in Claims : d > c => rs[d].st # "got"
    PROVE  /\ Sorted(l, buf, Give(rs, c, e), Claims)
           /\ \A m \in Nat : Before(l, buf, rs, Claims \ {c}, m) /\ (Key(e) => e.id < m)
                                 => Before(l, buf, Give(rs, c, e), Claims, m)
<1>1. PICK gs : gs = Give(rs, c, e)
  OBVIOUS
<1>2. /\ \A d \in Claims \ {c} : gs[d] = rs[d]
      /\ gs[c].st = "got" /\ gs[c].ev = e
  BY <1>1 DEF Give, Reader
<1>3. /\ \A d \in Claims \ {c} : Holds(gs, d) <=> Holds(rs, d)
      /\ Holds(gs, c) <=> Key(e)
  BY <1>2 DEF Holds
<1>4. \A d \in Claims : Holds(gs, d) => Under(l, gs[d].ev.id)
  BY <1>2, <1>3 DEF Sorted
<1>5. ASSUME NEW p \in Claims, NEW q \in Claims, p < q, Holds(gs, p), Holds(gs, q)
      PROVE  gs[p].ev.id < gs[q].ev.id
  <2>1. CASE p # c /\ q # c
    BY <1>2, <1>3, <1>5, <2>1 DEF Sorted
  <2>2. CASE p # c /\ q = c
    BY <1>2, <1>3, <1>5, <2>2 DEF Below
  <2>3. CASE p = c
    <3>1. Key(e) /\ q # c /\ Holds(rs, q) /\ q > c
      BY <1>3, <1>5, <2>3 DEF Claims
    <3> QED BY <3>1 DEF Holds
  <2> QED BY <2>1, <2>2, <2>3
<1>6. ASSUME NEW m, Below(rs, Claims \ {c}, m), Key(e) => e.id < m
      PROVE  Below(gs, Claims, m)
  BY <1>2, <1>3, <1>6 DEF Below
<1>7. \A i \in 1 .. Len(buf) : Key(buf[i]) => Under(l, buf[i].id) /\ Below(gs, Claims, buf[i].id)
  BY <1>6 DEF Sorted
<1>8. Sorted(l, buf, gs, Claims)
  BY <1>4, <1>5, <1>7 DEF Sorted
<1>9. \A m \in Nat : Before(l, buf, rs, Claims \ {c}, m) /\ (Key(e) => e.id < m)
                         => Before(l, buf, gs, Claims, m)
  BY <1>6 DEF Before
<1> QED BY <1>1, <1>8, <1>9

(* What is sorted is so without some of the readers.                       *)
LEMMA SortedFewer ==
    ASSUME NEW l, NEW buf, NEW rs, NEW D, NEW E \in SUBSET D, Sorted(l, buf, rs, D)
    PROVE  /\ Sorted(l, buf, rs, E)
           /\ \A m \in Nat : Before(l, buf, rs, D, m) => Before(l, buf, rs, E, m)
<1>1. \A m : Below(rs, D, m) => Below(rs, E, m)
  BY DEF Below
<1>2. Sorted(l, buf, rs, E)
  BY <1>1 DEF Sorted
<1> QED BY <1>1, <1>2 DEF Before

(* What is sorted is so with readers that have no event.                   *)
LEMMA SortedMore ==
    ASSUME NEW l, NEW buf, NEW rs, NEW qs, NEW D \in SUBSET Claims, Sorted(l, buf, rs, D),
           \A c \in D : Holds(qs, c) => Holds(rs, c) /\ qs[c].ev = rs[c].ev,
           \A c \in Claims \ D : ~Holds(qs, c)
    PROVE  /\ Sorted(l, buf, qs, Claims)
           /\ \A m \in Nat : Before(l, buf, rs, D, m) => Before(l, buf, qs, Claims, m)
<1>1. \A m : Below(rs, D, m) => Below(qs, Claims, m)
  BY DEF Below
<1>2. \A c \in Claims : Holds(qs, c) => Under(l, qs[c].ev.id)
  BY DEF Sorted
<1>3. \A c, d \in Claims : c < d /\ Holds(qs, c) /\ Holds(qs, d) => qs[c].ev.id < qs[d].ev.id
  BY DEF Sorted
<1>4. \A i \in 1 .. Len(buf) : Key(buf[i]) => Under(l, buf[i].id) /\ Below(qs, Claims, buf[i].id)
  BY <1>1 DEF Sorted
<1>5. Sorted(l, buf, qs, Claims)
  BY <1>2, <1>3, <1>4 DEF Sorted
<1> QED BY <1>1, <1>5 DEF Before

(* The order of the state, of all readers.                                 *)
InLine == Sorted(log, buffered, readers, Claims)
Until(m) == Before(log, buffered, readers, Claims, m)

(* A parked reader can be given an event later than all others.            *)
LEMMA GiveWaitingSorted ==
    ASSUME TypeOK, OwnInv, ParkedInv, InLine, waiting # 0,
           NEW e \in Event, Key(e) => Until(e.id)
    PROVE  /\ Sorted(log, buffered, Give(readers, waiting, e), Claims)
           /\ \A m \in Nat : Until(m) /\ (Key(e) => e.id < m)
                  => Before(log, buffered, Give(readers, waiting, e), Claims, m)
<1>1. /\ log \in Seq(SessionEvent) /\ buffered \in Seq(SessionEvent)
      /\ readers \in [Claims -> Reader]
  BY DEF TypeOK
<1>2. e.id \in Nat
  BY DEF Event, SessionEvent, NoEvent, Closed, Ev
<1>3. PICK w : w = waiting
  OBVIOUS
<1>4. /\ w \in Claims
      /\ \A d \in Claims : d > w => readers[d].st # "got"
  BY <1>3 DEF TypeOK, Claims, OwnInv, Own
<1>5. /\ Sorted(log, buffered, readers, Claims \ {w})
      /\ \A m \in Nat : Until(m) => Before(log, buffered, readers, Claims \ {w}, m)
  BY SortedFewer DEF InLine, Until
<1>6. Key(e) => Before(log, buffered, readers, Claims \ {w}, e.id)
  BY <1>2, <1>5
<1>7. buffered = <<>>
  BY DEF ParkedInv
<1>8. Key(e) => /\ Under(log, e.id) /\ Below(readers, Claims \ {w}, e.id)
                /\ \A i \in 1 .. Len(buffered) : Key(buffered[i]) => e.id < buffered[i].id
                /\ \A d \in Claims : d > w => readers[d].st # "got"
  BY <1>4, <1>6, <1>7 DEF Before
<1>9. /\ Sorted(log, buffered, Give(readers, w, e), Claims)
      /\ \A m \in Nat : Before(log, buffered, readers, Claims \ {w}, m) /\ (Key(e) => e.id < m)
                            => Before(log, buffered, Give(readers, w, e), Claims, m)
  BY <1>1, <1>4, <1>5, <1>8, GiveSorted
<1> QED BY <1>3, <1>5, <1>9

(* EventQueue.push of an event later than all others keeps the order.      *)
LEMMA Push1Sorted ==
    ASSUME TypeOK, OwnInv, ParkedInv, InLine, NEW e \in SessionEvent, Key(e) => Until(e.id),
           Push1(e), log' = log
    PROVE  /\ InLine'
           /\ \A m \in Nat : Until(m) /\ (Key(e) => e.id < m) => Until(m)'
<1>1. /\ log \in Seq(SessionEvent) /\ buffered \in Seq(SessionEvent)
      /\ readers \in [Claims -> Reader] /\ e \in Event
  BY EventTypes DEF TypeOK
<1>2. CASE closed
  <2>1. UNCHANGED <<log, buffered, readers>>
    BY <1>2 DEF Push1
  <2> QED BY <2>1 DEF InLine, Until
<1>3. CASE ~closed /\ waiting # 0
  <2>1. readers' = Give(readers, waiting, e) /\ buffered' = buffered
    BY <1>3 DEF Push1
  <2>2. /\ Sorted(log, buffered, Give(readers, waiting, e), Claims)
        /\ \A m \in Nat : Until(m) /\ (Key(e) => e.id < m)
               => Before(log, buffered, Give(readers, waiting, e), Claims, m)
    BY <1>1, <1>3, GiveWaitingSorted
  <2> QED BY <2>1, <2>2 DEF InLine, Until
<1>4. CASE ~closed /\ waiting = 0
  <2>1. readers' = readers /\ buffered' = Buffered(buffered, e).seq
    BY <1>4 DEF Push1
  <2>2. /\ Sorted(log, Buffered(buffered, e).seq, readers, Claims)
        /\ \A m \in Nat : Before(log, buffered, readers, Claims, m) /\ (Key(e) => e.id < m)
                              => Before(log, Buffered(buffered, e).seq, readers, Claims, m)
    BY <1>1, BufferSorted DEF InLine, Until
  <2> QED BY <2>1, <2>2 DEF InLine, Until
<1> QED BY <1>2, <1>3, <1>4

(* So do two in a row, the second later than the first.                    *)
LEMMA Push2Sorted ==
    ASSUME TypeOK, OwnInv, ParkedInv, InLine,
           NEW e \in SessionEvent, Key(e) => Until(e.id),
           NEW f \in SessionEvent, Key(f) => Until(f.id) /\ (Key(e) => e.id < f.id),
           Push2(e, f), log' = log
    PROVE  /\ InLine'
           /\ \A m \in Nat : Until(m) /\ (Key(e) => e.id < m) /\ (Key(f) => f.id < m) => Until(m)'
<1>1. /\ log \in Seq(SessionEvent) /\ buffered \in Seq(SessionEvent)
      /\ readers \in [Claims -> Reader] /\ e \in Event /\ e.id \in Nat /\ f.id \in Nat
  BY EventTypes DEF TypeOK, SessionEvent
<1>2. CASE closed
  <2>1. UNCHANGED <<log, buffered, readers>>
    BY <1>2 DEF Push2
  <2> QED BY <2>1 DEF InLine, Until
<1>3. CASE ~closed /\ waiting # 0
  <2>1. PICK gs : gs = Give(readers, waiting, e)
    OBVIOUS
  <2>2. readers' = gs /\ buffered' = Buffered(buffered, f).seq
    BY <1>3, <2>1 DEF Push2
  <2>3. /\ Sorted(log, buffered, gs, Claims)
        /\ \A m \in Nat : Until(m) /\ (Key(e) => e.id < m) => Before(log, buffered, gs, Claims, m)
    BY <1>1, <1>3, <2>1, GiveWaitingSorted
  <2>4. waiting \in Claims
    BY <1>3 DEF TypeOK, Claims
  <2>5. gs \in [Claims -> Reader]
    BY <1>1, <2>1, <2>4, GiveType
  <2>6. Key(f) => Before(log, buffered, gs, Claims, f.id)
    BY <1>1, <2>3
  <2>7. /\ Sorted(log, Buffered(buffered, f).seq, gs, Claims)
        /\ \A m \in Nat : Before(log, buffered, gs, Claims, m) /\ (Key(f) => f.id < m)
                              => Before(log, Buffered(buffered, f).seq, gs, Claims, m)
    BY <1>1, <2>3, <2>5, <2>6, BufferSorted
  <2> QED BY <2>2, <2>3, <2>7 DEF InLine, Until
<1>4. CASE ~closed /\ waiting = 0
  <2>1. PICK b : b = Buffered(buffered, e).seq
    OBVIOUS
  <2>2. readers' = readers /\ buffered' = Buffered(b, f).seq
    BY <1>4, <2>1 DEF Push2
  <2>3. b \in Seq(SessionEvent)
    BY <1>1, <2>1, BufferedType
  <2>4. /\ Sorted(log, b, readers, Claims)
        /\ \A m \in Nat : Before(log, buffered, readers, Claims, m) /\ (Key(e) => e.id < m)
                              => Before(log, b, readers, Claims, m)
    BY <1>1, <2>1, BufferSorted DEF InLine, Until
  <2>5. Key(f) => Before(log, b, readers, Claims, f.id)
    BY <1>1, <2>4 DEF Until
  <2>6. /\ Sorted(log, Buffered(b, f).seq, readers, Claims)
        /\ \A m \in Nat : Before(log, b, readers, Claims, m) /\ (Key(f) => f.id < m)
                              => Before(log, Buffered(b, f).seq, readers, Claims, m)
    BY <1>1, <2>3, <2>4, <2>5, BufferSorted
  <2> QED BY <2>2, <2>4, <2>6 DEF InLine, Until
<1> QED BY <1>2, <1>3, <1>4

(* EventQueue.next gives the last claim the oldest event of the buffer.    *)
LEMMA TakeSorted ==
    ASSUME NEW l \in Seq(SessionEvent), buffered \in Seq(SessionEvent),
           NEW rs \in [Claims -> Reader], NEW c \in Claims,
           Sorted(l, buffered, rs, Claims \ {c}),
           \A d \in Claims : d > c => rs[d].st # "got",
           Take(rs, c)
    PROVE  /\ Sorted(l, buffered', readers', Claims)
           /\ \A m \in Nat : Before(l, buffered, rs, Claims \ {c}, m)
                                 => Before(l, buffered', readers', Claims, m)
<1>1. CASE buffered # <<>>
  <2>1. PICK e, t : e = Head(buffered) /\ t = Tail(buffered)
    OBVIOUS
  <2>2. readers' = Give(rs, c, e) /\ buffered' = t
    BY <1>1, <2>1 DEF Take
  <2>3. /\ e \in SessionEvent /\ e = buffered[1] /\ Len(buffered) \in Nat \ {0}
        /\ t \in Seq(SessionEvent) /\ Len(t) = Len(buffered) - 1
        /\ \A i \in 1 .. Len(buffered) - 1 : t[i] = buffered[i + 1]
    BY <1>1, <2>1
  <2>4. /\ InOrder(t)
        /\ \A i \in 1 .. Len(t) : Key(t[i]) => /\ Under(l, t[i].id)
                                              /\ Below(rs, Claims \ {c}, t[i].id)
        /\ \A m : Under(buffered, m) => Under(t, m)
    <3>1. \A i \in 1 .. Len(t) : i + 1 \in 1 .. Len(buffered) /\ t[i] = buffered[i + 1]
      BY <2>3
    <3>2. InOrder(buffered)
      BY DEF Sorted
    <3>3. InOrder(t)
      <4>1. \A i, j \in 1 .. Len(t) : i < j => i + 1 < j + 1
        OBVIOUS
      <4> QED BY <3>1, <3>2, <4>1 DEF InOrder
    <3>4. \A i \in 1 .. Len(t) : Key(t[i]) => /\ Under(l, t[i].id)
                                             /\ Below(rs, Claims \ {c}, t[i].id)
      BY <3>1 DEF Sorted
    <3>5. \A m : Under(buffered, m) => Under(t, m)
      BY <3>1 DEF Under
    <3> QED BY <3>3, <3>4, <3>5
  <2>5. Sorted(l, t, rs, Claims \ {c})
    BY <2>4 DEF Sorted
  <2>6. Key(e) => /\ Under(l, e.id) /\ Below(rs, Claims \ {c}, e.id)
                  /\ \A i \in 1 .. Len(t) : Key(t[i]) => e.id < t[i].id
                  /\ \A d \in Claims : d > c => rs[d].st # "got"
    <3>1. Key(e) => Under(l, e.id) /\ Below(rs, Claims \ {c}, e.id)
      <4>1. 1 \in 1 .. Len(buffered) /\ buffered[1] = e
        BY <2>3
      <4> QED BY <4>1 DEF Sorted
    <3>2. Key(e) => \A i \in 1 .. Len(t) : Key(t[i]) => e.id < t[i].id
      <4>1. InOrder(buffered)
        BY DEF Sorted
      <4>2. 1 \in 1 .. Len(buffered) /\ e = buffered[1]
        BY <2>3
      <4>3. \A i \in 1 .. Len(t) : /\ i + 1 \in 1 .. Len(buffered) /\ 1 < i + 1
                                  /\ t[i] = buffered[i + 1]
        BY <2>3
      <4> QED BY <4>1, <4>2, <4>3 DEF InOrder
    <3> QED BY <3>1, <3>2
  <2>7. e \in Event
    BY <2>3, EventTypes
  <2>8. /\ Sorted(l, t, Give(rs, c, e), Claims)
        /\ \A m \in Nat : Before(l, t, rs, Claims \ {c}, m) /\ (Key(e) => e.id < m)
                              => Before(l, t, Give(rs, c, e), Claims, m)
    BY <2>3, <2>5, <2>6, <2>7, GiveSorted
  <2>9. \A m \in Nat : Before(l, buffered, rs, Claims \ {c}, m)
            => Before(l, t, rs, Claims \ {c}, m) /\ (Key(e) => e.id < m)
    BY <2>3, <2>4 DEF Before, Under
  <2> QED BY <2>2, <2>8, <2>9
<1>2. CASE buffered = <<>> /\ closed
  <2>1. readers' = Give(rs, c, Closed) /\ buffered' = buffered
    BY <1>2 DEF Take
  <2>2. ~Key(Closed) /\ Closed \in Event
    BY EventTypes DEF Key, Closed, Ev
  <2>3. /\ Sorted(l, buffered, Give(rs, c, Closed), Claims)
        /\ \A m \in Nat : Before(l, buffered, rs, Claims \ {c}, m) /\ (Key(Closed) => Closed.id < m)
                              => Before(l, buffered, Give(rs, c, Closed), Claims, m)
    BY <2>2, GiveSorted
  <2> QED BY <2>1, <2>2, <2>3
<1>3. CASE buffered = <<>> /\ ~closed
  <2>1. readers' = [rs EXCEPT ![c].st = "parked"] /\ buffered' = buffered
    BY <1>3 DEF Take
  <2>2. /\ \A d \in Claims \ {c} : readers'[d] = rs[d]
        /\ readers'[c].st = "parked"
    BY <2>1 DEF Reader
  <2>3. /\ \A d \in Claims \ {c} : Holds(readers', d) => Holds(rs, d) /\ readers'[d].ev = rs[d].ev
        /\ \A d \in Claims \ (Claims \ {c}) : ~Holds(readers', d)
    BY <2>2 DEF Holds
  <2>4. /\ Sorted(l, buffered, readers', Claims)
        /\ \A m \in Nat : Before(l, buffered, rs, Claims \ {c}, m)
                              => Before(l, buffered, readers', Claims, m)
    BY <2>3, SortedMore
  <2> QED BY <2>1, <2>4
<1> QED BY <1>1, <1>2, <1>3

(* A claim of the queue keeps the order: the new reader comes last.        *)
LEMMA HandOverSorted ==
    ASSUME TypeOK, OwnInv, ParkedInv, InLine, reader # MaxClaims,
           NEW kind \in {"turn", "drain"}, NEW turn \in Nat, HandOver(kind, turn), log' = log
    PROVE  /\ InLine'
           /\ \A m \in Nat : Until(m) => Until(m)'
<1>1. reader + 1 \in Claims
  BY BoundsAssumption DEF Claims, TypeOK
<1>2. PICK c : c = reader + 1
  OBVIOUS
<1>3. PICK rs : rs = Claimed(kind, turn)
  OBVIOUS
<1>4. /\ log \in Seq(SessionEvent) /\ buffered \in Seq(SessionEvent)
      /\ c \in Claims /\ rs \in [Claims -> Reader] /\ Displaced \in [Claims -> Reader]
      /\ Take(rs, c)
  BY <1>1, <1>2, <1>3, ClaimedType, TypeParts DEF HandOver, Claimed, Displaced, TypeOK
<1>5. /\ Sorted(log, buffered, Displaced, Claims)
      /\ \A m \in Nat : Until(m) => Before(log, buffered, Displaced, Claims, m)
  <2>1. CASE waiting = 0
    BY <2>1 DEF Displaced, InLine, Until
  <2>2. CASE waiting # 0
    <3>1. ~Key(NoEvent) /\ NoEvent \in Event
      BY EventTypes DEF Key, NoEvent, Ev
    <3>2. Displaced = Give(readers, waiting, NoEvent)
      BY <2>2 DEF Displaced
    <3> QED BY <2>2, <3>1, <3>2, GiveWaitingSorted
  <2> QED BY <2>1, <2>2
<1>6. \A d \in Claims \ {c} : rs[d] = Displaced[d]
  BY <1>2, <1>3, <1>4 DEF Claimed
<1>7. /\ Sorted(log, buffered, Displaced, Claims \ {c})
      /\ \A m \in Nat : Until(m) => Before(log, buffered, Displaced, Claims \ {c}, m)
  BY <1>5, SortedFewer
<1>8. /\ Sorted(log, buffered, rs, Claims \ {c})
      /\ \A m \in Nat : Until(m) => Before(log, buffered, rs, Claims \ {c}, m)
  <2>1. \A m : Below(Displaced, Claims \ {c}, m) => Below(rs, Claims \ {c}, m)
    BY <1>6 DEF Below, Holds
  <2>2. Sorted(log, buffered, rs, Claims \ {c})
    BY <1>6, <1>7, <2>1 DEF Sorted, Holds
  <2> QED BY <1>7, <2>1, <2>2 DEF Before
<1>9. \A d \in Claims : d > c => rs[d].st # "got"
  <2>1. ASSUME NEW d \in Claims, d > c PROVE rs[d].st # "got"
    <3>1. d # c /\ d > reader
      BY <1>2, <2>1 DEF Claims, TypeOK
    <3>2. readers[d].st = "unused" /\ d # waiting
      BY <3>1 DEF OwnInv, Own, Claims, TypeOK
    <3>3. Displaced[d] = readers[d]
      BY <3>2 DEF Displaced, Give, TypeOK
    <3> QED BY <1>6, <3>1, <3>2, <3>3
  <2> QED BY <2>1
<1>10. /\ Sorted(log, buffered', readers', Claims)
       /\ \A m \in Nat : Before(log, buffered, rs, Claims \ {c}, m)
                             => Before(log, buffered', readers', Claims, m)
  BY <1>4, <1>8, <1>9, TakeSorted
<1> QED BY <1>8, <1>10 DEF InLine, Until

(* So does the drain's.                                                    *)
LEMMA DrainSorted ==
    ASSUME TypeOK, OwnInv, ParkedInv, InLine, DrainBetweenTurns, log' = log
    PROVE  /\ InLine'
           /\ \A m \in Nat : Until(m) => Until(m)'
<1>1. CASE turnHolds \/ reader = MaxClaims
  BY <1>1 DEF DrainBetweenTurns, queueVars, InLine, Until
<1>2. CASE ~(turnHolds \/ reader = MaxClaims)
  BY <1>2, HandOverSorted DEF DrainBetweenTurns
<1> QED BY <1>1, <1>2

(* Continuations run in the order of their claims, so the event that is    *)
(* recorded is the oldest that is not, and the reader may take another.    *)
LEMMA ResumeSorted ==
    ASSUME TypeOK, OwnInv, InLine, NEW c \in Claims, Resume(c)
    PROVE  /\ InLine'
           /\ \A m \in Nat : Until(m) => Until(m)'
<1>1. PICK e : e = readers[c].ev
  OBVIOUS
<1>2. /\ log \in Seq(SessionEvent) /\ buffered \in Seq(SessionEvent)
      /\ readers \in [Claims -> Reader] /\ e \in Event
  BY <1>1 DEF TypeOK, Reader
<1>3. /\ readers[c].st = "got"
      /\ \A d \in Claims : d < c => readers[d].st # "got"
  BY DEF Resume
<1>4. PICK D : D = Claims \ {c}
  OBVIOUS
<1>5. D \in SUBSET Claims
  BY <1>4
<1>6. /\ Sorted(log, buffered, readers, D)
      /\ \A m \in Nat : Until(m) => Before(log, buffered, readers, D, m)
  BY <1>5, SortedFewer DEF InLine, Until
<1>7. /\ log' \in Seq(SessionEvent)
      /\ Sorted(log', buffered, readers, D)
      /\ \A m \in Nat : Until(m) => Before(log', buffered, readers, D, m)
  <2>1. CASE Sentinel(e)
    <3>1. log' = log
      BY <1>1, <2>1 DEF Resume
    <3> QED BY <1>2, <1>6, <3>1
  <2>2. CASE ~Sentinel(e)
    <3>1. log' = Append(log, e)
      BY <1>1, <2>2 DEF Resume
    <3>2. e \in SessionEvent
      BY <1>2, <2>2 DEF Event, Sentinel
    <3>3. PICK l : l = log'
      OBVIOUS
    <3>4. /\ l \in Seq(SessionEvent)
          /\ Len(log) \in Nat /\ Len(l) = Len(log) + 1 /\ l[Len(log) + 1] = e
          /\ \A i \in 1 .. Len(log) : l[i] = log[i]
      BY <1>2, <3>1, <3>2, <3>3
    <3>5. Key(e) => Holds(readers, c)
      BY <1>1, <1>3 DEF Holds
    <3>6. Key(e) => Under(log, e.id)
      BY <1>1, <3>5 DEF InLine, Sorted
    <3>7. ASSUME NEW m, Under(log, m), Key(e) => e.id < m PROVE Under(l, m)
      <4>1. ASSUME NEW i \in 1 .. Len(l), Key(l[i]) PROVE l[i].id < m
        <5>1. CASE i \in 1 .. Len(log)
          BY <3>4, <3>7, <4>1, <5>1 DEF Under
        <5>2. CASE i = Len(log) + 1
          BY <3>4, <3>7, <4>1, <5>2
        <5> QED BY <3>4, <5>1, <5>2
      <4> QED BY <4>1 DEF Under
    <3>8. InOrder(l)
      <4>1. ASSUME NEW i \in 1 .. Len(l), NEW j \in 1 .. Len(l), i < j, Key(l[i]), Key(l[j])
            PROVE  l[i].id < l[j].id
        <5>1. i \in 1 .. Len(log) /\ l[i] = log[i]
          BY <3>4, <4>1
        <5>2. CASE j \in 1 .. Len(log)
          <6>1. l[j] = log[j]
            BY <3>4, <5>2
          <6>2. InOrder(log)
            BY DEF InLine, Sorted
          <6> QED BY <4>1, <5>1, <5>2, <6>1, <6>2 DEF InOrder
        <5>3. CASE j = Len(log) + 1
          <6>1. l[j] = e
            BY <3>4, <5>3
          <6> QED BY <3>6, <4>1, <5>1, <6>1 DEF Under
        <5> QED BY <3>4, <5>2, <5>3
      <4> QED BY <4>1 DEF InOrder
    <3>9. ASSUME NEW d \in D, Holds(readers, d) PROVE Under(l, readers[d].ev.id)
      <4>1. Under(log, readers[d].ev.id)
        BY <1>6, <3>9 DEF Sorted
      <4>2. d \in Claims /\ d # c /\ readers[d].st = "got"
        BY <1>4, <3>9 DEF Holds
      <4>3. c < d
        BY <1>3, <4>2 DEF Claims
      <4>4. Key(e) => e.id < readers[d].ev.id
        BY <1>1, <3>5, <3>9, <4>2, <4>3 DEF InLine, Sorted
      <4> QED BY <3>7, <4>1, <4>4
    <3>10. ASSUME NEW i \in 1 .. Len(buffered), Key(buffered[i])
           PROVE  Under(l, buffered[i].id) /\ Below(readers, D, buffered[i].id)
      <4>1. Under(log, buffered[i].id) /\ Below(readers, D, buffered[i].id)
        BY <1>6, <3>10 DEF Sorted
      <4>2. Below(readers, Claims, buffered[i].id)
        BY <3>10 DEF InLine, Sorted
      <4>3. Key(e) => e.id < buffered[i].id
        BY <1>1, <3>5, <4>2 DEF Below
      <4> QED BY <3>7, <4>1, <4>3
    <3>11. Sorted(l, buffered, readers, D)
      BY <1>6, <3>8, <3>9, <3>10 DEF Sorted
    <3>12. ASSUME NEW m \in Nat, Until(m) PROVE Before(l, buffered, readers, D, m)
      <4>1. Before(log, buffered, readers, D, m)
        BY <1>6, <3>12
      <4>2. Key(e) => e.id < m
        BY <1>1, <3>5, <3>12 DEF Until, Before, Below
      <4> QED BY <3>7, <4>1, <4>2 DEF Before
    <3> QED BY <3>3, <3>4, <3>11, <3>12
  <2> QED BY <2>1, <2>2
<1>8. CASE Ends(readers[c])
  <2>1. readers' = [readers EXCEPT ![c].st = "done"] /\ buffered' = buffered
    BY <1>8 DEF Resume
  <2>2. /\ \A d \in D : readers'[d] = readers[d]
        /\ readers'[c].st = "done"
    BY <1>2, <1>4, <2>1 DEF Reader
  <2>3. /\ \A d \in D : Holds(readers', d) => Holds(readers, d) /\ readers'[d].ev = readers[d].ev
        /\ \A d \in Claims \ D : ~Holds(readers', d)
    BY <1>4, <2>2 DEF Holds
  <2>4. /\ Sorted(log', buffered, readers', Claims)
        /\ \A m \in Nat : Before(log', buffered, readers, D, m)
                              => Before(log', buffered, readers', Claims, m)
    BY <1>5, <1>7, <2>3, SortedMore
  <2> QED BY <1>7, <2>1, <2>4 DEF InLine, Until
<1>9. CASE ~Ends(readers[c]) /\ c = reader
  <2>1. Take(readers, c)
    BY <1>9 DEF Resume
  <2>2. \A d \in Claims : d > c => readers[d].st # "got"
    BY <1>9 DEF OwnInv, Own
  <2>3. Sorted(log', buffered, readers, Claims \ {c})
    BY <1>4, <1>7
  <2>4. /\ Sorted(log', buffered', readers', Claims)
        /\ \A m \in Nat : Before(log', buffered, readers, Claims \ {c}, m)
                              => Before(log', buffered', readers', Claims, m)
    BY <1>2, <1>7, <2>1, <2>2, <2>3, TakeSorted
  <2> QED BY <1>4, <1>7, <2>4 DEF InLine, Until
<1>10. CASE ~Ends(readers[c]) /\ c # reader
  <2>1. readers' = Give(readers, c, NoEvent) /\ buffered' = buffered
    BY <1>10 DEF Resume
  <2>2. ~Key(NoEvent) /\ NoEvent \in Event
    BY EventTypes DEF Key, NoEvent, Ev
  <2>3. Sorted(log', buffered, readers, Claims \ {c})
    BY <1>4, <1>7
  <2>4. /\ Sorted(log', buffered, Give(readers, c, NoEvent), Claims)
        /\ \A m \in Nat : Before(log', buffered, readers, Claims \ {c}, m)
                              /\ (Key(NoEvent) => NoEvent.id < m)
                              => Before(log', buffered, Give(readers, c, NoEvent), Claims, m)
    BY <1>2, <1>7, <2>2, <2>3, GiveSorted
  <2> QED BY <1>4, <1>7, <2>1, <2>2, <2>4 DEF InLine, Until
<1> QED BY <1>8, <1>9, <1>10

(* A step that changes no event keeps the order.                           *)
LEMMA MoveOrdered ==
    ASSUME emitted \in Nat, draft \in Nat, OrderInv, InLine', \A m \in Nat : Until(m) => Until(m)',
           UNCHANGED <<emitted, draft>>
    PROVE  OrderInv'
BY DEF OrderInv, InLine, Until

(* A push of the next event, the held draft before it, keeps the order.    *)
LEMMA FlushOrdered ==
    ASSUME TypeOK, OwnInv, ParkedInv, OrderInv, NEW e \in SessionEvent, e.id = emitted + 1,
           FlushAndPush(e), emitted' = emitted + 1, log' = log
    PROVE  OrderInv'
<1>1. emitted \in Nat /\ draft \in Nat /\ InLine /\ Until(emitted + 1) /\ draft' = 0
  BY DEF TypeOK, OrderInv, InLine, Until, FlushAndPush
<1>2. Until(emitted + 2)
  BY <1>1, BeforeMore DEF Until, TypeOK
<1>3. PICK n \in Nat : n = emitted + 2
  BY <1>1
<1>4. InLine' /\ Until(n)'
  <2>1. CASE draft = 0
    <3>1. Push1(e)
      BY <2>1 DEF FlushAndPush
    <3>2. /\ InLine'
          /\ \A m \in Nat : Until(m) /\ (Key(e) => e.id < m) => Until(m)'
      BY <1>1, <3>1, Push1Sorted
    <3>3. e.id < n
      BY <1>1, <1>3
    <3> QED BY <1>2, <1>3, <3>2, <3>3
  <2>2. CASE draft # 0
    <3>1. PICK d : d = Ev("update", 0, draft)
      OBVIOUS
    <3>2. d \in SessionEvent /\ d.id = draft
      BY <1>1, <3>1, EventTypes DEF Ev
    <3>3. Push2(d, e)
      BY <2>2, <3>1 DEF FlushAndPush
    <3>4. draft <= emitted /\ Until(draft)
      BY <2>2 DEF OrderInv, Until
    <3>5. Until(d.id) /\ Until(e.id) /\ d.id < e.id
      BY <1>1, <3>2, <3>4
    <3>6. /\ InLine'
          /\ \A m \in Nat : Until(m) /\ (Key(d) => d.id < m) /\ (Key(e) => e.id < m) => Until(m)'
      BY <1>1, <3>2, <3>3, <3>5, Push2Sorted
    <3>7. e.id < n /\ d.id < n
      BY <1>1, <1>3, <3>2, <3>4
    <3> QED BY <1>2, <1>3, <3>6, <3>7
  <2> QED BY <2>1, <2>2
<1>5. Before(log', buffered', readers', Claims, emitted' + 1)
  <2>1. emitted' + 1 = n
    BY <1>1, <1>3
  <2> QED BY <1>4, <2>1 DEF Until
<1> QED BY <1>1, <1>4, <1>5 DEF OrderInv, InLine

(* What adopt left in the queue is in order, ...                           *)
LEMMA InitOrderInv == Init => OrderInv
<1> SUFFICES ASSUME Init PROVE OrderInv
  OBVIOUS
<1>1. /\ log = <<>> /\ draft = 0 /\ emitted \in {1, 2}
      /\ \A c \in Claims : readers[c].st = "unused"
  BY DEF Init, Unused
<1>2. \A c \in Claims : ~Holds(readers, c)
  BY <1>1 DEF Holds
<1>3. InOrder(buffered) /\ Under(buffered, emitted + 1)
  <2>1. CASE PinFailed
    <3>1. /\ Len(buffered) = 2 /\ emitted = 2
          /\ buffered[1].id = 1 /\ buffered[2].id = 2
      BY <2>1 DEF Init, Ev
    <3> QED BY <3>1 DEF InOrder, Under
  <2>2. CASE ~PinFailed
    <3>1. Len(buffered) = 1 /\ emitted = 1 /\ buffered[1].id = 1
      BY <2>2 DEF Init, Ev
    <3> QED BY <3>1 DEF InOrder, Under
  <2> QED BY <2>1, <2>2
<1>4. InOrder(log) /\ \A m : Under(log, m) /\ Below(readers, Claims, m)
  BY <1>1, <1>2 DEF InOrder, Under, Below
<1> QED BY <1>1, <1>2, <1>3, <1>4 DEF OrderInv, Sorted, Before

(* ... and every step keeps the order.                                     *)
LEMMA NextOrderInv ==
    ASSUME TypeOK, OwnInv, ParkedInv, OrderInv, [Next]_vars PROVE OrderInv'
<1>1. /\ draft \in Nat /\ emitted \in Nat /\ prompts \in Nat
      /\ log \in Seq(SessionEvent) /\ buffered \in Seq(SessionEvent)
      /\ readers \in [Claims -> Reader]
  BY DEF TypeOK
<1>2. InLine /\ Until(emitted + 1)
  BY DEF OrderInv, InLine, Until
<1>3. Until(emitted + 2)
  BY <1>1, <1>2, BeforeMore DEF Until
<1>4. \A k \in {"update", "other", "log", "turn_end", "error"}, n \in Nat :
          Ev(k, n, emitted + 1) \in SessionEvent /\ Ev(k, n, emitted + 1).id = emitted + 1
  BY <1>1, EventTypes DEF Ev
<1>5. CASE Update
  BY <1>4, <1>5, FlushOrdered DEF Update
<1>6. CASE HoldDraft
  <2>1. /\ UNCHANGED <<buffered, readers, log>> /\ emitted' = emitted + 1
        /\ draft' = emitted + 1
    BY <1>6 DEF HoldDraft, queueVars
  <2>2. Before(log, buffered, readers, Claims, emitted' + 1)
    <3>1. emitted' + 1 = emitted + 2
      BY <1>1, <2>1
    <3> QED BY <1>3, <3>1 DEF Until
  <2> QED BY <1>1, <1>2, <2>1, <2>2 DEF OrderInv, InLine, Until
<1>7. CASE AgentLog
  <2>1. PICK e : e = Ev("log", 0, emitted + 1)
    OBVIOUS
  <2>2. e \in SessionEvent /\ ~Key(e)
    BY <1>4, <2>1 DEF Key, Ev
  <2>3. Push1(e) /\ emitted' = emitted + 1 /\ log' = log /\ draft' = draft
    BY <1>7, <2>1 DEF AgentLog
  <2>4. /\ InLine'
        /\ \A m \in Nat : Until(m) /\ (Key(e) => e.id < m) => Until(m)'
    BY <1>2, <2>2, <2>3, Push1Sorted
  <2>5. Before(log', buffered', readers', Claims, emitted' + 1)
    <3>1. emitted' + 1 = emitted + 2 /\ emitted + 2 \in Nat
      BY <1>1, <2>3
    <3> QED BY <1>3, <2>2, <2>4, <3>1 DEF Until
  <2>6. draft' # 0 => draft' <= emitted' /\ Before(log', buffered', readers', Claims, draft')
    <3>1. draft # 0 => draft <= emitted /\ Until(draft)
      BY DEF OrderInv, Until
    <3>2. draft # 0 => Before(log', buffered', readers', Claims, draft)
      BY <1>1, <2>2, <2>4, <3>1 DEF Until
    <3> QED BY <1>1, <2>3, <3>1, <3>2
  <2> QED BY <2>4, <2>5, <2>6 DEF OrderInv, InLine
<1>8. ASSUME NEW n \in Turns, Answer(n) PROVE OrderInv'
  <2>1. CASE Current(n)
    <3>1. PICK kind \in {"turn_end", "error"} : FlushAndPush(Ev(kind, n, emitted + 1))
      BY <1>8, <2>1 DEF Answer
    <3>2. emitted' = emitted + 1 /\ log' = log
      BY <1>8, <2>1 DEF Answer
    <3>3. n \in Nat
      BY DEF Turns
    <3> QED BY <1>4, <3>1, <3>2, <3>3, FlushOrdered
  <2>2. CASE ~Current(n)
    BY <1>8, <2>2 DEF Answer, OrderInv
  <2> QED BY <2>1, <2>2
<1>9. CASE Prompt
  <2>1. HandOver("turn", prompts + 1) /\ reader # MaxClaims /\ UNCHANGED <<emitted, log, draft>>
    BY <1>9, BoundsAssumption DEF Prompt, TypeOK
  <2>2. prompts + 1 \in Nat
    BY <1>1
  <2>3. InLine' /\ \A m \in Nat : Until(m) => Until(m)'
    BY <1>2, <2>1, <2>2, HandOverSorted
  <2> QED BY <1>1, <2>1, <2>3, MoveOrdered
<1>10. ASSUME DrainBetweenTurns, UNCHANGED <<sessionVars, ghostVars>> PROVE OrderInv'
  <2>1. UNCHANGED <<emitted, log, draft>>
    BY <1>10 DEF sessionVars, ghostVars
  <2>2. InLine' /\ \A m \in Nat : Until(m) => Until(m)'
    BY <1>2, <1>10, <2>1, DrainSorted
  <2> QED BY <1>1, <2>1, <2>2, MoveOrdered
<1>11. ASSUME NEW c \in Claims, Resume(c) PROVE OrderInv'
  <2>1. UNCHANGED <<emitted, draft>>
    BY <1>11 DEF Resume, sessionVars
  <2>2. InLine' /\ \A m \in Nat : Until(m) => Until(m)'
    BY <1>2, <1>11, ResumeSorted
  <2> QED BY <1>1, <2>1, <2>2, MoveOrdered
<1>12. ASSUME UNCHANGED <<buffered, readers, emitted, log, draft>> PROVE OrderInv'
  BY <1>12 DEF OrderInv
<1>13. CASE AbandonTurn
  BY <1>1, <1>4, <1>13, FlushOrdered DEF AbandonTurn
<1>14. CASE DisposeFlush
  <2>1. CASE draft = 0
    BY <1>12, <1>14, <2>1 DEF DisposeFlush
  <2>2. CASE draft # 0
    <3>1. PICK e : e = Ev("update", 0, draft)
      OBVIOUS
    <3>2. e \in SessionEvent /\ e.id = draft
      BY <1>1, <3>1, EventTypes DEF Ev
    <3>3. Push1(e) /\ UNCHANGED <<emitted, log>> /\ draft' = 0
      BY <1>14, <2>2, <3>1 DEF DisposeFlush
    <3>4. draft <= emitted /\ Until(draft)
      BY <2>2 DEF OrderInv, Until
    <3>5. /\ InLine'
          /\ \A m \in Nat : Until(m) /\ (Key(e) => e.id < m) => Until(m)'
      BY <1>2, <3>2, <3>3, <3>4, Push1Sorted
    <3>6. Before(log', buffered', readers', Claims, emitted + 1)
      <4>1. emitted + 1 \in Nat /\ e.id < emitted + 1
        BY <1>1, <3>2, <3>4
      <4> QED BY <1>2, <3>5, <4>1 DEF Until
    <3> QED BY <3>3, <3>5, <3>6 DEF OrderInv, InLine, Until
  <2> QED BY <2>1, <2>2
<1>15. CASE DisposeClose
  <2>1. UNCHANGED <<buffered, emitted, log, draft>>
    BY <1>15 DEF DisposeClose, ghostVars
  <2>2. CASE waiting = 0
    BY <1>12, <1>15, <2>1, <2>2 DEF DisposeClose
  <2>3. CASE waiting # 0
    <3>1. readers' = Give(readers, waiting, Closed)
      BY <1>15, <2>3 DEF DisposeClose
    <3>2. ~Key(Closed) /\ Closed \in Event
      BY EventTypes DEF Key, Closed, Ev
    <3>3. /\ Sorted(log, buffered, Give(readers, waiting, Closed), Claims)
          /\ \A m \in Nat : Until(m) /\ (Key(Closed) => Closed.id < m)
                 => Before(log, buffered, Give(readers, waiting, Closed), Claims, m)
      BY <1>2, <2>3, <3>2, GiveWaitingSorted
    <3>4. InLine' /\ \A m \in Nat : Until(m) => Until(m)'
      BY <2>1, <3>1, <3>2, <3>3 DEF InLine, Until
    <3> QED BY <1>1, <2>1, <3>4, MoveOrdered
  <2> QED BY <2>2, <2>3
<1>16. CASE PumpFinally
  BY <1>10, <1>12, <1>16 DEF PumpFinally, queueVars, sessionVars, ghostVars
<1>17. CASE OnStarted
  BY <1>10, <1>17 DEF OnStarted
<1>18. CASE PromptThrows \/ ArmTurn \/ UNCHANGED vars
  BY <1>12, <1>18 DEF PromptThrows, ArmTurn, vars, queueVars, sessionVars, ghostVars
<1> QED BY <1>5, <1>6, <1>7, <1>8, <1>9, <1>11, <1>13, <1>14, <1>15, <1>16, <1>17, <1>18
        DEF Next, AnswerAny, ResumeAny

(***************************************************************************)
(* Readers record what the session emitted in the order it was emitted,    *)
(* and nothing twice, across every hand-over (EventQueue.push, next and    *)
(* handover, Session.flushToolDraft), however long the session lives.      *)
(***************************************************************************)
THEOREM EventsAreReadInOrder == Spec => []ReadInOrder
<1>1. OrderInv => ReadInOrder
  BY DEF OrderInv, Sorted, InOrder, Key, ReadInOrder
<1> QED BY <1>1, InitOrderInv, NextOrderInv, TypeCorrect, OwnInvHolds, ParkedInvHolds, PTL DEF Spec

-----------------------------------------------------------------------------
(* Every end is read by its own turn. *)

(* The epochs of the requests: the one whose callbacks still count is the  *)
(* last prompt's, and its turn is active.                                  *)
RpcInv ==
    \A n \in Turns :
        /\ rpc[n].epoch <= promptEpoch
        /\ n > prompts => rpc[n].st = "none"
        /\ rpc[n].st = "open" /\ rpc[n].epoch = promptEpoch => n = prompts /\ turnActive

(* A prompt moves the epoch on (Session.prompt), so does an abandonment    *)
(* (abandonTurn), and an answer that counts ends the turn.                 *)
LEMMA NextRpcInv == ASSUME TypeOK, RpcInv, [Next]_vars PROVE RpcInv'
<1>1. /\ rpc \in [Turns -> Rpc] /\ promptEpoch \in Nat /\ prompts \in Nat
      /\ \A n \in Turns : n \in Nat /\ rpc[n].epoch \in Nat
  BY DEF TypeOK, Rpc, Turns
<1>2. ASSUME NEW n \in Turns, Answer(n) PROVE RpcInv'
  <2>1. /\ rpc' = [rpc EXCEPT ![n].st = "answered"] /\ rpc[n].st = "open"
        /\ UNCHANGED <<promptEpoch, prompts>>
    BY <1>2 DEF Answer
  <2>2. \A m \in Turns : /\ rpc'[m].epoch = rpc[m].epoch
                         /\ rpc'[m].st = IF m = n THEN "answered" ELSE rpc[m].st
    BY <1>1, <2>1 DEF Rpc
  <2>3. \/ turnActive' = turnActive
        \/ rpc[n].epoch = promptEpoch
    BY <1>2 DEF Answer, Current
  <2> QED BY <2>1, <2>2, <2>3 DEF RpcInv
<1>3. CASE Prompt
  <2>1. /\ rpc' = [rpc EXCEPT ![prompts + 1] = [st |-> "open", epoch |-> promptEpoch + 1]]
        /\ promptEpoch' = promptEpoch + 1 /\ prompts' = prompts + 1 /\ turnActive' = TRUE
    BY <1>3 DEF Prompt
  <2>2. \A m \in Turns : m # prompts + 1 => rpc'[m] = rpc[m]
    BY <1>1, <2>1
  <2>3. \A m \in Turns : m = prompts + 1 => rpc'[m] = [st |-> "open", epoch |-> promptEpoch + 1]
    BY <1>1, <2>1
  <2>4. ASSUME NEW m \in Turns
        PROVE  /\ rpc'[m].epoch <= promptEpoch'
               /\ m > prompts' => rpc'[m].st = "none"
               /\ rpc'[m].st = "open" /\ rpc'[m].epoch = promptEpoch' => m = prompts' /\ turnActive'
    <3>1. CASE m = prompts + 1
      BY <1>1, <2>1, <2>3, <3>1
    <3>2. CASE m # prompts + 1
      <4>1. rpc'[m] = rpc[m] /\ rpc[m].epoch <= promptEpoch
        BY <2>2, <3>2 DEF RpcInv
      <4>2. m > prompts' => rpc[m].st = "none"
        BY <1>1, <2>1 DEF RpcInv
      <4> QED BY <1>1, <2>1, <4>1, <4>2
    <3> QED BY <3>1, <3>2
  <2> QED BY <2>4 DEF RpcInv
<1>4. CASE AbandonTurn
  <2>1. UNCHANGED <<rpc, prompts>> /\ promptEpoch' = promptEpoch + 1
    BY <1>4 DEF AbandonTurn
  <2> QED BY <1>1, <2>1 DEF RpcInv
<1>5. CASE PromptThrows
  <2>1. UNCHANGED <<rpc, prompts, promptEpoch>> /\ turnActive' = TRUE
    BY <1>5 DEF PromptThrows
  <2> QED BY <2>1 DEF RpcInv
<1>6. ASSUME UNCHANGED <<rpc, prompts, promptEpoch, turnActive>> PROVE RpcInv'
  BY <1>6 DEF RpcInv
<1>7. CASE Update \/ HoldDraft \/ AgentLog \/ DisposeFlush \/ DisposeClose
  BY <1>6, <1>7 DEF Update, HoldDraft, AgentLog, DisposeFlush, DisposeClose
<1>8. CASE OnStarted \/ ArmTurn \/ PumpFinally \/ UNCHANGED vars
  BY <1>6, <1>8 DEF OnStarted, ArmTurn, PumpFinally, vars, sessionVars
<1>9. ASSUME NEW c \in Claims, Resume(c) PROVE RpcInv'
  BY <1>6, <1>9 DEF Resume, sessionVars
<1> QED BY <1>2, <1>3, <1>4, <1>5, <1>7, <1>8, <1>9 DEF Next, AnswerAny, ResumeAny

(* It is so in every behaviour.                                            *)
LEMMA RpcInvHolds == Spec => []RpcInv
<1>1. Init => RpcInv
  BY DEF Init, RpcInv
<1> QED BY <1>1, NextRpcInv, TypeCorrect, PTL DEF Spec

(* The turns of readers are numbered from 1, and the last claim has been   *)
(* given an event, or CLOSED once there is nothing left and nothing to     *)
(* come; it is never displaced.                                            *)
Numbered(rs) == \A c \in Claims : rs[c].kind = "turn" => rs[c].of # 0
Due(rs, c, buf, cl) ==
    rs[c].st = "got" => rs[c].ev # NoEvent /\ (rs[c].ev = Closed => cl /\ buf = <<>>)
ReaderInv ==
    /\ Numbered(readers)
    /\ reader \in Claims => Due(readers, reader, buffered, closed)

(* No event of the session is a sentinel.                                  *)
LEMMA NoSentinel == \A e \in SessionEvent : e # NoEvent /\ e # Closed
BY DEF SessionEvent, NoEvent, Closed, Ev

(* Handing a reader an event leaves its turn what it was.                  *)
LEMMA GiveKeepsTurn ==
    ASSUME NEW rs \in [Claims -> Reader], NEW c \in Claims, NEW e
    PROVE  /\ Give(rs, c, e)[c].ev = e /\ Give(rs, c, e)[c].st = "got"
           /\ \A d \in Claims : /\ Give(rs, c, e)[d].kind = rs[d].kind
                                /\ Give(rs, c, e)[d].of = rs[d].of
                                /\ d # c => Give(rs, c, e)[d] = rs[d]
BY DEF Give, Reader

(* A push gives a parked reader an event of the session.                   *)
LEMMA PushReader ==
    ASSUME TypeOK, OwnInv, ReaderInv, UNCHANGED <<closed, reader>>,
           NEW e \in SessionEvent, Push1(e) \/ \E f \in SessionEvent : Push2(e, f)
    PROVE  ReaderInv'
<1>1. readers \in [Claims -> Reader]
  BY DEF TypeOK
<1>2. CASE closed
  BY <1>2 DEF Push1, Push2, ReaderInv
<1>3. CASE ~closed /\ waiting # 0
  <2>1. waiting \in Claims /\ waiting = reader
    BY <1>3 DEF TypeOK, Claims, OwnInv, Own
  <2>2. readers' = Give(readers, waiting, e)
    BY <1>3 DEF Push1, Push2
  <2>3. Numbered(readers')
    BY <1>1, <2>1, <2>2, GiveKeepsTurn DEF ReaderInv, Numbered
  <2>4. readers'[reader].ev = e
    BY <1>1, <2>1, <2>2, GiveKeepsTurn
  <2> QED BY <2>3, <2>4, NoSentinel DEF ReaderInv, Due
<1>4. CASE ~closed /\ waiting = 0
  <2>1. readers' = readers
    BY <1>4 DEF Push1, Push2
  <2> QED BY <1>4, <2>1 DEF ReaderInv, Due
<1> QED BY <1>2, <1>3, <1>4

(* Also when the held draft goes first.                                    *)
LEMMA FlushReader ==
    ASSUME TypeOK, OwnInv, ReaderInv, UNCHANGED <<closed, reader>>,
           NEW e \in SessionEvent, FlushAndPush(e)
    PROVE  ReaderInv'
<1>1. Ev("update", 0, draft) \in SessionEvent
  BY EventTypes DEF TypeOK
<1> QED BY <1>1, PushReader DEF FlushAndPush

(* EventQueue.next gives the claim that asks an event, or CLOSED at the end. *)
LEMMA TakeReader ==
    ASSUME buffered \in Seq(SessionEvent), NEW rs \in [Claims -> Reader], NEW c \in Claims,
           Numbered(rs), Take(rs, c), closed' = closed
    PROVE  Numbered(readers') /\ Due(readers', c, buffered', closed')
<1>1. CASE buffered # <<>>
  <2>1. PICK e : e = Head(buffered)
    OBVIOUS
  <2>2. e \in SessionEvent /\ readers' = Give(rs, c, e)
    BY <1>1, <2>1 DEF Take
  <2>3. readers'[c].ev = e /\ Numbered(readers')
    BY <2>2, GiveKeepsTurn DEF Numbered
  <2> QED BY <2>2, <2>3, NoSentinel DEF Due
<1>2. CASE buffered = <<>> /\ closed
  <2>1. readers' = Give(rs, c, Closed) /\ buffered' = buffered
    BY <1>2 DEF Take
  <2>2. readers'[c].ev = Closed /\ Numbered(readers')
    BY <2>1, GiveKeepsTurn DEF Numbered
  <2>3. Closed # NoEvent
    BY DEF Closed, NoEvent, Ev
  <2> QED BY <1>2, <2>1, <2>2, <2>3 DEF Due
<1>3. CASE buffered = <<>> /\ ~closed
  <2>1. readers' = [rs EXCEPT ![c].st = "parked"]
    BY <1>3 DEF Take
  <2>2. /\ readers'[c].st = "parked"
        /\ \A d \in Claims : readers'[d].kind = rs[d].kind /\ readers'[d].of = rs[d].of
    BY <2>1 DEF Reader
  <2> QED BY <2>2 DEF Due, Numbered
<1> QED BY <1>1, <1>2, <1>3

(* A claim numbers the turn of its reader.                                 *)
LEMMA HandOverReader ==
    ASSUME TypeOK, ReaderInv, reader # MaxClaims, NEW kind \in {"turn", "drain"},
           NEW turn \in Nat, kind = "turn" => turn # 0, HandOver(kind, turn), closed' = closed
    PROVE  ReaderInv'
<1>1. reader + 1 \in Claims
  BY BoundsAssumption DEF Claims, TypeOK
<1>2. PICK c : c = reader + 1
  OBVIOUS
<1>3. PICK rs : rs = Claimed(kind, turn)
  OBVIOUS
<1>4. /\ buffered \in Seq(SessionEvent) /\ readers \in [Claims -> Reader]
      /\ c \in Claims /\ rs \in [Claims -> Reader] /\ Displaced \in [Claims -> Reader]
      /\ Take(rs, c) /\ reader' = c
  BY <1>1, <1>2, <1>3, ClaimedType, TypeParts DEF HandOver, Claimed, Displaced, TypeOK
<1>5. Numbered(Displaced)
  <2>1. CASE waiting = 0
    BY <2>1 DEF Displaced, ReaderInv
  <2>2. CASE waiting # 0
    <3>1. waiting \in Claims
      BY <2>2 DEF TypeOK, Claims
    <3> QED BY <1>4, <2>2, <3>1, GiveKeepsTurn DEF Displaced, ReaderInv, Numbered
  <2> QED BY <2>1, <2>2
<1>6. /\ \A d \in Claims \ {c} : rs[d] = Displaced[d]
      /\ rs[c].kind = kind /\ rs[c].of = turn
  BY <1>2, <1>3, <1>4 DEF Claimed
<1>7. Numbered(rs)
  BY <1>5, <1>6 DEF Numbered
<1>8. Numbered(readers') /\ Due(readers', c, buffered', closed')
  BY <1>4, <1>7, TakeReader
<1> QED BY <1>4, <1>8 DEF ReaderInv

(* Every step leaves the last claim with what it is due.                   *)
LEMMA NextReaderInv ==
    ASSUME TypeOK, OwnInv, ParkedInv, ReaderInv, [Next]_vars PROVE ReaderInv'
<1>1. /\ draft \in Nat /\ emitted \in Nat /\ prompts \in Nat
      /\ buffered \in Seq(SessionEvent) /\ readers \in [Claims -> Reader]
  BY DEF TypeOK
<1>2. \A k \in {"update", "other", "log", "turn_end", "error"}, n \in Nat :
          Ev(k, n, emitted + 1) \in SessionEvent
  BY <1>1, EventTypes
<1>3. CASE Update \/ AbandonTurn
  BY <1>1, <1>2, <1>3, FlushReader DEF Update, AbandonTurn
<1>4. CASE AgentLog
  <2>1. Push1(Ev("log", 0, emitted + 1)) /\ UNCHANGED <<closed, reader>>
    BY <1>4 DEF AgentLog
  <2> QED BY <1>2, <2>1, PushReader
<1>5. ASSUME UNCHANGED <<reader, readers, buffered, closed>> PROVE ReaderInv'
  BY <1>5 DEF ReaderInv
<1>6. ASSUME NEW n \in Turns, Answer(n) PROVE ReaderInv'
  <2>1. n \in Nat
    BY DEF Turns
  <2> QED BY <1>2, <1>5, <1>6, <2>1, FlushReader DEF Answer
<1>7. CASE Prompt
  <2>1. HandOver("turn", prompts + 1) /\ reader # MaxClaims /\ closed' = closed
    BY <1>7, BoundsAssumption DEF Prompt, TypeOK
  <2>2. prompts + 1 \in Nat /\ prompts + 1 # 0
    BY <1>1
  <2> QED BY <2>1, <2>2, HandOverReader
<1>8. ASSUME DrainBetweenTurns PROVE ReaderInv'
  <2>1. CASE turnHolds \/ reader = MaxClaims
    BY <1>5, <1>8, <2>1 DEF DrainBetweenTurns, queueVars
  <2>2. CASE ~(turnHolds \/ reader = MaxClaims)
    BY <1>8, <2>2, HandOverReader DEF DrainBetweenTurns
  <2> QED BY <2>1, <2>2
<1>9. ASSUME NEW c \in Claims, Resume(c) PROVE ReaderInv'
  <2>1. UNCHANGED <<closed, reader>>
    BY <1>9 DEF Resume
  <2>2. CASE Ends(readers[c])
    <3>1. readers' = [readers EXCEPT ![c].st = "done"] /\ buffered' = buffered
      BY <1>9, <2>2 DEF Resume
    <3>2. /\ \A d \in Claims : readers'[d].kind = readers[d].kind /\ readers'[d].of = readers[d].of
          /\ \A d \in Claims : d # c => readers'[d] = readers[d]
          /\ readers'[c].st = "done"
      BY <1>1, <3>1 DEF Reader
    <3> QED BY <2>1, <3>1, <3>2 DEF ReaderInv, Numbered, Due
  <2>3. CASE ~Ends(readers[c]) /\ c = reader
    <3>1. Take(readers, c)
      BY <1>9, <2>3 DEF Resume
    <3>2. Numbered(readers') /\ Due(readers', c, buffered', closed')
      BY <1>1, <2>1, <3>1, TakeReader DEF ReaderInv
    <3> QED BY <2>1, <2>3, <3>2 DEF ReaderInv
  <2>4. CASE ~Ends(readers[c]) /\ c # reader
    <3>1. readers' = Give(readers, c, NoEvent) /\ buffered' = buffered
      BY <1>9, <2>4 DEF Resume
    <3>2. Numbered(readers') /\ \A d \in Claims : d # c => readers'[d] = readers[d]
      BY <1>1, <3>1, GiveKeepsTurn DEF ReaderInv, Numbered
    <3> QED BY <2>1, <2>4, <3>1, <3>2 DEF ReaderInv, Due
  <2> QED BY <2>2, <2>3, <2>4
<1>10. CASE DisposeFlush
  <2>1. CASE draft = 0
    BY <1>5, <1>10, <2>1 DEF DisposeFlush
  <2>2. CASE draft # 0
    <3>1. Push1(Ev("update", 0, draft)) /\ UNCHANGED <<closed, reader>>
      BY <1>10, <2>2 DEF DisposeFlush
    <3>2. Ev("update", 0, draft) \in SessionEvent
      BY <1>1, EventTypes
    <3> QED BY <3>1, <3>2, PushReader
  <2> QED BY <2>1, <2>2
<1>11. CASE DisposeClose
  <2>1. UNCHANGED <<buffered, reader>> /\ closed' = TRUE
    BY <1>11 DEF DisposeClose
  <2>2. CASE waiting = 0
    <3>1. readers' = readers
      BY <1>11, <2>2 DEF DisposeClose
    <3> QED BY <2>1, <3>1 DEF ReaderInv, Due
  <2>3. CASE waiting # 0
    <3>1. waiting \in Claims /\ waiting = reader /\ buffered = <<>>
      BY <2>3 DEF TypeOK, Claims, OwnInv, Own, ParkedInv
    <3>2. readers' = Give(readers, waiting, Closed)
      BY <1>11, <2>3 DEF DisposeClose
    <3>3. readers'[reader].ev = Closed /\ Numbered(readers')
      BY <1>1, <3>1, <3>2, GiveKeepsTurn DEF ReaderInv, Numbered
    <3>4. Closed # NoEvent
      BY DEF Closed, NoEvent, Ev
    <3> QED BY <2>1, <3>1, <3>3, <3>4 DEF ReaderInv, Due
  <2> QED BY <2>2, <2>3
<1>12. CASE OnStarted \/ PumpFinally
  BY <1>5, <1>8, <1>12 DEF OnStarted, PumpFinally, queueVars
<1>13. CASE HoldDraft \/ PromptThrows \/ ArmTurn \/ UNCHANGED vars
  BY <1>5, <1>13 DEF HoldDraft, PromptThrows, ArmTurn, vars, queueVars
<1> QED BY <1>3, <1>4, <1>6, <1>7, <1>9, <1>10, <1>11, <1>12, <1>13
        DEF Next, AnswerAny, ResumeAny

(* It is so in every behaviour.                                            *)
LEMMA ReaderInvHolds == Spec => []ReaderInv
<1>1. Init => ReaderInv
  BY DEF Init, ReaderInv, Numbered, Unused, Due
<1> QED BY <1>1, NextReaderInv, TypeCorrect, OwnInvHolds, ParkedInvHolds, PTL DEF Spec

(* The end of a turn; and any event that would end one but the notice of   *)
(* an overflow (session.ts: a turn returns on turn_end or error).          *)
IsEnd(e) == e.turn # 0 \/ (e.kind \in {"turn_end", "error"} /\ e.id # 0)
HasEnd(s) == \E i \in 1 .. Len(s) : IsEnd(s[i])

(* There is at most one in s, and it is of turn t.                         *)
Fine(s, t) ==
    /\ \A i, j \in 1 .. Len(s) : IsEnd(s[i]) /\ IsEnd(s[j]) => i = j
    /\ \A i \in 1 .. Len(s) : IsEnd(s[i]) => s[i].turn = t

(* A buffer with no end in it has none of any turn but t.                  *)
LEMMA NoEndIsFine == ASSUME NEW s, ~HasEnd(s), NEW t PROVE Fine(s, t)
BY DEF Fine, HasEnd

(* EventQueue.push adds no end but the one it is given.                    *)
LEMMA BufferedFine ==
    ASSUME NEW s \in Seq(SessionEvent), NEW e \in SessionEvent
    PROVE  /\ HasEnd(Buffered(s, e).seq) => HasEnd(s) \/ IsEnd(e)
           /\ \A t : Fine(s, t) /\ ~IsEnd(e) => Fine(Buffered(s, e).seq, t)
           /\ ~HasEnd(s) => Fine(Buffered(s, e).seq, e.turn)
<1>1. PICK b : b = Buffered(s, e).seq
  OBVIOUS
<1>2. PICK f \in [1 .. Len(b) -> 1 .. Len(s) + 2] :
          /\ \A i \in 1 .. Len(b) : b[i] = Noted(s, e)[f[i]]
          /\ \A i, j \in 1 .. Len(b) : i < j => f[i] < f[j]
  BY <1>1, PushLeaves
<1>3. /\ Len(s) \in Nat
      /\ \A k \in 1 .. Len(s) : Noted(s, e)[k] = s[k]
      /\ Noted(s, e)[Len(s) + 1] = e
      /\ Noted(s, e)[Len(s) + 2] = Ev("error", 0, 0)
  BY DEF Noted
<1>4. ~IsEnd(Ev("error", 0, 0))
  BY DEF IsEnd, Ev
<1>5. Len(b) \in Nat /\ \A i \in 1 .. Len(b) : f[i] \in 1 .. Len(s) + 2
  <2>1. b \in Seq(SessionEvent)
    BY <1>1, BufferedType
  <2>2. Len(b) \in Nat
    BY <2>1
  <2> QED BY <1>2, <2>2
<1>6. \A i, j \in 1 .. Len(b) : f[i] = f[j] => i = j
  <2>1. ASSUME NEW i \in 1 .. Len(b), NEW j \in 1 .. Len(b), f[i] = f[j], i # j PROVE FALSE
    <3>1. (i < j \/ j < i) /\ f[i] \in Nat /\ f[j] \in Nat
      BY <1>3, <1>5, <2>1
    <3> QED BY <1>2, <2>1, <3>1
  <2> QED BY <2>1
<1>7. ASSUME NEW i \in 1 .. Len(b), IsEnd(b[i])
      PROVE  \/ f[i] \in 1 .. Len(s) /\ b[i] = s[f[i]]
             \/ f[i] = Len(s) + 1 /\ b[i] = e
  <2>1. f[i] \in 1 .. Len(s) + 2 /\ b[i] = Noted(s, e)[f[i]]
    BY <1>2
  <2>2. f[i] # Len(s) + 2
    BY <1>3, <1>4, <1>7, <2>1
  <2> QED BY <1>3, <2>1, <2>2
<1>8. HasEnd(b) => HasEnd(s) \/ IsEnd(e)
  BY <1>7 DEF HasEnd
<1>9. ASSUME NEW t, Fine(s, t), ~IsEnd(e) PROVE Fine(b, t)
  <2>1. \A i \in 1 .. Len(b) : IsEnd(b[i]) => f[i] \in 1 .. Len(s) /\ b[i] = s[f[i]]
    BY <1>7, <1>9
  <2>2. ASSUME NEW i \in 1 .. Len(b), NEW j \in 1 .. Len(b), IsEnd(b[i]), IsEnd(b[j])
        PROVE  i = j
    <3>1. f[i] \in 1 .. Len(s) /\ f[j] \in 1 .. Len(s) /\ IsEnd(s[f[i]]) /\ IsEnd(s[f[j]])
      BY <2>1, <2>2
    <3>2. f[i] = f[j]
      BY <1>9, <3>1 DEF Fine
    <3> QED BY <1>6, <3>2
  <2>3. ASSUME NEW i \in 1 .. Len(b), IsEnd(b[i]) PROVE b[i].turn = t
    <3>1. f[i] \in 1 .. Len(s) /\ b[i] = s[f[i]]
      BY <2>1, <2>3
    <3> QED BY <1>9, <2>3, <3>1 DEF Fine
  <2> QED BY <2>2, <2>3 DEF Fine
<1>10. ASSUME ~HasEnd(s) PROVE Fine(b, e.turn)
  <2>1. \A i \in 1 .. Len(b) : IsEnd(b[i]) => f[i] = Len(s) + 1 /\ b[i] = e
    BY <1>7, <1>10 DEF HasEnd
  <2> QED BY <1>6, <2>1 DEF Fine
<1> QED BY <1>1, <1>8, <1>9, <1>10

(* Taking the oldest event leaves the others.                              *)
LEMMA TailFine ==
    ASSUME NEW s \in Seq(SessionEvent), s # <<>>
    PROVE  /\ HasEnd(Tail(s)) => HasEnd(s)
           /\ IsEnd(Head(s)) => HasEnd(s)
           /\ \A t : Fine(s, t) => Fine(Tail(s), t) /\ (IsEnd(Head(s)) => Head(s).turn = t)
           /\ \A t : Fine(s, t) /\ IsEnd(Head(s)) => ~HasEnd(Tail(s))
<1>1. PICK e, r : e = Head(s) /\ r = Tail(s)
  OBVIOUS
<1>2. /\ Len(s) \in Nat \ {0} /\ 1 \in 1 .. Len(s) /\ e = s[1] /\ Len(r) = Len(s) - 1
      /\ \A i \in 1 .. Len(r) : i + 1 \in 1 .. Len(s) /\ r[i] = s[i + 1]
  BY <1>1
<1>3. \A i, j \in 1 .. Len(r) : i + 1 = j + 1 => i = j
  BY <1>2
<1>4. \A i \in 1 .. Len(r) : i + 1 # 1
  BY <1>2
<1>5. HasEnd(r) => HasEnd(s)
  BY <1>2 DEF HasEnd
<1>6. IsEnd(e) => HasEnd(s)
  BY <1>2 DEF HasEnd
<1>7. ASSUME NEW t, Fine(s, t) PROVE Fine(r, t) /\ (IsEnd(e) => e.turn = t)
  BY <1>2, <1>3, <1>7 DEF Fine
<1>8. ASSUME NEW t, Fine(s, t), IsEnd(e) PROVE ~HasEnd(r)
  BY <1>2, <1>4, <1>8 DEF Fine, HasEnd
<1> QED BY <1>1, <1>5, <1>6, <1>7, <1>8

(* What may still be in the buffer when no turn has started: the drain has *)
(* not read what adopt left there, or never can.                           *)
Opening ==
    \/ MaxClaims = 0
    \/ reader = 0 /\ pump = "unstarted"
    \/ reader = 1 /\ pump = "idle" /\ readers[1].st = "got"

(* A reader with the end of a turn is that turn's.                         *)
OwnEnd(r) ==
    /\ r.ev.turn # 0 => r.kind = "turn" /\ r.of = r.ev.turn
    /\ r.kind = "turn" /\ r.ev.kind \in {"turn_end", "error"} /\ r.ev.id # 0
       => r.of = r.ev.turn

(* The strengthening of EndReachesItsTurn.  An end that is buffered is the *)
(* only one, of the turn that holds the queue, whose request has been      *)
(* settled and whose reader has not been given it; a turn that is active   *)
(* holds the queue, unless it is closed; and nobody has the hold while the *)
(* pump is not streaming.                                                  *)
EndsPlaced ==
    /\ \A c \in Claims : OwnEnd(readers[c])
    /\ HasEnd(buffered) =>
           \/ Opening /\ Fine(buffered, 0)
           \/ /\ turnHolds /\ ~turnActive /\ ~IsEnd(readers[reader].ev)
              /\ Fine(buffered, readers[reader].of)
    /\ turnActive /\ ~closed =>
           turnHolds /\ readers[reader].of = prompts /\ ~IsEnd(readers[reader].ev)
    /\ pump \in {"unstarted", "idle", "attach"} => ~turnHolds

(* The sessions it is about: those of a manager, until an overflow.        *)
Managed == pump # "bare" /\ ~Overflowed
EndInv == Managed => EndsPlaced

(* A step never makes a session managed, nor an overflow undone.           *)
LEMMA ManagedBefore == ASSUME TypeOK, [Next]_vars, Managed' PROVE Managed
<1>1. pump = "bare" => pump' = "bare"
  <2>1. CASE Update \/ HoldDraft \/ AgentLog \/ AbandonTurn \/ DisposeFlush \/ DisposeClose
    BY <2>1 DEF Update, HoldDraft, AgentLog, AbandonTurn, DisposeFlush, DisposeClose
  <2>2. CASE AnswerAny \/ ResumeAny
    BY <2>2 DEF AnswerAny, Answer, ResumeAny, Resume
  <2>3. CASE Prompt \/ PromptThrows \/ OnStarted \/ ArmTurn \/ PumpFinally \/ UNCHANGED vars
    BY <2>3 DEF Prompt, PromptThrows, OnStarted, ArmTurn, PumpFinally, vars
  <2> QED BY <2>1, <2>2, <2>3 DEF Next
<1>2. log' = log \/ \E e \in SessionEvent : log' = Append(log, e)
  <2>1. CASE Update \/ HoldDraft \/ AgentLog \/ AbandonTurn \/ DisposeFlush \/ DisposeClose
    BY <2>1 DEF Update, HoldDraft, AgentLog, AbandonTurn, DisposeFlush, DisposeClose, ghostVars
  <2>2. CASE AnswerAny
    BY <2>2 DEF AnswerAny, Answer
  <2>3. CASE Prompt \/ PromptThrows \/ OnStarted \/ ArmTurn \/ PumpFinally \/ UNCHANGED vars
    BY <2>3 DEF Prompt, PromptThrows, OnStarted, ArmTurn, PumpFinally, vars, ghostVars
  <2>4. ASSUME NEW c \in Claims, Resume(c)
        PROVE  log' = log \/ \E e \in SessionEvent : log' = Append(log, e)
    <3>1. PICK e : e = readers[c].ev
      OBVIOUS
    <3>2. e \in Event
      BY <3>1 DEF TypeOK, Reader
    <3>3. log' = IF Sentinel(e) THEN log ELSE Append(log, e)
      BY <2>4, <3>1 DEF Resume
    <3> QED BY <3>2, <3>3 DEF Event, Sentinel
  <2> QED BY <2>1, <2>2, <2>3, <2>4 DEF Next, ResumeAny
<1>3. Overflowed => Overflowed'
  <2>1. CASE log' = log
    BY <2>1 DEF Overflowed
  <2>2. ASSUME NEW e \in SessionEvent, log' = Append(log, e) PROVE Overflowed => Overflowed'
    <3>1. PICK l : l = log'
      OBVIOUS
    <3>2. Len(log) \in Nat /\ Len(l) = Len(log) + 1 /\ \A i \in 1 .. Len(log) : l[i] = log[i]
      BY <2>2, <3>1 DEF TypeOK
    <3> QED BY <3>1, <3>2 DEF Overflowed
  <2> QED BY <1>2, <2>1, <2>2
<1> QED BY <1>1, <1>3 DEF Managed

(* Handing on something that ends no turn leaves every end where it is.    *)
LEMMA PlainMove ==
    ASSUME TypeOK, OwnInv, EndsPlaced,
           UNCHANGED <<closed, reader, turnHolds, turnActive, prompts, pump>>,
           \/ readers' = readers
           \/ /\ waiting # 0
              /\ \E g \in Event : ~IsEnd(g) /\ readers' = Give(readers, waiting, g),
           HasEnd(buffered') => HasEnd(buffered),
           \A t : Fine(buffered, t) => Fine(buffered', t)
    PROVE  EndsPlaced'
<1>1. CASE readers' = readers
  <2>1. Opening => Opening'
    BY <1>1 DEF Opening
  <2> QED BY <1>1, <2>1 DEF EndsPlaced
<1>2. ASSUME waiting # 0, NEW g \in Event, ~IsEnd(g), readers' = Give(readers, waiting, g)
      PROVE  EndsPlaced'
  <2>1. waiting \in Claims /\ waiting = reader /\ readers \in [Claims -> Reader]
    BY <1>2 DEF TypeOK, Claims, OwnInv, Own
  <2>2. /\ readers'[reader].ev = g /\ readers'[reader].st = "got"
        /\ readers'[reader].of = readers[reader].of
        /\ \A d \in Claims : d # reader => readers'[d] = readers[d]
    BY <1>2, <2>1, GiveKeepsTurn
  <2>3. OwnEnd(readers'[reader])
    BY <1>2, <2>2 DEF OwnEnd, IsEnd
  <2>4. \A c \in Claims : OwnEnd(readers'[c])
    BY <2>2, <2>3 DEF EndsPlaced
  <2>5. Opening => Opening'
    BY <2>2 DEF Opening
  <2> QED BY <1>2, <2>2, <2>4, <2>5 DEF EndsPlaced
<1> QED BY <1>1, <1>2

(* So does a push of something that ends no turn.                          *)
LEMMA PlainPush ==
    ASSUME TypeOK, OwnInv, EndsPlaced,
           UNCHANGED <<closed, reader, turnHolds, turnActive, prompts, pump>>,
           NEW e \in SessionEvent, ~IsEnd(e),
           Push1(e) \/ \E f \in SessionEvent : ~IsEnd(f) /\ Push2(e, f)
    PROVE  EndsPlaced'
<1>1. buffered \in Seq(SessionEvent) /\ e \in Event
  BY EventTypes DEF TypeOK
<1>2. \/ readers' = readers
      \/ /\ waiting # 0
         /\ \E g \in Event : ~IsEnd(g) /\ readers' = Give(readers, waiting, g)
  BY <1>1 DEF Push1, Push2
<1>3. /\ HasEnd(buffered') => HasEnd(buffered)
      /\ \A t : Fine(buffered, t) => Fine(buffered', t)
  <2>1. CASE buffered' = buffered
    BY <2>1
  <2>2. ASSUME NEW f \in SessionEvent, ~IsEnd(f), buffered' = Buffered(buffered, f).seq
        PROVE  /\ HasEnd(buffered') => HasEnd(buffered)
               /\ \A t : Fine(buffered, t) => Fine(buffered', t)
    BY <1>1, <2>2, BufferedFine
  <2>3. ASSUME NEW f \in SessionEvent, ~IsEnd(f),
               buffered' = Buffered(Buffered(buffered, e).seq, f).seq
        PROVE  /\ HasEnd(buffered') => HasEnd(buffered)
               /\ \A t : Fine(buffered, t) => Fine(buffered', t)
    <3>1. PICK b : b = Buffered(buffered, e).seq
      OBVIOUS
    <3>2. /\ b \in Seq(SessionEvent)
          /\ HasEnd(b) => HasEnd(buffered)
          /\ \A t : Fine(buffered, t) => Fine(b, t)
      BY <1>1, <3>1, BufferedFine, BufferedType
    <3>3. /\ HasEnd(buffered') => HasEnd(b)
          /\ \A t : Fine(b, t) => Fine(buffered', t)
      BY <2>3, <3>1, <3>2, BufferedFine
    <3> QED BY <3>2, <3>3
  <2>4. \/ buffered' = buffered
        \/ \E f \in SessionEvent : ~IsEnd(f) /\ buffered' = Buffered(buffered, f).seq
        \/ \E f \in SessionEvent : ~IsEnd(f) /\ buffered' = Buffered(Buffered(buffered, e).seq, f).seq
    BY DEF Push1, Push2
  <2> QED BY <2>1, <2>2, <2>3, <2>4
<1> QED BY <1>2, <1>3, PlainMove

(* Also when the held draft goes first.                                    *)
LEMMA PlainFlush ==
    ASSUME TypeOK, OwnInv, EndsPlaced,
           UNCHANGED <<closed, reader, turnHolds, turnActive, prompts, pump>>,
           NEW e \in SessionEvent, ~IsEnd(e), FlushAndPush(e)
    PROVE  EndsPlaced'
<1>1. PICK d : d = Ev("update", 0, draft)
  OBVIOUS
<1>2. d \in SessionEvent /\ ~IsEnd(d)
  BY <1>1, EventTypes DEF TypeOK, IsEnd, Ev
<1>3. Push1(e) \/ Push2(d, e)
  BY <1>1 DEF FlushAndPush
<1> QED BY <1>2, <1>3, PlainPush

(* The end of the active turn goes to that turn's reader, or, behind the   *)
(* draft or what is buffered, to a buffer without another end.             *)
LEMMA EndPush ==
    ASSUME TypeOK, OwnInv, ReaderInv, EndsPlaced,
           UNCHANGED <<closed, reader, turnHolds, prompts, pump>>,
           turnActive, turnActive' = FALSE,
           NEW e \in SessionEvent, e.turn = prompts, FlushAndPush(e)
    PROVE  EndsPlaced'
<1>1. /\ buffered \in Seq(SessionEvent) /\ readers \in [Claims -> Reader] /\ e \in Event
      /\ turnHolds \in BOOLEAN
  BY EventTypes DEF TypeOK
<1>2. PICK d : d = Ev("update", 0, draft)
  OBVIOUS
<1>3. d \in SessionEvent /\ ~IsEnd(d) /\ d \in Event
  BY <1>2, EventTypes DEF TypeOK, IsEnd, Ev
<1>4. (draft = 0 /\ Push1(e)) \/ (draft # 0 /\ Push2(d, e))
  BY <1>2 DEF FlushAndPush
<1>5. CASE closed
  <2>1. UNCHANGED <<readers, buffered>>
    BY <1>4, <1>5 DEF Push1, Push2
  <2>2. Opening => Opening'
    BY <2>1 DEF Opening
  <2> QED BY <1>5, <2>1, <2>2 DEF EndsPlaced
<1>6. CASE ~closed
  <2>1. turnHolds /\ readers[reader].of = prompts /\ ~IsEnd(readers[reader].ev)
    BY <1>6 DEF EndsPlaced
  <2>2. reader \in Claims /\ readers[reader].kind = "turn" /\ prompts # 0
    BY <2>1 DEF OwnInv, Own, ReaderInv, Numbered
  <2>3. ~Opening
    BY <2>1, <2>2 DEF Opening, EndsPlaced, Claims
  <2>4. ~HasEnd(buffered)
    BY <2>3 DEF EndsPlaced
  <2>5. PICK t : t = readers[reader].of
    OBVIOUS
  <2>6. e.turn = t
    BY <2>1, <2>5
  <2>7. ASSUME NEW g \in Event, g = e \/ ~IsEnd(g), waiting # 0,
               readers' = Give(readers, waiting, g)
        PROVE  /\ readers'[reader].of = t /\ readers'[reader].ev = g
               /\ \A c \in Claims : OwnEnd(readers'[c])
    <3>1. waiting = reader
      BY <2>7 DEF OwnInv, Own
    <3>2. /\ readers'[reader].ev = g /\ readers'[reader].of = t
          /\ readers'[reader].kind = "turn"
          /\ \A c \in Claims : c # reader => readers'[c] = readers[c]
      BY <1>1, <2>2, <2>5, <2>7, <3>1, GiveKeepsTurn
    <3>3. OwnEnd(readers'[reader])
      BY <2>6, <2>7, <3>2 DEF OwnEnd, IsEnd
    <3> QED BY <3>2, <3>3 DEF EndsPlaced
  <2>8. CASE waiting # 0 /\ draft = 0
    <3>1. readers' = Give(readers, waiting, e) /\ buffered' = buffered
      BY <1>4, <1>6, <2>8 DEF Push1
    <3>2. \A c \in Claims : OwnEnd(readers'[c])
      BY <1>1, <2>7, <2>8, <3>1
    <3> QED BY <2>4, <3>1, <3>2 DEF EndsPlaced
  <2>9. CASE waiting # 0 /\ draft # 0
    <3>1. readers' = Give(readers, waiting, d) /\ buffered' = Buffered(buffered, e).seq
      BY <1>4, <1>6, <2>9 DEF Push2
    <3>2. /\ readers'[reader].of = t /\ readers'[reader].ev = d
          /\ \A c \in Claims : OwnEnd(readers'[c])
      BY <1>3, <2>7, <2>9, <3>1
    <3>3. Fine(buffered', t)
      BY <1>1, <2>4, <2>6, <3>1, BufferedFine
    <3> QED BY <1>3, <2>1, <3>2, <3>3 DEF EndsPlaced
  <2>10. CASE waiting = 0
    <3>1. readers' = readers
      BY <1>4, <1>6, <2>10 DEF Push1, Push2
    <3>2. Fine(buffered', t)
      <4>1. CASE draft = 0
        <5>1. buffered' = Buffered(buffered, e).seq
          BY <1>4, <1>6, <2>10, <4>1 DEF Push1
        <5> QED BY <1>1, <2>4, <2>6, <5>1, BufferedFine
      <4>2. CASE draft # 0
        <5>1. PICK b : b = Buffered(buffered, d).seq
          OBVIOUS
        <5>2. b \in Seq(SessionEvent) /\ ~HasEnd(b)
          BY <1>1, <1>3, <2>4, <5>1, BufferedFine, BufferedType
        <5>3. buffered' = Buffered(b, e).seq
          BY <1>4, <1>6, <2>10, <4>2, <5>1 DEF Push2
        <5> QED BY <2>6, <5>2, <5>3, BufferedFine
      <4> QED BY <4>1, <4>2
    <3> QED BY <2>1, <2>5, <3>1, <3>2 DEF EndsPlaced
  <2> QED BY <2>8, <2>9, <2>10 DEF TypeOK
<1> QED BY <1>5, <1>6

(* EventQueue.next gives the claim that asks the end that is its turn's,   *)
(* or, to the drain, what adopt left; or leaves it in the buffer.          *)
LEMMA TakeEnds ==
    ASSUME buffered \in Seq(SessionEvent), NEW rs \in [Claims -> Reader], NEW c \in Claims,
           Take(rs, c), \A d \in Claims : OwnEnd(rs[d]), NEW t,
           HasEnd(buffered) => /\ Fine(buffered, t)
                               /\ \/ rs[c].kind = "turn" /\ rs[c].of = t
                                  \/ rs[c].kind # "turn" /\ t = 0
    PROVE  /\ \A d \in Claims : OwnEnd(readers'[d]) /\ readers'[d].of = rs[d].of
           /\ \A d \in Claims : d # c => readers'[d] = rs[d]
           /\ HasEnd(buffered') => /\ HasEnd(buffered) /\ Fine(buffered', t)
                                   /\ ~IsEnd(readers'[c].ev) /\ readers'[c].st = "got"
           /\ ~HasEnd(buffered) /\ IsEnd(readers'[c].ev) => IsEnd(rs[c].ev)
<1>1. CASE buffered # <<>>
  <2>1. PICK e : e = Head(buffered)
    OBVIOUS
  <2>2. readers' = Give(rs, c, e) /\ buffered' = Tail(buffered)
    BY <1>1, <2>1 DEF Take
  <2>3. /\ readers'[c].ev = e /\ readers'[c].st = "got"
        /\ \A d \in Claims : /\ readers'[d].kind = rs[d].kind /\ readers'[d].of = rs[d].of
                             /\ d # c => readers'[d] = rs[d]
    BY <2>2, GiveKeepsTurn
  <2>4. /\ HasEnd(buffered') => HasEnd(buffered)
        /\ IsEnd(e) => HasEnd(buffered)
        /\ Fine(buffered, t) => Fine(buffered', t) /\ (IsEnd(e) => e.turn = t)
        /\ Fine(buffered, t) /\ IsEnd(e) => ~HasEnd(buffered')
    BY <1>1, <2>1, <2>2, TailFine
  <2>5. OwnEnd(readers'[c])
    <3>1. CASE IsEnd(e)
      <4>1. /\ e.turn = t
            /\ \/ rs[c].kind = "turn" /\ rs[c].of = t
               \/ rs[c].kind # "turn" /\ t = 0
        BY <2>4, <3>1
      <4> QED BY <2>3, <4>1 DEF OwnEnd
    <3>2. CASE ~IsEnd(e)
      BY <2>3, <3>2 DEF OwnEnd, IsEnd
    <3> QED BY <3>1, <3>2
  <2> QED BY <2>3, <2>4, <2>5
<1>2. CASE buffered = <<>> /\ closed
  <2>1. readers' = Give(rs, c, Closed) /\ buffered' = buffered
    BY <1>2 DEF Take
  <2>2. /\ readers'[c].ev = Closed /\ readers'[c].st = "got"
        /\ \A d \in Claims : /\ readers'[d].kind = rs[d].kind /\ readers'[d].of = rs[d].of
                             /\ d # c => readers'[d] = rs[d]
    BY <2>1, GiveKeepsTurn
  <2>3. ~IsEnd(Closed) /\ ~HasEnd(buffered)
    BY <1>2 DEF IsEnd, Closed, Ev, HasEnd
  <2>4. OwnEnd(readers'[c])
    BY <2>2, <2>3 DEF OwnEnd, IsEnd
  <2> QED BY <2>1, <2>2, <2>3, <2>4
<1>3. CASE buffered = <<>> /\ ~closed
  <2>1. readers' = [rs EXCEPT ![c].st = "parked"] /\ buffered' = buffered
    BY <1>3 DEF Take
  <2>2. \A d \in Claims : /\ readers'[d].kind = rs[d].kind /\ readers'[d].of = rs[d].of
                          /\ readers'[d].ev = rs[d].ev
                          /\ d # c => readers'[d] = rs[d]
    BY <2>1 DEF Reader
  <2>3. ~HasEnd(buffered)
    BY <1>3 DEF HasEnd
  <2>4. OwnEnd(readers'[c])
    BY <2>2 DEF OwnEnd
  <2> QED BY <2>1, <2>2, <2>3, <2>4
<1> QED BY <1>1, <1>2, <1>3

(* So does a hand-over: to a turn only when no end is buffered.            *)
LEMMA HandOverEnds ==
    ASSUME TypeOK, \A d \in Claims : OwnEnd(readers[d]), reader # MaxClaims,
           NEW kind \in {"turn", "drain"}, NEW turn \in Nat, HandOver(kind, turn),
           HasEnd(buffered) => kind = "drain" /\ Fine(buffered, 0)
    PROVE  /\ reader' = reader + 1 /\ reader' \in Claims
           /\ \A d \in Claims : OwnEnd(readers'[d])
           /\ readers'[reader'].of = turn
           /\ HasEnd(buffered') => /\ HasEnd(buffered) /\ Fine(buffered', 0)
                                   /\ readers'[reader'].st = "got"
           /\ ~HasEnd(buffered) => ~IsEnd(readers'[reader'].ev)
<1>1. reader + 1 \in Claims
  BY BoundsAssumption DEF Claims, TypeOK
<1>2. PICK c : c = reader + 1
  OBVIOUS
<1>3. PICK rs : rs = Claimed(kind, turn)
  OBVIOUS
<1>4. /\ buffered \in Seq(SessionEvent) /\ readers \in [Claims -> Reader]
      /\ c \in Claims /\ rs \in [Claims -> Reader] /\ Displaced \in [Claims -> Reader]
      /\ Take(rs, c) /\ reader' = c
  BY <1>1, <1>2, <1>3, ClaimedType, TypeParts DEF HandOver, Claimed, Displaced, TypeOK
<1>5. \A r : r.ev = NoEvent => OwnEnd(r) /\ ~IsEnd(r.ev)
  BY DEF OwnEnd, IsEnd, NoEvent, Ev
<1>6. \A d \in Claims : OwnEnd(Displaced[d])
  <2>1. CASE waiting = 0
    BY <2>1 DEF Displaced
  <2>2. CASE waiting # 0
    <3>1. waiting \in Claims /\ Displaced = Give(readers, waiting, NoEvent)
      BY <2>2 DEF TypeOK, Claims, Displaced
    <3>2. /\ Displaced[waiting].ev = NoEvent
          /\ \A d \in Claims : d # waiting => Displaced[d] = readers[d]
      BY <1>4, <3>1, GiveKeepsTurn
    <3> QED BY <1>5, <3>2
  <2> QED BY <2>1, <2>2
<1>7. /\ \A d \in Claims : d # c => rs[d] = Displaced[d]
      /\ rs[c].kind = kind /\ rs[c].of = turn /\ rs[c].ev = NoEvent
  BY <1>2, <1>3, <1>4 DEF Claimed
<1>8. /\ \A d \in Claims : OwnEnd(rs[d])
      /\ ~IsEnd(rs[c].ev)
  BY <1>5, <1>6, <1>7
<1>9. HasEnd(buffered) => /\ Fine(buffered, 0)
                          /\ \/ rs[c].kind = "turn" /\ rs[c].of = 0
                             \/ rs[c].kind # "turn" /\ 0 = 0
  BY <1>7
<1>10. /\ \A d \in Claims : OwnEnd(readers'[d]) /\ readers'[d].of = rs[d].of
       /\ HasEnd(buffered') => /\ HasEnd(buffered) /\ Fine(buffered', 0)
                               /\ ~IsEnd(readers'[c].ev) /\ readers'[c].st = "got"
       /\ ~HasEnd(buffered) /\ IsEnd(readers'[c].ev) => IsEnd(rs[c].ev)
  BY <1>4, <1>8, <1>9, TakeEnds
<1> QED BY <1>2, <1>4, <1>7, <1>8, <1>10

(* A reader's continuation: a turn returns on its own end and gives the    *)
(* hold back when nothing of it is left in the buffer.                     *)
LEMMA ResumeEnds ==
    ASSUME TypeOK, OwnInv, ReaderInv, EndsPlaced, NEW c \in Claims, Resume(c), ~Overflowed'
    PROVE  EndsPlaced'
<1>1. PICK e : e = readers[c].ev
  OBVIOUS
<1>2. /\ readers \in [Claims -> Reader] /\ buffered \in Seq(SessionEvent)
      /\ log \in Seq(SessionEvent) /\ e \in Event /\ turnHolds \in BOOLEAN
  BY <1>1 DEF TypeOK, Reader
<1>3. /\ readers[c].st = "got"
      /\ UNCHANGED <<closed, reader, turnActive, prompts, pump>>
  BY DEF Resume, sessionVars
<1>4. Sentinel(e) \/ e.id # 0
  <2>1. SUFFICES ASSUME ~Sentinel(e), e.id = 0 PROVE FALSE
    OBVIOUS
  <2>2. PICK l : l = log'
    OBVIOUS
  <2>3. l = Append(log, e) /\ e \in SessionEvent
    BY <1>1, <1>2, <2>1, <2>2 DEF Resume, Event, Sentinel
  <2>4. Len(l) = Len(log) + 1 /\ Len(log) \in Nat /\ l[Len(log) + 1] = e
    BY <1>2, <2>3
  <2> QED BY <2>1, <2>2, <2>4 DEF Overflowed
<1>5. readers[c].kind = "turn" => turnHolds /\ c = reader
  BY <1>3 DEF OwnInv, Own
<1>6. turnHolds => ~Opening
  BY DEF OwnInv, Own, Opening, EndsPlaced, Claims
<1>7. CASE Ends(readers[c])
  <2>1. /\ readers' = [readers EXCEPT ![c].st = "done"] /\ buffered' = buffered
        /\ turnHolds' = (turnHolds /\ ~(c = reader /\ readers[c].kind = "turn"))
    BY <1>7 DEF Resume, Release
  <2>2. /\ \A d \in Claims : /\ readers'[d].kind = readers[d].kind
                             /\ readers'[d].of = readers[d].of /\ readers'[d].ev = readers[d].ev
                             /\ d # c => readers'[d] = readers[d]
    BY <1>2, <2>1 DEF Reader
  <2>3. \A d \in Claims : OwnEnd(readers'[d])
    BY <2>2 DEF EndsPlaced, OwnEnd
  <2>4. CASE c # reader
    <3>1. turnHolds' <=> turnHolds
      BY <1>2, <2>1, <2>4
    <3>2. Opening => Opening'
      BY <1>2, <1>3, <2>1, <2>4 DEF Opening
    <3>3. turnHolds => readers'[reader] = readers[reader]
      BY <2>2, <2>4 DEF OwnInv, Own
    <3> QED BY <1>3, <2>1, <2>3, <3>1, <3>2, <3>3 DEF EndsPlaced
  <2>5. CASE c = reader /\ (e = Closed \/ e = NoEvent)
    <3>1. closed /\ buffered = <<>>
      BY <1>1, <1>3, <2>5 DEF ReaderInv, Due
    <3>2. ~HasEnd(buffered') /\ closed'
      BY <1>3, <2>1, <3>1 DEF HasEnd
    <3>3. turnHolds' => turnHolds
      BY <2>1
    <3> QED BY <1>3, <2>3, <3>2, <3>3 DEF EndsPlaced
  <2>6. CASE c = reader /\ e # Closed /\ e # NoEvent
    <3>1. readers[c].kind = "turn" /\ e.kind \in {"turn_end", "error"}
      BY <1>1, <1>7, <2>6 DEF Ends
    <3>2. IsEnd(e)
      BY <1>4, <2>6, <3>1 DEF IsEnd, Sentinel
    <3>3. ~HasEnd(buffered)
      BY <1>1, <1>5, <1>6, <2>6, <3>1, <3>2 DEF EndsPlaced
    <3>4. ~(turnActive /\ ~closed)
      BY <1>1, <2>6, <3>2 DEF EndsPlaced
    <3>5. turnHolds' => turnHolds
      BY <2>1
    <3> QED BY <1>3, <2>1, <2>3, <3>3, <3>4, <3>5 DEF EndsPlaced
  <2> QED BY <2>4, <2>5, <2>6
<1>8. CASE ~Ends(readers[c]) /\ c = reader
  <2>1. Take(readers, c) /\ turnHolds' = turnHolds
    BY <1>8 DEF Resume
  <2>2. PICK t : t = IF turnHolds THEN readers[c].of ELSE 0
    OBVIOUS
  <2>3. turnHolds <=> readers[c].kind = "turn"
    BY <1>5, <1>8 DEF OwnInv, Own
  <2>4. HasEnd(buffered) => /\ Fine(buffered, t)
                            /\ \/ readers[c].kind = "turn" /\ readers[c].of = t
                               \/ readers[c].kind # "turn" /\ t = 0
    BY <1>6, <1>8, <2>2, <2>3 DEF EndsPlaced
  <2>5. /\ \A d \in Claims : OwnEnd(readers'[d]) /\ readers'[d].of = readers[d].of
        /\ HasEnd(buffered') => /\ HasEnd(buffered) /\ Fine(buffered', t)
                                /\ ~IsEnd(readers'[c].ev) /\ readers'[c].st = "got"
        /\ ~HasEnd(buffered) /\ IsEnd(readers'[c].ev) => IsEnd(readers[c].ev)
    BY <1>2, <2>1, <2>4, TakeEnds DEF EndsPlaced
  <2>6. HasEnd(buffered') =>
            \/ Opening' /\ Fine(buffered', 0)
            \/ /\ turnHolds' /\ ~turnActive' /\ ~IsEnd(readers'[reader'].ev)
               /\ Fine(buffered', readers'[reader'].of)
    <3>1. SUFFICES ASSUME HasEnd(buffered')
                   PROVE  \/ Opening' /\ Fine(buffered', 0)
                          \/ /\ turnHolds' /\ ~turnActive' /\ ~IsEnd(readers'[reader'].ev)
                             /\ Fine(buffered', readers'[reader'].of)
      OBVIOUS
    <3>2. CASE turnHolds
      <4>1. ~turnActive
        BY <1>6, <2>5, <3>1, <3>2 DEF EndsPlaced
      <4> QED BY <1>3, <1>8, <2>1, <2>2, <2>5, <3>1, <3>2, <4>1
    <3>3. CASE ~turnHolds
      <4>1. Opening
        BY <2>5, <3>1, <3>3 DEF EndsPlaced
      <4>2. Opening'
        BY <1>3, <1>8, <2>5, <3>1, <4>1 DEF Opening
      <4> QED BY <2>2, <2>5, <3>1, <3>3, <4>2
    <3> QED BY <3>2, <3>3
  <2>7. turnActive' /\ ~closed' =>
            turnHolds' /\ readers'[reader'].of = prompts' /\ ~IsEnd(readers'[reader'].ev)
    <3>1. SUFFICES ASSUME turnActive, ~closed
                   PROVE  turnHolds /\ readers'[c].of = prompts /\ ~IsEnd(readers'[c].ev)
      BY <1>3, <1>8, <2>1
    <3>2. turnHolds /\ readers[c].of = prompts /\ ~IsEnd(readers[c].ev)
      BY <1>8, <3>1 DEF EndsPlaced
    <3>3. ~HasEnd(buffered)
      BY <1>6, <3>1, <3>2 DEF EndsPlaced
    <3> QED BY <2>5, <3>2, <3>3
  <2> QED BY <1>3, <2>1, <2>5, <2>6, <2>7 DEF EndsPlaced
<1>9. CASE ~Ends(readers[c]) /\ c # reader
  <2>1. readers' = Give(readers, c, NoEvent) /\ buffered' = buffered /\ turnHolds' = turnHolds
    BY <1>9 DEF Resume
  <2>2. /\ readers'[c].ev = NoEvent
        /\ \A d \in Claims : d # c => readers'[d] = readers[d]
    BY <1>2, <2>1, GiveKeepsTurn
  <2>3. OwnEnd(readers'[c])
    BY <2>2 DEF OwnEnd, NoEvent, Ev
  <2>4. \A d \in Claims : OwnEnd(readers'[d])
    BY <2>2, <2>3 DEF EndsPlaced
  <2>5. Opening => Opening'
    BY <1>3, <1>9, <2>2 DEF Opening, Claims, TypeOK
  <2>6. turnHolds => readers'[reader] = readers[reader]
    BY <1>9, <2>2 DEF OwnInv, Own
  <2> QED BY <1>3, <2>1, <2>4, <2>5, <2>6 DEF EndsPlaced
<1> QED BY <1>7, <1>8, <1>9

(* What adopt left in the queue is the drain's to read, ...                *)
LEMMA InitEndInv == Init => EndInv
<1> SUFFICES ASSUME Init, Managed PROVE EndsPlaced
  BY DEF EndInv
<1>1. /\ reader = 0 /\ pump = "unstarted" /\ ~turnHolds /\ ~turnActive
      /\ \A c \in Claims : readers[c] = Unused
  BY ModeAssumption DEF Init, Managed
<1>2. \A c \in Claims : OwnEnd(readers[c])
  BY <1>1 DEF OwnEnd, Unused, NoEvent, Ev
<1>3. Fine(buffered, 0)
  <2>1. CASE PinFailed
    <3>1. /\ Len(buffered) = 2 /\ buffered[1] = Ev("update", 0, 1)
          /\ buffered[2] = Ev("error", 0, 2)
      BY <2>1 DEF Init
    <3>2. ~IsEnd(buffered[1]) /\ buffered[2].turn = 0
      BY <3>1 DEF IsEnd, Ev
    <3> QED BY <3>1, <3>2 DEF Fine
  <2>2. CASE ~PinFailed
    <3>1. Len(buffered) = 1 /\ buffered[1] = Ev("update", 0, 1)
      BY <2>2 DEF Init
    <3>2. ~IsEnd(buffered[1])
      BY <3>1 DEF IsEnd, Ev
    <3> QED BY <3>1, <3>2 DEF Fine
  <2> QED BY <2>1, <2>2
<1> QED BY <1>1, <1>2, <1>3 DEF EndsPlaced, Opening

(* ... and every step leaves each end where its own turn will read it.     *)
LEMMA NextEndInv ==
    ASSUME TypeOK, OwnInv, ParkedInv, RpcInv, ReaderInv, EndInv, [Next]_vars PROVE EndInv'
<1> SUFFICES ASSUME Managed' PROVE EndsPlaced'
  BY DEF EndInv
<1>1. Managed /\ EndsPlaced /\ pump # "bare"
  BY ManagedBefore DEF EndInv, Managed
<1>2. /\ draft \in Nat /\ emitted \in Nat /\ prompts \in Nat /\ reader \in 0 .. MaxClaims
      /\ readers \in [Claims -> Reader] /\ turnHolds \in BOOLEAN
  BY DEF TypeOK
<1>3. \A k \in {"update", "other", "log", "turn_end", "error"}, n \in Nat :
          /\ Ev(k, n, emitted + 1) \in SessionEvent
          /\ Ev(k, n, emitted + 1).turn = n
          /\ n = 0 /\ k \in {"update", "other", "log"} => ~IsEnd(Ev(k, n, emitted + 1))
  BY <1>2, EventTypes DEF Ev, IsEnd
<1>4. CASE Update
  <2>1. PICK e \in SessionEvent : ~IsEnd(e) /\ FlushAndPush(e)
    BY <1>3, <1>4 DEF Update
  <2>2. UNCHANGED <<closed, reader, turnHolds, turnActive, prompts, pump>>
    BY <1>4 DEF Update
  <2> QED BY <1>1, <2>1, <2>2, PlainFlush
<1>5. CASE AgentLog
  <2>1. PICK e \in SessionEvent : ~IsEnd(e) /\ Push1(e)
    BY <1>3, <1>5 DEF AgentLog
  <2>2. UNCHANGED <<closed, reader, turnHolds, turnActive, prompts, pump>>
    BY <1>5 DEF AgentLog
  <2> QED BY <1>1, <2>1, <2>2, PlainPush
<1>6. ASSUME NEW n \in Turns, Answer(n) PROVE EndsPlaced'
  <2>1. UNCHANGED <<closed, reader, turnHolds, prompts, pump>>
    BY <1>6 DEF Answer
  <2>2. CASE Current(n)
    <3>1. PICK kind \in {"turn_end", "error"} : FlushAndPush(Ev(kind, n, emitted + 1))
      BY <1>6, <2>2 DEF Answer
    <3>2. turnActive' = FALSE
      BY <1>6, <2>2 DEF Answer
    <3>3. n = prompts /\ turnActive
      BY <1>6, <2>2 DEF Answer, Current, RpcInv
    <3>4. PICK e : e = Ev(kind, n, emitted + 1)
      OBVIOUS
    <3>5. e \in SessionEvent /\ e.turn = prompts /\ FlushAndPush(e)
      BY <1>2, <1>3, <3>1, <3>3, <3>4
    <3> QED BY <1>1, <2>1, <3>2, <3>3, <3>5, EndPush
  <2>3. CASE ~Current(n)
    <3>1. UNCHANGED <<readers, buffered, turnActive>>
      BY <1>6, <2>3 DEF Answer
    <3>2. Opening => Opening'
      BY <2>1, <3>1 DEF Opening
    <3> QED BY <1>1, <2>1, <3>1, <3>2 DEF EndsPlaced
  <2> QED BY <2>2, <2>3
<1>7. CASE Prompt
  <2>1. /\ pump = "attach" /\ reader < MaxClaims
        /\ HandOver("turn", prompts + 1) /\ turnHolds' = TRUE
        /\ prompts' = prompts + 1 /\ pump' = "stream"
    BY <1>1, <1>7 DEF Prompt, MayPrompt
  <2>2. ~turnHolds
    BY <1>1, <2>1 DEF EndsPlaced
  <2>3. ~HasEnd(buffered)
    BY <1>1, <1>2, <2>1, <2>2 DEF EndsPlaced, Opening
  <2>4. /\ \A d \in Claims : OwnEnd(readers'[d])
        /\ readers'[reader'].of = prompts + 1
        /\ ~HasEnd(buffered')
        /\ ~IsEnd(readers'[reader'].ev)
    <3>1. reader # MaxClaims /\ prompts + 1 \in Nat
      BY <1>2, <2>1, BoundsAssumption
    <3>2. \A d \in Claims : OwnEnd(readers[d])
      BY <1>1 DEF EndsPlaced
    <3> QED BY <2>1, <2>3, <3>1, <3>2, HandOverEnds
  <2> QED BY <2>1, <2>4 DEF EndsPlaced
<1>8. CASE PromptThrows
  <2>1. UNCHANGED <<readers, buffered, reader, closed, turnHolds, prompts>> /\ pump = "attach"
        /\ pump' = "stream" /\ (turnActive \/ turnHolds)
    BY <1>1, <1>8 DEF PromptThrows, MayPrompt, Claimable, queueVars
  <2>2. ~turnHolds
    BY <1>1, <2>1 DEF EndsPlaced
  <2>3. closed
    BY <1>1, <2>1, <2>2 DEF EndsPlaced
  <2>4. HasEnd(buffered) => MaxClaims = 0 /\ Fine(buffered, 0)
    BY <1>1, <2>1, <2>2 DEF EndsPlaced, Opening
  <2> QED BY <1>1, <2>1, <2>2, <2>3, <2>4 DEF EndsPlaced, Opening
<1>9. ASSUME DrainBetweenTurns, UNCHANGED <<turnActive, prompts>>, ~turnHolds, pump' = "idle",
             HasEnd(buffered) => MaxClaims = 0 \/ (reader = 0 /\ pump = "unstarted")
      PROVE  EndsPlaced'
  <2>1. HasEnd(buffered) => Fine(buffered, 0)
    BY <1>1, <1>9 DEF EndsPlaced
  <2>2. ~(turnActive /\ ~closed)
    BY <1>1, <1>9 DEF EndsPlaced
  <2>3. CASE reader = MaxClaims
    <3>1. UNCHANGED <<readers, buffered, reader, closed, turnHolds>>
      BY <1>9, <2>3 DEF DrainBetweenTurns, queueVars
    <3>2. HasEnd(buffered) => MaxClaims = 0
      BY <1>9, <2>3
    <3> QED BY <1>1, <1>9, <2>1, <2>2, <3>1, <3>2 DEF EndsPlaced, Opening
  <2>4. CASE reader # MaxClaims
    <3>1. HandOver("drain", 0) /\ UNCHANGED <<closed, turnHolds>>
      BY <1>9, <2>4 DEF DrainBetweenTurns
    <3>2. \A d \in Claims : OwnEnd(readers[d])
      BY <1>1 DEF EndsPlaced
    <3>3. /\ reader' = reader + 1
          /\ \A d \in Claims : OwnEnd(readers'[d])
          /\ HasEnd(buffered') => /\ HasEnd(buffered) /\ Fine(buffered', 0)
                                  /\ readers'[reader'].st = "got"
      BY <2>1, <2>4, <3>1, <3>2, HandOverEnds
    <3>4. HasEnd(buffered') => reader' = 1 /\ readers'[1].st = "got"
      <4>1. HasEnd(buffered') => reader = 0
        BY <1>2, <1>9, <2>4, <3>3
      <4> QED BY <3>3, <4>1
    <3> QED BY <1>9, <2>2, <3>1, <3>3, <3>4 DEF EndsPlaced, Opening
  <2> QED BY <2>3, <2>4
<1>10. CASE OnStarted
  <2>1. ~turnHolds /\ pump = "unstarted" /\ pump' = "idle" /\ DrainBetweenTurns
        /\ UNCHANGED <<turnActive, prompts>>
    BY <1>1, <1>10 DEF OnStarted, EndsPlaced, sessionVars
  <2>2. HasEnd(buffered) => MaxClaims = 0 \/ (reader = 0 /\ pump = "unstarted")
    BY <1>1, <2>1 DEF EndsPlaced, Opening
  <2> QED BY <1>9, <2>1, <2>2
<1>11. CASE ArmTurn
  <2>1. UNCHANGED <<readers, buffered, reader, closed, turnHolds, turnActive, prompts>>
        /\ pump = "idle" /\ \A c \in Claims : readers[c].st # "got"
    BY <1>11 DEF ArmTurn, queueVars, sessionVars
  <2>2. ~turnHolds
    BY <1>1, <2>1 DEF EndsPlaced
  <2>3. HasEnd(buffered) => MaxClaims = 0
    <3>1. reader = 1 => 1 \in Claims
      BY <1>2 DEF Claims
    <3> QED BY <1>1, <2>1, <2>2, <3>1 DEF EndsPlaced, Opening
  <2> QED BY <1>1, <2>1, <2>2, <2>3 DEF EndsPlaced, Opening
<1>12. ASSUME NEW c \in Claims, Resume(c) PROVE EndsPlaced'
  BY <1>1, <1>12, ResumeEnds DEF Managed
<1>13. CASE PumpFinally
  <2>1. pump = "stream" /\ LiveTurns = {} /\ UNCHANGED <<turnActive, prompts>>
    BY <1>13 DEF PumpFinally, sessionVars
  <2>2. ~turnHolds
    BY <2>1 DEF LiveTurns, Live, OwnInv, Own
  <2>3. HasEnd(buffered) => MaxClaims = 0
    BY <1>1, <2>1, <2>2 DEF EndsPlaced, Opening
  <2>4. CASE pump' = "idle" /\ DrainBetweenTurns
    BY <1>9, <2>1, <2>2, <2>3, <2>4
  <2>5. CASE UNCHANGED queueVars
    <3>1. UNCHANGED <<readers, buffered, reader, closed, turnHolds>>
      BY <2>5 DEF queueVars
    <3> QED BY <1>1, <2>1, <2>2, <2>3, <3>1 DEF EndsPlaced, Opening
  <2> QED BY <1>13, <2>4, <2>5 DEF PumpFinally
<1>14. CASE AbandonTurn
  <2>1. PICK e : e = Ev("turn_end", prompts, emitted + 1)
    OBVIOUS
  <2>2. e \in SessionEvent /\ e.turn = prompts /\ FlushAndPush(e)
    BY <1>2, <1>3, <1>14, <2>1 DEF AbandonTurn
  <2>3. turnActive /\ turnActive' = FALSE
        /\ UNCHANGED <<closed, reader, turnHolds, prompts, pump>>
    BY <1>14 DEF AbandonTurn
  <2> QED BY <1>1, <2>2, <2>3, EndPush
<1>15. ASSUME UNCHANGED <<readers, buffered, reader, closed, turnHolds, turnActive, prompts, pump>>
       PROVE  EndsPlaced'
  BY <1>1, <1>15 DEF EndsPlaced, Opening
<1>16. CASE DisposeFlush
  <2>1. UNCHANGED <<closed, reader, turnHolds, turnActive, prompts, pump>>
    BY <1>16 DEF DisposeFlush
  <2>2. CASE draft = 0
    BY <1>15, <1>16, <2>1, <2>2 DEF DisposeFlush
  <2>3. CASE draft # 0
    <3>1. PICK d : d = Ev("update", 0, draft)
      OBVIOUS
    <3>2. d \in SessionEvent /\ ~IsEnd(d)
      BY <1>2, <3>1, EventTypes DEF IsEnd, Ev
    <3>3. Push1(d)
      BY <1>16, <2>3, <3>1 DEF DisposeFlush
    <3> QED BY <1>1, <2>1, <3>2, <3>3, PlainPush
  <2> QED BY <2>2, <2>3
<1>17. CASE DisposeClose
  <2>1. UNCHANGED <<buffered, reader, turnHolds, turnActive, prompts, pump>> /\ closed' = TRUE
    BY <1>17 DEF DisposeClose
  <2>2. CASE waiting = 0
    <3>1. readers' = readers
      BY <1>17, <2>2 DEF DisposeClose
    <3> QED BY <1>1, <2>1, <3>1 DEF EndsPlaced, Opening
  <2>3. CASE waiting # 0
    <3>1. /\ readers' = Give(readers, waiting, Closed) /\ waiting \in Claims
          /\ buffered = <<>>
      BY <1>17, <2>3 DEF DisposeClose, TypeOK, Claims, ParkedInv
    <3>2. /\ readers'[waiting].ev = Closed
          /\ \A d \in Claims : d # waiting => readers'[d] = readers[d]
      BY <1>2, <3>1, GiveKeepsTurn
    <3>3. OwnEnd(readers'[waiting])
      BY <3>2 DEF OwnEnd, Closed, Ev
    <3>4. ~HasEnd(buffered')
      BY <2>1, <3>1 DEF HasEnd
    <3> QED BY <1>1, <2>1, <3>2, <3>3, <3>4 DEF EndsPlaced
  <2> QED BY <2>2, <2>3
<1>18. CASE HoldDraft \/ UNCHANGED vars
  BY <1>15, <1>18 DEF HoldDraft, vars, queueVars, sessionVars
<1> QED BY <1>4, <1>5, <1>6, <1>7, <1>8, <1>10, <1>11, <1>12, <1>13, <1>14, <1>16, <1>17, <1>18
        DEF Next, AnswerAny, ResumeAny

(***************************************************************************)
(* The end of a managed turn (Session.prompt, abandonTurn, handover) is    *)
(* read by that turn's own generator, never by the drain between turns nor *)
(* by another turn, and no turn returns on another's end, as long as no    *)
(* overflow has ended one early.                                           *)
(***************************************************************************)
THEOREM EveryEndReachesItsTurn == Spec => []EndReachesItsTurn
<1>1. EndInv => EndReachesItsTurn
  BY DEF EndInv, Managed, EndsPlaced, OwnEnd, EndReachesItsTurn
<1> QED BY <1>1, InitEndInv, NextEndInv, TypeCorrect, OwnInvHolds, ParkedInvHolds, RpcInvHolds,
           ReaderInvHolds, PTL DEF Spec
=============================================================================
