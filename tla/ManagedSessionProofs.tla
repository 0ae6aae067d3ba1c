----------------------- MODULE ManagedSessionProofs -----------------------
(***************************************************************************)
(* Proofs about ManagedSession, for any number of messages, asks and       *)
(* agents and any capacity of the queue: how the queue and the             *)
(* reservations for it add up, that there is one turn, that an ask and its *)
(* cancel keep to their turn, that the queue is in the order of acceptance *)
(* and never stranded, and that no message is told twice.                  *)
(***************************************************************************)
EXTENDS MCManagedSession, FiniteSetTheorems, WellFoundedInduction, TLAPS

-----------------------------------------------------------------------------
(* The queue. *)

(* The messages whose sendMidTurn is inside an await.                      *)
AwaitingIn(ms) == {m \in Messages : ms[m] \in Waiting}
Awaiting == AwaitingIn(msg)

(* A queue of messages that are queued, each of them once.                 *)
QueueOK(ms, q) ==
    /\ ms \in [Messages -> MessageState]
    /\ q \in Seq(Messages)
    /\ \A i \in 1 .. Len(q) : ms[q[i]] = "queued"
    /\ \A i, j \in 1 .. Len(q) : q[i] = q[j] => i = j

(* A set of numbers that is not empty has a least one.                     *)
LEMMA LeastOf ==
    ASSUME NEW T \in SUBSET Nat, T # {}
    PROVE  \E i \in T : \A j \in T : i <= j
<1> DEFINE R == {ss \in Nat \X Nat : ss[1] < ss[2]}
<1>1. IsWellFoundedOn(R, Nat)
  BY NatLessThanWellFounded DEF OpToRel
<1>2. PICK i \in T : \A j \in T : <<j, i>> \notin R
  <2> HIDE DEF R
  <2> QED BY <1>1, WFMin, Zenon
<1>3. \A j \in T : ~(j < i)
  BY <1>2
<1> QED BY <1>3

(* Splicing a message in at some place makes the queue one longer and      *)
(* leaves the others as they are.                                          *)
LEMMA SpliceProperties ==
    ASSUME NEW q \in Seq(Messages), NEW m \in Messages, NEW at \in 1 .. Len(q) + 1
    PROVE  LET p == SubSeq(q, 1, at - 1) \o <<m>> \o SubSeq(q, at, Len(q)) IN
           /\ p \in Seq(Messages)
           /\ Len(p) = Len(q) + 1
           /\ \A i \in 1 .. Len(p) :
                  p[i] = IF i < at THEN q[i] ELSE IF i = at THEN m ELSE q[i - 1]
<1> DEFINE a == SubSeq(q, 1, at - 1)
           b == SubSeq(q, at, Len(q))
<1>1. a \in Seq(Messages) /\ Len(a) = at - 1 /\ \A i \in 1 .. at - 1 : a[i] = q[i]
  OBVIOUS
<1>2. b \in Seq(Messages) /\ Len(b) = Len(q) - at + 1
      /\ \A i \in 1 .. Len(q) - at + 1 : b[i] = q[at + i - 1]
  OBVIOUS
<1> HIDE DEF a, b
<1>3. <<m>> \in Seq(Messages) /\ Len(<<m>>) = 1 /\ <<m>>[1] = m
  OBVIOUS
<1>4. /\ a \o <<m>> \in Seq(Messages)
      /\ Len(a \o <<m>>) = at
      /\ \A i \in 1 .. at : (a \o <<m>>)[i] = IF i < at THEN q[i] ELSE m
  BY <1>1, <1>3
<1> DEFINE c == a \o <<m>>
<1>5. c \in Seq(Messages) /\ Len(c) = at /\ \A i \in 1 .. at : c[i] = IF i < at THEN q[i] ELSE m
  BY <1>4
<1> HIDE DEF c
<1>6. /\ c \o b \in Seq(Messages)
      /\ Len(c \o b) = Len(q) + 1
      /\ \A i \in 1 .. Len(q) + 1 : (c \o b)[i] = IF i <= at THEN c[i] ELSE b[i - at]
  BY <1>2, <1>5
<1>7. \A i \in 1 .. Len(q) + 1 :
          (c \o b)[i] = IF i < at THEN q[i] ELSE IF i = at THEN m ELSE q[i - 1]
  BY <1>2, <1>5, <1>6
<1> QED BY <1>6, <1>7 DEF a, b, c

(* Where sendMidTurn's splice puts a message: before the first entry that  *)
(* was accepted after it.                                                  *)
LEMMA PlacedAt ==
    ASSUME queue \in Seq(Messages), NEW m \in Messages, NEW ord
    PROVE  \E at \in 1 .. Len(queue) + 1 :
               /\ Placed(m, ord) \in Seq(Messages)
               /\ Len(Placed(m, ord)) = Len(queue) + 1
               /\ \A i \in 1 .. Len(Placed(m, ord)) :
                      Placed(m, ord)[i] = IF i < at THEN queue[i]
                                          ELSE IF i = at THEN m ELSE queue[i - 1]
               /\ \A i \in 1 .. at - 1 : ~(order[queue[i]] > ord)
               /\ at <= Len(queue) => order[queue[at]] > ord
<1> DEFINE later == {i \in DOMAIN queue : order[queue[i]] > ord}
           at    == IF later = {} THEN Len(queue) + 1
                    ELSE CHOOSE i \in later : \A j \in later : i <= j
<1>1. DOMAIN queue = 1 .. Len(queue) /\ Len(queue) \in Nat
  OBVIOUS
<1>2. /\ at \in 1 .. Len(queue) + 1
      /\ \A i \in 1 .. at - 1 : ~(order[queue[i]] > ord)
      /\ at <= Len(queue) => order[queue[at]] > ord
  <2>1. CASE later = {}
    BY <1>1, <2>1
  <2>2. CASE later # {}
    <3>1. later \in SUBSET Nat
      BY <1>1
    <3>2. \E i \in later : \A j \in later : i <= j
      BY <2>2, <3>1, LeastOf
    <3>3. at \in later /\ \A j \in later : at <= j
      BY <2>2, <3>2
    <3> HIDE DEF at
    <3> QED BY <1>1, <3>3
  <2> QED BY <2>1, <2>2
<1>3. Placed(m, ord) = SubSeq(queue, 1, at - 1) \o <<m>> \o SubSeq(queue, at, Len(queue))
  BY DEF Placed
<1> HIDE DEF at
<1>4. /\ Placed(m, ord) \in Seq(Messages)
      /\ Len(Placed(m, ord)) = Len(queue) + 1
      /\ \A i \in 1 .. Len(Placed(m, ord)) :
             Placed(m, ord)[i] = IF i < at THEN queue[i] ELSE IF i = at THEN m ELSE queue[i - 1]
  <2>1. at \in 1 .. Len(queue) + 1
    BY <1>2
  <2> DEFINE p == SubSeq(queue, 1, at - 1) \o <<m>> \o SubSeq(queue, at, Len(queue))
  <2>2. /\ p \in Seq(Messages)
        /\ Len(p) = Len(queue) + 1
        /\ \A i \in 1 .. Len(p) :
               p[i] = IF i < at THEN queue[i] ELSE IF i = at THEN m ELSE queue[i - 1]
    BY <2>1, SpliceProperties
  <2> HIDE DEF p
  <2>3. Placed(m, ord) = p
    BY <1>3 DEF p
  <2> QED BY <2>2, <2>3
<1> QED BY <1>2, <1>4

(* sendMidTurn's splice: the queue is still one of queued messages.        *)
LEMMA PlacedOK ==
    ASSUME QueueOK(msg, queue), NEW m \in Messages, NEW ord, msg[m] # "queued"
    PROVE  /\ QueueOK([msg EXCEPT ![m] = "queued"], Placed(m, ord))
           /\ Len(Placed(m, ord)) = Len(queue) + 1
<1> DEFINE ms == [msg EXCEPT ![m] = "queued"]
           p  == Placed(m, ord)
<1>1. queue \in Seq(Messages) /\ Len(queue) \in Nat
  BY DEF QueueOK
<1>2. PICK at \in 1 .. Len(queue) + 1 :
          /\ p \in Seq(Messages)
          /\ Len(p) = Len(queue) + 1
          /\ \A i \in 1 .. Len(p) :
                 p[i] = IF i < at THEN queue[i] ELSE IF i = at THEN m ELSE queue[i - 1]
  BY <1>1, PlacedAt
<1> HIDE DEF p
<1>3. at \in 1 .. Len(queue) + 1
  BY <1>2
<1>4. /\ p \in Seq(Messages)
      /\ Len(p) = Len(queue) + 1
      /\ \A i \in 1 .. Len(p) :
             p[i] = IF i < at THEN queue[i] ELSE IF i = at THEN m ELSE queue[i - 1]
  BY <1>2
<1>5. \A i \in 1 .. Len(queue) : queue[i] \in Messages /\ queue[i] # m
  BY <1>1 DEF QueueOK
<1>6. ms \in [Messages -> MessageState]
  BY DEF QueueOK, MessageState
<1>7. \A n \in Messages : ms[n] = IF n = m THEN "queued" ELSE msg[n]
  BY DEF QueueOK
<1> HIDE DEF ms
<1>8. \A i \in 1 .. Len(p) : ms[p[i]] = "queued"
  BY <1>1, <1>3, <1>4, <1>5, <1>7 DEF QueueOK
<1>9. \A i, j \in 1 .. Len(p) : p[i] = p[j] => i = j
  <2> SUFFICES ASSUME NEW i \in 1 .. Len(p), NEW j \in 1 .. Len(p), p[i] = p[j]
               PROVE  i = j
    OBVIOUS
  <2>1. \A k, l \in 1 .. Len(queue) : queue[k] = queue[l] => k = l
    BY DEF QueueOK
  <2>2. CASE i = at \/ j = at
    <3>1. \A k \in 1 .. Len(p) : k # at => p[k] # m
      <4> SUFFICES ASSUME NEW k \in 1 .. Len(p), k # at
                   PROVE  p[k] # m
        OBVIOUS
      <4>1. CASE k < at
        BY <1>1, <1>3, <1>4, <1>5, <4>1
      <4>2. CASE k > at
        <5>1. k - 1 \in 1 .. Len(queue) /\ ~(k < at) /\ k # at
          BY <1>1, <1>3, <1>4, <4>2
        <5>2. p[k] = queue[k - 1]
          BY <1>4, <5>1
        <5> QED BY <1>5, <5>1, <5>2
      <4> QED BY <1>3, <4>1, <4>2
    <3>2. p[at] = m /\ at \in 1 .. Len(p)
      BY <1>1, <1>3, <1>4
    <3> QED BY <2>2, <3>1, <3>2
  <2>3. CASE i < at /\ j < at
    BY <1>1, <1>3, <1>4, <2>1, <2>3
  <2>4. CASE i > at /\ j > at
    <3>1. i - 1 \in 1 .. Len(queue) /\ j - 1 \in 1 .. Len(queue)
      BY <1>1, <1>3, <1>4, <2>4
    <3>2. queue[i - 1] = queue[j - 1]
      BY <1>3, <1>4, <2>4
    <3> QED BY <1>3, <2>1, <3>1, <3>2
  <2>5. CASE i < at /\ j > at
    <3>1. i \in 1 .. Len(queue) /\ j - 1 \in 1 .. Len(queue) /\ queue[i] = queue[j - 1]
      BY <1>1, <1>3, <1>4, <2>5
    <3> QED BY <1>3, <2>1, <2>5, <3>1
  <2>6. CASE i > at /\ j < at
    <3>1. i - 1 \in 1 .. Len(queue) /\ j \in 1 .. Len(queue) /\ queue[i - 1] = queue[j]
      BY <1>1, <1>3, <1>4, <2>6
    <3> QED BY <1>3, <2>1, <2>6, <3>1
  <2> QED BY <1>3, <2>2, <2>3, <2>4, <2>5, <2>6
<1>10. QueueOK(ms, p)
  BY <1>4, <1>6, <1>8, <1>9 DEF QueueOK
<1> QED BY <1>4, <1>10 DEF ms, p

(* OneTurn, for messages ms and the turn t.                                *)
One(ms, t) ==
    /\ t \in Turns
    /\ \A m \in Messages : ms[m] \in Pumped <=> t = m

(* The token of no turn is none of the messages. *)
LEMMA NoTurnIsNoMessage == NoTurn \in Turns /\ \A m \in Messages : m # NoTurn /\ m \in Turns
BY ManagedSessionAssumption DEF Turns

(* Changing one message that is neither queued nor becomes so leaves the   *)
(* queue as it is.                                                         *)
LEMMA OneChanges ==
    ASSUME NEW ms, NEW q, QueueOK(ms, q), NEW m \in Messages, ms[m] # "queued",
           NEW v \in MessageState
    PROVE  /\ QueueOK([ms EXCEPT ![m] = v], q)
           /\ \A n \in Messages : [ms EXCEPT ![m] = v][n] = IF n = m THEN v ELSE ms[n]
<1>1. \A n \in Messages : [ms EXCEPT ![m] = v][n] = IF n = m THEN v ELSE ms[n]
  BY DEF QueueOK
<1>2. \A i \in 1 .. Len(q) : q[i] \in Messages
  BY DEF QueueOK
<1> QED BY <1>1, <1>2 DEF QueueOK

(* A message that is in no await before or after leaves the awaiting ones. *)
LEMMA AwaitingSame ==
    ASSUME NEW ms, NEW ns,
           \A n \in Messages : ns[n] \in Waiting <=> ms[n] \in Waiting
    PROVE  AwaitingIn(ns) = AwaitingIn(ms)
BY DEF AwaitingIn

(* Arming the turn of the head of the queue (deliverQueued).               *)
LEMMA ArmHeadOK ==
    ASSUME NEW ms, NEW q, QueueOK(ms, q), One(ms, NoTurn), q # <<>>,
           ArmTurn(ms, Head(q)), queue' = Tail(q)
    PROVE  /\ QueueOK(msg', queue')
           /\ Len(queue') <= Len(q)
           /\ One(msg', turn')
           /\ AwaitingIn(msg') = AwaitingIn(ms)
<1> DEFINE h == Head(q)
<1>1. /\ q \in Seq(Messages) /\ Len(q) \in Nat \ {0}
      /\ h = q[1] /\ h \in Messages
      /\ Tail(q) \in Seq(Messages) /\ Len(Tail(q)) = Len(q) - 1
      /\ \A i \in 1 .. Len(q) - 1 : Tail(q)[i] = q[i + 1]
  BY DEF QueueOK
<1>2. turn' = h /\ msg' = [ms EXCEPT ![h] = "arming"]
  BY DEF ArmTurn
<1>3. ms[h] = "queued" /\ ms \in [Messages -> MessageState]
  BY <1>1 DEF QueueOK
<1> HIDE DEF h
<1>4. \A n \in Messages : msg'[n] = IF n = h THEN "arming" ELSE ms[n]
  BY <1>1, <1>2, <1>3
<1>5. msg' \in [Messages -> MessageState]
  BY <1>2, <1>3 DEF MessageState, Pumped
<1>6. QueueOK(msg', queue')
  <2>1. \A i \in 1 .. Len(queue') : queue'[i] = q[i + 1] /\ i + 1 \in 1 .. Len(q)
    BY <1>1
  <2>2. \A i \in 1 .. Len(queue') : queue'[i] \in Messages /\ queue'[i] # h
    BY <1>1, <2>1 DEF QueueOK
  <2>3. \A i \in 1 .. Len(queue') : msg'[queue'[i]] = "queued"
    BY <1>1, <1>4, <2>1, <2>2 DEF QueueOK
  <2>4. \A i, j \in 1 .. Len(queue') : queue'[i] = queue'[j] => i = j
    BY <1>1, <2>1 DEF QueueOK
  <2> QED BY <1>1, <1>5, <2>3, <2>4 DEF QueueOK
<1>7. One(msg', turn')
  BY <1>1, <1>2, <1>3, <1>4, NoTurnIsNoMessage DEF One, Pumped
<1>8. AwaitingIn(msg') = AwaitingIn(ms)
  BY <1>3, <1>4, AwaitingSame DEF Waiting
<1> QED BY <1>1, <1>6, <1>7, <1>8

(* deliverQueued, whether or not it delivers.                              *)
LEMMA DeliverQueuedOK ==
    ASSUME NEW ms, NEW q, QueueOK(ms, q), One(ms, NoTurn), DeliverQueued(ms, q)
    PROVE  /\ QueueOK(msg', queue')
           /\ Len(queue') <= Len(q)
           /\ One(msg', turn')
           /\ AwaitingIn(msg') = AwaitingIn(ms)
<1>1. CASE q # <<>> /\ Ready
  BY <1>1, ArmHeadOK DEF DeliverQueued
<1>2. CASE ~(q # <<>> /\ Ready)
  <2>1. turn' = NoTurn /\ msg' = ms /\ queue' = q
    BY <1>2 DEF DeliverQueued
  <2>2. Len(q) \in Nat
    BY DEF QueueOK
  <2> QED BY <2>1, <2>2
<1> QED BY <1>1, <1>2

(* dropQueuedUndelivered.                                                  *)
LEMMA DropQueuedOK ==
    ASSUME QueueOK(msg, queue), One(msg, turn), DropQueued
    PROVE  /\ QueueOK(msg', queue')
           /\ Len(queue') = 0
           /\ One(msg', turn)
           /\ AwaitingIn(msg') = Awaiting
<1>1. \A n \in Messages : \/ msg'[n] = msg[n]
                          \/ msg[n] = "queued" /\ msg'[n] = "dropped"
  BY DEF DropQueued, QueueOK
<1>2. msg' \in [Messages -> MessageState]
  BY DEF DropQueued, QueueOK, MessageState, Final
<1>3. queue' = <<>>
  BY DEF DropQueued
<1>4. QueueOK(msg', queue')
  BY <1>2, <1>3 DEF QueueOK
<1>5. One(msg', turn)
  BY <1>1 DEF One, Pumped
<1>6. AwaitingIn(msg') = Awaiting
  BY <1>1, AwaitingSame DEF Awaiting, Waiting
<1> QED BY <1>3, <1>4, <1>5, <1>6

(* The tail of sendMidTurn: its reservation is spent or given back, and it *)
(* is the reservation that makes room in the queue.                        *)
LEMMA UnsteeredOK ==
    ASSUME QueueOK(msg, queue), One(msg, turn),
           NEW m \in Messages, msg[m] \in {"new"} \cup Waiting,
           NEW taken \in Nat \ {0}, Len(queue) + taken <= MaxQueuedPrompts,
           NEW pr \in BOOLEAN, NEW ord, Unsteered(m, pr, taken, ord)
    PROVE  /\ QueueOK(msg', queue')
           /\ One(msg', turn')
           /\ AwaitingIn(msg') = Awaiting \ {m}
           /\ midTurnAccepted' = taken - 1
           /\ Len(queue') + (taken - 1) <= MaxQueuedPrompts
<1>1. Len(queue) \in Nat /\ msg \in [Messages -> MessageState] /\ MaxQueuedPrompts \in Nat
  BY ManagedSessionAssumption DEF QueueOK
<1>2. midTurnAccepted' = taken - 1
  BY DEF Unsteered
<1>3. msg[m] # "queued" /\ msg[m] \notin Pumped
  BY DEF Waiting, Pumped
<1>4. CASE msg' = [msg EXCEPT ![m] = "dropped"] /\ turn' = turn /\ queue' = queue
  <2>0. "dropped" \in MessageState
    BY DEF MessageState, Final
  <2>1. /\ QueueOK([msg EXCEPT ![m] = "dropped"], queue)
        /\ \A n \in Messages :
               [msg EXCEPT ![m] = "dropped"][n] = IF n = m THEN "dropped" ELSE msg[n]
    BY <1>3, <2>0, OneChanges
  <2>2. QueueOK(msg', queue') /\ \A n \in Messages : msg'[n] = IF n = m THEN "dropped" ELSE msg[n]
    BY <1>4, <2>1
  <2>3. One(msg', turn')
    BY <1>3, <1>4, <2>2 DEF One, Pumped
  <2>4. AwaitingIn(msg') = Awaiting \ {m}
    BY <2>2 DEF AwaitingIn, Awaiting, Waiting
  <2>5. Len(queue') + (taken - 1) <= MaxQueuedPrompts
    BY <1>1, <1>4
  <2> QED BY <1>2, <2>2, <2>3, <2>4, <2>5
<1>5. CASE OwnTurn(pr) /\ ArmTurn(msg, m) /\ queue' = queue
  <2>0. "arming" \in MessageState
    BY DEF MessageState, Pumped
  <2>1. turn = NoTurn /\ turn' = m /\ msg' = [msg EXCEPT ![m] = "arming"]
    BY <1>5 DEF OwnTurn, ArmTurn
  <2>2. /\ QueueOK([msg EXCEPT ![m] = "arming"], queue)
        /\ \A n \in Messages :
               [msg EXCEPT ![m] = "arming"][n] = IF n = m THEN "arming" ELSE msg[n]
    BY <1>3, <2>0, OneChanges
  <2>3. QueueOK(msg', queue') /\ \A n \in Messages : msg'[n] = IF n = m THEN "arming" ELSE msg[n]
    BY <1>5, <2>1, <2>2
  <2>4. One(msg', turn')
    BY <2>1, <2>3, <1>3, NoTurnIsNoMessage DEF One, Pumped
  <2>5. AwaitingIn(msg') = Awaiting \ {m}
    BY <2>3 DEF AwaitingIn, Awaiting, Waiting
  <2>6. Len(queue') + (taken - 1) <= MaxQueuedPrompts
    BY <1>1, <1>5
  <2> QED BY <1>2, <2>3, <2>4, <2>5, <2>6
<1> DEFINE ms == [msg EXCEPT ![m] = "queued"]
           p  == Placed(m, ord)
<1>6. ASSUME TRUE
      PROVE  /\ QueueOK(ms, p) /\ Len(p) = Len(queue) + 1 /\ One(ms, turn)
             /\ AwaitingIn(ms) = Awaiting \ {m}
  <2>1. QueueOK(ms, p) /\ Len(p) = Len(queue) + 1
    BY <1>3, PlacedOK
  <2>2. \A n \in Messages : ms[n] = IF n = m THEN "queued" ELSE msg[n]
    BY <1>1
  <2> HIDE DEF ms, p
  <2>3. One(ms, turn)
    BY <1>3, <2>2 DEF One, Pumped
  <2>4. AwaitingIn(ms) = Awaiting \ {m}
    BY <2>2 DEF AwaitingIn, Awaiting, Waiting
  <2> QED BY <2>1, <2>3, <2>4
<1>7. CASE turn = NoTurn /\ DeliverQueued(ms, p)
  <2> HIDE DEF ms, p
  <2>1. /\ QueueOK(msg', queue') /\ Len(queue') <= Len(p)
        /\ One(msg', turn') /\ AwaitingIn(msg') = AwaitingIn(ms)
    BY <1>6, <1>7, DeliverQueuedOK
  <2>2. Len(queue') \in Nat
    BY <2>1 DEF QueueOK
  <2> QED BY <1>1, <1>2, <1>6, <2>1, <2>2
<1>8. CASE turn # NoTurn /\ msg' = ms /\ queue' = p /\ turn' = turn
  <2> HIDE DEF ms, p
  <2> QED BY <1>1, <1>2, <1>6, <1>8
<1> QED BY <1>4, <1>5, <1>7, <1>8 DEF Unsteered

(* The end of pump: the turn that was running is over, and the one that    *)
(* follows it is the only one.                                             *)
LEMMA PumpEndsOK ==
    ASSUME QueueOK(msg, queue), One(msg, turn), NEW m \in Messages, msg[m] \in Pumped,
           NEW end \in Final, NEW unusable \in BOOLEAN, PumpEnds(m, end, unusable)
    PROVE  /\ QueueOK(msg', queue')
           /\ Len(queue') <= Len(queue)
           /\ One(msg', turn')
           /\ AwaitingIn(msg') = Awaiting
           /\ midTurnAccepted' = midTurnAccepted
<1> DEFINE ms == [msg EXCEPT ![m] = end]
<1>1. turn = m /\ m # NoTurn /\ msg[m] # "queued" /\ msg[m] \notin Waiting
  BY NoTurnIsNoMessage DEF One, Pumped, Waiting
<1>2. end \in MessageState /\ end \notin Pumped /\ end \notin Waiting
  BY DEF MessageState, Final, Pumped, Waiting
<1>3. QueueOK(ms, queue) /\ \A n \in Messages : ms[n] = IF n = m THEN end ELSE msg[n]
  BY <1>1, <1>2, OneChanges
<1>4. \/ turn' = NoTurn /\ msg' = ms /\ queue' = queue
      \/ DeliverQueued(ms, queue)
  BY <1>1 DEF PumpEnds
<1>5. midTurnAccepted' = midTurnAccepted
  BY DEF PumpEnds
<1> HIDE DEF ms
<1>6. One(ms, NoTurn)
  BY <1>1, <1>2, <1>3, NoTurnIsNoMessage DEF One
<1>7. AwaitingIn(ms) = Awaiting
  BY <1>1, <1>2, <1>3, AwaitingSame DEF Awaiting
<1>8. CASE turn' = NoTurn /\ msg' = ms /\ queue' = queue
  BY <1>3, <1>5, <1>6, <1>7, <1>8 DEF QueueOK
<1>9. CASE DeliverQueued(ms, queue)
  BY <1>3, <1>5, <1>6, <1>7, <1>9, DeliverQueuedOK
<1> QED BY <1>4, <1>8, <1>9

-----------------------------------------------------------------------------
(* The invariant.  QueueBound is not inductive by itself: a step that      *)
(* queues a message has to spend the message's own reservation, so the     *)
(* reservations have to be exactly the sends inside an await; and a        *)
(* message that a step moves has to be in one place, which is the queue    *)
(* being one of queued messages and the turn being that of the one pump.   *)
Reserved == midTurnAccepted = Cardinality(Awaiting)

QueueInv ==
    /\ QueueOK(msg, queue)
    /\ One(msg, turn)
    /\ Reserved
    /\ Len(queue) + midTurnAccepted <= MaxQueuedPrompts

(* What a step has to leave, in terms of the sends inside an await.        *)
LEMMA ReservationGiven ==
    ASSUME QueueInv, NEW m \in Messages, msg[m] \in Waiting
    PROVE  /\ midTurnAccepted \in Nat \ {0}
           /\ Cardinality(Awaiting \ {m}) = midTurnAccepted - 1
           /\ Cardinality(Awaiting) = midTurnAccepted
<1>1. m \in Awaiting /\ Awaiting \subseteq Messages
  BY DEF Awaiting, AwaitingIn
<1>2. IsFiniteSet(Awaiting)
  BY <1>1, ManagedSessionAssumption, FS_Subset
<1>3. Cardinality(Awaiting) \in Nat
  BY <1>2, FS_CardinalityType
<1>4. Cardinality(Awaiting \ {m}) \in Nat
  <2>1. IsFiniteSet(Awaiting \ {m})
    BY <1>2, FS_Subset
  <2> QED BY <2>1, FS_CardinalityType
<1>5. Cardinality(Awaiting \ {m}) = Cardinality(Awaiting) - 1
  BY <1>1, <1>2, FS_RemoveElement
<1> QED BY <1>3, <1>4, <1>5 DEF QueueInv, Reserved

(* A send takes one place more. *)
LEMMA ReservationTaken ==
    ASSUME QueueInv, NEW m \in Messages, msg[m] = "new"
    PROVE  /\ midTurnAccepted \in Nat
           /\ Cardinality(Awaiting \cup {m}) = midTurnAccepted + 1
           /\ Awaiting \ {m} = Awaiting
<1>1. m \notin Awaiting /\ Awaiting \subseteq Messages
  BY DEF Awaiting, AwaitingIn, Waiting
<1>2. IsFiniteSet(Awaiting)
  BY <1>1, ManagedSessionAssumption, FS_Subset
<1>3. Cardinality(Awaiting) \in Nat
  BY <1>2, FS_CardinalityType
<1>4. Cardinality(Awaiting \cup {m}) = Cardinality(Awaiting) + 1
  BY <1>1, <1>2, FS_AddElement
<1> QED BY <1>1, <1>3, <1>4 DEF QueueInv, Reserved

(* The numbers that are compared are numbers. *)
LEMMA InvTypes ==
    ASSUME QueueInv
    PROVE  /\ midTurnAccepted \in Nat /\ Len(queue) \in Nat
           /\ MaxQueuedPrompts \in Nat
           /\ msg \in [Messages -> MessageState]
<1>1. Awaiting \subseteq Messages
  BY DEF Awaiting, AwaitingIn
<1>2. IsFiniteSet(Awaiting)
  BY <1>1, ManagedSessionAssumption, FS_Subset
<1> QED BY <1>2, FS_CardinalityType, ManagedSessionAssumption DEF QueueInv, QueueOK, Reserved

(* Nothing is queued or reserved to begin with. *)
LEMMA InitQueueInv == Init => QueueInv
<1> SUFFICES ASSUME Init PROVE QueueInv
  OBVIOUS
<1>1. msg = [m \in Messages |-> "new"] /\ queue = <<>> /\ turn = NoTurn /\ midTurnAccepted = 0
  BY DEF Init
<1>2. QueueOK(msg, queue)
  BY <1>1 DEF QueueOK, MessageState
<1>3. One(msg, turn)
  BY <1>1, NoTurnIsNoMessage DEF One, Pumped
<1>4. Awaiting = {}
  BY <1>1 DEF Awaiting, AwaitingIn, Waiting
<1>5. Reserved
  BY <1>1, <1>4, FS_EmptySet DEF Reserved
<1>6. Len(queue) + midTurnAccepted <= MaxQueuedPrompts
  BY <1>1, ManagedSessionAssumption
<1> QED BY <1>2, <1>3, <1>5, <1>6 DEF QueueInv

(* A step that leaves the queue, the turn and every message alone.         *)
LEMMA NothingMoves ==
    ASSUME QueueInv, msg' = msg, queue' = queue, turn' = turn,
           midTurnAccepted' = midTurnAccepted
    PROVE  QueueInv'
BY DEF QueueInv, QueueOK, One, Reserved, Awaiting, AwaitingIn

(* A step that moves one message that is not queued, and not to the queue. *)
LEMMA OneMoves ==
    ASSUME QueueInv, NEW m \in Messages, msg[m] # "queued", NEW v \in MessageState,
           msg' = [msg EXCEPT ![m] = v], queue' = queue
    PROVE  /\ QueueOK(msg', queue')
           /\ \A n \in Messages : msg'[n] = IF n = m THEN v ELSE msg[n]
<1>1. /\ QueueOK([msg EXCEPT ![m] = v], queue)
      /\ \A n \in Messages : [msg EXCEPT ![m] = v][n] = IF n = m THEN v ELSE msg[n]
  <2>1. QueueOK(msg, queue)
    BY DEF QueueInv
  <2>2. \A n \in Messages : [msg EXCEPT ![m] = v][n] = IF n = m THEN v ELSE msg[n]
    BY <2>1 DEF QueueOK
  <2>3. \A i \in 1 .. Len(queue) : queue[i] \in Messages
    BY <2>1 DEF QueueOK
  <2> QED BY <2>1, <2>2, <2>3 DEF QueueOK
<1> QED BY <1>1

(* The steps of one message keep the reservations. *)
LEMMA MessageStepQueueInv ==
    ASSUME QueueInv, NEW m \in Messages, MessageStep(m)
    PROVE  QueueInv'
<1>0. /\ midTurnAccepted \in Nat /\ Len(queue) \in Nat /\ MaxQueuedPrompts \in Nat
      /\ msg \in [Messages -> MessageState]
  BY InvTypes
<1>1. CASE SendPrompt(m)
  <2>1. /\ msg[m] = "new" /\ turn = NoTurn /\ turn' = m
        /\ msg' = [msg EXCEPT ![m] = "arming"]
        /\ queue' = queue /\ midTurnAccepted' = midTurnAccepted
    BY <1>1 DEF SendPrompt, ArmTurn
  <2>2. "arming" \in MessageState
    BY DEF MessageState, Pumped
  <2>3. QueueOK(msg', queue') /\ \A n \in Messages : msg'[n] = IF n = m THEN "arming" ELSE msg[n]
    BY <2>1, <2>2, OneMoves
  <2>4. One(msg', turn')
    BY <2>1, <2>3, NoTurnIsNoMessage DEF QueueInv, One, Pumped
  <2>5. Awaiting' = Awaiting
    BY <2>1, <2>3, AwaitingSame DEF Awaiting, AwaitingIn, Waiting
  <2> QED BY <2>1, <2>3, <2>4, <2>5 DEF QueueInv, Reserved
<1>2. CASE Refuse(m)
  <2>1. /\ msg[m] = "new" /\ msg' = [msg EXCEPT ![m] = "refused"]
        /\ queue' = queue /\ midTurnAccepted' = midTurnAccepted /\ turn' = turn
    BY <1>2 DEF Refuse, turnVars
  <2>2. "refused" \in MessageState
    BY DEF MessageState, Final
  <2>3. QueueOK(msg', queue') /\ \A n \in Messages : msg'[n] = IF n = m THEN "refused" ELSE msg[n]
    BY <2>1, <2>2, OneMoves
  <2>4. One(msg', turn')
    BY <2>1, <2>3 DEF QueueInv, One, Pumped
  <2>5. Awaiting' = Awaiting
    BY <2>1, <2>3 DEF Awaiting, AwaitingIn, Waiting
  <2> QED BY <2>1, <2>3, <2>4, <2>5 DEF QueueInv, Reserved
<1>3. CASE SendMidTurn(m)
  <2>1. msg[m] = "new" /\ ~Full
    BY <1>3 DEF SendMidTurn
  <2>2. Len(queue) + (midTurnAccepted + 1) <= MaxQueuedPrompts
    BY <1>0, <2>1 DEF Full
  <2>3. CASE /\ msg' = [msg EXCEPT ![m] = "attach"]
             /\ midTurnAccepted' = midTurnAccepted + 1
             /\ turn' = turn /\ queue' = queue
    <3>1. "attach" \in MessageState
      BY DEF MessageState, Waiting
    <3>2. QueueOK(msg', queue') /\ \A n \in Messages : msg'[n] = IF n = m THEN "attach" ELSE msg[n]
      BY <2>1, <2>3, <3>1, OneMoves
    <3>3. One(msg', turn')
      BY <2>1, <2>3, <3>2 DEF QueueInv, One, Pumped
    <3>4. Awaiting' = Awaiting \cup {m}
      BY <3>2 DEF Awaiting, AwaitingIn, Waiting
    <3>5. Reserved'
      BY <2>1, <2>3, <3>4, ReservationTaken DEF Reserved
    <3>6. Len(queue') + midTurnAccepted' <= MaxQueuedPrompts
      BY <2>2, <2>3
    <3> QED BY <3>2, <3>3, <3>5, <3>6 DEF QueueInv
  <2>4. CASE Unsteered(m, FALSE, midTurnAccepted + 1, acceptOrder + 1)
    <3>1. /\ QueueOK(msg', queue') /\ One(msg', turn')
          /\ AwaitingIn(msg') = Awaiting \ {m}
          /\ midTurnAccepted' = (midTurnAccepted + 1) - 1
          /\ Len(queue') + ((midTurnAccepted + 1) - 1) <= MaxQueuedPrompts
      <4>1. midTurnAccepted + 1 \in Nat \ {0}
        BY <1>0
      <4>2. QueueOK(msg, queue) /\ One(msg, turn)
        BY DEF QueueInv
      <4>3. msg[m] \in {"new"} \cup Waiting
        BY <2>1
      <4> QED BY <2>2, <2>4, <4>1, <4>2, <4>3, UnsteeredOK
    <3>2. Awaiting' = Awaiting
      BY <2>1, <3>1, ReservationTaken DEF Awaiting, AwaitingIn
    <3> QED BY <1>0, <3>1, <3>2 DEF QueueInv, Reserved
  <2>5. \/ /\ msg' = [msg EXCEPT ![m] = "attach"]
           /\ midTurnAccepted' = midTurnAccepted + 1
           /\ turn' = turn /\ queue' = queue
        \/ Unsteered(m, FALSE, midTurnAccepted + 1, acceptOrder + 1)
    BY <1>3 DEF SendMidTurn, turnVars
  <2> QED BY <2>3, <2>4, <2>5
<1>4. ASSUME NEW pr \in BOOLEAN, msg[m] \in Waiting,
             Unsteered(m, pr, midTurnAccepted, order[m])
      PROVE  QueueInv'
  <2>1. QueueOK(msg, queue) /\ One(msg, turn) /\ Len(queue) + midTurnAccepted <= MaxQueuedPrompts
    BY DEF QueueInv
  <2>2. midTurnAccepted \in Nat \ {0} /\ Cardinality(Awaiting \ {m}) = midTurnAccepted - 1
    BY <1>4, ReservationGiven
  <2>3. msg[m] \in {"new"} \cup Waiting
    BY <1>4
  <2>4. /\ QueueOK(msg', queue') /\ One(msg', turn')
        /\ AwaitingIn(msg') = Awaiting \ {m}
        /\ midTurnAccepted' = midTurnAccepted - 1
        /\ Len(queue') + (midTurnAccepted - 1) <= MaxQueuedPrompts
    BY <1>4, <2>1, <2>2, <2>3, UnsteeredOK
  <2>5. Awaiting' = Awaiting \ {m}
    BY <2>4 DEF Awaiting, AwaitingIn
  <2> QED BY <2>2, <2>4, <2>5 DEF QueueInv, Reserved
<1>5. CASE Attached(m)
  <2>1. msg[m] = "attach" /\ msg[m] \in Waiting
    BY <1>5 DEF Attached, Waiting
  <2>2. CASE Unsteered(m, FALSE, midTurnAccepted, order[m])
    BY <1>4, <2>1, <2>2
  <2>3. CASE /\ msg' = [msg EXCEPT ![m] = "steer"] /\ queue' = queue /\ turn' = turn
             /\ midTurnAccepted' = midTurnAccepted
    <3>1. "steer" \in MessageState
      BY DEF MessageState, Waiting
    <3>2. QueueOK(msg', queue') /\ \A n \in Messages : msg'[n] = IF n = m THEN "steer" ELSE msg[n]
      BY <2>1, <2>3, <3>1, OneMoves
    <3>3. One(msg', turn')
      BY <2>1, <2>3, <3>2 DEF QueueInv, One, Pumped
    <3>4. Awaiting' = Awaiting
      BY <2>1, <3>2 DEF Awaiting, AwaitingIn, Waiting
    <3> QED BY <2>3, <3>2, <3>3, <3>4 DEF QueueInv, Reserved
  <2>4. \/ Unsteered(m, FALSE, midTurnAccepted, order[m])
        \/ /\ msg' = [msg EXCEPT ![m] = "steer"] /\ queue' = queue /\ turn' = turn
           /\ midTurnAccepted' = midTurnAccepted
    BY <1>5 DEF Attached, turnVars
  <2> QED BY <2>2, <2>3, <2>4
<1>6. CASE Steered(m)
  <2>1. /\ msg[m] = "steer" /\ msg[m] \in Waiting
        /\ msg' = [msg EXCEPT ![m] = "steered"] /\ queue' = queue /\ turn' = turn
        /\ midTurnAccepted' = midTurnAccepted - 1
    BY <1>6 DEF Steered, Waiting, turnVars, Released
  <2>2. "steered" \in MessageState
    BY DEF MessageState, Final
  <2>3. QueueOK(msg', queue') /\ \A n \in Messages : msg'[n] = IF n = m THEN "steered" ELSE msg[n]
    BY <2>1, <2>2, OneMoves
  <2>4. One(msg', turn')
    BY <2>1, <2>3 DEF QueueInv, One, Pumped
  <2>5. Awaiting' = Awaiting \ {m}
    BY <2>3 DEF Awaiting, AwaitingIn, Waiting
  <2>6. midTurnAccepted \in Nat \ {0} /\ Cardinality(Awaiting \ {m}) = midTurnAccepted - 1
    BY <2>1, ReservationGiven
  <2>7. Len(queue) + midTurnAccepted <= MaxQueuedPrompts
    BY DEF QueueInv
  <2>8. Len(queue') + midTurnAccepted' <= MaxQueuedPrompts
    BY <1>0, <2>1, <2>7
  <2> QED BY <2>1, <2>3, <2>4, <2>5, <2>6, <2>8 DEF QueueInv, Reserved
<1>7. CASE NotSteered(m)
  <2>1. msg[m] \in Waiting
    BY <1>7 DEF NotSteered, Waiting
  <2>2. \/ Unsteered(m, TRUE, midTurnAccepted, order[m])
        \/ Unsteered(m, FALSE, midTurnAccepted, order[m])
    BY <1>7 DEF NotSteered
  <2> QED BY <1>4, <2>1, <2>2
<1>8. ASSUME NEW end \in Final, NEW unusable \in BOOLEAN, msg[m] \in Pumped,
             PumpEnds(m, end, unusable)
      PROVE  QueueInv'
  <2>1. QueueOK(msg, queue) /\ One(msg, turn) /\ Len(queue) + midTurnAccepted <= MaxQueuedPrompts
        /\ Reserved
    BY DEF QueueInv
  <2>2. /\ QueueOK(msg', queue') /\ Len(queue') <= Len(queue) /\ One(msg', turn')
        /\ AwaitingIn(msg') = Awaiting /\ midTurnAccepted' = midTurnAccepted
    BY <1>8, <2>1, PumpEndsOK
  <2>3. Awaiting' = Awaiting
    BY <2>2 DEF Awaiting, AwaitingIn
  <2>4. Len(queue') \in Nat
    BY <2>2 DEF QueueOK
  <2>5. Len(queue') + midTurnAccepted' <= MaxQueuedPrompts
    BY <1>0, <2>1, <2>2, <2>4
  <2> QED BY <2>1, <2>2, <2>3, <2>5 DEF QueueInv, Reserved
<1>9. "ended" \in Final /\ "failed" \in Final /\ "silent" \in Final
  BY DEF Final
<1>10. CASE PumpPrompts(m)
  <2>1. msg[m] = "arming" /\ msg[m] \in Pumped
    BY <1>10 DEF PumpPrompts, Pumped
  <2>2. CASE PumpEnds(m, "ended", FALSE)
    BY <1>8, <1>9, <2>1, <2>2
  <2>3. CASE /\ msg' = [msg EXCEPT ![m] = "running"] /\ queue' = queue /\ turn' = turn
             /\ midTurnAccepted' = midTurnAccepted
    <3>1. "running" \in MessageState
      BY DEF MessageState, Pumped
    <3>2. QueueOK(msg', queue') /\ \A n \in Messages : msg'[n] = IF n = m THEN "running" ELSE msg[n]
      BY <2>1, <2>3, <3>1, OneMoves
    <3>3. One(msg', turn')
      BY <2>1, <2>3, <3>2 DEF QueueInv, One, Pumped
    <3>4. Awaiting' = Awaiting
      BY <2>1, <3>2 DEF Awaiting, AwaitingIn, Waiting
    <3> QED BY <2>3, <3>2, <3>3, <3>4 DEF QueueInv, Reserved
  <2>4. \/ PumpEnds(m, "ended", FALSE)
        \/ /\ msg' = [msg EXCEPT ![m] = "running"] /\ queue' = queue /\ turn' = turn
           /\ midTurnAccepted' = midTurnAccepted
    BY <1>10 DEF PumpPrompts, turnVars
  <2> QED BY <2>2, <2>3, <2>4
<1>11. CASE PumpFails(m)
  <2>1. msg[m] \in Pumped /\ \E end \in Final : PumpEnds(m, end, TRUE)
    BY <1>9, <1>11 DEF PumpFails, Pumped
  <2> QED BY <1>8, <2>1
<1>12. CASE TurnEnds(m)
  <2>1. msg[m] \in Pumped /\ PumpEnds(m, "ended", FALSE)
    BY <1>12 DEF TurnEnds, Pumped
  <2> QED BY <1>8, <1>9, <2>1
<1>13. CASE TurnErrs(m)
  <2>1. msg[m] \in Pumped /\ \E auth \in BOOLEAN : \E end \in Final : PumpEnds(m, end, auth)
    BY <1>9, <1>13 DEF TurnErrs, Pumped
  <2> QED BY <1>8, <2>1
<1>14. CASE TurnCloses(m)
  <2>1. msg[m] \in Pumped /\ PumpEnds(m, "silent", FALSE)
    BY <1>14 DEF TurnCloses, Pumped
  <2> QED BY <1>8, <1>9, <2>1
<1> QED BY <1>1, <1>2, <1>3, <1>5, <1>6, <1>7, <1>10, <1>11, <1>12, <1>13, <1>14 DEF MessageStep

(* The ways out of a clear or a restart.                                   *)
LEMMA DeliverOnExitQueueInv ==
    ASSUME QueueInv, NEW ready, NEW Otherwise,
           DeliverOnExit(ready, Otherwise),
           Otherwise => DropQueued \/ (msg' = msg /\ queue' = queue),
           midTurnAccepted' = midTurnAccepted
    PROVE  QueueInv'
<1>1. /\ QueueOK(msg, queue) /\ One(msg, turn) /\ Reserved
      /\ Len(queue) + midTurnAccepted <= MaxQueuedPrompts
  BY DEF QueueInv
<1>2. ASSUME QueueOK(msg', queue'), Len(queue') <= Len(queue), One(msg', turn'),
             AwaitingIn(msg') = Awaiting
      PROVE  QueueInv'
  <2>1. Awaiting' = Awaiting
    BY <1>2 DEF Awaiting, AwaitingIn
  <2>2. Len(queue') \in Nat
    BY <1>2 DEF QueueOK
  <2>3. Len(queue') + midTurnAccepted' <= MaxQueuedPrompts
    BY <1>1, <1>2, <2>2, InvTypes
  <2> QED BY <1>1, <1>2, <2>1, <2>3 DEF QueueInv, Reserved
<1>3. CASE turn = NoTurn /\ queue # <<>> /\ ArmTurn(msg, Head(queue)) /\ queue' = Tail(queue)
  <2>1. One(msg, NoTurn)
    BY <1>1, <1>3
  <2> QED BY <1>1, <1>2, <1>3, <2>1, ArmHeadOK DEF Awaiting
<1>4. CASE DropQueued /\ turn' = turn
  <2>1. /\ QueueOK(msg', queue') /\ Len(queue') = 0 /\ One(msg', turn)
        /\ AwaitingIn(msg') = Awaiting
    BY <1>1, <1>4, DropQueuedOK
  <2> QED BY <1>2, <1>4, <2>1, InvTypes
<1>5. CASE msg' = msg /\ queue' = queue /\ turn' = turn
  BY <1>5, NothingMoves
<1>6. \/ turn = NoTurn /\ queue # <<>> /\ ArmTurn(msg, Head(queue)) /\ queue' = Tail(queue)
      \/ Otherwise /\ turn' = turn
  BY DEF DeliverOnExit
<1> QED BY <1>3, <1>4, <1>5, <1>6

(* Every step keeps the reservations. *)
LEMMA NextQueueInv ==
    ASSUME QueueInv, [Next]_vars
    PROVE  QueueInv'
<1>1. ASSUME NEW m \in Messages, MessageStep(m)
      PROVE  QueueInv'
  BY <1>1, MessageStepQueueInv
<1>2. ASSUME \E a \in Asks : Raise(a) \/ Settle(a)
      PROVE  QueueInv'
  BY <1>2, NothingMoves DEF Raise, Settle, turnVars, msgVars
<1>3. ASSUME \/ IdleAuthFails \/ CancelTurn \/ CancelSent \/ ClearContext
             \/ Stop \/ StopDisposes \/ StopEnds \/ Arm \/ LaunchSucceeds
             \/ LaunchFails \/ RestartAgent
      PROVE  QueueInv'
  <2>1. msg' = msg /\ queue' = queue /\ turn' = turn /\ midTurnAccepted' = midTurnAccepted
    BY <1>3 DEF IdleAuthFails, CancelTurn, CancelSent, ClearContext, Stop, StopDisposes,
                StopEnds, Arm, LaunchSucceeds, LaunchFails, RestartAgent, turnVars, msgVars
  <2> QED BY <2>1, NothingMoves
<1>4. CASE ClearEnds
  <2> DEFINE Otherwise == UNCHANGED <<msg, queue>>
  <2>1. DeliverOnExit(~restarting, Otherwise) /\ midTurnAccepted' = midTurnAccepted
    BY <1>4 DEF ClearEnds
  <2>2. Otherwise => DropQueued \/ (msg' = msg /\ queue' = queue)
    OBVIOUS
  <2> HIDE DEF Otherwise
  <2> QED BY <2>1, <2>2, DeliverOnExitQueueInv
<1>5. CASE RestartEnds
  <2> DEFINE Otherwise == IF session = 0 THEN DropQueued ELSE UNCHANGED <<msg, queue>>
  <2>1. DeliverOnExit(~clearing, Otherwise) /\ midTurnAccepted' = midTurnAccepted
    BY <1>5 DEF RestartEnds
  <2>2. Otherwise => DropQueued \/ (msg' = msg /\ queue' = queue)
    OBVIOUS
  <2> HIDE DEF Otherwise
  <2> QED BY <2>1, <2>2, DeliverOnExitQueueInv
<1>6. CASE StopSweeps
  <2>1. turn' = turn /\ midTurnAccepted' = midTurnAccepted
    BY <1>6 DEF StopSweeps, turnVars
  <2>2. \/ msg' = msg /\ queue' = queue
        \/ DropQueued
    BY <1>6 DEF StopSweeps
  <2>3. CASE msg' = msg /\ queue' = queue
    BY <2>1, <2>3, NothingMoves
  <2>4. CASE DropQueued
    <3>1. /\ QueueOK(msg, queue) /\ One(msg, turn) /\ Reserved
          /\ Len(queue) + midTurnAccepted <= MaxQueuedPrompts
      BY DEF QueueInv
    <3>2. /\ QueueOK(msg', queue') /\ Len(queue') = 0 /\ One(msg', turn)
          /\ AwaitingIn(msg') = Awaiting
      BY <2>4, <3>1, DropQueuedOK
    <3>3. Awaiting' = Awaiting
      BY <3>2 DEF Awaiting, AwaitingIn
    <3>4. Len(queue') + midTurnAccepted' <= MaxQueuedPrompts
      BY <2>1, <3>1, <3>2, InvTypes
    <3> QED BY <2>1, <3>1, <3>2, <3>3, <3>4 DEF QueueInv, Reserved
  <2> QED BY <2>2, <2>3, <2>4
<1>7. CASE UNCHANGED vars
  BY <1>7, NothingMoves DEF vars, turnVars, msgVars
<1> QED BY <1>1, <1>2, <1>3, <1>4, <1>5, <1>6, <1>7 DEF Next

(* The reservations hold in every behaviour. *)
LEMMA QueueInvHolds == Spec => []QueueInv
BY InitQueueInv, NextQueueInv, PTL DEF Spec

(* However steers, stops, clears and restarts fall among the sends, the    *)
(* messages queued and the reservations for one (sendMidTurn) are never    *)
(* more than MAX_QUEUED_PROMPTS.                                           *)
THEOREM QueueBounded == Spec => []QueueBound
<1>1. QueueInv => QueueBound
  BY DEF QueueInv, QueueBound
<1> QED BY <1>1, QueueInvHolds, PTL

(* midTurnAccepted is the number of sendMidTurn calls inside an await: no  *)
(* path out of one leaks a reservation or gives one back twice.            *)
THEOREM ReservationsAreHeld == Spec => []ReservationsHeld
<1>1. QueueInv => ReservationsHeld
  BY DEF QueueInv, ReservationsHeld, Reserved, Awaiting, AwaitingIn
<1> QED BY <1>1, QueueInvHolds, PTL

(* There is one turn, the one that is pumped, whatever ends it and         *)
(* whatever the next one is armed by.                                      *)
THEOREM ThereIsOneTurn == Spec => []OneTurn
<1>1. QueueInv => OneTurn
  BY DEF QueueInv, OneTurn, One
<1> QED BY <1>1, QueueInvHolds, PTL

(* The check for a queue that filled up during a send's awaits is a        *)
(* backstop that is never reached, as its comment argues.                  *)
THEOREM BackstopIsNotReached == Spec => []RoomForEverySend
<1>1. ASSUME QueueInv, NEW m \in Messages, msg[m] \in Waiting
      PROVE  Len(queue) < MaxQueuedPrompts
  <2>1. midTurnAccepted \in Nat \ {0}
    BY <1>1, ReservationGiven
  <2>2. Len(queue) + midTurnAccepted <= MaxQueuedPrompts
    BY <1>1 DEF QueueInv
  <2> QED BY <1>1, <2>1, <2>2, InvTypes
<1>2. QueueInv => RoomForEverySend
  BY <1>1 DEF RoomForEverySend
<1> QED BY <1>2, QueueInvHolds, PTL

-----------------------------------------------------------------------------
(* The types of everything beside the queue and the turn, which QueueInv   *)
(* has: the agent, the flags and what calls and asks carry.                *)
AgentTypes ==
    /\ session \in 0 .. MaxSessions
    /\ lastSession \in 0 .. MaxSessions
    /\ open \subseteq Sessions
    /\ launching => lastSession < MaxSessions
FlagTypes ==
    /\ launching \in BOOLEAN /\ terminal \in BOOLEAN
    /\ stopRequested \in BOOLEAN /\ comingBack \in BOOLEAN
    /\ armed \in BOOLEAN /\ clearing \in BOOLEAN /\ cancelled \in BOOLEAN
WorkTypes ==
    /\ stopping \in {"none", "await", "dispose", "kill"}
    /\ restart \in {"none", "stop", "resume", "restore", "failed"}
CallTypes ==
    /\ cancelling \in Turns
    /\ order \in [Messages -> Nat]
    /\ captured \in [Messages -> 0 .. MaxSessions]
    /\ acceptOrder \in Nat
    /\ ask \in [Asks -> Ask]
    /\ told \in Seq(Messages)
TypeInv == QueueInv /\ AgentTypes /\ FlagTypes /\ WorkTypes /\ CallTypes

(* A turn that begins captures the session there is.                       *)
LEMMA ArmedTypes ==
    ASSUME AgentTypes, CallTypes, NEW ms, NEW n, ArmTurn(ms, n)
    PROVE  armed' = TRUE /\ captured' \in [Messages -> 0 .. MaxSessions]
  BY DEF ArmTurn, AgentTypes, CallTypes

(* Sweeping the asks leaves asks.                                          *)
LEMMA SweptTypes ==
    ASSUME CallTypes, NEW by \in {"turn_ended", "turn_cancelled", "session_stopped"}
    PROVE  Swept(by) \in [Asks -> Ask]
<1> DEFINE settled(a) == [ask[a] EXCEPT !.st = "resolved", !.by = by]
           then(a) == IF ask[a].st = "pending" THEN settled(a) ELSE ask[a]
<1>1. \A a \in Asks : ask[a] \in Ask
  BY DEF CallTypes
<1>2. \A a \in Asks : settled(a) \in Ask
  BY <1>1 DEF Ask
<1> HIDE DEF settled
<1>3. \A a \in Asks : then(a) \in Ask
  BY <1>1, <1>2
<1>4. Swept(by) = [a \in Asks |-> then(a)]
  BY DEF Swept, settled
<1> HIDE DEF then
<1> QED BY <1>3, <1>4

(* The ways out of an await that may begin a turn.                         *)
LEMMA DeliveredTypes ==
    ASSUME AgentTypes, FlagTypes, CallTypes, NEW ms, NEW q, DeliverQueued(ms, q)
    PROVE  armed' \in BOOLEAN /\ captured' \in [Messages -> 0 .. MaxSessions]
<1>1. CASE ArmTurn(ms, Head(q))
  BY <1>1, ArmedTypes
<1>2. CASE armed' = armed /\ captured' = captured
  BY <1>2 DEF FlagTypes, CallTypes
<1> QED BY <1>1, <1>2 DEF DeliverQueued

(* The rest of a sendMidTurn. *)
LEMMA UnsteeredTypes ==
    ASSUME TypeInv, NEW m \in Messages, NEW pr, NEW taken, NEW ord,
           Unsteered(m, pr, taken, ord)
    PROVE  /\ armed' \in BOOLEAN /\ captured' \in [Messages -> 0 .. MaxSessions]
           /\ AgentTypes' /\ WorkTypes' /\ FlagTypes'
           /\ cancelling' = cancelling /\ ask' = ask
<1>1. AgentTypes /\ FlagTypes /\ WorkTypes /\ CallTypes
  BY DEF TypeInv
<1>2. armed' \in BOOLEAN /\ captured' \in [Messages -> 0 .. MaxSessions]
  <2>1. CASE ArmTurn(msg, m)
    BY <1>1, <2>1, ArmedTypes
  <2>2. CASE DeliverQueued([msg EXCEPT ![m] = "queued"], Placed(m, ord))
    BY <1>1, <2>2, DeliveredTypes
  <2>3. CASE armed' = armed /\ captured' = captured
    BY <1>1, <2>3 DEF FlagTypes, CallTypes
  <2> QED BY <2>1, <2>2, <2>3 DEF Unsteered
<1>3. /\ session' = session /\ lastSession' = lastSession /\ open' = open
      /\ launching' = launching /\ terminal' = terminal
      /\ stopRequested' = stopRequested /\ stopping' = stopping
      /\ comingBack' = comingBack /\ restart' = restart /\ clearing' = clearing
      /\ cancelled' = cancelled /\ cancelling' = cancelling /\ ask' = ask
  BY DEF Unsteered
<1>4. AgentTypes' /\ WorkTypes'
  BY <1>1, <1>3 DEF AgentTypes, WorkTypes
<1>5. FlagTypes'
  BY <1>1, <1>2, <1>3 DEF FlagTypes
<1> QED BY <1>2, <1>3, <1>4, <1>5

(* The end of a pump. *)
LEMMA PumpEndsTypes ==
    ASSUME TypeInv, NEW m \in Messages, NEW end, NEW unusable, PumpEnds(m, end, unusable)
    PROVE  /\ AgentTypes' /\ WorkTypes' /\ FlagTypes'
           /\ captured' \in [Messages -> 0 .. MaxSessions] /\ ask' \in [Asks -> Ask]
           /\ cancelling' = cancelling /\ order' = order /\ acceptOrder' = acceptOrder
<1>1. AgentTypes /\ FlagTypes /\ WorkTypes /\ CallTypes
  BY DEF TypeInv
<1>2. /\ session' = session /\ lastSession' = lastSession /\ open' = open
      /\ launching' = launching /\ terminal' = terminal /\ clearing' = clearing
      /\ cancelling' = cancelling /\ order' = order /\ acceptOrder' = acceptOrder
      /\ ask' = Swept("turn_ended")
  BY DEF PumpEnds
<1>3. cancelled' \in BOOLEAN
  <2>1. cancelled' = (cancelled /\ turn # m)
    BY DEF PumpEnds, CancelledAfter
  <2> QED BY <2>1, Zenon
<1>4. CASE /\ restart' = "stop" /\ stopRequested' = TRUE /\ stopping' = "await"
           /\ comingBack' = TRUE /\ armed' = FALSE /\ captured' = captured
  <2>1. AgentTypes' /\ WorkTypes' /\ captured' \in [Messages -> 0 .. MaxSessions]
    BY <1>1, <1>2, <1>4 DEF AgentTypes, WorkTypes, CallTypes
  <2>2. FlagTypes'
    BY <1>1, <1>2, <1>3, <1>4 DEF FlagTypes
  <2> QED BY <1>1, <1>2, <2>1, <2>2, SweptTypes
<1>5. CASE /\ stopRequested' = stopRequested /\ stopping' = stopping
           /\ comingBack' = comingBack /\ restart' = restart
           /\ armed' \in BOOLEAN /\ captured' \in [Messages -> 0 .. MaxSessions]
  <2>1. AgentTypes' /\ WorkTypes'
    BY <1>1, <1>2, <1>5 DEF AgentTypes, WorkTypes
  <2>2. FlagTypes'
    BY <1>1, <1>2, <1>3, <1>5 DEF FlagTypes
  <2> QED BY <1>1, <1>2, <1>5, <2>1, <2>2, SweptTypes
<1>6. CASE unusable /\ Replaces
  BY <1>4, <1>6 DEF PumpEnds, RestartBegins, StopBegins
<1>7. CASE ~(unusable /\ Replaces)
  <2>1. CASE DeliverQueued([msg EXCEPT ![m] = end], queue)
    BY <1>1, <1>5, <1>7, <2>1, DeliveredTypes DEF PumpEnds
  <2>2. CASE armed' = armed /\ captured' = captured
    BY <1>1, <1>5, <1>7, <2>2 DEF PumpEnds, FlagTypes, CallTypes
  <2> QED BY <1>7, <2>1, <2>2 DEF PumpEnds
<1> QED BY <1>6, <1>7

(* The steps of one message. *)
LEMMA MessageStepTypes ==
    ASSUME TypeInv, NEW m \in Messages, MessageStep(m)
    PROVE  AgentTypes' /\ WorkTypes' /\ FlagTypes' /\ CallTypes'
<1>1. AgentTypes /\ FlagTypes /\ WorkTypes /\ CallTypes
  BY DEF TypeInv
<1>2. /\ told \in Seq(Messages) /\ Append(told, m) \in Seq(Messages)
      /\ order \in [Messages -> Nat] /\ acceptOrder \in Nat
      /\ cancelling \in Turns /\ ask \in [Asks -> Ask]
      /\ captured \in [Messages -> 0 .. MaxSessions] /\ session \in 0 .. MaxSessions
  BY <1>1 DEF CallTypes, AgentTypes
(* steps that leave the agent and the flags alone *)
<1>3. ASSUME /\ session' = session /\ lastSession' = lastSession /\ open' = open
             /\ launching' = launching /\ terminal' = terminal
             /\ stopRequested' = stopRequested /\ stopping' = stopping
             /\ comingBack' = comingBack /\ restart' = restart
             /\ clearing' = clearing /\ cancelled' = cancelled,
             armed' \in BOOLEAN
      PROVE  AgentTypes' /\ WorkTypes' /\ FlagTypes'
  <2>1. AgentTypes' /\ WorkTypes'
    BY <1>1, <1>3 DEF AgentTypes, WorkTypes
  <2>2. FlagTypes'
    BY <1>1, <1>3 DEF FlagTypes
  <2> QED BY <2>1, <2>2
<1>4. armed \in BOOLEAN
  BY <1>1 DEF FlagTypes
<1>5. CASE SendPrompt(m)
  <2>1. armed' = TRUE /\ captured' \in [Messages -> 0 .. MaxSessions]
    BY <1>1, <1>5, ArmedTypes DEF SendPrompt
  <2>2. AgentTypes' /\ WorkTypes' /\ FlagTypes'
    BY <1>3, <1>5, <2>1 DEF SendPrompt
  <2> QED BY <1>2, <1>5, <2>1, <2>2 DEF SendPrompt, CallTypes
<1>6. CASE Refuse(m)
  <2>1. AgentTypes' /\ WorkTypes' /\ FlagTypes'
    BY <1>3, <1>4, <1>6 DEF Refuse, agentVars, turnVars
  <2> QED BY <1>2, <1>6, <2>1 DEF Refuse, turnVars, CallTypes
<1>7. CASE SendMidTurn(m)
  <2>1. order' \in [Messages -> Nat] /\ acceptOrder' \in Nat /\ told' = told
    <3>1. order' = [order EXCEPT ![m] = acceptOrder + 1] /\ acceptOrder' = acceptOrder + 1
      BY <1>7 DEF SendMidTurn
    <3>2. told' = told
      BY <1>7 DEF SendMidTurn
    <3> QED BY <1>2, <3>1, <3>2
  <2>2. CASE Unsteered(m, FALSE, midTurnAccepted + 1, acceptOrder + 1)
    BY <1>2, <2>1, <2>2, UnsteeredTypes DEF CallTypes
  <2>3. CASE /\ captured' = [captured EXCEPT ![m] = session]
             /\ UNCHANGED <<agentVars, turnVars, queue, ask, told>>
    <3>1. AgentTypes' /\ WorkTypes' /\ FlagTypes'
      BY <1>3, <1>4, <2>3 DEF agentVars, turnVars
    <3> QED BY <1>2, <2>1, <2>3, <3>1 DEF turnVars, CallTypes
  <2> QED BY <1>7, <2>2, <2>3 DEF SendMidTurn
<1>8. CASE Attached(m)
  <2>1. order' = order /\ acceptOrder' = acceptOrder /\ told' = told
    BY <1>8 DEF Attached
  <2>2. CASE Unsteered(m, FALSE, midTurnAccepted, order[m])
    BY <1>2, <2>1, <2>2, UnsteeredTypes DEF CallTypes
  <2>3. CASE UNCHANGED <<agentVars, turnVars, captured, ask>>
    <3>1. AgentTypes' /\ WorkTypes' /\ FlagTypes'
      BY <1>3, <1>4, <2>3 DEF agentVars, turnVars
    <3> QED BY <1>2, <2>1, <2>3, <3>1 DEF turnVars, CallTypes
  <2> QED BY <1>8, <2>2, <2>3 DEF Attached
<1>9. CASE Steered(m)
  <2>1. AgentTypes' /\ WorkTypes' /\ FlagTypes'
    BY <1>3, <1>4, <1>9 DEF Steered, agentVars, turnVars
  <2> QED BY <1>2, <1>9, <2>1 DEF Steered, turnVars, CallTypes
<1>10. CASE NotSteered(m)
  <2>1. order' = order /\ acceptOrder' = acceptOrder /\ told' \in {told, Append(told, m)}
    BY <1>10 DEF NotSteered
  <2>2. \E pr \in BOOLEAN : Unsteered(m, pr, midTurnAccepted, order[m])
    BY <1>10 DEF NotSteered
  <2> QED BY <1>2, <2>1, <2>2, UnsteeredTypes DEF CallTypes
<1>11. ASSUME told' \in Seq(Messages), \E end, unusable : PumpEnds(m, end, unusable)
       PROVE  AgentTypes' /\ WorkTypes' /\ FlagTypes' /\ CallTypes'
  BY <1>2, <1>11, PumpEndsTypes DEF CallTypes
<1>12. CASE PumpPrompts(m)
  <2>1. CASE PumpEnds(m, "ended", FALSE) /\ told' = told
    BY <1>2, <1>11, <2>1
  <2>2. CASE /\ told' \in {told, Append(told, m)}
             /\ UNCHANGED <<agentVars, turnVars, order, captured, acceptOrder, ask>>
    <3>1. AgentTypes' /\ WorkTypes' /\ FlagTypes'
      BY <1>3, <1>4, <2>2 DEF agentVars, turnVars
    <3> QED BY <1>2, <2>2, <3>1 DEF turnVars, CallTypes
  <2> QED BY <1>12, <2>1, <2>2 DEF PumpPrompts
<1>13. CASE PumpFails(m) \/ TurnEnds(m) \/ TurnErrs(m) \/ TurnCloses(m)
  <2>1. told' = told /\ \E end, unusable : PumpEnds(m, end, unusable)
    BY <1>13 DEF PumpFails, TurnEnds, TurnErrs, TurnCloses
  <2> QED BY <1>2, <1>11, <2>1
<1> QED BY <1>5, <1>6, <1>7, <1>8, <1>9, <1>10, <1>12, <1>13 DEF MessageStep

(* A way out of a clear or a restart.                                      *)
LEMMA ExitTypes ==
    ASSUME AgentTypes, FlagTypes, CallTypes, NEW ready, NEW Otherwise,
           DeliverOnExit(ready, Otherwise)
    PROVE  armed' \in BOOLEAN /\ captured' \in [Messages -> 0 .. MaxSessions]
<1>1. CASE ArmTurn(msg, Head(queue))
  BY <1>1, ArmedTypes
<1>2. CASE armed' = armed /\ captured' = captured
  BY <1>2 DEF FlagTypes, CallTypes
<1> QED BY <1>1, <1>2 DEF DeliverOnExit

(* The agent keeps its types: an incarnation is numbered only if a launch  *)
(* was allowed to number it.                                               *)
LEMMA AgentTypesKept == ASSUME TypeInv, [Next]_vars PROVE AgentTypes'
<1>1. AgentTypes /\ launching \in BOOLEAN /\ MaxSessions \in Nat
  BY ManagedSessionAssumption DEF TypeInv, FlagTypes
<1>2. CASE UNCHANGED <<session, lastSession, open, launching>>
  BY <1>1, <1>2 DEF AgentTypes
<1>3. CASE \E m \in Messages : MessageStep(m)
  BY <1>3, MessageStepTypes
<1>4. CASE StopDisposes
  BY <1>1, <1>4 DEF StopDisposes, AgentTypes
<1>5. CASE Arm
  BY <1>1, <1>5 DEF Arm, AgentTypes
<1>6. CASE LaunchSucceeds
  BY <1>1, <1>6 DEF LaunchSucceeds, AgentTypes, Sessions
<1>7. CASE LaunchFails
  BY <1>1, <1>7 DEF LaunchFails, AgentTypes
<1>8. CASE \/ \E a \in Asks : Raise(a) \/ Settle(a)
           \/ IdleAuthFails \/ CancelTurn \/ CancelSent \/ ClearContext \/ ClearEnds
           \/ Stop \/ StopSweeps \/ StopEnds \/ RestartAgent \/ RestartEnds
  BY <1>2, <1>8 DEF Raise, Settle, IdleAuthFails, CancelTurn, CancelSent, ClearContext,
     ClearEnds, Stop, StopSweeps, StopEnds, RestartAgent, RestartEnds, agentVars
<1> QED BY <1>2, <1>3, <1>4, <1>5, <1>6, <1>7, <1>8 DEF Next, vars, agentVars

(* So do the flags, ... *)
LEMMA FlagTypesKept == ASSUME TypeInv, [Next]_vars PROVE FlagTypes'
<1>1. AgentTypes /\ FlagTypes /\ CallTypes
  BY DEF TypeInv
<1>2. CASE UNCHANGED <<launching, terminal, stopRequested, comingBack, armed, clearing, cancelled>>
  BY <1>1, <1>2 DEF FlagTypes
<1>3. CASE \E m \in Messages : MessageStep(m)
  BY <1>3, MessageStepTypes
<1>4. CASE IdleAuthFails \/ Stop \/ RestartAgent
  BY <1>1, <1>4 DEF IdleAuthFails, Stop, RestartAgent, RestartBegins, StopBegins, FlagTypes, turnVars
<1>5. CASE CancelTurn \/ ClearContext
  BY <1>1, <1>5 DEF CancelTurn, ClearContext, FlagTypes, agentVars, turnVars
<1>6. CASE ClearEnds \/ RestartEnds
  <2>1. armed' \in BOOLEAN
    BY <1>1, <1>6, ExitTypes DEF ClearEnds, RestartEnds
  <2> QED BY <1>1, <1>6, <2>1 DEF ClearEnds, RestartEnds, FlagTypes
<1>7. CASE StopEnds \/ Arm \/ LaunchSucceeds \/ LaunchFails
  BY <1>1, <1>7 DEF StopEnds, Arm, LaunchSucceeds, LaunchFails, FlagTypes, turnVars
<1>8. CASE \/ \E a \in Asks : Raise(a) \/ Settle(a)
           \/ CancelSent \/ StopSweeps \/ StopDisposes
  BY <1>2, <1>8 DEF Raise, Settle, CancelSent, StopSweeps, StopDisposes, agentVars, turnVars
<1> QED BY <1>2, <1>3, <1>4, <1>5, <1>6, <1>7, <1>8 DEF Next, vars, agentVars, turnVars

(* ... what stop and restart are at, ... *)
LEMMA WorkTypesKept == ASSUME TypeInv, [Next]_vars PROVE WorkTypes'
<1>1. WorkTypes
  BY DEF TypeInv
<1>2. CASE UNCHANGED <<stopping, restart>>
  BY <1>1, <1>2 DEF WorkTypes
<1>3. CASE \E m \in Messages : MessageStep(m)
  BY <1>3, MessageStepTypes
<1>4. CASE IdleAuthFails \/ Stop \/ RestartAgent
  BY <1>1, <1>4 DEF IdleAuthFails, Stop, RestartAgent, RestartBegins, StopBegins, WorkTypes
<1>5. CASE StopSweeps \/ StopDisposes \/ StopEnds
  BY <1>1, <1>5 DEF StopSweeps, StopDisposes, StopEnds, WorkTypes
<1>6. CASE Arm \/ LaunchSucceeds \/ LaunchFails \/ RestartEnds
  BY <1>1, <1>6 DEF Arm, LaunchSucceeds, LaunchFails, RestartEnds, RestartAfter, WorkTypes
<1>7. CASE \/ \E a \in Asks : Raise(a) \/ Settle(a)
           \/ CancelTurn \/ CancelSent \/ ClearContext \/ ClearEnds
  BY <1>2, <1>7 DEF Raise, Settle, CancelTurn, CancelSent, ClearContext, ClearEnds, agentVars
<1> QED BY <1>2, <1>3, <1>4, <1>5, <1>6, <1>7 DEF Next, vars, agentVars

(* ... and what the calls, the asks and the messages carry.                *)
LEMMA CallTypesKept == ASSUME TypeInv, [Next]_vars PROVE CallTypes'
<1>1. AgentTypes /\ FlagTypes /\ CallTypes /\ turn \in Turns /\ NoTurn \in Turns
  BY NoTurnIsNoMessage DEF TypeInv, QueueInv, One
<1>2. CASE UNCHANGED <<cancelling, order, captured, acceptOrder, ask, told>>
  BY <1>1, <1>2 DEF CallTypes
<1>3. CASE \E m \in Messages : MessageStep(m)
  BY <1>3, MessageStepTypes
<1>4. CASE CancelTurn
  BY <1>1, <1>4 DEF CancelTurn, CallTypes, msgVars
<1>5. CASE CancelSent
  <2>1. ask' \in [Asks -> Ask]
    BY <1>1, <1>5, SweptTypes DEF CancelSent, CallTypes
  <2> QED BY <1>1, <1>5, <2>1 DEF CancelSent, CallTypes, msgVars
<1>6. CASE StopSweeps
  <2>1. ask' \in [Asks -> Ask]
    BY <1>1, <1>6, SweptTypes DEF StopSweeps
  <2> QED BY <1>1, <1>6, <2>1 DEF StopSweeps, CallTypes, turnVars
<1>7. CASE ClearEnds \/ RestartEnds
  <2>1. captured' \in [Messages -> 0 .. MaxSessions]
    BY <1>1, <1>7, ExitTypes DEF ClearEnds, RestartEnds
  <2> QED BY <1>1, <1>7, <2>1 DEF ClearEnds, RestartEnds, CallTypes
<1>8. ASSUME NEW a \in Asks, Raise(a) \/ Settle(a)
      PROVE  CallTypes'
  <2>1. ask \in [Asks -> Ask] /\ ask[a] \in Ask
    BY <1>1 DEF CallTypes
  <2>2. ASSUME NEW by \in {"client", "agent_withdrew"}
        PROVE  [ask[a] EXCEPT !.st = "resolved", !.by = by] \in Ask
    BY <2>1 DEF Ask
  <2>3. ask' \in [Asks -> Ask]
    <3>1. CASE Raise(a)
      BY <1>1, <2>1, <3>1 DEF Raise, Ask
    <3>2. CASE Settle(a)
      <4>1. PICK by \in {"client", "agent_withdrew"} :
                ask' = [ask EXCEPT ![a].st = "resolved", ![a].by = by]
        BY <3>2 DEF Settle
      <4>2. ask' = [ask EXCEPT ![a] = [ask[a] EXCEPT !.st = "resolved", !.by = by]]
        BY <2>1, <4>1
      <4> QED BY <2>1, <2>2, <4>2
    <3> QED BY <1>8, <3>1, <3>2
  <2> QED BY <1>1, <1>8, <2>3 DEF Raise, Settle, CallTypes, turnVars, msgVars
<1>9. CASE \/ IdleAuthFails \/ ClearContext \/ Stop \/ StopDisposes \/ StopEnds
           \/ Arm \/ LaunchSucceeds \/ LaunchFails \/ RestartAgent
  BY <1>2, <1>9 DEF IdleAuthFails, ClearContext, Stop, StopDisposes, StopEnds, Arm,
     LaunchSucceeds, LaunchFails, RestartAgent, turnVars, msgVars
<1> QED BY <1>2, <1>3, <1>4, <1>5, <1>6, <1>7, <1>8, <1>9 DEF Next, vars, turnVars, msgVars

(* A session begins with the types, ... *)
LEMMA InitTypeInv == Init => TypeInv
<1> SUFFICES ASSUME Init PROVE TypeInv
  OBVIOUS
<1>1. AgentTypes
  BY ManagedSessionAssumption DEF Init, AgentTypes, Sessions
<1>2. FlagTypes
  BY DEF Init, FlagTypes
<1>3. WorkTypes
  BY DEF Init, WorkTypes
<1>4. CallTypes
  <2>1. NewAsk \in Ask
    BY NoTurnIsNoMessage DEF NewAsk, Ask
  <2>2. NoTurn \in Turns /\ <<>> \in Seq(Messages) /\ 0 \in 0 .. MaxSessions
    BY NoTurnIsNoMessage, ManagedSessionAssumption
  <2> QED BY <2>1, <2>2 DEF Init, CallTypes
<1> QED BY <1>1, <1>2, <1>3, <1>4, InitQueueInv DEF TypeInv

(* ... and every step keeps them.                                          *)
LEMMA NextTypeInv == ASSUME TypeInv, [Next]_vars PROVE TypeInv'
<1>1. QueueInv'
  BY NextQueueInv DEF TypeInv
<1> QED BY <1>1, AgentTypesKept, FlagTypesKept, WorkTypesKept, CallTypesKept DEF TypeInv

(* They hold in every behaviour.                                           *)
LEMMA TypeInvHolds == Spec => []TypeInv
BY InitTypeInv, NextTypeInv, PTL DEF Spec

(* A session, its queue and its calls keep their types, for any number of  *)
(* messages, asks and agents (registry.ts: class ManagedSession).          *)
THEOREM TypeCorrect == Spec => []TypeOK
<1>1. TypeInv => TypeOK
  <2> SUFFICES ASSUME TypeInv PROVE TypeOK
    OBVIOUS
  <2>1. /\ turn \in Turns /\ msg \in [Messages -> MessageState]
        /\ queue \in Seq(Messages) /\ midTurnAccepted \in Nat
    BY InvTypes DEF TypeInv, QueueInv, QueueOK, One
  <2> QED BY <2>1 DEF TypeInv, AgentTypes, FlagTypes, WorkTypes, CallTypes, TypeOK
<1> QED BY <1>1, TypeInvHolds, PTL

-----------------------------------------------------------------------------
(* What a step may do to the messages and to the agent.                    *)

(* deliverQueued moves no message that is not queued.                      *)
LEMMA DeliverLeaves ==
    ASSUME NEW ms, NEW q, QueueOK(ms, q), DeliverQueued(ms, q),
           NEW m \in Messages, ms[m] # "queued"
    PROVE  msg'[m] = ms[m]
<1>1. CASE q # <<>> /\ Ready
  <2>1. msg' = [ms EXCEPT ![Head(q)] = "arming"] /\ Head(q) = q[1] /\ 1 \in 1 .. Len(q)
    BY <1>1 DEF DeliverQueued, ArmTurn, QueueOK
  <2>2. ms[Head(q)] = "queued"
    BY <2>1 DEF QueueOK
  <2> QED BY <2>1, <2>2 DEF QueueOK
<1>2. CASE ~(q # <<>> /\ Ready)
  BY <1>2 DEF DeliverQueued
<1> QED BY <1>1, <1>2

(* The rest of a sendMidTurn moves its own message and queued ones.        *)
LEMMA UnsteeredLeaves ==
    ASSUME QueueOK(msg, queue), NEW n \in Messages, msg[n] # "queued",
           NEW pr, NEW taken, NEW ord, Unsteered(n, pr, taken, ord),
           NEW m \in Messages, msg[m] # "queued"
    PROVE  /\ m # n => msg'[m] = msg[m]
           /\ msg'[n] \in {"dropped", "arming", "queued"}
<1>1. msg \in [Messages -> MessageState]
  BY DEF QueueOK
<1>2. PICK ms : ms = [msg EXCEPT ![n] = "queued"]
  OBVIOUS
<1>3. PICK p : p = Placed(n, ord)
  OBVIOUS
<1>4. QueueOK(ms, p)
  BY <1>2, <1>3, PlacedOK
<1>5. /\ ms[n] = "queued" /\ (m # n => ms[m] = msg[m] /\ ms[m] # "queued")
  BY <1>1, <1>2
<1>6. CASE msg' \in {[msg EXCEPT ![n] = "dropped"], [msg EXCEPT ![n] = "arming"], ms}
  BY <1>1, <1>5, <1>6
<1>7. CASE DeliverQueued(ms, p)
  <2>1. m # n => msg'[m] = msg[m]
    BY <1>4, <1>5, <1>7, DeliverLeaves
  <2>2. msg'[n] \in {"queued", "arming"}
    <3>1. CASE p # <<>> /\ Ready
      <4>1. msg' = [ms EXCEPT ![Head(p)] = "arming"]
        BY <1>7, <3>1 DEF DeliverQueued, ArmTurn
      <4> QED BY <1>4, <1>5, <4>1 DEF QueueOK
    <3>2. CASE ~(p # <<>> /\ Ready)
      BY <1>5, <1>7, <3>2 DEF DeliverQueued
    <3> QED BY <3>1, <3>2
  <2> QED BY <2>1, <2>2
<1> QED BY <1>2, <1>3, <1>6, <1>7 DEF Unsteered, ArmTurn

(* The end of a pump moves its own message and queued ones.                *)
LEMMA PumpEndsLeaves ==
    ASSUME QueueOK(msg, queue), NEW n \in Messages, msg[n] # "queued",
           NEW end \in Final, NEW unusable, PumpEnds(n, end, unusable),
           NEW m \in Messages, msg[m] # "queued"
    PROVE  /\ m # n => msg'[m] = msg[m]
           /\ msg'[n] = end
<1>1. PICK ms : ms = [msg EXCEPT ![n] = end]
  OBVIOUS
<1>2. end \in MessageState /\ end # "queued"
  BY DEF Final, MessageState
<1>3. QueueOK(ms, queue) /\ \A k \in Messages : ms[k] = IF k = n THEN end ELSE msg[k]
  <2>1. /\ QueueOK([msg EXCEPT ![n] = end], queue)
        /\ \A k \in Messages :
               [msg EXCEPT ![n] = end][k] = IF k = n THEN end ELSE msg[k]
    BY <1>2, OneChanges
  <2> QED BY <1>1, <2>1
<1>4. CASE msg' = ms
  BY <1>3, <1>4
<1>5. CASE DeliverQueued(ms, queue)
  BY <1>2, <1>3, <1>5, DeliverLeaves
<1> QED BY <1>1, <1>4, <1>5 DEF PumpEnds

(* A step of message n moves n, and others only out of the queue.  What is *)
(* final stays, and what runs ends.                                        *)
LEMMA MessageMoves ==
    ASSUME QueueInv, NEW n \in Messages, MessageStep(n)
    PROVE  /\ \A m \in Messages : m # n /\ msg[m] # "queued" => msg'[m] = msg[m]
           /\ msg[n] \in {"new"} \cup Waiting \cup Pumped
           /\ msg[n] = "running" => msg'[n] \in {"ended", "failed", "silent"}
<1>1. QueueOK(msg, queue) /\ msg \in [Messages -> MessageState]
  BY DEF QueueInv, QueueOK
<1>2. /\ "ended" \in Final /\ "failed" \in Final /\ "silent" \in Final
  BY DEF Final
<1>3. ASSUME NEW v, msg' = [msg EXCEPT ![n] = v]
      PROVE  \A m \in Messages : m # n => msg'[m] = msg[m]
  BY <1>1, <1>3
<1>4. ASSUME msg[n] \in {"new"} \cup Waiting,
             \E pr, taken, ord : Unsteered(n, pr, taken, ord)
      PROVE  \A m \in Messages : m # n /\ msg[m] # "queued" => msg'[m] = msg[m]
  <2>1. msg[n] # "queued"
    BY <1>4 DEF Waiting
  <2> QED BY <1>1, <1>4, <2>1, UnsteeredLeaves
<1>5. ASSUME msg[n] \in Pumped, NEW end \in {"ended", "failed", "silent"},
             \E unusable : PumpEnds(n, end, unusable)
      PROVE  /\ \A m \in Messages : m # n /\ msg[m] # "queued" => msg'[m] = msg[m]
             /\ msg'[n] = end
  <2>1. msg[n] # "queued"
    BY <1>5 DEF Pumped
  <2> QED BY <1>1, <1>2, <1>5, <2>1, PumpEndsLeaves
<1>6. CASE SendPrompt(n) \/ Refuse(n) \/ Steered(n)
  <2>1. msg[n] \in {"new", "steer"} /\ \E v : msg' = [msg EXCEPT ![n] = v]
    BY <1>6 DEF SendPrompt, ArmTurn, Refuse, Steered
  <2> QED BY <1>3, <2>1 DEF Waiting
<1>7. CASE SendMidTurn(n) \/ Attached(n) \/ NotSteered(n)
  <2>1. msg[n] \in {"new", "attach", "steer"}
    BY <1>7 DEF SendMidTurn, Attached, NotSteered
  <2>2. \/ \E v : msg' = [msg EXCEPT ![n] = v]
        \/ \E pr, taken, ord : Unsteered(n, pr, taken, ord)
    BY <1>7 DEF SendMidTurn, Attached, NotSteered
  <2> QED BY <1>3, <1>4, <2>1, <2>2 DEF Waiting
<1>8. CASE PumpPrompts(n)
  <2>1. msg[n] = "arming" /\ msg[n] \in Pumped
    BY <1>8 DEF PumpPrompts, Pumped
  <2>2. \/ \E v : msg' = [msg EXCEPT ![n] = v]
        \/ PumpEnds(n, "ended", FALSE)
    BY <1>8 DEF PumpPrompts
  <2> QED BY <1>3, <1>5, <2>1, <2>2
<1>9. CASE PumpFails(n) \/ TurnEnds(n) \/ TurnErrs(n) \/ TurnCloses(n)
  <2>1. msg[n] \in Pumped
    BY <1>9 DEF PumpFails, TurnEnds, TurnErrs, TurnCloses, Pumped
  <2>2. \E end \in {"ended", "failed", "silent"} : \E unusable : PumpEnds(n, end, unusable)
    BY <1>9 DEF PumpFails, TurnEnds, TurnErrs, TurnCloses
  <2> QED BY <1>5, <2>1, <2>2
<1> QED BY <1>6, <1>7, <1>8, <1>9 DEF MessageStep

(* The agent's fields in a step of a message: as they were, or a restart   *)
(* of a session that was live begins.                                      *)
LEMMA MessageStepAgent ==
    ASSUME NEW n \in Messages, MessageStep(n)
    PROVE  /\ UNCHANGED <<session, lastSession, open, launching, terminal, clearing>>
           /\ \/ UNCHANGED <<stopRequested, stopping, comingBack, restart>>
              \/ /\ Live /\ ~restarting /\ restart' = "stop" /\ stopRequested' = TRUE
                 /\ stopping' = "await" /\ comingBack' = TRUE
                 /\ msg[n] \in Pumped
<1>1. CASE SendPrompt(n) \/ Refuse(n) \/ Steered(n)
  BY <1>1 DEF SendPrompt, Refuse, Steered, agentVars
<1>2. ASSUME NEW pr, NEW taken, NEW ord, Unsteered(n, pr, taken, ord)
      PROVE  UNCHANGED <<session, lastSession, open, launching, terminal, clearing,
                         stopRequested, stopping, comingBack, restart>>
  BY <1>2 DEF Unsteered
<1>3. CASE SendMidTurn(n) \/ Attached(n) \/ NotSteered(n)
  BY <1>2, <1>3 DEF SendMidTurn, Attached, NotSteered, agentVars
<1>4. ASSUME NEW end, NEW unusable, PumpEnds(n, end, unusable)
      PROVE  /\ UNCHANGED <<session, lastSession, open, launching, terminal, clearing>>
             /\ \/ UNCHANGED <<stopRequested, stopping, comingBack, restart>>
                \/ /\ Live /\ ~restarting /\ restart' = "stop" /\ stopRequested' = TRUE
                   /\ stopping' = "await" /\ comingBack' = TRUE
  BY <1>4 DEF PumpEnds, Replaces, RestartBegins, StopBegins
<1>5. CASE PumpPrompts(n) /\ ~PumpEnds(n, "ended", FALSE)
  BY <1>5 DEF PumpPrompts, agentVars
<1>6. CASE PumpPrompts(n) /\ PumpEnds(n, "ended", FALSE)
  BY <1>4, <1>6 DEF PumpPrompts, Pumped
<1>7. CASE PumpFails(n) \/ TurnEnds(n) \/ TurnErrs(n) \/ TurnCloses(n)
  <2>1. msg[n] \in Pumped
    BY <1>7 DEF PumpFails, TurnEnds, TurnErrs, TurnCloses, Pumped
  <2>2. PICK end, unusable : PumpEnds(n, end, unusable)
    BY <1>7 DEF PumpFails, TurnEnds, TurnErrs, TurnCloses
  <2> QED BY <1>4, <2>1, <2>2
<1> QED BY <1>1, <1>3, <1>5, <1>6, <1>7 DEF MessageStep

-----------------------------------------------------------------------------
(* The agent's connection: there is none but that of the session, and none *)
(* once the session has ended, while the next agent is started, or while   *)
(* the stopped one is killed.                                              *)
OpenInv ==
    /\ open \subseteq {session}
    /\ terminal \/ launching \/ stopping = "kill" => open = {}
    /\ launching => session = 0 /\ ~terminal /\ stopping \in {"none", "await"}
    /\ stopping # "none" => stopRequested

(* It is so to begin with, ... *)
LEMMA InitOpenInv == Init => OpenInv
BY DEF Init, OpenInv

(* ... and after every step.                                               *)
LEMMA NextOpenInv == ASSUME TypeInv, OpenInv, [Next]_vars PROVE OpenInv'
<1>1. CASE /\ UNCHANGED <<session, open, launching, terminal>>
           /\ UNCHANGED <<stopRequested, stopping>> \/ (stopRequested' = TRUE /\ stopping' = "await")
  BY <1>1 DEF OpenInv
<1>2. CASE \E m \in Messages : MessageStep(m)
  BY <1>1, <1>2, MessageStepAgent
<1>3. CASE \/ \E a \in Asks : Raise(a) \/ Settle(a)
           \/ CancelTurn \/ CancelSent \/ ClearContext \/ ClearEnds \/ RestartEnds
  BY <1>1, <1>3 DEF Raise, Settle, CancelTurn, CancelSent, ClearContext, ClearEnds,
     RestartEnds, agentVars
<1>4. CASE IdleAuthFails \/ Stop \/ RestartAgent
  BY <1>1, <1>4 DEF IdleAuthFails, Stop, RestartAgent, RestartBegins, StopBegins
<1>5. CASE StopSweeps \/ StopDisposes \/ StopEnds
  BY <1>5 DEF StopSweeps, StopDisposes, StopEnds, OpenInv
<1>6. CASE Arm
  BY <1>6 DEF Arm, OpenInv
<1>7. CASE LaunchSucceeds
  <2>1. open = {} /\ stopping \in {"none", "await"}
    BY <1>7 DEF LaunchSucceeds, OpenInv
  <2> QED BY <1>7, <2>1 DEF LaunchSucceeds, OpenInv
<1>8. CASE LaunchFails
  BY <1>8 DEF LaunchFails, OpenInv
<1>9. CASE UNCHANGED vars
  BY <1>1, <1>9 DEF vars, agentVars
<1> QED BY <1>2, <1>3, <1>4, <1>5, <1>6, <1>7, <1>8, <1>9 DEF Next

-----------------------------------------------------------------------------
(* The asks.  AskHasItsTurn is not inductive by itself: it is the sweep    *)
(* before the agent is disposed of, and that no agent is there to ask      *)
(* while the next one is started, that keep a pending ask out of the steps *)
(* that end the session.                                                   *)
AskInv ==
    \A a \in Asks : ask[a].st = "pending" =>
        /\ ask[a].by = "none" /\ ask[a].turn = turn /\ turn # NoTurn
        /\ ~terminal /\ ~launching /\ stopping \notin {"dispose", "kill"}

(* A sweep leaves nothing pending (sweepPending).                          *)
LEMMA SweptSettles ==
    ASSUME CallTypes, NEW by, NEW a \in Asks
    PROVE  Swept(by)[a].st # "pending"
<1>1. ask[a] \in Ask
  BY DEF CallTypes
<1>2. Swept(by)[a] = IF ask[a].st = "pending"
                     THEN [ask[a] EXCEPT !.st = "resolved", !.by = by] ELSE ask[a]
  BY DEF Swept
<1>3. [ask[a] EXCEPT !.st = "resolved", !.by = by].st = "resolved"
  BY <1>1 DEF Ask
<1> QED BY <1>2, <1>3

(* The end of a pump sweeps, and no other step of a message takes the turn *)
(* from under an ask.                                                      *)
LEMMA MessageStepAsk ==
    ASSUME NEW m \in Messages, MessageStep(m)
    PROVE  \/ ask' = Swept("turn_ended")
           \/ ask' = ask /\ (turn # NoTurn => turn' = turn)
              /\ UNCHANGED <<launching, terminal, stopping>>
<1>1. ASSUME NEW end, NEW unusable, PumpEnds(m, end, unusable)
      PROVE  ask' = Swept("turn_ended")
  BY <1>1 DEF PumpEnds
<1>2. ASSUME NEW pr, NEW taken, NEW ord, Unsteered(m, pr, taken, ord)
      PROVE  /\ ask' = ask /\ (turn # NoTurn => turn' = turn)
             /\ UNCHANGED <<launching, terminal, stopping>>
  BY <1>2 DEF Unsteered, OwnTurn
<1>3. CASE SendPrompt(m) \/ Refuse(m) \/ Steered(m)
  BY <1>3 DEF SendPrompt, Refuse, Steered, agentVars, turnVars
<1>4. CASE SendMidTurn(m) \/ Attached(m) \/ NotSteered(m)
  BY <1>2, <1>4 DEF SendMidTurn, Attached, NotSteered, agentVars, turnVars
<1>5. CASE PumpPrompts(m)
  BY <1>1, <1>5 DEF PumpPrompts, agentVars, turnVars
<1>6. CASE PumpFails(m) \/ TurnEnds(m) \/ TurnErrs(m) \/ TurnCloses(m)
  BY <1>1, <1>6 DEF PumpFails, TurnEnds, TurnErrs, TurnCloses
<1> QED BY <1>3, <1>4, <1>5, <1>6 DEF MessageStep

(* No ask is pending to begin with, ... *)
LEMMA InitAskInv == Init => AskInv
BY DEF Init, AskInv, NewAsk

(* ... and every step leaves each one with its turn.                       *)
LEMMA NextAskInv == ASSUME TypeInv, OpenInv, AskInv, [Next]_vars PROVE AskInv'
<1>0. CallTypes /\ open \subseteq Sessions /\ 0 \notin Sessions
  BY DEF TypeInv, AgentTypes, Sessions
<1>1. CASE /\ ask' = ask /\ (turn # NoTurn => turn' = turn) /\ UNCHANGED <<launching, terminal>>
           /\ stopping' = stopping \/ stopping' = "await"
  BY <1>1 DEF AskInv
<1>2. ASSUME NEW by, ask' = Swept(by)
      PROVE  AskInv'
  <2>1. \A a \in Asks : ask'[a].st # "pending"
    BY <1>0, <1>2, SweptSettles
  <2> QED BY <2>1 DEF AskInv
<1>3. ASSUME ask' = ask, \A a \in Asks : ask[a].st # "pending"
      PROVE  AskInv'
  BY <1>3 DEF AskInv
<1>4. CASE \E m \in Messages : MessageStep(m)
  BY <1>1, <1>2, <1>4, MessageStepAsk
<1>5. ASSUME NEW a \in Asks, Raise(a) PROVE AskInv'
  <2>1. /\ session \in open /\ turn' = turn /\ terminal' = terminal
        /\ launching' = launching /\ stopping' = stopping
    BY <1>5 DEF Raise, agentVars, turnVars
  <2>2. ~launching /\ (Live => ~terminal /\ stopping = "none")
    BY <1>0, <2>1 DEF OpenInv, Live
  <2>3. ask \in [Asks -> Ask]
    BY <1>0 DEF CallTypes
  <2>4. \A b \in Asks : b # a => ask'[b] = ask[b]
    BY <1>5, <2>3 DEF Raise
  <2>5. ask'[a].st = "pending" => /\ Live /\ turn # NoTurn
                                  /\ ask'[a].turn = turn /\ ask'[a].by = "none"
    BY <1>5, <2>3 DEF Raise
  <2> QED BY <2>1, <2>2, <2>4, <2>5 DEF AskInv
<1>6. ASSUME NEW a \in Asks, Settle(a) PROVE AskInv'
  <2>1. turn' = turn /\ terminal' = terminal /\ launching' = launching /\ stopping' = stopping
    BY <1>6 DEF Settle, agentVars, turnVars
  <2>2. PICK by : ask' = [ask EXCEPT ![a].st = "resolved", ![a].by = by]
    BY <1>6 DEF Settle
  <2>3. ask \in [Asks -> Ask] /\ ask[a] \in Ask
    BY <1>0 DEF CallTypes
  <2>4. /\ \A b \in Asks : b # a => ask'[b] = ask[b]
        /\ ask'[a].st = "resolved"
    BY <2>2, <2>3 DEF Ask
  <2> QED BY <2>1, <2>4 DEF AskInv
<1>7. CASE CancelSent
  BY <1>1, <1>2, <1>7 DEF CancelSent, agentVars
<1>8. CASE StopSweeps
  BY <1>2, <1>8 DEF StopSweeps
<1>9. CASE StopDisposes \/ StopEnds \/ Arm \/ LaunchSucceeds \/ LaunchFails
  <2>1. \A a \in Asks : ask[a].st # "pending"
    BY <1>9 DEF StopDisposes, StopEnds, Arm, LaunchSucceeds, LaunchFails, AskInv
  <2>2. ask' = ask
    BY <1>9 DEF StopDisposes, StopEnds, Arm, LaunchSucceeds, LaunchFails
  <2> QED BY <1>3, <2>1, <2>2
<1>10. CASE IdleAuthFails \/ Stop \/ RestartAgent
  BY <1>1, <1>10 DEF IdleAuthFails, Stop, RestartAgent, RestartBegins, StopBegins, turnVars
<1>11. CASE ClearEnds \/ RestartEnds
  BY <1>1, <1>11 DEF ClearEnds, RestartEnds, DeliverOnExit
<1>12. CASE CancelTurn \/ ClearContext
  BY <1>1, <1>12 DEF CancelTurn, ClearContext, agentVars, turnVars
<1>13. CASE UNCHANGED vars
  BY <1>1, <1>13 DEF vars, agentVars, turnVars
<1> QED BY <1>4, <1>5, <1>6, <1>7, <1>8, <1>9, <1>10, <1>11, <1>12, <1>13 DEF Next

(* They hold in every behaviour.                                           *)
LEMMA AskInvHolds == Spec => [](TypeInv /\ OpenInv /\ AskInv)
<1>1. Init => TypeInv /\ OpenInv /\ AskInv
  BY InitTypeInv, InitOpenInv, InitAskInv
<1>2. TypeInv /\ OpenInv /\ AskInv /\ [Next]_vars => (TypeInv /\ OpenInv /\ AskInv)'
  BY NextTypeInv, NextOpenInv, NextAskInv
<1> QED BY <1>1, <1>2, PTL DEF Spec

(* A question that waits for a person (a pending of resolvePermission or   *)
(* resolveElicitation) belongs to the turn there is and to a session that  *)
(* has not ended, whatever stops, exits or restarts come between.          *)
THEOREM EveryAskHasItsTurn == Spec => []AskHasItsTurn
<1>1. AskInv => AskHasItsTurn
  BY DEF AskInv, AskHasItsTurn
<1> QED BY <1>1, AskInvHolds, PTL

(* A cancel that comes back from the agent late settles no ask of a later  *)
(* turn: what a step of cancelTurn settles is of the turn it captured.     *)
THEOREM CancelsKeepToTheirTurn == Spec => CancelKeepsToItsTurn
<1>1. ASSUME TypeInv, AskInv, [Next]_vars, NEW a \in Asks,
             ask'[a].by = "turn_cancelled", ask[a].st = "pending"
      PROVE  ask[a].turn = cancelling
  <2>1. ask \in [Asks -> Ask] /\ ask[a] \in Ask
    BY <1>1 DEF TypeInv, CallTypes
  <2>2. ask[a].by = "none" /\ ask[a].turn = turn
    BY <1>1 DEF AskInv
  <2>3. ASSUME NEW by, ask' = Swept(by) PROVE ask'[a].by = by
    <3>1. ask'[a] = [ask[a] EXCEPT !.st = "resolved", !.by = by]
      BY <1>1, <2>3 DEF Swept
    <3> QED BY <2>1, <3>1 DEF Ask
  <2>4. ask' # ask /\ \A by : ask' = Swept(by) => by = "turn_cancelled"
    BY <1>1, <2>2, <2>3
  <2>5. CASE CancelSent
    BY <2>2, <2>4, <2>5 DEF CancelSent
  <2>6. ASSUME NEW b \in Asks PROVE ~Raise(b) /\ ~Settle(b)
    <3>1. ~Raise(b)
      BY <1>1, <2>1, <2>2 DEF Raise
    <3>2. ASSUME NEW by \in {"client", "agent_withdrew"},
                 ask' = [ask EXCEPT ![b].st = "resolved", ![b].by = by]
          PROVE  FALSE
      <4>1. ask'[a].by \in {ask[a].by, by}
        BY <2>1, <3>2 DEF Ask
      <4> QED BY <1>1, <2>2, <4>1
    <3> QED BY <3>1, <3>2 DEF Settle
  <2>7. ~StopSweeps /\ ~\E m \in Messages : MessageStep(m)
    BY <2>4, MessageStepAsk DEF StopSweeps
  <2>8. /\ ~IdleAuthFails /\ ~CancelTurn /\ ~ClearContext /\ ~ClearEnds
        /\ ~Stop /\ ~StopDisposes /\ ~StopEnds
        /\ ~Arm /\ ~LaunchSucceeds /\ ~LaunchFails /\ ~RestartAgent /\ ~RestartEnds
        /\ ~UNCHANGED vars
    BY <2>4 DEF IdleAuthFails, CancelTurn, ClearContext, ClearEnds, Stop, StopDisposes,
       StopEnds, Arm, LaunchSucceeds, LaunchFails, RestartAgent, RestartEnds, vars
  <2> QED BY <1>1, <2>5, <2>6, <2>7, <2>8 DEF Next
<1>2. TypeInv /\ AskInv /\ [Next]_vars
      => [\A a \in Asks : ask'[a].by = "turn_cancelled" /\ ask[a].st = "pending"
              => ask[a].turn = cancelling]_vars
  BY <1>1
<1> QED BY <1>2, AskInvHolds, PTL DEF Spec, CancelKeepsToItsTurn

-----------------------------------------------------------------------------
(* The order of the queue.  QueueInAcceptOrder is not inductive by itself: *)
(* that a splice keeps the queue sorted rests on every ordinal being taken *)
(* once, and on a message that may still be queued having taken one.       *)

(* The queue q is sorted by the ordinals o and has every queued message.   *)
Filed(ms, q, o) ==
    /\ \A i, j \in 1 .. Len(q) : i < j => o[q[i]] < o[q[j]]
    /\ \A m \in Messages : ms[m] = "queued" => \E i \in 1 .. Len(q) : q[i] = m

Stamped ==
    /\ \A m \in Messages : order[m] <= acceptOrder
    /\ \A m, n \in Messages : order[m] = order[n] /\ order[m] > 0 => m = n

Queuing == Waiting \cup {"queued"}
Numbered(ms, o) == \A m \in Messages : ms[m] \in Queuing => o[m] > 0

OrderInv ==
    /\ Stamped
    /\ Numbered(msg, order)
    /\ Filed(msg, queue, order)

(* A queue is filed whatever becomes of messages outside it, and whatever  *)
(* they are numbered.                                                      *)
LEMMA FiledSame ==
    ASSUME NEW ms, NEW ns, NEW q, NEW o, NEW p, QueueOK(ms, q), Filed(ms, q, o),
           \A m \in Messages : ns[m] = "queued" <=> ms[m] = "queued",
           \A m \in Messages : ms[m] = "queued" => p[m] = o[m]
    PROVE  Filed(ns, q, p)
<1>1. \A i \in 1 .. Len(q) : p[q[i]] = o[q[i]]
  BY DEF QueueOK
<1> QED BY <1>1 DEF Filed

(* Taking the head leaves the rest filed.                                  *)
LEMMA ArmHeadFiled ==
    ASSUME NEW ms, NEW q, NEW o, QueueOK(ms, q), Filed(ms, q, o), q # <<>>,
           ArmTurn(ms, Head(q)), queue' = Tail(q)
    PROVE  Filed(msg', queue', o)
<1>1. /\ Len(q) \in Nat \ {0} /\ Head(q) = q[1] /\ Head(q) \in Messages
      /\ Len(queue') = Len(q) - 1
      /\ \A i \in 1 .. Len(q) - 1 : queue'[i] = q[i + 1]
  BY DEF QueueOK
<1>2. \A m \in Messages : msg'[m] = IF m = Head(q) THEN "arming" ELSE ms[m]
  BY <1>1 DEF ArmTurn, QueueOK
<1>3. \A i, j \in 1 .. Len(queue') : i < j => o[queue'[i]] < o[queue'[j]]
  <2> SUFFICES ASSUME NEW i \in 1 .. Len(queue'), NEW j \in 1 .. Len(queue'), i < j
               PROVE  o[queue'[i]] < o[queue'[j]]
    OBVIOUS
  <2>1. /\ i + 1 \in 1 .. Len(q) /\ j + 1 \in 1 .. Len(q) /\ i + 1 < j + 1
        /\ queue'[i] = q[i + 1] /\ queue'[j] = q[j + 1]
    BY <1>1
  <2> QED BY <2>1 DEF Filed
<1>4. ASSUME NEW m \in Messages, msg'[m] = "queued"
      PROVE  \E i \in 1 .. Len(queue') : queue'[i] = m
  <2>1. m # Head(q) /\ ms[m] = "queued"
    BY <1>2, <1>4
  <2>2. PICK i \in 1 .. Len(q) : q[i] = m
    BY <2>1 DEF Filed
  <2>3. i # 1
    BY <1>1, <2>1, <2>2
  <2>4. i - 1 \in 1 .. Len(queue') /\ queue'[i - 1] = m
    BY <1>1, <2>2, <2>3
  <2> QED BY <2>4
<1> QED BY <1>3, <1>4 DEF Filed

(* deliverQueued, whether or not it delivers.                              *)
LEMMA DeliverQueuedFiled ==
    ASSUME NEW ms, NEW q, NEW o, QueueOK(ms, q), Filed(ms, q, o), DeliverQueued(ms, q)
    PROVE  Filed(msg', queue', o)
<1>1. CASE q # <<>> /\ Ready
  BY <1>1, ArmHeadFiled DEF DeliverQueued
<1>2. CASE ~(q # <<>> /\ Ready)
  BY <1>2 DEF DeliverQueued
<1> QED BY <1>1, <1>2

(* dropQueuedUndelivered leaves none queued.                               *)
LEMMA DropQueuedFiled ==
    ASSUME QueueOK(msg, queue), NEW o, Filed(msg, queue, order), DropQueued
    PROVE  Filed(msg', queue', o)
<1>1. queue' = <<>> /\ DOMAIN queue = 1 .. Len(queue)
  BY DEF DropQueued, QueueOK
<1>2. \A m \in Messages : msg'[m] # "queued"
  BY <1>1 DEF DropQueued, Filed
<1> QED BY <1>1, <1>2 DEF Filed

(* sendMidTurn's splice: o numbers m with the ordinal it is placed by, and *)
(* no other message has that one.                                          *)
LEMMA PlacedFiled ==
    ASSUME QueueOK(msg, queue), Filed(msg, queue, order), order \in [Messages -> Nat],
           NEW m \in Messages, msg[m] # "queued",
           NEW o \in [Messages -> Nat],
           \A n \in Messages : n # m => o[n] = order[n] /\ o[n] # o[m]
    PROVE  Filed([msg EXCEPT ![m] = "queued"], Placed(m, o[m]), o)
<1>1. queue \in Seq(Messages) /\ Len(queue) \in Nat
  BY DEF QueueOK
<1>2. \A i \in 1 .. Len(queue) : /\ queue[i] \in Messages /\ queue[i] # m
                                 /\ o[queue[i]] = order[queue[i]]
                                 /\ o[queue[i]] \in Nat /\ o[queue[i]] # o[m]
  BY <1>1 DEF QueueOK
<1>3. \A i, j \in 1 .. Len(queue) : i < j => o[queue[i]] < o[queue[j]]
  BY <1>2 DEF Filed
<1>4. PICK p : p = Placed(m, o[m])
  OBVIOUS
<1>5. PICK at \in 1 .. Len(queue) + 1 :
          /\ p \in Seq(Messages)
          /\ Len(p) = Len(queue) + 1
          /\ \A i \in 1 .. Len(p) :
                 p[i] = IF i < at THEN queue[i] ELSE IF i = at THEN m ELSE queue[i - 1]
          /\ \A i \in 1 .. at - 1 : ~(order[queue[i]] > o[m])
          /\ at <= Len(queue) => order[queue[at]] > o[m]
  BY <1>1, <1>4, PlacedAt
<1>6. at \in 1 .. Len(queue) + 1 /\ o[m] \in Nat /\ Len(p) = Len(queue) + 1
  BY <1>5
<1>7. ASSUME NEW i \in 1 .. at - 1
      PROVE  i \in 1 .. Len(queue) /\ p[i] = queue[i] /\ o[p[i]] < o[m]
  <2>1. i \in 1 .. Len(queue) /\ i \in 1 .. Len(p) /\ i < at
    BY <1>1, <1>6
  <2>2. p[i] = queue[i] /\ ~(order[queue[i]] > o[m])
    BY <1>5, <2>1
  <2> QED BY <1>2, <1>6, <2>1, <2>2
<1>8. ASSUME NEW i \in at + 1 .. Len(p)
      PROVE  i - 1 \in 1 .. Len(queue) /\ p[i] = queue[i - 1] /\ o[p[i]] > o[m]
  <2>1. i - 1 \in 1 .. Len(queue) /\ i \in 1 .. Len(p) /\ i > at /\ at \in 1 .. Len(queue)
    BY <1>1, <1>6
  <2>2. p[i] = queue[i - 1] /\ o[queue[at]] > o[m]
    <3>1. p[i] = IF i < at THEN queue[i] ELSE IF i = at THEN m ELSE queue[i - 1]
      BY <1>5, <2>1
    <3>2. ~(i < at) /\ i # at
      BY <2>1
    <3>3. at <= Len(queue)
      BY <1>1, <2>1
    <3>4. order[queue[at]] > o[m]
      BY <1>5, <3>3
    <3>5. o[queue[at]] = order[queue[at]]
      BY <1>2, <2>1
    <3> QED BY <3>1, <3>2, <3>4, <3>5
  <2>3. CASE i - 1 = at
    BY <2>1, <2>2, <2>3
  <2>4. CASE i - 1 > at
    <3>1. o[queue[at]] < o[queue[i - 1]]
      BY <1>3, <2>1, <2>4
    <3> QED BY <1>2, <1>6, <2>1, <2>2, <3>1
  <2> QED BY <2>1, <2>3, <2>4
<1>9. p[at] = m
  BY <1>1, <1>5
<1>10. ASSUME NEW i \in 1 .. Len(p), NEW j \in 1 .. Len(p), i < j
       PROVE  o[p[i]] < o[p[j]]
  <2>1. CASE j < at
    <3>1. i \in 1 .. at - 1 /\ j \in 1 .. at - 1
      BY <1>6, <1>10, <2>1
    <3>2. /\ i \in 1 .. Len(queue) /\ p[i] = queue[i] /\ j \in 1 .. Len(queue) /\ p[j] = queue[j]
      BY <1>7, <3>1
    <3> QED BY <1>3, <1>10, <3>2
  <2>2. CASE i > at
    <3>1. i \in at + 1 .. Len(p) /\ j \in at + 1 .. Len(p)
      BY <1>1, <1>6, <1>10, <2>2
    <3>2. /\ i - 1 \in 1 .. Len(queue) /\ p[i] = queue[i - 1]
          /\ j - 1 \in 1 .. Len(queue) /\ p[j] = queue[j - 1]
      BY <1>8, <3>1
    <3>3. i - 1 < j - 1
      BY <1>1, <1>6, <1>10
    <3> QED BY <1>3, <3>2, <3>3
  <2>3. CASE i <= at /\ at <= j
    <3>1. i < at => o[p[i]] < o[m] /\ o[p[i]] \in Nat
      <4>1. i < at => i \in 1 .. at - 1
        BY <1>6
      <4> QED BY <1>2, <1>7, <4>1
    <3>2. j > at => o[m] < o[p[j]] /\ o[p[j]] \in Nat
      <4>1. j > at => j \in at + 1 .. Len(p)
        BY <1>1, <1>6
      <4> QED BY <1>2, <1>6, <1>8, <4>1
    <3>3. (i = at \/ i < at) /\ (j = at \/ j > at) /\ ~(i = at /\ j = at)
      BY <1>1, <1>6, <1>10, <2>3
    <3>4. i = at => o[p[i]] = o[m]
      BY <1>9
    <3>5. j = at => o[p[j]] = o[m]
      BY <1>9
    <3>6. CASE i = at
      BY <3>2, <3>3, <3>4, <3>6
    <3>7. CASE j = at
      BY <3>1, <3>3, <3>5, <3>7
    <3>8. CASE i < at /\ j > at
      BY <1>6, <3>1, <3>2, <3>8
    <3> QED BY <3>3, <3>6, <3>7, <3>8
  <2> QED BY <1>1, <1>6, <2>1, <2>2, <2>3
<1>11. ASSUME NEW n \in Messages, [msg EXCEPT ![m] = "queued"][n] = "queued"
       PROVE  \E i \in 1 .. Len(p) : p[i] = n
  <2>1. CASE n = m
    BY <1>1, <1>6, <1>9, <2>1
  <2>2. CASE n # m
    <3>1. msg[n] = "queued"
      BY <1>11, <2>2 DEF QueueOK
    <3>2. PICK i \in 1 .. Len(queue) : queue[i] = n
      BY <3>1 DEF Filed
    <3>3. CASE i < at
      <4>1. i \in 1 .. Len(p)
        BY <1>1, <1>6
      <4>2. p[i] = n
        BY <1>5, <3>2, <3>3, <4>1
      <4> QED BY <4>1, <4>2
    <3>4. CASE i >= at
      <4>1. i + 1 \in 1 .. Len(p) /\ ~(i + 1 < at) /\ i + 1 # at /\ (i + 1) - 1 = i
        BY <1>1, <1>6, <3>4
      <4>2. p[i + 1] = n
        BY <1>5, <3>2, <4>1
      <4> QED BY <4>1, <4>2
    <3> QED BY <1>6, <3>3, <3>4
  <2> QED BY <2>1, <2>2
<1> QED BY <1>4, <1>10, <1>11 DEF Filed

(* The rest of a sendMidTurn, for a message numbered o[n].                 *)
LEMMA UnsteeredFiled ==
    ASSUME QueueOK(msg, queue), Filed(msg, queue, order), order \in [Messages -> Nat],
           NEW n \in Messages, msg[n] # "queued",
           NEW o \in [Messages -> Nat],
           \A m \in Messages : m # n => o[m] = order[m] /\ o[m] # o[n],
           NEW pr, NEW taken, Unsteered(n, pr, taken, o[n])
    PROVE  Filed(msg', queue', o)
<1>1. PICK ms : ms = [msg EXCEPT ![n] = "queued"]
  OBVIOUS
<1>2. PICK p : p = Placed(n, o[n])
  OBVIOUS
<1>3. QueueOK(ms, p)
  BY <1>1, <1>2, PlacedOK
<1>4. Filed(ms, p, o)
  BY <1>1, <1>2, PlacedFiled
<1>5. CASE /\ msg' \in {[msg EXCEPT ![n] = "dropped"], [msg EXCEPT ![n] = "arming"]}
           /\ queue' = queue
  <2>1. \A m \in Messages : msg'[m] = "queued" <=> msg[m] = "queued"
    BY <1>5 DEF QueueOK
  <2>2. \A m \in Messages : msg[m] = "queued" => o[m] = order[m]
    OBVIOUS
  <2> QED BY <1>5, <2>1, <2>2, FiledSame
<1>6. CASE DeliverQueued(ms, p)
  BY <1>3, <1>4, <1>6, DeliverQueuedFiled
<1>7. CASE msg' = ms /\ queue' = p
  BY <1>4, <1>7
<1> QED BY <1>1, <1>2, <1>5, <1>6, <1>7 DEF Unsteered, ArmTurn

(* The end of a pump.                                                      *)
LEMMA PumpEndsFiled ==
    ASSUME QueueOK(msg, queue), Filed(msg, queue, order),
           NEW n \in Messages, msg[n] # "queued",
           NEW end \in Final, NEW unusable, PumpEnds(n, end, unusable)
    PROVE  Filed(msg', queue', order)
<1>1. PICK ms : ms = [msg EXCEPT ![n] = end]
  OBVIOUS
<1>2. end \in MessageState /\ end # "queued"
  BY DEF Final, MessageState
<1>3. QueueOK(ms, queue) /\ \A k \in Messages : ms[k] = IF k = n THEN end ELSE msg[k]
  <2>1. /\ QueueOK([msg EXCEPT ![n] = end], queue)
        /\ \A k \in Messages :
               [msg EXCEPT ![n] = end][k] = IF k = n THEN end ELSE msg[k]
    BY <1>2, OneChanges
  <2> QED BY <1>1, <2>1
<1>4. Filed(ms, queue, order)
  <2>1. \A k \in Messages : ms[k] = "queued" <=> msg[k] = "queued"
    BY <1>2, <1>3
  <2> QED BY <2>1, FiledSame
<1>5. CASE msg' = ms /\ queue' = queue
  BY <1>4, <1>5
<1>6. CASE DeliverQueued(ms, queue)
  BY <1>3, <1>4, <1>6, DeliverQueuedFiled
<1> QED BY <1>1, <1>5, <1>6 DEF PumpEnds

(* Only sendMidTurn makes a message one that may be queued.                *)
LEMMA MessageStepQueuing ==
    ASSUME QueueInv, NEW n \in Messages, MessageStep(n),
           NEW m \in Messages, msg'[m] \in Queuing
    PROVE  msg[m] \in Queuing \/ (m = n /\ SendMidTurn(n))
<1>1. msg \in [Messages -> MessageState] /\ QueueOK(msg, queue)
  BY DEF QueueInv, QueueOK
<1>2. CASE m # n
  BY <1>2, MessageMoves DEF Queuing
<1>3. ASSUME NEW end \in Final, msg[n] \in Pumped, \E unusable : PumpEnds(n, end, unusable)
      PROVE  msg'[n] \notin Queuing
  <2>1. msg[n] # "queued"
    BY <1>3 DEF Pumped
  <2>2. msg'[n] = end
    BY <1>1, <1>3, <2>1, PumpEndsLeaves
  <2> QED BY <2>2 DEF Final, Queuing, Waiting
<1>4. "ended" \in Final /\ "failed" \in Final /\ "silent" \in Final
  BY DEF Final
<1>5. CASE SendPrompt(n) \/ Refuse(n) \/ Steered(n)
  <2>1. msg'[n] \notin Queuing
    BY <1>1, <1>5 DEF SendPrompt, ArmTurn, Refuse, Steered, Queuing, Waiting
  <2> QED BY <1>2, <2>1
<1>6. CASE Attached(n) \/ NotSteered(n)
  <2>1. msg[n] \in Queuing
    BY <1>6 DEF Attached, NotSteered, Queuing, Waiting
  <2> QED BY <1>2, <2>1
<1>7. CASE SendMidTurn(n)
  BY <1>2, <1>7
<1>8. CASE PumpPrompts(n)
  <2>1. msg[n] \in Pumped
    BY <1>8 DEF PumpPrompts, Pumped
  <2>2. CASE PumpEnds(n, "ended", FALSE)
    <3>1. msg'[n] \notin Queuing
      BY <1>3, <1>4, <2>1, <2>2
    <3> QED BY <1>2, <3>1
  <2>3. CASE msg' = [msg EXCEPT ![n] = "running"]
    <3>1. msg'[n] \notin Queuing
      BY <1>1, <2>3 DEF Queuing, Waiting
    <3> QED BY <1>2, <3>1
  <2> QED BY <1>8, <2>2, <2>3 DEF PumpPrompts
<1>9. CASE PumpFails(n) \/ TurnEnds(n) \/ TurnErrs(n) \/ TurnCloses(n)
  <2>1. msg[n] \in Pumped
    BY <1>9 DEF PumpFails, TurnEnds, TurnErrs, TurnCloses, Pumped
  <2>2. \E end \in Final : \E unusable : PumpEnds(n, end, unusable)
    BY <1>4, <1>9 DEF PumpFails, TurnEnds, TurnErrs, TurnCloses
  <2>3. msg'[n] \notin Queuing
    BY <1>3, <2>1, <2>2
  <2> QED BY <1>2, <2>3
<1> QED BY <1>5, <1>6, <1>7, <1>8, <1>9 DEF MessageStep

(* sendMidTurn takes the next ordinal; no other step takes one.            *)
LEMMA MessageStepOrder ==
    ASSUME NEW n \in Messages, MessageStep(n)
    PROVE  IF SendMidTurn(n)
           THEN acceptOrder' = acceptOrder + 1 /\ order' = [order EXCEPT ![n] = acceptOrder + 1]
           ELSE acceptOrder' = acceptOrder /\ order' = order
<1>1. CASE SendMidTurn(n)
  BY <1>1 DEF SendMidTurn
<1>2. ASSUME NEW end, NEW unusable, PumpEnds(n, end, unusable)
      PROVE  acceptOrder' = acceptOrder /\ order' = order
  BY <1>2 DEF PumpEnds
<1>3. CASE /\ ~SendMidTurn(n)
           /\ \/ SendPrompt(n) \/ Refuse(n) \/ Steered(n) \/ Attached(n) \/ NotSteered(n)
  BY <1>3 DEF SendPrompt, Refuse, Steered, Attached, NotSteered
<1>4. CASE /\ ~SendMidTurn(n)
           /\ \/ PumpPrompts(n) \/ PumpFails(n) \/ TurnEnds(n) \/ TurnErrs(n) \/ TurnCloses(n)
  BY <1>2, <1>4 DEF PumpPrompts, PumpFails, TurnEnds, TurnErrs, TurnCloses
<1> QED BY <1>1, <1>3, <1>4 DEF MessageStep

(* The steps of a message keep the queue in order.                         *)
LEMMA MessageStepOrderInv ==
    ASSUME TypeInv, OrderInv, NEW n \in Messages, MessageStep(n)
    PROVE  OrderInv'
<1>1. /\ QueueInv /\ QueueOK(msg, queue) /\ msg \in [Messages -> MessageState]
      /\ order \in [Messages -> Nat] /\ acceptOrder \in Nat
  BY DEF TypeInv, QueueInv, QueueOK, CallTypes
<1>2. Filed(msg, queue, order) /\ Stamped /\ Numbered(msg, order)
  BY DEF OrderInv
<1>3. "ended" \in Final /\ "failed" \in Final /\ "silent" \in Final
  BY DEF Final
<1>4. CASE SendMidTurn(n)
  <2>1. PICK o : o = [order EXCEPT ![n] = acceptOrder + 1]
    OBVIOUS
  <2>2. /\ o \in [Messages -> Nat] /\ o[n] = acceptOrder + 1
        /\ \A m \in Messages : m # n => o[m] = order[m]
        /\ \A m \in Messages : m # n => o[m] # o[n]
    BY <1>1, <1>2, <2>1 DEF Stamped
  <2>3. order' = o /\ acceptOrder' = acceptOrder + 1 /\ msg[n] = "new"
    BY <1>4, <2>1 DEF SendMidTurn
  <2>4. Stamped'
    BY <1>1, <1>2, <2>2, <2>3 DEF Stamped
  <2>5. Numbered(msg', o)
    BY <1>1, <1>2, <2>2, MessageStepQueuing DEF Numbered
  <2>6. Filed(msg', queue', o)
    <3>1. CASE msg' = [msg EXCEPT ![n] = "attach"] /\ queue' = queue
      <4>1. \A m \in Messages : msg'[m] = "queued" <=> msg[m] = "queued"
        BY <1>1, <2>3, <3>1
      <4>2. \A m \in Messages : msg[m] = "queued" => o[m] = order[m]
        BY <2>2, <2>3
      <4>3. Filed(msg', queue, o)
        BY <1>1, <1>2, <4>1, <4>2, FiledSame
      <4> QED BY <3>1, <4>3
    <3>2. CASE Unsteered(n, FALSE, midTurnAccepted + 1, o[n])
      <4>1. msg[n] # "queued" /\ \A m \in Messages : m # n => o[m] = order[m] /\ o[m] # o[n]
        BY <2>2, <2>3
      <4> QED BY <1>1, <1>2, <2>2, <3>2, <4>1, UnsteeredFiled
    <3> QED BY <1>4, <2>2, <3>1, <3>2 DEF SendMidTurn
  <2> QED BY <2>3, <2>4, <2>5, <2>6 DEF OrderInv
<1>5. CASE ~SendMidTurn(n)
  <2>1. order' = order /\ acceptOrder' = acceptOrder
    BY <1>5, MessageStepOrder
  <2>2. Stamped'
    BY <1>2, <2>1 DEF Stamped
  <2>3. Numbered(msg', order)
    BY <1>1, <1>2, <1>5, MessageStepQueuing DEF Numbered
  <2>4. Filed(msg', queue', order)
    <3>1. ASSUME NEW v, v # "queued", msg[n] # "queued",
                 msg' = [msg EXCEPT ![n] = v], queue' = queue
          PROVE  Filed(msg', queue', order)
      <4>1. \A m \in Messages : msg'[m] = "queued" <=> msg[m] = "queued"
        BY <1>1, <3>1
      <4> QED BY <1>1, <1>2, <3>1, <4>1, FiledSame
    <3>2. CASE SendPrompt(n) \/ Refuse(n) \/ Steered(n)
      BY <3>1, <3>2 DEF SendPrompt, ArmTurn, Refuse, Steered
    <3>3. CASE Attached(n) \/ NotSteered(n)
      <4>1. msg[n] \in Waiting /\ msg[n] # "queued"
        BY <3>3 DEF Attached, NotSteered, Waiting
      <4>2. CASE \E pr : Unsteered(n, pr, midTurnAccepted, order[n])
        <5>1. order[n] > 0
          BY <1>2, <4>1 DEF Numbered, Queuing
        <5>2. \A m \in Messages : m # n => order[m] = order[m] /\ order[m] # order[n]
          BY <1>2, <5>1 DEF Stamped
        <5> QED BY <1>1, <1>2, <4>1, <4>2, <5>2, UnsteeredFiled
      <4>3. CASE msg' = [msg EXCEPT ![n] = "steer"] /\ queue' = queue
        BY <3>1, <4>1, <4>3
      <4> QED BY <3>3, <4>2, <4>3 DEF Attached, NotSteered
    <3>4. ASSUME msg[n] \in Pumped, NEW end \in Final, \E unusable : PumpEnds(n, end, unusable)
          PROVE  Filed(msg', queue', order)
      <4>1. msg[n] # "queued"
        BY <3>4 DEF Pumped
      <4> QED BY <1>1, <1>2, <3>4, <4>1, PumpEndsFiled
    <3>5. CASE PumpPrompts(n)
      <4>1. msg[n] \in Pumped /\ msg[n] # "queued"
        BY <3>5 DEF PumpPrompts, Pumped
      <4>2. \/ PumpEnds(n, "ended", FALSE)
            \/ msg' = [msg EXCEPT ![n] = "running"] /\ queue' = queue
        BY <3>5 DEF PumpPrompts
      <4> QED BY <1>3, <3>1, <3>4, <4>1, <4>2
    <3>6. CASE PumpFails(n) \/ TurnEnds(n) \/ TurnErrs(n) \/ TurnCloses(n)
      <4>1. msg[n] \in Pumped
        BY <3>6 DEF PumpFails, TurnEnds, TurnErrs, TurnCloses, Pumped
      <4>2. \E end \in Final : \E unusable : PumpEnds(n, end, unusable)
        BY <1>3, <3>6 DEF PumpFails, TurnEnds, TurnErrs, TurnCloses
      <4> QED BY <3>4, <4>1, <4>2
    <3> QED BY <1>5, <3>2, <3>3, <3>5, <3>6 DEF MessageStep
  <2> QED BY <2>1, <2>2, <2>3, <2>4 DEF OrderInv
<1> QED BY <1>4, <1>5

(* Nothing is queued to begin with, ... *)
LEMMA InitOrderInv == Init => OrderInv
<1> SUFFICES ASSUME Init PROVE OrderInv
  OBVIOUS
<1>1. /\ msg = [m \in Messages |-> "new"] /\ order = [m \in Messages |-> 0]
      /\ queue = <<>> /\ acceptOrder = 0
  BY DEF Init
<1>2. Stamped
  BY <1>1 DEF Stamped
<1>3. Numbered(msg, order)
  BY <1>1 DEF Numbered, Queuing, Waiting
<1>4. Filed(msg, queue, order)
  BY <1>1 DEF Filed
<1> QED BY <1>2, <1>3, <1>4 DEF OrderInv

(* ... and every step keeps the queue in order.                            *)
LEMMA NextOrderInv == ASSUME TypeInv, OrderInv, [Next]_vars PROVE OrderInv'
<1>1. /\ QueueOK(msg, queue) /\ msg \in [Messages -> MessageState]
      /\ Filed(msg, queue, order) /\ Stamped /\ Numbered(msg, order)
  BY DEF TypeInv, QueueInv, QueueOK, OrderInv
<1>2. ASSUME order' = order, acceptOrder' = acceptOrder, Filed(msg', queue', order),
             \A m \in Messages : msg'[m] \in Queuing => msg[m] \in Queuing
      PROVE  OrderInv'
  <2>1. Stamped' /\ Numbered(msg', order)
    BY <1>1, <1>2 DEF Stamped, Numbered
  <2> QED BY <1>2, <2>1 DEF OrderInv
<1>3. CASE UNCHANGED <<order, acceptOrder, msg, queue>>
  BY <1>1, <1>2, <1>3
<1>4. ASSUME order' = order, acceptOrder' = acceptOrder, DropQueued
      PROVE  OrderInv'
  <2>1. Filed(msg', queue', order)
    BY <1>1, <1>4, DropQueuedFiled
  <2>2. \A m \in Messages : msg'[m] \in Queuing => msg[m] \in Queuing
    BY <1>4 DEF DropQueued, Queuing, Waiting
  <2> QED BY <1>2, <1>4, <2>1, <2>2
<1>5. ASSUME order' = order, acceptOrder' = acceptOrder, queue # <<>>,
             ArmTurn(msg, Head(queue)), queue' = Tail(queue)
      PROVE  OrderInv'
  <2>1. Filed(msg', queue', order)
    BY <1>1, <1>5, ArmHeadFiled
  <2>2. \A m \in Messages : msg'[m] \in Queuing => msg[m] \in Queuing
    BY <1>1, <1>5 DEF ArmTurn, Queuing, Waiting
  <2> QED BY <1>2, <1>5, <2>1, <2>2
<1>6. CASE \E m \in Messages : MessageStep(m)
  BY <1>6, MessageStepOrderInv
<1>7. CASE ClearEnds \/ RestartEnds
  <2>1. order' = order /\ acceptOrder' = acceptOrder
    BY <1>7 DEF ClearEnds, RestartEnds
  <2>2. \/ queue # <<>> /\ ArmTurn(msg, Head(queue)) /\ queue' = Tail(queue)
        \/ DropQueued
        \/ UNCHANGED <<msg, queue>>
    BY <1>7 DEF ClearEnds, RestartEnds, DeliverOnExit
  <2> QED BY <1>3, <1>4, <1>5, <2>1, <2>2
<1>8. CASE StopSweeps
  BY <1>3, <1>4, <1>8 DEF StopSweeps
<1>9. CASE \/ \E a \in Asks : Raise(a) \/ Settle(a)
           \/ IdleAuthFails \/ CancelTurn \/ CancelSent \/ ClearContext
           \/ Stop \/ StopDisposes \/ StopEnds
           \/ Arm \/ LaunchSucceeds \/ LaunchFails \/ RestartAgent
  BY <1>3, <1>9 DEF Raise, Settle, IdleAuthFails, CancelTurn, CancelSent, ClearContext,
     Stop, StopDisposes, StopEnds, Arm, LaunchSucceeds, LaunchFails, RestartAgent, msgVars
<1>10. CASE UNCHANGED vars
  BY <1>3, <1>10 DEF vars, msgVars
<1> QED BY <1>6, <1>7, <1>8, <1>9, <1>10 DEF Next

(* It is in order in every behaviour.                                      *)
LEMMA OrderInvHolds == Spec => [](TypeInv /\ OrderInv)
<1>1. Init => TypeInv /\ OrderInv
  BY InitTypeInv, InitOrderInv
<1>2. TypeInv /\ OrderInv /\ [Next]_vars => (TypeInv /\ OrderInv)'
  BY NextTypeInv, NextOrderInv
<1> QED BY <1>1, <1>2, PTL DEF Spec

(* However the awaits of concurrent sends interleave, queuedPrompts holds  *)
(* the queued messages, each once, in the order sendMidTurn accepted them. *)
THEOREM QueueIsInAcceptOrder == Spec => []QueueInAcceptOrder
<1>1. ASSUME TypeInv, OrderInv PROVE QueueInAcceptOrder
  <2>1. QueueOK(msg, queue) /\ Filed(msg, queue, order) /\ DOMAIN queue = 1 .. Len(queue)
    BY <1>1 DEF TypeInv, QueueInv, OrderInv, QueueOK
  <2>2. Elements(queue) = {m \in Messages : msg[m] = "queued"}
    BY <2>1 DEF Elements, QueueOK, Filed
  <2>3. \A i, j \in DOMAIN queue : i < j => order[queue[i]] < order[queue[j]]
    BY <2>1 DEF Filed
  <2> QED BY <2>2, <2>3 DEF QueueInAcceptOrder
<1> QED BY <1>1, OrderInvHolds, PTL

-----------------------------------------------------------------------------
(* Who asks for what is queued.  NoStrandedQueue is not inductive by       *)
(* itself: that a stop which does not drop the queue is a restart's, that  *)
(* a launch with messages queued is a restart's too, and that a launch     *)
(* finds no pump and no send of the agent before it still under way are    *)
(* what hands the queue from one path to the next.                         *)
QuietInv ==
    /\ launching => /\ restart \in {"none", "resume"}
                    /\ \A m \in Messages : msg[m] \notin Waiting \cup Pumped
    /\ restart = "resume" => launching
    /\ session = 0 => launching \/ terminal
    /\ comingBack /\ stopping # "none" => restart = "stop"

StrandInv ==
    /\ queue # <<>> /\ ~Live => \/ restart = "stop"
                                \/ stopping = "await" /\ ~comingBack
                                \/ restart = "failed" /\ session = 0
    /\ queue # <<>> /\ launching => restart = "resume"
    /\ NoStrandedQueue

(* While an agent is started, messages are refused and nothing else.       *)
LEMMA LaunchRefuses ==
    ASSUME OpenInv, QuietInv, launching, NEW n \in Messages, MessageStep(n)
    PROVE  Refuse(n)
<1>1. msg[n] \notin Waiting \cup Pumped /\ ~Ready
  BY DEF OpenInv, QuietInv, Ready
<1> QED BY <1>1 DEF MessageStep, SendPrompt, SendMidTurn, Attached, Steered, NotSteered,
        PumpPrompts, PumpFails, TurnEnds, TurnErrs, TurnCloses, Waiting, Pumped

(* It is so to begin with, ... *)
LEMMA InitQuietInv == Init => QuietInv
BY DEF Init, QuietInv

(* ... and after every step, if attachments are read by the time the next  *)
(* agent is started.                                                       *)
LEMMA NextQuietInv ==
    ASSUME "reads" \notin Slow, TypeInv, OpenInv, QuietInv, [Next]_vars
    PROVE  QuietInv'
<1>0. /\ msg \in [Messages -> MessageState] /\ lastSession \in Nat /\ lastSession + 1 # 0
      /\ 0 \notin Sessions /\ open \subseteq Sessions
  BY DEF TypeInv, QueueInv, QueueOK, AgentTypes, Sessions
<1>1. CASE ~launching /\ UNCHANGED <<session, launching, terminal, stopping, comingBack, restart>>
  BY <1>1 DEF QuietInv
<1>2. CASE UNCHANGED <<session, launching, terminal, stopping, comingBack, restart, msg>>
  BY <1>2 DEF QuietInv
<1>3. CASE /\ ~launching /\ UNCHANGED <<session, launching, terminal>>
           /\ restart' = "stop" /\ stopping' = "await"
  BY <1>3 DEF QuietInv
<1>4. ASSUME NEW n \in Messages, MessageStep(n) PROVE QuietInv'
  <2>1. CASE launching
    <3>1. Refuse(n)
      BY <1>4, <2>1, LaunchRefuses
    <3>2. \A m \in Messages : msg'[m] \in {msg[m], "refused"}
      BY <1>0, <3>1 DEF Refuse
    <3>3. UNCHANGED <<session, launching, terminal, stopping, comingBack, restart>>
      BY <3>1 DEF Refuse, agentVars
    <3> QED BY <3>2, <3>3 DEF QuietInv, Waiting, Pumped
  <2>2. CASE ~launching
    BY <1>1, <1>3, <1>4, <2>2, MessageStepAgent
  <2> QED BY <2>1, <2>2
<1>5. CASE \/ \E a \in Asks : Raise(a) \/ Settle(a)
           \/ CancelTurn \/ CancelSent \/ ClearContext
  BY <1>2, <1>5 DEF Raise, Settle, CancelTurn, CancelSent, ClearContext, agentVars, msgVars
<1>6. CASE IdleAuthFails \/ RestartAgent
  <2>1. ~launching
    BY <1>0, <1>6 DEF IdleAuthFails, RestartAgent, Ready, OpenInv
  <2> QED BY <1>3, <1>6, <2>1 DEF IdleAuthFails, RestartAgent, RestartBegins, StopBegins
<1>7. CASE ClearEnds
  <2>1. launching => msg' = msg
    BY <1>7 DEF ClearEnds, DeliverOnExit, OpenInv
  <2> QED BY <1>1, <1>2, <1>7, <2>1 DEF ClearEnds
<1>8. CASE RestartEnds
  BY <1>8 DEF RestartEnds, QuietInv
<1>9. CASE Stop
  BY <1>9 DEF Stop, StopBegins, msgVars, QuietInv
<1>10. CASE StopSweeps \/ StopDisposes \/ StopEnds
  BY <1>10 DEF StopSweeps, StopDisposes, StopEnds, msgVars, OpenInv, QuietInv
<1>11. CASE Arm
  <2>1. open = {}
    BY <1>11 DEF Arm, OpenInv
  <2>2. \A m \in Messages : msg[m] \notin Waiting \cup Pumped
    BY <1>11, <2>1 DEF Arm, Settled, Waiting, Pumped
  <2> QED BY <1>11, <2>2 DEF Arm, msgVars, QuietInv
<1>12. CASE LaunchSucceeds \/ LaunchFails
  BY <1>0, <1>12 DEF LaunchSucceeds, LaunchFails, RestartAfter, QuietInv
<1>13. CASE UNCHANGED vars
  BY <1>2, <1>13 DEF vars, agentVars, msgVars
<1> QED BY <1>4, <1>5, <1>6, <1>7, <1>8, <1>9, <1>10, <1>11, <1>12, <1>13 DEF Next

(* With no turn running, deliverQueued leaves messages queued only where a *)
(* clear, a restart or the stop that drops them is under way.              *)
LEMMA DeliverQueuedUnstrands ==
    ASSUME NEW ms, NEW q, QueueOK(ms, q), DeliverQueued(ms, q), queue' # <<>>,
           QuietInv, ~launching, StrandInv, Live \/ q = queue
    PROVE  turn' # NoTurn \/ clearing \/ restarting \/ (stopping = "await" /\ ~comingBack)
<1>1. CASE q # <<>> /\ Ready
  <2>1. turn' = Head(q) /\ Head(q) \in Messages
    BY <1>1 DEF DeliverQueued, ArmTurn, QueueOK
  <2> QED BY <2>1, NoTurnIsNoMessage
<1>2. CASE ~(q # <<>> /\ Ready)
  <2>1. q # <<>> /\ ~Ready
    BY <1>2 DEF DeliverQueued
  <2>2. CASE ~Live
    BY <2>1, <2>2 DEF StrandInv, restarting
  <2>3. CASE Live
    BY <2>1, <2>3 DEF Ready, Live, QuietInv
  <2> QED BY <2>2, <2>3
<1> QED BY <1>1, <1>2

(* So the steps of a message strand none.                                  *)
LEMMA MessageStepStrands ==
    ASSUME QueueInv, OpenInv, QuietInv, StrandInv, NEW n \in Messages, MessageStep(n)
    PROVE  StrandInv'
<1>1. QueueOK(msg, queue) /\ One(msg, turn)
  BY DEF QueueInv
<1>2. CASE launching
  <2>1. Refuse(n)
    BY <1>2, LaunchRefuses
  <2> QED BY <2>1 DEF Refuse, agentVars, turnVars, StrandInv, NoStrandedQueue, Live, restarting
<1>3. CASE ~launching
  <2>1. ASSUME UNCHANGED <<session, launching, terminal, stopRequested, stopping, comingBack,
                           restart, clearing>>,
               queue' # <<>> /\ ~Live => queue' = queue,
               queue' # <<>> => \/ turn' # NoTurn \/ clearing \/ restarting
                                \/ stopping = "await" /\ ~comingBack
        PROVE  StrandInv'
    BY <1>3, <2>1 DEF StrandInv, NoStrandedQueue, Live, restarting
  <2>2. ASSUME UNCHANGED <<agentVars, turnVars, queue>> PROVE StrandInv'
    BY <2>2 DEF agentVars, turnVars, StrandInv, NoStrandedQueue, Live, restarting
  <2>3. ASSUME NEW ms, NEW q, QueueOK(ms, q), DeliverQueued(ms, q), Live \/ q = queue
        PROVE  /\ queue' # <<>> /\ ~Live => queue' = queue
               /\ queue' # <<>> => \/ turn' # NoTurn \/ clearing \/ restarting
                                   \/ stopping = "await" /\ ~comingBack
    <3>1. queue' # <<>> /\ ~Live => queue' = queue
      BY <2>3 DEF DeliverQueued, Ready
    <3> QED BY <1>3, <2>3, <3>1, DeliverQueuedUnstrands
  <2>4. ASSUME NEW pr, NEW taken, NEW ord, msg[n] # "queued", Unsteered(n, pr, taken, ord)
        PROVE  StrandInv'
    <3>1. UNCHANGED <<session, launching, terminal, stopRequested, stopping, comingBack,
                      restart, clearing>>
      BY <2>4 DEF Unsteered
    <3>2. CASE UNCHANGED <<turn, queue>>
      BY <2>1, <3>1, <3>2 DEF StrandInv, NoStrandedQueue
    <3>3. CASE ArmTurn(msg, n) /\ OwnTurn(pr)
      BY <2>1, <3>1, <3>3, NoTurnIsNoMessage DEF ArmTurn, OwnTurn, Ready
    <3>4. CASE Live /\ turn = NoTurn /\ DeliverQueued([msg EXCEPT ![n] = "queued"], Placed(n, ord))
      <4>1. QueueOK([msg EXCEPT ![n] = "queued"], Placed(n, ord))
        BY <1>1, <2>4, PlacedOK
      <4>2. /\ queue' # <<>> /\ ~Live => queue' = queue
            /\ queue' # <<>> => \/ turn' # NoTurn \/ clearing \/ restarting
                                \/ stopping = "await" /\ ~comingBack
        BY <2>3, <3>4, <4>1
      <4> QED BY <2>1, <3>1, <4>2
    <3>5. CASE Live /\ turn # NoTurn /\ turn' = turn
      BY <2>1, <3>1, <3>5
    <3> QED BY <2>4, <3>2, <3>3, <3>4, <3>5 DEF Unsteered
  <2>5. ASSUME NEW end \in Final, NEW unusable, msg[n] \in Pumped, PumpEnds(n, end, unusable)
        PROVE  StrandInv'
    <3>1. turn = n /\ msg[n] # "queued"
      BY <1>1, <2>5 DEF One, Pumped
    <3>2. CASE unusable /\ Replaces
      <4>1. /\ restart' = "stop" /\ launching' = launching
            /\ stopping' = "await" /\ stopRequested' = TRUE
        BY <2>5, <3>2 DEF PumpEnds, RestartBegins, StopBegins
      <4> QED BY <1>3, <4>1 DEF StrandInv, NoStrandedQueue, restarting
    <3>3. CASE ~(unusable /\ Replaces)
      <4>1. UNCHANGED <<session, launching, terminal, stopRequested, stopping, comingBack,
                        restart, clearing>>
        BY <2>5, <3>3 DEF PumpEnds
      <4>2. QueueOK([msg EXCEPT ![n] = end], queue)
        <5>1. end \in MessageState
          BY DEF Final, MessageState
        <5> QED BY <1>1, <3>1, <5>1, OneChanges
      <4>3. DeliverQueued([msg EXCEPT ![n] = end], queue)
        BY <2>5, <3>1, <3>3 DEF PumpEnds
      <4>4. /\ queue' # <<>> /\ ~Live => queue' = queue
            /\ queue' # <<>> => \/ turn' # NoTurn \/ clearing \/ restarting
                                \/ stopping = "await" /\ ~comingBack
        BY <2>3, <4>2, <4>3
      <4> QED BY <2>1, <4>1, <4>4
    <3> QED BY <3>2, <3>3
  <2>6. "ended" \in Final /\ "failed" \in Final /\ "silent" \in Final
    BY DEF Final
  <2>7. CASE SendPrompt(n)
    BY <2>1, <2>7, NoTurnIsNoMessage DEF SendPrompt, ArmTurn, Ready
  <2>8. CASE Refuse(n) \/ Steered(n)
    BY <2>2, <2>8 DEF Refuse, Steered
  <2>9. CASE SendMidTurn(n) \/ Attached(n) \/ NotSteered(n)
    <3>1. msg[n] # "queued"
      BY <2>9 DEF SendMidTurn, Attached, NotSteered
    <3>2. \/ UNCHANGED <<agentVars, turnVars, queue>>
          \/ \E pr, taken, ord : Unsteered(n, pr, taken, ord)
      BY <2>9 DEF SendMidTurn, Attached, NotSteered
    <3> QED BY <2>2, <2>4, <3>1, <3>2
  <2>10. CASE PumpPrompts(n)
    <3>1. msg[n] \in Pumped
      BY <2>10 DEF PumpPrompts, Pumped
    <3>2. UNCHANGED <<agentVars, turnVars, queue>> \/ PumpEnds(n, "ended", FALSE)
      BY <2>10 DEF PumpPrompts
    <3> QED BY <2>2, <2>5, <2>6, <3>1, <3>2
  <2>11. CASE PumpFails(n) \/ TurnEnds(n) \/ TurnErrs(n) \/ TurnCloses(n)
    <3>1. msg[n] \in Pumped
      BY <2>11 DEF PumpFails, TurnEnds, TurnErrs, TurnCloses, Pumped
    <3>2. \E end \in Final, unusable \in BOOLEAN : PumpEnds(n, end, unusable)
      BY <2>6, <2>11 DEF PumpFails, TurnEnds, TurnErrs, TurnCloses
    <3> QED BY <2>5, <3>1, <3>2
  <2> QED BY <2>7, <2>8, <2>9, <2>10, <2>11 DEF MessageStep
<1> QED BY <1>2, <1>3

(* Nothing is queued to begin with, ... *)
LEMMA InitStrandInv == Init => StrandInv
BY DEF Init, StrandInv, NoStrandedQueue

(* ... and no step strands what is: what ends a turn, a clear or a restart *)
(* delivers the next, leaves it to another of them, or drops them all.     *)
LEMMA NextStrandInv ==
    ASSUME TypeInv, OpenInv, QuietInv, StrandInv, [Next]_vars
    PROVE  StrandInv'
<1>0. QueueInv /\ QueueOK(msg, queue) /\ open \subseteq Sessions /\ 0 \notin Sessions
  BY DEF TypeInv, QueueInv, AgentTypes, Sessions
<1>1. ASSUME UNCHANGED <<session, launching, terminal, stopRequested, stopping, comingBack,
                         restart, queue>>,
             turn' = turn, clearing => clearing'
      PROVE  StrandInv'
  BY <1>1 DEF StrandInv, NoStrandedQueue, Live, restarting
<1>2. ASSUME restart' = "stop", ~launching, launching' = launching
      PROVE  StrandInv'
  BY <1>2 DEF StrandInv, NoStrandedQueue, restarting
<1>3. ASSUME queue' = <<>> PROVE StrandInv'
  BY <1>3 DEF StrandInv, NoStrandedQueue
<1>4. ASSUME queue # <<>>, Live, session # 0, ArmTurn(msg, Head(queue)),
             UNCHANGED <<session, launching, terminal, stopRequested>>
      PROVE  StrandInv'
  <2>1. turn' # NoTurn
    BY <1>0, <1>4, NoTurnIsNoMessage DEF ArmTurn, QueueOK
  <2>2. ~launching /\ Live'
    BY <1>4 DEF Live, OpenInv
  <2> QED BY <1>4, <2>1, <2>2 DEF StrandInv, NoStrandedQueue
<1>5. CASE \E m \in Messages : MessageStep(m)
  BY <1>0, <1>5, MessageStepStrands
<1>6. CASE \/ \E a \in Asks : Raise(a) \/ Settle(a)
           \/ CancelTurn \/ CancelSent
  BY <1>1, <1>6 DEF Raise, Settle, CancelTurn, CancelSent, agentVars, turnVars, msgVars
<1>7. CASE ClearContext
  BY <1>1, <1>7 DEF ClearContext, turnVars, msgVars
<1>8. CASE IdleAuthFails \/ RestartAgent
  <2>1. ~launching
    BY <1>0, <1>8 DEF IdleAuthFails, RestartAgent, Ready, OpenInv
  <2> QED BY <1>2, <1>8, <2>1 DEF IdleAuthFails, RestartAgent, RestartBegins
<1>9. CASE ClearEnds
  <2>1. UNCHANGED <<session, launching, terminal, stopRequested, stopping, comingBack, restart>>
    BY <1>9 DEF ClearEnds
  <2>2. CASE /\ turn = NoTurn /\ queue # <<>> /\ Live /\ session # 0 /\ ~restarting
    BY <1>4, <1>9, <2>1, <2>2 DEF ClearEnds, DeliverOnExit
  <2>3. CASE ~(turn = NoTurn /\ queue # <<>> /\ Live /\ session # 0 /\ ~restarting)
    <3>1. queue' = queue /\ turn' = turn
      BY <1>9, <2>3 DEF ClearEnds, DeliverOnExit
    <3>2. queue # <<>> => \/ turn # NoTurn \/ restarting
                          \/ stopping = "await" /\ ~comingBack
      <4>1. CASE ~Live
        BY <4>1 DEF StrandInv, restarting
      <4>2. CASE Live /\ session = 0
        BY <4>2 DEF StrandInv, restarting, Live, QuietInv
      <4> QED BY <2>3, <4>1, <4>2
    <3> QED BY <2>1, <3>1, <3>2 DEF StrandInv, NoStrandedQueue, Live, restarting
  <2> QED BY <2>2, <2>3
<1>10. CASE RestartEnds
  <2>1. /\ UNCHANGED <<session, launching, terminal, stopRequested, stopping, comingBack, clearing>>
        /\ restart \in {"restore", "failed"} /\ restart' = "none"
    BY <1>10 DEF RestartEnds
  <2>2. CASE /\ turn = NoTurn /\ queue # <<>> /\ Live /\ session # 0 /\ ~clearing
    BY <1>4, <1>10, <2>1, <2>2 DEF RestartEnds, DeliverOnExit
  <2>3. CASE ~(turn = NoTurn /\ queue # <<>> /\ Live /\ session # 0 /\ ~clearing)
    <3>1. turn' = turn /\ IF session = 0 THEN queue' = <<>> ELSE queue' = queue
      BY <1>10, <2>3 DEF RestartEnds, DeliverOnExit, DropQueued
    <3>2. CASE session = 0
      BY <1>3, <3>1, <3>2
    <3>3. CASE session # 0
      <4>1. queue # <<>> => /\ ~launching
                            /\ ~Live => stopping = "await" /\ ~comingBack
                            /\ turn # NoTurn \/ clearing \/ ~Live
        BY <2>1, <2>3, <3>3 DEF StrandInv
      <4> QED BY <2>1, <3>1, <3>3, <4>1 DEF StrandInv, NoStrandedQueue, Live
    <3> QED BY <3>2, <3>3
  <2> QED BY <2>2, <2>3
<1>11. CASE Stop
  BY <1>11 DEF Stop, StopBegins, msgVars, StrandInv, NoStrandedQueue
<1>12. CASE StopSweeps
  <2>1. CASE comingBack
    <3>1. restart = "stop" /\ queue' = queue /\ restart' = restart /\ launching' = launching /\ ~launching
      BY <1>12, <2>1 DEF StopSweeps, QuietInv
    <3> QED BY <1>2, <3>1
  <2>2. CASE ~comingBack
    BY <1>3, <1>12, <2>2 DEF StopSweeps, DropQueued
  <2> QED BY <2>1, <2>2
<1>13. CASE StopDisposes \/ StopEnds
  <2>1. stopping \in {"dispose", "kill"} /\ ~Live
    BY <1>13 DEF StopDisposes, StopEnds, OpenInv, Live
  <2>2. queue # <<>> => restart = "stop" \/ (restart = "failed" /\ session = 0)
    BY <2>1 DEF StrandInv
  <2>3. /\ UNCHANGED <<session, launching, stopRequested, restart, clearing, queue, turn>>
    BY <1>13 DEF StopDisposes, StopEnds, turnVars, msgVars
  <2> QED BY <2>2, <2>3 DEF StrandInv, NoStrandedQueue, restarting
<1>14. CASE Arm
  <2>1. /\ terminal /\ stopping = "none" /\ restart \in {"none", "stop"} /\ queue' = queue
        /\ terminal' = FALSE /\ stopRequested' = FALSE
        /\ restart' = IF restart = "stop" THEN "resume" ELSE restart
    BY <1>14 DEF Arm, msgVars
  <2>2. queue # <<>> => restart = "stop"
    BY <2>1 DEF StrandInv, Live
  <2>3. Live'
    BY <2>1 DEF Live
  <2> QED BY <2>1, <2>2, <2>3 DEF StrandInv, NoStrandedQueue, restarting
<1>15. CASE LaunchSucceeds
  <2>1. /\ launching /\ launching' = FALSE /\ queue' = queue /\ turn' = turn
        /\ UNCHANGED <<terminal, stopRequested, stopping, comingBack, clearing>>
        /\ restart' = IF restart = "resume" THEN "restore" ELSE restart
    BY <1>15 DEF LaunchSucceeds, RestartAfter, turnVars, msgVars
  <2>2. restart \in {"none", "resume"}
    BY <2>1 DEF QuietInv
  <2>3. queue # <<>> => restart = "resume" /\ (~Live => stopping = "await" /\ ~comingBack)
    BY <2>1, <2>2 DEF StrandInv
  <2> QED BY <2>1, <2>3 DEF StrandInv, NoStrandedQueue, Live, restarting
<1>16. CASE LaunchFails
  <2>1. /\ launching /\ launching' = FALSE /\ queue' = queue /\ session' = session /\ session = 0
        /\ restart' = IF restart = "resume" THEN "failed" ELSE restart
    BY <1>16 DEF LaunchFails, RestartAfter, msgVars, OpenInv
  <2>2. queue # <<>> => restart = "resume"
    BY <2>1 DEF StrandInv
  <2> QED BY <2>1, <2>2 DEF StrandInv, NoStrandedQueue, restarting
<1>17. CASE UNCHANGED vars
  BY <1>1, <1>17 DEF vars, agentVars, turnVars, msgVars
<1> QED BY <1>5, <1>6, <1>7, <1>8, <1>9, <1>10, <1>11, <1>12, <1>13, <1>14, <1>15,
           <1>16, <1>17 DEF Next

(* They hold in every behaviour, if attachments are read in time.          *)
LEMMA StrandInvHolds ==
    ASSUME "reads" \notin Slow
    PROVE  Spec => [](TypeInv /\ OpenInv /\ QuietInv /\ StrandInv)
<1>1. Init => TypeInv /\ OpenInv /\ QuietInv /\ StrandInv
  BY InitTypeInv, InitOpenInv, InitQuietInv, InitStrandInv
<1>2. TypeInv /\ OpenInv /\ QuietInv /\ StrandInv /\ [Next]_vars
      => (TypeInv /\ OpenInv /\ QuietInv /\ StrandInv)'
  BY NextTypeInv, NextOpenInv, NextQuietInv, NextStrandInv
<1> QED BY <1>1, <1>2, PTL DEF Spec

(* As the comment of deliverQueued has it, every path out of what holds    *)
(* the queue back asks again, if a read of attachments does not outlast a  *)
(* stop and the arming of the next agent.                                  *)
THEOREM NoQueueIsStranded ==
    ASSUME "reads" \notin Slow
    PROVE  Spec => []NoStrandedQueue
<1>1. StrandInv => NoStrandedQueue
  BY DEF StrandInv
<1> QED BY <1>1, StrandInvHolds, PTL

-----------------------------------------------------------------------------
(* What agents were told.  A message that reached one never gets back into *)
(* a state it is sent from.                                                *)
Heard == {"running", "ended", "failed", "silent", "steered"}

ToldInv ==
    /\ \A i, j \in 1 .. Len(told) : told[i] = told[j] => i = j
    /\ \A i \in 1 .. Len(told) : msg[told[i]] \in Heard

(* An agent is told a message that it has not heard, and hears it, if none *)
(* takes a message after its steer has timed out.                          *)
LEMMA MessageStepTold ==
    ASSUME "steers" \notin Slow, QueueInv, NEW n \in Messages, MessageStep(n)
    PROVE  \/ told' = told
           \/ told' = Append(told, n) /\ msg[n] \notin Heard /\ msg'[n] \in Heard
<1>1. msg \in [Messages -> MessageState]
  BY DEF QueueInv, QueueOK
<1>2. CASE Steered(n)
  BY <1>1, <1>2 DEF Steered, Heard
<1>3. CASE PumpPrompts(n)
  BY <1>1, <1>3 DEF PumpPrompts, Heard
<1>4. CASE SendPrompt(n) \/ SendMidTurn(n) \/ Refuse(n) \/ Attached(n) \/ NotSteered(n)
  BY <1>4 DEF SendPrompt, SendMidTurn, Refuse, Attached, NotSteered
<1>5. CASE PumpFails(n) \/ TurnEnds(n) \/ TurnErrs(n) \/ TurnCloses(n)
  BY <1>5 DEF PumpFails, TurnEnds, TurnErrs, TurnCloses
<1> QED BY <1>2, <1>3, <1>4, <1>5 DEF MessageStep

(* A message that was heard stays so in every step.                        *)
LEMMA HeardStays ==
    ASSUME QueueInv, [Next]_vars, NEW m \in Messages, msg[m] \in Heard
    PROVE  msg'[m] \in Heard
<1>1. msg[m] # "queued" /\ QueueOK(msg, queue) /\ DOMAIN queue = 1 .. Len(queue)
  BY DEF Heard, QueueInv, QueueOK
<1>2. ASSUME NEW n \in Messages, MessageStep(n)
      PROVE  msg'[m] \in Heard
  BY <1>1, <1>2, MessageMoves DEF Heard, Waiting, Pumped
<1>3. CASE msg' = msg
  BY <1>3
<1>4. CASE DropQueued
  BY <1>1, <1>4 DEF DropQueued, QueueOK
<1>5. CASE queue # <<>> /\ ArmTurn(msg, Head(queue))
  <2>1. Head(queue) = queue[1] /\ 1 \in 1 .. Len(queue)
    BY <1>1, <1>5 DEF QueueOK
  <2>2. Head(queue) # m
    BY <1>1, <2>1 DEF QueueOK
  <2> QED BY <1>1, <1>5, <2>2 DEF ArmTurn, QueueOK
<1>6. CASE ClearEnds \/ RestartEnds \/ StopSweeps
  BY <1>3, <1>4, <1>5, <1>6 DEF ClearEnds, RestartEnds, StopSweeps, DeliverOnExit
<1>7. CASE \/ \E a \in Asks : Raise(a) \/ Settle(a)
           \/ IdleAuthFails \/ CancelTurn \/ CancelSent \/ ClearContext
           \/ Stop \/ StopDisposes \/ StopEnds
           \/ Arm \/ LaunchSucceeds \/ LaunchFails \/ RestartAgent
  BY <1>3, <1>7 DEF Raise, Settle, IdleAuthFails, CancelTurn, CancelSent, ClearContext,
     Stop, StopDisposes, StopEnds, Arm, LaunchSucceeds, LaunchFails, RestartAgent, msgVars
<1>8. CASE UNCHANGED vars
  BY <1>3, <1>8 DEF vars, msgVars
<1> QED BY <1>2, <1>6, <1>7, <1>8 DEF Next

(* No agent was told anything to begin with, ... *)
LEMMA InitToldInv == Init => ToldInv
BY DEF Init, ToldInv

(* ... and none is told a message twice.                                   *)
LEMMA NextToldInv ==
    ASSUME "steers" \notin Slow, TypeInv, ToldInv, [Next]_vars
    PROVE  ToldInv'
<1>1. QueueInv /\ told \in Seq(Messages)
  BY DEF TypeInv, CallTypes
<1>2. \A i \in 1 .. Len(told) : told[i] \in Messages /\ msg[told[i]] \in Heard /\ msg'[told[i]] \in Heard
  BY <1>1, HeardStays DEF ToldInv
<1>3. CASE told' = told
  BY <1>2, <1>3 DEF ToldInv
<1>4. ASSUME NEW n \in Messages, told' = Append(told, n), msg[n] \notin Heard, msg'[n] \in Heard
      PROVE  ToldInv'
  <2>1. /\ Len(told) \in Nat /\ Len(told') = Len(told) + 1
        /\ \A i \in 1 .. Len(told) : told'[i] = told[i]
        /\ told'[Len(told) + 1] = n
    BY <1>1, <1>4
  <2>2. \A i \in 1 .. Len(told) : told[i] # n
    BY <1>2, <1>4
  <2>3. \A i \in 1 .. Len(told') : i \in 1 .. Len(told) \/ i = Len(told) + 1
    BY <2>1
  <2>4. \A i \in 1 .. Len(told') : msg'[told'[i]] \in Heard
    BY <1>2, <1>4, <2>1, <2>3
  <2>5. \A i, j \in 1 .. Len(told') : told'[i] = told'[j] => i = j
    BY <2>1, <2>2, <2>3 DEF ToldInv
  <2> QED BY <2>4, <2>5 DEF ToldInv
<1>5. CASE \E n \in Messages : MessageStep(n)
  BY <1>1, <1>3, <1>4, <1>5, MessageStepTold
<1>6. CASE \/ \E a \in Asks : Raise(a) \/ Settle(a)
           \/ IdleAuthFails \/ CancelTurn \/ CancelSent \/ ClearContext \/ ClearEnds
           \/ Stop \/ StopSweeps \/ StopDisposes \/ StopEnds
           \/ Arm \/ LaunchSucceeds \/ LaunchFails \/ RestartAgent \/ RestartEnds
  BY <1>3, <1>6 DEF Raise, Settle, IdleAuthFails, CancelTurn, CancelSent, ClearContext,
     ClearEnds, Stop, StopSweeps, StopDisposes, StopEnds, Arm, LaunchSucceeds, LaunchFails,
     RestartAgent, RestartEnds
<1>7. CASE UNCHANGED vars
  BY <1>3, <1>7 DEF vars
<1> QED BY <1>5, <1>6, <1>7 DEF Next

(* No message reaches an agent twice, steered, queued or both, and one     *)
(* that still waits has reached none, if no steer is taken after its       *)
(* timeout (the exception session.ts names).                               *)
THEOREM EachMessageIsToldOnce ==
    ASSUME "steers" \notin Slow
    PROVE  Spec => []ToldOnce
<1>1. Init => TypeInv /\ ToldInv
  BY InitTypeInv, InitToldInv
<1>2. TypeInv /\ ToldInv /\ [Next]_vars => (TypeInv /\ ToldInv)'
  BY NextTypeInv, NextToldInv
<1>3. ASSUME TypeInv, ToldInv PROVE ToldOnce
  <2>1. DOMAIN told = 1 .. Len(told)
    BY <1>3 DEF TypeInv, CallTypes
  <2> QED BY <1>3, <2>1 DEF ToldInv, ToldOnce, Heard
<1> QED BY <1>1, <1>2, <1>3, PTL DEF Spec
=============================================================================
