--------------------------- MODULE MailOutboxProofs ---------------------------
(***************************************************************************)
(* Theorems about MailOutbox, for any number of messages and pumps.        *)
(***************************************************************************)
EXTENDS MailOutbox, TLAPS

(* What a pump has in hand is a row of the queue. *)
HasRow ==
    \A p \in Pumps : pump[p].st \in {"picked", "sending"} =>
        pump[p].msg \in Messages /\ row[pump[p].msg] # None

(* A message that is being sent is leased, and to one pump. *)
Leased ==
    \A p \in Pumps, m \in Messages :
        Sending(p, m) =>
            /\ row[m] # None /\ ~row[m].sent /\ ~row[m].due
            /\ \A q \in Pumps : Sending(q, m) => q = p

(* What the server has of m, or may still take, and is not the message that *)
(* a pump is about to record.                                               *)
Loose(m) == handed[m] + wire[m]
Untaken(m) == \A p \in Pumps : Sending(p, m) => ~pump[p].taken
NotSent(m) == row[m] # None => ~row[m].sent

(* All of it is accounted for, but for one message: the one that a pump has *)
(* handed over and has not recorded, or has recorded.                       *)
Accounted ==
    \A m \in Messages :
        /\ Loose(m) <= 1 + excused[m]
        /\ NotSent(m) /\ Untaken(m) => Loose(m) <= excused[m]

OutboxInv == TypeOK /\ HasRow /\ Leased /\ Accounted

-----------------------------------------------------------------------------
(* The pumps start idle and the outbox empty. *)
LEMMA InitHolds == Init => OutboxInv
<1> SUFFICES ASSUME Init PROVE OutboxInv
  OBVIOUS
<1>1. TypeOK
  BY OutboxAssumption DEF Init, TypeOK, Fresh, Pump, Row
<1>2. HasRow
  BY DEF Init, HasRow, Fresh
<1>3. Leased
  BY DEF Init, Leased, Sending, Fresh
<1>4. Accounted
  BY DEF Init, Accounted, Loose
<1> QED BY <1>1, <1>2, <1>3, <1>4 DEF OutboxInv

(* A pump that (re)starts is a pump. *)
LEMMA FreshIsPump == Fresh \in Pump /\ [Fresh EXCEPT !.st = "down"] \in Pump
<1>1. BreakerThreshold \in Nat
  BY OutboxAssumption
<1>2. 0 \in 0..BreakerThreshold
  BY <1>1
<1> QED BY <1>2 DEF Fresh, Pump

(* The sweep touches neither what was sent nor what is leased. *)
LEMMA SweepKeeps ==
    ASSUME TypeOK
    PROVE  /\ Swept \in [Messages -> Row \cup {None}]
           /\ \A m \in Messages :
                 /\ row[m] = None <=> Swept[m] = None
                 /\ row[m] # None => Swept[m].sent = row[m].sent /\ Swept[m].due = row[m].due
<1>1. \A m \in Messages : Unsent(row[m]) /\ row[m].stale => row[m] \in Row
  BY DEF TypeOK, Unsent
<1>2. \A m \in Messages : row[m] \in Row =>
          /\ [row[m] EXCEPT !.failed = TRUE] \in Row
          /\ [row[m] EXCEPT !.failed = TRUE].sent = row[m].sent
          /\ [row[m] EXCEPT !.failed = TRUE].due = row[m].due
  BY DEF Row
<1> QED BY <1>1, <1>2, NoneAssumption DEF Swept, Expired, TypeOK, Unsent

-----------------------------------------------------------------------------
(* Each action keeps the invariant.                                        *)

(* What befalls the queue between the sends. *)
LEMMA QueueSteps ==
    ASSUME OutboxInv, NEW m \in Messages,
           Enqueue(m) \/ ComesDue(m) \/ GoesStale(m) \/ TakeLate(m)
    PROVE  OutboxInv'
<1> USE DEF OutboxInv
<1>1. CASE Enqueue(m)
  <2>1. row[m] = None /\ row' \in [Messages -> Row \cup {None}] /\ row'[m] # None
        /\ ~row'[m].sent /\ \A n \in Messages : n # m => row'[n] = row[n]
    <3> DEFINE New == [sent |-> FALSE, failed |-> FALSE, due |-> TRUE,
                       stale |-> FALSE, attempts |-> 0]
    <3>1. New \in Row /\ ~New.sent
      BY DEF Row
    <3>2. row[m] = None /\ row' = [row EXCEPT ![m] = New]
      BY <1>1 DEF Enqueue
    <3> HIDE DEF New
    <3> QED BY <3>1, <3>2, NoneAssumption DEF TypeOK
  <2>2. TypeOK'
    BY <1>1, <2>1 DEF Enqueue, TypeOK
  <2>3. HasRow' /\ Leased'
    BY <1>1, <2>1 DEF Enqueue, HasRow, Leased, Sending
  <2>4. Accounted'
    <3>1. \A n \in Messages : NotSent(n)' => NotSent(n)
      BY <2>1 DEF NotSent
    <3>2. handed' = handed /\ wire' = wire /\ excused' = excused /\ pump' = pump
      BY <1>1 DEF Enqueue
    <3>3. \A n \in Messages : Loose(n)' = Loose(n)
      BY <3>2 DEF Loose
    <3>4. \A n \in Messages : Untaken(n)' => Untaken(n)
      BY <3>2 DEF Untaken, Sending
    <3> QED BY <3>1, <3>2, <3>3, <3>4 DEF Accounted
  <2> QED BY <2>2, <2>3, <2>4
<1>2. CASE ComesDue(m)
  <2>1. row[m] \in Row /\ ~row[m].sent
    BY <1>2 DEF ComesDue, Unsent, TypeOK
  <2>2. row' \in [Messages -> Row \cup {None}] /\ row'[m] # None
        /\ ~row'[m].sent /\ \A n \in Messages : n # m => row'[n] = row[n]
    BY <1>2, <2>1, NoneAssumption DEF ComesDue, TypeOK, Row
  <2>3. TypeOK'
    BY <1>2, <2>2 DEF ComesDue, TypeOK
  <2>4. HasRow' /\ Leased'
    BY <1>2, <2>2 DEF ComesDue, HasRow, Leased, Sending
  <2>5. Accounted'
    BY <1>2, <2>1, <2>2 DEF ComesDue, Accounted, Loose, Untaken, NotSent, Sending
  <2> QED BY <2>3, <2>4, <2>5
<1>3. CASE GoesStale(m)
  <2>1. row[m] \in Row /\ ~row[m].sent
    BY <1>3 DEF GoesStale, Unsent, TypeOK
  <2>2. row' \in [Messages -> Row \cup {None}] /\ row'[m] # None /\ ~row'[m].sent
        /\ row'[m].due = row[m].due /\ \A n \in Messages : n # m => row'[n] = row[n]
    BY <1>3, <2>1, NoneAssumption DEF GoesStale, TypeOK, Row
  <2>3. TypeOK'
    BY <1>3, <2>2 DEF GoesStale, TypeOK
  <2>4. HasRow' /\ Leased'
    BY <1>3, <2>2 DEF GoesStale, HasRow, Leased, Sending
  <2>5. Accounted'
    BY <1>3, <2>1, <2>2 DEF GoesStale, Accounted, Loose, Untaken, NotSent, Sending
  <2> QED BY <2>3, <2>4, <2>5
<1>4. CASE TakeLate(m)
  <2>1. wire' \in [Messages -> Nat] /\ handed' \in [Messages -> Nat]
        /\ \A n \in Messages : Loose(n)' = Loose(n)
    BY <1>4 DEF TakeLate, TypeOK, Loose
  <2>2. TypeOK' /\ HasRow' /\ Leased'
    BY <1>4, <2>1 DEF TakeLate, TypeOK, HasRow, Leased, Sending
  <2>3. Accounted'
    BY <1>4, <2>1 DEF TakeLate, Accounted, Untaken, NotSent, Sending
  <2> QED BY <2>2, <2>3
<1> QED BY <1>1, <1>2, <1>3, <1>4

(* What a pump does outside a send. *)
LEMMA PumpSteps ==
    ASSUME OutboxInv, NEW p \in Pumps,
           Drain(p) \/ Claim(p) \/ Take(p) \/ Cooldown(p) \/ Starts(p)
    PROVE  OutboxInv'
<1> USE DEF OutboxInv
<1>0. pump \in [Pumps -> Pump] /\ pump[p] \in Pump
  BY DEF TypeOK
<1>1. CASE Drain(p)
  <2>1. row' \in [Messages -> Row \cup {None}]
        /\ \A m \in Messages :
              /\ row[m] = None <=> row'[m] = None
              /\ row[m] # None => row'[m].sent = row[m].sent /\ row'[m].due = row[m].due
    BY <1>1, SweepKeeps DEF Drain
  <2> DEFINE Picks ==
        /\ pump' \in [Pumps -> Pump]
        /\ \A q \in Pumps : q # p => pump'[q] = pump[q]
        /\ pump[p].st = "idle"
        /\ \/ pump'[p].st = "picked" /\ pump'[p].msg \in Messages /\ row'[pump'[p].msg] # None
           \/ pump'[p] = pump[p]
  <2>2. Picks
    <3>1. CASE pump' = pump
      BY <1>0, <1>1, <3>1 DEF Drain
    <3>2. ASSUME NEW m \in Candidates(Swept),
                 pump' = [pump EXCEPT ![p].st = "picked", ![p].msg = m]
          PROVE  Picks
      BY <1>0, <1>1, <3>2 DEF Drain, Candidates, Unsent, Pump
    <3> QED BY <1>1, <3>1, <3>2 DEF Drain
  <2>3. TypeOK'
    BY <1>1, <2>1, <2>2 DEF Drain, TypeOK
  <2>4. HasRow'
    BY <2>1, <2>2 DEF HasRow
  <2>5. \A q \in Pumps, m \in Messages :
          Sending(q, m)' <=> Sending(q, m) /\ (Sending(q, m) => pump'[q] = pump[q])
    BY <2>2 DEF Sending
  <2>6. Leased'
    BY <2>1, <2>5 DEF Leased
  <2>7. \A q \in Pumps, m \in Messages : Sending(q, m) => pump'[q] = pump[q]
    BY <2>2 DEF Sending
  <2>8. Accounted'
    BY <1>1, <2>1, <2>5, <2>7 DEF Drain, Accounted, Loose, Untaken, NotSent
  <2> QED BY <2>3, <2>4, <2>6, <2>8
<1>2. CASE Claim(p) /\ ~Claimable(pump[p].msg)
  <2>1. pump' \in [Pumps -> Pump] /\ pump'[p].st = "idle"
        /\ \A q \in Pumps : q # p => pump'[q] = pump[q]
    BY <1>0, <1>2 DEF Claim, Pump
  <2>2. row' = row /\ handed' = handed /\ wire' = wire /\ excused' = excused
    BY <1>2 DEF Claim
  <2>3. \A q \in Pumps, m \in Messages : Sending(q, m)' => q # p
    BY <2>1 DEF Sending
  <2>4. \A q \in Pumps, m \in Messages : Sending(q, m) => q # p
    BY <1>2 DEF Claim, Sending
  <2>5. TypeOK' /\ HasRow'
    BY <1>2, <2>1, <2>2 DEF Claim, TypeOK, HasRow
  <2>6. Leased' /\ Accounted'
    BY <2>1, <2>2, <2>3, <2>4 DEF Leased, Accounted, Loose, Untaken, NotSent, Sending
  <2> QED BY <2>5, <2>6
<1>3. CASE Claim(p) /\ Claimable(pump[p].msg)
  <2> DEFINE m == pump[p].msg
  <2>0. m \in Messages /\ row[m] \in Row /\ ~row[m].sent /\ row[m].due
    BY <1>3 DEF Claim, Claimable, Unsent, HasRow, TypeOK
  <2>1. \A q \in Pumps : ~Sending(q, m)
    BY <2>0 DEF Leased
  <2>2. row' \in [Messages -> Row \cup {None}] /\ row'[m] # None /\ ~row'[m].sent /\ ~row'[m].due
        /\ \A n \in Messages : n # m => row'[n] = row[n]
    BY <1>3, <2>0, NoneAssumption DEF Claim, TypeOK, Row
  <2>3. pump' \in [Pumps -> Pump] /\ Sending(p, m)' /\ ~pump'[p].taken /\ pump'[p].msg = m
        /\ \A q \in Pumps : q # p => pump'[q] = pump[q]
    BY <1>0, <1>3 DEF Claim, Pump, Sending
  <2>4. handed' = handed /\ wire' = wire /\ excused' = excused
    BY <1>3 DEF Claim
  <2> HIDE DEF m
  <2>5. TypeOK' /\ HasRow'
    BY <1>3, <2>0, <2>2, <2>3 DEF Claim, TypeOK, HasRow
  <2>6. Leased'
    BY <2>1, <2>2, <2>3 DEF Leased, Sending
  <2>7. Untaken(m) /\ NotSent(m)
    BY <2>0, <2>1 DEF Untaken, NotSent
  <2>8. \A n \in Messages : n # m =>
          (NotSent(n)' <=> NotSent(n)) /\ (Untaken(n)' => Untaken(n))
    BY <2>2, <2>3, <1>3 DEF NotSent, Untaken, Sending, Claim
  <2>9. Accounted'
    BY <2>4, <2>7, <2>8 DEF Accounted, Loose
  <2> QED BY <2>5, <2>6, <2>9
<1>4. CASE Take(p)
  <2>0. PICK m \in Messages : m = pump[p].msg /\ Sending(p, m) /\ ~pump[p].taken
    BY <1>4 DEF Take, HasRow, Sending
  <2>1. pump' \in [Pumps -> Pump] /\ pump'[p].taken /\ pump'[p].st = "sending" /\ pump'[p].msg = m
        /\ \A q \in Pumps : q # p => pump'[q] = pump[q]
    BY <1>0, <1>4, <2>0 DEF Take, Pump
  <2>2. handed' \in [Messages -> Nat] /\ Loose(m)' = Loose(m) + 1
        /\ \A n \in Messages : n # m => Loose(n)' = Loose(n)
    <3>1. handed' = [handed EXCEPT ![m] = @ + 1] /\ wire' = wire
      BY <1>4, <2>0 DEF Take
    <3> QED BY <3>1 DEF TypeOK, Loose
  <2>3. row' = row /\ excused' = excused
    BY <1>4 DEF Take
  <2>4. Untaken(m) /\ NotSent(m)
    BY <2>0 DEF Untaken, NotSent, Leased
  <2>5. \A q \in Pumps, n \in Messages : Sending(q, n)' <=> Sending(q, n)
    BY <2>0, <2>1 DEF Sending
  <2>6. TypeOK' /\ HasRow'
    BY <1>4, <2>0, <2>1, <2>2 DEF Take, TypeOK, HasRow
  <2>7. Leased'
    BY <2>3, <2>5 DEF Leased
  <2>8. ~Untaken(m)' /\ \A n \in Messages : n # m => (Untaken(n)' => Untaken(n))
    <3>1. ~Untaken(m)'
      BY <2>1 DEF Untaken, Sending
    <3>2. ASSUME NEW n \in Messages, n # m, NEW q \in Pumps, Sending(q, n)
          PROVE  pump'[q] = pump[q] /\ Sending(q, n)'
      BY <2>0, <2>1, <3>2 DEF Sending
    <3>3. \A n \in Messages : n # m => (Untaken(n)' => Untaken(n))
      BY <3>2 DEF Untaken
    <3> QED BY <3>1, <3>3
  <2>9. Accounted'
    <3>1. Loose(m) <= excused[m] /\ Loose(m) \in Nat /\ excused[m] \in Nat
      BY <2>0, <2>4 DEF Accounted, TypeOK, Loose
    <3>2. Loose(m)' <= 1 + excused'[m]
      BY <2>2, <2>3, <3>1
    <3>3. \A n \in Messages : n # m => (NotSent(n)' => NotSent(n)) /\ excused'[n] = excused[n]
      BY <2>3 DEF NotSent
    <3>4. \A n \in Messages : n # m =>
            Loose(n)' <= 1 + excused'[n]
            /\ (NotSent(n)' /\ Untaken(n)' => Loose(n)' <= excused'[n])
      BY <2>2, <2>8, <3>3 DEF Accounted
    <3> SUFFICES ASSUME NEW n \in Messages
                 PROVE  /\ Loose(n)' <= 1 + excused'[n]
                        /\ NotSent(n)' /\ Untaken(n)' => Loose(n)' <= excused'[n]
      BY DEF Accounted
    <3> QED BY <2>8, <3>2, <3>4
  <2> QED BY <2>6, <2>7, <2>9
<1>5. CASE Cooldown(p) \/ Starts(p)
  <2>1. pump' \in [Pumps -> Pump] /\ \A q \in Pumps : q # p => pump'[q] = pump[q]
    <3>1. CASE Cooldown(p)
      <4>1. [pump[p] EXCEPT !.paused = FALSE] \in Pump
        BY <1>0 DEF Pump
      <4>2. pump' = [pump EXCEPT ![p] = [pump[p] EXCEPT !.paused = FALSE]]
        BY <1>0, <3>1 DEF Cooldown
      <4> QED BY <1>0, <4>1, <4>2
    <3>2. CASE Starts(p)
      BY <1>0, <3>2, FreshIsPump DEF Starts
    <3> QED BY <1>5, <3>1, <3>2
  <2>2. \/ pump'[p].st = "idle" /\ pump[p].st = "down"
        \/ pump'[p].st = pump[p].st /\ pump'[p].msg = pump[p].msg /\ pump'[p].taken = pump[p].taken
    BY <1>0, <1>5 DEF Cooldown, Starts, Pump, Fresh
  <2>3. row' = row /\ handed' = handed /\ wire' = wire /\ excused' = excused
    BY <1>5 DEF Cooldown, Starts
  <2>4. \A q \in Pumps, n \in Messages : Sending(q, n)' <=> Sending(q, n)
    BY <2>1, <2>2 DEF Sending
  <2>5. \A q \in Pumps, n \in Messages : Sending(q, n) => pump'[q].taken = pump[q].taken
    BY <2>1, <2>2 DEF Sending
  <2>6. TypeOK' /\ HasRow'
    BY <1>5, <2>1, <2>2, <2>3 DEF Cooldown, Starts, TypeOK, HasRow
  <2>7. Leased' /\ Accounted'
    BY <2>3, <2>4, <2>5 DEF Leased, Accounted, Loose, Untaken, NotSent
  <2> QED BY <2>6, <2>7
<1> QED BY <1>1, <1>2, <1>3, <1>4, <1>5

-----------------------------------------------------------------------------
(* A send ends, with its outcome in the row or not.                        *)

(* A send gives up one row and leaves the others. *)
LEMMA SendEnds ==
    ASSUME OutboxInv, NEW p \in Pumps, NEW m \in Messages, Sending(p, m),
           row' \in [Messages -> Row \cup {None}], row'[m] # None,
           \A n \in Messages : n # m => row'[n] = row[n],
           pump' \in [Pumps -> Pump], pump'[p].st \in {"idle", "down"},
           \A q \in Pumps : q # p => pump'[q] = pump[q],
           wire' \in [Messages -> Nat], excused' \in [Messages -> Nat],
           \A n \in Messages : n # m => wire'[n] = wire[n] /\ excused'[n] = excused[n],
           handed' = handed, configured' = configured, trouble' \in 0..MaxTrouble,
           Loose(m)' <= 1 + excused'[m],
           NotSent(m)' => Loose(m)' <= excused'[m]
    PROVE  OutboxInv'
<1> USE DEF OutboxInv
<1>1. TypeOK'
  BY DEF TypeOK
<1>2. HasRow'
  BY DEF HasRow
<1>3. \A q \in Pumps : ~Sending(q, m)'
  BY DEF Leased, Sending
<1>4. \A q \in Pumps, n \in Messages : Sending(q, n)' => Sending(q, n) /\ n # m /\ q # p
  BY <1>3 DEF Sending
<1>5. Leased'
  BY <1>4 DEF Leased
<1>6. ASSUME NEW n \in Messages, n # m
      PROVE  Loose(n)' = Loose(n) /\ (NotSent(n)' => NotSent(n)) /\ (Untaken(n)' => Untaken(n))
  <2>1. \A q \in Pumps : Sending(q, n) => q # p
    BY <1>6 DEF Sending
  <2>2. \A q \in Pumps : Sending(q, n) => Sending(q, n)' /\ pump'[q] = pump[q]
    BY <2>1 DEF Sending
  <2>3. Untaken(n)' => Untaken(n)
    BY <2>2 DEF Untaken
  <2> QED BY <1>6, <2>3 DEF Loose, NotSent
<1>7. Accounted'
  <2> SUFFICES ASSUME NEW n \in Messages
               PROVE  /\ Loose(n)' <= 1 + excused'[n]
                      /\ NotSent(n)' /\ Untaken(n)' => Loose(n)' <= excused'[n]
    BY DEF Accounted
  <2>1. CASE n = m
    BY <2>1
  <2>2. CASE n # m
    BY <2>2, <1>6 DEF Accounted
  <2> QED BY <2>1, <2>2
<1> QED BY <1>1, <1>2, <1>5, <1>7

(* A failure leaves a row that is not sent, and an idle pump. *)
LEMMA FailedKeeps ==
    ASSUME OutboxInv, NEW p \in Pumps, NEW m \in Messages, Sending(p, m),
           NEW permanent \in BOOLEAN, Failed(p, permanent)
    PROVE  /\ row' \in [Messages -> Row \cup {None}] /\ row'[m] # None
           /\ \A n \in Messages : n # m => row'[n] = row[n]
           /\ pump' \in [Pumps -> Pump] /\ pump'[p].st = "idle"
           /\ \A q \in Pumps : q # p => pump'[q] = pump[q]
<1>1. row[m] \in Row /\ pump[p] \in Pump /\ pump[p].msg = m
  BY DEF OutboxInv, TypeOK, Leased, Sending
<1>2. Outcome(row[m], permanent) \in Row
  BY <1>1 DEF Outcome, Row
<1>3. row' = [row EXCEPT ![m] = Outcome(row[m], permanent)]
  BY <1>1 DEF Failed
<1> DEFINE n == IF pump[p].fails < BreakerThreshold THEN pump[p].fails + 1 ELSE BreakerThreshold
           Next1 == [Idling(p) EXCEPT !.fails = n, !.paused = n = BreakerThreshold]
<1>4. pump' = [pump EXCEPT ![p] = Next1]
  BY DEF Failed
<1>5. n \in 0..BreakerThreshold
  BY <1>1, OutboxAssumption DEF Pump
<1>6. (n = BreakerThreshold) \in BOOLEAN
  OBVIOUS
<1> HIDE DEF n
<1>7. Idling(p) \in Pump /\ Idling(p).st = "idle"
  BY <1>1 DEF Idling, Pump
<1>8. Next1 \in Pump /\ Next1.st = "idle"
  BY <1>5, <1>6, <1>7 DEF Pump
<1> HIDE DEF Next1
<1> QED BY <1>2, <1>3, <1>4, <1>8, NoneAssumption DEF OutboxInv, TypeOK

(* When it is not known what the server made of a message, its account is  *)
(* squared.                                                                *)
LEMMA UnknownSquares ==
    ASSUME OutboxInv, NEW p \in Pumps, NEW m \in Messages, Sending(p, m),
           Unknown(p), handed' = handed
    PROVE  /\ wire' \in [Messages -> Nat] /\ excused' \in [Messages -> Nat]
           /\ \A n \in Messages : n # m => wire'[n] = wire[n] /\ excused'[n] = excused[n]
           /\ Loose(m)' <= excused'[m] /\ excused'[m] \in Nat /\ Loose(m)' \in Nat
<1>1. pump[p].msg = m
  BY DEF Sending
<1>2. wire \in [Messages -> Nat] /\ excused \in [Messages -> Nat] /\ handed \in [Messages -> Nat]
  BY DEF OutboxInv, TypeOK
<1>3. wire' = (IF pump[p].taken THEN wire ELSE [wire EXCEPT ![m] = @ + 1])
      /\ excused' = [excused EXCEPT ![m] = @ + 1]
  BY <1>1 DEF Unknown
<1>4. NotSent(m) /\ Loose(m) <= 1 + excused[m]
  BY DEF OutboxInv, Leased, NotSent, Accounted
<1>5. CASE pump[p].taken
  BY <1>2, <1>3, <1>4, <1>5 DEF Loose
<1>6. CASE ~pump[p].taken
  <2>1. Untaken(m)
    BY <1>6 DEF Untaken, OutboxInv, Leased
  <2>2. Loose(m) <= excused[m]
    BY <1>4, <2>1 DEF OutboxInv, Accounted
  <2> QED BY <1>2, <1>3, <1>6, <2>2 DEF Loose
<1> QED BY <1>5, <1>6

(* The bound on trouble holds. *)
LEMMA TroubleCounts == ASSUME TypeOK, Trouble PROVE trouble' \in 0..MaxTrouble
  BY OutboxAssumption DEF Trouble, TypeOK

(* Every way a send can end. *)
LEMMA SendSteps ==
    ASSUME OutboxInv, NEW p \in Pumps,
           Sent(p) \/ Refused(p) \/ Unanswered(p) \/ Unrecorded(p) \/ Dies(p)
    PROVE  OutboxInv'
<1> USE DEF OutboxInv
<1>0. pump \in [Pumps -> Pump] /\ pump[p] \in Pump
  BY DEF TypeOK
<1>1. CASE pump[p].st # "sending"
  <2>1. Dies(p)
    BY <1>1 DEF Sent, Refused, Unanswered, Unrecorded
  <2>2. pump' \in [Pumps -> Pump] /\ pump'[p].st = "down"
        /\ \A q \in Pumps : q # p => pump'[q] = pump[q]
    BY <1>0, <2>1, FreshIsPump DEF Dies, Fresh
  <2>3. row' = row /\ handed' = handed /\ wire' = wire /\ excused' = excused
    BY <1>1, <2>1 DEF Dies
  <2>4. \A q \in Pumps, m \in Messages : Sending(q, m)' => q # p
    BY <2>2 DEF Sending
  <2>5. \A q \in Pumps, m \in Messages : Sending(q, m) => q # p
    BY <1>1 DEF Sending
  <2>6. trouble' \in 0..MaxTrouble
    BY <2>1, TroubleCounts DEF Dies
  <2>7. TypeOK' /\ HasRow'
    BY <2>1, <2>2, <2>3, <2>6 DEF Dies, TypeOK, HasRow
  <2>8. Leased' /\ Accounted'
    BY <2>2, <2>3, <2>4, <2>5 DEF Leased, Accounted, Loose, Untaken, NotSent, Sending
  <2> QED BY <2>7, <2>8
<1>2. CASE pump[p].st = "sending"
  <2>1. PICK m \in Messages : m = pump[p].msg /\ Sending(p, m)
    BY <1>2 DEF HasRow, Sending
  <2>2. row[m] \in Row /\ ~row[m].sent
    BY <2>1 DEF Leased, TypeOK
  <2>3. Idling(p) \in Pump /\ Idling(p).st = "idle"
    BY <1>0 DEF Idling, Pump
  <2>4. Loose(m) <= 1 + excused[m]
    BY DEF Accounted
  <2>5. CASE Sent(p)
    <3>1. row' = [row EXCEPT ![m].sent = TRUE]
      BY <2>1, <2>5 DEF Sent
    <3>2. row' \in [Messages -> Row \cup {None}] /\ row'[m] # None /\ ~NotSent(m)'
          /\ \A n \in Messages : n # m => row'[n] = row[n]
      BY <2>2, <3>1, NoneAssumption DEF TypeOK, Row, NotSent
    <3>3. [Idling(p) EXCEPT !.fails = 0] \in Pump /\ [Idling(p) EXCEPT !.fails = 0].st = "idle"
      BY <2>3, OutboxAssumption DEF Pump
    <3>4. pump' \in [Pumps -> Pump] /\ pump'[p].st = "idle"
          /\ \A q \in Pumps : q # p => pump'[q] = pump[q]
      BY <1>0, <2>5, <3>3 DEF Sent
    <3>5. wire' = wire /\ excused' = excused /\ handed' = handed
          /\ configured' = configured /\ trouble' = trouble
      BY <2>5 DEF Sent
    <3>6. Loose(m)' = Loose(m)
      BY <3>5 DEF Loose
    <3>7. wire' \in [Messages -> Nat] /\ excused' \in [Messages -> Nat]
          /\ trouble' \in 0..MaxTrouble
      BY <3>5 DEF TypeOK
    <3> QED BY <2>1, <2>4, <3>2, <3>4, <3>5, <3>6, <3>7, SendEnds
  <2>6. CASE Refused(p)
    <3>1. PICK permanent \in BOOLEAN : Failed(p, permanent)
      BY <2>6 DEF Refused
    <3>2. wire' = wire /\ excused' = excused /\ handed' = handed
          /\ configured' = configured /\ trouble' = trouble /\ ~pump[p].taken
      BY <2>6 DEF Refused
    <3>3. Untaken(m) /\ NotSent(m)
      BY <2>1, <2>2, <3>2 DEF Untaken, NotSent, Leased
    <3>4. Loose(m) <= excused[m]
      BY <3>3 DEF Accounted
    <3>5. Loose(m)' = Loose(m)
      BY <3>2 DEF Loose
    <3>6. wire' \in [Messages -> Nat] /\ excused' \in [Messages -> Nat]
          /\ trouble' \in 0..MaxTrouble
      BY <3>2 DEF TypeOK
    <3> QED BY <2>1, <2>4, <3>1, <3>2, <3>4, <3>5, <3>6, FailedKeeps, SendEnds
  <2>7. CASE Unanswered(p) \/ Unrecorded(p) \/ Dies(p)
    <3>1. Unknown(p) /\ handed' = handed /\ configured' = configured /\ Trouble
      BY <1>2, <2>7 DEF Unanswered, Unrecorded, Dies
    <3>2. trouble' \in 0..MaxTrouble
      BY <3>1, TroubleCounts
    <3>3. /\ row' \in [Messages -> Row \cup {None}] /\ row'[m] # None
          /\ \A n \in Messages : n # m => row'[n] = row[n]
          /\ pump' \in [Pumps -> Pump] /\ pump'[p].st \in {"idle", "down"}
          /\ \A q \in Pumps : q # p => pump'[q] = pump[q]
      <4>1. CASE Failed(p, FALSE)
        BY <2>1, <4>1, FailedKeeps
      <4>2. CASE pump' = [pump EXCEPT ![p] = Idling(p)] /\ row' = row
        BY <1>0, <2>2, <2>3, <4>2, NoneAssumption DEF TypeOK
      <4>3. CASE Dies(p)
        BY <1>0, <2>2, <4>3, FreshIsPump, NoneAssumption DEF Dies, Fresh, TypeOK
      <4> QED BY <2>7, <4>1, <4>2, <4>3 DEF Unanswered, Unrecorded
    <3>4. /\ wire' \in [Messages -> Nat] /\ excused' \in [Messages -> Nat]
          /\ \A n \in Messages : n # m => wire'[n] = wire[n] /\ excused'[n] = excused[n]
          /\ Loose(m)' <= excused'[m] /\ excused'[m] \in Nat /\ Loose(m)' \in Nat
      BY <2>1, <3>1, UnknownSquares
    <3>5. Loose(m)' <= 1 + excused'[m]
      BY <3>4
    <3> QED BY <2>1, <3>1, <3>2, <3>3, <3>4, <3>5, SendEnds
  <2> QED BY <1>2, <2>5, <2>6, <2>7
<1> QED BY <1>1, <1>2

(* Every step keeps the invariant. *)
LEMMA NextKeeps == OutboxInv /\ [Next]_vars => OutboxInv'
<1> SUFFICES ASSUME OutboxInv, [Next]_vars PROVE OutboxInv'
  OBVIOUS
<1>1. CASE \E m \in Messages : Enqueue(m) \/ ComesDue(m) \/ GoesStale(m) \/ TakeLate(m)
  BY <1>1, QueueSteps
<1>2. CASE \E p \in Pumps : Drain(p) \/ Claim(p) \/ Take(p) \/ Cooldown(p) \/ Starts(p)
  BY <1>2, PumpSteps
<1>3. CASE \E p \in Pumps : Sent(p) \/ Refused(p) \/ Unanswered(p) \/ Unrecorded(p) \/ Dies(p)
  BY <1>3, SendSteps
<1>4. CASE Configure
  <2>1. /\ row' = row /\ pump' = pump /\ wire' = wire /\ handed' = handed
        /\ excused' = excused /\ configured' \in BOOLEAN
    BY <1>4 DEF Configure, OutboxInv, TypeOK
  <2>2. trouble' \in 0..MaxTrouble
    BY <1>4, TroubleCounts DEF Configure, OutboxInv
  <2>3. TypeOK' /\ HasRow' /\ Leased'
    BY <2>1, <2>2 DEF OutboxInv, TypeOK, HasRow, Leased, Sending
  <2>4. Accounted'
    BY <2>1 DEF OutboxInv, Accounted, Loose, Untaken, NotSent, Sending
  <2> QED BY <2>3, <2>4 DEF OutboxInv
<1>5. CASE UNCHANGED vars
  <2>1. /\ row' = row /\ pump' = pump /\ wire' = wire /\ handed' = handed
        /\ excused' = excused /\ configured' = configured /\ trouble' = trouble
    BY <1>5 DEF vars
  <2>2. TypeOK' /\ HasRow' /\ Leased'
    BY <2>1 DEF OutboxInv, TypeOK, HasRow, Leased, Sending
  <2>3. Accounted'
    BY <2>1 DEF OutboxInv, Accounted, Loose, Untaken, NotSent, Sending
  <2> QED BY <2>2, <2>3 DEF OutboxInv
<1> QED BY <1>1, <1>2, <1>3, <1>4, <1>5 DEF Next, Progress

(* What is in hand, leased and accounted for stays so, in every behaviour. *)
THEOREM InvariantHolds == Spec => []OutboxInv
  BY InitHolds, NextKeeps, PTL DEF Spec

-----------------------------------------------------------------------------
(* The queue, the pumps and the history keep their types                   *)
(* (outbox.ts:384-471).                                                    *)
THEOREM TypeCorrect == Spec => []TypeOK
<1>1. OutboxInv => TypeOK
  BY DEF OutboxInv
<1> QED BY <1>1, InvariantHolds, PTL

(* A message is sent by one process at a time, and by none once it is      *)
(* recorded as sent, however many have the database open                   *)
(* (outbox.ts:384-415).                                                    *)
THEOREM OneSenderHolds == Spec => []OneSender
<1>1. OutboxInv => OneSender
  BY DEF OutboxInv, Leased, OneSender
<1> QED BY <1>1, InvariantHolds, PTL

(* Every copy the mail server takes beyond the first is owed to a send     *)
(* that had no answer or whose outcome was not recorded                    *)
(* (outbox.ts:418-471, 589-607).                                           *)
THEOREM DuplicatesAreAccounted == Spec => []DuplicatesAccounted
<1>1. OutboxInv => DuplicatesAccounted
  <2> SUFFICES ASSUME OutboxInv, NEW m \in Messages PROVE handed[m] <= 1 + excused[m]
    BY DEF DuplicatesAccounted
  <2>1. handed[m] \in Nat /\ wire[m] \in Nat /\ excused[m] \in Nat
    BY DEF OutboxInv, TypeOK
  <2>2. handed[m] + wire[m] <= 1 + excused[m]
    BY DEF OutboxInv, Accounted, Loose
  <2> QED BY <2>1, <2>2
<1> QED BY <1>1, InvariantHolds, PTL
=============================================================================
