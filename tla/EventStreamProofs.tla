------------------------- MODULE EventStreamProofs -------------------------
(***************************************************************************)
(* What holds of the event stream for every bound and any number of        *)
(* sockets, as long as the disk takes every event and a socket that stands *)
(* still with the news of a collapse is given up (Faults = {}): no event   *)
(* is left out in silence on any socket, and the stream keeps the promise  *)
(* of EventDelivery, which is proved to give the client each event once    *)
(* and in order.                                                           *)
(*                                                                         *)
(* The argument: a frame "brings" the client to a number.  Whatever is on  *)
(* a wire or in a queue begins at most one beyond what the client has or   *)
(* what is in front of it brings, and the end of an attached socket's      *)
(* queue brings the end of the log.  A frame that is heeded moves the      *)
(* client on by what it brings, so the frames behind it still follow on;   *)
(* a client that moves on by another socket only makes that easier.        *)
(***************************************************************************)
EXTENDS MCEventStream, FiniteSetTheorems, WellFoundedInduction, TLAPS

(***************************************************************************)
(* What is on a socket.                                                    *)
(***************************************************************************)
(* What waits in a queue, and what is on a wire.                           *)
News == [kind : {"lagged"}, from : Nat, to : Nat] \cup [kind : {"snapshot", "caught_up"}]
Item  == [kind : {"event"}, seq : Nat] \cup News
Frame == [kind : {"events"}, seqs : SUBSET Nat] \cup [kind : {"hello"}, since : Nat] \cup News

Socket ==
    [st : {"unused", "opening", "attached", "ended"}, succ : BOOLEAN, since : Nat,
     cursor : Nat, sent : Nat, queue : Seq(Item), sending : BOOLEAN, collapsed : BOOLEAN,
     wire : Seq(Frame), code : Nat]

(* A client that has heeded f stands at n or beyond.                       *)
Brings(f, n) ==
    \/ f.kind = "hello" /\ n <= f.since
    \/ f.kind = "lagged" /\ n <= f.to
    \/ f.kind = "events" /\ \E m \in f.seqs : n <= m
    \/ f.kind = "event" /\ n <= f.seq

(* A client at last comes to n or beyond by the first i frames of a wire;  *)
(* or by all of the wire and the first i items of the queue behind it.     *)
Comes(last, w, i, n) == n <= last \/ \E j \in 1..i : Brings(w[j], n)
ComesBy(last, w, q, i, n) == Comes(last, w, Len(w), n) \/ \E j \in 1..i : Brings(q[j], n)

(* A frame leaves nothing out: what it begins with follows on from what    *)
(* came before it.  Only a hello may skip, and only far behind the head.   *)
FrameFits(last, hd, lo, w, i) ==
    /\ w[i].kind = "hello" =>
        w[i].since <= hd /\ (w[i].since <= last \/ w[i].since + ReplayMax <= hd)
    /\ w[i].kind = "lagged" =>
        /\ w[i].from \in (lo + 1)..w[i].to /\ w[i].to <= hd
        /\ Comes(last, w, i - 1, w[i].from - 1)
    /\ w[i].kind = "events" =>
        /\ w[i].seqs \subseteq 1..hd
        /\ \A m \in w[i].seqs : m - 1 \in w[i].seqs \/ Comes(last, w, i - 1, m - 1)

(* Nor does what waits.  Events next to each other are in one batch.       *)
ItemFits(last, hd, lo, w, q, i) ==
    /\ q[i].kind = "lagged" =>
        /\ q[i].from \in (lo + 1)..q[i].to /\ q[i].to <= hd
        /\ ComesBy(last, w, q, i - 1, q[i].from - 1)
    /\ q[i].kind = "event" =>
        /\ q[i].seq \in (lo + 1)..hd
        /\ IF i > 1 /\ q[i-1].kind = "event" THEN q[i-1].seq = q[i].seq - 1
           ELSE ComesBy(last, w, q, i - 1, q[i].seq - 1)

(* The news of a collapse has not been taken.                              *)
Standing(q) == Len(q) > 1 /\ q[1].kind = "lagged" /\ q[2] = Snapshot

WireFits(c, last, hd, lo) == \A i \in 1..Len(c.wire) : FrameFits(last, hd, lo, c.wire, i)

(* What is queued on an attached socket follows on from what was sent, and *)
(* ends at the head.                                                       *)
QueueFits(c, last, hd, lo) ==
    /\ c.cursor = hd
    /\ \A i \in 1..Len(c.queue) : ItemFits(last, hd, lo, c.wire, c.queue, i)
    /\ c.queue # <<>> /\ c.queue[Len(c.queue)].kind = "event" => c.queue[Len(c.queue)].seq = hd
    /\ ComesBy(last, c.wire, c.queue, Len(c.queue), hd)

(* sent is where the client will stand, if what is queued is given up.     *)
SentFits(c, last, hd, lo) ==
    /\ c.sent \in lo..hd
    /\ \/ Comes(last, c.wire, Len(c.wire), c.sent)
       \/ Standing(c.queue) /\ c.queue[1].to = c.sent

SocketFits(c, last, hd, lo) ==
    /\ c \in Socket
    /\ c.st \in {"unused", "opening"} => c.wire = <<>> /\ ~c.collapsed
    /\ c.st # "attached" => c.queue = <<>> /\ ~c.sending
    /\ Len(c.queue) <= QueueMax
    /\ c.st = "opening" => c.since \in lo..last
    /\ WireFits(c, last, hd, lo)
    /\ c.st = "attached" =>
        /\ QueueFits(c, last, hd, lo)
        /\ SentFits(c, last, hd, lo)
        /\ c.queue # <<>> => c.sending

Client ==
    [last : Nat, phase : {"connecting", "overdue", "live", "waiting", "closed"},
     stopped : BOOLEAN, socket : 0..MaxSockets, successor : 0..MaxSockets,
     dials : Nat, refreshes : Nat, rotations : Nat, retries : Nat,
     armed : BOOLEAN, rotateTimer : BOOLEAN]

StreamType ==
    /\ head \in Nat /\ rows \subseteq 1..head /\ gone \in BOOLEAN
    /\ DOMAIN conns = Sockets
    /\ client \in Client
    /\ base \in Nat

(* The store has the newest events, and all from its oldest on.            *)
RowsFit ==
    /\ head > 0 => head \in rows
    /\ \A n \in rows : n..head \subseteq rows

LastFits == base <= client.last /\ client.last <= head

(* What the client's fields name is in use, and something is under way     *)
(* unless it has a socket.                                                 *)
FieldsFit ==
    /\ client.socket # None => conns[client.socket].st # "unused"
    /\ client.successor # None =>
        /\ client.successor # client.socket
        /\ conns[client.successor].st # "unused" /\ conns[client.successor].succ
    /\ client.armed => client.retries > 0
    /\ \/ client.stopped \/ client.socket # None
       \/ client.dials > 0 \/ client.refreshes > 0 \/ client.retries > 0

StreamInv ==
    /\ StreamType /\ RowsFit /\ LastFits /\ FieldsFit
    /\ \A s \in Sockets : SocketFits(conns[s], client.last, head, base)

-----------------------------------------------------------------------------
(* Numbers.                                                                *)

(* What the bounds are. *)
LEMMA Bounds ==
    /\ ReplayMax \in Nat \ {0} /\ QueueMax \in Nat /\ QueueMax >= 3
    /\ BatchMax \in Nat \ {0} /\ MaxSockets \in Nat \ {0}
BY EventStreamAssumption

(* A set of numbers that is not empty has a least one, and one that is     *)
(* bounded a greatest.                                                     *)
LEMMA LeastOf ==
    ASSUME NEW T \in SUBSET Nat, T # {}
    PROVE  Min(T) \in T /\ \A j \in T : Min(T) <= j
<1> DEFINE R == {ss \in Nat \X Nat : ss[1] < ss[2]}
<1>1. IsWellFoundedOn(R, Nat)
  BY NatLessThanWellFounded DEF OpToRel
<1>2. PICK i \in T : \A j \in T : <<j, i>> \notin R
  <2> HIDE DEF R
  <2> QED BY <1>1, WFMin, Zenon
<1>3. \A j \in T : ~(j < i)
  BY <1>2
<1>4. \A j \in T : i =< j
  BY <1>3
<1>5. \A k \in T : (\A j \in T : k =< j) => k = i
  BY <1>4
<1> QED BY <1>4, <1>5 DEF Min

LEMMA GreatestOf ==
    ASSUME NEW T \in SUBSET Nat, T # {}, NEW b \in Nat, \A j \in T : j <= b
    PROVE  Max(T) \in T /\ \A j \in T : j <= Max(T)
<1> DEFINE U == {n \in Nat : \E j \in T : n = b - j}
<1>1. U \in SUBSET Nat /\ U # {}
  <2>1. PICK j \in T : TRUE
    OBVIOUS
  <2>2. b - j \in Nat
    BY <2>1
  <2> QED BY <2>2
<1>2. Min(U) \in U /\ \A n \in U : Min(U) <= n
  <2> HIDE DEF U
  <2> QED BY <1>1, LeastOf
<1>3. PICK i \in T : Min(U) = b - i
  BY <1>2
<1>4. \A j \in T : i >= j
  <2> TAKE j \in T
  <2>1. b - j \in U
    OBVIOUS
  <2> QED BY <1>2, <1>3, <2>1
<1>5. \A j \in T : j <= i
  BY <1>4
<1>6. \A k \in T : (\A j \in T : k >= j) => k = i
  BY <1>4
<1> QED BY <1>4, <1>5, <1>6 DEF Max

-----------------------------------------------------------------------------
(* One socket.                                                             *)

(* A client that moves on loses nothing of what is under way.              *)
LEMMA FitsLater ==
    ASSUME NEW c, NEW last \in Nat, NEW hd \in Nat, NEW lo \in Nat,
           SocketFits(c, last, hd, lo), NEW later \in Nat, last <= later
    PROVE  SocketFits(c, later, hd, lo)
<1>1. \A w, i, n : Comes(last, w, i, n) /\ n \in Int => Comes(later, w, i, n)
  BY DEF Comes
<1>2. c \in Socket
  BY DEF SocketFits
<1>3. ASSUME NEW i \in 1..Len(c.wire) PROVE FrameFits(later, hd, lo, c.wire, i)
  <2>1. FrameFits(last, hd, lo, c.wire, i) /\ c.wire[i] \in Frame
    BY <1>2, <1>3 DEF SocketFits, WireFits, Socket
  <2> QED BY <1>1, <2>1 DEF FrameFits, Frame, News
<1>4. WireFits(c, later, hd, lo)
  BY <1>3 DEF WireFits
<1>5. ASSUME NEW q \in Seq(Item), NEW i \in 1..Len(q), ItemFits(last, hd, lo, c.wire, q, i)
      PROVE  ItemFits(later, hd, lo, c.wire, q, i)
  <2>1. q[i] \in Item
    BY <1>5
  <2> QED BY <1>1, <1>5, <2>1 DEF ItemFits, ComesBy, Item, News
<1>6. CASE c.st = "attached"
  <2>1. QueueFits(c, later, hd, lo)
    BY <1>1, <1>2, <1>5, <1>6 DEF SocketFits, QueueFits, ComesBy, Socket
  <2>2. SentFits(c, later, hd, lo)
    BY <1>1, <1>2, <1>6 DEF SocketFits, SentFits, Socket
  <2> QED BY <1>4, <1>6, <2>1, <2>2 DEF SocketFits
<1> QED BY <1>2, <1>4, <1>6 DEF SocketFits, Socket

(* The head moves on.                                                      *)
LEMMA WireFitsLater ==
    ASSUME NEW c \in Socket, NEW last \in Nat, NEW hd \in Nat, NEW lo \in Nat,
           WireFits(c, last, hd, lo)
    PROVE  WireFits(c, last, hd + 1, lo)
<1> SUFFICES ASSUME NEW i \in 1..Len(c.wire) PROVE FrameFits(last, hd + 1, lo, c.wire, i)
  BY DEF WireFits
<1>1. FrameFits(last, hd, lo, c.wire, i) /\ c.wire[i] \in Frame
  BY DEF WireFits, Socket
<1> QED BY <1>1, Bounds DEF FrameFits, Frame, News

(* A socket that carries nothing is one.                                   *)
LEMMA UnusedType ==
    /\ Unused \in Socket
    /\ Unused.st = "unused" /\ Unused.wire = <<>> /\ Unused.queue = <<>>
    /\ ~Unused.sending /\ ~Unused.collapsed
<1>1. <<>> \in Seq(Item) /\ <<>> \in Seq(Frame)
  OBVIOUS
<1> QED BY <1>1 DEF Unused, Socket

(* A socket that is closed keeps what was sent.                            *)
LEMMA EndedFits ==
    ASSUME NEW c \in Socket, NEW last \in Nat, NEW hd \in Nat, NEW lo \in Nat,
           WireFits(c, last, hd, lo), NEW code \in Nat
    PROVE  SocketFits(Ended(c, code), last, hd, lo)
<1>1. /\ Ended(c, code) \in Socket
      /\ Ended(c, code).st = "ended" /\ Ended(c, code).wire = c.wire
      /\ Ended(c, code).queue = <<>> /\ ~Ended(c, code).sending
  <2>1. Unused \in Socket
    BY UnusedType
  <2> QED BY <2>1 DEF Ended, Socket, Unused
<1>2. WireFits(Ended(c, code), last, hd, lo)
  BY <1>1 DEF WireFits
<1> QED BY <1>1, <1>2, Bounds DEF SocketFits

(* A connection that is lost takes what was on it along.                   *)
LEMMA CutFits ==
    ASSUME NEW c \in Socket, NEW last \in Nat, NEW hd \in Nat, NEW lo \in Nat
    PROVE  SocketFits(Cut(c), last, hd, lo) /\ Cut(c).succ = c.succ /\ Cut(c).st = "ended"
<1>1. PICK e : e = [c EXCEPT !.wire = <<>>]
  OBVIOUS
<1>2. e \in Socket /\ e.wire = <<>> /\ e.succ = c.succ
  <2>1. <<>> \in Seq(Frame)
    OBVIOUS
  <2> QED BY <1>1, <2>1 DEF Socket
<1>3. WireFits(e, last, hd, lo)
  BY <1>2 DEF WireFits
<1>4. SocketFits(Ended(e, 1006), last, hd, lo)
  BY <1>2, <1>3, EndedFits
<1>5. Ended(e, 1006).succ = c.succ /\ Ended(e, 1006).st = "ended"
  BY <1>2 DEF Ended, Unused
<1> QED BY <1>1, <1>4, <1>5 DEF Cut

(* What carries nothing leaves nothing out, whatever the log is.           *)
LEMMA UnusedFits ==
    ASSUME NEW last \in Nat, NEW hd \in Nat, NEW lo \in Nat
    PROVE  SocketFits(Unused, last, hd, lo)
BY Bounds, UnusedType DEF SocketFits, WireFits

(* Nor does a socket that was just opened at the client's cursor           *)
(* (stream.ts:165, 231).                                                   *)
LEMMA OpeningFits ==
    ASSUME NEW last \in Nat, NEW hd \in Nat, NEW lo \in Nat, lo <= last, NEW succ \in BOOLEAN
    PROVE  SocketFits(Opening(last, succ), last, hd, lo)
<1> DEFINE c == Opening(last, succ)
<1>1. /\ c \in Socket /\ c.st = "opening" /\ c.wire = <<>> /\ ~c.collapsed
      /\ c.queue = <<>> /\ ~c.sending /\ c.since = last
  BY UnusedType DEF Opening, Socket
<1> HIDE DEF c
<1> QED BY <1>1, Bounds DEF SocketFits, WireFits, c

(* What a wire is when one more frame is on it, and a queue when its first *)
(* n items are off it.                                                     *)
OneMore(w, f, w2) ==
    /\ w2 \in Seq(Frame) /\ Len(w2) = Len(w) + 1 /\ w2[Len(w) + 1] = f
    /\ \A i \in 1..Len(w) : w2[i] = w[i]

Without(q, n, q2) ==
    /\ q2 \in Seq(Item) /\ Len(q2) = Len(q) - n
    /\ \A i \in 1..(Len(q) - n) : q2[i] = q[n + i]

(* A wire with one more frame.                                             *)
LEMMA OneMoreIs ==
    ASSUME NEW w \in Seq(Frame), NEW f \in Frame
    PROVE  OneMore(w, f, Append(w, f))
BY DEF OneMore

(* A queue without its first n items.                                      *)
LEMMA WithoutIs ==
    ASSUME NEW q \in Seq(Item), NEW n \in 1..Len(q)
    PROVE  Without(q, n, SubSeq(q, n + 1, Len(q)))
<1>1. Len(q) \in Nat /\ n \in Nat /\ n + 1 \in Nat
  OBVIOUS
<1>2. \A i \in (n + 1)..Len(q) : q[i] \in Item
  OBVIOUS
<1> QED BY <1>1, <1>2 DEF Without

(* The frame that a batch makes of the first n items of a queue.           *)
MadeOf(f, q, n) ==
    \/ n = 1 /\ f = q[1] /\ q[1].kind # "event"
    \/ f.kind = "events" /\ f.seqs = {q[i].seq : i \in 1..n} /\ \A i \in 1..n : q[i].kind = "event"

(* It brings all that they would have brought.                             *)
LEMMA MadeOfBrings ==
    ASSUME NEW q \in Seq(Item), NEW n \in 1..Len(q), NEW f, MadeOf(f, q, n),
           NEW j \in 1..n, NEW m \in Int, Brings(q[j], m)
    PROVE  Brings(f, m)
<1>1. q[j] \in Item
  OBVIOUS
<1>2. CASE n = 1 /\ f = q[1]
  BY <1>2
<1>3. CASE f.kind = "events" /\ f.seqs = {q[i].seq : i \in 1..n} /\ \A i \in 1..n : q[i].kind = "event"
  <2>1. q[j].seq \in f.seqs /\ m <= q[j].seq
    BY <1>1, <1>3 DEF Brings, Item, News
  <2> QED BY <1>3, <2>1 DEF Brings
<1> QED BY <1>2, <1>3 DEF MadeOf

(* What the first n items of a queue bring, they bring as a frame of the   *)
(* wire.                                                                   *)
LEMMA Shifted ==
    ASSUME NEW w \in Seq(Frame), NEW q \in Seq(Item), NEW w2, NEW q2, NEW last \in Nat,
           NEW n \in 1..Len(q), NEW f, OneMore(w, f, w2), Without(q, n, q2), MadeOf(f, q, n),
           NEW i \in 0..(Len(q) - n), NEW m \in Int, ComesBy(last, w, q, n + i, m)
    PROVE  ComesBy(last, w2, q2, i, m)
<1>1. Len(w) \in Nat /\ Len(q) \in Nat
  OBVIOUS
<1>2. CASE m <= last
  BY <1>2 DEF Comes, ComesBy
<1>3. ASSUME NEW j \in 1..Len(w), Brings(w[j], m) PROVE ComesBy(last, w2, q2, i, m)
  <2>1. j \in 1..Len(w2) /\ w2[j] = w[j]
    BY <1>1 DEF OneMore
  <2> QED BY <1>3, <2>1 DEF Comes, ComesBy
<1>4. ASSUME NEW j \in 1..n, Brings(q[j], m) PROVE ComesBy(last, w2, q2, i, m)
  <2>1. Brings(f, m)
    BY <1>4, MadeOfBrings
  <2>2. Len(w2) \in 1..Len(w2) /\ w2[Len(w2)] = f
    BY <1>1 DEF OneMore
  <2> QED BY <2>1, <2>2 DEF Comes, ComesBy
<1>5. ASSUME NEW j \in (n + 1)..(n + i), Brings(q[j], m) PROVE ComesBy(last, w2, q2, i, m)
  <2>1. j - n \in 1..i /\ j - n \in 1..(Len(q) - n) /\ n + (j - n) = j
    BY <1>1, <1>5
  <2>2. q2[j - n] = q[j]
    BY <2>1 DEF Without
  <2> QED BY <1>5, <2>1, <2>2 DEF ComesBy
<1>6. \A j \in 1..(n + i) : j \in 1..n \/ j \in (n + 1)..(n + i)
  BY <1>1
<1> QED BY <1>2, <1>3, <1>4, <1>5, <1>6 DEF Comes, ComesBy

(* What the first frames of a wire bring they bring when there is one more.*)
LEMMA StillComes ==
    ASSUME NEW w \in Seq(Frame), NEW w2, NEW f, NEW last \in Nat, OneMore(w, f, w2),
           NEW i \in 0..Len(w), NEW m \in Int, Comes(last, w, i, m)
    PROVE  Comes(last, w2, i, m)
<1>1. \A j \in 1..i : w2[j] = w[j]
  BY DEF OneMore
<1> QED BY <1>1 DEF Comes

(* What flush takes from the queue.                                        *)
LEMMA BatchFits ==
    ASSUME NEW q \in Seq(Item), q # <<>>
    PROVE  /\ BatchSize(q) \in 1..Len(q)
           /\ q[1].kind = "event" => \A i \in 1..BatchSize(q) : q[i].kind = "event"
           /\ q[1].kind # "event" => BatchSize(q) = 1
<1>1. Head(q) = q[1] /\ Len(q) \in Nat /\ Len(q) >= 1
  OBVIOUS
<1>2. CASE q[1].kind = "event"
  <2> DEFINE m == Smaller(BatchMax, Len(q))
             T == {n \in 1..m : \A i \in 1..n : q[i].kind = "event"}
  <2>1. m \in 1..Len(q)
    BY <1>1, Bounds DEF Smaller
  <2>2. 1 \in T /\ T \in SUBSET Nat /\ \A j \in T : j <= m
    BY <1>2, <2>1
  <2>3. BatchSize(q) = Max(T)
    BY <1>1, <1>2 DEF BatchSize
  <2>4. Max(T) \in T
    <3>1. m \in Nat /\ T # {}
      BY <2>1, <2>2
    <3> HIDE DEF T, m
    <3> QED BY <2>2, <3>1, GreatestOf
  <2> QED BY <1>2, <2>1, <2>3, <2>4
<1> QED BY <1>1, <1>2 DEF BatchSize

(* A batch goes from the queue to the wire, and all still fits.            *)
LEMMA BatchMoves ==
    ASSUME NEW w \in Seq(Frame), NEW q \in Seq(Item), NEW w2, NEW q2,
           NEW last \in Nat, NEW hd \in Nat, NEW lo \in Nat,
           NEW n \in 1..Len(q), NEW f \in Frame,
           OneMore(w, f, w2), Without(q, n, q2), MadeOf(f, q, n),
           \A i \in 1..Len(w) : FrameFits(last, hd, lo, w, i),
           \A i \in 1..Len(q) : ItemFits(last, hd, lo, w, q, i)
    PROVE  /\ \A i \in 1..Len(w2) : FrameFits(last, hd, lo, w2, i)
           /\ \A i \in 1..Len(q2) : ItemFits(last, hd, lo, w2, q2, i)
<1>1. Len(w) \in Nat /\ Len(q) \in Nat /\ Len(w2) = Len(w) + 1 /\ Len(q2) = Len(q) - n
  BY DEF OneMore, Without
<1>2. \A j \in 1..Len(q) : q[j] \in Item
  OBVIOUS
<1>3. ASSUME NEW i \in 1..Len(w) PROVE FrameFits(last, hd, lo, w2, i)
  <2>1. FrameFits(last, hd, lo, w, i) /\ w2[i] = w[i] /\ w[i] \in Frame /\ i - 1 \in 0..Len(w)
    BY <1>1 DEF OneMore
  <2>2. \A m \in Int : Comes(last, w, i - 1, m) => Comes(last, w2, i - 1, m)
    BY <2>1, StillComes
  <2> QED BY <2>1, <2>2 DEF FrameFits, Frame, News
<1>4. \A m \in Int : ComesBy(last, w, q, 0, m) => Comes(last, w2, Len(w), m)
  <2> TAKE m \in Int
  <2>1. Len(w) \in 0..Len(w)
    BY <1>1
  <2> QED BY <2>1, StillComes DEF ComesBy
<1>5. ASSUME n = 1, f = q[1], q[1].kind # "event" PROVE FrameFits(last, hd, lo, w2, Len(w) + 1)
  <2>1. ItemFits(last, hd, lo, w, q, 1) /\ f \in Item /\ w2[Len(w) + 1] = f
    BY <1>1, <1>2, <1>5 DEF OneMore
  <2>2. f.kind # "hello" /\ f.kind # "events"
    BY <1>5, <2>1 DEF Item, News
  <2>3. f.kind = "lagged" =>
          /\ f.from \in (lo + 1)..f.to /\ f.to <= hd /\ f.from \in Nat
          /\ ComesBy(last, w, q, 0, f.from - 1)
    BY <1>5, <2>1 DEF ItemFits, Item, News
  <2>4. f.kind = "lagged" => Comes(last, w2, Len(w), f.from - 1)
    BY <1>4, <2>3
  <2> QED BY <1>1, <2>1, <2>2, <2>3, <2>4 DEF FrameFits
<1>6. ASSUME f.kind = "events", f.seqs = {q[i].seq : i \in 1..n}, \A i \in 1..n : q[i].kind = "event"
      PROVE  FrameFits(last, hd, lo, w2, Len(w) + 1)
  <2>1. \A i \in 1..n : ItemFits(last, hd, lo, w, q, i) /\ q[i].kind = "event" /\ q[i].seq \in Nat
    BY <1>1, <1>2, <1>6 DEF Item, News
  <2>2. f.seqs \subseteq 1..hd
    BY <1>6, <2>1 DEF ItemFits
  <2>3. ASSUME NEW m \in f.seqs PROVE m - 1 \in f.seqs \/ Comes(last, w2, Len(w), m - 1)
    <3>1. PICK i \in 1..n : m = q[i].seq
      BY <1>6
    <3>2. CASE i = 1
      <4>1. ComesBy(last, w, q, 0, m - 1) /\ m - 1 \in Int
        BY <2>1, <3>1, <3>2 DEF ItemFits
      <4> QED BY <1>4, <4>1
    <3>3. CASE i > 1
      <4>1. i - 1 \in 1..n
        BY <1>1, <3>3
      <4>2. q[i-1].kind = "event" /\ q[i-1].seq = m - 1
        BY <2>1, <3>1, <3>3, <4>1 DEF ItemFits
      <4> QED BY <1>6, <4>1, <4>2
    <3> QED BY <3>2, <3>3
  <2>4. w2[Len(w) + 1] = f /\ (Len(w) + 1) - 1 = Len(w)
    BY <1>1 DEF OneMore
  <2> QED BY <1>6, <2>2, <2>3, <2>4 DEF FrameFits
<1>7. FrameFits(last, hd, lo, w2, Len(w) + 1)
  BY <1>5, <1>6 DEF MadeOf
<1>8. ASSUME NEW i \in 1..Len(q2) PROVE ItemFits(last, hd, lo, w2, q2, i)
  <2>1. /\ n + i \in 1..Len(q) /\ q2[i] = q[n + i] /\ q[n + i] \in Item
        /\ i - 1 \in 0..(Len(q) - n) /\ n + (i - 1) = n + i - 1 /\ i \in 1..(Len(q) - n)
    BY <1>1, <1>2 DEF Without
  <2>2. ItemFits(last, hd, lo, w, q, n + i)
    BY <2>1
  <2>3. \A m \in Int : ComesBy(last, w, q, n + i - 1, m) => ComesBy(last, w2, q2, i - 1, m)
    <3>1. \A k \in 0..(Len(q) - n), m \in Int :
            ComesBy(last, w, q, n + k, m) => ComesBy(last, w2, q2, k, m)
      BY Shifted
    <3> QED BY <2>1, <3>1
  <2>4. q2[i].kind = "lagged" =>
          /\ q2[i].from \in (lo + 1)..q2[i].to /\ q2[i].to <= hd
          /\ ComesBy(last, w2, q2, i - 1, q2[i].from - 1)
    <3>1. q2[i].kind = "lagged" =>
            /\ q2[i].from \in (lo + 1)..q2[i].to /\ q2[i].to <= hd
            /\ ComesBy(last, w, q, n + i - 1, q2[i].from - 1) /\ q2[i].from - 1 \in Int
      BY <2>1, <2>2 DEF ItemFits, Item, News
    <3> QED BY <2>3, <3>1
  <2>5. ASSUME q2[i].kind = "event"
        PROVE  /\ q2[i].seq \in (lo + 1)..hd
               /\ IF i > 1 /\ q2[i-1].kind = "event" THEN q2[i-1].seq = q2[i].seq - 1
                  ELSE ComesBy(last, w2, q2, i - 1, q2[i].seq - 1)
    <3>1. /\ q2[i].seq \in (lo + 1)..hd
          /\ IF n + i > 1 /\ q[n+i-1].kind = "event" THEN q[n+i-1].seq = q2[i].seq - 1
             ELSE ComesBy(last, w, q, n + i - 1, q2[i].seq - 1)
      BY <2>1, <2>2, <2>5 DEF ItemFits
    <3>2. q2[i].seq - 1 \in Int
      BY <3>1
    <3>3. CASE i > 1
      <4>1. i - 1 \in 1..(Len(q) - n) /\ n + i > 1
        BY <1>1, <2>1, <3>3
      <4>2. q2[i-1] = q[n+i-1]
        BY <2>1, <4>1 DEF Without
      <4> QED BY <2>3, <3>1, <3>2, <3>3, <4>1, <4>2
    <3>4. CASE i = 1
      <4>1. n + i > 1 /\ n + i - 1 = n /\ n \in 1..n
        BY <3>4
      <4>2. CASE q[n].kind = "event"
        <5>1. q[n].seq = q2[i].seq - 1
          BY <3>1, <4>1, <4>2
        <5>2. Brings(q[n], q2[i].seq - 1)
          BY <3>2, <4>2, <5>1 DEF Brings
        <5>3. ComesBy(last, w, q, n + i - 1, q2[i].seq - 1)
          BY <4>1, <5>2 DEF ComesBy
        <5> QED BY <2>3, <3>1, <3>2, <3>4, <5>3
      <4>3. CASE q[n].kind # "event"
        BY <2>3, <3>1, <3>2, <3>4, <4>1, <4>3
      <4> QED BY <4>2, <4>3
    <3> QED BY <3>3, <3>4
  <2> QED BY <2>4, <2>5 DEF ItemFits
<1>9. \A i \in 1..Len(w2) : i \in 1..Len(w) \/ i = Len(w) + 1
  BY <1>1
<1> QED BY <1>3, <1>7, <1>8, <1>9
(* flush puts the next frame on the wire, and all still fits.              *)
LEMMA FlushFits ==
    ASSUME NEW c \in Socket, NEW last \in Nat, NEW hd \in Nat, NEW lo \in Nat,
           c.st = "attached", Len(c.queue) <= QueueMax,
           WireFits(c, last, hd, lo), QueueFits(c, last, hd, lo), SentFits(c, last, hd, lo)
    PROVE  SocketFits(Flush(c), last, hd, lo) /\ Flush(c).succ = c.succ /\ Flush(c).st = "attached"
<1>1. CASE c.sending \/ c.queue = <<>>
  BY <1>1 DEF Flush, SocketFits
<1>2. CASE ~c.sending /\ c.queue # <<>>
  <2>1. PICK q \in Seq(Item) : q = c.queue /\ q # <<>>
    BY <1>2 DEF Socket
  <2>2. PICK w \in Seq(Frame) : w = c.wire
    BY DEF Socket
  <2>3. PICK n \in 1..Len(q) : n = BatchSize(q)
    BY <2>1, BatchFits
  <2>4. /\ n \in Nat /\ n >= 1 /\ n <= Len(q) /\ Len(q) \in Nat /\ Head(q) = q[1]
        /\ \A i \in 1..n : SubSeq(q, 1, n)[i] = q[i] /\ q[i] \in Item
    BY <2>1
  <2>5. /\ q[1].kind = "event" => \A i \in 1..n : q[i].kind = "event"
        /\ q[1].kind # "event" => n = 1
    BY <2>1, <2>3, BatchFits
  <2>6. PICK f : f = IF q[1].kind = "event"
                     THEN [kind |-> "events", seqs |-> {q[i].seq : i \in 1..n}]
                     ELSE q[1]
    OBVIOUS
  <2>7. f \in Frame /\ MadeOf(f, q, n)
    <3>1. CASE q[1].kind = "event"
      <4>1. \A i \in 1..n : q[i].seq \in Nat /\ q[i].kind = "event"
        BY <2>4, <2>5, <3>1 DEF Item, News
      <4>2. f = [kind |-> "events", seqs |-> {q[i].seq : i \in 1..n}]
        BY <2>6, <3>1
      <4>3. {q[i].seq : i \in 1..n} \in SUBSET Nat
        BY <4>1
      <4> QED BY <4>1, <4>2, <4>3 DEF Frame, MadeOf
    <3>2. CASE q[1].kind # "event"
      BY <2>4, <2>5, <2>6, <3>2 DEF Frame, Item, News, MadeOf
    <3> QED BY <3>1, <3>2
  <2>8. PICK q2 : q2 = SubSeq(q, n + 1, Len(q)) /\ Without(q, n, q2)
    BY WithoutIs
  <2>9. PICK w2 : w2 = Append(w, f) /\ OneMore(w, f, w2)
    BY <2>7, OneMoreIs
  <2>10. PICK sent : sent = IF q[1].kind = "event" THEN q[n].seq ELSE c.sent
    OBVIOUS
  <2>11. Flush(c) = [c EXCEPT !.queue = q2, !.wire = w2, !.sending = TRUE, !.sent = sent]
    <3> DEFINE batch == SubSeq(c.queue, 1, BatchSize(c.queue))
               S == {batch[i].seq : i \in 1..BatchSize(c.queue)}
    <3>1. Flush(c) = [c EXCEPT
            !.queue = SubSeq(c.queue, BatchSize(c.queue) + 1, Len(c.queue)),
            !.wire = Append(c.wire, IF Head(c.queue).kind = "event"
                                    THEN [kind |-> "events", seqs |-> S] ELSE Head(c.queue)),
            !.sending = TRUE,
            !.sent = IF Head(c.queue).kind = "event"
                     THEN batch[BatchSize(c.queue)].seq ELSE c.sent]
      BY <1>2 DEF Flush
    <3>2. \A i \in 1..n : batch[i] = q[i]
      BY <2>1, <2>3, <2>4
    <3>3. S = {q[i].seq : i \in 1..n}
      BY <2>1, <2>3, <3>2
    <3>4. batch[n].seq = q[n].seq
      <4>1. n \in 1..n
        BY <2>4
      <4> HIDE DEF batch
      <4> QED BY <3>2, <4>1
    <3> HIDE DEF S, batch
    <3> QED BY <2>1, <2>2, <2>3, <2>4, <2>6, <2>8, <2>9, <2>10, <3>1, <3>3, <3>4
  <2>12. sent \in Nat
    <3>1. n \in 1..n /\ c.sent \in Nat
      BY <2>4 DEF Socket
    <3>2. q[1].kind = "event" => q[n].kind = "event" /\ q[n] \in Item
      BY <2>4, <2>5, <3>1
    <3>3. q[n].kind = "event" /\ q[n] \in Item => q[n].seq \in Nat
      BY DEF Item, News
    <3> QED BY <2>10, <3>1, <3>2, <3>3
  <2>13. PICK d \in Socket : d = Flush(c)
    BY <2>8, <2>9, <2>11, <2>12 DEF Socket, OneMore, Without
  <2>14. /\ d.st = "attached" /\ d.succ = c.succ /\ d.cursor = c.cursor /\ d.sent = sent
         /\ d.queue = q2 /\ d.wire = w2 /\ d.sending
    BY <2>11, <2>13 DEF Socket
  <2>15. /\ \A i \in 1..Len(w) : FrameFits(last, hd, lo, w, i)
         /\ \A i \in 1..Len(q) : ItemFits(last, hd, lo, w, q, i)
         /\ q[Len(q)].kind = "event" => q[Len(q)].seq = hd
         /\ ComesBy(last, w, q, Len(q), hd) /\ c.cursor = hd
    BY <2>1, <2>2 DEF WireFits, QueueFits
  <2>16. /\ \A i \in 1..Len(w2) : FrameFits(last, hd, lo, w2, i)
         /\ \A i \in 1..Len(q2) : ItemFits(last, hd, lo, w2, q2, i)
    BY <2>7, <2>8, <2>9, <2>15, BatchMoves
  <2>17. Len(q2) = Len(q) - n /\ Len(w2) = Len(w) + 1 /\ Len(w) \in Nat /\ w2[Len(w) + 1] = f
    BY <2>8, <2>9 DEF OneMore, Without
  <2>18. QueueFits(d, last, hd, lo)
    <3>1. q2 # <<>> => q2[Len(q2)] = q[Len(q)]
      <4>1. q2 # <<>> => Len(q2) \in 1..(Len(q) - n) /\ n + Len(q2) = Len(q)
        BY <2>4, <2>8, <2>17 DEF Without
      <4>2. \A i \in 1..(Len(q) - n) : q2[i] = q[n + i]
        BY <2>8 DEF Without
      <4> QED BY <4>1, <4>2
    <3>2. Len(q2) \in 0..(Len(q) - n) /\ n + Len(q2) = Len(q)
      BY <2>4, <2>17
    <3>3. \A k \in 0..(Len(q) - n) :
            ComesBy(last, w, q, n + k, hd) => ComesBy(last, w2, q2, k, hd)
      <4>1. hd \in Int /\ OneMore(w, f, w2) /\ Without(q, n, q2) /\ MadeOf(f, q, n)
        BY <2>7, <2>8, <2>9
      <4> QED BY <4>1, Shifted
    <3>4. ComesBy(last, w2, q2, Len(q2), hd)
      BY <2>15, <3>2, <3>3
    <3> QED BY <2>14, <2>15, <2>16, <3>1, <3>4 DEF QueueFits
  <2>19. SentFits(d, last, hd, lo)
    <3>1. \A m \in Int : Brings(f, m) => Comes(last, w2, Len(w2), m)
      BY <2>17 DEF Comes
    <3>2. \A j \in 1..n : \A m \in Int : Brings(q[j], m) => Brings(f, m)
      BY <2>7, MadeOfBrings
    <3>3. c.sent \in lo..hd
      BY DEF SentFits
    <3>4. CASE q[1].kind = "event"
      <4>1. ItemFits(last, hd, lo, w, q, n) /\ q[n].kind = "event" /\ sent = q[n].seq
        BY <2>4, <2>5, <2>10, <2>15, <3>4
      <4>2. sent \in lo..hd /\ Brings(q[n], sent)
        BY <2>12, <4>1 DEF ItemFits, Brings
      <4>3. Brings(f, sent)
        <5>1. n \in 1..n /\ sent \in Int
          BY <2>4, <2>12
        <5> QED BY <3>2, <4>2, <5>1
      <4> QED BY <2>12, <2>14, <3>1, <4>2, <4>3 DEF SentFits
    <3>5. CASE q[1].kind # "event" /\ Comes(last, w, Len(w), c.sent)
      <4>1. Comes(last, w2, Len(w), sent) /\ sent = c.sent
        BY <2>7, <2>9, <2>10, <2>12, <2>17, <3>5, StillComes
      <4>2. Comes(last, w2, Len(w2), sent)
        BY <2>17, <4>1 DEF Comes
      <4> QED BY <2>14, <3>3, <4>1, <4>2 DEF SentFits
    <3>6. CASE q[1].kind # "event" /\ Standing(q) /\ q[1].to = c.sent
      <4>1. sent = c.sent /\ f = q[1]
        BY <2>6, <2>10, <3>6
      <4>2. Brings(f, sent)
        BY <2>12, <3>6, <4>1 DEF Standing, Brings
      <4> QED BY <2>12, <2>14, <3>1, <3>3, <4>1, <4>2 DEF SentFits
    <3> QED BY <2>1, <2>2, <3>4, <3>5, <3>6 DEF SentFits
  <2>20. WireFits(d, last, hd, lo) /\ Len(d.queue) <= QueueMax
    BY <2>1, <2>4, <2>14, <2>16, <2>17, Bounds DEF WireFits
  <2>21. SocketFits(d, last, hd, lo)
    BY <2>14, <2>18, <2>19, <2>20 DEF SocketFits
  <2> QED BY <2>13, <2>14, <2>21
<1> QED BY <1>1, <1>2

(* What is appended to a queue leaves what was there as it fits.           *)
LEMMA AppendFits ==
    ASSUME NEW w, NEW q \in Seq(Item), NEW x \in Item,
           NEW last \in Nat, NEW hd \in Nat, NEW lo \in Nat,
           NEW i \in 1..Len(q), ItemFits(last, hd, lo, w, q, i)
    PROVE  ItemFits(last, hd, lo, w, Append(q, x), i)
<1>1. PICK q2 : q2 = Append(q, x)
  OBVIOUS
<1>2. \A j \in 1..Len(q) : q2[j] = q[j]
  BY <1>1
<1>3. Len(q) \in Nat /\ (i > 1 => i - 1 \in 1..Len(q)) /\ \A j \in 1..(i - 1) : j \in 1..Len(q)
  OBVIOUS
<1>4. \A n : ComesBy(last, w, q, i - 1, n) => ComesBy(last, w, q2, i - 1, n)
  BY <1>2, <1>3 DEF ComesBy
<1>5. q2[i] = q[i] /\ (i > 1 => q2[i-1] = q[i-1])
  BY <1>2, <1>3
<1>6. ItemFits(last, hd, lo, w, q2, i)
  BY <1>4, <1>5 DEF ItemFits
<1> QED BY <1>1, <1>6

(* What the head says of an item does not hold less when the head moves on. *)
LEMMA ItemFitsLater ==
    ASSUME NEW w, NEW q \in Seq(Item), NEW last \in Nat, NEW hd \in Nat, NEW lo \in Nat,
           NEW i \in 1..Len(q), ItemFits(last, hd, lo, w, q, i)
    PROVE  ItemFits(last, hd + 1, lo, w, q, i)
<1>1. q[i] \in Item
  OBVIOUS
<1>2. q[i].kind = "lagged" => q[i].to \in Nat
  BY <1>1 DEF Item, News
<1> QED BY <1>2 DEF ItemFits

(* What the items and frames are made of.                                  *)
LEMMA ItemsAre ==
    /\ Snapshot \in Item /\ CaughtUp \in Item
    /\ Snapshot.kind = "snapshot" /\ CaughtUp.kind = "caught_up"
    /\ \A n \in Nat : Event(n) \in Item /\ Event(n).kind = "event" /\ Event(n).seq = n
    /\ \A m, n \in Nat : /\ Lagged(m, n) \in Item /\ Lagged(m, n).kind = "lagged"
                         /\ Lagged(m, n).from = m /\ Lagged(m, n).to = n
    /\ \A n \in Nat : Hello(n) \in Frame /\ Hello(n).kind = "hello" /\ Hello(n).since = n
BY DEF Item, Frame, News, Snapshot, CaughtUp, Event, Lagged, Hello

(* A collapse gives up the queue and closes nothing over: what it says     *)
(* begins where the client will be when it has heeded what was sent.       *)
LEMMA CollapseFits ==
    ASSUME NEW c \in Socket, NEW last \in Nat, NEW hd \in Nat, NEW lo \in Nat,
           NEW replaying \in BOOLEAN, c.st = "attached", c.sending,
           WireFits(c, last, hd, lo), c.sent \in lo..hd,
           \/ Comes(last, c.wire, Len(c.wire), c.sent)
           \/ ~replaying /\ c.collapsed
    PROVE  LET d == Collapse(c, hd, replaying)
           IN /\ SocketFits(d, last, hd, lo) /\ d.succ = c.succ /\ d.st \in {"attached", "ended"}
              /\ replaying => d.st = "attached" /\ d.sending /\ Len(d.queue) <= 2
<1>1. PICK news : news = IF hd > c.sent THEN <<Lagged(c.sent + 1, hd)>> ELSE <<>>
  OBVIOUS
<1>2. PICK q : q = Append(news, Snapshot)
  OBVIOUS
<1>3. news \in Seq(Item) /\ c.sent \in Nat /\ Snapshot \in Item
  <2>1. c.sent \in Nat /\ c.sent + 1 \in Nat
    BY DEF Socket
  <2> QED BY <1>1, <2>1, ItemsAre
<1>4. q \in Seq(Item) /\ Len(q) = Len(news) + 1 /\ Len(q) <= 2 /\ Len(q) >= 1
  BY <1>1, <1>2, <1>3
<1>5. PICK e : e = [c EXCEPT !.queue = q, !.cursor = hd, !.sent = hd,
                             !.collapsed = @ \/ ~replaying]
  OBVIOUS
<1>6. Collapse(c, hd, replaying) = IF ~replaying /\ c.collapsed THEN Ended(e, 4003) ELSE e
  BY <1>1, <1>2, <1>5 DEF Collapse
<1>7. /\ e \in Socket /\ e.st = "attached" /\ e.wire = c.wire /\ e.succ = c.succ
      /\ e.queue = q /\ e.cursor = hd /\ e.sent = hd /\ e.sending
  BY <1>4, <1>5 DEF Socket
<1>8. WireFits(e, last, hd, lo)
  BY <1>7 DEF WireFits
<1>9. CASE ~replaying /\ c.collapsed
  <2>1. SocketFits(Ended(e, 4003), last, hd, lo)
    BY <1>7, <1>8, EndedFits
  <2>2. Ended(e, 4003).succ = c.succ /\ Ended(e, 4003).st = "ended"
    BY <1>7 DEF Ended, Unused
  <2> QED BY <1>6, <1>9, <2>1, <2>2
<1>10. CASE ~(~replaying /\ c.collapsed)
  <2>1. Comes(last, c.wire, Len(c.wire), c.sent)
    BY <1>10
  <2>2. CASE hd > c.sent
    <3>1. /\ Len(q) = 2 /\ q[1] = Lagged(c.sent + 1, hd) /\ q[2] = Snapshot
      BY <1>1, <1>2, <2>2
    <3>2. q[1].kind = "lagged" /\ q[1].from = c.sent + 1 /\ q[1].to = hd
      BY <1>3, <3>1, ItemsAre
    <3>3. q[2].kind = "snapshot"
      BY <3>1, ItemsAre
    <3>4. ItemFits(last, hd, lo, c.wire, q, 1)
      <4>1. ComesBy(last, c.wire, q, 0, c.sent) /\ (c.sent + 1) - 1 = c.sent
        BY <1>3, <2>1 DEF ComesBy
      <4> QED BY <1>3, <2>2, <3>2, <4>1 DEF ItemFits
    <3>5. ItemFits(last, hd, lo, c.wire, q, 2)
      BY <3>3 DEF ItemFits
    <3>6. ComesBy(last, c.wire, q, 2, hd)
      <4>1. Brings(q[1], hd) /\ 1 \in 1..2
        BY <3>2 DEF Brings
      <4> QED BY <4>1 DEF ComesBy
    <3>7. QueueFits(e, last, hd, lo)
      BY <1>7, <3>1, <3>3, <3>4, <3>5, <3>6 DEF QueueFits
    <3>8. SentFits(e, last, hd, lo)
      BY <1>3, <1>7, <3>1, <3>2 DEF SentFits, Standing
    <3> QED BY <1>4, <1>6, <1>7, <1>8, <1>10, <3>7, <3>8, Bounds DEF SocketFits
  <2>3. CASE ~(hd > c.sent)
    <3>1. Len(q) = 1 /\ q[1] = Snapshot /\ hd = c.sent
      BY <1>1, <1>2, <1>3, <2>3
    <3>2. q[1].kind = "snapshot"
      BY <3>1, ItemsAre
    <3>3. ItemFits(last, hd, lo, c.wire, q, 1)
      BY <3>2 DEF ItemFits
    <3>4. ComesBy(last, c.wire, q, 1, hd)
      BY <2>1, <3>1 DEF ComesBy
    <3>5. QueueFits(e, last, hd, lo)
      BY <1>7, <3>1, <3>2, <3>3, <3>4 DEF QueueFits
    <3>6. SentFits(e, last, hd, lo)
      BY <1>3, <1>7, <2>1, <3>1 DEF SentFits
    <3> QED BY <1>4, <1>6, <1>7, <1>8, <1>10, <3>5, <3>6, Bounds DEF SocketFits
  <2> QED BY <2>2, <2>3
<1> QED BY <1>9, <1>10

(* An item that follows on from what is there is queued and, if the socket *)
(* is free, sent; or the queue is given up.                                *)
LEMMA EnqueueFits ==
    ASSUME NEW c \in Socket, NEW last \in Nat, NEW hd \in Nat, NEW lo \in Nat, NEW x \in Item,
           c.st = "attached", c.cursor = hd, Len(c.queue) <= QueueMax,
           c.queue # <<>> => c.sending,
           Len(c.queue) = QueueMax /\ Standing(c.queue) => c.collapsed,
           WireFits(c, last, hd, lo), SentFits(c, last, hd, lo),
           \A i \in 1..Len(c.queue) : ItemFits(last, hd, lo, c.wire, c.queue, i),
           ItemFits(last, hd, lo, c.wire, Append(c.queue, x), Len(c.queue) + 1),
           x.kind = "event" => x.seq = hd,
           ComesBy(last, c.wire, Append(c.queue, x), Len(c.queue) + 1, hd)
    PROVE  LET d == Enqueue(c, x, hd)
           IN SocketFits(d, last, hd, lo) /\ d.succ = c.succ /\ d.st \in {"attached", "ended"}
<1>1. PICK q \in Seq(Item) : q = c.queue
  BY DEF Socket
<1>2. PICK q2 : q2 = Append(q, x)
  OBVIOUS
<1>3. /\ q2 \in Seq(Item) /\ Len(q) \in Nat /\ Len(q2) = Len(q) + 1 /\ q2[Len(q2)] = x
      /\ \A i \in 1..Len(q) : q2[i] = q[i]
  BY <1>2
<1>4. PICK e : e = [c EXCEPT !.queue = q2]
  OBVIOUS
<1>5. e \in Socket /\ e = [c EXCEPT !.queue = Append(@, x)]
  BY <1>1, <1>2, <1>3, <1>4 DEF Socket
<1>6. /\ e.st = "attached" /\ e.wire = c.wire /\ e.succ = c.succ /\ e.queue = q2
      /\ e.cursor = hd /\ e.sent = c.sent /\ e.sending = c.sending
  BY <1>4, <1>5 DEF Socket
<1>7. Enqueue(c, x, hd) = IF Len(q2) > QueueMax THEN Collapse(e, hd, FALSE) ELSE Flush(e)
  <2>1. e.queue = q2
    BY <1>6
  <2> QED BY <1>5, <2>1 DEF Enqueue
<1>8. WireFits(e, last, hd, lo)
  BY <1>6 DEF WireFits
<1>9. CASE Len(q2) > QueueMax
  <2>1. Len(q) = QueueMax /\ q # <<>>
    BY <1>1, <1>3, <1>9, Bounds
  <2>2. c.sending
    BY <1>1, <2>1
  <2>3. c.collapsed = e.collapsed
    BY <1>4 DEF Socket
  <2>4. Comes(last, e.wire, Len(e.wire), e.sent) \/ e.collapsed
    BY <1>1, <1>6, <2>1, <2>3 DEF SentFits
  <2>5. e.sent \in lo..hd
    BY <1>6 DEF SentFits
  <2>6. LET d == Collapse(e, hd, FALSE)
        IN SocketFits(d, last, hd, lo) /\ d.succ = e.succ /\ d.st \in {"attached", "ended"}
    BY <1>5, <1>6, <1>8, <2>2, <2>4, <2>5, CollapseFits
  <2> QED BY <1>6, <1>7, <1>9, <2>6
<1>10. CASE ~(Len(q2) > QueueMax)
  <2>1. \A i \in 1..Len(q2) : ItemFits(last, hd, lo, e.wire, e.queue, i)
    <3>1. \A i \in 1..Len(q) : ItemFits(last, hd, lo, c.wire, q2, i)
      BY <1>1, <1>2, AppendFits
    <3>2. ItemFits(last, hd, lo, c.wire, q2, Len(q) + 1)
      BY <1>1, <1>2
    <3>3. \A i \in 1..Len(q2) : i \in 1..Len(q) \/ i = Len(q) + 1
      BY <1>3
    <3> QED BY <1>6, <3>1, <3>2, <3>3
  <2>2. QueueFits(e, last, hd, lo)
    BY <1>1, <1>2, <1>3, <1>6, <2>1 DEF QueueFits
  <2>3. SentFits(e, last, hd, lo)
    <3>1. Standing(q) => Standing(q2) /\ q2[1] = q[1]
      BY <1>3 DEF Standing
    <3> QED BY <1>1, <1>6, <3>1 DEF SentFits
  <2>4. Len(e.queue) <= QueueMax
    BY <1>3, <1>6, <1>10, Bounds
  <2>5. SocketFits(Flush(e), last, hd, lo) /\ Flush(e).succ = e.succ /\ Flush(e).st = "attached"
    BY <1>5, <1>6, <1>8, <2>2, <2>3, <2>4, FlushFits
  <2> QED BY <1>6, <1>7, <1>10, <2>5
<1> QED BY <1>9, <1>10

-----------------------------------------------------------------------------
(* One socket, when something is sent to it.                               *)

(* No frame refers to the head but as a bound.                             *)
LEMMA IdleFits ==
    ASSUME NEW c, NEW last \in Nat, NEW hd \in Nat, NEW lo \in Nat,
           SocketFits(c, last, hd, lo), c.st # "attached"
    PROVE  SocketFits(c, last, hd + 1, lo)
<1>1. c \in Socket /\ WireFits(c, last, hd, lo)
  BY DEF SocketFits
<1>2. WireFits(c, last, hd + 1, lo)
  BY <1>1, WireFitsLater
<1> QED BY <1>1, <1>2 DEF SocketFits

(* A control frame: a snapshot, or the end of the backlog.                 *)
LEMMA ControlFits ==
    ASSUME NEW c, NEW last \in Nat, NEW lo \in Nat, head \in Nat,
           NEW x \in {Snapshot, CaughtUp}, SocketFits(c, last, head, lo),
           Len(c.queue) = QueueMax /\ Standing(c.queue) => c.collapsed
    PROVE  /\ SocketFits(Control(c, x), last, head, lo) /\ Control(c, x).succ = c.succ
           /\ c.st # "unused" => Control(c, x).st # "unused"
<1>1. c \in Socket
  BY DEF SocketFits
<1>2. CASE c.st # "attached"
  <2>1. Control(c, x) = c
    BY <1>2 DEF Control, Enqueue
  <2> QED BY <2>1
<1>3. CASE c.st = "attached"
  <2>1. PICK q \in Seq(Item) : q = c.queue
    BY <1>1 DEF Socket
  <2>2. x \in Item /\ x.kind # "event" /\ x.kind # "lagged"
    BY ItemsAre
  <2>3. PICK q2 : q2 = Append(q, x)
    OBVIOUS
  <2>4. /\ Len(q) \in Nat /\ q2[Len(q) + 1] = x /\ \A i \in 1..Len(q) : q2[i] = q[i]
    BY <2>1, <2>3
  <2>5. ItemFits(last, head, lo, c.wire, q2, Len(q) + 1)
    BY <2>2, <2>4 DEF ItemFits
  <2>6. ComesBy(last, c.wire, q2, Len(q) + 1, head)
    <3>1. ComesBy(last, c.wire, q, Len(q), head)
      BY <1>3, <2>1 DEF SocketFits, QueueFits
    <3> QED BY <2>4, <3>1 DEF ComesBy
  <2>7. LET d == Enqueue(c, x, head)
        IN SocketFits(d, last, head, lo) /\ d.succ = c.succ /\ d.st \in {"attached", "ended"}
    BY <1>1, <1>3, <2>1, <2>2, <2>3, <2>5, <2>6, EnqueueFits DEF SocketFits, QueueFits
  <2> QED BY <2>7 DEF Control
<1> QED BY <1>2, <1>3

(* The next event of the log.                                              *)
LEMMA EmitFits ==
    ASSUME NEW c, NEW last \in Nat, NEW hd \in Nat, NEW lo \in Nat, lo <= hd,
           SocketFits(c, last, hd, lo),
           Len(c.queue) = QueueMax /\ Standing(c.queue) => c.collapsed
    PROVE  /\ SocketFits(Emit(c, hd + 1), last, hd + 1, lo) /\ Emit(c, hd + 1).succ = c.succ
           /\ c.st # "unused" => Emit(c, hd + 1).st # "unused"
<1>1. c \in Socket
  BY DEF SocketFits
<1>2. CASE c.st # "attached"
  <2>1. Emit(c, hd + 1) = c
    BY <1>2 DEF Emit
  <2> QED BY <1>2, <2>1, IdleFits
<1>3. CASE c.st = "attached"
  <2>1. PICK q \in Seq(Item) : q = c.queue
    BY <1>1 DEF Socket
  <2>2. PICK x : x = Event(hd + 1)
    OBVIOUS
  <2>3. x \in Item /\ x.kind = "event" /\ x.seq = hd + 1
    BY <2>2, ItemsAre
  <2>4. PICK q2 : q2 = Append(q, x)
    OBVIOUS
  <2>5. /\ Len(q) \in Nat /\ q2[Len(q) + 1] = x /\ \A i \in 1..Len(q) : q2[i] = q[i]
    BY <2>1, <2>4
  <2>6. /\ \A i \in 1..Len(q) : ItemFits(last, hd, lo, c.wire, q, i)
        /\ q # <<>> /\ q[Len(q)].kind = "event" => q[Len(q)].seq = hd
        /\ ComesBy(last, c.wire, q, Len(q), hd) /\ c.cursor = hd
        /\ WireFits(c, last, hd, lo) /\ SentFits(c, last, hd, lo)
        /\ Len(q) <= QueueMax /\ (q # <<>> => c.sending)
    BY <1>3, <2>1 DEF SocketFits, QueueFits
  <2>7. ItemFits(last, hd + 1, lo, c.wire, q2, Len(q) + 1)
    <3>1. ComesBy(last, c.wire, q2, Len(q), hd)
      BY <2>5, <2>6 DEF ComesBy
    <3>2. Len(q) + 1 > 1 => q2[Len(q)] = q[Len(q)] /\ q # <<>>
      BY <2>1, <2>5
    <3>3. (hd + 1) - 1 = hd /\ (Len(q) + 1) - 1 = Len(q) /\ hd + 1 \in (lo + 1)..(hd + 1)
      BY <2>5
    <3> QED BY <2>3, <2>5, <2>6, <3>1, <3>2, <3>3 DEF ItemFits
  <2>8. ComesBy(last, c.wire, q2, Len(q) + 1, hd + 1)
    <3>1. Brings(q2[Len(q) + 1], hd + 1) /\ Len(q) + 1 \in 1..(Len(q) + 1)
      BY <2>3, <2>5 DEF Brings
    <3> QED BY <3>1 DEF ComesBy
  <2>9. PICK e : e = [c EXCEPT !.cursor = hd + 1]
    OBVIOUS
  <2>10. /\ e \in Socket /\ e.st = "attached" /\ e.cursor = hd + 1 /\ e.queue = c.queue
         /\ e.wire = c.wire /\ e.sent = c.sent /\ e.sending = c.sending
         /\ e.collapsed = c.collapsed /\ e.succ = c.succ
    <3>1. hd + 1 \in Nat
      OBVIOUS
    <3> QED BY <1>1, <1>3, <2>9, <3>1 DEF Socket
  <2>11. Emit(c, hd + 1) = Enqueue(e, x, hd + 1)
    BY <1>3, <2>2, <2>6, <2>9 DEF Emit
  <2>12. WireFits(e, last, hd + 1, lo)
    <3>1. WireFits(c, last, hd + 1, lo)
      BY <1>1, <2>6, WireFitsLater
    <3> QED BY <2>10, <3>1 DEF WireFits
  <2>13. SentFits(e, last, hd + 1, lo)
    BY <2>6, <2>10, <2>1 DEF SentFits
  <2>14. \A i \in 1..Len(q) : ItemFits(last, hd + 1, lo, c.wire, q, i)
    BY <2>6, ItemFitsLater
  <2>15. LET d == Enqueue(e, x, hd + 1)
         IN SocketFits(d, last, hd + 1, lo) /\ d.succ = e.succ /\ d.st \in {"attached", "ended"}
    <3>1. hd + 1 \in Nat
      OBVIOUS
    <3>2. /\ Len(e.queue) = QueueMax /\ Standing(e.queue) => e.collapsed
          /\ e.queue # <<>> => e.sending
          /\ Len(e.queue) <= QueueMax
      BY <2>1, <2>6, <2>10
    <3>3. /\ \A i \in 1..Len(e.queue) : ItemFits(last, hd + 1, lo, e.wire, e.queue, i)
          /\ ItemFits(last, hd + 1, lo, e.wire, Append(e.queue, x), Len(e.queue) + 1)
          /\ ComesBy(last, e.wire, Append(e.queue, x), Len(e.queue) + 1, hd + 1)
      BY <2>1, <2>4, <2>7, <2>8, <2>10, <2>14
    <3> QED BY <2>3, <2>10, <2>12, <2>13, <3>1, <3>2, <3>3, EnqueueFits
  <2> QED BY <2>10, <2>11, <2>15
<1> QED BY <1>2, <1>3

-----------------------------------------------------------------------------
(* One socket, when it is attached.                                        *)

(* What the store still has of the log, and what a replay makes of it.     *)
LEMMA RowsAre ==
    ASSUME StreamType, RowsFit
    PROVE  /\ OldestAvailable \in 1..(head + 1)
           /\ rows = OldestAvailable..head
           /\ OldestAvailable = head + 1 => head = 0
           /\ Max(rows \cup {0}) = head
<1>1. head \in Nat /\ rows \subseteq 1..head
  BY DEF StreamType
<1>2. CASE rows = {}
  <2>1. head = 0
    BY <1>1, <1>2 DEF RowsFit
  <2>2. Max(rows \cup {0}) \in rows \cup {0}
    BY <1>2, GreatestOf
  <2> QED BY <1>2, <2>1, <2>2 DEF OldestAvailable
<1>3. CASE rows # {}
  <2>1. rows \in SUBSET Nat
    BY <1>1
  <2>2. OldestAvailable \in rows /\ \A j \in rows : OldestAvailable <= j
    BY <1>3, <2>1, LeastOf DEF OldestAvailable
  <2>3. head > 0 /\ head \in rows
    BY <1>1, <2>2 DEF RowsFit
  <2>4. rows = OldestAvailable..head
    <3>1. PICK k \in Nat : k = OldestAvailable
      BY <2>1, <2>2
    <3>2. k..head \subseteq rows
      BY <2>2, <3>1 DEF RowsFit
    <3>3. rows \subseteq k..head
      BY <1>1, <2>1, <2>2, <3>1
    <3> QED BY <3>1, <3>2, <3>3
  <2>5. Max(rows \cup {0}) = head
    <3>1. PICK T : T = rows \cup {0}
      OBVIOUS
    <3>2. T \in SUBSET Nat /\ head \in T /\ \A j \in T : j <= head
      BY <1>1, <2>3, <3>1
    <3>3. Max(T) \in T /\ \A j \in T : j <= Max(T)
      BY <1>1, <3>2, GreatestOf
    <3>4. Max(T) \in Nat /\ Max(T) <= head /\ head <= Max(T)
      BY <3>2, <3>3
    <3>5. Max(T) = head
      BY <1>1, <3>4
    <3> QED BY <3>1, <3>5
  <2> QED BY <1>1, <2>2, <2>3, <2>4, <2>5
<1> QED BY <1>2, <1>3

FirstAfter(k, since) == Larger(k, since + 1)
Run(a, N) == [i \in 1..N |-> Event(a + i - 1)]

(* What a replay sends is the rows after a number, one by one up to the    *)
(* head.                                                                   *)
LEMMA ReplayIs ==
    ASSUME NEW k \in Nat \ {0}, head \in Nat, k <= head + 1, rows = k..head,
           NEW since \in 0..head
    PROVE  /\ FirstAfter(k, since) \in 1..(head + 1)
           /\ Replay(since) = Run(FirstAfter(k, since), head + 1 - FirstAfter(k, since))
<1>0. PICK a : a = FirstAfter(k, since)
  OBVIOUS
<1>1. a \in 1..(head + 1)
  BY <1>0 DEF FirstAfter, Larger
<1> DEFINE later == {n \in rows : n > since}
           nth(i) == CHOOSE n \in later : Cardinality({m \in later : m <= n}) = i
<1>2. later = a..head
  BY <1>0, <1>1 DEF FirstAfter, Larger
<1>3. Replay(since) = [i \in 1..Cardinality(later) |-> Event(nth(i))]
  BY DEF Replay
<1> HIDE DEF later
<1>4. \A n \in (a - 1)..head : Cardinality(a..n) = n + 1 - a
  <2> TAKE n \in (a - 1)..head
  <2>1. a \in Int /\ n \in Int
    BY <1>1
  <2>2. Cardinality(a..n) = IF a > n THEN 0 ELSE n - a + 1
    BY <2>1, FS_Interval
  <2> QED BY <1>1, <2>1, <2>2
<1>5. Cardinality(later) = head + 1 - a
  BY <1>1, <1>2, <1>4
<1>6. ASSUME NEW i \in 1..(head + 1 - a)
      PROVE  nth(i) = a + i - 1
  <2>1. \A n \in later : Cardinality({m \in later : m <= n}) = n + 1 - a
    <3> TAKE n \in later
    <3>1. n \in a..head /\ n \in (a - 1)..head
      BY <1>1, <1>2
    <3>2. {m \in later : m <= n} = a..n
      BY <1>1, <1>2
    <3> QED BY <1>4, <3>1, <3>2
  <2>2. a + i - 1 \in later /\ (a + i - 1) + 1 - a = i
    BY <1>1, <1>2
  <2>3. \A n \in later : n + 1 - a = i => n = a + i - 1
    BY <1>1, <1>2
  <2> QED BY <2>1, <2>2, <2>3
<1> HIDE DEF nth
<1>7. \A i \in 1..(head + 1 - a) : Event(nth(i)) = Event(a + i - 1)
  BY <1>6
<1>8. Replay(since) = [i \in 1..(head + 1 - a) |-> Event(a + i - 1)]
  BY <1>1, <1>3, <1>5, <1>7
<1> QED BY <1>0, <1>1, <1>8 DEF Run

(* Events that follow on from what is queued before them.                  *)
LEMMA Joined ==
    ASSUME NEW S, NEW s \in Seq(S), NEW t \in Seq(S)
    PROVE  /\ s \o t \in Seq(S) /\ Len(s) \in Nat /\ Len(s \o t) = Len(s) + Len(t)
           /\ \A i \in 1..Len(s) : (s \o t)[i] = s[i]
           /\ \A i \in 1..Len(t) : (s \o t)[Len(s) + i] = t[i]
OBVIOUS

Leads(w, last, hd, lo, a, N, p) ==
    /\ last \in Nat /\ hd \in Nat /\ lo \in Nat /\ a \in Nat /\ N \in Nat
    /\ lo < a /\ a + N = hd + 1 /\ p \in Seq(Item)
    /\ \A i \in 1..Len(p) : p[i].kind = "lagged" /\ ItemFits(last, hd, lo, w, p, i)
    /\ ComesBy(last, w, p, Len(p), a - 1)

BacklogFits(w, last, hd, lo, q) ==
    /\ q \in Seq(Item)
    /\ \A i \in 1..Len(q) : ItemFits(last, hd, lo, w, q, i) /\ q[i] # Snapshot
    /\ q # <<>> /\ q[Len(q)].kind = "event" => q[Len(q)].seq = hd
    /\ ComesBy(last, w, q, Len(q), hd)

(* A backlog of rows follows on from what leads up to it.                  *)
LEMMA RunFits ==
    ASSUME NEW w, NEW last, NEW hd, NEW lo, NEW a, NEW N, NEW p,
           Leads(w, last, hd, lo, a, N, p), NEW q, q = p \o Run(a, N)
    PROVE  BacklogFits(w, last, hd, lo, q)
<1>. /\ last \in Nat /\ hd \in Nat /\ lo \in Nat /\ a \in Nat /\ N \in Nat
     /\ lo < a /\ a + N = hd + 1 /\ p \in Seq(Item)
  BY DEF Leads
<1>0. /\ \A i \in 1..Len(p) : p[i].kind = "lagged" /\ ItemFits(last, hd, lo, w, p, i)
      /\ ComesBy(last, w, p, Len(p), a - 1)
  BY DEF Leads
<1>1. PICK r : r = Run(a, N)
  OBVIOUS
<1>2. /\ r \in Seq(Item) /\ Len(r) = N
      /\ \A i \in 1..N : r[i].kind = "event" /\ r[i].seq = a + i - 1
  <2>1. \A i \in 1..N : a + i - 1 \in Nat
    OBVIOUS
  <2>2. \A i \in 1..N : Event(a + i - 1) \in Item
    BY <2>1, ItemsAre
  <2>3. r = [i \in 1..N |-> Event(a + i - 1)]
    BY <1>1 DEF Run
  <2>4. r \in Seq(Item) /\ Len(r) = N
    BY <2>2, <2>3
  <2> QED BY <2>1, <2>3, <2>4, ItemsAre
<1>3. /\ q \in Seq(Item) /\ Len(p) \in Nat /\ Len(q) = Len(p) + N
      /\ \A i \in 1..Len(p) : q[i] = p[i]
      /\ \A i \in 1..N : q[Len(p) + i] = r[i]
  <2>1. q = p \o r
    BY <1>1
  <2>2. /\ p \o r \in Seq(Item) /\ Len(p) \in Nat /\ Len(p \o r) = Len(p) + N
        /\ \A i \in 1..Len(p) : (p \o r)[i] = p[i]
        /\ \A i \in 1..N : (p \o r)[Len(p) + i] = r[i]
    <3>1. /\ p \o r \in Seq(Item) /\ Len(p) \in Nat /\ Len(p \o r) = Len(p) + Len(r)
          /\ \A i \in 1..Len(p) : (p \o r)[i] = p[i]
          /\ \A i \in 1..Len(r) : (p \o r)[Len(p) + i] = r[i]
      <4>1. p \in Seq(Item) /\ r \in Seq(Item)
        BY <1>2
      <4>2. p \o r \in Seq(Item) /\ Len(p) \in Nat /\ Len(p \o r) = Len(p) + Len(r)
        BY <4>1, Joined, Zenon
      <4>3. \A i \in 1..Len(p) : (p \o r)[i] = p[i]
        BY <4>1, Joined, Zenon
      <4>4. \A i \in 1..Len(r) : (p \o r)[Len(p) + i] = r[i]
        <5> TAKE i \in 1..Len(r)
        <5>1. \A s, t \in Seq(Item) : \A j \in 1..Len(t) : (s \o t)[Len(s) + j] = t[j]
          OBVIOUS
        <5> QED BY <4>1, <5>1
      <4> QED BY <4>2, <4>3, <4>4
    <3> QED BY <1>2, <3>1
  <2> QED BY <2>1, <2>2
<1>4. \A i \in 1..Len(q) : i \in 1..Len(p) \/ (i - Len(p) \in 1..N /\ i = Len(p) + (i - Len(p)))
  BY <1>2, <1>3
<1>5. \A i \in 0..Len(p) : \A n : ComesBy(last, w, p, i, n) => ComesBy(last, w, q, i, n)
  <2> TAKE i \in 0..Len(p)
  <2> TAKE n
  <2>1. \A j \in 1..i : q[j] = p[j]
    BY <1>3
  <2> QED BY <2>1 DEF ComesBy
<1>6. ASSUME NEW i \in 1..Len(p) PROVE ItemFits(last, hd, lo, w, q, i) /\ q[i].kind = "lagged"
  <2>1. q[i] = p[i] /\ p[i].kind = "lagged" /\ ItemFits(last, hd, lo, w, p, i) /\ i - 1 \in 0..Len(p)
    BY <1>0, <1>3
  <2> QED BY <1>5, <2>1 DEF ItemFits
<1>7. ASSUME NEW i \in 1..Len(q), NEW j \in 1..N, i = Len(p) + j
      PROVE  ItemFits(last, hd, lo, w, q, i) /\ q[i].kind = "event"
  <2>1. q[i] = r[j] /\ r[j].kind = "event" /\ r[j].seq = a + j - 1 /\ j \in Nat
    BY <1>2, <1>3, <1>7
  <2>2. a + j - 1 \in (lo + 1)..hd
    BY <1>2
  <2>3. CASE j > 1
    <3>1. PICK h \in 1..N : j = h + 1
      <4>1. j - 1 \in 1..N /\ j = (j - 1) + 1
        BY <2>3
      <4> QED BY <4>1
    <3>2. i - 1 = Len(p) + h /\ i > 1 /\ (a + j - 1) - 1 = a + h - 1
      BY <1>3, <1>7, <3>1
    <3>3. q[i - 1].kind = "event" /\ q[i - 1].seq = (a + j - 1) - 1
      <4>1. q[Len(p) + h] = r[h] /\ r[h].kind = "event" /\ r[h].seq = a + h - 1
        BY <1>2, <1>3
      <4> QED BY <3>2, <4>1
    <3> QED BY <2>1, <2>2, <3>2, <3>3 DEF ItemFits
  <2>4. CASE j = 1
    <3>1. i - 1 = Len(p) /\ a + j - 1 = a /\ Len(p) \in 0..Len(p)
      BY <1>3, <1>7, <2>4
    <3>2. ComesBy(last, w, q, Len(p), a - 1)
      <4>1. a - 1 \in Int /\ ComesBy(last, w, p, Len(p), a - 1)
        BY <1>0
      <4> QED BY <1>5, <3>1, <4>1
    <3>3. i > 1 => q[Len(p)].kind = "lagged"
      <4>1. i > 1 => Len(p) \in 1..Len(p)
        BY <1>3, <1>7, <2>4
      <4> QED BY <1>6, <4>1
    <3> QED BY <2>1, <2>2, <3>1, <3>2, <3>3 DEF ItemFits
  <2> QED BY <2>1, <2>3, <2>4
<1>8. \A i \in 1..Len(q) : ItemFits(last, hd, lo, w, q, i) /\ q[i] # Snapshot
  <2> TAKE i \in 1..Len(q)
  <2>1. ItemFits(last, hd, lo, w, q, i) /\ q[i].kind \in {"lagged", "event"}
    BY <1>4, <1>6, <1>7
  <2> QED BY <2>1, ItemsAre
<1>9. CASE N > 0
  <2>1. N \in 1..N /\ q[Len(q)] = r[N] /\ r[N].seq = hd
    <3>1. N \in 1..N /\ a + N - 1 = hd
      BY <1>9
    <3> QED BY <1>2, <1>3, <3>1
  <2>2. Brings(q[Len(q)], hd) /\ Len(q) \in 1..Len(q)
    BY <1>2, <1>3, <1>9, <2>1 DEF Brings
  <2> QED BY <1>3, <1>8, <2>1, <2>2 DEF ComesBy, BacklogFits
<1>10. CASE N = 0
  <2>1. a - 1 = hd /\ Len(q) = Len(p)
    BY <1>2, <1>3, <1>10
  <2>2. ComesBy(last, w, q, Len(q), hd)
    <3>1. Len(p) \in 0..Len(p) /\ ComesBy(last, w, p, Len(p), hd)
      BY <1>0, <1>3, <2>1
    <3> QED BY <1>5, <2>1, <3>1
  <2>3. q # <<>> => q[Len(q)].kind = "lagged"
    BY <1>3, <1>6, <2>1
  <2> QED BY <1>3, <1>8, <2>2, <2>3 DEF BacklogFits
<1>11. N > 0 \/ N = 0
  OBVIOUS
<1> QED BY <1>9, <1>10, <1>11

(* Queues of one item and of two.                                          *)
LEMMA Singly ==
    ASSUME NEW S, NEW x \in S
    PROVE  <<x>> \in Seq(S) /\ Len(<<x>>) = 1 /\ <<x>>[1] = x
OBVIOUS

LEMMA Doubly ==
    ASSUME NEW S, NEW x \in S, NEW y \in S
    PROVE  /\ <<x, y>> \in Seq(S) /\ Len(<<x, y>>) = 2
           /\ <<x, y>>[1] = x /\ <<x, y>>[2] = y /\ <<x>> \o <<y>> = <<x, y>>
<1>1. /\ <<x, y>> \in Seq(S) /\ Len(<<x, y>>) = 2
      /\ <<x, y>>[1] = x /\ <<x, y>>[2] = y
  OBVIOUS
<1>2. /\ <<x>> \o <<y>> \in Seq(S) /\ Len(<<x>> \o <<y>>) = 2
      /\ (<<x>> \o <<y>>)[1] = x /\ (<<x>> \o <<y>>)[2] = y
  OBVIOUS
<1>3. \A s, t \in Seq(S) :
        Len(s) = 2 /\ Len(t) = 2 /\ s[1] = t[1] /\ s[2] = t[2] => s = t
  OBVIOUS
<1> QED BY <1>1, <1>2, <1>3

(* What is announced before the replay: what was evicted, then what is     *)
(* declined.  It leads up to the first event replayed.                     *)
Skipped(asked, k) == Larger(asked, k - 1)
Evicted(asked, k) == IF asked < k - 1 THEN <<Lagged(asked + 1, k - 1)>> ELSE <<>>
Declined(asked, since, k) ==
    IF since > Skipped(asked, k) THEN <<Lagged(Skipped(asked, k) + 1, since)>> ELSE <<>>
Announced(asked, since, k) == Evicted(asked, k) \o Declined(asked, since, k)

Asks(w, last, hd, lo, asked, since, k) ==
    /\ last \in Nat /\ hd \in Nat /\ lo \in Nat
    /\ asked \in lo..hd /\ asked <= last /\ since \in asked..hd /\ k \in 1..(hd + 1)
    /\ \A n \in Int : n <= since => Comes(last, w, Len(w), n)

(* The news of what an attach will not send leaves nothing out             *)
(* (server.ts:5047-5120).                                                  *)
LEMMA NewsFits ==
    ASSUME NEW w, NEW last, NEW hd, NEW lo, NEW asked, NEW since, NEW k,
           Asks(w, last, hd, lo, asked, since, k), NEW p, p = Announced(asked, since, k)
    PROVE  /\ p \in Seq(Item)
           /\ \A i \in 1..Len(p) : p[i].kind = "lagged" /\ ItemFits(last, hd, lo, w, p, i)
           /\ ComesBy(last, w, p, Len(p), FirstAfter(k, since) - 1)
<1>. /\ last \in Nat /\ hd \in Nat /\ lo \in Nat
     /\ asked \in lo..hd /\ asked <= last /\ since \in asked..hd /\ k \in 1..(hd + 1)
     /\ \A n \in Int : n <= since => Comes(last, w, Len(w), n)
  BY DEF Asks
<1>0. PICK skipped, evicted, declined :
        /\ skipped = Larger(asked, k - 1)
        /\ evicted = IF asked < k - 1 THEN <<Lagged(asked + 1, k - 1)>> ELSE <<>>
        /\ declined = IF since > skipped THEN <<Lagged(skipped + 1, since)>> ELSE <<>>
        /\ p = evicted \o declined
  BY DEF Announced, Evicted, Declined, Skipped
<1>1. /\ asked \in Nat /\ since \in Nat /\ k - 1 \in Nat /\ skipped \in Nat
      /\ asked + 1 \in Nat /\ skipped + 1 \in Nat
      /\ FirstAfter(k, since) - 1 = Larger(since, k - 1)
  BY <1>0 DEF Larger, FirstAfter
<1>2. PICK one \in Item : one = Lagged(asked + 1, k - 1)
  BY <1>1, ItemsAre
<1>3. PICK two \in Item : two = Lagged(skipped + 1, since)
  BY <1>1, ItemsAre
<1>4. /\ one.kind = "lagged" /\ one.from = asked + 1 /\ one.to = k - 1
      /\ two.kind = "lagged" /\ two.from = skipped + 1 /\ two.to = since
  BY <1>1, <1>2, <1>3, ItemsAre
<1>5. Comes(last, w, Len(w), asked) /\ Comes(last, w, Len(w), since)
  BY <1>1
<1>6. CASE ~(asked < k - 1) /\ ~(since > skipped)
  <2>1. p = <<>>
    BY <1>0, <1>6
  <2>2. Larger(since, k - 1) = since
    BY <1>1, <1>6 DEF Larger
  <2> QED BY <1>1, <1>5, <2>1, <2>2 DEF ComesBy
<1>7. CASE asked < k - 1 /\ ~(since > skipped)
  <2>1. p = <<one>>
    BY <1>0, <1>2, <1>7
  <2>2. p \in Seq(Item) /\ Len(p) = 1 /\ p[1] = one
    BY <2>1, Singly
  <2>3. ItemFits(last, hd, lo, w, p, 1)
    <3>1. ComesBy(last, w, p, 0, asked) /\ (asked + 1) - 1 = asked
      BY <1>1, <1>5 DEF ComesBy
    <3> QED BY <1>1, <1>4, <1>7, <2>2, <3>1 DEF ItemFits
  <2>4. Larger(since, k - 1) = k - 1
    BY <1>0, <1>1, <1>7 DEF Larger
  <2>5. ComesBy(last, w, p, 1, k - 1)
    <3>1. Brings(p[1], k - 1) /\ 1 \in 1..1
      BY <1>1, <1>4, <2>2 DEF Brings
    <3> QED BY <3>1 DEF ComesBy
  <2> QED BY <1>1, <1>4, <2>2, <2>3, <2>4, <2>5
<1>8. CASE ~(asked < k - 1) /\ since > skipped
  <2>1. p = <<two>> /\ skipped = asked
    BY <1>0, <1>1, <1>3, <1>8 DEF Larger
  <2>2. p \in Seq(Item) /\ Len(p) = 1 /\ p[1] = two
    BY <2>1, Singly
  <2>3. ItemFits(last, hd, lo, w, p, 1)
    <3>1. ComesBy(last, w, p, 0, asked) /\ (asked + 1) - 1 = asked
      BY <1>1, <1>5 DEF ComesBy
    <3> QED BY <1>1, <1>4, <1>8, <2>1, <2>2, <3>1 DEF ItemFits
  <2>4. Larger(since, k - 1) = since
    BY <1>1, <1>8 DEF Larger
  <2>5. ComesBy(last, w, p, 1, since)
    BY <1>5 DEF ComesBy
  <2> QED BY <1>1, <1>4, <2>2, <2>3, <2>4, <2>5
<1>9. CASE asked < k - 1 /\ since > skipped
  <2>1. p = <<one, two>> /\ skipped = k - 1
    <3>1. evicted = <<one>> /\ declined = <<two>>
      BY <1>0, <1>2, <1>3, <1>9
    <3>2. skipped = k - 1
      BY <1>0, <1>1, <1>9 DEF Larger
    <3>3. p = <<one>> \o <<two>>
      BY <1>0, <3>1
    <3> QED BY <3>2, <3>3, Doubly
  <2>2. p \in Seq(Item) /\ Len(p) = 2 /\ p[1] = one /\ p[2] = two
    BY <2>1, Doubly
  <2>3. ItemFits(last, hd, lo, w, p, 1)
    <3>1. ComesBy(last, w, p, 0, asked) /\ (asked + 1) - 1 = asked
      BY <1>1, <1>5 DEF ComesBy
    <3> QED BY <1>1, <1>4, <1>9, <2>2, <3>1 DEF ItemFits
  <2>4. ItemFits(last, hd, lo, w, p, 2)
    <3>1. Brings(p[1], k - 1) /\ 1 \in 1..1
      BY <1>1, <1>4, <2>2 DEF Brings
    <3>2. ComesBy(last, w, p, 1, k - 1) /\ (skipped + 1) - 1 = k - 1
      BY <1>1, <2>1, <3>1 DEF ComesBy
    <3> QED BY <1>1, <1>4, <1>9, <2>1, <2>2, <3>2 DEF ItemFits
  <2>5. Larger(since, k - 1) = since
    BY <1>1, <1>9, <2>1 DEF Larger
  <2>6. ComesBy(last, w, p, 2, since)
    BY <1>5 DEF ComesBy
  <2> QED BY <1>1, <1>4, <2>2, <2>3, <2>4, <2>5, <2>6
<1> QED BY <1>6, <1>7, <1>8, <1>9

(* attach: the hello, the news of what will not come, the backlog.  The    *)
(* client asked from a cursor it had reached.                              *)
LEMMA AttachedFits ==
    ASSUME NEW c, StreamType, RowsFit, NEW last \in base..head,
           SocketFits(c, last, head, base), c.st = "opening"
    PROVE  /\ SocketFits(Attached(c), last, head, base)
           /\ Attached(c).succ = c.succ /\ Attached(c).st # "unused"
<1>1. head \in Nat /\ base \in Nat /\ last \in Nat /\ ReplayMax \in Nat /\ base <= head
  BY Bounds DEF StreamType
<1>2. /\ c \in Socket /\ c.since \in base..last /\ c.queue = <<>> /\ ~c.collapsed /\ c.wire = <<>>
  BY DEF SocketFits
<1>3. PICK k : k = OldestAvailable
  OBVIOUS
<1>4. /\ k \in 1..(head + 1) /\ rows = k..head /\ (k = head + 1 => head = 0)
      /\ Max(rows \cup {0}) = head
  BY <1>3, RowsAre
<1>5. PICK asked : asked = Smaller(c.since, head)
  OBVIOUS
<1>6. asked \in base..head /\ asked <= last
  BY <1>1, <1>2, <1>5 DEF Smaller
<1>7. PICK since : since = Larger(asked, head - ReplayMax)
  OBVIOUS
<1>8. since \in asked..head /\ since \in Nat /\ (since <= last \/ since + ReplayMax <= head)
  BY <1>1, <1>6, <1>7 DEF Larger
<1>9. PICK p : p = Announced(asked, since, k)
  OBVIOUS
<1>13. PICK q : q = p \o Replay(since)
  OBVIOUS
<1>14. PICK e : e = Greeted(c, since)
  OBVIOUS
<1>15. /\ e \in Socket /\ e.st = "attached" /\ e.succ = c.succ /\ e.wire = <<Hello(since)>>
       /\ e.sending /\ e.cursor = since /\ e.sent = since /\ ~e.collapsed
  <2>1. <<Hello(since)>> \in Seq(Frame)
    BY <1>8, ItemsAre, Singly
  <2> QED BY <1>2, <1>8, <1>14, <2>1 DEF Greeted, Socket
<1>16. /\ Len(e.wire) = 1 /\ e.wire[1].kind = "hello" /\ e.wire[1].since = since
  BY <1>8, <1>15, ItemsAre
<1>17. \A n \in Int : n <= since => Comes(last, e.wire, Len(e.wire), n)
  <2> SUFFICES ASSUME NEW n \in Int, n <= since PROVE Comes(last, e.wire, Len(e.wire), n)
    OBVIOUS
  <2>1. Brings(e.wire[1], n) /\ 1 \in 1..1
    BY <1>16 DEF Brings
  <2> QED BY <1>16, <2>1 DEF Comes
<1>18. WireFits(e, last, head, base)
  <2>1. FrameFits(last, head, base, e.wire, 1)
    BY <1>8, <1>16 DEF FrameFits
  <2> QED BY <1>16, <2>1 DEF WireFits
<1>19. /\ p \in Seq(Item)
       /\ \A i \in 1..Len(p) : p[i].kind = "lagged" /\ ItemFits(last, head, base, e.wire, p, i)
       /\ ComesBy(last, e.wire, p, Len(p), FirstAfter(k, since) - 1)
  <2>1. /\ last \in Nat /\ head \in Nat /\ base \in Nat /\ asked \in base..head /\ asked <= last
        /\ since \in asked..head /\ k \in 1..(head + 1)
    BY <1>1, <1>4, <1>6, <1>8
  <2>2. Asks(e.wire, last, head, base, asked, since, k)
    BY <1>17, <2>1 DEF Asks
  <2> QED BY <1>9, <2>2, NewsFits
<1>20. PICK a : a = FirstAfter(k, since)
  OBVIOUS
<1>21. /\ a \in 1..(head + 1) /\ base < a
       /\ Replay(since) = Run(a, head + 1 - a)
  <2>1. k \in Nat \ {0} /\ k <= head + 1 /\ since \in 0..head
    BY <1>1, <1>4, <1>8
  <2>2. a > base
    BY <1>1, <1>4, <1>6, <1>8, <1>20 DEF FirstAfter, Larger
  <2> QED BY <1>1, <1>4, <1>20, <2>1, <2>2, ReplayIs
<1>22. PICK N \in Nat : N = head + 1 - a
  BY <1>1, <1>21
<1>23. /\ q \in Seq(Item)
       /\ \A i \in 1..Len(q) : ItemFits(last, head, base, e.wire, q, i) /\ q[i] # Snapshot
       /\ q # <<>> /\ q[Len(q)].kind = "event" => q[Len(q)].seq = head
       /\ ComesBy(last, e.wire, q, Len(q), head)
  <2>1. a \in Nat /\ a + N = head + 1
    BY <1>1, <1>21, <1>22
  <2>2. q = p \o Run(a, N)
    BY <1>13, <1>21, <1>22
  <2>3. /\ last \in Nat /\ head \in Nat /\ base \in Nat /\ base < a /\ N \in Nat
        /\ p \in Seq(Item)
        /\ \A i \in 1..Len(p) : p[i].kind = "lagged" /\ ItemFits(last, head, base, e.wire, p, i)
        /\ ComesBy(last, e.wire, p, Len(p), a - 1)
    BY <1>1, <1>19, <1>20, <1>21, <1>22
  <2>4. Leads(e.wire, last, head, base, a, N, p)
    BY <2>1, <2>3 DEF Leads
  <2>5. BacklogFits(e.wire, last, head, base, q)
    BY <2>2, <2>4, RunFits, Zenon
  <2> QED BY <2>5 DEF BacklogFits
<1>24. PICK d : d = Replayed(e, q)
  OBVIOUS
<1>25. /\ SocketFits(d, last, head, base) /\ d.succ = c.succ /\ d.st = "attached"
       /\ Len(d.queue) = QueueMax => ~Standing(d.queue)
  <2>1. CASE Len(q) > QueueMax
    <3>1. d = Collapse(e, head, TRUE)
      BY <1>24, <2>1 DEF Replayed
    <3>2. e.sent \in base..head /\ Comes(last, e.wire, Len(e.wire), e.sent)
      BY <1>1, <1>6, <1>8, <1>15, <1>17
    <3>3. LET f == Collapse(e, head, TRUE)
          IN /\ SocketFits(f, last, head, base) /\ f.succ = e.succ
             /\ f.st = "attached" /\ f.sending /\ Len(f.queue) <= 2
      BY <1>1, <1>15, <1>18, <3>2, CollapseFits
    <3>4. /\ SocketFits(d, last, head, base) /\ d.succ = c.succ /\ d.st = "attached"
          /\ Len(d.queue) <= 2 /\ d \in Socket
      BY <1>15, <3>1, <3>3 DEF SocketFits
    <3>5. Len(d.queue) # QueueMax
      BY <3>4, Bounds DEF Socket
    <3> QED BY <3>4, <3>5
  <2>2. CASE ~(Len(q) > QueueMax)
    <3>1. d = [e EXCEPT !.queue = q, !.cursor = Larger(since, head)]
      BY <1>4, <1>15, <1>24, <2>2 DEF Replayed
    <3>2. Larger(since, head) = head
      BY <1>1, <1>8 DEF Larger
    <3>3. /\ d \in Socket /\ d.st = "attached" /\ d.succ = c.succ /\ d.queue = q
          /\ d.cursor = head /\ d.wire = e.wire /\ d.sending /\ d.sent = since
      BY <1>1, <1>15, <1>23, <3>1, <3>2 DEF Socket
    <3>4. ~Standing(q)
      <4>1. Len(q) > 1 => 2 \in 1..Len(q)
        BY <1>23
      <4> QED BY <1>23, <4>1 DEF Standing
    <3>5. QueueFits(d, last, head, base)
      BY <1>23, <3>3 DEF QueueFits
    <3>6. SentFits(d, last, head, base)
      BY <1>1, <1>6, <1>8, <1>17, <3>3 DEF SentFits
    <3>7. WireFits(d, last, head, base)
      BY <1>18, <3>3 DEF WireFits
    <3>8. Len(q) <= QueueMax
      BY <1>23, <2>2, Bounds
    <3> QED BY <3>3, <3>4, <3>5, <3>6, <3>7, <3>8 DEF SocketFits
  <2> QED BY <2>1, <2>2
<1>26. Attached(c) = Control(d, CaughtUp)
  BY <1>3, <1>5, <1>7, <1>9, <1>13, <1>14, <1>24 DEF Attached, Announced, Evicted, Declined, Skipped
<1>27. /\ SocketFits(Control(d, CaughtUp), last, head, base)
       /\ Control(d, CaughtUp).succ = d.succ /\ Control(d, CaughtUp).st # "unused"
  BY <1>1, <1>25, ControlFits
<1> QED BY <1>25, <1>26, <1>27

-----------------------------------------------------------------------------
(* The client heeds a frame.                                               *)

(* Where all that the frame brings leaves the client, what is behind it    *)
(* still fits.                                                             *)
LEMMA TakenFits ==
    ASSUME NEW c, NEW last \in Nat, NEW hd \in Nat, NEW lo \in Nat,
           SocketFits(c, last, hd, lo), c.wire # <<>>, NEW later \in Nat, last <= later,
           \A n \in Int : Brings(Head(c.wire), n) => n <= later
    PROVE  LET d == [c EXCEPT !.wire = Tail(@)]
           IN /\ SocketFits(d, later, hd, lo) /\ d.succ = c.succ /\ d.st = c.st
              /\ d.st # "unused"
<1>1. c \in Socket /\ WireFits(c, last, hd, lo) /\ c.st \in {"attached", "ended"}
  BY DEF SocketFits, Socket
<1>2. PICK w \in Seq(Frame) : w = c.wire
  BY <1>1 DEF Socket
<1>3. PICK w2 : w2 = Tail(w)
  OBVIOUS
<1>4. /\ w2 \in Seq(Frame) /\ Len(w) \in Nat /\ Len(w) >= 1 /\ Len(w2) = Len(w) - 1
      /\ Head(w) = w[1] /\ \A i \in 1..Len(w2) : w2[i] = w[i + 1] /\ w[i + 1] \in Frame
  BY <1>2, <1>3
<1>5. ASSUME NEW i \in 0..Len(w2), NEW n \in Int, Comes(last, w, i + 1, n)
      PROVE  Comes(later, w2, i, n)
  <2>1. CASE n <= last
    BY <2>1 DEF Comes
  <2>2. ASSUME NEW j \in 1..(i + 1), Brings(w[j], n) PROVE Comes(later, w2, i, n)
    <3>1. CASE j = 1
      BY <1>2, <1>4, <2>2, <3>1 DEF Comes
    <3>2. CASE j > 1
      <4>1. j - 1 \in 1..i /\ j - 1 \in 1..Len(w2) /\ (j - 1) + 1 = j
        BY <1>4, <3>2
      <4>2. w2[j - 1] = w[j]
        BY <1>4, <4>1
      <4> QED BY <2>2, <4>1, <4>2 DEF Comes
    <3> QED BY <3>1, <3>2
  <2> QED BY <1>5, <2>1, <2>2 DEF Comes
<1>6. \A n \in Int : Comes(last, w, Len(w), n) => Comes(later, w2, Len(w2), n)
  <2>1. Len(w2) \in 0..Len(w2) /\ Len(w2) + 1 = Len(w)
    BY <1>4
  <2> QED BY <1>5, <2>1
<1>7. PICK d : d = [c EXCEPT !.wire = Tail(@)]
  OBVIOUS
<1>8. /\ d \in Socket /\ d.wire = w2 /\ d.st = c.st /\ d.succ = c.succ /\ d.queue = c.queue
      /\ d.cursor = c.cursor /\ d.sent = c.sent /\ d.sending = c.sending
      /\ d.collapsed = c.collapsed /\ d.since = c.since
  BY <1>1, <1>2, <1>3, <1>4, <1>7 DEF Socket
<1>9. WireFits(d, later, hd, lo)
  <2> SUFFICES ASSUME NEW i \in 1..Len(w2) PROVE FrameFits(later, hd, lo, w2, i)
    BY <1>8 DEF WireFits
  <2>1. /\ FrameFits(last, hd, lo, w, i + 1) /\ w2[i] = w[i + 1] /\ w2[i] \in Frame
        /\ i - 1 \in 0..Len(w2) /\ (i + 1) - 1 = (i - 1) + 1
    BY <1>1, <1>2, <1>4 DEF WireFits
  <2>2. \A n \in Int : Comes(last, w, (i + 1) - 1, n) => Comes(later, w2, i - 1, n)
    BY <1>5, <2>1
  <2> QED BY <2>1, <2>2 DEF FrameFits, Frame, News
<1>10. CASE c.st = "attached"
  <2>1. PICK q \in Seq(Item) : q = c.queue
    BY <1>1 DEF Socket
  <2>2. \A i, n \in Int : ComesBy(last, w, q, i, n) => ComesBy(later, w2, q, i, n)
    BY <1>6 DEF ComesBy
  <2>3. QueueFits(c, last, hd, lo) /\ SentFits(c, last, hd, lo)
    BY <1>10 DEF SocketFits
  <2>4. ASSUME NEW i \in 1..Len(q) PROVE ItemFits(later, hd, lo, w2, q, i)
    <3>1. ItemFits(last, hd, lo, w, q, i) /\ q[i] \in Item /\ i - 1 \in Int
      BY <1>2, <2>1, <2>3 DEF QueueFits
    <3> QED BY <2>2, <3>1 DEF ItemFits, Item, News
  <2>5. ComesBy(later, w2, q, Len(q), hd)
    <3>1. Len(q) \in Int /\ ComesBy(last, w, q, Len(q), hd)
      BY <1>2, <2>1, <2>3 DEF QueueFits
    <3> QED BY <2>2, <3>1
  <2>6. QueueFits(d, later, hd, lo)
    BY <1>8, <2>1, <2>3, <2>4, <2>5 DEF QueueFits
  <2>7. SentFits(d, later, hd, lo)
    <3>1. c.sent \in Int
      BY <1>1 DEF Socket
    <3> QED BY <1>2, <1>6, <1>8, <2>3, <3>1 DEF SentFits
  <2>8. SocketFits(d, later, hd, lo)
    BY <1>8, <1>9, <1>10, <2>6, <2>7 DEF SocketFits
  <2> QED BY <1>7, <1>8, <1>10, <2>8
<1>11. CASE c.st = "ended"
  <2>1. SocketFits(d, later, hd, lo)
    BY <1>8, <1>9, <1>11 DEF SocketFits
  <2> QED BY <1>7, <1>8, <1>11, <2>1
<1> QED BY <1>1, <1>10, <1>11

(* What follows on from where the client stands is all that is new to it.  *)
LEMMA NextRunIs ==
    ASSUME StreamInv, NEW s \in Sockets, Arrives(s, "events")
    PROVE  /\ NextRun(s) = Unread(s) /\ Unread(s) \subseteq 1..head
           /\ \A n \in Unread(s) : (client.last + 1)..n \subseteq Unread(s)
           /\ Head(conns[s].wire).seqs \subseteq 1..head
<1>1. client.last \in Nat /\ head \in Nat
  BY DEF StreamInv, StreamType, Client
<1>2. PICK S : S = Head(conns[s].wire).seqs
  OBVIOUS
<1>3. S \subseteq 1..head /\ \A m \in S : m - 1 \in S \/ m - 1 <= client.last
  <2>1. SocketFits(conns[s], client.last, head, base) /\ conns[s].wire # <<>>
    BY DEF StreamInv, Arrives
  <2>2. PICK w \in Seq(Frame) : w = conns[s].wire
    BY <2>1 DEF SocketFits, Socket
  <2>3. w[1] = Head(w) /\ 1 \in 1..Len(w) /\ w[1].kind = "events" /\ w[1].seqs = S
    BY <1>2, <2>1, <2>2 DEF Arrives
  <2>4. FrameFits(client.last, head, base, w, 1)
    BY <2>1, <2>2, <2>3 DEF SocketFits, WireFits
  <2> QED BY <2>3, <2>4 DEF FrameFits, Comes
<1>4. PICK U : U = Unread(s)
  OBVIOUS
<1>5. U = {n \in S : n > client.last}
  BY <1>2, <1>4 DEF Unread
<1>6. ASSUME NEW n \in U PROVE (client.last + 1)..n \subseteq U
  <2> DEFINE T == {j \in (client.last + 1)..n : j \notin S}
  <2>1. n \in Nat /\ n \in S /\ n > client.last
    BY <1>1, <1>3, <1>5
  <2>2. ASSUME T # {} PROVE FALSE
    <3>1. T \in SUBSET Nat /\ \A j \in T : j <= n
      BY <1>1, <2>1
    <3>2. PICK g : g \in T /\ \A j \in T : j <= g
      <4> HIDE DEF T
      <4> QED BY <2>1, <2>2, <3>1, GreatestOf
    <3>3. g \in Nat /\ g < n /\ g > client.last /\ g \notin S /\ g + 1 \notin T
      BY <1>1, <2>1, <3>2
    <3>4. g + 1 \in S
      BY <1>1, <2>1, <3>3
    <3> QED BY <1>1, <1>3, <3>3, <3>4
  <2> QED BY <1>1, <1>5, <2>1, <2>2
<1>7. NextRun(s) = U
  BY <1>4, <1>6 DEF NextRun
<1> QED BY <1>2, <1>3, <1>4, <1>5, <1>6, <1>7

-----------------------------------------------------------------------------
(* The steps of the daemon.                                                *)

(* What the invariant says of each variable.                               *)
LEMMA InvTypes ==
    ASSUME StreamInv
    PROVE  /\ head \in Nat /\ base \in Nat /\ client.last \in Nat /\ client \in Client
           /\ base <= client.last /\ client.last <= head
           /\ DOMAIN conns = Sockets
           /\ \A s \in Sockets : conns[s] \in Socket
           /\ \A s \in Sockets : SocketFits(conns[s], client.last, head, base)
BY DEF StreamInv, StreamType, LastFits, Client, SocketFits

(* A step of the daemon keeps what the client has, and each socket fits    *)
(* what the log is after it.                                               *)
LEMMA DaemonStep ==
    ASSUME StreamInv, UNCHANGED <<client, base>>, DOMAIN conns' = Sockets,
           head' \in Nat, rows' \subseteq 1..head', gone' \in BOOLEAN, RowsFit', head <= head',
           \A s \in Sockets : /\ SocketFits(conns'[s], client.last, head', base)
                              /\ conns'[s].succ = conns[s].succ
                              /\ conns[s].st # "unused" => conns'[s].st # "unused"
    PROVE  StreamInv'
<1>1. StreamType'
  BY DEF StreamInv, StreamType
<1>2. LastFits'
  BY InvTypes DEF StreamInv, LastFits
<1>3. FieldsFit'
  <2>1. {client.socket, client.successor} \subseteq Sockets \cup {None}
    BY InvTypes, Bounds DEF Client, Sockets, None
  <2> QED BY <2>1 DEF StreamInv, FieldsFit
<1> QED BY <1>1, <1>2, <1>3 DEF StreamInv

(* Nothing overruns where the network does not stall.                      *)
LEMMA NoOverrun ==
    ASSUME Faults = {}, ~\E s \in Sockets : Overruns(s), NEW s \in Sockets, StreamInv
    PROVE  Len(conns[s].queue) = QueueMax /\ Standing(conns[s].queue) => conns[s].collapsed
BY DEF Overruns, Stalled, Standing

(* SessionLog.append.                                                      *)
LEMMA LogKeeps ==
    ASSUME Faults = {}, StreamInv, Log
    PROVE  StreamInv'
<1>1. /\ head' = head + 1 /\ ~\E s \in Sockets : Overruns(s)
      /\ conns' = [s \in Sockets |-> Emit(conns[s], head + 1)]
      /\ UNCHANGED <<gone, client, base>>
  BY DEF Log
<1>2. PICK first \in {0} \cup rows \cup {head + 1} :
        rows' = {n \in rows \cup {head + 1} : n >= first}
  BY DEF Log
<1>3. head \in Nat /\ rows \subseteq 1..head /\ gone' \in BOOLEAN
  BY <1>1 DEF StreamInv, StreamType
<1>4. rows' \subseteq 1..head' /\ head' \in rows' /\ head' \in Nat /\ head <= head'
  <2>1. first \in Nat /\ first <= head + 1
    BY <1>2, <1>3
  <2>2. head + 1 \in rows'
    BY <1>2, <1>3, <2>1
  <2>3. rows' \subseteq 1..(head + 1)
    <3>1. \A n \in rows' : n \in rows \/ n = head + 1
      BY <1>2
    <3> SUFFICES ASSUME NEW n \in rows' PROVE n \in 1..(head + 1)
      OBVIOUS
    <3>2. CASE n \in rows
      BY <1>3, <3>2
    <3>3. CASE n = head + 1
      BY <1>3, <3>3
    <3> QED BY <3>1, <3>2, <3>3
  <2> QED BY <1>1, <1>3, <2>2, <2>3
<1>5. RowsFit'
  <2>1. ASSUME NEW n \in rows', NEW m \in n..(head + 1) PROVE m \in rows'
    <3>1. m >= first /\ m \in Nat /\ n \in rows \cup {head + 1}
      BY <1>2, <1>3, <2>1
    <3>2. CASE m = head + 1
      BY <1>1, <1>4, <3>2
    <3>3. CASE m # head + 1
      <4>1. n \in rows /\ m \in n..head
        BY <1>3, <2>1, <3>1, <3>3
      <4>2. m \in rows
        BY <4>1 DEF StreamInv, RowsFit
      <4> QED BY <1>2, <3>1, <4>2
    <3> QED BY <3>2, <3>3
  <2> QED BY <1>1, <1>4, <2>1 DEF RowsFit
<1>6. ASSUME NEW s \in Sockets
      PROVE  /\ SocketFits(conns'[s], client.last, head', base)
             /\ conns'[s].succ = conns[s].succ
             /\ conns[s].st # "unused" => conns'[s].st # "unused"
  <2>1. conns'[s] = Emit(conns[s], head + 1)
    BY <1>1
  <2>2. /\ SocketFits(conns[s], client.last, head, base) /\ client.last \in Nat /\ base \in Nat
        /\ base <= head /\ head \in Nat
    BY InvTypes
  <2>3. Len(conns[s].queue) = QueueMax /\ Standing(conns[s].queue) => conns[s].collapsed
    BY <1>1, NoOverrun
  <2> QED BY <1>1, <2>1, <2>2, <2>3, EmitFits
<1>7. DOMAIN conns' = Sockets
  BY <1>1
<1> QED BY <1>1, <1>3, <1>4, <1>5, <1>6, <1>7, DaemonStep

(* A snapshot to every watcher.                                            *)
LEMMA WatchKeeps ==
    ASSUME Faults = {}, StreamInv, Watch
    PROVE  StreamInv'
<1>1. /\ UNCHANGED <<head, rows, gone, client, base>> /\ ~\E s \in Sockets : Overruns(s)
      /\ conns' = [s \in Sockets |-> Control(conns[s], Snapshot)]
  BY DEF Watch, log
<1>2. ASSUME NEW s \in Sockets
      PROVE  /\ SocketFits(conns'[s], client.last, head', base)
             /\ conns'[s].succ = conns[s].succ
             /\ conns[s].st # "unused" => conns'[s].st # "unused"
  <2>1. conns'[s] = Control(conns[s], Snapshot)
    BY <1>1
  <2>2. /\ SocketFits(conns[s], client.last, head, base) /\ client.last \in Nat /\ base \in Nat
        /\ head \in Nat
    BY InvTypes
  <2>3. Len(conns[s].queue) = QueueMax /\ Standing(conns[s].queue) => conns[s].collapsed
    BY <1>1, NoOverrun
  <2> QED BY <1>1, <2>1, <2>2, <2>3, ControlFits
<1>3. DOMAIN conns' = Sockets /\ RowsFit' /\ head' \in Nat /\ rows' \subseteq 1..head'
      /\ gone' \in BOOLEAN /\ head <= head'
  BY <1>1 DEF StreamInv, StreamType, RowsFit
<1> QED BY <1>1, <1>2, <1>3, DaemonStep

(* A step at one socket, which keeps its place.                            *)
LEMMA SocketStep ==
    ASSUME StreamInv, UNCHANGED <<head, rows, client, base>>, gone' \in BOOLEAN,
           NEW s \in Sockets, NEW d, conns' = [conns EXCEPT ![s] = d],
           SocketFits(d, client.last, head, base), d.succ = conns[s].succ, d.st # "unused"
    PROVE  StreamInv'
<1>1. DOMAIN conns' = Sockets
  BY InvTypes
<1>2. \A t \in Sockets : conns'[t] = IF t = s THEN d ELSE conns[t]
  BY InvTypes
<1>3. \A t \in Sockets : /\ SocketFits(conns'[t], client.last, head', base)
                         /\ conns'[t].succ = conns[t].succ
                         /\ conns[t].st # "unused" => conns'[t].st # "unused"
  BY <1>2, InvTypes
<1>4. RowsFit' /\ head' \in Nat /\ rows' \subseteq 1..head' /\ head <= head'
  <2>1. RowsFit /\ head \in Nat /\ rows \subseteq 1..head
    BY DEF StreamInv, StreamType
  <2>2. RowsFit'
    BY <2>1 DEF RowsFit
  <2> QED BY <2>1, <2>2
<1> QED BY <1>1, <1>3, <1>4, DaemonStep

(* The daemon attaches a socket, a send is done, a collapse's window       *)
(* passes, a token expires or the connection is lost.                      *)
LEMMA SocketKeeps ==
    ASSUME StreamInv, NEW s \in Sockets,
           Attach(s) \/ SendDone(s) \/ WindowPasses(s) \/ Expire(s) \/ Drop(s)
    PROVE  StreamInv'
<1> DEFINE c == conns[s]
<1>1. /\ SocketFits(c, client.last, head, base) /\ c \in Socket
      /\ WireFits(c, client.last, head, base) /\ client.last \in Nat /\ base \in Nat
      /\ head \in Nat /\ client.last \in base..head
  BY InvTypes DEF SocketFits
<1>2. gone \in BOOLEAN /\ StreamType /\ RowsFit
  BY DEF StreamInv, StreamType
<1>3. CASE Attach(s)
  <2>1. /\ conns' = [conns EXCEPT ![s] = IF gone THEN Cut(c) ELSE Attached(c)]
        /\ UNCHANGED <<head, rows, gone, client, base>> /\ c.st = "opening"
    BY <1>3, InvTypes DEF Attach, log
  <2>2. CASE gone
    <3>1. /\ SocketFits(Cut(c), client.last, head, base)
          /\ Cut(c).succ = c.succ /\ Cut(c).st = "ended"
      BY <1>1, CutFits
    <3>2. PICK d : d = Cut(c)
      OBVIOUS
    <3>3. conns' = [conns EXCEPT ![s] = d]
      BY <2>1, <2>2, <3>2
    <3> QED BY <1>2, <2>1, <3>1, <3>2, <3>3, SocketStep
  <2>3. CASE ~gone
    <3>1. /\ SocketFits(Attached(c), client.last, head, base)
          /\ Attached(c).succ = c.succ /\ Attached(c).st # "unused"
      BY <1>1, <1>2, <2>1, AttachedFits
    <3>2. PICK d : d = Attached(c)
      OBVIOUS
    <3>3. conns' = [conns EXCEPT ![s] = d]
      BY <2>1, <2>3, <3>2
    <3> QED BY <1>2, <2>1, <3>1, <3>2, <3>3, SocketStep
  <2> QED BY <2>2, <2>3
<1>4. CASE SendDone(s)
  <2>1. PICK e : e = [c EXCEPT !.sending = FALSE]
    OBVIOUS
  <2>2. /\ conns' = [conns EXCEPT ![s] = Flush(e)]
        /\ UNCHANGED <<head, rows, gone, client, base>> /\ c.sending
    BY <1>4, <2>1, InvTypes DEF SendDone, log
  <2>3. c.st = "attached"
    BY <1>1, <2>2 DEF SocketFits
  <2>4. /\ e \in Socket /\ e.st = "attached" /\ e.succ = c.succ /\ e.queue = c.queue
        /\ e.wire = c.wire /\ e.cursor = c.cursor /\ e.sent = c.sent
    BY <1>1, <2>1, <2>3 DEF Socket
  <2>5. /\ WireFits(e, client.last, head, base) /\ QueueFits(e, client.last, head, base)
        /\ SentFits(e, client.last, head, base) /\ Len(e.queue) <= QueueMax
    BY <1>1, <2>3, <2>4 DEF SocketFits, WireFits, QueueFits, SentFits
  <2>6. SocketFits(Flush(e), client.last, head, base) /\ Flush(e).succ = e.succ
        /\ Flush(e).st = "attached"
    BY <1>1, <2>4, <2>5, FlushFits
  <2> QED BY <1>2, <2>2, <2>4, <2>6, SocketStep
<1>5. CASE WindowPasses(s)
  <2>1. PICK e : e = [c EXCEPT !.collapsed = FALSE]
    OBVIOUS
  <2>2. /\ conns' = [conns EXCEPT ![s] = e]
        /\ UNCHANGED <<head, rows, gone, client, base>> /\ c.collapsed
    BY <1>5, <2>1, InvTypes DEF WindowPasses, log
  <2>3. c.st \in {"attached", "ended"}
    BY <1>1, <2>2 DEF SocketFits, Socket
  <2>4. /\ e \in Socket /\ e.st = c.st /\ e.succ = c.succ /\ e.queue = c.queue /\ e.since = c.since
        /\ e.wire = c.wire /\ e.cursor = c.cursor /\ e.sent = c.sent /\ e.sending = c.sending
    BY <1>1, <2>1 DEF Socket
  <2>5. SocketFits(e, client.last, head, base)
    BY <1>1, <2>3, <2>4 DEF SocketFits, WireFits, QueueFits, SentFits
  <2> QED BY <1>2, <2>2, <2>3, <2>4, <2>5, SocketStep
<1>6. CASE Expire(s)
  <2>1. /\ conns' = [conns EXCEPT ![s] = Ended(c, 4401)]
        /\ UNCHANGED <<head, rows, gone, client, base>>
    BY <1>6, InvTypes DEF Expire, log
  <2>2. SocketFits(Ended(c, 4401), client.last, head, base)
    BY <1>1, EndedFits
  <2>3. Ended(c, 4401).succ = c.succ /\ Ended(c, 4401).st = "ended"
    BY DEF Ended, Unused
  <2>4. PICK d : d = Ended(c, 4401)
    OBVIOUS
  <2>5. conns' = [conns EXCEPT ![s] = d]
    BY <2>1, <2>4
  <2>6. SocketFits(d, client.last, head, base) /\ d.succ = conns[s].succ /\ d.st # "unused"
    BY <2>2, <2>3, <2>4
  <2>7. UNCHANGED <<head, rows, client, base>> /\ gone' \in BOOLEAN
    BY <1>2, <2>1
  <2> QED BY <2>5, <2>6, <2>7, SocketStep
<1>7. CASE Drop(s)
  <2>1. /\ conns' = [conns EXCEPT ![s] = Cut(c)]
        /\ UNCHANGED <<head, rows, gone, client, base>>
    BY <1>7, InvTypes DEF Drop, log
  <2>2. /\ SocketFits(Cut(c), client.last, head, base)
        /\ Cut(c).succ = c.succ /\ Cut(c).st = "ended"
    BY <1>1, CutFits
  <2> QED BY <1>2, <2>1, <2>2, SocketStep
<1> QED BY <1>3, <1>4, <1>5, <1>6, <1>7

(* The daemon restarts: its log stands where it stood, and nothing is on   *)
(* a wire.                                                                 *)
LEMMA RestartKeeps ==
    ASSUME StreamInv, DaemonRestarts
    PROVE  StreamInv' /\ head' = head
<1>1. /\ conns' = [s \in Sockets |-> IF conns[s].st \in {"opening", "attached"}
                                     THEN Cut(conns[s]) ELSE conns[s]]
      /\ UNCHANGED <<rows, client, base>> /\ gone' \in {gone, TRUE}
  BY DEF DaemonRestarts
<1>2. head' = head
  <2>1. PICK floor \in 0..head : head' = Max(rows \cup {floor})
    BY DEF DaemonRestarts
  <2>2. head \in Nat /\ rows \subseteq 1..head /\ (head > 0 => head \in rows)
    BY DEF StreamInv, StreamType, RowsFit
  <2>3. PICK T : T = rows \cup {floor}
    OBVIOUS
  <2>4. T \in SUBSET Nat /\ head \in T /\ \A j \in T : j <= head
    BY <2>2, <2>3
  <2>5. Max(T) \in T /\ \A j \in T : j <= Max(T)
    BY <2>2, <2>4, GreatestOf
  <2>6. Max(T) \in Nat /\ Max(T) <= head /\ head <= Max(T)
    BY <2>4, <2>5
  <2> QED BY <2>1, <2>2, <2>3, <2>6
<1>3. ASSUME NEW s \in Sockets
      PROVE  /\ SocketFits(conns'[s], client.last, head', base)
             /\ conns'[s].succ = conns[s].succ
             /\ conns[s].st # "unused" => conns'[s].st # "unused"
  <2>1. /\ SocketFits(conns[s], client.last, head, base) /\ conns[s] \in Socket
        /\ client.last \in Nat /\ head \in Nat /\ base \in Nat
    BY InvTypes
  <2>2. /\ SocketFits(Cut(conns[s]), client.last, head, base)
        /\ Cut(conns[s]).succ = conns[s].succ /\ Cut(conns[s]).st = "ended"
    BY <2>1, CutFits
  <2>3. conns'[s] \in {Cut(conns[s]), conns[s]}
    BY <1>1
  <2> QED BY <1>2, <2>1, <2>2, <2>3
<1>4. DOMAIN conns' = Sockets /\ RowsFit' /\ head' \in Nat /\ rows' \subseteq 1..head'
      /\ gone' \in BOOLEAN /\ head <= head'
  <2>1. /\ RowsFit /\ head \in Nat /\ rows \subseteq 1..head /\ gone \in BOOLEAN
    BY DEF StreamInv, StreamType
  <2>2. RowsFit'
    BY <1>1, <1>2, <2>1 DEF RowsFit
  <2>3. gone' \in BOOLEAN
    BY <1>1, <2>1
  <2> QED BY <1>1, <1>2, <2>1, <2>2, <2>3
<1> QED BY <1>1, <1>2, <1>3, <1>4, DaemonStep

-----------------------------------------------------------------------------
(* The steps of the client.                                                *)

(* A step of the client: each socket is kept, closed or opened, and what   *)
(* its fields name is there.                                               *)
LEMMA ClientStep ==
    ASSUME StreamInv, UNCHANGED <<head, rows, gone, base>>, DOMAIN conns' = Sockets,
           client' \in Client, client.last <= client'.last, client'.last <= head,
           \A s \in Sockets : SocketFits(conns'[s], client'.last, head, base),
           FieldsFit'
    PROVE  StreamInv'
<1>1. StreamType' /\ RowsFit'
  BY DEF StreamInv, StreamType, RowsFit
<1>2. LastFits'
  <2>1. client'.last \in Nat
    BY DEF Client
  <2> QED BY <2>1, InvTypes DEF LastFits
<1> QED BY <1>1, <1>2 DEF StreamInv

(* One that touches no socket and does not move the cursor.                *)
LEMMA FieldStep ==
    ASSUME StreamInv, UNCHANGED <<head, rows, gone, base, conns>>,
           client' \in Client, client'.last = client.last, FieldsFit'
    PROVE  StreamInv'
BY InvTypes, ClientStep

(* What the client's own operations do to its fields.                      *)
LEMMA Timers ==
    ASSUME NEW c \in Client, c.armed => c.retries > 0
    PROVE  LET d == ClearTimers(c)
           IN /\ d \in Client /\ d.last = c.last /\ d.socket = c.socket
              /\ d.successor = c.successor /\ d.dials = c.dials /\ d.refreshes = c.refreshes
              /\ d.stopped = c.stopped /\ ~d.armed
<1>1. PICK n \in Nat : n = IF c.armed THEN c.retries - 1 ELSE c.retries
  BY DEF Client
<1>2. ClearTimers(c) = [c EXCEPT !.retries = n, !.armed = FALSE, !.rotateTimer = FALSE]
  BY <1>1 DEF ClearTimers
<1> QED BY <1>2 DEF Client

LEMMA Dialling ==
    ASSUME NEW c \in Client
    PROVE  LET d == Connecting(c)
           IN /\ d \in Client /\ d.last = c.last /\ d.socket = c.socket
              /\ d.successor = c.successor /\ d.stopped = c.stopped
              /\ d.armed = c.armed /\ d.retries = c.retries /\ d.refreshes = c.refreshes
              /\ c.stopped \/ d.dials > 0
<1>1. PICK n \in Nat : n = c.dials + 1
  BY DEF Client
<1>2. CASE c.stopped
  BY <1>2 DEF Connecting
<1>3. CASE ~c.stopped
  <2>1. Connecting(c) = [c EXCEPT !.phase = "connecting", !.dials = n]
    BY <1>1, <1>3 DEF Connecting
  <2>2. n > 0
    BY <1>1 DEF Client
  <2> QED BY <2>1, <2>2 DEF Client
<1> QED BY <1>2, <1>3

LEMMA Waiting ==
    ASSUME NEW c \in Client, c.armed => c.retries > 0
    PROVE  LET d == RetryLater(c)
           IN /\ d \in Client /\ d.last = c.last /\ d.socket = c.socket
              /\ d.successor = c.successor /\ d.stopped = c.stopped
              /\ d.armed => d.retries > 0
              /\ c.stopped \/ d.retries > 0
<1>1. PICK n \in Nat : n = c.retries + 1
  BY DEF Client
<1>2. CASE c.stopped
  BY <1>2 DEF RetryLater
<1>3. CASE ~c.stopped
  <2>1. RetryLater(c) = [c EXCEPT !.phase = "waiting", !.retries = n, !.armed = TRUE]
    BY <1>1, <1>3 DEF RetryLater
  <2>2. n > 0
    BY <1>1 DEF Client
  <2> QED BY <2>1, <2>2 DEF Client
<1> QED BY <1>2, <1>3

LEMMA Rotating ==
    ASSUME NEW c \in Client
    PROVE  LET d == ScheduleRotation(c)
           IN /\ d \in Client /\ d.last = c.last /\ d.socket = c.socket
              /\ d.successor = c.successor /\ d.stopped = c.stopped
              /\ d.armed = c.armed /\ d.retries = c.retries /\ d.dials = c.dials
              /\ d.refreshes = c.refreshes
BY DEF ScheduleRotation, Client

LEMMA TearingDown ==
    ASSUME NEW c \in Client, c.armed => c.retries > 0
    PROVE  LET d == TornDown(c)
           IN /\ d \in Client /\ d.last = c.last /\ d.socket = None
              /\ d.successor = None /\ d.stopped = c.stopped /\ ~d.armed
<1>1. PICK e : e = ClearTimers(c)
  OBVIOUS
<1>2. e \in Client /\ e.last = c.last /\ e.stopped = c.stopped /\ ~e.armed
  BY <1>1, Timers
<1>3. None \in 0..MaxSockets
  BY Bounds DEF None
<1> QED BY <1>1, <1>2, <1>3 DEF TornDown, Client

LEMMA Reconnecting ==
    ASSUME NEW c \in Client, c.armed => c.retries > 0, ~LeftAlone(c)
    PROVE  LET d == Reconnected(c)
           IN /\ d \in Client /\ d.last = c.last /\ d.socket = None
              /\ d.successor = None /\ ~d.armed /\ d.dials > 0
<1>1. PICK e : e = TornDown(c)
  OBVIOUS
<1>2. /\ e \in Client /\ e.last = c.last /\ e.socket = None /\ e.successor = None
      /\ e.stopped = c.stopped /\ ~e.armed
  BY <1>1, TearingDown
<1>3. ~c.stopped /\ Reconnected(c) = Connecting(e)
  BY <1>1 DEF LeftAlone, Reconnected
<1> QED BY <1>2, <1>3, Dialling

(* What the client's fields name, and that something is under way.         *)
LEMMA FieldsAre ==
    ASSUME StreamInv
    PROVE  /\ client \in Client /\ client.dials \in Nat /\ client.refreshes \in Nat
           /\ client.retries \in Nat /\ client.rotations \in Nat
           /\ client.armed => client.retries > 0
           /\ client.socket # None => client.socket \in Sockets /\ conns[client.socket].st # "unused"
           /\ client.successor # None =>
                /\ client.successor \in Sockets /\ client.successor # client.socket
                /\ conns[client.successor].st # "unused" /\ conns[client.successor].succ
           /\ \/ client.stopped \/ client.socket # None
              \/ client.dials > 0 \/ client.refreshes > 0 \/ client.retries > 0
<1>1. client \in Client /\ FieldsFit
  BY DEF StreamInv, StreamType
<1> QED BY <1>1, Bounds DEF FieldsFit, Client, Sockets, None

(* All the client's sockets are closed, and perhaps one is opened.         *)
LEMMA ClosedFits ==
    ASSUME NEW S \in SUBSET Sockets, StreamInv, conns' = Close(S, conns)
    PROVE  /\ DOMAIN conns' = Sockets
           /\ \A s \in Sockets : conns'[s] = IF s \in S THEN Unused ELSE conns[s]
           /\ \A s \in Sockets : SocketFits(conns'[s], client.last, head, base)
<1>1. /\ DOMAIN conns' = Sockets
      /\ \A s \in Sockets : conns'[s] = IF s \in S THEN Unused ELSE conns[s]
  BY DEF Close
<1> QED BY <1>1, InvTypes, UnusedFits

(* A connect comes back with its token and opens its socket                *)
(* (stream.ts:110-170).                                                    *)
LEMMA DialKeeps ==
    ASSUME StreamInv, DialOpens
    PROVE  StreamInv' /\ client'.last = client.last
<1>1. /\ UNCHANGED <<head, rows, gone, base>> /\ client.dials > 0
      /\ client \in Client /\ client.dials \in Nat
  BY FieldsAre DEF DialOpens, log
<1>2. CASE client.stopped
  <2>1. client' = [client EXCEPT !.dials = @ - 1] /\ UNCHANGED conns
    BY <1>2 DEF DialOpens
  <2>2. PICK n \in Nat : n = client.dials - 1
    BY <1>1
  <2>3. client' = [client EXCEPT !.dials = n]
    BY <2>1, <2>2
  <2>4. /\ client' \in Client /\ client'.last = client.last /\ client'.stopped
        /\ client'.socket = client.socket /\ client'.successor = client.successor
        /\ client'.armed = client.armed /\ client'.retries = client.retries
    BY <1>1, <1>2, <2>3 DEF Client
  <2>5. FieldsFit'
    BY <2>1, <2>4, FieldsAre DEF FieldsFit, None
  <2> QED BY <1>1, <2>1, <2>4, <2>5, FieldStep
<1>3. CASE ~client.stopped
  <2>1. /\ conns' = [Forgotten EXCEPT ![1] = Opening(client.last, FALSE)]
        /\ client' = [client EXCEPT !.dials = @ - 1, !.socket = 1, !.successor = None]
    BY <1>3 DEF DialOpens
  <2>2. 1 \in Sockets /\ None \in 0..MaxSockets /\ 1 \in 0..MaxSockets /\ None # 1
    BY Bounds DEF Sockets, None
  <2>3. PICK n \in Nat : n = client.dials - 1
    BY <1>1
  <2>4. client' = [client EXCEPT !.dials = n, !.socket = 1, !.successor = None]
    BY <2>1, <2>3
  <2>5. /\ client' \in Client /\ client'.last = client.last
        /\ client'.socket = 1 /\ client'.successor = None
        /\ client'.armed = client.armed /\ client'.retries = client.retries
    BY <1>1, <2>2, <2>4 DEF Client
  <2>6. PICK d : d = Opening(client.last, FALSE)
    OBVIOUS
  <2>7. SocketFits(d, client.last, head, base) /\ d.st = "opening"
    BY <2>6, InvTypes, OpeningFits DEF Opening, Unused
  <2>8. DOMAIN conns' = Sockets /\ \A s \in Sockets : conns'[s] = IF s = 1 THEN d ELSE Unused
    BY <2>1, <2>6 DEF Forgotten, Close
  <2>9. \A s \in Sockets : SocketFits(conns'[s], client.last, head, base)
    BY <2>7, <2>8, InvTypes, UnusedFits
  <2>10. FieldsFit'
    BY <2>2, <2>5, <2>7, <2>8, FieldsAre DEF FieldsFit
  <2> QED BY <1>1, <2>5, <2>8, <2>9, <2>10, InvTypes, ClientStep
<1> QED BY <1>2, <1>3

(* A call of the client's comes back, or a timer fires: the sockets are as *)
(* they were.                                                              *)
LEMMA CallKeeps ==
    ASSUME StreamInv,
           DialFails \/ RetryFires \/ RefreshComes \/ RefreshFails \/ Settles \/ RotateFires
           \/ RotateFails
    PROVE  StreamInv' /\ client'.last = client.last
<1>1. /\ UNCHANGED <<head, rows, gone, base, conns>>
  BY DEF DialFails, RetryFires, RefreshComes, RefreshFails, Settles, RotateFires, RotateFails, log
<1>2. ASSUME client' \in Client, client'.last = client.last, client'.socket = client.socket,
             client'.successor = client.successor, client'.armed => client'.retries > 0,
             \/ client'.stopped \/ client'.socket # None
             \/ client'.dials > 0 \/ client'.refreshes > 0 \/ client'.retries > 0
      PROVE  StreamInv' /\ client'.last = client.last
  <2>1. FieldsFit'
    BY <1>1, <1>2, FieldsAre DEF FieldsFit, None
  <2> QED BY <1>1, <1>2, <2>1, FieldStep
<1>3. CASE DialFails
  <2>1. PICK n \in Nat : n = client.dials - 1
    BY <1>3, FieldsAre DEF DialFails
  <2>2. PICK c : c = [client EXCEPT !.dials = n]
    OBVIOUS
  <2>3. /\ c \in Client /\ c.last = client.last /\ c.socket = client.socket
        /\ c.successor = client.successor /\ c.armed = client.armed
        /\ c.retries = client.retries
    BY <2>2, FieldsAre DEF Client
  <2>4. client' = RetryLater(c)
    BY <1>3, <2>1, <2>2 DEF DialFails
  <2>5. /\ client' \in Client /\ client'.last = c.last /\ client'.socket = c.socket
        /\ client'.successor = c.successor /\ client'.stopped = c.stopped
        /\ client'.armed => client'.retries > 0
        /\ c.stopped \/ client'.retries > 0
    BY <2>3, <2>4, FieldsAre, Waiting
  <2> QED BY <1>2, <2>3, <2>5
<1>4. CASE RetryFires
  <2>1. PICK n \in Nat : n = client.retries - 1
    BY <1>4, FieldsAre DEF RetryFires
  <2>2. PICK c : c = [client EXCEPT !.retries = n, !.armed = FALSE]
    OBVIOUS
  <2>3. /\ c \in Client /\ c.last = client.last /\ c.socket = client.socket
        /\ c.successor = client.successor /\ ~c.armed
    BY <2>2, FieldsAre DEF Client
  <2>4. client' = Connecting(c)
    BY <1>4, <2>1, <2>2 DEF RetryFires
  <2>5. /\ client' \in Client /\ client'.last = c.last /\ client'.socket = c.socket
        /\ client'.successor = c.successor /\ client'.stopped = c.stopped
        /\ client'.armed = c.armed /\ (c.stopped \/ client'.dials > 0)
    BY <2>3, <2>4, Dialling
  <2> QED BY <1>2, <2>3, <2>5
<1>5. CASE RefreshComes
  <2>1. PICK n \in Nat : n = client.refreshes - 1
    BY <1>5, FieldsAre DEF RefreshComes
  <2>2. PICK c : c = [client EXCEPT !.refreshes = n]
    OBVIOUS
  <2>3. /\ c \in Client /\ c.last = client.last /\ c.socket = client.socket
        /\ c.successor = client.successor /\ c.armed = client.armed
        /\ c.retries = client.retries
    BY <2>2, FieldsAre DEF Client
  <2>4. client' = Connecting(c)
    BY <1>5, <2>1, <2>2 DEF RefreshComes
  <2>5. /\ client' \in Client /\ client'.last = c.last /\ client'.socket = c.socket
        /\ client'.successor = c.successor /\ client'.stopped = c.stopped
        /\ client'.armed = c.armed /\ client'.retries = c.retries
        /\ c.stopped \/ client'.dials > 0
    BY <2>3, <2>4, Dialling
  <2> QED BY <1>2, <2>3, <2>5, FieldsAre
<1>6. CASE RefreshFails
  <2>1. PICK n \in Nat : n = client.refreshes - 1
    BY <1>6, FieldsAre DEF RefreshFails
  <2>2. PICK c : c = [client EXCEPT !.refreshes = n]
    OBVIOUS
  <2>3. /\ c \in Client /\ c.last = client.last /\ c.socket = client.socket
        /\ c.successor = client.successor /\ c.armed = client.armed
        /\ c.retries = client.retries
    BY <2>2, FieldsAre DEF Client
  <2>4. client' = RetryLater(c)
    BY <1>6, <2>1, <2>2 DEF RefreshFails
  <2>5. /\ client' \in Client /\ client'.last = c.last /\ client'.socket = c.socket
        /\ client'.successor = c.successor /\ client'.stopped = c.stopped
        /\ client'.armed => client'.retries > 0
        /\ c.stopped \/ client'.retries > 0
    BY <2>3, <2>4, FieldsAre, Waiting
  <2> QED BY <1>2, <2>3, <2>5
<1>7. CASE Settles
  <2>1. client' = [client EXCEPT !.phase = "overdue"]
    BY <1>7 DEF Settles
  <2>2. /\ client' \in Client /\ client'.last = client.last /\ client'.socket = client.socket
        /\ client'.successor = client.successor /\ client'.armed = client.armed
        /\ client'.retries = client.retries /\ client'.dials = client.dials
        /\ client'.refreshes = client.refreshes /\ client'.stopped = client.stopped
    BY <2>1, FieldsAre DEF Client
  <2> QED BY <1>2, <2>2, FieldsAre
<1>8. CASE RotateFires
  <2>1. PICK n \in Nat : client' = [client EXCEPT !.rotateTimer = FALSE, !.rotations = n]
    <3>1. client.rotations \in Nat /\ client.rotations + 1 \in Nat
      BY FieldsAre
    <3>2. \/ client' = [client EXCEPT !.rotateTimer = FALSE, !.rotations = client.rotations]
          \/ client' = [client EXCEPT !.rotateTimer = FALSE, !.rotations = client.rotations + 1]
      BY <1>8 DEF RotateFires
    <3> QED BY <3>1, <3>2
  <2>2. /\ client' \in Client /\ client'.last = client.last /\ client'.socket = client.socket
        /\ client'.successor = client.successor /\ client'.armed = client.armed
        /\ client'.retries = client.retries /\ client'.dials = client.dials
        /\ client'.refreshes = client.refreshes /\ client'.stopped = client.stopped
    BY <2>1, FieldsAre DEF Client
  <2> QED BY <1>2, <2>2, FieldsAre
<1>9. CASE RotateFails
  <2>1. PICK n \in Nat : n = client.rotations - 1
    BY <1>9, FieldsAre DEF RotateFails
  <2>2. PICK c : c = [client EXCEPT !.rotations = n]
    OBVIOUS
  <2>3. /\ c \in Client /\ c.last = client.last /\ c.socket = client.socket
        /\ c.successor = client.successor /\ c.armed = client.armed
        /\ c.retries = client.retries /\ c.dials = client.dials
        /\ c.refreshes = client.refreshes /\ c.stopped = client.stopped
    BY <2>2, FieldsAre DEF Client
  <2>4. client' = ScheduleRotation(c)
    BY <1>9, <2>1, <2>2 DEF RotateFails
  <2>5. /\ client' \in Client /\ client'.last = c.last /\ client'.socket = c.socket
        /\ client'.successor = c.successor /\ client'.stopped = c.stopped
        /\ client'.armed = c.armed /\ client'.retries = c.retries /\ client'.dials = c.dials
        /\ client'.refreshes = c.refreshes
    BY <2>3, <2>4, Rotating
  <2> QED BY <1>2, <2>3, <2>5, FieldsAre
<1> QED BY <1>3, <1>4, <1>5, <1>6, <1>7, <1>8, <1>9

(* The app resumes its stream or stops it: its sockets are closed, if at   *)
(* all.                                                                    *)
LEMMA StopKeeps ==
    ASSUME StreamInv, Resume \/ Stop
    PROVE  StreamInv' /\ client'.last = client.last
<1>1. UNCHANGED <<head, rows, gone, base>> /\ client \in Client
  BY FieldsAre DEF Resume, Stop, log
<1>2. CASE Resume /\ LeftAlone(client)
  <2>1. client' = client /\ conns' = Close({}, conns)
    BY <1>2 DEF Resume, Reconnected, ReconnectCloses
  <2>2. /\ DOMAIN conns' = Sockets /\ \A s \in Sockets : conns'[s] = conns[s]
        /\ \A s \in Sockets : SocketFits(conns'[s], client.last, head, base)
    BY <2>1, ClosedFits
  <2>3. FieldsFit'
    BY <2>1, <2>2, FieldsAre DEF FieldsFit
  <2> QED BY <1>1, <2>1, <2>2, <2>3, InvTypes, ClientStep
<1>3. CASE Resume /\ ~LeftAlone(client)
  <2>1. client' = Reconnected(client) /\ conns' = Close(Sockets, conns)
    BY <1>3 DEF Resume, ReconnectCloses
  <2>2. /\ client' \in Client /\ client'.last = client.last /\ client'.socket = None
        /\ client'.successor = None /\ ~client'.armed /\ client'.dials > 0
    BY <1>1, <1>3, <2>1, FieldsAre, Reconnecting
  <2>3. DOMAIN conns' = Sockets /\ \A s \in Sockets : SocketFits(conns'[s], client.last, head, base)
    BY <2>1, ClosedFits
  <2>4. FieldsFit'
    BY <2>2 DEF FieldsFit
  <2> QED BY <1>1, <2>2, <2>3, <2>4, InvTypes, ClientStep
<1>4. CASE Stop
  <2>1. PICK c : c = TornDown(client)
    OBVIOUS
  <2>2. client' = [c EXCEPT !.stopped = TRUE, !.phase = "closed"] /\ conns' = Close(Sockets, conns)
    BY <1>4, <2>1 DEF Stop, Forgotten
  <2>3. /\ c \in Client /\ c.last = client.last /\ c.socket = None /\ c.successor = None /\ ~c.armed
    BY <1>1, <2>1, FieldsAre, TearingDown
  <2>4. /\ client' \in Client /\ client'.last = client.last /\ client'.socket = None
        /\ client'.successor = None /\ ~client'.armed /\ client'.stopped
    BY <2>2, <2>3 DEF Client
  <2>5. DOMAIN conns' = Sockets /\ \A s \in Sockets : SocketFits(conns'[s], client.last, head, base)
    BY <2>2, ClosedFits
  <2>6. FieldsFit'
    BY <2>4 DEF FieldsFit
  <2> QED BY <1>1, <2>4, <2>5, <2>6, InvTypes, ClientStep
<1> QED BY <1>2, <1>3, <1>4

(* A rotation opens the successor (stream.ts:175-235).                     *)
LEMMA RotateOpensKeeps ==
    ASSUME StreamInv, RotateOpens
    PROVE  StreamInv' /\ client'.last = client.last
<1>1. UNCHANGED <<head, rows, gone, base>> /\ client \in Client /\ client.rotations > 0
  BY FieldsAre DEF RotateOpens, log
<1>2. PICK n \in Nat : n = client.rotations - 1
  BY <1>1, FieldsAre
<1>3. CASE client.stopped \/ client.socket = None
  <2>1. PICK c : c = [client EXCEPT !.rotations = n]
    OBVIOUS
  <2>2. client' = ScheduleRotation(c) /\ UNCHANGED conns
    BY <1>2, <1>3, <2>1 DEF RotateOpens
  <2>3. /\ c \in Client /\ c.last = client.last /\ c.socket = client.socket
        /\ c.successor = client.successor /\ c.armed = client.armed
        /\ c.retries = client.retries /\ c.dials = client.dials
        /\ c.refreshes = client.refreshes /\ c.stopped = client.stopped
    BY <1>1, <2>1 DEF Client
  <2>4. /\ client' \in Client /\ client'.last = c.last /\ client'.socket = c.socket
        /\ client'.successor = c.successor /\ client'.stopped = c.stopped
        /\ client'.armed = c.armed /\ client'.retries = c.retries /\ client'.dials = c.dials
        /\ client'.refreshes = c.refreshes
    BY <2>2, <2>3, Rotating
  <2>5. FieldsFit'
    BY <2>2, <2>3, <2>4, FieldsAre DEF FieldsFit, None
  <2> QED BY <1>1, <2>2, <2>3, <2>4, <2>5, FieldStep
<1>4. CASE ~(client.stopped \/ client.socket = None)
  <2>1. PICK s : s = Min(Sockets \ InUse)
    OBVIOUS
  <2>2. /\ InUse # Sockets /\ conns' = [conns EXCEPT ![s] = Opening(client.last, TRUE)]
        /\ client' = [client EXCEPT !.rotations = n, !.successor = s]
    BY <1>2, <1>4, <2>1 DEF RotateOpens
  <2>3. s \in Sockets /\ conns[s].st = "unused"
    <3>1. PICK T : T = Sockets \ InUse
      OBVIOUS
    <3>2. T \in SUBSET Nat /\ T # {}
      BY <2>2, <3>1 DEF Sockets, InUse
    <3>3. s \in T
      BY <2>1, <3>1, <3>2, LeastOf
    <3> QED BY <3>1, <3>3 DEF InUse
  <2>4. s \in 0..MaxSockets /\ s # None /\ s # client.socket
    BY <1>4, <2>3, Bounds, FieldsAre DEF Sockets, None
  <2>5. /\ client' \in Client /\ client'.last = client.last /\ client'.socket = client.socket
        /\ client'.successor = s /\ client'.armed = client.armed
        /\ client'.retries = client.retries
    BY <1>1, <2>2, <2>4 DEF Client
  <2>6. PICK d : d = Opening(client.last, TRUE)
    OBVIOUS
  <2>7. SocketFits(d, client.last, head, base) /\ d.st = "opening" /\ d.succ
    BY <2>6, InvTypes, OpeningFits DEF Opening, Unused
  <2>8. DOMAIN conns' = Sockets /\ \A t \in Sockets : conns'[t] = IF t = s THEN d ELSE conns[t]
    BY <2>2, <2>6, InvTypes
  <2>9. \A t \in Sockets : SocketFits(conns'[t], client.last, head, base)
    BY <2>7, <2>8, InvTypes
  <2>10. FieldsFit'
    BY <1>4, <2>3, <2>4, <2>5, <2>7, <2>8, FieldsAre DEF FieldsFit
  <2> QED BY <1>1, <2>5, <2>8, <2>9, <2>10, InvTypes, ClientStep
<1> QED BY <1>3, <1>4

-----------------------------------------------------------------------------
(* A frame arrives.                                                        *)

(* The client comes to later by what the head frame of s brings; what is   *)
(* on the other sockets fits there too, and some of them are closed.       *)
LEMMA DeliveredFits ==
    ASSUME StreamInv, NEW s \in Sockets, conns[s].wire # <<>>,
           NEW later \in Nat, client.last <= later, NEW S \in SUBSET Sockets,
           \A n \in Int : Brings(Head(conns[s].wire), n) => n <= later,
           conns' = Close(S, Taken(s))
    PROVE  /\ DOMAIN conns' = Sockets
           /\ \A t \in Sockets : SocketFits(conns'[t], later, head, base)
           /\ \A t \in Sockets \ S : /\ conns'[t].st = conns[t].st
                                     /\ conns'[t].succ = conns[t].succ
           /\ conns[s].st # "unused"
<1>1. PICK d : d = [conns[s] EXCEPT !.wire = Tail(@)]
  OBVIOUS
<1>2. SocketFits(d, later, head, base) /\ d.succ = conns[s].succ /\ d.st = conns[s].st /\ d.st # "unused"
  <2>1. /\ SocketFits(conns[s], client.last, head, base)
        /\ client.last \in Nat /\ head \in Nat /\ base \in Nat
    BY InvTypes
  <2> QED BY <1>1, <2>1, TakenFits
<1>3. \A t \in Sockets : Taken(s)[t] = IF t = s THEN d ELSE conns[t]
  BY <1>1, InvTypes DEF Taken
<1>4. /\ DOMAIN conns' = Sockets
      /\ \A t \in Sockets : conns'[t] = IF t \in S THEN Unused ELSE Taken(s)[t]
  BY DEF Close
<1>5. ASSUME NEW t \in Sockets PROVE SocketFits(conns'[t], later, head, base)
  <2>1. SocketFits(conns[t], later, head, base) /\ SocketFits(Unused, later, head, base)
    BY InvTypes, FitsLater, UnusedFits
  <2> QED BY <1>2, <1>3, <1>4, <2>1
<1> QED BY <1>2, <1>3, <1>4, <1>5

(* No socket is closed.                                                    *)
LEMMA TakenCloses ==
    ASSUME StreamInv, NEW s
    PROVE  Close({}, Taken(s)) = Taken(s)
<1>1. Close({}, Taken(s)) = [t \in Sockets |-> Taken(s)[t]]
  BY DEF Close
<1>2. Taken(s) = [t \in Sockets |-> Taken(s)[t]]
  BY InvTypes DEF Taken
<1> QED BY <1>1, <1>2

(* What is at the head of a wire.                                          *)
LEMMA HeadFits ==
    ASSUME StreamInv, NEW s \in Sockets, conns[s].wire # <<>>
    PROVE  LET f == Head(conns[s].wire)
           IN /\ f \in Frame
              /\ f.kind = "hello" =>
                    /\ f.since \in Nat /\ f.since <= head
                    /\ f.since <= client.last \/ f.since + ReplayMax <= head
              /\ f.kind = "lagged" =>
                    /\ f.from \in (base + 1)..f.to /\ f.to \in 1..head
                    /\ f.from - 1 <= client.last
<1>1. PICK w \in Seq(Frame) : w = conns[s].wire /\ w # <<>>
  BY InvTypes DEF Socket
<1>2. w[1] = Head(w) /\ 1 \in 1..Len(w) /\ w[1] \in Frame
  BY <1>1
<1>3. FrameFits(client.last, head, base, w, 1)
  BY <1>1, <1>2, InvTypes DEF SocketFits, WireFits
<1>4. \A n \in Int : Comes(client.last, w, 1 - 1, n) => n <= client.last
  BY DEF Comes
<1>5. head \in Nat /\ base \in Nat
  BY InvTypes
<1>6. w[1].kind = "hello" => w[1].since \in Nat
  BY <1>2 DEF Frame, News
<1>7. w[1].kind = "lagged" => w[1].from \in Nat /\ w[1].to \in Nat
  BY <1>2 DEF Frame, News
<1>8. w[1].kind = "lagged" =>
        /\ w[1].from \in (base + 1)..w[1].to /\ w[1].to \in 1..head
        /\ w[1].from - 1 <= client.last
  BY <1>3, <1>4, <1>5, <1>7 DEF FrameFits
<1> QED BY <1>1, <1>2, <1>3, <1>6, <1>8 DEF FrameFits

(* A hello: the successor takes over, and the cursor does not go           *)
(* backwards.                                                              *)
LEMMA HelloKeeps ==
    ASSUME StreamInv, NEW s \in Sockets, DeliverHello(s)
    PROVE  /\ StreamInv'
           /\ LET since == Head(conns[s].wire).since
              IN /\ client'.last = Larger(client.last, since)
                 /\ since \in 0..head
                 /\ since <= client.last \/ since + ReplayMax <= head
<1>1. /\ UNCHANGED <<head, rows, gone, base>> /\ conns[s].wire # <<>>
      /\ Head(conns[s].wire).kind = "hello"
  BY DEF DeliverHello, Arrives, log
<1>2. PICK since : since = Head(conns[s].wire).since
  OBVIOUS
<1>3. /\ since \in Nat /\ since <= head /\ (since <= client.last \/ since + ReplayMax <= head)
      /\ head \in Nat /\ client.last \in Nat
  BY <1>1, <1>2, HeadFits, InvTypes
<1>4. PICK later \in Nat : later = Larger(client.last, since)
  BY <1>3 DEF Larger
<1>5. client.last <= later /\ since <= later /\ later <= head
  BY <1>3, <1>4, InvTypes DEF Larger
<1>6. \A n \in Int : Brings(Head(conns[s].wire), n) => n <= later
  BY <1>1, <1>2, <1>3, <1>5 DEF Brings
<1>7. PICK live : live = [client EXCEPT !.last = later, !.phase = "live"]
  OBVIOUS
<1>8. CASE conns[s].succ
  <2>1. PICK S : S = {client.socket} \ {s}
    OBVIOUS
  <2>2. PICK c : c = [live EXCEPT !.socket = s, !.successor = None]
    OBVIOUS
  <2>3. conns' = Close(S, Taken(s)) /\ client' = ScheduleRotation(c)
    BY <1>2, <1>4, <1>7, <1>8, <2>1, <2>2 DEF DeliverHello
  <2>4. s \in 0..MaxSockets /\ s # None /\ None \in 0..MaxSockets
    BY Bounds DEF Sockets, None
  <2>5. /\ c \in Client /\ c.last = later /\ c.socket = s /\ c.successor = None
        /\ c.armed = client.armed /\ c.retries = client.retries
    BY <1>7, <2>2, <2>4, FieldsAre DEF Client
  <2>6. /\ client' \in Client /\ client'.last = later /\ client'.socket = s
        /\ client'.successor = None /\ client'.armed = client.armed
        /\ client'.retries = client.retries
    BY <2>3, <2>5, Rotating
  <2>7. PICK S2 \in SUBSET Sockets : S2 = S \cap Sockets
    OBVIOUS
  <2>8. Close(S, Taken(s)) = Close(S2, Taken(s))
    BY <2>7 DEF Close
  <2>9. /\ DOMAIN conns' = Sockets
        /\ \A t \in Sockets : SocketFits(conns'[t], later, head, base)
        /\ \A t \in Sockets \ S2 : /\ conns'[t].st = conns[t].st
                                   /\ conns'[t].succ = conns[t].succ
        /\ conns[s].st # "unused"
    BY <1>1, <1>5, <1>6, <2>3, <2>8, DeliveredFits
  <2>10. s \in Sockets \ S2
    BY <2>1, <2>7
  <2>11. FieldsFit'
    BY <2>4, <2>6, <2>9, <2>10, FieldsAre DEF FieldsFit
  <2>12. StreamInv'
    BY <1>1, <1>5, <2>6, <2>9, <2>11, ClientStep
  <2> QED BY <1>2, <1>3, <1>4, <2>6, <2>12
<1>9. CASE ~conns[s].succ
  <2>1. conns' = Taken(s) /\ client' = ScheduleRotation(live)
    BY <1>2, <1>4, <1>7, <1>9 DEF DeliverHello
  <2>2. /\ live \in Client /\ live.last = later /\ live.socket = client.socket
        /\ live.successor = client.successor /\ live.armed = client.armed
        /\ live.retries = client.retries /\ live.dials = client.dials
        /\ live.refreshes = client.refreshes /\ live.stopped = client.stopped
    BY <1>7, FieldsAre DEF Client
  <2>3. /\ client' \in Client /\ client'.last = later /\ client'.socket = client.socket
        /\ client'.successor = client.successor /\ client'.armed = client.armed
        /\ client'.retries = client.retries /\ client'.dials = client.dials
        /\ client'.refreshes = client.refreshes /\ client'.stopped = client.stopped
    BY <2>1, <2>2, Rotating
  <2>4. conns' = Close({}, Taken(s))
    BY <2>1, TakenCloses
  <2>5. /\ DOMAIN conns' = Sockets
        /\ \A t \in Sockets : SocketFits(conns'[t], later, head, base)
        /\ \A t \in Sockets : /\ conns'[t].st = conns[t].st
                              /\ conns'[t].succ = conns[t].succ
    <3>1. {} \in SUBSET Sockets /\ Sockets \ {} = Sockets
      OBVIOUS
    <3> QED BY <1>1, <1>5, <1>6, <2>4, <3>1, DeliveredFits
  <2>6. FieldsFit'
    BY <2>3, <2>5, FieldsAre DEF FieldsFit
  <2>7. StreamInv'
    BY <1>1, <1>5, <2>3, <2>5, <2>6, ClientStep
  <2> QED BY <1>2, <1>3, <1>4, <2>3, <2>7
<1> QED BY <1>8, <1>9

(* A frame that changes no field but the cursor and the phase.             *)
LEMMA FrameKeeps ==
    ASSUME StreamInv, NEW s \in Sockets, conns[s].wire # <<>>,
           NEW later \in Nat, client.last <= later, later <= head,
           \A n \in Int : Brings(Head(conns[s].wire), n) => n <= later,
           UNCHANGED <<head, rows, gone, base>>, conns' = Taken(s),
           NEW phase \in {"connecting", "overdue", "live", "waiting", "closed"},
           client' = [client EXCEPT !.last = later, !.phase = phase]
    PROVE  StreamInv' /\ client'.last = later
<1>1. /\ client' \in Client /\ client'.last = later /\ client'.socket = client.socket
      /\ client'.successor = client.successor /\ client'.armed = client.armed
      /\ client'.retries = client.retries /\ client'.dials = client.dials
      /\ client'.refreshes = client.refreshes /\ client'.stopped = client.stopped
  BY FieldsAre DEF Client
<1>2. conns' = Close({}, Taken(s))
  BY TakenCloses
<1>3. /\ DOMAIN conns' = Sockets
      /\ \A t \in Sockets : SocketFits(conns'[t], later, head, base)
      /\ \A t \in Sockets : /\ conns'[t].st = conns[t].st
                            /\ conns'[t].succ = conns[t].succ
  <2>1. {} \in SUBSET Sockets /\ Sockets \ {} = Sockets
    OBVIOUS
  <2> QED BY <1>2, <2>1, DeliveredFits
<1>4. FieldsFit'
  BY <1>1, <1>3, FieldsAre DEF FieldsFit
<1> QED BY <1>1, <1>3, <1>4, ClientStep

(* News of what will not come, a snapshot, and the end of a replay.        *)
LEMMA NewsKeeps ==
    ASSUME StreamInv, NEW s \in Sockets,
           DeliverLagged(s) \/ DeliverSnapshot(s) \/ DeliverCaughtUp(s)
    PROVE  /\ StreamInv'
           /\ DeliverLagged(s) =>
                client'.last = Larger(client.last, Head(conns[s].wire).to)
           /\ ~DeliverLagged(s) => client'.last = client.last
<1>1. /\ UNCHANGED <<head, rows, gone, base>> /\ conns[s].wire # <<>> /\ conns' = Taken(s)
  BY DEF DeliverLagged, DeliverSnapshot, DeliverCaughtUp, Arrives, log
<1>2. PICK f : f = Head(conns[s].wire)
  OBVIOUS
<1>3. client.last \in Nat /\ head \in Nat /\ client.last <= head /\ client \in Client
  BY InvTypes
<1>4. CASE DeliverLagged(s)
  <2>1. f.kind = "lagged" /\ client' = [client EXCEPT !.last = Larger(client.last, f.to)]
    BY <1>2, <1>4 DEF DeliverLagged, Arrives
  <2>2. f.to \in 1..head
    BY <1>1, <1>2, <2>1, HeadFits
  <2>3. PICK later \in Nat : later = Larger(client.last, f.to)
    BY <1>3, <2>2 DEF Larger
  <2>4. client.last <= later /\ later <= head /\ f.to <= later
    BY <1>3, <2>2, <2>3 DEF Larger
  <2>5. \A n \in Int : Brings(f, n) => n <= later
    BY <1>3, <2>1, <2>2, <2>4 DEF Brings
  <2>6. /\ client' = [client EXCEPT !.last = later, !.phase = client.phase]
        /\ client.phase \in {"connecting", "overdue", "live", "waiting", "closed"}
    BY <1>3, <2>1, <2>3 DEF Client
  <2>7. StreamInv' /\ client'.last = later
    BY <1>1, <1>2, <2>4, <2>5, <2>6, FrameKeeps
  <2> QED BY <1>2, <1>4, <2>3, <2>7
<1>5. CASE DeliverSnapshot(s) \/ DeliverCaughtUp(s)
  <2>1. f.kind \in {"snapshot", "caught_up"}
    BY <1>2, <1>5 DEF DeliverSnapshot, DeliverCaughtUp, Arrives
  <2>2. \A n \in Int : Brings(f, n) => n <= client.last
    BY <2>1 DEF Brings
  <2>3. ~DeliverLagged(s)
    BY <1>2, <2>1 DEF DeliverLagged, Arrives
  <2>4. PICK phase \in {"connecting", "overdue", "live", "waiting", "closed"} :
          client' = [client EXCEPT !.last = client.last, !.phase = phase]
    <3>1. CASE DeliverSnapshot(s)
      <4>1. client' = [client EXCEPT !.last = client.last, !.phase = client.phase]
        BY <1>3, <3>1 DEF DeliverSnapshot, Client
      <4> QED BY <1>3, <4>1 DEF Client
    <3>2. CASE DeliverCaughtUp(s)
      BY <1>3, <3>2 DEF DeliverCaughtUp, Client
    <3> QED BY <1>5, <3>1, <3>2
  <2>5. PICK later \in Nat : later = client.last
    BY <1>3
  <2>6. /\ client.last <= later /\ later <= head
        /\ \A n \in Int : Brings(f, n) => n <= later
        /\ client' = [client EXCEPT !.last = later, !.phase = phase]
    BY <1>3, <2>2, <2>4, <2>5
  <2>7. StreamInv' /\ client'.last = later
    BY <1>1, <1>2, <2>6, FrameKeeps
  <2> QED BY <2>3, <2>5, <2>7
<1> QED BY <1>4, <1>5

(* Events: the client takes all that is new to it, and there is never a    *)
(* hole.                                                                   *)
LEMMA EventsKeep ==
    ASSUME StreamInv, NEW s \in Sockets, DeliverEvents(s)
    PROVE  /\ StreamInv'
           /\ \/ NextRun(s) = {} /\ client'.last = client.last
              \/ /\ client'.last \in (client.last + 1)..head
                 /\ NextRun(s) = (client.last + 1)..client'.last
<1>1. /\ UNCHANGED <<head, rows, gone, base>> /\ conns[s].wire # <<>> /\ Arrives(s, "events")
      /\ Head(conns[s].wire).kind = "events"
  BY DEF DeliverEvents, Arrives, log
<1>2. PICK U : U = NextRun(s)
  OBVIOUS
<1>3. /\ U = Unread(s) /\ U \subseteq 1..head
      /\ \A n \in U : (client.last + 1)..n \subseteq U
      /\ Head(conns[s].wire).seqs \subseteq 1..head
  BY <1>1, <1>2, NextRunIs
<1>4. client.last \in Nat /\ head \in Nat /\ client.last <= head /\ client \in Client
  BY InvTypes
<1>5. PICK g : g = Max(U \cup {0})
  OBVIOUS
<1>6. /\ g \in U \cup {0} /\ \A j \in U \cup {0} : j <= g
  <2>1. PICK T : T = U \cup {0}
    OBVIOUS
  <2>2. T \in SUBSET Nat /\ T # {} /\ \A j \in T : j <= head
    BY <1>3, <1>4, <2>1
  <2>3. Max(T) \in T /\ \A j \in T : j <= Max(T)
    BY <1>4, <2>2, GreatestOf
  <2> QED BY <1>5, <2>1, <2>3
<1>7. g \in 0..head
  BY <1>3, <1>4, <1>6
<1>8. PICK later \in Nat : later = Larger(client.last, g)
  BY <1>4, <1>7 DEF Larger
<1>9. client.last <= later /\ later <= head /\ g <= later
  BY <1>4, <1>7, <1>8 DEF Larger
<1>10. \A n \in Int : Brings(Head(conns[s].wire), n) => n <= later
  <2> SUFFICES ASSUME NEW n \in Int, Brings(Head(conns[s].wire), n) PROVE n <= later
    OBVIOUS
  <2>1. PICK m \in Head(conns[s].wire).seqs : n <= m
    BY <1>1 DEF Brings
  <2>2. m \in 1..head /\ (m > client.last => m \in U)
    BY <1>3, <2>1 DEF Unread
  <2>3. m <= later
    BY <1>4, <1>6, <1>7, <1>9, <2>2
  <2> QED BY <2>1, <2>2, <2>3
<1>11. /\ client' = [client EXCEPT !.last = later] /\ conns' = Close({}, Taken(s))
  <2>1. NextRun(s) = Unread(s)
    BY <1>2, <1>3
  <2> QED BY <1>2, <1>5, <1>8, <2>1 DEF DeliverEvents
<1>12. /\ client' = [client EXCEPT !.last = later, !.phase = client.phase]
       /\ client.phase \in {"connecting", "overdue", "live", "waiting", "closed"}
       /\ conns' = Taken(s)
  BY <1>4, <1>11, TakenCloses DEF Client
<1>13. StreamInv' /\ client'.last = later
  BY <1>1, <1>9, <1>10, <1>12, FrameKeeps
<1>14. CASE U = {}
  <2>1. later = client.last
    BY <1>4, <1>6, <1>8, <1>14 DEF Larger
  <2> QED BY <1>2, <1>13, <1>14, <2>1
<1>15. CASE U # {}
  <2>1. PICK u \in U : u > client.last /\ u \in 1..head
    BY <1>3, <1>15 DEF Unread
  <2>2. g \in U /\ g > client.last /\ later = g
    BY <1>4, <1>6, <1>7, <1>8, <2>1 DEF Larger
  <2>3. U \subseteq (client.last + 1)..g
    <3>1. \A n \in U : n > client.last /\ n \in 1..head /\ n <= g
      BY <1>3, <1>6 DEF Unread
    <3> QED BY <1>4, <1>7, <3>1
  <2>4. U = (client.last + 1)..g
    BY <1>3, <2>2, <2>3
  <2> QED BY <1>2, <1>4, <1>7, <1>13, <2>2, <2>4
<1> QED BY <1>14, <1>15

(* A socket's close is heeded.                                             *)
LEMMA ClosedKeeps ==
    ASSUME StreamInv, NEW s \in Sockets, Closed(s)
    PROVE  StreamInv' /\ client'.last = client.last
<1>1. /\ UNCHANGED <<head, rows, gone, base>> /\ conns' = Close({s}, conns)
      /\ client \in Client
  BY FieldsAre DEF Closed, log
<1>2. {s} \in SUBSET Sockets
  OBVIOUS
<1>3. /\ DOMAIN conns' = Sockets
      /\ \A t \in Sockets : t # s => conns'[t] = conns[t]
      /\ \A t \in Sockets : SocketFits(conns'[t], client.last, head, base)
  BY <1>1, <1>2, ClosedFits
<1>4. None \in 0..MaxSockets
  BY Bounds DEF None
<1>5. CASE conns[s].succ /\ client.successor = s
  <2>1. PICK c : c = [client EXCEPT !.successor = None]
    OBVIOUS
  <2>2. client' = ScheduleRotation(c)
    BY <1>5, <2>1 DEF Closed
  <2>3. /\ c \in Client /\ c.last = client.last /\ c.socket = client.socket
        /\ c.successor = None /\ c.armed = client.armed
        /\ c.retries = client.retries /\ c.dials = client.dials
        /\ c.refreshes = client.refreshes /\ c.stopped = client.stopped
    BY <1>1, <1>4, <2>1 DEF Client
  <2>4. /\ client' \in Client /\ client'.last = client.last /\ client'.socket = client.socket
        /\ client'.successor = None /\ client'.armed = client.armed
        /\ client'.retries = client.retries /\ client'.dials = client.dials
        /\ client'.refreshes = client.refreshes /\ client'.stopped = client.stopped
    BY <2>2, <2>3, Rotating
  <2>5. client.socket # s
    BY <1>5, FieldsAre DEF Sockets, None
  <2>6. FieldsFit'
    BY <1>3, <2>4, <2>5, FieldsAre DEF FieldsFit
  <2> QED BY <1>1, <1>3, <2>4, <2>6, InvTypes, ClientStep
<1>6. CASE ~(conns[s].succ /\ client.successor = s)
  <2>1. PICK c : c = [client EXCEPT !.socket = None]
    OBVIOUS
  <2>2. PICK code : code = conns[s].code
    OBVIOUS
  <2>3. client' = HandleClose(c, code)
    BY <1>6, <2>1, <2>2 DEF Closed
  <2>4. /\ c \in Client /\ c.last = client.last /\ c.socket = None
        /\ c.successor = client.successor /\ c.armed = client.armed
        /\ c.retries = client.retries /\ c.stopped = client.stopped
    BY <1>1, <1>4, <2>1 DEF Client
  <2>5. PICK d : d = ClearTimers(c)
    OBVIOUS
  <2>6. /\ d \in Client /\ d.last = c.last /\ d.socket = None
        /\ d.successor = c.successor /\ d.stopped = c.stopped /\ ~d.armed
    BY <2>4, <2>5, FieldsAre, Timers
  <2>7. /\ client' \in Client /\ client'.last = client.last /\ client'.socket = None
        /\ client'.successor = client.successor /\ (client'.armed => client'.retries > 0)
        /\ client'.stopped \/ client'.refreshes > 0 \/ client'.retries > 0
    <3>1. CASE c.stopped
      <4>1. client' = c
        BY <2>3, <3>1 DEF HandleClose
      <4> QED BY <2>4, <3>1, <4>1, FieldsAre
    <3>2. CASE ~c.stopped /\ code = 4401
      <4>1. client' = [d EXCEPT !.refreshes = @ + 1]
        BY <2>3, <2>5, <3>2 DEF HandleClose
      <4>2. PICK n \in Nat : n = d.refreshes + 1 /\ n > 0
        BY <2>6 DEF Client
      <4>3. client' = [d EXCEPT !.refreshes = n]
        BY <4>1, <4>2
      <4> QED BY <2>4, <2>6, <4>2, <4>3 DEF Client
    <3>3. CASE ~c.stopped /\ code = 4404
      <4>1. client' = [d EXCEPT !.stopped = TRUE, !.phase = "closed"]
        BY <2>3, <2>5, <3>3 DEF HandleClose
      <4> QED BY <2>4, <2>6, <4>1 DEF Client
    <3>4. CASE ~c.stopped /\ code # 4401 /\ code # 4404
      <4>1. client' = RetryLater(d)
        BY <2>3, <2>5, <3>4 DEF HandleClose
      <4> QED BY <2>4, <2>6, <3>4, <4>1, Waiting
    <3> QED BY <3>1, <3>2, <3>3, <3>4
  <2>8. client.successor # None => client.successor # s
    BY <1>6, FieldsAre
  <2>9. FieldsFit'
    BY <1>3, <2>7, <2>8, FieldsAre DEF FieldsFit
  <2> QED BY <1>1, <1>3, <2>7, <2>9, InvTypes, ClientStep
<1> QED BY <1>5, <1>6

-----------------------------------------------------------------------------
(* The invariant.                                                          *)

(* A stream begins with its dial under way and nothing on any socket.      *)
LEMMA InitStream == Init => StreamInv
<1> SUFFICES ASSUME Init PROVE StreamInv
  OBVIOUS
<1>1. head \in Nat /\ rows \in {1..head, {head} \ {0}} /\ gone = FALSE /\ base \in 0..head
  BY Bounds DEF Init, Smaller
<1>2. /\ rows \subseteq 1..head /\ (head > 0 => head \in rows)
      /\ \A n \in rows : n..head \subseteq rows
  BY <1>1
<1>3. conns = [s \in Sockets |-> Unused]
  BY DEF Init
<1>4. None \in 0..MaxSockets
  BY Bounds DEF None
<1>5. client = [Idle EXCEPT !.last = base, !.phase = "connecting", !.dials = 1]
  BY DEF Init, Connecting, Idle
<1>6. /\ client \in Client /\ client.last = base /\ client.socket = None
      /\ client.successor = None /\ ~client.armed /\ client.dials > 0
  <2>1. base \in Nat
    BY <1>1
  <2>2. client = [last |-> base, phase |-> "connecting", stopped |-> FALSE,
                  socket |-> None, successor |-> None,
                  dials |-> 1, refreshes |-> 0, rotations |-> 0,
                  retries |-> 0, armed |-> FALSE, rotateTimer |-> FALSE]
    BY <1>5 DEF Idle
  <2> QED BY <1>4, <2>1, <2>2 DEF Client
<1>7. StreamType /\ RowsFit
  <2>1. base \in Nat
    BY <1>1
  <2>2. gone \in BOOLEAN
    BY <1>1, Zenon
  <2>3. DOMAIN conns = Sockets
    BY <1>3, Zenon
  <2>4. RowsFit
    BY <1>2 DEF RowsFit
  <2> QED BY <1>1, <1>2, <1>6, <2>1, <2>2, <2>3, <2>4 DEF StreamType
<1>8. LastFits
  BY <1>1, <1>6 DEF LastFits
<1>9. FieldsFit
  BY <1>6 DEF FieldsFit
<1>10. \A s \in Sockets : SocketFits(conns[s], client.last, head, base)
  BY <1>1, <1>3, <1>6, UnusedFits
<1> QED BY <1>7, <1>8, <1>9, <1>10 DEF StreamInv

(* A step that is none of the stream's.                                    *)
LEMMA StillKeeps ==
    ASSUME StreamInv, UNCHANGED vars
    PROVE  StreamInv'
BY DEF vars, StreamInv, StreamType, RowsFit, LastFits, FieldsFit

(* Every step of the daemon, of the network and of the client leaves       *)
(* nothing out on any socket.                                              *)
LEMMA NextStream == Faults = {} /\ StreamInv /\ [Next]_vars => StreamInv'
<1> SUFFICES ASSUME Faults = {}, StreamInv, [Next]_vars PROVE StreamInv'
  OBVIOUS
<1>1. CASE Log
  BY <1>1, LogKeeps
<1>2. CASE Watch
  BY <1>2, WatchKeeps
<1>3. CASE DaemonRestarts
  BY <1>3, RestartKeeps
<1>4. CASE \E s \in Sockets :
             Attach(s) \/ SendDone(s) \/ WindowPasses(s) \/ Expire(s) \/ Drop(s)
  BY <1>4, SocketKeeps
<1>5. CASE DialOpens
  BY <1>5, DialKeeps
<1>6. CASE DialFails \/ RetryFires \/ RefreshComes \/ RefreshFails \/ Settles
           \/ RotateFires \/ RotateFails
  BY <1>6, CallKeeps
<1>7. CASE Resume \/ Stop
  BY <1>7, StopKeeps
<1>8. CASE RotateOpens
  BY <1>8, RotateOpensKeeps
<1>9. CASE \E s \in Sockets : DeliverHello(s)
  BY <1>9, HelloKeeps
<1>10. CASE \E s \in Sockets : DeliverEvents(s)
  BY <1>10, EventsKeep
<1>11. CASE \E s \in Sockets : DeliverLagged(s) \/ DeliverSnapshot(s) \/ DeliverCaughtUp(s)
  BY <1>11, NewsKeeps
<1>12. CASE \E s \in Sockets : Closed(s)
  BY <1>12, ClosedKeeps
<1>13. CASE UNCHANGED vars
  BY <1>13, StillKeeps
<1> QED BY <1>1, <1>2, <1>3, <1>4, <1>5, <1>6, <1>7, <1>8, <1>9, <1>10, <1>11,
           <1>12, <1>13 DEF Next, Deliver

(* Whatever happens to its sockets, what is queued for a client and what   *)
(* is on its way follows on from what came before, ends at the end of the  *)
(* log, and waits only while a send is under way (server.ts:5047-5420);    *)
(* what the client's fields name is there, and unless it was stopped it    *)
(* has a socket or is getting one (stream.ts:110-420).                     *)
THEOREM NothingIsLeftOut ==
    ASSUME Faults = {} PROVE Spec => []StreamInv
<1> QED BY InitStream, NextStream, PTL DEF Spec

(* stream.ts:337: what a frame brings always follows on from the cursor.   *)
THEOREM NoFrameLeavesAHole ==
    ASSUME Faults = {} PROVE Spec => []HolesAreImpossible
<1>1. StreamInv => HolesAreImpossible
  BY NextRunIs DEF HolesAreImpossible
<1> QED BY <1>1, NothingIsLeftOut, PTL

(* stream.ts:199-216: a successor is always a socket that will be heard    *)
(* or whose close will, so that its field is cleared.                      *)
THEOREM EverySuccessorIsHeard ==
    ASSUME Faults = {} PROVE Spec => []SuccessorIsHeard
<1>1. StreamInv => SuccessorIsHeard
  BY FieldsAre DEF SuccessorIsHeard, InUse
<1> QED BY <1>1, NothingIsLeftOut, PTL

(* A session that was pruned has no socket attached: the restart that      *)
(* pruned it cut them, and the guard lets none through (server.ts:4885).   *)
Deserted == gone => \A s \in Sockets : conns[s].st # "attached"

(* Closing sockets, and opening or reading one, attaches none.             *)
LEMMA ClosesLeaveDeserted ==
    ASSUME NEW S, NEW f, NEW s \in Sockets
    PROVE  Close(S, f)[s].st \in {"unused", f[s].st}
BY DEF Close, Unused

LEMMA NextDeserted == StreamInv /\ Deserted /\ [Next]_vars => Deserted'
<1> SUFFICES ASSUME StreamInv, Deserted, [Next]_vars PROVE Deserted'
  OBVIOUS
<1> DEFINE Kept == \A s \in Sockets : conns'[s].st \in {"unused", "opening", "ended", conns[s].st}
<1>1. DOMAIN conns = Sockets /\ \A s \in Sockets : conns[s] \in Socket
  BY InvTypes
<1>2. gone' = gone /\ Kept => Deserted'
  BY DEF Deserted
<1>3. ASSUME NEW s \in Sockets, NEW d, conns' = [conns EXCEPT ![s] = d],
             d.st \in {"unused", "opening", "ended", conns[s].st}
      PROVE  Kept
  BY <1>1, <1>3
<1>4. ASSUME NEW s \in Sockets
      PROVE  /\ \A t \in Sockets : Taken(s)[t].st = conns[t].st
             /\ \A S : \A t \in Sockets : Close(S, Taken(s))[t].st \in {"unused", conns[t].st}
             /\ \A S : \A t \in Sockets : Close(S, conns)[t].st \in {"unused", conns[t].st}
  <2>1. \A t \in Sockets : Taken(s)[t].st = conns[t].st
    BY <1>1 DEF Taken, Socket
  <2>2. ASSUME NEW S, NEW t \in Sockets
        PROVE  /\ Close(S, Taken(s))[t].st \in {"unused", conns[t].st}
               /\ Close(S, conns)[t].st \in {"unused", conns[t].st}
    BY <2>1, ClosesLeaveDeserted
  <2> QED BY <2>1, <2>2
<1>5. CASE Log \/ Watch
  BY <1>5 DEF Log, Watch, log, Deserted
<1>6. CASE DaemonRestarts
  <2>1. \A s \in Sockets : Cut(conns[s]).st = "ended"
    BY DEF Cut, Ended, Unused
  <2>2. conns' = [s \in Sockets |-> IF conns[s].st \in {"opening", "attached"}
                                    THEN Cut(conns[s]) ELSE conns[s]]
    BY <1>6 DEF DaemonRestarts
  <2> QED BY <2>1, <2>2 DEF Deserted
<1>7. ASSUME NEW s \in Sockets, Attach(s) \/ Expire(s) \/ Drop(s) PROVE Deserted'
  <2>1. Cut(conns[s]).st = "ended" /\ Ended(conns[s], 4401).st = "ended"
    BY DEF Cut, Ended, Unused
  <2>2. CASE gone
    <3>1. PICK d : conns' = [conns EXCEPT ![s] = d] /\ d.st = "ended"
      BY <1>1, <1>7, <2>1, <2>2 DEF Attach, Expire, Drop
    <3>2. Kept
      BY <1>3, <3>1
    <3> QED BY <1>2, <1>7, <3>2 DEF Attach, Expire, Drop, log
  <2>3. CASE ~gone
    <3>1. gone' = gone
      BY <1>7 DEF Attach, Expire, Drop, log
    <3> QED BY <2>3, <3>1 DEF Deserted
  <2> QED BY <2>2, <2>3
<1>8. ASSUME NEW s \in Sockets, SendDone(s) \/ WindowPasses(s) PROVE Deserted'
  <2>1. gone' = gone
    BY <1>8 DEF SendDone, WindowPasses, log
  <2>2. CASE gone
    <3>1. conns[s].st # "attached"
      BY <2>2 DEF Deserted
    <3>2. PICK e : e = [conns[s] EXCEPT !.sending = FALSE]
      OBVIOUS
    <3>3. e.st = conns[s].st
      BY <1>1, <3>2 DEF Socket
    <3>4. Flush(e) = e
      BY <3>1, <3>3 DEF Flush
    <3>5. CASE SendDone(s)
      <4>1. conns' = [conns EXCEPT ![s] = e]
        BY <1>1, <3>2, <3>4, <3>5 DEF SendDone
      <4> QED BY <1>2, <1>3, <2>1, <3>3, <4>1
    <3>6. CASE WindowPasses(s)
      <4>1. PICK w : w = [conns[s] EXCEPT !.collapsed = FALSE]
        OBVIOUS
      <4>2. conns' = [conns EXCEPT ![s] = w] /\ w.st = conns[s].st
        BY <1>1, <3>6, <4>1 DEF WindowPasses, Socket
      <4> QED BY <1>2, <1>3, <2>1, <4>2
    <3> QED BY <1>8, <3>5, <3>6
  <2>3. CASE ~gone
    BY <2>1, <2>3 DEF Deserted
  <2> QED BY <2>2, <2>3
<1>9. CASE DialOpens \/ RotateOpens
  <2>1. gone' = gone
    BY <1>9 DEF DialOpens, RotateOpens, log
  <2>2. \A since, succ : Opening(since, succ).st = "opening"
    BY DEF Opening, Unused
  <2>3. \A s \in Sockets : Forgotten[s].st \in {"unused", conns[s].st}
    BY ClosesLeaveDeserted DEF Forgotten
  <2>4. CASE DialOpens
    <3>1. conns' = conns \/ conns' = [Forgotten EXCEPT ![1] = Opening(client.last, FALSE)]
      BY <2>4 DEF DialOpens
    <3>2. DOMAIN Forgotten = Sockets
      BY DEF Forgotten, Close
    <3>3. PICK d : d = Opening(client.last, FALSE)
      OBVIOUS
    <3>4. ASSUME conns' = conns PROVE Kept
      BY <3>4
    <3>5. ASSUME conns' = [Forgotten EXCEPT ![1] = d] PROVE Kept
      <4>1. \A t \in Sockets : conns'[t] \in {d, Forgotten[t]}
        BY <3>2, <3>5
      <4>2. d.st = "opening"
        BY <2>2, <3>3
      <4> SUFFICES ASSUME NEW t \in Sockets
                   PROVE  conns'[t].st \in {"unused", "opening", "ended", conns[t].st}
        OBVIOUS
      <4>3. conns'[t] = d \/ conns'[t] = Forgotten[t]
        BY <4>1
      <4> QED BY <2>3, <4>2, <4>3
    <3>6. Kept
      BY <3>1, <3>3, <3>4, <3>5
    <3> QED BY <1>2, <2>1, <3>6
  <2>5. CASE RotateOpens
    <3>1. conns' = conns
          \/ \E s : conns' = [conns EXCEPT ![s] = Opening(client.last, TRUE)]
      BY <2>5 DEF RotateOpens
    <3>2. PICK d : d = Opening(client.last, TRUE)
      OBVIOUS
    <3>3. \A t \in Sockets : conns'[t] \in {d, conns[t]}
      BY <1>1, <3>1, <3>2
    <3>4. Kept
      BY <2>2, <3>2, <3>3
    <3> QED BY <1>2, <2>1, <3>4
  <2> QED BY <1>9, <2>4, <2>5
<1>10. CASE DialFails \/ RetryFires \/ RefreshComes \/ RefreshFails \/ Settles
            \/ RotateFires \/ RotateFails
  BY <1>10 DEF DialFails, RetryFires, RefreshComes, RefreshFails, Settles, RotateFires,
               RotateFails, log, Deserted
<1>11. CASE Resume \/ Stop
  <2>1. gone' = gone /\ \E S : conns' = Close(S, conns)
    BY <1>11 DEF Resume, Stop, Forgotten, log
  <2>2. \A S : \A s \in Sockets : Close(S, conns)[s].st \in {"unused", conns[s].st}
    BY ClosesLeaveDeserted
  <2>3. Kept
    BY <2>1, <2>2
  <2> QED BY <1>2, <2>1, <2>3
<1>12. ASSUME NEW s \in Sockets, Deliver(s) \/ Closed(s) PROVE Deserted'
  <2>1. gone' = gone
    BY <1>12 DEF Deliver, DeliverHello, DeliverEvents, DeliverLagged, DeliverSnapshot,
                 DeliverCaughtUp, Closed, log
  <2>2. \/ conns' = Taken(s)
        \/ \E S : conns' = Close(S, Taken(s))
        \/ \E S : conns' = Close(S, conns)
    <3>1. CASE DeliverHello(s)
      BY <3>1 DEF DeliverHello
    <3>2. CASE DeliverEvents(s)
      BY <3>2 DEF DeliverEvents
    <3>3. CASE DeliverLagged(s) \/ DeliverSnapshot(s) \/ DeliverCaughtUp(s)
      BY <3>3 DEF DeliverLagged, DeliverSnapshot, DeliverCaughtUp
    <3>4. CASE Closed(s)
      BY <3>4 DEF Closed
    <3> QED BY <1>12, <3>1, <3>2, <3>3, <3>4 DEF Deliver
  <2>3. Kept
    BY <1>4, <2>2
  <2> QED BY <1>2, <2>1, <2>3
<1>13. CASE UNCHANGED vars
  BY <1>13 DEF vars, Deserted
<1> QED BY <1>5, <1>6, <1>7, <1>8, <1>9, <1>10, <1>11, <1>12, <1>13 DEF Next

(* A client whose stream has nothing under way stands at the end of the    *)
(* log on a socket that is attached, and the session is there, unless the  *)
(* stream was stopped: the client of a session that was pruned never rests *)
(* by itself (server.ts:4885-4888, stream.ts:426-434).                     *)
THEOREM AStreamAtRestIsAtTheHead ==
    ASSUME Faults = {} PROVE Spec => []RestsAtTheHead
<1>1. Init => Deserted
  BY DEF Init, Deserted
<1>2. Spec => []Deserted
  BY <1>1, NextDeserted, NothingIsLeftOut, PTL DEF Spec
<1>3. StreamInv /\ Deserted => RestsAtTheHead
  <2> SUFFICES ASSUME StreamInv, Deserted, AtRest, ~client.stopped
               PROVE  /\ client.socket # None /\ conns[client.socket].st = "attached"
                      /\ ~gone /\ client.last = head
    BY DEF RestsAtTheHead
  <2>1. /\ client.dials = 0 /\ client.refreshes = 0 /\ client.retries = 0
        /\ \A s \in Sockets : /\ conns[s].st \in {"unused", "attached"}
                              /\ ~conns[s].sending /\ conns[s].wire = <<>>
    BY DEF AtRest
  <2>2. client.socket # None
    BY <2>1, FieldsAre
  <2>3. PICK s \in Sockets : s = client.socket /\ conns[s].st = "attached"
    BY <2>1, <2>2, FieldsAre
  <2>4. PICK c : c = conns[s]
    OBVIOUS
  <2>5. /\ SocketFits(c, client.last, head, base) /\ c.st = "attached" /\ c.wire = <<>>
        /\ ~c.sending /\ head \in Nat /\ client.last \in Nat /\ client.last <= head
    BY <2>1, <2>3, <2>4, InvTypes
  <2>6. /\ c.queue = <<>> /\ ComesBy(client.last, c.wire, c.queue, Len(c.queue), head)
    BY <2>5 DEF SocketFits, QueueFits
  <2>7. head <= client.last
    BY <2>5, <2>6 DEF ComesBy, Comes
  <2>8. ~gone
    BY <2>3 DEF Deserted
  <2> QED BY <2>2, <2>3, <2>5, <2>7, <2>8
<1> QED BY <1>2, <1>3, NothingIsLeftOut, PTL

-----------------------------------------------------------------------------
(* The promise is kept: every step of the stream is one of the delivery,   *)
(* or none.                                                                *)

(* The stream begins where the delivery does.                              *)
LEMMA InitDelivers == Init => Delivery!Init
<1> SUFFICES ASSUME Init PROVE Delivery!Init
  OBVIOUS
<1>1. head \in Nat /\ base \in 0..head
  BY Bounds DEF Init, Smaller
<1>2. client.last = base
  <2>1. client = [Idle EXCEPT !.last = base, !.phase = "connecting", !.dials = 1]
    BY DEF Init, Connecting, Idle
  <2> QED BY <2>1 DEF Idle
<1> QED BY <1>1, <1>2 DEF Delivery!Init, Init

(* No step but those in which a frame arrives moves the client's cursor,   *)
(* and none but an append the end of the log.                              *)
LEMMA OthersDeliverNothing ==
    ASSUME StreamInv, [Next]_vars, ~Log,
           ~\E s \in Sockets : DeliverHello(s) \/ DeliverEvents(s) \/ DeliverLagged(s)
    PROVE  UNCHANGED <<head, base, client.last, handed, told>>
<1>1. CASE Watch
  BY <1>1 DEF Watch, log
<1>2. CASE DaemonRestarts
  BY <1>2, RestartKeeps DEF DaemonRestarts
<1>3. CASE \E s \in Sockets :
             Attach(s) \/ SendDone(s) \/ WindowPasses(s) \/ Expire(s) \/ Drop(s)
  BY <1>3 DEF Attach, SendDone, WindowPasses, Expire, Drop, log
<1>4. CASE DialOpens
  BY <1>4, DialKeeps DEF DialOpens, log
<1>5. CASE DialFails \/ RetryFires \/ RefreshComes \/ RefreshFails \/ Settles
           \/ RotateFires \/ RotateFails
  <2>1. client'.last = client.last
    BY <1>5, CallKeeps
  <2> QED BY <1>5, <2>1 DEF DialFails, RetryFires, RefreshComes, RefreshFails, Settles,
                           RotateFires, RotateFails, log
<1>6. CASE Resume \/ Stop
  BY <1>6, StopKeeps DEF Resume, Stop, log
<1>7. CASE RotateOpens
  BY <1>7, RotateOpensKeeps DEF RotateOpens, log
<1>8. CASE \E s \in Sockets : DeliverSnapshot(s) \/ DeliverCaughtUp(s)
  <2>1. PICK s \in Sockets : DeliverSnapshot(s) \/ DeliverCaughtUp(s)
    BY <1>8
  <2>2. ~DeliverLagged(s)
    BY <2>1 DEF DeliverSnapshot, DeliverCaughtUp, DeliverLagged, Arrives
  <2>3. client'.last = client.last
    BY <2>1, <2>2, NewsKeeps
  <2> QED BY <2>1, <2>3 DEF DeliverSnapshot, DeliverCaughtUp, log
<1>9. CASE \E s \in Sockets : Closed(s)
  <2>1. PICK s \in Sockets : Closed(s)
    BY <1>9
  <2>2. client'.last = client.last
    BY <2>1, ClosedKeeps
  <2> QED BY <2>1, <2>2 DEF Closed, log
<1>10. CASE UNCHANGED vars
  BY <1>10 DEF vars
<1> QED BY <1>1, <1>2, <1>3, <1>4, <1>5, <1>6, <1>7, <1>8, <1>9, <1>10 DEF Next, Deliver

(* An append is one of the log; the frames that arrive hand over what      *)
(* follows on from the cursor, tell of what leaves nothing out, or skip    *)
(* what is more than ReplayMax behind.                                     *)
LEMMA NextDelivers == Faults = {} /\ StreamInv /\ [Next]_vars => [Delivery!Next]_Delivery!vars
<1> SUFFICES ASSUME Faults = {}, StreamInv, [Next]_vars PROVE [Delivery!Next]_Delivery!vars
  OBVIOUS
<1>1. /\ head \in Nat /\ base \in Nat /\ client.last \in Nat
      /\ base <= client.last /\ client.last <= head
  BY InvTypes
<1>2. CASE Log
  <2>1. head' = head + 1 /\ UNCHANGED <<client, base, handed, told>>
    BY <1>2 DEF Log
  <2>2. Delivery!Log
    BY <2>1 DEF Delivery!Log
  <2> QED BY <2>2 DEF Delivery!Next
<1>3. ASSUME NEW s \in Sockets, DeliverHello(s) PROVE [Delivery!Next]_Delivery!vars
  <2>1. PICK since : since = Head(conns[s].wire).since
    OBVIOUS
  <2>2. /\ client'.last = Larger(client.last, since) /\ since \in 0..head
        /\ since <= client.last \/ since + ReplayMax <= head
    BY <1>3, <2>1, HelloKeeps
  <2>3. UNCHANGED <<head, base, handed, told>>
    BY <1>3 DEF DeliverHello, log
  <2>4. CASE since <= client.last
    <3>1. client'.last = client.last
      BY <1>1, <2>2, <2>4 DEF Larger
    <3> QED BY <2>3, <3>1 DEF Delivery!vars
  <2>5. CASE since > client.last
    <3>1. since \in (client.last + 1)..head /\ since + ReplayMax <= head /\ client'.last = since
      BY <1>1, <2>2, <2>5 DEF Larger
    <3>2. Delivery!Skip
      BY <2>3, <3>1 DEF Delivery!Skip
    <3> QED BY <3>2 DEF Delivery!Next
  <2> QED BY <1>1, <2>2, <2>4, <2>5
<1>4. ASSUME NEW s \in Sockets, DeliverEvents(s) PROVE [Delivery!Next]_Delivery!vars
  <2>1. UNCHANGED <<head, base, told>> /\ handed' = handed \cup NextRun(s)
    BY <1>4 DEF DeliverEvents, log
  <2>2. CASE NextRun(s) = {} /\ client'.last = client.last
    <3>1. handed' = handed
      BY <2>1, <2>2
    <3> QED BY <2>1, <2>2, <3>1 DEF Delivery!vars
  <2>3. CASE /\ client'.last \in (client.last + 1)..head
             /\ NextRun(s) = (client.last + 1)..client'.last
    <3>1. Delivery!Hand
      BY <2>1, <2>3 DEF Delivery!Hand
    <3> QED BY <3>1 DEF Delivery!Next
  <2> QED BY <1>4, <2>2, <2>3, EventsKeep
<1>5. ASSUME NEW s \in Sockets, DeliverLagged(s) PROVE [Delivery!Next]_Delivery!vars
  <2>1. PICK gap : gap = Head(conns[s].wire)
    OBVIOUS
  <2>2. /\ UNCHANGED <<head, base, handed>> /\ told' = told \cup gap.from..gap.to
        /\ gap.kind = "lagged" /\ conns[s].wire # <<>>
    BY <1>5, <2>1 DEF DeliverLagged, Arrives, log
  <2>3. /\ gap.from \in (base + 1)..gap.to /\ gap.to \in 1..head
        /\ gap.from - 1 <= client.last
    BY <2>1, <2>2, HeadFits
  <2>4. client'.last = Larger(client.last, gap.to)
    BY <1>5, <2>1, NewsKeeps
  <2>5. PICK from, to : from = gap.from /\ to = gap.to
    OBVIOUS
  <2>6. /\ from \in (base + 1)..(client.last + 1) /\ to \in 1..head
        /\ client'.last = IF to > client.last THEN to ELSE client.last
        /\ told' = told \cup from..to
    BY <1>1, <2>2, <2>3, <2>4, <2>5 DEF Larger
  <2>7. Delivery!Tell
    BY <2>2, <2>6 DEF Delivery!Tell
  <2> QED BY <2>7 DEF Delivery!Next
<1>6. CASE /\ ~Log
           /\ ~\E s \in Sockets : DeliverHello(s) \/ DeliverEvents(s) \/ DeliverLagged(s)
  BY <1>6, OthersDeliverNothing DEF Delivery!vars
<1> QED BY <1>2, <1>3, <1>4, <1>5, <1>6

(* server.ts:133 and stream.ts:6-18: whatever the daemon, the network and  *)
(* the client do, the client's cursor moves only by events handed over in  *)
(* order, by news of what will not come, or by a hello far behind.         *)
THEOREM TheStreamDeliversTheLog ==
    ASSUME Faults = {} PROVE Spec => DeliversTheLog
<1> QED BY InitDelivers, NextDelivers, NothingIsLeftOut, PTL
        DEF Spec, DeliversTheLog, Delivery!Spec

-----------------------------------------------------------------------------
(* What a client can rely on, whoever keeps that promise.                  *)

(* What is handed or told lies between the beginning and the cursor.       *)
DeliveryInv == Delivery!TypeOK /\ Delivery!Bounded

(* The first state: nothing is handed or told yet.                         *)
LEMMA InitDelivery == Delivery!Init => DeliveryInv
  BY DEF Delivery!Init, DeliveryInv, Delivery!TypeOK, Delivery!Bounded

(* Every step of the delivery keeps what was handed and told in bounds:    *)
(* Log moves the head only, the others move the cursor forward and add     *)
(* what is at most the new cursor.                                         *)
LEMMA NextDelivery == DeliveryInv /\ [Delivery!Next]_Delivery!vars => DeliveryInv'
  <1> SUFFICES ASSUME DeliveryInv, [Delivery!Next]_Delivery!vars PROVE DeliveryInv'
    OBVIOUS
  <1> USE DEF DeliveryInv, Delivery!TypeOK, Delivery!Bounded
  <1>1. CASE Delivery!Log
    BY <1>1 DEF Delivery!Log
  <1>2. CASE Delivery!Hand
    <2>1. PICK to \in (client.last + 1)..head :
            /\ client'.last = to /\ handed' = handed \cup (client.last + 1)..to
            /\ UNCHANGED <<head, base, told>>
      BY <1>2 DEF Delivery!Hand
    <2>2. (client.last + 1)..to \subseteq (base + 1)..to
      OBVIOUS
    <2>3. head' \in Nat /\ base' \in Nat /\ client'.last \in Nat
      BY <2>1
    <2>4. handed' \subseteq (base' + 1)..client'.last
      <3>1. handed \subseteq (base + 1)..to
        OBVIOUS
      <3>2. handed' \subseteq (base + 1)..to
        BY <2>1, <2>2, <3>1
      <3> QED BY <2>1, <3>2
    <2>5. told' \subseteq (base' + 1)..client'.last
      BY <2>1
    <2> QED BY <2>1, <2>3, <2>4, <2>5
  <1>3. CASE Delivery!Tell
    <2>1. PICK from \in (base + 1)..(client.last + 1), to \in 1..head :
            /\ client'.last = IF to > client.last THEN to ELSE client.last
            /\ told' = told \cup from..to
            /\ UNCHANGED <<head, base, handed>>
      BY <1>3 DEF Delivery!Tell
    <2>2. client'.last \in client.last..head /\ to <= client'.last
      BY <2>1
    <2>3. from..to \subseteq (base + 1)..client'.last
      BY <2>2
    <2> QED BY <2>1, <2>2, <2>3
  <1>4. CASE Delivery!Skip
    BY <1>4 DEF Delivery!Skip
  <1>5. CASE UNCHANGED Delivery!vars
    BY <1>5 DEF Delivery!vars
  <1> QED BY <1>1, <1>2, <1>3, <1>4, <1>5 DEF Delivery!Next

(* No client is handed or told of an event from before it began or from    *)
(* beyond its cursor, and the cursor never passes the end of the log       *)
(* (stream.ts:306, 331-360, 376-380).                                      *)
THEOREM DeliveryIsBounded == Delivery!Spec => []DeliveryInv
  <1> QED BY InitDelivery, NextDelivery, PTL DEF Delivery!Spec

(* A client is handed each event once and in the order of the log, and     *)
(* never one it was told it would not get: stream.ts:331-362 hands over    *)
(* what follows on from the cursor and skips the rest.                     *)
THEOREM EachEventOnceAndInOrder == Delivery!Spec => Delivery!HandedOnceInOrder
  <1>1. ASSUME DeliveryInv, [Delivery!Next]_Delivery!vars, handed' # handed
        PROVE  /\ (handed' \ handed) \cap (base + 1)..client.last = {}
               /\ handed' \ handed = (client.last + 1)..client'.last
    <2>1. Delivery!Hand
      BY <1>1 DEF Delivery!Next, Delivery!Log, Delivery!Tell, Delivery!Skip, Delivery!vars
    <2>2. PICK to \in (client.last + 1)..head :
            client'.last = to /\ handed' = handed \cup (client.last + 1)..to
      BY <2>1 DEF Delivery!Hand
    <2>3. handed \cap (client.last + 1)..to = {}
      BY <1>1 DEF DeliveryInv, Delivery!TypeOK, Delivery!Bounded
    <2> QED BY <1>1, <2>2, <2>3 DEF DeliveryInv, Delivery!TypeOK, Delivery!Bounded
  <1>2. DeliveryInv /\ [Delivery!Next]_Delivery!vars =>
          [handed' # handed =>
            /\ (handed' \ handed) \cap (base + 1)..client.last = {}
            /\ handed' \ handed = (client.last + 1)..(client.last)']_Delivery!vars
    BY <1>1
  <1> QED BY <1>2, DeliveryIsBounded, PTL DEF Delivery!Spec, Delivery!HandedOnceInOrder

(* A client that ends up within ReplayMax of the head was handed or told   *)
(* of every event it came past (server.ts:133, 5064-5065).                 *)
THEOREM NothingIsSkippedNearTheHead == Delivery!Spec => Delivery!NothingSkippedNearHead
  <1>1. ASSUME DeliveryInv, [Delivery!Next]_Delivery!vars, head < client'.last + ReplayMax
        PROVE  (client.last + 1)..client'.last \subseteq handed' \cup told'
    <2> USE <1>1, Bounds DEF DeliveryInv, Delivery!TypeOK, Delivery!Bounded
    <2>1. CASE Delivery!Log
      BY <2>1 DEF Delivery!Log
    <2>2. CASE Delivery!Hand
      BY <2>2 DEF Delivery!Hand
    <2>3. CASE Delivery!Tell
      <3>1. PICK from \in (base + 1)..(client.last + 1), to \in 1..head :
              /\ client'.last = IF to > client.last THEN to ELSE client.last
              /\ told' = told \cup from..to
        BY <2>3 DEF Delivery!Tell
      <3>2. (client.last + 1)..client'.last \subseteq from..to
        BY <3>1
      <3> QED BY <3>1, <3>2
    <2>4. CASE Delivery!Skip
      BY <2>4 DEF Delivery!Skip
    <2>5. CASE UNCHANGED Delivery!vars
      BY <2>5 DEF Delivery!vars
    <2> QED BY <2>1, <2>2, <2>3, <2>4, <2>5 DEF Delivery!Next
  <1>2. DeliveryInv /\ [Delivery!Next]_Delivery!vars =>
          [head < (client.last)' + ReplayMax =>
            (client.last + 1)..(client.last)' \subseteq handed' \cup told']_Delivery!vars
    BY <1>1
  <1> QED BY <1>2, DeliveryIsBounded, PTL DEF Delivery!Spec, Delivery!NothingSkippedNearHead

(* What the promise is worth, of the stream itself: a client is handed     *)
(* each event once and in order, over whatever sockets it reads, and       *)
(* misses none in silence when it is at most ReplayMax behind.             *)
THEOREM TheStreamHandsEachEventOnce ==
    ASSUME Faults = {}
    PROVE  Spec => Delivery!HandedOnceInOrder /\ Delivery!NothingSkippedNearHead
<1>1. Delivery!Spec => Delivery!HandedOnceInOrder /\ Delivery!NothingSkippedNearHead
  BY EachEventOnceAndInOrder, NothingIsSkippedNearTheHead, PTL
<1> QED BY <1>1, TheStreamDeliversTheLog, PTL DEF DeliversTheLog
=============================================================================
