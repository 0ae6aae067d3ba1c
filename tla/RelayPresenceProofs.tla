------------------------- MODULE RelayPresenceProofs -------------------------
(***************************************************************************)
(* Theorems about RelayPresence, for any number of relays, ids, machines   *)
(* and dials.                                                              *)
(***************************************************************************)
EXTENDS RelayPresence, TLAPS

(* What a relay has, it has of a machine's link and while it runs; time    *)
(* has not passed a tunnel's since; a daemon's socket is a link of its own. *)
Linked ==
    /\ \A n \in Links :
          /\ link[n].near \in {"asking", "open", "closing"} =>
                link[n].m \in Machines /\ link[n].p \in Procs /\ proc[link[n].p] = "up"
          /\ link[n].since <= now
    /\ \A m \in Machines : ws[m] # 0 => ws[m] <= dialled /\ link[ws[m]].m = m

RelayInv == TypeOK /\ Linked /\ OpenTunnelIsFound

(* An id is held by the process that runs, for as long as it runs, and read *)
(* as free by one process at a time.                                        *)
HolderInv ==
    /\ \A p \in Procs : proc[p] = "up" => Holds(p) /\ inst[SlotOf[p]].fresh
    /\ \A p \in Procs : proc[p] = "claiming" => Claimable(SlotOf[p])
    /\ \A p, q \in Procs :
          proc[p] = "claiming" /\ proc[q] = "claiming" /\ SlotOf[p] = SlotOf[q] => p = q

-----------------------------------------------------------------------------
(* The operators.                                                          *)

(* A tunnel that is gone, and the ends that are written. *)
LEMMA EndTypes ==
    ASSUME NEW l \in LinkType
    PROVE  /\ Gone(l) \in LinkType /\ Gone(l).near = "gone" /\ Gone(l).m = l.m
           /\ Gone(l).since = 0
           /\ Closed(l) \in LinkType /\ Closed(l).near # "open"
           /\ Closed(l).near \in {l.near, "closing"}
           /\ Closed(l).near = "closing" => l.near \in {"open", "closing"}
           /\ Closed(l).m = l.m /\ Closed(l).p = l.p /\ Closed(l).since = l.since
<1>1. /\ Gone(l) \in LinkType /\ Gone(l).near = "gone" /\ Gone(l).m = l.m
      /\ Gone(l).since = 0
  BY DEF Gone, LinkType
<1>2. CASE l.near = "open"
  BY <1>1, <1>2 DEF Closed, LinkType
<1>3. CASE l.near # "open"
  BY <1>1, <1>3 DEF Closed, LinkType
<1> QED BY <1>2, <1>3

(* A row that is written or removed. *)
LEMMA RowTypes ==
    ASSUME NEW p \in Procs, NEW r \in RowType \cup {None}, NEW since \in Nat
    PROVE  /\ Upserted(p, since) \in RowType
           /\ Removed(p, r) \in RowType \cup {None}
           /\ Refreshed(p, since, r) \in RowType \cup {None}
<1>1. Upserted(p, since) \in RowType
  BY SlotAssumption DEF Upserted, RowType
<1> QED BY <1>1 DEF Removed, Refreshed

(* What one flush leaves in the table. *)
LEMMA FlushedType ==
    ASSUME TypeOK, NEW p \in Procs
    PROVE  Flushed(p) \in [Machines -> RowType \cup {None}]
<1> SUFFICES ASSUME NEW m \in Machines PROVE Flushed(p)[m] \in RowType \cup {None}
  BY DEF Flushed
<1>1. row[m] \in RowType \cup {None} /\ tunnels[p][m] \in 0..MaxDials
  BY DEF TypeOK
<1>2. CASE tunnels[p][m] # 0
  <2>1. link[tunnels[p][m]].since \in Nat
    BY <1>1, <1>2, BoundAssumption DEF TypeOK, Links, LinkType
  <2> QED BY <1>1, <1>2, <2>1, RowTypes DEF Flushed
<1>3. CASE tunnels[p][m] = 0
  BY <1>1, <1>3, RowTypes DEF Flushed, Removed
<1> QED BY <1>2, <1>3

-----------------------------------------------------------------------------
(* The invariant of the tunnels.                                           *)

(* No tunnel is open to begin with. *)
LEMMA RelayInit == Init => RelayInv
<1> SUFFICES ASSUME Init PROVE RelayInv
  OBVIOUS
<1>1. NoLink \in LinkType
  BY DEF NoLink, LinkType
<1>2. TypeOK
  BY <1>1, BoundAssumption DEF Init, TypeOK
<1>3. Linked
  BY DEF Init, Linked, NoLink
<1>4. OpenTunnelIsFound
  BY DEF Init, OpenTunnelIsFound, NoLink
<1> QED BY <1>2, <1>3, <1>4 DEF RelayInv

(* What touches neither tunnels nor links. *)
LEMMA RowSteps ==
    ASSUME RelayInv,
           \/ \E m \in Machines : RowAges(m)
           \/ \E r \in Slots : ClaimAges(r)
           \/ \E p \in Procs : ReadClaim(p) \/ WriteClaim(p) \/ Flush(p)
    PROVE  RelayInv'
<1> USE DEF RelayInv
<1>1. /\ tunnels' = tunnels /\ link' = link /\ dialled' = dialled
      /\ daemon' = daemon /\ ws' = ws /\ now' = now
  BY DEF RowAges, ClaimAges, ReadClaim, WriteClaim, Flush
<1>2. proc' \in [Procs -> {"down", "claiming", "up", "gone"}]
      /\ \A q \in Procs : proc[q] = "up" => proc'[q] = "up"
  BY DEF RowAges, ClaimAges, ReadClaim, WriteClaim, Flush, TypeOK
<1>3. row' \in [Machines -> RowType \cup {None}]
  <2>1. ASSUME NEW m \in Machines, RowAges(m) PROVE row' \in [Machines -> RowType \cup {None}]
    <3>1. row[m] \in RowType
      BY <2>1 DEF RowAges, TypeOK
    <3>2. [row[m] EXCEPT !.fresh = FALSE] \in RowType
      BY <3>1 DEF RowType
    <3> QED BY <2>1, <3>2 DEF RowAges, TypeOK
  <2>2. ASSUME NEW p \in Procs, WriteClaim(p) PROVE row' \in [Machines -> RowType \cup {None}]
    <3>1. \A m \in Machines : Removed(p, row[m]) \in RowType \cup {None}
      BY DEF TypeOK, Removed
    <3> QED BY <2>2, <3>1 DEF WriteClaim, TypeOK
  <2>3. ASSUME NEW p \in Procs, Flush(p) PROVE row' \in [Machines -> RowType \cup {None}]
    BY <2>3, FlushedType DEF Flush
  <2> QED BY <2>1, <2>2, <2>3 DEF ClaimAges, ReadClaim, TypeOK
<1>4. inst' \in [Slots -> ClaimType \cup {None}]
  <2>1. ASSUME NEW r \in Slots, ClaimAges(r) PROVE inst' \in [Slots -> ClaimType \cup {None}]
    <3>1. inst[r] \in ClaimType
      BY <2>1 DEF ClaimAges, TypeOK
    <3>2. [inst[r] EXCEPT !.fresh = FALSE] \in ClaimType
      BY <3>1 DEF ClaimType
    <3> QED BY <2>1, <3>2 DEF ClaimAges, TypeOK
  <2>2. ASSUME NEW p \in Procs, WriteClaim(p) PROVE inst' \in [Slots -> ClaimType \cup {None}]
    BY <2>2 DEF WriteClaim, TypeOK, ClaimType
  <2>3. ASSUME NEW p \in Procs, Flush(p) PROVE inst' \in [Slots -> ClaimType \cup {None}]
    <3>1. CASE Holds(p)
      <4>1. inst[SlotOf[p]] \in ClaimType
        BY <3>1, SlotAssumption DEF Holds, TypeOK
      <4>2. [inst[SlotOf[p]] EXCEPT !.fresh = TRUE] \in ClaimType
        BY <4>1 DEF ClaimType
      <4> QED BY <2>3, <3>1, <4>2 DEF Flush, Beaten, TypeOK
    <3>2. CASE ~Holds(p)
      BY <2>3, <3>2 DEF Flush, Beaten, TypeOK
    <3> QED BY <3>1, <3>2
  <2> QED BY <2>1, <2>2, <2>3 DEF RowAges, ReadClaim, TypeOK
<1>5. TypeOK'
  BY <1>1, <1>2, <1>3, <1>4 DEF TypeOK
<1>6. Linked' /\ OpenTunnelIsFound'
  BY <1>1, <1>2 DEF Linked, OpenTunnelIsFound, Links
<1> QED BY <1>5, <1>6

(* A link is somebody's. *)
LEMMA LinkTyped ==
    ASSUME TypeOK
    PROVE  /\ \A n \in Links : link[n] \in LinkType
           /\ Links = 1..MaxDials /\ MaxDials \in Nat
  BY BoundAssumption DEF TypeOK, Links

(* What a relay does to a link: it is attached, closed or gone. *)
LEMMA AttachKeeps ==
    ASSUME RelayInv, NEW p \in Procs, NEW n \in Links, Attach(p, n)
    PROVE  RelayInv'
<1> USE DEF RelayInv
<1>1. PICK m \in Machines : m = link[n].m
  BY DEF Attach, Linked
<1>2. PICK old \in 0..MaxDials : old = tunnels[p][m]
  BY DEF TypeOK
<1>3. /\ proc' = proc /\ dialled' = dialled /\ inst' = inst /\ daemon' = daemon /\ ws' = ws
      /\ now' = now + 1 /\ now \in Nat /\ link[n].p = p /\ proc[p] = "up"
      /\ tunnels' = [tunnels EXCEPT ![p][m] = n]
  BY <1>1 DEF Attach, TypeOK
<1> DEFINE New == [link[n] EXCEPT !.near = "open", !.since = now + 1]
<1>4. New \in LinkType /\ New.near = "open" /\ New.since = now + 1 /\ New.m = m /\ New.p = p
  <2>1. link[n] \in LinkType /\ now + 1 \in Nat /\ link[n].m = m /\ link[n].p = p
    BY <1>1, <1>3, LinkTyped
  <2> QED BY <2>1 DEF LinkType
<1>5. link' = [k \in Links |-> IF k = n THEN New ELSE IF k = old THEN Closed(link[k]) ELSE link[k]]
  BY <1>1, <1>2, <1>3 DEF Attach
<1> HIDE DEF New
<1>6. link' \in [Links -> LinkType]
  BY <1>4, <1>5, EndTypes, LinkTyped
<1>7. \A k \in Links : k # n =>
        /\ link'[k].m = link[k].m /\ link'[k].p = link[k].p /\ link'[k].since = link[k].since
        /\ link'[k].near \in {"asking", "open", "closing"} =>
              link[k].near \in {"asking", "open", "closing"}
        /\ link'[k].near = "open" => link[k].near = "open" /\ k # old
  BY <1>5, EndTypes, LinkTyped
<1>8. tunnels' \in [Procs -> [Machines -> 0..MaxDials]]
  BY <1>3, LinkTyped DEF TypeOK
<1>9. row' \in [Machines -> RowType \cup {None}]
  <2>1. Upserted(p, now + 1) \in RowType
    BY <1>3, RowTypes
  <2>2. row' = row \/ row' = [row EXCEPT ![m] = Upserted(p, now + 1)]
    BY <1>1 DEF Attach
  <2> QED BY <2>1, <2>2 DEF TypeOK
<1>10. TypeOK'
  BY <1>3, <1>6, <1>8, <1>9 DEF TypeOK
<1>11. Linked'
  <2>1. ASSUME NEW k \in Links
        PROVE  /\ link'[k].near \in {"asking", "open", "closing"} =>
                     link'[k].m \in Machines /\ link'[k].p \in Procs /\ proc[link'[k].p] = "up"
               /\ link'[k].since <= now + 1
    <3>1. CASE k = n
      BY <1>3, <1>4, <1>5, <3>1
    <3>2. CASE k # n
      <4>1. link[k].since <= now /\ link[k].since \in Nat
        BY LinkTyped DEF Linked, LinkType
      <4> QED BY <1>3, <1>7, <3>2, <4>1 DEF Linked
    <3> QED BY <3>1, <3>2
  <2>2. ASSUME NEW m2 \in Machines, ws[m2] # 0
        PROVE  ws[m2] <= dialled /\ link'[ws[m2]].m = m2
    <3>1. ws[m2] \in Links
      BY <2>2, LinkTyped DEF TypeOK
    <3> QED BY <1>1, <1>4, <1>5, <1>7, <2>2, <3>1 DEF Linked
  <2> QED BY <1>3, <2>1, <2>2 DEF Linked
<1>12. OpenTunnelIsFound'
  <2> SUFFICES ASSUME NEW k \in Links, link'[k].near = "open"
               PROVE  tunnels'[link'[k].p][link'[k].m] = k
    BY DEF OpenTunnelIsFound, Links
  <2>1. CASE k = n
    BY <1>3, <1>4, <1>5, <2>1 DEF TypeOK
  <2>2. CASE k # n
    <3>1. link'[k].p = link[k].p /\ link'[k].m = link[k].m /\ link[k].near = "open" /\ k # old
      BY <1>7, <2>2
    <3>2. tunnels[link[k].p][link[k].m] = k /\ link[k].p \in Procs /\ link[k].m \in Machines
      BY <3>1 DEF OpenTunnelIsFound, Linked
    <3>3. link[k].p # p \/ link[k].m # m
      BY <1>2, <3>1, <3>2
    <3> QED BY <1>3, <3>1, <3>2, <3>3 DEF TypeOK
  <2> QED BY <2>1, <2>2
<1> QED BY <1>10, <1>11, <1>12

(* A link whose relay's end only moves on towards its end. *)
LEMMA EndKeeps ==
    ASSUME RelayInv,
           proc' = proc, dialled' = dialled, inst' = inst, daemon' = daemon,
           ws' = ws, now' = now,
           row' \in [Machines -> RowType \cup {None}],
           tunnels' \in [Procs -> [Machines -> 0..MaxDials]],
           link' \in [Links -> LinkType],
           \A k \in Links :
              /\ link'[k].m = link[k].m
              /\ link'[k].since \in {0, link[k].since}
              /\ link'[k].near \in {"asking", "open", "closing"} =>
                    link[k].near \in {"asking", "open", "closing"} /\ link'[k].p = link[k].p
              /\ link'[k].near = "open" =>
                    /\ link[k].near = "open"
                    /\ tunnels'[link[k].p][link[k].m] = tunnels[link[k].p][link[k].m]
    PROVE  RelayInv'
<1> USE DEF RelayInv
<1>1. TypeOK'
  BY DEF TypeOK
<1>2. Linked'
  <2>1. now \in Nat /\ \A k \in Links : link[k].since <= now /\ link'[k].since <= now
    BY DEF TypeOK, Linked
  <2>2. \A m \in Machines : ws[m] # 0 => ws[m] \in Links
    BY LinkTyped DEF TypeOK
  <2> QED BY <2>1, <2>2 DEF Linked, Links
<1>3. OpenTunnelIsFound'
  BY DEF OpenTunnelIsFound, Links
<1> QED BY <1>1, <1>2, <1>3

(* Unregister takes the map's entry of the tunnel it names, or nothing. *)
LEMMA UnregisterKeeps ==
    ASSUME RelayInv, NEW p \in Procs, NEW n \in Links, Unregister(p, n)
    PROVE  /\ row' \in [Machines -> RowType \cup {None}]
           /\ tunnels' \in [Procs -> [Machines -> 0..MaxDials]]
           /\ \A k \in Links : link[k].near = "open" /\ k # n =>
                 tunnels'[link[k].p][link[k].m] = tunnels[link[k].p][link[k].m]
<1> USE DEF RelayInv
<1>1. CASE tunnels[p][link[n].m] # n
  BY <1>1 DEF Unregister, TypeOK
<1>2. CASE tunnels[p][link[n].m] = n
  <2>1. tunnels' = [tunnels EXCEPT ![p][link[n].m] = 0]
    BY <1>2 DEF Unregister
  <2>2. tunnels' \in [Procs -> [Machines -> 0..MaxDials]]
    <3>1. tunnels \in [Procs -> [Machines -> 0..MaxDials]] /\ 0 \in 0..MaxDials
      BY BoundAssumption DEF TypeOK
    <3>2. tunnels[p] \in [Machines -> 0..MaxDials]
      BY <3>1
    <3>3. [tunnels[p] EXCEPT ![link[n].m] = 0] \in [Machines -> 0..MaxDials]
      BY <3>1, <3>2
    <3>4. tunnels' = [tunnels EXCEPT ![p] = [tunnels[p] EXCEPT ![link[n].m] = 0]]
      BY <2>1
    <3> QED BY <3>1, <3>3, <3>4
  <2>3. row' \in [Machines -> RowType \cup {None}]
    <3>1. \A m \in Machines : Removed(p, row[m]) \in RowType \cup {None}
      BY DEF Removed, TypeOK
    <3>2. row' = row \/ row' = [row EXCEPT ![link[n].m] = Removed(p, row[link[n].m])]
      BY <1>2 DEF Unregister
    <3> QED BY <3>1, <3>2 DEF TypeOK
  <2>4. ASSUME NEW k \in Links, link[k].near = "open", k # n
        PROVE  tunnels'[link[k].p][link[k].m] = tunnels[link[k].p][link[k].m]
    <3>1. tunnels[link[k].p][link[k].m] = k /\ link[k].p \in Procs /\ link[k].m \in Machines
      BY <2>4 DEF OpenTunnelIsFound, Linked
    <3>2. link[k].p # p \/ link[k].m # link[n].m
      BY <1>2, <2>4, <3>1
    <3> QED BY <2>1, <3>1, <3>2 DEF TypeOK
  <2> QED BY <2>2, <2>3, <2>4
<1> QED BY <1>1, <1>2

(* The steps of a relay process with its tunnels. *)
LEMMA RelaySteps ==
    ASSUME RelayInv, NEW p \in Procs,
           \/ \E n \in Links : Refuse(p, n) \/ TunnelCloses(p, n) \/ Backpressure(p, n)
           \/ \E m \in Machines : Lookup(p, m)
    PROVE  RelayInv'
<1> USE DEF RelayInv
<1>0. link \in [Links -> LinkType] /\ row \in [Machines -> RowType \cup {None}]
      /\ tunnels \in [Procs -> [Machines -> 0..MaxDials]]
  BY DEF TypeOK
<1>1. ASSUME NEW n \in Links, Refuse(p, n) PROVE RelayInv'
  <2>1. link' = [link EXCEPT ![n] = Gone(link[n])]
    BY <1>1 DEF Refuse
  <2> QED BY <1>0, <1>1, <2>1, EndTypes, EndKeeps DEF Refuse
<1>2. ASSUME NEW n \in Links, Backpressure(p, n) PROVE RelayInv'
  <2>1. link' = [link EXCEPT ![n] = Closed(link[n])]
    BY <1>2 DEF Backpressure
  <2> QED BY <1>0, <1>2, <2>1, EndTypes, EndKeeps DEF Backpressure
<1>3. ASSUME NEW n \in Links, TunnelCloses(p, n) PROVE RelayInv'
  <2>1. link' = [link EXCEPT ![n] = Gone(link[n])] /\ Unregister(p, n)
    BY <1>3 DEF TunnelCloses
  <2> QED BY <1>0, <1>3, <2>1, EndTypes, EndKeeps, UnregisterKeeps DEF TunnelCloses
<1>4. ASSUME NEW m \in Machines, Lookup(p, m) PROVE RelayInv'
  <2>1. PICK n \in Links : n = tunnels[p][m] /\ link[n].near = "closing" /\ Unregister(p, n)
    BY <1>0, <1>4, LinkTyped DEF Lookup
  <2>2. link' = link
    BY <1>4 DEF Lookup
  <2> QED BY <1>0, <1>4, <2>1, <2>2, EndKeeps, UnregisterKeeps DEF Lookup
<1> QED BY <1>1, <1>2, <1>3, <1>4

(* A relay process ends. *)
LEMMA EndSteps ==
    ASSUME RelayInv, NEW p \in Procs, Shutdown(p) \/ Crash(p)
    PROVE  RelayInv'
<1> USE DEF RelayInv
<1>1. /\ dialled' = dialled /\ daemon' = daemon /\ ws' = ws /\ now' = now
      /\ proc' = [proc EXCEPT ![p] = "gone"]
      /\ tunnels' = [tunnels EXCEPT ![p] = [m \in Machines |-> 0]]
      /\ link' = [n \in Links |-> IF link[n].p = p THEN Gone(link[n]) ELSE link[n]]
  BY DEF Shutdown, Crash, Dies
<1>2. \A n \in Links :
         /\ link'[n] \in LinkType /\ link'[n].m = link[n].m
         /\ link'[n].since \in {0, link[n].since}
         /\ link'[n].near \in {"asking", "open", "closing"} => link'[n] = link[n] /\ link[n].p # p
  BY <1>1, EndTypes, LinkTyped
<1>3. row' \in [Machines -> RowType \cup {None}]
  <2>1. \A m \in Machines : Removed(p, row[m]) \in RowType \cup {None}
    BY DEF Removed, TypeOK
  <2>2. CASE row' = row
    BY <2>2 DEF TypeOK
  <2>3. CASE row' = [m \in Machines |-> IF tunnels[p][m] # 0 THEN Removed(p, row[m]) ELSE row[m]]
    BY <2>1, <2>3 DEF TypeOK
  <2> QED BY <2>2, <2>3 DEF Shutdown, Crash
<1>4. inst' \in [Slots -> ClaimType \cup {None}]
  <2>1. CASE inst' = inst
    BY <2>1 DEF TypeOK
  <2>2. CASE inst' = [inst EXCEPT ![SlotOf[p]] = IF Holds(p) THEN None ELSE @]
    BY <2>2 DEF TypeOK
  <2> QED BY <2>1, <2>2 DEF Shutdown, Crash
<1>5. proc' \in [Procs -> {"down", "claiming", "up", "gone"}]
      /\ \A q \in Procs : q # p => proc'[q] = proc[q]
  BY <1>1 DEF TypeOK
<1>6. tunnels' \in [Procs -> [Machines -> 0..MaxDials]]
  <2>1. [m \in Machines |-> 0] \in [Machines -> 0..MaxDials]
    BY BoundAssumption
  <2> QED BY <1>1, <2>1 DEF TypeOK
<1>7. TypeOK'
  BY <1>1, <1>2, <1>3, <1>4, <1>5, <1>6 DEF TypeOK
<1>8. Linked'
  <2>1. now \in Nat /\ \A n \in Links : link[n].since <= now
    BY DEF TypeOK, Linked
  <2>2. \A m \in Machines : ws[m] # 0 => ws[m] \in Links
    BY LinkTyped DEF TypeOK
  <2>3. ASSUME NEW n \in Links PROVE link'[n].since <= now
    BY <1>2, <2>1
  <2> QED BY <1>1, <1>2, <1>5, <2>2, <2>3 DEF Linked, Links
<1>9. OpenTunnelIsFound'
  BY <1>1, <1>2 DEF OpenTunnelIsFound, Links, TypeOK, Linked
<1> QED BY <1>7, <1>8, <1>9

(* A daemon's steps. *)
LEMMA DaemonSteps ==
    ASSUME RelayInv, NEW m \in Machines,
           \/ \E p \in Procs : Open(m, p)
           \/ Serve(m) \/ SocketCloses(m) \/ Stop(m)
    PROVE  RelayInv'
<1> USE DEF RelayInv
<1>0. /\ link \in [Links -> LinkType] /\ ws \in [Machines -> 0..MaxDials] /\ now \in Nat
      /\ daemon \in [Machines -> {"retrying", "dialling", "serving", "stopped"}]
      /\ dialled \in 0..MaxDials
  BY DEF TypeOK
<1>1. ASSUME NEW p \in Procs, Open(m, p) PROVE RelayInv'
  <2> DEFINE New == [m |-> m, p |-> p, near |-> "asking", far |-> "asking", since |-> 0]
             n == dialled + 1
  <2>1. New \in LinkType /\ New.m = m /\ New.p = p /\ New.near = "asking" /\ New.since = 0
    BY DEF LinkType
  <2>2. n \in Links /\ n \in 0..MaxDials /\ dialled < n /\ dialled' = n
    <3>1. dialled \in 0..MaxDials /\ dialled < MaxDials /\ dialled' = n
      BY <1>0, <1>1 DEF Open
    <3> QED BY <3>1, BoundAssumption DEF Links
  <2>3. link' = [link EXCEPT ![n] = New] /\ ws' = [ws EXCEPT ![m] = n]
        /\ daemon' = [daemon EXCEPT ![m] = "dialling"]
        /\ proc' = proc /\ tunnels' = tunnels /\ row' = row /\ inst' = inst /\ now' = now
        /\ proc[p] = "up"
    BY <1>1 DEF Open
  <2> HIDE DEF New, n
  <2>4. TypeOK'
    BY <1>0, <2>1, <2>2, <2>3 DEF TypeOK
  <2>5. \A k \in Links : link'[k] = IF k = n THEN New ELSE link[k]
    BY <1>0, <2>2, <2>3
  <2>6. ASSUME NEW m2 \in Machines, ws'[m2] # 0 PROVE ws'[m2] <= dialled' /\ link'[ws'[m2]].m = m2
    <3>1. CASE m2 = m
      BY <1>0, <2>1, <2>2, <2>3, <2>5, <3>1
    <3>2. CASE m2 # m
      <4>1. ws'[m2] = ws[m2] /\ ws[m2] <= dialled /\ link[ws[m2]].m = m2
        BY <1>0, <2>3, <2>6, <3>2 DEF Linked
      <4>2. ws[m2] \in Links /\ ws[m2] # dialled'
        BY <1>0, <2>2, <2>6, <4>1, LinkTyped
      <4>3. ws[m2] # n /\ ws[m2] <= n
        BY <1>0, <2>2, <4>1, <4>2
      <4> QED BY <2>2, <2>5, <4>1, <4>2, <4>3
    <3> QED BY <3>1, <3>2
  <2>7. Linked'
    <3>1. ASSUME NEW k \in Links
          PROVE  /\ link'[k].near \in {"asking", "open", "closing"} =>
                       link'[k].m \in Machines /\ link'[k].p \in Procs /\ proc[link'[k].p] = "up"
                 /\ link'[k].since <= now
      BY <1>0, <2>1, <2>3, <2>5 DEF Linked
    <3> QED BY <2>3, <2>6, <3>1 DEF Linked, Links
  <2>8. OpenTunnelIsFound'
    BY <2>1, <2>3, <2>5 DEF OpenTunnelIsFound, Links
  <2> QED BY <2>4, <2>7, <2>8
<1>2. CASE Serve(m) \/ SocketCloses(m) \/ Stop(m)
  <2>1. /\ proc' = proc /\ tunnels' = tunnels /\ dialled' = dialled /\ row' = row
        /\ inst' = inst /\ now' = now
    BY <1>2 DEF Serve, SocketCloses, Stop
  <2>2. daemon' \in [Machines -> {"retrying", "dialling", "serving", "stopped"}]
    BY <1>0, <1>2 DEF Serve, SocketCloses, Stop
  <2>3. ws' \in [Machines -> 0..MaxDials] /\ \A k \in Machines : ws'[k] # 0 => ws'[k] = ws[k]
    <3>1. 0 \in 0..MaxDials
      BY BoundAssumption
    <3> QED BY <1>0, <1>2, <3>1 DEF Serve, SocketCloses, Stop, TornDown
  <2>4. \E far \in {"gone", "open"} : link' = link \/ link' = [link EXCEPT ![ws[m]].far = far]
    <3>1. CASE Serve(m)
      BY <3>1 DEF Serve
    <3>2. CASE SocketCloses(m) \/ Stop(m)
      BY <3>2 DEF SocketCloses, Stop, TornDown
    <3> QED BY <1>2, <3>1, <3>2
  <2>5. PICK far \in {"gone", "open"} : link' = link \/ link' = [link EXCEPT ![ws[m]].far = far]
    BY <2>4
  <2>6. ASSUME NEW l \in LinkType
        PROVE  /\ [l EXCEPT !.far = far] \in LinkType
               /\ [l EXCEPT !.far = far].m = l.m /\ [l EXCEPT !.far = far].p = l.p
               /\ [l EXCEPT !.far = far].near = l.near /\ [l EXCEPT !.far = far].since = l.since
    BY DEF LinkType
  <2>7. \A k \in Links :
          /\ link'[k] \in LinkType /\ link'[k].m = link[k].m /\ link'[k].p = link[k].p
          /\ link'[k].near = link[k].near /\ link'[k].since = link[k].since
    <3>1. CASE link' = link
      BY <1>0, <3>1
    <3>2. CASE link' = [link EXCEPT ![ws[m]].far = far]
      <4>1. \A k \in Links :
              link'[k] = IF k = ws[m] THEN [link[k] EXCEPT !.far = far] ELSE link[k]
        BY <1>0, <3>2
      <4> QED BY <1>0, <2>6, <4>1
    <3> QED BY <2>5, <3>1, <3>2
  <2>8. TypeOK'
    <3>1. link' \in [Links -> LinkType]
      BY <1>0, <2>5, <2>7
    <3> QED BY <2>1, <2>2, <2>3, <3>1 DEF TypeOK
  <2>9. Linked'
    <3>1. \A k \in Machines : ws[k] # 0 => ws[k] \in Links
      BY <1>0, LinkTyped
    <3> QED BY <2>1, <2>3, <2>7, <3>1 DEF Linked, Links
  <2>10. OpenTunnelIsFound'
    BY <2>1, <2>7 DEF OpenTunnelIsFound, Links
  <2> QED BY <2>8, <2>9, <2>10
<1> QED BY <1>1, <1>2

(* Every step keeps RelayInv. *)
LEMMA RelayNext == RelayInv /\ [Next]_vars => RelayInv'
<1> SUFFICES ASSUME RelayInv, [Next]_vars PROVE RelayInv'
  OBVIOUS
<1>1. CASE Next
  BY <1>1, RowSteps, AttachKeeps, RelaySteps, EndSteps, DaemonSteps DEF Next, Progress, Trouble
<1>2. CASE UNCHANGED vars
  BY <1>2 DEF vars, RelayInv, TypeOK, Linked, OpenTunnelIsFound, Links
<1> QED BY <1>1, <1>2

(* The tunnels' invariant holds in every behaviour. *)
THEOREM InvariantHolds == Spec => []RelayInv
  BY RelayInit, RelayNext, PTL DEF Spec

(* The tables, the links and the daemons keep their types                  *)
(* (presence.ts:95-148, tunnel-endpoint.ts:261-352).                       *)
THEOREM TypeCorrect == Spec => []TypeOK
<1>1. RelayInv => TypeOK
  BY DEF RelayInv
<1> QED BY <1>1, InvariantHolds, PTL

(* A tunnel that its relay has not closed is the one in its map, in        *)
(* whatever order the old ones close (registry.ts:257-290).                *)
THEOREM OpenTunnelsAreFound == Spec => []OpenTunnelIsFound
<1>1. RelayInv => OpenTunnelIsFound
  BY DEF RelayInv
<1> QED BY <1>1, InvariantHolds, PTL


-----------------------------------------------------------------------------
(* Who holds an id, when no process stands still and no two start at once. *)

(* No id is claimed to begin with. *)
LEMMA HolderInit == Init => HolderInv
  BY DEF Init, HolderInv

(* Processes that stop do not take an id from another. *)
LEMMA HolderKept ==
    ASSUME HolderInv, inst' = inst,
           \A q \in Procs : proc'[q] # "gone" => proc'[q] = proc[q]
    PROVE  HolderInv'
  BY DEF HolderInv, Holds, Claimable

(* Every step keeps HolderInv, where no supervisor slips. *)
LEMMA HolderNext == ASSUME Slips = {}, TypeOK, HolderInv, [Next]_vars PROVE HolderInv'
<1> USE SlotAssumption
<1>0. proc \in [Procs -> {"down", "claiming", "up", "gone"}] /\ inst \in [Slots -> ClaimType \cup {None}]
  BY DEF TypeOK
<1>1. ASSUME NEW p \in Procs, ReadClaim(p) PROVE HolderInv'
  <2>1. /\ proc' = [proc EXCEPT ![p] = "claiming"] /\ inst' = inst /\ Claimable(SlotOf[p])
        /\ \A q \in Procs : SlotOf[q] = SlotOf[p] => proc[q] # "claiming"
    BY <1>1 DEF ReadClaim
  <2>2. \A q \in Procs : proc'[q] = IF q = p THEN "claiming" ELSE proc[q]
    BY <1>0, <2>1
  <2> QED BY <2>1, <2>2 DEF HolderInv, Holds, Claimable
<1>2. ASSUME NEW p \in Procs, WriteClaim(p) PROVE HolderInv'
  <2> DEFINE c == [nonce |-> p, fresh |-> TRUE]
  <2>1. /\ proc[p] = "claiming" /\ proc' = [proc EXCEPT ![p] = "up"]
        /\ inst' = [inst EXCEPT ![SlotOf[p]] = c]
    BY <1>2 DEF WriteClaim
  <2>2. \A q \in Procs : proc'[q] = IF q = p THEN "up" ELSE proc[q]
    BY <1>0, <2>1
  <2>3. c # None /\ c.nonce = p /\ c.fresh = TRUE
    <3>1. c \in ClaimType
      BY DEF ClaimType
    <3>2. c # None
      BY <3>1, NoneAssumption
    <3> QED BY <3>2
  <2> HIDE DEF c
  <2>4. \A q \in Procs : inst'[SlotOf[q]] = IF SlotOf[q] = SlotOf[p] THEN c ELSE inst[SlotOf[q]]
    BY <1>0, <2>1
  <2>5. ASSUME NEW q \in Procs, q # p, SlotOf[q] = SlotOf[p]
        PROVE  proc[q] # "up" /\ proc[q] # "claiming"
    BY <2>1, <2>5 DEF HolderInv, Holds, Claimable
  <2>6. \A q \in Procs : proc'[q] = "up" => (Holds(q) /\ inst[SlotOf[q]].fresh)'
    BY <2>2, <2>3, <2>4, <2>5 DEF HolderInv, Holds
  <2>7. \A q \in Procs : proc'[q] = "claiming" => Claimable(SlotOf[q])'
    BY <2>2, <2>4, <2>5 DEF HolderInv, Claimable
  <2>8. \A q, r \in Procs :
          proc'[q] = "claiming" /\ proc'[r] = "claiming" /\ SlotOf[q] = SlotOf[r] => q = r
    BY <2>2 DEF HolderInv
  <2> QED BY <2>6, <2>7, <2>8 DEF HolderInv
<1>3. ASSUME NEW p \in Procs, Flush(p) PROVE HolderInv'
  <2>1. proc[p] = "up" /\ proc' = proc /\ Holds(p) /\ inst[SlotOf[p]].fresh
    BY <1>3 DEF Flush, HolderInv
  <2>2. inst' = [inst EXCEPT ![SlotOf[p]].fresh = TRUE]
    BY <1>3, <2>1 DEF Flush, Beaten
  <2>3. inst[SlotOf[p]] \in ClaimType
    BY <1>0, <2>1 DEF Holds
  <2>4. [inst[SlotOf[p]] EXCEPT !.fresh = TRUE] = inst[SlotOf[p]]
    BY <2>1, <2>3 DEF ClaimType
  <2>5. inst' = inst
    BY <1>0, <2>2, <2>4
  <2> QED BY <2>1, <2>5, HolderKept
<1>4. ASSUME NEW r \in Slots, ClaimAges(r) PROVE HolderInv'
  <2>1. /\ inst[r] # None /\ proc' = proc /\ proc[inst[r].nonce] # "up"
        /\ inst' = [inst EXCEPT ![r].fresh = FALSE]
    BY <1>4 DEF ClaimAges, Silent
  <2>2. \A q \in Procs : proc[q] = "up" => SlotOf[q] # r
    BY <2>1 DEF HolderInv, Holds
  <2>3. inst'[r].fresh = FALSE /\ \A k \in Slots : k # r => inst'[k] = inst[k]
    <3>1. inst[r] \in ClaimType
      BY <1>0, <2>1
    <3> QED BY <1>0, <2>1, <3>1 DEF ClaimType
  <2>4. \A k \in Slots : Claimable(k) => Claimable(k)'
    BY <2>3 DEF Claimable
  <2>5. \A q \in Procs : proc'[q] = "up" => (Holds(q) /\ inst[SlotOf[q]].fresh)'
    BY <2>1, <2>2, <2>3 DEF HolderInv, Holds
  <2> QED BY <2>1, <2>4, <2>5 DEF HolderInv
<1>5. ASSUME NEW p \in Procs, Shutdown(p) PROVE HolderInv'
  <2>1. /\ proc[p] = "up" /\ proc' = [proc EXCEPT ![p] = "gone"]
        /\ inst' = inst \/ inst' = [inst EXCEPT ![SlotOf[p]] = IF Holds(p) THEN None ELSE @]
    BY <1>5 DEF Shutdown, Dies
  <2>2. \A q \in Procs : proc'[q] = IF q = p THEN "gone" ELSE proc[q]
    BY <1>0, <2>1
  <2>3. ASSUME NEW q \in Procs, q # p, SlotOf[q] = SlotOf[p] PROVE proc[q] # "up"
    BY <2>1, <2>3 DEF HolderInv, Holds
  <2>4. \A q \in Procs : SlotOf[q] # SlotOf[p] => inst'[SlotOf[q]] = inst[SlotOf[q]]
    BY <1>0, <2>1
  <2>5. inst'[SlotOf[p]] \in {None, inst[SlotOf[p]]}
    BY <1>0, <2>1
  <2>6. \A q \in Procs : proc'[q] = "up" => (Holds(q) /\ inst[SlotOf[q]].fresh)'
    BY <2>2, <2>3, <2>4 DEF HolderInv, Holds
  <2>7. \A q \in Procs : proc'[q] = "claiming" => Claimable(SlotOf[q])'
    BY <2>2, <2>4, <2>5 DEF HolderInv, Claimable
  <2>8. \A q, r \in Procs :
          proc'[q] = "claiming" /\ proc'[r] = "claiming" /\ SlotOf[q] = SlotOf[r] => q = r
    BY <2>2 DEF HolderInv
  <2> QED BY <2>6, <2>7, <2>8 DEF HolderInv
<1>6. ASSUME NEW p \in Procs, Crash(p) PROVE HolderInv'
  BY <1>0, <1>6, HolderKept DEF Crash, Dies
<1>7. CASE inst' = inst /\ proc' = proc
  BY <1>7, HolderKept
<1>8. ASSUME Next PROVE HolderInv'
  <2>1. ASSUME Progress PROVE HolderInv'
    <3>1. ASSUME NEW p \in Procs, NEW n \in Links, Attach(p, n) \/ TunnelCloses(p, n) PROVE HolderInv'
      BY <1>7, <3>1 DEF Attach, TunnelCloses
    <3>2. ASSUME NEW m \in Machines,
                 \/ Serve(m) \/ RowAges(m) \/ SocketCloses(m)
                 \/ \E p \in Procs : Open(m, p)
          PROVE  HolderInv'
      BY <1>7, <3>2 DEF Serve, RowAges, SocketCloses, Open
    <3> QED BY <1>1, <1>2, <1>3, <1>4, <2>1, <3>1, <3>2 DEF Progress
  <2>2. ASSUME Trouble PROVE HolderInv'
    <3>1. ASSUME NEW p \in Procs, NEW n \in Links,
                 Refuse(p, n) \/ TunnelCloses(p, n) \/ Backpressure(p, n)
          PROVE  HolderInv'
      BY <1>7, <3>1 DEF Refuse, TunnelCloses, Backpressure
    <3>2. ASSUME NEW p \in Procs, NEW m \in Machines, Lookup(p, m) PROVE HolderInv'
      BY <1>7, <3>2 DEF Lookup
    <3>3. ASSUME NEW m \in Machines, SocketCloses(m) \/ Stop(m) PROVE HolderInv'
      BY <1>7, <3>3 DEF SocketCloses, Stop
    <3> QED BY <1>5, <1>6, <2>2, <3>1, <3>2, <3>3 DEF Trouble
  <2> QED BY <1>8, <2>1, <2>2 DEF Next
<1> QED BY <1>7, <1>8 DEF vars

(* The holder's invariant, in every behaviour without slips. *)
THEOREM HolderHolds == ASSUME Slips = {} PROVE Spec => []HolderInv
<1>1. TypeOK /\ HolderInv /\ [Next]_vars => HolderInv'
  BY HolderNext
<1> QED BY <1>1, HolderInit, TypeCorrect, PTL DEF Spec

(* Where no process stands still for as long as a claim lasts and no two   *)
(* of an id start at once, the process that runs is the one that           *)
(* relay_instances names (presence.ts:398-435).                            *)
THEOREM OneHolderHolds == ASSUME Slips = {} PROVE Spec => []OneHolder
<1>1. HolderInv => OneHolder
  BY DEF HolderInv, OneHolder
<1> QED BY <1>1, HolderHolds, PTL

-----------------------------------------------------------------------------
(* Who takes a live tunnel's row.                                          *)

(* The row of a live tunnel is replaced only with the tunnel. *)
LEMMA RowStep ==
    ASSUME RelayInv, HolderInv, Slips = {}, Next, NEW m \in Machines, NEW n,
           n = ws[m], n # 0, link[n].near = "open", link'[n].near = "open",
           row[m] # None, row[m].relay = SlotOf[link[n].p], row[m].since = link[n].since
    PROVE  row'[m] # None /\ row'[m].since >= row[m].since
<1> USE DEF RelayInv
<1>0. /\ row \in [Machines -> RowType \cup {None}]
      /\ tunnels \in [Procs -> [Machines -> 0..MaxDials]]
      /\ now \in Nat
  BY DEF TypeOK
<1>1. n \in Links /\ link[n].m = m
  BY LinkTyped DEF TypeOK, Linked
<1>2. PICK p \in Procs : p = link[n].p /\ proc[p] = "up" /\ tunnels[p][m] = n
  BY <1>1 DEF Linked, OpenTunnelIsFound
<1>3. row[m] \in RowType /\ row[m].since \in Nat /\ row[m].since <= now
      /\ row[m].relay = SlotOf[p]
  <2>1. row[m] \in RowType
    BY <1>0
  <2> QED BY <1>1, <1>2, <2>1 DEF RowType, Linked
<1>4. \A q \in Procs : proc[q] \in {"up", "claiming"} /\ SlotOf[q] = SlotOf[p] => q = p
  BY <1>2 DEF HolderInv, Holds, Claimable
<1> DEFINE Kept == row'[m] # None /\ row'[m].since >= row[m].since
<1>5. CASE row'[m] = row[m]
  BY <1>3, <1>5
<1>6. ASSUME NEW q \in Procs, proc[q] \in {"up", "claiming"}, q # p, row'[m] = Removed(q, row[m])
      PROVE  Kept
  BY <1>3, <1>4, <1>5, <1>6 DEF Removed
<1>7. ASSUME NEW m2 \in Machines, RowAges(m2) PROVE Kept
  <2>1. row' = [row EXCEPT ![m2].fresh = FALSE]
    BY <1>7 DEF RowAges
  <2>2. CASE m2 = m
    <3>1. row'[m] = [row[m] EXCEPT !.fresh = FALSE]
      BY <1>0, <2>1, <2>2
    <3>2. row'[m] \in RowType /\ row'[m].since = row[m].since
      BY <1>3, <3>1 DEF RowType
    <3> QED BY <1>3, <3>2, NoneAssumption
  <2>3. CASE m2 # m
    BY <1>0, <1>5, <2>1, <2>3
  <2> QED BY <2>2, <2>3
<1>8. ASSUME NEW q \in Procs, WriteClaim(q) PROVE Kept
  <2>1. q # p /\ proc[q] = "claiming"
    BY <1>2, <1>8 DEF WriteClaim
  <2>2. row'[m] = row[m] \/ row'[m] = Removed(q, row[m])
    BY <1>8 DEF WriteClaim
  <2> QED BY <1>5, <1>6, <2>1, <2>2
<1>9. ASSUME NEW q \in Procs, Flush(q) PROVE Kept
  <2>1. row'[m] = Flushed(q)[m] /\ proc[q] = "up"
    BY <1>9 DEF Flush
  <2>2. CASE tunnels[q][m] = 0
    <3>1. q # p
      BY <1>1, <1>2, <2>2, LinkTyped
    <3> QED BY <1>6, <2>1, <2>2, <3>1 DEF Flushed
  <2>3. CASE tunnels[q][m] # 0
    <3> DEFINE since == link[tunnels[q][m]].since
    <3>1. since \in Nat
      BY <1>0, <2>3, LinkTyped DEF LinkType
    <3>2. row'[m] = Refreshed(q, since, row[m])
      BY <2>1, <2>3 DEF Flushed
    <3>3. q = p => since = row[m].since
      BY <1>2
    <3> HIDE DEF since
    <3>4. Upserted(q, since) # None /\ Upserted(q, since).since = since
      BY <3>1, RowTypes, NoneAssumption DEF Upserted
    <3>5. CASE since >= row[m].since
      BY <3>2, <3>4, <3>5 DEF Refreshed
    <3>6. CASE ~(since >= row[m].since)
      <4>1. q # p
        BY <1>3, <3>1, <3>3, <3>6
      <4>2. row[m].relay # SlotOf[q]
        BY <1>3, <1>4, <2>1, <4>1
      <4>3. row'[m] = row[m]
        BY <3>2, <3>6, <4>2 DEF Refreshed
      <4> QED BY <1>5, <4>3
    <3> QED BY <3>5, <3>6
  <2> QED BY <2>2, <2>3
<1>10. ASSUME NEW q \in Procs, NEW k \in Links, Attach(q, k) PROVE Kept
  <2>1. Upserted(q, now + 1) # None /\ Upserted(q, now + 1).since = now + 1
    <3>1. now + 1 \in Nat
      BY <1>0
    <3>2. Upserted(q, now + 1) \in RowType
      BY <3>1, SlotAssumption DEF Upserted, RowType
    <3>3. Upserted(q, now + 1).since = now + 1
      BY DEF Upserted
    <3> QED BY <3>2, <3>3, NoneAssumption
  <2>2. row'[m] = row[m] \/ row'[m] = Upserted(q, now + 1)
    BY <1>0, <1>10 DEF Attach
  <2> QED BY <1>0, <1>3, <1>5, <2>1, <2>2
<1>11. ASSUME NEW q \in Procs, NEW k \in Links, k # n, proc[q] = "up", Unregister(q, k) PROVE Kept
  <2>1. CASE row'[m] = row[m]
    BY <1>5, <2>1
  <2>2. CASE row'[m] # row[m]
    <3>1. tunnels[q][m] = k /\ row'[m] = Removed(q, row[m])
      BY <1>0, <1>11, <2>2 DEF Unregister
    <3>2. q # p
      BY <1>2, <1>11, <3>1
    <3> QED BY <1>6, <1>11, <3>1, <3>2
  <2> QED BY <2>1, <2>2
<1>12. ASSUME NEW q \in Procs, NEW k \in Links, TunnelCloses(q, k) PROVE Kept
  <2>1. link' = [link EXCEPT ![k] = Gone(link[k])] /\ Unregister(q, k) /\ proc[q] = "up"
    BY <1>12 DEF TunnelCloses
  <2>2. k # n
    BY <1>1, <2>1, EndTypes, LinkTyped DEF TypeOK
  <2> QED BY <1>11, <2>1, <2>2
<1>13. ASSUME NEW q \in Procs, NEW m2 \in Machines, Lookup(q, m2) PROVE Kept
  <2>1. PICK k \in Links : k = tunnels[q][m2] /\ link[k].near = "closing" /\ Unregister(q, k)
    BY <1>0, <1>13, LinkTyped DEF Lookup
  <2>2. proc[q] = "up" /\ k # n
    BY <1>13, <2>1 DEF Lookup
  <2> QED BY <1>11, <2>1, <2>2
<1>14. ASSUME NEW q \in Procs, Shutdown(q) PROVE Kept
  <2>1. link' = [k \in Links |-> IF link[k].p = q THEN Gone(link[k]) ELSE link[k]] /\ proc[q] = "up"
    BY <1>14 DEF Shutdown, Dies
  <2>2. q # p
    BY <1>1, <1>2, <2>1, EndTypes, LinkTyped
  <2>3. row'[m] = row[m] \/ row'[m] = Removed(q, row[m])
    BY <1>14 DEF Shutdown
  <2> QED BY <1>5, <1>6, <2>1, <2>2, <2>3
<1>15. CASE row' = row
  BY <1>5, <1>15
<1>16. ASSUME NEW q \in Procs,
              \/ ReadClaim(q) \/ Crash(q)
              \/ \E k \in Links : Refuse(q, k) \/ Backpressure(q, k)
       PROVE  Kept
  BY <1>15, <1>16 DEF ReadClaim, Crash, Refuse, Backpressure
<1>17. ASSUME NEW m2 \in Machines,
              \/ Serve(m2) \/ SocketCloses(m2) \/ Stop(m2)
              \/ \E q \in Procs : Open(m2, q)
       PROVE  Kept
  BY <1>15, <1>17 DEF Serve, SocketCloses, Stop, Open
<1>18. ASSUME NEW r \in Slots, ClaimAges(r) PROVE Kept
  BY <1>15, <1>18 DEF ClaimAges
<1> HIDE DEF Kept
<1>19. Progress => Kept
  BY <1>7, <1>8, <1>9, <1>10, <1>12, <1>16, <1>17, <1>18 DEF Progress
<1>20. Trouble => Kept
  BY <1>12, <1>13, <1>14, <1>16, <1>17 DEF Trouble
<1>21. Kept
  BY <1>19, <1>20 DEF Next
<1> QED BY <1>21 DEF Kept

(* Under the same provision, nothing but a tunnel attached later takes the *)
(* row of the tunnel a daemon is on (presence.ts:105-148).                 *)
THEOREM LiveRowsStand == ASSUME Slips = {} PROVE Spec => LiveRowStands
<1> DEFINE Step ==
      \A m \in Machines :
          LET n == ws[m]
          IN  /\ n # 0 /\ link[n].near = "open" /\ link'[n].near = "open"
              /\ row[m] # None
              /\ row[m].relay = SlotOf[link[n].p] /\ row[m].since = link[n].since
              => row'[m] # None /\ row'[m].since >= row[m].since
<1>1. RelayInv /\ HolderInv /\ [Next]_vars => [Step]_vars
  <2> SUFFICES ASSUME RelayInv, HolderInv, Next PROVE Step
    OBVIOUS
  <2> QED BY RowStep
<1>2. Spec => [][Step]_vars
  BY <1>1, InvariantHolds, HolderHolds, PTL DEF Spec
<1> QED BY <1>2 DEF LiveRowStands
=============================================================================
