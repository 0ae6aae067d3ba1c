--------------------------- MODULE AdmissionProofs ---------------------------
(***************************************************************************)
(* Theorems about Admission, for any number of sessions, any ceiling and   *)
(* any bucket.                                                             *)
(***************************************************************************)
EXTENDS Admission, FiniteSetTheorems, TLAPS

(* A session that waits for a stop is making room, and has no agent. *)
MakesRoom ==
    \A s \in Sessions :
        /\ on[s] # None => call[s] # "none"
        /\ call[s] # "none" => st[s] \in {"new", "exited"}

(* What the sweep has still to look at, and did nothing since, is as quiet *)
(* as it was.                                                              *)
StaysQuiet ==
    \A s \in list : s \notin stirred /\ st[s] \in {"idle", "busy"} => age[s] = 2

AdmissionInv == TypeOK /\ MakesRoom /\ StaysQuiet /\ EvictionsPaid /\ OneVictimEach /\ PlaceIsKept

-----------------------------------------------------------------------------
(* Counting live sessions.                                                 *)

(* There are finitely many. *)
LEMMA CountIsNatural == liveSessionCount \in Nat /\ liveSessionCount' \in Nat
<1>1. IsFiniteSet(Sessions)
  BY SessionsAssumption
<1>2. LiveSessions \in SUBSET Sessions /\ LiveSessions' \in SUBSET Sessions
  BY DEF LiveSessions
<1>3. IsFiniteSet(LiveSessions) /\ IsFiniteSet(LiveSessions')
  BY <1>1, <1>2, FS_Subset
<1> QED BY <1>3, FS_CardinalityType DEF liveSessionCount

(* If one has no agent after a step, there are fewer of them than sessions. *)
LEMMA FewerThanSessions ==
    ASSUME NEW c \in Sessions, st'[c] = "new"
    PROVE  liveSessionCount' + 1 <= Cardinality(Sessions)
<1>1. IsFiniteSet(Sessions)
  BY SessionsAssumption
<1>2. /\ IsFiniteSet(Sessions \ {c})
      /\ Cardinality(Sessions \ {c}) = Cardinality(Sessions) - 1
  BY <1>1, FS_RemoveElement
<1>3. LiveSessions' \in SUBSET (Sessions \ {c})
  BY DEF LiveSessions
<1>4. Cardinality(LiveSessions') <= Cardinality(Sessions \ {c})
  BY <1>2, <1>3, FS_Subset
<1>5. Cardinality(Sessions) \in Nat
  BY <1>1, FS_CardinalityType
<1> QED BY <1>2, <1>4, <1>5, CountIsNatural DEF liveSessionCount

(* A session that changes its standing changes the count by one at most. *)
LEMMA OneChanges ==
    ASSUME st \in [Sessions -> Standing], NEW s \in Sessions, NEW x,
           st' = [st EXCEPT ![s] = x]
    PROVE  /\ st[s] \in {"new", "exited"} /\ x \notin {"new", "exited"} =>
                  liveSessionCount' = liveSessionCount + 1
           /\ st[s] \notin {"new", "exited"} /\ x \in {"new", "exited"} =>
                  liveSessionCount' = liveSessionCount - 1
           /\ (st[s] \in {"new", "exited"} <=> x \in {"new", "exited"}) =>
                  liveSessionCount' = liveSessionCount
<1>1. IsFiniteSet(LiveSessions)
  <2>1. IsFiniteSet(Sessions) /\ LiveSessions \in SUBSET Sessions
    BY SessionsAssumption DEF LiveSessions
  <2> QED BY <2>1, FS_Subset
<1>2. CASE st[s] \in {"new", "exited"} /\ x \notin {"new", "exited"}
  <2>1. LiveSessions' = LiveSessions \cup {s} /\ s \notin LiveSessions
    BY <1>2 DEF LiveSessions
  <2>2. Cardinality(LiveSessions \cup {s}) = Cardinality(LiveSessions) + 1
    BY <1>1, <2>1, FS_AddElement
  <2> QED BY <1>2, <2>1, <2>2 DEF liveSessionCount
<1>3. CASE st[s] \notin {"new", "exited"} /\ x \in {"new", "exited"}
  <2>1. LiveSessions' = LiveSessions \ {s} /\ s \in LiveSessions
    BY <1>3 DEF LiveSessions
  <2>2. Cardinality(LiveSessions \ {s}) = Cardinality(LiveSessions) - 1
    BY <1>1, <2>1, FS_RemoveElement
  <2> QED BY <1>3, <2>1, <2>2 DEF liveSessionCount
<1>4. CASE st[s] \in {"new", "exited"} <=> x \in {"new", "exited"}
  <2>1. LiveSessions' = LiveSessions
    BY <1>4 DEF LiveSessions
  <2> QED BY <1>4, <2>1 DEF liveSessionCount
<1> QED BY <1>2, <1>3, <1>4

(* Who is live decides how many are. *)
LEMMA NoneChanges ==
    ASSUME st' = st
    PROVE  liveSessionCount' = liveSessionCount
  BY DEF liveSessionCount, LiveSessions

-----------------------------------------------------------------------------
(* What a step of each kind keeps.                                         *)

(* Nobody makes room and nothing is listed to begin with. *)
LEMMA InitHolds == Init => AdmissionInv
<1> SUFFICES ASSUME Init PROVE AdmissionInv
  OBVIOUS
<1>1. TypeOK
  BY SessionsAssumption, BoundAssumption DEF Init, TypeOK, Standing
<1>2. MakesRoom /\ StaysQuiet /\ OneVictimEach
  BY DEF Init, MakesRoom, StaysQuiet, OneVictimEach, Parties
<1>3. EvictionsPaid
  BY BoundAssumption DEF Init, EvictionsPaid
<1>4. PlaceIsKept
  BY DEF Init, PlaceIsKept, Pending
<1> QED BY <1>1, <1>2, <1>3, <1>4 DEF AdmissionInv

(* A session that goes on with its own life, or with its own call, takes   *)
(* nobody's place.                                                         *)
LEMMA PlacesStand ==
    ASSUME AdmissionInv, liveSessionCount' <= liveSessionCount, on' = on,
           \A c \in Sessions : Pending(c)' => Pending(c) /\ allowed'[c] = allowed[c]
    PROVE  PlaceIsKept'
<1> SUFFICES ASSUME NEW c \in Sessions, Pending(c)'
             PROVE liveSessionCount' + (IF on[c] = None THEN 1 ELSE 0) <= allowed[c]
  BY DEF PlaceIsKept
<1>1. liveSessionCount + (IF on[c] = None THEN 1 ELSE 0) <= allowed[c]
  BY DEF AdmissionInv, PlaceIsKept
<1>2. liveSessionCount \in Nat /\ liveSessionCount' \in Nat
  BY CountIsNatural
<1>3. allowed[c] \in Nat
  BY DEF AdmissionInv, TypeOK
<1> QED BY <1>1, <1>2, <1>3

(* The bucket, the switch and the beginning of a sweep. *)
LEMMA TickKeeps ==
    ASSUME AdmissionInv, Refill \/ SwitchReleasing \/ SweepBegins \/ UNCHANGED vars
    PROVE  AdmissionInv'
<1>1. st' = st /\ age' = age /\ call' = call /\ on' = on /\ exit' = exit /\ allowed' = allowed
  BY DEF Refill, SwitchReleasing, SweepBegins, vars
<1>2. /\ tokens \in 0..Burst /\ refills \in 0..MaxRefills /\ evicted \in Nat
      /\ Burst \in Nat /\ MaxRefills \in Nat
  BY BoundAssumption DEF AdmissionInv, TypeOK
<1>3. /\ tokens' \in 0..Burst /\ refills' \in 0..MaxRefills /\ evicted' \in Nat
      /\ EvictionsPaid'
  <2>1. CASE Refill
    BY <1>2, <2>1 DEF Refill, AdmissionInv, EvictionsPaid
  <2>2. CASE SwitchReleasing \/ SweepBegins \/ UNCHANGED vars
    BY <1>2, <2>2 DEF SwitchReleasing, SweepBegins, vars, AdmissionInv, EvictionsPaid
  <2> QED BY <2>1, <2>2
<1>4. releasing' \in BOOLEAN
  BY DEF Refill, SwitchReleasing, SweepBegins, vars, AdmissionInv, TypeOK
<1>5. list' \subseteq Sessions /\ stirred' \subseteq Sessions /\ StaysQuiet'
  <2>1. CASE SweepBegins
    <3>1. list' = {s \in Sessions : st[s] = "idle" /\ age[s] >= 2}
      BY <2>1 DEF SweepBegins, ParkCandidates, Parkable
    <3>2. \A s \in Sessions : age[s] \in 0..2
      BY DEF AdmissionInv, TypeOK
    <3>3. stirred' = {}
      BY <2>1 DEF SweepBegins
    <3> QED BY <3>1, <3>2, <3>3, <1>1 DEF StaysQuiet
  <2>2. CASE Refill \/ SwitchReleasing \/ UNCHANGED vars
    <3>1. list' = list /\ stirred' = stirred
      BY <2>2 DEF Refill, SwitchReleasing, vars
    <3> QED BY <3>1, <1>1 DEF AdmissionInv, TypeOK, StaysQuiet
  <2> QED BY <2>1, <2>2
<1>6. TypeOK'
  BY <1>1, <1>3, <1>4, <1>5 DEF AdmissionInv, TypeOK
<1>7. MakesRoom' /\ OneVictimEach'
  BY <1>1 DEF AdmissionInv, MakesRoom, OneVictimEach
<1>8. PlaceIsKept'
  <2>1. liveSessionCount' = liveSessionCount
    BY <1>1, NoneChanges
  <2>2. \A c \in Sessions : Pending(c)' => Pending(c) /\ allowed'[c] = allowed[c]
    BY <1>1 DEF Pending
  <2> QED BY <1>1, <2>1, <2>2, CountIsNatural, PlacesStand
<1> QED BY <1>3, <1>5, <1>6, <1>7, <1>8 DEF AdmissionInv

(* A session's own life. *)
LEMMA LifeKeeps ==
    ASSUME AdmissionInv, NEW s \in Sessions,
           \/ LaunchEnds(s) \/ Works(s) \/ Rests(s) \/ Speaks(s)
           \/ GrowsQuiet(s) \/ Stopped(s)
    PROVE  AdmissionInv'
<1> USE DEF Stirs
<1>1. /\ call' = call /\ on' = on /\ allowed' = allowed /\ list' = list
      /\ tokens' = tokens /\ refills' = refills /\ evicted' = evicted /\ releasing' = releasing
  BY DEF LaunchEnds, Works, Rests, Speaks, GrowsQuiet, Stopped
<1>2. st \in [Sessions -> Standing] /\ age \in [Sessions -> 0..2]
      /\ exit \in [Sessions -> {"none", "parked", "ended"}]
      /\ list \subseteq Sessions /\ stirred \subseteq Sessions
  BY DEF AdmissionInv, TypeOK
<1>3. st[s] \in {"starting", "idle", "busy"}
  BY DEF LaunchEnds, Works, Rests, Speaks, GrowsQuiet, Stopped
<1>4. PICK x \in {"starting", "idle", "busy", "stopping", "exited"} :
         st' = [st EXCEPT ![s] = x]
  <2>1. CASE Speaks(s) \/ GrowsQuiet(s)
    <3>1. st' = [st EXCEPT ![s] = st[s]]
      BY <1>2, <2>1 DEF Speaks, GrowsQuiet
    <3> QED BY <1>3, <3>1
  <2>2. CASE LaunchEnds(s) \/ Works(s) \/ Rests(s) \/ Stopped(s)
    BY <2>2 DEF LaunchEnds, Works, Rests, Stopped
  <2> QED BY <2>1, <2>2
<1>5. exit' \in [Sessions -> {"none", "parked", "ended"}]
  BY <1>2 DEF LaunchEnds, Works, Rests, Speaks, GrowsQuiet, Stopped
<1>6. /\ age' \in [Sessions -> 0..2]
      /\ stirred \subseteq stirred' /\ stirred' \subseteq Sessions
      /\ \A t \in Sessions : t # s => age'[t] = age[t]
      /\ \/ s \in list => s \in stirred'
         \/ age' = age /\ (st[s] \in {"idle", "busy"} \/ x = "exited")
         \/ GrowsQuiet(s)
  BY <1>2, <1>4 DEF LaunchEnds, Works, Rests, Speaks, GrowsQuiet, Stopped
<1>7. TypeOK'
  BY <1>1, <1>2, <1>4, <1>5, <1>6 DEF AdmissionInv, TypeOK, Standing
<1>8. MakesRoom'
  BY <1>1, <1>2, <1>3, <1>4 DEF AdmissionInv, MakesRoom
<1>9. StaysQuiet'
  <2> SUFFICES ASSUME NEW t \in list, t \notin stirred', st'[t] \in {"idle", "busy"}
               PROVE age'[t] = 2
    BY <1>1 DEF StaysQuiet
  <2>1. t \in Sessions /\ t \notin stirred
    BY <1>2, <1>6
  <2>2. st[t] \in {"idle", "busy"} => age[t] = 2
    BY <2>1 DEF AdmissionInv, StaysQuiet
  <2>3. CASE t # s
    BY <2>1, <2>2, <2>3, <1>2, <1>4, <1>6
  <2>4. CASE t = s
    <3>1. ~GrowsQuiet(s)
      <4>1. GrowsQuiet(s) => st[s] \in {"idle", "busy"} /\ age[s] < 2
        BY DEF GrowsQuiet
      <4> QED BY <4>1, <2>2, <2>4
    <3>2. age' = age /\ st[s] \in {"idle", "busy"}
      BY <3>1, <2>1, <2>4, <1>2, <1>4, <1>6
    <3> QED BY <3>2, <2>2, <2>4
  <2> QED BY <2>3, <2>4
<1>10. EvictionsPaid'
  BY <1>1 DEF AdmissionInv, EvictionsPaid
<1>11. OneVictimEach'
  <2>1. \A y \in Parties : on[y] # None => on[y] \in Sessions /\ st'[on[y]] = st[on[y]]
    <3>1. \A y \in Parties : on[y] # None => on[y] \in Sessions /\ st[on[y]] = "parking"
      BY DEF AdmissionInv, TypeOK, OneVictimEach
    <3> QED BY <3>1, <1>2, <1>3, <1>4
  <2> QED BY <2>1, <1>1 DEF AdmissionInv, OneVictimEach
<1>12. PlaceIsKept'
  <2>1. liveSessionCount' <= liveSessionCount
    <3>1. st[s] \notin {"new", "exited"}
      BY <1>3
    <3>2. x # "new"
      OBVIOUS
    <3>3. liveSessionCount' = liveSessionCount - 1 \/ liveSessionCount' = liveSessionCount
      BY <1>2, <1>4, <3>1, <3>2, OneChanges
    <3> QED BY <3>3, CountIsNatural
  <2>2. \A c \in Sessions : Pending(c)' => Pending(c) /\ allowed'[c] = allowed[c]
    BY <1>1, <1>2, <1>3, <1>4 DEF Pending
  <2> QED BY <1>1, <2>1, <2>2, PlacesStand
<1> QED BY <1>7, <1>8, <1>9, <1>10, <1>11, <1>12 DEF AdmissionInv

(* A stop is through, and whoever waited for it goes on. *)
LEMMA StopEndsKeeps ==
    ASSUME AdmissionInv, NEW s \in Sessions, StopEnds(s)
    PROVE  AdmissionInv'
<1>1. /\ call' = call /\ allowed' = allowed /\ list' = list
      /\ tokens' = tokens /\ refills' = refills /\ evicted' = evicted /\ releasing' = releasing
      /\ st' = [st EXCEPT ![s] = "exited"]
      /\ on' = [x \in Parties |-> IF on[x] = s THEN None ELSE on[x]]
      /\ st[s] \in {"parking", "stopping"}
  BY DEF StopEnds
<1>2. TypeOK
  BY DEF AdmissionInv
<1>3. TypeOK'
  BY <1>2 DEF StopEnds, Stirs, TypeOK, Standing
<1>4. MakesRoom'
  BY <1>1, <1>2 DEF AdmissionInv, MakesRoom, TypeOK, Parties
<1>5. StaysQuiet'
  <2> SUFFICES ASSUME NEW t \in list, t \notin stirred', st'[t] \in {"idle", "busy"}
               PROVE age'[t] = 2
    BY <1>1 DEF StaysQuiet
  <2>1. t \in Sessions /\ t # s
    BY <1>1, <1>2 DEF TypeOK
  <2>2. st[t] \in {"idle", "busy"} /\ t \notin stirred /\ age'[t] = age[t]
    BY <2>1, <1>1, <1>2 DEF StopEnds, Stirs, TypeOK
  <2> QED BY <2>2 DEF AdmissionInv, StaysQuiet
<1>6. EvictionsPaid'
  BY <1>1 DEF AdmissionInv, EvictionsPaid
<1>7. OneVictimEach'
  <2>1. \A x \in Parties : on'[x] # None => on'[x] = on[x] /\ on[x] # s
    BY <1>1
  <2>2. \A x \in Parties : on[x] # None => on[x] \in Sessions
    BY <1>2 DEF TypeOK
  <2> QED BY <2>1, <2>2, <1>1, <1>2 DEF AdmissionInv, OneVictimEach, TypeOK
<1>8. PlaceIsKept'
  <2> SUFFICES ASSUME NEW c \in Sessions, Pending(c)'
               PROVE liveSessionCount' + (IF on'[c] = None THEN 1 ELSE 0) <= allowed[c]
    BY <1>1 DEF PlaceIsKept
  <2>1. Pending(c)
    BY <1>1, <1>2 DEF Pending, TypeOK
  <2>2. liveSessionCount + (IF on[c] = None THEN 1 ELSE 0) <= allowed[c]
    BY <2>1 DEF AdmissionInv, PlaceIsKept
  <2>3. liveSessionCount' = liveSessionCount - 1
    <3>1. st[s] \notin {"new", "exited"}
      BY <1>1
    <3> QED BY <3>1, <1>1, <1>2, OneChanges DEF TypeOK
  <2>4. allowed[c] \in Nat
    BY <1>2 DEF TypeOK
  <2> QED BY <2>2, <2>3, <2>4, CountIsNatural
<1> QED BY <1>3, <1>4, <1>5, <1>6, <1>7, <1>8 DEF AdmissionInv

(* A session is admitted: everybody else's creation allows for it. *)
LEMMA AdmittedKeeps ==
    ASSUME AdmissionInv, NEW s \in Sessions,
           Register(s) \/ WakeGoes(s) \/ QuietlyResumes(s)
    PROVE  AdmissionInv'
<1>1. /\ exit' = exit /\ age' = age /\ on' = on /\ list' = list /\ stirred' = stirred
      /\ tokens' = tokens /\ refills' = refills /\ evicted' = evicted /\ releasing' = releasing
      /\ st' = [st EXCEPT ![s] = "starting"]
      /\ st[s] \in {"new", "exited"}
      /\ on[s] = None \/ call[s] = "none"
      /\ Admitted(s)
  BY DEF Register, WakeGoes, QuietlyResumes, Admitted, Pending, RoomMade
<1>2. call' = [call EXCEPT ![s] = "none"]
  <2>1. CASE QuietlyResumes(s)
    <3>1. call' = call /\ call[s] = "none"
      BY <2>1 DEF QuietlyResumes
    <3> QED BY <3>1 DEF AdmissionInv, TypeOK
  <2>2. CASE Register(s) \/ WakeGoes(s)
    BY <2>2 DEF Register, WakeGoes
  <2> QED BY <2>1, <2>2
<1>3. TypeOK /\ Cardinality(Sessions) \in Nat
  <2>1. IsFiniteSet(Sessions)
    BY SessionsAssumption
  <2> QED BY <2>1, FS_CardinalityType DEF AdmissionInv
<1>4. on[s] = None
  BY <1>1 DEF AdmissionInv, MakesRoom
<1>5. allowed' \in [Sessions -> Nat]
  <2>1. allowed \in [Sessions -> Nat]
    BY <1>3 DEF TypeOK
  <2> QED BY <2>1, <1>1 DEF Admitted
<1>6. TypeOK'
  BY <1>1, <1>2, <1>3, <1>5 DEF TypeOK, Standing
<1>7. MakesRoom'
  BY <1>1, <1>2, <1>3, <1>4 DEF AdmissionInv, MakesRoom, TypeOK
<1>8. StaysQuiet'
  BY <1>1, <1>3 DEF AdmissionInv, StaysQuiet, TypeOK
<1>9. EvictionsPaid'
  BY <1>1 DEF AdmissionInv, EvictionsPaid
<1>10. OneVictimEach'
  <2>1. \A x \in Parties : on[x] # None => on[x] \in Sessions /\ st[on[x]] = "parking"
    BY <1>3 DEF AdmissionInv, OneVictimEach, TypeOK
  <2>2. \A x \in Parties : on[x] # None => st'[on[x]] = "parking"
    BY <2>1, <1>1, <1>3 DEF TypeOK
  <2> QED BY <2>2, <1>1 DEF AdmissionInv, OneVictimEach
<1>11. PlaceIsKept'
  <2> SUFFICES ASSUME NEW c \in Sessions, Pending(c)'
               PROVE liveSessionCount' + (IF on[c] = None THEN 1 ELSE 0) <= allowed'[c]
    BY <1>1 DEF PlaceIsKept
  <2>1. c # s /\ Pending(c) /\ st[c] = "new" /\ st'[c] = "new"
    BY <1>1, <1>2, <1>3 DEF Pending, TypeOK
  <2>2. liveSessionCount + (IF on[c] = None THEN 1 ELSE 0) <= allowed[c]
    BY <2>1 DEF AdmissionInv, PlaceIsKept
  <2>3. liveSessionCount' = liveSessionCount + 1
    <3>1. st \in [Sessions -> Standing] /\ "starting" \notin {"new", "exited"}
      BY <1>3 DEF TypeOK
    <3> QED BY <3>1, <1>1, OneChanges
  <2>4. allowed[c] \in Nat
    BY <1>3 DEF TypeOK
  <2>5. CASE allowed[c] < Cardinality(Sessions)
    <3>1. allowed'[c] = allowed[c] + 1
      BY <2>1, <2>5, <1>1 DEF Admitted
    <3> QED BY <3>1, <2>2, <2>3, <2>4, CountIsNatural
  <2>6. CASE ~(allowed[c] < Cardinality(Sessions))
    <3>1. allowed'[c] = allowed[c]
      BY <2>1, <2>6, <1>1 DEF Admitted
    <3>2. liveSessionCount' + 1 <= Cardinality(Sessions)
      BY <2>1, FewerThanSessions
    <3> QED BY <3>1, <3>2, <2>4, <2>6, <1>3, CountIsNatural
  <2> QED BY <2>5, <2>6
<1> QED BY <1>6, <1>7, <1>8, <1>9, <1>10, <1>11 DEF AdmissionInv

(* Parking an idle session for somebody who waited for nobody. *)
LEMMA ParksOne ==
    ASSUME AdmissionInv, NEW x \in Parties, on[x] = None,
           NEW v \in Sessions, st[v] = "idle", Parks(x, v)
    PROVE  /\ st' \in [Sessions -> Standing]
           /\ on' \in [Parties -> Sessions \cup {None}]
           /\ OneVictimEach'
           /\ liveSessionCount' = liveSessionCount
           /\ \A t \in Sessions : st'[t] = st[t] \/ (st[t] = "idle" /\ st'[t] = "parking")
           /\ \A y \in Parties : y # x => on'[y] = on[y]
           /\ on'[x] = v
<1>1. /\ st \in [Sessions -> Standing] /\ on \in [Parties -> Sessions \cup {None}]
      /\ st' = [st EXCEPT ![v] = "parking"] /\ on' = [on EXCEPT ![x] = v]
  BY DEF AdmissionInv, TypeOK, Parks
<1>2. st' \in [Sessions -> Standing] /\ on' \in [Parties -> Sessions \cup {None}]
  BY <1>1 DEF Standing
<1>3. OneVictimEach'
  <2>1. \A y \in Parties : on[y] # None => on[y] \in Sessions /\ st[on[y]] = "parking" /\ on[y] # v
    BY <1>1 DEF AdmissionInv, OneVictimEach
  <2>2. \A y \in Parties : on'[y] = IF y = x THEN v ELSE on[y]
    BY <1>1
  <2>3. \A y \in Parties : on'[y] # None => st'[on'[y]] = "parking"
    BY <2>1, <2>2, <1>1
  <2>4. \A y, z \in Parties : on'[y] # None /\ on'[y] = on'[z] => y = z
    BY <2>1, <2>2 DEF AdmissionInv, OneVictimEach
  <2> QED BY <2>3, <2>4 DEF OneVictimEach
<1>4. liveSessionCount' = liveSessionCount
  <2>1. st[v] \notin {"new", "exited"} /\ "parking" \notin {"new", "exited"}
    OBVIOUS
  <2> QED BY <2>1, <1>1, OneChanges
<1> QED BY <1>1, <1>2, <1>3, <1>4

(* Making room: either nobody is parked, or one is, and paid for. *)
LEMMA RoomIsMade ==
    ASSUME AdmissionInv, NEW s \in Sessions, call[s] = "none", ReleaseOneSlot(s)
    PROVE  \/ /\ st' = st /\ on' = on /\ evicted' = evicted
              /\ liveSessionCount' = liveSessionCount
              /\ ~(liveSessionCount >= MaxLive /\ CanReleaseOneSlot)
           \/ /\ st' \in [Sessions -> Standing]
              /\ on' \in [Parties -> Sessions \cup {None}]
              /\ OneVictimEach'
              /\ liveSessionCount' = liveSessionCount
              /\ \A t \in Sessions : st'[t] = st[t] \/ (st[t] = "idle" /\ st'[t] = "parking")
              /\ \A y \in Parties : y # s => on'[y] = on[y]
              /\ on'[s] # None
              /\ evicted' = evicted + 1
<1>1. liveSessionCount \in Nat /\ MaxLive \in Nat
  BY CountIsNatural, BoundAssumption
<1>2. CASE liveSessionCount < MaxLive \/ ~releasing \/ ParkCandidates(1) = {}
  <2>1. st' = st /\ on' = on /\ evicted' = evicted
    BY <1>2 DEF ReleaseOneSlot
  <2>2. liveSessionCount' = liveSessionCount
    BY <2>1, NoneChanges
  <2>3. ~(liveSessionCount >= MaxLive /\ CanReleaseOneSlot)
    BY <1>1, <1>2 DEF CanReleaseOneSlot
  <2> QED BY <2>1, <2>2, <2>3
<1>3. CASE ~(liveSessionCount < MaxLive \/ ~releasing \/ ParkCandidates(1) = {})
  <2>1. PICK v \in Oldest(ParkCandidates(1)) : Parks(s, v)
    BY <1>3 DEF ReleaseOneSlot
  <2>2. v \in Sessions /\ st[v] = "idle"
    BY DEF Oldest, ParkCandidates, Parkable
  <2>3. s \in Parties /\ on[s] = None
    BY DEF Parties, AdmissionInv, MakesRoom
  <2>4. v # None
    BY <2>2, SessionsAssumption
  <2>5. evicted' = evicted + 1
    BY <1>3 DEF ReleaseOneSlot
  <2> QED BY <2>1, <2>2, <2>3, <2>4, <2>5, ParksOne
<1> QED BY <1>2, <1>3

(* The sums of EvictionsPaid are compared one step after the other. *)
LEMMA NotMore ==
    ASSUME NEW a \in Int, NEW b \in Int, NEW c \in Int, a <= b, b <= c
    PROVE  a <= c
  OBVIOUS

(* A creation or a wake is let in. *)
LEMMA LetInKeeps ==
    ASSUME AdmissionInv, NEW s \in Sessions, Create(s) \/ Wake(s)
    PROVE  AdmissionInv'
<1>1. /\ exit' = exit /\ age' = age /\ list' = list /\ stirred' = stirred
      /\ releasing' = releasing /\ refills' = refills
      /\ call[s] = "none" /\ st[s] \in {"new", "exited"}
      /\ call' = [call EXCEPT ![s] = "room"]
  BY DEF Create, Wake
<1>2. TypeOK
  BY DEF AdmissionInv
<1>3. /\ tokens \in 0..Burst /\ evicted \in Nat /\ refills \in 0..MaxRefills
      /\ Burst \in Nat /\ MaxRefills \in Nat /\ MaxLive \in Nat /\ liveSessionCount \in Nat
  BY <1>2, BoundAssumption, CountIsNatural DEF TypeOK
<1>4. on[s] = None
  BY <1>1 DEF AdmissionInv, MakesRoom
(* what becomes of the agents, and what it costs *)
<1>5. /\ st' \in [Sessions -> Standing]
      /\ on' \in [Parties -> Sessions \cup {None}]
      /\ OneVictimEach'
      /\ liveSessionCount' = liveSessionCount
      /\ \A t \in Sessions : st'[t] = st[t] \/ (st[t] = "idle" /\ st'[t] = "parking")
      /\ \A y \in Parties : y # s => on'[y] = on[y]
      /\ (Create(s) /\ liveSessionCount >= MaxLive) => on'[s] # None
      /\ \/ evicted' = evicted /\ tokens' \in {tokens, tokens - 1}
         \/ evicted' = evicted + 1 /\ tokens' = tokens - 1
      /\ tokens' \in 0..Burst /\ evicted' \in Nat
  <2>1. /\ st \in [Sessions -> Standing] /\ on \in [Parties -> Sessions \cup {None}]
        /\ OneVictimEach
    BY <1>2 DEF AdmissionInv, TypeOK
  <2>2. CASE ReleaseOneSlot(s) /\ TakeCreateSlot
    <3>1. tokens' = tokens - 1 /\ tokens' \in 0..Burst
      BY <2>2, <1>3 DEF TakeCreateSlot
    <3>2. Create(s) => CanReleaseOneSlot
      BY DEF Create
    <3>3. CASE /\ st' = st /\ on' = on /\ evicted' = evicted
               /\ liveSessionCount' = liveSessionCount
               /\ ~(liveSessionCount >= MaxLive /\ CanReleaseOneSlot)
      <4>1. OneVictimEach'
        BY <2>1, <3>3 DEF OneVictimEach
      <4> QED BY <2>1, <3>1, <3>2, <3>3, <4>1, <1>3
    <3>4. CASE /\ st' \in [Sessions -> Standing]
               /\ on' \in [Parties -> Sessions \cup {None}]
               /\ OneVictimEach'
               /\ liveSessionCount' = liveSessionCount
               /\ \A t \in Sessions : st'[t] = st[t] \/ (st[t] = "idle" /\ st'[t] = "parking")
               /\ \A y \in Parties : y # s => on'[y] = on[y]
               /\ on'[s] # None
               /\ evicted' = evicted + 1
      BY <3>1, <3>4, <1>3
    <3> QED BY <2>2, <1>1, <3>3, <3>4, RoomIsMade
  <2>3. CASE ~Create(s) /\ UNCHANGED <<st, on, tokens, evicted>>
    <3>1. liveSessionCount' = liveSessionCount
      BY <2>3, NoneChanges
    <3>2. OneVictimEach'
      BY <2>1, <2>3 DEF OneVictimEach
    <3> QED BY <2>1, <2>3, <3>1, <3>2, <1>3
  <2>4. Create(s) => st[s] = "new"
    BY DEF Create
  <2>5. Wake(s) => st[s] = "exited"
    BY DEF Wake
  <2>6. Create(s) => ReleaseOneSlot(s) /\ TakeCreateSlot
    BY DEF Create
  <2>7. ~Create(s) => MakeRoomForWake(s)
    BY DEF Wake
  <2> QED BY <2>2, <2>3, <2>6, <2>7 DEF MakeRoomForWake
<1>6. allowed' \in [Sessions -> Nat] /\ \A c \in Sessions : c # s => allowed'[c] = allowed[c]
  <2>1. allowed \in [Sessions -> Nat]
    BY <1>2 DEF TypeOK
  <2> QED BY <2>1, <1>3 DEF Create, Wake
<1>7. TypeOK'
  BY <1>1, <1>2, <1>5, <1>6 DEF TypeOK
<1>8. MakesRoom'
  <2> SUFFICES ASSUME NEW t \in Sessions
               PROVE /\ on'[t] # None => call'[t] # "none"
                     /\ call'[t] # "none" => st'[t] \in {"new", "exited"}
    BY DEF MakesRoom
  <2>1. CASE t = s
    BY <2>1, <1>1, <1>2, <1>5 DEF TypeOK
  <2>2. CASE t # s
    <3>1. call'[t] = call[t] /\ on'[t] = on[t]
      BY <2>2, <1>1, <1>2, <1>5 DEF TypeOK, Parties
    <3>2. /\ on[t] # None => call[t] # "none"
          /\ call[t] # "none" => st[t] \in {"new", "exited"}
      BY DEF AdmissionInv, MakesRoom
    <3> QED BY <3>1, <3>2, <1>5
  <2> QED BY <2>1, <2>2
<1>9. StaysQuiet'
  <2>1. \A t \in list : t \in Sessions
    BY <1>2 DEF TypeOK
  <2> QED BY <2>1, <1>1, <1>5 DEF AdmissionInv, StaysQuiet
<1>10. EvictionsPaid'
  <2>1. evicted + tokens <= Burst + refills
    BY DEF AdmissionInv, EvictionsPaid
  <2>2. evicted' + tokens' <= evicted + tokens
    <3>1. tokens' = tokens \/ tokens' = tokens - 1
      BY <1>5
    <3>2. evicted' = evicted \/ (evicted' = evicted + 1 /\ tokens' = tokens - 1)
      BY <1>5
    <3> QED BY <3>1, <3>2, <1>3
  <2>3. evicted' \in Nat /\ tokens' \in Int
    BY <1>3, <1>5
  <2>4. /\ evicted \in Nat /\ tokens \in Int /\ refills \in Int /\ Burst \in Nat
        /\ refills' = refills
    BY <1>1, <1>3
  <2>5. /\ evicted + tokens \in Int /\ evicted' + tokens' \in Int
        /\ Burst + refills \in Int
    BY <2>3, <2>4
  <2>6. evicted' + tokens' <= Burst + refills
    BY <2>1, <2>2, <2>5, NotMore
  <2> QED BY <2>4, <2>6 DEF EvictionsPaid
<1>11. PlaceIsKept'
  <2> SUFFICES ASSUME NEW c \in Sessions, Pending(c)'
               PROVE liveSessionCount' + (IF on'[c] = None THEN 1 ELSE 0) <= allowed'[c]
    BY DEF PlaceIsKept
  <2>1. st[c] = "new"
    BY <1>5 DEF Pending
  <2>2. CASE c = s
    <3>1. Create(s)
      BY <2>1, <2>2 DEF Wake
    <3>2. allowed'[s] = IF liveSessionCount < MaxLive THEN MaxLive ELSE liveSessionCount
      BY <3>1, <1>2 DEF Create, TypeOK
    <3>3. CASE liveSessionCount < MaxLive
      BY <3>2, <3>3, <2>2, <1>3, <1>5
    <3>4. CASE ~(liveSessionCount < MaxLive)
      <4>1. on'[s] # None
        BY <3>1, <3>4, <1>3, <1>5
      <4> QED BY <4>1, <3>2, <3>4, <2>2, <1>3, <1>5
    <3> QED BY <3>3, <3>4
  <2>3. CASE c # s
    <3>1. Pending(c)
      BY <2>1, <2>3, <1>1, <1>2 DEF Pending, TypeOK
    <3>2. on'[c] = on[c]
      BY <2>3, <1>5 DEF Parties
    <3>3. liveSessionCount + (IF on[c] = None THEN 1 ELSE 0) <= allowed[c]
      BY <3>1 DEF AdmissionInv, PlaceIsKept
    <3> QED BY <3>2, <3>3, <2>3, <1>5, <1>6
  <2> QED BY <2>2, <2>3
<1> QED BY <1>5, <1>7, <1>8, <1>9, <1>10, <1>11 DEF AdmissionInv

(* A call ends without an agent, or a wake finds its record replaced. *)
LEMMA CallKeeps ==
    ASSUME AdmissionInv, NEW s \in Sessions,
           CreateFails(s) \/ WakeMoved(s) \/ Relabelled(s)
    PROVE  AdmissionInv'
<1>1. /\ st' = st /\ age' = age /\ on' = on /\ list' = list /\ stirred' = stirred
      /\ tokens' = tokens /\ refills' = refills /\ evicted' = evicted /\ releasing' = releasing
  BY DEF CreateFails, WakeMoved, Relabelled
<1>2. TypeOK
  BY DEF AdmissionInv
<1>3. exit' \in [Sessions -> {"none", "parked", "ended"}] /\ allowed' \in [Sessions -> Nat]
  BY <1>2 DEF CreateFails, WakeMoved, Relabelled, TypeOK
<1>4. PICK x \in {"none", "moved"} :
         /\ call' = [call EXCEPT ![s] = x]
         /\ on[s] # None => x = "moved"
         /\ x = "moved" => st[s] = "exited"
  <2>1. CASE CreateFails(s) \/ WakeMoved(s)
    BY <2>1 DEF CreateFails, WakeMoved
  <2>2. CASE Relabelled(s)
    <3>1. call[s] \in {"none", "room", "moved"} /\ (on[s] # None => call[s] # "none")
      BY <1>2 DEF TypeOK, AdmissionInv, MakesRoom
    <3>2. CASE call[s] = "none"
      BY <2>2, <3>1, <3>2 DEF Relabelled
    <3>3. CASE call[s] # "none"
      BY <2>2, <3>1, <3>3 DEF Relabelled
    <3> QED BY <3>2, <3>3
  <2> QED BY <2>1, <2>2
<1>5. TypeOK'
  BY <1>1, <1>2, <1>3, <1>4 DEF TypeOK
<1>6. MakesRoom'
  BY <1>1, <1>2, <1>4 DEF AdmissionInv, MakesRoom, TypeOK
<1>7. StaysQuiet' /\ EvictionsPaid' /\ OneVictimEach'
  BY <1>1 DEF AdmissionInv, StaysQuiet, EvictionsPaid, OneVictimEach
<1>8. PlaceIsKept'
  <2>1. \A c \in Sessions : Pending(c)' => Pending(c) /\ allowed'[c] = allowed[c]
    <3> SUFFICES ASSUME NEW c \in Sessions, Pending(c)' PROVE Pending(c) /\ allowed'[c] = allowed[c]
      OBVIOUS
    <3>1. c # s
      BY <1>2, <1>4 DEF Pending, TypeOK
    <3> QED BY <3>1, <1>1, <1>2, <1>4 DEF Pending, CreateFails, WakeMoved, Relabelled, TypeOK
  <2>2. liveSessionCount' = liveSessionCount
    BY <1>1, NoneChanges
  <2> QED BY <1>1, <2>1, <2>2, CountIsNatural, PlacesStand
<1> QED BY <1>5, <1>6, <1>7, <1>8 DEF AdmissionInv

(* The sweep looks at the next of its list. *)
LEMMA SweepKeeps ==
    ASSUME AdmissionInv, SweepNext
    PROVE  AdmissionInv'
<1>1. /\ exit' = exit /\ age' = age /\ call' = call /\ stirred' = stirred /\ releasing' = releasing
      /\ tokens' = tokens /\ refills' = refills /\ evicted' = evicted /\ allowed' = allowed
      /\ on[Sweep] = None
  BY DEF SweepNext
<1>2. TypeOK
  BY DEF AdmissionInv
<1>3. PICK s \in list :
         /\ list' = list \ {s}
         /\ IF StillParkable(s) THEN Parks(Sweep, s) ELSE UNCHANGED <<st, on>>
  BY DEF SweepNext
<1>4. s \in Sessions /\ list' \subseteq list /\ list \subseteq Sessions
  BY <1>2, <1>3 DEF TypeOK
<1>5. /\ st' \in [Sessions -> Standing]
      /\ on' \in [Parties -> Sessions \cup {None}]
      /\ OneVictimEach'
      /\ liveSessionCount' = liveSessionCount
      /\ \A t \in Sessions : st'[t] = st[t] \/ (st[t] = "idle" /\ st'[t] = "parking")
      /\ \A y \in Sessions : on'[y] = on[y]
  <2>1. CASE StillParkable(s)
    <3>1. st[s] = "idle" /\ Parks(Sweep, s)
      BY <1>3, <2>1 DEF StillParkable
    <3>2. Sweep \in Parties /\ \A y \in Sessions : y \in Parties /\ y # Sweep
      BY SessionsAssumption DEF Parties
    <3> QED BY <3>1, <3>2, <1>1, <1>4, ParksOne
  <2>2. CASE ~StillParkable(s)
    <3>1. st' = st /\ on' = on
      BY <1>3, <2>2
    <3>2. liveSessionCount' = liveSessionCount
      BY <3>1, NoneChanges
    <3> QED BY <3>1, <3>2, <1>2 DEF AdmissionInv, OneVictimEach, TypeOK
  <2> QED BY <2>1, <2>2
<1>6. TypeOK'
  BY <1>1, <1>2, <1>4, <1>5 DEF TypeOK
<1>7. MakesRoom'
  <2> SUFFICES ASSUME NEW t \in Sessions
               PROVE /\ on'[t] # None => call'[t] # "none"
                     /\ call'[t] # "none" => st'[t] \in {"new", "exited"}
    BY DEF MakesRoom
  <2>1. /\ on[t] # None => call[t] # "none"
        /\ call[t] # "none" => st[t] \in {"new", "exited"}
    BY DEF AdmissionInv, MakesRoom
  <2> QED BY <2>1, <1>1, <1>5
<1>8. StaysQuiet'
  BY <1>1, <1>4, <1>5 DEF AdmissionInv, StaysQuiet
<1>9. EvictionsPaid'
  BY <1>1 DEF AdmissionInv, EvictionsPaid
<1>10. PlaceIsKept'
  <2> SUFFICES ASSUME NEW c \in Sessions, Pending(c)'
               PROVE liveSessionCount' + (IF on'[c] = None THEN 1 ELSE 0) <= allowed[c]
    BY <1>1 DEF PlaceIsKept
  <2>1. Pending(c)
    BY <1>1, <1>5 DEF Pending
  <2>2. liveSessionCount + (IF on[c] = None THEN 1 ELSE 0) <= allowed[c]
    BY <2>1 DEF AdmissionInv, PlaceIsKept
  <2> QED BY <2>2, <1>5
<1> QED BY <1>5, <1>6, <1>7, <1>8, <1>9, <1>10 DEF AdmissionInv

(* Every step keeps the invariant. *)
LEMMA NextKeeps == AdmissionInv /\ [Next]_vars => AdmissionInv'
<1> SUFFICES ASSUME AdmissionInv, [Next]_vars PROVE AdmissionInv'
  OBVIOUS
<1>1. CASE \E s \in Sessions : Create(s) \/ Wake(s)
  BY <1>1, LetInKeeps
<1>2. CASE \E s \in Sessions : Register(s) \/ WakeGoes(s) \/ QuietlyResumes(s)
  BY <1>2, AdmittedKeeps
<1>3. CASE \E s \in Sessions : CreateFails(s) \/ WakeMoved(s) \/ Relabelled(s)
  BY <1>3, CallKeeps
<1>4. CASE \E s \in Sessions :
              \/ LaunchEnds(s) \/ Works(s) \/ Rests(s) \/ Speaks(s)
              \/ GrowsQuiet(s) \/ Stopped(s)
  BY <1>4, LifeKeeps
<1>5. CASE \E s \in Sessions : StopEnds(s)
  BY <1>5, StopEndsKeeps
<1>6. CASE SweepNext
  BY <1>6, SweepKeeps
<1>7. CASE Refill \/ SwitchReleasing \/ SweepBegins \/ UNCHANGED vars
  BY <1>7, TickKeeps
<1> QED BY <1>1, <1>2, <1>3, <1>4, <1>5, <1>6, <1>7 DEF Next, GoesOn

(* Who waits, what is listed and what is paid stays so in every behaviour. *)
THEOREM InvariantHolds == Spec => []AdmissionInv
  BY InitHolds, NextKeeps, PTL DEF Spec

-----------------------------------------------------------------------------
(* The sessions, the calls and the bucket keep their types                 *)
(* (registry.ts:7578-7687).                                                *)
THEOREM TypeCorrect == Spec => []TypeOK
<1>1. AdmissionInv => TypeOK
  BY DEF AdmissionInv
<1> QED BY <1>1, InvariantHolds, PTL

(* No more agents are taken for somebody else than the bucket paid for,    *)
(* for any number of sessions, creations and wakes                         *)
(* (registry.ts:7641-7662, 7801-7826).                                     *)
THEOREM EvictionsArePaid == Spec => []EvictionsPaid
<1>1. AdmissionInv => EvictionsPaid
  BY DEF AdmissionInv
<1> QED BY <1>1, InvariantHolds, PTL

(* Whoever waits for an agent to go took one of its own                    *)
(* (registry.ts:7578-7604).                                                *)
THEOREM EachTakesItsOwn == Spec => []OneVictimEach
<1>1. AdmissionInv => OneVictimEach
  BY DEF AdmissionInv
<1> QED BY <1>1, InvariantHolds, PTL

(* A creation that was let in finds its place, for any ceiling and any     *)
(* number of sessions (registry.ts:7771-7832).                             *)
THEOREM PlacesAreKept == Spec => []PlaceIsKept
<1>1. AdmissionInv => PlaceIsKept
  BY DEF AdmissionInv
<1> QED BY <1>1, InvariantHolds, PTL

(* A step that parks a session parks one that is quiet enough. *)
LEMMA ParksAreOfTheQuiet ==
    ASSUME AdmissionInv, [Next]_vars, NEW s \in Sessions,
           st[s] # "parking", st'[s] = "parking"
    PROVE  Parkable(s, IF on'[Sweep] = s THEN 2 ELSE 1)
<1>1. TypeOK
  BY DEF AdmissionInv
<1>2. \A x \in Parties : on[x] # None => on[x] # s
  BY DEF AdmissionInv, OneVictimEach
<1>3. Sweep \in Parties
  BY DEF Parties
<1>4. on[Sweep] # s
  <2>1. s # None
    BY SessionsAssumption
  <2> QED BY <2>1, <1>2, <1>3
<1>5. CASE SweepNext
  <2>1. PICK t \in list : IF StillParkable(t) THEN Parks(Sweep, t) ELSE UNCHANGED <<st, on>>
    BY <1>5 DEF SweepNext
  <2>2. StillParkable(t) /\ Parks(Sweep, t)
    BY <2>1
  <2>3. t = s
    BY <2>2, <1>1 DEF Parks, TypeOK
  <2>4. st[s] = "idle" /\ age[s] = 2
    BY <2>2, <2>3 DEF StillParkable, AdmissionInv, StaysQuiet
  <2> QED BY <2>4 DEF Parkable
<1>6. CASE \E c \in Sessions : Create(c) \/ Wake(c)
  <2>1. PICK c \in Sessions : Create(c) \/ Wake(c)
    BY <1>6
  <2>2. ReleaseOneSlot(c)
    <3>1. Create(c) => ReleaseOneSlot(c)
      BY DEF Create
    <3>2. Wake(c) => ReleaseOneSlot(c) \/ st' = st
      BY DEF Wake, MakeRoomForWake
    <3> QED BY <2>1, <3>1, <3>2
  <2>3. PICK v \in Oldest(ParkCandidates(1)) : Parks(c, v)
    BY <2>2 DEF ReleaseOneSlot
  <2>4. v = s
    BY <2>3, <1>1 DEF Parks, TypeOK
  <2>5. Parkable(s, 1)
    BY <2>4 DEF Oldest, ParkCandidates
  <2>6. on'[Sweep] = on[Sweep]
    BY <2>3, <1>1, <1>3, SessionsAssumption DEF Parks, TypeOK
  <2> QED BY <2>5, <2>6, <1>4
<1>7. CASE \E c \in Sessions :
              \/ Register(c) \/ WakeGoes(c) \/ QuietlyResumes(c)
              \/ LaunchEnds(c) \/ Works(c) \/ Rests(c) \/ Stopped(c) \/ StopEnds(c)
  <2>1. PICK c \in Sessions, x \in {"starting", "idle", "busy", "stopping", "exited"} :
           st' = [st EXCEPT ![c] = x]
    BY <1>7 DEF Register, WakeGoes, QuietlyResumes, Admitted, LaunchEnds, Works, Rests,
                Stopped, StopEnds
  <2>2. st'[s] = st[s] \/ st'[s] = x
    BY <2>1, <1>1 DEF TypeOK
  <2> QED BY <2>2
<1>8. CASE \/ \E c \in Sessions :
                 \/ CreateFails(c) \/ WakeMoved(c) \/ Speaks(c) \/ GrowsQuiet(c) \/ Relabelled(c)
           \/ SweepBegins \/ SwitchReleasing \/ Refill \/ UNCHANGED vars
  <2>1. st' = st
    BY <1>8 DEF CreateFails, WakeMoved, Speaks, GrowsQuiet, Relabelled, SweepBegins,
                SwitchReleasing, Refill, vars
  <2> QED BY <2>1
<1> QED BY <1>5, <1>6, <1>7, <1>8 DEF Next, GoesOn

(* Neither a creation, nor a wake, nor the sweep takes the agent of a      *)
(* session that works, owes something or was heard of lately               *)
(* (registry.ts:3105-3236, 7536-7604).                                     *)
THEOREM OnlyTheQuietAreParked == Spec => ParksOnlyTheQuiet
<1>1. AdmissionInv /\ [Next]_vars =>
        [\A s \in Sessions :
            st[s] # "parking" /\ st'[s] = "parking" =>
                Parkable(s, IF on'[Sweep] = s THEN 2 ELSE 1)]_vars
  BY ParksAreOfTheQuiet
<1> QED BY <1>1, InvariantHolds, PTL DEF Spec, ParksOnlyTheQuiet
=============================================================================
