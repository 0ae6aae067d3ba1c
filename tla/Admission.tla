------------------------------ MODULE Admission ------------------------------
(***************************************************************************)
(* The daemon's agents are a bounded resource (registry.ts, idlepark.ts).  *)
(* A session is live while it has an agent, or is getting or losing one.   *)
(* At the ceiling, a creation and a wake take a quiet session's agent away *)
(* (they park it) and wait for that stop; a bucket of tokens meters how    *)
(* often.  A sweep parks what has been quiet for long.                     *)
(*                                                                         *)
(* This module has many sessions and of each only what another's admission *)
(* can see of it; SessionLifecycle has one session and all of its life.    *)
(* A creation that is refused changes nothing and is not a step.           *)
(***************************************************************************)
EXTENDS Integers, FiniteSets

CONSTANTS
    Sessions,
    Creations,   \* those of them that are yet to be created
    MaxLive,     \* maxLiveSessions
    Burst,       \* createBurst
    MaxRefills,  \* bound: tokens that time adds
    Sweep,       \* the tick of idlepark.ts, beside the sessions
    None

ASSUME SessionsAssumption ==
    /\ IsFiniteSet(Sessions)
    /\ Creations \subseteq Sessions
    /\ Sweep \notin Sessions /\ None \notin Sessions
ASSUME BoundAssumption == MaxLive \in Nat \ {0} /\ Burst \in Nat \ {0} /\ MaxRefills \in Nat

VARIABLES
    st,        \* session -> how it stands, see Standing
    exit,      \* session -> why its agent is gone: exitRecord, parked or not,
               \* kept by doResume for as long as a launch may fail
    age,       \* session -> how long it has been quiet: 0, 1 past
               \* ceilingParkFloorMs, 2 past effectiveIdleParkMs
    call,      \* session -> the create() or resume() that makes room for it
    on,        \* who waits for whose stop: session or Sweep -> session or None
    list,      \* what is left of the list of the sweep
    stirred,   \* those of list that did something since it was made
    releasing, \* effectiveIdleParkMs > 0
    tokens,    \* createTokens
    refills,   \* tokens added so far
    evicted,   \* sessions parked for another, so far (history)
    allowed    \* what a creation may bring the number of live sessions to:
               \* the ceiling, or what it found, and one for each session
               \* that was admitted since (history)

vars == <<st, exit, age, call, on, list, stirred, releasing, tokens, refills, evicted, allowed>>

(* busy: a turn runs or asks, or the status is idle but it is clearing or  *)
(* restarting, or has a queue or work in the background.                   *)
Standing == {"new", "starting", "idle", "busy", "parking", "stopping", "exited"}

Parties == Sessions \cup {Sweep}

TypeOK ==
    /\ st \in [Sessions -> Standing]
    /\ exit \in [Sessions -> {"none", "parked", "ended"}]
    /\ age \in [Sessions -> 0..2]
    /\ call \in [Sessions -> {"none", "room", "moved"}]
    /\ on \in [Parties -> Sessions \cup {None}]
    /\ list \subseteq Sessions
    /\ stirred \subseteq Sessions
    /\ releasing \in BOOLEAN
    /\ tokens \in 0..Burst
    /\ refills \in 0..MaxRefills
    /\ evicted \in Nat
    /\ allowed \in [Sessions -> Nat]

(* What restore() finds is exited *)
Init ==
    /\ st = [s \in Sessions |-> IF s \in Creations THEN "new" ELSE "exited"]
    /\ exit \in {e \in [Sessions -> {"parked", "ended"}] :
                    \A s \in Creations : e[s] = "ended"}
    /\ age = [s \in Sessions |-> 0]
    /\ call = [s \in Sessions |-> "none"]
    /\ on = [x \in Parties |-> None]
    /\ list = {}
    /\ stirred = {}
    /\ releasing \in BOOLEAN
    /\ tokens = Burst
    /\ refills = 0
    /\ evicted = 0
    /\ allowed = [s \in Sessions |-> 0]

-----------------------------------------------------------------------------
LiveSessions == {s \in Sessions : st[s] \notin {"new", "exited"}}
liveSessionCount == Cardinality(LiveSessions)

(* parkable *)
Parkable(s, quiet) == st[s] = "idle" /\ age[s] >= quiet

(* parkCandidates, and the first of them: the longest quiet *)
ParkCandidates(quiet) == {s \in Sessions : Parkable(s, quiet)}
Oldest(S) == {s \in S : \A t \in S : age[t] <= age[s]}

(* lastActivityAt moves *)
Stirs(s) ==
    /\ age' = [age EXCEPT ![s] = 0]
    /\ stirred' = IF s \in list THEN stirred \cup {s} ELSE stirred

(* stop("parked"): the status is no longer idle from here on *)
Parks(x, v) ==
    /\ st' = [st EXCEPT ![v] = "parking"]
    /\ on' = [on EXCEPT ![x] = v]

CanReleaseOneSlot ==
    \/ liveSessionCount < MaxLive
    \/ releasing /\ ParkCandidates(1) # {}

(* Mutant: nobody waits until the agent is gone. *)
ReleaseOneSlot_Unawaited(x) ==
    IF liveSessionCount < MaxLive \/ ~releasing \/ ParkCandidates(1) = {}
    THEN UNCHANGED <<st, on, evicted>>
    ELSE /\ \E v \in Oldest(ParkCandidates(1)) : st' = [st EXCEPT ![v] = "parking"]
         /\ evicted' = evicted + 1
         /\ UNCHANGED on

ReleaseOneSlot(x) ==
    IF liveSessionCount < MaxLive \/ ~releasing \/ ParkCandidates(1) = {}
    THEN UNCHANGED <<st, on, evicted>>
    ELSE /\ \E v \in Oldest(ParkCandidates(1)) : Parks(x, v)
         /\ evicted' = evicted + 1

(* takeCreateSlot *)
TakeCreateSlot == tokens > 0 /\ tokens' = tokens - 1

Refill ==
    /\ tokens < Burst
    /\ refills < MaxRefills    \* bound
    /\ tokens' = tokens + 1
    /\ refills' = refills + 1
    /\ UNCHANGED <<st, exit, age, call, on, list, stirred, releasing, evicted, allowed>>

(* a creation between its token and its entry in sessions *)
Pending(c) == st[c] = "new" /\ call[c] = "room"

(* One more live session: s is getting an agent. *)
Admitted(s) ==
    /\ st' = [st EXCEPT ![s] = "starting"]
    /\ allowed' = [c \in Sessions |->
                      IF c = s THEN 0
                      ELSE IF Pending(c) /\ allowed[c] < Cardinality(Sessions)
                      THEN allowed[c] + 1 ELSE allowed[c]]

-----------------------------------------------------------------------------
(* create(): weighed, charged and, if need be, paid for by another session *)
(* without an await in between; what comes after the await, up to the      *)
(* entry in sessions, is more awaits.                                      *)
Create(s) ==
    /\ st[s] = "new" /\ call[s] = "none"
    /\ CanReleaseOneSlot
    /\ TakeCreateSlot
    /\ ReleaseOneSlot(s)
    /\ call' = [call EXCEPT ![s] = "room"]
    /\ allowed' = [allowed EXCEPT ![s] =
                      IF liveSessionCount < MaxLive THEN MaxLive ELSE liveSessionCount]
    /\ UNCHANGED <<exit, age, list, stirred, releasing, refills>>

(* a bad directory, an agent that is not there, a worktree that fails *)
CreateFails(s) ==
    /\ Pending(s) /\ on[s] = None
    /\ call' = [call EXCEPT ![s] = "none"]
    /\ allowed' = [allowed EXCEPT ![s] = 0]
    /\ UNCHANGED <<st, exit, age, on, list, stirred, releasing, tokens, refills, evicted>>

(* sessions.set and start() *)
Register(s) ==
    /\ Pending(s) /\ on[s] = None
    /\ Admitted(s)
    /\ call' = [call EXCEPT ![s] = "none"]
    /\ UNCHANGED <<exit, age, on, list, stirred, releasing, tokens, refills, evicted>>

(* Mutant: a wake takes an agent without paying. *)
MakeRoomForWake_Free(s) == ReleaseOneSlot(s) /\ UNCHANGED tokens

(* makeRoomForWake: metered, and never refused *)
MakeRoomForWake(s) ==
    \/ /\ liveSessionCount < MaxLive \/ tokens = 0
       /\ UNCHANGED <<st, on, tokens, evicted>>
    \/ /\ liveSessionCount >= MaxLive
       /\ TakeCreateSlot
       /\ ReleaseOneSlot(s)

(* resume() by somebody who asks, or after the stop of a restart *)
Wake(s) ==
    /\ st[s] = "exited" /\ call[s] = "none"
    /\ MakeRoomForWake(s)
    /\ call' = [call EXCEPT ![s] = "room"]
    /\ UNCHANGED <<exit, age, list, stirred, releasing, refills, allowed>>

(* Mutant: at the ceiling, a wake waits for room. *)
RoomMade_Free(s) == on[s] = None /\ liveSessionCount < MaxLive
RoomMade(s) == on[s] = None

(* doResume goes on where it made room, and arms *)
WakeGoes(s) ==
    /\ st[s] = "exited" /\ call[s] = "room" /\ RoomMade(s)
    /\ Admitted(s)
    /\ call' = [call EXCEPT ![s] = "none"]
    /\ UNCHANGED <<exit, age, on, list, stirred, releasing, tokens, refills, evicted>>

(* ... or finds another exit record, and throws *)
WakeMoved(s) ==
    /\ call[s] = "moved" /\ on[s] = None
    /\ call' = [call EXCEPT ![s] = "none"]
    /\ UNCHANGED <<st, exit, age, on, list, stirred, releasing, tokens, refills, evicted, allowed>>

(* autoResumePass and reloadCredentials, for what ended otherwise than by  *)
(* being parked: quiet, and without a look at the ceiling                  *)
QuietlyResumes(s) ==
    /\ st[s] = "exited" /\ exit[s] = "ended" /\ call[s] = "none"
    /\ Admitted(s)
    /\ UNCHANGED <<exit, age, call, on, list, stirred, releasing, tokens, refills, evicted>>

-----------------------------------------------------------------------------
(* The sessions' own lives.                                                *)

(* the launch succeeds, or fails and leaves the record that was there *)
LaunchEnds(s) ==
    /\ st[s] = "starting"
    /\ \/ /\ st' = [st EXCEPT ![s] = "idle"]
          /\ exit' = [exit EXCEPT ![s] = "none"]
          /\ Stirs(s)
       \/ /\ st' = [st EXCEPT ![s] = "exited"]
          /\ UNCHANGED <<exit, age, stirred>>
    /\ UNCHANGED <<call, on, list, releasing, tokens, refills, evicted, allowed>>

(* a turn begins, or, with nothing logged, a /clear, a restart of the      *)
(* agent, or work in the background                                        *)
Works(s) ==
    /\ st[s] = "idle"
    /\ st' = [st EXCEPT ![s] = "busy"]
    /\ Stirs(s) \/ UNCHANGED <<age, stirred>>
    /\ UNCHANGED <<exit, call, on, list, releasing, tokens, refills, evicted, allowed>>

Rests(s) ==
    /\ st[s] = "busy"
    /\ st' = [st EXCEPT ![s] = "idle"]
    /\ Stirs(s) \/ UNCHANGED <<age, stirred>>
    /\ UNCHANGED <<exit, call, on, list, releasing, tokens, refills, evicted, allowed>>

(* anything else that is logged *)
Speaks(s) ==
    /\ st[s] \in {"idle", "busy"}
    /\ age[s] > 0
    /\ Stirs(s)
    /\ UNCHANGED <<st, exit, call, on, list, releasing, tokens, refills, evicted, allowed>>

GrowsQuiet(s) ==
    /\ st[s] \in {"idle", "busy"}
    /\ age[s] < 2
    /\ age' = [age EXCEPT ![s] = @ + 1]
    /\ UNCHANGED <<st, exit, call, on, list, stirred, releasing, tokens, refills, evicted, allowed>>

(* a person stops it, or its agent is gone *)
Stopped(s) ==
    /\ st[s] \in {"starting", "idle", "busy"}
    /\ st' = [st EXCEPT ![s] = "stopping"]
    /\ exit' = [exit EXCEPT ![s] = "none"]
    /\ Stirs(s)
    /\ UNCHANGED <<call, on, list, releasing, tokens, refills, evicted, allowed>>

(* doStop is through with it, and whoever waited for it goes on *)
StopEnds(s) ==
    /\ st[s] \in {"parking", "stopping"}
    /\ st' = [st EXCEPT ![s] = "exited"]
    /\ exit' = [exit EXCEPT ![s] = IF st[s] = "parking" THEN "parked" ELSE "ended"]
    /\ on' = [x \in Parties |-> IF on[x] = s THEN None ELSE on[x]]
    /\ Stirs(s)
    /\ UNCHANGED <<call, list, releasing, tokens, refills, evicted, allowed>>

(* stop() of a parked session replaces its record, under a wake or not *)
Relabelled(s) ==
    /\ st[s] = "exited" /\ exit[s] = "parked"
    /\ exit' = [exit EXCEPT ![s] = "ended"]
    /\ call' = [call EXCEPT ![s] = IF @ = "room" THEN "moved" ELSE @]
    /\ UNCHANGED <<st, age, on, list, stirred, releasing, tokens, refills, evicted, allowed>>

-----------------------------------------------------------------------------
(* The sweep.                                                              *)

(* Mutant: the instant that quiet is measured at is that of the first sweep. *)
SweepBegins_Once ==
    /\ list = {} /\ on[Sweep] = None
    /\ releasing
    /\ ParkCandidates(2) # {}
    /\ list' = ParkCandidates(2)
    /\ UNCHANGED <<st, exit, age, call, on, stirred, releasing, tokens, refills, evicted, allowed>>

(* tick() and parkIdleSessions, if no tick is still running *)
SweepBegins ==
    /\ list = {} /\ on[Sweep] = None
    /\ releasing
    /\ ParkCandidates(2) # {}
    /\ list' = ParkCandidates(2)
    /\ stirred' = {}
    /\ UNCHANGED <<st, exit, age, call, on, releasing, tokens, refills, evicted, allowed>>

(* Mutant: the second look is at the status alone. *)
StillParkable_Idle(s) == st[s] = "idle"
(* parkable again, as of the instant of the list: whatever happened since  *)
(* is in the future of that instant                                        *)
StillParkable(s) == st[s] = "idle" /\ s \notin stirred

(* the next of the list, when the stop of the one before it is through *)
SweepNext ==
    /\ list # {} /\ on[Sweep] = None
    /\ \E s \in list :
          /\ list' = list \ {s}
          /\ IF StillParkable(s) THEN Parks(Sweep, s) ELSE UNCHANGED <<st, on>>
    /\ UNCHANGED <<exit, age, call, stirred, releasing, tokens, refills, evicted, allowed>>

(* PATCH /settings switches releasing off or on *)
SwitchReleasing ==
    /\ releasing' = ~releasing
    /\ UNCHANGED <<st, exit, age, call, on, list, stirred, tokens, refills, evicted, allowed>>

-----------------------------------------------------------------------------
(* What a call that has its room does next *)
GoesOn(s) == CreateFails(s) \/ Register(s) \/ WakeGoes(s) \/ WakeMoved(s)

Next ==
    \/ \E s \in Sessions :
          \/ Create(s) \/ Wake(s) \/ QuietlyResumes(s) \/ GoesOn(s)
          \/ LaunchEnds(s) \/ Works(s) \/ Rests(s) \/ Speaks(s)
          \/ GrowsQuiet(s) \/ Stopped(s) \/ StopEnds(s) \/ Relabelled(s)
    \/ SweepBegins \/ SweepNext \/ SwitchReleasing \/ Refill

(* A stop has its deadlines and a forced kill behind it; the awaits of a   *)
(* create are bounded; the timer of the sweep is armed again.              *)
Fairness ==
    /\ \A s \in Sessions : WF_vars(StopEnds(s)) /\ WF_vars(GoesOn(s))
    /\ WF_vars(SweepBegins \/ SweepNext)

Spec == Init /\ [][Next]_vars /\ Fairness

-----------------------------------------------------------------------------
(* What is parked for another's sake is paid for: as many agents are taken *)
(* away as the bucket had tokens, whoever asked and however many at a time *)
(* (registry.ts:7641-7662, 7801-7826).                                     *)
EvictionsPaid == evicted + tokens <= Burst + refills

(* Two parties never wait for the same stop: each took an agent of its own *)
(* (registry.ts:7578-7604).                                                *)
OneVictimEach ==
    /\ \A x \in Parties : on[x] # None => st[on[x]] = "parking"
    /\ \A x, y \in Parties : on[x] # None /\ on[x] = on[y] => x = y

(* A creation that was let in keeps the place it found or paid for: until  *)
(* it takes it, there are so few live sessions that it does not go past    *)
(* the ceiling, or past what it found, but for the sessions that were      *)
(* admitted in the meantime (registry.ts:7771-7832).                       *)
PlaceIsKept ==
    \A s \in Sessions :
        Pending(s) =>
            liveSessionCount + (IF on[s] = None THEN 1 ELSE 0) <= allowed[s]

(* Only a session that is idle, owes nothing and has been quiet for long   *)
(* enough for who takes it, is parked, whatever happened since it was      *)
(* chosen (registry.ts:3105-3236, 7536-7546).                              *)
ParksOnlyTheQuiet ==
    [][\A s \in Sessions :
          st[s] # "parking" /\ st'[s] = "parking" =>
              Parkable(s, IF on'[Sweep] = s THEN 2 ELSE 1)]_vars
=============================================================================
