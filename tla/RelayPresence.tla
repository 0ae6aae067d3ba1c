---------------------------- MODULE RelayPresence ----------------------------
(***************************************************************************)
(* Who can reach a machine.  A daemon dials a relay and keeps one tunnel   *)
(* open (src/relay/tunnel.ts); the relay process keeps its tunnels in a    *)
(* Map, one per machine (control-plane relay/registry.ts), and writes who  *)
(* holds what into two tables that it shares with the other relays and     *)
(* with the API (relay/presence.ts): relay_tunnels, a row per machine, and *)
(* relay_instances, a row per relay id.  The API reads the first to send a *)
(* browser to the relay that holds the machine.                            *)
(*                                                                         *)
(* A link is one dial: its daemon's end and its relay's end close each on  *)
(* its own, so that a relay may hold a tunnel whose daemon is long gone,   *)
(* and may even attach one that the daemon has given up on.                *)
(*                                                                         *)
(* There is no clock.  A row and a claim are fresh or stale, and go stale  *)
(* when nobody has refreshed them for 20 s, four flushes: when the process *)
(* that would is dead or, if Slips says so, stands still for that long.    *)
(***************************************************************************)
EXTENDS Naturals

CONSTANTS
    Procs,      \* relay processes; a restart is another process
    Slots,      \* relay ids
    SlotOf,     \* the relay id that each process is started with
    Machines,
    MaxDials,   \* bound: links that are ever dialled
    Slips,      \* how a relay id may come to have two holders:
                \*   "pause": a process stands still for longer than a claim lasts
                \*   "overlap": two processes of one id start at the same time
    None

ASSUME SlotAssumption == SlotOf \in [Procs -> Slots]
ASSUME BoundAssumption == MaxDials \in Nat

VARIABLES
    proc,    \* p -> "down" (not started), "claiming" (it has read that its id
             \*   is free), "up", "gone"
    tunnels, \* TunnelRegistry.tunnels: p -> machine -> link, 0 for none
    link,    \* link -> machine, process, the state of either end, since
    dialled, \* links dialled so far
    row,     \* relay_tunnels: machine -> None or relay, since, fresh
    inst,    \* relay_instances: slot -> None or nonce, fresh
    daemon,  \* machine -> "retrying", "dialling", "serving", "stopped"
    ws,      \* RelayTunnel.ws of the daemon: machine -> link, 0 for none
    now      \* Date.now() at the relays, advanced by each attach

vars == <<proc, tunnels, link, dialled, row, inst, daemon, ws, now>>

Links == 1..MaxDials

NoLink == [m |-> None, p |-> None, near |-> "none", far |-> "none", since |-> 0]

(* near is the relay's end.  "closing": the relay called close(), and the  *)
(* socket's close event is still to come.                                  *)
LinkType == [m : Machines \cup {None}, p : Procs \cup {None},
             near : {"none", "asking", "open", "closing", "gone"},
             far : {"none", "asking", "open", "gone"}, since : Nat]

RowType == [relay : Slots, since : Nat, fresh : BOOLEAN]
ClaimType == [nonce : Procs, fresh : BOOLEAN]

ASSUME NoneAssumption ==
    None \notin Procs \cup Slots \cup Machines /\ None \notin RowType /\ None \notin ClaimType

TypeOK ==
    /\ proc \in [Procs -> {"down", "claiming", "up", "gone"}]
    /\ tunnels \in [Procs -> [Machines -> 0..MaxDials]]
    /\ link \in [Links -> LinkType]
    /\ dialled \in 0..MaxDials
    /\ row \in [Machines -> RowType \cup {None}]
    /\ inst \in [Slots -> ClaimType \cup {None}]
    /\ daemon \in [Machines -> {"retrying", "dialling", "serving", "stopped"}]
    /\ ws \in [Machines -> 0..MaxDials]
    /\ now \in Nat

Init ==
    /\ proc = [p \in Procs |-> "down"]
    /\ tunnels = [p \in Procs |-> [m \in Machines |-> 0]]
    /\ link = [n \in Links |-> NoLink]
    /\ dialled = 0
    /\ row = [m \in Machines |-> None]
    /\ inst = [r \in Slots |-> None]
    /\ daemon = [m \in Machines |-> "retrying"]
    /\ ws = [m \in Machines |-> 0]
    /\ now = 0

-----------------------------------------------------------------------------
(* The rows.  Each operator is one prepared statement, on one machine's    *)
(* row; a write that fails is swallowed (guarded), so every write of a     *)
(* single row may also do nothing.                                         *)

(* upsert: the newest tunnel takes the row, whoever had it *)
Upserted(p, since) == [relay |-> SlotOf[p], since |-> since, fresh |-> TRUE]

(* remove: only a row that names this relay *)
Removed(p, r) == IF r # None /\ r.relay = SlotOf[p] THEN None ELSE r

(* Mutant: the heartbeat shares the statement of a new tunnel. *)
Refreshed_Upserts(p, since, r) == Upserted(p, since)

(* refresh: a heartbeat takes a row that is ours, or older than our tunnel *)
Refreshed(p, since, r) ==
    IF r = None \/ r.relay = SlotOf[p] \/ since >= r.since THEN Upserted(p, since) ELSE r

(* Mutant: without the sweep, a row whose removal failed is never removed. *)
Flushed_NoSweep(p) ==
    [m \in Machines |->
        IF tunnels[p][m] # 0
        THEN Refreshed(p, link[tunnels[p][m]].since, row[m])
        ELSE row[m]]

(* flush: every tunnel in the map is stamped, and what this relay's name   *)
(* has that was not stamped is swept                                       *)
Flushed(p) ==
    [m \in Machines |->
        IF tunnels[p][m] # 0
        THEN Refreshed(p, link[tunnels[p][m]].since, row[m])
        ELSE Removed(p, row[m])]

Holds(p) == inst[SlotOf[p]] # None /\ inst[SlotOf[p]].nonce = p

(* beat: a claim is kept alive by its holder only *)
Beaten(p) == IF Holds(p) THEN [inst EXCEPT ![SlotOf[p]].fresh = TRUE] ELSE inst

(* A process that refreshes nothing for as long as a row or a claim lasts. *)
Silent(p) == proc[p] # "up" \/ "pause" \in Slips

RowAges(m) ==
    /\ row[m] # None /\ row[m].fresh
    /\ \A p \in Procs : SlotOf[p] = row[m].relay /\ tunnels[p][m] # 0 => Silent(p)
    /\ row' = [row EXCEPT ![m].fresh = FALSE]
    /\ UNCHANGED <<proc, tunnels, link, dialled, inst, daemon, ws, now>>

ClaimAges(r) ==
    /\ inst[r] # None /\ inst[r].fresh
    /\ Silent(inst[r].nonce)
    /\ inst' = [inst EXCEPT ![r].fresh = FALSE]
    /\ UNCHANGED <<proc, tunnels, link, dialled, row, daemon, ws, now>>

-----------------------------------------------------------------------------
(* A relay process.                                                        *)

(* Mutant: a claim is taken however fresh it is. *)
Claimable_Always(r) == TRUE

(* claimRelayId reads the claim ... *)
Claimable(r) == inst[r] # None => ~inst[r].fresh

(* "overlap" \notin Slips: a supervisor runs one start of an id at a time *)
ReadClaim(p) ==
    /\ proc[p] = "down"
    /\ Claimable(SlotOf[p])
    /\ "overlap" \in Slips \/ \A q \in Procs : SlotOf[q] = SlotOf[p] => proc[q] # "claiming"
    /\ proc' = [proc EXCEPT ![p] = "claiming"]
    /\ UNCHANGED <<tunnels, link, dialled, row, inst, daemon, ws, now>>

(* ... and writes it; then the rows of this id are cleared and the listener *)
(* comes up.                                                                *)
WriteClaim(p) ==
    /\ proc[p] = "claiming"
    /\ inst' = [inst EXCEPT ![SlotOf[p]] = [nonce |-> p, fresh |-> TRUE]]
    /\ \/ row' = [m \in Machines |-> Removed(p, row[m])]
       \/ UNCHANGED row
    /\ proc' = [proc EXCEPT ![p] = "up"]
    /\ UNCHANGED <<tunnels, link, dialled, daemon, ws, now>>

Flush(p) ==
    /\ proc[p] = "up"
    /\ row' = Flushed(p)
    /\ inst' = Beaten(p)
    /\ UNCHANGED <<proc, tunnels, link, dialled, daemon, ws, now>>

(* tunnel.close(): a tunnel is closed once, and its registration stays     *)
Closed(l) == [l EXCEPT !.near = IF @ = "open" THEN "closing" ELSE @]

(* the relay's end is gone, and with it what the relay knew of it *)
Gone(l) == [l EXCEPT !.near = "gone", !.p = None, !.since = 0]

(* handleUpgrade and attach: register() puts the new tunnel in the map and *)
(* closes the one it replaces.                                             *)
Attach(p, n) ==
    LET m == link[n].m
        old == tunnels[p][m]
    IN  /\ proc[p] = "up"
        /\ link[n].p = p /\ link[n].near = "asking"
        /\ now' = now + 1
        /\ tunnels' = [tunnels EXCEPT ![p][m] = n]
        /\ link' = [k \in Links |->
                       IF k = n THEN [link[n] EXCEPT !.near = "open", !.since = now + 1]
                       ELSE IF k = old THEN Closed(link[k]) ELSE link[k]]
        /\ \/ row' = [row EXCEPT ![m] = Upserted(p, now + 1)]
           \/ UNCHANGED row
        /\ UNCHANGED <<proc, dialled, inst, daemon, ws>>

(* handleUpgrade refuses: version, credential, standing or machine key *)
Refuse(p, n) ==
    /\ proc[p] = "up"
    /\ link[n].p = p /\ link[n].near = "asking"
    /\ link' = [link EXCEPT ![n] = Gone(@)]
    /\ UNCHANGED <<proc, tunnels, dialled, row, inst, daemon, ws, now>>

(* unregister: only the tunnel that is the one in the map takes its        *)
(* machine's entry and row with it.                                        *)
Unregister(p, n) ==
    LET m == link[n].m
    IN  IF tunnels[p][m] = n
        THEN /\ tunnels' = [tunnels EXCEPT ![p][m] = 0]
             /\ \/ row' = [row EXCEPT ![m] = Removed(p, @)]
                \/ UNCHANGED row
        ELSE UNCHANGED <<tunnels, row>>

(* the relay's socket closes, for whatever reason, or has missed two       *)
(* pings: teardown                                                         *)
TunnelCloses(p, n) ==
    /\ proc[p] = "up"
    /\ link[n].p = p /\ link[n].near \in {"open", "closing"}
    /\ link' = [link EXCEPT ![n] = Gone(@)]
    /\ Unregister(p, n)
    /\ UNCHANGED <<proc, dialled, inst, daemon, ws, now>>

(* the heartbeat finds too much buffered, and closes the tunnel *)
Backpressure(p, n) ==
    /\ proc[p] = "up"
    /\ link[n].p = p /\ link[n].near = "open"
    /\ link' = [link EXCEPT ![n] = Closed(@)]
    /\ UNCHANGED <<proc, tunnels, dialled, row, inst, daemon, ws, now>>

(* get(): a lookup that meets a closed tunnel unregisters it *)
Lookup(p, m) ==
    /\ proc[p] = "up"
    /\ tunnels[p][m] # 0 /\ link[tunnels[p][m]].near = "closing"
    /\ Unregister(p, tunnels[p][m])
    /\ UNCHANGED <<proc, link, dialled, inst, daemon, ws, now>>

Dies(p) ==
    /\ proc' = [proc EXCEPT ![p] = "gone"]
    /\ tunnels' = [tunnels EXCEPT ![p] = [m \in Machines |-> 0]]
    /\ link' = [n \in Links |-> IF link[n].p = p THEN Gone(link[n]) ELSE link[n]]

(* closeAll takes down the row of every tunnel in the map, and the id is   *)
(* given back by the process that holds it.                                *)
Shutdown(p) ==
    /\ proc[p] = "up"
    /\ Dies(p)
    /\ \/ row' = [m \in Machines |-> IF tunnels[p][m] # 0 THEN Removed(p, row[m]) ELSE row[m]]
       \/ UNCHANGED row
    /\ \/ inst' = [inst EXCEPT ![SlotOf[p]] = IF Holds(p) THEN None ELSE @]
       \/ UNCHANGED inst
    /\ UNCHANGED <<dialled, daemon, ws, now>>

Crash(p) ==
    /\ proc[p] \in {"claiming", "up"}
    /\ Dies(p)
    /\ UNCHANGED <<dialled, row, inst, daemon, ws, now>>

-----------------------------------------------------------------------------
(* A daemon's tunnel.                                                      *)

(* the retry timer fires and dial() asks what to announce; when that is    *)
(* there, or its deadline has passed, a socket is opened, and reaches any  *)
(* process that listens: several relays may stand behind one URL           *)
Open(m, p) ==
    /\ daemon[m] = "retrying"
    /\ proc[p] = "up"
    /\ dialled < MaxDials
    /\ dialled' = dialled + 1
    /\ link' = [link EXCEPT ![dialled + 1] =
                   [m |-> m, p |-> p, near |-> "asking", far |-> "asking", since |-> 0]]
    /\ ws' = [ws EXCEPT ![m] = dialled + 1]
    /\ daemon' = [daemon EXCEPT ![m] = "dialling"]
    /\ UNCHANGED <<proc, tunnels, row, inst, now>>

(* the 101 arrives: serve() *)
Serve(m) ==
    /\ daemon[m] = "dialling"
    /\ link[ws[m]].near \in {"open", "closing"}
    /\ link' = [link EXCEPT ![ws[m]].far = "open"]
    /\ daemon' = [daemon EXCEPT ![m] = "serving"]
    /\ UNCHANGED <<proc, tunnels, dialled, row, inst, ws, now>>

(* teardown() *)
TornDown(m) ==
    /\ link' = IF ws[m] = 0 THEN link ELSE [link EXCEPT ![ws[m]].far = "gone"]
    /\ ws' = [ws EXCEPT ![m] = 0]

(* the daemon's socket closes, is refused, or has missed two pings: it is  *)
(* torn down and a retry is scheduled                                      *)
SocketCloses(m) ==
    /\ daemon[m] \in {"dialling", "serving"}
    /\ TornDown(m)
    /\ daemon' = [daemon EXCEPT ![m] = "retrying"]
    /\ UNCHANGED <<proc, tunnels, dialled, row, inst, now>>

(* stop(): whatever waits, for the timer or for the announcement, opens    *)
(* nothing afterwards                                                      *)
Stop(m) ==
    /\ daemon[m] # "stopped"
    /\ TornDown(m)
    /\ daemon' = [daemon EXCEPT ![m] = "stopped"]
    /\ UNCHANGED <<proc, tunnels, dialled, row, inst, now>>

-----------------------------------------------------------------------------
(* dbRelayView.relayFor: the relay that a browser is sent to.              *)
RelayFor(m) == IF row[m] # None /\ row[m].fresh THEN row[m].relay ELSE None

(* What nobody has to cause: the steps of live processes, and time.  An    *)
(* end of a link whose other end is gone notices, by a FIN or its pings.   *)
Progress ==
    \/ \E p \in Procs :
          \/ ReadClaim(p) \/ WriteClaim(p) \/ Flush(p)
          \/ \E n \in Links :
                \/ Attach(p, n)
                \/ (link[n].far = "gone" \/ link[n].near = "closing") /\ TunnelCloses(p, n)
    \/ \E m \in Machines :
          \/ Serve(m) \/ RowAges(m)
          \/ ws[m] # 0 /\ link[ws[m]].near \in {"closing", "gone"} /\ SocketCloses(m)
          \/ \E p \in Procs : Open(m, p)
    \/ \E r \in Slots : ClaimAges(r)

(* What may go wrong.  Every process and every link fails at most once. *)
Trouble ==
    \/ \E p \in Procs :
          \/ Shutdown(p) \/ Crash(p)
          \/ \E n \in Links : Refuse(p, n) \/ TunnelCloses(p, n) \/ Backpressure(p, n)
          \/ \E m \in Machines : Lookup(p, m)
    \/ \E m \in Machines : SocketCloses(m) \/ Stop(m)

Next == Progress \/ Trouble

Spec == Init /\ [][Next]_vars /\ WF_vars(Progress)

-----------------------------------------------------------------------------
(* A tunnel that its relay has not closed is the one its relay would hand  *)
(* out: the late close of a tunnel it superseded does not take it along    *)
(* (registry.ts:257-290).                                                  *)
OpenTunnelIsFound ==
    \A n \in Links : link[n].near = "open" => tunnels[link[n].p][link[n].m] = n

(* An id has one holder: a process that runs is the one that               *)
(* relay_instances names (presence.ts:398-435).                            *)
OneHolder == \A p \in Procs : proc[p] = "up" => Holds(p)

(* The row that describes the tunnel a daemon is on is lost only to a      *)
(* tunnel attached later: no heartbeat, sweep, removal or boot of a relay  *)
(* that holds less takes it away (presence.ts:105-148).                    *)
LiveRowStands ==
    [][\A m \in Machines :
          LET n == ws[m]
          IN  /\ n # 0 /\ link[n].near = "open" /\ link'[n].near = "open"
              /\ row[m] # None
              /\ row[m].relay = SlotOf[link[n].p] /\ row[m].since = link[n].since
              => row'[m] # None /\ row'[m].since >= row[m].since]_vars
=============================================================================
