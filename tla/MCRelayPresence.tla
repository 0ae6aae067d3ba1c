--------------------------- MODULE MCRelayPresence ---------------------------
(***************************************************************************)
(* What TLC checks of RelayPresence.                                       *)
(***************************************************************************)
EXTENDS RelayPresence, TLC

CONSTANTS p1, p2, p3, r1, r2, m1

(* An id whose process is replaced, and a second relay beside it. *)
MCSlotOf == p1 :> r1 @@ p2 :> r1 @@ p3 :> r2

(* Where a machine really is. *)
Where(m) ==
    IF daemon[m] = "serving" /\ link[ws[m]].near = "open"
    THEN SlotOf[link[ws[m]].p] ELSE None

(* The row that m is left with names a relay that nobody runs any more.    *)
LeftBehind(m) ==
    row[m] # None /\ \A p \in Procs : SlotOf[p] = row[m].relay => proc[p] = "gone"

(* Whatever failed, once nothing more fails every machine is sent for at   *)
(* the relay that holds its daemon's tunnel, and a machine without one is  *)
(* sent for nowhere: writes that were lost are repaired, and what dead     *)
(* tunnels left behind goes, as does what a dead relay left if another     *)
(* process takes its id.  A row of a relay that nobody runs any more is    *)
(* excepted: it may stand above the live tunnel's for good.                *)
PresenceSettles ==
    <>[](\A m \in Machines : RelayFor(m) = Where(m) \/ LeftBehind(m))
=============================================================================
