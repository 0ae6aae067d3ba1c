---------------------------- MODULE MCMailOutbox ----------------------------
(***************************************************************************)
(* What TLC checks of MailOutbox.                                          *)
(***************************************************************************)
EXTENDS MailOutbox

(* Every message that was queued is sent or failed in the end, whatever    *)
(* becomes of the server, the settings and the processes: nothing wedges   *)
(* the pump, and no row keeps its one-time link for ever                   *)
(* (outbox.ts:60-70, 561-568).                                             *)
EveryMessageSettles == \A m \in Messages : Unsent(row[m]) ~> ~Unsent(row[m])
=============================================================================
