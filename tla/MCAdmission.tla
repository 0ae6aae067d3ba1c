----------------------------- MODULE MCAdmission -----------------------------
(***************************************************************************)
(* What TLC checks of Admission.                                           *)
(***************************************************************************)
EXTENDS Admission

(* Every creation and every wake that is let in comes to an end, and so    *)
(* does every sweep: nobody waits for ever for an agent to go, and a wake  *)
(* does not wait for the ceiling (registry.ts:4106-4113, 7629-7662,        *)
(* idlepark.ts:179-217).                                                   *)
CallsReturn ==
    /\ \A s \in Sessions : call[s] # "none" ~> call[s] = "none"
    /\ list # {} ~> list = {} /\ on[Sweep] = None

(* A session that stays quiet does not keep its agent, unless releasing is *)
(* switched off (registry.ts:7536-7546, idlepark.ts:179-217).              *)
IdleIsReleased ==
    \A s \in Sessions : releasing /\ Parkable(s, 2) ~> ~releasing \/ ~Parkable(s, 2)
=============================================================================
