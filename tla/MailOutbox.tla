----------------------------- MODULE MailOutbox -----------------------------
(***************************************************************************)
(* The control plane's mail (control-plane mail/outbox.ts): a queue in     *)
(* SQLite and the pump that empties it, one message at a time, in each     *)
(* process that has the database open.  One is meant to; two are what the  *)
(* conditional claim is for.                                               *)
(*                                                                         *)
(* A claim is a lease: the row's next_at moves to when it may be claimed   *)
(* again, which is later than the watchdog lets a send last.  There is no  *)
(* clock: a row is due or not, stale (past its not_after) or not, and time *)
(* passes for a row that no pump is sending.                               *)
(*                                                                         *)
(* Sending is what the mail server makes of it: it takes the message or    *)
(* refuses it, its answer may be lost or come too late, and what was never *)
(* answered it may still take when the pump has long moved on.             *)
(***************************************************************************)
EXTENDS Naturals, FiniteSets

CONSTANTS
    Messages,
    CallerDriven,     \* CALLER_DRIVEN: the messages of the kinds anybody can ask for
    Pumps,            \* processes with the database open
    MaxPending,       \* MAX_OUTBOX_PENDING
    MaxCallerDriven,  \* MAX_OUTBOX_CALLER_DRIVEN
    MaxAttempts,      \* MAX_ATTEMPTS
    BreakerThreshold, \* BREAKER_THRESHOLD
    MaxTrouble,       \* bound: crashes, lost answers, lost writes and settings cleared
    None

ASSUME OutboxAssumption ==
    /\ CallerDriven \subseteq Messages
    /\ {MaxPending, MaxCallerDriven, MaxTrouble} \subseteq Nat
    /\ MaxAttempts \in Nat \ {0}
    /\ BreakerThreshold \in Nat \ {0}

VARIABLES
    row,        \* mail_outbox: message -> None or its row
    pump,       \* the drain of each process, its breaker, and the message it has
    configured, \* mailConfig is not null
    wire,       \* sends nobody waits for any more and the server may still take
    handed,     \* how often the mail server took each message (history)
    excused,    \* how often a send of it had no answer, or one that was not
                \* recorded (history)
    trouble     \* what has gone wrong so far

vars == <<row, pump, configured, wire, handed, excused, trouble>>

Row == [sent : BOOLEAN, failed : BOOLEAN, due : BOOLEAN, stale : BOOLEAN, attempts : Nat]

ASSUME NoneAssumption == None \notin Messages /\ None \notin Row

(* picked: claimNextMail has its candidate; sending: it has claimed it.    *)
Pump == [st : {"down", "idle", "picked", "sending"}, msg : Messages \cup {None},
         taken : BOOLEAN, fails : 0..BreakerThreshold, paused : BOOLEAN]

Fresh == [st |-> "idle", msg |-> None, taken |-> FALSE, fails |-> 0, paused |-> FALSE]

TypeOK ==
    /\ row \in [Messages -> Row \cup {None}]
    /\ pump \in [Pumps -> Pump]
    /\ configured \in BOOLEAN
    /\ wire \in [Messages -> Nat]
    /\ handed \in [Messages -> Nat]
    /\ excused \in [Messages -> Nat]
    /\ trouble \in 0..MaxTrouble

Init ==
    /\ row = [m \in Messages |-> None]
    /\ pump = [p \in Pumps |-> Fresh]
    /\ configured \in BOOLEAN
    /\ wire = [m \in Messages |-> 0]
    /\ handed = [m \in Messages |-> 0]
    /\ excused = [m \in Messages |-> 0]
    /\ trouble = 0

Trouble == trouble < MaxTrouble /\ trouble' = trouble + 1    \* bound

-----------------------------------------------------------------------------
(* The queue.                                                              *)

(* Mutant: what was sent is still looked at. *)
Unsent_UnlessFailed(r) == r # None /\ ~r.failed
Unsent(r) == r # None /\ ~r.sent /\ ~r.failed

Pending == {m \in Messages : Unsent(row[m]) /\ ~row[m].stale}

(* mailAccepts *)
Accepts(m) ==
    /\ Cardinality(Pending) < MaxPending
    /\ m \in CallerDriven => Cardinality(Pending \cap CallerDriven) < MaxCallerDriven

(* enqueueMail; what is not accepted is never heard of again *)
Enqueue(m) ==
    /\ row[m] = None
    /\ Accepts(m)
    /\ row' = [row EXCEPT ![m] = [sent |-> FALSE, failed |-> FALSE, due |-> TRUE,
                                  stale |-> FALSE, attempts |-> 0]]
    /\ UNCHANGED <<pump, configured, wire, handed, excused, trouble>>

Sending(p, m) == pump[p].st = "sending" /\ pump[p].msg = m

(* The lease or the back-off of a row is over.  LEASE_MS is longer than    *)
(* DELIVER_WATCHDOG_MS, so no pump is still sending it.                    *)
ComesDue(m) ==
    /\ Unsent(row[m]) /\ ~row[m].due
    /\ \A p \in Pumps : ~Sending(p, m)
    /\ row' = [row EXCEPT ![m].due = TRUE]
    /\ UNCHANGED <<pump, configured, wire, handed, excused, trouble>>

GoesStale(m) ==
    /\ Unsent(row[m]) /\ ~row[m].stale
    /\ row' = [row EXCEPT ![m].stale = TRUE]
    /\ UNCHANGED <<pump, configured, wire, handed, excused, trouble>>

-----------------------------------------------------------------------------
(* A pump.                                                                 *)

Expired == [m \in Messages |->
               IF Unsent(row[m]) /\ row[m].stale THEN [row[m] EXCEPT !.failed = TRUE]
               ELSE row[m]]

(* Mutant: nothing expires on an instance that cannot send. *)
Swept_IfConfigured == IF configured THEN Expired ELSE row
(* expireStaleMail, above the check of the configuration *)
Swept == Expired

Candidates(r) == {m \in Messages : Unsent(r[m]) /\ r[m].due}

(* One turn of drain's loop, as far as the candidate that claimNextMail    *)
(* selects.  A row that has just been swept is no candidate, so drain's    *)
(* own check of notAfter, after the claim, is never met.                   *)
Drain(p) ==
    /\ pump[p].st = "idle" /\ ~pump[p].paused
    /\ row' = Swept
    /\ IF configured /\ Candidates(Swept) # {}
       THEN \E m \in Candidates(Swept) :
               pump' = [pump EXCEPT ![p].st = "picked", ![p].msg = m]
       ELSE UNCHANGED pump
    /\ UNCHANGED <<configured, wire, handed, excused, trouble>>

(* Mutant: the claim trusts the candidate. *)
Claimable_Trusted(m) == TRUE
Claimable(m) == Unsent(row[m]) /\ row[m].due

(* The conditional UPDATE: the pump that changes the row sends it, another *)
(* leaves off until its next tick.                                         *)
Claim(p) ==
    LET m == pump[p].msg
    IN  /\ pump[p].st = "picked"
        /\ IF Claimable(m)
           THEN /\ row' = [row EXCEPT ![m].due = FALSE, ![m].attempts = @ + 1]
                /\ pump' = [pump EXCEPT ![p].st = "sending", ![p].taken = FALSE]
           ELSE /\ pump' = [pump EXCEPT ![p].st = "idle", ![p].msg = None]
                /\ UNCHANGED row
        /\ UNCHANGED <<configured, wire, handed, excused, trouble>>

(* The mail server takes the message ... *)
Take(p) ==
    /\ pump[p].st = "sending" /\ ~pump[p].taken
    /\ pump' = [pump EXCEPT ![p].taken = TRUE]
    /\ handed' = [handed EXCEPT ![pump[p].msg] = @ + 1]
    /\ UNCHANGED <<row, configured, wire, excused, trouble>>

(* ... or, sooner or later or never, one that nobody waits for.            *)
TakeLate(m) ==
    /\ wire[m] > 0
    /\ wire' = [wire EXCEPT ![m] = @ - 1]
    /\ handed' = [handed EXCEPT ![m] = @ + 1]
    /\ UNCHANGED <<row, pump, configured, excused, trouble>>

Idling(p) == [pump[p] EXCEPT !.st = "idle", !.msg = None, !.taken = FALSE]

(* recordMailSent; a success closes the breaker *)
Sent(p) ==
    /\ pump[p].st = "sending" /\ pump[p].taken
    /\ row' = [row EXCEPT ![pump[p].msg].sent = TRUE]
    /\ pump' = [pump EXCEPT ![p] = [Idling(p) EXCEPT !.fails = 0]]
    /\ UNCHANGED <<configured, wire, handed, excused, trouble>>

(* recordMailFailure: given up, or left for when its back-off is over      *)
Outcome(r, permanent) ==
    IF permanent \/ r.attempts >= MaxAttempts THEN [r EXCEPT !.failed = TRUE]
    ELSE [r EXCEPT !.due = FALSE]

(* ... and BreakerThreshold failures in a row open the breaker.            *)
Failed(p, permanent) ==
    LET n == IF pump[p].fails < BreakerThreshold THEN pump[p].fails + 1 ELSE BreakerThreshold
    IN  /\ row' = [row EXCEPT ![pump[p].msg] = Outcome(@, permanent)]
        /\ pump' = [pump EXCEPT ![p] = [Idling(p) EXCEPT !.fails = n, !.paused = n = BreakerThreshold]]

(* the server answers that it will not, now or ever *)
Refused(p) ==
    /\ pump[p].st = "sending" /\ ~pump[p].taken
    /\ \E permanent \in BOOLEAN : Failed(p, permanent)
    /\ UNCHANGED <<configured, wire, handed, excused, trouble>>

(* What the server made of it is not known.                                *)
Unknown(p) ==
    LET m == pump[p].msg
    IN  /\ wire' = IF pump[p].taken THEN wire ELSE [wire EXCEPT ![m] = @ + 1]
        /\ excused' = [excused EXCEPT ![m] = @ + 1]

(* a step of the dialogue runs out of time, the connection is lost, or the *)
(* watchdog ends the wait for a send that never settles                    *)
Unanswered(p) ==
    /\ pump[p].st = "sending"
    /\ Trouble
    /\ Unknown(p)
    /\ Failed(p, FALSE)
    /\ UNCHANGED <<configured, handed>>

(* The write of the outcome throws: that of a success is then recorded as  *)
(* a failure; if that throws too, drain ends and the lease stands.         *)
Unrecorded(p) ==
    /\ pump[p].st = "sending"
    /\ Trouble
    /\ Unknown(p)
    /\ \/ pump[p].taken /\ Failed(p, FALSE)
       \/ pump' = [pump EXCEPT ![p] = Idling(p)] /\ UNCHANGED row
    /\ UNCHANGED <<configured, handed>>

(* BREAKER_COOLDOWN_MS is over; the count of failures stands *)
Cooldown(p) ==
    /\ pump[p].paused
    /\ pump' = [pump EXCEPT ![p].paused = FALSE]
    /\ UNCHANGED <<row, configured, wire, handed, excused, trouble>>

(* The process ends, by a signal or not, and is started again.             *)
Dies(p) ==
    /\ pump[p].st # "down"
    /\ Trouble
    /\ IF pump[p].st = "sending" THEN Unknown(p) ELSE UNCHANGED <<wire, excused>>
    /\ pump' = [pump EXCEPT ![p] = [Fresh EXCEPT !.st = "down"]]
    /\ UNCHANGED <<row, configured, handed>>

Starts(p) ==
    /\ pump[p].st = "down"
    /\ pump' = [pump EXCEPT ![p] = Fresh]
    /\ UNCHANGED <<row, configured, wire, handed, excused, trouble>>

(* An administrator fills in or clears the mail settings.                  *)
Configure ==
    /\ Trouble
    /\ configured' = ~configured
    /\ UNCHANGED <<row, pump, wire, handed, excused>>

-----------------------------------------------------------------------------
(* What nobody has to cause: time, and what a live process does by itself. *)
(* The server need not answer, but the watchdog does.                      *)
Progress ==
    \/ \E m \in Messages : ComesDue(m) \/ GoesStale(m)
    \/ \E p \in Pumps :
          \/ Drain(p) \/ Claim(p) \/ Sent(p) \/ Refused(p) \/ Unanswered(p)
          \/ Cooldown(p) \/ Starts(p)

Next ==
    \/ Progress
    \/ \E m \in Messages : Enqueue(m) \/ TakeLate(m)
    \/ \E p \in Pumps : Take(p) \/ Unrecorded(p) \/ Dies(p)
    \/ Configure

Spec == Init /\ [][Next]_vars /\ WF_vars(Progress)

-----------------------------------------------------------------------------
(* However many processes have the database open, one of them sends a      *)
(* message at a time, and none sends what was sent (outbox.ts:384-415).    *)
OneSender ==
    \A p \in Pumps, m \in Messages :
        Sending(p, m) =>
            /\ ~row[m].sent
            /\ \A q \in Pumps : Sending(q, m) => q = p

(* A message reaches the mail server twice only if a send of it had no     *)
(* answer, or one that could not be recorded: what was answered and        *)
(* recorded is over (outbox.ts:418-471).                                   *)
DuplicatesAccounted == \A m \in Messages : handed[m] <= 1 + excused[m]
=============================================================================
