---------------------------- MODULE Reservation ----------------------------
(***************************************************************************)
(* What a booking request promises its owner, whatever the provider, the   *)
(* network and the server do: seats are selected automatically at most     *)
(* once, an attempt whose outcome is unknown goes to a person and never    *)
(* back to the automation, and a request that was paid for or closed stays *)
(* so.  BookingJob is the program that keeps the promise.                  *)
(***************************************************************************)

VARIABLES
    phase,  \* where the request stands
    tried   \* seats may have been selected on its behalf

vars == <<phase, tried>>

Phases == {"open", "attempting", "payable", "manual", "paid", "closed"}

TypeOK ==
    /\ phase \in Phases
    /\ tried \in BOOLEAN

Init ==
    /\ phase = "open"
    /\ tried = FALSE

\* The one automatic attempt.  Its beginning is recorded with it.
Attempt ==
    /\ phase = "open"
    /\ ~tried
    /\ phase' = "attempting"
    /\ tried' = TRUE

\* Seats are held and the total is verified: the owner may pay.
Succeed ==
    /\ phase = "attempting"
    /\ phase' = "payable"
    /\ UNCHANGED tried

\* Something needs a person: sign-in, an unknown outcome, a restart, a deadline.
HandOver ==
    /\ phase \in {"open", "attempting", "payable"}
    /\ phase' = "manual"
    /\ UNCHANGED tried

\* The owner works in the provider's page; seats may be selected from now on.
TakeOver ==
    /\ phase = "manual"
    /\ tried' = TRUE
    /\ UNCHANGED phase

\* Automation may resume only if no seat can have been selected.
Resume ==
    /\ phase = "manual"
    /\ ~tried
    /\ phase' = "open"
    /\ UNCHANGED tried

\* A booking is confirmed only where seats may have been selected.
Settle ==
    /\ phase \in {"payable", "manual"}
    /\ tried
    /\ phase' = "paid"
    /\ UNCHANGED tried

\* Cancelled, closed or expired.  An attempt under way is never closed.
Close ==
    /\ phase \in {"open", "payable", "manual"}
    /\ phase' = "closed"
    /\ UNCHANGED tried

Next ==
    \/ Attempt
    \/ Succeed
    \/ HandOver
    \/ TakeOver
    \/ Resume
    \/ Settle
    \/ Close

\* An attempt does not stay unresolved: it succeeds or is handed over.
Spec == Init /\ [][Next]_vars /\ WF_vars(phase = "attempting" /\ (Succeed \/ HandOver))
=============================================================================
