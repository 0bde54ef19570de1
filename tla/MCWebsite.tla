----------------------------- MODULE MCWebsite -----------------------------
(***************************************************************************)
(* Small instances of the four modules of the React front end.  A          *)
(* behaviour is about one of them; the other three rest in one initial     *)
(* state, in which nothing is under way.                                   *)
(***************************************************************************)
EXTENDS Submission, SearchPage, TravelDesk, ProviderView, TLC

CONSTANTS
    Parts,  \* the modules this run is about
    k1, k2, x1, x2, d1, d2, s1, s2, u1, u2, t1, t2, p1

VARIABLE part

\* A bus with seats for one, one with seats for two, and one whose seats the
\* site may not choose.
MCBuses ==
    {[operator |-> "A", type |-> "AC", fare |-> 500, left |-> 1, note |-> FALSE],
     [operator |-> "B", type |-> "Non AC", fare |-> 700, left |-> 2, note |-> FALSE],
     [operator |-> "B", type |-> "AC", fare |-> 900, left |-> 2, note |-> TRUE]}

MCSymmetry == Permutations({k1, k2}) \cup Permutations({x1, x2})

FormRests == mode = "demo" /\ others = 0
PageRests == query.trip = CHOOSE trip \in Trips : TRUE
DeskRests == cookie = Nobody
ViewRests == session = FALSE /\ link = "none" /\ signed = FALSE

Init ==
    /\ part \in Parts
    /\ FormInit /\ PageInit /\ DeskInit /\ ViewInit
    /\ part = "form" \/ FormRests
    /\ part = "search" \/ PageRests
    /\ part = "desk" \/ DeskRests
    /\ part = "view" \/ ViewRests

Form == part = "form" /\ FormNext /\ UNCHANGED <<part, pageVars, deskVars, viewVars>>
Page == part = "search" /\ PageNext /\ UNCHANGED <<part, formVars, deskVars, viewVars>>
Desk == part = "desk" /\ DeskNext /\ UNCHANGED <<part, formVars, pageVars, viewVars>>
View == part = "view" /\ ViewNext /\ UNCHANGED <<part, formVars, pageVars, deskVars>>

vars == <<part, formVars, pageVars, deskVars, viewVars>>

Next == Form \/ Page \/ Desk \/ View

SafetySpec == Init /\ [][Next]_vars

Spec == SafetySpec /\ DeskFairness /\ ViewFairness

\* The type invariants of the four modules.
WebsiteTypeOK == FormTypeOK /\ PageTypeOK /\ DeskTypeOK /\ ViewTypeOK
=============================================================================
