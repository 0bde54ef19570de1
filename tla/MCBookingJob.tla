---------------------------- MODULE MCBookingJob ----------------------------
(***************************************************************************)
(* Small instances of BookingJob: two offers of which one is past its      *)
(* cutoff before the window ends, and one request of each kind that the    *)
(* code treats differently.                                                *)
(***************************************************************************)
EXTENDS BookingJob, TLC

CONSTANTS early, late

MCOffers == {early, late}
MCCutoff == (early :> 1) @@ (late :> 3)

Asks(mode, monitorOnly, exact, seats, after) ==
    [mode |-> mode, monitorOnly |-> monitorOnly, exact |-> exact, seats |-> seats,
     after |-> after, before |-> 2]

\* Any departure, from now on; the exact seats of one departure (a request
\* with a fallback does the same except for waiting), later; only watching;
\* the simulation.
MCRequests ==
    {Asks("live", FALSE, FALSE, "none", 0), Asks("live", FALSE, TRUE, "wait", 1),
     Asks("live", TRUE, FALSE, "none", 1), Asks("demo", FALSE, FALSE, "none", 0)}

\* The progress runs: one offer, live and simulated.
OneOffer == {early}
OneCutoff == early :> 2
FewRequests == {Asks("live", FALSE, FALSE, "none", 1), Asks("demo", FALSE, FALSE, "none", 1)}
=============================================================================
