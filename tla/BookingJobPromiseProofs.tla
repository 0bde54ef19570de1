---------------------- MODULE BookingJobPromiseProofs ----------------------
(***************************************************************************)
(* What a booking request promises its owner, for every set of offers and  *)
(* requests, every horizon and every number of stops: how a step may       *)
(* change the stored row (Moves), which makes BookingJob implement the     *)
(* safety part of module Reservation; when a browser is open               *)
(* (SessionInv); and which offer is prepared, and when (OfferInv).  The    *)
(* lock and the copies of the row are those of module BookingJobProofs.    *)
(***************************************************************************)
EXTENDS BookingJobProofs

-----------------------------------------------------------------------------
(* What the stores of the program keep of a row.                           *)

KeepsOffers(c, r) == r.offer = c.offer /\ r.confirmed_offer = c.confirmed_offer
KeepsTried(c, r) == r.reservation_attempted = c.reservation_attempted

LEMMA StatusFields ==
    ASSUME NEW c \in Rows, NEW s
    PROVE  /\ WithStatus(c, s).status = s
           /\ KeepsOffers(c, WithStatus(c, s)) /\ KeepsTried(c, WithStatus(c, s))
BY DEF Rows, WithStatus, KeepsOffers, KeepsTried

LEMMA HandedOverFields ==
    ASSUME NEW c \in Rows
    PROVE  /\ HandedOver(c).status = "NEEDS_ATTENTION"
           /\ KeepsOffers(c, HandedOver(c)) /\ KeepsTried(c, HandedOver(c))
BY DEF Rows, HandedOver, KeepsOffers, KeepsTried

\* A request that is handed over after its error count was cleared.
LEMMA ClearedFields ==
    ASSUME NEW c \in Rows, NEW e
    PROVE  LET r == HandedOver([c EXCEPT !.errors = e])
           IN  r.status = "NEEDS_ATTENTION" /\ KeepsOffers(c, r) /\ KeepsTried(c, r)
BY DEF Rows, HandedOver, KeepsOffers, KeepsTried

LEMMA FailedFields ==
    ASSUME NEW c \in Rows
    PROVE  /\ Failed(c).status \in {c.status, "NEEDS_ATTENTION"}
           /\ KeepsOffers(c, Failed(c)) /\ KeepsTried(c, Failed(c))
<1> DEFINE f == [c EXCEPT !.errors = c.errors + 1]
<1>1. f.status = c.status /\ KeepsOffers(c, f) /\ KeepsTried(c, f)
  BY DEF Rows, KeepsOffers, KeepsTried
<1>2. HandedOver(f).status = "NEEDS_ATTENTION" /\ KeepsOffers(c, HandedOver(f)) /\ KeepsTried(c, HandedOver(f))
  BY ClearedFields
<1> QED
  BY <1>1, <1>2 DEF Failed

LEMMA ExpiredFields ==
    ASSUME NEW c \in Rows, NEW e
    PROVE  /\ Expired(c, e).status = "EXPIRED"
           /\ KeepsOffers(c, Expired(c, e)) /\ KeepsTried(c, Expired(c, e))
BY DEF Rows, Expired, KeepsOffers, KeepsTried

LEMMA ObservedFields ==
    ASSUME NEW c \in Rows, NEW s, NEW o
    PROVE  /\ Observed(c, s, o).status = s /\ Observed(c, s, o).confirmed_offer = o
           /\ Observed(c, s, o).offer = c.offer /\ KeepsTried(c, Observed(c, s, o))
BY DEF Rows, Observed, KeepsTried

LEMMA AttemptFields ==
    ASSUME NEW c \in Rows, NEW o
    PROVE  /\ Attempt(c, o).status = "PREPARING" /\ Attempt(c, o).offer = o
           /\ Attempt(c, o).confirmed_offer = c.confirmed_offer
           /\ Attempt(c, o).reservation_attempted
BY DEF Rows, Attempt

LEMMA PreparedFields ==
    ASSUME NEW c \in Rows, NEW t
    PROVE  /\ Prepared(c, t).status = "AWAITING_PAYMENT"
           /\ KeepsOffers(c, Prepared(c, t)) /\ KeepsTried(c, Prepared(c, t))
BY DEF Rows, Prepared, KeepsOffers, KeepsTried

LEMMA AttemptedFields ==
    ASSUME NEW c \in Rows
    PROVE  /\ Attempted(c) \in Rows
           /\ Attempted(c).status = c.status /\ Attempted(c).reservation_attempted
           /\ KeepsOffers(c, Attempted(c))
BY DEF Rows, Attempted, KeepsOffers

LEMMA ResumedFields ==
    ASSUME NEW c \in Rows
    PROVE  /\ Resumed(c).status = "SCHEDULED" /\ Resumed(c).confirmed_offer = None
           /\ Resumed(c).offer = c.offer /\ KeepsTried(c, Resumed(c))
BY DEF Rows, Resumed, KeepsTried

LEMMA ReviewedFields ==
    ASSUME NEW c \in Rows
    PROVE  /\ c.status = "CONFIRMED" => Reviewed(c) = c
           /\ c.status # "CONFIRMED" => Reviewed(c).status = "NEEDS_ATTENTION"
           /\ KeepsOffers(c, Reviewed(c)) /\ KeepsTried(c, Reviewed(c))
BY HandedOverFields DEF Reviewed, KeepsOffers, KeepsTried

LEMMA RecoveredFields ==
    ASSUME NEW c, RowOK(c)
    PROVE  /\ Recovered(c).status = c.status \/ /\ c.status \in {"PREPARING", "AWAITING_PAYMENT"}
                                                /\ Recovered(c).status = "NEEDS_ATTENTION"
           /\ Live => Recovered(c).status # "AWAITING_PAYMENT"
           /\ KeepsOffers(c, Recovered(c)) /\ KeepsTried(c, Recovered(c))
<1>1. c \in Rows /\ (c.status \in {"PREPARING", "AWAITING_PAYMENT"} => c.reservation_attempted)
  BY DEF RowOK
<1>2. HandedOver(Attempted(c)).status = "NEEDS_ATTENTION"
      /\ KeepsOffers(c, HandedOver(Attempted(c)))
      /\ HandedOver(Attempted(c)).reservation_attempted = TRUE
  BY <1>1, AttemptedFields, HandedOverFields DEF KeepsOffers, KeepsTried, Rows
<1>3. c.reservation_attempted \in BOOLEAN
  BY <1>1 DEF Rows
<1> QED
  BY <1>1, <1>2, <1>3 DEF Recovered, KeepsOffers, KeepsTried

-----------------------------------------------------------------------------
(* Which offer is prepared, and when.                                      *)

\* An offer that row c calls confirmed is that of the last completed
\* observation, in the booking window of a request that books.
Observes(c) ==
    c.confirmed_offer # None =>
        observed = c.confirmed_offer /\ req.after <= now /\ ~req.monitorOnly

\* What the place of the polling task says about the offer it works on.  A
\* preparation is for the stored offer; the row that expire() may store again
\* has seen what the stored row has seen.
OfferPlace ==
    /\ pc["poll"] = "preflight" => SecondObservation(best.offer)
    /\ pc["poll"] \in PreparingPCs =>
         row.offer = best.offer /\ req.after <= now /\ ~req.monitorOnly
    /\ pc["poll"] = "discard" => Observes(copy["poll"])

OfferInv == Observes(row) /\ OfferPlace

\* A step that changes nothing an observation is about.
LEMMA OfferQuiet ==
    ASSUME OfferInv, UNCHANGED <<req, now, observed>>,
           row'.confirmed_offer = row.confirmed_offer,
           pc'["poll"] \notin {"preflight", "discard"} \cup PreparingPCs
    PROVE  OfferInv'
BY DEF OfferInv, Observes, OfferPlace

\* While another actor works the polling task has no copy of the row.
LEMMA PollAsleep ==
    ASSUME IInv, NEW a \in Actors \ {"poll"}, Active(a)
    PROVE  pc["poll"] \in Asleep
BY DEF IInv, LockInv, Locked, Active, Actors

\* expire() of the polling task keeps what the row has seen, in its copy too.
LEMMA ExpiresOffer ==
    ASSUME IInv, OfferInv, row \in Rows, copy["poll"] = row, NEW e, Expires(e),
           UNCHANGED <<req, now, observed>>
    PROVE  OfferInv'
<1>1. /\ KeepsOffers(row, row')
      /\ pc' = [pc EXCEPT !["poll"] = "discard"] /\ copy' = [copy EXCEPT !["poll"] = row]
  BY ExpiredFields DEF Expires, GoesOn
<1>2. pc'["poll"] = "discard" /\ copy'["poll"] = row
  BY <1>1 DEF IInv, LockInv, LockTypes, Actors
<1> QED
  BY <1>1, <1>2 DEF OfferInv, Observes, OfferPlace, KeepsOffers, PreparingPCs

\* A match that is only watched: before the window nothing was confirmed yet,
\* nor is it ever for a request that only monitors.
LEMMA WatchesOffer ==
    ASSUME IInv, OfferInv, row \in Rows, copy["poll"] = row, NEW o \in Offers, OnlyWatches(o),
           UNCHANGED <<req, now>>
    PROVE  OfferInv'
<1>1. PICK s \in MONITORED, c \in {row.confirmed_offer, o} :
        /\ Stores(s, c)
        /\ c = row.confirmed_offer => now < req.after \/ req.monitorOnly
        /\ c # row.confirmed_offer => now >= req.after /\ ~req.monitorOnly
  BY DEF OnlyWatches, MONITORED
<1>2. row'.confirmed_offer = c /\ observed' = o
  BY <1>1, ObservedFields DEF Stores, OnlyWatches
<1>3. pc'["poll"] = "release"
  BY <1>1 DEF Stores, GoesOn, IInv, LockInv, LockTypes, Actors
<1>4. now \in Nat /\ req.after \in Nat
  BY ConstantsAssumption DEF IInv, DataInv, Request
<1>5. Observes(row)'
  <2>1. CASE c = row.confirmed_offer
    BY <1>1, <1>2, <1>4, <2>1 DEF OfferInv, Observes
  <2>2. CASE c # row.confirmed_offer
    BY <1>1, <1>2, <1>4, <2>2 DEF Observes
  <2> QED
    BY <2>1, <2>2
<1> QED
  BY <1>3, <1>5 DEF OfferInv, OfferPlace, PreparingPCs

\* A second observation of offer o is prepared, or comes too late.
LEMMA CommitOffer ==
    ASSUME IInv, OfferInv, row \in Rows, copy["poll"] = row, best \in [offer: Offers, at: Nat],
           SecondObservation(best.offer), Commits(best.offer), UNCHANGED <<req, now, observed>>
    PROVE  OfferInv'
<1>1. CASE now >= Deadline(best.offer)
  BY <1>1, ExpiresOffer DEF Commits
<1>2. CASE ~(now >= Deadline(best.offer))
  <2>1. row' = Attempt(row, best.offer) /\ GoesOn("poll", "persisted", row') /\ UNCHANGED best
    BY <1>2 DEF Commits
  <2>2. row'.offer = best.offer /\ row'.confirmed_offer = row.confirmed_offer
    BY <2>1, AttemptFields
  <2>3. pc'["poll"] = "persisted"
    BY <2>1 DEF GoesOn, IInv, LockInv, LockTypes, Actors
  <2>4. Observes(row)'
    BY <2>2 DEF OfferInv, Observes
  <2> QED
    BY <2>1, <2>2, <2>3, <2>4 DEF OfferInv, OfferPlace, PreparingPCs, SecondObservation
<1> QED
  BY <1>1, <1>2

\* The polling task keeps it.
LEMMA PollOffer ==
    ASSUME IInv, OfferInv, PollStep
    PROVE  OfferInv'
<1> USE DEF Actors, PCs, Asleep, PreparingPCs
<1>0. pc \in [Actors -> PCs] /\ copy \in [Actors -> Rows \cup {None}] /\ row \in Rows
  BY DEF IInv, LockInv, LockTypes, DataInv, RowOK
<1>1. CASE PollAsks
  BY <1>0, <1>1, OfferQuiet DEF PollAsks, Ask, server_vars, ghost_vars
<1>2. CASE PollSkips \/ PrepareEnds \/ Notes("poll") \/ Releases("poll") \/ Discards("poll")
  <2>1. UNCHANGED <<req, now, observed, row>> /\ pc' = [pc EXCEPT !["poll"] = "idle"]
    BY <1>2 DEF PollSkips, PrepareEnds, Notes, Releases, Discards, Leave, server_vars, ghost_vars
  <2> QED
    BY <1>0, <2>1, OfferQuiet
<1>3. CASE PollOpens
  BY <1>0, <1>3, OfferQuiet DEF PollOpens, GoesOn, server_vars, ghost_vars
<1>4. CASE PollCannotRestore \/ PollNeedsAttention \/ PrepareFails
  <2>1. copy["poll"] = row
    BY <1>4, AtWork DEF PollCannotRestore, PollGoesAhead, PollNeedsAttention, PrepareFails
  <2>2. KeepsOffers(row, row')
    BY <1>0, <1>4, <2>1, HandedOverFields, ClearedFields
       DEF PollCannotRestore, PollNeedsAttention, PrepareFails
  <2>3. UNCHANGED <<req, now, observed>> /\ pc'["poll"] = "note"
    BY <1>0, <1>4
       DEF PollCannotRestore, PollNeedsAttention, PrepareFails, GoesOn, server_vars, ghost_vars
  <2> QED
    BY <2>2, <2>3, OfferQuiet DEF KeepsOffers
<1>5. CASE PollFindsBusy
  BY <1>0, <1>5, AtWork, OfferQuiet DEF PollFindsBusy, GoesOn, server_vars, ghost_vars
<1>6. CASE PollFails
  <2>1. copy["poll"] = row
    BY <1>6, AtWork DEF PollFails
  <2>2. KeepsOffers(row, row')
    BY <1>0, <1>6, <2>1, FailedFields DEF PollFails
  <2>3. UNCHANGED <<req, now, observed>> /\ pc'["poll"] \in {"release", "idle"}
    BY <1>0, <1>6 DEF PollFails, EndsPoll, GoesOn, Leave, server_vars, ghost_vars
  <2> QED
    BY <2>2, <2>3, OfferQuiet DEF KeepsOffers
<1>7. CASE PollFindsWindowOver
  BY <1>0, <1>7, AtWork, ExpiresOffer DEF PollFindsWindowOver, server_vars, ghost_vars
<1>8. CASE PollExpires
  BY <1>0, <1>8, AtWork, ExpiresOffer DEF PollExpires, SearchReturns, server_vars
<1>9. CASE PollFindsNothing \/ PollLacksSeats
  <2>1. copy["poll"] = row /\ UNCHANGED <<req, now>>
    BY <1>9, AtWork DEF PollFindsNothing, SearchReturns, PollLacksSeats, server_vars
  <2>2. PICK s : Stores(s, None)
    BY <1>9 DEF PollFindsNothing, PollLacksSeats
  <2>3. row'.confirmed_offer = None /\ pc'["poll"] = "release"
    BY <1>0, <2>1, <2>2, ObservedFields DEF Stores, GoesOn
  <2> QED
    BY <2>3 DEF OfferInv, Observes, OfferPlace
<1>10. CASE \E o \in Offers : PollPicks(o)
  <2>1. PICK o \in Offers : PollPicks(o)
    BY <1>10
  <2>2. copy["poll"] = row /\ UNCHANGED <<req, now>>
    BY <2>1, AtWork DEF PollPicks, SearchReturns, server_vars
  <2>3. CASE req.seats # "none" \/ SecondObservation(o)
    <3>1. /\ UNCHANGED <<row, observed>> /\ best'.offer = o
          /\ pc'["poll"] = IF req.seats # "none" THEN "seatmap" ELSE "preflight"
      BY <1>0, <2>1, <2>3 DEF PollPicks, GoesOn
    <3>2. CASE req.seats # "none"
      BY <2>2, <3>1, <3>2, OfferQuiet
    <3>3. CASE req.seats = "none"
      <4>1. SecondObservation(best.offer)' /\ Observes(row)'
        BY <2>2, <2>3, <3>1, <3>3, <1>0, <2>1
           DEF OfferInv, Observes, SecondObservation, PollPicks, GoesOn
      <4> QED
        BY <3>1, <3>3, <4>1 DEF OfferInv, OfferPlace
    <3> QED
      BY <3>2, <3>3
  <2>4. CASE ~(req.seats # "none" \/ SecondObservation(o))
    BY <1>0, <2>1, <2>2, <2>4, WatchesOffer DEF PollPicks
  <2> QED
    BY <2>3, <2>4
<1>11. CASE PollReadsSeatMap
  <2>1. /\ copy["poll"] = row /\ UNCHANGED <<req, now>> /\ best \in [offer: Offers, at: Nat]
    BY <1>11, AtWork DEF PollReadsSeatMap, Fits, PollFits, server_vars
  <2>2. PICK o \in Offers : o = best.offer
    BY <2>1
  <2>3. \/ SecondObservation(best.offer) /\ Commits(best.offer) /\ UNCHANGED observed
        \/ OnlyWatches(o)
    BY <1>11, <2>2, Zenon DEF PollReadsSeatMap
  <2> QED
    BY <1>0, <2>1, <2>3, WatchesOffer, CommitOffer
<1>12. CASE PollPreflights
  <2>1. /\ copy["poll"] = row /\ UNCHANGED <<req, now, observed>> /\ best \in [offer: Offers, at: Nat]
        /\ SecondObservation(best.offer)
    BY <1>12, AtWork
       DEF PollPreflights, Fits, PollFits, OfferInv, OfferPlace, At, server_vars, ghost_vars
  <2>2. Commits(best.offer)
    BY <1>12 DEF PollPreflights
  <2> QED
    BY <1>0, <2>1, <2>2, CommitOffer
<1>13. CASE PrepareBegins \/ PrepareSelectsSeats \/ PrepareProceeds \/ PrepareSucceeds
  <2>1. /\ copy["poll"] = row /\ pc["poll"] \in PreparingPCs
        /\ UNCHANGED <<req, now, observed, best>>
    BY <1>13, AtWork
       DEF PrepareBegins, PrepareSelectsSeats, PrepareProceeds, PrepareSucceeds, At, server_vars,
           ghost_vars
  <2>2. KeepsOffers(row, row')
    BY <1>0, <1>13, <2>1, PreparedFields
       DEF PrepareBegins, PrepareSelectsSeats, PrepareProceeds, PrepareSucceeds, KeepsOffers,
           ghost_vars
  <2>3. pc'["poll"] \in PreparingPCs
    BY <1>0, <1>13
       DEF PrepareBegins, PrepareSelectsSeats, PrepareProceeds, PrepareSucceeds, GoesOn
  <2> QED
    BY <2>1, <2>2, <2>3 DEF OfferInv, Observes, OfferPlace, KeepsOffers
<1>14. CASE InspectConfirms("poll") \/ PollAwaitsPayment
  <2>1. copy["poll"] = row /\ UNCHANGED <<req, now, observed>>
    BY <1>14, AtWork DEF InspectConfirms, PollAwaitsPayment, server_vars, ghost_vars
  <2>2. KeepsOffers(row, row') /\ pc'["poll"] \in {"note", "idle"}
    BY <1>0, <1>14, <2>1, StatusFields DEF InspectConfirms, PollAwaitsPayment, GoesOn, Leave
  <2> QED
    BY <2>1, <2>2, OfferQuiet DEF KeepsOffers
<1>15. CASE PollFindsPaymentOver
  <2>1. copy["poll"] = row /\ UNCHANGED <<req, now, observed>>
    BY <1>15, AtWork DEF PollFindsPaymentOver, server_vars, ghost_vars
  <2>2. CASE Live
    <3>1. KeepsOffers(row, row') /\ pc'["poll"] = "note"
      BY <1>0, <1>15, <2>1, <2>2, HandedOverFields DEF PollFindsPaymentOver, GoesOn
    <3> QED
      BY <2>1, <3>1, OfferQuiet DEF KeepsOffers
  <2>3. CASE ~Live
    BY <1>0, <1>15, <2>1, <2>3, ExpiresOffer DEF PollFindsPaymentOver
  <2> QED
    BY <2>2, <2>3
<1>16. CASE PollDiscardFails
  <2>1. pc["poll"] = "discard" /\ copy["poll"] \in Rows
    BY <1>16, AtWork DEF PollDiscardFails
  <2>2. /\ row' = Failed(copy["poll"]) /\ UNCHANGED <<req, now, observed>>
        /\ pc'["poll"] = "idle"
    BY <1>0, <1>16 DEF PollDiscardFails, Leave, server_vars, ghost_vars
  <2>3. KeepsOffers(copy["poll"], row')
    BY <2>1, <2>2, FailedFields
  <2> QED
    BY <2>1, <2>2, <2>3 DEF OfferInv, Observes, OfferPlace, KeepsOffers
<1> QED
  BY <1>1, <1>2, <1>3, <1>4, <1>5, <1>6, <1>7, <1>8, <1>9, <1>10, <1>11, <1>12, <1>13, <1>14,
     <1>15, <1>16 DEF PollStep

\* So does everybody else: nobody changes what was observed but an owner who
\* resumes, and who thereby starts over.
LEMMA OthersOffer ==
    ASSUME IInv, OfferInv, [Next]_vars, ~PollStep
    PROVE  OfferInv'
<1> USE DEF Actors, PCs, Asleep, PreparingPCs
<1>0. pc \in [Actors -> PCs] /\ copy \in [Actors -> Rows \cup {None}] /\ row \in Rows
  BY DEF IInv, LockInv, LockTypes, DataInv, RowOK
<1>1. CASE ActionArrives \/ BrowserArrives \/ SweepStarts
  <2>1. UNCHANGED <<req, now, observed, row, best>>
        /\ \E a \in Actors \ {"poll"} : Ask(a)
    BY <1>1 DEF ActionArrives, BrowserArrives, SweepStarts, server_vars, ghost_vars
  <2>2. pc'["poll"] = pc["poll"] /\ copy'["poll"] = copy["poll"]
    BY <1>0, <2>1 DEF Ask
  <2> QED
    BY <2>1, <2>2 DEF OfferInv, Observes, OfferPlace, SecondObservation
<1>2. CASE ActionStep
  <2>1. PICK label \in PCs \ Asleep : At("action", label)
    BY <1>2
       DEF ActionStep, ActionRefused, Pause, Resume, Cancel, DemoPay, Close, ReconnectStarts,
           ReconnectFindsNothing, ReconnectRestores, ReconnectFails, InspectConfirms,
           ReconnectUnconfirmed, ReconnectInspectionFails, Notes, Releases, Discards,
           ActionDiscardFails
  <2>2. pc["poll"] \in Asleep
    BY <2>1, AtWork, PollAsleep
  <2>3. pc'["poll"] = pc["poll"]
    BY <1>0, <1>2
       DEF ActionStep, ActionRefused, Pause, Resume, Cancel, DemoPay, Close, ReconnectStarts,
           ReconnectFindsNothing, ReconnectRestores, ReconnectFails, InspectConfirms,
           ReconnectUnconfirmed, ReconnectInspectionFails, Notes, Releases, Discards,
           ActionDiscardFails, ActionStores, GoesOn, Leave
  <2>4. CASE Resume
    <3>1. row' = Resumed(copy["action"]) /\ copy["action"] \in Rows /\ UNCHANGED <<req, now>>
      BY <2>4, AtWork DEF Resume, ActionStores, server_vars
    <3>2. row'.confirmed_offer = None
      BY <3>1, ResumedFields
    <3> QED
      BY <2>2, <2>3, <3>2 DEF OfferInv, Observes, OfferPlace
  <2>5. CASE ~Resume
    <3>1. UNCHANGED <<req, now, observed>>
      BY <1>2, <2>5
         DEF ActionStep, ActionRefused, Pause, Cancel, DemoPay, Close, ReconnectStarts,
             ReconnectFindsNothing, ReconnectRestores, ReconnectFails, InspectConfirms,
             ReconnectUnconfirmed, ReconnectInspectionFails, Notes, Releases, Discards,
             ActionDiscardFails, ActionStores, server_vars, ghost_vars
    <3>2. CASE UNCHANGED row
      BY <2>2, <2>3, <3>1, <3>2, OfferQuiet
    <3>3. CASE Pause \/ Cancel \/ DemoPay \/ Close \/ InspectConfirms("action") \/ ReconnectUnconfirmed
      <4>1. copy["action"] = row
        BY <3>3, AtWork DEF Pause, Cancel, DemoPay, Close, InspectConfirms, ReconnectUnconfirmed
      <4>2. KeepsOffers(row, row')
        BY <1>0, <3>3, <4>1, StatusFields, ReviewedFields
           DEF Pause, Cancel, DemoPay, Close, InspectConfirms, ReconnectUnconfirmed, ActionStores,
               KeepsOffers
      <4> QED
        BY <2>2, <2>3, <3>1, <4>2, OfferQuiet DEF KeepsOffers
    <3> QED
      BY <1>2, <2>5, <3>2, <3>3
         DEF ActionStep, ActionRefused, ReconnectStarts, ReconnectFindsNothing,
             ReconnectRestores, ReconnectFails, ReconnectInspectionFails, Notes, Releases,
             Discards, ActionDiscardFails
  <2> QED
    BY <2>4, <2>5
<1>3. CASE BrowserStep
  <2>1. PICK label \in PCs \ Asleep : At("browser", label)
    BY <1>3
       DEF BrowserStep, BrowserRefused, BrowserStarts, GestureIsVerification, GestureMaySelect,
           GestureMade, BrowserEnds, GestureConfirms, GestureUnconfirmed
  <2>2. pc["poll"] \in Asleep
    BY <2>1, AtWork, PollAsleep
  <2>3. pc'["poll"] = pc["poll"] /\ UNCHANGED <<req, now, observed>>
    BY <1>0, <1>3
       DEF BrowserStep, BrowserRefused, BrowserStarts, GestureIsVerification, GestureMaySelect,
           GestureMade, BrowserEnds, GestureConfirms, GestureUnconfirmed, GoesOn, Leave,
           server_vars, ghost_vars
  <2>4. CASE UNCHANGED row
    BY <2>2, <2>3, <2>4, OfferQuiet
  <2>5. CASE GestureMaySelect \/ GestureConfirms
    <3>1. copy["browser"] = row
      BY <2>5, AtWork DEF GestureMaySelect, GestureConfirms
    <3>2. KeepsOffers(row, row')
      BY <1>0, <2>5, <3>1, StatusFields, AttemptedFields DEF GestureMaySelect, GestureConfirms
    <3> QED
      BY <2>2, <2>3, <3>2, OfferQuiet DEF KeepsOffers
  <2> QED
    BY <1>3, <2>4, <2>5
       DEF BrowserStep, BrowserRefused, BrowserStarts, GestureIsVerification, GestureMade,
           BrowserEnds, GestureUnconfirmed
<1>4. CASE SweepStep
  <2>1. PICK label \in PCs \ Asleep : At("sweep", label)
    BY <1>4 DEF SweepStep, Sweeps, Releases, SweepDies
  <2>2. pc["poll"] \in Asleep
    BY <2>1, AtWork, PollAsleep
  <2>3. pc'["poll"] = pc["poll"] /\ UNCHANGED <<req, now, observed>>
    BY <1>0, <1>4 DEF SweepStep, Sweeps, Releases, SweepDies, GoesOn, Leave, server_vars, ghost_vars
  <2>4. row'.confirmed_offer = row.confirmed_offer
    <3>1. CASE Sweeps
      BY <1>0, <3>1, AtWork, HandedOverFields DEF Sweeps, KeepsOffers
    <3> QED
      BY <1>4, <3>1 DEF SweepStep, Releases, SweepDies
  <2> QED
    BY <2>2, <2>3, <2>4, OfferQuiet
<1>5. CASE Grant \/ Spawn
  <2>1. UNCHANGED <<req, now, observed, row, best>>
    BY <1>5 DEF Grant, Spawn, server_vars, ghost_vars
  <2>2. \/ pc'["poll"] \in {"start", "locked"}
        \/ pc'["poll"] = pc["poll"] /\ copy'["poll"] = copy["poll"]
    BY <1>0, <1>5 DEF Grant, Spawn
  <2> QED
    BY <2>1, <2>2 DEF OfferInv, Observes, OfferPlace, SecondObservation
<1>6. CASE Tick
  <2>1. now' = now + 1 /\ now \in Nat /\ req.after \in Nat
    BY <1>6, ConstantsAssumption DEF Tick, IInv, DataInv, Request
  <2>2. UNCHANGED <<req, observed, row, pc, copy, best>>
    BY <1>6 DEF Tick, lock_vars, ghost_vars
  <2> QED
    BY <2>1, <2>2 DEF OfferInv, Observes, OfferPlace, SecondObservation
<1>7. CASE Stop \/ Shutdown
  <2>1. UNCHANGED <<req, now, observed, row, pc, copy, best>>
    BY <1>7 DEF Stop, Shutdown, lock_vars, ghost_vars
  <2> QED
    BY <2>1 DEF OfferInv, Observes, OfferPlace, SecondObservation
<1>8. CASE Crash
  BY <1>8, OfferQuiet DEF Crash, ghost_vars
<1>9. CASE Restart
  <2>1. pc["poll"] = "idle" /\ UNCHANGED <<req, now, observed, pc>> /\ row' = Recovered(row)
    BY <1>9 DEF Restart, IInv, LockInv, Quiet, lock_vars, ghost_vars
  <2>2. KeepsOffers(row, row')
    BY <2>1, RecoveredFields DEF IInv, DataInv
  <2> QED
    BY <2>1, <2>2, OfferQuiet DEF KeepsOffers
<1>10. ASSUME NEW a \in {"poll", "sweep"}, TaskCancelled(a) PROVE OfferInv'
  <2>1. UNCHANGED <<req, now, observed>>
    BY <1>10 DEF TaskCancelled, server_vars, ghost_vars
  <2>2. CASE CancelledBeforeLock(a)
    <3>1. UNCHANGED <<row, copy, best>> /\ pc' = [pc EXCEPT ![a] = "idle"]
      BY <2>2 DEF CancelledBeforeLock
    <3> QED
      BY <1>0, <2>1, <3>1 DEF OfferInv, Observes, OfferPlace, SecondObservation
  <2>3. CASE ~CancelledBeforeLock(a)
    <3>1. Active(a)
      BY <1>10, <2>3
         DEF TaskCancelled, CancelledPreparing, CancelledSearching, CancelledAtEnd, Active
    <3>2. pc'["poll"] \in {"note", "release", "idle"} \cup Asleep
      BY <1>0, <1>10, <2>3, <3>1, PollAsleep
         DEF TaskCancelled, CancelledPreparing, CancelledSearching, CancelledAtEnd, GoesOn, Leave
    <3>3. CASE CancelledPreparing(a)
      <4>1. copy[a] = row
        BY <3>1, <3>3 DEF CancelledPreparing, IInv, WorkInv, Fits
      <4>2. KeepsOffers(row, row')
        BY <1>0, <3>3, <4>1, HandedOverFields DEF CancelledPreparing
      <4> QED
        BY <2>1, <3>2, <4>2, OfferQuiet DEF KeepsOffers
    <3>4. CASE ~CancelledPreparing(a)
      <4>1. UNCHANGED row
        BY <1>10, <2>3, <3>4 DEF TaskCancelled, CancelledSearching, CancelledAtEnd
      <4> QED
        BY <2>1, <3>2, <4>1, OfferQuiet
    <3> QED
      BY <3>3, <3>4
  <2> QED
    BY <2>2, <2>3
<1>11. CASE UNCHANGED vars
  BY <1>11 DEF vars, OfferInv, Observes, OfferPlace, SecondObservation
<1> QED
  BY <1>1, <1>2, <1>3, <1>4, <1>5, <1>6, <1>7, <1>8, <1>9, <1>10, <1>11 DEF Next, ServerStep

LEMMA OfferInvariant == SafetySpec => []OfferInv
<1>1. Init => OfferInv
  BY DEF Init, OfferInv, Observes, OfferPlace, PreparingPCs, Actors
<1>2. IInv /\ OfferInv /\ [Next]_vars => OfferInv'
  BY PollOffer, OthersOffer
<1> QED
  BY <1>1, <1>2, Inductive, PTL DEF SafetySpec

-----------------------------------------------------------------------------
(* The way of a sweep.                                                     *)

\* A sweep is nowhere but on its short way.
SweepRoute == pc["sweep"] \in {"idle", "wait", "locked", "release"}

LEMMA SweepRouteStep ==
    ASSUME IInv, SweepRoute, [Next]_vars
    PROVE  SweepRoute'
<1> USE DEF Actors
<1>0. pc \in [Actors -> PCs]
  BY DEF IInv, LockInv, LockTypes
<1>1. CASE PollStep
  <2>1. pc'["sweep"] = pc["sweep"]
    BY <1>0, <1>1
       DEF PollStep, PollAsks, PollSkips, PollFindsWindowOver, PollOpens, PollCannotRestore,
           PollFindsBusy, PollFails, PollNeedsAttention, PollExpires, PollFindsNothing, PollPicks,
           PollLacksSeats, PollReadsSeatMap, PollPreflights, PrepareBegins, PrepareSelectsSeats,
           PrepareProceeds, PrepareSucceeds, PrepareFails, PrepareEnds, InspectConfirms,
           PollFindsPaymentOver, PollAwaitsPayment, Notes, Releases, Discards, PollDiscardFails,
           Ask, GoesOn, Leave, EndsPoll, Expires, Stores, OnlyWatches, Commits
  <2> QED
    BY <2>1 DEF SweepRoute
<1>2. CASE ActionArrives \/ ActionStep
  <2>1. pc'["sweep"] = pc["sweep"]
    BY <1>0, <1>2
       DEF ActionArrives, ActionStep, ActionRefused, Pause, Resume, Cancel, DemoPay, Close,
           ReconnectStarts, ReconnectFindsNothing, ReconnectRestores, ReconnectFails,
           InspectConfirms, ReconnectUnconfirmed, ReconnectInspectionFails, Notes, Releases,
           Discards, ActionDiscardFails, ActionStores, Ask, GoesOn, Leave
  <2> QED
    BY <2>1 DEF SweepRoute
<1>3. CASE BrowserArrives \/ BrowserStep
  <2>1. pc'["sweep"] = pc["sweep"]
    BY <1>0, <1>3
       DEF BrowserArrives, BrowserStep, BrowserRefused, BrowserStarts, GestureIsVerification,
           GestureMaySelect, GestureMade, BrowserEnds, GestureConfirms, GestureUnconfirmed,
           Ask, GoesOn, Leave
  <2> QED
    BY <2>1 DEF SweepRoute
<1>4. CASE SweepStarts \/ SweepStep
  BY <1>0, <1>4 DEF SweepStarts, SweepStep, Sweeps, Releases, SweepDies, Ask, GoesOn, Leave, SweepRoute
<1>5. CASE Grant
  <2>1. pc'["sweep"] \in {pc["sweep"], "locked"}
    BY <1>0, <1>5 DEF Grant
  <2> QED
    BY <2>1 DEF SweepRoute
<1>6. CASE Spawn \/ Crash
  BY <1>0, <1>6 DEF Spawn, Crash, SweepRoute
<1>7. CASE Tick \/ Stop \/ Shutdown \/ Restart \/ UNCHANGED vars
  BY <1>7 DEF Tick, Stop, Shutdown, Restart, lock_vars, vars, SweepRoute
<1>8. ASSUME NEW a \in {"poll", "sweep"}, TaskCancelled(a) PROVE SweepRoute'
  BY <1>0, <1>8
     DEF TaskCancelled, CancelledBeforeLock, CancelledPreparing, CancelledSearching,
         CancelledAtEnd, GoesOn, Leave, SweepRoute, PreparingPCs
<1> QED
  BY <1>1, <1>2, <1>3, <1>4, <1>5, <1>6, <1>7, <1>8 DEF Next, ServerStep

-----------------------------------------------------------------------------
(* How a step may change the stored row.                                   *)

Watched == MONITORED \cup {"PAUSED"}
SameTried == KeepsTried(row, row')

\* Only a request that waits for its first attempt is prepared, and only for
\* the offer it has seen before.
MovesToAttempt ==
    /\ row.status \in MONITORED /\ row'.status = "PREPARING"
    /\ row'.reservation_attempted
    /\ row'.offer \in Offers /\ row'.offer = row.confirmed_offer

\* A person takes over from the automation; never the other way, except
\* for a request nothing was attempted for.
MovesByHand ==
    \/ /\ row.status \in MONITORED \cup {"PREPARING", "AWAITING_PAYMENT"}
       /\ row'.status = "NEEDS_ATTENTION" /\ SameTried
    \/ /\ row.status \in MANUAL /\ row'.status = row.status /\ row'.reservation_attempted = TRUE
    \/ /\ row.status = "NEEDS_ATTENTION" /\ ~row.reservation_attempted
       /\ row'.status = "SCHEDULED" /\ SameTried

\* A request ends: paid for, with seats that may have been selected, or closed.
MovesToEnd ==
    \/ /\ row.status \in {"AWAITING_PAYMENT", "NEEDS_ATTENTION"} /\ row'.status = "CONFIRMED"
       /\ SameTried /\ (LoginFrameStable => row.reservation_attempted)
    \/ /\ row.status \in Watched \cup {"AWAITING_PAYMENT", "NEEDS_ATTENTION"}
       /\ row'.status \in {"CANCELLED", "EXPIRED"} /\ SameTried

\* The only way back from an end: expire() whose close() raises.
MovesBack ==
    /\ CloseFaults /\ row.status = "EXPIRED"
    /\ row'.status \in MONITORED \cup {"NEEDS_ATTENTION", "AWAITING_PAYMENT"}

Moves ==
    /\ \/ row'.status = row.status /\ SameTried
       \/ row.status \in Watched /\ row'.status \in Watched /\ SameTried
       \/ MovesToAttempt
       \/ row.status = "PREPARING" /\ row'.status = "AWAITING_PAYMENT" /\ SameTried
       \/ MovesByHand
       \/ MovesToEnd
       \/ MovesBack
    /\ row.status = "PAUSED" => row'.status = "PAUSED" \/ pc["action"] = "locked"

\* Storing what the task only watched.
LEMMA StoresMoves ==
    ASSUME row \in Rows, row.status \in MONITORED, copy["poll"] = row,
           NEW s \in MONITORED, NEW o, Stores(s, o)
    PROVE  Moves
<1>1. row'.status = s /\ SameTried
  BY ObservedFields DEF Stores, SameTried
<1> QED
  BY <1>1 DEF Moves, Watched, MONITORED

LEMMA WatchesMoves ==
    ASSUME row \in Rows, row.status \in MONITORED, copy["poll"] = row,
           NEW o, OnlyWatches(o)
    PROVE  Moves
<1>1. PICK s \in MONITORED : \E c : Stores(s, c)
  BY DEF OnlyWatches, MONITORED
<1> QED
  BY <1>1, StoresMoves

\* expire() of a request that is watched or waits for its payment.
LEMMA ExpiresMoves ==
    ASSUME row \in Rows, Due(row), copy["poll"] = row, NEW e, Expires(e)
    PROVE  Moves
<1>1. row'.status = "EXPIRED" /\ SameTried
  BY ExpiredFields DEF Expires, SameTried
<1> QED
  BY <1>1 DEF Moves, MovesToEnd, Due, Watched, MONITORED

\* The second observation of an offer is prepared, or comes too late.
LEMMA CommitMoves ==
    ASSUME row \in Rows, row.status \in MONITORED, copy["poll"] = row,
           NEW o \in Offers, SecondObservation(o), Commits(o)
    PROVE  Moves
<1>1. CASE now >= Deadline(o)
  BY <1>1, ExpiresMoves DEF Commits, Due
<1>2. CASE ~(now >= Deadline(o))
  <2>1. row' = Attempt(row, o)
    BY <1>2 DEF Commits
  <2>2. row'.status = "PREPARING" /\ row'.offer = o /\ row'.reservation_attempted
    BY <2>1, AttemptFields
  <2> QED
    BY <2>2 DEF SecondObservation, Moves, MovesToAttempt, MONITORED
<1> QED
  BY <1>1, <1>2

\* The polling task works on a request that is due, and has its current row.
LEMMA PollMoves ==
    ASSUME IInv, OfferInv, PollStep
    PROVE  Moves
<1> USE DEF Actors, PCs, Asleep, PreparingPCs
<1>0. row \in Rows
  BY DEF IInv, DataInv, RowOK
<1>1. CASE \/ PollAsks \/ PollSkips \/ PollOpens \/ PollFindsBusy \/ PrepareBegins
           \/ PrepareSelectsSeats \/ PrepareProceeds \/ PrepareEnds
           \/ Notes("poll") \/ Releases("poll") \/ Discards("poll")
  <2>1. UNCHANGED row
    BY <1>1, AtWork
       DEF PollAsks, PollSkips, PollOpens, PollFindsBusy, PrepareBegins, PrepareSelectsSeats,
           PrepareProceeds, PrepareEnds, Notes, Releases, Discards
  <2> QED
    BY <2>1 DEF Moves, SameTried, KeepsTried
<1>2. CASE PollCannotRestore \/ PollNeedsAttention \/ PrepareFails \/ (PollFindsPaymentOver /\ Live)
  <2>1. copy["poll"] = row /\ row.status \in MONITORED \cup {"PREPARING", "AWAITING_PAYMENT"}
    BY <1>2, AtWork
       DEF PollCannotRestore, PollGoesAhead, PollNeedsAttention, PrepareFails,
           PollFindsPaymentOver, Fits, PollFits
  <2>2. row'.status = "NEEDS_ATTENTION" /\ SameTried
    BY <1>0, <1>2, <2>1, HandedOverFields, ClearedFields
       DEF PollCannotRestore, PollNeedsAttention, PrepareFails, PollFindsPaymentOver, SameTried
  <2> QED
    BY <2>1, <2>2 DEF Moves, MovesByHand, MONITORED
<1>3. CASE PollFails
  <2>1. copy["poll"] = row /\ row.status \in MONITORED \cup {"AWAITING_PAYMENT"}
    BY <1>3, AtWork DEF PollFails, Fits, PollFits
  <2>2. row'.status \in {row.status, "NEEDS_ATTENTION"} /\ SameTried
    BY <1>0, <1>3, <2>1, FailedFields DEF PollFails, SameTried
  <2> QED
    BY <2>1, <2>2 DEF Moves, MovesByHand, MONITORED
<1>4. CASE PollFindsWindowOver \/ PollExpires \/ (PollFindsPaymentOver /\ ~Live)
  <2>1. copy["poll"] = row /\ Due(row)
    BY <1>4, AtWork
       DEF PollFindsWindowOver, PollExpires, SearchReturns, PollFindsPaymentOver, Fits, PollFits, Due
  <2>2. \E e : Expires(e)
    BY <1>4 DEF PollFindsWindowOver, PollExpires, PollFindsPaymentOver
  <2> QED
    BY <1>0, <2>1, <2>2, ExpiresMoves
<1>5. CASE PollFindsNothing \/ PollLacksSeats
  <2>1. copy["poll"] = row /\ row.status \in MONITORED
    BY <1>5, AtWork DEF PollFindsNothing, SearchReturns, PollLacksSeats, Fits, PollFits
  <2>2. \E s \in MONITORED : Stores(s, None)
    BY <1>5 DEF PollFindsNothing, PollLacksSeats, Watching, MONITORED
  <2> QED
    BY <1>0, <2>1, <2>2, StoresMoves
<1>6. CASE \E o \in Offers : PollPicks(o)
  <2>1. PICK o \in Offers : PollPicks(o)
    BY <1>6
  <2>2. copy["poll"] = row /\ row.status \in MONITORED
    BY <2>1, AtWork DEF PollPicks, SearchReturns, Fits, PollFits
  <2>3. UNCHANGED row \/ OnlyWatches(o)
    BY <2>1 DEF PollPicks
  <2> QED
    BY <1>0, <2>2, <2>3, WatchesMoves DEF Moves, SameTried, KeepsTried
<1>7. CASE PollReadsSeatMap \/ PollPreflights
  <2>1. /\ copy["poll"] = row /\ row.status \in MONITORED /\ best \in [offer: Offers, at: Nat]
    BY <1>7, AtWork DEF PollReadsSeatMap, PollPreflights, Fits, PollFits
  <2>2. PICK o \in Offers : o = best.offer
    BY <2>1
  <2>3. (SecondObservation(o) /\ Commits(o)) \/ OnlyWatches(o)
    BY <1>7, <2>2 DEF PollReadsSeatMap, PollPreflights, OfferInv, OfferPlace, At
  <2> QED
    BY <1>0, <2>1, <2>3, WatchesMoves, CommitMoves
<1>8. CASE PrepareSucceeds
  <2>1. copy["poll"] = row /\ row.status = "PREPARING"
    BY <1>8, AtWork DEF PrepareSucceeds, Fits, PollFits
  <2>2. row'.status = "AWAITING_PAYMENT" /\ SameTried
    BY <1>0, <1>8, <2>1, PreparedFields DEF PrepareSucceeds, SameTried
  <2> QED
    BY <2>1, <2>2 DEF Moves
<1>9. CASE InspectConfirms("poll") \/ PollAwaitsPayment
  <2>1. copy["poll"] = row /\ row.status = "AWAITING_PAYMENT" /\ row.reservation_attempted
    BY <1>9, AtWork DEF InspectConfirms, PollAwaitsPayment, Fits, PollFits, RowOK
  <2>2. row'.status \in {"AWAITING_PAYMENT", "CONFIRMED"} /\ SameTried
    BY <1>0, <1>9, <2>1, StatusFields DEF InspectConfirms, PollAwaitsPayment, SameTried
  <2> QED
    BY <2>1, <2>2 DEF Moves, MovesToEnd
<1>10. CASE PollDiscardFails
  <2>1. /\ CloseFaults /\ row.status = "EXPIRED"
        /\ copy["poll"] \in Rows /\ copy["poll"].status \in MONITORED \cup {"AWAITING_PAYMENT"}
    BY <1>10, AtWork DEF PollDiscardFails, CloseRaises, Fits, PollFits, Due
  <2>2. row'.status \in {copy["poll"].status, "NEEDS_ATTENTION"}
    BY <1>10, <2>1, FailedFields DEF PollDiscardFails
  <2> QED
    BY <2>1, <2>2 DEF Moves, MovesBack
<1>11. CASE PollFindsPaymentOver
  BY <1>2, <1>4, <1>11
<1> HIDE DEF Actors, PCs, Asleep, PreparingPCs
<1> QED
  BY <1>1, <1>2, <1>3, <1>4, <1>5, <1>6, <1>7, <1>8, <1>9, <1>10, <1>11 DEF PollStep

\* So does the owner, who may also pause, resume and close it.
LEMMA ActionMoves ==
    ASSUME IInv, ActionStep
    PROVE  Moves
<1> USE DEF Actors, PCs, Asleep, PreparingPCs
<1>0. row \in Rows
  BY DEF IInv, DataInv, RowOK
<1>1. CASE UNCHANGED row
  BY <1>1 DEF Moves, SameTried, KeepsTried
<1>2. CASE Pause \/ Resume \/ Cancel
  <2>1. copy["action"] = row /\ pc["action"] = "locked"
    BY <1>2, AtWork DEF Pause, Resume, Cancel
  <2>2. CASE Pause
    BY <1>0, <2>1, <2>2, StatusFields
       DEF Pause, MayPause, ActionStores, Moves, SameTried, Watched, MONITORED
  <2>3. CASE Cancel
    BY <1>0, <2>1, <2>3, StatusFields
       DEF Cancel, MayCancel, ActionStores, Moves, MovesToEnd, SameTried, Watched, MONITORED
  <2>4. CASE Resume
    <3>1. row'.status = "SCHEDULED" /\ SameTried
      BY <1>0, <2>1, <2>4, ResumedFields DEF Resume, ActionStores, SameTried
    <3>2. row.status \in {"PAUSED", "NEEDS_ATTENTION"} /\ ~row.reservation_attempted
      BY <2>1, <2>4 DEF Resume, MayResume
    <3> QED
      BY <2>1, <3>1, <3>2 DEF Moves, MovesByHand, Watched, MONITORED
  <2> QED
    BY <1>2, <2>2, <2>3, <2>4
<1>3. CASE DemoPay
  <2>1. copy["action"] = row /\ row.status = "AWAITING_PAYMENT" /\ row.reservation_attempted
    BY <1>3, AtWork DEF DemoPay, MayDemoPay, RowOK
  <2>2. row'.status = "CONFIRMED" /\ SameTried
    BY <1>0, <1>3, <2>1, StatusFields DEF DemoPay, ActionStores, SameTried
  <2> QED
    BY <2>1, <2>2 DEF Moves, MovesToEnd
<1>4. CASE Close /\ row.status # "CONFIRMED"
  <2>1. copy["action"] = row /\ row.status \in {"AWAITING_PAYMENT", "NEEDS_ATTENTION"}
    BY <1>4, AtWork DEF Close, MayClose, MANUAL
  <2>2. row'.status = "CANCELLED" /\ SameTried
    BY <1>0, <1>4, <2>1, StatusFields DEF Close, ActionStores, SameTried
  <2> QED
    BY <2>1, <2>2 DEF Moves, MovesToEnd
<1>5. CASE Close /\ row.status = "CONFIRMED"
  BY <1>1, <1>5, AtWork DEF Close, ActionStores
<1>6. CASE InspectConfirms("action") \/ ReconnectUnconfirmed
  <2>1. copy["action"] = row /\ row.status \in MANUAL
    BY <1>6, AtWork DEF InspectConfirms, ReconnectUnconfirmed, Fits
  <2>2. CASE InspectConfirms("action")
    <3>1. LoginFrameStable => row.reservation_attempted
      BY <2>2 DEF InspectConfirms, ShowsConfirmation, IInv, DataInv, Recorded
    <3>2. row'.status = "CONFIRMED" /\ SameTried
      BY <1>0, <2>1, <2>2, StatusFields DEF InspectConfirms, SameTried
    <3> QED
      BY <2>1, <3>1, <3>2 DEF Moves, MovesToEnd, MANUAL
  <2>3. CASE ReconnectUnconfirmed
    <3>1. /\ SameTried
          /\ IF row.status = "CONFIRMED" THEN row' = row ELSE row'.status = "NEEDS_ATTENTION"
      BY <1>0, <2>1, <2>3, ReviewedFields DEF ReconnectUnconfirmed, SameTried
    <3> QED
      BY <2>1, <3>1 DEF Moves, MovesByHand, MANUAL
  <2> QED
    BY <1>6, <2>2, <2>3
<1> QED
  BY <1>1, <1>2, <1>3, <1>4, <1>5, <1>6
     DEF ActionStep, ActionRefused, ReconnectStarts, ReconnectFindsNothing, ReconnectRestores,
         ReconnectFails, ReconnectInspectionFails, Notes, Releases, Discards, ActionDiscardFails

\* A gesture of the owner, the sweep, a cancelled task and a restart.
LEMMA OthersMove ==
    ASSUME IInv, SweepRoute, [Next]_vars, ~PollStep, ~ActionStep
    PROVE  Moves
<1> USE DEF Actors, PCs, Asleep, PreparingPCs
<1>0. row \in Rows
  BY DEF IInv, DataInv, RowOK
<1>1. CASE UNCHANGED row
  BY <1>1 DEF Moves, SameTried, KeepsTried
<1>2. CASE GestureMaySelect
  <2>1. copy["browser"] = row /\ row.status \in MANUAL
    BY <1>2, AtWork DEF GestureMaySelect, Fits, BrowserFits
  <2>2. row'.status = row.status /\ row'.reservation_attempted = TRUE
    BY <1>0, <1>2, <2>1 DEF GestureMaySelect, Attempted, Rows
  <2> QED
    BY <2>1, <2>2 DEF Moves, MovesByHand, MANUAL
<1>3. CASE GestureConfirms
  <2>1. copy["browser"] = row /\ row.status \in MANUAL
    BY <1>3, AtWork DEF GestureConfirms, Fits, BrowserFits
  <2>2. row'.status = "CONFIRMED" /\ SameTried
    BY <1>0, <1>3, <2>1, StatusFields DEF GestureConfirms, SameTried
  <2>3. LoginFrameStable => row.reservation_attempted
    BY <1>3 DEF GestureConfirms, ShowsConfirmation, IInv, DataInv, Recorded
  <2> QED
    BY <2>1, <2>2, <2>3 DEF Moves, MovesToEnd, MANUAL
<1>4. CASE Sweeps
  <2>1. copy["sweep"] = row
    BY <1>4, AtWork DEF Sweeps
  <2>2. CASE row.status = "AWAITING_PAYMENT"
    <3>1. row'.status = "NEEDS_ATTENTION" /\ SameTried
      BY <1>0, <1>4, <2>1, <2>2, HandedOverFields DEF Sweeps, SameTried
    <3> QED
      BY <2>2, <3>1 DEF Moves, MovesByHand
  <2>3. CASE row.status # "AWAITING_PAYMENT"
    BY <1>1, <1>4, <2>1, <2>3 DEF Sweeps
  <2> QED
    BY <2>2, <2>3
<1>5. ASSUME NEW a \in {"poll", "sweep"}, TaskCancelled(a) PROVE Moves
  <2>1. CASE CancelledPreparing(a)
    <3>1. copy[a] = row /\ Fits(a) /\ pc[a] \in PreparingPCs
      BY <2>1 DEF CancelledPreparing, IInv, WorkInv, Fits, Active
    <3>2. CASE a = "poll"
      <4>1. row.status \in {"PREPARING", "AWAITING_PAYMENT"}
        BY <3>1, <3>2 DEF Fits, PollFits
      <4>2. row'.status = "NEEDS_ATTENTION" /\ SameTried
        BY <1>0, <2>1, <3>1, HandedOverFields DEF CancelledPreparing, SameTried
      <4> QED
        BY <4>1, <4>2 DEF Moves, MovesByHand
    <3>3. CASE a = "sweep"
      BY <3>1, <3>3 DEF SweepRoute
    <3> QED
      BY <1>5, <3>2, <3>3
  <2> QED
    BY <1>1, <1>5, <2>1
       DEF TaskCancelled, CancelledBeforeLock, CancelledSearching, CancelledAtEnd
<1>6. CASE Restart
  <2>1. /\ row'.status = row.status \/ /\ row.status \in {"PREPARING", "AWAITING_PAYMENT"}
                                       /\ row'.status = "NEEDS_ATTENTION"
        /\ SameTried
    BY <1>6, RecoveredFields DEF Restart, IInv, DataInv, SameTried
  <2> QED
    BY <2>1 DEF Moves, MovesByHand
<1>7. CASE \/ Grant \/ Spawn \/ ActionArrives \/ BrowserArrives \/ SweepStarts
           \/ Tick \/ Stop \/ Crash \/ Shutdown \/ UNCHANGED vars
  BY <1>1, <1>7
     DEF Grant, Spawn, ActionArrives, BrowserArrives, SweepStarts, Tick, Stop, Crash, Shutdown, vars
<1>8. CASE BrowserStep
  BY <1>1, <1>2, <1>3, <1>8
     DEF BrowserStep, BrowserRefused, BrowserStarts, GestureIsVerification, GestureMade,
         BrowserEnds, GestureUnconfirmed
<1>9. CASE SweepStep
  BY <1>1, <1>4, <1>9 DEF SweepStep, Releases, SweepDies
<1> QED
  BY <1>5, <1>6, <1>7, <1>8, <1>9 DEF Next, ServerStep

LEMMA SweepRouteInvariant == SafetySpec => []SweepRoute
<1>1. Init => SweepRoute
  BY DEF Init, SweepRoute, Actors
<1> QED
  BY <1>1, SweepRouteStep, Inductive, PTL DEF SafetySpec

LEMMA MovesInvariant == SafetySpec => [][Moves]_vars
<1>1. IInv /\ OfferInv /\ SweepRoute /\ [Next]_vars => Moves
  BY PollMoves, ActionMoves, OthersMove
<1> QED
  BY <1>1, Inductive, OfferInvariant, SweepRouteInvariant, PTL DEF SafetySpec

-----------------------------------------------------------------------------
(* What follows from how the row moves.                                    *)

\* Seats may have been selected for whatever is confirmed, if the login frame
\* that a gesture was judged by stays where it is.
SettledInv == LoginFrameStable /\ row.status = "CONFIRMED" => row.reservation_attempted

LEMMA SettledInvariant == SafetySpec => []SettledInv
<1>1. Init => SettledInv
  BY DEF Init, SettledInv
<1>2. SettledInv /\ [Moves]_vars => SettledInv'
  <2>1. SettledInv /\ Moves => SettledInv'
    BY DEF SettledInv, Moves, SameTried, KeepsTried, MovesToAttempt, MovesByHand, MovesToEnd,
           MovesBack, Watched, MONITORED
  <2>2. SettledInv /\ UNCHANGED vars => SettledInv'
    BY DEF SettledInv, vars
  <2> QED
    BY <2>1, <2>2
<1> QED
  BY <1>1, <1>2, MovesInvariant, PTL DEF SafetySpec

\* A request that was paid for or cancelled stays so, whatever the polls and
\* gestures that were under way meanwhile had read.
THEOREM SettledFinal == SafetySpec => SettledIsFinal
<1>1. [Moves]_vars => [row.status \in {"CONFIRMED", "CANCELLED"} => row'.status = row.status]_vars
  BY DEF Moves, MovesToAttempt, MovesByHand, MovesToEnd, MovesBack, Watched, MONITORED
<1> QED
  BY <1>1, MovesInvariant, PTL DEF SettledIsFinal

\* So does one that is over, if closing a browser does not raise.
THEOREM ExpiredFinal ==
    ASSUME ~CloseFaults
    PROVE  SafetySpec => ExpiredIsFinal
<1>1. [Moves]_vars => [row.status = "EXPIRED" => row'.status = "EXPIRED"]_vars
  BY DEF Moves, MovesToAttempt, MovesByHand, MovesToEnd, MovesBack, Watched, MONITORED, MANUAL
<1> QED
  BY <1>1, MovesInvariant, PTL DEF ExpiredIsFinal

\* Only the owner ends a pause: no poll that was under way does.
THEOREM PauseKept == SafetySpec => PausedUntilOwnerActs
<1>1. [Moves]_vars
      => [row.status = "PAUSED" /\ row'.status # "PAUSED" => pc["action"] = "locked"]_vars
  BY DEF Moves
<1> QED
  BY <1>1, MovesInvariant, PTL DEF PausedUntilOwnerActs

\* An offer is prepared only if the previous completed observation since the
\* request was submitted or resumed showed it too, at the same fare.
THEOREM SecondObservationPrepared == SafetySpec => PreparesSecondObservation
<1>1. OfferInv /\ [Moves]_vars
      => [row.status # "PREPARING" /\ row'.status = "PREPARING" => observed = row'.offer]_vars
  <2> SUFFICES ASSUME OfferInv, Moves, row.status # "PREPARING", row'.status = "PREPARING"
               PROVE  observed = row'.offer
    OBVIOUS
  <2>1. MovesToAttempt
    BY DEF Moves, MovesByHand, MovesToEnd, MovesBack, Watched, MONITORED
  <2>2. row.confirmed_offer \in Offers /\ row'.offer = row.confirmed_offer
    BY <2>1 DEF MovesToAttempt
  <2> QED
    BY <2>2, ConstantsAssumption DEF OfferInv, Observes
<1> QED
  BY <1>1, MovesInvariant, OfferInvariant, PTL DEF PreparesSecondObservation

\* Seats are selected automatically only by a preparation in its time.
LEMMA SelectingStep ==
    ASSUME IInv, [Next]_vars, pc["poll"] = "preparing", pc'["poll"] = "holding"
    PROVE  PrepareSelectsSeats
<1> USE DEF Actors
<1>0. pc \in [Actors -> PCs] /\ \A a \in Actors \ {"poll"} : pc[a] \in Asleep
  BY DEF IInv, LockInv, LockTypes, Locked, Active, Asleep
<1>1. CASE PollStep
  BY <1>0, <1>1
     DEF PollStep, PollAsks, PollSkips, PollFindsWindowOver, PollGoesAhead, PollOpens,
         PollCannotRestore, PollFindsBusy, PollFails, PollNeedsAttention, PollExpires,
         SearchReturns, PollFindsNothing, PollPicks, PollLacksSeats, PollReadsSeatMap,
         PollPreflights, PrepareBegins, PrepareProceeds, PrepareSucceeds, PrepareFails,
         PrepareEnds, InspectConfirms, PollFindsPaymentOver, PollAwaitsPayment, Notes, Releases,
         Discards, PollDiscardFails, At, GoesOn, Leave
<1>2. CASE ActionArrives \/ ActionStep
  BY <1>0, <1>2
     DEF ActionArrives, ActionStep, ActionRefused, Pause, Resume, Cancel, DemoPay, Close,
         ReconnectStarts, ReconnectFindsNothing, ReconnectRestores, ReconnectFails,
         InspectConfirms, ReconnectUnconfirmed, ReconnectInspectionFails, Notes, Releases,
         Discards, ActionDiscardFails, ActionStores, Ask, GoesOn, Leave
<1>3. CASE BrowserArrives \/ BrowserStep
  BY <1>0, <1>3
     DEF BrowserArrives, BrowserStep, BrowserRefused, BrowserStarts, GestureIsVerification,
         GestureMaySelect, GestureMade, BrowserEnds, GestureConfirms, GestureUnconfirmed,
         Ask, GoesOn, Leave
<1>4. CASE SweepStarts \/ SweepStep
  BY <1>0, <1>4 DEF SweepStarts, SweepStep, Sweeps, Releases, SweepDies, Ask, GoesOn, Leave
<1>5. CASE Grant \/ Spawn \/ Crash
  BY <1>0, <1>5 DEF Grant, Spawn, Crash
<1>6. CASE Tick \/ Stop \/ Shutdown \/ Restart \/ UNCHANGED vars
  BY <1>6 DEF Tick, Stop, Shutdown, Restart, lock_vars, vars
<1>7. ASSUME NEW a \in {"poll", "sweep"}, TaskCancelled(a) PROVE FALSE
  BY <1>0, <1>7
     DEF TaskCancelled, CancelledBeforeLock, CancelledPreparing, CancelledSearching,
         CancelledAtEnd, GoesOn, Leave
<1> QED
  BY <1>1, <1>2, <1>3, <1>4, <1>5, <1>6, <1>7 DEF Next, ServerStep

\* An automatic selection of seats comes inside the booking window, before the
\* departure cutoff, never for a request that only monitors, and after its
\* attempt was stored.
THEOREM SelectedInWindow == SafetySpec => SelectsOnlyInWindow
<1> DEFINE InTime == /\ req.after <= now /\ now < req.before /\ now < Cutoff[row.offer]
                     /\ ~req.monitorOnly
                     /\ row.status = "PREPARING"
<1>1. IInv /\ OfferInv /\ [Next]_vars
      => [pc["poll"] = "preparing" /\ pc'["poll"] = "holding" => InTime]_vars
  <2> SUFFICES ASSUME IInv, OfferInv, [Next]_vars,
                      pc["poll"] = "preparing", pc'["poll"] = "holding"
               PROVE  InTime
    OBVIOUS
  <2>1. EnsureDeadline(best.offer) /\ At("poll", "preparing")
    BY SelectingStep DEF PrepareSelectsSeats
  <2>2. copy["poll"] = row /\ PollFits
    BY <2>1, AtWork DEF Fits, Actors, PCs, PreparingPCs, Asleep
  <2>3. row.status = "PREPARING" /\ best \in [offer: Offers, at: Nat]
    BY <2>1, <2>2 DEF PollFits, PreparingPCs, At
  <2>4. row.offer = best.offer /\ req.after <= now /\ ~req.monitorOnly
    BY <2>1 DEF OfferInv, OfferPlace, PreparingPCs, At
  <2>5. now \in Nat /\ req.before \in Nat /\ Cutoff[best.offer] \in Nat
    BY <2>3, ConstantsAssumption DEF IInv, DataInv, Request
  <2>6. now < req.before /\ now < Cutoff[best.offer]
    BY <2>1, <2>5 DEF EnsureDeadline, Deadline
  <2> QED
    BY <2>3, <2>4, <2>6
<1> QED
  BY <1>1, Inductive, OfferInvariant, PTL DEF SafetySpec, SelectsOnlyInWindow

-----------------------------------------------------------------------------
(* The promise to the owner, step by step.                                 *)

\* A step of the program is one of module Reservation, or changes nothing there.
LEMMA PromiseStep ==
    ASSUME LoginFrameStable, ~CloseFaults, IInv, IInv', SettledInv, Moves
    PROVE  [Promise!Next]_(Promise!vars)
<1>1. /\ row.status \in Statuses /\ row'.status \in Statuses
      /\ row.reservation_attempted \in BOOLEAN /\ row'.reservation_attempted \in BOOLEAN
      /\ row.status \in Watched => ~row.reservation_attempted
      /\ row.status \in {"PREPARING", "AWAITING_PAYMENT"} => row.reservation_attempted
  BY DEF IInv, DataInv, RowOK, Rows, Watched
<1> USE DEF Statuses, MONITORED, Watched, Phase, Promise!vars
<1>2. CASE SameTried /\ Phase' = Phase
  BY <1>1, <1>2 DEF SameTried, KeepsTried
<1>3. CASE row'.status = row.status /\ SameTried
  BY <1>2, <1>3
<1>4. CASE row.status \in Watched /\ row'.status \in Watched /\ SameTried
  BY <1>2, <1>4
<1>5. CASE MovesToAttempt
  <2>1. Promise!Attempt
    BY <1>1, <1>5 DEF MovesToAttempt, Promise!Attempt
  <2> QED
    BY <2>1 DEF Promise!Next
<1>6. CASE row.status = "PREPARING" /\ row'.status = "AWAITING_PAYMENT" /\ SameTried
  <2>1. Promise!Succeed
    BY <1>6 DEF SameTried, KeepsTried, Promise!Succeed
  <2> QED
    BY <2>1 DEF Promise!Next
<1>7. CASE MovesByHand
  <2>1. \/ Promise!HandOver \/ Promise!TakeOver \/ Promise!Resume
        \/ SameTried /\ Phase' = Phase
    BY <1>1, <1>7
       DEF MovesByHand, SameTried, KeepsTried, SettledInv, MANUAL, Promise!HandOver,
           Promise!TakeOver, Promise!Resume
  <2> QED
    BY <1>2, <2>1 DEF Promise!Next
<1>8. CASE MovesToEnd
  <2>1. Promise!Settle \/ Promise!Close
    BY <1>1, <1>8 DEF MovesToEnd, SameTried, KeepsTried, Promise!Settle, Promise!Close
  <2> QED
    BY <2>1 DEF Promise!Next
<1> QED
  BY <1>3, <1>4, <1>5, <1>6, <1>7, <1>8 DEF Moves, MovesBack

\* The program keeps the safety part of the promise of module Reservation: no
\* second attempt, no way back from a person to the automation once a seat may
\* have been selected, and no way out of what was paid for or closed.
THEOREM PromiseKept ==
    ASSUME LoginFrameStable, ~CloseFaults
    PROVE  SafetySpec => Promise!Init /\ [][Promise!Next]_(Promise!vars)
<1>1. Init => Promise!Init
  BY DEF Init, Promise!Init, Phase, MONITORED
<1>2. IInv /\ IInv' /\ SettledInv /\ [Moves]_vars => [Promise!Next]_(Promise!vars)
  <2>1. CASE UNCHANGED vars
    BY <2>1 DEF vars, Phase, Promise!vars
  <2> QED
    BY <2>1, PromiseStep
<1> QED
  BY <1>1, <1>2, Inductive, MovesInvariant, SettledInvariant, PTL DEF SafetySpec

-----------------------------------------------------------------------------
(* When a browser is open.                                                 *)

Resting == MONITORED \cup {"PAUSED", "EXPIRED", "CANCELLED"}

\* The two promises about the provider session, and what they need of the actor
\* that is at work.  They are those of a server that is up: a graceful shutdown
\* cuts tasks short and then releases what is left.
Payable == Live /\ row.status = "AWAITING_PAYMENT" => provider = "open"
AtRest == row.status \in Resting => provider = "none"

SearchedPCs == {"seatmap", "preflight"} \cup PreparingPCs

SessionPlace(a) ==
    /\ pc[a] = "locked" => AtRest
    /\ pc[a] = "note" => row.status \in {"NEEDS_ATTENTION", "CONFIRMED"}
    /\ pc[a] = "release" => row.status # "AWAITING_PAYMENT"
    /\ pc[a] = "discard" => row.status \in {"EXPIRED", "CANCELLED", "CONFIRMED"}
    /\ a = "poll" /\ Live =>
         /\ pc["poll"] \in SearchedPCs => provider = "open"
         /\ pc["poll"] = "discard" => copy["poll"].status # "AWAITING_PAYMENT"
    /\ a = "action" /\ pc["action"] = "restore" => row.status # "AWAITING_PAYMENT"
    /\ a = "browser" /\ pc["browser"] # "locked" => row.status \in MANUAL

SessionUp ==
    /\ Payable
    /\ holder = None => AtRest
    /\ \A a \in Actors : Active(a) => SessionPlace(a)

SessionInv ==
    /\ server = "down" => provider = "none"
    /\ server = "up" => SessionUp

\* Whoever leaves the lock has brought the session where the row wants it.
LEMMA SessionLeaves ==
    ASSUME IInv, NEW a \in Actors, Active(a), Leave(a), Payable', AtRest'
    PROVE  SessionUp'
<1>1. \A b \in Actors : ~Active(b)'
  BY DEF IInv, LockInv, LockTypes, Locked, Active, Actors, Asleep, Leave
<1> QED
  BY <1>1 DEF SessionUp

\* While an actor keeps the lock only its own place matters.
LEMMA SessionGoesOn ==
    ASSUME IInv, NEW a \in Actors, Active(a), NEW label \in PCs \ Asleep, NEW c, GoesOn(a, label, c),
           Payable',
           (pc'[a] = label /\ copy'[a] = c) => SessionPlace(a)'
    PROVE  SessionUp'
<1>1. \A b \in Actors \ {a} : ~Active(b)'
  BY DEF IInv, LockInv, LockTypes, Locked, Active, Actors, Asleep, GoesOn
<1>2. holder' = a /\ a # None
  BY ConstantsAssumption DEF IInv, LockInv, Locked, GoesOn
<1>3. pc'[a] = label /\ copy'[a] = c
  BY DEF IInv, LockInv, LockTypes, GoesOn
<1> QED
  BY <1>1, <1>2, <1>3 DEF SessionUp

\* The lock is given to an actor that finds the session as it was left.
LEMMA SessionAsks ==
    ASSUME IInv, SessionUp, NEW a \in Actors, pc[a] \in Asleep, Ask(a), UNCHANGED <<req, row, provider>>
    PROVE  SessionUp'
<1> USE DEF Actors, PCs, Asleep, PreparingPCs
<1>0. pc \in [Actors -> PCs] /\ copy \in [Actors -> Rows \cup {None}]
  BY DEF IInv, LockInv, LockTypes
<1>1. Payable' /\ (AtRest => AtRest')
  BY DEF SessionUp, Payable, AtRest, Live
<1>2. CASE holder = None /\ waiting = <<>>
  <2>1. holder' = a /\ pc' = [pc EXCEPT ![a] = "locked"] /\ AtRest'
    BY <1>1, <1>2 DEF Ask, SessionUp
  <2>2. \A b \in Actors \ {a} : ~Active(b)'
    BY <1>0, <1>2, <2>1, ConstantsAssumption DEF IInv, LockInv, Locked, Active
  <2>3. SessionPlace(a)'
    BY <1>0, <2>1 DEF SessionPlace, SearchedPCs
  <2> QED
    BY <1>1, <2>1, <2>2, <2>3 DEF SessionUp
<1>3. CASE ~(holder = None /\ waiting = <<>>)
  <2>1. UNCHANGED <<holder, copy>> /\ pc' = [pc EXCEPT ![a] = "wait"]
    BY <1>3 DEF Ask
  <2>2. \A b \in Actors \ {a} : pc'[b] = pc[b]
    BY <1>0, <2>1
  <2>3. ~Active(a)'
    BY <1>0, <2>1 DEF Active
  <2>4. \A b \in Actors \ {a} : Active(b)' => SessionPlace(b)'
    BY <2>1, <2>2 DEF SessionUp, SessionPlace, AtRest, Live, Active, SearchedPCs
  <2> QED
    BY <1>1, <2>1, <2>3, <2>4 DEF SessionUp
<1> QED
  BY <1>2, <1>3

\* What an actor at work knows while the server is up.
LEMMA SessionAtWork ==
    ASSUME IInv, SessionUp, NEW a \in Actors, NEW label \in PCs \ Asleep, At(a, label)
    PROVE  SessionPlace(a) /\ Payable
BY AtWork DEF SessionUp

\* The three ways to the end of an actor's work.
LEMMA ToNote ==
    ASSUME IInv, NEW a \in {"poll", "action"}, Active(a), NEW c, GoesOn(a, "note", c),
           row'.status \in {"NEEDS_ATTENTION", "CONFIRMED"}
    PROVE  SessionUp'
<1> USE DEF Actors, PCs, Asleep, PreparingPCs
<1>1. pc'[a] = "note" => SessionPlace(a)'
  BY DEF SessionPlace, SearchedPCs
<1>2. Payable'
  BY DEF Payable
<1> QED
  BY <1>1, <1>2, SessionGoesOn

LEMMA ToRelease ==
    ASSUME IInv, NEW a \in {"poll", "action", "sweep"}, Active(a), NEW c, GoesOn(a, "release", c),
           row'.status # "AWAITING_PAYMENT"
    PROVE  SessionUp'
<1> USE DEF Actors, PCs, Asleep, PreparingPCs
<1>1. pc'[a] = "release" => SessionPlace(a)'
  BY DEF SessionPlace, SearchedPCs
<1>2. Payable'
  BY DEF Payable
<1> QED
  BY <1>1, <1>2, SessionGoesOn

LEMMA ToDiscard ==
    ASSUME IInv, NEW a \in {"poll", "action"}, Active(a), NEW c, GoesOn(a, "discard", c),
           row'.status \in {"EXPIRED", "CANCELLED", "CONFIRMED"},
           a = "poll" /\ Live' => c.status # "AWAITING_PAYMENT"
    PROVE  SessionUp'
<1> USE DEF Actors, PCs, Asleep, PreparingPCs
<1>1. (pc'[a] = "discard" /\ copy'[a] = c) => SessionPlace(a)'
  BY DEF SessionPlace, SearchedPCs
<1>2. Payable'
  BY DEF Payable
<1> QED
  BY <1>1, <1>2, SessionGoesOn

\* The end of the work: a person must look, or the browser is closed.
LEMMA SessionEnds ==
    ASSUME IInv, SessionUp, NEW a \in Actors,
           Notes(a) \/ Releases(a) \/ Discards(a)
    PROVE  SessionUp'
<1> USE DEF Actors, PCs, Asleep, PreparingPCs
<1>1. Active(a) /\ Leave(a) /\ row' = row
  BY AtWork DEF Notes, Releases, Discards
<1>2. CASE Notes(a)
  <2>1. row.status \in {"NEEDS_ATTENTION", "CONFIRMED"}
    BY <1>2, SessionAtWork DEF Notes, SessionPlace, At
  <2> QED
    BY <1>1, <2>1, SessionLeaves DEF Payable, AtRest, Resting, MONITORED
<1>3. CASE Releases(a) \/ Discards(a)
  <2>1. provider' = "none" /\ row.status # "AWAITING_PAYMENT"
    BY <1>3, SessionAtWork DEF Releases, Discards, SessionPlace, At
  <2> QED
    BY <1>1, <2>1, SessionLeaves DEF Payable, AtRest
<1> QED
  BY <1>2, <1>3

\* expire() of a watched request or of a demo whose payment is over.
LEMMA ExpiresSession ==
    ASSUME IInv, Active("poll"), row \in Rows, copy["poll"] = row, NEW e, Expires(e),
           Live' => row.status # "AWAITING_PAYMENT"
    PROVE  SessionUp'
<1>1. row'.status = "EXPIRED" /\ GoesOn("poll", "discard", row)
  BY ExpiredFields DEF Expires
<1> QED
  BY <1>1, ToDiscard DEF Actors

LEMMA StoresSession ==
    ASSUME IInv, Active("poll"), row \in Rows, copy["poll"] = row, NEW s \in MONITORED, NEW o, Stores(s, o)
    PROVE  SessionUp'
<1>1. row'.status = s /\ GoesOn("poll", "release", row)
  BY ObservedFields DEF Stores
<1> QED
  BY <1>1, ToRelease DEF MONITORED

LEMMA WatchesSession ==
    ASSUME IInv, Active("poll"), row \in Rows, copy["poll"] = row, NEW o, OnlyWatches(o)
    PROVE  SessionUp'
<1>1. PICK s \in MONITORED : \E c : Stores(s, c)
  BY DEF OnlyWatches, MONITORED
<1> QED
  BY <1>1, StoresSession

LEMMA CommitSession ==
    ASSUME IInv, Active("poll"), row \in Rows, row.status \in MONITORED, copy["poll"] = row,
           NEW o, Commits(o), Live' => provider' = "open"
    PROVE  SessionUp'
<1> USE DEF Actors, PCs, Asleep, PreparingPCs
<1>1. CASE now >= Deadline(o)
  BY <1>1, ExpiresSession DEF Commits, MONITORED
<1>2. CASE ~(now >= Deadline(o))
  <2>1. row'.status = "PREPARING" /\ GoesOn("poll", "persisted", row')
    BY <1>2, AttemptFields DEF Commits
  <2>2. pc'["poll"] = "persisted" => SessionPlace("poll")'
    BY DEF SessionPlace
  <2>3. Payable'
    BY <2>1 DEF Payable
  <2> QED
    BY <2>1, <2>2, <2>3, SessionGoesOn
<1> QED
  BY <1>1, <1>2

\* The polling task: what it watches it gives up between two observations, what
\* it prepares it keeps open until the owner has paid.
LEMMA PollSession ==
    ASSUME IInv, SessionUp, PollStep, UNCHANGED req
    PROVE  SessionUp'
<1> USE DEF Actors, PCs, Asleep, PreparingPCs
<1>0. row \in Rows /\ Live' = Live
  BY DEF IInv, DataInv, RowOK, Live
<1>1. CASE PollAsks
  BY <1>1, SessionAsks DEF PollAsks, At, session_vars
<1>2. CASE PollSkips
  <2>1. At("poll", "locked") /\ Leave("poll") /\ UNCHANGED <<row, provider>>
    BY <1>2 DEF PollSkips, session_vars
  <2>2. Active("poll") /\ AtRest /\ Payable
    BY <2>1, AtWork, SessionAtWork DEF SessionPlace, At
  <2> QED
    BY <1>0, <2>1, <2>2, SessionLeaves DEF Payable, AtRest
<1>3. CASE PollFindsWindowOver \/ PollExpires \/ (PollFindsPaymentOver /\ ~Live)
  <2>1. /\ Active("poll") /\ copy["poll"] = row /\ (Live => row.status \in MONITORED)
    BY <1>3, AtWork
       DEF PollFindsWindowOver, PollExpires, SearchReturns, PollFindsPaymentOver, Fits, PollFits
  <2>2. \E e : Expires(e)
    BY <1>3 DEF PollFindsWindowOver, PollExpires, PollFindsPaymentOver
  <2> QED
    BY <1>0, <2>1, <2>2, ExpiresSession DEF MONITORED
<1>4. CASE PollOpens
  <2>1. /\ Active("poll") /\ copy["poll"] = row /\ UNCHANGED row /\ Payable
        /\ provider' = IF provider = "none" THEN "closed" ELSE provider
    BY <1>4, AtWork, SessionAtWork DEF PollOpens, PollGoesAhead, session_vars
  <2>2. PICK label \in {"search", "inspect"} : GoesOn("poll", label, row)
    BY <1>4, <2>1 DEF PollOpens
  <2>3. Payable'
    BY <1>0, <2>1 DEF Payable
  <2>4. pc'["poll"] = label => SessionPlace("poll")'
    BY DEF SessionPlace, SearchedPCs
  <2> QED
    BY <2>1, <2>2, <2>3, <2>4, SessionGoesOn
<1>5. CASE \/ PollCannotRestore \/ PollNeedsAttention \/ PrepareFails
           \/ (PollFindsPaymentOver /\ Live) \/ InspectConfirms("poll")
  <2>1. /\ Active("poll") /\ copy["poll"] = row /\ GoesOn("poll", "note", row)
    BY <1>5, AtWork
       DEF PollCannotRestore, PollGoesAhead, PollNeedsAttention, PrepareFails,
           PollFindsPaymentOver, InspectConfirms
  <2>2. row'.status \in {"NEEDS_ATTENTION", "CONFIRMED"}
    BY <1>0, <1>5, <2>1, HandedOverFields, ClearedFields, StatusFields
       DEF PollCannotRestore, PollNeedsAttention, PrepareFails, PollFindsPaymentOver,
           InspectConfirms
  <2> QED
    BY <2>1, <2>2, ToNote
<1>6. CASE PollFindsBusy
  <2>1. /\ Active("poll") /\ row' = row /\ row.status \in MONITORED
        /\ GoesOn("poll", "release", copy["poll"])
    BY <1>6, AtWork DEF PollFindsBusy, Fits, PollFits
  <2> QED
    BY <2>1, ToRelease DEF MONITORED
<1>7. CASE PollFails
  <2>1. /\ Active("poll") /\ copy["poll"] = row /\ row' = Failed(row) /\ EndsPoll(row'.status)
        /\ row'.status \in {row.status, "NEEDS_ATTENTION"}
    BY <1>0, <1>7, AtWork, FailedFields DEF PollFails
  <2>2. CASE row'.status \in MONITORED
    BY <2>1, <2>2, ToRelease DEF EndsPoll, MONITORED
  <2>3. CASE row'.status \notin MONITORED
    <3>1. row.status \in MONITORED \/ (row.status = "AWAITING_PAYMENT" /\ (Live => provider' = "open"))
      BY <1>7, AtWork DEF PollFails, Fits, PollFits
    <3>2. Payable' /\ AtRest'
      BY <1>0, <2>1, <2>3, <3>1 DEF Payable, AtRest, Resting, MONITORED
    <3> QED
      BY <2>1, <2>3, <3>2, SessionLeaves DEF EndsPoll
  <2> QED
    BY <2>2, <2>3
<1>8. CASE PollFindsNothing \/ PollLacksSeats
  <2>1. Active("poll") /\ copy["poll"] = row
    BY <1>8, AtWork DEF PollFindsNothing, SearchReturns, PollLacksSeats
  <2>2. \E s \in MONITORED : Stores(s, None)
    BY <1>8 DEF PollFindsNothing, PollLacksSeats, Watching, MONITORED
  <2> QED
    BY <1>0, <2>1, <2>2, StoresSession
<1>9. CASE \E o \in Offers : PollPicks(o)
  <2>1. PICK o \in Offers : PollPicks(o)
    BY <1>9
  <2>2. /\ Active("poll") /\ copy["poll"] = row /\ row.status \in MONITORED
        /\ (Live => provider' = "open")
    BY <2>1, AtWork DEF PollPicks, SearchReturns, Fits, PollFits
  <2>3. CASE OnlyWatches(o)
    BY <1>0, <2>2, <2>3, WatchesSession
  <2>4. CASE ~OnlyWatches(o)
    <3>1. PICK label \in {"seatmap", "preflight"} :
            GoesOn("poll", label, row) /\ UNCHANGED row
      BY <2>1, <2>2, <2>4 DEF PollPicks
    <3>2. pc'["poll"] = label => SessionPlace("poll")'
      BY <1>0, <2>2 DEF SessionPlace
    <3>3. Payable'
      BY <2>2, <3>1 DEF Payable, MONITORED
    <3> QED
      BY <2>2, <3>1, <3>2, <3>3, SessionGoesOn
  <2> QED
    BY <2>3, <2>4
<1>10. CASE PollReadsSeatMap \/ PollPreflights
  <2>1. /\ Active("poll") /\ copy["poll"] = row /\ row.status \in MONITORED
        /\ provider' = provider /\ (Live => provider = "open")
    BY <1>10, AtWork, SessionAtWork
       DEF PollReadsSeatMap, PollPreflights, Fits, PollFits, SessionPlace, SearchedPCs, At,
           session_vars
  <2>2. Commits(best.offer) \/ OnlyWatches(best.offer)
    BY <1>10 DEF PollReadsSeatMap, PollPreflights
  <2> QED
    BY <1>0, <2>1, <2>2, WatchesSession, CommitSession
<1>11. CASE PrepareBegins \/ PrepareSelectsSeats \/ PrepareProceeds \/ PrepareSucceeds
  <2>1. /\ Active("poll") /\ provider' = provider /\ (Live => provider = "open")
    BY <1>11, AtWork, SessionAtWork
       DEF PrepareBegins, PrepareSelectsSeats, PrepareProceeds, PrepareSucceeds, SessionPlace,
           SearchedPCs, At, session_vars
  <2>2. PICK label \in PreparingPCs : \E c : GoesOn("poll", label, c)
    BY <1>11 DEF PrepareBegins, PrepareSelectsSeats, PrepareProceeds, PrepareSucceeds
  <2>3. Payable' /\ (pc'["poll"] = label => SessionPlace("poll")')
    BY <1>0, <2>1 DEF Payable, SessionPlace
  <2> QED
    BY <2>1, <2>2, <2>3, SessionGoesOn
<1>12. CASE PrepareEnds \/ PollAwaitsPayment
  <2>1. /\ Active("poll") /\ provider' = provider /\ (Live => provider = "open")
        /\ copy["poll"] = row /\ row.status = "AWAITING_PAYMENT" /\ Leave("poll")
    BY <1>12, AtWork, SessionAtWork
       DEF PrepareEnds, PollAwaitsPayment, Fits, PollFits, SessionPlace, SearchedPCs, Payable,
           At, session_vars
  <2>2. row'.status = "AWAITING_PAYMENT"
    BY <1>0, <1>12, <2>1, StatusFields DEF PrepareEnds, PollAwaitsPayment
  <2> QED
    BY <1>0, <2>1, <2>2, SessionLeaves DEF Payable, AtRest, Resting, MONITORED
<1>13. CASE Notes("poll") \/ Releases("poll") \/ Discards("poll")
  BY <1>13, SessionEnds
<1>14. CASE PollDiscardFails
  <2>1. /\ Active("poll") /\ Leave("poll") /\ provider' = "none"
        /\ copy["poll"] \in Rows /\ row' = Failed(copy["poll"])
        /\ (Live => copy["poll"].status # "AWAITING_PAYMENT")
    BY <1>14, AtWork, SessionAtWork DEF PollDiscardFails, SessionPlace, At
  <2>2. row'.status \in {copy["poll"].status, "NEEDS_ATTENTION"}
    BY <2>1, FailedFields
  <2> QED
    BY <1>0, <2>1, <2>2, SessionLeaves DEF Payable, AtRest
<1>15. CASE PollFindsPaymentOver
  BY <1>3, <1>5, <1>15
<1> HIDE DEF Actors, PCs, Asleep, PreparingPCs
<1> QED
  BY <1>1, <1>2, <1>3, <1>4, <1>5, <1>6, <1>7, <1>8, <1>9, <1>10, <1>11, <1>12, <1>13, <1>14,
     <1>15 DEF PollStep

\* The owner's actions: what is stored decides what becomes of the session.
LEMMA ActionSession ==
    ASSUME IInv, SessionUp, ActionStep, UNCHANGED req
    PROVE  SessionUp'
<1> USE DEF Actors, PCs, Asleep, PreparingPCs
<1>0. row \in Rows /\ Live' = Live
  BY DEF IInv, DataInv, RowOK, Live
<1>1. CASE ActionRefused \/ ReconnectFindsNothing
  <2>1. At("action", "locked") /\ Leave("action") /\ UNCHANGED <<row, provider>>
    BY <1>1 DEF ActionRefused, ReconnectFindsNothing, session_vars
  <2>2. Active("action") /\ AtRest /\ Payable
    BY <2>1, AtWork, SessionAtWork DEF SessionPlace, At
  <2> QED
    BY <1>0, <2>1, <2>2, SessionLeaves DEF Payable, AtRest
<1>2. CASE Pause \/ Resume \/ DemoPay
  <2>1. /\ Active("action") /\ copy["action"] = row /\ GoesOn("action", "release", row)
    BY <1>2, AtWork DEF Pause, Resume, DemoPay, ActionStores
  <2>2. row'.status # "AWAITING_PAYMENT"
    BY <1>0, <1>2, <2>1, StatusFields, ResumedFields DEF Pause, Resume, DemoPay, ActionStores
  <2> QED
    BY <2>1, <2>2, ToRelease
<1>3. CASE Cancel \/ Close
  <2>1. /\ Active("action") /\ copy["action"] = row /\ GoesOn("action", "discard", row)
    BY <1>3, AtWork DEF Cancel, Close, ActionStores
  <2>2. row'.status \in {"CANCELLED", "CONFIRMED"}
    BY <1>0, <1>3, <2>1, StatusFields DEF Cancel, Close, ActionStores
  <2> QED
    BY <2>1, <2>2, ToDiscard
<1>4. CASE ReconnectStarts
  <2>1. /\ Active("action") /\ copy["action"] = row /\ UNCHANGED row /\ Payable /\ Live
    BY <1>4, AtWork, SessionAtWork DEF ReconnectStarts, MayReconnect
  <2>2. CASE provider # "none"
    <3>1. GoesOn("action", "inspect", row) /\ UNCHANGED provider
      BY <1>4, <2>1, <2>2 DEF ReconnectStarts
    <3>2. Payable' /\ (pc'["action"] = "inspect" => SessionPlace("action")')
      BY <1>0, <2>1, <3>1 DEF Payable, SessionPlace
    <3> QED
      BY <2>1, <3>1, <3>2, SessionGoesOn
  <2>3. CASE provider = "none"
    <3>1. GoesOn("action", "restore", row) /\ row.status # "AWAITING_PAYMENT"
      BY <1>4, <2>1, <2>3 DEF ReconnectStarts, Payable
    <3>2. Payable' /\ (pc'["action"] = "restore" => SessionPlace("action")')
      BY <2>1, <3>1 DEF Payable, SessionPlace
    <3> QED
      BY <2>1, <3>1, <3>2, SessionGoesOn
  <2> QED
    BY <2>2, <2>3
<1>5. CASE ReconnectRestores
  <2>1. /\ Active("action") /\ GoesOn("action", "inspect", copy["action"]) /\ provider' = "open"
    BY <1>5, AtWork DEF ReconnectRestores
  <2>2. Payable' /\ (pc'["action"] = "inspect" => SessionPlace("action")')
    BY <2>1 DEF Payable, SessionPlace
  <2> QED
    BY <2>1, <2>2, SessionGoesOn
<1>6. CASE ReconnectFails \/ ActionDiscardFails
  <2>1. Active("action") /\ Leave("action") /\ provider' = "none" /\ UNCHANGED row
    BY <1>6, AtWork DEF ReconnectFails, ActionDiscardFails
  <2>2. row.status # "AWAITING_PAYMENT"
    BY <1>6, SessionAtWork DEF ReconnectFails, ActionDiscardFails, SessionPlace, At
  <2> QED
    BY <2>1, <2>2, SessionLeaves DEF Payable, AtRest
<1>7. CASE InspectConfirms("action") \/ ReconnectUnconfirmed
  <2>1. Active("action") /\ copy["action"] = row
    BY <1>7, AtWork DEF InspectConfirms, ReconnectUnconfirmed
  <2>2. row'.status \in {"NEEDS_ATTENTION", "CONFIRMED"}
    BY <1>0, <1>7, <2>1, StatusFields, ReviewedFields DEF InspectConfirms, ReconnectUnconfirmed
  <2>3. Leave("action") \/ GoesOn("action", "note", row)
    BY <1>7, <2>1 DEF InspectConfirms, ReconnectUnconfirmed
  <2> QED
    BY <2>1, <2>2, <2>3, ToNote, SessionLeaves DEF Payable, AtRest, Resting, MONITORED
<1>8. CASE ReconnectInspectionFails
  <2>1. /\ Active("action") /\ Leave("action") /\ UNCHANGED <<row, provider>> /\ Payable
        /\ row.status \in MANUAL
    BY <1>8, AtWork, SessionAtWork DEF ReconnectInspectionFails, Fits, session_vars
  <2> QED
    BY <1>0, <2>1, SessionLeaves DEF Payable, AtRest, Resting, MONITORED, MANUAL
<1>9. CASE Notes("action") \/ Releases("action") \/ Discards("action")
  BY <1>9, SessionEnds
<1> HIDE DEF Actors, PCs, Asleep, PreparingPCs
<1> QED
  BY <1>1, <1>2, <1>3, <1>4, <1>5, <1>6, <1>7, <1>8, <1>9 DEF ActionStep

\* The owner's gestures: the page they are made in stays.
LEMMA BrowserSession ==
    ASSUME IInv, SessionUp, BrowserStep, UNCHANGED req
    PROVE  SessionUp'
<1> USE DEF Actors, PCs, Asleep, PreparingPCs
<1>0. row \in Rows /\ Live' = Live
  BY DEF IInv, DataInv, RowOK, Live
<1>1. CASE BrowserRefused
  <2>1. At("browser", "locked") /\ Leave("browser") /\ UNCHANGED <<row, provider>>
    BY <1>1 DEF BrowserRefused, session_vars
  <2>2. Active("browser") /\ AtRest /\ Payable
    BY <2>1, AtWork, SessionAtWork DEF SessionPlace, At
  <2> QED
    BY <1>0, <2>1, <2>2, SessionLeaves DEF Payable, AtRest
<1>2. CASE BrowserStarts \/ GestureIsVerification \/ GestureMaySelect \/ GestureMade
  <2>1. /\ Active("browser") /\ copy["browser"] \in Rows /\ Payable /\ row.status \in MANUAL
        /\ UNCHANGED provider
    BY <1>2, AtWork, SessionAtWork
       DEF BrowserStarts, GestureIsVerification, GestureMaySelect, GestureMade, SessionPlace, At,
           session_vars
  <2>2. row'.status = row.status
    <3>1. CASE GestureMaySelect
      <4>1. row' = Attempted(row)
        BY <3>1, AtWork DEF GestureMaySelect
      <4> QED
        BY <1>0, <4>1, AttemptedFields
    <3> QED
      BY <1>2, <3>1 DEF BrowserStarts, GestureIsVerification, GestureMade
  <2>3. PICK label \in {"screenshot", "gesture", "verified", "manual", "outcome"} :
          \E c : GoesOn("browser", label, c)
    BY <1>2 DEF BrowserStarts, GestureIsVerification, GestureMaySelect, GestureMade
  <2>4. Payable' /\ (pc'["browser"] = label => SessionPlace("browser")')
    BY <1>0, <2>1, <2>2 DEF Payable, SessionPlace
  <2> QED
    BY <2>1, <2>3, <2>4, SessionGoesOn
<1>3. CASE BrowserEnds \/ GestureConfirms \/ GestureUnconfirmed
  <2>1. /\ Active("browser") /\ Leave("browser") /\ Payable /\ row.status \in MANUAL
        /\ UNCHANGED provider
    BY <1>3, AtWork, SessionAtWork
       DEF BrowserEnds, GestureConfirms, GestureUnconfirmed, SessionPlace, At, session_vars
  <2>2. row'.status \in {row.status, "CONFIRMED"}
    BY <1>0, <1>3, AtWork, StatusFields DEF BrowserEnds, GestureConfirms, GestureUnconfirmed
  <2> QED
    BY <1>0, <2>1, <2>2, SessionLeaves DEF Payable, AtRest, Resting, MONITORED, MANUAL
<1> HIDE DEF Actors, PCs, Asleep, PreparingPCs
<1> QED
  BY <1>1, <1>2, <1>3 DEF BrowserStep

\* The sweep hands a payment over before it closes the page.
LEMMA SweepSession ==
    ASSUME IInv, SessionUp, SweepStep
    PROVE  SessionUp'
<1> USE DEF Actors, PCs, Asleep, PreparingPCs
<1>0. row \in Rows
  BY DEF IInv, DataInv, RowOK
<1>1. CASE Sweeps
  <2>1. /\ Active("sweep") /\ copy["sweep"] = row /\ GoesOn("sweep", "release", row)
    BY <1>1, AtWork DEF Sweeps
  <2>2. row'.status # "AWAITING_PAYMENT"
    BY <1>0, <1>1, <2>1, HandedOverFields DEF Sweeps
  <2> QED
    BY <2>1, <2>2, ToRelease
<1>2. CASE Releases("sweep")
  BY <1>2, SessionEnds
<1>3. CASE SweepDies
  <2>1. Active("sweep") /\ Leave("sweep") /\ provider' = "none" /\ UNCHANGED row
    BY <1>3, AtWork DEF SweepDies
  <2>2. row.status # "AWAITING_PAYMENT"
    BY <1>3, SessionAtWork DEF SweepDies, SessionPlace, At
  <2> QED
    BY <2>1, <2>2, SessionLeaves DEF Payable, AtRest
<1> QED
  BY <1>1, <1>2, <1>3 DEF SweepStep

\* Only time, stops and restarts concern the server, and nothing the request.
LEMMA ServerKept ==
    ASSUME \/ PollStep \/ ActionArrives \/ ActionStep \/ BrowserArrives \/ BrowserStep
           \/ SweepStarts \/ SweepStep \/ Grant \/ Spawn
    PROVE  UNCHANGED <<req, server>>
<1> USE DEF server_vars
<1>1. CASE PollStep
  BY <1>1
     DEF PollStep, PollAsks, PollSkips, PollFindsWindowOver, PollOpens, PollCannotRestore,
         PollFindsBusy, PollFails, PollNeedsAttention, PollExpires, SearchReturns,
         PollFindsNothing, PollPicks, PollLacksSeats, PollReadsSeatMap, PollPreflights,
         PrepareBegins, PrepareSelectsSeats, PrepareProceeds, PrepareSucceeds, PrepareFails,
         PrepareEnds, InspectConfirms, PollFindsPaymentOver, PollAwaitsPayment, Notes, Releases,
         Discards, PollDiscardFails
<1>2. CASE ActionArrives \/ ActionStep
  BY <1>2
     DEF ActionArrives, ActionStep, ActionRefused, Pause, Resume, Cancel, DemoPay, Close,
         ReconnectStarts, ReconnectFindsNothing, ReconnectRestores, ReconnectFails,
         InspectConfirms, ReconnectUnconfirmed, ReconnectInspectionFails, Notes, Releases,
         Discards, ActionDiscardFails, ActionStores
<1>3. CASE BrowserArrives \/ BrowserStep
  BY <1>3
     DEF BrowserArrives, BrowserStep, BrowserRefused, BrowserStarts, GestureIsVerification,
         GestureMaySelect, GestureMade, BrowserEnds, GestureConfirms, GestureUnconfirmed
<1>4. CASE SweepStarts \/ SweepStep \/ Grant \/ Spawn
  BY <1>4 DEF SweepStarts, SweepStep, Sweeps, Releases, SweepDies, Grant, Spawn
<1> QED
  BY <1>1, <1>2, <1>3, <1>4

\* Every step preserves it.
LEMMA SessionStep ==
    ASSUME IInv, SessionInv, [Next]_vars
    PROVE  SessionInv'
<1> USE DEF Actors, PCs, Asleep, PreparingPCs
<1>0. pc \in [Actors -> PCs] /\ copy \in [Actors -> Rows \cup {None}]
  BY DEF IInv, LockInv, LockTypes
<1>1. CASE \/ PollStep \/ ActionArrives \/ ActionStep \/ BrowserArrives \/ BrowserStep
           \/ SweepStarts \/ SweepStep \/ Grant \/ Spawn
  <2>1. UNCHANGED <<req, server>>
    BY <1>1, ServerKept
  <2>2. CASE server = "up"
    <3>1. SessionUp
      BY <2>2 DEF SessionInv
    <3>2. CASE ActionArrives \/ BrowserArrives \/ SweepStarts
      <4>1. UNCHANGED <<row, provider>> /\ \E a \in Actors : pc[a] \in Asleep /\ Ask(a)
        BY <3>2 DEF ActionArrives, BrowserArrives, SweepStarts, session_vars
      <4> QED
        BY <2>1, <2>2, <3>1, <4>1, SessionAsks DEF SessionInv
    <3>3. CASE Grant
      <4>1. waiting \in Seq(Actors) /\ waiting # <<>>
        BY <3>3 DEF Grant, IInv, LockInv, LockTypes
      <4>2. PICK a \in Actors : a = Head(waiting)
        BY <4>1
      <4>3. /\ holder = None /\ holder' = a /\ pc' = [pc EXCEPT ![a] = "locked"]
            /\ UNCHANGED <<row, provider>>
        BY <3>3, <4>2 DEF Grant, session_vars
      <4>4. \A b \in Actors \ {a} : ~Active(b)'
        BY <1>0, <4>3, ConstantsAssumption DEF IInv, LockInv, Locked, Active
      <4>5. Payable' /\ AtRest'
        BY <2>1, <3>1, <4>3 DEF SessionUp, Payable, AtRest, Live
      <4>6. SessionPlace(a)'
        BY <1>0, <4>3, <4>5 DEF SessionPlace, SearchedPCs
      <4>7. SessionUp'
        BY <4>3, <4>4, <4>5, <4>6 DEF SessionUp
      <4> QED
        BY <2>1, <2>2, <4>7 DEF SessionInv
    <3>4. CASE Spawn
      <4>1. /\ UNCHANGED <<row, provider, holder, copy>> /\ pc["poll"] = "idle"
            /\ pc' = [pc EXCEPT !["poll"] = "start"]
        BY <3>4 DEF Spawn, session_vars
      <4>2. ~Active("poll")' /\ \A b \in Actors \ {"poll"} : pc'[b] = pc[b]
        BY <1>0, <4>1 DEF Active
      <4>3. SessionUp'
        BY <2>1, <3>1, <4>1, <4>2
           DEF SessionUp, SessionPlace, Payable, AtRest, Live, Active, SearchedPCs
      <4> QED
        BY <2>1, <2>2, <4>3 DEF SessionInv
    <3> QED
      BY <1>1, <2>1, <2>2, <3>1, <3>2, <3>3, <3>4, PollSession, ActionSession, BrowserSession,
         SweepSession DEF SessionInv
  <2>3. CASE server = "stopping"
    BY <2>1, <2>3 DEF SessionInv
  <2>4. CASE server = "down"
    <3>1. \A a \in Actors : pc[a] = "idle"
      BY <2>4 DEF IInv, LockInv, Quiet
    <3>2. UNCHANGED provider
      BY <1>1, <2>4, <3>1
         DEF PollStep, PollAsks, PollSkips, PollFindsWindowOver, PollGoesAhead, PollOpens,
             PollCannotRestore, PollFindsBusy, PollFails, PollNeedsAttention, PollExpires,
             SearchReturns, PollFindsNothing, PollPicks, PollLacksSeats, PollReadsSeatMap,
             PollPreflights, PrepareBegins, PrepareSelectsSeats, PrepareProceeds, PrepareSucceeds,
             PrepareFails, PrepareEnds, InspectConfirms, PollFindsPaymentOver, PollAwaitsPayment,
             Notes, Releases, Discards, PollDiscardFails, ActionArrives, ActionStep,
             ActionRefused, Pause, Resume, Cancel, DemoPay, Close, ReconnectStarts,
             ReconnectFindsNothing, ReconnectRestores, ReconnectFails, ReconnectUnconfirmed,
             ReconnectInspectionFails, ActionDiscardFails, BrowserArrives, BrowserStep,
             BrowserRefused, BrowserStarts, GestureIsVerification, GestureMaySelect, GestureMade,
             BrowserEnds, GestureConfirms, GestureUnconfirmed, SweepStarts, SweepStep, Sweeps,
             SweepDies, Grant, Spawn, At, session_vars
    <3> QED
      BY <2>1, <2>4, <3>2 DEF SessionInv
  <2> QED
    BY <2>2, <2>3, <2>4 DEF IInv, LockInv, LockTypes
<1>2. CASE Tick \/ UNCHANGED vars
  <2>1. UNCHANGED <<req, server, row, provider, holder, pc, copy>>
    BY <1>2 DEF Tick, lock_vars, vars
  <2> QED
    BY <2>1 DEF SessionInv, SessionUp, SessionPlace, Payable, AtRest, Live, Active, SearchedPCs
<1>3. CASE Stop \/ TaskCancelled("poll") \/ TaskCancelled("sweep")
  <2>1. server' = "stopping"
    BY <1>3 DEF Stop, TaskCancelled, server_vars
  <2> QED
    BY <2>1 DEF SessionInv
<1>4. CASE Shutdown \/ Crash
  <2>1. server' = "down" /\ provider' = "none"
    BY <1>4 DEF Shutdown, Crash
  <2> QED
    BY <2>1 DEF SessionInv
<1>5. CASE Restart
  <2>1. /\ provider' = "none" /\ server' = "up" /\ row' = Recovered(row)
        /\ UNCHANGED <<req, holder, pc>> /\ \A a \in Actors : pc[a] = "idle"
    BY <1>5 DEF Restart, SessionInv, session_vars, lock_vars, IInv, LockInv, Quiet
  <2>2. Live' => row'.status # "AWAITING_PAYMENT"
    BY <2>1, RecoveredFields DEF IInv, DataInv, Live
  <2>3. SessionUp'
    BY <2>1, <2>2 DEF SessionUp, Payable, AtRest, Active
  <2> QED
    BY <2>1, <2>3 DEF SessionInv
<1> HIDE DEF Actors, PCs, Asleep, PreparingPCs
<1> QED
  BY <1>1, <1>2, <1>3, <1>4, <1>5 DEF Next, ServerStep

LEMMA SessionInvariant == SafetySpec => []SessionInv
<1>1. Init => SessionInv
  BY DEF Init, SessionInv, SessionUp, Payable, AtRest, Active, Asleep
<1> QED
  BY <1>1, SessionStep, Inductive, PTL DEF SafetySpec

\* A live booking that waits for its payment can be paid: the browser page
\* it was prepared in is open, whatever was stopped, swept or restarted.
THEOREM PayablePageOpen == SafetySpec => []PayableHasSession
<1>1. SessionInv => PayableHasSession
  BY DEF SessionInv, SessionUp, Payable, PayableHasSession
<1> QED
  BY <1>1, SessionInvariant, PTL

\* A watched, paused or ended request keeps no browser.
THEOREM RestingWithoutBrowser == SafetySpec => []WatchedHoldNoBrowser
<1>1. SessionInv => WatchedHoldNoBrowser
  BY DEF SessionInv, SessionUp, AtRest, Resting, WatchedHoldNoBrowser
<1> QED
  BY <1>1, SessionInvariant, PTL
=============================================================================
