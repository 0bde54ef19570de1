----------------------------- MODULE BookingJob -----------------------------
(***************************************************************************)
(* One booking request and everything that acts on it: the polling task of *)
(* the worker (src/website/worker.py), the owner's actions and the         *)
(* owner's gestures in the provider's page (src/website/app.py), the sweep *)
(* of idle sessions, and the stop, crash and restart of the server.        *)
(*                                                                         *)
(* The four actors are coroutines of one event loop.  They share the       *)
(* stored row, the provider session, the saved checkpoint and one          *)
(* asyncio.Lock; a step of an actor runs from one await to the next.       *)
(* Other requests reach this one only through the browser budget, whose    *)
(* exhaustion is an outcome of opening a browser here.                     *)
(***************************************************************************)
EXTENDS Integers, Sequences

CONSTANTS
    Offers,           \* listed departures at a given fare ("id:unit_fare")
    Cutoff,           \* departure less the departure buffer, per offer
    Requests,         \* the requests a run considers
    Horizon,          \* bound: the clock stops there
    PayWindow,        \* clock units a prepared booking waits for its payment
    MaxStops,         \* bound: stops and crashes of the server
    CloseFaults,      \* closing a browser may raise
    LoginFrameStable, \* the login frame does not vanish under a gesture
    None              \* an absent value

Request == [mode: {"live", "demo"}, monitorOnly: BOOLEAN, exact: BOOLEAN,
            seats: {"none", "any", "wait"}, after: Nat, before: Nat]

Actors == {"poll", "action", "browser", "sweep"}

ASSUME ConstantsAssumption ==
    /\ Cutoff \in [Offers -> Nat]
    /\ Requests \subseteq Request
    /\ \A r \in Requests :
          /\ r.after < r.before                             \* BookingRequest.coherent
          /\ r.monitorOnly => r.mode = "live"               \* app.jobs picks the mode
          /\ r.seats # "none" => r.exact /\ r.mode = "live"
    /\ Horizon \in Nat /\ PayWindow \in Nat /\ MaxStops \in Nat
    /\ CloseFaults \in BOOLEAN /\ LoginFrameStable \in BOOLEAN
    /\ None \notin Offers \cup Nat \cup Actors

VARIABLES
    req,       \* the request as submitted; never changes
    now,       \* the clock
    server,    \* "up", "stopping" (graceful shutdown) or "down"
    looping,   \* the worker's run loop is alive
    stops,     \* stops and crashes so far
    row,       \* the stored row of the request
    provider,  \* "none", "closed" (object without a page) or "open"
    idle,      \* the session has not been touched for the idle limit
    vault,     \* a session checkpoint is saved on disk
    holder,    \* who holds the request's lock
    waiting,   \* who waits for it, first come first served
    pc,        \* where each actor is
    copy,      \* each actor's copy of the row, read under the lock
    best,      \* the offer the polling task works on and when it was listed
    held,      \* ghost: seats may have been selected at the provider
    prepares,  \* ghost: automatic preparations begun
    observed   \* ghost: the offer of the last completed observation

server_vars == <<req, now, server, looping, stops>>
session_vars == <<provider, idle, vault>>
lock_vars == <<holder, waiting, pc, copy, best>>
ghost_vars == <<held, prepares, observed>>
vars == <<req, now, server, looping, stops, row, provider, idle, vault,
          holder, waiting, pc, copy, best, held, prepares, observed>>

MONITORED == {"SCHEDULED", "MONITORING"}
Statuses == MONITORED \cup {"PAUSED", "PREPARING", "AWAITING_PAYMENT",
                            "NEEDS_ATTENTION", "CONFIRMED", "CANCELLED", "EXPIRED"}
\* The states in which the owner may use the provider's page.
MANUAL == {"NEEDS_ATTENTION", "AWAITING_PAYMENT", "CONFIRMED"}

MaxErrors == 3

\* The columns and the members of "data" that control flow reads.
Rows == [status: Statuses, errors: 0..MaxErrors, confirmed_offer: Offers \cup {None},
         reservation_attempted: BOOLEAN, offer: Offers \cup {None},
         expires_at: Nat \cup {None}]

\* Awaits of the polling task once PREPARING is stored ("preparing" is true).
PreparingPCs == {"persisted", "preparing", "holding", "review", "prepared"}
PCs == {"idle", "start", "wait", "locked", "search", "seatmap", "preflight",
        "inspect", "note", "release", "discard", "restore", "screenshot",
        "gesture", "verified", "manual", "outcome"} \cup PreparingPCs

TypeOK ==
    /\ req \in Requests
    /\ now \in 0..Horizon
    /\ server \in {"up", "stopping", "down"}
    /\ looping \in BOOLEAN
    /\ stops \in 0..MaxStops
    /\ row \in Rows
    /\ provider \in {"none", "closed", "open"}
    /\ idle \in BOOLEAN
    /\ vault \in BOOLEAN
    /\ holder \in Actors \cup {None}
    /\ waiting \in Seq(Actors)
    /\ pc \in [Actors -> PCs]
    /\ copy \in [Actors -> Rows \cup {None}]
    /\ best \in [offer: Offers, at: Nat] \cup {None}
    /\ held \in BOOLEAN
    /\ prepares \in Nat
    /\ observed \in Offers \cup {None}

Init ==
    /\ req \in Requests
    /\ now = 0
    /\ server = "up"
    /\ looping = TRUE
    /\ stops = 0
    /\ row = [status |-> "SCHEDULED", errors |-> 0, confirmed_offer |-> None,
              reservation_attempted |-> FALSE, offer |-> None, expires_at |-> None]
    /\ provider = "none"
    /\ idle = FALSE
    /\ vault = FALSE
    /\ holder = None
    /\ waiting = <<>>
    /\ pc = [a \in Actors |-> "idle"]
    /\ copy = [a \in Actors |-> None]
    /\ best = None
    /\ held = FALSE
    /\ prepares = 0
    /\ observed = None

-----------------------------------------------------------------------------
(* The per-request lock, an asyncio.Lock: a free lock with waiters goes to *)
(* the first of them, although locked() already says it is free.           *)

\* a asks for the lock and gets it at once or queues.
Ask(a) ==
    IF holder = None /\ waiting = <<>>
    THEN /\ holder' = a
         /\ pc' = [pc EXCEPT ![a] = "locked"]
         /\ copy' = [copy EXCEPT ![a] = row]
         /\ UNCHANGED waiting
    ELSE /\ waiting' = Append(waiting, a)
         /\ pc' = [pc EXCEPT ![a] = "wait"]
         /\ UNCHANGED <<holder, copy>>

\* The first waiter gets the free lock and reads the row again.
Grant ==
    /\ holder = None
    /\ waiting # <<>>
    /\ holder' = Head(waiting)
    /\ waiting' = Tail(waiting)
    /\ pc' = [pc EXCEPT ![Head(waiting)] = "locked"]
    /\ copy' = [copy EXCEPT ![Head(waiting)] = row]
    /\ UNCHANGED <<server_vars, session_vars, ghost_vars, row, best>>

\* Mutant: the lock is not given back.
LeaveMutant(a) ==
    /\ pc' = [pc EXCEPT ![a] = "idle"]
    /\ UNCHANGED <<holder, copy, best, waiting>>

\* The end of "async with lock".
Leave(a) ==
    /\ holder' = None
    /\ pc' = [pc EXCEPT ![a] = "idle"]
    /\ copy' = [copy EXCEPT ![a] = None]
    /\ best' = IF a = "poll" THEN None ELSE best
    /\ UNCHANGED waiting

\* a goes on to its next await with its local data set to c.
GoesOn(a, label, c) ==
    /\ pc' = [pc EXCEPT ![a] = label]
    /\ copy' = [copy EXCEPT ![a] = c]
    /\ UNCHANGED <<holder, waiting>>

At(a, label) == server # "down" /\ pc[a] = label

\* A checkpoint succeeds only for an open page at a supported address; any
\* failure leaves the saved one as it was.
Checkpoint == vault' \in (IF provider = "open" THEN {vault, TRUE} ELSE {vault})

\* Restoring from the saved checkpoint: it may have expired (and is then
\* deleted) or be unreadable.
VaultLoads(state) ==
    \/ state = "saved" /\ vault /\ UNCHANGED vault
    \/ state = "none" /\ vault' = FALSE
    \/ state = "unreadable" /\ vault /\ UNCHANGED vault

-----------------------------------------------------------------------------
(* The polling task: BookingWorker.process.                                *)

Live == req.mode = "live"

\* What is stored when a person must take over.  Mutant: it is retried.
HandedOverMutant(c) == [c EXCEPT !.status = "MONITORING"]
HandedOver(c) == [c EXCEPT !.status = "NEEDS_ATTENTION"]

\* A store that changes only the status.
WithStatus(c, status) == [c EXCEPT !.status = status]

\* Mutant: the window's last moment still belongs to it.
WindowOverMutant == now > req.before
WindowOver == now >= req.before

\* The last moment at which seats of offer o may be selected.
Deadline(o) == IF req.before <= Cutoff[o] THEN req.before ELSE Cutoff[o]

\* The statuses that are polled.  Mutants: not the payments; a request only once.
DueUnpaidMutant(c) == c.status \in MONITORED
DueOnceMutant(c) == c.status \in {"SCHEDULED", "AWAITING_PAYMENT"}
Due(c) == c.status \in MONITORED \cup {"AWAITING_PAYMENT"}

\* The run loop creates a task for a due request whose lock looks free.  A
\* sweep that waits for the lock holds up the loop.
Spawn ==
    /\ server = "up" /\ looping /\ pc["poll"] = "idle" /\ pc["sweep"] = "idle"
    /\ holder = None /\ Due(row)
    /\ pc' = [pc EXCEPT !["poll"] = "start"]
    /\ UNCHANGED <<server_vars, session_vars, ghost_vars, row, holder, waiting, copy, best>>

PollAsks ==
    /\ At("poll", "start") /\ Ask("poll")
    /\ UNCHANGED <<server_vars, session_vars, ghost_vars, row, best>>

\* The request changed between the task's creation and its turn.
PollSkips ==
    /\ At("poll", "locked") /\ ~Due(copy["poll"])
    /\ Leave("poll")
    /\ UNCHANGED <<server_vars, session_vars, ghost_vars, row>>

\* The task's expire(): the status is stored first, then the session discarded.
\* The local data keeps the error count that was read under the lock.
Expired(c, errors) == [c EXCEPT !.status = "EXPIRED", !.errors = errors]
Expires(errors) ==
    /\ row' = Expired(copy["poll"], errors)
    /\ GoesOn("poll", "discard", copy["poll"])
    /\ UNCHANGED best

PollFindsWindowOver ==
    /\ At("poll", "locked") /\ copy["poll"].status \in MONITORED /\ WindowOver
    /\ Expires(copy["poll"].errors)
    /\ UNCHANGED <<server_vars, session_vars, ghost_vars>>

\* Mutant: the status is not looked at again under the lock.
PollGoesAheadMutant ==
    At("poll", "locked") /\ (copy["poll"].status = "AWAITING_PAYMENT" \/ ~WindowOver)

PollGoesAhead ==
    /\ At("poll", "locked")
    /\ \/ copy["poll"].status = "AWAITING_PAYMENT"
       \/ copy["poll"].status \in MONITORED /\ ~WindowOver

\* get_provider(): a new provider takes over the saved session, if any.
PollOpens ==
    /\ PollGoesAhead
    /\ IF provider = "none"
       THEN /\ provider' = "closed"
            /\ idle' = FALSE
            /\ IF Live THEN VaultLoads("saved") \/ VaultLoads("none") ELSE UNCHANGED vault
       ELSE UNCHANGED session_vars
    /\ GoesOn("poll", IF copy["poll"].status = "AWAITING_PAYMENT" THEN "inspect" ELSE "search",
              copy["poll"])
    /\ UNCHANGED <<server_vars, ghost_vars, row, best>>

\* get_provider() raises: the saved session is unreadable.  The provider was
\* registered before the attempt and stays registered.
PollCannotRestore ==
    /\ PollGoesAhead /\ Live /\ provider = "none" /\ VaultLoads("unreadable")
    /\ provider' = "closed" /\ idle' = FALSE
    /\ row' = HandedOver(copy["poll"])
    /\ GoesOn("poll", "note", copy["poll"])
    /\ UNCHANGED <<server_vars, ghost_vars, best>>

\* ProviderBusy: no free browser.  The row is written back as it was read.
PollFindsBusy ==
    /\ At("poll", "search") /\ Live /\ provider = "closed"
    /\ row' = copy["poll"]
    /\ GoesOn("poll", "release", copy["poll"])
    /\ UNCHANGED <<server_vars, session_vars, ghost_vars, best>>

\* What the task stores after one more error: the third needs attention.
\* Mutant: it comes one error too late.
FailedMutant(c) == IF c.errors < MaxErrors THEN [c EXCEPT !.errors = @ + 1] ELSE
    HandedOver([c EXCEPT !.errors = @ + 1])
Failed(c) ==
    LET f == [c EXCEPT !.errors = c.errors + 1]
    IN IF f.errors >= MaxErrors THEN HandedOver(f) ELSE f

\* Mutant: the browser is kept between observations.
EndsPollMutant(status) == Leave("poll")

\* The task's "finally": only monitoring gives its browser back.
EndsPoll(status) ==
    IF status \in MONITORED THEN GoesOn("poll", "release", copy["poll"]) /\ UNCHANGED best
                            ELSE Leave("poll")

\* An error or a timeout of the provider before anything was prepared.
PollFails ==
    /\ \/ At("poll", "search") /\ provider' \in {provider, "open"}
       \/ (At("poll", "seatmap") \/ At("poll", "preflight")) /\ UNCHANGED provider
       \/ At("poll", "inspect") /\ provider = "open" /\ UNCHANGED provider
    /\ Live
    /\ row' = Failed(copy["poll"])
    /\ EndsPoll(Failed(copy["poll"]).status)
    /\ UNCHANGED <<server_vars, ghost_vars, idle, vault>>

\* NeedsAttention: the provider asks for verification or a sign-in.
PollNeedsAttention ==
    /\ At("poll", "search") \/ At("poll", "seatmap") \/ At("poll", "preflight")
    /\ Live
    /\ provider' = "open"
    /\ row' = HandedOver([copy["poll"] EXCEPT !.errors = IF pc["poll"] = "search" THEN @ ELSE 0])
    /\ GoesOn("poll", "note", copy["poll"])
    /\ UNCHANGED <<server_vars, ghost_vars, idle, vault, best>>

\* A search that returns leaves the live provider's page open.
SearchReturns ==
    /\ At("poll", "search")
    /\ provider' = IF Live THEN "open" ELSE provider
    /\ UNCHANGED <<server_vars, idle, vault, held, prepares>>

\* The window ended during the search, or every listed departure of a request
\* for an exact departure is past its cutoff.
PollExpires ==
    /\ SearchReturns
    /\ \/ WindowOver
       \/ req.exact /\ \E listed \in SUBSET Offers \ {{}} : \A o \in listed : now >= Cutoff[o]
    /\ Expires(0)
    /\ UNCHANGED observed

\* The task stores status s and the confirmed offer o and gives its browser back.
Observed(c, s, o) == [c EXCEPT !.status = s, !.errors = 0, !.confirmed_offer = o]
Stores(s, o) ==
    /\ row' = Observed(copy["poll"], s, o)
    /\ GoesOn("poll", "release", copy["poll"])
    /\ UNCHANGED best

Watching(t) == IF t >= req.after THEN "MONITORING" ELSE "SCHEDULED"

\* No listed departure matches: an earlier observation no longer counts.
PollFindsNothing ==
    /\ SearchReturns /\ ~WindowOver /\ Stores(Watching(now), None)
    /\ observed' = None

\* From "is the window open" to the second observation: the cases in which
\* the task only watches the offer o.
OnlyWatches(o) ==
    /\ \/ /\ now < req.after
          /\ Stores("SCHEDULED", copy["poll"].confirmed_offer)
       \/ /\ now >= req.after /\ req.monitorOnly
          /\ Stores("MONITORING", copy["poll"].confirmed_offer)
       \/ /\ now >= req.after /\ ~req.monitorOnly
          /\ copy["poll"].confirmed_offer # o
          /\ Stores("MONITORING", o)
    /\ observed' = o

SecondObservation(o) ==
    /\ now >= req.after /\ ~req.monitorOnly /\ copy["poll"].confirmed_offer = o

\* The boundary of uncertainty: PREPARING and the attempt are stored before
\* any operation that can hold seats.  Mutant: the attempt is not stored.
AttemptMutant(c, o) == [c EXCEPT !.status = "PREPARING", !.errors = 0, !.offer = o]
Attempt(c, o) ==
    [c EXCEPT !.status = "PREPARING", !.errors = 0, !.offer = o, !.reservation_attempted = TRUE]

Commits(o) ==
    IF now >= Deadline(o)
    THEN Expires(0)
    ELSE /\ row' = Attempt(copy["poll"], o)
         /\ GoesOn("poll", "persisted", row')
         /\ UNCHANGED best

\* The cheapest match of the search is o.
PollPicks(o) ==
    /\ SearchReturns /\ ~WindowOver /\ now < Cutoff[o]
    /\ IF req.seats # "none" \/ SecondObservation(o)
       THEN /\ GoesOn("poll", IF req.seats # "none" THEN "seatmap" ELSE "preflight", copy["poll"])
            /\ best' = [offer |-> o, at |-> now]
            /\ UNCHANGED <<row, observed>>
       ELSE OnlyWatches(o)

\* The preferred seats are not free and the owner wants no others.  The
\* clock was read before the seat map was.
PollLacksSeats ==
    /\ At("poll", "seatmap") /\ req.seats = "wait" /\ Stores(Watching(best.at), None)
    /\ observed' = None
    /\ UNCHANGED <<server_vars, session_vars, held, prepares>>

PollReadsSeatMap ==
    /\ At("poll", "seatmap")
    /\ \/ SecondObservation(best.offer) /\ Commits(best.offer) /\ UNCHANGED observed
       \/ OnlyWatches(best.offer)
    /\ UNCHANGED <<server_vars, session_vars, held, prepares>>

PollPreflights ==
    /\ At("poll", "preflight") /\ Commits(best.offer)
    /\ UNCHANGED <<server_vars, session_vars, ghost_vars>>

-----------------------------------------------------------------------------
(* Preparing: from the stored PREPARING to the payment page.               *)

\* The checkpoint is saved (or fails) and provider.prepare() begins.
PrepareBegins ==
    /\ At("poll", "persisted") /\ Checkpoint
    /\ prepares' = prepares + 1
    /\ GoesOn("poll", "preparing", copy["poll"])
    /\ UNCHANGED <<server_vars, row, provider, idle, best, held, observed>>

\* Mutant: the departure cutoff is forgotten.
EnsureDeadlineMutant(o) == ~WindowOver
EnsureDeadline(o) == now < Deadline(o)

\* ensure_deadline() guards every click of the provider: on the seats...
PrepareSelectsSeats ==
    /\ At("poll", "preparing") /\ Live /\ EnsureDeadline(best.offer)
    /\ held' = TRUE
    /\ GoesOn("poll", "holding", copy["poll"])
    /\ UNCHANGED <<server_vars, session_vars, row, best, prepares, observed>>

\* ... and on the buttons that lead to the payment review.
PrepareProceeds ==
    /\ At("poll", "holding") /\ EnsureDeadline(best.offer)
    /\ GoesOn("poll", "review", copy["poll"])
    /\ UNCHANGED <<server_vars, session_vars, ghost_vars, row, best>>

\* prepare() returned: stored with the payment deadline, if one is shown.
Prepared(c, t) == [c EXCEPT !.status = "AWAITING_PAYMENT", !.expires_at = t]
PrepareSucceeds ==
    /\ At("poll", IF Live THEN "review" ELSE "preparing")
    /\ \E t \in IF Live THEN {None, now + PayWindow} ELSE {now + PayWindow} :
          row' = Prepared(copy["poll"], t)
    /\ GoesOn("poll", "prepared", row')
    /\ idle' = FALSE
    /\ UNCHANGED <<server_vars, provider, vault, ghost_vars, best>>

\* A cutoff, a changed page or fare, a timeout: the outcome is unknown.
PrepareFails ==
    /\ At("poll", "preparing") \/ At("poll", "holding") \/ At("poll", "review")
    /\ Live
    /\ row' = HandedOver(copy["poll"])
    /\ GoesOn("poll", "note", copy["poll"])
    /\ UNCHANGED <<server_vars, session_vars, ghost_vars, best>>

PrepareEnds ==
    /\ At("poll", "prepared") /\ Checkpoint /\ Leave("poll")
    /\ UNCHANGED <<server_vars, row, provider, idle, ghost_vars>>

-----------------------------------------------------------------------------
(* inspect_payment(), by the polling task or by a reconnect.               *)

\* Only a page in which seats were selected can show a confirmed booking.
ShowsConfirmation == provider = "open" /\ held

PaymentOver(c) == c.expires_at # None /\ now >= c.expires_at

InspectConfirms(a) ==
    /\ At(a, "inspect") /\ ShowsConfirmation
    /\ row' = WithStatus(copy[a], "CONFIRMED")
    /\ GoesOn(a, "note", copy[a])
    /\ UNCHANGED <<server_vars, session_vars, ghost_vars, best>>

\* The deadline passed or the page says so.  A live payment may still have
\* been made, so a person must reconcile it; a demo simply expires.
PollFindsPaymentOver ==
    /\ At("poll", "inspect")
    /\ PaymentOver(copy["poll"]) \/ provider = "open"
    /\ IF Live
       THEN /\ row' = HandedOver(copy["poll"])
            /\ GoesOn("poll", "note", copy["poll"])
            /\ UNCHANGED best
       ELSE Expires(copy["poll"].errors)
    /\ UNCHANGED <<server_vars, session_vars, ghost_vars>>

PollAwaitsPayment ==
    /\ At("poll", "inspect") /\ ~PaymentOver(copy["poll"])
    /\ row' = WithStatus(copy["poll"], "AWAITING_PAYMENT")
    /\ Leave("poll")
    /\ UNCHANGED <<server_vars, session_vars, ghost_vars>>

-----------------------------------------------------------------------------
(* The owner's actions: action() in app.py.  Each accepted one is stored   *)
(* before the provider session is released.                                *)

\* Mutant: what was attempted does not matter.
MayResumeMutant(c) == c.status \in {"PAUSED", "NEEDS_ATTENTION"} /\ ~WindowOver

\* Mutant: an expired request can be closed again.
MayCloseMutant(c) == c.status \in MANUAL \cup {"EXPIRED"}

MayPause(c) == c.status \in MONITORED
MayResume(c) ==
    /\ c.status \in {"PAUSED", "NEEDS_ATTENTION"}
    /\ ~c.reservation_attempted /\ c.offer = None /\ ~WindowOver
MayReconnect(c) == Live /\ c.status \in MANUAL
MayCancel(c) == c.status \in MONITORED \cup {"PAUSED"}
MayDemoPay(c) == ~Live /\ c.status = "AWAITING_PAYMENT" /\ ~PaymentOver(c)
MayClose(c) == c.status \in MANUAL

Accepts(c) ==
    MayPause(c) \/ MayResume(c) \/ MayReconnect(c) \/ MayCancel(c) \/ MayDemoPay(c) \/ MayClose(c)

\* A request that finds the lock taken, or nothing to do, is refused at once
\* and changes nothing.
ActionArrives ==
    /\ server = "up" /\ pc["action"] = "idle" /\ holder = None /\ Accepts(row)
    /\ Ask("action")
    /\ UNCHANGED <<server_vars, session_vars, ghost_vars, row, best>>

\* The row changed while the request waited.
ActionRefused ==
    /\ At("action", "locked") /\ ~Accepts(copy["action"]) /\ Leave("action")
    /\ UNCHANGED <<server_vars, session_vars, ghost_vars, row>>

\* An action that stores c and then releases or discards the session.
ActionStores(c, next) ==
    /\ row' = c
    /\ GoesOn("action", next, copy["action"])
    /\ UNCHANGED <<server_vars, session_vars, held, prepares, best>>

Pause ==
    /\ At("action", "locked") /\ MayPause(copy["action"])
    /\ ActionStores(WithStatus(copy["action"], "PAUSED"), "release")
    /\ UNCHANGED observed

\* A resumed request starts over.  Mutant: an old observation still counts.
ResumedMutant(c) == [c EXCEPT !.status = "SCHEDULED", !.errors = 0]
Resumed(c) == [c EXCEPT !.status = "SCHEDULED", !.errors = 0, !.confirmed_offer = None]

Resume ==
    /\ At("action", "locked") /\ MayResume(copy["action"])
    /\ ActionStores(Resumed(copy["action"]), "release")
    /\ observed' = None

Cancel ==
    /\ At("action", "locked") /\ MayCancel(copy["action"])
    /\ ActionStores(WithStatus(copy["action"], "CANCELLED"), "discard")
    /\ UNCHANGED observed

DemoPay ==
    /\ At("action", "locked") /\ MayDemoPay(copy["action"])
    /\ ActionStores(WithStatus(copy["action"], "CONFIRMED"), "release")
    /\ UNCHANGED observed

\* Closing discards our session; a confirmed booking stays confirmed.
Close ==
    /\ At("action", "locked") /\ MayClose(copy["action"])
    /\ ActionStores(IF copy["action"].status = "CONFIRMED" THEN row
                    ELSE WithStatus(copy["action"], "CANCELLED"), "discard")
    /\ UNCHANGED observed

\* reconnect() with a registered session only inspects it; without one it
\* restores the checkpoint into a new provider.
ReconnectStarts ==
    /\ At("action", "locked") /\ MayReconnect(copy["action"])
    /\ IF provider # "none"
       THEN UNCHANGED <<provider, vault>> /\ GoesOn("action", "inspect", copy["action"])
       ELSE /\ VaultLoads("saved")
            /\ provider' = "closed"
            /\ GoesOn("action", "restore", copy["action"])
    /\ idle' = FALSE
    /\ UNCHANGED <<server_vars, row, ghost_vars, best>>

ReconnectFindsNothing ==
    /\ At("action", "locked") /\ MayReconnect(copy["action"]) /\ provider = "none"
    /\ VaultLoads("none") \/ VaultLoads("unreadable")
    /\ Leave("action")
    /\ UNCHANGED <<server_vars, row, provider, idle, ghost_vars>>

ReconnectRestores ==
    /\ At("action", "restore")
    /\ provider' = "open" /\ idle' = FALSE
    /\ GoesOn("action", "inspect", copy["action"])
    /\ UNCHANGED <<server_vars, row, vault, ghost_vars, best>>

\* No free browser, an error or a timeout: the new provider is released.
ReconnectFails ==
    /\ At("action", "restore")
    /\ provider' = "none" /\ idle' = FALSE
    /\ Leave("action")
    /\ UNCHANGED <<server_vars, row, vault, ghost_vars>>

\* No confirmation in the restored page: a person must review it, unless the
\* booking was confirmed before.  Mutant: even then.
ReviewedMutant(c) == HandedOver(c)
Reviewed(c) == IF c.status = "CONFIRMED" THEN c ELSE HandedOver(c)

ReconnectUnconfirmed ==
    /\ At("action", "inspect")
    /\ row' = Reviewed(copy["action"])
    /\ \/ /\ copy["action"].status = "CONFIRMED" \/ ~PaymentOver(copy["action"])
          /\ Leave("action")
       \/ /\ copy["action"].status # "CONFIRMED"
          /\ PaymentOver(copy["action"]) \/ provider = "open"
          /\ GoesOn("action", "note", copy["action"])
          /\ UNCHANGED best
    /\ UNCHANGED <<server_vars, session_vars, ghost_vars>>

\* The inspection itself fails or times out: nothing is stored.
ReconnectInspectionFails ==
    /\ At("action", "inspect") /\ provider = "open" /\ Leave("action")
    /\ UNCHANGED <<server_vars, session_vars, ghost_vars, row>>

-----------------------------------------------------------------------------
(* The owner's gestures in the provider's page: browser() in app.py.       *)

BrowserArrives ==
    /\ server = "up" /\ pc["browser"] = "idle"
    /\ Live /\ row.status \in MANUAL /\ provider # "none" /\ Ask("browser")
    /\ UNCHANGED <<server_vars, session_vars, ghost_vars, row, best>>

\* The request or its session changed while the gesture waited.
BrowserRefused ==
    /\ At("browser", "locked")
    /\ copy["browser"].status \notin MANUAL \/ provider = "none"
    /\ Leave("browser")
    /\ UNCHANGED <<server_vars, session_vars, ghost_vars, row>>

\* A gesture (POST) or a look at the page (GET): both keep the session alive.
BrowserStarts ==
    /\ At("browser", "locked") /\ copy["browser"].status \in MANUAL /\ provider # "none"
    /\ idle' = FALSE
    /\ \E next \in {"screenshot", IF copy["browser"].reservation_attempted THEN "manual"
                                  ELSE "gesture"} :
          GoesOn("browser", next, copy["browser"])
    /\ UNCHANGED <<server_vars, provider, vault, row, ghost_vars, best>>

\* verification_gesture() is true: the gesture stays in the login frame.
GestureIsVerification ==
    /\ At("browser", "gesture") /\ provider = "open"
    /\ GoesOn("browser", "verified", copy["browser"])
    /\ UNCHANGED <<server_vars, session_vars, ghost_vars, row, best>>

\* Any other gesture may select a seat: recorded before it is made.
Attempted(c) == [c EXCEPT !.reservation_attempted = TRUE]
GestureMaySelect ==
    /\ At("browser", "gesture")
    /\ row' = Attempted(copy["browser"])
    /\ GoesOn("browser", "manual", row')
    /\ UNCHANGED <<server_vars, session_vars, ghost_vars, best>>

\* manual_action(): the page may have changed since the gesture was judged.
GestureMade ==
    /\ At("browser", "verified") \/ At("browser", "manual")
    /\ provider = "open"
    /\ held' \in IF pc["browser"] = "verified" /\ LoginFrameStable THEN {held} ELSE {held, TRUE}
    /\ GoesOn("browser", "outcome", copy["browser"])
    /\ UNCHANGED <<server_vars, session_vars, row, best, prepares, observed>>

\* An invalid gesture, a closed page, an error; or the screenshot is taken.
BrowserEnds ==
    /\ \E label \in {"screenshot", "gesture", "verified", "manual"} : At("browser", label)
    /\ Leave("browser")
    /\ UNCHANGED <<server_vars, session_vars, ghost_vars, row>>

\* The page is checkpointed and inspected after the gesture.
GestureConfirms ==
    /\ At("browser", "outcome") /\ Checkpoint /\ ShowsConfirmation
    /\ row' = WithStatus(copy["browser"], "CONFIRMED")
    /\ Leave("browser")
    /\ UNCHANGED <<server_vars, provider, idle, ghost_vars>>

GestureUnconfirmed ==
    /\ At("browser", "outcome") /\ Checkpoint /\ Leave("browser")
    /\ UNCHANGED <<server_vars, row, provider, idle, ghost_vars>>

-----------------------------------------------------------------------------
(* The sweep of idle sessions: sweep_sessions(), in the run loop.          *)

SweepStarts ==
    /\ server = "up" /\ looping /\ pc["sweep"] = "idle" /\ provider # "none" /\ idle
    /\ holder = None /\ Ask("sweep")
    /\ UNCHANGED <<server_vars, session_vars, ghost_vars, row, best>>

Sweeps ==
    /\ At("sweep", "locked")
    /\ row' = IF copy["sweep"].status = "AWAITING_PAYMENT"
              THEN HandedOver(copy["sweep"]) ELSE row
    /\ GoesOn("sweep", "release", copy["sweep"])
    /\ UNCHANGED <<server_vars, session_vars, ghost_vars, best>>

-----------------------------------------------------------------------------
(* Steps that several actors share.                                        *)

\* touch() and checkpoint() after a request was handed over or confirmed.
Notes(a) ==
    /\ At(a, "note") /\ Checkpoint
    /\ idle' = FALSE
    /\ Leave(a)
    /\ UNCHANGED <<server_vars, row, provider, ghost_vars>>

\* release(preserve=True): checkpoint, forget the provider, close it.
Releases(a) ==
    /\ At(a, "release") /\ Checkpoint
    /\ provider' = "none" /\ idle' = FALSE
    /\ Leave(a)
    /\ UNCHANGED <<server_vars, row, ghost_vars>>

\* release(preserve=False): close the provider and delete the checkpoint.
Discards(a) ==
    /\ At(a, "discard")
    /\ provider' = "none" /\ idle' = FALSE /\ vault' = FALSE
    /\ Leave(a)
    /\ UNCHANGED <<server_vars, row, ghost_vars>>

CloseRaises == CloseFaults /\ provider = "open"

\* close() raises in a sweep: the exception ends the worker's run loop.
SweepDies ==
    /\ At("sweep", "release") /\ CloseRaises /\ Checkpoint
    /\ provider' = "none" /\ idle' = FALSE /\ looping' = FALSE
    /\ Leave("sweep")
    /\ UNCHANGED <<req, now, server, stops, row, ghost_vars>>

\* close() raises in an action: the checkpoint is not deleted.
ActionDiscardFails ==
    /\ At("action", "discard") /\ CloseRaises
    /\ provider' = "none" /\ idle' = FALSE
    /\ Leave("action")
    /\ UNCHANGED <<server_vars, row, vault, ghost_vars>>

\* close() raises in the task's expire(): the task takes it for an error of
\* the provider and stores the status it had read.
PollDiscardFails ==
    /\ At("poll", "discard") /\ CloseRaises
    /\ provider' = "none" /\ idle' = FALSE /\ row' = Failed(copy["poll"])
    /\ Leave("poll")
    /\ UNCHANGED <<server_vars, vault, ghost_vars>>

-----------------------------------------------------------------------------
(* The server: time, graceful shutdown, crash and restart.                 *)

Tick ==
    /\ now < Horizon
    /\ now' = now + 1
    /\ idle' \in IF provider = "none" THEN {idle} ELSE {idle, TRUE}
    /\ UNCHANGED <<req, server, looping, stops, row, provider, vault, lock_vars, ghost_vars>>

\* Requests in progress are finished before the shutdown begins.
Stop ==
    /\ server = "up" /\ stops < MaxStops /\ pc["action"] = "idle" /\ pc["browser"] = "idle"
    /\ server' = "stopping" /\ stops' = stops + 1
    /\ UNCHANGED <<req, now, looping, row, session_vars, lock_vars, ghost_vars>>

\* The worker's tasks are cancelled at their await: one that has not got the
\* lock yet just ends,
CancelledBeforeLock(a) ==
    /\ pc[a] \in {"start", "wait"}
    /\ IF pc[a] = "start" THEN UNCHANGED waiting
       ELSE \E k \in 1..Len(waiting) :
               /\ waiting[k] = a
               /\ waiting' = [i \in 1..(Len(waiting) - 1) |->
                                 IF i < k THEN waiting[i] ELSE waiting[i + 1]]
    /\ pc' = [pc EXCEPT ![a] = "idle"]
    /\ UNCHANGED <<session_vars, row, holder, copy, best>>

\* a preparation is handed over,
CancelledPreparing(a) ==
    /\ pc[a] \in PreparingPCs
    /\ row' = HandedOver(copy[a])
    /\ GoesOn(a, "note", copy[a])
    /\ UNCHANGED <<session_vars, best>>

\* a search is released,
CancelledSearching(a) ==
    /\ pc[a] \in {"search", "seatmap", "preflight"}
    /\ GoesOn(a, "release", copy[a])
    /\ UNCHANGED <<session_vars, row, best>>

\* and an inspection, a checkpoint or a release is cut short.
CancelledAtEnd(a) ==
    /\ pc[a] \in {"inspect", "note", "release", "discard"}
    /\ Leave(a)
    /\ provider' \in IF pc[a] \in {"release", "discard"} THEN {provider, "none"} ELSE {provider}
    /\ UNCHANGED <<row, idle, vault>>

TaskCancelled(a) ==
    /\ server = "stopping"
    /\ CancelledBeforeLock(a) \/ CancelledPreparing(a) \/ CancelledSearching(a) \/ CancelledAtEnd(a)
    /\ UNCHANGED <<server_vars, ghost_vars>>

\* close(): the remaining session is released and the lease given back.
Shutdown ==
    /\ server = "stopping" /\ pc["poll"] = "idle" /\ pc["sweep"] = "idle" /\ Checkpoint
    /\ provider' = "none" /\ idle' = FALSE /\ server' = "down" /\ looping' = FALSE
    /\ UNCHANGED <<req, now, stops, row, lock_vars, ghost_vars>>

\* Only the row and the checkpoint survive.
Crash ==
    /\ server # "down" /\ stops < MaxStops
    /\ stops' = stops + 1 /\ server' = "down" /\ looping' = FALSE /\ provider' = "none"
    /\ idle' = FALSE /\ holder' = None /\ waiting' = <<>> /\ pc' = [a \in Actors |-> "idle"]
    /\ copy' = [a \in Actors |-> None] /\ best' = None
    /\ UNCHANGED <<req, now, row, vault, ghost_vars>>

\* recover(): an interrupted preparation or a live payment needs a person.
\* Mutant: nothing is recovered.
RecoveredMutant(c) == c
Recovered(c) ==
    IF c.status = "PREPARING" \/ (Live /\ c.status = "AWAITING_PAYMENT")
    THEN HandedOver(Attempted(c))
    ELSE c

Restart ==
    /\ server = "down"
    /\ server' = "up" /\ looping' = TRUE /\ row' = Recovered(row)
    /\ UNCHANGED <<req, now, stops, session_vars, lock_vars, ghost_vars>>

-----------------------------------------------------------------------------

PollStep ==
    \/ PollAsks \/ PollSkips \/ PollFindsWindowOver \/ PollOpens \/ PollCannotRestore
    \/ PollFindsBusy \/ PollFails \/ PollNeedsAttention \/ PollExpires \/ PollFindsNothing
    \/ \E o \in Offers : PollPicks(o)
    \/ PollLacksSeats \/ PollReadsSeatMap \/ PollPreflights
    \/ PrepareBegins \/ PrepareSelectsSeats \/ PrepareProceeds \/ PrepareSucceeds
    \/ PrepareFails \/ PrepareEnds
    \/ InspectConfirms("poll") \/ PollFindsPaymentOver \/ PollAwaitsPayment
    \/ Notes("poll") \/ Releases("poll") \/ Discards("poll") \/ PollDiscardFails

ActionStep ==
    \/ ActionRefused \/ Pause \/ Resume \/ Cancel \/ DemoPay \/ Close
    \/ ReconnectStarts \/ ReconnectFindsNothing \/ ReconnectRestores \/ ReconnectFails
    \/ InspectConfirms("action") \/ ReconnectUnconfirmed \/ ReconnectInspectionFails
    \/ Notes("action") \/ Releases("action") \/ Discards("action") \/ ActionDiscardFails

BrowserStep ==
    \/ BrowserRefused \/ BrowserStarts \/ GestureIsVerification \/ GestureMaySelect
    \/ GestureMade \/ BrowserEnds \/ GestureConfirms \/ GestureUnconfirmed

SweepStep == Sweeps \/ Releases("sweep") \/ SweepDies

ServerStep ==
    \/ TaskCancelled("poll") \/ TaskCancelled("sweep") \/ Shutdown \/ Restart

Next ==
    \/ Grant \/ Spawn \/ PollStep
    \/ ActionArrives \/ ActionStep
    \/ BrowserArrives \/ BrowserStep
    \/ SweepStarts \/ SweepStep
    \/ Tick \/ Stop \/ Crash \/ ServerStep

\* The event loop runs every ready coroutine, awaits of the provider end by a
\* timeout, and the service manager restarts a server that is down.  Nothing
\* is assumed of the owner, of the clock, or of what the provider answers.
Fairness ==
    /\ WF_vars(Grant) /\ WF_vars(Spawn) /\ WF_vars(PollStep) /\ WF_vars(ActionStep)
    /\ WF_vars(BrowserStep) /\ WF_vars(SweepStep) /\ WF_vars(ServerStep)

SafetySpec == Init /\ [][Next]_vars
Spec == SafetySpec /\ Fairness

-----------------------------------------------------------------------------
(* Safety.                                                                 *)

\* Whatever fails, stops or is retried, provider.prepare() is begun at most
\* once for a request (worker.process, Store.recover, action "resume").
AtMostOnePreparation == prepares <= 1

\* As soon as a seat may have been selected, by the worker or by the owner,
\* the row says so: a crash at any moment leaves the truth on disk.
SelectionIsRecorded == held => row.reservation_attempted

\* Automation never works on a request that may hold seats: the watched and
\* the paused ones are untouched (Store.due, action "resume").
WatchedAreUntouched ==
    row.status \in MONITORED \cup {"PAUSED"} => ~row.reservation_attempted /\ row.offer = None

\* A live booking that waits for its payment can be paid: the browser page
\* it was prepared in is open (release, sweep_sessions, recover).
PayableHasSession ==
    server = "up" /\ Live /\ row.status = "AWAITING_PAYMENT" => provider = "open"

\* "Monitoring does not retain a Chrome process between observations", nor
\* does a paused or ended request: whoever leaves the lock has released it.
WatchedHoldNoBrowser ==
    /\ server = "up" /\ holder = None
    /\ row.status \in MONITORED \cup {"PAUSED", "EXPIRED", "CANCELLED"}
    => provider = "none"

\* What a paid or cancelled request is stays stored, whatever the polls and
\* gestures that were under way meanwhile had read.
SettledIsFinal ==
    [][row.status \in {"CONFIRMED", "CANCELLED"} => row'.status = row.status]_vars

\* The same for a request whose window or departure is over.
ExpiredIsFinal == [][row.status = "EXPIRED" => row'.status = "EXPIRED"]_vars

\* Only the owner ends a pause: no poll that was under way does.
PausedUntilOwnerActs ==
    [][row.status = "PAUSED" /\ row'.status # "PAUSED" => pc["action"] = "locked"]_vars

\* An automatic selection of seats comes inside the booking window and before
\* the departure cutoff, never for a request that only monitors, and after
\* its attempt was stored.
SelectsOnlyInWindow ==
    [][pc["poll"] = "preparing" /\ pc'["poll"] = "holding" =>
         /\ req.after <= now /\ now < req.before /\ now < Cutoff[row.offer]
         /\ ~req.monitorOnly
         /\ row.status = "PREPARING"]_vars

\* An offer is prepared only if the previous completed observation since the
\* request was submitted or resumed showed it too, at the same fare.
PreparesSecondObservation ==
    [][row.status # "PREPARING" /\ row'.status = "PREPARING" => observed = row'.offer]_vars

-----------------------------------------------------------------------------
(* Liveness.                                                               *)

\* A watched request whose window is over does not stay watched.
WindowEnds ==
    (row.status \in MONITORED /\ now >= req.before) ~> row.status \notin MONITORED

\* A payment deadline that passed does not leave an unattended request waiting.
\* (The run loop passes over a request whose lock is taken when it looks, so
\* an owner who never stops looking at the page can keep the poll away.)
PaymentResolves ==
    <>[](pc["action"] = "idle" /\ pc["browser"] = "idle") =>
      ((row.status = "AWAITING_PAYMENT" /\ PaymentOver(row)) ~> (row.status # "AWAITING_PAYMENT"))

\* A gesture that waits for the request's lock gets its turn.
GestureServed == (pc["browser"] = "wait") ~> (pc["browser"] # "wait")

\* A watched request is polled again ("Monitoring resumed.").
WatchedIsPolled ==
    (row.status \in MONITORED) ~> (pc["poll"] # "idle" \/ row.status \notin MONITORED)

-----------------------------------------------------------------------------
(* The promise to the owner.                                               *)

Phase ==
    CASE row.status \in MONITORED \cup {"PAUSED"} -> "open"
      [] row.status = "PREPARING" -> "attempting"
      [] row.status = "AWAITING_PAYMENT" -> "payable"
      [] row.status = "NEEDS_ATTENTION" -> "manual"
      [] row.status = "CONFIRMED" -> "paid"
      [] OTHER -> "closed"

Promise == INSTANCE Reservation WITH phase <- Phase, tried <- row.reservation_attempted

\* The program keeps the promise of module Reservation.
KeepsPromise == Promise!Spec
=============================================================================
