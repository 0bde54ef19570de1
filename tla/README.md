# SeatWatch: a verification development

SeatWatch watches Bangladeshi bus tickets and, on request, selects seats and fills in the
passengers' details up to the payment page, which it leaves to the owner. It has two
programs. The website (`src/website/`, React in `frontend/`) serves many users and is what
this development is mainly about; the original single-user monitor (`src/main.py` and the
packages beside it) drives a browser through an external tool server and hands over to a
person before checkout.

The one thing that must not go wrong is a second reservation. Seats at the provider are
held by clicks whose answers may be lost, so the program's rule is: write down that an
attempt begins before it begins, try it once, and give every unknown outcome to a person.
Most of what is stated here is about that rule, under every interleaving of the worker and
the owner, and through stops and crashes.

## Inventory

| Component | State | Operations | Interacts with | What makes it correct |
|---|---|---|---|---|
| Booking worker (`worker.py`) | `providers`, `locks`, `tasks`, `touched`; row in `jobs` | `run`, `process`, `inspect_payment`, `reconnect`, `sweep_sessions`, `release`, `close` | row through `Store`, page through a provider, lock shared with the HTTP handlers | one preparation; attempts recorded first; browser released or kept exactly as the status says; windows and payments end |
| HTTP handlers (`app.py`) | none of their own | `jobs`, `action`, `browser`, `ticket`, webhook, accounts | take the request's lock, call the worker | an accepted action is not undone by a poll; no resume after an attempt |
| Providers (`providers.py`) | page, context, budget slot | `search`, `seat_map`, `preflight`, `prepare`, `inspect`, `manual_action`, `close` | external site | every click before the deadline; a closed provider gives its slot back |
| Store (`store.py`) | SQLite tables | `create_job`, `due`, `update`, `alert`, `recover`, accounts | everybody | idempotent submission, ten active requests, alerts deduplicated, recovery after a restart |
| Session vault, budget, lease (`runtime.py`) | encrypted files, a counter, a file lock | save/load/delete, acquire/release | worker, search | counter = open browsers; one worker per database |
| Search service (`search.py`) | `sessions`, `pending`, two locks and a semaphore | `search`, `seats`, `cleanup`, `sweep`, `close` | browser budget | at most two sessions; a session in use is not closed |
| WhatsApp outbox (`whatsapp.py`) | `notifications` table | `dispatch`, `mark`, `receipt` | provider's API, webhook | not sent twice; receipts only move forward; what is shown as expired was not sent |
| Backup (`operations.py`, `manage.py`) | archive files | `backup`, `restore` | database, vault | a snapshot is consistent; a restore does not repeat a preparation |
| Request and offers (`domain.py`) | immutable | `coherent`, `relevant`, `matches`, `total` | worker, search | pure functions |
| Legacy monitor (`main.py`, `planner.py`, `state_machine.py`, `trips.py`) | agent state, error count, trips | the monitoring cycle | tool server, user interface | retries end; a hand-off ends the automation |
| Legacy policy and scheduler (`policy.py`, `monitoring/`) | polled times, beliefs | `next_target`, `evaluate_offer`, ranking | the cycle | hard rules never overruled by a score; every target polled |
| Travel desk (`frontend/src/lib/context.tsx`, `App.tsx`, `AuthDialog`) | the queries `account` and `jobs`, which dialog is open, the plan that waits | `plan`, `signedIn`, `logout`, `refresh`, the 401 effect | HTTP handlers, the cookie of the browser | nothing of one account under another's name; a lost session is noticed |
| Booking form (`Booking.tsx`) | form, step, request key | edits, `chooseIntent`, `seatCount`, `submit`, `save` | `POST /api/jobs` | saved once and as submitted; no sample data in a live request |
| Search page (`Search.tsx`) | query, result, filters, seat dialog | `run`, `filter`, `proceed` | `POST /api/search`, seat maps, the desk's `plan` | a plan is what the page showed |
| Journey details, provider view (`Journeys.tsx`) | the detail query, the view's poll, gesture and screenshot | `action`, `load`, `poll`, `act` | the request's session at the server | the view catches up; a payment link opens it; screenshots are freed |
| Parsers, reports, other pages | mostly none | extraction, formatting, rendering | | not state machines |

What is hard in this code: four kinds of coroutines share one row, one page and one lock
per request, and each awaits the provider in the middle of its work; rows are read before an
await and written after it; the page, but not the row, dies with the process; the lock says
"free" while its next owner is only scheduled; closing a browser can fail; and an answer may
never arrive. In the browser, queries, mutations and dialogs live on their own: an answer is
applied when it comes, whatever was closed, edited or signed out meanwhile. `PROJECT.json` lists these hazards at their lines.

## Modules

* `BookingJob` - one booking request and everything that acts on it.
* `Reservation` - the abstract promise to the owner, which `BookingJob` implements.
* `MCBookingJob` - the small instances that TLC checks.
* `BookingJobProofs` - the inductive invariant of `BookingJob` and the first theorems, for all
  values of its constants.
* `BookingJobPromiseProofs` - what is proved from it: how the stored row may move, the step
  simulation of `Reservation`, which offer is prepared and when, when a browser is open.
* `Notifications` - the WhatsApp outbox: table, dispatchers, provider, receipts.
* `SearchSessions` - public searches, their sessions and the browser budget.
* `MCNotifications`, `MCSearchSessions`, `NotificationsProofs`, `SearchSessionsProofs` -
  their instances and theorems.

* `Submission` - the booking form and the part of the server that stores what it submits.
* `SearchPage` - the search page: form, result, filters, seat dialog, plan.
* `TravelDesk` - who is signed in, whose journeys are shown, which dialog is open.
* `ProviderView` - a journey's details and the live view of its provider session.
* `MCWebsite` - their composition and its small instances; `SubmissionProofs`,
  `SearchPageProofs`, `TravelDeskProofs` and `WebsiteProofs` (`ProviderView` and the
  composition) - their theorems.

The systems share little: the outbox sees of a booking only what still makes a prompt worth
sending (`current`: the payment is awaited, the message is timely), the search service sees of the worker only how many
browsers it holds (`others`), and the worker sees of both only that its browser may not be
available. The front end sees a request through reads that come when they like. So each is
modelled with the others as an environment that does as it likes.

### BookingJob and the code

The actors are the polling task (`worker.process`), an action request (`app.action`), a
browser request (`app.browser`) and the sweep (`worker.sweep_sessions`). One step of an
actor is what its coroutine does between two awaits; `pc` names the await it is at. What it
has read from the row is in `copy`, the offer the poll works on in `best`. The actors exclude
each other by `holder` and `waiting`, an `asyncio.Lock` with its first-come queue; `Ask`,
`Grant` and `Leave` are its acquire (fast path), wake-up and release.

`row` holds the status and the members of the row's `data` that control flow reads: the error
count, `confirmed_offer`, `offer`, `reservation_attempted` and `expires_at`. Messages, events,
alerts, `next_poll`, passengers and prices are left out: an offer is an identity that already
includes its fare, as `confirmed_offer` does, and the choice of the cheapest match is a free
choice of an offer. `provider` is the entry in `worker.providers`: absent, an object without
a page, or one with a page; `vault` says whether a checkpoint file exists; `idle` that the
session's last use is longer ago than the limit.

The provider's answers (offers, seat maps, errors, sign-in pages, timeouts, confirmations)
are free choices. A confirmation can be seen only in an open page and only if seats may have
been selected (`held`); everything else about the external site is unconstrained. `prepare()`
is three steps: the seats, the buttons up to the review, and the review; each click follows
its `ensure_deadline()` at once. (In the code a click itself may take a while; the model, as
the code, promises when the click is issued.)

`Stop` is a graceful shutdown, which finishes HTTP requests and cancels the worker's tasks at
their awaits (`TaskCancelled`, `Shutdown`); `Crash` forgets all but the row and the
checkpoint; `Restart` is `run()` with `store.recover()`. `close()` of a browser may raise if
`CloseFaults`; the three places where this matters are `SweepDies`, `ActionDiscardFails` and
`PollDiscardFails`.

Another request's influence on this one is only the exhaustion of the browser budget, which
is an outcome of opening a browser. A sweep that waits for this request's lock holds up the
run loop; a sweep that waits for another's is only a delay.

Three ghost variables serve the properties: `held`, `prepares` (calls of `prepare()`) and
`observed` (the offer that the last completed observation showed; empty after one without a
match and after a resume).

### Reservation

Six phases and a flag. An attempt starts once, from an untried open request; it succeeds or
is handed over; a request that a person took over may resume only untried; a paid or closed
request stays so. `KeepsPromise` says that `BookingJob` implements it, with its liveness: an
attempt does not stay unresolved.

### Notifications and the code

A message is a row of the `notifications` table: its status, its attempts, whether its next
attempt is due and whether its `message_id` is stored (`known`). `Alert` is `store.alert()`.
A dispatcher reads up to twenty rows (`Reads`), then for each of them sets it aside as stale
or unconfigured, or claims it with the conditional `UPDATE` and posts it (`Posts`), and
deals with the answer before it goes on. Stale is asked at that moment, by the kind of the
message (`Needs`, the two conditions at `whatsapp.py:41-46`): an urgent one needs a booking
that waits for its payment and a deadline that has not passed, a transient one only needs to
be younger than 15 minutes. The reasons go one by one (`GoesStale`). The answers are:
accepted, rate-limited (`Retries`), refused, lost (`LosesAnswer`) or one that makes the code
raise (`DropsBatch`), which leaves the row in `sending` until the next start. The rows of a batch are as they were when they were read.
The provider may take a message whose answer is lost, also later (`late`), and its receipts
come in any order. `Stop` is a crash or a shutdown at any await; `Start` is what `run()` does
first. Only one dispatcher runs in one process; `Dispatchers` has more because the claim is
written for competitors and the test suite runs two.

### SearchSessions and the code

A search or a seat-map request is a coroutine, the sweeper another; `pc` names the await each
is at and a session is named by its search. `cleanup()` is called by all three: it copies the
table and the clock (`StartsCleanup`) and closes one session after another (`Reaps`,
`Reaped`). `Admitted`, `Evicts`, `Evicted` and `FindsBusy` are the block under the registry
lock; `Starts`, `Finds`, `Fails` and `Aborted` open the browser, register the session or
close it. A session's lock is modelled with its waiters: between a release and the wake-up of
the next waiter it is free for `locked()` but not for a newcomer. `used` is the budget's
counter, `held` the providers whose `budget_held` is set. The contents of offers and seat maps
and the cache of seat maps are left out.

### Submission and the code

`form` is `BookingDialog`'s state while it is open: its key, its step and what it holds, of
which only what a property tells apart is kept: the plan, "notify only", each traveller's
name as the demo's, its surname only, or the user's own, the phone number, and one `text` for
all other fields (a change of any of them changes the fingerprint). `Submit` appends a post;
`CreateJob` is `Store.create_job`, one transaction, with the key's row (`Repeats`), the limit
(`Full`) and the insert (`Stores`); `Refuses` also stands for the checks before it. A post is
answered, refused or lost (`SaveFails` whatever the server did); `SaveAnswered` closes
whichever form is open, as `onSuccess` does. `FormGoes` is the session that ends: `App` stops
rendering the dialog while its post is under way.

### SearchPage and the code

`search` is the mutation with its variables, `result` and `filters` are the page's state,
`dialog` the open `Seats` with its seat map query, `plan` what was handed to the desk and not
closed yet. The filter's `type` stands for the two fixed lists (type, time), its `operator`
for the two lists taken from the result (operator, boarding point). Seats of a map are free
or not; a map may be read again at any time. Sorting and the number of cards are left out.

### TravelDesk and the code

`owner` is the server's table of sessions, `cookie` the browser's. The reads of the account
(`me`) and of the journeys (`poll`), the sign-in (`auth`) and the sign-out (`leaving`) are
requests under way: asked with a cookie, answered with the user that cookie has at that
moment, applied on arrival, however late. `trips[u]` says whose journeys are held under the key
`["jobs", u]`. `Shows` is the change of the query key when the user changes. `auth.plan` is
the closure of `signedIn()`. `RecoverAccount` is what a used recovery code does to sessions.
`OtherTab` is the same browser's other tabs, which change the cookie under this one.

Two ghosts tell what may be shown. `since` holds who signed in since the last sign-out.
`misled` is set when the page is told of a user the cookie is not of: a read of the account
that was asked before a sign-in or a sign-out is applied after it, or another tab changes the
cookie while a user is shown. A sign-out or a refused poll clears the page and `misled`.

### ProviderView and the code

`session` and `page` are the server's side. `known`, `read`, `opened` and `action` are
`JourneyDetail`'s query, `openedPayment` and mutation; `view`, `chain`, `acting`, `loads`,
`image` and `urls` are `ProviderSession`: its timer chain, `busyRef`, its reads by what asked
for them, the image shown and the object URLs that exist. `late` stands for the reads that a
closed view left under way, which `alive` keeps from making URLs.

The four do not share variables. `MCWebsite` lets one of them move at a time, so that its
states are the sum and not the product of theirs. What they hand each other (a plan, a
signed-in user) is a free choice on the receiving side.

## Runs

| Run | Asks | Result |
|---|---|---|
| `job_safety` | two offers with different cutoffs, four kinds of requests (any departure, one departure with exact seats, watching only, the simulation), windows [0,2) and [1,2), clock to 2, one stop or crash, failing closes | all safety properties hold; 0.7 million states |
| `job_progress` | one offer, live and simulated request, window [1,2), clock to 2, one stop or crash, fairness | the promise of `Reservation`, with its liveness, holds; windows end, payments resolve, watched requests are polled, gestures are served |
| `job_expired_returns` | `ExpiredIsFinal` with failing closes | violated: an expired request is watched again |
| `job_loop_dies` | `WatchedIsPolled` with failing closes | violated: the run loop ends, resumed requests are not polled |
| `job_login_race` | `SelectionIsRecorded` if the login frame can vanish under a gesture | violated: an unrecorded selection |
| `outbox` | two messages, one dispatcher, rate limits, lost and late answers, receipts, one stop | posts bounded, receipts stored in order, what is shown as out of date was not sent, the queue drains, no message stays in `sending`; 0.14 million states |
| `outbox_rivals` | one message, two dispatchers, answers that make the code raise | taken at most once |
| `outbox_lost_receipt` | `ReceiptsAreStored` when a receipt may overtake the answer | violated: the receipt is dropped |
| `sessions` | two searches that compete for one session, two seat maps, the sweeper, a shared budget of two, failing closes, fairness | bound on sessions, exact budget, no browser lost, nothing closed under a reader; searches end, seat maps get the lock, expired sessions are closed |
| `website` | the four front-end modules: two forms and two posts of up to two travellers with a limit of one; three buses and two seats; two users and sessions, late reads, other tabs; two versions of the provider's page | saved once as submitted, within the limit, no sample data in live requests; plans as shown; accounts kept apart (`AccountsApart`); 2.3 million states |
| `website_progress` | the desk with one user, two sessions and late reads, the provider view, fairness | a user whose session is over does not stay shown, the view catches up, a payment link opens the session |
| `desk_slow_read` | `AccountQueriesScoped` in one tab | violated: a read of the account answered before the sign-out shows the user again after it |

The five violations are disagreements between the code and what it says of itself; they are
described under "findings" in `PROJECT.json`. The passing runs switch off just the fault that
a finding is about: `LoginFrameStable` in the three runs about `BookingJob`, `CloseFaults` in
`job_progress`, early receipts in `outbox`. In `website` nothing is switched off: the late
reads of `desk_slow_read` and other tabs are there, and `AccountsApart` says what holds with
them. In `sessions` closes may
fail; that a failing close ends the sweeper for good (`search.py:84` has no handler) is why
`ExpiredIsClosed` has the premise that the sweeper lives.

**Bounds.** In `job_safety` the windows end at 2 and the offers' cutoffs are 1 and 3: one lies
before the end of the window and one after it, so both branches of `min(buy_before, cutoff)`
are taken, and the clock meets every boundary before, at and after it. A request that accepts
other seats than the preferred ones does what the exact-seats request does, except for waiting,
and is left out of the instance. One stop or crash suffices for
everything that a second can only repeat: after a restart the state has no memory of the first
but the row and the checkpoint, and restarted rows are reached by other ways too; the proofs
have no such bound. Errors count to the code's own limit of three. The queue of the lock is
not bounded: each actor is in it at most once.

In `outbox` two messages are what it takes for one to be read while the other is posted, for
an urgent one to pass an older one, and for a rate limit to leave one behind; attempts count
to the code's four. In `sessions` the second search finds the table full while the first is
registered, pending or being closed and evicts it, two seat maps make a holder and a waiter,
and a budget of two is exhausted by a session and the worker. More searches, seat maps and
sessions are covered by the theorems, which have no bound. `MaxSessions` is a literal two in the code; the semaphore's two is a literal in the model.

In `website` two keys and two posts are a form submitted twice, edited or not between the two,
or two forms whose answers cross; two travellers are one the demo filled in and one added
after a change of mind; a limit of one is reached by one post and passed by a second. Edits
that no later post can carry are left out (`Edits`). The three buses are one with too few
seats for two, one that fits and one the site may not choose seats of. Two sessions let one
user lose a session and another one sign in. `Plans` is empty in `website`, so that no form
or plan keeps the user from signing in or out; the plans are in `website_progress`, where the
other tabs are left out (`OtherTabs`) to keep the liveness check small.

**What the desk does not promise.** The source's README says that account queries "are scoped
to the current user and cleared on logout" (`AccountQueriesScoped`). `logout()` cancels the
reads of the journeys and the details (`context.tsx:111-112`), not that of the account, which
a focus of the window may have started. If it was answered before the sign-out and is applied
after it, the user is shown again (`desk_slow_read`) until the next poll is refused, and if
somebody else signs in before it is applied, their journeys are kept under the first user's
name. Another tab that signs out and in has the latter effect with no late read at all.
`AccountsApart` is what is left: it goes wrong only so (`ScopedUnlessMisled`), and even then
nothing is kept of a user who did not sign in since the last sign-out (`HeldSinceSignIn`).
`StaleAccountCleared` adds that a user shown by mistake while the browser has no session does
not stay shown.

**Fairness.** Weak fairness for the granting of the lock, the creation of tasks, the steps of
each actor and the server's own steps. The event loop runs every ready coroutine, and an await
of the provider ends: `wait_for` around search, preflight, prepare and inspect, Playwright's
default timeouts around gestures and the start of the browser. A server that is down is
started again by its service manager (`scripts/seatwatch.service`, `Restart=`). Fairness of
the server's steps also lets a shutdown end. Nothing is assumed of the owner, of the clock
(it may stop; `WindowEnds` starts when the window is over) or of the provider's answers.
`PaymentResolves` needs the owner to leave the page alone eventually: the run loop passes over
a request whose lock is taken at the moment it looks (`worker.py:62`), and an owner who always
has a gesture under way keeps the poll away. That premise is part of the property.

The outbox assumes weak fairness of the dispatcher's steps, of answers or timeouts, of a
restart and of the time that makes a retry due. The search service assumes weak fairness of
closes, cleanups, seat maps (timeout 35 s) and the sweeper, and strong fairness of a search's
steps and of the grant of a session's lock: both wait in first-come queues of `asyncio`
(semaphore, registry lock, session lock), which newcomers cannot pass, while the model lets
any waiter be next.

In the front end: the five-second poll of a visible tab goes on and an answer that may come
again and again comes in the end (strong fairness: the network does not fail for ever). The
provider view's timer finds the user between two gestures in the end (strong fairness of
`PollAsks`), a gesture is answered or fails, a read ends. Nothing is assumed of the user, who
may close any dialog, or of the server's sessions.

Deadlock is not checked in the runs' configurations because the system really may stop:
the clock's horizon and the limit on stops leave a settled request without a step.

## Proofs

`BookingJobProofs` proves for every set of offers and requests, every horizon and every number
of stops:

* `TypeCorrect`: `TypeOK` is an invariant;
* `OnePreparation`: `prepare()` is begun at most once;
* `WatchedUntouched`: a watched or paused request has no attempt and no offer stored;
* `SelectionRecorded`: a possible selection is recorded, if the login frame is stable.

None of these is inductive. `prepares <= 1` needs that the row remembers an attempt; that it
does needs that nobody writes an older row back; that needs that a writer holds the lock and
works on a current copy. `IInv` says this in three parts: `LockInv` (an actor past the lock
is its holder; the queue holds each waiting actor once; a stopping server has no HTTP request
in progress), `DataInv` (types, `RowOK`: what every stored row satisfies, and `Recorded`) and
`WorkInv` (`Fits`: what the holder's place says of its copy, which is the stored row until
the holder has made its last store, and, for the one writer that can store an older copy, the
poll whose `expire()` fails, that the older copy forgets no attempt). The lemmas `AfterAsk`,
`AfterGrant`, `AfterLeave`, `AfterGoesOn` and `AfterCancelledBeforeLock` treat the lock once;
the lemmas on rows treat what is stored; the step lemmas combine them, one case per action.
`NextIInv` collects them. The only assumption is `ConstantsAssumption`, which TLC evaluates in
every run.

`BookingJobPromiseProofs` uses `IInv` and adds three invariants, each for one question:

* *Which offer is prepared, and when?* `OfferInv`: a stored `confirmed_offer` is what the last
  completed observation showed (`Observes`), and a preparation under way works on the stored
  offer inside the window (`OfferPlace`). It has to speak of the copy that `expire()` may store
  again when a close fails, because that copy is a row like any other afterwards. From it
  `SecondObservationPrepared` and `SelectedInWindow`.
* *How may the stored row move?* `Moves` lists it: a monitored request to its one attempt, an
  attempt to its payment page, to a person, to an end; back from an end only by a failing
  close (`MovesBack`). It is an action property, proved once over all actions; from it
  `SettledFinal`, `PauseKept` and, with `~CloseFaults`, `ExpiredFinal`. With `SettledInv` (what
  is confirmed was recorded as attempted) it gives `PromiseKept`: every step of the program is
  a step of `Reservation` or leaves its variables alone.
* *When is a browser open?* `SessionInv`: while the server is up, a live request that waits for
  its payment has its page, nothing rests with a browser when the lock is free, and what the
  holder's place in its coroutine says of the page and of the row it will leave behind
  (`SessionPlace`). It excludes a server that is stopping, whose cancelled tasks leave a page
  until `Shutdown` releases it. From it `PayablePageOpen` and `RestingWithoutBrowser`.

The assumptions of `ExpiredFinal` and `PromiseKept` are the negations of two findings:
`CloseFaults` (a close that raises restores an expired request) and `LoginFrameStable` (a
gesture judged as verification selects a seat). The runs `job_expired_returns` and
`job_login_race` show what happens without them. All other theorems about `BookingJob` hold with
failing closes; only `SelectionRecorded` also needs the stable frame.

`NotificationsProofs` proves, for every set of messages:

* for any number of dispatchers, `DeliveredOnce`: the provider takes a message at most once.
  The invariant: what may be claimed has nothing outstanding at the provider
  (`PendingUnsent`), a posted message is out in one place and its effect is counted once
  (`OnePost`), and an unconfigured or stopped server has no post out. `PendingUnsent` is why an
  unknown outcome must never return to the queue;
* for one dispatcher, as the server runs it (`OneDispatcher`), `PostsBounded`: what it has read
  is what is stored (`Alone`), so every post but the last was refused and its refusal stored
  (`Counted`); two dispatchers can count two refusals as one, and the bound is not claimed for
  them. `ExpiredNotSent`, too: what is set aside as out of date and "not sent" was neither taken
  by the provider nor can be later, because a row that one dispatcher still has to take up is
  pending (`Alone`) and what is pending has nothing outstanding (`PendingUnsent`), through
  rate limits, lost answers and stops before. Two dispatchers break it: one may set aside
  what the other has just posted;
* if also no receipt overtakes the answer of its post (`~EarlyReceipts`), `ReceiptsStored`: a
  message with a stored id is never pending again (`Identified`) and shows the best receipt
  reported (`Tracked`). The run `outbox_lost_receipt` is the case that the assumption excludes.

`SearchSessionsProofs` proves, for every finite set of searches and all limits, the bound on
sessions, the exact budget, that no slot is lost, that a session in the table is open, that
none is closed under a reader, and types. `Places` says where a session can
be while its search or a closer is at an await; with it a search at work is counted once in
`pending` (`Counts`), and a searcher that makes room under the registry lock finds the room
still there when its close has ended, because `Finds` moves a search from one side of the sum
to the other and nobody else is admitted meanwhile. `ReadersUndisturbed` needs `Readers`: only
a session whose search has ended is read or waited for, so that a search which aborts closes
nobody's. Assumptions: `NotificationAssumption` and `SearchAssumption`, evaluated by TLC in
their runs.

For the front end, each from an invariant of its own:

* `SubmissionProofs`: `SavedOnce` for every number of forms and posts: a stored row has the
  key of its post, that key names no other row, and what is answered "saved" equals the row
  (`SavedInv`); `LimitHolds` for every limit; `SampleKept` for every number of travellers,
  from the invariant that a form which would be stored live is already free of samples.
* `SearchPageProofs`: `PlanAsShown` for every set of buses, seats and trips: a result on the
  page belongs to the last search, a dialog to the result, a plan to both (`PageInv`).
* `TravelDeskProofs`: `KeptApart` for any number of users and sessions, with and without
  other tabs and late reads. The invariant says whose the sessions are that requests under way
  carry: always of somebody who signed in since the last sign-out (`SignedIn`), and, unless
  the page was misled, of the user that is shown (`AccountOwned`, `PollOwned`). `misled` is
  needed in it because nothing else relates the shown user to the cookie.
* `WebsiteProofs`: `ScreenshotsFreed`: exactly the shown screenshot has an object URL, because a
  closed view has nothing under way that it would still show (`ClosedRests`); and the
  composition: a behaviour of `MCWebsite` is one of each module (`Composition`), so that
  `WebsiteTypes`, `WebsiteSafe` and `WebsiteKeptApart` state of the whole what was proved of the
  parts.

Their assumptions are `FormAssumption`, `PageAssumption`, `DeskAssumption` and
`ViewAssumption`, which the run `website` evaluates.

Every invariant and every safety action property that a passing run checks is thus stated by a
theorem. Only model-checked remain the liveness properties, which are out of the prover's
reach together with `ENABLED`, and `KeepsPromise` as a whole, because the specification of
`Reservation` states fairness: `PromiseKept` is its safety part.

## Plan

1. `BookingJob`, `Reservation`: done; the safety properties and the step simulation proved.
2. `Notifications`: done; the safety properties proved.
3. `SearchSessions` with `BrowserBudget`: done; the safety properties proved.
4. `Submission`, `SearchPage`, `TravelDesk`, `ProviderView` and their composition: done; the
   safety properties proved.
5. `WorkerLoop`: several requests, two tasks, four browsers, `due()` by `next_poll`; composes
   with an abstract request. Property: every due request is polled eventually.
6. `Recovery` (codes, throttle), `BackupRestore` (a restored older row), and the booking with
   its outbox (alerts that are stored once for ever).
7. `OfferMatching`: pure operators against a reference definition.
8. `MonitorLoop`, `TargetScheduler`, `Policy`: the legacy monitor.

Theorems to come are those of the modules to come: that one worker's budget is kept over many
requests (5), that a recovery code is used once (6), that ranking never overrules a hard rule
(8).

## Not modelled

Parsers (regular expressions over page text), selectors and layout, hashing and encryption,
report formatting, rendering, built bundles and recorded browser logs. They have no state that
a property here depends on. Of the React front end the notifications page, the tickets page
and the shared widgets are left out: lists that the server computes, a form for a new recovery
code, focus and scroll lock. The older static pages (`src/website/static`) are served only
where the React build is missing. Further components not modelled yet are listed with their
reasons in `PROJECT.json`.

Some things the front-end models show that no document speaks about, so that no property is
stated of them: the late answer to a form that is gone closes the form that is open
(`Booking.tsx:296`); a sign-in that succeeds after its dialog was closed still opens the plan
(`context.tsx:102`); a traveller whose first name was typed over keeps the demo's surname when
the request becomes a live watch (`Booking.tsx:320`); a chosen seat that a later map shows as
taken cannot be unchosen (`Search.tsx:941`).
