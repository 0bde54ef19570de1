--------------------------- MODULE Notifications ---------------------------
(***************************************************************************)
(* The WhatsApp outbox (src/website/whatsapp.py): alerts queued in the     *)
(* notifications table, the dispatch loop that claims and posts them, the  *)
(* provider that accepts, refuses or does not answer, and the webhook that *)
(* stores its delivery receipts.                                           *)
(*                                                                         *)
(* A step of a dispatcher runs to its next await, the answer of a post.    *)
(* The server runs one dispatcher; a test runs two on the same database.   *)
(* A stop cancels the loop at its await and a crash ends it anywhere: the  *)
(* table survives, and a post under way may still reach the provider.      *)
(***************************************************************************)
EXTENDS Integers, FiniteSets

CONSTANTS
    Messages,      \* alerts, one for each deduplication key
    Kind,          \* "plain", "transient" or "urgent", per message
    Entry,         \* the status a message is stored with, per message
    Dispatchers,
    Configs,       \* the configurations a start of the server may find
    Limit,         \* rows that one dispatch reads
    MaxStops,      \* bound: stops and crashes of the server
    OddAnswers,    \* a successful answer may be no object of the expected kind
    EarlyReceipts, \* receipts may arrive before the id they name is stored
    None           \* an absent value

VARIABLES
    stored,    \* how many messages are stored
    created,   \* per stored message: its place in the order of their creation
    status,    \* per message; None before the alert
    attempts,  \* refusals for the rate limit, as stored
    due,       \* next_attempt has come
    known,     \* the provider's message id is stored
    current,   \* what still makes a time-sensitive message worth sending
    config,    \* the configuration of the running server
    server,    \* "up" or "down"
    stops,     \* stops and crashes so far
    batch,     \* per dispatcher: the rows read and not yet taken up
    post,      \* per dispatcher: the row whose post awaits its answer
    answer,    \* per dispatcher: what the provider did with that post
    late,      \* posts given up that the provider may still receive
    taken,     \* ghost: how often the provider took the message for delivery
    posts,     \* ghost: how often the message was posted
    reported   \* ghost: the best delivery status a webhook call reported

table_vars == <<stored, created, status, attempts, due, known>>
server_vars == <<config, server, stops>>
dispatch_vars == <<batch, post, answer>>
provider_vars == <<late, taken>>
vars == <<table_vars, current, server_vars, dispatch_vars, provider_vars, posts, reported>>

Pending == {"queued", "retrying", "setup_required"}
Delivery == {"sent", "delivered", "read", "failed"}
Statuses == Pending \cup Delivery \cup
            {"preview", "not_requested", "sending", "unknown", "accepted", "expired"}
MaxAttempts == 4

\* The booking still waits for its payment; its deadline has not passed, or the
\* message is not 15 minutes old.
Reasons == {"awaited", "timely"}

\* A row as a dispatch reads it: which message, and its attempts then.
ReadRow == [msg: Messages, attempts: 0..(MaxAttempts - 1)]

\* A start without credentials puts messages aside, one with invalid ones fails.
Configured == {"ready", "missing", "invalid"}

ASSUME NotificationAssumption ==
    /\ Kind \in [Messages -> {"plain", "transient", "urgent"}]
    /\ Entry \in [Messages -> {"queued", "preview", "not_requested"}]
    /\ Configs \subseteq Configured
    /\ Limit \in Nat \ {0} /\ MaxStops \in Nat
    /\ OddAnswers \in BOOLEAN /\ EarlyReceipts \in BOOLEAN
    /\ None \notin Statuses \cup ReadRow

TypeOK ==
    /\ stored \in Nat
    /\ created \in [Messages -> 0..stored]   \* distinct unless 0: each key is stored once
    /\ \A m, n \in Messages : created[m] = created[n] /\ created[m] # 0 => m = n
    /\ status \in [Messages -> Statuses \cup {None}]
    /\ attempts \in [Messages -> 0..MaxAttempts]
    /\ due \in [Messages -> BOOLEAN]
    /\ known \in [Messages -> BOOLEAN]
    /\ current \in [Messages -> SUBSET Reasons]
    /\ config \in Configs
    /\ server \in {"up", "down"}
    /\ stops \in 0..MaxStops
    /\ batch \in [Dispatchers -> SUBSET ReadRow]
    /\ post \in [Dispatchers -> ReadRow \cup {None}]
    /\ answer \in [Dispatchers -> {"none", "taken", "limited", "refused"}]
    /\ late \in [Messages -> Nat]
    /\ taken \in [Messages -> Nat]
    /\ posts \in [Messages -> Nat]
    /\ reported \in [Messages -> Delivery \cup {None}]

Init ==
    /\ stored = 0
    /\ created = [m \in Messages |-> 0]
    /\ status = [m \in Messages |-> None]
    /\ attempts = [m \in Messages |-> 0]
    /\ due = [m \in Messages |-> FALSE]
    /\ known = [m \in Messages |-> FALSE]
    /\ current = [m \in Messages |-> Reasons]
    /\ config \in Configs
    /\ server = "up"
    /\ stops = 0
    /\ batch = [d \in Dispatchers |-> {}]
    /\ post = [d \in Dispatchers |-> None]
    /\ answer = [d \in Dispatchers |-> "none"]
    /\ late = [m \in Messages |-> 0]
    /\ taken = [m \in Messages |-> 0]
    /\ posts = [m \in Messages |-> 0]
    /\ reported = [m \in Messages |-> None]

-----------------------------------------------------------------------------
(* Queueing, and time.                                                     *)

\* Store.alert(): INSERT OR IGNORE on the deduplication key.
Alert(m) ==
    /\ server = "up" /\ status[m] = None
    /\ stored' = stored + 1
    /\ created' = [created EXCEPT ![m] = stored + 1]
    /\ status' = [status EXCEPT ![m] = Entry[m]]
    /\ due' = [due EXCEPT ![m] = TRUE]
    /\ UNCHANGED <<attempts, known, current, server_vars, dispatch_vars, provider_vars,
                   posts, reported>>

\* The delay of a retry has passed.
ComesDue(m) ==
    /\ status[m] \in Pending /\ ~due[m]
    /\ due' = [due EXCEPT ![m] = TRUE]
    /\ UNCHANGED <<stored, created, status, attempts, known, current, server_vars, dispatch_vars,
                   provider_vars, posts, reported>>

\* What a message of this kind is worth sending for.
Needs(m) ==
    CASE Kind[m] = "urgent"    -> Reasons
      [] Kind[m] = "transient" -> {"timely"}
      [] OTHER                 -> {}

\* The payment is made or given up, its deadline passes, an availability gets
\* old.  No booking waits for its payment a second time.
GoesStale(m) ==
    /\ \E reason \in current[m] \cap Needs(m) :
          current' = [current EXCEPT ![m] = @ \ {reason}]
    /\ UNCHANGED <<table_vars, server_vars, dispatch_vars, provider_vars, posts, reported>>

-----------------------------------------------------------------------------
(* The dispatch loop.                                                      *)

\* Mutant: retries are forgotten.
SelectedMutant(m) == status[m] = "queued" /\ due[m]
Selected(m) == status[m] \in Pending /\ due[m]

\* _dispatch() reads the oldest rows that are due, with their attempts.
Oldest(rows) ==
    /\ Cardinality(rows) <= Limit
    /\ \A m \in Messages \ rows : Selected(m) =>
          Cardinality(rows) = Limit /\ \A n \in rows : created[n] < created[m]

Reads(d) ==
    /\ server = "up" /\ batch[d] = {} /\ post[d] = None
    /\ \E rows \in SUBSET {m \in Messages : Selected(m)} :
          /\ rows # {} /\ Oldest(rows)
          /\ batch' = [batch EXCEPT ![d] = {[msg |-> m, attempts |-> attempts[m]] : m \in rows}]
    /\ UNCHANGED <<table_vars, current, server_vars, post, answer, provider_vars, posts,
                   reported>>

\* mark() without new attempts or a message id, and with a delay or without.
Marked(m, s, delayed) ==
    /\ status' = [status EXCEPT ![m] = s]
    /\ due' = [due EXCEPT ![m] = ~delayed]

\* d takes up the oldest row of its batch.
Takes(d, row) ==
    /\ server = "up" /\ post[d] = None
    /\ row \in batch[d]
    /\ \A other \in batch[d] : created[row.msg] <= created[other.msg]
    /\ batch' = [batch EXCEPT ![d] = @ \ {row}]

\* Whether m is out of date is asked of its booking and the clock, now.
Stale(m) == ~(Needs(m) \subseteq current[m])

\* A row that is not posted: out of date, not configured, wrongly configured.
SetsAside(d, row) ==
    /\ Takes(d, row)
    /\ \/ Stale(row.msg) /\ Marked(row.msg, "expired", FALSE)
       \/ ~Stale(row.msg) /\ config = "missing" /\ Marked(row.msg, "setup_required", TRUE)
       \/ ~Stale(row.msg) /\ config = "invalid" /\ Marked(row.msg, "failed", FALSE)
    /\ UNCHANGED <<stored, created, attempts, known, current, server_vars, post, answer, provider_vars,
                   posts, reported>>

\* The claim: a conditional update of the row.  Mutant: unconditional.
ClaimableMutant(m) == TRUE
Claimable(m) == status[m] \in Pending

\* Another dispatcher was faster.
Skips(d, row) ==
    /\ Takes(d, row) /\ ~Stale(row.msg) /\ config = "ready" /\ ~Claimable(row.msg)
    /\ UNCHANGED <<table_vars, current, server_vars, post, answer, provider_vars, posts,
                   reported>>

\* The claim is stored before the message is posted.
Posts(d, row) ==
    /\ Takes(d, row) /\ ~Stale(row.msg) /\ config = "ready" /\ Claimable(row.msg)
    /\ status' = [status EXCEPT ![row.msg] = "sending"]
    /\ post' = [post EXCEPT ![d] = row]
    /\ answer' = [answer EXCEPT ![d] = "none"]
    /\ posts' = [posts EXCEPT ![row.msg] = @ + 1]
    /\ UNCHANGED <<stored, created, attempts, due, known, current, server_vars, provider_vars, reported>>

-----------------------------------------------------------------------------
(* The provider, and its answers.                                          *)

\* The provider handles the post of d: it takes the message for delivery,
\* or refuses it, for its rate limit or for good.
Handles(d, m) ==
    /\ post[d] # None /\ post[d].msg = m /\ answer[d] = "none"
    /\ \/ /\ answer' = [answer EXCEPT ![d] = "taken"]
          /\ taken' = [taken EXCEPT ![m] = @ + 1]
       \/ /\ \E a \in {"limited", "refused"} : answer' = [answer EXCEPT ![d] = a]
          /\ UNCHANGED taken
    /\ UNCHANGED <<table_vars, current, server_vars, batch, post, late, posts, reported>>

\* A post that was given up reaches the provider after all.
HandlesLate(m) ==
    /\ late[m] > 0
    /\ late' = [late EXCEPT ![m] = @ - 1]
    /\ taken' \in {taken, [taken EXCEPT ![m] = @ + 1]}
    /\ UNCHANGED <<table_vars, current, server_vars, dispatch_vars, posts, reported>>

\* d ends its post of m.
Ends(d, m) ==
    /\ server = "up" /\ post[d] # None /\ post[d].msg = m
    /\ post' = [post EXCEPT ![d] = None]
    /\ answer' = [answer EXCEPT ![d] = "none"]

\* The answer carries the message's id.
Accepted(d, m) ==
    /\ Ends(d, m) /\ answer[d] = "taken"
    /\ Marked(m, "accepted", FALSE)
    /\ known' = [known EXCEPT ![m] = TRUE]
    /\ UNCHANGED <<stored, created, attempts, current, server_vars, batch, provider_vars, posts, reported>>

\* A refusal for the rate limit is retried later, three times.  Mutants: four
\* times; the attempts are not stored.
RetryStatusMutant(n) == IF n <= MaxAttempts THEN "retrying" ELSE "failed"
RetryStatus(n) == IF n < MaxAttempts THEN "retrying" ELSE "failed"

RefusalsMutant(m, n) == attempts
Refusals(m, n) == [attempts EXCEPT ![m] = n]

Retries(d, m) ==
    LET refusals == post[d].attempts + 1
    IN /\ Ends(d, m) /\ answer[d] = "limited"
       /\ Marked(m, RetryStatus(refusals), TRUE)
       /\ attempts' = Refusals(m, refusals)
       /\ UNCHANGED <<stored, created, known, current, server_vars, batch, provider_vars, posts,
                      reported>>

Refused(d, m) ==
    /\ Ends(d, m) /\ answer[d] = "refused"
    /\ Marked(m, "failed", FALSE)
    /\ UNCHANGED <<stored, created, attempts, known, current, server_vars, batch, provider_vars, posts,
                   reported>>

\* The post of d is given up: it may still be on its way.
GivenUp(ds) ==
    late' = [m \in Messages |->
               late[m] + IF \E d \in ds : post[d] # None /\ post[d].msg = m /\ answer[d] = "none"
                         THEN 1 ELSE 0]

\* A timeout, a broken connection, an answer without an id.
LosesAnswer(d, m) ==
    /\ Ends(d, m) /\ GivenUp({d})
    /\ Marked(m, "unknown", FALSE)
    /\ UNCHANGED <<stored, created, attempts, known, current, server_vars, batch, taken, posts, reported>>

\* A successful answer of an unexpected kind raises an error that no handler
\* of the dispatch expects: the loop drops the batch, the row stays "sending".
DropsBatch(d, m) ==
    /\ OddAnswers /\ Ends(d, m) /\ answer[d] = "taken"
    /\ batch' = [batch EXCEPT ![d] = {}]
    /\ UNCHANGED <<table_vars, current, server_vars, provider_vars, posts, reported>>

-----------------------------------------------------------------------------
(* Receipts: the webhook.  The provider may repeat and reorder them.       *)

\* Mutant: read comes before delivered.
RankMutant(s) ==
    CASE s = "accepted" -> 1 [] s = "sent" -> 2 [] s = "read" -> 3
      [] s = "delivered" -> 4 [] s = "failed" -> 5 [] OTHER -> 0
Rank(s) ==
    CASE s = "accepted" -> 1 [] s = "sent" -> 2 [] s = "delivered" -> 3
      [] s = "read" -> 4 [] s = "failed" -> 5 [] OTHER -> 0

\* The later of two delivery statuses, as the provider defines their order.
Stage == [sent |-> 1, delivered |-> 2, read |-> 3, failed |-> 4]
Later(s, t) == IF t # None /\ Stage[t] > Stage[s] THEN t ELSE s

\* A message whose id is not stored is not found, and the receipt is dropped.
Receipt(m, s) ==
    /\ server = "up" /\ taken[m] > 0 /\ (known[m] \/ EarlyReceipts)
    /\ status' = IF known[m] /\ Rank(s) > Rank(status[m]) THEN [status EXCEPT ![m] = s] ELSE status
    /\ reported' = [reported EXCEPT ![m] = Later(s, @)]
    /\ UNCHANGED <<stored, created, attempts, due, known, current, server_vars, dispatch_vars,
                   provider_vars, posts>>

-----------------------------------------------------------------------------
(* The server.                                                             *)

Stop ==
    /\ server = "up" /\ stops < MaxStops
    /\ server' = "down" /\ stops' = stops + 1
    /\ GivenUp(Dispatchers)
    /\ batch' = [d \in Dispatchers |-> {}]
    /\ post' = [d \in Dispatchers |-> None]
    /\ answer' = [d \in Dispatchers |-> "none"]
    /\ UNCHANGED <<table_vars, current, config, taken, posts, reported>>

\* What run() does first: the outcome of an interrupted post is unknown.
\* Mutants: it is left alone; it is sent again.
InterruptedMutant(s) == s
InterruptedRetriedMutant(s) == IF s = "sending" THEN "retrying" ELSE s
Interrupted(s) == IF s = "sending" THEN "unknown" ELSE s

Start ==
    /\ server = "down" /\ server' = "up"
    /\ config' \in Configs
    /\ status' = [m \in Messages |-> Interrupted(status[m])]
    /\ UNCHANGED <<stored, created, attempts, due, known, current, stops, dispatch_vars, provider_vars,
                   posts, reported>>

-----------------------------------------------------------------------------

Dispatch(d) ==
    \/ Reads(d)
    \/ \E row \in batch[d] : SetsAside(d, row) \/ Skips(d, row) \/ Posts(d, row)
    \/ \E m \in Messages :
          \/ Accepted(d, m) \/ Retries(d, m) \/ Refused(d, m) \/ LosesAnswer(d, m)
          \/ DropsBatch(d, m)

Environment ==
    \/ \E m \in Messages : Alert(m) \/ ComesDue(m) \/ GoesStale(m) \/ HandlesLate(m)
    \/ \E d \in Dispatchers, m \in Messages : Handles(d, m)
    \/ \E m \in Messages, s \in Delivery : Receipt(m, s)

Next ==
    \/ \E d \in Dispatchers : Dispatch(d)
    \/ Environment
    \/ Stop
    \/ Start

\* The loop runs, a post ends by its timeout at the latest, delays pass, and
\* the service manager starts a server that is down.  Nothing is assumed of
\* the provider.
Fairness ==
    /\ \A d \in Dispatchers : WF_vars(Dispatch(d))
    /\ \A m \in Messages : WF_vars(ComesDue(m))
    /\ WF_vars(Start)

SafetySpec == Init /\ [][Next]_vars
Spec == SafetySpec /\ Fairness

-----------------------------------------------------------------------------
(* Properties.                                                             *)

\* "Unknown outcomes are not automatically replayed": through timeouts, late
\* posts, stops and competing dispatchers, the provider takes a message for
\* delivery at most once.
TakenAtMostOnce == \A m \in Messages : taken[m] <= 1

\* A message is posted at most four times, whatever is read, refused and
\* stored in between (only for one dispatcher: another's attempts are not seen).
PostedAtMostFourTimes == \A m \in Messages : posts[m] <= MaxAttempts

\* The stored status of an accepted message is the best that any receipt
\* reported, in whatever order and however often the receipts came
\* ("stores delivery receipts").
ReceiptsAreStored ==
    \A m \in Messages : reported[m] # None => status[m] = reported[m]

\* Availability messages and "obsolete payment prompts expire without sending":
\* what is shown as out of date and "not sent" was not taken by the provider,
\* nor may it be later, through refusals, lost answers and stops before (only
\* for one dispatcher: another may have posted what this one has read).
ExpiredWasNotSent ==
    \A m \in Messages : status[m] = "expired" => taken[m] = 0 /\ late[m] = 0

\* Once the server stays configured, no message waits for ever, whatever is
\* refused, interrupted or put aside meanwhile.
QueueDrains ==
    <>[](config = "ready") =>
      \A m \in Messages : (status[m] \in Pending) ~> (status[m] \notin Pending)

\* A post that was begun comes to a result, at the latest after a restart.
\* (Not one whose answer was odd: its row stays as it is until a restart.)
PostResolves == \A m \in Messages : (status[m] = "sending") ~> (status[m] # "sending")
=============================================================================
