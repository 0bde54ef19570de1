--------------------------- MODULE SearchSessions ---------------------------
(***************************************************************************)
(* Public searches (src/website/search.py): a search opens a browser and   *)
(* leaves it as a session for its seat maps; the sessions share the        *)
(* browser budget (src/website/runtime.py) with the booking worker.        *)
(*                                                                         *)
(* The actors are search requests, seat-map requests and the sweeper,      *)
(* coroutines of one event loop.  Any of them may close a session: one     *)
(* that is expired in cleanup(), the oldest one to make room for a search. *)
(* A session is named by the search that made it.                          *)
(***************************************************************************)
EXTENDS Integers, FiniteSets

CONSTANTS
    Searches,     \* search requests
    Seats,        \* seat-map requests
    MaxSessions,  \* public search sessions at a time: two
    Limit,        \* browsers of the budget
    Sweeper,      \* the task that runs cleanup() from time to time
    CloseFaults,  \* closing a browser may raise
    None          \* an absent value

Actors == Searches \cup Seats \cup {Sweeper}

ASSUME SearchAssumption ==
    /\ IsFiniteSet(Searches)
    /\ Searches \cap Seats = {} /\ Sweeper \notin Searches \cup Seats
    /\ None \notin Actors
    /\ MaxSessions \in Nat /\ Limit \in Nat /\ CloseFaults \in BOOLEAN

VARIABLES
    pc,        \* where each actor is
    sessions,  \* the registered sessions
    born,      \* per session: its place in the order of registration
    expired,   \* the sessions whose five minutes are over
    browser,   \* per session: "none", "open", "closing" or "closed"
    held,      \* the sessions whose provider holds a slot of the budget
    used,      \* slots of the budget in use
    others,    \* ghost: slots the booking worker holds
    pending,   \* searches that were let in and are not yet registered
    registry,  \* the holder of the registry lock
    todo,      \* per actor: the expired sessions its cleanup() still looks at
    closing,   \* per actor: the session whose close() it awaits
    target,    \* per seat-map request: the session it is about
    holder     \* per session: the holder of its lock

table_vars == <<sessions, born, expired>>
budget_vars == <<held, used, others>>
gate_vars == <<pending, registry>>
closer_vars == <<todo, closing>>
seat_vars == <<target, holder>>
vars == <<pc, table_vars, browser, budget_vars, gate_vars, closer_vars, seat_vars>>

PCs == {"new", "cleaning", "starting", "evicting", "searching", "aborting", "waiting",
        "reading", "idle", "done"}

TypeOK ==
    /\ pc \in [Actors -> PCs]
    /\ sessions \subseteq Searches
    /\ born \in [Searches -> Nat]
    /\ expired \subseteq Searches
    /\ browser \in [Searches -> {"none", "open", "closing", "closed"}]
    /\ held \subseteq Searches
    /\ used \in Nat
    /\ others \in Nat
    /\ pending \in Nat
    /\ registry \in Searches \cup {None}
    /\ todo \in [Actors -> SUBSET Searches]
    /\ closing \in [Actors -> Searches \cup {None}]
    /\ target \in [Seats -> Searches \cup {None}]
    /\ holder \in [Searches -> Seats \cup {None}]

Init ==
    /\ pc = [a \in Actors |-> IF a = Sweeper THEN "idle" ELSE "new"]
    /\ sessions = {}
    /\ born = [k \in Searches |-> 0]
    /\ expired = {}
    /\ browser = [k \in Searches |-> "none"]
    /\ held = {}
    /\ used = 0
    /\ others = 0
    /\ pending = 0
    /\ registry = None
    /\ todo = [a \in Actors |-> {}]
    /\ closing = [a \in Actors |-> None]
    /\ target = [v \in Seats |-> None]
    /\ holder = [k \in Searches |-> None]

Goes(a, label) == pc' = [pc EXCEPT ![a] = label]

-----------------------------------------------------------------------------
(* The budget: a counter with a limit.                                     *)

\* Mutant: one too many.
FreeMutant == used <= Limit
Free == used < Limit

\* The budget is asked and charged without an await in between.
Acquires(k) == Free /\ held' = held \cup {k} /\ used' = used + 1

\* What close() gives back in its last "finally".  Mutant: it gives back
\* what another close() of the same provider has given back already.
ReturnedMutant(k) == 1
Returned(k) == IF k \in held THEN 1 ELSE 0

Releases(k) ==
    /\ used' = IF used > Returned(k) THEN used - Returned(k) ELSE 0
    /\ held' = held \ {k}

\* The booking worker opens and closes browsers of its own.
OthersAcquire ==
    /\ Free /\ used' = used + 1 /\ others' = others + 1
    /\ UNCHANGED <<pc, table_vars, browser, held, gate_vars, closer_vars, seat_vars>>

OthersRelease ==
    /\ others > 0 /\ others' = others - 1 /\ used' = used - 1
    /\ UNCHANGED <<pc, table_vars, browser, held, gate_vars, closer_vars, seat_vars>>

-----------------------------------------------------------------------------
(* Closing sessions.                                                       *)

\* The lock of session k is free, although a request may be about to get it.
\* Mutant: it is not looked at.
UnlockedMutant(k) == TRUE
Unlocked(k) == holder[k] = None

\* a takes k from the table, if it is still there, and awaits its close().
\* Several actors may close one session.  Mutant: it leaves the table later.
BeginsCloseMutant(a, k) ==
    /\ closing' = [closing EXCEPT ![a] = k]
    /\ browser' = [browser EXCEPT ![k] = "closing"]
    /\ UNCHANGED sessions

BeginsClose(a, k) ==
    /\ sessions' = sessions \ {k}
    /\ closing' = [closing EXCEPT ![a] = k]
    /\ browser' = [browser EXCEPT ![k] = "closing"]

\* close() of a's session ends: the provider is empty and gives its slot back.
EndsClose(a, k) ==
    /\ closing[a] = k /\ k # None
    /\ closing' = [closing EXCEPT ![a] = None]
    /\ browser' = [browser EXCEPT ![k] = "closed"]
    /\ Releases(k)

\* What cleanup() would close now: closing a closed provider awaits nothing.
Reapable(k) == Unlocked(k) /\ browser[k] # "closed"

\* cleanup() goes through its list of the sessions in order.
Reaps(a, k) ==
    /\ pc[a] = "cleaning" /\ closing[a] = None
    /\ k \in todo[a] /\ Reapable(k)
    /\ \A j \in todo[a] : born[j] < born[k] => ~Reapable(j)
    /\ todo' = [todo EXCEPT ![a] = {j \in @ : born[j] > born[k]}]
    /\ BeginsClose(a, k)
    /\ UNCHANGED <<pc, born, expired, budget_vars, gate_vars, seat_vars>>

Reaped(a, k) ==
    /\ pc[a] = "cleaning" /\ EndsClose(a, k)
    /\ UNCHANGED <<pc, table_vars, others, gate_vars, todo, seat_vars>>

\* The list is done.
Cleaned(a) ==
    /\ pc[a] = "cleaning" /\ closing[a] = None /\ \A k \in todo[a] : ~Reapable(k)
    /\ todo' = [todo EXCEPT ![a] = {}]

\* A close() that raises ends the request that awaits it, or the sweeper; the
\* provider gives its slot back all the same.
CloseRaises(a, k) ==
    /\ CloseFaults /\ pc[a] \in {"cleaning", "evicting", "aborting"}
    /\ EndsClose(a, k)
    /\ Goes(a, "done")
    /\ todo' = [todo EXCEPT ![a] = {}]
    /\ registry' = IF registry = a THEN None ELSE registry
    /\ pending' = IF pc[a] = "aborting" THEN pending - 1 ELSE pending
    /\ UNCHANGED <<table_vars, others, seat_vars>>

\* cleanup() starts with a copy of the table and the clock.  Mutant: the clock
\* is read the wrong way round.
StartsCleanupMutant(a) ==
    /\ Goes(a, "cleaning")
    /\ todo' = [todo EXCEPT ![a] = sessions \ expired]

StartsCleanup(a) ==
    /\ Goes(a, "cleaning")
    /\ todo' = [todo EXCEPT ![a] = sessions \cap expired]

-----------------------------------------------------------------------------
(* A search.                                                               *)

\* Two searches at a time pass the semaphore.
Inside == {r \in Searches : pc[r] \notin {"new", "done"}}

SearchEnters(r) ==
    /\ pc[r] = "new" /\ Cardinality(Inside) < 2
    /\ StartsCleanup(r)
    /\ UNCHANGED <<table_vars, browser, budget_vars, gate_vars, closing, seat_vars>>

\* Mutant: searches that were let in do not count.
FullMutant == Cardinality(sessions) >= MaxSessions
Full == Cardinality(sessions) + pending >= MaxSessions

\* Under the registry lock: there is room.
Admitted(r) ==
    /\ Cleaned(r) /\ registry = None /\ ~Full
    /\ pending' = pending + 1
    /\ Goes(r, "starting")
    /\ UNCHANGED <<table_vars, browser, budget_vars, registry, closing, seat_vars>>

\* The oldest session that is not in use makes room; the lock is kept.
Evicts(r, k) ==
    /\ Cleaned(r) /\ registry = None /\ Full
    /\ k \in sessions /\ Unlocked(k)
    /\ \A j \in sessions : born[j] < born[k] => ~Unlocked(j)
    /\ BeginsClose(r, k)
    /\ registry' = r
    /\ Goes(r, "evicting")
    /\ UNCHANGED <<born, expired, budget_vars, pending, seat_vars>>

\* "Search is busy."  Mutant: it tries again, and the lock is not reentrant.
FindsBusyMutant(r) ==
    /\ Cleaned(r) /\ registry = None /\ Full
    /\ \A k \in sessions : ~Unlocked(k)
    /\ registry' = r
    /\ UNCHANGED <<pc, table_vars, browser, budget_vars, pending, closing, seat_vars>>

FindsBusy(r) ==
    /\ Cleaned(r) /\ registry = None /\ Full
    /\ \A k \in sessions : ~Unlocked(k)
    /\ Goes(r, "done")
    /\ UNCHANGED <<table_vars, browser, budget_vars, gate_vars, closing, seat_vars>>

Evicted(r, k) ==
    /\ pc[r] = "evicting" /\ EndsClose(r, k)
    /\ pending' = pending + 1
    /\ registry' = None
    /\ Goes(r, "starting")
    /\ UNCHANGED <<table_vars, others, todo, seat_vars>>

\* The browser is started if the budget allows it.
Starts(r) ==
    /\ pc[r] = "starting"
    /\ Acquires(r)
    /\ browser' = [browser EXCEPT ![r] = "open"]
    /\ Goes(r, "searching")
    /\ UNCHANGED <<table_vars, others, gate_vars, closer_vars, seat_vars>>

\* ProviderBusy: nothing was opened, nothing is closed.
FindsNoBrowser(r) ==
    /\ pc[r] = "starting" /\ ~Free
    /\ pending' = pending - 1
    /\ Goes(r, "done")
    /\ UNCHANGED <<table_vars, browser, budget_vars, registry, closer_vars, seat_vars>>

Finds(r) ==
    /\ pc[r] = "searching"
    /\ sessions' = sessions \cup {r}
    /\ born' = [born EXCEPT ![r] = Cardinality({k \in Searches : born[k] # 0}) + 1]
    /\ pending' = pending - 1
    /\ Goes(r, "done")
    /\ UNCHANGED <<expired, browser, budget_vars, registry, closer_vars, seat_vars>>

\* The browser does not start, the provider fails or takes too long.  Mutant:
\* the browser is left open.
FailsMutant(r) ==
    /\ pc[r] = "searching"
    /\ pending' = pending - 1
    /\ Goes(r, "done")
    /\ UNCHANGED <<table_vars, browser, budget_vars, registry, closer_vars, seat_vars>>

Fails(r) ==
    /\ pc[r] = "searching"
    /\ closing' = [closing EXCEPT ![r] = r]
    /\ browser' = [browser EXCEPT ![r] = "closing"]
    /\ Goes(r, "aborting")
    /\ UNCHANGED <<table_vars, budget_vars, gate_vars, todo, seat_vars>>

\* Mutant: the search is counted out twice.
AbortedMutant(r) ==
    /\ pc[r] = "aborting" /\ EndsClose(r, r)
    /\ pending' = pending - 2
    /\ Goes(r, "done")
    /\ UNCHANGED <<table_vars, others, registry, todo, seat_vars>>

Aborted(r) ==
    /\ pc[r] = "aborting" /\ EndsClose(r, r)
    /\ pending' = pending - 1
    /\ Goes(r, "done")
    /\ UNCHANGED <<table_vars, others, registry, todo, seat_vars>>

-----------------------------------------------------------------------------
(* A seat map of a session.                                                *)

SeatsArrive(v, k) ==
    /\ pc[v] = "new"
    /\ target' = [target EXCEPT ![v] = k]
    /\ StartsCleanup(v)
    /\ UNCHANGED <<table_vars, browser, budget_vars, gate_vars, closing, holder>>

\* "These search results have expired."
SeatsGone(v) ==
    /\ Cleaned(v) /\ target[v] \notin sessions
    /\ Goes(v, "done")
    /\ UNCHANGED <<table_vars, browser, budget_vars, gate_vars, closing, seat_vars>>

Waiters(k) == {v \in Seats : pc[v] = "waiting" /\ target[v] = k}

\* The session's lock is taken at once, or waited for.
SeatsFound(v) ==
    LET k == target[v]
    IN /\ Cleaned(v) /\ k \in sessions
       /\ IF holder[k] = None /\ Waiters(k) = {}
          THEN holder' = [holder EXCEPT ![k] = v] /\ Goes(v, "reading")
          ELSE UNCHANGED holder /\ Goes(v, "waiting")
       /\ UNCHANGED <<table_vars, browser, budget_vars, gate_vars, closing, target>>

\* A waiter gets the lock.  Its session may have been closed meanwhile.
SeatsGranted(v) ==
    /\ pc[v] = "waiting" /\ holder[target[v]] = None
    /\ holder' = [holder EXCEPT ![target[v]] = v]
    /\ Goes(v, "reading")
    /\ UNCHANGED <<table_vars, browser, budget_vars, gate_vars, closer_vars, target>>

\* The seat map, one from the cache, an error or a timeout.  Mutant: an error
\* leaves the lock locked.
SeatsReadMutant(v) ==
    /\ pc[v] = "reading"
    /\ Goes(v, "done")
    /\ UNCHANGED <<table_vars, browser, budget_vars, gate_vars, closer_vars, seat_vars>>

SeatsRead(v) ==
    /\ pc[v] = "reading"
    /\ holder' = [holder EXCEPT ![target[v]] = None]
    /\ Goes(v, "done")
    /\ UNCHANGED <<table_vars, browser, budget_vars, gate_vars, closer_vars, target>>

-----------------------------------------------------------------------------
(* The sweeper, and time.                                                  *)

\* Every fifteen seconds.
SweepStarts ==
    /\ pc[Sweeper] = "idle" /\ sessions \cap expired # {}
    /\ StartsCleanup(Sweeper)
    /\ UNCHANGED <<table_vars, browser, budget_vars, gate_vars, closing, seat_vars>>

SweepEnds ==
    /\ Cleaned(Sweeper) /\ Goes(Sweeper, "idle")
    /\ UNCHANGED <<table_vars, browser, budget_vars, gate_vars, closing, seat_vars>>

Expires(k) ==
    /\ k \in sessions \ expired
    /\ expired' = expired \cup {k}
    /\ UNCHANGED <<pc, sessions, born, browser, budget_vars, gate_vars, closer_vars, seat_vars>>

-----------------------------------------------------------------------------

SearchStep(r) ==
    \/ SearchEnters(r) \/ Admitted(r) \/ FindsBusy(r)
    \/ Starts(r) \/ FindsNoBrowser(r) \/ Finds(r) \/ Fails(r) \/ Aborted(r)
    \/ \E k \in Searches : Evicts(r, k) \/ Evicted(r, k)

SeatsStep(v) == SeatsGone(v) \/ SeatsFound(v) \/ SeatsRead(v)

CleanupStep(a) == \E k \in Searches : Reaps(a, k) \/ Reaped(a, k) \/ CloseRaises(a, k)

Next ==
    \/ \E r \in Searches : SearchStep(r)
    \/ \E v \in Seats : SeatsStep(v) \/ SeatsGranted(v) \/ \E k \in Searches : SeatsArrive(v, k)
    \/ \E a \in Actors : CleanupStep(a)
    \/ SweepStarts \/ SweepEnds
    \/ OthersAcquire \/ OthersRelease
    \/ \E k \in Searches : Expires(k)

\* Searches and seat maps end by their timeouts, closes end, the sweeper
\* runs, and the semaphore and the locks serve their waiters in turn.
Fairness ==
    /\ \A r \in Searches : SF_vars(SearchStep(r))
    /\ \A v \in Seats : WF_vars(SeatsStep(v)) /\ SF_vars(SeatsGranted(v))
    /\ \A a \in Actors : WF_vars(CleanupStep(a))
    /\ WF_vars(SweepStarts) /\ WF_vars(SweepEnds)

SafetySpec == Init /\ [][Next]_vars
Spec == SafetySpec /\ Fairness

-----------------------------------------------------------------------------
(* Properties.                                                             *)

\* "Two public search sessions": registered or about to be, whatever is
\* evicted, expires or fails at the awaits between the check and the entry.
SessionsBounded == Cardinality(sessions) + pending <= MaxSessions

\* The budget counts exactly the browsers that hold a slot, though a session
\* may be closed by two actors at once, and never passes its limit.
BudgetIsExact == used = Cardinality(held) + others /\ used <= Limit

\* No browser is lost: whatever holds a slot is registered, in the hands of
\* its search, or being closed.
NoBrowserLost ==
    \A k \in held : \/ k \in sessions
                    \/ pc[k] \in {"searching", "aborting"}
                    \/ \E a \in Actors : closing[a] = k

\* A session found in the table has its browser.
RegisteredIsOpen == \A k \in sessions : browser[k] = "open" /\ k \in held

\* No session is closed under a seat map that is being read.
NotClosedUnderReader ==
    [][\A k \in Searches :
         browser[k] = "open" /\ browser'[k] = "closing" => holder[k] = None]_vars

\* Every search comes to an end: nobody waits for ever for the registry, the
\* semaphore or a close.
SearchEnds == \A r \in Searches : (pc[r] # "new") ~> (pc[r] = "done")

\* A seat-map request that waits for its session's lock gets its turn.
SeatsServed == \A v \in Seats : (pc[v] = "waiting") ~> (pc[v] # "waiting")

\* "Up to five minutes": an expired session is closed, unless a close that
\* raised has ended the sweeper.
ExpiredIsClosed ==
    [](pc[Sweeper] # "done") =>
      \A k \in Searches : (k \in sessions \cap expired) ~> (k \notin sessions)
=============================================================================
