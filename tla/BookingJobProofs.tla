-------------------------- MODULE BookingJobProofs --------------------------
(***************************************************************************)
(* Theorems about BookingJob, for every set of offers and requests, every  *)
(* horizon and every number of stops.  The safety properties are not       *)
(* inductive: that a row is changed only by the holder of the lock, which  *)
(* then works on a current copy of it, is what makes them so (IInv).       *)
(***************************************************************************)
EXTENDS BookingJob, TLAPS

Asleep == {"idle", "start", "wait"}

\* An actor that has the lock.
Active(a) == pc[a] \notin Asleep

\* Mutual exclusion: whoever is between "async with lock" and its end holds it.
Locked == \A a \in Actors : Active(a) <=> holder = a

\* Who is in the queue waits, and waits once.
Queue ==
    /\ \A i \in 1..Len(waiting) : pc[waiting[i]] = "wait"
    /\ \A i, j \in 1..Len(waiting) : waiting[i] = waiting[j] => i = j

\* A shutdown begins when no HTTP request is in progress and ends when no task
\* of the worker is.
Quiet ==
    /\ server # "up" => pc["action"] = "idle" /\ pc["browser"] = "idle"
    /\ server = "down" => pc["poll"] = "idle" /\ pc["sweep"] = "idle"

LockTypes ==
    /\ server \in {"up", "stopping", "down"}
    /\ holder \in Actors \cup {None}
    /\ waiting \in Seq(Actors)
    /\ pc \in [Actors -> PCs]
    /\ copy \in [Actors -> Rows \cup {None}]

LockInv == LockTypes /\ Locked /\ Queue /\ Quiet

\* What every stored row satisfies.
RowOK(r) ==
    /\ r \in Rows
    /\ r.status \in MONITORED \cup {"PAUSED"} => ~r.reservation_attempted /\ r.offer = None
    /\ r.status \in {"PREPARING", "AWAITING_PAYMENT"} => r.reservation_attempted
    /\ r.status \in MONITORED \cup {"PREPARING", "AWAITING_PAYMENT"} => r.errors < MaxErrors

\* An attempt that was begun, and a selection that may have been made, are on disk.
Recorded ==
    /\ prepares \in 0..1
    /\ prepares = 1 => row.reservation_attempted
    /\ LoginFrameStable /\ held => row.reservation_attempted

DataInv ==
    /\ req \in Requests
    /\ now \in 0..Horizon
    /\ looping \in BOOLEAN
    /\ stops \in 0..MaxStops
    /\ provider \in {"none", "closed", "open"}
    /\ idle \in BOOLEAN
    /\ vault \in BOOLEAN
    /\ best \in [offer: Offers, at: Nat] \cup {None}
    /\ held \in BOOLEAN
    /\ observed \in Offers \cup {None}
    /\ RowOK(row)
    /\ Recorded

\* What the place of the polling task says about the row it has read, the
\* offer it works on and the attempts so far.  The copy that expire() may
\* store again, if closing the browser raises, is as good as the row.
PollFits ==
    /\ pc["poll"] \in {"search", "seatmap", "preflight"} => copy["poll"].status \in MONITORED
    /\ pc["poll"] = "inspect" => copy["poll"].status = "AWAITING_PAYMENT"
    /\ pc["poll"] \in PreparingPCs \ {"prepared"} => copy["poll"].status = "PREPARING"
    /\ pc["poll"] = "prepared" => copy["poll"].status = "AWAITING_PAYMENT"
    /\ pc["poll"] \in {"seatmap", "preflight"} \cup PreparingPCs
       => best \in [offer : Offers, at : Nat]
    /\ pc["poll"] = "persisted" => prepares = 0
    /\ pc["poll"] = "discard" =>
         /\ row.status = "EXPIRED"
         /\ RowOK(copy["poll"]) /\ Due(copy["poll"])
         /\ copy["poll"].reservation_attempted = row.reservation_attempted

BrowserFits ==
    /\ pc["browser"] \in {"gesture", "verified", "manual", "outcome"}
       => copy["browser"].status \in MANUAL
    /\ pc["browser"] = "manual" => copy["browser"].reservation_attempted

\* The holder's copy is the stored row until it has stored its last change.
Fits(a) ==
    /\ copy[a] \in Rows
    /\ pc[a] \notin {"note", "release", "discard"} => copy[a] = row
    /\ a = "poll" => PollFits
    /\ a = "action" /\ pc["action"] \in {"restore", "inspect"} => copy["action"].status \in MANUAL
    /\ a = "browser" => BrowserFits

WorkInv == \A a \in Actors : Active(a) => Fits(a)

IInv == LockInv /\ DataInv /\ WorkInv

-----------------------------------------------------------------------------
(* The lock.                                                               *)

\* The end of "async with lock" leaves nobody at work.
LEMMA AfterLeave ==
    ASSUME LockInv, NEW a \in Actors, Active(a), Leave(a), UNCHANGED server
    PROVE  LockInv' /\ WorkInv'
<1> USE DEF Actors, Asleep, PCs, PreparingPCs, Active
<1>1. holder = a /\ \A b \in Actors \ {a} : ~Active(b)
  BY DEF LockInv, LockTypes, Locked
<1>2. LockTypes'
  BY DEF LockInv, LockTypes, Leave
<1>3. \A b \in Actors : ~Active(b)'
  BY <1>1 DEF LockInv, LockTypes, Leave
<1>4. None \notin Actors
  BY ConstantsAssumption
<1>5. Locked'
  BY <1>3, <1>4 DEF Locked, Leave
<1>6. Queue'
  BY DEF LockInv, LockTypes, Queue, Leave
<1>7. Quiet'
  BY DEF LockInv, LockTypes, Quiet, Leave
<1> QED
  BY <1>2, <1>3, <1>5, <1>6, <1>7 DEF LockInv, WorkInv

\* An actor that goes on to its next await keeps the lock.
LEMMA AfterGoesOn ==
    ASSUME LockInv, WorkInv, NEW a \in Actors, Active(a), NEW label \in PCs \ Asleep,
           pc' = [pc EXCEPT ![a] = label], UNCHANGED <<server, holder, waiting>>,
           copy' \in [Actors -> Rows \cup {None}],
           (server # "up" => a \in {"poll", "sweep"}),
           Fits(a)'
    PROVE  LockInv' /\ WorkInv'
<1> USE DEF Actors, Asleep, PCs, PreparingPCs, Active
<1>1. holder = a /\ \A b \in Actors \ {a} : ~Active(b)
  BY DEF LockInv, LockTypes, Locked
<1>2. LockTypes'
  BY DEF LockInv, LockTypes
<1>3. Active(a)' /\ \A b \in Actors \ {a} : ~Active(b)'
  BY <1>1 DEF LockInv, LockTypes
<1>4. Locked'
  BY <1>1, <1>3 DEF Locked
<1>5. Queue'
  BY DEF LockInv, LockTypes, Queue
<1>6. Quiet'
  BY DEF LockInv, LockTypes, Quiet
<1> QED
  BY <1>2, <1>3, <1>4, <1>5, <1>6 DEF LockInv, WorkInv

\* An actor that asks for the lock gets it with a copy of the row, or waits.
LEMMA AfterAsk ==
    ASSUME LockInv, WorkInv, RowOK(row), NEW a \in Actors, pc[a] \in {"idle", "start"}, Ask(a),
           server # "down", (server # "up" => a \in {"poll", "sweep"}),
           UNCHANGED <<server, row, best, prepares>>
    PROVE  LockInv' /\ WorkInv'
<1> USE DEF Actors, Asleep, PCs, PreparingPCs, Active
<1>1. ~Active(a)
  OBVIOUS
<1>2. row \in Rows
  BY DEF RowOK
<1>3. CASE holder = None /\ waiting = <<>>
  <2>1. \A b \in Actors : ~Active(b)
    BY <1>3, ConstantsAssumption DEF LockInv, LockTypes, Locked
  <2>2. /\ holder' = a /\ waiting' = waiting
        /\ pc' = [pc EXCEPT ![a] = "locked"] /\ copy' = [copy EXCEPT ![a] = row]
    BY <1>3 DEF Ask
  <2>3. LockTypes'
    BY <1>2, <2>2 DEF LockInv, LockTypes
  <2>4. Locked'
    BY <2>1, <2>2 DEF LockInv, LockTypes, Locked
  <2>5. Queue'
    BY <1>3, <2>2 DEF Queue
  <2>6. Quiet'
    BY <2>2 DEF LockInv, LockTypes, Quiet
  <2>7. Fits(a)'
    BY <1>2, <2>2 DEF LockInv, LockTypes, Fits, PollFits, BrowserFits
  <2> QED
    BY <2>2, <2>3, <2>4, <2>5, <2>6, <2>7 DEF LockInv, WorkInv, Locked
<1>4. CASE ~(holder = None /\ waiting = <<>>)
  <2>1. /\ holder' = holder /\ waiting' = Append(waiting, a) /\ copy' = copy
        /\ pc' = [pc EXCEPT ![a] = "wait"]
    BY <1>4 DEF Ask
  <2>2. LockTypes'
    BY <2>1 DEF LockInv, LockTypes
  <2>3. \A b \in Actors : Active(b)' <=> Active(b)
    BY <2>1 DEF LockInv, LockTypes
  <2>4. Locked'
    BY <2>1, <2>3 DEF LockInv, Locked
  <2>5. Queue'
    <3>1. \A i \in 1..Len(waiting) : waiting[i] # a
      BY DEF LockInv, Queue
    <3>2. /\ Len(waiting') = Len(waiting) + 1 /\ waiting'[Len(waiting) + 1] = a
          /\ \A i \in 1..Len(waiting) : waiting'[i] = waiting[i]
      BY <2>1 DEF LockInv, LockTypes
    <3>3. Len(waiting) \in Nat /\ \A i \in 1..Len(waiting) : waiting[i] \in Actors
      BY DEF LockInv, LockTypes
    <3> QED
      BY <2>1, <3>1, <3>2, <3>3 DEF LockInv, LockTypes, Queue
  <2>6. Quiet'
    BY <2>1 DEF LockInv, LockTypes, Quiet
  <2>7. ASSUME NEW b \in Actors, Active(b) PROVE Fits(b)'
    <3>1. Fits(b) /\ b # a
      BY <1>1, <2>7 DEF WorkInv
    <3>2. pc'[b] = pc[b]
      BY <2>1, <3>1 DEF LockInv, LockTypes
    <3> QED
      BY <2>1, <3>1, <3>2 DEF Fits, PollFits, BrowserFits
  <2> QED
    BY <2>2, <2>3, <2>4, <2>5, <2>6, <2>7 DEF LockInv, WorkInv
<1> QED
  BY <1>3, <1>4

\* The first waiter gets the free lock with a copy of the row.
LEMMA AfterGrant ==
    ASSUME LockInv, WorkInv, RowOK(row), Grant
    PROVE  LockInv' /\ WorkInv'
<1> USE DEF Actors, Asleep, PCs, PreparingPCs, Active
<1>1. waiting # <<>> /\ holder = None
  BY DEF Grant
<1>2. waiting \in Seq(Actors) /\ Len(waiting) \in Nat \ {0} /\ 1 \in 1..Len(waiting)
  BY <1>1 DEF LockInv, LockTypes
<1>3. PICK a \in Actors : a = waiting[1] /\ pc[a] = "wait"
  BY <1>2 DEF LockInv, Queue
<1>4. /\ holder' = a /\ waiting' = Tail(waiting)
       /\ pc' = [pc EXCEPT ![a] = "locked"] /\ copy' = [copy EXCEPT ![a] = row]
       /\ UNCHANGED <<server, row, best, prepares>>
  BY <1>3 DEF Grant, server_vars, ghost_vars
<1>5. /\ Len(waiting') = Len(waiting) - 1
      /\ \A i \in 1..Len(waiting') : waiting'[i] = waiting[i + 1]
  BY <1>2, <1>4
<1>6. \A b \in Actors : ~Active(b)
  BY <1>1, ConstantsAssumption DEF LockInv, LockTypes, Locked
<1>7. LockTypes'
  BY <1>2, <1>3, <1>4 DEF LockInv, LockTypes, RowOK
<1>8. Locked'
  BY <1>3, <1>4, <1>6 DEF LockInv, LockTypes, Locked
<1>9. Queue'
  <2>1. \A i \in 1..Len(waiting') : i + 1 \in 1..Len(waiting) /\ waiting[i + 1] # a
    BY <1>2, <1>3, <1>5 DEF LockInv, Queue
  <2>2. \A i \in 1..Len(waiting') : waiting'[i] \in Actors /\ pc'[waiting'[i]] = "wait"
    BY <1>2, <1>4, <1>5, <2>1 DEF LockInv, LockTypes, Queue
  <2>3. ASSUME NEW i \in 1..Len(waiting'), NEW j \in 1..Len(waiting'), waiting'[i] = waiting'[j]
        PROVE  i = j
    <3>1. waiting[i + 1] = waiting[j + 1]
      BY <1>5, <2>3
    <3> QED
      BY <1>2, <1>5, <2>1, <3>1 DEF LockInv, Queue
  <2> QED
    BY <2>2, <2>3 DEF Queue
<1>10. Quiet'
  BY <1>3, <1>4 DEF LockInv, LockTypes, Quiet
<1>11. Fits(a)'
  BY <1>3, <1>4 DEF LockInv, LockTypes, Fits, PollFits, BrowserFits, RowOK
<1> QED
  BY <1>3, <1>4, <1>7, <1>8, <1>9, <1>10, <1>11 DEF LockInv, WorkInv, Locked

\* A task that is cancelled before it has the lock just leaves the queue.
LEMMA AfterCancelledBeforeLock ==
    ASSUME LockInv, WorkInv, NEW a \in {"poll", "sweep"}, CancelledBeforeLock(a),
           UNCHANGED <<server, prepares>>
    PROVE  LockInv' /\ WorkInv'
<1> USE DEF Actors, Asleep, PCs, PreparingPCs, Active
<1>1. /\ pc[a] \in {"start", "wait"} /\ pc' = [pc EXCEPT ![a] = "idle"]
      /\ UNCHANGED <<row, holder, copy, best, server, prepares>>
  BY DEF CancelledBeforeLock
<1>2. waiting \in Seq(Actors) /\ Len(waiting) \in Nat
      /\ \A i \in 1..Len(waiting) : waiting[i] \in Actors
  BY DEF LockInv, LockTypes
<1>3. waiting' \in Seq(Actors) /\ Queue'
  <2>1. CASE pc[a] = "start"
    <3>1. waiting' = waiting
      BY <2>1 DEF CancelledBeforeLock
    <3> QED
      BY <1>1, <1>2, <2>1, <3>1 DEF LockInv, LockTypes, Queue
  <2>2. CASE pc[a] = "wait"
    <3>1. PICK k \in 1..Len(waiting) :
            /\ waiting[k] = a
            /\ waiting' = [i \in 1..(Len(waiting) - 1) |->
                             IF i < k THEN waiting[i] ELSE waiting[i + 1]]
      BY <2>2 DEF CancelledBeforeLock
    <3> DEFINE old(i) == IF i < k THEN i ELSE i + 1
    <3>2. \A i \in 1..(Len(waiting) - 1) :
            old(i) \in 1..Len(waiting) /\ old(i) # k /\ waiting'[i] = waiting[old(i)]
      BY <1>2, <3>1
    <3>3. \A i \in 1..(Len(waiting) - 1) : waiting'[i] \in Actors
      BY <1>2, <3>2
    <3>4. waiting' \in Seq(Actors) /\ Len(waiting') = Len(waiting) - 1
      BY <1>2, <3>1, <3>3
    <3>5. \A i \in 1..Len(waiting') : waiting'[i] # a
      BY <3>1, <3>2, <3>4 DEF LockInv, Queue
    <3>6. \A i \in 1..Len(waiting') : pc'[waiting'[i]] = "wait"
      BY <1>1, <3>2, <3>3, <3>4, <3>5 DEF LockInv, LockTypes, Queue
    <3>7. \A i, j \in 1..Len(waiting') : waiting'[i] = waiting'[j] => i = j
      BY <1>2, <3>2, <3>4 DEF LockInv, Queue
    <3> QED
      BY <3>4, <3>6, <3>7 DEF Queue
  <2> QED
    BY <1>1, <2>1, <2>2
<1>4. LockTypes'
  BY <1>1, <1>3 DEF LockInv, LockTypes
<1>5. \A b \in Actors : Active(b)' <=> Active(b)
  BY <1>1 DEF LockInv, LockTypes
<1>6. Locked'
  BY <1>1, <1>5 DEF LockInv, Locked
<1>7. Quiet'
  BY <1>1 DEF LockInv, LockTypes, Quiet
<1>8. ASSUME NEW b \in Actors, Active(b) PROVE Fits(b)'
  <2>1. Fits(b) /\ b # a
    BY <1>1, <1>8 DEF WorkInv
  <2>2. pc'[b] = pc[b]
    BY <1>1, <2>1 DEF LockInv, LockTypes
  <2> QED
    BY <1>1, <2>1, <2>2 DEF Fits, PollFits, BrowserFits
<1> QED
  BY <1>3, <1>4, <1>5, <1>6, <1>7, <1>8 DEF LockInv, WorkInv

-----------------------------------------------------------------------------
(* What is stored keeps what every row satisfies.                          *)

\* A request handed over to its owner is a well-formed row.
LEMMA HandedOverOK ==
    ASSUME NEW c \in Rows
    PROVE  /\ RowOK(HandedOver(c))
           /\ HandedOver(c).status = "NEEDS_ATTENTION"
           /\ HandedOver(c).reservation_attempted = c.reservation_attempted
BY DEF Rows, Statuses, RowOK, HandedOver, MONITORED

\* So is one whose error count is cleared.
LEMMA ClearedOK ==
    ASSUME NEW c \in Rows
    PROVE  /\ [c EXCEPT !.errors = 0] \in Rows
           /\ [c EXCEPT !.errors = 0].reservation_attempted = c.reservation_attempted
           /\ [c EXCEPT !.errors = c.errors] = c
BY DEF Rows, MaxErrors

\* One more error keeps the status or hands the request over.
LEMMA FailedOK ==
    ASSUME NEW c, RowOK(c), Due(c)
    PROVE  /\ RowOK(Failed(c))
           /\ Failed(c).status \in {c.status, "NEEDS_ATTENTION"}
           /\ Failed(c).reservation_attempted = c.reservation_attempted
<1>1. c \in Rows /\ c.errors \in 0..2
  BY DEF RowOK, Due, MONITORED, Rows, MaxErrors
<1> DEFINE f == [c EXCEPT !.errors = c.errors + 1]
<1>2. f \in Rows /\ f.errors = c.errors + 1 /\ f.status = c.status
      /\ f.reservation_attempted = c.reservation_attempted /\ f.offer = c.offer
  BY <1>1 DEF Rows, MaxErrors
<1>3. CASE f.errors >= MaxErrors
  <2>1. Failed(c) = HandedOver(f)
    BY <1>3 DEF Failed
  <2> QED
    BY <1>2, <2>1, HandedOverOK
<1>4. CASE ~(f.errors >= MaxErrors)
  <2>1. Failed(c) = f
    BY <1>4 DEF Failed
  <2>2. f.errors < MaxErrors
    BY <1>1, <1>2, <1>4 DEF MaxErrors
  <2> HIDE DEF f
  <2> QED
    BY <1>2, <2>1, <2>2 DEF RowOK
<1> QED
  BY <1>3, <1>4

\* Changing only the status forgets no attempt.
LEMMA StatusOK ==
    ASSUME NEW c, RowOK(c), NEW s \in {"PAUSED", "CANCELLED", "CONFIRMED", "AWAITING_PAYMENT"},
           s = "PAUSED" => c.status \in MONITORED,
           s = "AWAITING_PAYMENT" => c.status = s
    PROVE  /\ RowOK(WithStatus(c, s))
           /\ WithStatus(c, s).status = s
           /\ WithStatus(c, s).reservation_attempted = c.reservation_attempted
BY DEF Rows, Statuses, RowOK, WithStatus, MONITORED

\* Nor does expiry,
LEMMA ExpiredOK ==
    ASSUME NEW c \in Rows, NEW e \in 0..MaxErrors
    PROVE  /\ RowOK(Expired(c, e))
           /\ Expired(c, e).status = "EXPIRED"
           /\ Expired(c, e).reservation_attempted = c.reservation_attempted
BY DEF Rows, Statuses, RowOK, Expired, MONITORED

\* nor an observation of a watched request,
LEMMA ObservedOK ==
    ASSUME NEW c, RowOK(c), c.status \in MONITORED, NEW s \in MONITORED,
           NEW o \in Offers \cup {None}
    PROVE  /\ RowOK(Observed(c, s, o))
           /\ Observed(c, s, o).status = s
           /\ Observed(c, s, o).reservation_attempted = c.reservation_attempted
<1> DEFINE r == Observed(c, s, o)
<1>1. c \in Rows /\ ~c.reservation_attempted /\ c.offer = None
  BY DEF RowOK
<1>2. /\ r \in Rows /\ r.status = s /\ r.errors = 0
      /\ r.reservation_attempted = c.reservation_attempted /\ r.offer = c.offer
  <2>1. s \in Statuses /\ 0 \in 0..MaxErrors
    BY DEF Statuses, MaxErrors
  <2> QED
    BY <1>1, <2>1 DEF Rows, Observed
<1> QED
  BY <1>1, <1>2 DEF RowOK, MONITORED, MaxErrors

\* nor the boundary of uncertainty, which records the attempt.
LEMMA AttemptOK ==
    ASSUME NEW c \in Rows, NEW o \in Offers
    PROVE  /\ RowOK(Attempt(c, o))
           /\ Attempt(c, o).status = "PREPARING"
           /\ Attempt(c, o).reservation_attempted
<1>1. /\ Attempt(c, o) \in Rows /\ Attempt(c, o).status = "PREPARING"
      /\ Attempt(c, o).errors = 0 /\ Attempt(c, o).reservation_attempted
  <2>1. "PREPARING" \in Statuses /\ 0 \in 0..MaxErrors
    BY DEF Statuses, MaxErrors
  <2> QED
    BY <2>1 DEF Rows, Attempt
<1> QED
  BY <1>1 DEF RowOK, MONITORED, MaxErrors

\* Only an untouched request is resumed.
LEMMA ResumedOK ==
    ASSUME NEW c \in Rows, MayResume(c)
    PROVE  RowOK(Resumed(c)) /\ Resumed(c).reservation_attempted = c.reservation_attempted
<1>1. ~c.reservation_attempted /\ c.offer = None
  BY DEF MayResume
<1>2. /\ Resumed(c) \in Rows /\ Resumed(c).status = "SCHEDULED" /\ Resumed(c).errors = 0
      /\ Resumed(c).reservation_attempted = c.reservation_attempted
      /\ Resumed(c).offer = c.offer
  <2>1. "SCHEDULED" \in Statuses /\ 0 \in 0..MaxErrors
    BY DEF Statuses, MONITORED, MaxErrors
  <2> QED
    BY <2>1 DEF Rows, Resumed
<1> QED
  BY <1>1, <1>2 DEF RowOK, MaxErrors

\* A prepared booking keeps its record of the attempt.
LEMMA PreparedOK ==
    ASSUME NEW c, RowOK(c), c.status = "PREPARING", NEW t \in Nat \cup {None}
    PROVE  /\ RowOK(Prepared(c, t))
           /\ Prepared(c, t).status = "AWAITING_PAYMENT"
           /\ Prepared(c, t).reservation_attempted
<1>1. c \in Rows /\ c.reservation_attempted /\ c.errors < MaxErrors
  BY DEF RowOK
<1>2. /\ Prepared(c, t) \in Rows /\ Prepared(c, t).status = "AWAITING_PAYMENT"
      /\ Prepared(c, t).errors = c.errors
      /\ Prepared(c, t).reservation_attempted = c.reservation_attempted
  <2>1. "AWAITING_PAYMENT" \in Statuses
    BY DEF Statuses
  <2> QED
    BY <1>1, <2>1 DEF Rows, Prepared
<1> QED
  BY <1>1, <1>2 DEF RowOK, MONITORED

\* A gesture that may select a seat is recorded; such a request is not watched.
LEMMA AttemptedOK ==
    ASSUME NEW c \in Rows
    PROVE  /\ Attempted(c) \in Rows /\ Attempted(c).reservation_attempted
           /\ Attempted(c).status = c.status
           /\ RowOK(c) /\ c.status \in MANUAL => RowOK(Attempted(c))
BY DEF Rows, Attempted, RowOK, MANUAL, MONITORED

\* Recovery after a restart forgets no attempt.
LEMMA RecoveredOK ==
    ASSUME NEW c, RowOK(c)
    PROVE  /\ RowOK(Recovered(c))
           /\ c.reservation_attempted => Recovered(c).reservation_attempted
BY AttemptedOK, HandedOverOK DEF RowOK, Recovered

-----------------------------------------------------------------------------
(* The steps.                                                              *)

\* AfterGoesOn for a step of the form GoesOn(a, label, c).
LEMMA GoingOn ==
    ASSUME LockInv, WorkInv, NEW a \in Actors, Active(a), server # "down",
           server # "up" => a \in {"poll", "sweep"},
           NEW label \in PCs \ Asleep, NEW c \in Rows, GoesOn(a, label, c), UNCHANGED server
    PROVE  /\ pc'[a] = label /\ copy'[a] = c
           /\ Fits(a)' => LockInv' /\ WorkInv'
<1>1. /\ pc' = [pc EXCEPT ![a] = label] /\ copy' = [copy EXCEPT ![a] = c]
      /\ UNCHANGED <<holder, waiting>>
  BY DEF GoesOn
<1>2. /\ pc'[a] = label /\ copy'[a] = c
      /\ copy' \in [Actors -> Rows \cup {None}]
  BY <1>1 DEF LockInv, LockTypes
<1> QED
  BY <1>1, <1>2, AfterGoesOn

\* What the place of an actor that runs says about what it has read.
LEMMA AtWork ==
    ASSUME IInv, NEW a \in Actors, NEW label \in PCs \ Asleep, At(a, label)
    PROVE  /\ pc[a] = label /\ Active(a) /\ server # "down" /\ Fits(a)
           /\ copy[a] \in Rows /\ row \in Rows /\ RowOK(row)
           /\ label \notin {"note", "release", "discard"} => copy[a] = row /\ RowOK(copy[a])
           /\ server # "up" => a \in {"poll", "sweep"}
BY DEF IInv, LockInv, WorkInv, DataInv, Quiet, At, Active, Fits, RowOK, Actors, Asleep
\* A step that stores a row keeps the rest, if it forgets no attempt.
LEMMA RowStored ==
    ASSUME DataInv, RowOK(row'), row.reservation_attempted => row'.reservation_attempted,
           UNCHANGED <<server_vars, held, prepares>>, idle' \in BOOLEAN, vault' \in BOOLEAN,
           provider' \in {"none", "closed", "open"},
           best' \in [offer: Offers, at: Nat] \cup {None}, observed' \in Offers \cup {None}
    PROVE  DataInv'
BY DEF DataInv, Recorded, server_vars

\* A match that is only watched.
LEMMA WatchesKeeps ==
    ASSUME LockInv, WorkInv, DataInv, Active("poll"), server # "down",
           copy["poll"] = row, row.status \in MONITORED, NEW o \in Offers, OnlyWatches(o),
           UNCHANGED <<server_vars, idle, vault, held, prepares>>,
           provider' \in {"none", "closed", "open"}
    PROVE  LockInv' /\ WorkInv' /\ DataInv'
<1> USE DEF Actors, PCs, PreparingPCs, Asleep, MONITORED
<1>1. RowOK(row) /\ row \in Rows /\ row.confirmed_offer \in Offers \cup {None}
  BY DEF DataInv, RowOK, Rows
<1>2. PICK s \in MONITORED, c \in Offers \cup {None} : Stores(s, c)
  BY <1>1 DEF OnlyWatches
<1>3. /\ row' = Observed(row, s, c) /\ GoesOn("poll", "release", row)
      /\ UNCHANGED best /\ observed' = o
  BY <1>2 DEF Stores, OnlyWatches
<1>4. RowOK(row') /\ row'.reservation_attempted = row.reservation_attempted
  BY <1>1, <1>3, ObservedOK
<1>5. LockInv' /\ WorkInv'
  BY <1>1, <1>3, GoingOn DEF server_vars, Fits, PollFits
<1>6. DataInv'
  BY <1>3, <1>4, RowStored DEF DataInv
<1> QED
  BY <1>5, <1>6

\* The boundary of uncertainty.  No preparation was begun before: the row of
\* one says so.
LEMMA CommitKeeps ==
    ASSUME LockInv, WorkInv, DataInv, Active("poll"), server # "down",
           copy["poll"] = row, row.status \in MONITORED, best \in [offer: Offers, at: Nat],
           NEW o \in Offers, Commits(o), UNCHANGED <<server_vars, session_vars, held, prepares, observed>>
    PROVE  LockInv' /\ WorkInv' /\ DataInv'
<1> USE DEF Actors, PCs, PreparingPCs, Asleep
<1>1. RowOK(row) /\ row \in Rows /\ 0 \in 0..MaxErrors /\ prepares = 0 /\ Due(row)
  BY DEF DataInv, RowOK, Recorded, MaxErrors, Due
<1>2. CASE now >= Deadline(o)
  <2>1. row' = Expired(row, 0) /\ GoesOn("poll", "discard", row) /\ UNCHANGED best
    BY <1>2 DEF Commits, Expires
  <2>2. /\ RowOK(row') /\ row'.reservation_attempted = row.reservation_attempted
        /\ row'.status = "EXPIRED"
    BY <1>1, <2>1, ExpiredOK
  <2>3. LockInv' /\ WorkInv'
    BY <1>1, <2>1, <2>2, GoingOn DEF server_vars, Fits, PollFits
  <2>4. DataInv'
    BY <2>1, <2>2, RowStored DEF DataInv, session_vars
  <2> QED
    BY <2>3, <2>4
<1>3. CASE ~(now >= Deadline(o))
  <2>1. row' = Attempt(row, o) /\ GoesOn("poll", "persisted", row') /\ UNCHANGED best
    BY <1>3 DEF Commits
  <2>2. /\ RowOK(row') /\ row'.reservation_attempted
        /\ row'.status = "PREPARING" /\ row' \in Rows
    BY <1>1, <2>1, AttemptOK DEF RowOK
  <2>3. LockInv' /\ WorkInv'
    BY <1>1, <2>1, <2>2, GoingOn DEF server_vars, Fits, PollFits
  <2>4. DataInv'
    BY <2>1, <2>2, RowStored DEF DataInv, session_vars
  <2> QED
    BY <2>3, <2>4
<1> QED
  BY <1>2, <1>3

\* The polling task.
LEMMA PollStepKeeps ==
    ASSUME IInv, PollStep
    PROVE  IInv'
<1> USE DEF Actors, PCs, PreparingPCs, Asleep
<1>1. CASE PollAsks
  <2>1. LockInv' /\ WorkInv'
    BY <1>1, AfterAsk DEF PollAsks, At, IInv, DataInv, server_vars, ghost_vars
  <2>2. DataInv'
    BY <1>1 DEF PollAsks, IInv, DataInv, Recorded, server_vars, session_vars, ghost_vars
  <2> QED
    BY <2>1, <2>2 DEF IInv
<1>2. CASE PollSkips
  <2>1. LockInv' /\ WorkInv'
    BY <1>2, AtWork, AfterLeave DEF PollSkips, IInv, server_vars, ghost_vars
  <2>2. DataInv'
    BY <1>2, AtWork
       DEF PollSkips, Leave, IInv, DataInv, Recorded, server_vars, session_vars, ghost_vars
  <2> QED
    BY <2>1, <2>2 DEF IInv
<1>3. CASE PollFindsWindowOver
  <2>1. /\ Active("poll") /\ pc["poll"] \in {"locked"} /\ Fits("poll")
        /\ server # "down" /\ (server # "up" => "poll" \in {"poll", "sweep"})
        /\ copy["poll"] = row /\ RowOK(copy["poll"]) /\ copy["poll"] \in Rows
        /\ copy["poll"].status \in MONITORED
    BY <1>3, AtWork DEF PollFindsWindowOver, Expires
  <2>2. RowOK(row') /\ row'.reservation_attempted = row.reservation_attempted
        /\ row'.status = "EXPIRED"
    BY <1>3, <2>1, ExpiredOK DEF PollFindsWindowOver, Expires, Rows
  <2>3. LockInv' /\ WorkInv'
    BY <1>3, <2>1, <2>2, GoingOn
       DEF PollFindsWindowOver, Expires, IInv, server_vars, session_vars, ghost_vars, Fits,
           PollFits, RowOK, Due
  <2>4. DataInv'
    BY <1>3, <2>1, <2>2, RowStored
       DEF PollFindsWindowOver, Expires, Leave, IInv, DataInv, server_vars, session_vars,
           ghost_vars
  <2> QED
    BY <2>3, <2>4 DEF IInv
<1>4. CASE PollOpens
  <2>1. LockInv' /\ WorkInv'
    BY <1>4, AtWork, GoingOn
       DEF PollOpens, PollGoesAhead, VaultLoads, IInv, server_vars, session_vars, ghost_vars,
           Fits, PollFits
  <2>2. DataInv'
    BY <1>4, AtWork
       DEF PollOpens, PollGoesAhead, VaultLoads, IInv, DataInv, Recorded, server_vars,
           session_vars, ghost_vars
  <2> QED
    BY <2>1, <2>2 DEF IInv
<1>5. CASE PollCannotRestore
  <2>1. /\ Active("poll") /\ pc["poll"] \in {"locked"} /\ Fits("poll")
        /\ server # "down" /\ (server # "up" => "poll" \in {"poll", "sweep"})
        /\ copy["poll"] = row /\ RowOK(copy["poll"]) /\ copy["poll"] \in Rows
    BY <1>5, AtWork DEF PollCannotRestore, PollGoesAhead, VaultLoads
  <2>2. RowOK(row') /\ row'.reservation_attempted = row.reservation_attempted
        /\ row'.status = "NEEDS_ATTENTION"
    BY <1>5, <2>1, HandedOverOK DEF PollCannotRestore, PollGoesAhead, VaultLoads
  <2>3. LockInv' /\ WorkInv'
    BY <1>5, <2>1, <2>2, GoingOn
       DEF PollCannotRestore, PollGoesAhead, VaultLoads, IInv, server_vars, session_vars,
           ghost_vars, Fits, PollFits, RowOK, Due
  <2>4. DataInv'
    BY <1>5, <2>1, <2>2, RowStored
       DEF PollCannotRestore, PollGoesAhead, VaultLoads, Leave, IInv, DataInv, server_vars,
           session_vars, ghost_vars
  <2> QED
    BY <2>3, <2>4 DEF IInv
<1>6. CASE PollFindsBusy
  <2>1. LockInv' /\ WorkInv'
    BY <1>6, AtWork, GoingOn
       DEF PollFindsBusy, IInv, server_vars, session_vars, ghost_vars, Fits, PollFits
  <2>2. DataInv'
    BY <1>6, AtWork
       DEF PollFindsBusy, IInv, DataInv, Recorded, server_vars, session_vars, ghost_vars
  <2> QED
    BY <2>1, <2>2 DEF IInv
<1>7. CASE PollFails
  <2>1. /\ Active("poll") /\ pc["poll"] \in {"search", "seatmap", "preflight", "inspect"} /\ Fits("poll")
        /\ server # "down" /\ (server # "up" => "poll" \in {"poll", "sweep"})
        /\ copy["poll"] = row /\ RowOK(copy["poll"]) /\ copy["poll"] \in Rows
        /\ Due(copy["poll"])
    BY <1>7, AtWork DEF PollFails, EndsPoll, Fits, PollFits, Due
  <2>2. RowOK(row') /\ row'.reservation_attempted = row.reservation_attempted
        /\ row'.status \in {row.status, "NEEDS_ATTENTION"}
    BY <1>7, <2>1, FailedOK DEF PollFails, EndsPoll
  <2>3. LockInv' /\ WorkInv'
    BY <1>7, <2>1, <2>2, GoingOn, AfterLeave
       DEF PollFails, EndsPoll, IInv, server_vars, session_vars, ghost_vars, Fits, PollFits,
           RowOK, Due
  <2>4. DataInv'
    BY <1>7, <2>1, <2>2, RowStored
       DEF PollFails, EndsPoll, Leave, IInv, DataInv, server_vars, session_vars, ghost_vars
  <2> QED
    BY <2>3, <2>4 DEF IInv
<1>8. CASE PollNeedsAttention
  <2>1. /\ Active("poll") /\ pc["poll"] \in {"search", "seatmap", "preflight"} /\ Fits("poll")
        /\ server # "down" /\ (server # "up" => "poll" \in {"poll", "sweep"})
        /\ copy["poll"] = row /\ RowOK(copy["poll"]) /\ copy["poll"] \in Rows
    BY <1>8, AtWork DEF PollNeedsAttention
  <2>2. RowOK(row') /\ row'.reservation_attempted = row.reservation_attempted
        /\ row'.status = "NEEDS_ATTENTION"
    BY <1>8, <2>1, HandedOverOK, ClearedOK DEF PollNeedsAttention
  <2>3. LockInv' /\ WorkInv'
    BY <1>8, <2>1, <2>2, GoingOn
       DEF PollNeedsAttention, IInv, server_vars, session_vars, ghost_vars, Fits, PollFits,
           RowOK, Due
  <2>4. DataInv'
    BY <1>8, <2>1, <2>2, RowStored
       DEF PollNeedsAttention, Leave, IInv, DataInv, server_vars, session_vars, ghost_vars
  <2> QED
    BY <2>3, <2>4 DEF IInv
<1>9. CASE PollExpires
  <2>1. /\ Active("poll") /\ pc["poll"] \in {"search"} /\ Fits("poll")
        /\ server # "down" /\ (server # "up" => "poll" \in {"poll", "sweep"})
        /\ copy["poll"] = row /\ RowOK(copy["poll"]) /\ copy["poll"] \in Rows
        /\ copy["poll"].status \in MONITORED
    BY <1>9, AtWork DEF PollExpires, SearchReturns, Expires, Fits, PollFits
  <2>2. RowOK(row') /\ row'.reservation_attempted = row.reservation_attempted
        /\ row'.status = "EXPIRED"
    BY <1>9, <2>1, ExpiredOK DEF PollExpires, SearchReturns, Expires, MaxErrors
  <2>3. LockInv' /\ WorkInv'
    BY <1>9, <2>1, <2>2, GoingOn
       DEF PollExpires, SearchReturns, Expires, IInv, server_vars, session_vars, ghost_vars,
           Fits, PollFits, RowOK, Due
  <2>4. DataInv'
    BY <1>9, <2>1, <2>2, RowStored
       DEF PollExpires, SearchReturns, Expires, Leave, IInv, DataInv, server_vars,
           session_vars, ghost_vars
  <2> QED
    BY <2>3, <2>4 DEF IInv
<1>10. CASE PollFindsNothing
  <2>1. /\ Active("poll") /\ pc["poll"] \in {"search"} /\ Fits("poll")
        /\ server # "down" /\ (server # "up" => "poll" \in {"poll", "sweep"})
        /\ copy["poll"] = row /\ RowOK(copy["poll"]) /\ copy["poll"] \in Rows
        /\ copy["poll"].status \in MONITORED
    BY <1>10, AtWork DEF PollFindsNothing, SearchReturns, Stores, Watching, Fits, PollFits
  <2>2. RowOK(row') /\ row'.reservation_attempted = row.reservation_attempted
        /\ row'.status \in MONITORED
    BY <1>10, <2>1, ObservedOK DEF PollFindsNothing, SearchReturns, Stores, Watching, MONITORED
  <2>3. LockInv' /\ WorkInv'
    BY <1>10, <2>1, <2>2, GoingOn
       DEF PollFindsNothing, SearchReturns, Stores, Watching, IInv, server_vars,
           session_vars, ghost_vars, Fits, PollFits, RowOK, Due
  <2>4. DataInv'
    BY <1>10, <2>1, <2>2, RowStored
       DEF PollFindsNothing, SearchReturns, Stores, Watching, Leave, IInv, DataInv,
           server_vars, session_vars, ghost_vars
  <2> QED
    BY <2>3, <2>4 DEF IInv
<1>11. CASE \E o \in Offers : PollPicks(o)
  <2>1. PICK o \in Offers : PollPicks(o)
    BY <1>11
  <2>2. /\ Active("poll") /\ pc["poll"] = "search" /\ server # "down"
        /\ copy["poll"] = row /\ RowOK(copy["poll"]) /\ copy["poll"] \in Rows
        /\ copy["poll"].status \in MONITORED
    BY <2>1, AtWork DEF PollPicks, SearchReturns, Fits, PollFits
  <2>3. /\ provider' \in {"none", "closed", "open"}
        /\ UNCHANGED <<server_vars, idle, vault, held, prepares>>
    BY <2>1 DEF PollPicks, SearchReturns, IInv, DataInv
  <2>4. CASE req.seats # "none" \/ SecondObservation(o)
    <3>1. /\ best' = [offer |-> o, at |-> now] /\ UNCHANGED <<row, observed>>
          /\ \/ GoesOn("poll", "seatmap", copy["poll"])
             \/ GoesOn("poll", "preflight", copy["poll"])
      BY <2>1, <2>4 DEF PollPicks
    <3>2. best' \in [offer: Offers, at: Nat]
      BY <3>1, ConstantsAssumption DEF IInv, DataInv
    <3>3. LockInv' /\ WorkInv'
      BY <2>2, <2>3, <3>1, <3>2, GoingOn DEF IInv, server_vars, Fits, PollFits
    <3>4. DataInv'
      BY <2>2, <2>3, <3>1, <3>2, RowStored DEF IInv, DataInv
    <3> QED
      BY <3>3, <3>4 DEF IInv
  <2>5. CASE ~(req.seats # "none" \/ SecondObservation(o))
    <3>1. OnlyWatches(o)
      BY <2>1, <2>5 DEF PollPicks
    <3>2. LockInv' /\ WorkInv' /\ DataInv'
      BY <2>2, <2>3, <3>1, WatchesKeeps DEF IInv
    <3> QED
      BY <3>2 DEF IInv
  <2> QED
    BY <2>4, <2>5
<1>12. CASE PollLacksSeats
  <2>1. /\ Active("poll") /\ pc["poll"] \in {"seatmap"} /\ Fits("poll")
        /\ server # "down" /\ (server # "up" => "poll" \in {"poll", "sweep"})
        /\ copy["poll"] = row /\ RowOK(copy["poll"]) /\ copy["poll"] \in Rows
        /\ copy["poll"].status \in MONITORED
    BY <1>12, AtWork DEF PollLacksSeats, Stores, Watching, Fits, PollFits
  <2>2. RowOK(row') /\ row'.reservation_attempted = row.reservation_attempted
        /\ row'.status \in MONITORED
    BY <1>12, <2>1, ObservedOK DEF PollLacksSeats, Stores, Watching, MONITORED
  <2>3. LockInv' /\ WorkInv'
    BY <1>12, <2>1, <2>2, GoingOn
       DEF PollLacksSeats, Stores, Watching, IInv, server_vars, session_vars, ghost_vars,
           Fits, PollFits, RowOK, Due
  <2>4. DataInv'
    BY <1>12, <2>1, <2>2, RowStored
       DEF PollLacksSeats, Stores, Watching, Leave, IInv, DataInv, server_vars, session_vars,
           ghost_vars
  <2> QED
    BY <2>3, <2>4 DEF IInv
<1>13. CASE PollReadsSeatMap
  <2>1. /\ Active("poll") /\ pc["poll"] = "seatmap" /\ server # "down" /\ Fits("poll")
        /\ copy["poll"] = row /\ RowOK(copy["poll"]) /\ copy["poll"] \in Rows
        /\ copy["poll"].status \in MONITORED /\ best \in [offer: Offers, at: Nat]
    BY <1>13, AtWork DEF PollReadsSeatMap, Fits, PollFits
  <2>2. best.offer \in Offers /\ UNCHANGED <<server_vars, session_vars, held, prepares>>
    BY <1>13, <2>1 DEF PollReadsSeatMap
  <2>3. PICK o \in Offers : o = best.offer
    BY <2>2
  <2>4. OnlyWatches(o) \/ (Commits(o) /\ UNCHANGED observed)
    <3>1. OnlyWatches(best.offer) \/ (Commits(best.offer) /\ UNCHANGED observed)
      BY <1>13, Zenon DEF PollReadsSeatMap
    <3> QED
      BY <2>3, <3>1, Zenon DEF OnlyWatches, Commits
  <2>5. LockInv' /\ WorkInv' /\ DataInv'
    BY <2>1, <2>2, <2>4, WatchesKeeps, CommitKeeps DEF IInv, DataInv, session_vars
  <2> QED
    BY <2>5 DEF IInv
<1>14. CASE PollPreflights
  <2>1. /\ Active("poll") /\ pc["poll"] = "preflight" /\ server # "down" /\ Fits("poll")
        /\ copy["poll"] = row /\ RowOK(copy["poll"]) /\ copy["poll"] \in Rows
        /\ copy["poll"].status \in MONITORED /\ best \in [offer: Offers, at: Nat]
    BY <1>14, AtWork DEF PollPreflights, Fits, PollFits
  <2>2. PICK o \in Offers : o = best.offer
    BY <2>1
  <2>3. Commits(o) /\ UNCHANGED <<server_vars, session_vars, ghost_vars>>
    BY <1>14, <2>2 DEF PollPreflights
  <2>4. LockInv' /\ WorkInv' /\ DataInv'
    BY <2>1, <2>3, CommitKeeps DEF IInv, DataInv, session_vars, ghost_vars
  <2> QED
    BY <2>4 DEF IInv
<1>15. CASE PrepareBegins
  <2>1. LockInv' /\ WorkInv'
    BY <1>15, AtWork, GoingOn DEF PrepareBegins, Checkpoint, IInv, server_vars, Fits, PollFits
  <2>2. prepares = 0 /\ row.reservation_attempted
    BY <1>15, AtWork DEF PrepareBegins, Fits, PollFits, RowOK
  <2>3. prepares' = 1 /\ vault' \in BOOLEAN
    <3>1. prepares' = prepares + 1 /\ vault' \in {vault, TRUE}
      BY <1>15 DEF PrepareBegins, Checkpoint
    <3>2. prepares' = 1
      BY <2>2, <3>1
    <3>3. vault \in BOOLEAN
      BY DEF IInv, DataInv
    <3> QED
      BY <3>1, <3>2, <3>3, Zenon
  <2>4. DataInv'
    BY <1>15, <2>2, <2>3 DEF PrepareBegins, IInv, DataInv, Recorded, server_vars
  <2> QED
    BY <2>1, <2>4 DEF IInv
<1>16. CASE PrepareSelectsSeats
  <2>1. LockInv' /\ WorkInv'
    BY <1>16, AtWork, GoingOn DEF PrepareSelectsSeats, IInv, server_vars, Fits, PollFits
  <2>2. row.reservation_attempted
    BY <1>16, AtWork DEF PrepareSelectsSeats, Fits, PollFits, RowOK
  <2>3. DataInv'
    BY <1>16, <2>2 DEF PrepareSelectsSeats, IInv, DataInv, Recorded, server_vars, session_vars
  <2> QED
    BY <2>1, <2>3 DEF IInv
<1>17. CASE PrepareProceeds
  <2>1. LockInv' /\ WorkInv'
    BY <1>17, AtWork, GoingOn
       DEF PrepareProceeds, IInv, server_vars, session_vars, ghost_vars, Fits, PollFits
  <2>2. DataInv'
    BY <1>17, AtWork
       DEF PrepareProceeds, IInv, DataInv, Recorded, server_vars, session_vars, ghost_vars
  <2> QED
    BY <2>1, <2>2 DEF IInv
<1>18. CASE PrepareSucceeds
  <2>1. /\ Active("poll") /\ pc["poll"] \in {"preparing", "review"} /\ server # "down"
        /\ copy["poll"] = row /\ RowOK(row) /\ row.status = "PREPARING"
        /\ best \in [offer: Offers, at: Nat]
    <3>1. At("poll", "review") \/ At("poll", "preparing")
      BY <1>18 DEF PrepareSucceeds
    <3> QED
      BY <3>1, AtWork DEF Fits, PollFits
  <2>2. PICK t \in Nat \cup {None} : row' = Prepared(row, t)
    <3>1. now + PayWindow \in Nat
      BY ConstantsAssumption DEF IInv, DataInv
    <3>2. PICK t \in {None, now + PayWindow} : row' = Prepared(copy["poll"], t)
      BY <1>18 DEF PrepareSucceeds
    <3> QED
      BY <2>1, <3>1, <3>2
  <2>3. /\ RowOK(row') /\ row'.reservation_attempted /\ row' \in Rows
        /\ row'.status = "AWAITING_PAYMENT"
    BY <2>1, <2>2, PreparedOK DEF RowOK
  <2>4. LockInv' /\ WorkInv'
    BY <1>18, <2>1, <2>3, GoingOn DEF PrepareSucceeds, IInv, server_vars, Fits, PollFits
  <2>5. DataInv'
    BY <1>18, <2>3, RowStored DEF PrepareSucceeds, IInv, DataInv, ghost_vars
  <2> QED
    BY <2>4, <2>5 DEF IInv
<1>19. CASE PrepareFails
  <2>1. /\ Active("poll") /\ pc["poll"] \in {"preparing", "holding", "review"} /\ Fits("poll")
        /\ server # "down" /\ (server # "up" => "poll" \in {"poll", "sweep"})
        /\ copy["poll"] = row /\ RowOK(copy["poll"]) /\ copy["poll"] \in Rows
    BY <1>19, AtWork DEF PrepareFails
  <2>2. RowOK(row') /\ row'.reservation_attempted = row.reservation_attempted
        /\ row'.status = "NEEDS_ATTENTION"
    BY <1>19, <2>1, HandedOverOK DEF PrepareFails
  <2>3. LockInv' /\ WorkInv'
    BY <1>19, <2>1, <2>2, GoingOn
       DEF PrepareFails, IInv, server_vars, session_vars, ghost_vars, Fits, PollFits, RowOK,
           Due
  <2>4. DataInv'
    BY <1>19, <2>1, <2>2, RowStored
       DEF PrepareFails, Leave, IInv, DataInv, server_vars, session_vars, ghost_vars
  <2> QED
    BY <2>3, <2>4 DEF IInv
<1>20. CASE PrepareEnds
  <2>1. LockInv' /\ WorkInv'
    BY <1>20, AtWork, AfterLeave DEF PrepareEnds, Checkpoint, IInv, server_vars, ghost_vars
  <2>2. DataInv'
    BY <1>20, AtWork
       DEF PrepareEnds, Checkpoint, Leave, IInv, DataInv, Recorded, server_vars,
           session_vars, ghost_vars
  <2> QED
    BY <2>1, <2>2 DEF IInv
<1>21. CASE InspectConfirms("poll")
  <2>1. /\ Active("poll") /\ pc["poll"] \in {"inspect"} /\ Fits("poll")
        /\ server # "down" /\ (server # "up" => "poll" \in {"poll", "sweep"})
        /\ copy["poll"] = row /\ RowOK(copy["poll"]) /\ copy["poll"] \in Rows
    BY <1>21, AtWork DEF InspectConfirms
  <2>2. RowOK(row') /\ row'.reservation_attempted = row.reservation_attempted
        /\ row'.status = "CONFIRMED"
    BY <1>21, <2>1, StatusOK DEF InspectConfirms
  <2>3. LockInv' /\ WorkInv'
    BY <1>21, <2>1, <2>2, GoingOn
       DEF InspectConfirms, IInv, server_vars, session_vars, ghost_vars, Fits, PollFits,
           RowOK, Due
  <2>4. DataInv'
    BY <1>21, <2>1, <2>2, RowStored
       DEF InspectConfirms, Leave, IInv, DataInv, server_vars, session_vars, ghost_vars
  <2> QED
    BY <2>3, <2>4 DEF IInv
<1>22. CASE PollFindsPaymentOver
  <2>1. /\ Active("poll") /\ pc["poll"] \in {"inspect"} /\ Fits("poll")
        /\ server # "down" /\ (server # "up" => "poll" \in {"poll", "sweep"})
        /\ copy["poll"] = row /\ RowOK(copy["poll"]) /\ copy["poll"] \in Rows
        /\ copy["poll"].status = "AWAITING_PAYMENT" /\ copy["poll"].errors \in 0..MaxErrors
    BY <1>22, AtWork DEF PollFindsPaymentOver, Expires, Fits, PollFits, Rows
  <2>2. RowOK(row') /\ row'.reservation_attempted = row.reservation_attempted
        /\ row'.status \in {"NEEDS_ATTENTION", "EXPIRED"}
        /\ (~Live => row'.status = "EXPIRED")
    BY <1>22, <2>1, HandedOverOK, ExpiredOK DEF PollFindsPaymentOver, Expires
  <2>3. LockInv' /\ WorkInv'
    BY <1>22, <2>1, <2>2, GoingOn
       DEF PollFindsPaymentOver, Expires, IInv, server_vars, session_vars, ghost_vars, Fits,
           PollFits, RowOK, Due
  <2>4. DataInv'
    BY <1>22, <2>1, <2>2, RowStored
       DEF PollFindsPaymentOver, Expires, Leave, IInv, DataInv, server_vars, session_vars,
           ghost_vars
  <2> QED
    BY <2>3, <2>4 DEF IInv
<1>23. CASE PollAwaitsPayment
  <2>1. /\ Active("poll") /\ pc["poll"] \in {"inspect"} /\ Fits("poll")
        /\ server # "down" /\ (server # "up" => "poll" \in {"poll", "sweep"})
        /\ copy["poll"] = row /\ RowOK(copy["poll"]) /\ copy["poll"] \in Rows
        /\ copy["poll"].status = "AWAITING_PAYMENT"
    BY <1>23, AtWork DEF PollAwaitsPayment, Fits, PollFits
  <2>2. RowOK(row') /\ row'.reservation_attempted = row.reservation_attempted
        /\ row'.status = "AWAITING_PAYMENT"
    BY <1>23, <2>1, StatusOK DEF PollAwaitsPayment
  <2>3. LockInv' /\ WorkInv'
    BY <1>23, <2>1, AfterLeave
       DEF PollAwaitsPayment, IInv, server_vars, session_vars, ghost_vars
  <2>4. DataInv'
    BY <1>23, <2>1, <2>2, RowStored
       DEF PollAwaitsPayment, Leave, IInv, DataInv, server_vars, session_vars, ghost_vars
  <2> QED
    BY <2>3, <2>4 DEF IInv
<1>24. CASE Notes("poll")
  <2>1. LockInv' /\ WorkInv'
    BY <1>24, AtWork, AfterLeave DEF Notes, Checkpoint, IInv, server_vars, ghost_vars
  <2>2. DataInv'
    BY <1>24, AtWork
       DEF Notes, Checkpoint, Leave, IInv, DataInv, Recorded, server_vars, session_vars,
           ghost_vars
  <2> QED
    BY <2>1, <2>2 DEF IInv
<1>25. CASE Releases("poll")
  <2>1. LockInv' /\ WorkInv'
    BY <1>25, AtWork, AfterLeave DEF Releases, Checkpoint, IInv, server_vars, ghost_vars
  <2>2. DataInv'
    BY <1>25, AtWork
       DEF Releases, Checkpoint, Leave, IInv, DataInv, Recorded, server_vars, session_vars,
           ghost_vars
  <2> QED
    BY <2>1, <2>2 DEF IInv
<1>26. CASE Discards("poll")
  <2>1. LockInv' /\ WorkInv'
    BY <1>26, AtWork, AfterLeave DEF Discards, IInv, server_vars, ghost_vars
  <2>2. DataInv'
    BY <1>26, AtWork
       DEF Discards, Leave, IInv, DataInv, Recorded, server_vars, session_vars, ghost_vars
  <2> QED
    BY <2>1, <2>2 DEF IInv
<1>27. CASE PollDiscardFails
  <2>1. LockInv' /\ WorkInv'
    BY <1>27, AtWork, AfterLeave DEF PollDiscardFails, IInv, server_vars
  <2>2. /\ RowOK(copy["poll"]) /\ Due(copy["poll"])
        /\ copy["poll"].reservation_attempted = row.reservation_attempted
    BY <1>27, AtWork DEF PollDiscardFails, Fits, PollFits
  <2>3. RowOK(row') /\ row'.reservation_attempted = row.reservation_attempted
    BY <1>27, <2>2, FailedOK DEF PollDiscardFails
  <2>4. DataInv'
    BY <1>27, <2>3, RowStored DEF PollDiscardFails, Leave, IInv, DataInv, ghost_vars
  <2> QED
    BY <2>1, <2>4 DEF IInv
<1> QED
  BY <1>1, <1>2, <1>3, <1>4, <1>5, <1>6, <1>7, <1>8, <1>9, <1>10, <1>11, <1>12, <1>13, <1>14,
     <1>15, <1>16, <1>17, <1>18, <1>19, <1>20, <1>21, <1>22, <1>23, <1>24, <1>25, <1>26,
     <1>27
     DEF PollStep

\* The owner's actions.
LEMMA ActionStepKeeps ==
    ASSUME IInv, ActionArrives \/ ActionStep
    PROVE  IInv'
<1> USE DEF Actors, PCs, PreparingPCs, Asleep
<1>1. CASE ActionArrives
  <2>1. LockInv' /\ WorkInv'
    BY <1>1, AfterAsk DEF ActionArrives, IInv, DataInv, server_vars, ghost_vars
  <2>2. DataInv'
    BY <1>1 DEF ActionArrives, IInv, DataInv, Recorded, server_vars, session_vars, ghost_vars
  <2> QED
    BY <2>1, <2>2 DEF IInv
<1>2. CASE ActionRefused
  <2>1. LockInv' /\ WorkInv'
    BY <1>2, AtWork, AfterLeave DEF ActionRefused, IInv, server_vars, ghost_vars
  <2>2. DataInv'
    BY <1>2, AtWork
       DEF ActionRefused, Leave, IInv, DataInv, Recorded, server_vars, session_vars,
           ghost_vars
  <2> QED
    BY <2>1, <2>2 DEF IInv
<1>3. CASE Pause
  <2>1. /\ Active("action") /\ pc["action"] \in {"locked"} /\ Fits("action")
        /\ server # "down" /\ (server # "up" => "action" \in {"poll", "sweep"})
        /\ copy["action"] = row /\ RowOK(copy["action"]) /\ copy["action"] \in Rows
    BY <1>3, AtWork DEF Pause, MayPause, ActionStores
  <2>2. RowOK(row') /\ row'.reservation_attempted = row.reservation_attempted
        /\ row'.status = "PAUSED"
    BY <1>3, <2>1, StatusOK DEF Pause, MayPause, ActionStores
  <2>3. LockInv' /\ WorkInv'
    BY <1>3, <2>1, <2>2, GoingOn
       DEF Pause, MayPause, ActionStores, IInv, server_vars, session_vars, ghost_vars, Fits,
           PollFits, RowOK, Due
  <2>4. DataInv'
    BY <1>3, <2>1, <2>2, RowStored
       DEF Pause, MayPause, ActionStores, Leave, IInv, DataInv, server_vars, session_vars,
           ghost_vars
  <2> QED
    BY <2>3, <2>4 DEF IInv
<1>4. CASE Resume
  <2>1. /\ Active("action") /\ pc["action"] \in {"locked"} /\ Fits("action")
        /\ server # "down" /\ (server # "up" => "action" \in {"poll", "sweep"})
        /\ copy["action"] = row /\ RowOK(copy["action"]) /\ copy["action"] \in Rows
    BY <1>4, AtWork DEF Resume, ActionStores
  <2>2. RowOK(row') /\ row'.reservation_attempted = row.reservation_attempted
    BY <1>4, <2>1, ResumedOK DEF Resume, ActionStores
  <2>3. LockInv' /\ WorkInv'
    BY <1>4, <2>1, <2>2, GoingOn
       DEF Resume, ActionStores, IInv, server_vars, session_vars, ghost_vars, Fits, PollFits,
           RowOK, Due
  <2>4. DataInv'
    BY <1>4, <2>1, <2>2, RowStored
       DEF Resume, ActionStores, Leave, IInv, DataInv, server_vars, session_vars, ghost_vars
  <2> QED
    BY <2>3, <2>4 DEF IInv
<1>5. CASE Cancel
  <2>1. /\ Active("action") /\ pc["action"] \in {"locked"} /\ Fits("action")
        /\ server # "down" /\ (server # "up" => "action" \in {"poll", "sweep"})
        /\ copy["action"] = row /\ RowOK(copy["action"]) /\ copy["action"] \in Rows
    BY <1>5, AtWork DEF Cancel, ActionStores
  <2>2. RowOK(row') /\ row'.reservation_attempted = row.reservation_attempted
        /\ row'.status = "CANCELLED"
    BY <1>5, <2>1, StatusOK DEF Cancel, ActionStores
  <2>3. LockInv' /\ WorkInv'
    BY <1>5, <2>1, <2>2, GoingOn
       DEF Cancel, ActionStores, IInv, server_vars, session_vars, ghost_vars, Fits, PollFits,
           RowOK, Due
  <2>4. DataInv'
    BY <1>5, <2>1, <2>2, RowStored
       DEF Cancel, ActionStores, Leave, IInv, DataInv, server_vars, session_vars, ghost_vars
  <2> QED
    BY <2>3, <2>4 DEF IInv
<1>6. CASE DemoPay
  <2>1. /\ Active("action") /\ pc["action"] \in {"locked"} /\ Fits("action")
        /\ server # "down" /\ (server # "up" => "action" \in {"poll", "sweep"})
        /\ copy["action"] = row /\ RowOK(copy["action"]) /\ copy["action"] \in Rows
    BY <1>6, AtWork DEF DemoPay, ActionStores
  <2>2. RowOK(row') /\ row'.reservation_attempted = row.reservation_attempted
        /\ row'.status = "CONFIRMED"
    BY <1>6, <2>1, StatusOK DEF DemoPay, ActionStores
  <2>3. LockInv' /\ WorkInv'
    BY <1>6, <2>1, <2>2, GoingOn
       DEF DemoPay, ActionStores, IInv, server_vars, session_vars, ghost_vars, Fits,
           PollFits, RowOK, Due
  <2>4. DataInv'
    BY <1>6, <2>1, <2>2, RowStored
       DEF DemoPay, ActionStores, Leave, IInv, DataInv, server_vars, session_vars,
           ghost_vars
  <2> QED
    BY <2>3, <2>4 DEF IInv
<1>7. CASE Close
  <2>1. /\ Active("action") /\ pc["action"] \in {"locked"} /\ Fits("action")
        /\ server # "down" /\ (server # "up" => "action" \in {"poll", "sweep"})
        /\ copy["action"] = row /\ RowOK(copy["action"]) /\ copy["action"] \in Rows
    BY <1>7, AtWork DEF Close, ActionStores
  <2>2. RowOK(row') /\ row'.reservation_attempted = row.reservation_attempted
        /\ row'.status \in {"CONFIRMED", "CANCELLED"}
    BY <1>7, <2>1, StatusOK DEF Close, ActionStores
  <2>3. LockInv' /\ WorkInv'
    BY <1>7, <2>1, <2>2, GoingOn
       DEF Close, ActionStores, IInv, server_vars, session_vars, ghost_vars, Fits, PollFits,
           RowOK, Due
  <2>4. DataInv'
    BY <1>7, <2>1, <2>2, RowStored
       DEF Close, ActionStores, Leave, IInv, DataInv, server_vars, session_vars, ghost_vars
  <2> QED
    BY <2>3, <2>4 DEF IInv
<1>8. CASE ReconnectStarts
  <2>1. LockInv' /\ WorkInv'
    BY <1>8, AtWork, GoingOn
       DEF ReconnectStarts, VaultLoads, MayReconnect, IInv, server_vars, session_vars,
           ghost_vars, Fits, PollFits
  <2>2. DataInv'
    BY <1>8, AtWork
       DEF ReconnectStarts, VaultLoads, MayReconnect, IInv, DataInv, Recorded, server_vars,
           session_vars, ghost_vars
  <2> QED
    BY <2>1, <2>2 DEF IInv
<1>9. CASE ReconnectFindsNothing
  <2>1. LockInv' /\ WorkInv'
    BY <1>9, AtWork, AfterLeave
       DEF ReconnectFindsNothing, VaultLoads, IInv, server_vars, ghost_vars
  <2>2. DataInv'
    BY <1>9, AtWork
       DEF ReconnectFindsNothing, VaultLoads, Leave, IInv, DataInv, Recorded, server_vars,
           session_vars, ghost_vars
  <2> QED
    BY <2>1, <2>2 DEF IInv
<1>10. CASE ReconnectRestores
  <2>1. LockInv' /\ WorkInv'
    BY <1>10, AtWork, GoingOn
       DEF ReconnectRestores, IInv, server_vars, session_vars, ghost_vars, Fits, PollFits
  <2>2. DataInv'
    BY <1>10, AtWork
       DEF ReconnectRestores, IInv, DataInv, Recorded, server_vars, session_vars, ghost_vars
  <2> QED
    BY <2>1, <2>2 DEF IInv
<1>11. CASE ReconnectFails
  <2>1. LockInv' /\ WorkInv'
    BY <1>11, AtWork, AfterLeave DEF ReconnectFails, IInv, server_vars, ghost_vars
  <2>2. DataInv'
    BY <1>11, AtWork
       DEF ReconnectFails, Leave, IInv, DataInv, Recorded, server_vars, session_vars,
           ghost_vars
  <2> QED
    BY <2>1, <2>2 DEF IInv
<1>12. CASE InspectConfirms("action")
  <2>1. /\ Active("action") /\ pc["action"] \in {"inspect"} /\ Fits("action")
        /\ server # "down" /\ (server # "up" => "action" \in {"poll", "sweep"})
        /\ copy["action"] = row /\ RowOK(copy["action"]) /\ copy["action"] \in Rows
    BY <1>12, AtWork DEF InspectConfirms
  <2>2. RowOK(row') /\ row'.reservation_attempted = row.reservation_attempted
        /\ row'.status = "CONFIRMED"
    BY <1>12, <2>1, StatusOK DEF InspectConfirms
  <2>3. LockInv' /\ WorkInv'
    BY <1>12, <2>1, <2>2, GoingOn
       DEF InspectConfirms, IInv, server_vars, session_vars, ghost_vars, Fits, PollFits,
           RowOK, Due
  <2>4. DataInv'
    BY <1>12, <2>1, <2>2, RowStored
       DEF InspectConfirms, Leave, IInv, DataInv, server_vars, session_vars, ghost_vars
  <2> QED
    BY <2>3, <2>4 DEF IInv
<1>13. CASE ReconnectUnconfirmed
  <2>1. /\ Active("action") /\ pc["action"] \in {"inspect"} /\ Fits("action")
        /\ server # "down" /\ (server # "up" => "action" \in {"poll", "sweep"})
        /\ copy["action"] = row /\ RowOK(copy["action"]) /\ copy["action"] \in Rows
    BY <1>13, AtWork DEF ReconnectUnconfirmed, Reviewed
  <2>2. RowOK(row') /\ row'.reservation_attempted = row.reservation_attempted
        /\ row'.status \in {row.status, "NEEDS_ATTENTION"}
    BY <1>13, <2>1, HandedOverOK DEF ReconnectUnconfirmed, Reviewed
  <2>3. LockInv' /\ WorkInv'
    BY <1>13, <2>1, <2>2, GoingOn, AfterLeave
       DEF ReconnectUnconfirmed, Reviewed, IInv, server_vars, session_vars, ghost_vars, Fits,
           PollFits, RowOK, Due
  <2>4. DataInv'
    BY <1>13, <2>1, <2>2, RowStored
       DEF ReconnectUnconfirmed, Reviewed, Leave, IInv, DataInv, server_vars, session_vars,
           ghost_vars
  <2> QED
    BY <2>3, <2>4 DEF IInv
<1>14. CASE ReconnectInspectionFails
  <2>1. LockInv' /\ WorkInv'
    BY <1>14, AtWork, AfterLeave DEF ReconnectInspectionFails, IInv, server_vars, ghost_vars
  <2>2. DataInv'
    BY <1>14, AtWork
       DEF ReconnectInspectionFails, Leave, IInv, DataInv, Recorded, server_vars,
           session_vars, ghost_vars
  <2> QED
    BY <2>1, <2>2 DEF IInv
<1>15. CASE Notes("action")
  <2>1. LockInv' /\ WorkInv'
    BY <1>15, AtWork, AfterLeave DEF Notes, Checkpoint, IInv, server_vars, ghost_vars
  <2>2. DataInv'
    BY <1>15, AtWork
       DEF Notes, Checkpoint, Leave, IInv, DataInv, Recorded, server_vars, session_vars,
           ghost_vars
  <2> QED
    BY <2>1, <2>2 DEF IInv
<1>16. CASE Releases("action")
  <2>1. LockInv' /\ WorkInv'
    BY <1>16, AtWork, AfterLeave DEF Releases, Checkpoint, IInv, server_vars, ghost_vars
  <2>2. DataInv'
    BY <1>16, AtWork
       DEF Releases, Checkpoint, Leave, IInv, DataInv, Recorded, server_vars, session_vars,
           ghost_vars
  <2> QED
    BY <2>1, <2>2 DEF IInv
<1>17. CASE Discards("action")
  <2>1. LockInv' /\ WorkInv'
    BY <1>17, AtWork, AfterLeave DEF Discards, IInv, server_vars, ghost_vars
  <2>2. DataInv'
    BY <1>17, AtWork
       DEF Discards, Leave, IInv, DataInv, Recorded, server_vars, session_vars, ghost_vars
  <2> QED
    BY <2>1, <2>2 DEF IInv
<1>18. CASE ActionDiscardFails
  <2>1. LockInv' /\ WorkInv'
    BY <1>18, AtWork, AfterLeave DEF ActionDiscardFails, IInv, server_vars, ghost_vars
  <2>2. DataInv'
    BY <1>18, AtWork
       DEF ActionDiscardFails, Leave, IInv, DataInv, Recorded, server_vars, session_vars,
           ghost_vars
  <2> QED
    BY <2>1, <2>2 DEF IInv
<1> QED
  BY <1>1, <1>2, <1>3, <1>4, <1>5, <1>6, <1>7, <1>8, <1>9, <1>10, <1>11, <1>12, <1>13, <1>14,
     <1>15, <1>16, <1>17, <1>18
     DEF ActionStep

\* The owner's gestures.
LEMMA BrowserStepKeeps ==
    ASSUME IInv, BrowserArrives \/ BrowserStep
    PROVE  IInv'
<1> USE DEF Actors, PCs, PreparingPCs, Asleep
<1>1. CASE BrowserArrives
  <2>1. LockInv' /\ WorkInv'
    BY <1>1, AfterAsk DEF BrowserArrives, IInv, DataInv, server_vars, ghost_vars
  <2>2. DataInv'
    BY <1>1 DEF BrowserArrives, IInv, DataInv, Recorded, server_vars, session_vars, ghost_vars
  <2> QED
    BY <2>1, <2>2 DEF IInv
<1>2. CASE BrowserRefused
  <2>1. LockInv' /\ WorkInv'
    BY <1>2, AtWork, AfterLeave DEF BrowserRefused, IInv, server_vars, ghost_vars
  <2>2. DataInv'
    BY <1>2, AtWork
       DEF BrowserRefused, Leave, IInv, DataInv, Recorded, server_vars, session_vars,
           ghost_vars
  <2> QED
    BY <2>1, <2>2 DEF IInv
<1>3. CASE BrowserStarts
  <2>1. LockInv' /\ WorkInv'
    BY <1>3, AtWork, GoingOn
       DEF BrowserStarts, IInv, server_vars, session_vars, ghost_vars, Fits, BrowserFits
  <2>2. DataInv'
    BY <1>3, AtWork
       DEF BrowserStarts, IInv, DataInv, Recorded, server_vars, session_vars, ghost_vars
  <2> QED
    BY <2>1, <2>2 DEF IInv
<1>4. CASE GestureIsVerification
  <2>1. LockInv' /\ WorkInv'
    BY <1>4, AtWork, GoingOn
       DEF GestureIsVerification, IInv, server_vars, session_vars, ghost_vars, Fits,
           BrowserFits
  <2>2. DataInv'
    BY <1>4, AtWork
       DEF GestureIsVerification, IInv, DataInv, Recorded, server_vars, session_vars,
           ghost_vars
  <2> QED
    BY <2>1, <2>2 DEF IInv
<1>5. CASE GestureMaySelect
  <2>1. /\ Active("browser") /\ pc["browser"] \in {"gesture"} /\ Fits("browser")
        /\ server # "down" /\ (server # "up" => "browser" \in {"poll", "sweep"})
        /\ copy["browser"] = row /\ RowOK(copy["browser"]) /\ copy["browser"] \in Rows
        /\ row.status \in MANUAL
    BY <1>5, AtWork DEF GestureMaySelect, Fits, BrowserFits
  <2>2. RowOK(row') /\ row'.reservation_attempted /\ row' \in Rows
        /\ row'.status = row.status
    BY <1>5, <2>1, AttemptedOK DEF GestureMaySelect, RowOK
  <2>3. LockInv' /\ WorkInv'
    BY <1>5, <2>1, <2>2, GoingOn
       DEF GestureMaySelect, IInv, server_vars, session_vars, ghost_vars, Fits, BrowserFits,
           RowOK, Due
  <2>4. DataInv'
    BY <1>5, <2>1, <2>2, RowStored
       DEF GestureMaySelect, Leave, IInv, DataInv, server_vars, session_vars, ghost_vars
  <2> QED
    BY <2>3, <2>4 DEF IInv
<1>6. CASE GestureMade
  <2>1. /\ Active("browser") /\ copy["browser"] = row /\ row.status \in MANUAL /\ row \in Rows
        /\ (pc["browser"] = "manual" => row.reservation_attempted)
    BY <1>6, AtWork DEF GestureMade, Fits, BrowserFits
  <2>2. LockInv' /\ WorkInv'
    BY <1>6, AtWork, GoingOn
       DEF GestureMade, IInv, server_vars, session_vars, ghost_vars, Fits, BrowserFits
  <2>3. held' \in BOOLEAN /\ (LoginFrameStable /\ held' => row.reservation_attempted)
    <3>1. held' \in {held, TRUE} /\ held \in BOOLEAN
      BY <1>6, Zenon DEF GestureMade, IInv, DataInv
    <3>2. CASE pc["browser"] = "manual"
      BY <2>1, <3>1, <3>2, Zenon
    <3>3. CASE pc["browser"] # "manual"
      <4>1. pc["browser"] = "verified" /\ (LoginFrameStable => held' = held)
        BY <1>6, <3>3 DEF GestureMade, At
      <4>2. LoginFrameStable /\ held => row.reservation_attempted
        BY DEF IInv, DataInv, Recorded
      <4> QED
        BY <3>1, <4>1, <4>2, Zenon
    <3> QED
      BY <3>2, <3>3
  <2>4. DataInv'
    BY <1>6, <2>3
       DEF GestureMade, IInv, DataInv, Recorded, server_vars, session_vars, ghost_vars
  <2> QED
    BY <2>2, <2>4 DEF IInv
<1>7. CASE BrowserEnds
  <2>1. LockInv' /\ WorkInv'
    BY <1>7, AtWork, AfterLeave DEF BrowserEnds, IInv, server_vars, ghost_vars
  <2>2. DataInv'
    BY <1>7, AtWork
       DEF BrowserEnds, Leave, IInv, DataInv, Recorded, server_vars, session_vars,
           ghost_vars
  <2> QED
    BY <2>1, <2>2 DEF IInv
<1>8. CASE GestureConfirms
  <2>1. /\ Active("browser") /\ pc["browser"] \in {"outcome"} /\ Fits("browser")
        /\ server # "down" /\ (server # "up" => "browser" \in {"poll", "sweep"})
        /\ copy["browser"] = row /\ RowOK(copy["browser"]) /\ copy["browser"] \in Rows
    BY <1>8, AtWork DEF GestureConfirms, Checkpoint
  <2>2. RowOK(row') /\ row'.reservation_attempted = row.reservation_attempted
        /\ row'.status = "CONFIRMED"
    BY <1>8, <2>1, StatusOK DEF GestureConfirms, Checkpoint
  <2>3. LockInv' /\ WorkInv'
    BY <1>8, <2>1, AfterLeave
       DEF GestureConfirms, Checkpoint, IInv, server_vars, session_vars, ghost_vars
  <2>4. DataInv'
    BY <1>8, <2>1, <2>2, RowStored
       DEF GestureConfirms, Checkpoint, Leave, IInv, DataInv, server_vars, session_vars,
           ghost_vars
  <2> QED
    BY <2>3, <2>4 DEF IInv
<1>9. CASE GestureUnconfirmed
  <2>1. LockInv' /\ WorkInv'
    BY <1>9, AtWork, AfterLeave
       DEF GestureUnconfirmed, Checkpoint, IInv, server_vars, ghost_vars
  <2>2. DataInv'
    BY <1>9, AtWork
       DEF GestureUnconfirmed, Checkpoint, Leave, IInv, DataInv, Recorded, server_vars,
           session_vars, ghost_vars
  <2> QED
    BY <2>1, <2>2 DEF IInv
<1> QED
  BY <1>1, <1>2, <1>3, <1>4, <1>5, <1>6, <1>7, <1>8, <1>9 DEF BrowserStep

\* The sweep of idle sessions.
LEMMA SweepStepKeeps ==
    ASSUME IInv, SweepStarts \/ SweepStep
    PROVE  IInv'
<1> USE DEF Actors, PCs, PreparingPCs, Asleep
<1>1. CASE SweepStarts
  <2>1. LockInv' /\ WorkInv'
    BY <1>1, AfterAsk DEF SweepStarts, IInv, DataInv, server_vars, ghost_vars
  <2>2. DataInv'
    BY <1>1 DEF SweepStarts, IInv, DataInv, Recorded, server_vars, session_vars, ghost_vars
  <2> QED
    BY <2>1, <2>2 DEF IInv
<1>2. CASE Sweeps
  <2>1. /\ Active("sweep") /\ pc["sweep"] \in {"locked"} /\ Fits("sweep")
        /\ server # "down" /\ (server # "up" => "sweep" \in {"poll", "sweep"})
        /\ copy["sweep"] = row /\ RowOK(copy["sweep"]) /\ copy["sweep"] \in Rows
    BY <1>2, AtWork DEF Sweeps
  <2>2. RowOK(row') /\ row'.reservation_attempted = row.reservation_attempted
    BY <1>2, <2>1, HandedOverOK DEF Sweeps
  <2>3. LockInv' /\ WorkInv'
    BY <1>2, <2>1, <2>2, GoingOn
       DEF Sweeps, IInv, server_vars, session_vars, ghost_vars, Fits, PollFits, RowOK, Due
  <2>4. DataInv'
    BY <1>2, <2>1, <2>2, RowStored
       DEF Sweeps, Leave, IInv, DataInv, server_vars, session_vars, ghost_vars
  <2> QED
    BY <2>3, <2>4 DEF IInv
<1>3. CASE Releases("sweep")
  <2>1. LockInv' /\ WorkInv'
    BY <1>3, AtWork, AfterLeave DEF Releases, Checkpoint, IInv, server_vars, ghost_vars
  <2>2. DataInv'
    BY <1>3, AtWork
       DEF Releases, Checkpoint, Leave, IInv, DataInv, Recorded, server_vars, session_vars,
           ghost_vars
  <2> QED
    BY <2>1, <2>2 DEF IInv
<1>4. CASE SweepDies
  <2>1. LockInv' /\ WorkInv'
    BY <1>4, AtWork, AfterLeave DEF SweepDies, Checkpoint, IInv, server_vars, ghost_vars
  <2>2. DataInv'
    BY <1>4, AtWork
       DEF SweepDies, Checkpoint, Leave, IInv, DataInv, Recorded, server_vars, session_vars,
           ghost_vars
  <2> QED
    BY <2>1, <2>2 DEF IInv
<1> QED
  BY <1>1, <1>2, <1>3, <1>4 DEF SweepStep

\* The tasks that a shutdown cancels.
LEMMA CancelKeeps ==
    ASSUME IInv, NEW a \in {"poll", "sweep"}, TaskCancelled(a)
    PROVE  IInv'
<1> USE DEF Actors, PCs, PreparingPCs, Asleep
<1>1. UNCHANGED <<server_vars, ghost_vars>> /\ server = "stopping"
  BY DEF TaskCancelled
<1>2. CASE CancelledBeforeLock(a)
  <2>1. LockInv' /\ WorkInv'
    BY <1>1, <1>2, AfterCancelledBeforeLock DEF IInv, server_vars, ghost_vars
  <2>2. DataInv'
    BY <1>1, <1>2
       DEF CancelledBeforeLock, IInv, DataInv, Recorded, server_vars, session_vars,
           ghost_vars
  <2> QED
    BY <2>1, <2>2 DEF IInv
<1>3. CASE CancelledPreparing(a)
  <2>1. pc[a] \in PreparingPCs /\ Active(a) /\ Fits(a) /\ copy[a] \in Rows /\ copy[a] = row
    BY <1>3 DEF CancelledPreparing, IInv, WorkInv, Fits, Active
  <2>2. RowOK(row') /\ row'.reservation_attempted = row.reservation_attempted
    BY <1>3, <2>1, HandedOverOK DEF CancelledPreparing
  <2>3. LockInv' /\ WorkInv'
    BY <1>1, <1>3, <2>1, GoingOn DEF CancelledPreparing, IInv, server_vars, Fits, PollFits
  <2>4. DataInv'
    BY <1>1, <1>3, <2>2, RowStored
       DEF CancelledPreparing, IInv, DataInv, session_vars, ghost_vars
  <2> QED
    BY <2>3, <2>4 DEF IInv
<1>4. CASE CancelledSearching(a)
  <2>1. Active(a) /\ Fits(a) /\ copy[a] \in Rows
    BY <1>4 DEF CancelledSearching, IInv, WorkInv, Fits, Active
  <2>2. LockInv' /\ WorkInv'
    BY <1>1, <1>4, <2>1, GoingOn DEF CancelledSearching, IInv, server_vars, Fits, PollFits
  <2>3. DataInv'
    BY <1>1, <1>4
       DEF CancelledSearching, IInv, DataInv, Recorded, server_vars, session_vars,
           ghost_vars
  <2> QED
    BY <2>2, <2>3 DEF IInv
<1>5. CASE CancelledAtEnd(a)
  <2>1. Active(a)
    BY <1>5 DEF CancelledAtEnd, Active
  <2>2. LockInv' /\ WorkInv'
    BY <1>1, <1>5, <2>1, AfterLeave DEF CancelledAtEnd, IInv, server_vars
  <2>3. DataInv'
    BY <1>1, <1>5 DEF CancelledAtEnd, Leave, IInv, DataInv, Recorded, server_vars, ghost_vars
  <2> QED
    BY <2>2, <2>3 DEF IInv
<1> QED
  BY <1>2, <1>3, <1>4, <1>5 DEF TaskCancelled

\* With everybody asleep the lock and the work are in order.
LEMMA AllAsleep ==
    ASSUME NEW up \in {"up", "stopping", "down"}, server' = up, holder' = None, waiting' = <<>>,
           pc' = [a \in Actors |-> "idle"], copy' = [a \in Actors |-> None]
    PROVE  LockInv' /\ WorkInv'
<1> USE DEF Actors, PCs, PreparingPCs, Asleep, Active
<1>1. LockTypes'
  BY DEF LockTypes
<1>2. Locked'
  BY ConstantsAssumption DEF Locked
<1>3. Queue' /\ Quiet'
  BY DEF Queue, Quiet
<1> QED
  BY <1>1, <1>2, <1>3 DEF LockInv, WorkInv

\* Time, stop, crash and restart, and the creation of tasks.
LEMMA ServerKeeps ==
    ASSUME IInv, Grant \/ Spawn \/ Tick \/ Stop \/ Crash \/ ServerStep
    PROVE  IInv'
<1> USE DEF Actors, PCs, PreparingPCs, Asleep
<1>1. CASE Grant
  <2>1. DataInv'
    BY <1>1 DEF Grant, IInv, DataInv, Recorded, server_vars, session_vars, ghost_vars
  <2> QED
    BY <1>1, <2>1, AfterGrant DEF IInv, DataInv
<1>2. CASE Spawn
  <2>1. LockInv' /\ WorkInv'
    <3>1. pc["poll"] = "idle" /\ pc' = [pc EXCEPT !["poll"] = "start"] /\ server = "up"
          /\ UNCHANGED <<server, holder, waiting, copy, row, best, prepares>>
      BY <1>2 DEF Spawn, server_vars, ghost_vars
    <3>2. LockTypes' /\ Locked' /\ Queue' /\ Quiet'
      BY <3>1 DEF IInv, LockInv, LockTypes, Locked, Queue, Quiet, Active
    <3>3. WorkInv'
      BY <3>1 DEF IInv, LockInv, LockTypes, WorkInv, Active, Fits, PollFits, BrowserFits
    <3> QED
      BY <3>2, <3>3 DEF LockInv
  <2>2. DataInv'
    BY <1>2 DEF Spawn, IInv, DataInv, Recorded, server_vars, session_vars, ghost_vars
  <2> QED
    BY <2>1, <2>2 DEF IInv
<1>3. CASE Tick
  <2>1. UNCHANGED <<server, row, holder, waiting, pc, copy, best, prepares>>
    BY <1>3 DEF Tick, lock_vars, ghost_vars
  <2>2. LockInv'
    BY <2>1 DEF IInv, LockInv, LockTypes, Locked, Queue, Quiet, Active
  <2>3. WorkInv'
    BY <2>1 DEF IInv, WorkInv, Active, Fits, PollFits, BrowserFits
  <2>4. now' \in 0..Horizon
    BY <1>3, ConstantsAssumption DEF Tick, IInv, DataInv
  <2>5. idle' \in BOOLEAN
    BY <1>3, Zenon DEF Tick, IInv, DataInv
  <2>6. DataInv'
    BY <1>3, <2>4, <2>5 DEF Tick, IInv, DataInv, Recorded, lock_vars, ghost_vars
  <2> QED
    BY <2>2, <2>3, <2>6 DEF IInv
<1>4. CASE Stop
  <2>1. UNCHANGED <<row, holder, waiting, pc, copy, best, prepares>> /\ server' = "stopping"
        /\ pc["action"] = "idle" /\ pc["browser"] = "idle"
    BY <1>4 DEF Stop, lock_vars, ghost_vars
  <2>2. LockInv'
    BY <2>1 DEF IInv, LockInv, LockTypes, Locked, Queue, Quiet, Active
  <2>3. WorkInv'
    BY <2>1 DEF IInv, WorkInv, Active, Fits, PollFits, BrowserFits
  <2>4. DataInv'
    BY <1>4, ConstantsAssumption
       DEF Stop, IInv, DataInv, Recorded, session_vars, lock_vars, ghost_vars
  <2> QED
    BY <2>2, <2>3, <2>4 DEF IInv
<1>5. CASE Crash
  <2>1. LockInv' /\ WorkInv'
    BY <1>5, AllAsleep DEF Crash
  <2>2. DataInv'
    <3>1. stops' \in 0..MaxStops
      BY <1>5, ConstantsAssumption DEF Crash, IInv, DataInv
    <3>2. /\ looping' = FALSE /\ provider' = "none" /\ idle' = FALSE /\ best' = None
          /\ UNCHANGED <<req, now, row, vault, held, prepares, observed>>
      BY <1>5 DEF Crash, ghost_vars
    <3> QED
      BY <3>1, <3>2 DEF IInv, DataInv, Recorded
  <2> QED
    BY <2>1, <2>2 DEF IInv
<1>6. CASE TaskCancelled("poll") \/ TaskCancelled("sweep")
  BY <1>6, CancelKeeps
<1>7. CASE Shutdown
  <2>1. UNCHANGED <<row, holder, waiting, pc, copy, best, prepares>> /\ server' = "down"
        /\ server = "stopping" /\ pc["poll"] = "idle" /\ pc["sweep"] = "idle"
    BY <1>7 DEF Shutdown, lock_vars, ghost_vars
  <2>2. LockInv'
    BY <2>1 DEF IInv, LockInv, LockTypes, Locked, Queue, Quiet, Active
  <2>3. WorkInv'
    BY <2>1 DEF IInv, WorkInv, Active, Fits, PollFits, BrowserFits
  <2>4. DataInv'
    BY <1>7 DEF Shutdown, Checkpoint, IInv, DataInv, Recorded, lock_vars, ghost_vars
  <2> QED
    BY <2>2, <2>3, <2>4 DEF IInv
<1>8. CASE Restart
  <2>1. UNCHANGED <<holder, waiting, pc, copy, best, prepares>> /\ server' = "up"
        /\ server = "down" /\ row' = Recovered(row)
    BY <1>8 DEF Restart, lock_vars, ghost_vars
  <2>2. LockInv'
    BY <2>1 DEF IInv, LockInv, LockTypes, Locked, Queue, Quiet, Active
  <2>3. WorkInv'
    BY <2>1 DEF IInv, LockInv, Quiet, WorkInv, Active
  <2>4. RowOK(row') /\ (row.reservation_attempted => row'.reservation_attempted)
    BY <2>1, RecoveredOK DEF IInv, DataInv
  <2>5. DataInv'
    BY <1>8, <2>4 DEF Restart, IInv, DataInv, Recorded, session_vars, lock_vars, ghost_vars
  <2> QED
    BY <2>2, <2>3, <2>5 DEF IInv
<1> QED
  BY <1>1, <1>2, <1>3, <1>4, <1>5, <1>6, <1>7, <1>8 DEF ServerStep

-----------------------------------------------------------------------------
(* The theorems.                                                           *)

\* A submitted request satisfies the invariant.
LEMMA InitIInv == Init => IInv
<1> SUFFICES ASSUME Init PROVE IInv
  OBVIOUS
<1>1. row \in Rows /\ RowOK(row) /\ ~row.reservation_attempted
  BY DEF Init, Rows, Statuses, RowOK, MONITORED, MaxErrors
<1>2. DataInv
  <2>1. now \in 0..Horizon /\ stops \in 0..MaxStops
    BY ConstantsAssumption DEF Init
  <2>2. Recorded
    BY DEF Init, Recorded
  <2> QED
    BY <1>1, <2>1, <2>2 DEF Init, DataInv
<1>3. LockInv
  <2> USE DEF Actors, PCs, Asleep, Active
  <2>1. LockTypes /\ Queue /\ Quiet
    BY DEF Init, LockTypes, Queue, Quiet
  <2>2. Locked
    BY ConstantsAssumption DEF Init, Locked
  <2> QED
    BY <2>1, <2>2 DEF LockInv
<1>4. WorkInv
  BY DEF Init, WorkInv, Active, Asleep
<1> QED
  BY <1>2, <1>3, <1>4 DEF IInv

\* Every step preserves it.
LEMMA NextIInv == IInv /\ [Next]_vars => IInv'
<1> SUFFICES ASSUME IInv, [Next]_vars PROVE IInv'
  OBVIOUS
<1>1. CASE Next
  BY <1>1, PollStepKeeps, ActionStepKeeps, BrowserStepKeeps, SweepStepKeeps, ServerKeeps
     DEF Next
<1>2. CASE UNCHANGED vars
  <2>1. LockInv'
    BY <1>2 DEF vars, IInv, LockInv, LockTypes, Locked, Queue, Quiet, Active
  <2>2. DataInv'
    BY <1>2 DEF vars, IInv, DataInv, Recorded
  <2>3. WorkInv'
    BY <1>2 DEF vars, IInv, WorkInv, Active, Fits, PollFits, BrowserFits
  <2> QED
    BY <2>1, <2>2, <2>3 DEF IInv
<1> QED
  BY <1>1, <1>2

\* The inductive invariant: under the lock everybody works on the stored row.
THEOREM Inductive == SafetySpec => []IInv
BY InitIInv, NextIInv, PTL DEF SafetySpec

\* Every variable keeps its type; the error count, in particular, never passes
\* the limit at which a request is handed over (BookingWorker.process).
THEOREM TypeCorrect == SafetySpec => []TypeOK
<1>1. IInv => TypeOK
  BY DEF IInv, LockInv, LockTypes, DataInv, RowOK, Recorded, TypeOK
<1> QED
  BY <1>1, Inductive, PTL

\* Whatever the interleaving, crashes and retries: provider.prepare() is begun
\* at most once for a request.
THEOREM OnePreparation == SafetySpec => []AtMostOnePreparation
<1>1. IInv => AtMostOnePreparation
  BY DEF IInv, DataInv, Recorded, AtMostOnePreparation
<1> QED
  BY <1>1, Inductive, PTL

\* Automation is never resumed on a request that may hold seats.
THEOREM WatchedUntouched == SafetySpec => []WatchedAreUntouched
<1>1. IInv => WatchedAreUntouched
  BY DEF IInv, DataInv, RowOK, WatchedAreUntouched
<1> QED
  BY <1>1, Inductive, PTL

\* A possible selection of seats is on disk at every moment, if the login
\* frame that a gesture was judged by stays where it is.
THEOREM SelectionRecorded ==
    ASSUME LoginFrameStable
    PROVE  SafetySpec => []SelectionIsRecorded
<1>1. IInv => SelectionIsRecorded
  BY DEF IInv, DataInv, Recorded, SelectionIsRecorded
<1> QED
  BY <1>1, Inductive, PTL
=============================================================================
