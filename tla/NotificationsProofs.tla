------------------------ MODULE NotificationsProofs ------------------------
(***************************************************************************)
(* The provider takes a message for delivery at most once, for every set   *)
(* of messages, every number of competing dispatchers and every limit on   *)
(* stops: what TakenAtMostOnce says of module Notifications.               *)
(***************************************************************************)
EXTENDS Notifications, TLAPS

\* The post of m by dispatcher d awaits its answer.
Out(d, m) == post[d] # None /\ post[d].msg = m

\* Nothing of m has left this server, or all that has was refused, and not
\* too often.
Unsent(m) ==
    /\ taken[m] = 0 /\ late[m] = 0
    /\ attempts[m] < MaxAttempts
    /\ \A d \in Dispatchers : ~Out(d, m)

\* A message that may be claimed is unsent; ...
PendingUnsent == \A m \in Messages : status[m] \in Pending \cup {None} => Unsent(m)

\* ... one that is posted has one post, which is counted once in what the
\* provider took or may still take.
OnePost ==
    \A m \in Messages :
        /\ taken[m] + late[m] <= 1
        /\ \A d \in Dispatchers : Out(d, m) =>
              /\ late[m] = 0
              /\ taken[m] = IF answer[d] = "taken" THEN 1 ELSE 0
              /\ \A e \in Dispatchers : Out(e, m) => e = d

\* An unconfigured server posts nothing and reads only what is unsent, so
\* that it may mark what it has read as waiting for the configuration.
Unconfigured ==
    config # "ready" =>
        \A d \in Dispatchers : post[d] = None /\ \A row \in batch[d] : Unsent(row.msg)

\* A server that is down does nothing.
Down == server = "down" => \A d \in Dispatchers : post[d] = None /\ batch[d] = {}

IInv == TypeOK /\ PendingUnsent /\ OnePost /\ Unconfigured /\ Down

-----------------------------------------------------------------------------
\* The initial states satisfy the invariant.
LEMMA InitIInv == Init => IInv
<1> SUFFICES ASSUME Init PROVE IInv
  OBVIOUS
<1>1. TypeOK
  BY NotificationAssumption DEF Init, TypeOK, ReadRow, MaxAttempts
<1>2. \A m \in Messages : Unsent(m)
  BY DEF Init, Unsent, Out, MaxAttempts
<1>3. OnePost
  BY DEF Init, OnePost, Out
<1> QED
  BY <1>1, <1>2, <1>3 DEF Init, IInv, PendingUnsent, Unconfigured, Down

\* Every step keeps the types; a retry stays within the attempts.
LEMMA TypeStep == IInv /\ [Next]_vars => TypeOK'
<1> SUFFICES ASSUME TypeOK, PendingUnsent, [Next]_vars PROVE TypeOK'
  BY DEF IInv
<1> USE NotificationAssumption DEF TypeOK, table_vars, server_vars, dispatch_vars, provider_vars
<1>1. ASSUME NEW m \in Messages, Alert(m) PROVE TypeOK'
  BY <1>1 DEF Alert, Statuses, Pending
<1>2. ASSUME NEW m \in Messages, ComesDue(m) PROVE TypeOK'
  BY <1>2 DEF ComesDue
<1>3. ASSUME NEW m \in Messages, GoesStale(m) PROVE TypeOK'
  BY <1>3 DEF GoesStale
<1>4. ASSUME NEW m \in Messages, HandlesLate(m) PROVE TypeOK'
  BY <1>4 DEF HandlesLate
<1>5. ASSUME NEW d \in Dispatchers, NEW m \in Messages, Handles(d, m) PROVE TypeOK'
  BY <1>5 DEF Handles
<1>6. ASSUME NEW m \in Messages, NEW s \in Delivery, Receipt(m, s) PROVE TypeOK'
  BY <1>6 DEF Receipt, Later, Statuses
<1>7. ASSUME NEW d \in Dispatchers, Reads(d) PROVE TypeOK'
  <2>1. \A m \in Messages : Selected(m) => attempts[m] \in 0..(MaxAttempts - 1)
    BY DEF Selected, PendingUnsent, Unsent, MaxAttempts
  <2>2. \A rows \in SUBSET {m \in Messages : Selected(m)} :
           {[msg |-> m, attempts |-> attempts[m]] : m \in rows} \subseteq ReadRow
    BY <2>1 DEF ReadRow
  <2> QED
    BY <1>7, <2>2 DEF Reads
<1>8. ASSUME NEW d \in Dispatchers, NEW row \in batch[d],
             SetsAside(d, row) \/ Skips(d, row) \/ Posts(d, row)
      PROVE TypeOK'
  <2>1. row \in ReadRow /\ row.msg \in Messages
    BY DEF ReadRow
  <2>2. CASE SetsAside(d, row)
    <3>1. \A s \in {"expired", "setup_required", "failed"} : s \in Statuses
      BY DEF Statuses, Pending, Delivery
    <3>2. PICK s \in Statuses, delayed \in BOOLEAN : Marked(row.msg, s, delayed)
      BY <2>2, <3>1 DEF SetsAside
    <3> QED
      BY <2>1, <2>2, <3>2 DEF SetsAside, Takes, Marked
  <2>3. CASE Skips(d, row)
    BY <2>1, <2>3 DEF Skips, Takes
  <2>4. CASE Posts(d, row)
    BY <2>1, <2>4 DEF Posts, Takes, Statuses
  <2> QED
    BY <1>8, <2>2, <2>3, <2>4
<1>9. ASSUME NEW d \in Dispatchers, NEW m \in Messages, Ends(d, m),
             Accepted(d, m) \/ Refused(d, m) \/ DropsBatch(d, m)
      PROVE TypeOK'
  <2>1. CASE Accepted(d, m)
    BY <1>9, <2>1 DEF Ends, Accepted, Marked, Statuses
  <2>2. CASE Refused(d, m)
    BY <1>9, <2>2 DEF Ends, Refused, Marked, Statuses, Delivery
  <2>3. CASE DropsBatch(d, m)
    BY <1>9, <2>3 DEF Ends, DropsBatch
  <2> QED
    BY <1>9, <2>1, <2>2, <2>3
<1>10. ASSUME NEW d \in Dispatchers, NEW m \in Messages, Retries(d, m) PROVE TypeOK'
  <2>1. post[d] \in ReadRow /\ post[d].attempts + 1 \in 0..MaxAttempts
    BY <1>10 DEF Retries, Ends, ReadRow, MaxAttempts
  <2> QED
    BY <1>10, <2>1 DEF Retries, Refusals, RetryStatus, Ends, Marked, Statuses, Pending, Delivery
<1>11. ASSUME NEW d \in Dispatchers, NEW m \in Messages, LosesAnswer(d, m) PROVE TypeOK'
  BY <1>11 DEF LosesAnswer, GivenUp, Ends, Marked, Statuses
<1>12. CASE Stop
  BY <1>12 DEF Stop, GivenUp
<1>13. CASE Start
  BY <1>13 DEF Start, Interrupted, Statuses
<1>14. CASE UNCHANGED vars
  BY <1>14 DEF vars
<1> QED
  BY <1>1, <1>2, <1>3, <1>4, <1>5, <1>6, <1>7, <1>8, <1>9, <1>10, <1>11, <1>12, <1>13, <1>14
     DEF Next, Dispatch, Environment, Accepted, Refused, DropsBatch

\* Every step keeps what is unsent unsent, and one post of a message at most.
LEMMA SafeStep == IInv /\ [Next]_vars => (PendingUnsent /\ OnePost /\ Unconfigured /\ Down)'
<1> SUFFICES ASSUME IInv, [Next]_vars
             PROVE (PendingUnsent /\ OnePost /\ Unconfigured /\ Down)'
  OBVIOUS
<1> DEFINE Safe == PendingUnsent /\ OnePost /\ Unconfigured /\ Down
<1> USE NotificationAssumption DEF table_vars, server_vars, dispatch_vars, provider_vars
<1>0. TypeOK /\ PendingUnsent /\ OnePost /\ Unconfigured /\ Down /\ TypeOK'
  BY TypeStep DEF IInv
<1> USE DEF PendingUnsent, OnePost, Unconfigured, Down, Unsent, Out
<1>1. ASSUME NEW m \in Messages, Alert(m) PROVE Safe'
  BY <1>0, <1>1 DEF Alert, Pending
<1>2. ASSUME NEW m \in Messages, ComesDue(m) PROVE Safe'
  BY <1>0, <1>2 DEF ComesDue
<1>3. ASSUME NEW m \in Messages, GoesStale(m) PROVE Safe'
  BY <1>0, <1>3 DEF GoesStale
<1>4. ASSUME NEW m \in Messages, HandlesLate(m) PROVE Safe'
  <2>5. PendingUnsent'
    BY <1>0, <1>4 DEF HandlesLate, TypeOK, Statuses, Delivery
  <2>6. OnePost'
    BY <1>0, <1>4 DEF HandlesLate, TypeOK
  <2>7. Unconfigured'
    BY <1>0, <1>4 DEF HandlesLate, TypeOK, ReadRow
  <2>8. Down'
    BY <1>0, <1>4 DEF HandlesLate, TypeOK
  <2> QED
    BY <2>5, <2>6, <2>7, <2>8
<1>5. ASSUME NEW d \in Dispatchers, NEW m \in Messages, Handles(d, m) PROVE Safe'
  BY <1>0, <1>5 DEF Handles, TypeOK
<1>6. ASSUME NEW m \in Messages, NEW s \in Delivery, Receipt(m, s) PROVE Safe'
  <2>5. PendingUnsent'
    BY <1>0, <1>6 DEF Receipt, Delivery, Pending, TypeOK, Statuses
  <2>6. OnePost'
    BY <1>0, <1>6 DEF Receipt, Delivery, Pending, TypeOK
  <2>7. Unconfigured'
    BY <1>0, <1>6 DEF Receipt, Delivery, Pending, TypeOK, ReadRow
  <2>8. Down'
    BY <1>0, <1>6 DEF Receipt, Delivery, Pending, TypeOK
  <2> QED
    BY <2>5, <2>6, <2>7, <2>8
<1>7. ASSUME NEW d \in Dispatchers, Reads(d) PROVE Safe'
  BY <1>0, <1>7 DEF Reads, Selected, TypeOK
<1>8. ASSUME NEW d \in Dispatchers, NEW row \in batch[d], SetsAside(d, row) PROVE Safe'
  <2>1. row.msg \in Messages
    BY <1>0 DEF TypeOK, ReadRow
  <2>5. PendingUnsent'
    BY <1>0, <1>8, <2>1 DEF SetsAside, Takes, Marked, TypeOK, Pending, Statuses, Delivery
  <2>6. OnePost'
    BY <1>0, <1>8, <2>1 DEF SetsAside, Takes, Marked, TypeOK, Pending
  <2>7. Unconfigured'
    BY <1>0, <1>8, <2>1 DEF SetsAside, Takes, Marked, TypeOK, Pending, ReadRow
  <2>8. Down'
    BY <1>0, <1>8, <2>1 DEF SetsAside, Takes, Marked, TypeOK, Pending
  <2> QED
    BY <2>5, <2>6, <2>7, <2>8
<1>9. ASSUME NEW d \in Dispatchers, NEW row \in batch[d], Skips(d, row) PROVE Safe'
  BY <1>0, <1>9 DEF Skips, Takes, TypeOK
<1>10. ASSUME NEW d \in Dispatchers, NEW row \in batch[d], Posts(d, row) PROVE Safe'
  <2>1. row.msg \in Messages /\ row \in ReadRow /\ row # None
    BY <1>0 DEF TypeOK, ReadRow
  <2>5. PendingUnsent'
    BY <1>0, <1>10, <2>1 DEF Posts, Takes, Claimable, TypeOK, Pending, Statuses, Delivery
  <2>6. OnePost'
    BY <1>0, <1>10, <2>1 DEF Posts, Takes, Claimable, TypeOK, Pending
  <2>7. Unconfigured'
    BY <1>0, <1>10, <2>1 DEF Posts, Takes, Claimable, TypeOK, Pending, ReadRow
  <2>8. Down'
    BY <1>0, <1>10, <2>1 DEF Posts, Takes, Claimable, TypeOK, Pending
  <2> QED
    BY <2>5, <2>6, <2>7, <2>8
<1>11. ASSUME NEW d \in Dispatchers, NEW m \in Messages, Accepted(d, m) PROVE Safe'
  <2>5. PendingUnsent'
    BY <1>0, <1>11 DEF Accepted, Ends, Marked, TypeOK, Pending, Statuses, Delivery
  <2>6. OnePost'
    BY <1>0, <1>11 DEF Accepted, Ends, Marked, TypeOK, Pending
  <2>7. Unconfigured'
    BY <1>0, <1>11 DEF Accepted, Ends, Marked, TypeOK, Pending, ReadRow
  <2>8. Down'
    BY <1>0, <1>11 DEF Accepted, Ends, Marked, TypeOK, Pending
  <2> QED
    BY <2>5, <2>6, <2>7, <2>8
<1>12. ASSUME NEW d \in Dispatchers, NEW m \in Messages, Retries(d, m) PROVE Safe'
  <2>5. PendingUnsent'
    BY <1>0, <1>12 DEF Retries, Refusals, RetryStatus, Ends, Marked, TypeOK, Pending, MaxAttempts, Statuses, Delivery
  <2>6. OnePost'
    BY <1>0, <1>12 DEF Retries, Refusals, RetryStatus, Ends, Marked, TypeOK, Pending, MaxAttempts
  <2>7. Unconfigured'
    BY <1>0, <1>12 DEF Retries, Refusals, RetryStatus, Ends, Marked, TypeOK, Pending, MaxAttempts
  <2>8. Down'
    BY <1>0, <1>12 DEF Retries, Refusals, RetryStatus, Ends, Marked, TypeOK, Pending, MaxAttempts
  <2> QED
    BY <2>5, <2>6, <2>7, <2>8
<1>13. ASSUME NEW d \in Dispatchers, NEW m \in Messages, Refused(d, m) PROVE Safe'
  <2>5. PendingUnsent'
    BY <1>0, <1>13 DEF Refused, Ends, Marked, TypeOK, Pending, Statuses, Delivery
  <2>6. OnePost'
    BY <1>0, <1>13 DEF Refused, Ends, Marked, TypeOK, Pending
  <2>7. Unconfigured'
    BY <1>0, <1>13 DEF Refused, Ends, Marked, TypeOK, Pending
  <2>8. Down'
    BY <1>0, <1>13 DEF Refused, Ends, Marked, TypeOK, Pending
  <2> QED
    BY <2>5, <2>6, <2>7, <2>8
<1>14. ASSUME NEW d \in Dispatchers, NEW m \in Messages, LosesAnswer(d, m) PROVE Safe'
  <2>5. PendingUnsent'
    BY <1>0, <1>14 DEF LosesAnswer, GivenUp, Ends, Marked, TypeOK, Pending, Statuses, Delivery
  <2>6. OnePost'
    BY <1>0, <1>14 DEF LosesAnswer, GivenUp, Ends, Marked, TypeOK, Pending
  <2>7. Unconfigured'
    BY <1>0, <1>14 DEF LosesAnswer, GivenUp, Ends, Marked, TypeOK, Pending, ReadRow
  <2>8. Down'
    BY <1>0, <1>14 DEF LosesAnswer, GivenUp, Ends, Marked, TypeOK, Pending
  <2> QED
    BY <2>5, <2>6, <2>7, <2>8
<1>15. ASSUME NEW d \in Dispatchers, NEW m \in Messages, DropsBatch(d, m) PROVE Safe'
  BY <1>0, <1>15 DEF DropsBatch, Ends, TypeOK
<1>16. CASE Stop
  BY <1>0, <1>16 DEF Stop, GivenUp, TypeOK
<1>17. CASE Start
  <2>5. PendingUnsent'
    BY <1>0, <1>17 DEF Start, Interrupted, Pending, TypeOK, Statuses, Delivery
  <2>6. OnePost'
    BY <1>0, <1>17 DEF Start, Interrupted, Pending, TypeOK
  <2>7. Unconfigured'
    BY <1>0, <1>17 DEF Start, Interrupted, Pending, TypeOK, ReadRow
  <2>8. Down'
    BY <1>0, <1>17 DEF Start, Interrupted, Pending, TypeOK
  <2> QED
    BY <2>5, <2>6, <2>7, <2>8
<1>18. CASE UNCHANGED vars
  BY <1>0, <1>18 DEF vars
<1> QED
  BY <1>1, <1>2, <1>3, <1>4, <1>5, <1>6, <1>7, <1>8, <1>9, <1>10, <1>11, <1>12, <1>13,
     <1>14, <1>15, <1>16, <1>17, <1>18 DEF Next, Dispatch, Environment

THEOREM OutboxInvariant == SafetySpec => []IInv
<1>1. IInv /\ [Next]_vars => IInv'
  BY TypeStep, SafeStep DEF IInv
<1> QED
  BY InitIInv, <1>1, PTL DEF SafetySpec

\* The provider takes a message for delivery at most once: no timeout, stop
\* or second dispatcher makes the outbox replay a post whose outcome is
\* unknown (WhatsApp._dispatch and run).
THEOREM DeliveredOnce == SafetySpec => []TakenAtMostOnce
<1>1. IInv => TakenAtMostOnce
  BY DEF IInv, TypeOK, OnePost, TakenAtMostOnce
<1> QED
  BY OutboxInvariant, <1>1, PTL

\* Every variable of the outbox keeps its type, and each deduplication key is
\* stored once (Store.alert).
THEOREM OutboxTypeCorrect == SafetySpec => []TypeOK
<1>1. IInv => TypeOK
  BY DEF IInv
<1> QED
  BY OutboxInvariant, <1>1, PTL

-----------------------------------------------------------------------------
(* One dispatcher, as the server runs it.  What it has read it has read    *)
(* last: no other dispatcher changes a row between its read and its claim. *)

OneDispatcher == \A d, e \in Dispatchers : d = e

\* What is read is still pending, what is posted is claimed, and the attempts
\* of both are the stored ones.
Alone ==
    \A d \in Dispatchers :
        /\ \A row \in batch[d] : status[row.msg] \in Pending /\ attempts[row.msg] = row.attempts
        /\ post[d] # None => /\ status[post[d].msg] = "sending"
                             /\ attempts[post[d].msg] = post[d].attempts

\* A message whose id is stored was accepted: it is never pending again.
Identified == \A m \in Messages : known[m] => status[m] \in Delivery \cup {"accepted"}

\* Every post but the last was refused, and its refusal is stored.
Counted ==
    \A m \in Messages :
        /\ posts[m] <= MaxAttempts
        /\ posts[m] <= attempts[m] + (IF status[m] \in Pending \cup {None} THEN 0 ELSE 1)

\* A reported message has its id stored, and the report with it.
Tracked ==
    \A m \in Messages :
        /\ reported[m] # None => known[m] /\ status[m] = reported[m]
        /\ known[m] /\ reported[m] = None => status[m] = "accepted"

\* What a dispatch reads is pending and carries the stored attempts.
LEMMA AloneStep ==
    ASSUME OneDispatcher, IInv, Alone, Identified, [Next]_vars
    PROVE  Alone' /\ Identified'
<1> DEFINE Safe == Alone /\ Identified
<1> USE DEF table_vars, server_vars, dispatch_vars, provider_vars, Pending, Delivery
<1>0. TypeOK /\ Alone /\ Identified /\ OneDispatcher /\ None \notin Statuses \cup ReadRow
      /\ \A d \in Dispatchers : \A row \in batch[d] : row \in ReadRow /\ row.msg \in Messages
  BY NotificationAssumption DEF IInv, TypeOK, ReadRow
<1> USE DEF OneDispatcher, Alone, Identified, TypeOK, Statuses, ReadRow
<1>1. ASSUME NEW m \in Messages, Alert(m) PROVE Safe'
  BY <1>0, <1>1 DEF Alert
<1>2. ASSUME NEW m \in Messages, ComesDue(m) \/ GoesStale(m) PROVE Safe'
  BY <1>0, <1>2 DEF ComesDue, GoesStale
<1>3. ASSUME NEW m \in Messages, HandlesLate(m) PROVE Safe'
  BY <1>0, <1>3 DEF HandlesLate
<1>4. ASSUME NEW d \in Dispatchers, NEW m \in Messages, Handles(d, m) PROVE Safe'
  BY <1>0, <1>4 DEF Handles
<1>5. ASSUME NEW m \in Messages, NEW s \in Delivery, Receipt(m, s) PROVE Safe'
  BY <1>0, <1>5 DEF Receipt
<1>6. ASSUME NEW d \in Dispatchers, Reads(d) PROVE Safe'
  BY <1>0, <1>6 DEF Reads, Selected
<1>7. ASSUME NEW d \in Dispatchers, NEW row \in batch[d], SetsAside(d, row) PROVE Safe'
  <2>1. \A other \in batch[d] \ {row} : other.msg # row.msg
    BY <1>0
  <2> QED
    <3>1. PICK s \in {"expired", "setup_required", "failed"} :
            status' = [status EXCEPT ![row.msg] = s]
      BY <1>7 DEF SetsAside, Marked
    <3>2. /\ batch' = [batch EXCEPT ![d] = @ \ {row}] /\ post' = post /\ post[d] = None
          /\ attempts' = attempts /\ known' = known
      BY <1>7 DEF SetsAside, Takes
    <3>3. status[row.msg] \in Pending /\ ~known[row.msg]
      BY <1>0
    <3>4. Alone'
      BY <1>0, <2>1, <3>1, <3>2
    <3>5. Identified'
      BY <1>0, <3>1, <3>2, <3>3
    <3> QED
      BY <3>4, <3>5
<1>8. ASSUME NEW d \in Dispatchers, NEW row \in batch[d], Skips(d, row) PROVE Safe'
  BY <1>0, <1>8 DEF Skips, Takes
<1>9. ASSUME NEW d \in Dispatchers, NEW row \in batch[d], Posts(d, row) PROVE Safe'
  <2>1. \A other \in batch[d] \ {row} : other.msg # row.msg
    BY <1>0
  <2> QED
    BY <1>0, <1>9, <2>1 DEF Posts, Takes
<1>10. ASSUME NEW d \in Dispatchers, NEW m \in Messages, Ends(d, m),
              Accepted(d, m) \/ Refused(d, m)
       PROVE  Safe'
  <2>1. CASE Accepted(d, m)
    BY <1>0, <1>10, <2>1 DEF Ends, Accepted, Marked
  <2>2. CASE Refused(d, m)
    BY <1>0, <1>10, <2>2 DEF Ends, Refused, Marked
  <2> QED
    BY <1>10, <2>1, <2>2
<1>11. ASSUME NEW d \in Dispatchers, NEW m \in Messages, Retries(d, m) PROVE Safe'
  BY <1>0, <1>11 DEF Retries, Refusals, RetryStatus, Ends, Marked, MaxAttempts
<1>12. ASSUME NEW d \in Dispatchers, NEW m \in Messages, LosesAnswer(d, m) \/ DropsBatch(d, m)
       PROVE  Safe'
  <2>1. CASE LosesAnswer(d, m)
    BY <1>0, <2>1 DEF Ends, LosesAnswer, Marked
  <2>2. CASE DropsBatch(d, m)
    BY <1>0, <2>2 DEF Ends, DropsBatch
  <2> QED
    BY <1>12, <2>1, <2>2
<1>13. CASE Stop
  BY <1>0, <1>13 DEF Stop
<1>14. CASE Start
  <2>1. \A d \in Dispatchers : post[d] = None /\ batch[d] = {}
    BY <1>14 DEF Start, IInv, Down
  <2> QED
    BY <1>0, <1>14, <2>1 DEF Start, Interrupted
<1>15. CASE UNCHANGED vars
  BY <1>0, <1>15 DEF vars
<1> QED
  BY <1>1, <1>2, <1>3, <1>4, <1>5, <1>6, <1>7, <1>8, <1>9, <1>10, <1>11, <1>12, <1>13, <1>14,
     <1>15 DEF Next, Dispatch, Environment, Accepted, Refused

\* A post is counted when it is made, its refusal when it is stored.
LEMMA CountedStep ==
    ASSUME IInv, Alone, Counted, [Next]_vars
    PROVE  Counted'
<1> USE DEF table_vars, server_vars, dispatch_vars, provider_vars, Pending, Delivery
<1>0. TypeOK /\ PendingUnsent /\ Alone /\ Counted /\ None \notin Statuses \cup ReadRow
      /\ \A d \in Dispatchers : \A row \in batch[d] : row \in ReadRow /\ row.msg \in Messages
  BY NotificationAssumption DEF IInv, TypeOK, ReadRow
<1> USE DEF Counted, TypeOK, Statuses, ReadRow, MaxAttempts
<1>1. ASSUME NEW m \in Messages, Alert(m) PROVE Counted'
  BY <1>0, <1>1 DEF Alert
<1>2. ASSUME NEW m \in Messages, ComesDue(m) \/ GoesStale(m) PROVE Counted'
  BY <1>0, <1>2 DEF ComesDue, GoesStale
<1>3. ASSUME NEW m \in Messages, HandlesLate(m) PROVE Counted'
  BY <1>0, <1>3 DEF HandlesLate
<1>4. ASSUME NEW d \in Dispatchers, NEW m \in Messages, Handles(d, m) PROVE Counted'
  BY <1>0, <1>4 DEF Handles
<1>5. ASSUME NEW m \in Messages, NEW s \in Delivery, Receipt(m, s) PROVE Counted'
  BY <1>0, <1>5 DEF Receipt
<1>6. ASSUME NEW d \in Dispatchers, Reads(d) PROVE Counted'
  BY <1>0, <1>6 DEF Reads
<1>7. ASSUME NEW d \in Dispatchers, NEW row \in batch[d], SetsAside(d, row) PROVE Counted'
  <2>1. PICK s \in {"expired", "setup_required", "failed"} :
          status' = [status EXCEPT ![row.msg] = s]
    BY <1>7 DEF SetsAside, Marked
  <2>2. posts' = posts /\ attempts' = attempts /\ status[row.msg] \in Pending
    BY <1>0, <1>7 DEF SetsAside, Alone
  <2> QED
    BY <1>0, <2>1, <2>2
<1>8. ASSUME NEW d \in Dispatchers, NEW row \in batch[d], Skips(d, row) PROVE Counted'
  BY <1>0, <1>8 DEF Skips, Takes
<1>9. ASSUME NEW d \in Dispatchers, NEW row \in batch[d], Posts(d, row) PROVE Counted'
  <2>1. status[row.msg] \in Pending /\ attempts[row.msg] < 4
    BY <1>0, <1>9 DEF Posts, Claimable, PendingUnsent, Unsent
  <2> QED
    BY <1>0, <1>9, <2>1 DEF Posts, Takes
<1>10. ASSUME NEW d \in Dispatchers, NEW m \in Messages, Ends(d, m),
              Accepted(d, m) \/ Refused(d, m)
       PROVE  Counted'
  BY <1>0, <1>10 DEF Ends, Accepted, Refused, Marked
<1>11. ASSUME NEW d \in Dispatchers, NEW m \in Messages, Retries(d, m) PROVE Counted'
  <2>1. status[m] = "sending" /\ post[d].attempts = attempts[m]
    BY <1>0, <1>11 DEF Retries, Ends, Alone
  <2> QED
    BY <1>0, <1>11, <2>1 DEF Retries, Refusals, RetryStatus, Ends, Marked
<1>12. ASSUME NEW d \in Dispatchers, NEW m \in Messages, LosesAnswer(d, m) \/ DropsBatch(d, m)
       PROVE  Counted'
  BY <1>0, <1>12 DEF LosesAnswer, DropsBatch, Ends, Marked
<1>13. CASE Stop
  BY <1>0, <1>13 DEF Stop
<1>14. CASE Start
  BY <1>0, <1>14 DEF Start, Interrupted
<1>15. CASE UNCHANGED vars
  BY <1>0, <1>15 DEF vars
<1> QED
  BY <1>1, <1>2, <1>3, <1>4, <1>5, <1>6, <1>7, <1>8, <1>9, <1>10, <1>11, <1>12, <1>13, <1>14,
     <1>15 DEF Next, Dispatch, Environment, Accepted, Refused

\* A receipt finds the message by its id and improves what is stored, in
\* whatever order the receipts come.
LEMMA TrackedStep ==
    ASSUME ~EarlyReceipts, IInv, Alone, Identified, Tracked, [Next]_vars
    PROVE  Tracked'
<1> USE DEF table_vars, server_vars, dispatch_vars, provider_vars, Pending, Delivery
<1>0. TypeOK /\ Alone /\ Identified /\ Tracked /\ ~EarlyReceipts /\ None \notin Statuses \cup ReadRow
      /\ \A d \in Dispatchers : \A row \in batch[d] : row \in ReadRow /\ row.msg \in Messages
  BY NotificationAssumption DEF IInv, TypeOK, ReadRow
<1>a. \A d \in Dispatchers : \A row \in batch[d] : ~known[row.msg]
  BY <1>0 DEF Alone, Identified, ReadRow
<1>b. \A d \in Dispatchers, m \in Messages : Ends(d, m) => ~known[m]
  BY <1>0 DEF Alone, Identified, Ends
<1> USE DEF Tracked, Identified, TypeOK, Statuses, ReadRow
<1>1. ASSUME NEW m \in Messages, Alert(m) PROVE Tracked'
  BY <1>0, <1>1 DEF Alert
<1>2. ASSUME NEW m \in Messages, ComesDue(m) \/ GoesStale(m) PROVE Tracked'
  BY <1>0, <1>2 DEF ComesDue, GoesStale
<1>3. ASSUME NEW m \in Messages, HandlesLate(m) PROVE Tracked'
  BY <1>0, <1>3 DEF HandlesLate
<1>4. ASSUME NEW d \in Dispatchers, NEW m \in Messages, Handles(d, m) PROVE Tracked'
  BY <1>0, <1>4 DEF Handles
<1>5. ASSUME NEW m \in Messages, NEW s \in Delivery, Receipt(m, s) PROVE Tracked'
  <2>1. known[m] /\ known' = known /\ reported' = [reported EXCEPT ![m] = Later(s, reported[m])]
    BY <1>0, <1>5 DEF Receipt
  <2>2. status'[m] = Later(s, reported[m]) /\ Later(s, reported[m]) # None
        /\ \A n \in Messages \ {m} : status'[n] = status[n]
    BY <1>0, <1>5, <2>1 DEF Receipt, Rank, Later, Stage
  <2> QED
    BY <1>0, <2>1, <2>2
<1>6. ASSUME NEW d \in Dispatchers, Reads(d) PROVE Tracked'
  BY <1>0, <1>6 DEF Reads
<1>7. ASSUME NEW d \in Dispatchers, NEW row \in batch[d], SetsAside(d, row) PROVE Tracked'
  BY <1>0, <1>a, <1>7 DEF SetsAside, Takes, Marked
<1>8. ASSUME NEW d \in Dispatchers, NEW row \in batch[d], Skips(d, row) PROVE Tracked'
  BY <1>0, <1>8 DEF Skips, Takes
<1>9. ASSUME NEW d \in Dispatchers, NEW row \in batch[d], Posts(d, row) PROVE Tracked'
  BY <1>0, <1>a, <1>9 DEF Posts, Takes
<1>10. ASSUME NEW d \in Dispatchers, NEW m \in Messages, Ends(d, m),
              Accepted(d, m) \/ Refused(d, m)
       PROVE  Tracked'
  BY <1>0, <1>b, <1>10 DEF Accepted, Refused, Marked
<1>11. ASSUME NEW d \in Dispatchers, NEW m \in Messages, Ends(d, m), Retries(d, m) PROVE Tracked'
  BY <1>0, <1>b, <1>11 DEF Retries, Marked
<1>12. ASSUME NEW d \in Dispatchers, NEW m \in Messages, Ends(d, m),
              LosesAnswer(d, m) \/ DropsBatch(d, m)
       PROVE  Tracked'
  BY <1>0, <1>b, <1>12 DEF LosesAnswer, DropsBatch, Marked
<1>13. CASE Stop
  BY <1>0, <1>13 DEF Stop
<1>14. CASE Start
  BY <1>0, <1>14 DEF Start, Interrupted
<1>15. CASE UNCHANGED vars
  BY <1>0, <1>15 DEF vars
<1> QED
  BY <1>1, <1>2, <1>3, <1>4, <1>5, <1>6, <1>7, <1>8, <1>9, <1>10, <1>11, <1>12, <1>13, <1>14,
     <1>15 DEF Next, Dispatch, Environment, Accepted, Refused, Retries, LosesAnswer, DropsBatch

\* Only what is still pending is set aside as out of date, and nothing of it
\* is under way.
LEMMA ExpiredStep ==
    ASSUME IInv, Alone, ExpiredWasNotSent, [Next]_vars
    PROVE  ExpiredWasNotSent'
<1> USE DEF table_vars, server_vars, dispatch_vars, provider_vars
<1>0. /\ TypeOK /\ ExpiredWasNotSent
      /\ \A d \in Dispatchers : \A row \in batch[d] : Unsent(row.msg) /\ row.msg \in Messages
      /\ \A d \in Dispatchers, m \in Messages : Out(d, m) => status[m] = "sending"
  BY DEF IInv, TypeOK, PendingUnsent, Alone, Out, ReadRow
<1> USE DEF ExpiredWasNotSent, TypeOK, Unsent, Out
<1>1. ASSUME NEW m \in Messages, Alert(m) PROVE ExpiredWasNotSent'
  BY <1>0, <1>1, NotificationAssumption DEF Alert
<1>2. ASSUME NEW m \in Messages, ComesDue(m) \/ GoesStale(m) PROVE ExpiredWasNotSent'
  BY <1>0, <1>2 DEF ComesDue, GoesStale
<1>3. ASSUME NEW m \in Messages, HandlesLate(m) PROVE ExpiredWasNotSent'
  BY <1>0, <1>3 DEF HandlesLate
<1>4. ASSUME NEW d \in Dispatchers, NEW m \in Messages, Handles(d, m) PROVE ExpiredWasNotSent'
  BY <1>0, <1>4 DEF Handles
<1>5. ASSUME NEW m \in Messages, NEW s \in Delivery, Receipt(m, s) PROVE ExpiredWasNotSent'
  BY <1>0, <1>5 DEF Receipt, Delivery
<1>6. ASSUME NEW d \in Dispatchers, Reads(d) PROVE ExpiredWasNotSent'
  BY <1>0, <1>6 DEF Reads
<1>7. ASSUME NEW d \in Dispatchers, NEW row \in batch[d], SetsAside(d, row)
      PROVE  ExpiredWasNotSent'
  <2>1. taken[row.msg] = 0 /\ late[row.msg] = 0
    BY <1>0
  <2> QED
    BY <1>0, <1>7, <2>1 DEF SetsAside, Marked
<1>8. ASSUME NEW d \in Dispatchers, NEW row \in batch[d], Skips(d, row) \/ Posts(d, row)
      PROVE  ExpiredWasNotSent'
  BY <1>0, <1>8 DEF Skips, Posts
<1>9. ASSUME NEW d \in Dispatchers, NEW m \in Messages,
             Accepted(d, m) \/ Refused(d, m) \/ Retries(d, m) \/ DropsBatch(d, m)
      PROVE  ExpiredWasNotSent'
  BY <1>0, <1>9 DEF Accepted, Refused, Retries, RetryStatus, DropsBatch, Marked
<1>10. ASSUME NEW d \in Dispatchers, NEW m \in Messages, LosesAnswer(d, m)
       PROVE  ExpiredWasNotSent'
  <2>1. \A n \in Messages \ {m} : late'[n] = late[n] + 0
    BY <1>0, <1>10 DEF LosesAnswer, GivenUp, Ends
  <2> QED
    BY <1>0, <1>10, <2>1 DEF LosesAnswer, Marked
<1>11. CASE Stop
  <2>1. \A n \in Messages : status[n] = "expired" => late'[n] = late[n] + 0
    BY <1>0, <1>11 DEF Stop, GivenUp
  <2> QED
    BY <1>0, <1>11, <2>1 DEF Stop
<1>12. CASE Start
  BY <1>0, <1>12 DEF Start, Interrupted
<1>13. CASE UNCHANGED vars
  BY <1>0, <1>13 DEF vars
<1> QED
  BY <1>1, <1>2, <1>3, <1>4, <1>5, <1>6, <1>7, <1>8, <1>9, <1>10, <1>11, <1>12, <1>13
     DEF Next, Dispatch, Environment

\* One dispatcher keeps what it has read fresh.
LEMMA OneDispatcherInvariant ==
    ASSUME OneDispatcher
    PROVE  SafetySpec => [](Alone /\ Identified)
<1>1. Init => Alone /\ Identified
  BY DEF Init, Alone, Identified
<1>2. IInv /\ Alone /\ Identified /\ [Next]_vars => (Alone /\ Identified)'
  BY AloneStep
<1> QED
  BY <1>1, <1>2, OutboxInvariant, PTL DEF SafetySpec

\* Through refusals, delays, stops and restarts the one dispatcher posts a
\* message four times at most (WhatsApp._dispatch; the attempts are stored).
THEOREM PostsBounded ==
    ASSUME OneDispatcher
    PROVE  SafetySpec => []PostedAtMostFourTimes
<1>1. Init => Counted
  BY DEF Init, Counted, MaxAttempts
<1>2. IInv /\ Alone /\ Counted /\ [Next]_vars => Counted'
  BY CountedStep
<1>3. Counted => PostedAtMostFourTimes
  BY DEF Counted, PostedAtMostFourTimes
<1> QED
  BY <1>1, <1>2, <1>3, OutboxInvariant, OneDispatcherInvariant, PTL DEF SafetySpec

\* Once a message's id is stored, its status is the best that a receipt
\* reported (WhatsApp.webhook); a receipt that comes before its id is the
\* one that is lost.
THEOREM ReceiptsStored ==
    ASSUME OneDispatcher, ~EarlyReceipts
    PROVE  SafetySpec => []ReceiptsAreStored
<1>1. Init => Tracked
  BY DEF Init, Tracked
<1>2. IInv /\ Alone /\ Identified /\ Tracked /\ [Next]_vars => Tracked'
  BY TrackedStep
<1>3. Tracked => ReceiptsAreStored
  BY DEF Tracked, ReceiptsAreStored
<1> QED
  BY <1>1, <1>2, <1>3, OutboxInvariant, OneDispatcherInvariant, PTL DEF SafetySpec

\* A message that is shown as out of date and not sent was not sent, whatever
\* refusals, lost answers and stops came before (WhatsApp._dispatch and run).
THEOREM ExpiredNotSent ==
    ASSUME OneDispatcher
    PROVE  SafetySpec => []ExpiredWasNotSent
<1>1. Init => ExpiredWasNotSent
  BY DEF Init, ExpiredWasNotSent
<1>2. IInv /\ Alone /\ ExpiredWasNotSent /\ [Next]_vars => ExpiredWasNotSent'
  BY ExpiredStep
<1> QED
  BY <1>1, <1>2, OutboxInvariant, OneDispatcherInvariant, PTL DEF SafetySpec
=============================================================================
