------------------------ MODULE SearchSessionsProofs ------------------------
(***************************************************************************)
(* The bound on the search sessions, the exactness of the browser budget   *)
(* and that no browser is lost, for every set of requests and all limits.  *)
(***************************************************************************)
EXTENDS SearchSessions, FiniteSetTheorems, TLAPS

\* Where a session is: the search that has passed the check but is not yet
\* registered is neither in the table nor being closed by others, ...
Registered == \A k \in Searches : k \in sessions => pc[k] = "done"

Slots ==
    \A k \in Searches :
        /\ k \in held => pc[k] \in {"searching", "aborting", "done"}
        /\ pc[k] = "searching" => browser[k] = "open" /\ k \in held

\* ... who closes it took it from the table, or has opened it, ...
Apart ==
    \A a \in Actors : closing[a] # None =>
        /\ pc[a] \in {"cleaning", "evicting", "aborting"}
        /\ closing[a] \notin sessions
        /\ closing[a] = a \/ pc[closing[a]] = "done"
        /\ closing[a] = a => pc[a] = "aborting"

Own ==
    /\ \A k \in Searches : pc[k] = "aborting" => closing[k] = k
    /\ \A k \in Searches : pc[k] = "evicting" <=> registry = k
    /\ \A a \in Actors \ Searches : pc[a] \notin {"evicting", "aborting"}

Listed == \A a \in Actors : \A k \in todo[a] : pc[k] = "done"

Places == Registered /\ Slots /\ Apart /\ Own /\ Listed

\* ... and it is counted, so that whoever makes room under the registry lock
\* still has that room when its close() has ended.
Preparing == {k \in Searches : pc[k] \in {"starting", "searching", "aborting"}}

Counts ==
    /\ pending = Cardinality(Preparing)
    /\ SessionsBounded
    /\ registry # None => Cardinality(sessions) + pending < MaxSessions

Budget == BudgetIsExact

Browsers == NoBrowserLost /\ RegisteredIsOpen

IInv == TypeOK /\ Places /\ Counts /\ Budget /\ Browsers

-----------------------------------------------------------------------------
\* What one search more or less does to the number of searches of a set.
LEMMA SearchesFinite ==
    ASSUME NEW S \in SUBSET Searches, NEW k \in Searches
    PROVE  /\ Cardinality(S) \in Nat
           /\ k \in S => Cardinality(S) # 0
           /\ Cardinality(S \cup {k}) = IF k \in S THEN Cardinality(S) ELSE Cardinality(S) + 1
           /\ Cardinality(S \ {k}) = IF k \in S THEN Cardinality(S) - 1 ELSE Cardinality(S)
<1>1. IsFiniteSet(S)
  BY SearchAssumption, FS_Subset
<1> QED
  BY <1>1, FS_CardinalityType, FS_EmptySet, FS_AddElement, FS_RemoveElement

\* A search that is let in is counted.
LEMMA PreparingCounted ==
    ASSUME NEW r \in Preparing, Counts PROVE pending \in Nat \ {0}
<1>1. Preparing \in SUBSET Searches /\ r \in Searches
  BY DEF Preparing
<1> QED
  BY <1>1, SearchesFinite DEF Counts

\* The initial states satisfy the invariant.
LEMMA InitIInv == Init => IInv
<1> SUFFICES ASSUME Init PROVE IInv
  OBVIOUS
<1> USE SearchAssumption DEF Init, Actors
<1>1. TypeOK
  BY DEF TypeOK, PCs
<1>2. Places
  BY DEF Places, Registered, Slots, Apart, Own, Listed
<1>3. Preparing = {}
  BY DEF Preparing
<1>4. Counts
  BY <1>3, FS_EmptySet DEF Counts, SessionsBounded
<1>5. Budget
  BY FS_EmptySet DEF Budget, BudgetIsExact
<1>6. Browsers
  BY DEF Browsers, NoBrowserLost, RegisteredIsOpen
<1> QED
  BY <1>1, <1>2, <1>4, <1>5, <1>6 DEF IInv

\* A close() that ends gives one slot back, the first time.
LEMMA ReleaseExact ==
    ASSUME TypeOK, Budget, NEW k \in Searches, Releases(k), others' = others
    PROVE  Budget'
<1>1. held \in SUBSET Searches /\ used \in Nat /\ others \in Nat /\ Limit \in Nat
  BY SearchAssumption DEF TypeOK
<1>2. /\ Cardinality(held) \in Nat
      /\ k \in held => Cardinality(held) # 0
      /\ Cardinality(held \ {k}) = IF k \in held THEN Cardinality(held) - 1 ELSE Cardinality(held)
  BY <1>1, SearchesFinite
<1> QED
  BY <1>1, <1>2 DEF Budget, BudgetIsExact, Releases, Returned

\* Every step keeps the types.
LEMMA TypeStep == IInv /\ [Next]_vars => TypeOK'
<1> SUFFICES ASSUME TypeOK, Places, Counts, Budget, [Next]_vars PROVE TypeOK'
  BY DEF IInv
<1> USE SearchAssumption DEF TypeOK, PCs, Actors, table_vars, budget_vars, gate_vars, closer_vars, seat_vars
<1>1. ASSUME NEW r \in Searches, SearchEnters(r)
      PROVE  TypeOK'
  BY <1>1 DEF SearchEnters, StartsCleanup, Goes
<1>2. ASSUME NEW r \in Searches, Admitted(r)
      PROVE  TypeOK'
  BY <1>2 DEF Admitted, Cleaned, Goes
<1>3. ASSUME NEW r \in Searches, FindsBusy(r)
      PROVE  TypeOK'
  BY <1>3 DEF FindsBusy, Cleaned, Goes
<1>4. ASSUME NEW r \in Searches, NEW k \in Searches, Evicts(r, k)
      PROVE  TypeOK'
  BY <1>4 DEF Evicts, Cleaned, BeginsClose, Goes
<1>5. ASSUME NEW r \in Searches, NEW k \in Searches, Evicted(r, k)
      PROVE  TypeOK'
  BY <1>5 DEF Evicted, EndsClose, Goes, Releases, Returned
<1>6. ASSUME NEW r \in Searches, Starts(r)
      PROVE  TypeOK'
  BY <1>6 DEF Starts, Acquires, Goes
<1>7. ASSUME NEW r \in Searches, FindsNoBrowser(r)
      PROVE  TypeOK'
  <2>1. pending \in Nat \ {0}
    BY <1>7, PreparingCounted DEF Counts, FindsNoBrowser, Preparing
  <2> QED
    BY <1>7, <2>1 DEF FindsNoBrowser, Goes
<1>8. ASSUME NEW r \in Searches, Finds(r)
      PROVE  TypeOK'
  <2>1. Cardinality({k \in Searches : born[k] # 0}) \in Nat
    BY FS_Subset, FS_CardinalityType
  <2>2. pending \in Nat \ {0}
    BY <1>8, PreparingCounted DEF Counts, Finds, Preparing
  <2> QED
    BY <1>8, <2>1, <2>2 DEF Finds, Goes
<1>9. ASSUME NEW r \in Searches, Fails(r)
      PROVE  TypeOK'
  BY <1>9 DEF Fails, Goes
<1>10. ASSUME NEW r \in Searches, Aborted(r)
      PROVE  TypeOK'
  <2>1. pending \in Nat \ {0}
    BY <1>10, PreparingCounted DEF Counts, Aborted, Preparing
  <2> QED
    BY <1>10, <2>1 DEF Aborted, EndsClose, Releases, Returned, Goes
<1>11. ASSUME NEW a \in Actors, NEW k \in Searches, Reaps(a, k)
      PROVE  TypeOK'
  BY <1>11 DEF Reaps, BeginsClose
<1>12. ASSUME NEW a \in Actors, NEW k \in Searches, Reaped(a, k)
      PROVE  TypeOK'
  BY <1>12 DEF Reaped, EndsClose, Releases, Returned
<1>13. ASSUME NEW a \in Actors, NEW k \in Searches, CloseRaises(a, k)
      PROVE  TypeOK'
  <2>1. a \in Searches /\ pc[a] = "aborting" => pending \in Nat \ {0}
    BY PreparingCounted DEF Counts, Preparing
  <2>2. pc[a] = "aborting" => a \in Searches
    BY <1>13 DEF CloseRaises, Places, Own
  <2> QED
    BY <1>13, <2>1, <2>2 DEF CloseRaises, EndsClose, Releases, Returned, Goes
<1>14. ASSUME NEW v \in Seats, NEW k \in Searches, SeatsArrive(v, k)
      PROVE  TypeOK'
  BY <1>14 DEF SeatsArrive, StartsCleanup, Goes
<1>15. ASSUME NEW v \in Seats, SeatsGone(v)
      PROVE  TypeOK'
  BY <1>15 DEF SeatsGone, Cleaned, Goes
<1>16. ASSUME NEW v \in Seats, SeatsFound(v)
      PROVE  TypeOK'
  BY <1>16 DEF SeatsFound, Cleaned, Goes
<1>17. ASSUME NEW v \in Seats, SeatsGranted(v)
      PROVE  TypeOK'
  BY <1>17 DEF SeatsGranted, Goes
<1>18. ASSUME NEW v \in Seats, SeatsRead(v)
      PROVE  TypeOK'
  BY <1>18 DEF SeatsRead, Goes
<1>19. CASE SweepStarts
  BY <1>19 DEF SweepStarts, StartsCleanup, Goes
<1>20. CASE SweepEnds
  BY <1>20 DEF SweepEnds, Cleaned, Goes
<1>21. CASE OthersAcquire
  BY <1>21 DEF OthersAcquire
<1>22. CASE OthersRelease
  <2>1. Cardinality(held) \in Nat
    BY SearchAssumption, FS_Subset, FS_CardinalityType
  <2>2. used - 1 \in Nat
    BY <1>22, <2>1 DEF OthersRelease, Budget, BudgetIsExact
  <2> QED
    BY <1>22, <2>2 DEF OthersRelease
<1>23. ASSUME NEW k \in Searches, Expires(k)
      PROVE  TypeOK'
  BY <1>23 DEF Expires
<1>24. CASE UNCHANGED vars
  BY <1>24 DEF vars
<1> QED
  BY <1>1, <1>2, <1>3, <1>4, <1>5, <1>6, <1>7, <1>8, <1>9, <1>10, <1>11, <1>12, <1>13, <1>14, <1>15, <1>16, <1>17, <1>18, <1>19, <1>20, <1>21, <1>22, <1>23, <1>24
     DEF Next, SearchStep, SeatsStep, CleanupStep

\* Every step keeps the actors and the sessions in their places.
LEMMA PlacesStep == IInv /\ [Next]_vars => Places'
<1> SUFFICES ASSUME TypeOK, Places, [Next]_vars PROVE Places'
  BY DEF IInv
<1> USE SearchAssumption DEF TypeOK, PCs, Places, Registered, Slots, Apart, Own, Listed, Actors, table_vars, budget_vars, gate_vars, closer_vars, seat_vars
<1>1. ASSUME NEW r \in Searches, SearchEnters(r)
      PROVE  Places'
  BY <1>1 DEF SearchEnters, StartsCleanup, Goes
<1>2. ASSUME NEW r \in Searches, Admitted(r)
      PROVE  Places'
  BY <1>2 DEF Admitted, Cleaned, Goes
<1>3. ASSUME NEW r \in Searches, FindsBusy(r)
      PROVE  Places'
  BY <1>3 DEF FindsBusy, Cleaned, Goes
<1>4. ASSUME NEW r \in Searches, NEW k \in Searches, Evicts(r, k)
      PROVE  Places'
  <2>1. Registered'
    BY <1>4 DEF Evicts, Cleaned, BeginsClose, Goes
  <2>2. Slots'
    BY <1>4 DEF Evicts, Cleaned, BeginsClose, Goes
  <2>3. Apart'
    BY <1>4 DEF Evicts, Cleaned, BeginsClose, Goes
  <2>4. Own'
    BY <1>4 DEF Evicts, Cleaned, BeginsClose, Goes
  <2>5. Listed'
    BY <1>4 DEF Evicts, Cleaned, BeginsClose, Goes
  <2> QED
    BY <2>1, <2>2, <2>3, <2>4, <2>5
<1>5. ASSUME NEW r \in Searches, NEW k \in Searches, Evicted(r, k)
      PROVE  Places'
  <2>1. Registered'
    BY <1>5 DEF Evicted, EndsClose, Goes, Releases
  <2>2. Slots'
    BY <1>5 DEF Evicted, EndsClose, Goes, Releases
  <2>3. Apart'
    BY <1>5 DEF Evicted, EndsClose, Goes, Releases
  <2>4. Own'
    BY <1>5 DEF Evicted, EndsClose, Goes, Releases
  <2>5. Listed'
    BY <1>5 DEF Evicted, EndsClose, Goes, Releases
  <2> QED
    BY <2>1, <2>2, <2>3, <2>4, <2>5
<1>6. ASSUME NEW r \in Searches, Starts(r)
      PROVE  Places'
  BY <1>6 DEF Starts, Acquires, Goes
<1>7. ASSUME NEW r \in Searches, FindsNoBrowser(r)
      PROVE  Places'
  BY <1>7 DEF FindsNoBrowser, Goes
<1>8. ASSUME NEW r \in Searches, Finds(r)
      PROVE  Places'
  BY <1>8 DEF Finds, Goes
<1>9. ASSUME NEW r \in Searches, Fails(r)
      PROVE  Places'
  BY <1>9 DEF Fails, Goes
<1>10. ASSUME NEW r \in Searches, Aborted(r)
      PROVE  Places'
  <2>1. Registered'
    BY <1>10 DEF Aborted, EndsClose, Goes, Releases
  <2>2. Slots'
    BY <1>10 DEF Aborted, EndsClose, Goes, Releases
  <2>3. Apart'
    BY <1>10 DEF Aborted, EndsClose, Goes, Releases
  <2>4. Own'
    BY <1>10 DEF Aborted, EndsClose, Goes, Releases
  <2>5. Listed'
    BY <1>10 DEF Aborted, EndsClose, Goes, Releases
  <2> QED
    BY <2>1, <2>2, <2>3, <2>4, <2>5
<1>11. ASSUME NEW a \in Actors, NEW k \in Searches, Reaps(a, k)
      PROVE  Places'
  <2>1. Registered'
    BY <1>11 DEF Reaps, BeginsClose
  <2>2. Slots'
    BY <1>11 DEF Reaps, BeginsClose
  <2>3. Apart'
    BY <1>11 DEF Reaps, BeginsClose
  <2>4. Own'
    BY <1>11 DEF Reaps, BeginsClose
  <2>5. Listed'
    BY <1>11 DEF Reaps, BeginsClose
  <2> QED
    BY <2>1, <2>2, <2>3, <2>4, <2>5
<1>12. ASSUME NEW a \in Actors, NEW k \in Searches, Reaped(a, k)
      PROVE  Places'
  <2>1. Registered'
    BY <1>12 DEF Reaped, EndsClose, Releases
  <2>2. Slots'
    BY <1>12 DEF Reaped, EndsClose, Releases
  <2>3. Apart'
    BY <1>12 DEF Reaped, EndsClose, Releases
  <2>4. Own'
    BY <1>12 DEF Reaped, EndsClose, Releases
  <2>5. Listed'
    BY <1>12 DEF Reaped, EndsClose, Releases
  <2> QED
    BY <2>1, <2>2, <2>3, <2>4, <2>5
<1>13. ASSUME NEW a \in Actors, NEW k \in Searches, CloseRaises(a, k)
      PROVE  Places'
  <2>1. Registered'
    BY <1>13 DEF CloseRaises, EndsClose, Goes, Releases
  <2>2. Slots'
    BY <1>13 DEF CloseRaises, EndsClose, Goes, Releases
  <2>3. Apart'
    BY <1>13 DEF CloseRaises, EndsClose, Goes, Releases
  <2>4. Own'
    BY <1>13 DEF CloseRaises, EndsClose, Goes, Releases
  <2>5. Listed'
    BY <1>13 DEF CloseRaises, EndsClose, Goes, Releases
  <2> QED
    BY <2>1, <2>2, <2>3, <2>4, <2>5
<1>14. ASSUME NEW v \in Seats, NEW k \in Searches, SeatsArrive(v, k)
      PROVE  Places'
  BY <1>14 DEF SeatsArrive, StartsCleanup, Goes
<1>15. ASSUME NEW v \in Seats, SeatsGone(v)
      PROVE  Places'
  BY <1>15 DEF SeatsGone, Cleaned, Goes
<1>16. ASSUME NEW v \in Seats, SeatsFound(v)
      PROVE  Places'
  BY <1>16 DEF SeatsFound, Cleaned, Goes
<1>17. ASSUME NEW v \in Seats, SeatsGranted(v)
      PROVE  Places'
  BY <1>17 DEF SeatsGranted, Goes
<1>18. ASSUME NEW v \in Seats, SeatsRead(v)
      PROVE  Places'
  BY <1>18 DEF SeatsRead, Goes
<1>19. CASE SweepStarts
  BY <1>19 DEF SweepStarts, StartsCleanup, Goes
<1>20. CASE SweepEnds
  BY <1>20 DEF SweepEnds, Cleaned, Goes
<1>21. CASE OthersAcquire
  BY <1>21 DEF OthersAcquire
<1>22. CASE OthersRelease
  BY <1>22 DEF OthersRelease
<1>23. ASSUME NEW k \in Searches, Expires(k)
      PROVE  Places'
  BY <1>23 DEF Expires
<1>24. CASE UNCHANGED vars
  BY <1>24 DEF vars
<1> QED
  BY <1>1, <1>2, <1>3, <1>4, <1>5, <1>6, <1>7, <1>8, <1>9, <1>10, <1>11, <1>12, <1>13, <1>14, <1>15, <1>16, <1>17, <1>18, <1>19, <1>20, <1>21, <1>22, <1>23, <1>24
     DEF Next, SearchStep, SeatsStep, CleanupStep

\* Every step keeps the searches counted.
LEMMA CountsStep == IInv /\ [Next]_vars => Counts'
<1> SUFFICES ASSUME TypeOK, Places, Counts, [Next]_vars PROVE Counts'
  BY DEF IInv
<1> USE SearchAssumption DEF TypeOK, PCs, Own, Places, Actors, table_vars, budget_vars, gate_vars, closer_vars, seat_vars
<1>a. /\ sessions \in SUBSET Searches /\ Preparing \in SUBSET Searches
      /\ Cardinality(sessions) \in Nat /\ Cardinality(Preparing) \in Nat
      /\ MaxSessions \in Nat
  BY SearchesFinite, FS_Subset, FS_CardinalityType DEF Preparing
<1>0. ASSUME UNCHANGED <<sessions, pending, registry>>, Preparing' = Preparing
      PROVE  Counts'
  BY <1>0 DEF Counts, SessionsBounded
<1>1. ASSUME NEW r \in Searches, SearchEnters(r)
      PROVE  Counts'
  BY <1>0, <1>1 DEF SearchEnters, StartsCleanup, Goes, Preparing
<1>2. ASSUME NEW r \in Searches, Admitted(r)
      PROVE  Counts'
  <2>1. r \notin Preparing /\ Preparing' = Preparing \cup {r}
    BY <1>2 DEF Admitted, Cleaned, Goes, Preparing
  <2>2. Cardinality(Preparing \cup {r}) = IF r \in Preparing THEN Cardinality(Preparing) ELSE Cardinality(Preparing) + 1
    BY <1>a, SearchesFinite
  <2> QED
    BY <1>2, <1>a, <2>1, <2>2 DEF Admitted, Cleaned, Goes, Counts, SessionsBounded, Full
<1>3. ASSUME NEW r \in Searches, FindsBusy(r)
      PROVE  Counts'
  BY <1>0, <1>3 DEF FindsBusy, Cleaned, Goes, Preparing
<1>4. ASSUME NEW r \in Searches, NEW k \in Searches, Evicts(r, k)
      PROVE  Counts'
  <2>1. Preparing' = Preparing
    BY <1>4 DEF Evicts, Cleaned, BeginsClose, Goes, Preparing
  <2>2. Cardinality(sessions \ {k}) = IF k \in sessions THEN Cardinality(sessions) - 1 ELSE Cardinality(sessions)
    BY <1>a, SearchesFinite
  <2> QED
    BY <1>4, <1>a, <2>1, <2>2 DEF Evicts, Cleaned, BeginsClose, Goes, Counts, SessionsBounded, Full
<1>5. ASSUME NEW r \in Searches, NEW k \in Searches, Evicted(r, k)
      PROVE  Counts'
  <2>1. r \notin Preparing /\ Preparing' = Preparing \cup {r}
    BY <1>5 DEF Evicted, EndsClose, Goes, Preparing
  <2>2. Cardinality(Preparing \cup {r}) = IF r \in Preparing THEN Cardinality(Preparing) ELSE Cardinality(Preparing) + 1
    BY <1>a, SearchesFinite
  <2> QED
    BY <1>5, <1>a, <2>1, <2>2 DEF Evicted, EndsClose, Goes, Counts, SessionsBounded, Full
<1>6. ASSUME NEW r \in Searches, Starts(r)
      PROVE  Counts'
  BY <1>0, <1>6 DEF Starts, Acquires, Goes, Preparing
<1>7. ASSUME NEW r \in Searches, FindsNoBrowser(r)
      PROVE  Counts'
  <2>1. r \in Preparing /\ Preparing' = Preparing \ {r}
    BY <1>7 DEF FindsNoBrowser, Goes, Preparing
  <2>2. Cardinality(Preparing \ {r}) = IF r \in Preparing THEN Cardinality(Preparing) - 1 ELSE Cardinality(Preparing)
    BY <1>a, SearchesFinite
  <2> QED
    BY <1>7, <1>a, <2>1, <2>2 DEF FindsNoBrowser, Goes, Counts, SessionsBounded, Full
<1>8. ASSUME NEW r \in Searches, Finds(r)
      PROVE  Counts'
  <2>1. r \in Preparing /\ Preparing' = Preparing \ {r}
    BY <1>8 DEF Finds, Goes, Preparing
  <2>2. Cardinality(Preparing \ {r}) = Cardinality(Preparing) - 1
    BY <1>a, <2>1, SearchesFinite
  <2>3. Cardinality(sessions \cup {r}) \in {Cardinality(sessions), Cardinality(sessions) + 1}
    BY <1>a, SearchesFinite
  <2>4. registry' = registry /\ pending' = pending - 1 /\ sessions' = sessions \cup {r}
    BY <1>8 DEF Finds
  <2> QED
    BY <1>a, <2>1, <2>2, <2>3, <2>4 DEF Counts, SessionsBounded
<1>9. ASSUME NEW r \in Searches, Fails(r)
      PROVE  Counts'
  BY <1>0, <1>9 DEF Fails, Goes, Preparing
<1>10. ASSUME NEW r \in Searches, Aborted(r)
      PROVE  Counts'
  <2>1. r \in Preparing /\ Preparing' = Preparing \ {r}
    BY <1>10 DEF Aborted, EndsClose, Goes, Preparing
  <2>2. Cardinality(Preparing \ {r}) = IF r \in Preparing THEN Cardinality(Preparing) - 1 ELSE Cardinality(Preparing)
    BY <1>a, SearchesFinite
  <2> QED
    BY <1>10, <1>a, <2>1, <2>2 DEF Aborted, EndsClose, Goes, Counts, SessionsBounded, Full
<1>11. ASSUME NEW a \in Actors, NEW k \in Searches, Reaps(a, k)
      PROVE  Counts'
  <2>1. Preparing' = Preparing
    BY <1>11 DEF Reaps, BeginsClose, Preparing
  <2>2. Cardinality(sessions \ {k}) = IF k \in sessions THEN Cardinality(sessions) - 1 ELSE Cardinality(sessions)
    BY <1>a, SearchesFinite
  <2> QED
    BY <1>11, <1>a, <2>1, <2>2 DEF Reaps, BeginsClose, Counts, SessionsBounded, Full
<1>12. ASSUME NEW a \in Actors, NEW k \in Searches, Reaped(a, k)
      PROVE  Counts'
  BY <1>0, <1>12 DEF Reaped, EndsClose, Preparing
<1>13. ASSUME NEW a \in Actors, NEW k \in Searches, CloseRaises(a, k)
      PROVE  Counts'
  <2>1. CASE pc[a] = "aborting"
    <3>1. a \in Preparing /\ Preparing' = Preparing \ {a}
      BY <1>13, <2>1 DEF CloseRaises, EndsClose, Goes, Preparing
    <3> QED
      BY <1>13, <1>a, <2>1, <3>1, SearchesFinite DEF CloseRaises, EndsClose, Goes, Counts, SessionsBounded
  <2>2. CASE pc[a] # "aborting"
    <3>1. Preparing' = Preparing
      BY <1>13, <2>2 DEF CloseRaises, EndsClose, Goes, Preparing
    <3> QED
      BY <1>13, <1>a, <2>2, <3>1 DEF CloseRaises, EndsClose, Goes, Counts, SessionsBounded
  <2> QED
    BY <2>1, <2>2
<1>14. ASSUME NEW v \in Seats, NEW k \in Searches, SeatsArrive(v, k)
      PROVE  Counts'
  BY <1>0, <1>14 DEF SeatsArrive, StartsCleanup, Goes, Preparing
<1>15. ASSUME NEW v \in Seats, SeatsGone(v)
      PROVE  Counts'
  BY <1>0, <1>15 DEF SeatsGone, Cleaned, Goes, Preparing
<1>16. ASSUME NEW v \in Seats, SeatsFound(v)
      PROVE  Counts'
  BY <1>0, <1>16 DEF SeatsFound, Cleaned, Goes, Preparing
<1>17. ASSUME NEW v \in Seats, SeatsGranted(v)
      PROVE  Counts'
  BY <1>0, <1>17 DEF SeatsGranted, Goes, Preparing
<1>18. ASSUME NEW v \in Seats, SeatsRead(v)
      PROVE  Counts'
  BY <1>0, <1>18 DEF SeatsRead, Goes, Preparing
<1>19. CASE SweepStarts
  BY <1>0, <1>19 DEF SweepStarts, StartsCleanup, Goes, Preparing
<1>20. CASE SweepEnds
  BY <1>0, <1>20 DEF SweepEnds, Cleaned, Goes, Preparing
<1>21. CASE OthersAcquire
  BY <1>0, <1>21 DEF OthersAcquire, Preparing
<1>22. CASE OthersRelease
  BY <1>0, <1>22 DEF OthersRelease, Preparing
<1>23. ASSUME NEW k \in Searches, Expires(k)
      PROVE  Counts'
  BY <1>0, <1>23 DEF Expires, Preparing
<1>24. CASE UNCHANGED vars
  BY <1>0, <1>24 DEF vars, Preparing
<1> QED
  BY <1>1, <1>2, <1>3, <1>4, <1>5, <1>6, <1>7, <1>8, <1>9, <1>10, <1>11, <1>12, <1>13, <1>14, <1>15, <1>16, <1>17, <1>18, <1>19, <1>20, <1>21, <1>22, <1>23, <1>24
     DEF Next, SearchStep, SeatsStep, CleanupStep

\* Every step keeps the budget exact.
LEMMA BudgetStep == IInv /\ [Next]_vars => Budget'
<1> SUFFICES ASSUME TypeOK, Places, Budget, [Next]_vars PROVE Budget'
  BY DEF IInv
<1> USE DEF table_vars, budget_vars, gate_vars, closer_vars, seat_vars
<1>a. /\ held \in SUBSET Searches /\ Cardinality(held) \in Nat
      /\ used \in Nat /\ others \in Nat /\ Limit \in Nat
  BY SearchAssumption, FS_Subset, FS_CardinalityType DEF TypeOK
<1>0. ASSUME UNCHANGED budget_vars PROVE Budget'
  BY <1>0 DEF Budget, BudgetIsExact
<1>1. ASSUME NEW r \in Searches, SearchEnters(r)
      PROVE  Budget'
  BY <1>0, <1>1 DEF SearchEnters, StartsCleanup, Goes
<1>2. ASSUME NEW r \in Searches, Admitted(r)
      PROVE  Budget'
  BY <1>0, <1>2 DEF Admitted, Cleaned, Goes
<1>3. ASSUME NEW r \in Searches, FindsBusy(r)
      PROVE  Budget'
  BY <1>0, <1>3 DEF FindsBusy, Cleaned, Goes
<1>4. ASSUME NEW r \in Searches, NEW k \in Searches, Evicts(r, k)
      PROVE  Budget'
  BY <1>0, <1>4 DEF Evicts, Cleaned, BeginsClose, Goes
<1>5. ASSUME NEW r \in Searches, NEW k \in Searches, Evicted(r, k)
      PROVE  Budget'
  BY <1>5, ReleaseExact DEF Evicted, EndsClose, Goes
<1>6. ASSUME NEW r \in Searches, Starts(r)
      PROVE  Budget'
  <2>1. r \notin held
    BY <1>6 DEF Starts, Places, Slots
  <2> QED
    BY <1>6, <1>a, <2>1, SearchesFinite DEF Starts, Acquires, Free, Budget, BudgetIsExact
<1>7. ASSUME NEW r \in Searches, FindsNoBrowser(r)
      PROVE  Budget'
  BY <1>0, <1>7 DEF FindsNoBrowser, Goes
<1>8. ASSUME NEW r \in Searches, Finds(r)
      PROVE  Budget'
  BY <1>0, <1>8 DEF Finds, Goes
<1>9. ASSUME NEW r \in Searches, Fails(r)
      PROVE  Budget'
  BY <1>0, <1>9 DEF Fails, Goes
<1>10. ASSUME NEW r \in Searches, Aborted(r)
      PROVE  Budget'
  BY <1>10, ReleaseExact DEF Aborted, EndsClose, Goes
<1>11. ASSUME NEW a \in Actors, NEW k \in Searches, Reaps(a, k)
      PROVE  Budget'
  BY <1>0, <1>11 DEF Reaps, BeginsClose
<1>12. ASSUME NEW a \in Actors, NEW k \in Searches, Reaped(a, k)
      PROVE  Budget'
  BY <1>12, ReleaseExact DEF Reaped, EndsClose
<1>13. ASSUME NEW a \in Actors, NEW k \in Searches, CloseRaises(a, k)
      PROVE  Budget'
  BY <1>13, ReleaseExact DEF CloseRaises, EndsClose, Goes
<1>14. ASSUME NEW v \in Seats, NEW k \in Searches, SeatsArrive(v, k)
      PROVE  Budget'
  BY <1>0, <1>14 DEF SeatsArrive, StartsCleanup, Goes
<1>15. ASSUME NEW v \in Seats, SeatsGone(v)
      PROVE  Budget'
  BY <1>0, <1>15 DEF SeatsGone, Cleaned, Goes
<1>16. ASSUME NEW v \in Seats, SeatsFound(v)
      PROVE  Budget'
  BY <1>0, <1>16 DEF SeatsFound, Cleaned, Goes
<1>17. ASSUME NEW v \in Seats, SeatsGranted(v)
      PROVE  Budget'
  BY <1>0, <1>17 DEF SeatsGranted, Goes
<1>18. ASSUME NEW v \in Seats, SeatsRead(v)
      PROVE  Budget'
  BY <1>0, <1>18 DEF SeatsRead, Goes
<1>19. CASE SweepStarts
  BY <1>0, <1>19 DEF SweepStarts, StartsCleanup, Goes
<1>20. CASE SweepEnds
  BY <1>0, <1>20 DEF SweepEnds, Cleaned, Goes
<1>21. CASE OthersAcquire
  BY <1>21, <1>a DEF OthersAcquire, Free, Budget, BudgetIsExact
<1>22. CASE OthersRelease
  BY <1>22, <1>a DEF OthersRelease, Budget, BudgetIsExact
<1>23. ASSUME NEW k \in Searches, Expires(k)
      PROVE  Budget'
  BY <1>0, <1>23 DEF Expires
<1>24. CASE UNCHANGED vars
  BY <1>0, <1>24 DEF vars
<1> QED
  BY <1>1, <1>2, <1>3, <1>4, <1>5, <1>6, <1>7, <1>8, <1>9, <1>10, <1>11, <1>12, <1>13, <1>14, <1>15, <1>16, <1>17, <1>18, <1>19, <1>20, <1>21, <1>22, <1>23, <1>24
     DEF Next, SearchStep, SeatsStep, CleanupStep

\* Every step keeps hold of the browsers.
LEMMA BrowsersStep == IInv /\ [Next]_vars => Browsers'
<1> SUFFICES ASSUME TypeOK, Places, Browsers, [Next]_vars PROVE Browsers'
  BY DEF IInv
<1> USE SearchAssumption DEF TypeOK, PCs, Places, Registered, Slots, Apart, Own, Listed, Browsers, NoBrowserLost, RegisteredIsOpen, Actors, table_vars, budget_vars, gate_vars, closer_vars, seat_vars
<1>1. ASSUME NEW r \in Searches, SearchEnters(r)
      PROVE  Browsers'
  BY <1>1 DEF SearchEnters, StartsCleanup, Goes
<1>2. ASSUME NEW r \in Searches, Admitted(r)
      PROVE  Browsers'
  BY <1>2 DEF Admitted, Cleaned, Goes
<1>3. ASSUME NEW r \in Searches, FindsBusy(r)
      PROVE  Browsers'
  BY <1>3 DEF FindsBusy, Cleaned, Goes
<1>4. ASSUME NEW r \in Searches, NEW k \in Searches, Evicts(r, k)
      PROVE  Browsers'
  BY <1>4 DEF Evicts, Cleaned, BeginsClose, Goes
<1>5. ASSUME NEW r \in Searches, NEW k \in Searches, Evicted(r, k)
      PROVE  Browsers'
  <2>1. NoBrowserLost'
    BY <1>5 DEF Evicted, EndsClose, Goes, Releases
  <2>2. RegisteredIsOpen'
    BY <1>5 DEF Evicted, EndsClose, Goes, Releases
  <2> QED
    BY <2>1, <2>2
<1>6. ASSUME NEW r \in Searches, Starts(r)
      PROVE  Browsers'
  BY <1>6 DEF Starts, Acquires, Goes
<1>7. ASSUME NEW r \in Searches, FindsNoBrowser(r)
      PROVE  Browsers'
  BY <1>7 DEF FindsNoBrowser, Goes
<1>8. ASSUME NEW r \in Searches, Finds(r)
      PROVE  Browsers'
  BY <1>8 DEF Finds, Goes
<1>9. ASSUME NEW r \in Searches, Fails(r)
      PROVE  Browsers'
  BY <1>9 DEF Fails, Goes
<1>10. ASSUME NEW r \in Searches, Aborted(r)
      PROVE  Browsers'
  <2>1. NoBrowserLost'
    BY <1>10 DEF Aborted, EndsClose, Goes, Releases
  <2>2. RegisteredIsOpen'
    BY <1>10 DEF Aborted, EndsClose, Goes, Releases
  <2> QED
    BY <2>1, <2>2
<1>11. ASSUME NEW a \in Actors, NEW k \in Searches, Reaps(a, k)
      PROVE  Browsers'
  BY <1>11 DEF Reaps, BeginsClose
<1>12. ASSUME NEW a \in Actors, NEW k \in Searches, Reaped(a, k)
      PROVE  Browsers'
  <2>1. NoBrowserLost'
    BY <1>12 DEF Reaped, EndsClose, Releases
  <2>2. RegisteredIsOpen'
    BY <1>12 DEF Reaped, EndsClose, Releases
  <2> QED
    BY <2>1, <2>2
<1>13. ASSUME NEW a \in Actors, NEW k \in Searches, CloseRaises(a, k)
      PROVE  Browsers'
  <2>1. NoBrowserLost'
    BY <1>13 DEF CloseRaises, EndsClose, Goes, Releases
  <2>2. RegisteredIsOpen'
    BY <1>13 DEF CloseRaises, EndsClose, Goes, Releases
  <2> QED
    BY <2>1, <2>2
<1>14. ASSUME NEW v \in Seats, NEW k \in Searches, SeatsArrive(v, k)
      PROVE  Browsers'
  BY <1>14 DEF SeatsArrive, StartsCleanup, Goes
<1>15. ASSUME NEW v \in Seats, SeatsGone(v)
      PROVE  Browsers'
  BY <1>15 DEF SeatsGone, Cleaned, Goes
<1>16. ASSUME NEW v \in Seats, SeatsFound(v)
      PROVE  Browsers'
  BY <1>16 DEF SeatsFound, Cleaned, Goes
<1>17. ASSUME NEW v \in Seats, SeatsGranted(v)
      PROVE  Browsers'
  BY <1>17 DEF SeatsGranted, Goes
<1>18. ASSUME NEW v \in Seats, SeatsRead(v)
      PROVE  Browsers'
  BY <1>18 DEF SeatsRead, Goes
<1>19. CASE SweepStarts
  BY <1>19 DEF SweepStarts, StartsCleanup, Goes
<1>20. CASE SweepEnds
  BY <1>20 DEF SweepEnds, Cleaned, Goes
<1>21. CASE OthersAcquire
  BY <1>21 DEF OthersAcquire
<1>22. CASE OthersRelease
  BY <1>22 DEF OthersRelease
<1>23. ASSUME NEW k \in Searches, Expires(k)
      PROVE  Browsers'
  BY <1>23 DEF Expires
<1>24. CASE UNCHANGED vars
  BY <1>24 DEF vars
<1> QED
  BY <1>1, <1>2, <1>3, <1>4, <1>5, <1>6, <1>7, <1>8, <1>9, <1>10, <1>11, <1>12, <1>13, <1>14, <1>15, <1>16, <1>17, <1>18, <1>19, <1>20, <1>21, <1>22, <1>23, <1>24
     DEF Next, SearchStep, SeatsStep, CleanupStep

-----------------------------------------------------------------------------
\* The inductive invariant holds.
THEOREM SessionsInvariant == SafetySpec => []IInv
<1>1. IInv /\ [Next]_vars => IInv'
  BY TypeStep, PlacesStep, CountsStep, BudgetStep, BrowsersStep DEF IInv
<1> QED
  BY InitIInv, <1>1, PTL DEF SafetySpec

\* Every variable keeps its type; the count of the searches that were let in
\* never falls below zero.
THEOREM SessionsTypeCorrect == SafetySpec => []TypeOK
<1>1. IInv => TypeOK
  BY DEF IInv
<1> QED
  BY SessionsInvariant, <1>1, PTL

\* The sessions and the searches on their way to become one never exceed the
\* limit, whatever happens at the awaits between the check and the entry.
THEOREM SessionsStayBounded == SafetySpec => []SessionsBounded
<1>1. IInv => SessionsBounded
  BY DEF IInv, Counts
<1> QED
  BY SessionsInvariant, <1>1, PTL

\* The budget counts the browsers that hold a slot and stays within its
\* limit, even when two actors close one session.
THEOREM BudgetStaysExact == SafetySpec => []BudgetIsExact
<1>1. IInv => BudgetIsExact
  BY DEF IInv, Budget
<1> QED
  BY SessionsInvariant, <1>1, PTL

\* A slot of the budget is always held by a session that is registered, in
\* the hands of its search or being closed.
THEOREM NoSlotLost == SafetySpec => []NoBrowserLost
<1>1. IInv => NoBrowserLost
  BY DEF IInv, Browsers
<1> QED
  BY SessionsInvariant, <1>1, PTL

\* A session in the table that nobody closes has its browser open: cleanup and
\* eviction take a session out of the table before they close it.
THEOREM RegisteredStayOpen == SafetySpec => []RegisteredIsOpen
<1>1. IInv => RegisteredIsOpen
  BY DEF IInv, Browsers
<1> QED
  BY SessionsInvariant, <1>1, PTL

-----------------------------------------------------------------------------
\* Only a session of a search that has ended is read, or waited for.
Readers ==
    /\ \A k \in Searches : holder[k] # None => pc[k] = "done"
    /\ \A v \in Seats : pc[v] = "waiting" => target[v] \in Searches /\ pc[target[v]] = "done"

\* A search that has ended stays so: its session is read until it is closed.
LEMMA ReadersStep == IInv /\ Readers /\ [Next]_vars => Readers'
<1> SUFFICES ASSUME TypeOK, Registered, Readers, [Next]_vars PROVE Readers'
  BY DEF IInv, Places
<1> USE SearchAssumption
    DEF Readers, TypeOK, Registered, Actors, table_vars, budget_vars, gate_vars, closer_vars, seat_vars
<1>1. ASSUME NEW r \in Searches, SearchStep(r) PROVE Readers'
  <2>1. /\ pc[r] # "done" /\ UNCHANGED <<holder, target>>
        /\ \E label \in PCs \ {"waiting"} : pc' = [pc EXCEPT ![r] = label]
           \/ UNCHANGED pc
    BY <1>1
       DEF SearchStep, SearchEnters, StartsCleanup, Admitted, Cleaned, FindsBusy, Starts,
           FindsNoBrowser, Finds, Fails, Aborted, Evicts, Evicted, EndsClose, Goes, PCs
  <2> QED
    BY <2>1
<1>2. ASSUME NEW v \in Seats, SeatsStep(v) PROVE Readers'
  <2>1. CASE SeatsGone(v)
    BY <2>1 DEF SeatsGone, Cleaned, Goes
  <2>2. CASE SeatsFound(v)
    BY <2>2 DEF SeatsFound, Cleaned, Goes
  <2>3. CASE SeatsRead(v)
    BY <2>3 DEF SeatsRead, Goes
  <2> QED
    BY <1>2, <2>1, <2>2, <2>3 DEF SeatsStep
<1>3. ASSUME NEW v \in Seats, SeatsGranted(v) PROVE Readers'
  BY <1>3 DEF SeatsGranted, Goes
<1>4. ASSUME NEW v \in Seats, NEW k \in Searches, SeatsArrive(v, k) PROVE Readers'
  BY <1>4 DEF SeatsArrive, StartsCleanup, Goes
<1>5. ASSUME NEW a \in Actors, CleanupStep(a) PROVE Readers'
  BY <1>5 DEF CleanupStep, Reaps, Reaped, CloseRaises, EndsClose, Goes
<1>6. CASE SweepStarts \/ SweepEnds
  BY <1>6 DEF SweepStarts, SweepEnds, StartsCleanup, Cleaned, Goes
<1>7. CASE OthersAcquire \/ OthersRelease \/ (\E k \in Searches : Expires(k)) \/ UNCHANGED vars
  BY <1>7 DEF OthersAcquire, OthersRelease, Expires, vars
<1> QED
  BY <1>1, <1>2, <1>3, <1>4, <1>5, <1>6, <1>7 DEF Next

\* Nobody closes a session while its seat map is read: cleanup and eviction
\* look at its lock, and a search that fails was never in the table.
THEOREM ReadersUndisturbed == SafetySpec => NotClosedUnderReader
<1>1. Init => Readers
  BY SearchAssumption DEF Init, Readers, Actors
<1>2. ASSUME IInv, Readers, Next, NEW k \in Searches, browser[k] = "open", browser'[k] = "closing"
      PROVE  holder[k] = None
  <2>1. CASE \E a \in Actors : Reaps(a, k) \/ Evicts(a, k)
    BY <2>1 DEF Reaps, Reapable, Evicts, Unlocked
  <2>2. CASE Fails(k)
    BY <1>2, <2>2 DEF Fails, Readers
  <2>3. (\E a \in Actors : Reaps(a, k) \/ Evicts(a, k)) \/ Fails(k)
    <3>1. browser \in [Searches -> {"none", "open", "closing", "closed"}]
      BY <1>2 DEF IInv, TypeOK
    <3>2. ASSUME NEW r \in Searches, SearchStep(r) PROVE Evicts(r, k) \/ Fails(k)
      BY <1>2, <3>1, <3>2
         DEF SearchStep, SearchEnters, Admitted, FindsBusy, Starts, FindsNoBrowser, Finds,
             Fails, Aborted, Evicts, Evicted, EndsClose, BeginsClose
    <3>3. ASSUME NEW a \in Actors, CleanupStep(a) PROVE Reaps(a, k)
      BY <1>2, <3>1, <3>3 DEF CleanupStep, Reaps, Reaped, CloseRaises, EndsClose, BeginsClose
    <3>4. UNCHANGED browser \/ (\E r \in Searches : SearchStep(r)) \/ (\E a \in Actors : CleanupStep(a))
      BY <1>2
         DEF Next, SeatsStep, SeatsGone, SeatsFound, SeatsRead, SeatsGranted, SeatsArrive,
             SweepStarts, SweepEnds, OthersAcquire, OthersRelease, Expires
    <3> QED
      BY <1>2, <3>2, <3>3, <3>4 DEF Actors
  <2> QED
    BY <2>1, <2>2, <2>3
<1>3. IInv /\ Readers /\ [Next]_vars
      => [\A k \in Searches : browser[k] = "open" /\ browser'[k] = "closing" => holder[k] = None]_vars
  BY <1>2
<1> QED
  BY <1>1, <1>3, ReadersStep, SessionsInvariant, PTL DEF SafetySpec, NotClosedUnderReader
=============================================================================
