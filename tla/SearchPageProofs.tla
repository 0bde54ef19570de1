-------------------------- MODULE SearchPageProofs --------------------------
(***************************************************************************)
(* Proofs about module SearchPage, for every set of trips, buses and       *)
(* seats.                                                                  *)
(***************************************************************************)
EXTENDS SearchPage, FiniteSetTheorems, TLAPS

(***************************************************************************)
(* A plan and a seat dialog stand on the result that is shown, and that    *)
(* result answers the last search: no search can be run and no result can  *)
(* change while one of them is open.                                       *)
(***************************************************************************)
ResultSearched == result # Anything => search # Anything

DialogStands ==
    dialog # Anything =>
        /\ ResultShown /\ plan = Anything
        /\ dialog.offer \in result.offers /\ Selectable(dialog.offer, result.query)

PlanStands == plan # Anything => ResultShown

PageInv ==
    /\ PageTypeOK /\ ResultSearched /\ DialogStands /\ PlanStands
    /\ ShownAnswersAsked /\ FiltersOfResult /\ PlanFits

\* The filters a result starts with are filters (defaults).
LEMMA DefaultsType == defaults \in FilterSets /\ defaults.operator = Anything
BY DEF defaults, FilterSets, Fares

\* A form starts with one seat, which may be asked for.
LEMMA OneSeat == 1 \in 1 .. MaxCount
<1>1. MaxCount \in Nat /\ MaxCount # 0
  BY PageAssumption
<1> QED BY <1>1

\* The initial state has the invariant.
LEMMA PageInvInit == PageInit => PageInv
<1> SUFFICES ASSUME PageInit PROVE PageInv
  OBVIOUS
<1>1. query \in Queries
  <2> QED BY OneSeat DEF PageInit, Queries
<1>2. filters \in FilterSets
  BY DefaultsType DEF PageInit
<1>3. search = Anything /\ result = Anything /\ dialog = Anything /\ plan = Anything
  BY DEF PageInit
<1>4. PageTypeOK
  BY <1>1, <1>2, <1>3 DEF PageTypeOK
<1> QED BY <1>3, <1>4 DEF PageInv, ResultSearched, DialogStands, PlanStands,
           ShownAnswersAsked, FiltersOfResult, PlanFits, ResultShown

\* A search is run: what was shown no longer is (run()).
LEMMA RunKeeps ==
    ASSUME PageInv, plan = Anything, NEW input \in Queries, run(input)
    PROVE  PageInv'
<1>1. /\ query' = input /\ dialog' = Anything
      /\ search' = [query |-> input, status |-> "pending"]
      /\ UNCHANGED <<result, filters, plan>>
  BY DEF run
<1>2. search' \in Searches /\ search'.status = "pending"
  BY <1>1 DEF Searches
<1>3. search' # Anything
  BY <1>2, PageAssumption
<1>4. PageTypeOK'
  BY <1>1, <1>2 DEF PageInv, PageTypeOK
<1>5. ~ResultShown'
  BY <1>2, <1>3 DEF ResultShown, Pending
<1> QED BY <1>1, <1>3, <1>4, <1>5 DEF PageInv, ResultSearched, DialogStands, PlanStands,
           ShownAnswersAsked, FiltersOfResult, PlanFits

\* A step that keeps search and result, and opens no plan, keeps what stands on them.
LEMMA PageFrame ==
    ASSUME PageInv, UNCHANGED <<search, result>>, PageTypeOK',
           plan' = plan \/ plan' = Anything,
           ResultShown => filters'.operator \in {Anything} \cup {o.operator : o \in result.offers},
           dialog' # Anything =>
               /\ ResultShown /\ plan' = Anything
               /\ dialog'.offer \in result.offers /\ Selectable(dialog'.offer, result.query)
    PROVE  PageInv'
<1>1. (ResultShown' <=> ResultShown) /\ (result' = result) /\ (search' = search)
  BY DEF ResultShown, Pending
<1> QED BY <1>1 DEF PageInv, ResultSearched, DialogStands, PlanStands, ShownAnswersAsked,
           FiltersOfResult, PlanFits, Selectable

\* A plan that fits the result is handed over, and the seat dialog is gone.
LEMMA PlanKeeps ==
    ASSUME PageInv, UNCHANGED <<query, search, result, filters>>, dialog' = Anything,
           ResultShown, plan' \in PlanRecords,
           plan'.query = result.query, plan'.offer \in result.offers,
           Cardinality(plan'.seats) \in {0, result.query.count},
           plan'.seats # {} => Selectable(plan'.offer, result.query),
           plan'.intent = "prepare" => plan'.seats # {}
    PROVE  PageInv'
<1>1. (ResultShown' <=> ResultShown) /\ (result' = result) /\ (search' = search)
      /\ filters' = filters
  BY DEF ResultShown, Pending
<1>2. PageTypeOK'
  BY DEF PageInv, PageTypeOK
<1>3. result.query = search.query
  BY DEF PageInv, ShownAnswersAsked
<1>4. PlanFits'
  BY <1>1, <1>3 DEF PlanFits, Selectable
<1> QED BY <1>1, <1>2, <1>4 DEF PageInv, ResultSearched, DialogStands, PlanStands,
           ShownAnswersAsked, FiltersOfResult

\* A plan from the seat dialog fits the result it stands on (proceed()).
LEMMA ProceedKeeps ==
    ASSUME PageInv, dialog # Anything, NEW seats \in SUBSET Seats, proceed(seats),
           seats = {} \/ Cardinality(seats) = result.query.count
    PROVE  PageInv'
<1> DEFINE intent == IF seats # {} /\ result.booking THEN "prepare" ELSE "watch"
           p == [query |-> result.query, offer |-> dialog.offer, seats |-> seats,
                 intent |-> intent]
<1>1. /\ ResultShown /\ dialog.offer \in result.offers /\ Selectable(dialog.offer, result.query)
      /\ dialog \in Dialogs
  BY DEF PageInv, DialogStands, PageTypeOK
<1>2. result \in Results
  BY <1>1 DEF PageInv, PageTypeOK, ResultShown
<1>3. plan' = p /\ dialog' = Anything /\ UNCHANGED <<query, search, result, filters>>
  BY DEF proceed
<1>4. p \in PlanRecords
  BY <1>1, <1>2 DEF PlanRecords, Results, Dialogs
<1>5. p.query = result.query /\ p.offer = dialog.offer /\ p.seats = seats /\ p.intent = intent
  OBVIOUS
<1>6. intent = "prepare" => seats # {}
  OBVIOUS
<1> HIDE DEF p, intent
<1>7. Cardinality(seats) \in {0, result.query.count}
  BY FS_EmptySet
<1> QED BY <1>1, <1>3, <1>4, <1>5, <1>6, <1>7, PlanKeeps

\* Every step keeps the invariant.
LEMMA PageInvNext == PageInv /\ [PageNext]_pageVars => PageInv'
<1> SUFFICES ASSUME PageInv, [PageNext]_pageVars PROVE PageInv'
  OBVIOUS
<1>0. /\ PageTypeOK /\ ResultSearched /\ DialogStands /\ PlanStands
      /\ ShownAnswersAsked /\ FiltersOfResult /\ PlanFits
      /\ (search # Anything => search \in Searches)
      /\ (result # Anything => result \in Results /\ result.query \in Queries)
      /\ (dialog # Anything => dialog \in Dialogs)
  BY DEF PageInv, PageTypeOK, Results
<1>1. CASE EditQuery
  <2>1. PageTypeOK'
    BY <1>0, <1>1 DEF EditQuery, PageTypeOK
  <2> QED BY <1>0, <1>1, <2>1, PageFrame DEF EditQuery, DialogStands, FiltersOfResult
<1>2. CASE SubmitSearch
  <2>1. query \in Queries
    BY <1>0 DEF PageTypeOK
  <2> QED BY <1>2, <2>1, RunKeeps DEF SubmitSearch, Open
<1>3. CASE SearchDate
  <2>1. PICK trip \in Trips : run([result.query EXCEPT !.trip = trip])
    BY <1>3 DEF SearchDate
  <2>2. result.query \in Queries
    BY <1>0, <1>3 DEF SearchDate, ResultShown
  <2>3. [result.query EXCEPT !.trip = trip] \in Queries
    BY <2>2 DEF Queries
  <2> QED BY <1>3, <2>1, <2>3, RunKeeps DEF SearchDate, Open
<1>4. CASE SearchDestination
  <2>1. PICK trip \in Trips : run([query EXCEPT !.trip = trip])
    BY <1>4 DEF SearchDestination
  <2>2. [query EXCEPT !.trip = trip] \in Queries
    BY <1>0 DEF PageTypeOK, Queries
  <2> QED BY <1>4, <2>1, <2>2, RunKeeps DEF SearchDestination, Open
<1>5. CASE SearchSucceeds
  <2>1. PICK offers \in SUBSET Buses, booking \in BOOLEAN :
           result' = [query |-> search.query, offers |-> offers, booking |-> booking]
    BY <1>5 DEF SearchSucceeds
  <2>2. search \in Searches /\ search # Anything
    BY <1>0, <1>5 DEF SearchSucceeds, Pending
  <2>3. /\ search' = [search EXCEPT !.status = "success"] /\ filters' = defaults
        /\ UNCHANGED <<query, dialog, plan>>
    BY <1>5 DEF SearchSucceeds
  <2>4. search' \in Searches /\ search'.query = search.query /\ search.query \in Queries
    BY <2>2, <2>3 DEF Searches
  <2>5. result' \in Results /\ result'.query = search'.query
    BY <2>1, <2>4 DEF Results
  <2>6. PageTypeOK'
    BY <1>0, <2>3, <2>4, <2>5, DefaultsType DEF PageTypeOK
  <2>7. dialog = Anything /\ plan = Anything
    BY <1>0, <1>5 DEF SearchSucceeds, DialogStands, PlanStands, ResultShown
  <2>8. search' # Anything
    BY <2>4, PageAssumption
  <2> QED BY <2>3, <2>5, <2>6, <2>7, <2>8, DefaultsType DEF PageInv, ResultSearched,
             DialogStands, PlanStands, ShownAnswersAsked, FiltersOfResult, PlanFits
<1>6. CASE SearchFails
  <2>1. search \in Searches
    BY <1>0, <1>6 DEF SearchFails, Pending
  <2>2. /\ result' = Anything /\ search' = [search EXCEPT !.status = "error"]
        /\ UNCHANGED <<query, filters, dialog, plan>>
    BY <1>6 DEF SearchFails
  <2>3. search' \in Searches
    BY <2>1, <2>2 DEF Searches
  <2>4. dialog = Anything /\ plan = Anything
    BY <1>0, <1>6 DEF SearchFails, DialogStands, PlanStands, ResultShown
  <2>5. PageTypeOK' /\ ~ResultShown'
    BY <1>0, <2>2, <2>3 DEF PageTypeOK, ResultShown
  <2> QED BY <2>2, <2>4, <2>5 DEF PageInv, ResultSearched, DialogStands, PlanStands,
             ShownAnswersAsked, FiltersOfResult, PlanFits
<1>7. CASE Filter
  <2>1. dialog = Anything /\ plan = Anything /\ result \in Results
    BY <1>0, <1>7 DEF Filter, Open, ResultShown
  <2>2. filters \in FilterSets /\ result.offers \subseteq Buses
    BY <1>0, <2>1 DEF PageTypeOK, Results
  <2>3. /\ filters' \in FilterSets
        /\ filters'.operator \in {filters.operator, Anything} \cup {o.operator : o \in result.offers}
    <3>1. CASE \E type \in {"AC", "Non AC"} :
                  filters' = [filters EXCEPT !.type = IF @ = type THEN Anything ELSE type]
      BY <2>2, <3>1 DEF FilterSets
    <3>2. CASE \E operator \in {Anything} \cup {o.operator : o \in result.offers} :
                  filters' = [filters EXCEPT !.operator = operator]
      <4>1. PICK operator \in {Anything} \cup {o.operator : o \in result.offers} :
               filters' = [filters EXCEPT !.operator = operator]
        BY <3>2
      <4>2. operator \in Operators \cup {Anything}
        BY <2>2 DEF Operators
      <4> QED BY <2>2, <4>1, <4>2 DEF FilterSets
    <3>3. CASE \E fare \in {0} \cup {o.fare : o \in result.offers} :
                  filters' = [filters EXCEPT !.fare = fare]
      <4>1. PICK fare \in {0} \cup {o.fare : o \in result.offers} :
               filters' = [filters EXCEPT !.fare = fare]
        BY <3>3
      <4>2. fare \in Fares
        BY <2>2 DEF Fares
      <4> QED BY <2>2, <4>1, <4>2 DEF FilterSets
    <3>4. CASE filters' = defaults
      BY <3>4, DefaultsType
    <3> QED BY <1>7, <3>1, <3>2, <3>3, <3>4 DEF Filter
  <2>4. UNCHANGED <<query, search, result, dialog, plan>>
    BY <1>7 DEF Filter
  <2>5. PageTypeOK'
    BY <1>0, <2>3, <2>4 DEF PageTypeOK
  <2> QED BY <1>0, <2>1, <2>3, <2>4, <2>5, PageFrame DEF FiltersOfResult
<1>8. CASE Watch
  <2>1. PICK o \in filtered :
           plan' = [query |-> result.query, offer |-> o, seats |-> {}, intent |-> "watch"]
    BY <1>8 DEF Watch
  <2>2. /\ UNCHANGED <<query, search, result, filters, dialog>>
        /\ dialog = Anything /\ ResultShown /\ result \in Results
    BY <1>0, <1>8 DEF Watch, Open, ResultShown
  <2>3. o \in result.offers /\ o \in Buses /\ result.query \in Queries
    BY <2>2 DEF filtered, Results
  <2>4. plan' \in PlanRecords
    BY <2>1, <2>3 DEF PlanRecords
  <2>5. /\ plan'.query = result.query /\ plan'.offer = o /\ plan'.seats = {}
        /\ plan'.intent = "watch" /\ Cardinality(plan'.seats) = 0
    BY <2>1, FS_EmptySet
  <2> QED BY <2>2, <2>3, <2>4, <2>5, PlanKeeps
<1>9. CASE OpenSeats
  <2>1. PICK o \in filtered :
           /\ Selectable(o, result.query)
           /\ dialog' = [offer |-> o, status |-> "pending", free |-> {}, chosen |-> {}]
    BY <1>9 DEF OpenSeats
  <2>2. /\ UNCHANGED <<query, search, result, filters, plan>>
        /\ plan = Anything /\ ResultShown /\ result \in Results
    BY <1>0, <1>9 DEF OpenSeats, Open, ResultShown
  <2>3. o \in result.offers /\ o \in Buses
    BY <2>2 DEF filtered, Results
  <2>4. dialog' \in Dialogs /\ dialog'.offer = o
    BY <2>1, <2>3 DEF Dialogs
  <2>5. PageTypeOK'
    BY <1>0, <2>2, <2>4 DEF PageTypeOK
  <2> QED BY <1>0, <2>1, <2>2, <2>3, <2>4, <2>5, PageFrame DEF FiltersOfResult
<1>10. CASE MapArrives \/ MapFails \/ ToggleSeat
  <2>1. /\ dialog # Anything /\ dialog \in Dialogs
        /\ UNCHANGED <<query, search, result, filters, plan>>
    BY <1>0, <1>10 DEF MapArrives, MapFails, ToggleSeat
  <2>2. dialog' \in Dialogs /\ dialog'.offer = dialog.offer
    <3>1. CASE MapArrives
      BY <2>1, <3>1 DEF MapArrives, Dialogs
    <3>2. CASE MapFails
      BY <2>1, <3>2 DEF MapFails, Dialogs
    <3>3. CASE ToggleSeat
      <4>1. PICK s \in dialog.free :
               \/ dialog' = [dialog EXCEPT !.chosen = @ \ {s}]
               \/ dialog' = [dialog EXCEPT !.chosen = @ \cup {s}]
        BY <3>3 DEF ToggleSeat
      <4>2. s \in Seats /\ dialog.chosen \subseteq Seats
        BY <2>1 DEF Dialogs
      <4> QED BY <2>1, <4>1, <4>2 DEF Dialogs
    <3> QED BY <1>10, <3>1, <3>2, <3>3
  <2>3. PageTypeOK'
    BY <1>0, <2>1, <2>2 DEF PageTypeOK
  <2> QED BY <1>0, <2>1, <2>2, <2>3, PageFrame DEF DialogStands, FiltersOfResult
<1>11. CASE ContinueWithSeats
  <2>1. /\ dialog # Anything /\ proceed(dialog.chosen)
        /\ Cardinality(dialog.chosen) = result.query.count
    BY <1>11 DEF ContinueWithSeats
  <2>2. dialog.chosen \in SUBSET Seats
    BY <1>0, <2>1 DEF Dialogs
  <2> QED BY <2>1, <2>2, ProceedKeeps
<1>12. CASE WatchWithoutSeats
  BY <1>12, ProceedKeeps DEF WatchWithoutSeats
<1>13. CASE CloseSeats
  <2>1. PageTypeOK'
    BY <1>0, <1>13 DEF CloseSeats, PageTypeOK
  <2> QED BY <1>0, <1>13, <2>1, PageFrame DEF CloseSeats, FiltersOfResult
<1>14. CASE PlanDone
  <2>1. PageTypeOK'
    BY <1>0, <1>14 DEF PlanDone, PageTypeOK
  <2> QED BY <1>0, <1>14, <2>1, PageFrame DEF PlanDone, DialogStands, FiltersOfResult
<1>15. CASE LeavePage
  <2>1. PICK trip \in Trips : query' = [trip |-> trip, count |-> 1]
    BY <1>15 DEF LeavePage
  <2>2. query' \in Queries
    BY <2>1, OneSeat DEF Queries
  <2>3. /\ search' = Anything /\ result' = Anything /\ filters' = defaults
        /\ dialog' = Anything /\ plan' = Anything
    BY <1>15 DEF LeavePage, Open
  <2>4. PageTypeOK' /\ ~ResultShown'
    BY <2>2, <2>3, DefaultsType DEF PageTypeOK, ResultShown
  <2> QED BY <2>3, <2>4 DEF PageInv, ResultSearched, DialogStands, PlanStands,
             ShownAnswersAsked, FiltersOfResult, PlanFits
<1>16. CASE UNCHANGED pageVars
  BY <1>0, <1>16 DEF pageVars, PageInv, PageTypeOK, ResultSearched, DialogStands, PlanStands,
     ShownAnswersAsked, FiltersOfResult, PlanFits, ResultShown, Pending, Selectable
<1> QED BY <1>1, <1>2, <1>3, <1>4, <1>5, <1>6, <1>7, <1>8, <1>9, <1>10, <1>11, <1>12, <1>13,
           <1>14, <1>15, <1>16 DEF PageNext

(***************************************************************************)
(* Type correctness of the search page (Search, Seats).                    *)
(***************************************************************************)
THEOREM PageTypes == PageSpec => []PageTypeOK
<1>1. PageInv => PageTypeOK
  BY DEF PageInv
<1> QED BY <1>1, PageInvInit, PageInvNext, PTL DEF PageSpec

(***************************************************************************)
(* The plan says what was on the screen, and the screen answers the search *)
(* that was run, for every set of buses and seats (Search, proceed()).     *)
(***************************************************************************)
THEOREM PlanAsShown == PageSpec => []PlanIsAsShown
<1>1. PageInv => PlanIsAsShown
  BY DEF PageInv, PlanIsAsShown
<1> QED BY <1>1, PageInvInit, PageInvNext, PTL DEF PageSpec
=============================================================================
