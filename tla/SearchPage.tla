----------------------------- MODULE SearchPage -----------------------------
(***************************************************************************)
(* The search page of the React front end                                  *)
(* (src/frontend/src/pages/Search.tsx): the query form, the result of the  *)
(* last search with its filters, the seat dialog of one of its buses, and  *)
(* the plan that the page hands to the travel desk.                        *)
(*                                                                         *)
(* The form is edited freely while an older result is shown, a search may  *)
(* fail or be answered for other buses, and a seat map is read again while *)
(* its seats are being chosen.                                             *)
(***************************************************************************)
EXTENDS Integers, FiniteSets

CONSTANTS
    Trips,     \* a route and a date
    MaxCount,  \* seats that may be asked for: four
    Buses,     \* buses the provider may list
    Seats,     \* the seats of a bus
    Anything   \* a filter that is not set, a result or a dialog that is not there

VARIABLES
    query,    \* the form
    search,   \* the search under way, or the last one: its query and status
    result,   \* the answer that is kept
    filters,  \* the filters of the result
    dialog,   \* the seat dialog: its bus, the map it shows, the seats chosen
    plan      \* the plan just handed to the travel desk

pageVars == <<query, search, result, filters, dialog, plan>>

Queries == [trip : Trips, count : 1 .. MaxCount]

(***************************************************************************)
(* The filters: "type" stands for the bus type and the departure time,     *)
(* picked from fixed lists; "operator" for the operator and the boarding   *)
(* point, picked from what the result lists; and the highest fare.         *)
(***************************************************************************)
DEFAULT_FARE == 100000
defaults == [type |-> Anything, operator |-> Anything, fare |-> DEFAULT_FARE]

Operators == {o.operator : o \in Buses}
Fares == {o.fare : o \in Buses} \cup {0, DEFAULT_FARE}

Searches == [query : Queries, status : {"pending", "error", "success"}]
Results == [query : Queries, offers : SUBSET Buses, booking : BOOLEAN]
FilterSets ==
    [type : {"AC", "Non AC", Anything}, operator : Operators \cup {Anything}, fare : Fares]
Dialogs == [offer : Buses, status : {"pending", "error", "success"},
            free : SUBSET Seats, chosen : SUBSET Seats]
PlanRecords ==
    [query : Queries, offer : Buses, seats : SUBSET Seats, intent : {"watch", "prepare"}]

ASSUME PageAssumption ==
    /\ MaxCount \in Nat \ {0}
    /\ \A o \in Buses : o.type \in {"AC", "Non AC", "Other"} /\ o.fare \in Nat /\ o.left \in Nat
    /\ Anything \notin Searches

PageTypeOK ==
    /\ query \in Queries
    /\ search \in {Anything} \cup Searches
    /\ result \in {Anything} \cup Results
    /\ filters \in FilterSets
    /\ dialog \in {Anything} \cup Dialogs
    /\ plan \in {Anything} \cup PlanRecords

PageInit ==
    /\ query \in [trip : Trips, count : {1}]
    /\ search = Anything /\ result = Anything
    /\ filters = defaults
    /\ dialog = Anything /\ plan = Anything

Pending == search # Anything /\ search.status = "pending"
ResultShown == result # Anything /\ ~Pending

\* The page can be used: neither its seat dialog nor a dialog of the desk is open.
Open == dialog = Anything /\ plan = Anything

filtered ==
    {o \in result.offers :
        /\ filters.type \in {Anything, o.type}
        /\ filters.operator \in {Anything, o.operator}
        /\ o.fare <= filters.fare}

\* The card of a bus offers its seats unless the provider or the count is in the way.
Selectable(offer, asked) == ~offer.note /\ offer.left >= asked.count

(***************************************************************************)
(* Searching.                                                              *)
(***************************************************************************)
EditQuery ==
    /\ Open
    /\ \E q \in Queries :
        /\ q.trip = query.trip \/ q.count = query.count
        /\ query' = q
    /\ UNCHANGED <<search, result, filters, dialog, plan>>

run(input) ==
    /\ ~Pending
    /\ query' = input
    /\ dialog' = Anything
    /\ search' = [query |-> input, status |-> "pending"]
    /\ UNCHANGED <<result, filters, plan>>

SubmitSearch == Open /\ run(query)

\* The date strip searches for the result's route and count, whatever the form says.
SearchDate ==
    /\ Open /\ ResultShown
    /\ \E trip \in Trips : run([result.query EXCEPT !.trip = trip])

\* A destination card stands where no result is shown.
SearchDestination ==
    /\ Open /\ result = Anything
    /\ \E trip \in Trips : run([query EXCEPT !.trip = trip])

SearchSucceeds ==
    /\ Pending
    /\ \E offers \in SUBSET Buses, booking \in BOOLEAN :
        result' = [query |-> search.query, offers |-> offers, booking |-> booking]
    /\ filters' = defaults
    /\ search' = [search EXCEPT !.status = "success"]
    /\ UNCHANGED <<query, dialog, plan>>

SearchFailsMutant ==
    /\ Pending
    /\ search' = [search EXCEPT !.status = "error"]
    /\ UNCHANGED <<query, result, filters, dialog, plan>>

SearchFails ==
    /\ Pending
    /\ result' = Anything
    /\ search' = [search EXCEPT !.status = "error"]
    /\ UNCHANGED <<query, filters, dialog, plan>>

(***************************************************************************)
(* The result.                                                             *)
(***************************************************************************)
Filter ==
    /\ Open /\ ResultShown
    /\ \/ \E type \in {"AC", "Non AC"} :
            filters' = [filters EXCEPT !.type = IF @ = type THEN Anything ELSE type]
       \/ \E operator \in {Anything} \cup {o.operator : o \in result.offers} :
            filters' = [filters EXCEPT !.operator = operator]
       \/ \E fare \in {0} \cup {o.fare : o \in result.offers} :
            filters' = [filters EXCEPT !.fare = fare]
       \/ filters' = defaults
    /\ UNCHANGED <<query, search, result, dialog, plan>>

Watch ==
    /\ Open /\ ResultShown
    /\ \E o \in filtered :
        plan' = [query |-> result.query, offer |-> o, seats |-> {}, intent |-> "watch"]
    /\ UNCHANGED <<query, search, result, filters, dialog>>

\* The map of a bus that was looked at before may be shown at once.
OpenSeats ==
    /\ Open /\ ResultShown
    /\ \E o \in filtered :
        /\ Selectable(o, result.query)
        /\ dialog' = [offer |-> o, status |-> "pending", free |-> {}, chosen |-> {}]
    /\ UNCHANGED <<query, search, result, filters, plan>>

(***************************************************************************)
(* The seat dialog.  The map is read when it opens and again after 15      *)
(* seconds or a lost connection; the seats chosen before stay chosen.      *)
(***************************************************************************)
MapArrives ==
    /\ dialog # Anything
    /\ \E free \in SUBSET Seats :
        dialog' = [dialog EXCEPT !.status = "success", !.free = free]
    /\ UNCHANGED <<query, search, result, filters, plan>>

MapFails ==
    /\ dialog # Anything
    /\ dialog' = [dialog EXCEPT !.status = "error"]
    /\ UNCHANGED <<query, search, result, filters, plan>>

ToggleSeat ==
    /\ dialog # Anything /\ dialog.status = "success"
    /\ \E s \in dialog.free :
        \/ s \in dialog.chosen /\ dialog' = [dialog EXCEPT !.chosen = @ \ {s}]
        \/ /\ s \notin dialog.chosen
           /\ Cardinality(dialog.chosen) < result.query.count
           /\ dialog' = [dialog EXCEPT !.chosen = @ \cup {s}]
    /\ UNCHANGED <<query, search, result, filters, plan>>

proceed(seats) ==
    /\ dialog' = Anything
    /\ plan' = [query |-> result.query, offer |-> dialog.offer, seats |-> seats,
                intent |-> IF seats # {} /\ result.booking THEN "prepare" ELSE "watch"]
    /\ UNCHANGED <<query, search, result, filters>>

ContinueWithSeats ==
    /\ dialog # Anything /\ dialog.status = "success"
    /\ Cardinality(dialog.chosen) = result.query.count
    /\ proceed(dialog.chosen)

WatchWithoutSeats ==
    /\ dialog # Anything /\ dialog.status # "pending"
    /\ proceed({})

CloseSeats ==
    /\ dialog # Anything
    /\ dialog' = Anything
    /\ UNCHANGED <<query, search, result, filters, plan>>

\* The desk's dialog is done with and the page can be used again.
PlanDone ==
    /\ plan # Anything
    /\ plan' = Anything
    /\ UNCHANGED <<query, search, result, filters, dialog>>

\* Another page is opened: this one forgets everything, late answers included.
LeavePage ==
    /\ Open
    /\ \E trip \in Trips : query' = [trip |-> trip, count |-> 1]
    /\ search' = Anything /\ result' = Anything /\ filters' = defaults
    /\ UNCHANGED <<dialog, plan>>

PageNext ==
    \/ EditQuery \/ SubmitSearch \/ SearchDate \/ SearchDestination
    \/ SearchSucceeds \/ SearchFails
    \/ Filter \/ Watch \/ OpenSeats
    \/ MapArrives \/ MapFails \/ ToggleSeat \/ ContinueWithSeats \/ WatchWithoutSeats
    \/ CloseSeats \/ PlanDone \/ LeavePage

PageSpec == PageInit /\ [][PageNext]_pageVars

(***************************************************************************)
(* What the page shows answers the last search it ran, never an older one  *)
(* or the form as edited since (onSuccess, onError).                       *)
(***************************************************************************)
ShownAnswersAsked == ResultShown => result.query = search.query

(***************************************************************************)
(* A filter that is set can be seen to be set: the operator is one that    *)
(* the result lists, not one left over from an older result.               *)
(***************************************************************************)
FiltersOfResult ==
    ResultShown =>
        filters.operator \in {Anything} \cup {o.operator : o \in result.offers}

(***************************************************************************)
(* The plan says what was on the screen: its query is the one the search   *)
(* was run with, its bus one the server listed for that query, its seats   *)
(* are as many as that query asked for or none, and a preparation is only  *)
(* planned for seats of a bus that has that many and lets them be chosen.  *)
(***************************************************************************)
PlanFits ==
    plan # Anything =>
        /\ plan.query = search.query /\ plan.offer \in result.offers
        /\ Cardinality(plan.seats) \in {0, plan.query.count}
        /\ plan.seats # {} => Selectable(plan.offer, plan.query)
        /\ plan.intent = "prepare" => plan.seats # {}

PlanIsAsShown == ShownAnswersAsked /\ FiltersOfResult /\ PlanFits
=============================================================================
