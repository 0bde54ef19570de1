---------------------------- MODULE WebsiteProofs ----------------------------
(***************************************************************************)
(* Theorems about the last of the four modules of the React front end,     *)
(* ProviderView, and about the four together as MCWebsite composes them:   *)
(* what was proved of each holds in the composition.                       *)
(***************************************************************************)
EXTENDS MCWebsite, SubmissionProofs, SearchPageProofs, TravelDeskProofs

-----------------------------------------------------------------------------
(* ProviderView, for every number of versions of the provider's page.      *)

(***************************************************************************)
(* The invariant: a view that is closed has nothing under way and shows    *)
(* nothing, a read that is answered has a screenshot, and the only object  *)
(* URL is that of the screenshot on the screen.                            *)
(***************************************************************************)
ClosedRests ==
    ~view => chain = "off" /\ acting = "idle" /\ image = NoPage
             /\ \A source \in Sources : loads[source] = NoLoad

AnswersHavePages ==
    \A source \in Sources : loads[source].at = "answered" => loads[source].page \in Pages

ViewInv == ViewTypeOK /\ ClosedRests /\ AnswersHavePages /\ UrlsFreed

\* The initial state has the invariant.
LEMMA ViewInvInit == ViewInit => ViewInv
<1> SUFFICES ASSUME ViewInit PROVE ViewInv
  OBVIOUS
<1>1. 0 \in Pages
  BY ViewAssumption DEF Pages
<1>2. loads \in [Sources -> Loads] /\ \A source \in Sources : loads[source] = NoLoad
  BY DEF ViewInit, Loads, NoLoad
<1>3. NoLoad.at # "answered"
  BY DEF NoLoad
<1>4. link \in {"none", "journey", "pay"} /\ session \in BOOLEAN /\ signed \in BOOLEAN
  BY DEF ViewInit
<1>5. /\ page = 0 /\ known = "unread" /\ read = "idle" /\ opened = FALSE /\ action = FALSE
      /\ view = FALSE /\ chain = "off" /\ acting = "idle" /\ late = FALSE
      /\ image = NoPage /\ urls = 0
  BY DEF ViewInit
<1>6. ViewTypeOK
  <2>1. opened \in BOOLEAN /\ action \in BOOLEAN /\ view \in BOOLEAN /\ late \in BOOLEAN
    BY <1>5
  <2>2. urls \in Int
    BY <1>5
  <2> QED BY <1>1, <1>2, <1>4, <1>5, <2>1, <2>2, Zenon DEF ViewTypeOK
<1> QED BY <1>2, <1>3, <1>5, <1>6 DEF ViewInv, ClosedRests, AnswersHavePages, UrlsFreed

(***************************************************************************)
(* What the parts of the steps do to the view's state.                     *)
(***************************************************************************)
GestureTypeOK ==
    /\ view \in BOOLEAN
    /\ chain \in {"due", "reading", "off"} /\ acting \in {"idle", "sent", "reloading"}
    /\ loads \in [Sources -> Loads] /\ late \in BOOLEAN
    /\ image \in Pages \cup {NoPage}
    /\ urls \in Int

ShownInv == GestureTypeOK /\ ClosedRests /\ AnswersHavePages /\ UrlsFreed

\* The view's state stays as it is.
LEMMA StaysKeeps ==
    ASSUME ShownInv, ViewStays
    PROVE  ShownInv'
BY DEF ShownInv, ViewStays, gesture_vars, shown_vars, GestureTypeOK, ClosedRests,
       AnswersHavePages, UrlsFreed

\* setProvider(true): the view starts with no screenshot.
LEMMA OpensKeeps ==
    ASSUME ShownInv, ViewOpens
    PROVE  ShownInv'
<1>1. CASE view
  BY <1>1, StaysKeeps DEF ViewOpens
<1>2. CASE ~view
  <2>1. /\ view' = TRUE /\ chain' = "due" /\ acting' = "idle" /\ image' = NoPage
        /\ UNCHANGED <<loads, late, urls>> /\ image = NoPage
    BY <1>2 DEF ViewOpens, ShownInv, ClosedRests
  <2> QED BY <2>1 DEF ShownInv, GestureTypeOK, ClosedRests, AnswersHavePages, UrlsFreed
<1> QED BY <1>1, <1>2

\* The cleanup of the effect: nothing is left but reads whose answers are dropped.
LEMMA GoesKeeps ==
    ASSUME ShownInv, ViewGoes
    PROVE  ShownInv'
<1>1. loads' = [source \in Sources |-> NoLoad] /\ NoLoad \in Loads /\ NoLoad.at # "answered"
  BY DEF ViewGoes, NoLoad, Loads
<1>2. loads' \in [Sources -> Loads] /\ \A source \in Sources : loads'[source] = NoLoad
  BY <1>1
<1>3. view' = FALSE /\ chain' = "off" /\ acting' = "idle" /\ image' = NoPage
  BY DEF ViewGoes
<1>4. urls' = 0
  BY DEF ViewGoes, ShownInv, UrlsFreed
<1>5. late' \in BOOLEAN
  BY DEF ViewGoes, ShownInv, GestureTypeOK
<1>6. GestureTypeOK'
  <2>1. view' \in BOOLEAN
    BY <1>3
  <2>2. urls' \in Int
    BY <1>4
  <2> QED BY <1>2, <1>3, <1>5, <2>1, <2>2, Zenon DEF GestureTypeOK
<1>7. ClosedRests' /\ AnswersHavePages'
  BY <1>1, <1>2, <1>3 DEF ClosedRests, AnswersHavePages
<1>8. UrlsFreed'
  BY <1>3, <1>4 DEF UrlsFreed
<1> QED BY <1>6, <1>7, <1>8 DEF ShownInv

\* The effect of a payment link opens the view or leaves it alone.
LEMMA PayKeeps ==
    ASSUME ShownInv, PayEffect, opened \in BOOLEAN
    PROVE  ShownInv' /\ opened' \in BOOLEAN
BY StaysKeeps, OpensKeeps DEF PayEffect

\* A read is asked for, from a view that is open.
LEMMA AskKeeps ==
    ASSUME ShownInv, NEW source \in Sources, Asks(source), view, UNCHANGED shown_vars,
           chain' \in {"due", "reading", "off"}, acting' \in {"idle", "sent", "reloading"}
    PROVE  ShownInv'
<1>1. Underway \in Loads /\ Underway.at # "answered"
  BY DEF Underway, Loads
<1>2. loads' = [loads EXCEPT ![source] = Underway] /\ late' = late
  BY DEF Asks
<1>3. loads' \in [Sources -> Loads]
  BY <1>1, <1>2 DEF ShownInv, GestureTypeOK
<1>4. AnswersHavePages'
  BY <1>1, <1>2 DEF ShownInv, GestureTypeOK, AnswersHavePages
<1> QED BY <1>2, <1>3, <1>4 DEF ShownInv, GestureTypeOK, ClosedRests, UrlsFreed, shown_vars

\* A read ends: its screenshot takes the place of the one shown, or nothing changes.
LEMMA EndKeeps ==
    ASSUME ShownInv, NEW source \in Sources, LoadArrives(source) \/ LoadFails(source)
    PROVE  ShownInv'
<1>1. NoLoad \in Loads /\ NoLoad.at = "none"
  BY DEF NoLoad, Loads
<1>2. /\ loads' = [loads EXCEPT ![source] = NoLoad]
      /\ chain' = IF source = "poll" THEN "due" ELSE chain
      /\ acting' = IF source = "act" THEN "idle" ELSE acting
      /\ UNCHANGED <<late, view>>
  BY DEF LoadArrives, LoadFails, Resumes
<1>3. view
  BY <1>1 DEF LoadArrives, LoadFails, ShownInv, ClosedRests
<1>4. loads' \in [Sources -> Loads]
  BY <1>1, <1>2 DEF ShownInv, GestureTypeOK
<1>5. AnswersHavePages'
  BY <1>1, <1>2 DEF ShownInv, GestureTypeOK, AnswersHavePages
<1>6. image' \in Pages \cup {NoPage} /\ urls' \in Int /\ UrlsFreed'
  <2>1. CASE LoadArrives(source)
    <3>1. image' = loads[source].page /\ loads[source].page \in Pages
      BY <2>1 DEF LoadArrives, ShownInv, AnswersHavePages
    <3>2. image' # NoPage
      BY <3>1, ViewAssumption DEF Pages
    <3>3. urls' = 1
      BY <2>1 DEF LoadArrives, ShownInv, UrlsFreed
    <3> QED BY <3>1, <3>2, <3>3 DEF UrlsFreed
  <2>2. CASE LoadFails(source)
    BY <2>2 DEF LoadFails, ShownInv, GestureTypeOK, UrlsFreed
  <2> QED BY <2>1, <2>2
<1> QED BY <1>2, <1>3, <1>4, <1>5, <1>6 DEF ShownInv, GestureTypeOK, ClosedRests

\* Every step keeps the invariant.
LEMMA ViewInvNext == ViewInv /\ [ViewNext]_viewVars => ViewInv'
<1> SUFFICES ASSUME ViewInv, [ViewNext]_viewVars PROVE ViewInv'
  OBVIOUS
<1> DEFINE DetailTypeOK ==
             /\ session \in BOOLEAN /\ page \in Pages
             /\ link \in {"none", "journey", "pay"} /\ signed \in BOOLEAN
             /\ known \in {"unread", "yes", "no"} /\ read \in {"idle", "asked", "yes", "no"}
             /\ opened \in BOOLEAN /\ action \in BOOLEAN
<1>0. ShownInv /\ DetailTypeOK /\ (ShownInv' /\ DetailTypeOK' => ViewInv')
  BY DEF ViewInv, ShownInv, ViewTypeOK, GestureTypeOK
<1> USE DEF server_vars, detail_vars
<1>1. CASE OpenDetail
  <2>1. ShownInv' /\ opened' \in BOOLEAN
    BY <1>0, <1>1, PayKeeps DEF OpenDetail
  <2> QED BY <1>0, <1>1, <2>1 DEF OpenDetail
<1>2. CASE CloseDetail
  BY <1>0, <1>2, GoesKeeps DEF CloseDetail
<1>3. CASE SignIn
  <2>1. ShownInv' /\ opened' \in BOOLEAN
    BY <1>0, <1>3, PayKeeps DEF SignIn
  <2> QED BY <1>0, <1>3, <2>1 DEF SignIn
<1>4. CASE SignedOut
  BY <1>0, <1>4, GoesKeeps DEF SignedOut
<1>5. CASE DetailAsked \/ DetailAnswered \/ DetailFails
  BY <1>0, <1>5, StaysKeeps DEF DetailAsked, DetailAnswered, DetailFails, ViewStays
<1>6. CASE DetailArrives
  <2>1. ShownInv' /\ opened' \in BOOLEAN
    BY <1>0, <1>6, PayKeeps DEF DetailArrives
  <2> QED BY <1>0, <1>6, <2>1 DEF DetailArrives
<1>7. CASE OpenProvider
  BY <1>0, <1>7, OpensKeeps DEF OpenProvider
<1>8. CASE CloseProvider
  BY <1>0, <1>8, GoesKeeps DEF CloseProvider
<1>9. CASE Reconnect \/ ReconnectFails
  BY <1>0, <1>9, StaysKeeps DEF Reconnect, ReconnectFails, ViewStays
<1>10. CASE Reconnected
  BY <1>0, <1>10, OpensKeeps DEF Reconnected
<1>11. CASE PollAsks
  <2>1. "poll" \in Sources
    BY DEF Sources
  <2> QED BY <1>0, <1>11, <2>1, AskKeeps DEF PollAsks
<1>12. CASE Refresh
  <2>1. "refresh" \in Sources /\ chain' \in {"due", "reading", "off"}
        /\ acting' \in {"idle", "sent", "reloading"}
    BY <1>0, <1>12 DEF Sources, Refresh, ShownInv, GestureTypeOK
  <2> QED BY <1>0, <1>12, <2>1, AskKeeps DEF Refresh
<1>13. CASE Act
  BY <1>0, <1>13 DEF Act, ShownInv, GestureTypeOK, ClosedRests, AnswersHavePages, UrlsFreed,
     shown_vars
<1>14. CASE ActEnds
  <2>1. "act" \in Sources /\ view /\ chain' \in {"due", "reading", "off"}
    BY <1>0, <1>14 DEF Sources, ActEnds, ShownInv, GestureTypeOK, ClosedRests
  <2>2. acting' = "reloading" /\ Asks("act") /\ UNCHANGED shown_vars
    BY <1>14 DEF ActEnds
  <2>3. ShownInv'
    BY <1>0, <2>1, <2>2, AskKeeps
  <2>4. page' \in Pages
    BY <1>0, <1>14 DEF ActEnds
  <2> QED BY <1>0, <1>14, <2>3, <2>4 DEF ActEnds
<1>15. ASSUME NEW source \in Sources, LoadAnswered(source)
       PROVE  ViewInv'
  <2> DEFINE r == [at |-> "answered", page |-> page]
  <2>1. r \in Loads /\ r.page \in Pages
    BY <1>0 DEF Loads
  <2>2. loads' = [loads EXCEPT ![source] = r]
    BY <1>15 DEF LoadAnswered
  <2> HIDE DEF r
  <2>3. loads' \in [Sources -> Loads] /\ AnswersHavePages'
    BY <1>0, <2>1, <2>2 DEF ShownInv, GestureTypeOK, AnswersHavePages
  <2>4. view
    BY <1>0, <1>15 DEF LoadAnswered, ShownInv, ClosedRests, NoLoad
  <2>5. UNCHANGED <<chain, acting, late, view, image, urls>>
    BY <1>15 DEF LoadAnswered, shown_vars
  <2>6. ShownInv'
    BY <1>0, <2>3, <2>4, <2>5 DEF ShownInv, GestureTypeOK, ClosedRests, UrlsFreed
  <2> QED BY <1>0, <1>15, <2>6 DEF LoadAnswered
<1>16. ASSUME NEW source \in Sources, LoadArrives(source) \/ LoadFails(source)
       PROVE  ViewInv'
  BY <1>0, <1>16, EndKeeps DEF LoadArrives, LoadFails, Resumes
<1>17. CASE LateLoad
  BY <1>0, <1>17 DEF LateLoad, ShownInv, GestureTypeOK, ClosedRests, AnswersHavePages,
     UrlsFreed, shown_vars
<1>18. CASE SessionChanges
  BY <1>0, <1>18, StaysKeeps DEF SessionChanges, ViewStays
<1>19. CASE PageChanges
  <2>1. page' \in Pages
    BY <1>0, <1>19, ViewAssumption DEF PageChanges, Pages
  <2> QED BY <1>0, <1>19, <2>1, StaysKeeps DEF PageChanges, ViewStays
<1>20. CASE UNCHANGED viewVars
  BY <1>0, <1>20, StaysKeeps DEF viewVars, ViewStays
<1> QED BY <1>1, <1>2, <1>3, <1>4, <1>5, <1>6, <1>7, <1>8, <1>9, <1>10, <1>11, <1>12, <1>13,
           <1>14, <1>15, <1>16, <1>17, <1>18, <1>19, <1>20 DEF ViewNext

(***************************************************************************)
(* Type correctness of the detail and of the live view (JourneyDetail,     *)
(* ProviderSession).                                                       *)
(***************************************************************************)
THEOREM ViewTypes == ViewSpec => []ViewTypeOK
<1>1. ViewInv => ViewTypeOK
  BY DEF ViewInv
<1> QED BY <1>1, ViewInvInit, ViewInvNext, PTL DEF ViewSpec

(***************************************************************************)
(* No screenshot is kept but the one on the screen, in whatever order      *)
(* answers come and views are closed (load() and the effect's cleanup).    *)
(***************************************************************************)
THEOREM ScreenshotsFreed == ViewSpec => []UrlsFreed
<1>1. ViewInv => UrlsFreed
  BY DEF ViewInv
<1> QED BY <1>1, ViewInvInit, ViewInvNext, PTL DEF ViewSpec

-----------------------------------------------------------------------------
(* The four modules together.                                              *)

\* A behaviour of the composition is a behaviour of each module: a step of one
\* leaves the state of the others alone.
LEMMA Composition == SafetySpec => FormSpec /\ PageSpec /\ DeskSpec /\ ViewSpec
<1>1. Init => FormInit /\ PageInit /\ DeskInit /\ ViewInit
  BY DEF Init
<1>2. [Next]_vars
      => /\ [FormNext]_formVars /\ [PageNext]_pageVars
         /\ [DeskNext]_deskVars /\ [ViewNext]_viewVars
  BY DEF Next, vars, Form, Page, Desk, View
<1> QED
  BY <1>1, <1>2, PTL DEF SafetySpec, FormSpec, PageSpec, DeskSpec, ViewSpec

(***************************************************************************)
(* Type correctness of the front end, for every set of forms, buses,       *)
(* users, sessions and plans and every bound.                              *)
(***************************************************************************)
THEOREM WebsiteTypes == SafetySpec => []WebsiteTypeOK
BY Composition, FormTypes, PageTypes, DeskTypes, ViewTypes, PTL DEF WebsiteTypeOK

(***************************************************************************)
(* What the modules promise one by one (requests saved once as submitted,  *)
(* within the limit and free of sample data; plans as shown; screenshots   *)
(* freed), the front end promises as a whole.                              *)
(***************************************************************************)
THEOREM WebsiteSafe ==
    SafetySpec => /\ []SavedOnceAsSubmitted /\ []ActiveWithinLimit /\ []SampleStaysInDemo
                  /\ []PlanIsAsShown /\ []UrlsFreed
BY Composition, SavedOnce, LimitHolds, SampleKept, PlanAsShown, ScreenshotsFreed, PTL

(***************************************************************************)
(* So it does of the accounts: their journeys are kept apart.              *)
(***************************************************************************)
THEOREM WebsiteKeptApart == SafetySpec => []AccountsApart
BY Composition, KeptApart, PTL
=============================================================================
