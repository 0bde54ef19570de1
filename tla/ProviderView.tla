---------------------------- MODULE ProviderView ----------------------------
(***************************************************************************)
(* A journey's details and the live view of its provider session, as the   *)
(* React front end shows them (JourneyDetail and ProviderSession in        *)
(* src/frontend/src/pages/Journeys.tsx), with the job of the server that   *)
(* has a session or not (GET and POST /api/jobs/{id}/session in            *)
(* src/website/app.py).                                                    *)
(*                                                                         *)
(* The view reads screenshots from three places: its poll every three      *)
(* seconds, each gesture when it is done, and the refresh button.  Only    *)
(* the poll is cancelled when the view goes; answers come in any order.    *)
(* A version number stands for what the provider's page looks like.        *)
(***************************************************************************)
EXTENDS Integers, FiniteSets

CONSTANTS
    MaxPage,  \* bound: versions of the provider's page
    NoPage    \* no screenshot

ASSUME ViewAssumption == MaxPage \in Nat /\ NoPage \notin Nat

VARIABLES
    session,  \* the server has a live session that may be used by hand
    page,     \* the version of the provider's page
    link,     \* the address: no journey, a journey, or a journey to pay for
    signed,   \* a user is signed in
    known,    \* what the query "detail" says of the session
    read,     \* the read of the detail under way
    opened,   \* openedPayment: the payment link was followed
    action,   \* the request to reconnect is under way
    view,     \* the view is open
    chain,    \* the view's poll: its next read is due, or it is reading
    acting,   \* the view's gesture: none, sent, or its screenshot is read
    loads,    \* the view's reads of screenshots, by what asked for them
    late,     \* reads that a view which is gone has left under way
    image,    \* the screenshot the view shows
    urls      \* object URLs that are not revoked

server_vars == <<session, page>>
detail_vars == <<link, signed, known, read, opened, action>>
gesture_vars == <<chain, acting, loads, late>>
shown_vars == <<view, image, urls>>
viewVars == <<server_vars, detail_vars, gesture_vars, shown_vars>>

Sources == {"poll", "act", "refresh"}
Pages == 0 .. MaxPage
Loads == [at : {"none", "asked", "answered"}, page : Pages \cup {NoPage}]
NoLoad == [at |-> "none", page |-> NoPage]
Underway == [at |-> "asked", page |-> NoPage]

ViewTypeOK ==
    /\ session \in BOOLEAN /\ page \in Pages
    /\ link \in {"none", "journey", "pay"} /\ signed \in BOOLEAN
    /\ known \in {"unread", "yes", "no"} /\ read \in {"idle", "asked", "yes", "no"}
    /\ opened \in BOOLEAN /\ action \in BOOLEAN
    /\ view \in BOOLEAN
    /\ chain \in {"due", "reading", "off"} /\ acting \in {"idle", "sent", "reloading"}
    /\ loads \in [Sources -> Loads] /\ late \in BOOLEAN
    /\ image \in Pages \cup {NoPage}
    /\ urls \in Int

ViewInit ==
    /\ session \in BOOLEAN /\ page = 0
    /\ link \in {"none", "journey", "pay"}
    /\ signed \in BOOLEAN
    /\ known = "unread" /\ read = "idle" /\ opened = FALSE /\ action = FALSE
    /\ view = FALSE /\ chain = "off" /\ acting = "idle"
    /\ loads = [source \in Sources |-> NoLoad] /\ late = FALSE
    /\ image = NoPage /\ urls = 0

DetailOpen == link # "none" /\ signed

(***************************************************************************)
(* The view comes and goes with the state "provider" of the detail.        *)
(***************************************************************************)
ViewStays == UNCHANGED <<gesture_vars, shown_vars>>

\* setProvider(true); nothing happens when the view is open already.
ViewOpens ==
    IF view THEN ViewStays
    ELSE /\ view' = TRUE
         /\ chain' = "due" /\ acting' = "idle"
         /\ image' = NoPage
         /\ UNCHANGED <<loads, late, urls>>

\* The effect's cleanup aborts the poll's read and revokes the URL that is shown.
ViewGoes ==
    /\ view' = FALSE /\ chain' = "off" /\ acting' = "idle"
    /\ loads' = [source \in Sources |-> NoLoad]
    /\ late' = (late \/ \E source \in {"act", "refresh"} : loads[source] # NoLoad)
    /\ image' = NoPage
    /\ urls' = IF image # NoPage THEN urls - 1 ELSE urls

PayEffectMutant == opened' = opened /\ ViewStays

\* The effect that follows a payment link, once for each time the detail is opened.
PayEffect ==
    IF link' = "pay" /\ signed' /\ known' = "yes" /\ ~opened
      THEN opened' = TRUE /\ ViewOpens
      ELSE opened' = opened /\ ViewStays

(***************************************************************************)
(* The journey's details.                                                  *)
(***************************************************************************)
OpenDetail ==
    /\ link = "none"
    /\ link' \in {"journey", "pay"}
    /\ UNCHANGED <<server_vars, signed, known, read, action>>
    /\ PayEffect

\* Its close button, or the browser's Back, which takes an open view along.
CloseDetail ==
    /\ link # "none"
    /\ link' = "none" /\ opened' = FALSE /\ read' = "idle" /\ action' = FALSE
    /\ ViewGoes
    /\ UNCHANGED <<server_vars, signed, known>>

SignIn ==
    /\ ~signed
    /\ signed' = TRUE
    /\ UNCHANGED <<server_vars, link, known, read, action>>
    /\ PayEffect

\* A 401 of the trips' poll, or a sign-out: the detail goes, its address stays.
SignedOut ==
    /\ signed
    /\ signed' = FALSE /\ known' = "unread" /\ read' = "idle"
    /\ opened' = FALSE /\ action' = FALSE
    /\ ViewGoes
    /\ UNCHANGED <<server_vars, link>>

DetailAsked ==
    /\ DetailOpen /\ read = "idle"
    /\ read' = "asked"
    /\ UNCHANGED <<server_vars, link, signed, known, opened, action, gesture_vars, shown_vars>>

DetailAnswered ==
    /\ read = "asked"
    /\ read' = IF session THEN "yes" ELSE "no"
    /\ UNCHANGED <<server_vars, link, signed, known, opened, action, gesture_vars, shown_vars>>

DetailArrives ==
    /\ read \in {"yes", "no"}
    /\ known' = read /\ read' = "idle"
    /\ UNCHANGED <<server_vars, link, signed, action>>
    /\ PayEffect

DetailFails ==
    /\ read = "asked"
    /\ read' = "idle"
    /\ UNCHANGED <<server_vars, link, signed, known, opened, action, gesture_vars, shown_vars>>

\* "Pay in my provider session", "Open provider session".
OpenProvider ==
    /\ DetailOpen /\ known = "yes" /\ ~view
    /\ ViewOpens
    /\ UNCHANGED <<server_vars, detail_vars>>

CloseProvider ==
    /\ view
    /\ ViewGoes
    /\ UNCHANGED <<server_vars, detail_vars>>

\* "Reconnect saved session"
Reconnect ==
    /\ DetailOpen /\ known = "no" /\ ~view /\ ~action
    /\ action' = TRUE
    /\ UNCHANGED <<server_vars, link, signed, known, read, opened, gesture_vars, shown_vars>>

\* The detail is read again, in place of the read under way, and the view opens.
Reconnected ==
    /\ action
    /\ session' = TRUE
    /\ action' = FALSE /\ read' = "asked"
    /\ ViewOpens
    /\ UNCHANGED <<page, link, signed, known, opened>>

ReconnectFails ==
    /\ action
    /\ action' = FALSE
    /\ UNCHANGED <<server_vars, link, signed, known, read, opened, gesture_vars, shown_vars>>

(***************************************************************************)
(* The view: load(), poll() and act().                                     *)
(***************************************************************************)
Asks(source) == loads' = [loads EXCEPT ![source] = Underway] /\ UNCHANGED late

PollAsksMutant ==
    /\ view /\ chain = "due"
    /\ IF acting = "idle"
         THEN chain' = "reading" /\ Asks("poll")
         ELSE chain' = "off" /\ UNCHANGED <<loads, late>>
    /\ UNCHANGED <<server_vars, detail_vars, acting, shown_vars>>

\* While a gesture is under way the poll passes over its turn and comes again.
PollAsks ==
    /\ view /\ chain = "due" /\ acting = "idle"
    /\ chain' = "reading" /\ Asks("poll")
    /\ UNCHANGED <<server_vars, detail_vars, acting, shown_vars>>

\* Bound: one refresh of a view is under way at a time.
Refresh ==
    /\ view /\ acting = "idle"
    /\ loads["refresh"] = NoLoad
    /\ Asks("refresh")
    /\ UNCHANGED <<server_vars, detail_vars, chain, acting, shown_vars>>

\* A click, a key, a text or a scroll.
Act ==
    /\ view /\ acting = "idle"
    /\ acting' = "sent"
    /\ UNCHANGED <<server_vars, detail_vars, chain, loads, late, shown_vars>>

\* Done or failed, the screenshot is read: the gesture ends with that read.
ActEnds ==
    /\ acting = "sent"
    /\ page' \in {page} \cup ({page + 1} \cap Pages)
    /\ acting' = "reloading" /\ Asks("act")
    /\ UNCHANGED <<session, detail_vars, chain, shown_vars>>

\* A screenshot is taken; without a session the read fails.
LoadAnswered(source) ==
    /\ loads[source].at = "asked" /\ session
    /\ loads' = [loads EXCEPT ![source] = [at |-> "answered", page |-> page]]
    /\ UNCHANGED <<server_vars, detail_vars, chain, acting, late, shown_vars>>

\* What awaited the read goes on: the poll's timer, or the end of the gesture.
Resumes(source) ==
    /\ loads' = [loads EXCEPT ![source] = NoLoad]
    /\ chain' = IF source = "poll" THEN "due" ELSE chain
    /\ acting' = IF source = "act" THEN "idle" ELSE acting
    /\ UNCHANGED <<server_vars, detail_vars, late, view>>

\* A new URL takes the place of the one shown.
LoadArrives(source) ==
    /\ loads[source].at = "answered"
    /\ Resumes(source)
    /\ image' = loads[source].page
    /\ urls' = IF image # NoPage THEN urls ELSE urls + 1

\* The server has no session, or the network fails: the old image stays.
LoadFails(source) ==
    /\ loads[source].at = "asked"
    /\ Resumes(source)
    /\ UNCHANGED <<image, urls>>

\* A view that is gone drops its answer before it makes a URL of it.
LateLoad ==
    /\ late
    /\ late' \in BOOLEAN
    /\ UNCHANGED <<server_vars, detail_vars, chain, acting, loads, shown_vars>>

(***************************************************************************)
(* The server: the worker opens and ends sessions, the page moves on.      *)
(***************************************************************************)
SessionChanges ==
    /\ session' = ~session
    /\ UNCHANGED <<page, detail_vars, gesture_vars, shown_vars>>

PageChanges ==
    /\ page < MaxPage
    /\ page' = page + 1
    /\ UNCHANGED <<session, detail_vars, gesture_vars, shown_vars>>

ViewNext ==
    \/ OpenDetail \/ CloseDetail \/ SignIn \/ SignedOut
    \/ DetailAsked \/ DetailAnswered \/ DetailArrives \/ DetailFails
    \/ OpenProvider \/ CloseProvider \/ Reconnect \/ Reconnected \/ ReconnectFails
    \/ PollAsks \/ Refresh \/ Act \/ ActEnds
    \/ \E source \in Sources : LoadAnswered(source) \/ LoadArrives(source) \/ LoadFails(source)
    \/ LateLoad \/ SessionChanges \/ PageChanges

ViewSpec == ViewInit /\ [][ViewNext]_viewVars

(***************************************************************************)
(* The timers of a visible page go off and find the user between two       *)
(* gestures in the end; a gesture is answered or fails, a read ends, and   *)
(* the network does not fail for ever.                                     *)
(***************************************************************************)
ViewFairness ==
    /\ SF_viewVars(PollAsks)
    /\ SF_viewVars(LoadAnswered("poll"))
    /\ WF_viewVars(LoadArrives("poll"))
    /\ WF_viewVars(ActEnds \/ LoadArrives("act") \/ LoadFails("act"))
    /\ WF_viewVars(DetailAsked)
    /\ SF_viewVars(DetailAnswered)
    /\ SF_viewVars(DetailArrives)

(***************************************************************************)
(* A view that stays open while the session lasts comes to show the page   *)
(* as it is now, or a later one: gestures, failed reads and late answers   *)
(* never stop its poll for good (poll() and act() of ProviderSession).     *)
(***************************************************************************)
ViewCatchesUp ==
    \A v \in Pages :
        view /\ session /\ page = v
            ~> ~view \/ ~session \/ (image # NoPage /\ image >= v)

(***************************************************************************)
(* A payment link opens the provider session once there is one, whenever   *)
(* the user signs in and however late the session appears (the effect of   *)
(* JourneyDetail that sets openedPayment).                                 *)
(***************************************************************************)
PayLinkOpens ==
    link = "pay" /\ signed /\ session
        ~> opened \/ link # "pay" \/ ~signed \/ ~session

(***************************************************************************)
(* No screenshot is kept in memory but the one on the screen: late answers *)
(* of a view that was closed leave no object URL behind (load(), cleanup). *)
(***************************************************************************)
UrlsFreed == urls = IF image # NoPage THEN 1 ELSE 0
=============================================================================
