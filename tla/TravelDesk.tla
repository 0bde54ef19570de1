----------------------------- MODULE TravelDesk -----------------------------
(***************************************************************************)
(* The travel desk of the React front end: who is signed in, whose trips   *)
(* are shown and which dialog is open (src/frontend/src/lib/context.tsx,   *)
(* AuthDialog and RecoverAccount in components/Booking.tsx, the dialogs    *)
(* and sign-out of App.tsx), with the sessions of the server               *)
(* (src/website/store.py, src/website/app.py).                             *)
(*                                                                         *)
(* Reads of the account, the poll of the trips, a sign-in and a sign-out   *)
(* are under way at the same time, answered with the cookie they were sent *)
(* with and applied in the order their answers arrive.                     *)
(***************************************************************************)
EXTENDS FiniteSets

CONSTANTS
    Users,      \* accounts
    Tokens,     \* bound: sessions that are created
    Plans,      \* what a booking form may be about: a chosen bus, or none
    OtherTabs,  \* the browser has other tabs of the site
    Nobody      \* no user, no session, no plan

ASSUME DeskAssumption ==
    /\ Nobody \notin Users \cup Tokens \cup Plans
    /\ OtherTabs \in BOOLEAN

VARIABLES
    owner,     \* the server's table of sessions
    fresh,     \* sessions not created yet
    cookie,    \* the session cookie of the browser
    account,   \* the query "account": the user that is shown
    me,        \* its read under way: GET /api/auth/me
    trips,     \* the queries "jobs", per user: whose journeys they hold
    poll,      \* the read of the shown user's journeys: GET /api/jobs
    auth,      \* the sign-in under way, with the plan its dialog knew of
    leaving,   \* the sign-out under way
    authOpen,  \* the sign-in dialog is open
    pending,   \* the plan that waits for a sign-in
    booking,   \* the plan the booking form is open for
    since,     \* ghost: who signed in, in any tab, since this one's last sign-out
    misled     \* ghost: since the page was last cleared it showed whom the cookie
               \* was not of: by a late read of the account, or by another tab

session_vars == <<owner, fresh, cookie>>
dialog_vars == <<authOpen, pending, booking>>
ghost_vars == <<since, misled>>
deskVars == <<session_vars, account, me, trips, poll, auth, leaving, dialog_vars, ghost_vars>>

OrNobody(S) == S \cup {Nobody}
Phases == {"idle", "asked", "answered"}
Reads == [at : Phases, token : OrNobody(Tokens), user : OrNobody(Users)]
Auths == [at : Phases, token : OrNobody(Tokens), user : OrNobody(Users), plan : OrNobody(Plans)]
Idle == [at |-> "idle", token |-> Nobody, user |-> Nobody]
NoAuth == [at |-> "idle", token |-> Nobody, user |-> Nobody, plan |-> Nobody]

DeskTypeOK ==
    /\ owner \in [Tokens -> OrNobody(Users)]
    /\ fresh \subseteq Tokens
    /\ cookie \in OrNobody(Tokens)
    /\ account \in OrNobody(Users)
    /\ {me, poll, leaving} \subseteq Reads
    /\ trips \in [Users -> OrNobody(Users)]
    /\ auth \in Auths /\ (auth.at = "idle" \/ auth.user \in Users)
    /\ authOpen \in BOOLEAN
    /\ pending \in OrNobody(Plans) /\ booking \in OrNobody(Plans)
    /\ since \subseteq Users
    /\ misled \in BOOLEAN

\* The page opens in a browser with a session, or without one, and reads the account.
DeskInit ==
    /\ cookie \in OrNobody(Tokens)
    /\ \E u \in Users :
        /\ owner = [t \in Tokens |-> IF t = cookie THEN u ELSE Nobody]
        /\ since = IF cookie = Nobody THEN {} ELSE {u}
    /\ fresh = Tokens \ {cookie}
    /\ account = Nobody
    /\ me = [Idle EXCEPT !.at = "asked", !.token = cookie]
    /\ trips = [u \in Users |-> Nobody]
    /\ poll = Idle /\ auth = NoAuth /\ leaving = Idle
    /\ authOpen = FALSE /\ pending = Nobody /\ booking = Nobody
    /\ misled = FALSE

SessionUser(token) == IF token = Nobody THEN Nobody ELSE owner[token]

\* The dialogs are modal; the booking form needs a user to be shown.
DialogShown == authOpen \/ (booking # Nobody /\ account # Nobody)

ShowsMutant(user) ==
    /\ account' = user
    /\ poll' = poll

\* Another user is shown: the read of the last one's trips is given up.
Shows(user) ==
    /\ account' = user
    /\ poll' = IF user = account THEN poll ELSE Idle

Answered(read) == [read EXCEPT !.at = "answered", !.user = SessionUser(read.token)]

(***************************************************************************)
(* The account is read when the page opens and when its window is focused. *)
(***************************************************************************)
AccountAsked ==
    /\ me.at = "idle"
    /\ me' = [Idle EXCEPT !.at = "asked", !.token = cookie]
    /\ UNCHANGED <<session_vars, account, trips, poll, auth, leaving, dialog_vars, ghost_vars>>

AccountAnswered ==
    /\ me.at = "asked"
    /\ me' = Answered(me)
    /\ UNCHANGED <<session_vars, account, trips, poll, auth, leaving, dialog_vars, ghost_vars>>

AccountArrives ==
    /\ me.at = "answered"
    /\ Shows(me.user)
    /\ me' = Idle
    /\ misled' = (misled \/ me.token # cookie)
    /\ UNCHANGED <<session_vars, trips, auth, leaving, dialog_vars, since>>

AccountFails ==
    /\ me.at = "asked"
    /\ me' = Idle
    /\ UNCHANGED <<session_vars, account, trips, poll, auth, leaving, dialog_vars, ghost_vars>>

(***************************************************************************)
(* The journeys of the shown user are read every five seconds.  A refusal  *)
(* (401) signs the page out; any other failure waits for the next read.    *)
(***************************************************************************)
TripsAsked ==
    /\ account # Nobody /\ poll.at = "idle"
    /\ poll' = [Idle EXCEPT !.at = "asked", !.token = cookie]
    /\ UNCHANGED <<session_vars, account, me, trips, auth, leaving, dialog_vars, ghost_vars>>

TripsAnswered ==
    /\ poll.at = "asked"
    /\ poll' = Answered(poll)
    /\ UNCHANGED <<session_vars, account, me, trips, auth, leaving, dialog_vars, ghost_vars>>

TripsArrive ==
    /\ poll.at = "answered" /\ poll.user # Nobody
    /\ trips' = [trips EXCEPT ![account] = poll.user]
    /\ poll' = Idle
    /\ UNCHANGED <<session_vars, account, me, auth, leaving, dialog_vars, ghost_vars>>

Cleared == [u \in Users |-> Nobody]

SessionExpiredMutant ==
    /\ poll.at = "answered" /\ poll.user = Nobody
    /\ poll' = Idle
    /\ trips' = Cleared
    /\ booking' = Nobody
    /\ misled' = FALSE
    /\ UNCHANGED <<session_vars, account, me, auth, leaving, authOpen, pending, since>>

SessionExpired ==
    /\ poll.at = "answered" /\ poll.user = Nobody
    /\ Shows(Nobody)
    /\ trips' = Cleared
    /\ booking' = Nobody
    /\ misled' = FALSE
    /\ UNCHANGED <<session_vars, me, auth, leaving, authOpen, pending, since>>

TripsFail ==
    /\ poll.at = "asked"
    /\ poll' = Idle
    /\ UNCHANGED <<session_vars, account, me, trips, auth, leaving, dialog_vars, ghost_vars>>

(***************************************************************************)
(* Planning a journey, and the sign-in dialog a guest is sent to.          *)
(***************************************************************************)
Plan ==
    /\ ~DialogShown
    /\ \E plan \in Plans :
        IF account # Nobody
          THEN booking' = plan /\ UNCHANGED <<authOpen, pending>>
          ELSE pending' = plan /\ authOpen' = TRUE /\ UNCHANGED booking
    /\ UNCHANGED <<session_vars, account, me, trips, poll, auth, leaving, ghost_vars>>

\* BookingDialog closes, its request saved or not.
CloseBooking ==
    /\ booking # Nobody /\ account # Nobody
    /\ booking' = Nobody
    /\ UNCHANGED <<session_vars, account, me, trips, poll, auth, leaving, authOpen, pending, ghost_vars>>

OpenAuth ==
    /\ account = Nobody /\ ~DialogShown
    /\ authOpen' = TRUE
    /\ UNCHANGED <<session_vars, account, me, trips, poll, auth, leaving, pending, booking, ghost_vars>>

\* Closing the dialog drops the plan, but not the sign-in that is under way.
CloseAuth ==
    /\ authOpen
    /\ authOpen' = FALSE /\ pending' = Nobody
    /\ UNCHANGED <<session_vars, account, me, trips, poll, auth, leaving, booking, ghost_vars>>

\* Bound: one sign-in is under way at a time, also when its dialog was closed.
SubmitAuth ==
    /\ authOpen /\ auth.at = "idle"
    /\ \E user \in Users : auth' = [NoAuth EXCEPT !.at = "asked", !.user = user, !.plan = pending]
    /\ UNCHANGED <<session_vars, account, me, trips, poll, leaving, dialog_vars, ghost_vars>>

\* The server signs the user in, or refuses: a wrong password, a known address, too many tries.
AuthAnswered ==
    /\ auth.at = "asked"
    /\ \E token \in fresh :
        /\ owner' = [owner EXCEPT ![token] = auth.user]
        /\ fresh' = fresh \ {token}
        /\ auth' = [auth EXCEPT !.at = "answered", !.token = token]
    /\ UNCHANGED <<cookie, account, me, trips, poll, leaving, dialog_vars, ghost_vars>>

AuthFails ==
    /\ auth.at # "idle"
    /\ auth' = NoAuth
    /\ UNCHANGED <<session_vars, account, me, trips, poll, leaving, dialog_vars, ghost_vars>>

\* signedIn() with the plan that the dialog of this sign-in was last rendered with.
AuthArrives ==
    /\ auth.at = "answered"
    /\ cookie' = auth.token
    /\ Shows(auth.user)
    /\ authOpen' = FALSE
    /\ IF auth.plan # Nobody
         THEN booking' = auth.plan /\ pending' = Nobody
         ELSE UNCHANGED <<booking, pending>>
    /\ auth' = NoAuth
    /\ since' = since \cup {auth.user}
    /\ UNCHANGED <<owner, fresh, me, trips, leaving, misled>>

\* A recovery code resets the password and ends every session of the account.
RecoverAccount ==
    /\ authOpen
    /\ \E user \in Users :
        owner' = [t \in Tokens |-> IF owner[t] = user THEN Nobody ELSE owner[t]]
    /\ UNCHANGED <<fresh, cookie, account, me, trips, poll, auth, leaving, dialog_vars, ghost_vars>>

\* A session is over after seven days.
SessionEnds ==
    /\ \E t \in Tokens : owner[t] # Nobody /\ owner' = [owner EXCEPT ![t] = Nobody]
    /\ UNCHANGED <<fresh, cookie, account, me, trips, poll, auth, leaving, dialog_vars, ghost_vars>>

(***************************************************************************)
(* Sign-out.  It cancels the reads of the journeys, not that of the        *)
(* account.                                                                *)
(***************************************************************************)
Logout ==
    /\ account # Nobody /\ ~DialogShown /\ leaving.at = "idle"
    /\ leaving' = [Idle EXCEPT !.at = "asked", !.token = cookie]
    /\ UNCHANGED <<session_vars, account, me, trips, poll, auth, dialog_vars, ghost_vars>>

LogoutAnswered ==
    /\ leaving.at = "asked"
    /\ leaving' = [leaving EXCEPT !.at = "answered"]
    /\ owner' = [t \in Tokens |-> IF t = leaving.token THEN Nobody ELSE owner[t]]
    /\ UNCHANGED <<fresh, cookie, account, me, trips, poll, auth, dialog_vars, ghost_vars>>

LogoutFails ==
    /\ leaving.at # "idle"
    /\ leaving' = Idle
    /\ UNCHANGED <<session_vars, account, me, trips, poll, auth, dialog_vars, ghost_vars>>

LogoutArrives ==
    /\ leaving.at = "answered"
    /\ cookie' = Nobody
    /\ account' = Nobody
    /\ poll' = Idle
    /\ trips' = Cleared
    /\ booking' = Nobody
    /\ leaving' = Idle
    /\ since' = {} /\ misled' = FALSE
    /\ UNCHANGED <<owner, fresh, me, auth, authOpen, pending>>

\* The tabs of a browser share one cookie; this one shows what it showed.
OtherTab ==
    /\ OtherTabs
    /\ \/ /\ cookie # Nobody
          /\ owner' = [owner EXCEPT ![cookie] = Nobody]
          /\ cookie' = Nobody
          /\ UNCHANGED <<fresh, since>>
       \/ \E token \in fresh, user \in Users :
          /\ owner' = [owner EXCEPT ![token] = user]
          /\ cookie' = token
          /\ fresh' = fresh \ {token}
          /\ since' = since \cup {user}
    /\ misled' = (misled \/ account # Nobody)
    /\ UNCHANGED <<account, me, trips, poll, auth, leaving, dialog_vars>>

DeskNext ==
    \/ AccountAsked \/ AccountAnswered \/ AccountArrives \/ AccountFails
    \/ TripsAsked \/ TripsAnswered \/ TripsArrive \/ SessionExpired \/ TripsFail
    \/ Plan \/ CloseBooking \/ OpenAuth \/ CloseAuth
    \/ SubmitAuth \/ AuthAnswered \/ AuthFails \/ AuthArrives
    \/ RecoverAccount \/ SessionEnds
    \/ Logout \/ LogoutAnswered \/ LogoutFails \/ LogoutArrives
    \/ OtherTab

DeskSpec == DeskInit /\ [][DeskNext]_deskVars

(***************************************************************************)
(* The five-second poll of a visible tab goes on, and the network does not *)
(* fail for ever: an answer that may always come, or come again, comes.    *)
(***************************************************************************)
DeskFairness ==
    /\ WF_deskVars(TripsAsked \/ TripsArrive \/ SessionExpired)
    /\ SF_deskVars(TripsAnswered)

(***************************************************************************)
(* What README.md of the source says of these queries: the journeys under  *)
(* a user's name are that user's, and after a sign-out nothing of the      *)
(* account is shown or kept until somebody signs in (the query keys,       *)
(* logout() and the 401 effect of context.tsx).                            *)
(***************************************************************************)
TripsScoped == \A u \in Users : trips[u] \in {Nobody, u}
ClearedOnLogout == since = {} => account = Nobody /\ trips = Cleared
AccountQueriesScoped == TripsScoped /\ ClearedOnLogout

(***************************************************************************)
(* It does break (by a late read in one tab, by another tab), but in no    *)
(* other way: signedIn() changes the user shown together with the cookie,  *)
(* logout() and a 401 clear what was mixed up, a read of the journeys is   *)
(* given up when its user is not shown any more, and each user's journeys  *)
(* have a key of their own.                                                *)
(***************************************************************************)
ScopedUnlessMisled == ~misled => AccountQueriesScoped

(***************************************************************************)
(* Even then no journeys are kept, under whatever name, of a user who did  *)
(* not sign in since the last sign-out: logout() cancels the reads under   *)
(* way, and a user shown by mistake is answered for the cookie             *)
(* (context.tsx, app.py jobs).                                             *)
(***************************************************************************)
HeldSinceSignIn == \A u \in Users : trips[u] \in since \cup {Nobody}

\* Both: accounts are kept apart, but where the page was misled, and those who
\* signed out from those who sign in after them also there.
AccountsApart == ScopedUnlessMisled /\ HeldSinceSignIn

(***************************************************************************)
(* While the session of the browser is over no user stays shown, not even  *)
(* one that a late read brings back after a sign-out: the poll is refused  *)
(* and the page signs out (the 401 effect of context.tsx).                 *)
(***************************************************************************)
StaleAccountCleared ==
    account # Nobody /\ SessionUser(cookie) = Nobody
        ~> account = Nobody \/ SessionUser(cookie) # Nobody
=============================================================================
