-------------------------- MODULE TravelDeskProofs --------------------------
(***************************************************************************)
(* Proofs about module TravelDesk, for every set of users, sessions and    *)
(* plans.                                                                  *)
(***************************************************************************)
EXTENDS TravelDesk, TLAPS

(***************************************************************************)
(* Type correctness.                                                       *)
(***************************************************************************)

\* The initial state has the types of module TravelDesk.
LEMMA DeskTypeInit == DeskInit => DeskTypeOK
<1> SUFFICES ASSUME DeskInit PROVE DeskTypeOK
  OBVIOUS
<1>1. PICK u \in Users : owner = [t \in Tokens |-> IF t = cookie THEN u ELSE Nobody]
  BY DEF DeskInit
<1>2. owner \in [Tokens -> OrNobody(Users)] /\ fresh \subseteq Tokens
  BY <1>1 DEF DeskInit, OrNobody
<1>3. cookie \in OrNobody(Tokens)
  BY DEF DeskInit
<1>4. me \in Reads /\ poll \in Reads /\ leaving \in Reads
  BY <1>3 DEF DeskInit, Reads, Idle, Phases, OrNobody
<1>5. auth \in Auths /\ auth.at = "idle"
  BY DEF DeskInit, Auths, NoAuth, Phases, OrNobody
<1>6. since \subseteq Users
  <2>1. PICK v \in Users : since = IF cookie = Nobody THEN {} ELSE {v}
    BY DEF DeskInit
  <2> QED BY <2>1
<1> QED BY <1>2, <1>3, <1>4, <1>5, <1>6 DEF DeskInit, DeskTypeOK, OrNobody

\* Whose session a token is: a user, or nobody (Store.session_user).
LEMMA SessionUserType ==
    ASSUME DeskTypeOK, NEW t \in OrNobody(Tokens)
    PROVE  SessionUser(t) \in OrNobody(Users)
BY DEF DeskTypeOK, SessionUser, OrNobody

\* A read that is answered is a read.
LEMMA AnsweredType ==
    ASSUME DeskTypeOK, NEW r \in Reads
    PROVE  /\ Answered(r) \in Reads
           /\ Answered(r).at = "answered" /\ Answered(r).token = r.token
           /\ Answered(r).user = SessionUser(r.token)
<1>1. r.token \in OrNobody(Tokens)
  BY DEF Reads
<1>2. SessionUser(r.token) \in OrNobody(Users)
  BY <1>1, SessionUserType
<1> QED BY <1>2 DEF Answered, Reads, Phases

\* What a read starts with.
LEMMA AskedType ==
    ASSUME DeskTypeOK
    PROVE  /\ [Idle EXCEPT !.at = "asked", !.token = cookie] \in Reads
           /\ [Idle EXCEPT !.at = "asked", !.token = cookie].at = "asked"
           /\ [Idle EXCEPT !.at = "asked", !.token = cookie].token = cookie
           /\ Idle \in Reads /\ Idle.at = "idle"
           /\ NoAuth \in Auths /\ NoAuth.at = "idle"
BY DEF DeskTypeOK, Reads, Auths, Phases, Idle, NoAuth, OrNobody

\* Every step keeps the types of module TravelDesk.
LEMMA DeskTypeNext == DeskTypeOK /\ [DeskNext]_deskVars => DeskTypeOK'
<1> SUFFICES ASSUME DeskTypeOK, [DeskNext]_deskVars PROVE DeskTypeOK'
  OBVIOUS
<1> USE DEF DeskTypeOK, session_vars, dialog_vars, ghost_vars
<1>1. me \in Reads /\ poll \in Reads /\ leaving \in Reads
  OBVIOUS
<1>2. CASE AccountAsked \/ AccountAnswered \/ AccountArrives \/ AccountFails
  <2>1. CASE AccountAsked
    BY <2>1, AskedType DEF AccountAsked
  <2>2. CASE AccountAnswered
    BY <1>1, <2>2, AnsweredType DEF AccountAnswered
  <2>3. CASE AccountArrives
    BY <1>1, <2>3, AskedType DEF AccountArrives, Shows, Reads
  <2>4. CASE AccountFails
    BY <2>4, AskedType DEF AccountFails
  <2> QED BY <1>2, <2>1, <2>2, <2>3, <2>4
<1>3. CASE TripsAsked \/ TripsAnswered \/ TripsFail
  <2>1. CASE TripsAsked
    BY <2>1, AskedType DEF TripsAsked
  <2>2. CASE TripsAnswered
    BY <1>1, <2>2, AnsweredType DEF TripsAnswered
  <2>3. CASE TripsFail
    BY <2>3, AskedType DEF TripsFail
  <2> QED BY <1>3, <2>1, <2>2, <2>3
<1>4. CASE TripsArrive
  <2>1. poll.user \in OrNobody(Users)
    BY <1>1 DEF Reads
  <2>2. trips' \in [Users -> OrNobody(Users)]
    BY <1>4, <2>1 DEF TripsArrive
  <2> QED BY <1>4, <2>2, AskedType DEF TripsArrive
<1>5. CASE SessionExpired
  <2>1. Cleared \in [Users -> OrNobody(Users)]
    BY DEF Cleared, OrNobody
  <2> QED BY <1>5, <2>1, AskedType DEF SessionExpired, Shows, OrNobody
<1>6. CASE Plan \/ CloseBooking \/ OpenAuth \/ CloseAuth
  BY <1>6 DEF Plan, CloseBooking, OpenAuth, CloseAuth, OrNobody
<1>7. CASE SubmitAuth
  <2>1. PICK user \in Users :
           auth' = [NoAuth EXCEPT !.at = "asked", !.user = user, !.plan = pending]
    BY <1>7 DEF SubmitAuth
  <2>2. auth' \in Auths /\ auth'.user \in Users
    BY <2>1 DEF NoAuth, Auths, Phases, OrNobody
  <2> QED BY <1>7, <2>2 DEF SubmitAuth
<1>8. CASE AuthAnswered
  <2>1. PICK token \in fresh :
           /\ owner' = [owner EXCEPT ![token] = auth.user]
           /\ fresh' = fresh \ {token}
           /\ auth' = [auth EXCEPT !.at = "answered", !.token = token]
    BY <1>8 DEF AuthAnswered
  <2>2. auth.user \in OrNobody(Users)
    BY DEF Auths
  <2>3. auth' \in Auths /\ auth'.user \in Users
    BY <1>8, <2>1 DEF AuthAnswered, Auths, Phases, OrNobody
  <2> QED BY <1>8, <2>1, <2>2, <2>3 DEF AuthAnswered
<1>9. CASE AuthFails
  BY <1>9, AskedType DEF AuthFails
<1>10. CASE AuthArrives
  <2>1. auth.token \in OrNobody(Tokens) /\ auth.user \in Users
        /\ auth.plan \in OrNobody(Plans)
    BY <1>10 DEF Auths, AuthArrives
  <2>2. booking' \in OrNobody(Plans) /\ pending' \in OrNobody(Plans)
    BY <1>10, <2>1 DEF AuthArrives, OrNobody
  <2> QED BY <1>10, <2>1, <2>2, AskedType DEF AuthArrives, Shows, OrNobody
<1>11. CASE RecoverAccount
  <2>1. PICK user \in Users :
           owner' = [t \in Tokens |-> IF owner[t] = user THEN Nobody ELSE owner[t]]
    BY <1>11 DEF RecoverAccount
  <2>2. owner' \in [Tokens -> OrNobody(Users)]
    BY <2>1 DEF OrNobody
  <2> QED BY <1>11, <2>2 DEF RecoverAccount
<1>12. CASE SessionEnds
  <2>1. owner' \in [Tokens -> OrNobody(Users)]
    BY <1>12 DEF SessionEnds, OrNobody
  <2> QED BY <1>12, <2>1 DEF SessionEnds
<1>13. CASE Logout
  BY <1>13, AskedType DEF Logout
<1>14. CASE LogoutAnswered
  <2>1. leaving' \in Reads
    BY <1>1, <1>14 DEF LogoutAnswered, Reads, Phases
  <2>2. owner' \in [Tokens -> OrNobody(Users)]
    BY <1>14 DEF LogoutAnswered, OrNobody
  <2> QED BY <1>14, <2>1, <2>2 DEF LogoutAnswered
<1>15. CASE LogoutFails
  BY <1>15, AskedType DEF LogoutFails
<1>16. CASE LogoutArrives
  BY <1>16, AskedType DEF LogoutArrives, Cleared, OrNobody
<1>17. CASE OtherTab
  <2>1. owner' \in [Tokens -> OrNobody(Users)]
    BY <1>17 DEF OtherTab, OrNobody
  <2>2. cookie' \in OrNobody(Tokens) /\ fresh' \subseteq Tokens /\ since' \subseteq Users
    BY <1>17 DEF OtherTab, OrNobody
  <2> QED BY <1>17, <2>1, <2>2 DEF OtherTab
<1>18. CASE UNCHANGED deskVars
  BY <1>18 DEF deskVars
<1> QED BY <1>2, <1>3, <1>4, <1>5, <1>6, <1>7, <1>8, <1>9, <1>10, <1>11, <1>12, <1>13,
           <1>14, <1>15, <1>16, <1>17, <1>18 DEF DeskNext

(***************************************************************************)
(* Type correctness of the travel desk, for any number of users and        *)
(* sessions (context.tsx, the table sessions).                             *)
(***************************************************************************)
THEOREM DeskTypes == DeskSpec => []DeskTypeOK
<1> QED BY DeskTypeInit, DeskTypeNext, PTL DEF DeskSpec

(***************************************************************************)
(* Accounts are kept apart.  What makes it inductive is whose the sessions *)
(* are that the reads under way were sent with: they belong to somebody    *)
(* who signed in since the last sign-out, and, unless the page was misled, *)
(* the cookie's session and the poll's belong to the user that is shown.   *)
(***************************************************************************)
Belongs(t, u) == t \in Tokens \ fresh /\ owner[t] \in {u, Nobody}

SessionsKnown ==
    /\ \A t \in fresh : owner[t] = Nobody
    /\ cookie \notin fresh

AuthOwned == auth.at = "answered" => Belongs(auth.token, auth.user)

\* An answer to a read of the account is about its session, however late it is.
ReadOwned ==
    /\ me.at # "idle" => me.token \notin fresh
    /\ me.at = "answered" /\ me.user # Nobody => Belongs(me.token, me.user)

SignedIn(token) == token # Nobody => \E u \in since : Belongs(token, u)

PollSignedIn ==
    poll.at # "idle" =>
        /\ account # Nobody
        /\ SignedIn(poll.token)
        /\ poll.at = "answered" => poll.user \in since \cup {Nobody}

HeldInv == SignedIn(cookie) /\ PollSignedIn /\ HeldSinceSignIn

\* What holds of a page that was not misled.
AccountOwned == account # Nobody => Belongs(cookie, account)

PollOwned ==
    poll.at # "idle" =>
        /\ Belongs(poll.token, account)
        /\ poll.at = "answered" => poll.user \in {account, Nobody}

NotMisledInv == ~misled => AccountOwned /\ PollOwned /\ TripsScoped

DeskInv == SessionsKnown /\ AuthOwned /\ ReadOwned /\ HeldInv /\ NotMisledInv

\* The invariant says what is promised.
LEMMA DeskInvApart == DeskTypeOK /\ DeskInv => AccountsApart
<1> SUFFICES ASSUME DeskTypeOK, DeskInv PROVE AccountsApart
  OBVIOUS
<1>1. HeldSinceSignIn
  BY DEF DeskInv, HeldInv
<1>2. ASSUME ~misled PROVE AccountQueriesScoped
  <2>1. TripsScoped /\ AccountOwned
    BY <1>2 DEF DeskInv, NotMisledInv
  <2>2. ASSUME since = {} PROVE account = Nobody /\ trips = Cleared
    <3>1. cookie = Nobody
      BY <2>2 DEF DeskInv, HeldInv, SignedIn
    <3>2. account = Nobody
      BY <2>1, <3>1, DeskAssumption DEF AccountOwned, Belongs
    <3>3. \A u \in Users : trips[u] = Nobody
      BY <1>1, <2>2 DEF HeldSinceSignIn
    <3> QED BY <3>2, <3>3 DEF DeskTypeOK, Cleared
  <2> QED BY <2>1, <2>2 DEF AccountQueriesScoped, ClearedOnLogout
<1> QED BY <1>1, <1>2 DEF AccountsApart, ScopedUnlessMisled

LEMMA DeskInvInit == DeskInit => DeskInv
<1> SUFFICES ASSUME DeskInit PROVE DeskInv
  OBVIOUS
<1>1. PICK u \in Users : /\ owner = [t \in Tokens |-> IF t = cookie THEN u ELSE Nobody]
                         /\ since = IF cookie = Nobody THEN {} ELSE {u}
  BY DEF DeskInit
<1>2. /\ cookie \in OrNobody(Tokens) /\ fresh = Tokens \ {cookie} /\ account = Nobody
      /\ trips = [v \in Users |-> Nobody]
      /\ me.at = "asked" /\ me.token = cookie /\ poll.at = "idle" /\ auth.at = "idle"
  BY DEF DeskInit, Idle, NoAuth
<1>3. SignedIn(cookie)
  BY <1>1, <1>2 DEF SignedIn, Belongs, OrNobody
<1> QED BY <1>1, <1>2, <1>3 DEF DeskInv, SessionsKnown, AuthOwned, ReadOwned, HeldInv,
           PollSignedIn, HeldSinceSignIn, NotMisledInv, AccountOwned, PollOwned, TripsScoped

\* A session that belongs to a user keeps to them while sessions only end.
LEMMA SessionsEnd ==
    ASSUME DeskTypeOK, DeskInv,
           owner' \in [Tokens -> OrNobody(Users)],
           \A t \in Tokens : owner'[t] \in {owner[t], Nobody},
           UNCHANGED <<fresh, cookie, account, me, trips, poll, auth, ghost_vars>>
    PROVE  DeskInv'
<1>1. \A t, u : Belongs(t, u) => Belongs(t, u)'
  BY DEF Belongs
<1>2. SessionsKnown'
  BY DEF DeskInv, SessionsKnown, DeskTypeOK
<1>3. AuthOwned' /\ ReadOwned'
  BY <1>1 DEF DeskInv, AuthOwned, ReadOwned
<1>4. HeldInv'
  BY <1>1 DEF DeskInv, HeldInv, SignedIn, PollSignedIn, HeldSinceSignIn, ghost_vars
<1>5. NotMisledInv'
  BY <1>1 DEF DeskInv, NotMisledInv, AccountOwned, PollOwned, TripsScoped, ghost_vars
<1> QED BY <1>2, <1>3, <1>4, <1>5 DEF DeskInv

\* A step that only changes who may do what keeps DeskInv.
LEMMA DialogStep ==
    ASSUME DeskInv, UNCHANGED <<session_vars, account, me, trips, poll, auth, ghost_vars>>
    PROVE  DeskInv'
BY DEF DeskInv, SessionsKnown, AuthOwned, ReadOwned, HeldInv, SignedIn, PollSignedIn,
       HeldSinceSignIn, NotMisledInv, AccountOwned, PollOwned, TripsScoped, Belongs,
       session_vars, ghost_vars

\* A session is created: nothing that was sent before has its token.
LEMMA SessionCreated ==
    ASSUME DeskTypeOK, DeskInv, NEW token \in fresh, NEW user \in Users,
           owner' = [owner EXCEPT ![token] = user],
           fresh' = fresh \ {token}
    PROVE  /\ \A t, u : Belongs(t, u) => Belongs(t, u)'
           /\ token \in Tokens \ fresh' /\ owner'[token] = user
           /\ \A t \in fresh' : owner'[t] = Nobody
BY DEF DeskInv, SessionsKnown, Belongs, DeskTypeOK

\* Every step keeps DeskInv.
LEMMA DeskNextInv == DeskTypeOK /\ DeskTypeOK' /\ DeskInv /\ [DeskNext]_deskVars => DeskInv'
<1> SUFFICES ASSUME DeskTypeOK, DeskTypeOK', DeskInv, [DeskNext]_deskVars PROVE DeskInv'
  OBVIOUS
<1> DEFINE Parts == /\ SessionsKnown /\ AuthOwned /\ ReadOwned
                    /\ SignedIn(cookie) /\ PollSignedIn /\ HeldSinceSignIn
                    /\ ~misled => AccountOwned /\ PollOwned /\ TripsScoped
<1>0. Parts /\ (Parts' => DeskInv')
  BY DEF DeskInv, HeldInv, NotMisledInv
<1> USE DEF SessionsKnown, AuthOwned, ReadOwned, SignedIn, PollSignedIn, HeldSinceSignIn,
            AccountOwned, PollOwned, TripsScoped, Belongs, session_vars, ghost_vars
<1>1. me \in Reads /\ poll \in Reads /\ auth \in Auths
  BY DEF DeskTypeOK
<1>2. CASE AccountAsked
  BY <1>0, <1>2, AskedType DEF AccountAsked
<1>3. CASE AccountAnswered
  <2>1. /\ me'.at = "answered" /\ me'.token = me.token /\ me'.user = SessionUser(me.token)
    BY <1>0, <1>1, <1>3, AnsweredType DEF AccountAnswered
  <2>2. me.token \in OrNobody(Tokens) /\ me.token \notin fresh
    BY <1>0, <1>1, <1>3 DEF AccountAnswered, Reads
  <2>3. me'.user # Nobody => me.token \in Tokens \ fresh /\ owner[me.token] = me'.user
    BY <2>1, <2>2 DEF SessionUser, OrNobody
  <2> QED BY <1>0, <1>3, <2>1, <2>2, <2>3 DEF AccountAnswered
<1>4. CASE AccountArrives
  <2>1. /\ account' = me.user /\ me' = Idle
        /\ poll' = IF me.user = account THEN poll ELSE Idle
        /\ misled' = (misled \/ me.token # cookie)
        /\ UNCHANGED <<owner, fresh, cookie, trips, auth, since>>
    BY <1>4 DEF AccountArrives, Shows
  <2>2. me.user # Nobody => Belongs(me.token, me.user)
    BY <1>0, <1>4 DEF AccountArrives
  <2> QED BY <1>0, <2>1, <2>2, AskedType
<1>5. CASE AccountFails
  BY <1>0, <1>5, AskedType DEF AccountFails
<1>6. CASE TripsAsked
  BY <1>0, <1>6, AskedType DEF TripsAsked
<1>7. CASE TripsAnswered
  <2>1. /\ poll'.at = "answered" /\ poll'.token = poll.token
        /\ poll'.user = SessionUser(poll.token)
    BY <1>0, <1>1, <1>7, AnsweredType DEF TripsAnswered
  <2>2. poll'.user \in since \cup {Nobody}
    BY <1>0, <1>7, <2>1 DEF SessionUser, TripsAnswered
  <2>3. ~misled => poll'.user \in {account, Nobody}
    BY <1>0, <1>7, <2>1 DEF SessionUser, TripsAnswered
  <2> QED BY <1>0, <1>7, <2>1, <2>2, <2>3 DEF TripsAnswered
<1>8. CASE TripsArrive
  <2>1. account \in Users /\ poll.user \in since
    BY <1>0, <1>8 DEF TripsArrive, DeskTypeOK, OrNobody
  <2>2. ~misled => poll.user = account
    BY <1>0, <1>8 DEF TripsArrive
  <2>3. trips' = [trips EXCEPT ![account] = poll.user] /\ trips \in [Users -> OrNobody(Users)]
    BY <1>8 DEF TripsArrive, DeskTypeOK
  <2>4. \A u \in Users : trips'[u] = IF u = account THEN poll.user ELSE trips[u]
    BY <2>1, <2>3
  <2> QED BY <1>0, <1>8, <2>1, <2>2, <2>4, AskedType DEF TripsArrive
<1>9. CASE SessionExpired
  <2>1. /\ account' = Nobody /\ poll' = Idle
        /\ \A u \in Users : trips'[u] = Nobody
        /\ UNCHANGED <<owner, fresh, cookie, me, auth, since>>
    BY <1>0, <1>9 DEF SessionExpired, Shows, Cleared
  <2> QED BY <1>0, <2>1, AskedType
<1>10. CASE TripsFail
  BY <1>0, <1>10, AskedType DEF TripsFail
<1>11. CASE Plan \/ CloseBooking \/ OpenAuth \/ CloseAuth
  BY <1>11, DialogStep DEF Plan, CloseBooking, OpenAuth, CloseAuth
<1>12. CASE SubmitAuth
  <2>1. PICK user \in Users :
           auth' = [NoAuth EXCEPT !.at = "asked", !.user = user, !.plan = pending]
    BY <1>12 DEF SubmitAuth
  <2>2. auth'.at = "asked"
    BY <2>1 DEF NoAuth
  <2> QED BY <1>0, <1>12, <2>2 DEF SubmitAuth
<1>13. CASE AuthAnswered
  <2>1. PICK token \in fresh :
           /\ owner' = [owner EXCEPT ![token] = auth.user]
           /\ fresh' = fresh \ {token}
           /\ auth' = [auth EXCEPT !.at = "answered", !.token = token]
    BY <1>13 DEF AuthAnswered
  <2>2. /\ auth'.token = token /\ auth'.user = auth.user
        /\ auth.user \in Users
    BY <1>0, <1>1, <1>13, <2>1 DEF Auths, AuthAnswered, DeskTypeOK
  <2>3. /\ \A t, u : Belongs(t, u) => Belongs(t, u)'
        /\ token \in Tokens \ fresh' /\ owner'[token] = auth.user
        /\ \A t \in fresh' : owner'[t] = Nobody
    BY <2>1, <2>2, SessionCreated
  <2>4. UNCHANGED <<cookie, account, me, trips, poll, since, misled>> /\ fresh' \subseteq fresh
    BY <1>13, <2>1 DEF AuthAnswered
  <2>5. SessionsKnown' /\ AuthOwned'
    BY <1>0, <2>2, <2>3, <2>4
  <2> HIDE DEF Belongs
  <2>6. ReadOwned' /\ SignedIn(cookie)' /\ PollSignedIn' /\ HeldSinceSignIn'
    BY <1>0, <2>3, <2>4
  <2>7. (~misled => AccountOwned /\ PollOwned /\ TripsScoped)'
    BY <1>0, <2>3, <2>4
  <2> QED BY <1>0, <2>5, <2>6, <2>7
<1>14. CASE AuthFails
  BY <1>0, <1>14, AskedType DEF AuthFails
<1>15. CASE AuthArrives
  <2>1. /\ cookie' = auth.token /\ account' = auth.user /\ auth' = NoAuth
        /\ since' = since \cup {auth.user}
        /\ poll' = IF auth.user = account THEN poll ELSE Idle
        /\ UNCHANGED <<owner, fresh, me, trips, misled>>
    BY <1>15 DEF AuthArrives, Shows
  <2>2. Belongs(auth.token, auth.user) /\ auth.user \in Users
    BY <1>0, <1>15 DEF AuthArrives, DeskTypeOK
  <2>3. auth.user # Nobody
    BY <2>2, DeskAssumption
  <2> QED BY <1>0, <2>1, <2>2, <2>3, AskedType
<1>16. CASE RecoverAccount \/ SessionEnds \/ LogoutAnswered
  <2>1. \A t \in Tokens : owner'[t] \in {owner[t], Nobody}
    BY <1>16 DEF RecoverAccount, SessionEnds, LogoutAnswered, DeskTypeOK
  <2>2. UNCHANGED <<fresh, cookie, account, me, trips, poll, auth, ghost_vars>>
    BY <1>16 DEF RecoverAccount, SessionEnds, LogoutAnswered
  <2>3. owner' \in [Tokens -> OrNobody(Users)]
    BY DEF DeskTypeOK
  <2> QED BY <2>1, <2>2, <2>3, SessionsEnd
<1>17. CASE Logout \/ LogoutFails
  BY <1>17, DialogStep DEF Logout, LogoutFails
<1>18. CASE LogoutArrives
  <2>1. /\ cookie' = Nobody /\ account' = Nobody /\ poll' = Idle
        /\ \A u \in Users : trips'[u] = Nobody
        /\ UNCHANGED <<owner, fresh, me, auth>>
    BY <1>18 DEF LogoutArrives, Cleared
  <2>2. Nobody \notin fresh
    BY DeskAssumption DEF DeskTypeOK
  <2> QED BY <1>0, <2>1, <2>2, AskedType
<1>19. CASE OtherTab
  <2>1. UNCHANGED <<account, me, trips, poll, auth>> /\ misled' = (misled \/ account # Nobody)
    BY <1>19 DEF OtherTab
  <2>2. poll.at # "idle" => account # Nobody
    BY <1>0
  <2>3. CASE cookie # Nobody /\ owner' = [owner EXCEPT ![cookie] = Nobody]
             /\ cookie' = Nobody /\ UNCHANGED <<fresh, since>>
    <3>1. \A t, u : Belongs(t, u) => Belongs(t, u)'
      BY <2>3 DEF DeskTypeOK
    <3>2. \A t \in fresh : owner'[t] = Nobody
      BY <1>0, <2>3 DEF DeskTypeOK
    <3>3. Nobody \notin fresh
      BY DeskAssumption DEF DeskTypeOK
    <3>4. SessionsKnown' /\ SignedIn(cookie)'
      BY <2>3, <3>2, <3>3
    <3> HIDE DEF Belongs
    <3>5. AuthOwned' /\ ReadOwned' /\ PollSignedIn' /\ HeldSinceSignIn'
      BY <1>0, <2>1, <2>3, <3>1
    <3>6. (~misled => AccountOwned /\ PollOwned /\ TripsScoped)'
      BY <1>0, <2>1, <2>2
    <3> QED BY <1>0, <3>4, <3>5, <3>6
  <2>4. ASSUME NEW token \in fresh, NEW user \in Users,
               owner' = [owner EXCEPT ![token] = user], cookie' = token,
               fresh' = fresh \ {token}, since' = since \cup {user}
        PROVE  DeskInv'
    <3>1. /\ \A t, u : Belongs(t, u) => Belongs(t, u)'
          /\ token \in Tokens \ fresh' /\ owner'[token] = user
          /\ \A t \in fresh' : owner'[t] = Nobody
      BY <2>4, SessionCreated
    <3>2. SessionsKnown' /\ SignedIn(cookie)'
      BY <2>4, <3>1
    <3> HIDE DEF Belongs
    <3>3. AuthOwned' /\ ReadOwned' /\ PollSignedIn' /\ HeldSinceSignIn'
      BY <1>0, <2>1, <2>4, <3>1
    <3>4. (~misled => AccountOwned /\ PollOwned /\ TripsScoped)'
      BY <1>0, <2>1, <2>2
    <3> QED BY <1>0, <3>2, <3>3, <3>4
  <2> QED BY <1>19, <2>3, <2>4 DEF OtherTab
<1>20. CASE UNCHANGED deskVars
  <2>1. UNCHANGED <<session_vars, account, me, trips, poll, auth, ghost_vars>>
    BY <1>20 DEF deskVars
  <2> QED BY <2>1, DialogStep
<1> QED BY <1>2, <1>3, <1>4, <1>5, <1>6, <1>7, <1>8, <1>9, <1>10, <1>11, <1>12, <1>13,
           <1>14, <1>15, <1>16, <1>17, <1>18, <1>19, <1>20 DEF DeskNext

(***************************************************************************)
(* Accounts are kept apart, with or without other tabs and however late    *)
(* the account is read: the journeys under a user's name are that user's   *)
(* and a sign-out clears them, unless the page was misled about who is     *)
(* signed in, and even then no journeys are kept of a user who did not     *)
(* sign in since the last sign-out (context.tsx).                          *)
(***************************************************************************)
THEOREM KeptApart == DeskSpec => []AccountsApart
<1>1. DeskTypeOK /\ DeskTypeOK' /\ DeskInv /\ [DeskNext]_deskVars => DeskInv'
  BY DeskNextInv
<1> QED BY <1>1, DeskInvInit, DeskInvApart, DeskTypes, PTL DEF DeskSpec
=============================================================================
