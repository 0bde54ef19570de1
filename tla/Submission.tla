----------------------------- MODULE Submission -----------------------------
(***************************************************************************)
(* The journey form of the React front end (BookingDialog,                 *)
(* src/frontend/src/components/Booking.tsx) and the part of the server     *)
(* that stores what it submits (POST /api/jobs in src/website/app.py,      *)
(* Store.create_job in src/website/store.py).                              *)
(*                                                                         *)
(* Every form carries a key of its own.  A post may be stored and its      *)
(* answer lost, so the traveller may submit the same form again, edited or *)
(* not: the server tells the two apart by the key and a fingerprint.  A    *)
(* session that ends closes the form while its post is under way, and the  *)
(* late answer finds another form open, or none.                           *)
(***************************************************************************)
EXTENDS Integers, FiniteSets, Sequences

CONSTANTS
    Keys,       \* request keys, one per form that is opened
    MaxPosts,   \* bound: posts that are sent
    MaxSeats,   \* travellers of a journey: four
    MaxActive,  \* active requests of an account: ten
    Texts,      \* what may be typed in the fields no property tells apart
    NoForm      \* no form, no post, no row

VARIABLES
    mode,    \* the server's booking mode
    form,    \* the open form
    posts,   \* the posts, in the order they were sent
    rows,    \* rows[p]: the stored request that post p created
    keyRow,  \* the table request_keys: the post whose row has the key
    others   \* active requests of the account that other devices stored

store_vars == <<rows, keyRow, others>>
formVars == <<mode, form, posts, store_vars>>

Posts == 1 .. MaxPosts

\* A traveller's name: the demo's "Sample Rider", its surname only, or the user's.
Names == {"sample", "rider", "own"}

(***************************************************************************)
(* What a form holds.  "general" is a form without a chosen bus; the other *)
(* plans are a bus chosen to be watched, or for its seats to be prepared.  *)
(***************************************************************************)
Contents ==
    [plan : {"general", "watch", "prepare"}, watch : BOOLEAN, names : Seq(Names),
     phone : {"sample", "own"}, text : Texts]

\* The open form, a post, and a row of the table jobs.
Forms == [key : Keys, step : 0 .. 2, pending : BOOLEAN, content : Contents]
PostRecords ==
    [key : Keys, content : Contents, server : {"coming", "saved", "refused"}, awaited : BOOLEAN]
Rows == [content : Contents, mode : {"demo", "live"}, active : BOOLEAN]

ASSUME FormAssumption ==
    /\ MaxPosts \in Nat /\ MaxSeats \in Nat \ {0} /\ MaxActive \in Nat
    /\ NoForm \notin Posts /\ NoForm \notin Forms /\ NoForm \notin Rows

Selected(content) == content.plan # "general"
Demo(content) == mode = "demo" /\ ~Selected(content)

\* The mode a request is stored with.
StoredMode(content) == IF content.watch \/ Selected(content) THEN "live" ELSE mode

FormTypeOK ==
    /\ mode \in {"demo", "live"}
    /\ form \in {NoForm} \cup Forms
    /\ posts \in Seq(PostRecords)
    /\ Len(posts) <= MaxPosts
    /\ rows \in [Posts -> {NoForm} \cup Rows]
    /\ keyRow \in [Keys -> {NoForm} \cup Posts]
    /\ others \in Nat

FormInit ==
    /\ mode \in {"demo", "live"}
    /\ form = NoForm
    /\ posts = <<>>
    /\ rows = [p \in Posts |-> NoForm]
    /\ keyRow = [k \in Keys |-> NoForm]
    /\ others \in 0 .. MaxActive

Stored == {p \in Posts : rows[p] # NoForm}
Active == {p \in Stored : rows[p].active}

(***************************************************************************)
(* The form.  A bus chosen for preparation needs a live provider.          *)
(***************************************************************************)
FirstContent(plan, seats, text) ==
    LET sampled == mode = "demo" /\ plan = "general" IN
    [plan |-> plan, watch |-> plan = "watch",
     names |-> [i \in 1 .. seats |-> IF sampled THEN "sample" ELSE "own"],
     phone |-> IF sampled THEN "sample" ELSE "own", text |-> text]

OpenForm ==
    /\ form = NoForm
    /\ \E k \in Keys, plan \in {"general", "watch", "prepare"},
          seats \in 1 .. MaxSeats, text \in Texts :
        /\ \A p \in 1 .. Len(posts) : posts[p].key # k
        /\ plan = "general" => seats = 1
        /\ plan = "prepare" => mode = "live"
        /\ form' = [key |-> k, step |-> 0, pending |-> FALSE,
                    content |-> FirstContent(plan, seats, text)]
    /\ UNCHANGED <<mode, posts, store_vars>>

\* A field of step n takes a new value; fields stay open while a post is under way.
\* Bound: an edit that no later post can carry is left out.
Edits(n, content) ==
    /\ form # NoForm /\ form.step = n
    /\ Len(posts) < MaxPosts
    /\ form' = [form EXCEPT !.content = content]
    /\ UNCHANGED <<mode, posts, store_vars>>

\* To watch only clears what the demo filled in, the surname of a renamed traveller excepted.
Unsampled(content) ==
    [content EXCEPT
        !.phone = "own",
        !.names = [i \in DOMAIN content.names |->
                      IF content.names[i] = "sample" THEN "own" ELSE content.names[i]]]

ChooseWatch ==
    /\ form # NoForm
    /\ LET c == form.content
       IN Edits(0, [(IF Demo(c) THEN Unsampled(c) ELSE c) EXCEPT !.watch = TRUE])

ChoosePrepare ==
    /\ form # NoForm
    /\ Selected(form.content) => mode = "live"
    /\ Edits(0, [form.content EXCEPT !.watch = FALSE])

ResizedMutant(content, seats) ==
    LET fresh == IF Demo(content) THEN "sample" ELSE "own"
    IN [content EXCEPT !.names =
           [i \in 1 .. seats |-> IF i \in DOMAIN content.names THEN content.names[i] ELSE fresh]]

Resized(content, seats) ==
    LET fresh == IF Demo(content) /\ ~content.watch THEN "sample" ELSE "own"
    IN [content EXCEPT !.names =
           [i \in 1 .. seats |-> IF i \in DOMAIN content.names THEN content.names[i] ELSE fresh]]

SeatCount ==
    /\ form # NoForm /\ ~Selected(form.content)
    /\ \E seats \in 1 .. MaxSeats : Edits(0, Resized(form.content, seats))

\* With a chosen bus only the seat preference and the fallback are open.
EditTrip ==
    /\ form # NoForm
    /\ \E text \in Texts : Edits(0, [form.content EXCEPT !.text = text])

EditWindow ==
    /\ form # NoForm
    /\ \E text \in Texts : Edits(1, [form.content EXCEPT !.text = text])

\* A first name that is typed over leaves the surname the demo filled in.
EditTravellers ==
    /\ form # NoForm
    /\ LET c == form.content IN
        \/ \E i \in DOMAIN c.names, name \in {"rider", "own"} :
            /\ name = "rider" => c.names[i] = "sample"
            /\ Edits(2, [c EXCEPT !.names[i] = name])
        \/ Edits(2, [c EXCEPT !.phone = "own"])
        \/ \E text \in Texts : Edits(2, [c EXCEPT !.text = text])

ContinueMutant ==
    /\ form # NoForm /\ form.step <= 2
    /\ form' = [form EXCEPT !.step = @ + 1]
    /\ UNCHANGED <<mode, posts, store_vars>>

Continue ==
    /\ form # NoForm /\ form.step < 2
    /\ form' = [form EXCEPT !.step = @ + 1]
    /\ UNCHANGED <<mode, posts, store_vars>>

Back ==
    /\ form # NoForm /\ form.step > 0 /\ ~form.pending
    /\ form' = [form EXCEPT !.step = @ - 1]
    /\ UNCHANGED <<mode, posts, store_vars>>

Submit ==
    /\ form # NoForm /\ form.step = 2 /\ ~form.pending
    /\ Len(posts) < MaxPosts
    /\ posts' = Append(posts, [key |-> form.key, content |-> form.content,
                               server |-> "coming", awaited |-> TRUE])
    /\ form' = [form EXCEPT !.pending = TRUE]
    /\ UNCHANGED <<mode, store_vars>>

\* onSuccess runs for a dialog that is gone as well: it closes whichever form is open.
SaveAnswered ==
    \E p \in 1 .. Len(posts) :
        /\ posts[p].awaited /\ posts[p].server = "saved"
        /\ posts' = [posts EXCEPT ![p].awaited = FALSE]
        /\ form' = NoForm
        /\ UNCHANGED <<mode, store_vars>>

\* A refusal, or no answer at all: the same form may be submitted again.
SaveFails ==
    \E p \in 1 .. Len(posts) :
        /\ posts[p].awaited
        /\ posts' = [posts EXCEPT ![p].awaited = FALSE]
        /\ form' = IF form # NoForm /\ form.key = posts[p].key
                     THEN [form EXCEPT !.pending = FALSE] ELSE form
        /\ UNCHANGED <<mode, store_vars>>

CloseForm ==
    /\ form # NoForm /\ ~form.pending
    /\ form' = NoForm
    /\ UNCHANGED <<mode, posts, store_vars>>

\* The session ends: the form goes, its post is still under way.
FormGoes ==
    /\ form # NoForm
    /\ form' = NoForm
    /\ UNCHANGED <<mode, posts, store_vars>>

(***************************************************************************)
(* The server.  Store.create_job is one transaction.                       *)
(***************************************************************************)
Answers(p, answer) == posts' = [posts EXCEPT ![p].server = answer]

Fingerprint(content) == <<StoredMode(content), content>>

FullMutant == Cardinality(Active) + others > MaxActive

Full == Cardinality(Active) + others >= MaxActive

RepeatsMutant(p) ==
    /\ keyRow[posts[p].key] # NoForm
    /\ Answers(p, "saved")
    /\ UNCHANGED store_vars

\* A key that has a row: the same request is answered with it, another is refused.
Repeats(p) ==
    LET previous == rows[keyRow[posts[p].key]] IN
    /\ keyRow[posts[p].key] # NoForm
    /\ IF <<previous.mode, previous.content>> = Fingerprint(posts[p].content)
         THEN Answers(p, "saved") ELSE Answers(p, "refused")
    /\ UNCHANGED store_vars

Stores(p) ==
    /\ keyRow[posts[p].key] = NoForm
    /\ ~Full
    /\ rows' = [rows EXCEPT ![p] = [content |-> posts[p].content, active |-> TRUE,
                                    mode |-> StoredMode(posts[p].content)]]
    /\ keyRow' = [keyRow EXCEPT ![posts[p].key] = p]
    /\ Answers(p, "saved")
    /\ UNCHANGED others

\* The limit, or the checks that come before the transaction.
Refuses(p) == Answers(p, "refused") /\ UNCHANGED store_vars

CreateJob ==
    \E p \in 1 .. Len(posts) :
        /\ posts[p].server = "coming"
        /\ Repeats(p) \/ Stores(p) \/ Refuses(p)
        /\ UNCHANGED <<mode, form>>

RequestFinishes ==
    /\ \E p \in Active : rows' = [rows EXCEPT ![p].active = FALSE]
    /\ UNCHANGED <<mode, form, posts, keyRow, others>>

OtherDevice ==
    /\ \/ ~Full /\ others' = others + 1
       \/ others > 0 /\ others' = others - 1
    /\ UNCHANGED <<mode, form, posts, rows, keyRow>>

FormNext ==
    \/ OpenForm \/ ChooseWatch \/ ChoosePrepare \/ SeatCount
    \/ EditTrip \/ EditWindow \/ EditTravellers \/ Continue \/ Back
    \/ Submit \/ SaveAnswered \/ SaveFails \/ CloseForm \/ FormGoes
    \/ CreateJob \/ RequestFinishes \/ OtherDevice

FormSpec == FormInit /\ [][FormNext]_formVars

(***************************************************************************)
(* A submission is saved once and as it was submitted: two stored requests *)
(* never share the key of a form, whatever was lost and sent again, and a  *)
(* post is answered "saved" only when the row of its key holds what this   *)
(* very post said (Store.create_job, the table request_keys).              *)
(***************************************************************************)
OneRequestPerForm ==
    \A p, q \in Stored : p # q => posts[p].key # posts[q].key

SavedAsSubmitted ==
    \A p \in 1 .. Len(posts) :
        posts[p].server = "saved" =>
            /\ keyRow[posts[p].key] # NoForm
            /\ rows[keyRow[posts[p].key]] # NoForm
            /\ rows[keyRow[posts[p].key]].content = posts[p].content

SavedOnceAsSubmitted == OneRequestPerForm /\ SavedAsSubmitted

(***************************************************************************)
(* An account has at most MaxActive active requests, with several posts    *)
(* under way and other devices storing theirs (Store.create_job counts and *)
(* inserts in one transaction).  A request that expired is taken to stay   *)
(* expired here; the run job_expired_returns shows how it may not.         *)
(***************************************************************************)
ActiveWithinLimit == Cardinality(Active) + others <= MaxActive

(***************************************************************************)
(* What the demo fills in for a traveller stays in the demo: a request     *)
(* stored for live monitoring carries neither the sample phone number nor  *)
(* a traveller with the sample name, however the intent, the number of     *)
(* passengers and the fields were changed before (BookingDialog).          *)
(***************************************************************************)
SampleStaysInDemo ==
    \A p \in Stored :
        rows[p].mode = "live" =>
            /\ rows[p].content.phone = "own"
            /\ \A i \in DOMAIN rows[p].content.names : rows[p].content.names[i] # "sample"
=============================================================================
