-------------------------- MODULE SubmissionProofs --------------------------
(***************************************************************************)
(* Proofs about module Submission, for every number of keys, posts,        *)
(* travellers and active requests.                                         *)
(***************************************************************************)
EXTENDS Submission, SequenceTheorems, FiniteSetTheorems, TLAPS

(***************************************************************************)
(* Contents.                                                               *)
(***************************************************************************)

\* A list of names made over an interval is a list of names (the forms' travellers).
LEMMA NamesOverInterval ==
    ASSUME NEW n \in Nat, NEW f \in [1 .. n -> Names]
    PROVE  f \in Seq(Names)
BY SeqDef

\* The first contents of a form are contents (the initial state of BookingDialog).
LEMMA FirstContentType ==
    ASSUME NEW plan \in {"general", "watch", "prepare"}, NEW seats \in 1 .. MaxSeats,
           NEW text \in Texts
    PROVE  FirstContent(plan, seats, text) \in Contents
<1> DEFINE name == IF mode = "demo" /\ plan = "general" THEN "sample" ELSE "own"
<1>1. seats \in Nat
  BY FormAssumption
<1>2. [i \in 1 .. seats |-> name] \in [1 .. seats -> Names]
  BY DEF Names
<1>3. [i \in 1 .. seats |-> name] \in Seq(Names)
  BY <1>1, <1>2, NamesOverInterval
<1> QED BY <1>3 DEF FirstContent, Contents

\* What chooseIntent() clears leaves contents.
LEMMA UnsampledType ==
    ASSUME NEW c \in Contents
    PROVE  Unsampled(c) \in Contents
<1> DEFINE names == [i \in DOMAIN c.names |->
                        IF c.names[i] = "sample" THEN "own" ELSE c.names[i]]
<1>1. c.names \in Seq(Names) /\ Len(c.names) \in Nat /\ DOMAIN c.names = 1 .. Len(c.names)
  BY DEF Contents
<1>2. \A i \in 1 .. Len(c.names) : c.names[i] \in Names
  BY <1>1, ElementOfSeq
<1>3. names \in [1 .. Len(c.names) -> Names]
  BY <1>1, <1>2 DEF Names
<1>4. names \in Seq(Names)
  BY <1>1, <1>3, NamesOverInterval
<1> HIDE DEF names
<1>5. Unsampled(c) = [c EXCEPT !.phone = "own", !.names = names]
  BY DEF Unsampled, names
<1> QED BY <1>4, <1>5 DEF Contents

\* seatCount() makes contents of contents.
LEMMA ResizedType ==
    ASSUME NEW c \in Contents, NEW seats \in 1 .. MaxSeats
    PROVE  Resized(c, seats) \in Contents
<1> DEFINE fresh == IF Demo(c) /\ ~c.watch THEN "sample" ELSE "own"
           names == [i \in 1 .. seats |-> IF i \in DOMAIN c.names THEN c.names[i] ELSE fresh]
<1>1. c.names \in Seq(Names) /\ DOMAIN c.names = 1 .. Len(c.names)
  BY DEF Contents
<1>2. \A i \in DOMAIN c.names : c.names[i] \in Names
  BY <1>1, ElementOfSeq
<1>3. fresh \in Names
  BY DEF Names
<1>4. names \in [1 .. seats -> Names]
  <2> HIDE DEF fresh
  <2> QED BY <1>2, <1>3
<1>5. seats \in Nat
  BY FormAssumption
<1>6. names \in Seq(Names)
  <2> HIDE DEF names
  <2> QED BY <1>4, <1>5, NamesOverInterval
<1>7. Resized(c, seats) = [c EXCEPT !.names = names]
  BY DEF Resized
<1> HIDE DEF names
<1> QED BY <1>6, <1>7 DEF Contents

\* A traveller's name that is typed over leaves contents (passenger()).
LEMMA RenamedType ==
    ASSUME NEW c \in Contents, NEW i \in DOMAIN c.names, NEW name \in Names
    PROVE  [c EXCEPT !.names[i] = name] \in Contents
<1>1. c.names \in Seq(Names) /\ i \in 1 .. Len(c.names)
  BY DEF Contents
<1>2. [c.names EXCEPT ![i] = name] \in Seq(Names)
  BY <1>1, ExceptSeq
<1>3. [c EXCEPT !.names[i] = name] = [c EXCEPT !.names = [c.names EXCEPT ![i] = name]]
  BY DEF Contents
<1> QED BY <1>2, <1>3 DEF Contents

(***************************************************************************)
(* Steps that leave most of the state alone.                               *)
(***************************************************************************)

\* A post that is answered, or whose answer is applied, stays the post it was.
LEMMA PostChanged ==
    ASSUME posts \in Seq(PostRecords), NEW p \in 1 .. Len(posts),
           NEW s \in {"coming", "saved", "refused"}, NEW w \in BOOLEAN,
           posts' = [posts EXCEPT ![p] = [posts[p] EXCEPT !.server = s, !.awaited = w]]
    PROVE  /\ posts' \in Seq(PostRecords)
           /\ Len(posts') = Len(posts)
           /\ \A q \in 1 .. Len(posts) :
                 /\ posts'[q].key = posts[q].key
                 /\ posts'[q].content = posts[q].content
                 /\ q # p => posts'[q] = posts[q]
           /\ posts'[p].server = s
<1>1. posts[p] \in PostRecords
  BY ElementOfSeq
<1> DEFINE e == [posts[p] EXCEPT !.server = s, !.awaited = w]
<1>2. e \in PostRecords /\ e.key = posts[p].key /\ e.content = posts[p].content /\ e.server = s
  BY <1>1 DEF PostRecords
<1> HIDE DEF e
<1>3. posts' = [posts EXCEPT ![p] = e]
  BY DEF e
<1>4. /\ posts' \in Seq(PostRecords)
      /\ Len(posts') = Len(posts)
      /\ \A q \in 1 .. Len(posts) : posts'[q] = IF q = p THEN e ELSE posts[q]
  BY <1>2, <1>3, ExceptSeq
<1> QED BY <1>2, <1>4

\* SaveAnswered and SaveFails: the answer of a post is applied.
LEMMA AwaitedChanged ==
    ASSUME posts \in Seq(PostRecords), NEW p \in 1 .. Len(posts),
           posts' = [posts EXCEPT ![p].awaited = FALSE]
    PROVE  /\ posts' \in Seq(PostRecords)
           /\ Len(posts') = Len(posts)
           /\ \A q \in 1 .. Len(posts) :
                 /\ posts'[q].key = posts[q].key
                 /\ posts'[q].content = posts[q].content
                 /\ posts'[q].server = posts[q].server
<1>1. posts[p] \in PostRecords
  BY ElementOfSeq
<1> DEFINE s == posts[p].server
<1>2. s \in {"coming", "saved", "refused"}
  BY <1>1 DEF PostRecords
<1>3. [posts[p] EXCEPT !.awaited = FALSE] = [posts[p] EXCEPT !.server = s, !.awaited = FALSE]
  BY <1>1 DEF PostRecords
<1>4. posts' = [posts EXCEPT ![p] = [posts[p] EXCEPT !.server = s, !.awaited = FALSE]]
  BY <1>3
<1>5. /\ posts' \in Seq(PostRecords)
      /\ Len(posts') = Len(posts)
      /\ \A q \in 1 .. Len(posts) :
            /\ posts'[q].key = posts[q].key
            /\ posts'[q].content = posts[q].content
            /\ q # p => posts'[q] = posts[q]
      /\ posts'[p].server = s
  BY <1>2, <1>4, PostChanged
<1> QED BY <1>5

\* CreateJob: the server answers a post.
LEMMA ServerAnswers ==
    ASSUME posts \in Seq(PostRecords), NEW p \in 1 .. Len(posts),
           NEW s \in {"coming", "saved", "refused"}, Answers(p, s)
    PROVE  /\ posts' \in Seq(PostRecords)
           /\ Len(posts') = Len(posts)
           /\ \A q \in 1 .. Len(posts) :
                 /\ posts'[q].key = posts[q].key
                 /\ posts'[q].content = posts[q].content
                 /\ q # p => posts'[q] = posts[q]
           /\ posts'[p].server = s
<1>1. posts[p] \in PostRecords
  BY ElementOfSeq
<1> DEFINE w == posts[p].awaited
<1>2. w \in BOOLEAN
  BY <1>1 DEF PostRecords
<1>3. [posts[p] EXCEPT !.server = s] = [posts[p] EXCEPT !.server = s, !.awaited = w]
  BY <1>1 DEF PostRecords
<1>4. posts' = [posts EXCEPT ![p] = [posts[p] EXCEPT !.server = s, !.awaited = w]]
  BY <1>3 DEF Answers
<1> HIDE DEF w
<1> QED BY <1>2, <1>4, PostChanged
\* What a post is (the body of save.mutate()).
LEMMA PostType ==
    ASSUME FormTypeOK, NEW p \in 1 .. Len(posts)
    PROVE  /\ posts[p] \in PostRecords
           /\ posts[p].key \in Keys /\ posts[p].content \in Contents
           /\ p \in Posts /\ Len(posts) \in Nat
<1>1. posts \in Seq(PostRecords)
  BY DEF FormTypeOK
<1>2. posts[p] \in PostRecords
  BY <1>1, ElementOfSeq
<1>3. Len(posts) \in Nat /\ Len(posts) <= MaxPosts
  BY <1>1, LenProperties DEF FormTypeOK
<1>4. p \in Posts
  BY <1>3, FormAssumption DEF Posts
<1> QED BY <1>2, <1>3, <1>4 DEF PostRecords

(***************************************************************************)
(* Type correctness.                                                       *)
(***************************************************************************)

\* The initial state has the types of module Submission.
LEMMA TypeInit == FormInit => FormTypeOK
<1> SUFFICES ASSUME FormInit PROVE FormTypeOK
  OBVIOUS
<1>1. posts \in Seq(PostRecords) /\ Len(posts) = 0
  BY EmptySeq DEF FormInit
<1>2. others \in Nat
  BY FormAssumption DEF FormInit
<1> QED BY <1>1, <1>2, FormAssumption DEF FormInit, FormTypeOK

\* A step that changes the open form only leaves the types as they are.
LEMMA FormStepType ==
    ASSUME FormTypeOK, form' \in {NoForm} \cup Forms, UNCHANGED <<mode, posts, store_vars>>
    PROVE  FormTypeOK'
BY DEF FormTypeOK, store_vars

\* An edit of the open form leaves the types as they are (update()).
LEMMA EditType ==
    ASSUME FormTypeOK, NEW n \in 0 .. 2, NEW c \in Contents, Edits(n, c)
    PROVE  FormTypeOK'
<1>1. form \in Forms
  BY DEF FormTypeOK, Edits
<1>2. form' = [form EXCEPT !.content = c] /\ UNCHANGED <<mode, posts, store_vars>>
  BY DEF Edits
<1>3. form' \in Forms
  BY <1>1, <1>2 DEF Forms
<1> QED BY <1>2, <1>3, FormStepType

\* Every step keeps the types of module Submission.
LEMMA TypeNext == FormTypeOK /\ [FormNext]_formVars => FormTypeOK'
<1> SUFFICES ASSUME FormTypeOK, [FormNext]_formVars PROVE FormTypeOK'
  OBVIOUS
<1> DEFINE c == form.content
<1>0. form # NoForm => form \in Forms /\ c \in Contents /\ form.step \in 0 .. 2
  BY DEF FormTypeOK, Forms
<1>1. CASE OpenForm
  <2>1. PICK k \in Keys, plan \in {"general", "watch", "prepare"},
             seats \in 1 .. MaxSeats, text \in Texts :
          form' = [key |-> k, step |-> 0, pending |-> FALSE,
                   content |-> FirstContent(plan, seats, text)]
    BY <1>1 DEF OpenForm
  <2>2. form' \in Forms
    BY <2>1, FirstContentType DEF Forms
  <2> QED BY <1>1, <2>2, FormStepType DEF OpenForm
<1>2. CASE ChooseWatch
  <2> DEFINE d == IF Demo(c) THEN Unsampled(c) ELSE c
  <2>1. d \in Contents
    BY <1>0, <1>2, UnsampledType DEF ChooseWatch
  <2>2. Edits(0, [d EXCEPT !.watch = TRUE])
    BY <1>2 DEF ChooseWatch
  <2> HIDE DEF d
  <2>3. [d EXCEPT !.watch = TRUE] \in Contents
    BY <2>1 DEF Contents
  <2> QED BY <2>2, <2>3, EditType
<1>3. CASE ChoosePrepare
  <2>1. [c EXCEPT !.watch = FALSE] \in Contents
    BY <1>0, <1>3 DEF ChoosePrepare, Contents
  <2> QED BY <1>3, <2>1, EditType DEF ChoosePrepare
<1>4. CASE SeatCount
  <2>1. PICK seats \in 1 .. MaxSeats : Edits(0, Resized(c, seats))
    BY <1>4 DEF SeatCount
  <2>2. Resized(c, seats) \in Contents
    BY <1>0, <1>4, ResizedType DEF SeatCount
  <2> QED BY <2>1, <2>2, EditType
<1>5. ASSUME NEW text \in Texts, form # NoForm
      PROVE  [c EXCEPT !.text = text] \in Contents
  BY <1>0, <1>5 DEF Contents
<1>6. CASE EditTrip
  BY <1>5, <1>6, EditType DEF EditTrip
<1>7. CASE EditWindow
  BY <1>5, <1>7, EditType DEF EditWindow
<1>8. CASE EditTravellers
  <2>1. form # NoForm
    BY <1>8 DEF EditTravellers
  <2>2. CASE \E i \in DOMAIN c.names, name \in {"rider", "own"} :
                Edits(2, [c EXCEPT !.names[i] = name])
    <3>1. PICK i \in DOMAIN c.names, name \in {"rider", "own"} :
             Edits(2, [c EXCEPT !.names[i] = name])
      BY <2>2
    <3>2. name \in Names
      BY DEF Names
    <3>3. [c EXCEPT !.names[i] = name] \in Contents
      BY <1>0, <2>1, <3>2, RenamedType
    <3> QED BY <3>1, <3>3, EditType
  <2>3. CASE Edits(2, [c EXCEPT !.phone = "own"])
    <3>1. [c EXCEPT !.phone = "own"] \in Contents
      BY <1>0, <2>1 DEF Contents
    <3> QED BY <2>3, <3>1, EditType
  <2>4. CASE \E text \in Texts : Edits(2, [c EXCEPT !.text = text])
    BY <1>5, <2>1, <2>4, EditType
  <2> QED BY <1>8, <2>2, <2>3, <2>4 DEF EditTravellers
<1>9. CASE Continue
  <2>1. form' \in Forms
    BY <1>0, <1>9 DEF Continue, Forms
  <2> QED BY <1>9, <2>1, FormStepType DEF Continue
<1>10. CASE Back
  <2>1. form' \in Forms
    BY <1>0, <1>10 DEF Back, Forms
  <2> QED BY <1>10, <2>1, FormStepType DEF Back
<1>11. CASE Submit
  <2> DEFINE e == [key |-> form.key, content |-> form.content,
                   server |-> "coming", awaited |-> TRUE]
  <2>1. e \in PostRecords
    BY <1>0, <1>11 DEF Submit, PostRecords, Forms
  <2>2. posts' = Append(posts, e) /\ Len(posts) < MaxPosts
    BY <1>11 DEF Submit
  <2> HIDE DEF e
  <2>3. posts' \in Seq(PostRecords) /\ Len(posts') = Len(posts) + 1
    BY <2>1, <2>2, AppendProperties DEF FormTypeOK
  <2>4. Len(posts) \in Nat /\ MaxPosts \in Nat
    BY FormAssumption, LenProperties DEF FormTypeOK
  <2>5. form' \in Forms
    BY <1>0, <1>11 DEF Submit, Forms
  <2> QED BY <1>11, <2>2, <2>3, <2>4, <2>5 DEF Submit, FormTypeOK, store_vars
<1>12. CASE SaveAnswered \/ SaveFails
  <2>1. PICK p \in 1 .. Len(posts) : posts' = [posts EXCEPT ![p].awaited = FALSE]
    BY <1>12 DEF SaveAnswered, SaveFails
  <2>2. posts' \in Seq(PostRecords) /\ Len(posts') = Len(posts)
    BY <2>1, AwaitedChanged DEF FormTypeOK
  <2>3. form' \in {NoForm} \cup Forms
    BY <1>0, <1>12 DEF SaveAnswered, SaveFails, Forms
  <2>4. UNCHANGED <<mode, store_vars>>
    BY <1>12 DEF SaveAnswered, SaveFails
  <2> QED BY <2>2, <2>3, <2>4 DEF FormTypeOK, store_vars
<1>13. CASE CloseForm \/ FormGoes
  BY <1>13, FormStepType DEF CloseForm, FormGoes
<1>14. CASE CreateJob
  <2>1. PICK p \in 1 .. Len(posts) : Repeats(p) \/ Stores(p) \/ Refuses(p)
    BY <1>14 DEF CreateJob
  <2>2. PICK s \in {"saved", "refused"} : Answers(p, s)
    BY <2>1 DEF Repeats, Stores, Refuses
  <2>3. posts' \in Seq(PostRecords) /\ Len(posts') = Len(posts)
    BY <2>2, ServerAnswers DEF FormTypeOK
  <2>4. posts[p] \in PostRecords /\ p \in Posts
    BY ElementOfSeq, FormAssumption, LenProperties DEF FormTypeOK, Posts
  <2>5. rows' \in [Posts -> {NoForm} \cup Rows] /\ keyRow' \in [Keys -> {NoForm} \cup Posts]
    <3>1. CASE Stores(p)
      <4> DEFINE r == [content |-> posts[p].content, active |-> TRUE,
                       mode |-> StoredMode(posts[p].content)]
      <4>1. r \in Rows
        BY <2>4 DEF Rows, PostRecords, StoredMode, FormTypeOK
      <4>2. rows' = [rows EXCEPT ![p] = r] /\ keyRow' = [keyRow EXCEPT ![posts[p].key] = p]
        BY <3>1 DEF Stores
      <4> HIDE DEF r
      <4> QED BY <2>4, <4>1, <4>2 DEF FormTypeOK, PostRecords
    <3>2. CASE Repeats(p) \/ Refuses(p)
      BY <3>2 DEF Repeats, Refuses, store_vars, FormTypeOK
    <3> QED BY <2>1, <3>1, <3>2
  <2>6. UNCHANGED <<mode, form, others>>
    BY <1>14, <2>1 DEF CreateJob, Repeats, Stores, Refuses, store_vars
  <2> QED BY <2>3, <2>5, <2>6 DEF FormTypeOK
<1>15. CASE RequestFinishes
  <2>1. PICK p \in Active : rows' = [rows EXCEPT ![p].active = FALSE]
    BY <1>15 DEF RequestFinishes
  <2>2. p \in Posts /\ rows[p] \in Rows
    BY DEF Active, Stored, FormTypeOK
  <2>3. rows' \in [Posts -> {NoForm} \cup Rows]
    BY <2>1, <2>2 DEF FormTypeOK, Rows
  <2> QED BY <1>15, <2>3 DEF RequestFinishes, FormTypeOK
<1>16. CASE OtherDevice
  BY <1>16 DEF OtherDevice, FormTypeOK
<1>17. CASE UNCHANGED formVars
  BY <1>17 DEF formVars, store_vars, FormTypeOK
<1> QED BY <1>1, <1>2, <1>3, <1>4, <1>6, <1>7, <1>8, <1>9, <1>10, <1>11, <1>12, <1>13,
           <1>14, <1>15, <1>16, <1>17 DEF FormNext

(***************************************************************************)
(* Type correctness of the form, its posts and the rows they create, for   *)
(* forms of every size (BookingDialog, Store.create_job).                  *)
(***************************************************************************)
THEOREM FormTypes == FormSpec => []FormTypeOK
<1> QED BY TypeInit, TypeNext, PTL DEF FormSpec

(***************************************************************************)
(* A submission is saved once and as it was submitted.  What makes this    *)
(* inductive is that the table of keys and the rows point at each other.   *)
(***************************************************************************)
KeysNameRows ==
    \A k \in Keys :
        keyRow[k] # NoForm =>
            /\ keyRow[k] \in 1 .. Len(posts)
            /\ rows[keyRow[k]] # NoForm
            /\ posts[keyRow[k]].key = k
            /\ rows[keyRow[k]].content = posts[keyRow[k]].content

RowsHaveKeys ==
    \A p \in Stored : p \in 1 .. Len(posts) /\ keyRow[posts[p].key] = p

SavedInv == KeysNameRows /\ RowsHaveKeys /\ SavedAsSubmitted

\* A step that touches neither the tables nor what a post says keeps SavedInv.
LEMMA SavedFrame ==
    ASSUME FormTypeOK, SavedInv, UNCHANGED store_vars, Len(posts') >= Len(posts),
           Len(posts') \in Nat,
           \A q \in 1 .. Len(posts) :
               /\ posts'[q].key = posts[q].key
               /\ posts'[q].content = posts[q].content,
           \A q \in 1 .. Len(posts') :
               posts'[q].server = "saved" => q \in 1 .. Len(posts) /\ posts[q].server = "saved"
    PROVE  SavedInv'
<1>0. /\ rows' = rows /\ keyRow' = keyRow /\ Stored' = Stored /\ Len(posts) \in Nat
      /\ 1 .. Len(posts) \subseteq 1 .. Len(posts')
  BY LenProperties DEF store_vars, Stored, FormTypeOK
<1>1. KeysNameRows'
  BY <1>0 DEF SavedInv, KeysNameRows
<1>2. RowsHaveKeys'
  BY <1>0 DEF SavedInv, RowsHaveKeys
<1>3. SavedAsSubmitted'
  BY <1>0 DEF SavedInv, SavedAsSubmitted
<1> QED BY <1>1, <1>2, <1>3 DEF SavedInv

\* A post that the server answers with a row of its key keeps SavedInv.
LEMMA SavedCreate ==
    ASSUME FormTypeOK, SavedInv, NEW p \in 1 .. Len(posts),
           Repeats(p) \/ Stores(p) \/ Refuses(p)
    PROVE  SavedInv'
<1> DEFINE k == posts[p].key
<1>0. posts[p] \in PostRecords /\ k \in Keys /\ p \in Posts /\ Len(posts) \in Nat
  BY PostType
<1>1. PICK s \in {"saved", "refused"} : Answers(p, s)
  BY DEF Repeats, Stores, Refuses
<1>2. /\ Len(posts') = Len(posts)
      /\ \A q \in 1 .. Len(posts) :
            /\ posts'[q].key = posts[q].key
            /\ posts'[q].content = posts[q].content
            /\ q # p => posts'[q] = posts[q]
      /\ posts'[p].server = s
  BY <1>1, ServerAnswers DEF FormTypeOK
<1>3. CASE Stores(p)
  <2> DEFINE r == [content |-> posts[p].content, active |-> TRUE,
                   mode |-> StoredMode(posts[p].content)]
  <2>1. r # NoForm /\ r.content = posts[p].content
    <3>1. r \in Rows
      BY <1>0 DEF Rows, PostRecords, StoredMode, FormTypeOK
    <3> QED BY <3>1, FormAssumption
  <2>2. /\ keyRow[k] = NoForm
        /\ rows' = [rows EXCEPT ![p] = r] /\ keyRow' = [keyRow EXCEPT ![k] = p]
    BY <1>3 DEF Stores
  <2> HIDE DEF r
  <2>3. /\ rows'[p] = r /\ keyRow'[k] = p /\ p # NoForm
        /\ \A q \in Posts : q # p => rows'[q] = rows[q]
        /\ \A l \in Keys : l # k => keyRow'[l] = keyRow[l]
    BY <1>0, <2>2, FormAssumption DEF FormTypeOK
  <2>4. p \notin Stored
    BY <1>0, <2>2, <2>3 DEF SavedInv, RowsHaveKeys
  <2>5. Stored' = Stored \cup {p}
    BY <1>0, <2>1, <2>3 DEF Stored
  <2>6. KeysNameRows'
    <3> SUFFICES ASSUME NEW l \in Keys, keyRow'[l] # NoForm
                 PROVE  /\ keyRow'[l] \in 1 .. Len(posts')
                        /\ rows'[keyRow'[l]] # NoForm
                        /\ posts'[keyRow'[l]].key = l
                        /\ rows'[keyRow'[l]].content = posts'[keyRow'[l]].content
      BY DEF KeysNameRows
    <3>1. CASE l = k
      BY <1>0, <1>2, <2>1, <2>3, <3>1
    <3>2. CASE l # k
      <4>1. /\ keyRow[l] = keyRow'[l] /\ keyRow[l] \in 1 .. Len(posts)
            /\ rows[keyRow[l]] # NoForm /\ posts[keyRow[l]].key = l
            /\ rows[keyRow[l]].content = posts[keyRow[l]].content
        BY <2>3, <3>2 DEF SavedInv, KeysNameRows
      <4>2. keyRow[l] \in Stored /\ keyRow[l] # p
        BY <2>4, <4>1, FormAssumption DEF Stored, FormTypeOK, Posts
      <4> QED BY <1>2, <2>3, <4>1, <4>2 DEF Stored
    <3> QED BY <3>1, <3>2
  <2>7. RowsHaveKeys'
    <3> SUFFICES ASSUME NEW q \in Stored'
                 PROVE  q \in 1 .. Len(posts') /\ keyRow'[posts'[q].key] = q
      BY DEF RowsHaveKeys
    <3>1. CASE q = p
      BY <1>2, <2>3, <3>1
    <3>2. CASE q \in Stored
      <4>1. q \in 1 .. Len(posts) /\ keyRow[posts[q].key] = q /\ q # p /\ q # NoForm
        BY <2>4, <3>2, FormAssumption DEF SavedInv, RowsHaveKeys, Stored
      <4>2. posts[q].key \in Keys
        BY <4>1, PostType
      <4> QED BY <1>2, <2>2, <2>3, <4>1, <4>2
    <3> QED BY <2>5, <3>1, <3>2
  <2>8. SavedAsSubmitted'
    <3> SUFFICES ASSUME NEW q \in 1 .. Len(posts), posts'[q].server = "saved"
                 PROVE  /\ keyRow'[posts'[q].key] # NoForm
                        /\ rows'[keyRow'[posts'[q].key]] # NoForm
                        /\ rows'[keyRow'[posts'[q].key]].content = posts'[q].content
      BY <1>2 DEF SavedAsSubmitted
    <3>1. CASE q = p
      BY <1>2, <2>1, <2>3, <3>1
    <3>2. CASE q # p
      <4> DEFINE l == posts[q].key
      <4>1. /\ posts[q].server = "saved" /\ l \in Keys /\ posts'[q] = posts[q]
        BY <1>2, <3>2, PostType
      <4>2. /\ keyRow[l] # NoForm /\ rows[keyRow[l]] # NoForm
            /\ rows[keyRow[l]].content = posts[q].content
        BY <4>1 DEF SavedInv, SavedAsSubmitted
      <4>3. l # k /\ keyRow'[l] = keyRow[l]
        BY <2>2, <2>3, <4>1, <4>2
      <4>4. keyRow[l] \in Stored /\ keyRow[l] # p
        BY <2>4, <4>1, <4>2 DEF Stored, FormTypeOK
      <4> QED BY <2>3, <4>1, <4>2, <4>3, <4>4 DEF Stored
    <3> QED BY <3>1, <3>2
  <2> QED BY <2>6, <2>7, <2>8 DEF SavedInv
<1>4. CASE Repeats(p) /\ s = "saved"
  <2>1. keyRow[k] # NoForm /\ UNCHANGED store_vars
    BY <1>4 DEF Repeats
  <2>2. posts[p].content = rows[keyRow[k]].content
    <3> DEFINE previous == rows[keyRow[k]]
    <3>1. CASE <<previous.mode, previous.content>> = Fingerprint(posts[p].content)
      BY <3>1 DEF Fingerprint
    <3>2. CASE <<previous.mode, previous.content>> # Fingerprint(posts[p].content)
      <4>1. Answers(p, "refused")
        BY <1>4, <3>2 DEF Repeats
      <4>2. posts'[p].server = "refused"
        BY <4>1, ServerAnswers DEF FormTypeOK
      <4> QED BY <1>2, <1>4, <4>2
    <3> QED BY <3>1, <3>2
  <2>3. rows' = rows /\ keyRow' = keyRow /\ Stored' = Stored
    BY <2>1 DEF store_vars, Stored
  <2>4. KeysNameRows'
    BY <1>2, <2>3 DEF SavedInv, KeysNameRows
  <2>5. RowsHaveKeys'
    BY <1>2, <2>3 DEF SavedInv, RowsHaveKeys
  <2>6. rows[keyRow[k]] # NoForm
    BY <1>0, <2>1 DEF SavedInv, KeysNameRows
  <2>7. SavedAsSubmitted'
    BY <1>2, <2>1, <2>2, <2>3, <2>6 DEF SavedInv, SavedAsSubmitted
  <2> QED BY <2>4, <2>5, <2>7 DEF SavedInv
<1>5. CASE UNCHANGED store_vars /\ s = "refused"
  <2>1. \A q \in 1 .. Len(posts') :
           posts'[q].server = "saved" => q \in 1 .. Len(posts) /\ posts[q].server = "saved"
    BY <1>2, <1>5
  <2> QED BY <1>0, <1>2, <1>5, <2>1, SavedFrame
<1>6. Refuses(p) => s = "refused"
  <2> SUFFICES ASSUME Refuses(p) PROVE s = "refused"
    OBVIOUS
  <2>1. posts'[p].server = "refused"
    BY ServerAnswers DEF Refuses, FormTypeOK
  <2> QED BY <1>2, <2>1
<1> QED BY <1>3, <1>4, <1>5, <1>6 DEF Repeats, Refuses

\* Every step keeps SavedInv.
LEMMA SavedNext == FormTypeOK /\ FormTypeOK' /\ SavedInv /\ [FormNext]_formVars => SavedInv'
<1> SUFFICES ASSUME FormTypeOK, FormTypeOK', SavedInv, [FormNext]_formVars PROVE SavedInv'
  OBVIOUS
<1>0. Len(posts) \in Nat /\ Len(posts') \in Nat
  BY LenProperties DEF FormTypeOK
<1>1. CASE UNCHANGED <<posts, store_vars>>
  BY <1>0, <1>1, SavedFrame
<1>2. CASE Submit
  <2> DEFINE e == [key |-> form.key, content |-> form.content,
                   server |-> "coming", awaited |-> TRUE]
  <2>1. e \in PostRecords /\ e.server # "saved"
    BY <1>2 DEF Submit, PostRecords, Forms, FormTypeOK
  <2>2. posts' = Append(posts, e) /\ UNCHANGED store_vars
    BY <1>2 DEF Submit
  <2> HIDE DEF e
  <2>3. /\ Len(posts') = Len(posts) + 1
        /\ \A i \in 1 .. Len(posts) : posts'[i] = posts[i]
        /\ posts'[Len(posts) + 1] = e
    BY <2>1, <2>2, AppendProperties DEF FormTypeOK
  <2>4. \A q \in 1 .. Len(posts') :
            posts'[q].server = "saved" => q \in 1 .. Len(posts) /\ posts[q].server = "saved"
    <3> SUFFICES ASSUME NEW q \in 1 .. Len(posts'), posts'[q].server = "saved"
                 PROVE  q \in 1 .. Len(posts) /\ posts[q].server = "saved"
      OBVIOUS
    <3>1. q \in 1 .. Len(posts) \/ q = Len(posts) + 1
      BY <1>0, <2>3
    <3> QED BY <2>1, <2>3, <3>1
  <2>5. Len(posts') >= Len(posts)
    BY <1>0, <2>3
  <2> QED BY <1>0, <2>2, <2>3, <2>4, <2>5, SavedFrame
<1>3. CASE SaveAnswered \/ SaveFails
  <2>1. PICK p \in 1 .. Len(posts) : posts' = [posts EXCEPT ![p].awaited = FALSE]
    BY <1>3 DEF SaveAnswered, SaveFails
  <2>2. /\ Len(posts') = Len(posts)
        /\ \A q \in 1 .. Len(posts) :
              /\ posts'[q].key = posts[q].key
              /\ posts'[q].content = posts[q].content
              /\ posts'[q].server = posts[q].server
    BY <2>1, AwaitedChanged DEF FormTypeOK
  <2>3. UNCHANGED store_vars
    BY <1>3 DEF SaveAnswered, SaveFails
  <2>4. Len(posts') >= Len(posts)
    BY <1>0, <2>2
  <2> QED BY <1>0, <2>2, <2>3, <2>4, SavedFrame
<1>4. CASE CreateJob
  BY <1>4, SavedCreate DEF CreateJob
<1>5. CASE RequestFinishes
  <2>1. PICK p \in Active : rows' = [rows EXCEPT ![p].active = FALSE]
    BY <1>5 DEF RequestFinishes
  <2>2. posts' = posts /\ keyRow' = keyRow
    BY <1>5 DEF RequestFinishes
  <2>3. p \in Posts /\ rows[p] \in Rows /\ p \in Stored
    BY DEF Active, Stored, FormTypeOK
  <2>4. rows'[p] # NoForm /\ rows'[p].content = rows[p].content
    <3>1. rows'[p] = [rows[p] EXCEPT !.active = FALSE]
      BY <2>1, <2>3 DEF FormTypeOK
    <3>2. rows'[p] \in Rows /\ rows'[p].content = rows[p].content
      BY <2>3, <3>1 DEF Rows
    <3> QED BY <3>2, FormAssumption
  <2>5. \A q \in Posts : q # p => rows'[q] = rows[q]
    BY <2>1, <2>3 DEF FormTypeOK
  <2>6. /\ Stored' = Stored
        /\ \A q \in Stored : rows'[q].content = rows[q].content
    BY <2>3, <2>4, <2>5 DEF Stored
  <2>7. \A k \in Keys : keyRow[k] # NoForm /\ rows[keyRow[k]] # NoForm => keyRow[k] \in Stored
    BY DEF FormTypeOK, Stored
  <2>8. KeysNameRows'
    <3> SUFFICES ASSUME NEW k \in Keys, keyRow[k] # NoForm
                 PROVE  /\ keyRow[k] \in 1 .. Len(posts)
                        /\ rows'[keyRow[k]] # NoForm
                        /\ posts[keyRow[k]].key = k
                        /\ rows'[keyRow[k]].content = posts[keyRow[k]].content
      BY <2>2 DEF KeysNameRows
    <3>1. /\ keyRow[k] \in 1 .. Len(posts) /\ rows[keyRow[k]] # NoForm
          /\ posts[keyRow[k]].key = k /\ rows[keyRow[k]].content = posts[keyRow[k]].content
      BY DEF SavedInv, KeysNameRows
    <3>2. keyRow[k] \in Stored /\ keyRow[k] \in Stored'
      BY <2>6, <2>7, <3>1
    <3>3. rows'[keyRow[k]] # NoForm
      BY <3>2 DEF Stored
    <3> QED BY <2>6, <3>1, <3>2, <3>3
  <2>9. RowsHaveKeys'
    BY <2>2, <2>6 DEF SavedInv, RowsHaveKeys
  <2>10. SavedAsSubmitted'
    <3> SUFFICES ASSUME NEW q \in 1 .. Len(posts), posts[q].server = "saved"
                 PROVE  /\ keyRow[posts[q].key] # NoForm
                        /\ rows'[keyRow[posts[q].key]] # NoForm
                        /\ rows'[keyRow[posts[q].key]].content = posts[q].content
      BY <2>2 DEF SavedAsSubmitted
    <3> DEFINE k == posts[q].key
    <3>1. /\ k \in Keys /\ keyRow[k] # NoForm /\ rows[keyRow[k]] # NoForm
          /\ rows[keyRow[k]].content = posts[q].content
      BY PostType DEF SavedInv, SavedAsSubmitted
    <3>2. keyRow[k] \in Stored /\ keyRow[k] \in Stored'
      BY <2>6, <2>7, <3>1
    <3>3. rows'[keyRow[k]] # NoForm
      BY <3>2 DEF Stored
    <3> QED BY <2>6, <3>1, <3>2, <3>3
  <2> QED BY <2>8, <2>9, <2>10 DEF SavedInv
<1>6. CASE OtherDevice
  <2>1. rows' = rows /\ keyRow' = keyRow /\ posts' = posts /\ Stored' = Stored
    BY <1>6 DEF OtherDevice, Stored
  <2> QED BY <2>1 DEF SavedInv, KeysNameRows, RowsHaveKeys, SavedAsSubmitted
<1>7. [FormNext]_formVars /\ ~(UNCHANGED <<posts, store_vars>>) =>
         Submit \/ SaveAnswered \/ SaveFails \/ CreateJob \/ RequestFinishes \/ OtherDevice
  BY DEF FormNext, formVars, OpenForm, ChooseWatch, ChoosePrepare, SeatCount, EditTrip,
         EditWindow, EditTravellers, Edits, Continue, Back, CloseForm, FormGoes
<1> QED BY <1>1, <1>2, <1>3, <1>4, <1>5, <1>6, <1>7

(***************************************************************************)
(* A submission is saved once and as it was submitted, however often its   *)
(* form is submitted again, edited or not (Store.create_job).              *)
(***************************************************************************)
THEOREM SavedOnce == FormSpec => []SavedOnceAsSubmitted
<1>1. FormInit => SavedInv
  <2> SUFFICES ASSUME FormInit PROVE SavedInv
    OBVIOUS
  <2>1. posts = <<>> /\ Stored = {} /\ \A k \in Keys : keyRow[k] = NoForm
    BY DEF FormInit, Stored
  <2> QED BY <2>1, EmptySeq DEF SavedInv, KeysNameRows, RowsHaveKeys, SavedAsSubmitted
<1>2. SavedInv => SavedOnceAsSubmitted
  <2>1. RowsHaveKeys => OneRequestPerForm
    BY DEF RowsHaveKeys, OneRequestPerForm
  <2> QED BY <2>1 DEF SavedInv, SavedOnceAsSubmitted
<1> QED BY <1>1, <1>2, SavedNext, FormTypes, PTL DEF FormSpec

(***************************************************************************)
(* Sample data.  Contents that may be stored for live monitoring are clean *)
(* while they are typed, when they are sent and when they are stored.      *)
(***************************************************************************)
Clean(c) ==
    /\ c.phone = "own"
    /\ \A i \in DOMAIN c.names : c.names[i] # "sample"

CleanIfLive(c) == StoredMode(c) = "live" => Clean(c)

SampleInv ==
    /\ form # NoForm => CleanIfLive(form.content)
    /\ \A p \in 1 .. Len(posts) : CleanIfLive(posts[p].content)
    /\ SampleStaysInDemo

\* An edit that leaves the contents clean keeps SampleInv (update()).
LEMMA SampleEdit ==
    ASSUME FormTypeOK, SampleInv, NEW n \in 0 .. 2, NEW c \in Contents, Edits(n, c),
           CleanIfLive(c)
    PROVE  SampleInv'
<1>1. form \in Forms
  BY DEF FormTypeOK, Edits
<1>2. form' = [form EXCEPT !.content = c] /\ UNCHANGED <<mode, posts, store_vars>>
  BY DEF Edits
<1>3. form'.content = c
  BY <1>1, <1>2 DEF Forms
<1>4. CleanIfLive(form.content)'
  BY <1>2, <1>3 DEF CleanIfLive, StoredMode, Selected, Clean
<1> QED BY <1>2, <1>4 DEF SampleInv, SampleStaysInDemo, Stored, store_vars, CleanIfLive,
           StoredMode, Selected, Clean

\* A step that changes neither contents nor the mode keeps SampleInv.
LEMMA SampleFrame ==
    ASSUME SampleInv, mode' = mode, rows' = rows,
           form' # NoForm => form # NoForm /\ form'.content = form.content,
           \A q \in 1 .. Len(posts') : \E c : posts'[q].content = c /\ CleanIfLive(c)
    PROVE  SampleInv'
BY DEF SampleInv, SampleStaysInDemo, Stored, CleanIfLive, StoredMode, Selected, Clean

\* Every step keeps SampleInv.
LEMMA SampleNext == FormTypeOK /\ FormTypeOK' /\ SampleInv /\ [FormNext]_formVars => SampleInv'
<1> SUFFICES ASSUME FormTypeOK, FormTypeOK', SampleInv, [FormNext]_formVars PROVE SampleInv'
  OBVIOUS
<1> DEFINE c == form.content
<1>0. /\ form # NoForm => form \in Forms /\ c \in Contents /\ c.names \in Seq(Names)
      /\ mode \in {"demo", "live"}
  BY DEF FormTypeOK, Forms, Contents
<1>1. CASE OpenForm
  <2>1. PICK k \in Keys, plan \in {"general", "watch", "prepare"},
             seats \in 1 .. MaxSeats, text \in Texts :
          /\ plan = "prepare" => mode = "live"
          /\ form' = [key |-> k, step |-> 0, pending |-> FALSE,
                      content |-> FirstContent(plan, seats, text)]
    BY <1>1 DEF OpenForm
  <2> DEFINE d == FirstContent(plan, seats, text)
  <2>2. form'.content = d /\ UNCHANGED <<mode, posts, store_vars>>
    BY <1>1, <2>1 DEF OpenForm
  <2>3. CleanIfLive(d)
    BY <1>0, <2>1 DEF FirstContent, CleanIfLive, Clean, StoredMode, Selected
  <2> HIDE DEF d
  <2>4. CleanIfLive(form.content)'
    BY <2>2, <2>3 DEF CleanIfLive, StoredMode, Selected, Clean
  <2> QED BY <2>2, <2>4 DEF SampleInv, SampleStaysInDemo, Stored, store_vars, CleanIfLive,
             StoredMode, Selected, Clean
<1>2. CASE ChooseWatch
  <2> DEFINE d == IF Demo(c) THEN Unsampled(c) ELSE c
             e == [d EXCEPT !.watch = TRUE]
  <2>1. Edits(0, e) /\ form # NoForm
    BY <1>2 DEF ChooseWatch
  <2>2. d \in Contents
    BY <1>0, <2>1, UnsampledType
  <2>3. Clean(d)
    <3>1. CASE Demo(c)
      BY <1>0, <2>1, <3>1 DEF Unsampled, Clean, Contents
    <3>2. CASE ~Demo(c)
      BY <1>0, <2>1, <3>2 DEF SampleInv, CleanIfLive, Demo, StoredMode, Clean
    <3> QED BY <3>1, <3>2
  <2> HIDE DEF d
  <2>4. e \in Contents /\ CleanIfLive(e)
    BY <2>2, <2>3 DEF Contents, Clean, CleanIfLive
  <2> HIDE DEF e
  <2> QED BY <2>1, <2>4, SampleEdit
<1>3. CASE ChoosePrepare
  <2> DEFINE e == [c EXCEPT !.watch = FALSE]
  <2>1. Edits(0, e) /\ form # NoForm /\ (Selected(c) => mode = "live")
    BY <1>3 DEF ChoosePrepare
  <2>2. e \in Contents /\ e.plan = c.plan /\ e.phone = c.phone /\ e.names = c.names /\ ~e.watch
    BY <1>0, <2>1 DEF Contents
  <2> HIDE DEF e
  <2>3. CleanIfLive(e)
    BY <1>0, <2>1, <2>2 DEF SampleInv, CleanIfLive, Clean, StoredMode, Selected
  <2> QED BY <2>1, <2>2, <2>3, SampleEdit
<1>4. CASE SeatCount
  <2>1. PICK seats \in 1 .. MaxSeats : Edits(0, Resized(c, seats))
    BY <1>4 DEF SeatCount
  <2>2. form # NoForm
    BY <1>4 DEF SeatCount
  <2> DEFINE e == Resized(c, seats)
  <2>3. e \in Contents
    BY <1>0, <2>2, ResizedType
  <2>4. CleanIfLive(e)
    <3> SUFFICES ASSUME StoredMode(e) = "live" PROVE Clean(e)
      BY DEF CleanIfLive
    <3>1. e.plan = c.plan /\ e.watch = c.watch /\ e.phone = c.phone
      BY <1>0, <2>2 DEF Resized, Contents
    <3>2. Clean(c) /\ ~(Demo(c) /\ ~c.watch)
      BY <1>0, <2>2, <3>1 DEF SampleInv, CleanIfLive, StoredMode, Selected, Demo
    <3>3. e.names = [i \in 1 .. seats |-> IF i \in DOMAIN c.names THEN c.names[i] ELSE "own"]
      BY <1>0, <2>2, <3>2 DEF Resized, Contents
    <3> QED BY <3>1, <3>2, <3>3 DEF Clean
  <2> HIDE DEF e
  <2> QED BY <2>1, <2>3, <2>4, SampleEdit DEF e
<1>5. ASSUME NEW text \in Texts, NEW n \in 0 .. 2, form # NoForm,
             Edits(n, [c EXCEPT !.text = text])
      PROVE  SampleInv'
  <2> DEFINE e == [c EXCEPT !.text = text]
  <2>1. /\ e \in Contents /\ e.plan = c.plan /\ e.watch = c.watch
        /\ e.phone = c.phone /\ e.names = c.names
    BY <1>0, <1>5 DEF Contents
  <2>2. Edits(n, e)
    BY <1>5
  <2> HIDE DEF e
  <2>3. CleanIfLive(e)
    BY <1>5, <2>1 DEF SampleInv, CleanIfLive, Clean, StoredMode, Selected
  <2> QED BY <2>1, <2>2, <2>3, SampleEdit
<1>6. CASE EditTrip
  BY <1>5, <1>6 DEF EditTrip
<1>7. CASE EditWindow
  BY <1>5, <1>7 DEF EditWindow
<1>8. CASE EditTravellers
  <2>1. form # NoForm
    BY <1>8 DEF EditTravellers
  <2>2. CASE \E i \in DOMAIN c.names, name \in {"rider", "own"} :
                Edits(2, [c EXCEPT !.names[i] = name])
    <3>1. PICK i \in DOMAIN c.names, name \in {"rider", "own"} :
             Edits(2, [c EXCEPT !.names[i] = name])
      BY <2>2
    <3> DEFINE e == [c EXCEPT !.names[i] = name]
    <3>2. name \in Names /\ name # "sample"
      BY DEF Names
    <3>3. e \in Contents
      BY <1>0, <2>1, <3>2, RenamedType
    <3>4. /\ e.plan = c.plan /\ e.watch = c.watch /\ e.phone = c.phone
          /\ e.names = [c.names EXCEPT ![i] = name]
      BY <1>0, <2>1 DEF Contents
    <3>5. Edits(2, e)
      BY <3>1
    <3> HIDE DEF e
    <3>6. CleanIfLive(e)
      BY <1>0, <2>1, <3>2, <3>4 DEF SampleInv, CleanIfLive, Clean, StoredMode, Selected
    <3> QED BY <3>3, <3>5, <3>6, SampleEdit
  <2>3. CASE Edits(2, [c EXCEPT !.phone = "own"])
    <3> DEFINE e == [c EXCEPT !.phone = "own"]
    <3>1. /\ e \in Contents /\ e.plan = c.plan /\ e.watch = c.watch
          /\ e.phone = "own" /\ e.names = c.names
      BY <1>0, <2>1 DEF Contents
    <3>2. Edits(2, e)
      BY <2>3
    <3> HIDE DEF e
    <3>3. CleanIfLive(e)
      BY <2>1, <3>1 DEF SampleInv, CleanIfLive, Clean, StoredMode, Selected
    <3> QED BY <3>1, <3>2, <3>3, SampleEdit
  <2>4. CASE \E text \in Texts : Edits(2, [c EXCEPT !.text = text])
    BY <1>5, <2>1, <2>4
  <2> QED BY <1>8, <2>2, <2>3, <2>4 DEF EditTravellers
<1>9. CASE Continue \/ Back
  <2>1. form' # NoForm => form # NoForm /\ form'.content = form.content
    BY <1>0, <1>9 DEF Continue, Back, Forms
  <2>2. mode' = mode /\ rows' = rows /\ posts' = posts
    BY <1>9 DEF Continue, Back, store_vars
  <2> QED BY <2>1, <2>2, SampleFrame DEF SampleInv
<1>10. CASE CloseForm \/ FormGoes
  <2>1. mode' = mode /\ rows' = rows /\ posts' = posts /\ form' = NoForm
    BY <1>10 DEF CloseForm, FormGoes, store_vars
  <2> QED BY <2>1, SampleFrame DEF SampleInv
<1>11. CASE OtherDevice
  <2>1. mode' = mode /\ rows' = rows /\ posts' = posts /\ form' = form
    BY <1>11 DEF OtherDevice
  <2> QED BY <2>1, SampleFrame DEF SampleInv
<1>12. CASE Submit
  <2> DEFINE e == [key |-> form.key, content |-> form.content,
                   server |-> "coming", awaited |-> TRUE]
  <2>1. e \in PostRecords /\ e.content = form.content /\ form # NoForm
    BY <1>0, <1>12 DEF Submit, PostRecords, Forms
  <2>2. posts' = Append(posts, e) /\ mode' = mode /\ rows' = rows
    BY <1>12 DEF Submit, store_vars
  <2>3. form'.content = form.content
    BY <1>0, <1>12 DEF Submit, Forms
  <2> HIDE DEF e
  <2>4. /\ Len(posts) \in Nat
        /\ Len(posts') = Len(posts) + 1
        /\ \A i \in 1 .. Len(posts) : posts'[i] = posts[i]
        /\ posts'[Len(posts) + 1] = e
    BY <2>1, <2>2, AppendProperties, LenProperties DEF FormTypeOK
  <2>5. \A q \in 1 .. Len(posts') : \E d : posts'[q].content = d /\ CleanIfLive(d)
    <3> SUFFICES ASSUME NEW q \in 1 .. Len(posts')
                 PROVE  CleanIfLive(posts'[q].content)
      OBVIOUS
    <3>1. q \in 1 .. Len(posts) \/ q = Len(posts) + 1
      BY <2>4
    <3> QED BY <2>1, <2>4, <3>1 DEF SampleInv
  <2> QED BY <2>1, <2>2, <2>3, <2>5, SampleFrame
<1>13. CASE SaveAnswered \/ SaveFails
  <2>1. PICK p \in 1 .. Len(posts) : posts' = [posts EXCEPT ![p].awaited = FALSE]
    BY <1>13 DEF SaveAnswered, SaveFails
  <2>2. /\ Len(posts') = Len(posts)
        /\ \A q \in 1 .. Len(posts) : posts'[q].content = posts[q].content
    BY <2>1, AwaitedChanged DEF FormTypeOK
  <2>3. mode' = mode /\ rows' = rows
    BY <1>13 DEF SaveAnswered, SaveFails, store_vars
  <2>4. form' # NoForm => form # NoForm /\ form'.content = form.content
    BY <1>0, <1>13 DEF SaveAnswered, SaveFails, Forms
  <2> QED BY <2>2, <2>3, <2>4, SampleFrame DEF SampleInv
<1>14. CASE CreateJob
  <2>1. PICK p \in 1 .. Len(posts) : Repeats(p) \/ Stores(p) \/ Refuses(p)
    BY <1>14 DEF CreateJob
  <2>2. PICK s \in {"saved", "refused"} : Answers(p, s)
    BY <2>1 DEF Repeats, Stores, Refuses
  <2>3. /\ Len(posts') = Len(posts)
        /\ \A q \in 1 .. Len(posts) : posts'[q].content = posts[q].content
    BY <2>2, ServerAnswers DEF FormTypeOK
  <2>4. mode' = mode /\ form' = form
    BY <1>14 DEF CreateJob
  <2>5. CASE rows' = rows
    BY <2>3, <2>4, <2>5, SampleFrame DEF SampleInv
  <2>6. CASE Stores(p)
    <3> DEFINE r == [content |-> posts[p].content, active |-> TRUE,
                     mode |-> StoredMode(posts[p].content)]
    <3>1. rows' = [rows EXCEPT ![p] = r]
      BY <2>6 DEF Stores
    <3>2. r.content = posts[p].content /\ r.mode = StoredMode(posts[p].content)
      OBVIOUS
    <3> HIDE DEF r
    <3>3. p \in Posts
      BY PostType
    <3>4. rows'[p] = r /\ \A q \in Posts : q # p => rows'[q] = rows[q]
      BY <3>1, <3>3 DEF FormTypeOK
    <3>5. r.mode = "live" => Clean(r.content)
      BY <3>2 DEF SampleInv, CleanIfLive
    <3>6. SampleStaysInDemo'
      <4> SUFFICES ASSUME NEW q \in Posts, rows'[q] # NoForm, rows'[q].mode = "live"
                   PROVE  Clean(rows'[q].content)
        BY DEF SampleStaysInDemo, Stored, Clean
      <4>1. CASE q = p
        BY <3>4, <3>5, <4>1
      <4>2. CASE q # p
        BY <3>4, <4>2 DEF SampleInv, SampleStaysInDemo, Stored, Clean
      <4> QED BY <4>1, <4>2
    <3> QED BY <2>3, <2>4, <3>6 DEF SampleInv, CleanIfLive, StoredMode, Selected, Clean
  <2> QED BY <2>1, <2>5, <2>6 DEF Repeats, Refuses, store_vars
<1>15. CASE RequestFinishes
  <2>1. PICK p \in Active : rows' = [rows EXCEPT ![p].active = FALSE]
    BY <1>15 DEF RequestFinishes
  <2>2. p \in Posts /\ rows[p] \in Rows /\ rows[p] # NoForm
    BY DEF Active, Stored, FormTypeOK
  <2>3. \A q \in Posts : q # p => rows'[q] = rows[q]
    BY <2>1, <2>2 DEF FormTypeOK
  <2>4. rows'[p].mode = rows[p].mode /\ rows'[p].content = rows[p].content
    BY <2>1, <2>2 DEF FormTypeOK, Rows
  <2>5. SampleStaysInDemo'
    BY <2>2, <2>3, <2>4 DEF SampleInv, SampleStaysInDemo, Stored
  <2>6. mode' = mode /\ form' = form /\ posts' = posts
    BY <1>15 DEF RequestFinishes
  <2> QED BY <2>5, <2>6 DEF SampleInv, CleanIfLive, StoredMode, Selected, Clean
<1>16. CASE UNCHANGED formVars
  <2>1. mode' = mode /\ rows' = rows /\ posts' = posts /\ form' = form
    BY <1>16 DEF formVars, store_vars
  <2> QED BY <2>1, SampleFrame DEF SampleInv
<1> QED BY <1>1, <1>2, <1>3, <1>4, <1>6, <1>7, <1>8, <1>9, <1>10, <1>11, <1>12, <1>13,
           <1>14, <1>15, <1>16 DEF FormNext

(***************************************************************************)
(* The demo's sample data never reaches a request that is monitored live   *)
(* (BookingDialog).                                                        *)
(***************************************************************************)
THEOREM SampleKept == FormSpec => []SampleStaysInDemo
<1>1. FormInit => SampleInv
  BY EmptySeq DEF FormInit, SampleInv, SampleStaysInDemo, Stored
<1>2. SampleInv => SampleStaysInDemo
  BY DEF SampleInv
<1> QED BY <1>1, <1>2, SampleNext, FormTypes, PTL DEF FormSpec

(***************************************************************************)
(* The limit of active requests.                                           *)
(***************************************************************************)

\* The active requests are finitely many.
LEMMA ActiveIsFinite ==
    ASSUME FormTypeOK
    PROVE  IsFiniteSet(Active) /\ Cardinality(Active) \in Nat
<1>1. IsFiniteSet(Posts)
  BY FormAssumption, FS_Interval DEF Posts
<1>2. Active \subseteq Posts
  BY DEF Active, Stored
<1> QED BY <1>1, <1>2, FS_Subset, FS_CardinalityType

\* Every step keeps the account within its limit.
LEMMA ActiveNext ==
    FormTypeOK /\ FormTypeOK' /\ ActiveWithinLimit /\ [FormNext]_formVars => ActiveWithinLimit'
<1> SUFFICES ASSUME FormTypeOK, FormTypeOK', ActiveWithinLimit, [FormNext]_formVars
             PROVE  ActiveWithinLimit'
  OBVIOUS
<1> DEFINE n == Cardinality(Active)
<1>0. n \in Nat /\ IsFiniteSet(Active) /\ others \in Nat /\ others' \in Nat /\ MaxActive \in Nat
  BY ActiveIsFinite, FormAssumption DEF FormTypeOK
<1>1. CASE UNCHANGED <<rows, others>>
  <2>1. Active' = Active
    BY <1>1 DEF Active, Stored
  <2> QED BY <1>1, <2>1 DEF ActiveWithinLimit
<1>2. CASE CreateJob /\ \E p \in 1 .. Len(posts) : Stores(p)
  <2>1. PICK p \in 1 .. Len(posts) : Stores(p)
    BY <1>2
  <2>2. ~Full /\ others' = others
    BY <2>1 DEF Stores
  <2>3. p \in Posts
    BY PostType
  <2>4. \A q \in Posts : q # p => rows'[q] = rows[q]
    BY <2>1, <2>3 DEF Stores, FormTypeOK
  <2>5. Active' \subseteq Active \cup {p}
    BY <2>4 DEF Active, Stored
  <2>6. IsFiniteSet(Active \cup {p}) /\ Cardinality(Active \cup {p}) <= n + 1
    <3>1. /\ IsFiniteSet(Active \cup {p})
          /\ Cardinality(Active \cup {p}) = IF p \in Active THEN n ELSE n + 1
      BY <1>0, FS_AddElement
    <3> HIDE DEF n
    <3> QED BY <1>0, <3>1
  <2>7. Cardinality(Active') <= n + 1 /\ Cardinality(Active') \in Nat
    <3>1. IsFiniteSet(Active') /\ Cardinality(Active') <= Cardinality(Active \cup {p})
      BY <2>5, <2>6, FS_Subset
    <3>2. Cardinality(Active') \in Nat /\ Cardinality(Active \cup {p}) \in Nat
      BY <2>6, <3>1, FS_CardinalityType
    <3> HIDE DEF n
    <3> QED BY <1>0, <2>6, <3>1, <3>2
  <2>8. n + others < MaxActive
    BY <1>0, <2>2 DEF Full
  <2> HIDE DEF n
  <2> QED BY <1>0, <2>2, <2>7, <2>8 DEF ActiveWithinLimit
<1>3. CASE RequestFinishes
  <2>1. PICK p \in Active : rows' = [rows EXCEPT ![p].active = FALSE]
    BY <1>3 DEF RequestFinishes
  <2>2. p \in Posts /\ rows[p] \in Rows /\ others' = others
    BY <1>3 DEF RequestFinishes, Active, Stored, FormTypeOK
  <2>3. \A q \in Posts : q # p => rows'[q] = rows[q]
    BY <2>1, <2>2 DEF FormTypeOK
  <2>4. Active' \subseteq Active
    BY <2>1, <2>3 DEF Active, Stored
  <2>5. Cardinality(Active') <= n /\ IsFiniteSet(Active')
    BY <1>0, <2>4, FS_Subset
  <2>6. Cardinality(Active') \in Nat
    BY <2>5, FS_CardinalityType
  <2> QED BY <1>0, <2>2, <2>5, <2>6 DEF ActiveWithinLimit
<1>4. CASE OtherDevice
  <2>1. Active' = Active
    BY <1>4 DEF OtherDevice, Active, Stored
  <2>2. CASE ~Full /\ others' = others + 1
    BY <1>0, <2>1, <2>2 DEF Full, ActiveWithinLimit
  <2>3. CASE others > 0 /\ others' = others - 1
    BY <1>0, <2>1, <2>3 DEF ActiveWithinLimit
  <2> QED BY <1>4, <2>2, <2>3 DEF OtherDevice
<1>5. CreateJob => UNCHANGED <<rows, others>> \/ \E p \in 1 .. Len(posts) : Stores(p)
  BY DEF CreateJob, Repeats, Refuses, store_vars
<1>6. [FormNext]_formVars => UNCHANGED <<rows, others>> \/ CreateJob \/ RequestFinishes \/ OtherDevice
  BY DEF FormNext, formVars, store_vars, OpenForm, ChooseWatch, ChoosePrepare, SeatCount,
         EditTrip, EditWindow, EditTravellers, Edits, Continue, Back, Submit, SaveAnswered,
         SaveFails, CloseForm, FormGoes
<1> QED BY <1>1, <1>2, <1>3, <1>4, <1>5, <1>6

(***************************************************************************)
(* An account never has more active requests than the limit, whatever is   *)
(* under way from this and from other devices (Store.create_job).          *)
(***************************************************************************)
THEOREM LimitHolds == FormSpec => []ActiveWithinLimit
<1>1. FormInit => ActiveWithinLimit
  <2> SUFFICES ASSUME FormInit PROVE ActiveWithinLimit
    OBVIOUS
  <2>1. Active = {}
    BY DEF FormInit, Active, Stored
  <2>2. Cardinality(Active) = 0
    BY <2>1, FS_EmptySet
  <2>3. others \in 0 .. MaxActive
    BY DEF FormInit
  <2> QED BY <2>2, <2>3, FormAssumption DEF ActiveWithinLimit
<1> QED BY <1>1, ActiveNext, FormTypes, PTL DEF FormSpec
=============================================================================
