------------------------ MODULE FormServiceProofs ------------------------
(***************************************************************************)
(* Proofs about FormService, for every set of tenants, users, slugs, form  *)
(* requests and requests in progress, and for every bound.                 *)
(***************************************************************************)
EXTENDS FormService, TLAPS

USE ConstantsAssumption DEF Acknowledge, AckLost, InsertSubmission

-----------------------------------------------------------------------------
(* The ways a step changes req and reply.                                  *)

RequestsOK ==
  /\ req \in [Requests -> Request]
  /\ \A r \in Requests : WellFormed(req[r])
  /\ reply \in Reply

\* One request changes to a well-formed one, with a well-typed reply or none.
LEMMA ReplaceRequest ==
  ASSUME TypeOK, NEW r \in Requests, NEW q \in Request, WellFormed(q),
         req' = [req EXCEPT ![r] = q], reply' \in Reply
  PROVE  RequestsOK'
BY DEF TypeOK, RequestsOK, WellFormed

\* The request that is not in progress is well formed.
LEMMA IdleType == Idle \in Request /\ WellFormed(Idle) /\ NoReply \in Reply
BY DEF Idle, Request, WellFormed, Steps, NoReply, Reply, Codes, SubmissionIds

\* Answering a request keeps req and reply well typed.
LEMMA AnswerType ==
  ASSUME TypeOK, NEW r \in Requests, NEW code \in Codes,
         NEW shown \in SUBSET Tenants, AnswerShowing(r, code, shown)
  PROVE  RequestsOK'
<1>1. req[r] \in Request
  BY DEF TypeOK
<1>2. reply' \in Reply
  BY <1>1 DEF AnswerShowing, Request, Reply
<1> QED
  BY <1>2, IdleType, ReplaceRequest DEF AnswerShowing

\* The response codes of the statements.
LEMMA CodesUsed ==
  /\ "ok" \in Codes /\ "bad_request" \in Codes /\ "not_found" \in Codes
  /\ "slug_taken" \in Codes /\ "locked" \in Codes /\ "in_use" \in Codes
  /\ "internal" \in Codes
BY DEF Codes

\* So does answering without a listing.
LEMMA PlainAnswerType ==
  ASSUME TypeOK, NEW r \in Requests, NEW code \in Codes, Answer(r, code)
  PROVE  RequestsOK'
<1>1. {} \in SUBSET Tenants
  OBVIOUS
<1> QED
  BY <1>1, AnswerType DEF Answer

\* So does moving a request to a next statement it has the arguments for.
LEMMA ProceedType ==
  ASSUME TypeOK, NEW r \in Requests, NEW step \in Steps, Proceed(r, step),
         WellFormed([req[r] EXCEPT !.step = step])
  PROVE  RequestsOK'
<1>1. [req[r] EXCEPT !.step = step] \in Request
  BY DEF TypeOK, Request
<1> QED
  BY <1>1, IdleType, ReplaceRequest DEF Proceed

\* So does the arrival of a tenant's request, which changes nothing else.
LEMMA BeginType ==
  ASSUME TypeOK, NEW r \in Requests, NEW t \in Tenants, NEW step \in Steps,
         NEW i \in FormIds \cup {0}, NEW in \in FormInputs \cup {NoInput},
         Begin(r, t, step, i, in),
         step \in {"create", "update"} => in \in FormInputs,
         step # "create" => i \in FormIds,
         step \notin {"metadata", "updating"}
  PROVE  TypeOK'
<1> DEFINE q == [Idle EXCEPT !.step = step, !.tenant = t, !.form = i,
                             !.input = in]
<1>1. q \in Request
  BY DEF Idle, Request
<1>2. WellFormed(q)
  BY DEF Idle, WellFormed, SubmissionIds
<1>3. RequestsOK'
  BY <1>1, <1>2, IdleType, ReplaceRequest DEF Begin
<1> QED
  BY <1>3 DEF Begin, TypeOK, RequestsOK, tables

\* A form row that is read is well typed, and so is the request it starts.
LEMMA AdmitType ==
  ASSUME TypeOK, NEW r \in Requests, NEW f \in forms,
         NEW u \in Users \cup {Nobody}, Admit(r, f, u)
  PROVE  RequestsOK'
<1> DEFINE q == [Idle EXCEPT !.step = "store", !.tenant = f.tenant,
                   !.form = f.id,
                   !.user = IF f.def.anonymous THEN Nobody ELSE u]
<1>1. f.id \in FormIds /\ f.tenant \in Tenants
  BY DEF TypeOK, Form
<1>2. q \in Request
  BY <1>1 DEF Idle, Request, Steps
<1>3. WellFormed(q)
  BY <1>1 DEF Idle, WellFormed, SubmissionIds
<1> QED
  BY <1>2, <1>3, IdleType, ReplaceRequest DEF Admit

-----------------------------------------------------------------------------
(* Type correctness.                                                       *)

\* The initial state is well typed.
LEMMA InitType == Init => TypeOK
BY IdleType DEF Init, TypeOK

\* Arrivals keep the state well typed.
LEMMA ArriveType ==
  ASSUME TypeOK, NEW r \in Requests, Arrive(r)
  PROVE  TypeOK'
<1>1. CASE BeginCreate(r)
  <2>1. PICK t \in activeTenants, in \in FormInputs :
          Begin(r, t, "create", 0, in)
    BY <1>1 DEF BeginCreate
  <2>2. t \in Tenants
    BY DEF TypeOK
  <2> QED
    BY <2>1, <2>2, BeginType DEF Steps
<1>2. CASE BeginUpdate(r)
  <2>1. PICK t \in activeTenants, i \in FormIds, in \in FormInputs :
          Begin(r, t, "update", i, in)
    BY <1>2 DEF BeginUpdate
  <2>2. t \in Tenants
    BY DEF TypeOK
  <2> QED
    BY <2>1, <2>2, BeginType DEF Steps
<1>3. CASE BeginOnForm(r)
  <2>1. PICK t \in activeTenants, i \in FormIds,
             step \in {"delete", "webhookOwner", "webhooksOwner",
                       "submissionsOwner"} :
          Begin(r, t, step, i, NoInput)
    BY <1>3 DEF BeginOnForm
  <2>2. t \in Tenants
    BY DEF TypeOK
  <2> QED
    BY <2>1, <2>2, BeginType DEF Steps
<1>4. CASE Submit(r)
  <2>1. PICK slug \in Slugs, u \in Users \cup {Nobody} :
          \/ Answer(r, "not_found")
          \/ \E f \in Served(slug) :
               Answer(r, Admission(f, u)) \/ Admit(r, f, u)
    BY <1>4 DEF Submit
  <2>2. ASSUME Answer(r, "not_found")
        PROVE  RequestsOK'
    BY <2>2, CodesUsed, PlainAnswerType
  <2>3. ASSUME NEW f \in Served(slug), Answer(r, Admission(f, u))
        PROVE  RequestsOK'
    <3>1. Admission(f, u) \in Codes
      BY DEF Admission, Codes
    <3> QED
      BY <2>3, <3>1, PlainAnswerType
  <2>4. ASSUME NEW f \in Served(slug), Admit(r, f, u)
        PROVE  RequestsOK'
    <3>1. f \in forms
      BY DEF Served
    <3> QED
      BY <2>4, <3>1, AdmitType
  <2>5. RequestsOK'
    BY <2>1, <2>2, <2>3, <2>4
  <2> QED
    BY <1>4, <2>5 DEF Submit, TypeOK, RequestsOK, tables
<1> QED
  BY <1>1, <1>2, <1>3, <1>4 DEF Arrive

\* The statements of requests in progress keep the state well typed.
LEMMA RunType ==
  ASSUME TypeOK, NEW r \in Requests, Run(r)
  PROVE  TypeOK'
<1> USE CodesUsed
<1>t. req[r] \in Request /\ WellFormed(req[r])
  BY DEF TypeOK
<1>1. CASE CreateForm(r)
  <2>1. RequestsOK'
    BY <1>1, PlainAnswerType DEF CreateForm
  <2>2. req[r].tenant \in Tenants /\ req[r].input \in FormInput
    BY <1>1, <1>t DEF CreateForm, WellFormed
  <2>3. ASSUME NEW i \in FormIds
        PROVE  [id |-> i, tenant |-> req[r].tenant, def |-> req[r].input]
                 \in Form
    BY <2>2 DEF Form
  <2>4. forms' \in SUBSET Form /\ lastFormId' \in FormIds \cup {0}
    BY <1>1, <2>3 DEF CreateForm, TypeOK
  <2> QED
    BY <1>1, <2>1, <2>4 DEF CreateForm, TypeOK, RequestsOK
<1>2. CASE RejectUpdate(r)
  <2>1. RequestsOK'
    BY <1>2, PlainAnswerType DEF RejectUpdate
  <2> QED
    BY <1>2, <2>1 DEF RejectUpdate, TypeOK, RequestsOK, tables
<1>3. CASE SnapshotForm(r)
  <2>1. ASSUME NEW locked \in BOOLEAN,
               req' = [req EXCEPT ![r].step = "updating",
                                  ![r].locked = locked],
               reply' = NoReply
        PROVE  RequestsOK'
    <3> DEFINE q == [req[r] EXCEPT !.step = "updating", !.locked = locked]
    <3>1. q \in Request /\ WellFormed(q)
      BY <1>3, <1>t DEF SnapshotForm, Request, WellFormed, Steps
    <3> QED
      BY <2>1, <3>1, IdleType, ReplaceRequest
  <2>2. ASSUME Proceed(r, "classify")
        PROVE  RequestsOK'
    <3>1. WellFormed([req[r] EXCEPT !.step = "classify"])
      BY <1>3, <1>t DEF SnapshotForm, Request, WellFormed
    <3>2. "classify" \in Steps
      BY DEF Steps
    <3> QED
      BY <2>2, <3>1, <3>2, ProceedType
  <2>3. HasSubmissions(req[r].form) \in BOOLEAN
    BY DEF HasSubmissions
  <2>4. RequestsOK'
    BY <1>3, <2>1, <2>2, <2>3 DEF SnapshotForm
  <2> QED
    BY <1>3, <2>4 DEF SnapshotForm, TypeOK, RequestsOK, tables
<1>4. CASE UpdateForm(r)
  <2>1. PICK locked : WriteForm(r, locked)
    BY <1>4 DEF UpdateForm
  <2>2. req[r].input \in FormInput /\ req[r].step \in {"update", "updating"}
    BY <1>4, <1>t DEF UpdateForm, WellFormed
  <2>3. WellFormed([req[r] EXCEPT !.step = "classify"])
    BY <2>2, <1>t DEF Request, WellFormed
  <2>4. "classify" \in Steps
    BY DEF Steps
  <2>5. RequestsOK'
    BY <2>1, <2>3, <2>4, PlainAnswerType, ProceedType DEF WriteForm
  <2>6. ASSUME NEW f \in forms
        PROVE  [f EXCEPT !.def = req[r].input] \in Form
    BY <2>2 DEF TypeOK, Form
  <2>7. forms' \in SUBSET Form
    BY <2>1, <2>6 DEF WriteForm, TypeOK
  <2> QED
    BY <1>4, <2>5, <2>7 DEF UpdateForm, TypeOK, RequestsOK
<1>5. CASE ClassifyUpdate(r)
  <2>1. RequestsOK'
    BY <1>5, PlainAnswerType DEF ClassifyUpdate
  <2> QED
    BY <1>5, <2>1 DEF ClassifyUpdate, TypeOK, RequestsOK, tables
<1>6. CASE DeleteForm(r)
  <2>1. RequestsOK'
    BY <1>6, PlainAnswerType DEF DeleteForm
  <2>2. forms' \in SUBSET Form
    BY <1>6 DEF DeleteForm, TypeOK
  <2> QED
    BY <1>6, <2>1, <2>2 DEF DeleteForm, TypeOK, RequestsOK
<1>7. CASE StoreSubmission(r)
  <2>1. req[r].form \in FormIds /\ req[r].tenant \in Tenants
        /\ req[r].user \in Users \cup {Nobody}
    BY <1>7, <1>t DEF StoreSubmission, WellFormed, Request
  <2>2. ASSUME NEW i \in SubmissionIds,
               req' = [req EXCEPT ![r].step = "metadata", ![r].sub = i],
               reply' = NoReply
        PROVE  RequestsOK'
    <3> DEFINE q == [req[r] EXCEPT !.step = "metadata", !.sub = i]
    <3>1. q \in Request /\ WellFormed(q)
      BY <1>7, <1>t, <2>1 DEF Request, WellFormed, Steps
    <3> QED
      BY <2>2, <3>1, IdleType, ReplaceRequest
  <2>3. RequestsOK'
    BY <1>7, <2>2, PlainAnswerType DEF StoreSubmission
  <2>4. ASSUME NEW i \in SubmissionIds
        PROVE  [id |-> i, form |-> req[r].form, user |-> req[r].user,
                at |-> clock, owner |-> req[r].tenant] \in Submission
    BY <2>1 DEF Submission, TypeOK
  <2>5. submissions' \in SUBSET Submission
    BY <1>7, <2>4 DEF StoreSubmission, TypeOK
  <2> QED
    BY <1>7, <2>3, <2>5 DEF StoreSubmission, TypeOK, RequestsOK
<1>8. CASE AddMetadata(r)
  <2>1. RequestsOK'
    BY <1>8, PlainAnswerType DEF AddMetadata
  <2>2. metadata' \in SUBSET SubmissionIds
    BY <1>8, <1>t DEF AddMetadata, TypeOK, WellFormed
  <2> QED
    BY <1>8, <2>1, <2>2 DEF AddMetadata, TypeOK, RequestsOK
<1>9. CASE CheckOwner(r)
  <2>1. ASSUME NEW step \in {"webhook", "webhooks", "submissions"}
        PROVE  /\ WellFormed([req[r] EXCEPT !.step = step])
               /\ step \in Steps
    BY <1>9, <1>t DEF CheckOwner, Request, WellFormed, Steps
  <2>2. \/ Answer(r, "not_found")
        \/ \E step \in {"webhook", "webhooks", "submissions"} :
             Proceed(r, step)
    BY <1>9 DEF CheckOwner
  <2>3. RequestsOK'
    BY <2>1, <2>2, PlainAnswerType, ProceedType
  <2> QED
    BY <1>9, <2>3 DEF CheckOwner, TypeOK, RequestsOK, tables
<1>10. CASE CreateWebhook(r)
  <2>1. RequestsOK'
    BY <1>10, PlainAnswerType DEF CreateWebhook
  <2>2. webhooks' \in SUBSET Webhook
    BY <1>10, <1>t DEF CreateWebhook, TypeOK, WellFormed, Webhook
  <2> QED
    BY <1>10, <2>1, <2>2 DEF CreateWebhook, TypeOK, RequestsOK
<1>11. CASE ListWebhooks(r)
  <2>1. \A g \in forms : g.tenant \in Tenants
    BY DEF TypeOK, Form
  <2>2. RequestsOK'
    BY <1>11, <2>1, AnswerType DEF ListWebhooks
  <2> QED
    BY <1>11, <2>2 DEF ListWebhooks, TypeOK, RequestsOK, tables
<1>12. CASE ListSubmissions(r)
  <2>1. \A g \in forms : g.tenant \in Tenants
    BY DEF TypeOK, Form
  <2>2. RequestsOK'
    BY <1>12, <2>1, AnswerType DEF ListSubmissions
  <2> QED
    BY <1>12, <2>2 DEF ListSubmissions, TypeOK, RequestsOK, tables
<1> QED
  BY <1>1, <1>2, <1>3, <1>4, <1>5, <1>6, <1>7, <1>8, <1>9, <1>10, <1>11,
     <1>12 DEF Run

\* Every step leads from a well-typed state to a well-typed state.
LEMMA NextType == TypeOK /\ [Next]_vars => TypeOK'
<1> SUFFICES ASSUME TypeOK, [Next]_vars
             PROVE  TypeOK'
  OBVIOUS
<1>1. ASSUME NEW r \in Requests, StatementFails(r)
      PROVE  TypeOK'
  <2>1. RequestsOK'
    BY <1>1, CodesUsed, PlainAnswerType DEF StatementFails
  <2> QED
    BY <1>1, <2>1 DEF StatementFails, TypeOK, RequestsOK, tables
<1>2. CASE Crash
  BY <1>2, IdleType DEF Crash, TypeOK, tables
<1>3. CASE Tick
  BY <1>3, IdleType DEF Tick, TypeOK, tables
<1>4. ASSUME NEW t \in Suspendable, SetTenantActive(t)
      PROVE  TypeOK'
  BY <1>4, IdleType DEF SetTenantActive, TypeOK, tables
<1>5. CASE UNCHANGED vars
  BY <1>5 DEF vars, TypeOK, tables
<1> QED
  BY <1>1, <1>2, <1>3, <1>4, <1>5, ArriveType, RunType DEF Next

\* Every reachable state is well typed, and every request in progress has the
\* arguments of its next statement at hand.
THEOREM TypeCorrect == Spec => []TypeOK
BY InitType, NextType, PTL DEF Spec

-----------------------------------------------------------------------------
(* What a step can do to the tables and to one request.                    *)

\* Six statements write a table.
LEMMA TableSteps ==
  ASSUME [Next]_vars
  PROVE  \/ UNCHANGED tables
         \/ \E r \in Requests :
              \/ CreateForm(r) \/ UpdateForm(r) \/ DeleteForm(r)
              \/ StoreSubmission(r) \/ AddMetadata(r) \/ CreateWebhook(r)
BY DEF Next, vars, Arrive, Run, BeginCreate, BeginUpdate, BeginOnForm, Begin,
       Submit, RejectUpdate, SnapshotForm, ClassifyUpdate, CheckOwner,
       ListWebhooks, ListSubmissions, StatementFails, Crash, Tick,
       SetTenantActive

\* A request reaches a statement that relies on an earlier check only by
\* passing that check in this very step.
Rechecked(r) ==
  \/ req'[r] = req[r]
  \/ req'[r].step \notin {"store", "metadata", "webhook", "webhooks",
                         "submissions"}
  \/ /\ req'[r].step \in {"store", "webhook", "webhooks", "submissions"}
     /\ Owned(req'[r].form, req'[r].tenant)
     /\ UNCHANGED tables
  \/ /\ req'[r].step = "metadata"
     /\ \E s \in submissions' : s.id = req'[r].sub /\ s.form = req'[r].form

\* Every step of a request rechecks, whichever it is.
LEMMA RequestSteps ==
  ASSUME TypeOK, [Next]_vars, NEW r \in Requests
  PROVE  Rechecked(r)
<1>1. ASSUME NEW p \in Requests, NEW code, NEW shown,
             AnswerShowing(p, code, shown)
      PROVE  Rechecked(r)
  BY <1>1 DEF AnswerShowing, Idle, TypeOK, Rechecked
<1>2. ASSUME NEW p \in Requests, NEW code, Answer(p, code)
      PROVE  Rechecked(r)
  BY <1>1, <1>2 DEF Answer
<1>3. ASSUME NEW p \in Requests, Arrive(p)
      PROVE  Rechecked(r)
  <2>1. ASSUME NEW t, NEW i, NEW in,
               NEW step \in {"create", "update", "delete", "webhookOwner",
                             "webhooksOwner", "submissionsOwner"},
               Begin(p, t, step, i, in)
        PROVE  Rechecked(r)
    BY <2>1 DEF Begin, Idle, TypeOK, Rechecked
  <2>2. CASE Submit(p)
    <3>1. ASSUME NEW f \in forms, NEW u, Admit(p, f, u)
          PROVE  Rechecked(r)
      BY <2>2, <3>1 DEF Submit, Admit, Idle, TypeOK, Rechecked, Owned
    <3> QED
      BY <2>2, <3>1, <1>2 DEF Submit, Served
  <2> QED
    BY <1>3, <2>1, <2>2 DEF Arrive, BeginCreate, BeginUpdate, BeginOnForm
<1>4. ASSUME NEW p \in Requests, Run(p)
      PROVE  Rechecked(r)
  <2>1. ASSUME Proceed(p, "classify")
        PROVE  Rechecked(r)
    BY <2>1 DEF Proceed, TypeOK, Rechecked, Request
  <2>2. CASE SnapshotForm(p)
    BY <2>1, <2>2 DEF SnapshotForm, TypeOK, Rechecked, Request
  <2>3. CASE UpdateForm(p)
    BY <1>2, <2>1, <2>3 DEF UpdateForm, WriteForm
  <2>4. CASE StoreSubmission(p)
    <3>1. ASSUME NEW i,
                 req' = [req EXCEPT ![p].step = "metadata", ![p].sub = i],
                 submissions' = submissions \cup
                   {[id |-> i, form |-> req[p].form, user |-> req[p].user,
                     at |-> clock, owner |-> req[p].tenant]}
          PROVE  Rechecked(r)
      <4>1. CASE r # p
        BY <3>1, <4>1 DEF TypeOK, Rechecked
      <4>2. CASE r = p
        <5>0. req[r] \in Request /\ req \in [Requests -> Request]
          BY DEF TypeOK
        <5>1. req'[r] = [req[r] EXCEPT !.step = "metadata", !.sub = i]
          BY <3>1, <4>2, <5>0 DEF Request
        <5>2. req'[r].step = "metadata" /\ req'[r].sub = i
              /\ req'[r].form = req[r].form
          BY <5>0, <5>1 DEF Request
        <5>3. \E s \in submissions' : s.id = i /\ s.form = req[r].form
          <6> DEFINE row == [id |-> i, form |-> req[p].form,
                             user |-> req[p].user, at |-> clock,
                             owner |-> req[p].tenant]
          <6>1. row \in submissions'
            BY <3>1
          <6>2. row.id = i /\ row.form = req[r].form
            BY <4>2
          <6> QED
            BY <6>1, <6>2
        <5>4. \E s \in submissions' : /\ s.id = req'[r].sub
                                     /\ s.form = req'[r].form
          BY <4>2, <5>2, <5>3
        <5> QED
          BY <5>2, <5>4 DEF Rechecked
      <4> QED
        BY <4>1, <4>2
    <3> QED
      BY <1>2, <2>4, <3>1 DEF StoreSubmission
  <2>5. CASE CheckOwner(p)
    <3>1. \/ Answer(p, "not_found")
          \/ /\ Owned(req[p].form, req[p].tenant)
             /\ \E step \in {"webhook", "webhooks", "submissions"} :
                  Proceed(p, step)
      BY <2>5 DEF CheckOwner
    <3>2. ASSUME NEW step \in {"webhook", "webhooks", "submissions"},
                 Proceed(p, step), Owned(req[p].form, req[p].tenant)
          PROVE  Rechecked(r)
      BY <2>5, <3>2
         DEF CheckOwner, Proceed, TypeOK, Rechecked, Request, Owned
    <3> QED
      BY <1>2, <3>1, <3>2
  <2> QED
    BY <1>1, <1>2, <1>4, <2>2, <2>3, <2>4, <2>5
       DEF Run, CreateForm, RejectUpdate, ClassifyUpdate, DeleteForm,
           AddMetadata, CreateWebhook, ListWebhooks, ListSubmissions
<1>5. CASE Crash
  BY <1>5 DEF Crash, Idle, Rechecked
<1> QED
  BY <1>2, <1>3, <1>4, <1>5
     DEF Next, vars, StatementFails, Tick, SetTenantActive, Rechecked

-----------------------------------------------------------------------------
(* Keys and references.                                                    *)

\* One step keeps ids and slugs unique and ids in order.
LEMMA KeysStep ==
  ASSUME TypeOK, UniqueKeys, IdsGivenOut, [Next]_vars
  PROVE  UniqueKeys' /\ IdsGivenOut'
<1>0. lastFormId \in Nat /\ \A f \in forms : f.id \in Nat
  BY DEF TypeOK, Form, FormIds
<1>1. CASE UNCHANGED tables
  BY <1>1 DEF tables, UniqueKeys, IdsGivenOut
<1>2. ASSUME NEW r \in Requests, CreateForm(r)
      PROVE  UniqueKeys' /\ IdsGivenOut'
  <2>1. CASE UNCHANGED <<forms, lastFormId>>
    BY <2>1 DEF UniqueKeys, IdsGivenOut
  <2>2. ASSUME NEW i \in FormIds, NewFormId(i),
               ~SlugTaken(req[r].input.slug, 0),
               forms' = forms \cup {[id |-> i, tenant |-> req[r].tenant,
                                     def |-> req[r].input]},
               lastFormId' = IF i > lastFormId THEN i ELSE lastFormId
        PROVE  UniqueKeys' /\ IdsGivenOut'
    <3> DEFINE row == [id |-> i, tenant |-> req[r].tenant, def |-> req[r].input]
    <3>0. i \in Nat
      BY DEF FormIds
    <3>1. \A f \in forms : f.id < i
      BY <1>0, <2>2, <3>0 DEF NewFormId, NextRowid, NextIdentity, IdsGivenOut
    <3>2. \A f \in forms : f.def.slug # row.def.slug
      BY <2>2 DEF SlugTaken, TypeOK, Form, FormIds
    <3>3. UniqueKeys'
      BY <1>0, <2>2, <3>0, <3>1, <3>2 DEF UniqueKeys
    <3>4. IdsGivenOut'
      BY <1>0, <2>2, <3>0 DEF IdsGivenOut
    <3> QED
      BY <3>3, <3>4
  <2> QED
    BY <1>2, <2>1, <2>2 DEF CreateForm
<1>3. ASSUME NEW r \in Requests, UpdateForm(r)
      PROVE  UniqueKeys' /\ IdsGivenOut'
  <2>1. CASE UNCHANGED forms
    BY <1>3, <2>1 DEF UpdateForm, UniqueKeys, IdsGivenOut
  <2>2. ASSUME NEW f \in forms, ~SlugTaken(req[r].input.slug, f.id),
               forms' = (forms \ {f}) \cup {[f EXCEPT !.def = req[r].input]}
        PROVE  UniqueKeys' /\ IdsGivenOut'
    <3> DEFINE row == [f EXCEPT !.def = req[r].input]
    <3>1. row.id = f.id /\ row.def = req[r].input
      BY DEF TypeOK, Form
    <3>2. \A g \in forms \ {f} : g.id # f.id /\ g.def.slug # row.def.slug
      BY <2>2, <3>1 DEF UniqueKeys, SlugTaken
    <3>3. UniqueKeys'
      BY <2>2, <3>1, <3>2 DEF UniqueKeys
    <3>4. IdsGivenOut'
      BY <1>3, <2>2, <3>1 DEF UpdateForm, IdsGivenOut
    <3> QED
      BY <3>3, <3>4
  <2> QED
    BY <1>3, <2>1, <2>2 DEF UpdateForm, WriteForm
<1>4. ASSUME NEW r \in Requests, DeleteForm(r)
      PROVE  UniqueKeys' /\ IdsGivenOut'
  BY <1>4 DEF DeleteForm, UniqueKeys, IdsGivenOut
<1>5. ASSUME NEW r \in Requests,
             StoreSubmission(r) \/ AddMetadata(r) \/ CreateWebhook(r)
      PROVE  UniqueKeys' /\ IdsGivenOut'
  BY <1>5 DEF StoreSubmission, AddMetadata, CreateWebhook, UniqueKeys,
              IdsGivenOut
<1> QED
  BY <1>1, <1>2, <1>3, <1>4, <1>5, TableSteps

\* One step keeps every reference, and the submission that a handler is about
\* to add metadata to.
LEMMA ReferencesStep ==
  ASSUME TypeOK, TablesInv, [Next]_vars
  PROVE  References' /\ SubmissionHeld'
<1> USE DEF TablesInv
<1>1. submissions \subseteq submissions'
  BY TableSteps
     DEF tables, CreateForm, UpdateForm, DeleteForm, StoreSubmission,
         AddMetadata, CreateWebhook
<1>2. SubmissionHeld'
  <2>1. SUFFICES ASSUME NEW r \in Requests, req'[r].step = "metadata"
                 PROVE  \E s \in submissions' : /\ s.id = req'[r].sub
                                                /\ s.form = req'[r].form
    BY DEF SubmissionHeld
  <2> QED
    BY <1>1, <2>1, RequestSteps DEF Rechecked, SubmissionHeld
<1>3. References'
  <2>1. CASE UNCHANGED tables
    BY <2>1 DEF tables, References, FormExists
  <2>2. ASSUME NEW r \in Requests, CreateForm(r)
        PROVE  References'
    <3>1. forms \subseteq forms'
      BY <2>2 DEF CreateForm
    <3> QED
      BY <2>2, <3>1 DEF CreateForm, References, FormExists
  <2>3. ASSUME NEW r \in Requests, UpdateForm(r)
        PROVE  References'
    <3>1. ASSUME NEW i, FormExists(i)
          PROVE  FormExists(i)'
      <4>1. CASE UNCHANGED forms
        BY <3>1, <4>1 DEF FormExists
      <4>2. ASSUME NEW f \in forms,
                   forms' = (forms \ {f}) \cup
                              {[f EXCEPT !.def = req[r].input]}
            PROVE  FormExists(i)'
        <5>1. [f EXCEPT !.def = req[r].input].id = f.id
          BY DEF TypeOK, Form
        <5> QED
          BY <3>1, <4>2, <5>1 DEF FormExists
      <4> QED
        BY <2>3, <4>1, <4>2 DEF UpdateForm, WriteForm
    <3> QED
      BY <2>3, <3>1 DEF UpdateForm, References
  <2>4. ASSUME NEW r \in Requests, DeleteForm(r)
        PROVE  References'
    <3>1. ASSUME NEW i, FormExists(i), Referenced(i)
          PROVE  FormExists(i)'
      BY <2>4, <3>1 DEF DeleteForm, FormExists
    <3> QED
      BY <2>4, <3>1
         DEF DeleteForm, References, Referenced, HasSubmissions, HasWebhooks
  <2>5. ASSUME NEW r \in Requests, StoreSubmission(r)
        PROVE  References'
    BY <1>1, <2>5 DEF StoreSubmission, References, FormExists
  <2>6. ASSUME NEW r \in Requests, AddMetadata(r)
        PROVE  References'
    BY <2>6 DEF AddMetadata, References, FormExists, SubmissionHeld
  <2>7. ASSUME NEW r \in Requests, CreateWebhook(r)
        PROVE  References'
    BY <2>7 DEF CreateWebhook, References, FormExists
  <2> QED
    BY <2>1, <2>2, <2>3, <2>4, <2>5, <2>6, <2>7, TableSteps
<1> QED
  BY <1>2, <1>3

\* TablesInv holds initially and is preserved by every step.
LEMMA TablesInvInductive ==
  /\ Init => TablesInv
  /\ TypeOK /\ TablesInv /\ [Next]_vars => TablesInv'
<1>1. Init => TablesInv
  BY DEF Init, Idle, TablesInv, UniqueKeys, References, IdsGivenOut,
         SubmissionHeld
<1>2. TypeOK /\ TablesInv /\ [Next]_vars => TablesInv'
  BY KeysStep, ReferencesStep DEF TablesInv
<1> QED
  BY <1>1, <1>2

\* The tables stay consistent: TablesInv is an invariant.
LEMMA TablesInvHolds == Spec => []TablesInv
<1>1. TypeOK /\ TablesInv /\ [Next]_vars => TablesInv'
  BY TablesInvInductive
<1>2. Init => TablesInv
  BY TablesInvInductive
<1> QED
  BY <1>1, <1>2, TypeCorrect, PTL DEF Spec

\* No two rows of forms ever share an id or a slug, on either engine.
THEOREM KeysAreUnique == Spec => []UniqueKeys
<1>1. TablesInv => UniqueKeys
  BY DEF TablesInv
<1> QED
  BY <1>1, TablesInvHolds, PTL

\* No submission, metadata row or webhook is ever orphaned, on either engine.
THEOREM ReferencesHold == Spec => []References
<1>1. TablesInv => References
  BY DEF TablesInv
<1> QED
  BY <1>1, TablesInvHolds, PTL

-----------------------------------------------------------------------------
(* Who changes a form, and what an update may change.                      *)

\* A step that changes the table of forms is a step of one request: it adds a
\* row of that request's tenant, redefines one, or deletes one.
FormsChange(r) ==
  LET t == req[r].tenant IN
  /\ req' = [req EXCEPT ![r] = Idle]
  /\ \/ \E i \in FormIds :
          /\ NewFormId(i)
          /\ forms' = forms \cup
               {[id |-> i, tenant |-> t, def |-> req[r].input]}
          /\ lastFormId' = IF i > lastFormId THEN i ELSE lastFormId
     \/ \E f \in forms :
          /\ f.tenant = t
          /\ forms' = (forms \ {f}) \cup {[f EXCEPT !.def = req[r].input]}
          /\ lastFormId' = lastFormId
     \/ \E f \in forms :
          /\ f.tenant = t
          /\ ~Referenced(f.id)
          /\ forms' = {g \in forms : g.id # f.id}
          /\ lastFormId' = lastFormId

\* Every step leaves the forms alone or changes them in one of these ways.
LEMMA FormSteps ==
  ASSUME TypeOK, [Next]_vars
  PROVE  \/ UNCHANGED <<forms, lastFormId>>
         \/ \E r \in Requests : FormsChange(r)
<1>1. ASSUME NEW r \in Requests, CreateForm(r), ~UNCHANGED <<forms, lastFormId>>
      PROVE  FormsChange(r)
  BY <1>1 DEF CreateForm, Answer, AnswerShowing, FormsChange
<1>2. ASSUME NEW r \in Requests, UpdateForm(r), ~UNCHANGED <<forms, lastFormId>>
      PROVE  FormsChange(r)
  <2>1. PICK locked : WriteForm(r, locked)
    BY <1>2 DEF UpdateForm
  <2>2. lastFormId' = lastFormId
    BY <1>2 DEF UpdateForm
  <2>3. PICK f \in forms :
          /\ f.tenant = req[r].tenant
          /\ forms' = (forms \ {f}) \cup {[f EXCEPT !.def = req[r].input]}
          /\ Acknowledge(r)
    BY <1>2, <2>1, <2>2 DEF WriteForm, UpdateMatches
  <2> QED
    BY <2>2, <2>3 DEF Answer, AnswerShowing, FormsChange
<1>3. ASSUME NEW r \in Requests, DeleteForm(r), ~UNCHANGED <<forms, lastFormId>>
      PROVE  FormsChange(r)
  BY <1>3 DEF DeleteForm, Owned, Answer, AnswerShowing, FormsChange
<1> QED
  BY <1>1, <1>2, <1>3, TableSteps
     DEF tables, StoreSubmission, AddMetadata, CreateWebhook

\* One step changes forms of the acting request's tenant only.
LEMMA TenantScopedStep ==
  ASSUME TypeOK, UniqueKeys, [Next]_vars, NEW r \in Requests,
         req'[r] # req[r],
         NEW f \in (forms \ forms') \cup (forms' \ forms)
  PROVE  f.tenant = req[r].tenant
<1>1. PICK p \in Requests : FormsChange(p)
  BY FormSteps
<1>2. p = r
  BY <1>1 DEF FormsChange, TypeOK
<1>3. CASE \E i \in FormIds :
             forms' = forms \cup {[id |-> i, tenant |-> req[r].tenant,
                                   def |-> req[r].input]}
  BY <1>3
<1>4. ASSUME NEW g \in forms, g.tenant = req[r].tenant,
             forms' = (forms \ {g}) \cup {[g EXCEPT !.def = req[r].input]}
      PROVE  f.tenant = req[r].tenant
  <2>1. [g EXCEPT !.def = req[r].input].tenant = g.tenant
    BY DEF TypeOK, Form
  <2> QED
    BY <1>4, <2>1
<1>5. ASSUME NEW g \in forms, g.tenant = req[r].tenant,
             forms' = {h \in forms : h.id # g.id}
      PROVE  f.tenant = req[r].tenant
  BY <1>5 DEF UniqueKeys
<1> QED
  BY <1>1, <1>2, <1>3, <1>4, <1>5 DEF FormsChange

\* A form is added, changed and removed by requests of its own tenant only,
\* on either engine.
THEOREM TenantsAreScoped == Spec => TenantScoped
<1>1. TypeOK /\ TablesInv /\ [Next]_vars
        => [\A r \in Requests :
              req'[r] # req[r] =>
                \A f \in (forms \ forms') \cup (forms' \ forms) :
                  f.tenant = req[r].tenant]_vars
  BY TenantScopedStep DEF TablesInv
<1> QED
  BY <1>1, TypeCorrect, TablesInvHolds, PTL DEF Spec, TenantScoped

-----------------------------------------------------------------------------
(* The content lock, on SQLite.                                            *)

\* SQLite runs an UPDATE and its subquery as one statement.
NoSnapshots == \A r \in Requests : req[r].step # "updating"

\* No request of a SQLite server ever holds a snapshot.
LEMMA NoSnapshotsStep ==
  ASSUME Engine = "sqlite", TypeOK, NoSnapshots, [Next]_vars
  PROVE  NoSnapshots'
<1> SUFFICES ASSUME NEW r \in Requests
             PROVE  req'[r].step # "updating"
  BY DEF NoSnapshots
<1>0. req \in [Requests -> Request] /\ req[r].step # "updating"
  BY DEF TypeOK, NoSnapshots
<1>1. ASSUME NEW p \in Requests, NEW q, q.step # "updating",
             req' = [req EXCEPT ![p] = q]
      PROVE  req'[r].step # "updating"
  BY <1>0, <1>1
<1>2. ASSUME NEW p \in Requests, NEW code, NEW shown,
             AnswerShowing(p, code, shown)
      PROVE  req'[r].step # "updating"
  BY <1>1, <1>2 DEF AnswerShowing, Idle
<1>3. ASSUME NEW p \in Requests, NEW step, Proceed(p, step),
             step # "updating"
      PROVE  req'[r].step # "updating"
  BY <1>0, <1>3 DEF Proceed, Request
<1>4. ASSUME NEW p \in Requests, Arrive(p)
      PROVE  req'[r].step # "updating"
  <2>1. ASSUME NEW t, NEW i, NEW in,
               NEW step \in {"create", "update", "delete", "webhookOwner",
                             "webhooksOwner", "submissionsOwner"},
               Begin(p, t, step, i, in)
        PROVE  req'[r].step # "updating"
    BY <1>1, <2>1 DEF Begin, Idle
  <2>2. CASE Submit(p)
    <3>1. ASSUME NEW f, NEW u, Admit(p, f, u)
          PROVE  req'[r].step # "updating"
      <4> DEFINE q == [Idle EXCEPT !.step = "store", !.tenant = f.tenant,
                         !.form = f.id,
                         !.user = IF f.def.anonymous THEN Nobody ELSE u]
      <4>1. q.step = "store"
        BY DEF Idle
      <4>2. req' = [req EXCEPT ![p] = q]
        BY <3>1 DEF Admit
      <4> HIDE DEF q
      <4> QED
        BY <1>1, <4>1, <4>2
    <3> QED
      BY <2>2, <3>1, <1>2 DEF Submit, Answer
  <2> QED
    BY <1>4, <2>1, <2>2 DEF Arrive, BeginCreate, BeginUpdate, BeginOnForm
<1>5. ASSUME NEW p \in Requests, Run(p)
      PROVE  req'[r].step # "updating"
  <2>1. CASE UpdateForm(p)
    BY <1>2, <1>3, <2>1 DEF UpdateForm, WriteForm, Answer
  <2>2. CASE StoreSubmission(p)
    <3>1. ASSUME NEW i,
                 req' = [req EXCEPT ![p].step = "metadata", ![p].sub = i]
          PROVE  req'[r].step # "updating"
      BY <1>0, <3>1 DEF Request
    <3> QED
      BY <1>2, <2>2, <3>1 DEF StoreSubmission, Answer
  <2>3. CASE CheckOwner(p)
    BY <1>2, <1>3, <2>3 DEF CheckOwner, Answer
  <2> QED
    BY <1>2, <1>5, <2>1, <2>2, <2>3
       DEF Run, CreateForm, RejectUpdate, SnapshotForm, ClassifyUpdate,
           DeleteForm, AddMetadata, CreateWebhook, ListWebhooks,
           ListSubmissions, Answer
<1>6. CASE Crash
  BY <1>6 DEF Crash, Idle
<1> QED
  BY <1>0, <1>2, <1>4, <1>5, <1>6
     DEF Next, vars, StatementFails, Tick, SetTenantActive, Answer

\* Form f is still there, with its content, and has not become a draft.
Kept(f) ==
  \E g \in forms' : /\ g.id = f.id
                    /\ g.def.content = f.def.content
                    /\ g.def.draft => f.def.draft

\* Request r writes its definition over f, having seen no submission of it.
OverwritesUnlocked(r, f) ==
  /\ req[r].step = "updating" /\ ~req[r].locked
  /\ req[r].form = f.id /\ req[r].tenant = f.tenant
  /\ forms' = (forms \ {f}) \cup {[f EXCEPT !.def = req[r].input]}

\* One step leaves a form with submissions as it is, or writes over it with a
\* snapshot that is older than they are.
LEMMA LockedFormsStep ==
  ASSUME TypeOK, [Next]_vars, NEW f \in forms, HasSubmissions(f.id)
  PROVE  Kept(f) \/ \E r \in Requests : OverwritesUnlocked(r, f)
<1>1. CASE f \in forms'
  BY <1>1 DEF Kept
<1>2. CASE f \notin forms'
  <2>1. PICK r \in Requests : UpdateForm(r) \/ DeleteForm(r)
    BY <1>2, TableSteps
       DEF tables, CreateForm, StoreSubmission, AddMetadata, CreateWebhook
  <2>2. CASE DeleteForm(r)
    BY <1>2, <2>2 DEF DeleteForm, Referenced
  <2>3. CASE UpdateForm(r)
    <3>1. PICK locked \in BOOLEAN :
            /\ WriteForm(r, locked)
            /\ \/ locked = HasSubmissions(req[r].form)
               \/ req[r].step = "updating" /\ locked = req[r].locked
      BY <2>3 DEF UpdateForm, HasSubmissions, TypeOK, Request
    <3>2. PICK h \in forms :
            /\ UpdateMatches(h, r, locked)
            /\ forms' = (forms \ {h}) \cup {[h EXCEPT !.def = req[r].input]}
      BY <1>2, <3>1 DEF WriteForm
    <3>3. h = f
      BY <1>2, <3>2
    <3>4. req[r].form = f.id /\ req[r].tenant = f.tenant
      BY <3>2, <3>3 DEF UpdateMatches
    <3>5. CASE ~locked
      <4>1. req[r].step = "updating" /\ ~req[r].locked
        BY <3>1, <3>4, <3>5
      <4> QED
        BY <3>2, <3>3, <3>4, <4>1 DEF OverwritesUnlocked
    <3>6. CASE locked
      <4> DEFINE row == [f EXCEPT !.def = req[r].input]
      <4>1. row.id = f.id /\ row.def = req[r].input
        BY DEF TypeOK, Form
      <4>2. f.def.content = row.def.content /\ (row.def.draft => f.def.draft)
        BY <3>2, <3>3, <3>6, <4>1 DEF UpdateMatches
      <4>3. row \in forms'
        BY <3>2, <3>3
      <4> HIDE DEF row
      <4> QED
        BY <4>1, <4>2, <4>3 DEF Kept
    <3> QED
      BY <3>5, <3>6
  <2> QED
    BY <2>1, <2>2, <2>3
<1> QED
  BY <1>1, <1>2

\* What is left of ContentLocked, on either engine: a form with submissions
\* is never deleted, and it loses its content, or becomes a draft, only when an
\* update of its own tenant has found its row in a snapshot without
\* submissions and writes after one has been stored.
THEOREM LockYieldsToOldSnapshots ==
  Spec => [][\A f \in forms : HasSubmissions(f.id) =>
               Kept(f) \/ \E r \in Requests : OverwritesUnlocked(r, f)]_vars
<1>1. TypeOK /\ [Next]_vars
        => [\A f \in forms : HasSubmissions(f.id) =>
              Kept(f) \/ \E r \in Requests : OverwritesUnlocked(r, f)]_vars
  BY LockedFormsStep
<1> QED
  BY <1>1, TypeCorrect, PTL DEF Spec

\* On SQLite a form with submissions keeps its content and is never deleted.
THEOREM ContentIsLockedOnSQLite ==
  ASSUME Engine = "sqlite"
  PROVE  Spec => ContentLocked
<1>1. Init => NoSnapshots
  BY DEF Init, Idle, NoSnapshots
<1>2. TypeOK /\ NoSnapshots /\ [Next]_vars => NoSnapshots'
  BY NoSnapshotsStep
<1>3. TypeOK /\ NoSnapshots /\ [Next]_vars
        => [\A f \in forms : HasSubmissions(f.id) =>
              \E g \in forms' : /\ g.id = f.id
                                /\ g.def.content = f.def.content
                                /\ g.def.draft => f.def.draft]_vars
  <2> SUFFICES ASSUME TypeOK, NoSnapshots, [Next]_vars,
                      NEW f \in forms, HasSubmissions(f.id)
               PROVE  Kept(f)
    BY DEF Kept
  <2> QED
    BY LockedFormsStep DEF OverwritesUnlocked, NoSnapshots
<1> QED
  BY <1>1, <1>2, <1>3, TypeCorrect, PTL DEF Spec, ContentLocked

-----------------------------------------------------------------------------
(* Rows and listings stay with their tenant as long as ids do.             *)

\* A form found after a step was there before, under its tenant, or is new
\* and has been given its id.
LEMMA FormsKeepTheirTenant ==
  ASSUME TypeOK, [Next]_vars, NEW f \in forms'
  PROVE  \/ \E g \in forms : g.id = f.id /\ g.tenant = f.tenant
         \/ f \notin forms /\ f.id \in FormIds /\ NewFormId(f.id)
<1>1. CASE f \in forms
  BY <1>1
<1>2. CASE f \notin forms
  <2>1. PICK r \in Requests : FormsChange(r)
    BY <1>2, FormSteps
  <2>2. CASE \E i \in FormIds :
               /\ NewFormId(i)
               /\ forms' = forms \cup
                    {[id |-> i, tenant |-> req[r].tenant,
                      def |-> req[r].input]}
    BY <1>2, <2>2
  <2>3. ASSUME NEW g \in forms,
               forms' = (forms \ {g}) \cup {[g EXCEPT !.def = req[r].input]}
        PROVE  \E h \in forms : h.id = f.id /\ h.tenant = f.tenant
    <3>1. f = [g EXCEPT !.def = req[r].input]
      BY <1>2, <2>3
    <3> QED
      BY <3>1 DEF TypeOK, Form
  <2>4. ~(forms' \subseteq forms)
    BY <1>2
  <2> QED
    BY <1>2, <2>1, <2>2, <2>3, <2>4 DEF FormsChange
<1> QED
  BY <1>1, <1>2

\* The highest id given out only grows.
LEMMA IdsGrow ==
  ASSUME TypeOK, [Next]_vars
  PROVE  lastFormId <= lastFormId'
<1>1. lastFormId \in Nat
  BY DEF TypeOK, FormIds
<1> QED
  BY <1>1, FormSteps DEF FormsChange, FormIds

\* No form has an id that is being given out, whichever engine gives it.
LEMMA NewIdsAreFree ==
  ASSUME TypeOK, IdsGivenOut, NEW i \in FormIds, NewFormId(i)
  PROVE  ~FormExists(i)
BY DEF TypeOK, Form, FormIds, IdsGivenOut, NewFormId, NextRowid, NextIdentity,
       FormExists

\* Request r goes by a form it has checked.
Relies(r) == req[r].step \in {"store", "webhook", "webhooks", "submissions"}

\* The form it goes by is still that tenant's, or gone.
ReliesRightly(r) ==
  Relies(r) => \A f \in forms : f.id = req[r].form => f.tenant = req[r].tenant

\* The id of that form has been given out.
FormsNamed == \A r \in Requests : Relies(r) => req[r].form <= lastFormId

\* The form is gone, and its id is given to a new one.
IdComesBack(r) ==
  \E f \in forms' \ forms :
    f.id = req[r].form /\ f.id <= lastFormId /\ NewFormId(f.id)

\* PostgreSQL's counter never gives an id again.
LEMMA NoIdComesBack ==
  ASSUME Engine = "postgres", TypeOK, NEW r
  PROVE  ~IdComesBack(r)
BY DEF TypeOK, FormIds, IdComesBack, NewFormId, NextIdentity

\* A request that reaches a statement relying on a check has passed it now, or
\* goes on as it was.
LEMMA RelyingSteps ==
  ASSUME TypeOK, [Next]_vars, NEW r \in Requests, Relies(r)'
  PROVE  \/ req'[r] = req[r] /\ Relies(r)
         \/ Owned(req'[r].form, req'[r].tenant) /\ UNCHANGED tables
BY RequestSteps DEF Rechecked, Relies

LEMMA FormsNamedStep ==
  ASSUME TypeOK, TablesInv, FormsNamed, [Next]_vars
  PROVE  FormsNamed'
<1> SUFFICES ASSUME NEW r \in Requests, Relies(r)'
             PROVE  req'[r].form <= lastFormId'
  BY DEF FormsNamed
<1>0. lastFormId \in Nat /\ lastFormId' \in Nat /\ req'[r].form \in Nat
  BY NextType DEF TypeOK, Request, FormIds
<1>1. CASE req'[r] = req[r] /\ Relies(r)
  BY <1>0, <1>1, IdsGrow DEF FormsNamed
<1>2. CASE Owned(req'[r].form, req'[r].tenant) /\ UNCHANGED tables
  BY <1>2 DEF Owned, tables, TablesInv, IdsGivenOut
<1> QED
  BY <1>1, <1>2, RelyingSteps

\* What a request goes by becomes wrong only when the id comes back.
LEMMA ReliesStep ==
  ASSUME TypeOK, TablesInv, FormsNamed, [Next]_vars, NEW r \in Requests,
         ReliesRightly(r), ~ReliesRightly(r)'
  PROVE  IdComesBack(r)
<1>1. PICK f \in forms' : f.id = req'[r].form /\ f.tenant # req'[r].tenant
  BY DEF ReliesRightly
<1>2. Relies(r)'
  BY DEF ReliesRightly
<1>3. ~UNCHANGED tables \/ req'[r] = req[r]
  BY <1>1, <1>2, RelyingSteps DEF Owned, tables, TablesInv, UniqueKeys
<1>4. req'[r] = req[r] /\ Relies(r)
  BY <1>2, <1>3, RelyingSteps DEF Relies
<1>5. f \notin forms /\ NewFormId(f.id)
  BY <1>1, <1>4, FormsKeepTheirTenant DEF ReliesRightly
<1> QED
  BY <1>1, <1>4, <1>5 DEF FormsNamed, IdComesBack

\* Row x belongs to a form of another tenant than the one whose form the
\* handler had checked.
Strays(x) == \E f \in forms : f.id = x.form /\ f.tenant # x.owner

LEMMA NoneStrays ==
  RowsStayWithTheirTenant <=> \A x \in submissions \cup webhooks : ~Strays(x)
BY DEF RowsStayWithTheirTenant, Strays

\* Request r stores a row under a form that has become another tenant's.
StoresAstray(r) ==
  (StoreSubmission(r) \/ CreateWebhook(r)) /\ ~ReliesRightly(r)

\* A row goes astray only when it is stored.
LEMMA RowsStep ==
  ASSUME TypeOK, TablesInv, [Next]_vars,
         NEW x \in submissions' \cup webhooks', Strays(x)'
  PROVE  \/ x \in submissions \cup webhooks /\ Strays(x)
         \/ \E r \in Requests : StoresAstray(r) /\ x.form = req[r].form
<1>1. PICK f \in forms' : f.id = x.form /\ f.tenant # x.owner
  BY DEF Strays
<1>2. CASE x \in submissions \cup webhooks
  <2>1. FormExists(x.form)
    BY <1>2 DEF TablesInv, References
  <2>2. ~(f.id \in FormIds /\ NewFormId(f.id))
    BY <1>1, <2>1, NewIdsAreFree DEF TablesInv
  <2> QED
    BY <1>1, <1>2, <2>2, FormsKeepTheirTenant DEF Strays
<1>3. CASE x \in submissions' \ submissions
  <2>1. PICK r \in Requests : StoreSubmission(r)
    BY <1>3, TableSteps
       DEF tables, CreateForm, UpdateForm, DeleteForm, AddMetadata,
           CreateWebhook
  <2>2. x.form = req[r].form /\ x.owner = req[r].tenant /\ forms' = forms
    BY <1>3, <2>1 DEF StoreSubmission, InsertSubmission
  <2>3. req[r].step = "store"
    BY <2>1 DEF StoreSubmission
  <2> QED
    BY <1>1, <2>1, <2>2, <2>3 DEF ReliesRightly, Relies, StoresAstray
<1>4. CASE x \in webhooks' \ webhooks
  <2>1. PICK r \in Requests : CreateWebhook(r)
    BY <1>4, TableSteps
       DEF tables, CreateForm, UpdateForm, DeleteForm, AddMetadata,
           StoreSubmission
  <2>2. x.form = req[r].form /\ x.owner = req[r].tenant /\ forms' = forms
    BY <1>4, <2>1 DEF CreateWebhook
  <2>3. req[r].step = "webhook"
    BY <2>1 DEF CreateWebhook
  <2> QED
    BY <1>1, <2>1, <2>2, <2>3 DEF ReliesRightly, Relies, StoresAstray
<1> QED
  BY <1>2, <1>3, <1>4

\* A step answers with an empty listing, unless it is one of the two listings.
LEMMA ListingSteps ==
  ASSUME [Next]_vars
  PROVE  \/ reply' = reply
         \/ reply'.shown = {}
         \/ \E r \in Requests : ListWebhooks(r) \/ ListSubmissions(r)
<1>1. ASSUME NEW r \in Requests, Arrive(r)
      PROVE  reply'.shown = {}
  <2>1. reply' = NoReply \/ \E code : Answer(r, code)
    <3>1. CASE Submit(r)
      BY <3>1 DEF Submit, Admit
    <3> QED
      BY <1>1, <3>1 DEF Arrive, BeginCreate, BeginUpdate, BeginOnForm, Begin
  <2> QED
    BY <2>1 DEF Answer, AnswerShowing, NoReply
<1>2. ASSUME NEW r \in Requests, Run(r), ~ListWebhooks(r),
             ~ListSubmissions(r)
      PROVE  reply'.shown = {}
  <2>1. reply' = NoReply \/ \E code : Answer(r, code)
    BY <1>2 DEF Run, CreateForm, RejectUpdate, SnapshotForm, UpdateForm,
                WriteForm, ClassifyUpdate, DeleteForm, StoreSubmission,
                AddMetadata, CheckOwner, CreateWebhook, Proceed
  <2> QED
    BY <2>1 DEF Answer, AnswerShowing, NoReply
<1> QED
  BY <1>1, <1>2
     DEF Answer, AnswerShowing, NoReply, Next, vars, StatementFails, Crash, Tick,
         SetTenantActive

\* Request r lists the webhooks of a form that has become another tenant's.
ListsAstray(r) == ListWebhooks(r) /\ ~ReliesRightly(r)

\* A listing shows rows of another tenant's form only in that case.
LEMMA ListingsStep ==
  ASSUME [Next]_vars, ListingsAreScoped, ~ListingsAreScoped'
  PROVE  \E r \in Requests : ListsAstray(r)
<1>1. PICK r \in Requests : ListWebhooks(r) \/ ListSubmissions(r)
  BY ListingSteps DEF ListingsAreScoped
<1>2. ~ListSubmissions(r)
  BY DEF ListSubmissions, AnswerShowing, ListingsAreScoped
<1> QED
  BY <1>1, <1>2
     DEF ListWebhooks, AnswerShowing, ListingsAreScoped, ReliesRightly, Relies,
         ListsAstray

LEMMA FormsNamedHolds == Spec => []FormsNamed
<1>1. Init => FormsNamed
  BY DEF Init, Idle, FormsNamed, Relies
<1>2. TypeOK /\ TablesInv /\ FormsNamed /\ [Next]_vars => FormsNamed'
  BY FormsNamedStep
<1> QED
  BY <1>1, <1>2, TypeCorrect, TablesInvHolds, PTL DEF Spec

\* What is left of RowsStayWithTheirTenant and ListingsAreScoped on SQLite:
\* a row goes astray, or a listing shows another tenant's rows, only by the
\* second statement of a handler whose form has become another tenant's since
\* the first, and it becomes that only when the form is deleted and its id,
\* the highest one, given to the next form.
THEOREM RowsStrayOnlyWhenIdsComeBack ==
  Spec => [][/\ \A r \in Requests :
                  ReliesRightly(r) => ReliesRightly(r)' \/ IdComesBack(r)
             /\ \A x \in submissions' \cup webhooks' :
                  Strays(x)' =>
                    \/ x \in submissions \cup webhooks /\ Strays(x)
                    \/ \E r \in Requests :
                         StoresAstray(r) /\ x.form = req[r].form
             /\ ListingsAreScoped =>
                  ListingsAreScoped' \/ \E r \in Requests : ListsAstray(r)]_vars
<1>1. TypeOK /\ TablesInv /\ FormsNamed /\ [Next]_vars
        => [/\ \A r \in Requests :
                  ReliesRightly(r) => ReliesRightly(r)' \/ IdComesBack(r)
            /\ \A x \in submissions' \cup webhooks' :
                  Strays(x)' =>
                    \/ x \in submissions \cup webhooks /\ Strays(x)
                    \/ \E r \in Requests :
                         StoresAstray(r) /\ x.form = req[r].form
            /\ ListingsAreScoped =>
                 ListingsAreScoped' \/ \E r \in Requests : ListsAstray(r)]_vars
  BY ReliesStep, RowsStep, ListingsStep
<1> QED
  BY <1>1, TypeCorrect, TablesInvHolds, FormsNamedHolds, PTL DEF Spec

\* PostgreSQL never gives an id again, so no request ever goes by a form that
\* has become another tenant's.
LEMMA OwnersInvHolds ==
  ASSUME Engine = "postgres"
  PROVE  Spec => []OwnersInv
<1>1. OwnersInv <=> /\ RowsStayWithTheirTenant /\ FormsNamed
                    /\ \A r \in Requests : ReliesRightly(r)
  BY DEF OwnersInv, CheckedFormsStay, FormsNamed, ReliesRightly, Relies
<1>2. Init => OwnersInv
  BY DEF Init, Idle, OwnersInv, RowsStayWithTheirTenant, CheckedFormsStay
<1>3. ASSUME TypeOK, TablesInv, OwnersInv, [Next]_vars
      PROVE  OwnersInv'
  <2>1. FormsNamed' /\ \A r \in Requests : ReliesRightly(r)'
    BY <1>1, <1>3, FormsNamedStep, ReliesStep, NoIdComesBack
  <2>2. RowsStayWithTheirTenant'
    <3>1. \A x \in submissions' \cup webhooks' : ~Strays(x)'
      BY <1>1, <1>3, NoneStrays, RowsStep DEF StoresAstray
    <3> QED
      BY <3>1 DEF RowsStayWithTheirTenant, Strays
  <2> QED
    BY <2>1, <2>2
       DEF OwnersInv, CheckedFormsStay, FormsNamed, ReliesRightly, Relies
<1> QED
  BY <1>2, <1>3, TypeCorrect, TablesInvHolds, PTL DEF Spec

\* On PostgreSQL a stored submission or webhook never ends up with a form of
\* another tenant than the one whose form its handler had checked.
THEOREM RowsStayOnPostgres ==
  ASSUME Engine = "postgres"
  PROVE  Spec => []RowsStayWithTheirTenant
<1>1. OwnersInv => RowsStayWithTheirTenant
  BY DEF OwnersInv
<1> QED
  BY <1>1, OwnersInvHolds, PTL

\* On PostgreSQL a listing shows rows of the caller's forms only, although the
\* webhooks are selected by form id alone, after the ownership was checked.
THEOREM ListingsAreScopedOnPostgres ==
  ASSUME Engine = "postgres"
  PROVE  Spec => []ListingsAreScoped
<1>1. Init => ListingsAreScoped
  BY DEF Init, NoReply, ListingsAreScoped
<1>2. OwnersInv /\ ListingsAreScoped /\ [Next]_vars => ListingsAreScoped'
  <2>1. OwnersInv => \A r \in Requests : ReliesRightly(r)
    BY DEF OwnersInv, CheckedFormsStay, ReliesRightly, Relies
  <2> QED
    BY <2>1, ListingsStep DEF ListsAstray
<1> QED
  BY <1>1, <1>2, OwnersInvHolds, PTL DEF Spec

-----------------------------------------------------------------------------
(* What a client is told.                                                  *)

\* An answer names a submission only if its request was about to record the
\* metadata.
LEMMA SubmissionAnswers ==
  ASSUME TypeOK, [Next]_vars
  PROVE  \/ UNCHANGED vars
         \/ reply'.sub = 0
         \/ \E r \in Requests : AddMetadata(r)
<1>1. ASSUME NEW r \in Requests, req[r].step # "metadata", NEW code,
             NEW shown, AnswerShowing(r, code, shown)
      PROVE  reply'.sub = 0
  BY <1>1 DEF AnswerShowing, TypeOK, WellFormed, Request
<1>2. ASSUME NEW r \in Requests, req[r].step # "metadata", NEW code,
             Answer(r, code)
      PROVE  reply'.sub = 0
  BY <1>1, <1>2 DEF Answer
<1>3. NoReply.sub = 0
  BY DEF NoReply
<1>4. ASSUME NEW r \in Requests, Arrive(r)
      PROVE  reply'.sub = 0
  BY <1>2, <1>3, <1>4
     DEF Arrive, BeginCreate, BeginUpdate, BeginOnForm, Begin, Submit, Admit
<1>5. ASSUME NEW r \in Requests, Run(r), ~AddMetadata(r)
      PROVE  reply'.sub = 0
  BY <1>1, <1>2, <1>3, <1>5
     DEF Run, CreateForm, RejectUpdate, SnapshotForm, UpdateForm, WriteForm,
         ClassifyUpdate, DeleteForm, StoreSubmission, InsertSubmission,
         CheckOwner, CreateWebhook, ListWebhooks, ListSubmissions, Proceed,
         Acknowledge, AckLost
<1> QED
  BY <1>2, <1>3, <1>4, <1>5
     DEF Next, StatementFails, Crash, Tick, SetTenantActive

\* Whenever the handler knows that a submission is stored it says so, also
\* when the metadata could not be recorded.
THEOREM StoredSubmissionsAreAnnounced == Spec => []StoredIsAnnounced
<1>1. Init => StoredIsAnnounced
  BY DEF Init, NoReply, StoredIsAnnounced
<1>2. ASSUME TypeOK, TablesInv, StoredIsAnnounced, [Next]_vars
      PROVE  StoredIsAnnounced'
  <2>1. CASE UNCHANGED vars
    BY <1>2, <2>1 DEF vars, tables, StoredIsAnnounced
  <2>2. CASE reply'.sub = 0
    BY <2>2 DEF StoredIsAnnounced
  <2>3. ASSUME NEW r \in Requests, AddMetadata(r)
        PROVE  StoredIsAnnounced'
    BY <1>2, <2>3
       DEF AddMetadata, Answer, AnswerShowing, StoredIsAnnounced, TablesInv,
           SubmissionHeld
  <2> QED
    BY <1>2, <2>1, <2>2, <2>3, SubmissionAnswers
<1> QED
  BY <1>1, <1>2, TypeCorrect, TablesInvHolds, PTL DEF Spec

\* A lock that an update in progress has seen is there to stay.
SeenLocksStay ==
  \A r \in Requests :
    req[r].step = "updating" /\ req[r].locked => HasSubmissions(req[r].form)

\* Request r finds no row to update.
FindsNoRow(r) ==
  /\ req[r].step \in {"update", "updating"}
  /\ \E locked \in {HasSubmissions(req[r].form), req[r].locked} :
       /\ \A f \in forms : ~UpdateMatches(f, r, locked)
       /\ locked => \/ HasSubmissions(req[r].form)
                    \/ req[r].step = "updating" /\ req[r].locked

\* How a request gets to a statement of Update.
UpdateStep(r) ==
  \/ req'[r] = req[r]
  \/ req'[r].step \notin {"update", "updating", "classify"}
  \/ /\ UNCHANGED tables
     /\ \/ req'[r].step = "update"
        \/ /\ req'[r].form = req[r].form /\ req'[r].tenant = req[r].tenant
           /\ \/ /\ req[r].step = "update" /\ req'[r].step = "updating"
                 /\ req'[r].locked => HasSubmissions(req[r].form)
              \/ req'[r].step = "classify" /\ FindsNoRow(r)

LEMMA UpdateSteps ==
  ASSUME TypeOK, [Next]_vars, NEW r \in Requests
  PROVE  UpdateStep(r)
<1>0. req \in [Requests -> Request] /\ req[r] \in Request
  BY DEF TypeOK
<1>1. ASSUME NEW p \in Requests, NEW code, NEW shown,
             AnswerShowing(p, code, shown)
      PROVE  UpdateStep(r)
  BY <1>0, <1>1 DEF AnswerShowing, Idle, UpdateStep
<1>2. ASSUME NEW p \in Requests, NEW code, Answer(p, code)
      PROVE  UpdateStep(r)
  BY <1>1, <1>2 DEF Answer
<1>3. ASSUME NEW p \in Requests, Arrive(p)
      PROVE  UpdateStep(r)
  <2>1. ASSUME NEW t, NEW i, NEW in,
               NEW step \in {"create", "delete", "webhookOwner",
                             "webhooksOwner", "submissionsOwner"},
               Begin(p, t, step, i, in)
        PROVE  UpdateStep(r)
    BY <1>0, <2>1 DEF Begin, Idle, UpdateStep
  <2>2. CASE BeginUpdate(p)
    <3>1. PICK t \in activeTenants, i \in FormIds, in \in FormInputs :
            Begin(p, t, "update", i, in)
      BY <2>2 DEF BeginUpdate
    <3> QED
      BY <1>0, <3>1 DEF Begin, Idle, UpdateStep
  <2>3. CASE Submit(p)
    <3>1. ASSUME NEW f, NEW u, Admit(p, f, u)
          PROVE  UpdateStep(r)
      BY <1>0, <3>1 DEF Admit, Idle, UpdateStep
    <3> QED
      BY <1>2, <2>3, <3>1 DEF Submit
  <2> QED
    BY <1>3, <2>1, <2>2, <2>3 DEF Arrive, BeginCreate, BeginOnForm
<1>4. ASSUME NEW p \in Requests, Run(p)
      PROVE  UpdateStep(r)
  <2>1. ASSUME FindsNoRow(p), UNCHANGED tables, Proceed(p, "classify")
        PROVE  UpdateStep(r)
    BY <1>0, <2>1 DEF Proceed, Request, UpdateStep
  <2>2. CASE SnapshotForm(p)
    <3> DEFINE locked == HasSubmissions(req[p].form)
    <3>1. CASE \E f \in forms : UpdateMatches(f, p, locked)
      <4>1. /\ req' = [req EXCEPT ![p].step = "updating",
                                  ![p].locked = locked]
            /\ UNCHANGED tables /\ req[p].step = "update"
        BY <2>2, <3>1 DEF SnapshotForm
      <4>2. CASE r = p
        <5> HIDE DEF locked
        <5>1. /\ req'[r].step = "updating" /\ req'[r].locked = locked
              /\ req'[r].form = req[r].form
              /\ req'[r].tenant = req[r].tenant
          BY <1>0, <4>1, <4>2 DEF Request
        <5> QED
          BY <4>1, <4>2, <5>1 DEF UpdateStep, locked
      <4>3. CASE r # p
        BY <1>0, <4>1, <4>3 DEF UpdateStep
      <4> QED
        BY <4>2, <4>3
    <3>2. CASE ~\E f \in forms : UpdateMatches(f, p, locked)
      <4>1. FindsNoRow(p)
        BY <2>2, <3>2 DEF SnapshotForm, FindsNoRow
      <4> QED
        BY <2>1, <2>2, <3>2, <4>1 DEF SnapshotForm
    <3> QED
      BY <3>1, <3>2
  <2>3. CASE UpdateForm(p)
    <3>1. CASE Proceed(p, "classify") /\ UNCHANGED forms
      <4>1. FindsNoRow(p) \/ ~Proceed(p, "classify") \/ UpdateStep(r)
        BY <1>2, <2>3 DEF UpdateForm, WriteForm, FindsNoRow, Acknowledge,
                          AckLost
      <4> QED
        BY <2>1, <2>3, <3>1, <4>1 DEF UpdateForm, tables
    <3>2. CASE ~(Proceed(p, "classify") /\ UNCHANGED forms)
      BY <1>2, <2>3, <3>2 DEF UpdateForm, WriteForm, Acknowledge, AckLost
    <3> QED
      BY <3>1, <3>2
  <2>4. CASE StoreSubmission(p)
    <3>1. ASSUME NEW i, req' = [req EXCEPT ![p].step = "metadata",
                                           ![p].sub = i]
          PROVE  UpdateStep(r)
      BY <1>0, <3>1 DEF Request, UpdateStep
    <3> QED
      BY <1>2, <2>4, <3>1 DEF StoreSubmission, InsertSubmission, AckLost
  <2>5. CASE CheckOwner(p)
    <3>1. ASSUME NEW step \in {"webhook", "webhooks", "submissions"},
                 Proceed(p, step)
          PROVE  UpdateStep(r)
      BY <1>0, <3>1 DEF Proceed, Request, UpdateStep
    <3> QED
      BY <1>2, <2>5, <3>1 DEF CheckOwner
  <2> QED
    BY <1>1, <1>2, <1>4, <2>2, <2>3, <2>4, <2>5
       DEF Run, CreateForm, RejectUpdate, ClassifyUpdate, DeleteForm,
           AddMetadata, CreateWebhook, ListWebhooks, ListSubmissions,
           Acknowledge, AckLost
<1>5. CASE Crash
  BY <1>5 DEF Crash, Idle, UpdateStep
<1> QED
  BY <1>2, <1>3, <1>4, <1>5
     DEF Next, vars, StatementFails, Tick, SetTenantActive, UpdateStep

\* Submissions are never deleted.
LEMMA SubmissionsStay ==
  ASSUME [Next]_vars, NEW i, HasSubmissions(i)
  PROVE  HasSubmissions(i)'
<1>1. submissions \subseteq submissions'
  BY TableSteps
     DEF tables, CreateForm, UpdateForm, DeleteForm, StoreSubmission,
         AddMetadata, CreateWebhook, InsertSubmission
<1> QED
  BY <1>1 DEF HasSubmissions

LEMMA SeenLocksStep ==
  ASSUME TypeOK, SeenLocksStay, [Next]_vars
  PROVE  SeenLocksStay'
<1> SUFFICES ASSUME NEW r \in Requests,
                    req'[r].step = "updating", req'[r].locked
             PROVE  \E s \in submissions' : s.form = req'[r].form
  BY DEF SeenLocksStay, HasSubmissions
<1>1. CASE req'[r] = req[r]
  BY <1>1, SubmissionsStay DEF SeenLocksStay, HasSubmissions
<1>2. CASE /\ UNCHANGED tables
           /\ req'[r].form = req[r].form
           /\ req'[r].locked => HasSubmissions(req[r].form)
  BY <1>2 DEF tables, HasSubmissions
<1> QED
  BY <1>1, <1>2, UpdateSteps DEF UpdateStep

LEMMA SeenLocksHold == Spec => []SeenLocksStay
<1>1. Init => SeenLocksStay
  BY DEF Init, Idle, SeenLocksStay
<1>2. TypeOK /\ SeenLocksStay /\ [Next]_vars => SeenLocksStay'
  BY SeenLocksStep
<1> QED
  BY <1>1, <1>2, TypeCorrect, PTL DEF Spec

\* A form of request r's tenant is created under the id that r names.
CreatedMeanwhile(r) ==
  \E f \in forms' \ forms : /\ f.id = req[r].form
                            /\ f.tenant = req[r].tenant
                            /\ ~FormExists(f.id)

\* What an update goes by becomes wrong only then: it has found no row because
\* its tenant had no such form, or because the form had submissions, which
\* stay.
LEMMA MistakesStep ==
  ASSUME TypeOK, TablesInv, SeenLocksStay, [Next]_vars, NEW r \in Requests,
         MistakesLock(r)', ~MistakesLock(r)
  PROVE  CreatedMeanwhile(r)
<1>1. /\ req'[r].step = "classify"
      /\ \E f \in forms' : f.id = req'[r].form /\ f.tenant = req'[r].tenant
      /\ ~\E s \in submissions' : s.form = req'[r].form
  BY DEF MistakesLock, Owned, HasSubmissions
<1>2. PICK f \in forms' : f.id = req'[r].form /\ f.tenant = req'[r].tenant
  BY <1>1
<1>3. CASE req'[r] = req[r]
  <2>1. ~HasSubmissions(req[r].form)
    BY <1>1, <1>3, SubmissionsStay DEF HasSubmissions
  <2>2. f \notin forms /\ f.id \in FormIds /\ NewFormId(f.id)
    BY <1>1, <1>2, <1>3, <2>1, FormsKeepTheirTenant DEF MistakesLock, Owned
  <2>3. ~FormExists(f.id)
    BY <2>2, NewIdsAreFree DEF TablesInv
  <2> QED
    BY <1>2, <1>3, <2>2, <2>3 DEF CreatedMeanwhile
<1>4. CASE /\ UNCHANGED tables
           /\ req'[r].form = req[r].form /\ req'[r].tenant = req[r].tenant
           /\ FindsNoRow(r)
  <2>1. Owned(req[r].form, req[r].tenant) => HasSubmissions(req[r].form)
    BY <1>4 DEF FindsNoRow, UpdateMatches, Owned, SeenLocksStay
  <2> QED
    BY <1>1, <1>4, <2>1 DEF tables, Owned, HasSubmissions
<1> QED
  BY <1>1, <1>3, <1>4, UpdateSteps DEF UpdateStep

\* Only the second query of Update answers that a form is locked.
LEMMA LockedAnswers ==
  ASSUME [Next]_vars
  PROVE  \/ UNCHANGED vars
         \/ reply'.code # "locked"
         \/ \E r \in Requests : ClassifyUpdate(r)
<1>1. ASSUME NEW r, NEW code, NEW shown, AnswerShowing(r, code, shown),
             code # "locked"
      PROVE  reply'.code # "locked"
  BY <1>1 DEF AnswerShowing
<1>2. ASSUME NEW r, NEW code, Answer(r, code), code # "locked"
      PROVE  reply'.code # "locked"
  BY <1>1, <1>2 DEF Answer
<1>3. NoReply.code # "locked"
  BY DEF NoReply
<1>4. ASSUME NEW r \in Requests, Arrive(r)
      PROVE  reply'.code # "locked"
  BY <1>2, <1>3, <1>4
     DEF Arrive, BeginCreate, BeginUpdate, BeginOnForm, Begin, Submit, Admit,
         Admission
<1>5. ASSUME NEW r \in Requests, Run(r), ~ClassifyUpdate(r)
      PROVE  reply'.code # "locked"
  BY <1>1, <1>2, <1>3, <1>5
     DEF Run, CreateForm, RejectUpdate, SnapshotForm, UpdateForm, WriteForm,
         DeleteForm, StoreSubmission, InsertSubmission, AddMetadata,
         CheckOwner, CreateWebhook, ListWebhooks, ListSubmissions, Proceed,
         Acknowledge, AckLost
<1> QED
  BY <1>2, <1>3, <1>4, <1>5
     DEF Next, StatementFails, Crash, Tick, SetTenantActive

LEMMA LockedStep ==
  ASSUME [Next]_vars, ~UNCHANGED vars, reply'.code = "locked"
  PROVE  \/ HasSubmissions(reply'.form)
         \/ \E r \in Requests : MistakesLock(r)
<1>1. PICK r \in Requests : ClassifyUpdate(r)
  BY LockedAnswers
<1> QED
  BY <1>1
     DEF ClassifyUpdate, Answer, AnswerShowing, tables, HasSubmissions,
         MistakesLock

\* On either engine an update is told that its form is locked by submissions
\* it does not have only if, between its two queries, its tenant has created a
\* form under the id: no other interleaving of updates, submissions, deletions
\* and creations misleads the second query.
THEOREM LocksAreMistakenOnlyForNewForms == Spec => LocksMistakeOnlyNewForms
<1>1. TypeOK /\ TablesInv /\ SeenLocksStay /\ [Next]_vars
        => [/\ \A r \in Requests :
                 MistakesLock(r)' =>
                   \/ MistakesLock(r)
                   \/ \E f \in forms' \ forms : /\ f.id = req[r].form
                                                /\ f.tenant = req[r].tenant
                                                /\ ~FormExists(f.id)
            /\ reply'.code = "locked" =>
                 \/ HasSubmissions(reply'.form)
                 \/ \E r \in Requests : MistakesLock(r)]_vars
  BY MistakesStep, LockedStep DEF CreatedMeanwhile
<1> QED
  BY <1>1, TypeCorrect, TablesInvHolds, SeenLocksHold, PTL
     DEF Spec, LocksMistakeOnlyNewForms

-----------------------------------------------------------------------------
(* Every request winds down.                                               *)

\* How many statements a request has left, at most.
StatementsLeft(q) ==
  CASE q.step = "idle" -> 0
    [] q.step = "update" -> 3
    [] q.step \in {"updating", "store", "webhookOwner", "webhooksOwner",
                   "submissionsOwner"} -> 2
    [] OTHER -> 1

Shortens(r) == StatementsLeft(req'[r]) < StatementsLeft(req[r])

\* A request that is answered has none left.
LEMMA AnswersShorten ==
  ASSUME TypeOK, NEW r \in Requests, req[r].step # "idle", NEW code, NEW shown,
         AnswerShowing(r, code, shown)
  PROVE  Shortens(r)
BY DEF AnswerShowing, TypeOK, Idle, Shortens, StatementsLeft

\* One that goes on has fewer.
LEMMA StepsShorten ==
  ASSUME TypeOK, NEW r \in Requests, NEW step,
         req'[r].step = step,
         \/ req[r].step = "update" /\ step \in {"updating", "classify"}
         \/ req[r].step = "updating" /\ step = "classify"
         \/ req[r].step = "store" /\ step = "metadata"
         \/ /\ req[r].step \in {"webhookOwner", "webhooksOwner",
                                "submissionsOwner"}
            /\ step \in {"webhook", "webhooks", "submissions"}
  PROVE  Shortens(r)
BY DEF Shortens, StatementsLeft

\* Whatever statement a request runs.
LEMMA RunShortens ==
  ASSUME TypeOK, NEW r \in Requests, Run(r)
  PROVE  Shortens(r)
<1>0. req \in [Requests -> Request] /\ req[r] \in Request
  BY DEF TypeOK
<1>1. ASSUME NEW step, Proceed(r, step)
      PROVE  req'[r].step = step
  BY <1>0, <1>1 DEF Proceed, Request
<1>2. ASSUME NEW code, Answer(r, code), req[r].step # "idle"
      PROVE  Shortens(r)
  BY <1>2, AnswersShorten DEF Answer
<1>3. CASE SnapshotForm(r)
  <2>1. req'[r].step \in {"updating", "classify"}
    BY <1>0, <1>1, <1>3 DEF SnapshotForm, Request
  <2> QED
    BY <1>3, <2>1, StepsShorten DEF SnapshotForm
<1>4. CASE UpdateForm(r)
  BY <1>1, <1>2, <1>4, StepsShorten
     DEF UpdateForm, WriteForm, Acknowledge, AckLost
<1>5. CASE StoreSubmission(r)
  <2>1. \/ req'[r].step = "metadata"
        \/ \E code : Answer(r, code)
    BY <1>0, <1>5 DEF StoreSubmission, InsertSubmission, AckLost, Request
  <2> QED
    BY <1>2, <1>5, <2>1, StepsShorten DEF StoreSubmission
<1>6. CASE CheckOwner(r)
  <2>1. \/ req'[r].step \in {"webhook", "webhooks", "submissions"}
        \/ Answer(r, "not_found")
    BY <1>1, <1>6 DEF CheckOwner
  <2> QED
    BY <1>2, <1>6, <2>1, StepsShorten DEF CheckOwner
<1>7. CASE ListWebhooks(r) \/ ListSubmissions(r)
  BY <1>7, AnswersShorten DEF ListWebhooks, ListSubmissions
<1> QED
  BY <1>2, <1>3, <1>4, <1>5, <1>6, <1>7
     DEF Run, CreateForm, RejectUpdate, ClassifyUpdate, DeleteForm,
         AddMetadata, CreateWebhook, Acknowledge, AckLost

\* The statements of a request do nothing to the others.
LEMMA OthersWait ==
  ASSUME TypeOK, NEW p \in Requests, NEW r \in Requests \ {p},
         Arrive(p) \/ Run(p) \/ StatementFails(p)
  PROVE  req'[r] = req[r]
<1>1. \A code, shown : AnswerShowing(p, code, shown) => req'[r] = req[r]
  BY DEF AnswerShowing, TypeOK
<1>2. \A code : Answer(p, code) => req'[r] = req[r]
  BY <1>1 DEF Answer
<1>3. \A step : Proceed(p, step) => req'[r] = req[r]
  BY DEF Proceed, TypeOK
<1>4. CASE Arrive(p)
  <2>1. \A t, step, i, in : Begin(p, t, step, i, in) => req'[r] = req[r]
    BY DEF Begin, TypeOK
  <2>2. \A f, u : Admit(p, f, u) => req'[r] = req[r]
    BY DEF Admit, TypeOK
  <2>3. CASE Submit(p)
    BY <1>2, <2>2, <2>3 DEF Submit
  <2> QED
    BY <1>4, <2>1, <2>3 DEF Arrive, BeginCreate, BeginUpdate, BeginOnForm
<1>5. CASE SnapshotForm(p)
  BY <1>3, <1>5 DEF SnapshotForm, TypeOK
<1>6. CASE UpdateForm(p)
  BY <1>2, <1>3, <1>6 DEF UpdateForm, WriteForm, Acknowledge, AckLost
<1>7. CASE StoreSubmission(p)
  <2>1. \/ \E i : req' = [req EXCEPT ![p].step = "metadata", ![p].sub = i]
        \/ \E code : Answer(p, code)
    BY <1>7 DEF StoreSubmission, InsertSubmission, AckLost
  <2> QED
    BY <1>2, <2>1 DEF TypeOK
<1>8. CASE CheckOwner(p)
  BY <1>2, <1>3, <1>8 DEF CheckOwner
<1>9. CASE ListWebhooks(p) \/ ListSubmissions(p)
  BY <1>1, <1>9 DEF ListWebhooks, ListSubmissions
<1> QED
  BY <1>2, <1>4, <1>5, <1>6, <1>7, <1>8, <1>9
     DEF Run, CreateForm, RejectUpdate, ClassifyUpdate, DeleteForm,
         AddMetadata, CreateWebhook, Acknowledge, AckLost, StatementFails

\* A request runs at most three statements: each brings it nearer to its
\* answer, and nothing that other requests, operators or a crash do takes it
\* back.  That its next statement runs is what the fairness of
\* EveryRequestAnswered adds.
THEOREM RequestsWindDown ==
  Spec => /\ [](\A r \in Requests : StatementsLeft(req[r]) \in 0..3)
          /\ [][\A r \in Requests :
                  /\ Run(r) => Shortens(r)
                  /\ req[r].step # "idle" => req'[r] = req[r] \/ Shortens(r)]_vars
<1>1. TypeOK => \A r \in Requests : StatementsLeft(req[r]) \in 0..3
  BY DEF StatementsLeft
<1>2. ASSUME TypeOK, [Next]_vars, NEW r \in Requests, req[r].step # "idle"
      PROVE  req'[r] = req[r] \/ Shortens(r)
  <2>1. ASSUME NEW p \in Requests \ {r},
               Arrive(p) \/ Run(p) \/ StatementFails(p)
        PROVE  req'[r] = req[r]
    <3>1. r \in Requests \ {p}
      OBVIOUS
    <3> QED
      BY <1>2, <2>1, <3>1, OthersWait
  <2>2. ~Arrive(r)
    BY <1>2 DEF Arrive, BeginCreate, BeginUpdate, BeginOnForm, Begin, Submit
  <2>3. CASE Run(r)
    BY <1>2, <2>3, RunShortens
  <2>4. CASE StatementFails(r)
    BY <1>2, <2>4, AnswersShorten DEF StatementFails, Answer
  <2>5. CASE Crash
    BY <1>2, <2>5 DEF Crash, Idle, Shortens, StatementsLeft
  <2> QED
    BY <1>2, <2>1, <2>2, <2>3, <2>4, <2>5
       DEF Next, vars, Tick, SetTenantActive
<1>3. TypeOK /\ [Next]_vars
        => [\A r \in Requests :
              /\ Run(r) => Shortens(r)
              /\ req[r].step # "idle" => req'[r] = req[r] \/ Shortens(r)]_vars
  BY <1>2, RunShortens
<1> QED
  BY <1>1, <1>3, TypeCorrect, PTL DEF Spec
=============================================================================
