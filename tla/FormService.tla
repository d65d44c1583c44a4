---------------------------- MODULE FormService ----------------------------
(***************************************************************************)
(* Forms, submissions and webhooks as their HTTP handlers change them: the *)
(* handlers of cmd/api/handlers, the services of internal/pkg/{forms,      *)
(* submissions,webhooks} and the SQL they run.                             *)
(*                                                                         *)
(* Every request runs in a goroutine of its own and every SQL statement    *)
(* commits by itself, so a handler that runs two statements is two actions *)
(* of this module and any other request may run between them.  The two     *)
(* engines the program supports differ in two ways that matter here, both  *)
(* selected by the constant Engine:                                        *)
(*   - SQLite's INTEGER PRIMARY KEY gives a new row the highest id in use  *)
(*     plus one, so the id of a deleted form can be given out again;       *)
(*     PostgreSQL's identity column never repeats an id;                   *)
(*   - SQLite runs one writing statement at a time; PostgreSQL evaluates   *)
(*     the subquery of an UPDATE on the snapshot the statement started     *)
(*     with (READ COMMITTED), and other statements may commit before the   *)
(*     UPDATE writes its row.                                              *)
(***************************************************************************)
EXTENDS Naturals, FiniteSets

CONSTANTS
  Tenants,         \* owners of forms, authenticated by API key
  Users,           \* accounts that may be signed in on the public routes
  Nobody,          \* no tenant, no user: an anonymous visitor
  Slugs,           \* public names of forms
  Contents,        \* form definitions, as canonical JSON
  FormInputs,      \* the form requests clients send, once decoded
  NoInput,         \* a request without a form body
  Suspendable,     \* tenants an operator may suspend
  Requests,        \* HTTP requests that may be in progress at once
  Engine,          \* "sqlite" or "postgres"
  MaxForms,        \* size of the id space of forms
  MaxSubmissions,  \* size of the id space of submissions
  MaxTime          \* last instant of the clock

FormIds == 1..MaxForms
SubmissionIds == 1..MaxSubmissions

\* Instants.  A form without start_date starts at 0; one without end_date ends
\* at Never, an instant the clock does not reach.
Never == MaxTime + 1
Instants == 0..Never

\* What a decoded FormRequest says of a form.
FormInput ==
  [slug: Slugs, content: Contents, active: BOOLEAN, draft: BOOLEAN,
   public: BOOLEAN, anonymous: BOOLEAN, start: Instants, end: Instants]

ASSUME ConstantsAssumption ==
  /\ Engine \in {"sqlite", "postgres"}
  /\ MaxForms \in Nat /\ MaxSubmissions \in Nat /\ MaxTime \in Nat
  /\ Nobody \notin Tenants \cup Users
  /\ Suspendable \subseteq Tenants
  /\ FormInputs \subseteq FormInput
  /\ NoInput \notin FormInputs
  /\ \A in \in FormInputs : in.start < in.end

VARIABLES
  forms,          \* rows of table forms
  lastFormId,     \* highest form id ever given out
  submissions,    \* rows of table form_submissions
  metadata,       \* ids of the submissions with a row in submission_metadata
  webhooks,       \* rows of table form_webhooks, identified by form and owner
  activeTenants,  \* tenants whose is_active is set
  clock,          \* wall clock
  req,            \* requests in progress: next statement and local variables
  reply           \* the response sent by the last step, if it sent one

tables == <<forms, lastFormId, submissions, metadata, webhooks>>
vars == <<tables, activeTenants, clock, req, reply>>

-----------------------------------------------------------------------------
(* Types.  A submission and a webhook carry, as history, the tenant whose   *)
(* form the handler had checked when it stored the row (field owner).       *)

Form == [id: FormIds, tenant: Tenants, def: FormInput]

Submission ==
  [id: SubmissionIds, form: FormIds, user: Users \cup {Nobody},
   at: 0..MaxTime, owner: Tenants]

Webhook == [form: FormIds, owner: Tenants]

\* The statement a request runs next.
Steps ==
  {"idle", "create", "update", "updating", "classify", "delete", "store",
   "metadata", "webhookOwner", "webhook", "webhooksOwner", "webhooks",
   "submissionsOwner", "submissions"}

Request ==
  [step: Steps,
   tenant: Tenants \cup {Nobody},  \* tenant of the API key, or of the form read
   user: Users \cup {Nobody},      \* user id the submission will record
   form: FormIds \cup {0},         \* id from the path, or of the form read
   input: FormInputs \cup {NoInput},
   locked: BOOLEAN,                \* submissions seen by the UPDATE's snapshot
   sub: SubmissionIds \cup {0}]    \* id of the submission stored

\* What a handler has at hand when it runs its next statement.
WellFormed(q) ==
  /\ q.step # "idle" => q.tenant \in Tenants
  /\ q.step \in {"create", "update", "updating"} => q.input \in FormInputs
  /\ q.step \notin {"idle", "create"} => q.form \in FormIds
  /\ q.step = "metadata" <=> q.sub \in SubmissionIds

Codes ==
  {"none", "ok", "bad_request", "unauthorized", "not_found", "gone",
   "slug_taken", "locked", "in_use", "internal"}

Reply ==
  [code: Codes, tenant: Tenants \cup {Nobody}, form: FormIds \cup {0},
   sub: SubmissionIds \cup {0},
   shown: SUBSET Tenants]          \* owners of the rows a listing returns

TypeOK ==
  /\ forms \in SUBSET Form
  /\ lastFormId \in FormIds \cup {0}
  /\ submissions \in SUBSET Submission
  /\ metadata \in SUBSET SubmissionIds
  /\ webhooks \in SUBSET Webhook
  /\ activeTenants \in SUBSET Tenants
  /\ clock \in 0..MaxTime
  /\ req \in [Requests -> Request]
  /\ \A r \in Requests : WellFormed(req[r])
  /\ reply \in Reply

-----------------------------------------------------------------------------
(* Requests.                                                               *)

Idle ==
  [step |-> "idle", tenant |-> Nobody, user |-> Nobody, form |-> 0,
   input |-> NoInput, locked |-> FALSE, sub |-> 0]

NoReply ==
  [code |-> "none", tenant |-> Nobody, form |-> 0, sub |-> 0, shown |-> {}]

\* Request r has sent its response and is over.
AnswerShowing(r, code, shown) ==
  /\ req' = [req EXCEPT ![r] = Idle]
  /\ reply' = [code |-> code, tenant |-> req[r].tenant, form |-> req[r].form,
               sub |-> req[r].sub, shown |-> shown]

Answer(r, code) == AnswerShowing(r, code, {})

\* The row request r has written is committed.  PostgreSQL is reached over a
\* connection, which may be lost before the acknowledgement arrives: 500.
AckLost(r) == Engine = "postgres" /\ Answer(r, "internal")
Acknowledge(r) == Answer(r, "ok") \/ AckLost(r)

\* Request r goes on to its next statement.
Proceed(r, step) ==
  /\ req' = [req EXCEPT ![r].step = step]
  /\ reply' = NoReply

Init ==
  /\ forms = {} /\ lastFormId = 0
  /\ submissions = {} /\ metadata = {} /\ webhooks = {}
  /\ activeTenants = Tenants
  /\ clock = 0
  /\ req = [r \in Requests |-> Idle]
  /\ reply = NoReply

-----------------------------------------------------------------------------
(* What the statements read.                                               *)

HasSubmissions(i) == \E s \in submissions : s.form = i
HasWebhooks(i) == \E w \in webhooks : w.form = i

\* Fault: no foreign key from form_webhooks.
ReferencedBySubmissions(i) == HasSubmissions(i)

\* Rows that refer to form i and stop its deletion.
Referenced(i) == HasSubmissions(i) \/ HasWebhooks(i)

FormExists(i) == \E f \in forms : f.id = i

\* Fault: GetFormByID selects by id alone.
OwnedByAnyone(i, t) == FormExists(i)

Owned(i, t) == \E f \in forms : f.id = i /\ f.tenant = t


\* Fault: the slug is checked when a form is created only.
SlugTakenOnCreate(slug, i) == i = 0 /\ \E f \in forms : f.def.slug = slug

\* UNIQUE (slug), for the row with id i (0 for a new row).
SlugTaken(slug, i) == \E f \in forms : f.def.slug = slug /\ f.id # i

\* resolveAccess: a public form must accept anonymous submissions.
AccessAllowed(in) == in.public => in.anonymous

\* The id an INSERT into forms gives its row.
NextRowid(i) ==
  /\ \A f \in forms : f.id < i
  /\ i = 1 \/ FormExists(i - 1)
NextIdentity(i) == i = lastFormId + 1

\* Fault: an identity column replaced by the highest id in use plus one.
RowidOnEveryEngine(i) == NextRowid(i)

NewFormId(i) == IF Engine = "sqlite" THEN NextRowid(i) ELSE NextIdentity(i)

\* The id an INSERT into form_submissions gives its row; none is ever deleted.
NewSubmissionId(i) ==
  /\ \A s \in submissions : s.id < i
  /\ i = 1 \/ \E s \in submissions : s.id = i - 1

-----------------------------------------------------------------------------
(* A tenant's request: the API key is checked, then the handler's steps.   *)

\* Fault: Authenticate does not hand the tenant on.
BeginWithoutTenant(r, t, step, i, in) ==
  /\ req[r].step = "idle"
  /\ req' = [req EXCEPT ![r] =
       [Idle EXCEPT !.step = step, !.form = i, !.input = in]]
  /\ reply' = NoReply
  /\ UNCHANGED <<tables, activeTenants, clock>>

Begin(r, t, step, i, in) ==
  /\ req[r].step = "idle"
  /\ req' = [req EXCEPT ![r] =
       [Idle EXCEPT !.step = step, !.tenant = t, !.form = i, !.input = in]]
  /\ reply' = NoReply
  /\ UNCHANGED <<tables, activeTenants, clock>>

BeginCreate(r) ==
  \E t \in activeTenants, in \in FormInputs : Begin(r, t, "create", 0, in)

\* parseID: a path names a form by any positive id, of a form that is there,
\* was deleted or has not been created yet.
BeginUpdate(r) ==
  \E t \in activeTenants, i \in FormIds, in \in FormInputs :
    Begin(r, t, "update", i, in)

BeginOnForm(r) ==
  \E t \in activeTenants, i \in FormIds,
     step \in {"delete", "webhookOwner", "webhooksOwner", "submissionsOwner"} :
    Begin(r, t, step, i, NoInput)

-----------------------------------------------------------------------------
(* Forms.                                                                  *)

CreateForm(r) ==
  LET in == req[r].input IN
  /\ req[r].step = "create"
  /\ \/ /\ ~AccessAllowed(in)
        /\ Answer(r, "bad_request")
        /\ UNCHANGED <<forms, lastFormId>>
     \/ /\ AccessAllowed(in)
        /\ SlugTaken(in.slug, 0)
        /\ Answer(r, "slug_taken")
        /\ UNCHANGED <<forms, lastFormId>>
     \/ /\ AccessAllowed(in)
        /\ ~SlugTaken(in.slug, 0)
        /\ \E i \in FormIds :
             /\ NewFormId(i)
             /\ forms' = forms \cup
                  {[id |-> i, tenant |-> req[r].tenant, def |-> in]}
             /\ lastFormId' = IF i > lastFormId THEN i ELSE lastFormId
        /\ Acknowledge(r)
     \/ /\ \A i \in FormIds : ~NewFormId(i)    \* no id left
        /\ Answer(r, "internal")
        /\ UNCHANGED <<forms, lastFormId>>
  /\ UNCHANGED <<submissions, metadata, webhooks, activeTenants, clock>>

\* Faults: the WHERE clause without its tenant, or without the draft rule.
MatchesAnyTenant(f, r, locked) ==
  /\ f.id = req[r].form
  /\ locked => /\ f.def.content = req[r].input.content
               /\ req[r].input.draft => f.def.draft
MatchesAnyDraft(f, r, locked) ==
  /\ f.id = req[r].form
  /\ f.tenant = req[r].tenant
  /\ locked => f.def.content = req[r].input.content

\* The WHERE clause of UpdateForm on row f, when its subquery found the form
\* locked by submissions or not.
UpdateMatches(f, r, locked) ==
  /\ f.id = req[r].form
  /\ f.tenant = req[r].tenant
  /\ locked => /\ f.def.content = req[r].input.content
               /\ req[r].input.draft => f.def.draft

\* The UPDATE writes the matching row, or finds none.
WriteForm(r, locked) ==
  LET in == req[r].input
      matching == {f \in forms : UpdateMatches(f, r, locked)}
  IN
  \/ /\ matching = {}
     /\ Proceed(r, "classify")
     /\ UNCHANGED forms
  \/ \E f \in matching :
       \/ /\ SlugTaken(in.slug, f.id)
          /\ Answer(r, "slug_taken")
          /\ UNCHANGED forms
       \/ /\ ~SlugTaken(in.slug, f.id)
          /\ forms' = (forms \ {f}) \cup {[f EXCEPT !.def = in]}
          /\ Acknowledge(r)

RejectUpdate(r) ==
  /\ req[r].step = "update"
  /\ ~AccessAllowed(req[r].input)
  /\ Answer(r, "bad_request")
  /\ UNCHANGED <<tables, activeTenants, clock>>

\* PostgreSQL: the UPDATE takes its snapshot and finds its row in it.  If the
\* row has changed by the time it is written the WHERE clause is evaluated
\* again on the new row, but the subquery still sees this snapshot.
SnapshotForm(r) ==
  LET locked == HasSubmissions(req[r].form) IN
  /\ Engine = "postgres"
  /\ req[r].step = "update"
  /\ AccessAllowed(req[r].input)
  /\ IF \E f \in forms : UpdateMatches(f, r, locked)
       THEN /\ req' = [req EXCEPT ![r].step = "updating", ![r].locked = locked]
            /\ reply' = NoReply
       ELSE Proceed(r, "classify")
  /\ UNCHANGED <<tables, activeTenants, clock>>

UpdateForm(r) ==
  /\ \/ /\ Engine = "sqlite"
        /\ req[r].step = "update"
        /\ AccessAllowed(req[r].input)
        /\ WriteForm(r, HasSubmissions(req[r].form))
     \/ /\ req[r].step = "updating"
        /\ WriteForm(r, req[r].locked)
  /\ UNCHANGED <<lastFormId, submissions, metadata, webhooks, activeTenants,
                 clock>>

\* Fault: an UPDATE without a row is always taken for a locked form.
ClassifyAsLocked(r) ==
  /\ req[r].step = "classify"
  /\ Answer(r, "locked")
  /\ UNCHANGED <<tables, activeTenants, clock>>

\* No row was updated: GetByID tells a locked form from a missing one.
ClassifyUpdate(r) ==
  /\ req[r].step = "classify"
  /\ Answer(r, IF Owned(req[r].form, req[r].tenant) THEN "locked"
                                                    ELSE "not_found")
  /\ UNCHANGED <<tables, activeTenants, clock>>

DeleteForm(r) ==
  LET i == req[r].form IN
  /\ req[r].step = "delete"
  /\ \/ /\ ~Owned(i, req[r].tenant)
        /\ Answer(r, "not_found")
        /\ UNCHANGED forms
     \/ /\ Owned(i, req[r].tenant)
        /\ Referenced(i)
        /\ Answer(r, "in_use")
        /\ UNCHANGED forms
     \/ /\ Owned(i, req[r].tenant)
        /\ ~Referenced(i)
        /\ forms' = {f \in forms : f.id # i}
        /\ Acknowledge(r)
  /\ UNCHANGED <<lastFormId, submissions, metadata, webhooks, activeTenants,
                 clock>>

-----------------------------------------------------------------------------
(* Submissions.                                                            *)

\* GetPublicFormBySlug: published, active forms of active tenants.
Served(slug) ==
  {f \in forms : /\ f.def.slug = slug /\ f.def.active /\ ~f.def.draft
                 /\ f.tenant \in activeTenants}

\* GetPublicBySlug's window, then availableForm's and Create's access checks.
Admission(f, u) ==
  IF clock < f.def.start THEN "not_found"
  ELSE IF clock >= f.def.end THEN "gone"
  ELSE IF (~f.def.public \/ ~f.def.anonymous) /\ u = Nobody
    THEN "unauthorized"
  ELSE "ok"

\* The handler goes on with the id of the form it read, and with the user's id
\* unless the form accepts anonymous submissions.
Admit(r, f, u) ==
  /\ req' = [req EXCEPT ![r] =
       [Idle EXCEPT !.step = "store", !.tenant = f.tenant, !.form = f.id,
                    !.user = IF f.def.anonymous THEN Nobody ELSE u]]
  /\ reply' = NoReply

\* The handler reads the form and decides whether the visitor may fill it in.
Submit(r) ==
  /\ req[r].step = "idle"
  /\ \E slug \in Slugs, u \in Users \cup {Nobody} :
       \/ /\ Served(slug) = {}
          /\ Answer(r, "not_found")
       \/ \E f \in Served(slug) :
            \/ /\ Admission(f, u) # "ok"
               /\ Answer(r, Admission(f, u))
            \/ /\ Admission(f, u) = "ok"
               /\ Admit(r, f, u)
  /\ UNCHANGED <<tables, activeTenants, clock>>

\* The INSERT adds a row with the next id.
InsertSubmission(r) ==
  \E i \in SubmissionIds :
    /\ NewSubmissionId(i)
    /\ submissions' = submissions \cup
         {[id |-> i, form |-> req[r].form, user |-> req[r].user,
           at |-> clock, owner |-> req[r].tenant]}
    /\ \/ /\ req' = [req EXCEPT ![r].step = "metadata", ![r].sub = i]
          /\ reply' = NoReply
       \/ AckLost(r)

\* Fault: the failed foreign key is no error, and the handler waits for a form.
StoreOnceFormExists(r) ==
  /\ req[r].step = "store"
  /\ FormExists(req[r].form)
  /\ InsertSubmission(r)
  /\ UNCHANGED <<forms, lastFormId, metadata, webhooks, activeTenants, clock>>

\* The INSERT's foreign key checks that the form still exists.
StoreSubmission(r) ==
  /\ req[r].step = "store"
  /\ \/ /\ ~FormExists(req[r].form)
        /\ Answer(r, "not_found")
        /\ UNCHANGED submissions
     \/ /\ FormExists(req[r].form)
        /\ InsertSubmission(r)
     \/ /\ \A i \in SubmissionIds : ~NewSubmissionId(i)    \* no id left
        /\ Answer(r, "internal")
        /\ UNCHANGED submissions
  /\ UNCHANGED <<forms, lastFormId, metadata, webhooks, activeTenants, clock>>

\* Fault: a failure to record the metadata fails the request.
AddMetadataOrFail(r) ==
  /\ req[r].step = "metadata"
  /\ \/ /\ metadata' = metadata \cup {req[r].sub}
        /\ Answer(r, "ok")
     \/ /\ metadata' = metadata
        /\ Answer(r, "internal")
  /\ UNCHANGED <<forms, lastFormId, submissions, webhooks, activeTenants,
                 clock>>

\* The metadata is stored or the statement fails; the client is not told.
AddMetadata(r) ==
  /\ req[r].step = "metadata"
  /\ metadata' \in {metadata, metadata \cup {req[r].sub}}
  /\ Answer(r, "ok")
  /\ UNCHANGED <<forms, lastFormId, submissions, webhooks, activeTenants,
                 clock>>

-----------------------------------------------------------------------------
(* Webhooks and listings.                                                  *)

\* forms.GetByID: these handlers check the tenant's ownership first.
CheckOwner(r) ==
  /\ req[r].step \in {"webhookOwner", "webhooksOwner", "submissionsOwner"}
  /\ IF Owned(req[r].form, req[r].tenant)
       THEN Proceed(r, CASE req[r].step = "webhookOwner" -> "webhook"
                         [] req[r].step = "webhooksOwner" -> "webhooks"
                         [] req[r].step = "submissionsOwner" -> "submissions")
       ELSE Answer(r, "not_found")
  /\ UNCHANGED <<tables, activeTenants, clock>>

CreateWebhook(r) ==
  LET i == req[r].form IN
  /\ req[r].step = "webhook"
  /\ \/ /\ ~FormExists(i)
        /\ Answer(r, "not_found")
        /\ UNCHANGED webhooks
     \/ /\ FormExists(i)
        /\ webhooks' = webhooks \cup {[form |-> i, owner |-> req[r].tenant]}
        /\ Acknowledge(r)
  /\ UNCHANGED <<forms, lastFormId, submissions, metadata, activeTenants,
                 clock>>

\* ListActiveWebhooksByForm selects by form id alone.
ListWebhooks(r) ==
  LET i == req[r].form IN
  /\ req[r].step = "webhooks"
  /\ AnswerShowing(r, "ok",
       {f.tenant : f \in {g \in forms : g.id = i /\ HasWebhooks(i)}})
  /\ UNCHANGED <<tables, activeTenants, clock>>

\* ListSubmissionsByForm is scoped by the tenant of the joined form.
ListSubmissions(r) ==
  LET i == req[r].form IN
  /\ req[r].step = "submissions"
  /\ AnswerShowing(r, "ok",
       {f.tenant : f \in {g \in forms : /\ g.id = i /\ g.tenant = req[r].tenant
                                        /\ HasSubmissions(i)}})
  /\ UNCHANGED <<tables, activeTenants, clock>>

-----------------------------------------------------------------------------
(* Failures and the environment.                                           *)

\* A statement fails (lost connection, busy database): 500.
StatementFails(r) ==
  /\ req[r].step \notin {"idle", "metadata"}
  /\ Answer(r, "internal")
  /\ UNCHANGED <<tables, activeTenants, clock>>

\* The process stops: requests in progress are lost, the tables are not.
Crash ==
  /\ \E r \in Requests : req[r].step # "idle"
  /\ req' = [r \in Requests |-> Idle]
  /\ reply' = NoReply
  /\ UNCHANGED <<tables, activeTenants, clock>>

Tick ==
  /\ clock < MaxTime
  /\ clock' = clock + 1
  /\ reply' = NoReply
  /\ UNCHANGED <<tables, activeTenants, req>>

\* An operator suspends a tenant or lets it back in, in the database itself.
SetTenantActive(t) ==
  /\ activeTenants' \in {activeTenants \ {t}, activeTenants \cup {t}}
  /\ reply' = NoReply
  /\ UNCHANGED <<tables, clock, req>>

-----------------------------------------------------------------------------
(* The specification.                                                      *)

\* Request r arrives.
Arrive(r) == BeginCreate(r) \/ BeginUpdate(r) \/ BeginOnForm(r) \/ Submit(r)

\* Request r, in progress, runs its next statement.
Run(r) ==
  \/ CreateForm(r) \/ RejectUpdate(r) \/ SnapshotForm(r) \/ UpdateForm(r)
  \/ ClassifyUpdate(r) \/ DeleteForm(r)
  \/ StoreSubmission(r) \/ AddMetadata(r)
  \/ CheckOwner(r) \/ CreateWebhook(r) \/ ListWebhooks(r) \/ ListSubmissions(r)

Next ==
  \/ \E r \in Requests : Arrive(r) \/ Run(r) \/ StatementFails(r)
  \/ Crash
  \/ Tick
  \/ \E t \in Suspendable : SetTenantActive(t)

Spec == Init /\ [][Next]_vars

\* The Go scheduler runs every goroutine and the database answers every
\* statement, so a request in progress goes on; nothing else is promised.
FairSpec == Spec /\ \A r \in Requests : WF_vars(Run(r))

-----------------------------------------------------------------------------
(* Properties.                                                             *)

\* Two rows of forms never share an id or a slug, although ids may be reused
\* and slugs are free text that creations and updates of all tenants race for.
UniqueKeys ==
  \A f, g \in forms : f.id = g.id \/ f.def.slug = g.def.slug => f = g

\* No submission, metadata row or webhook outlives the row it belongs to,
\* whatever deletion runs between the check of a handler and its INSERT.
References ==
  /\ \A s \in submissions : FormExists(s.form)
  /\ \A w \in webhooks : FormExists(w.form)
  /\ \A i \in metadata : \E s \in submissions : s.id = i

\* A stored submission or webhook belongs to a form of the tenant whose form
\* the handler had checked before it stored the row.
RowsStayWithTheirTenant ==
  \A f \in forms :
    /\ \A s \in submissions : s.form = f.id => s.owner = f.tenant
    /\ \A w \in webhooks : w.form = f.id => w.owner = f.tenant

\* A listing of webhooks or submissions returns rows of the caller's forms
\* only, although one query checks the ownership and another one reads.
ListingsAreScoped == reply.shown \subseteq {reply.tenant}

\* A client is told that its submission is stored whenever the handler knows
\* it is, also when recording the metadata failed, so it will not send it again.
StoredIsAnnounced ==
  reply.sub # 0 =>
    /\ reply.code = "ok"
    /\ \E s \in submissions : s.id = reply.sub /\ s.form = reply.form

\* Only a request of the tenant that owns a form adds, changes or removes it,
\* whichever forms came and went under its id while the request was running.
TenantScoped ==
  [][\A r \in Requests :
       req'[r] # req[r] =>
         \A f \in (forms \ forms') \cup (forms' \ forms) :
           f.tenant = req[r].tenant]_vars

\* Once a form has submissions its content never changes, it never turns back
\* into a draft and it is never deleted.
ContentLocked ==
  [][\A f \in forms : HasSubmissions(f.id) =>
       \E g \in forms' : /\ g.id = f.id
                         /\ g.def.content = f.def.content
                         /\ g.def.draft => f.def.draft]_vars

\* The second query of Update is about to find request r's form, which has no
\* submissions, and to call it locked by them.
MistakesLock(r) ==
  /\ req[r].step = "classify"
  /\ Owned(req[r].form, req[r].tenant)
  /\ ~HasSubmissions(req[r].form)

\* Update works out by a second query why its UPDATE found no row.  It answers
\* "locked by its submissions" of a form without any only if, between the two,
\* a form of its tenant was created under the id, which no form had then.
LocksMistakeOnlyNewForms ==
  [][/\ \A r \in Requests :
          MistakesLock(r)' =>
            \/ MistakesLock(r)
            \/ \E f \in forms' \ forms : /\ f.id = req[r].form
                                         /\ f.tenant = req[r].tenant
                                         /\ ~FormExists(f.id)
     /\ reply'.code = "locked" =>
          \/ HasSubmissions(reply'.form)
          \/ \E r \in Requests : MistakesLock(r)]_vars

\* Every request in progress is answered, or lost in a crash: no form that
\* disappears between two statements leaves its handler without an answer.
EveryRequestAnswered ==
  \A r \in Requests : req[r].step # "idle" ~> req[r].step = "idle"

-----------------------------------------------------------------------------
(* What makes the invariants inductive.                                    *)

\* Ids are given out in order: no form has one above lastFormId.
IdsGivenOut == \A f \in forms : f.id <= lastFormId

\* A handler about to record metadata holds the id of its own submission.
SubmissionHeld ==
  \A r \in Requests : req[r].step = "metadata" =>
    \E s \in submissions : s.id = req[r].sub /\ s.form = req[r].form

TablesInv == UniqueKeys /\ References /\ IdsGivenOut /\ SubmissionHeld

\* Where ids are never reused, a form that a handler has checked still belongs
\* to the same tenant, or is gone for good.
CheckedFormsStay ==
  \A r \in Requests :
    req[r].step \in {"store", "webhook", "webhooks", "submissions"} =>
      /\ req[r].form <= lastFormId
      /\ \A f \in forms : f.id = req[r].form => f.tenant = req[r].tenant

OwnersInv == RowsStayWithTheirTenant /\ CheckedFormsStay
=============================================================================
