------------------------------ MODULE Queries -------------------------------
(***************************************************************************)
(* The statements of internal/db, generated from the PostgreSQL queries:   *)
(* what each one reads from a database d, or what becomes of d.  A         *)
(* statement with several parameters takes them as one record arg.         *)
(***************************************************************************)
EXTENDS Tables

(* Tenants. *)

CreateTenant(d, i, key) ==
  [d EXCEPT !.tenants = @ \cup {[id |-> i, key |-> key, active |-> TRUE]}]

GetTenantByAPIKey(d, key) == {t \in d.tenants : t.key = key /\ t.active}

(* Users. *)

CreateUser(d, i, arg) ==
  [d EXCEPT !.users = @ \cup
    {[id |-> i, name |-> arg.name, hash |-> arg.hash, role |-> arg.role,
      active |-> TRUE]}]

\* ON CONFLICT (username) DO NOTHING
CreateUserIfNotExists(d, i, arg) ==
  IF NameTaken(d, arg.name) THEN d ELSE CreateUser(d, i, arg)

\* One statement with two data-modifying CTEs.
CreateUserWithIdentity(d, i, arg) ==
  [CreateUser(d, i, [name |-> arg.name, hash |-> Null, role |-> arg.role])
    EXCEPT !.identities = @ \cup
      {[user |-> i, identity |-> arg.identity, email |-> arg.email]}]

GetUserByID(d, i) == {u \in d.users : u.id = i /\ u.active}
GetUserByUsername(d, name) == {u \in d.users : u.name = name /\ u.active}

GetUserByIdentity(d, identity) ==
  {u \in d.users :
    \E l \in d.identities : l.user = u.id /\ l.identity = identity}

ListUsers(d, p) == PageById(d.users, p)

UpdateUserRole(d, arg) ==
  [d EXCEPT !.users =
    {IF u.id = arg.id THEN [u EXCEPT !.role = arg.role] ELSE u : u \in @}]

TouchUserIdentity(d, arg) ==
  [d EXCEPT !.identities =
    {IF l.identity = arg.identity THEN [l EXCEPT !.email = arg.email] ELSE l :
      l \in @}]

CountUserIdentities(d, i) == Cardinality({l \in d.identities : l.user = i})

(* Files. *)

CreateFile(d, arg, at) ==
  [d EXCEPT !.files = @ \cup
    {[uuid |-> arg.uuid, tenant |-> arg.tenant, data |-> arg.data,
      at |-> at]}]

GetFileByID(d, uuid) == {f \in d.files : f.uuid = uuid}

OwnFile(d, arg) == {f \in d.files : f.uuid = arg.uuid /\ f.tenant = arg.tenant}
DeleteFile(d, arg) == [d EXCEPT !.files = @ \ OwnFile(d, arg)]

\* The metadata of a file: its row without the data.
FileMetadata(f) == [uuid |-> f.uuid, tenant |-> f.tenant, at |-> f.at]

ListAllFiles(d, p) ==
  {FileMetadata(f) : f \in
    NewestFilesPage({g \in d.files : HasId(d.tenants, g.tenant)}, p)}

CountAllFiles(d) == Cardinality(d.files)

(* Forms. *)

\* The row of form f with submission_count.
Overview(d, f) ==
  [id |-> f.id, tenant |-> f.tenant, def |-> f.def, at |-> f.at,
   submissions |-> Cardinality({s \in d.submissions : s.form = f.id})]

CreateForm(d, i, arg, at) ==
  [d EXCEPT !.forms = @ \cup
    {[id |-> i, tenant |-> arg.tenant, def |-> arg.def, at |-> at]}]

GetFormByID(d, arg) ==
  {f \in d.forms : /\ f.id = arg.id /\ f.tenant = arg.tenant
                   /\ HasId(d.tenants, f.tenant)}

GetAnyFormByID(d, i) ==
  {Overview(d, f) : f \in
    {g \in d.forms : g.id = i /\ HasId(d.tenants, g.tenant)}}

GetPublicFormBySlug(d, slug) ==
  {f \in d.forms :
    /\ f.def.slug = slug
    /\ f.def.active
    /\ ~f.def.draft
    /\ \E t \in d.tenants : t.id = f.tenant /\ t.active}

\* Filters: Null for any; search stands for the titles the term matches.
ListFormsByTenant(d, filter, p) ==
  {Overview(d, f) : f \in NewestPage(
    {g \in d.forms :
      /\ g.tenant = filter.tenant
      /\ filter.active \in {Null, g.def.active}
      /\ filter.draft \in {Null, g.def.draft}
      /\ g.def.title \in filter.search}, p)}

CountFormsByTenant(d, filter) ==
  Cardinality(
    {g \in d.forms :
      /\ g.tenant = filter.tenant
      /\ filter.active \in {Null, g.def.active}
      /\ filter.draft \in {Null, g.def.draft}
      /\ g.def.title \in filter.search})

ListAllForms(d, p) ==
  {Overview(d, f) : f \in
    NewestPage({g \in d.forms : HasId(d.tenants, g.tenant)}, p)}

CountAllForms(d) == Cardinality(d.forms)

\* The rows an UPDATE finds: with submissions, only if content and
\* publication stay.
UpdatableForm(d, arg) ==
  {f \in d.forms :
    /\ f.id = arg.id /\ f.tenant = arg.tenant
    /\ \/ ~HasSubmissions(d, f.id)
       \/ f.def.content = arg.def.content /\ (~arg.def.draft \/ f.def.draft)}

UpdateForm(d, arg) ==
  [d EXCEPT !.forms = (@ \ UpdatableForm(d, arg)) \cup
    {[f EXCEPT !.def = arg.def] : f \in UpdatableForm(d, arg)}]

OwnForm(d, arg) == {f \in d.forms : f.id = arg.id /\ f.tenant = arg.tenant}
DeleteForm(d, arg) == [d EXCEPT !.forms = @ \ OwnForm(d, arg)]

(* Submissions and webhooks. *)

CreateFormSubmission(d, i, arg, at) ==
  [d EXCEPT !.submissions = @ \cup
    {[id |-> i, form |-> arg.form, user |-> arg.user, at |-> at]}]

CreateSubmissionMetadata(d, i, arg) ==
  [d EXCEPT !.metadata = @ \cup
    {[id |-> i, submission |-> arg.submission, seconds |-> arg.seconds]}]

\* A submission LEFT JOINed with its metadata.
WithMetadata(d, s) ==
  [id |-> s.id, form |-> s.form, user |-> s.user, at |-> s.at,
   seconds |-> IF \E m \in d.metadata : m.submission = s.id
                 THEN (CHOOSE m \in d.metadata : m.submission = s.id).seconds
                 ELSE Null]

ListAllSubmissionsByForm(d, arg) ==
  {WithMetadata(d, s) : s \in
    {r \in d.submissions :
      /\ r.form = arg.form
      /\ \E f \in d.forms : f.id = r.form /\ f.tenant = arg.tenant}}

ListSubmissionsByForm(d, arg, p) ==
  {WithMetadata(d, s) : s \in NewestPage(
    {r \in d.submissions :
      /\ r.form = arg.form
      /\ \E f \in d.forms : f.id = r.form /\ f.tenant = arg.tenant}, p)}

CreateFormWebhook(d, i, form) ==
  [d EXCEPT !.webhooks = @ \cup {[id |-> i, form |-> form, active |-> TRUE]}]

ListActiveWebhooksByForm(d, form) ==
  {w \in d.webhooks : w.form = form /\ w.active}
=============================================================================
