--------------------------- MODULE SqliteQueries ----------------------------
(***************************************************************************)
(* The statements of internal/db/sqlitegen, generated from the SQLite      *)
(* queries: the same tables with 64-bit ids, read and written by           *)
(* statements that SQLite gives the ids of new rows.                       *)
(***************************************************************************)
EXTENDS Tables

\* INTEGER PRIMARY KEY without AUTOINCREMENT: one more than the highest id.
IsNextRowId(rows, i) ==
  /\ i \in RowIds
  /\ \A r \in rows : r.id < i
  /\ i = 1 \/ HasId(rows, i - 1)

(* Tenants. *)

CreateTenant(d, i, key) ==
  LET row == [id |-> i, key |-> key, active |-> TRUE]
  IN  [d EXCEPT !.tenants = @ \cup {row}]

GetTenantByAPIKey(d, key) == {t \in d.tenants : t.active /\ t.key = key}

(* Users. *)

CreateUser(d, i, arg) ==
  LET row == [id |-> i, name |-> arg.name, hash |-> arg.hash,
              role |-> arg.role, active |-> TRUE]
  IN  [d EXCEPT !.users = @ \cup {row}]

CreateUserIfNotExists(d, i, arg) ==
  IF NameTaken(d, arg.name) THEN d ELSE CreateUser(d, i, arg)

CreateUserWithoutPassword(d, i, arg) ==
  LET row == [id |-> i, name |-> arg.name, hash |-> Null,
              role |-> arg.role, active |-> TRUE]
  IN  [d EXCEPT !.users = @ \cup {row}]

CreateUserIdentity(d, user, arg) ==
  LET row == [user |-> user, identity |-> arg.identity, email |-> arg.email]
  IN  [d EXCEPT !.identities = @ \cup {row}]

GetUserByID(d, i) == {u \in d.users : u.active /\ u.id = i}
GetUserByUsername(d, name) == {u \in d.users : u.active /\ u.name = name}

GetUserByIdentity(d, identity) ==
  {u \in d.users :
    \E l \in d.identities : l.identity = identity /\ l.user = u.id}

ListUsers(d, p) == PageById(d.users, p)

UpdateUserRole(d, arg) ==
  LET Graded(u) == IF u.id = arg.id THEN [u EXCEPT !.role = arg.role] ELSE u
  IN  [d EXCEPT !.users = {Graded(u) : u \in @}]

TouchUserIdentity(d, arg) ==
  LET Touched(l) ==
        IF l.identity = arg.identity THEN [l EXCEPT !.email = arg.email] ELSE l
  IN  [d EXCEPT !.identities = {Touched(l) : l \in @}]

CountUserIdentities(d, i) == Cardinality({l \in d.identities : l.user = i})

(* Files. *)

CreateFile(d, arg, at) ==
  LET row == [uuid |-> arg.uuid, tenant |-> arg.tenant, data |-> arg.data,
              at |-> at]
  IN  [d EXCEPT !.files = @ \cup {row}]

GetFileByID(d, uuid) == {f \in d.files : f.uuid = uuid}

OwnFile(d, arg) == {f \in d.files : f.uuid = arg.uuid /\ f.tenant = arg.tenant}
DeleteFile(d, arg) == [d EXCEPT !.files = @ \ OwnFile(d, arg)]

FileMetadata(f) == [uuid |-> f.uuid, tenant |-> f.tenant, at |-> f.at]

ListAllFiles(d, p) ==
  LET joined == {f \in d.files : HasId(d.tenants, f.tenant)}
  IN  {FileMetadata(f) : f \in NewestFilesPage(joined, p)}

CountAllFiles(d) == Cardinality(d.files)

(* Forms. *)

\* SELECT f.*, (SELECT count(*) FROM form_submissions ...).
Overview(d, f) ==
  [id |-> f.id, tenant |-> f.tenant, def |-> f.def, at |-> f.at,
   submissions |-> Cardinality({s \in d.submissions : s.form = f.id})]

CreateForm(d, i, arg, at) ==
  LET row == [id |-> i, tenant |-> arg.tenant, def |-> arg.def, at |-> at]
  IN  [d EXCEPT !.forms = @ \cup {row}]

GetFormByID(d, arg) ==
  {f \in d.forms :
    f.id = arg.id /\ f.tenant = arg.tenant /\ HasId(d.tenants, f.tenant)}

GetAnyFormByID(d, i) ==
  LET joined == {f \in d.forms : f.id = i /\ HasId(d.tenants, f.tenant)}
  IN  {Overview(d, f) : f \in joined}

GetPublicFormBySlug(d, slug) ==
  {f \in d.forms :
    /\ f.def.slug = slug /\ f.def.active /\ ~f.def.draft
    /\ \E t \in d.tenants : t.id = f.tenant /\ t.active}

\* LIKE, which here ignores the case of ASCII letters only.
Matching(d, filter) ==
  {f \in d.forms :
    /\ f.tenant = filter.tenant
    /\ filter.active \in {Null, f.def.active}
    /\ filter.draft \in {Null, f.def.draft}
    /\ f.def.title \in filter.search}

ListFormsByTenant(d, filter, p) ==
  {Overview(d, f) : f \in NewestPage(Matching(d, filter), p)}

\* Fault: is_draft left out of the WHERE clause.
CountFormsOfAnyDraft(d, filter) ==
  Cardinality(Matching(d, [filter EXCEPT !.draft = Null]))

CountFormsByTenant(d, filter) == Cardinality(Matching(d, filter))

ListAllForms(d, p) ==
  LET joined == {f \in d.forms : HasId(d.tenants, f.tenant)}
  IN  {Overview(d, f) : f \in NewestPage(joined, p)}

CountAllForms(d) == Cardinality(d.forms)

UpdatableForm(d, arg) ==
  {f \in d.forms :
    /\ f.id = arg.id /\ f.tenant = arg.tenant
    /\ HasSubmissions(d, f.id) =>
         f.def.content = arg.def.content /\ (arg.def.draft => f.def.draft)}

UpdateForm(d, arg) ==
  LET found == UpdatableForm(d, arg)
  IN  [d EXCEPT !.forms =
        (@ \ found) \cup {[f EXCEPT !.def = arg.def] : f \in found}]

OwnForm(d, arg) == {f \in d.forms : f.id = arg.id /\ f.tenant = arg.tenant}
DeleteForm(d, arg) == [d EXCEPT !.forms = @ \ OwnForm(d, arg)]

(* Submissions and webhooks. *)

CreateFormSubmission(d, i, arg, at) ==
  LET row == [id |-> i, form |-> arg.form, user |-> arg.user, at |-> at]
  IN  [d EXCEPT !.submissions = @ \cup {row}]

CreateSubmissionMetadata(d, i, arg) ==
  LET row == [id |-> i, submission |-> arg.submission,
              seconds |-> arg.seconds]
  IN  [d EXCEPT !.metadata = @ \cup {row}]

\* LEFT JOIN submission_metadata.
WithMetadata(d, s) ==
  LET of == {m \in d.metadata : m.submission = s.id}
  IN  [id |-> s.id, form |-> s.form, user |-> s.user, at |-> s.at,
       seconds |-> IF of = {} THEN Null ELSE (CHOOSE m \in of : TRUE).seconds]

\* The submissions JOINed with a form of the tenant.
SubmissionsOfTenant(d, arg) ==
  {s \in d.submissions :
    /\ s.form = arg.form
    /\ \E f \in d.forms : f.id = s.form /\ f.tenant = arg.tenant}

\* Fault: the form's tenant is not compared.
SubmissionsOfAnyTenant(d, arg) ==
  {WithMetadata(d, s) : s \in {r \in d.submissions : r.form = arg.form}}

ListAllSubmissionsByForm(d, arg) ==
  {WithMetadata(d, s) : s \in SubmissionsOfTenant(d, arg)}

ListSubmissionsByForm(d, arg, p) ==
  {WithMetadata(d, s) : s \in NewestPage(SubmissionsOfTenant(d, arg), p)}

CreateFormWebhook(d, i, form) ==
  LET row == [id |-> i, form |-> form, active |-> TRUE]
  IN  [d EXCEPT !.webhooks = @ \cup {row}]

ListActiveWebhooksByForm(d, form) ==
  {w \in d.webhooks : w.active /\ w.form = form}
=============================================================================
