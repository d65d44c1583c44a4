------------------------------- MODULE Tables -------------------------------
(***************************************************************************)
(* The tables of the database as the generated models describe them, for   *)
(* both engines: a database is one record with a set of rows per table.    *)
(* Columns that no query compares or converts are left out; a form keeps   *)
(* the rest of its columns in def.                                         *)
(***************************************************************************)
EXTENDS Integers, FiniteSets

CONSTANTS
  IdMax,       \* math.MaxInt32, the largest id the program can name
  MaxRowId,    \* the largest id a table can hold
  Null,        \* SQL's NULL
  Keys, Usernames, Hashes, Roles, Emails, Slugs, Contents, Titles, Blobs,
  Identities,  \* (issuer, subject) pairs
  Uuids,       \* ids of files, in the order of their text
  Instants,    \* values of created_at and submitted_at
  FormDefs,    \* the forms callers write
  Filters,     \* the filters they list forms with
  Pages,       \* the offsets and limits they ask for
  Databases    \* the databases there may be already when a server starts

ASSUME TablesAssumption ==
  /\ IdMax \in Nat /\ MaxRowId \in Nat /\ IdMax <= MaxRowId
  /\ Null \notin Int \cup Hashes
  /\ Uuids \subseteq Nat /\ Instants \subseteq Nat

RowIds == 1..MaxRowId

TenantRow == [id: RowIds, key: Keys, active: BOOLEAN]

UserRow ==
  [id: RowIds, name: Usernames, hash: Hashes \cup {Null}, role: Roles,
   active: BOOLEAN]

IdentityRow ==
  [user: RowIds, identity: Identities, email: Emails \cup {Null}]

FormDef ==
  [title: Titles, slug: Slugs, content: Contents, active: BOOLEAN,
   draft: BOOLEAN, public: BOOLEAN, anonymous: BOOLEAN]

FormRow == [id: RowIds, tenant: RowIds, def: FormDef, at: Instants]

SubmissionRow ==
  [id: RowIds, form: RowIds, user: RowIds \cup {Null}, at: Instants]

\* seconds stands for completion_time_seconds, 32 bits wide when it is read.
MetadataRow == [id: RowIds, submission: RowIds, seconds: RowIds \cup {Null}]

WebhookRow == [id: RowIds, form: RowIds, active: BOOLEAN]

FileRow == [uuid: Uuids, tenant: RowIds, data: Blobs, at: Instants]

Database ==
  [tenants: SUBSET TenantRow, users: SUBSET UserRow,
   identities: SUBSET IdentityRow, forms: SUBSET FormRow,
   submissions: SUBSET SubmissionRow, metadata: SUBSET MetadataRow,
   webhooks: SUBSET WebhookRow, files: SUBSET FileRow]

Empty ==
  [tenants |-> {}, users |-> {}, identities |-> {}, forms |-> {},
   submissions |-> {}, metadata |-> {}, webhooks |-> {}, files |-> {}]

ASSUME DatabasesAssumption == Databases \subseteq Database

-----------------------------------------------------------------------------
(* The arguments of the queries that take several.                         *)

Ids == 1..IdMax

FormFilter ==
  [tenant: Ids, active: BOOLEAN \cup {Null}, draft: BOOLEAN \cup {Null},
   search: SUBSET Titles]
Page == [offset: Nat, limit: Nat]

UserArgs == [name: Usernames, hash: Hashes, role: Roles]
LinkArgs ==
  [name: Usernames, role: Roles, identity: Identities,
   email: Emails \cup {Null}]
RoleArgs == [id: Ids, role: Roles]
TouchArgs == [identity: Identities, email: Emails \cup {Null}]
FileArgs == [uuid: Uuids, tenant: Ids, data: Blobs]
FileOf == [uuid: Uuids, tenant: Ids]
NewForms == [tenant: Ids, def: FormDefs]
FormOf == [id: Ids, tenant: Ids]
FormEdits == [id: Ids, tenant: Ids, def: FormDefs]
SubmissionArgs == [form: Ids, user: Ids \cup {Null}]
MetadataArgs == [submission: Ids, seconds: {1, Null}]
SubmissionsOf == [form: Ids, tenant: Ids]

ASSUME ArgumentsAssumption ==
  /\ FormDefs \subseteq FormDef
  /\ Filters \subseteq FormFilter
  /\ Pages \subseteq Page

-----------------------------------------------------------------------------
(* The constraints of the schema.  An INSERT that would break one fails.   *)

HasId(rows, i) == \E r \in rows : r.id = i

KeyTaken(d, key) == \E t \in d.tenants : t.key = key
NameTaken(d, name) == \E u \in d.users : u.name = name
IdentityTaken(d, identity) == \E l \in d.identities : l.identity = identity
MetadataExists(d, i) == \E m \in d.metadata : m.submission = i
UuidTaken(d, uuid) == \E f \in d.files : f.uuid = uuid

\* UNIQUE (slug), for the row with id i (0 for a new row).
SlugTaken(d, slug, i) == \E f \in d.forms : f.def.slug = slug /\ f.id # i

\* CHECK forms_public_accepts_anonymous.
AcceptsAnonymous(def) == def.public => def.anonymous

HasSubmissions(d, i) == \E s \in d.submissions : s.form = i
Referenced(d, i) == HasSubmissions(d, i) \/ \E w \in d.webhooks : w.form = i

\* What a new or changed row would break.
Unless(holds, constraint) == IF holds THEN {} ELSE {constraint}

FormViolations(d, i, arg) ==
  Unless(AcceptsAnonymous(arg.def), "check")
    \cup Unless(~SlugTaken(d, arg.def.slug, i), "unique")
    \cup Unless(HasId(d.tenants, arg.tenant), "foreign_key")
FileViolations(d, arg) ==
  Unless(~UuidTaken(d, arg.uuid), "unique")
    \cup Unless(HasId(d.tenants, arg.tenant), "foreign_key")
SubmissionViolations(d, arg) ==
  Unless(/\ HasId(d.forms, arg.form)
         /\ arg.user = Null \/ HasId(d.users, arg.user), "foreign_key")
MetadataViolations(d, arg) ==
  Unless(~MetadataExists(d, arg.submission), "unique")
    \cup Unless(HasId(d.submissions, arg.submission), "foreign_key")

\* No two rows have the same value in a column.
Unique(rows, column) ==
  \A r, s \in rows : r[column] = s[column] => r = s

\* A column names rows of others, or none.
Refers(rows, column, others) ==
  \A r \in rows : r[column] = Null \/ HasId(others, r[column])

\* What the schema has a database keep.
Consistent(d) ==
  /\ \A t \in DOMAIN d : IsFiniteSet(d[t])
  /\ \A t \in DOMAIN d \ {"identities", "files"} : Unique(d[t], "id")
  /\ Unique(d.tenants, "key")
  /\ Unique(d.users, "name")
  /\ Unique(d.identities, "identity") /\ Refers(d.identities, "user", d.users)
  /\ Unique(d.files, "uuid") /\ Refers(d.files, "tenant", d.tenants)
  /\ Refers(d.forms, "tenant", d.tenants)
  /\ \A f \in d.forms :
       AcceptsAnonymous(f.def) /\ ~SlugTaken(d, f.def.slug, f.id)
  /\ Refers(d.submissions, "form", d.forms)
  /\ Refers(d.submissions, "user", d.users)
  /\ Unique(d.metadata, "submission")
  /\ Refers(d.metadata, "submission", d.submissions)
  /\ Refers(d.webhooks, "form", d.forms)

ASSUME DatabasesKeepConstraints == \A d \in Databases : Consistent(d)

-----------------------------------------------------------------------------
(* Results.  A listing is the set of its rows: they are shown in the order *)
(* of the query's ORDER BY, in which Rank counts the rows before one.      *)

\* ORDER BY created_at DESC, id DESC; for submissions, submitted_at.
Newer(r, s) == r.at > s.at \/ (r.at = s.at /\ r.id > s.id)
NewerFile(r, s) == r.at > s.at \/ (r.at = s.at /\ r.uuid > s.uuid)

Within(rank, p) == p.offset <= rank /\ rank < p.offset + p.limit

\* LIMIT page_limit OFFSET page_offset of rows in each of the orders used.
NewestPage(rows, p) ==
  {r \in rows : Within(Cardinality({s \in rows : Newer(s, r)}), p)}
NewestFilesPage(rows, p) ==
  {r \in rows : Within(Cardinality({s \in rows : NewerFile(s, r)}), p)}
PageById(rows, p) ==
  {r \in rows : Within(Cardinality({s \in rows : s.id < r.id}), p)}

\* What a query method returns: rows, or a number of rows, or an error.
Found(rows) == [error |-> "none", rows |-> rows, count |-> 0]
Counted(n) == [error |-> "none", rows |-> {}, count |-> n]
Failed(error) == [error |-> error, rows |-> {}, count |-> 0]

\* A :one query: ErrNoRows unless it found a row.
One(rows) == IF rows = {} THEN Failed("no_rows") ELSE Found(rows)

\* The columns that hold 32-bit numbers in internal/db and 64-bit ones in
\* SQLite.
IdColumns == {"id", "tenant", "form", "user", "submission", "seconds"}
Wide(r) == \E c \in IdColumns \cap DOMAIN r : r[c] \in Nat /\ r[c] > IdMax
=============================================================================
