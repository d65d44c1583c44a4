-------------------------- MODULE ConstraintProofs --------------------------
(***************************************************************************)
(* The constraints of the schema hold of the database at all times, though *)
(* no statement looks at more than the row it writes: a new row breaks     *)
(* none because INSERT refuses it otherwise, an edit or a deletion because *)
(* of what the rows that stay refer to.                                    *)
(***************************************************************************)
EXTENDS SqliteQuerierProofs, FiniteSetTheorems

-----------------------------------------------------------------------------
(* Rows that come and go.                                                  *)

\* Fewer rows keep what more rows keep.
LEMMA FewerRows ==
  ASSUME NEW rows, NEW fewer \in SUBSET rows, NEW column
  PROVE  /\ Unique(rows, column) => Unique(fewer, column)
         /\ \A others : Refers(rows, column, others)
              => Refers(fewer, column, others)
         /\ IsFiniteSet(rows) => IsFiniteSet(fewer)
BY FS_Subset DEF Unique, Refers

\* An image of finitely many rows is finite, and as large if it tells them
\* apart.
LEMMA FiniteImage ==
  ASSUME NEW S, NEW f, f = [x \in S |-> f[x]], IsFiniteSet(S)
  PROVE  LET T == {f[x] : x \in S}
         IN  /\ IsFiniteSet(T)
             /\ (\A x, y \in S : f[x] = f[y] => x = y)
                  => Cardinality(T) = Cardinality(S)
<1> DEFINE T == {f[x] : x \in S}
<1>1. f \in Surjection(S, T)
  <2>1. f \in [S -> T]
    <3>1. \A x \in S : f[x] \in T
      OBVIOUS
    <3> HIDE DEF T
    <3> QED
      BY <3>1
  <2> QED
    BY <2>1 DEF Surjection
<1>2. (\A x, y \in S : f[x] = f[y] => x = y) => f \in Injection(S, T)
  BY <1>1 DEF Surjection, Injection, IsInjective
<1> HIDE DEF T
<1>3. IsFiniteSet(T)
  BY <1>1, FS_Surjection
<1>4. f \in Injection(S, T) => Cardinality(T) = Cardinality(S)
  BY <1>1, FS_Surjection
<1> QED
  BY <1>2, <1>3, <1>4 DEF T

-----------------------------------------------------------------------------
(* The constraints, table by table.                                        *)

TenantsKept(d) ==
  IsFiniteSet(d.tenants) /\ Unique(d.tenants, "id") /\ Unique(d.tenants, "key")
UsersKept(d) ==
  IsFiniteSet(d.users) /\ Unique(d.users, "id") /\ Unique(d.users, "name")
IdentitiesKept(d) ==
  /\ IsFiniteSet(d.identities) /\ Unique(d.identities, "identity")
  /\ Refers(d.identities, "user", d.users)
FilesKept(d) ==
  /\ IsFiniteSet(d.files) /\ Unique(d.files, "uuid")
  /\ Refers(d.files, "tenant", d.tenants)
FormsKept(d) ==
  /\ IsFiniteSet(d.forms) /\ Unique(d.forms, "id")
  /\ Refers(d.forms, "tenant", d.tenants)
  /\ \A f \in d.forms :
       AcceptsAnonymous(f.def) /\ ~SlugTaken(d, f.def.slug, f.id)
SubmissionsKept(d) ==
  /\ IsFiniteSet(d.submissions) /\ Unique(d.submissions, "id")
  /\ Refers(d.submissions, "form", d.forms)
  /\ Refers(d.submissions, "user", d.users)
MetadataKept(d) ==
  /\ IsFiniteSet(d.metadata) /\ Unique(d.metadata, "id")
  /\ Unique(d.metadata, "submission")
  /\ Refers(d.metadata, "submission", d.submissions)
WebhooksKept(d) ==
  /\ IsFiniteSet(d.webhooks) /\ Unique(d.webhooks, "id")
  /\ Refers(d.webhooks, "form", d.forms)

LEMMA TableByTable ==
  ASSUME NEW d \in Database
  PROVE  Consistent(d) <=>
           /\ TenantsKept(d) /\ UsersKept(d) /\ IdentitiesKept(d)
           /\ FilesKept(d) /\ FormsKept(d) /\ SubmissionsKept(d)
           /\ MetadataKept(d) /\ WebhooksKept(d)
<1>1. DOMAIN d = {"tenants", "users", "identities", "forms", "submissions",
                  "metadata", "webhooks", "files"}
  BY DEF Database
<1>2. (\A t \in DOMAIN d : IsFiniteSet(d[t])) <=>
        /\ IsFiniteSet(d.tenants) /\ IsFiniteSet(d.users)
        /\ IsFiniteSet(d.identities) /\ IsFiniteSet(d.forms)
        /\ IsFiniteSet(d.submissions) /\ IsFiniteSet(d.metadata)
        /\ IsFiniteSet(d.webhooks) /\ IsFiniteSet(d.files)
  BY <1>1
<1>3. (\A t \in DOMAIN d \ {"identities", "files"} : Unique(d[t], "id")) <=>
        /\ Unique(d.tenants, "id") /\ Unique(d.users, "id")
        /\ Unique(d.forms, "id") /\ Unique(d.submissions, "id")
        /\ Unique(d.metadata, "id") /\ Unique(d.webhooks, "id")
  BY <1>1
<1> QED
  BY <1>2, <1>3
  DEF Consistent, TenantsKept, UsersKept, IdentitiesKept, FilesKept, FormsKept,
      SubmissionsKept, MetadataKept, WebhooksKept

LEMMA EmptyKept == Consistent(Empty)
BY FS_EmptySet DEF Consistent, Empty, Unique, Refers

-----------------------------------------------------------------------------
(* The statements that write.                                              *)

AllKept(d) ==
  /\ TenantsKept(d) /\ UsersKept(d) /\ IdentitiesKept(d)
  /\ FilesKept(d) /\ FormsKept(d) /\ SubmissionsKept(d)
  /\ MetadataKept(d) /\ WebhooksKept(d)

\* The columns of the tables that hold ids hold ids of rows.
LEMMA TableIds ==
  ASSUME NEW d \in Database
  PROVE  /\ \A r \in d.tenants : r.id \in RowIds
         /\ \A r \in d.users : r.id \in RowIds
         /\ \A r \in d.forms : r.id \in RowIds
         /\ \A r \in d.submissions : r.id \in RowIds
         /\ \A r \in d.metadata : r.id \in RowIds
         /\ \A r \in d.webhooks : r.id \in RowIds
BY DEF Database, TenantRow, UserRow, FormRow, SubmissionRow, MetadataRow,
       WebhookRow

LEMMA TenantInsertKeeps ==
  ASSUME NEW d \in Database, AllKept(d), NEW i, NEW key,
         ~HasId(d.tenants, i), ~KeyTaken(d, key),
         NEW e, e = Q!CreateTenant(d, i, key)
  PROVE  AllKept(e)
<1> DEFINE row == [id |-> i, key |-> key, active |-> TRUE]
<1>1. /\ e.tenants = d.tenants \cup {row}
      /\ e.users = d.users /\ e.identities = d.identities
      /\ e.files = d.files /\ e.forms = d.forms
      /\ e.submissions = d.submissions /\ e.metadata = d.metadata
      /\ e.webhooks = d.webhooks
  BY DEF Q!CreateTenant, Database
<1>2. \A r \in d.tenants : r.id # row.id /\ r.key # row.key
  BY DEF HasId, KeyTaken
<1> HIDE DEF row
<1>3. TenantsKept(e)
  BY <1>1, <1>2, FS_AddElement DEF AllKept, TenantsKept, Unique
<1>4. FilesKept(e) /\ FormsKept(e)
  BY <1>1 DEF AllKept, FilesKept, FormsKept, SlugTaken, Refers, HasId
<1> QED
  BY <1>1, <1>3, <1>4
  DEF AllKept, UsersKept, IdentitiesKept, SubmissionsKept, MetadataKept,
      WebhooksKept

LEMMA UserInsertKeeps ==
  ASSUME NEW d \in Database, AllKept(d), NEW row,
         ~HasId(d.users, row.id), ~NameTaken(d, row.name),
         NEW e, e = [d EXCEPT !.users = @ \cup {row}]
  PROVE  AllKept(e)
<1>1. /\ e.users = d.users \cup {row}
      /\ e.tenants = d.tenants /\ e.identities = d.identities
      /\ e.files = d.files /\ e.forms = d.forms
      /\ e.submissions = d.submissions /\ e.metadata = d.metadata
      /\ e.webhooks = d.webhooks
  BY DEF Database
<1>2. \A r \in d.users : r.id # row.id /\ r.name # row.name
  BY DEF HasId, NameTaken
<1>3. UsersKept(e)
  BY <1>1, <1>2, FS_AddElement DEF AllKept, UsersKept, Unique
<1>4. IdentitiesKept(e) /\ SubmissionsKept(e)
  BY <1>1 DEF AllKept, IdentitiesKept, SubmissionsKept, Refers, HasId
<1> QED
  BY <1>1, <1>3, <1>4
  DEF AllKept, TenantsKept, FilesKept, FormsKept, SlugTaken, MetadataKept,
      WebhooksKept

LEMMA IdentityInsertKeeps ==
  ASSUME NEW d \in Database, AllKept(d), NEW row,
         HasId(d.users, row.user), ~IdentityTaken(d, row.identity),
         NEW e, e = [d EXCEPT !.identities = @ \cup {row}]
  PROVE  AllKept(e)
<1>1. /\ e.identities = d.identities \cup {row}
      /\ e.tenants = d.tenants /\ e.users = d.users
      /\ e.files = d.files /\ e.forms = d.forms
      /\ e.submissions = d.submissions /\ e.metadata = d.metadata
      /\ e.webhooks = d.webhooks
  BY DEF Database
<1>2. \A l \in d.identities : l.identity # row.identity
  BY DEF IdentityTaken
<1>3. IdentitiesKept(e)
  BY <1>1, <1>2, FS_AddElement
  DEF AllKept, IdentitiesKept, Unique, Refers, HasId
<1> QED
  BY <1>1, <1>3
  DEF AllKept, TenantsKept, UsersKept, FilesKept, FormsKept, SlugTaken,
      SubmissionsKept, MetadataKept, WebhooksKept

LEMMA RoleUpdateKeeps ==
  ASSUME NEW d \in Database, AllKept(d), NEW arg,
         NEW e, e = Q!UpdateUserRole(d, arg)
  PROVE  AllKept(e)
<1> DEFINE Graded(u) ==
             IF u.id = arg.id THEN [u EXCEPT !.role = arg.role] ELSE u
           graded == [u \in d.users |-> Graded(u)]
<1>1. /\ e.users = {Graded(u) : u \in d.users}
      /\ e.tenants = d.tenants /\ e.identities = d.identities
      /\ e.files = d.files /\ e.forms = d.forms
      /\ e.submissions = d.submissions /\ e.metadata = d.metadata
      /\ e.webhooks = d.webhooks
  BY DEF Q!UpdateUserRole, Database
<1>2. \A u \in d.users : graded[u].id = u.id /\ graded[u].name = u.name
  BY DEF Database, UserRow
<1>3. e.users = {graded[u] : u \in d.users}
  BY <1>1
<1>4. graded = [u \in d.users |-> graded[u]]
  OBVIOUS
<1> HIDE DEF graded, Graded
<1>5. UsersKept(e)
  <2>1. IsFiniteSet(e.users)
    BY <1>3, <1>4, FiniteImage DEF AllKept, UsersKept
  <2> QED
    BY <1>2, <1>3, <2>1 DEF AllKept, UsersKept, Unique
<1>6. IdentitiesKept(e) /\ SubmissionsKept(e)
  <2>1. \A i : HasId(d.users, i) => HasId(e.users, i)
    BY <1>2, <1>3 DEF HasId
  <2> QED
    BY <1>1, <2>1 DEF AllKept, IdentitiesKept, SubmissionsKept, Refers
<1> QED
  BY <1>1, <1>5, <1>6
  DEF AllKept, TenantsKept, FilesKept, FormsKept, SlugTaken, MetadataKept,
      WebhooksKept

LEMMA TouchKeeps ==
  ASSUME NEW d \in Database, AllKept(d), NEW arg,
         NEW e, e = Q!TouchUserIdentity(d, arg)
  PROVE  AllKept(e)
<1> DEFINE Touched(l) ==
             IF l.identity = arg.identity THEN [l EXCEPT !.email = arg.email]
             ELSE l
           touched == [l \in d.identities |-> Touched(l)]
<1>1. /\ e.identities = {Touched(l) : l \in d.identities}
      /\ e.tenants = d.tenants /\ e.users = d.users
      /\ e.files = d.files /\ e.forms = d.forms
      /\ e.submissions = d.submissions /\ e.metadata = d.metadata
      /\ e.webhooks = d.webhooks
  BY DEF Q!TouchUserIdentity, Database
<1>2. \A l \in d.identities :
        touched[l].user = l.user /\ touched[l].identity = l.identity
  BY DEF Database, IdentityRow
<1>3. e.identities = {touched[l] : l \in d.identities}
  BY <1>1
<1>4. touched = [l \in d.identities |-> touched[l]]
  OBVIOUS
<1> HIDE DEF touched, Touched
<1>5. IdentitiesKept(e)
  <2>1. IsFiniteSet(e.identities)
    BY <1>3, <1>4, FiniteImage DEF AllKept, IdentitiesKept
  <2> QED
    BY <1>1, <1>2, <1>3, <2>1 DEF AllKept, IdentitiesKept, Unique, Refers
<1> QED
  BY <1>1, <1>5
  DEF AllKept, TenantsKept, UsersKept, FilesKept, FormsKept, SlugTaken,
      SubmissionsKept, MetadataKept, WebhooksKept

LEMMA FileInsertKeeps ==
  ASSUME NEW d \in Database, AllKept(d), NEW arg, NEW at,
         FileViolations(d, arg) = {},
         NEW e, e = Q!CreateFile(d, arg, at)
  PROVE  AllKept(e)
<1> DEFINE row == [uuid |-> arg.uuid, tenant |-> arg.tenant,
                   data |-> arg.data, at |-> at]
<1>1. /\ e.files = d.files \cup {row}
      /\ e.tenants = d.tenants /\ e.users = d.users
      /\ e.identities = d.identities /\ e.forms = d.forms
      /\ e.submissions = d.submissions /\ e.metadata = d.metadata
      /\ e.webhooks = d.webhooks
  BY DEF Q!CreateFile, Database
<1>2. /\ \A f \in d.files : f.uuid # row.uuid
      /\ HasId(d.tenants, row.tenant)
  BY DEF FileViolations, Unless, UuidTaken
<1> HIDE DEF row
<1>3. FilesKept(e)
  BY <1>1, <1>2, FS_AddElement DEF AllKept, FilesKept, Unique, Refers
<1> QED
  BY <1>1, <1>3
  DEF AllKept, TenantsKept, UsersKept, IdentitiesKept, FormsKept, SlugTaken,
      SubmissionsKept, MetadataKept, WebhooksKept

LEMMA FileDeletionKeeps ==
  ASSUME NEW d \in Database, AllKept(d), NEW arg,
         NEW e, e = Q!DeleteFile(d, arg)
  PROVE  AllKept(e)
<1>1. /\ e.files = d.files \ Q!OwnFile(d, arg)
      /\ e.tenants = d.tenants /\ e.users = d.users
      /\ e.identities = d.identities /\ e.forms = d.forms
      /\ e.submissions = d.submissions /\ e.metadata = d.metadata
      /\ e.webhooks = d.webhooks
  BY DEF Q!DeleteFile, Database
<1>2. FilesKept(e)
  BY <1>1, FewerRows DEF AllKept, FilesKept
<1> QED
  BY <1>1, <1>2
  DEF AllKept, TenantsKept, UsersKept, IdentitiesKept, FormsKept, SlugTaken,
      SubmissionsKept, MetadataKept, WebhooksKept

LEMMA FormInsertKeeps ==
  ASSUME NEW d \in Database, AllKept(d), NEW i, NEW arg, NEW at,
         ~HasId(d.forms, i), FormViolations(d, 0, arg) = {},
         NEW e, e = Q!CreateForm(d, i, arg, at)
  PROVE  AllKept(e)
<1> DEFINE row == [id |-> i, tenant |-> arg.tenant, def |-> arg.def, at |-> at]
<1>1. /\ e.forms = d.forms \cup {row}
      /\ e.tenants = d.tenants /\ e.users = d.users
      /\ e.identities = d.identities /\ e.files = d.files
      /\ e.submissions = d.submissions /\ e.metadata = d.metadata
      /\ e.webhooks = d.webhooks
  BY DEF Q!CreateForm, Database
<1>2. \A f \in d.forms : f.id # row.id /\ f.id # 0
  BY TableIds DEF RowIds, HasId
<1>3. /\ AcceptsAnonymous(row.def)
      /\ \A f \in d.forms : f.def.slug # row.def.slug
      /\ HasId(d.tenants, row.tenant)
  BY <1>2 DEF FormViolations, Unless, SlugTaken
<1> HIDE DEF row
<1>4. FormsKept(e)
  <2>1. IsFiniteSet(e.forms) /\ Unique(e.forms, "id")
    BY <1>1, <1>2, FS_AddElement DEF AllKept, FormsKept, Unique
  <2>2. Refers(e.forms, "tenant", e.tenants)
    BY <1>1, <1>3 DEF AllKept, FormsKept, Refers
  <2>3. \A f \in e.forms :
          AcceptsAnonymous(f.def) /\ ~SlugTaken(e, f.def.slug, f.id)
    BY <1>1, <1>3 DEF AllKept, FormsKept, SlugTaken
  <2> QED
    BY <2>1, <2>2, <2>3 DEF FormsKept
<1>5. SubmissionsKept(e) /\ WebhooksKept(e)
  BY <1>1 DEF AllKept, SubmissionsKept, WebhooksKept, Refers, HasId
<1> QED
  BY <1>1, <1>4, <1>5
  DEF AllKept, TenantsKept, UsersKept, IdentitiesKept, FilesKept, MetadataKept

LEMMA FormUpdateKeeps ==
  ASSUME NEW d \in Database, AllKept(d), NEW arg,
         FormViolations(d, arg.id, arg) = {},
         NEW e, e = Q!UpdateForm(d, arg)
  PROVE  AllKept(e)
<1> DEFINE found == Q!UpdatableForm(d, arg)
           edited == [f \in d.forms |->
                       IF f \in found THEN [f EXCEPT !.def = arg.def] ELSE f]
<1>1. /\ e.forms = (d.forms \ found)
                     \cup {[f EXCEPT !.def = arg.def] : f \in found}
      /\ e.tenants = d.tenants /\ e.users = d.users
      /\ e.identities = d.identities /\ e.files = d.files
      /\ e.submissions = d.submissions /\ e.metadata = d.metadata
      /\ e.webhooks = d.webhooks
  BY DEF Q!UpdateForm, Database
<1>2. e.forms = {edited[f] : f \in d.forms}
  <2>1. found \subseteq d.forms
    BY DEF Q!UpdatableForm
  <2>2. /\ \A f \in d.forms \ found : edited[f] = f
        /\ \A f \in found : edited[f] = [f EXCEPT !.def = arg.def]
    BY <2>1
  <2> HIDE DEF found, edited
  <2>3. ASSUME NEW r \in e.forms
        PROVE  r \in {edited[f] : f \in d.forms}
    BY <1>1, <2>1, <2>2
  <2>4. ASSUME NEW f \in d.forms
        PROVE  edited[f] \in e.forms
    <3>1. CASE f \in found
      BY <1>1, <2>2, <3>1
    <3>2. CASE f \notin found
      BY <1>1, <2>2, <3>2
    <3> QED
      BY <3>1, <3>2
  <2> QED
    BY <2>3, <2>4
<1>3. \A f \in d.forms :
        /\ edited[f].id = f.id /\ edited[f].tenant = f.tenant
        /\ edited[f].def = f.def \/ (edited[f].def = arg.def /\ f.id = arg.id)
  BY DEF Database, FormRow, Q!UpdatableForm
<1>4. edited = [f \in d.forms |-> edited[f]]
  OBVIOUS
<1> HIDE DEF found, edited
<1>5. FormsKept(e)
  <2>1. IsFiniteSet(e.forms)
    BY <1>2, <1>4, FiniteImage DEF AllKept, FormsKept
  <2>2. Unique(e.forms, "id") /\ Refers(e.forms, "tenant", e.tenants)
    BY <1>1, <1>2, <1>3 DEF AllKept, FormsKept, Unique, Refers
  <2>3. AcceptsAnonymous(arg.def) /\ ~SlugTaken(d, arg.def.slug, arg.id)
    BY DEF FormViolations, Unless
  <2>4. \A f \in e.forms :
          AcceptsAnonymous(f.def) /\ ~SlugTaken(e, f.def.slug, f.id)
    BY <1>2, <1>3, <2>3 DEF AllKept, FormsKept, SlugTaken
  <2> QED
    BY <2>1, <2>2, <2>4 DEF FormsKept
<1>6. SubmissionsKept(e) /\ WebhooksKept(e)
  <2>1. \A i : HasId(d.forms, i) => HasId(e.forms, i)
    BY <1>2, <1>3 DEF HasId
  <2> QED
    BY <1>1, <2>1 DEF AllKept, SubmissionsKept, WebhooksKept, Refers
<1> QED
  BY <1>1, <1>5, <1>6
  DEF AllKept, TenantsKept, UsersKept, IdentitiesKept, FilesKept, MetadataKept

LEMMA FormDeletionKeeps ==
  ASSUME NEW d \in Database, AllKept(d), NEW arg,
         Q!OwnForm(d, arg) = {} \/ ~Referenced(d, arg.id),
         NEW e, e = Q!DeleteForm(d, arg)
  PROVE  AllKept(e)
<1>1. /\ e.forms = d.forms \ Q!OwnForm(d, arg)
      /\ e.tenants = d.tenants /\ e.users = d.users
      /\ e.identities = d.identities /\ e.files = d.files
      /\ e.submissions = d.submissions /\ e.metadata = d.metadata
      /\ e.webhooks = d.webhooks
  BY DEF Q!DeleteForm, Database
<1>2. FormsKept(e)
  BY <1>1, FewerRows DEF AllKept, FormsKept, SlugTaken
<1>3. /\ \A s \in d.submissions : HasId(d.forms, s.form)
           => HasId(e.forms, s.form)
      /\ \A w \in d.webhooks : HasId(d.forms, w.form)
           => HasId(e.forms, w.form)
  BY <1>1 DEF HasId, Referenced, HasSubmissions, Q!OwnForm
<1>4. SubmissionsKept(e) /\ WebhooksKept(e)
  BY <1>1, <1>3 DEF AllKept, SubmissionsKept, WebhooksKept, Refers
<1> QED
  BY <1>1, <1>2, <1>4
  DEF AllKept, TenantsKept, UsersKept, IdentitiesKept, FilesKept, MetadataKept

LEMMA SubmissionInsertKeeps ==
  ASSUME NEW d \in Database, AllKept(d), NEW i, NEW arg, NEW at,
         ~HasId(d.submissions, i), SubmissionViolations(d, arg) = {},
         NEW e, e = Q!CreateFormSubmission(d, i, arg, at)
  PROVE  AllKept(e)
<1> DEFINE row == [id |-> i, form |-> arg.form, user |-> arg.user, at |-> at]
<1>1. /\ e.submissions = d.submissions \cup {row}
      /\ e.tenants = d.tenants /\ e.users = d.users
      /\ e.identities = d.identities /\ e.files = d.files
      /\ e.forms = d.forms /\ e.metadata = d.metadata
      /\ e.webhooks = d.webhooks
  BY DEF Q!CreateFormSubmission, Database
<1>2. \A s \in d.submissions : s.id # row.id
  BY DEF HasId
<1>3. HasId(d.forms, row.form) /\ (row.user = Null \/ HasId(d.users, row.user))
  BY DEF SubmissionViolations, Unless
<1> HIDE DEF row
<1>4. SubmissionsKept(e)
  BY <1>1, <1>2, <1>3, FS_AddElement
  DEF AllKept, SubmissionsKept, Unique, Refers
<1>5. MetadataKept(e)
  BY <1>1 DEF AllKept, MetadataKept, Refers, HasId
<1> QED
  BY <1>1, <1>4, <1>5
  DEF AllKept, TenantsKept, UsersKept, IdentitiesKept, FilesKept, FormsKept,
      SlugTaken, WebhooksKept

LEMMA MetadataInsertKeeps ==
  ASSUME NEW d \in Database, AllKept(d), NEW i, NEW arg,
         ~HasId(d.metadata, i), MetadataViolations(d, arg) = {},
         NEW e, e = Q!CreateSubmissionMetadata(d, i, arg)
  PROVE  AllKept(e)
<1> DEFINE row == [id |-> i, submission |-> arg.submission,
                   seconds |-> arg.seconds]
<1>1. /\ e.metadata = d.metadata \cup {row}
      /\ e.tenants = d.tenants /\ e.users = d.users
      /\ e.identities = d.identities /\ e.files = d.files
      /\ e.forms = d.forms /\ e.submissions = d.submissions
      /\ e.webhooks = d.webhooks
  BY DEF Q!CreateSubmissionMetadata, Database
<1>2. /\ \A m \in d.metadata : m.id # row.id /\ m.submission # row.submission
      /\ HasId(d.submissions, row.submission)
  BY DEF HasId, MetadataViolations, Unless, MetadataExists
<1> HIDE DEF row
<1>3. MetadataKept(e)
  BY <1>1, <1>2, FS_AddElement DEF AllKept, MetadataKept, Unique, Refers
<1> QED
  BY <1>1, <1>3
  DEF AllKept, TenantsKept, UsersKept, IdentitiesKept, FilesKept, FormsKept,
      SlugTaken, SubmissionsKept, WebhooksKept

LEMMA WebhookInsertKeeps ==
  ASSUME NEW d \in Database, AllKept(d), NEW i, NEW form,
         ~HasId(d.webhooks, i), HasId(d.forms, form),
         NEW e, e = Q!CreateFormWebhook(d, i, form)
  PROVE  AllKept(e)
<1> DEFINE row == [id |-> i, form |-> form, active |-> TRUE]
<1>1. /\ e.webhooks = d.webhooks \cup {row}
      /\ e.tenants = d.tenants /\ e.users = d.users
      /\ e.identities = d.identities /\ e.files = d.files
      /\ e.forms = d.forms /\ e.submissions = d.submissions
      /\ e.metadata = d.metadata
  BY DEF Q!CreateFormWebhook, Database
<1>2. \A w \in d.webhooks : w.id # row.id
  BY DEF HasId
<1>3. row.form = form
  OBVIOUS
<1> HIDE DEF row
<1>4. WebhooksKept(e)
  BY <1>1, <1>2, <1>3, FS_AddElement DEF AllKept, WebhooksKept, Unique, Refers
<1> QED
  BY <1>1, <1>4
  DEF AllKept, TenantsKept, UsersKept, IdentitiesKept, FilesKept, FormsKept,
      SlugTaken, SubmissionsKept, MetadataKept

-----------------------------------------------------------------------------
(* Every method, on either engine.                                         *)

\* The contract's ids and violations are the adapter's.
LEMMA SameIds ==
  ASSUME NEW rows
  PROVE  Contract!FreshIds(rows) = {i \in RowIds : ~HasId(rows, i)}
BY SameSets, SameConstraints DEF Contract!FreshIds

\* What a method of the contract leaves of the database.
LEMMA ContractEffects ==
  /\ \A result : Contract!Read(result) => db' = db
  /\ \A v : Contract!Reject(v) => db' = db
  /\ \A d, result : Contract!Write(d, result) => db' \in {db, d}
BY DEF Contract!Read, Contract!Reject, Contract!Write

\* A database as the schema wants it.
Kept(d) == d \in Database /\ AllKept(d)

\* CreateTenant, GetTenantByAPIKey.
LEMMA TenantsKeep ==
  ASSUME Kept(db), Contract!AnyTenants
  PROVE  Kept(db')
<1> USE DEF Kept
<1>1. ASSUME NEW key \in Keys, Contract!CreateTenant(key)
      PROVE  Kept(db')
  <2> SUFFICES ASSUME db' # db
               PROVE  Kept(db')
    OBVIOUS
  <2>1. PICK i \in Contract!FreshIds(db.tenants) :
          /\ ~Contract!KeyTaken(db, key)
          /\ db' = Contract!Q!CreateTenant(db, i, key)
    BY <1>1, ContractEffects DEF Contract!CreateTenant
  <2>2. i \in RowIds /\ ~HasId(db.tenants, i) /\ ~KeyTaken(db, key)
    BY <2>1, SameIds, SameConstraints
  <2>3. db' = Q!CreateTenant(db, i, key)
    BY <2>1, SameTenantQueries
  <2> QED
    BY <2>2, <2>3, TenantWrites, TenantInsertKeeps
<1>2. ASSUME NEW key \in Keys, Contract!GetTenantByAPIKey(key)
      PROVE  Kept(db')
  BY <1>2, ContractEffects DEF Contract!GetTenantByAPIKey
<1> QED
  BY <1>1, <1>2 DEF Contract!AnyTenants

\* The inserts of accounts.
LEMMA NewUserKeeps ==
  ASSUME NEW d, Kept(d), NEW i \in RowIds, ~HasId(d.users, i),
         NEW arg \in UserArgs, ~NameTaken(d, arg.name)
  PROVE  Kept(Q!CreateUser(d, i, arg))
<1> DEFINE row == [id |-> i, name |-> arg.name, hash |-> arg.hash,
                   role |-> arg.role, active |-> TRUE]
<1>1. row.id = i /\ row.name = arg.name
  OBVIOUS
<1>2. Q!CreateUser(d, i, arg) = [d EXCEPT !.users = @ \cup {row}]
  BY DEF Q!CreateUser
<1> HIDE DEF row
<1>3. AllKept(Q!CreateUser(d, i, arg))
  BY <1>1, <1>2, UserInsertKeeps DEF Kept
<1> QED
  BY <1>3, UserWrites DEF Kept

LEMMA NewLinkKeeps ==
  ASSUME NEW d, Kept(d), NEW i \in RowIds, ~HasId(d.users, i),
         NEW arg \in LinkArgs, ~NameTaken(d, arg.name),
         ~IdentityTaken(d, arg.identity)
  PROVE  Kept(Q!CreateUserIdentity(Q!CreateUserWithoutPassword(d, i, arg),
                                   i, arg))
<1> DEFINE first == Q!CreateUserWithoutPassword(d, i, arg)
           user == [id |-> i, name |-> arg.name, hash |-> Null,
                    role |-> arg.role, active |-> TRUE]
           row == [user |-> i, identity |-> arg.identity, email |-> arg.email]
<1>1. user \in UserRow /\ user.id = i /\ user.name = arg.name
  BY DEF UserRow, LinkArgs
<1>2. first = [d EXCEPT !.users = @ \cup {user}]
  BY DEF Q!CreateUserWithoutPassword
<1>3. Q!CreateUserIdentity(first, i, arg)
        = [first EXCEPT !.identities = @ \cup {row}]
  BY DEF Q!CreateUserIdentity
<1>4. row.user = i /\ row.identity = arg.identity
  OBVIOUS
<1>5. Q!CreateUserIdentity(first, i, arg) \in Database
  BY LinkWrites DEF Kept
<1> HIDE DEF user, row, first
<1>6. /\ first \in Database
      /\ first.users = d.users \cup {user}
      /\ first.identities = d.identities
  BY <1>1, <1>2 DEF Kept, Database
<1>7. AllKept(first)
  BY <1>1, <1>2, UserInsertKeeps DEF Kept
<1>8. HasId(first.users, row.user) /\ ~IdentityTaken(first, row.identity)
  BY <1>1, <1>4, <1>6 DEF HasId, IdentityTaken
<1>9. AllKept(Q!CreateUserIdentity(first, i, arg))
  BY <1>3, <1>6, <1>7, <1>8, IdentityInsertKeeps
<1> QED
  BY <1>5, <1>9 DEF Kept, first

\* The methods on accounts.
LEMMA UsersKeep ==
  ASSUME Kept(db), Contract!AnyUsers
  PROVE  Kept(db')
<1>1. ASSUME NEW arg \in UserArgs, Contract!CreateUser(arg)
      PROVE  Kept(db')
  <2> SUFFICES ASSUME db' # db
               PROVE  Kept(db')
    OBVIOUS
  <2>1. PICK i \in Contract!FreshIds(db.users) :
          /\ ~Contract!NameTaken(db, arg.name)
          /\ db' = Contract!Q!CreateUser(db, i, arg)
    BY <1>1, ContractEffects DEF Contract!CreateUser
  <2>2. i \in RowIds /\ ~HasId(db.users, i) /\ ~NameTaken(db, arg.name)
    BY <2>1, SameIds, SameConstraints
  <2>3. db' = Q!CreateUser(db, i, arg)
    BY <2>1, SameUserWrites
  <2> QED
    BY <2>2, <2>3, NewUserKeeps
<1>2. ASSUME NEW arg \in UserArgs, Contract!CreateUserIfNotExists(arg)
      PROVE  Kept(db')
  <2>1. CASE \E i \in RowIds : /\ ~HasId(db.users, i)
                               /\ db' = Q!CreateUserIfNotExists(db, i, arg)
    BY <2>1, NewUserKeeps, SameConstraints DEF Q!CreateUserIfNotExists
  <2> QED
    BY <1>2, <2>1, ContractEffects, SameIds, SameUserWrites
    DEF Contract!CreateUserIfNotExists
<1>3. ASSUME NEW arg \in LinkArgs, Contract!CreateUserWithIdentity(arg)
      PROVE  Kept(db')
  <2> SUFFICES ASSUME db' # db
               PROVE  Kept(db')
    OBVIOUS
  <2>1. PICK i \in Contract!FreshIds(db.users) :
          /\ ~Contract!NameTaken(db, arg.name)
          /\ ~Contract!IdentityTaken(db, arg.identity)
          /\ db' = Contract!Q!CreateUserWithIdentity(db, i, arg)
    BY <1>3 DEF Contract!CreateUserWithIdentity, Contract!Reject,
                Contract!Write, Contract!Read
  <2>2. /\ i \in RowIds /\ ~HasId(db.users, i) /\ ~NameTaken(db, arg.name)
        /\ ~IdentityTaken(db, arg.identity)
    BY <2>1, SameIds, SameConstraints
  <2>3. db' = Q!CreateUserIdentity(
                Q!CreateUserWithoutPassword(db, i, arg), i, arg)
    BY <2>1, SameUserWithIdentity DEF Kept
  <2> QED
    BY <2>2, <2>3, NewLinkKeeps
<1>4. ASSUME NEW arg \in RoleArgs, Contract!UpdateUserRole(arg)
      PROVE  Kept(db')
  <2>1. Kept(Q!UpdateUserRole(db, arg))
    BY RoleWrites, RoleUpdateKeeps DEF Kept
  <2> QED
    BY <1>4, <2>1, ContractEffects, SameUserWrites DEF Contract!UpdateUserRole
<1>5. ASSUME NEW arg \in TouchArgs, Contract!TouchUserIdentity(arg)
      PROVE  Kept(db')
  <2>1. Kept(Q!TouchUserIdentity(db, arg))
    BY TouchWrites, TouchKeeps DEF Kept
  <2> QED
    BY <1>5, <2>1, ContractEffects, SameUserWrites
    DEF Contract!TouchUserIdentity
<1> QED
  BY <1>1, <1>2, <1>3, <1>4, <1>5, ContractEffects, SameSets
  DEF Contract!AnyUsers, Contract!GetUserByID, Contract!CountUserIdentities,
      Contract!GetUserByUsername, Contract!GetUserByIdentity,
      Contract!ListUsers

\* Those on files.
LEMMA FilesKeep ==
  ASSUME Kept(db), Contract!AnyFiles
  PROVE  Kept(db')
<1>1. ASSUME NEW arg \in FileArgs, Contract!CreateFile(arg)
      PROVE  Kept(db')
  <2> SUFFICES ASSUME db' # db
               PROVE  Kept(db')
    OBVIOUS
  <2>1. PICK at \in Instants :
          /\ Contract!FileViolations(db, arg) = {}
          /\ db' = Contract!Q!CreateFile(db, arg, at)
    BY <1>1 DEF Contract!CreateFile, Contract!Reject, Contract!Write,
                Contract!Read
  <2>2. FileViolations(db, arg) = {} /\ db' = Q!CreateFile(db, arg, at)
    BY <2>1, SameViolations, SameFileQueries
  <2> QED
    BY <2>2, FileWrites, FileInsertKeeps DEF Kept
<1>2. ASSUME NEW arg \in FileOf, Contract!DeleteFile(arg)
      PROVE  Kept(db')
  <2>1. Kept(Q!DeleteFile(db, arg))
    BY FileWrites, FileDeletionKeeps DEF Kept
  <2> QED
    BY <1>2, <2>1, ContractEffects, SameFileQueries DEF Contract!DeleteFile
<1> QED
  BY <1>1, <1>2, ContractEffects, SameSets
  DEF Contract!AnyFiles, Contract!GetFileByID, Contract!ListAllFiles,
      Contract!CountAllFiles

\* Those on forms.
LEMMA FormsKeep ==
  ASSUME Kept(db), Contract!AnyForms
  PROVE  Kept(db')
<1>1. ASSUME NEW arg \in NewForms, Contract!CreateForm(arg)
      PROVE  Kept(db')
  <2>1. CASE \E i \in RowIds, at \in Instants :
               /\ ~HasId(db.forms, i) /\ FormViolations(db, 0, arg) = {}
               /\ db' = Q!CreateForm(db, i, arg, at)
    BY <2>1, FormWrites, FormInsertKeeps DEF Kept
  <2> QED
    BY <1>1, <2>1, ContractEffects, SameIds, SameViolations, SameFormWrites
    DEF Contract!CreateForm
<1>2. ASSUME NEW arg \in FormEdits, Contract!UpdateForm(arg)
      PROVE  Kept(db')
  <2>1. CASE /\ FormViolations(db, arg.id, arg) = {}
             /\ db' = Q!UpdateForm(db, arg)
    BY <2>1, FormEditWrites, FormUpdateKeeps DEF Kept
  <2> QED
    BY <1>2, <2>1, ContractEffects, SameViolations, SameFormWrites
    DEF Contract!UpdateForm
<1>3. ASSUME NEW arg \in FormOf, Contract!DeleteForm(arg)
      PROVE  Kept(db')
  <2>1. CASE /\ Q!OwnForm(db, arg) = {} \/ ~Referenced(db, arg.id)
             /\ db' = Q!DeleteForm(db, arg)
    BY <2>1, FormWrites, FormDeletionKeeps DEF Kept
  <2> QED
    BY <1>3, <2>1, ContractEffects, SameConstraints, SameFormWrites
    DEF Contract!DeleteForm
<1> QED
  BY <1>1, <1>2, <1>3, ContractEffects, SameSets
  DEF Contract!AnyForms, Contract!GetFormByID, Contract!GetAnyFormByID,
      Contract!GetPublicFormBySlug, Contract!CountFormsByTenant,
      Contract!ListFormsByTenant, Contract!ListAllForms,
      Contract!CountAllForms

\* Those on submissions and webhooks.
LEMMA SubmissionsKeep ==
  ASSUME Kept(db), Contract!AnySubmissions
  PROVE  Kept(db')
<1>1. ASSUME NEW arg \in SubmissionArgs, Contract!CreateFormSubmission(arg)
      PROVE  Kept(db')
  <2>1. CASE \E i \in RowIds, at \in Instants :
               /\ ~HasId(db.submissions, i)
               /\ SubmissionViolations(db, arg) = {}
               /\ db' = Q!CreateFormSubmission(db, i, arg, at)
    BY <2>1, SubmissionWrites, SubmissionInsertKeeps DEF Kept
  <2> QED
    BY <1>1, <2>1, ContractEffects, SameIds, SameViolations,
       SameSubmissionQueries DEF Contract!CreateFormSubmission
<1>2. ASSUME NEW arg \in MetadataArgs, Contract!CreateSubmissionMetadata(arg)
      PROVE  Kept(db')
  <2>1. CASE \E i \in RowIds :
               /\ ~HasId(db.metadata, i) /\ MetadataViolations(db, arg) = {}
               /\ db' = Q!CreateSubmissionMetadata(db, i, arg)
    BY <2>1, SubmissionWrites, MetadataInsertKeeps DEF Kept
  <2> QED
    BY <1>2, <2>1, ContractEffects, SameIds, SameViolations,
       SameSubmissionQueries DEF Contract!CreateSubmissionMetadata
<1>3. ASSUME NEW form \in Ids, Contract!CreateFormWebhook(form)
      PROVE  Kept(db')
  <2> SUFFICES ASSUME db' # db
               PROVE  Kept(db')
    OBVIOUS
  <2>1. PICK i \in Contract!FreshIds(db.webhooks) :
          /\ Contract!HasId(db.forms, form)
          /\ db' = Contract!Q!CreateFormWebhook(db, i, form)
    BY <1>3, ContractEffects DEF Contract!CreateFormWebhook
  <2>2. i \in RowIds /\ ~HasId(db.webhooks, i) /\ HasId(db.forms, form)
    BY <2>1, SameIds, SameConstraints
  <2>3. db' = Q!CreateFormWebhook(db, i, form)
    BY <2>1, SameSubmissionQueries
  <2> QED
    BY <2>2, <2>3, SubmissionWrites, WebhookInsertKeeps DEF Kept
<1> QED
  BY <1>1, <1>2, <1>3, ContractEffects, SameSets
  DEF Contract!AnySubmissions, Contract!ListAllSubmissionsByForm,
      Contract!ListSubmissionsByForm, Contract!ListActiveWebhooksByForm

\* A step the contract allows keeps the constraints, with whatever new id the
\* engine chooses.
LEMMA ContractStep ==
  ASSUME db \in Database, Consistent(db), Contract!Next
  PROVE  db' \in Database /\ Consistent(db')
<1>1. Kept(db)
  BY TableByTable DEF Kept, AllKept
<1>2. Kept(db')
  BY <1>1, TenantsKeep, UsersKeep, FilesKeep, FormsKeep, SubmissionsKeep
  DEF Contract!Next
<1> QED
  BY <1>2, TableByTable DEF Kept, AllKept

\* So does a step of the adapter, which is one of those.
LEMMA ConstraintsStep ==
  ASSUME db \in Database, Consistent(db), Next
  PROVE  Consistent(db')
BY NextRefines, ContractStep DEF DatabaseTyped

\* The constraints of the schema hold of every database that an engine
\* leaves which keeps the contract of db.Querier: no row is written twice
\* under one key, and none is left behind without the row it refers to.  A
\* statement that fails after its effect does not change that.
THEOREM ConstraintsHoldOnEitherEngine ==
  Contract!Spec => [](DatabaseTyped /\ Consistent(db))
<1>1. Contract!Init => DatabaseTyped /\ Consistent(db)
  <2>1. Empty \in Database
    BY DEF Empty, Database
  <2>2. Contract!Init => db = Empty \/ db \in Databases
    BY SameSets DEF Contract!Init
  <2> QED
    BY <2>1, <2>2, DatabasesAssumption, DatabasesKeepConstraints, EmptyKept
    DEF DatabaseTyped
<1>2. ASSUME DatabaseTyped, Consistent(db), [Contract!Next]_(Contract!vars)
      PROVE  DatabaseTyped' /\ Consistent(db)'
  <2>1. CASE Contract!Next
    BY <1>2, <2>1, ContractStep DEF DatabaseTyped
  <2>2. CASE UNCHANGED Contract!vars
    BY <1>2, <2>2 DEF Contract!vars, DatabaseTyped
  <2> QED
    BY <1>2, <2>1, <2>2
<1> QED
  BY <1>1, <1>2, PTL DEF Contract!Spec

\* SQLite behind the adapter is such an engine.
THEOREM ConstraintsHold == Spec => []Consistent(db)
BY AdapterImplementsQuerier, ConstraintsHoldOnEitherEngine, PTL
DEF ImplementsQuerier
=============================================================================
