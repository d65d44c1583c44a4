------------------------ MODULE SqliteQuerierProofs -------------------------
(***************************************************************************)
(* The SQLite adapter keeps the contract of db.Querier, whatever the size  *)
(* of the tables and of an id, and whatever the database it opens holds.   *)
(*                                                                         *)
(* The two sides are written over two translations of the queries and four *)
(* copies of Tables (the adapter's, its queries', the contract's and its   *)
(* queries').  The first part shows that corresponding operators agree,    *)
(* the second that a converted row is the row itself or an error, the      *)
(* third that every method maps to the contract's and keeps the database   *)
(* in its type, which is the invariant the conversions need.               *)
(***************************************************************************)
EXTENDS SqliteQuerier, TLAPS

-----------------------------------------------------------------------------
(* The two engines' statements.                                            *)

\* The copies of FiniteSets count alike.
LEMMA SameCardinality ==
  \A S : /\ Contract!Q!Cardinality(S) = Q!Cardinality(S)
         /\ Q!Cardinality(S) = Cardinality(S)
         /\ Contract!Cardinality(S) = Cardinality(S)
BY DEF Contract!Q!Cardinality, Q!Cardinality, Contract!Cardinality,
       Cardinality

\* A page has the same rows on either engine.
LEMMA SamePages ==
  ASSUME NEW rows, NEW p
  PROVE  /\ Contract!Q!NewestPage(rows, p) = Q!NewestPage(rows, p)
         /\ Contract!Q!NewestFilesPage(rows, p) = Q!NewestFilesPage(rows, p)
         /\ Contract!Q!PageById(rows, p) = Q!PageById(rows, p)
<1>1. Contract!Q!NewestPage(rows, p) = Q!NewestPage(rows, p)
  BY SameCardinality
  DEF Q!NewestPage, Contract!Q!NewestPage, Q!Newer, Contract!Q!Newer,
      Q!Within, Contract!Q!Within
<1>2. Contract!Q!NewestFilesPage(rows, p) = Q!NewestFilesPage(rows, p)
  BY SameCardinality
  DEF Q!NewestFilesPage, Contract!Q!NewestFilesPage, Q!NewerFile,
      Contract!Q!NewerFile, Q!Within, Contract!Q!Within
<1>3. Contract!Q!PageById(rows, p) = Q!PageById(rows, p)
  BY SameCardinality
  DEF Q!PageById, Contract!Q!PageById, Q!Within, Contract!Q!Within
<1> QED
  BY <1>1, <1>2, <1>3

\* The statements on tenants do the same on either engine.
LEMMA SameTenantQueries ==
  ASSUME NEW d, NEW i, NEW key
  PROVE  /\ Contract!Q!CreateTenant(d, i, key) = Q!CreateTenant(d, i, key)
         /\ Contract!Q!GetTenantByAPIKey(d, key) = Q!GetTenantByAPIKey(d, key)
BY DEF Q!CreateTenant, Contract!Q!CreateTenant, Q!GetTenantByAPIKey,
       Contract!Q!GetTenantByAPIKey

\* So do the one-row statements that change accounts.
LEMMA SameUserWrites ==
  ASSUME NEW d, NEW i, NEW arg
  PROVE  /\ Contract!Q!CreateUser(d, i, arg) = Q!CreateUser(d, i, arg)
         /\ Contract!Q!CreateUserIfNotExists(d, i, arg)
              = Q!CreateUserIfNotExists(d, i, arg)
         /\ Contract!Q!UpdateUserRole(d, arg) = Q!UpdateUserRole(d, arg)
         /\ Contract!Q!TouchUserIdentity(d, arg) = Q!TouchUserIdentity(d, arg)
BY DEF Q!CreateUser, Contract!Q!CreateUser, Q!CreateUserIfNotExists,
       Contract!Q!CreateUserIfNotExists, Q!NameTaken, Contract!Q!NameTaken,
       Q!UpdateUserRole, Contract!Q!UpdateUserRole, Q!TouchUserIdentity,
       Contract!Q!TouchUserIdentity

\* PostgreSQL's one statement and SQLite's two in a transaction.
LEMMA SameUserWithIdentity ==
  ASSUME NEW d \in Database, NEW i, NEW arg
  PROVE  Contract!Q!CreateUserWithIdentity(d, i, arg)
           = Q!CreateUserIdentity(Q!CreateUserWithoutPassword(d, i, arg),
                                  i, arg)
BY DEF Contract!Q!CreateUserWithIdentity, Contract!Q!CreateUser,
       Q!CreateUserIdentity, Q!CreateUserWithoutPassword, Database

\* And those that read accounts and identities.
LEMMA SameUserReads ==
  ASSUME NEW d, NEW i, NEW name, NEW identity, NEW p
  PROVE  /\ Contract!Q!GetUserByID(d, i) = Q!GetUserByID(d, i)
         /\ Contract!Q!GetUserByUsername(d, name)
              = Q!GetUserByUsername(d, name)
         /\ Contract!Q!GetUserByIdentity(d, identity)
              = Q!GetUserByIdentity(d, identity)
         /\ Contract!Q!CountUserIdentities(d, i) = Q!CountUserIdentities(d, i)
         /\ Contract!Q!ListUsers(d, p) = Q!ListUsers(d, p)
<1>1. Contract!Q!GetUserByID(d, i) = Q!GetUserByID(d, i)
  BY DEF Contract!Q!GetUserByID, Q!GetUserByID
<1>2. Contract!Q!GetUserByUsername(d, name) = Q!GetUserByUsername(d, name)
  BY DEF Contract!Q!GetUserByUsername, Q!GetUserByUsername
<1>3. Contract!Q!GetUserByIdentity(d, identity)
        = Q!GetUserByIdentity(d, identity)
  BY DEF Contract!Q!GetUserByIdentity, Q!GetUserByIdentity
<1>4. Contract!Q!CountUserIdentities(d, i) = Q!CountUserIdentities(d, i)
  BY SameCardinality DEF Contract!Q!CountUserIdentities, Q!CountUserIdentities
<1>5. Contract!Q!ListUsers(d, p) = Q!ListUsers(d, p)
  BY SamePages DEF Contract!Q!ListUsers, Q!ListUsers
<1> QED
  BY <1>1, <1>2, <1>3, <1>4, <1>5

\* The statements on files do the same.
LEMMA SameFileQueries ==
  ASSUME NEW d, NEW uuid, NEW arg, NEW at, NEW p
  PROVE  /\ Contract!Q!CreateFile(d, arg, at) = Q!CreateFile(d, arg, at)
         /\ Contract!Q!GetFileByID(d, uuid) = Q!GetFileByID(d, uuid)
         /\ \A f : Contract!Q!FileMetadata(f) = Q!FileMetadata(f)
         /\ Contract!Q!OwnFile(d, arg) = Q!OwnFile(d, arg)
         /\ Contract!Q!DeleteFile(d, arg) = Q!DeleteFile(d, arg)
         /\ Contract!Q!ListAllFiles(d, p) = Q!ListAllFiles(d, p)
         /\ Contract!Q!CountAllFiles(d) = Q!CountAllFiles(d)
<1>1. Contract!Q!CreateFile(d, arg, at) = Q!CreateFile(d, arg, at)
  BY DEF Contract!Q!CreateFile, Q!CreateFile
<1>2. Contract!Q!GetFileByID(d, uuid) = Q!GetFileByID(d, uuid)
  BY DEF Contract!Q!GetFileByID, Q!GetFileByID
<1>3. \A f : Contract!Q!FileMetadata(f) = Q!FileMetadata(f)
  BY DEF Contract!Q!FileMetadata, Q!FileMetadata
<1>4. Contract!Q!OwnFile(d, arg) = Q!OwnFile(d, arg)
  BY DEF Contract!Q!OwnFile, Q!OwnFile
<1>5. Contract!Q!DeleteFile(d, arg) = Q!DeleteFile(d, arg)
  BY <1>4 DEF Contract!Q!DeleteFile, Q!DeleteFile
<1>6. Contract!Q!ListAllFiles(d, p) = Q!ListAllFiles(d, p)
  BY <1>3, SamePages
  DEF Contract!Q!ListAllFiles, Q!ListAllFiles, Contract!Q!HasId, Q!HasId
<1>7. Contract!Q!CountAllFiles(d) = Q!CountAllFiles(d)
  BY SameCardinality DEF Contract!Q!CountAllFiles, Q!CountAllFiles
<1> QED
  BY <1>1, <1>2, <1>3, <1>4, <1>5, <1>6, <1>7

\* The statements that change forms do the same.
LEMMA SameFormWrites ==
  ASSUME NEW d, NEW i, NEW arg, NEW at
  PROVE  /\ Contract!Q!CreateForm(d, i, arg, at) = Q!CreateForm(d, i, arg, at)
         /\ Contract!Q!UpdatableForm(d, arg) = Q!UpdatableForm(d, arg)
         /\ Contract!Q!UpdateForm(d, arg) = Q!UpdateForm(d, arg)
         /\ Contract!Q!OwnForm(d, arg) = Q!OwnForm(d, arg)
         /\ Contract!Q!DeleteForm(d, arg) = Q!DeleteForm(d, arg)
BY DEF Q!CreateForm, Contract!Q!CreateForm, Q!UpdatableForm,
       Contract!Q!UpdatableForm, Q!HasSubmissions, Contract!Q!HasSubmissions,
       Q!UpdateForm, Contract!Q!UpdateForm, Q!OwnForm, Contract!Q!OwnForm,
       Q!DeleteForm, Contract!Q!DeleteForm

\* So do those that read, list and count them.
LEMMA SameFormReads ==
  ASSUME NEW d, NEW arg, NEW i, NEW slug, NEW filter, NEW p
  PROVE  /\ Contract!Q!GetFormByID(d, arg) = Q!GetFormByID(d, arg)
         /\ Contract!Q!GetAnyFormByID(d, i) = Q!GetAnyFormByID(d, i)
         /\ Contract!Q!GetPublicFormBySlug(d, slug)
              = Q!GetPublicFormBySlug(d, slug)
         /\ Contract!Q!ListFormsByTenant(d, filter, p)
              = Q!ListFormsByTenant(d, filter, p)
         /\ Contract!Q!CountFormsByTenant(d, filter)
              = Q!CountFormsByTenant(d, filter)
         /\ Contract!Q!ListAllForms(d, p) = Q!ListAllForms(d, p)
         /\ Contract!Q!CountAllForms(d) = Q!CountAllForms(d)
<1>1. \A f : Contract!Q!Overview(d, f) = Q!Overview(d, f)
  BY SameCardinality DEF Contract!Q!Overview, Q!Overview
<1>2. Contract!Q!GetFormByID(d, arg) = Q!GetFormByID(d, arg)
  BY DEF Contract!Q!GetFormByID, Q!GetFormByID, Contract!Q!HasId, Q!HasId
<1>3. Contract!Q!GetAnyFormByID(d, i) = Q!GetAnyFormByID(d, i)
  BY <1>1
  DEF Contract!Q!GetAnyFormByID, Q!GetAnyFormByID, Contract!Q!HasId, Q!HasId
<1>4. Contract!Q!GetPublicFormBySlug(d, slug) = Q!GetPublicFormBySlug(d, slug)
  BY DEF Contract!Q!GetPublicFormBySlug, Q!GetPublicFormBySlug
<1>5. {g \in d.forms :
         /\ g.tenant = filter.tenant
         /\ filter.active \in {Null, g.def.active}
         /\ filter.draft \in {Null, g.def.draft}
         /\ g.def.title \in filter.search} = Q!Matching(d, filter)
  BY DEF Q!Matching
<1>6. Contract!Q!ListFormsByTenant(d, filter, p)
        = Q!ListFormsByTenant(d, filter, p)
  BY <1>1, <1>5, SamePages
  DEF Contract!Q!ListFormsByTenant, Q!ListFormsByTenant
<1>7. Contract!Q!CountFormsByTenant(d, filter)
        = Q!CountFormsByTenant(d, filter)
  BY <1>5, SameCardinality
  DEF Contract!Q!CountFormsByTenant, Q!CountFormsByTenant
<1>8. Contract!Q!ListAllForms(d, p) = Q!ListAllForms(d, p)
  BY <1>1, SamePages
  DEF Contract!Q!ListAllForms, Q!ListAllForms, Contract!Q!HasId, Q!HasId
<1>9. Contract!Q!CountAllForms(d) = Q!CountAllForms(d)
  BY SameCardinality DEF Contract!Q!CountAllForms, Q!CountAllForms
<1> QED
  BY <1>2, <1>3, <1>4, <1>6, <1>7, <1>8, <1>9

\* The statements on submissions, their metadata and webhooks do the same;
\* SQLite's LEFT JOIN picks the same metadata.
LEMMA SameSubmissionQueries ==
  ASSUME NEW d, NEW i, NEW arg, NEW form, NEW at, NEW p
  PROVE  /\ Contract!Q!CreateFormSubmission(d, i, arg, at)
              = Q!CreateFormSubmission(d, i, arg, at)
         /\ Contract!Q!CreateSubmissionMetadata(d, i, arg)
              = Q!CreateSubmissionMetadata(d, i, arg)
         /\ Contract!Q!ListAllSubmissionsByForm(d, arg)
              = Q!ListAllSubmissionsByForm(d, arg)
         /\ Contract!Q!ListSubmissionsByForm(d, arg, p)
              = Q!ListSubmissionsByForm(d, arg, p)
         /\ Contract!Q!CreateFormWebhook(d, i, form)
              = Q!CreateFormWebhook(d, i, form)
         /\ Contract!Q!ListActiveWebhooksByForm(d, form)
              = Q!ListActiveWebhooksByForm(d, form)
<1>1. Contract!Q!CreateFormSubmission(d, i, arg, at)
        = Q!CreateFormSubmission(d, i, arg, at)
  BY DEF Contract!Q!CreateFormSubmission, Q!CreateFormSubmission
<1>2. Contract!Q!CreateSubmissionMetadata(d, i, arg)
        = Q!CreateSubmissionMetadata(d, i, arg)
  BY DEF Contract!Q!CreateSubmissionMetadata, Q!CreateSubmissionMetadata
<1>3. ASSUME NEW s
      PROVE  Contract!Q!WithMetadata(d, s) = Q!WithMetadata(d, s)
  <2> DEFINE of == {m \in d.metadata : m.submission = s.id}
  <2>1. (CHOOSE m \in d.metadata : m.submission = s.id)
          = (CHOOSE m \in of : TRUE)
    OBVIOUS
  <2>2. of = {} <=> ~\E m \in d.metadata : m.submission = s.id
    OBVIOUS
  <2> QED
    BY <2>1, <2>2 DEF Contract!Q!WithMetadata, Q!WithMetadata
<1>4. {r \in d.submissions :
         /\ r.form = arg.form
         /\ \E f \in d.forms : f.id = r.form /\ f.tenant = arg.tenant}
        = Q!SubmissionsOfTenant(d, arg)
  BY DEF Q!SubmissionsOfTenant
<1>5. Contract!Q!ListAllSubmissionsByForm(d, arg)
        = Q!ListAllSubmissionsByForm(d, arg)
  BY <1>3, <1>4
  DEF Contract!Q!ListAllSubmissionsByForm, Q!ListAllSubmissionsByForm
<1>6. Contract!Q!ListSubmissionsByForm(d, arg, p)
        = Q!ListSubmissionsByForm(d, arg, p)
  BY <1>3, <1>4, SamePages
  DEF Contract!Q!ListSubmissionsByForm, Q!ListSubmissionsByForm
<1>7. Contract!Q!CreateFormWebhook(d, i, form) = Q!CreateFormWebhook(d, i, form)
  BY DEF Contract!Q!CreateFormWebhook, Q!CreateFormWebhook
<1>8. Contract!Q!ListActiveWebhooksByForm(d, form)
        = Q!ListActiveWebhooksByForm(d, form)
  BY DEF Contract!Q!ListActiveWebhooksByForm, Q!ListActiveWebhooksByForm
<1> QED
  BY <1>1, <1>2, <1>5, <1>6, <1>7, <1>8

-----------------------------------------------------------------------------
(* The constraints and the arguments.                                      *)

\* The methods take the same arguments.
LEMMA SameSets ==
  /\ Contract!RowIds = RowIds
  /\ Contract!Empty = Empty
  /\ Contract!UserArgs = UserArgs
  /\ Contract!LinkArgs = LinkArgs
  /\ Contract!RoleArgs = RoleArgs
  /\ Contract!TouchArgs = TouchArgs
  /\ Contract!FileArgs = FileArgs
  /\ Contract!FileOf = FileOf
  /\ Contract!NewForms = NewForms
  /\ Contract!FormOf = FormOf
  /\ Contract!FormEdits = FormEdits
  /\ Contract!SubmissionArgs = SubmissionArgs
  /\ Contract!MetadataArgs = MetadataArgs
  /\ Contract!SubmissionsOf = SubmissionsOf
  /\ Contract!Ids = Ids
BY DEF Contract!RowIds, RowIds, Contract!Empty, Empty, Contract!UserArgs,
       UserArgs, Contract!LinkArgs, LinkArgs, Contract!RoleArgs, RoleArgs,
       Contract!TouchArgs, TouchArgs, Contract!FileArgs, FileArgs,
       Contract!FileOf, FileOf, Contract!NewForms, NewForms, Contract!FormOf,
       FormOf, Contract!FormEdits, FormEdits, Contract!SubmissionArgs,
       SubmissionArgs, Contract!MetadataArgs, MetadataArgs,
       Contract!SubmissionsOf, SubmissionsOf, Contract!Ids, Ids

\* The tables have the same constraints.
LEMMA SameConstraints ==
  ASSUME NEW d, NEW i, NEW arg
  PROVE  /\ Contract!KeyTaken(d, arg) = KeyTaken(d, arg)
         /\ Contract!NameTaken(d, arg) = NameTaken(d, arg)
         /\ Q!NameTaken(d, arg) = NameTaken(d, arg)
         /\ Contract!IdentityTaken(d, arg) = IdentityTaken(d, arg)
         /\ Contract!HasId(d, i) = HasId(d, i)
         /\ Contract!Referenced(d, i) = Referenced(d, i)
         /\ \A b, c : Contract!Unless(b, c) = Unless(b, c)
BY DEF Contract!KeyTaken, KeyTaken, Contract!NameTaken, NameTaken,
       Q!NameTaken, Contract!IdentityTaken, IdentityTaken, Contract!HasId,
       HasId, Contract!Referenced, Referenced, Contract!HasSubmissions,
       HasSubmissions, Contract!Unless, Unless

\* A row breaks the same ones.
LEMMA SameViolations ==
  ASSUME NEW d, NEW i, NEW arg
  PROVE  /\ Contract!FormViolations(d, i, arg) = FormViolations(d, i, arg)
         /\ Contract!FileViolations(d, arg) = FileViolations(d, arg)
         /\ Contract!SubmissionViolations(d, arg)
              = SubmissionViolations(d, arg)
         /\ Contract!MetadataViolations(d, arg) = MetadataViolations(d, arg)
<1>1. \A rows, j : Contract!HasId(rows, j) = HasId(rows, j)
  BY DEF Contract!HasId, HasId
<1>2. \A b, c : Contract!Unless(b, c) = Unless(b, c)
  BY DEF Contract!Unless, Unless
<1>3. Contract!FormViolations(d, i, arg) = FormViolations(d, i, arg)
  BY <1>1, <1>2
  DEF Contract!FormViolations, FormViolations, Contract!AcceptsAnonymous,
      AcceptsAnonymous, Contract!SlugTaken, SlugTaken
<1>4. Contract!FileViolations(d, arg) = FileViolations(d, arg)
  BY <1>1, <1>2
  DEF Contract!FileViolations, FileViolations, Contract!UuidTaken, UuidTaken
<1>5. Contract!SubmissionViolations(d, arg) = SubmissionViolations(d, arg)
  BY <1>1, <1>2 DEF Contract!SubmissionViolations, SubmissionViolations
<1>6. Contract!MetadataViolations(d, arg) = MetadataViolations(d, arg)
  BY <1>1, <1>2
  DEF Contract!MetadataViolations, MetadataViolations,
      Contract!MetadataExists, MetadataExists
<1> QED
  BY <1>3, <1>4, <1>5, <1>6

\* A row of the table with the next id: only the row just inserted has it,
\* and the contract may choose it.
LEMMA NextIdIsFresh ==
  ASSUME NEW rows, NEW i, NewId(rows, i), \A r \in rows : r.id \in RowIds
  PROVE  i \in RowIds /\ i \in Contract!FreshIds(rows)
<1>1. i \in RowIds /\ \A r \in rows : r.id < i
  BY DEF NewId, Q!IsNextRowId, Q!RowIds, RowIds
<1>2. ~HasId(rows, i)
  BY <1>1, TablesAssumption DEF HasId, RowIds
<1> QED
  BY <1>1, <1>2, SameSets, SameConstraints DEF Contract!FreshIds

-----------------------------------------------------------------------------
(* Conversions: a converted row s stands for the row r if it is r, or      *)
(* reports an overflow because r holds an id of more than 32 bits.         *)

HasOverflow(s) == \E c \in IdColumns : c \in DOMAIN s /\ s[c] = Overflow

Narrowed(r, s) ==
  \/ HasOverflow(s) /\ Wide(r)
  \/ s = r /\ ~HasOverflow(r) /\ ~Wide(r)

Faithful(R, S) ==
  /\ \A s \in S : \E r \in R : Narrowed(r, s)
  /\ \A r \in R : \E s \in S : Narrowed(r, s)

\* Results look the same.
LEMMA SameResults ==
  /\ \A rows : Contract!Found(rows) = Found(rows)
  /\ \A n : Contract!Counted(n) = Counted(n)
  /\ \A e : Contract!Failed(e) = Failed(e)
  /\ \A rows : Contract!One(rows) = One(rows)
  /\ \A r : Contract!Wide(r) = Wide(r)
BY DEF Contract!Found, Found, Contract!Counted, Counted, Contract!Failed,
       Failed, Contract!One, One, Contract!Wide, Wide, Contract!IdColumns,
       IdColumns

\* What a method answers when its rows are faithful: the contract's answer,
\* with an error only when there is a row that does not fit.
LEMMA Results ==
  ASSUME NEW R, NEW S, Faithful(R, S)
  PROVE  /\ \/ Converted(S) = Failed("internal") /\ \E r \in R : Wide(r)
            \/ Converted(S) = Found(R) /\ \A r \in R : ~Wide(r)
         /\ \/ Single(S) = Failed("internal") /\ \E r \in R : Wide(r)
            \/ Single(S) = One(R) /\ \A r \in One(R).rows : ~Wide(r)
<1>1. CASE \E s \in S : HasOverflow(s)
  <2>1. \E r \in R : Wide(r)
    BY <1>1 DEF Faithful, Narrowed
  <2> QED
    BY <1>1, <2>1 DEF Converted, Single, HasOverflow
<1>2. CASE \A s \in S : ~HasOverflow(s)
  <2>1. S = R /\ \A r \in R : ~Wide(r)
    BY <1>2 DEF Faithful, Narrowed
  <2>2. Converted(S) = Found(S)
    BY <1>2 DEF Converted, HasOverflow
  <2>3. CASE S = {}
    BY <2>1, <2>2, <2>3 DEF Single, One, Failed, Found
  <2>4. CASE S # {}
    BY <2>1, <2>2, <2>4 DEF Single, One, Found
  <2> QED
    BY <2>1, <2>2, <2>3, <2>4
<1> QED
  BY <1>1, <1>2

\* A method that answers from faithful rows answers as the contract allows.
LEMMA Replies ==
  ASSUME NEW R, NEW S, Faithful(R, S)
  PROVE  /\ Read(Converted(S)) => Contract!Read(Contract!Found(R))
         /\ Read(Single(S)) => Contract!Read(Contract!One(R))
         /\ \A d : Write(d, Single(S)) => Contract!Write(d, Contract!One(R))
         /\ \A d : R # {} /\ Write(d, Single(S))
                     => Contract!Write(d, Contract!Found(R))
<1>1. Contract!Found(R).rows = R /\ Contract!One(R).rows = One(R).rows
  BY SameResults DEF Found
<1>2. R # {} => One(R) = Found(R)
  BY DEF One
<1>3. Converted(S) = answer' => Contract!Return(Contract!Found(R))
  BY <1>1, Results, SameResults DEF Contract!Return
<1>4. Single(S) = answer' => Contract!Return(Contract!One(R))
  BY <1>1, Results, SameResults DEF Contract!Return
<1>5. Single(S) = answer' /\ R # {} => Contract!Return(Contract!Found(R))
  BY <1>2, <1>4, SameResults
<1> QED
  BY <1>3, <1>4, <1>5 DEF Read, Write, Contract!Read, Contract!Write

\* Answers without a row need no conversion.
LEMMA CountReplies ==
  /\ \A n : Read(Counted(n)) => Contract!Read(Contract!Counted(n))
  /\ \A n, d : Write(d, Counted(n)) => Contract!Write(d, Contract!Counted(n))
  /\ \A d : Write(d, Found({})) => Contract!Write(d, Contract!Found({}))
  /\ Read(Failed("no_rows")) => Contract!Read(Contract!Failed("no_rows"))
  /\ \A v : Reject(v) => Contract!Reject(v)
<1>1. /\ \A n : Contract!Counted(n).rows = {}
      /\ Contract!Failed("no_rows").rows = {}
      /\ Contract!Found({}).rows = {}
  BY DEF Contract!Counted, Contract!Failed, Contract!Found
<1>2. \A n : answer' = Counted(n) => Contract!Return(Contract!Counted(n))
  BY <1>1, SameResults DEF Contract!Return
<1>3. answer' = Failed("no_rows")
        => Contract!Return(Contract!Failed("no_rows"))
  BY <1>1, SameResults DEF Contract!Return
<1>4. answer' = Found({}) => Contract!Return(Contract!Found({}))
  BY <1>1, SameResults DEF Contract!Return
<1>5. \A v : Reject(v) => Contract!Reject(v)
  BY SameResults DEF Reject, Contract!Reject
<1> QED
  BY <1>2, <1>3, <1>4, <1>5
  DEF Read, Write, Contract!Read, Contract!Write

\* An id comes out as it went in, or as the report of an overflow.
LEMMA Narrowing ==
  ASSUME NEW i \in RowIds
  PROVE  \/ ToInt32(i) = Overflow /\ i \in Nat /\ i > IdMax
         \/ ToInt32(i) = i /\ i # Overflow /\ ~(i > IdMax)
BY TablesAssumption DEF ToInt32, Overflow, RowIds

\* So does one that may be NULL.
LEMMA NarrowingPtr ==
  ASSUME NEW p \in RowIds \cup {Null}
  PROVE  \/ ToInt32Ptr(p) = Overflow /\ p \in Nat /\ p > IdMax
         \/ ToInt32Ptr(p) = p /\ p # Overflow /\ ~(p \in Nat /\ p > IdMax)
BY TablesAssumption DEF ToInt32, ToInt32Ptr, Overflow, RowIds

\* A tenant is narrowed.
LEMMA ToTenantNarrows ==
  ASSUME NEW r \in TenantRow
  PROVE  Narrowed(r, ToTenant(r))
BY Narrowing DEF TenantRow, ToTenant, Narrowed, HasOverflow, Wide, IdColumns

\* So is an account.
LEMMA ToUserNarrows ==
  ASSUME NEW r \in UserRow
  PROVE  Narrowed(r, ToUser(r))
BY Narrowing DEF UserRow, ToUser, Narrowed, HasOverflow, Wide, IdColumns

\* A file, with its data or without.
LEMMA ToFileNarrows ==
  ASSUME NEW r \in FileRow
  PROVE  /\ Narrowed(r, ToFile(r))
         /\ LET f == Q!FileMetadata(r)
            IN  /\ Narrowed(f, ToCreateFileRow(f))
                /\ Narrowed(f, ToListAllFilesRow(f))
BY Narrowing
DEF FileRow, ToFile, Q!FileMetadata, ToCreateFileRow, ToListAllFilesRow,
    Narrowed, HasOverflow, Wide, IdColumns

\* A form.
LEMMA ToFormNarrows ==
  ASSUME NEW r \in FormRow
  PROVE  Narrowed(r, ToForm(r)) /\ Narrowed(r, ToGetFormByIDRow(r))
BY Narrowing
DEF FormRow, ToForm, ToGetFormByIDRow, Narrowed, HasOverflow, Wide, IdColumns

\* A form with the number of its submissions, whatever the number.
LEMMA OverviewNarrows ==
  ASSUME NEW n,
         NEW f \in [id: RowIds, tenant: RowIds, def: FormDef, at: Instants,
                    submissions: {n}]
  PROVE  Narrowed(f, ToListAllFormsRow(f))
BY Narrowing DEF ToListAllFormsRow, Narrowed, HasOverflow, Wide, IdColumns

\* The three conversions of such a row.
LEMMA ToOverviewNarrows ==
  ASSUME NEW r \in FormRow, NEW d
  PROVE  LET f == Q!Overview(d, r)
         IN  /\ Narrowed(f, ToGetAnyFormByIDRow(f))
             /\ Narrowed(f, ToListAllFormsRow(f))
             /\ Narrowed(f, ToListFormsByTenantRow(f))
<1> DEFINE f == Q!Overview(d, r)
<1>1. f \in [id: RowIds, tenant: RowIds, def: FormDef, at: Instants,
             submissions: {f.submissions}]
  BY DEF Q!Overview, FormRow
<1>2. Narrowed(f, ToListAllFormsRow(f))
  BY <1>1, OverviewNarrows
<1> QED
  BY <1>2 DEF ToListAllFormsRow, ToGetAnyFormByIDRow, ToListFormsByTenantRow

\* A submission, whose user may be NULL.
LEMMA ToSubmissionNarrows ==
  ASSUME NEW r \in SubmissionRow
  PROVE  Narrowed(r, ToFormSubmission(r))
BY Narrowing, NarrowingPtr
DEF SubmissionRow, ToFormSubmission, Narrowed, HasOverflow, Wide, IdColumns

\* The metadata of one.
LEMMA ToMetadataNarrows ==
  ASSUME NEW r \in MetadataRow
  PROVE  Narrowed(r, ToSubmissionMetadatum(r))
BY Narrowing, NarrowingPtr
DEF MetadataRow, ToSubmissionMetadatum, Narrowed, HasOverflow, Wide, IdColumns

\* A webhook.
LEMMA ToWebhookNarrows ==
  ASSUME NEW r \in WebhookRow
  PROVE  Narrowed(r, ToFormWebhook(r))
BY Narrowing
DEF WebhookRow, ToFormWebhook, Narrowed, HasOverflow, Wide, IdColumns

\* A submission with its metadata.
LEMMA SubmissionRowNarrows ==
  ASSUME NEW s \in [id: RowIds, form: RowIds, user: RowIds \cup {Null},
                    at: Instants, seconds: RowIds \cup {Null}]
  PROVE  Narrowed(s, ToListSubmissionsByFormRow(s))
BY Narrowing, NarrowingPtr
DEF ToListSubmissionsByFormRow, Narrowed, HasOverflow, Wide, IdColumns

\* The two conversions of such a row.
LEMMA ToSubmissionRowNarrows ==
  ASSUME NEW d \in Database, NEW r \in SubmissionRow
  PROVE  LET s == Q!WithMetadata(d, r)
         IN  /\ Narrowed(s, ToListAllSubmissionsByFormRow(s))
             /\ Narrowed(s, ToListSubmissionsByFormRow(s))
<1> DEFINE s == Q!WithMetadata(d, r)
<1>1. s \in [id: RowIds, form: RowIds, user: RowIds \cup {Null},
             at: Instants, seconds: RowIds \cup {Null}]
  BY DEF Q!WithMetadata, Database, SubmissionRow, MetadataRow
<1>2. Narrowed(s, ToListSubmissionsByFormRow(s))
  BY <1>1, SubmissionRowNarrows
<1> QED
  BY <1>2 DEF ToListAllSubmissionsByFormRow, ToListSubmissionsByFormRow

\* Row by row, the converted tenants and accounts are faithful.
LEMMA FaithfulAccounts ==
  ASSUME NEW R
  PROVE  /\ R \subseteq TenantRow => Faithful(R, {ToTenant(t) : t \in R})
         /\ R \subseteq UserRow => Faithful(R, {ToUser(u) : u \in R})
BY ToTenantNarrows, ToUserNarrows DEF Faithful

\* So are files,
LEMMA FaithfulFiles ==
  ASSUME NEW R, R \subseteq FileRow
  PROVE  /\ Faithful(R, {ToFile(f) : f \in R})
         /\ Faithful({Q!FileMetadata(f) : f \in R},
                     {ToCreateFileRow(Q!FileMetadata(f)) : f \in R})
         /\ Faithful({Q!FileMetadata(f) : f \in R},
                     {ToListAllFilesRow(f) :
                        f \in {Q!FileMetadata(g) : g \in R}})
BY ToFileNarrows DEF Faithful

\* forms,
LEMMA FaithfulForms ==
  ASSUME NEW R, R \subseteq FormRow
  PROVE  /\ Faithful(R, {ToForm(f) : f \in R})
         /\ Faithful(R, {ToGetFormByIDRow(f) : f \in R})
BY ToFormNarrows DEF Faithful

\* forms with their numbers of submissions,
LEMMA FaithfulOverviews ==
  ASSUME NEW d, NEW F, F \subseteq FormRow
  PROVE  LET R == {Q!Overview(d, f) : f \in F}
         IN  /\ Faithful(R, {ToGetAnyFormByIDRow(f) : f \in R})
             /\ Faithful(R, {ToListAllFormsRow(f) : f \in R})
             /\ Faithful(R, {ToListFormsByTenantRow(f) : f \in R})
BY ToOverviewNarrows DEF Faithful

\* submissions, with their metadata or without,
LEMMA FaithfulSubmissions ==
  ASSUME NEW d \in Database, NEW S, S \subseteq SubmissionRow
  PROVE  LET R == {Q!WithMetadata(d, s) : s \in S}
         IN  /\ Faithful(S, {ToFormSubmission(s) : s \in S})
             /\ Faithful(R, {ToListAllSubmissionsByFormRow(s) : s \in R})
             /\ Faithful(R, {ToListSubmissionsByFormRow(s) : s \in R})
BY ToSubmissionNarrows, ToSubmissionRowNarrows DEF Faithful

\* metadata and webhooks.
LEMMA FaithfulDeliveries ==
  ASSUME NEW R
  PROVE  /\ R \subseteq MetadataRow
              => Faithful(R, {ToSubmissionMetadatum(m) : m \in R})
         /\ R \subseteq WebhookRow => Faithful(R, {ToFormWebhook(w) : w \in R})
BY ToMetadataNarrows, ToWebhookNarrows DEF Faithful

-----------------------------------------------------------------------------
(* Every statement leaves a database of the type, in which a row just      *)
(* inserted is found under its id.                                         *)

\* Every id the program can name may be a row's.
LEMMA IdsAreRowIds ==
  /\ Ids \subseteq RowIds
  /\ Ids # {} => 1 \in RowIds
BY TablesAssumption DEF Ids, RowIds

\* Adding a row of a table's type to it, or replacing its rows.
LEMMA Tabled ==
  ASSUME NEW d \in Database
  PROVE  /\ \A R \in SUBSET TenantRow :
              /\ [d EXCEPT !.tenants = R] \in Database
              /\ [d EXCEPT !.tenants = R].tenants = R
         /\ \A R \in SUBSET UserRow :
              /\ [d EXCEPT !.users = R] \in Database
              /\ [d EXCEPT !.users = R].users = R
         /\ \A R \in SUBSET IdentityRow :
              /\ [d EXCEPT !.identities = R] \in Database
              /\ [d EXCEPT !.identities = R].identities = R
         /\ \A R \in SUBSET FormRow :
              /\ [d EXCEPT !.forms = R] \in Database
              /\ [d EXCEPT !.forms = R].forms = R
         /\ \A R \in SUBSET SubmissionRow :
              /\ [d EXCEPT !.submissions = R] \in Database
              /\ [d EXCEPT !.submissions = R].submissions = R
         /\ \A R \in SUBSET MetadataRow :
              /\ [d EXCEPT !.metadata = R] \in Database
              /\ [d EXCEPT !.metadata = R].metadata = R
         /\ \A R \in SUBSET WebhookRow :
              /\ [d EXCEPT !.webhooks = R] \in Database
              /\ [d EXCEPT !.webhooks = R].webhooks = R
         /\ \A R \in SUBSET FileRow :
              /\ [d EXCEPT !.files = R] \in Database
              /\ [d EXCEPT !.files = R].files = R
         /\ d.tenants \subseteq TenantRow /\ d.users \subseteq UserRow
         /\ d.identities \subseteq IdentityRow /\ d.forms \subseteq FormRow
         /\ d.submissions \subseteq SubmissionRow
         /\ d.metadata \subseteq MetadataRow /\ d.webhooks \subseteq WebhookRow
         /\ d.files \subseteq FileRow
BY DEF Database

\* A new tenant is in its table.
LEMMA TenantWrites ==
  ASSUME NEW d \in Database, NEW i \in RowIds, NEW key \in Keys
  PROVE  LET e == Q!CreateTenant(d, i, key)
         IN  e \in Database /\ {t \in e.tenants : t.id = i} # {}
<1> DEFINE row == [id |-> i, key |-> key, active |-> TRUE]
<1>1. row \in TenantRow /\ row.id = i
  BY DEF TenantRow
<1> HIDE DEF row
<1>2. Q!CreateTenant(d, i, key) = [d EXCEPT !.tenants = @ \cup {row}]
  BY DEF Q!CreateTenant, row
<1> QED
  BY <1>1, <1>2, Tabled

\* A new account is.
LEMMA UserWrites ==
  ASSUME NEW d \in Database, NEW i \in RowIds, NEW arg \in UserArgs
  PROVE  LET e == Q!CreateUser(d, i, arg)
         IN  /\ e \in Database /\ {u \in e.users : u.id = i} # {}
             /\ Q!CreateUserIfNotExists(d, i, arg) \in Database
<1> DEFINE row == [id |-> i, name |-> arg.name, hash |-> arg.hash,
                   role |-> arg.role, active |-> TRUE]
<1>1. row \in UserRow /\ row.id = i
  BY DEF UserRow, UserArgs
<1> HIDE DEF row
<1>2. Q!CreateUser(d, i, arg) = [d EXCEPT !.users = @ \cup {row}]
  BY DEF Q!CreateUser, row
<1> QED
  BY <1>1, <1>2, Tabled DEF Q!CreateUserIfNotExists

\* An account and its identity are, after both inserts.
LEMMA LinkWrites ==
  ASSUME NEW d \in Database, NEW i \in RowIds, NEW arg \in LinkArgs
  PROVE  LET e == Q!CreateUserIdentity(
                    Q!CreateUserWithoutPassword(d, i, arg), i, arg)
         IN  e \in Database /\ {u \in e.users : u.id = i} # {}
<1> DEFINE row == [id |-> i, name |-> arg.name, hash |-> Null,
                   role |-> arg.role, active |-> TRUE]
           link == [user |-> i, identity |-> arg.identity,
                    email |-> arg.email]
           first == [d EXCEPT !.users = @ \cup {row}]
           e == [first EXCEPT !.identities = @ \cup {link}]
<1>1. row \in UserRow /\ row.id = i /\ link \in IdentityRow
  BY DEF UserRow, IdentityRow, LinkArgs
<1>2. /\ Q!CreateUserWithoutPassword(d, i, arg) = first
      /\ Q!CreateUserIdentity(first, i, arg) = e
  BY DEF Q!CreateUserWithoutPassword, Q!CreateUserIdentity
<1> HIDE DEF row, link
<1>3. first \in Database /\ first.users = d.users \cup {row}
  BY <1>1, Tabled
<1>4. e.users = first.users
  BY <1>3 DEF Database
<1> HIDE DEF first
<1>5. e \in Database
  BY <1>1, <1>3, Tabled
<1> QED
  BY <1>1, <1>2, <1>3, <1>4, <1>5

\* A change of role leaves accounts.
LEMMA RoleWrites ==
  ASSUME NEW d \in Database, NEW arg \in RoleArgs
  PROVE  Q!UpdateUserRole(d, arg) \in Database
BY DEF Q!UpdateUserRole, Database, UserRow, RoleArgs

\* A sign-in leaves identities.
LEMMA TouchWrites ==
  ASSUME NEW d \in Database, NEW arg \in TouchArgs
  PROVE  Q!TouchUserIdentity(d, arg) \in Database
BY DEF Q!TouchUserIdentity, Database, IdentityRow, TouchArgs

\* A new file is found, and a deletion leaves files.
LEMMA FileWrites ==
  ASSUME NEW d \in Database
  PROVE  /\ \A arg \in FileArgs, at \in Instants :
              LET e == Q!CreateFile(d, arg, at)
              IN  e \in Database /\ Q!GetFileByID(e, arg.uuid) # {}
         /\ \A arg \in FileOf : Q!DeleteFile(d, arg) \in Database
<1>1. ASSUME NEW arg \in FileArgs, NEW at \in Instants
      PROVE  LET e == Q!CreateFile(d, arg, at)
             IN  e \in Database /\ Q!GetFileByID(e, arg.uuid) # {}
  <2> DEFINE row == [uuid |-> arg.uuid, tenant |-> arg.tenant,
                     data |-> arg.data, at |-> at]
  <2>1. row \in FileRow /\ row.uuid = arg.uuid
    BY IdsAreRowIds DEF FileRow, FileArgs
  <2> HIDE DEF row
  <2>2. Q!CreateFile(d, arg, at) = [d EXCEPT !.files = @ \cup {row}]
    BY DEF Q!CreateFile, row
  <2> QED
    BY <2>1, <2>2, Tabled DEF Q!GetFileByID
<1>2. ASSUME NEW arg \in FileOf
      PROVE  Q!DeleteFile(d, arg) \in Database
  BY Tabled DEF Q!DeleteFile
<1> QED
  BY <1>1, <1>2

\* A new form is found, and a deletion leaves forms.
LEMMA FormWrites ==
  ASSUME NEW d \in Database
  PROVE  /\ \A arg \in NewForms, i \in RowIds, at \in Instants :
              LET e == Q!CreateForm(d, i, arg, at)
              IN  e \in Database /\ {f \in e.forms : f.id = i} # {}
         /\ \A arg \in FormOf : Q!DeleteForm(d, arg) \in Database
<1>1. ASSUME NEW arg \in NewForms, NEW i \in RowIds, NEW at \in Instants
      PROVE  LET e == Q!CreateForm(d, i, arg, at)
             IN  e \in Database /\ {f \in e.forms : f.id = i} # {}
  <2> DEFINE row == [id |-> i, tenant |-> arg.tenant, def |-> arg.def,
                     at |-> at]
  <2>1. row \in FormRow /\ row.id = i
    BY IdsAreRowIds, ArgumentsAssumption DEF FormRow, NewForms
  <2> HIDE DEF row
  <2>2. Q!CreateForm(d, i, arg, at) = [d EXCEPT !.forms = @ \cup {row}]
    BY DEF Q!CreateForm, row
  <2> QED
    BY <2>1, <2>2, Tabled
<1>2. ASSUME NEW arg \in FormOf
      PROVE  Q!DeleteForm(d, arg) \in Database
  BY Tabled DEF Q!DeleteForm
<1> QED
  BY <1>1, <1>2

\* An edited form keeps its id.
LEMMA FormEditWrites ==
  ASSUME NEW d \in Database, NEW arg \in FormEdits
  PROVE  LET e == Q!UpdateForm(d, arg)
         IN  /\ e \in Database
             /\ Q!UpdatableForm(d, arg) # {}
                  => {f \in e.forms : f.id = arg.id} # {}
<1> DEFINE found == Q!UpdatableForm(d, arg)
           changed == {[f EXCEPT !.def = arg.def] : f \in found}
<1>1. found \subseteq d.forms /\ \A f \in found : f.id = arg.id
  BY DEF Q!UpdatableForm
<1>2. d.forms \subseteq FormRow /\ arg.def \in FormDef
  BY ArgumentsAssumption DEF Database, FormEdits
<1>3. changed \subseteq FormRow
  BY <1>1, <1>2 DEF FormRow
<1>4. \A f \in found : [f EXCEPT !.def = arg.def].id = arg.id
  BY <1>1, <1>2 DEF FormRow
<1> HIDE DEF found
<1>5. Q!UpdateForm(d, arg) = [d EXCEPT !.forms = (@ \ found) \cup changed]
  BY DEF Q!UpdateForm, found
<1>6. Q!UpdateForm(d, arg).forms = (d.forms \ found) \cup changed
  BY <1>5 DEF Database
<1>7. found # {} => \E f \in changed : f.id = arg.id
  BY <1>4
<1>8. Q!UpdateForm(d, arg) \in Database
  <2> HIDE DEF changed
  <2> QED
    BY <1>2, <1>3, <1>5 DEF Database
<1> QED
  BY <1>6, <1>7, <1>8 DEF found

\* A new submission, its metadata and a new webhook are found.
LEMMA SubmissionWrites ==
  ASSUME NEW d \in Database, NEW i \in RowIds
  PROVE  /\ \A arg \in SubmissionArgs, at \in Instants :
              LET e == Q!CreateFormSubmission(d, i, arg, at)
              IN  e \in Database /\ {s \in e.submissions : s.id = i} # {}
         /\ \A arg \in MetadataArgs :
              LET e == Q!CreateSubmissionMetadata(d, i, arg)
              IN  e \in Database /\ {m \in e.metadata : m.id = i} # {}
         /\ \A form \in Ids :
              LET e == Q!CreateFormWebhook(d, i, form)
              IN  e \in Database /\ {w \in e.webhooks : w.id = i} # {}
<1>1. ASSUME NEW arg \in SubmissionArgs, NEW at \in Instants
      PROVE  LET e == Q!CreateFormSubmission(d, i, arg, at)
             IN  e \in Database /\ {s \in e.submissions : s.id = i} # {}
  <2> DEFINE row == [id |-> i, form |-> arg.form, user |-> arg.user,
                     at |-> at]
  <2>1. row \in SubmissionRow /\ row.id = i
    BY IdsAreRowIds DEF SubmissionRow, SubmissionArgs
  <2> HIDE DEF row
  <2>2. Q!CreateFormSubmission(d, i, arg, at)
          = [d EXCEPT !.submissions = @ \cup {row}]
    BY DEF Q!CreateFormSubmission, row
  <2> QED
    BY <2>1, <2>2, Tabled
<1>2. ASSUME NEW arg \in MetadataArgs
      PROVE  LET e == Q!CreateSubmissionMetadata(d, i, arg)
             IN  e \in Database /\ {m \in e.metadata : m.id = i} # {}
  <2> DEFINE row == [id |-> i, submission |-> arg.submission,
                     seconds |-> arg.seconds]
  <2>1. row \in MetadataRow /\ row.id = i
    BY IdsAreRowIds DEF MetadataRow, MetadataArgs
  <2> HIDE DEF row
  <2>2. Q!CreateSubmissionMetadata(d, i, arg)
          = [d EXCEPT !.metadata = @ \cup {row}]
    BY DEF Q!CreateSubmissionMetadata, row
  <2> QED
    BY <2>1, <2>2, Tabled
<1>3. ASSUME NEW form \in Ids
      PROVE  LET e == Q!CreateFormWebhook(d, i, form)
             IN  e \in Database /\ {w \in e.webhooks : w.id = i} # {}
  <2> DEFINE row == [id |-> i, form |-> form, active |-> TRUE]
  <2>1. row \in WebhookRow /\ row.id = i
    BY IdsAreRowIds DEF WebhookRow
  <2> HIDE DEF row
  <2>2. Q!CreateFormWebhook(d, i, form)
          = [d EXCEPT !.webhooks = @ \cup {row}]
    BY DEF Q!CreateFormWebhook, row
  <2> QED
    BY <2>1, <2>2, Tabled
<1> QED
  BY <1>1, <1>2, <1>3

-----------------------------------------------------------------------------
(* Every method does what the contract allows, and keeps the database in   *)
(* its type.                                                               *)

\* A method that reads or rejects leaves the database alone.
LEMMA NothingWritten ==
  ASSUME db \in Database
  PROVE  /\ \A result : Read(result) => db' \in Database
         /\ \A violations : Reject(violations) => db' \in Database
BY DEF Read, Reject

\* CreateTenant, GetTenantByAPIKey.
LEMMA TenantsRefined ==
  ASSUME db \in Database, NEW key \in Keys
  PROVE  /\ CreateTenant(key) => Contract!CreateTenant(key) /\ db' \in Database
         /\ GetTenantByAPIKey(key)
              => Contract!GetTenantByAPIKey(key) /\ db' \in Database
<1>1. ASSUME CreateTenant(key)
      PROVE  Contract!CreateTenant(key) /\ db' \in Database
  <2>1. CASE Reject(Unless(~KeyTaken(db, key), "unique"))
    BY <2>1, CountReplies, SameConstraints, NothingWritten
    DEF Contract!CreateTenant
  <2>2. CASE /\ ~KeyTaken(db, key)
             /\ \E i \in RowIds :
                  /\ NewId(db.tenants, i)
                  /\ LET d == Q!CreateTenant(db, i, key)
                     IN  Write(d, Single({ToTenant(t) :
                                   t \in {u \in d.tenants : u.id = i}}))
    <3>1. PICK i \in RowIds :
            /\ NewId(db.tenants, i)
            /\ LET d == Q!CreateTenant(db, i, key)
               IN  Write(d, Single({ToTenant(t) :
                              t \in {u \in d.tenants : u.id = i}}))
      BY <2>2
    <3> DEFINE d == Q!CreateTenant(db, i, key)
               R == {u \in d.tenants : u.id = i}
    <3>2. d \in Database /\ R # {} /\ R \subseteq TenantRow
      BY TenantWrites, Tabled
    <3>3. i \in Contract!FreshIds(db.tenants)
      BY <3>1, NextIdIsFresh, Tabled DEF TenantRow
    <3>4. Contract!Write(d, Contract!Stored(d.tenants, i))
      BY <3>1, <3>2, FaithfulAccounts, Replies DEF Contract!Stored
    <3>5. db' = d
      BY <3>1 DEF Write
    <3>6. Contract!Q!CreateTenant(db, i, key) = d
      BY SameTenantQueries
    <3> HIDE DEF d
    <3> QED
      BY <2>2, <3>2, <3>3, <3>4, <3>5, <3>6, SameConstraints
      DEF Contract!CreateTenant
  <2> QED
    BY <1>1, <2>1, <2>2 DEF CreateTenant
<1>2. ASSUME GetTenantByAPIKey(key)
      PROVE  Contract!GetTenantByAPIKey(key) /\ db' \in Database
  <2>1. Q!GetTenantByAPIKey(db, key) \subseteq TenantRow
    BY Tabled DEF Q!GetTenantByAPIKey
  <2> QED
    BY <1>2, <2>1, FaithfulAccounts, Replies, SameTenantQueries,
       NothingWritten
    DEF GetTenantByAPIKey, Contract!GetTenantByAPIKey
<1> QED
  BY <1>1, <1>2

\* CreateUser, CreateUserIfNotExists.
LEMMA UserInserts ==
  ASSUME db \in Database, NEW arg \in UserArgs
  PROVE  /\ CreateUser(arg) => Contract!CreateUser(arg) /\ db' \in Database
         /\ CreateUserIfNotExists(arg)
              => Contract!CreateUserIfNotExists(arg) /\ db' \in Database
<1>1. ASSUME CreateUser(arg)
      PROVE  Contract!CreateUser(arg) /\ db' \in Database
  <2>1. CASE Reject(Unless(~NameTaken(db, arg.name), "unique"))
    BY <2>1, CountReplies, SameConstraints, NothingWritten
    DEF Contract!CreateUser
  <2>2. CASE /\ ~NameTaken(db, arg.name)
             /\ \E i \in RowIds :
                  /\ NewId(db.users, i)
                  /\ LET d == Q!CreateUser(db, i, arg)
                     IN  Write(d, Single({ToUser(u) :
                                   u \in {v \in d.users : v.id = i}}))
    <3>1. PICK i \in RowIds :
            /\ NewId(db.users, i)
            /\ LET d == Q!CreateUser(db, i, arg)
               IN  Write(d, Single({ToUser(u) :
                              u \in {v \in d.users : v.id = i}}))
      BY <2>2
    <3> DEFINE d == Q!CreateUser(db, i, arg)
               R == {v \in d.users : v.id = i}
    <3>2. d \in Database /\ R # {} /\ R \subseteq UserRow
      BY UserWrites, Tabled
    <3>3. i \in Contract!FreshIds(db.users)
      BY <3>1, NextIdIsFresh, Tabled DEF UserRow
    <3>4. Contract!Write(d, Contract!Stored(d.users, i))
      BY <3>1, <3>2, FaithfulAccounts, Replies DEF Contract!Stored
    <3>5. db' = d
      BY <3>1 DEF Write
    <3>6. Contract!Q!CreateUser(db, i, arg) = d
      BY SameUserWrites
    <3> HIDE DEF d
    <3> QED
      BY <2>2, <3>2, <3>3, <3>4, <3>5, <3>6, SameConstraints
      DEF Contract!CreateUser
  <2> QED
    BY <1>1, <2>1, <2>2 DEF CreateUser
<1>2. ASSUME CreateUserIfNotExists(arg)
      PROVE  Contract!CreateUserIfNotExists(arg) /\ db' \in Database
  <2>1. PICK i \in RowIds :
          /\ NewId(db.users, i)
          /\ LET d == Q!CreateUserIfNotExists(db, i, arg)
             IN  Write(d, Counted(IF d = db THEN 0 ELSE 1))
    BY <1>2 DEF CreateUserIfNotExists
  <2> DEFINE d == Q!CreateUserIfNotExists(db, i, arg)
  <2>2. i \in Contract!FreshIds(db.users)
    BY <2>1, NextIdIsFresh, Tabled DEF UserRow
  <2>3. d \in Database /\ Contract!Q!CreateUserIfNotExists(db, i, arg) = d
    BY UserWrites, SameUserWrites
  <2>4. /\ Contract!Write(d, Contract!Counted(IF d = db THEN 0 ELSE 1))
        /\ db' = d
    BY <2>1, CountReplies DEF Write
  <2> HIDE DEF d
  <2> QED
    BY <2>2, <2>3, <2>4 DEF Contract!CreateUserIfNotExists
<1> QED
  BY <1>1, <1>2

\* The two inserts of an account and its identity are one step of the
\* contract.
LEMMA LinkInsert ==
  ASSUME db \in Database, NEW arg \in LinkArgs, CreateUserWithIdentity(arg)
  PROVE  Contract!CreateUserWithIdentity(arg) /\ db' \in Database
<1>1. CASE Reject(Unless(/\ ~NameTaken(db, arg.name)
                         /\ ~IdentityTaken(db, arg.identity), "unique"))
  BY <1>1, CountReplies, SameConstraints, NothingWritten
  DEF Contract!CreateUserWithIdentity
<1>2. CASE ~Reject(Unless(/\ ~NameTaken(db, arg.name)
                          /\ ~IdentityTaken(db, arg.identity), "unique"))
  <2>1. /\ ~NameTaken(db, arg.name)
        /\ ~IdentityTaken(db, arg.identity)
        /\ \E i \in RowIds :
             /\ NewId(db.users, i)
             /\ LET d == Q!CreateUserIdentity(
                           Q!CreateUserWithoutPassword(db, i, arg), i, arg)
                IN  Write(d, Single({ToUser(u) :
                                       u \in {v \in d.users : v.id = i}}))
    BY <1>2 DEF CreateUserWithIdentity
  <2>2. PICK i \in RowIds :
          /\ NewId(db.users, i)
          /\ LET d == Q!CreateUserIdentity(
                        Q!CreateUserWithoutPassword(db, i, arg), i, arg)
             IN  Write(d, Single({ToUser(u) :
                                    u \in {v \in d.users : v.id = i}}))
    BY <2>1
  <2> DEFINE d == Q!CreateUserIdentity(
                    Q!CreateUserWithoutPassword(db, i, arg), i, arg)
             R == {v \in d.users : v.id = i}
  <2>3. d \in Database /\ R # {} /\ R \subseteq UserRow
    BY LinkWrites, Tabled
  <2>4. i \in Contract!FreshIds(db.users)
    BY <2>2, NextIdIsFresh, Tabled DEF UserRow
  <2>5. Contract!Write(d, Contract!Stored(d.users, i))
    BY <2>2, <2>3, FaithfulAccounts, Replies DEF Contract!Stored
  <2>6. db' = d
    BY <2>2 DEF Write
  <2>7. Contract!Q!CreateUserWithIdentity(db, i, arg) = d
    BY SameUserWithIdentity
  <2> HIDE DEF d
  <2> QED
    BY <2>1, <2>3, <2>4, <2>5, <2>6, <2>7, SameConstraints
    DEF Contract!CreateUserWithIdentity
<1> QED
  BY <1>1, <1>2

\* GetUserByID, GetUserByUsername, GetUserByIdentity, ListUsers,
\* CountUserIdentities.
LEMMA UserReads ==
  ASSUME db \in Database, NEW i, NEW name, NEW identity, NEW p
  PROVE  /\ GetUserByID(i) => Contract!GetUserByID(i) /\ db' \in Database
         /\ GetUserByUsername(name)
              => Contract!GetUserByUsername(name) /\ db' \in Database
         /\ GetUserByIdentity(identity)
              => Contract!GetUserByIdentity(identity) /\ db' \in Database
         /\ ListUsers(p) => Contract!ListUsers(p) /\ db' \in Database
         /\ CountUserIdentities(i)
              => Contract!CountUserIdentities(i) /\ db' \in Database
<1>1. ASSUME GetUserByID(i)
      PROVE  Contract!GetUserByID(i) /\ db' \in Database
  <2>1. Q!GetUserByID(db, i) \subseteq UserRow
    BY Tabled DEF Q!GetUserByID
  <2> QED
    BY <1>1, <2>1, FaithfulAccounts, Replies, SameUserReads, NothingWritten
    DEF GetUserByID, Contract!GetUserByID
<1>2. ASSUME GetUserByUsername(name)
      PROVE  Contract!GetUserByUsername(name) /\ db' \in Database
  <2>1. Q!GetUserByUsername(db, name) \subseteq UserRow
    BY Tabled DEF Q!GetUserByUsername
  <2> QED
    BY <1>2, <2>1, FaithfulAccounts, Replies, SameUserReads, NothingWritten
    DEF GetUserByUsername, Contract!GetUserByUsername
<1>3. ASSUME GetUserByIdentity(identity)
      PROVE  Contract!GetUserByIdentity(identity) /\ db' \in Database
  <2>1. Q!GetUserByIdentity(db, identity) \subseteq UserRow
    BY Tabled DEF Q!GetUserByIdentity
  <2> QED
    BY <1>3, <2>1, FaithfulAccounts, Replies, SameUserReads, NothingWritten
    DEF GetUserByIdentity, Contract!GetUserByIdentity
<1>4. ASSUME ListUsers(p)
      PROVE  Contract!ListUsers(p) /\ db' \in Database
  <2>1. Q!ListUsers(db, p) \subseteq UserRow
    BY Tabled DEF Q!ListUsers, Q!PageById
  <2> QED
    BY <1>4, <2>1, FaithfulAccounts, Replies, SameUserReads, NothingWritten
    DEF ListUsers, Contract!ListUsers
<1>5. ASSUME CountUserIdentities(i)
      PROVE  Contract!CountUserIdentities(i) /\ db' \in Database
  BY <1>5, CountReplies, SameUserReads, NothingWritten
  DEF CountUserIdentities, Contract!CountUserIdentities
<1> QED
  BY <1>1, <1>2, <1>3, <1>4, <1>5

\* UpdateUserRole, TouchUserIdentity.
LEMMA UserUpdates ==
  ASSUME db \in Database
  PROVE  /\ \A arg \in RoleArgs :
              UpdateUserRole(arg)
                => Contract!UpdateUserRole(arg) /\ db' \in Database
         /\ \A arg \in TouchArgs :
              TouchUserIdentity(arg)
                => Contract!TouchUserIdentity(arg) /\ db' \in Database
<1>1. ASSUME NEW arg \in RoleArgs, UpdateUserRole(arg)
      PROVE  Contract!UpdateUserRole(arg) /\ db' \in Database
  <2> DEFINE d == Q!UpdateUserRole(db, arg)
             R == {v \in d.users : v.id = arg.id}
  <2>1. d \in Database /\ R \subseteq UserRow
    BY RoleWrites, Tabled
  <2>2. Write(d, Single({ToUser(u) : u \in R}))
    BY <1>1 DEF UpdateUserRole
  <2>3. Contract!Write(d, Contract!One(R)) /\ db' = d
    BY <2>1, <2>2, FaithfulAccounts, Replies DEF Write
  <2>4. Contract!Q!UpdateUserRole(db, arg) = d
    BY SameUserWrites
  <2> HIDE DEF d
  <2> QED
    BY <2>1, <2>3, <2>4 DEF Contract!UpdateUserRole
<1>2. ASSUME NEW arg \in TouchArgs, TouchUserIdentity(arg)
      PROVE  Contract!TouchUserIdentity(arg) /\ db' \in Database
  BY <1>2, TouchWrites, CountReplies, SameUserWrites
  DEF TouchUserIdentity, Contract!TouchUserIdentity, Write
<1> QED
  BY <1>1, <1>2

\* CreateFile, DeleteFile, GetFileByID, ListAllFiles, CountAllFiles.
LEMMA FilesRefined ==
  ASSUME db \in Database
  PROVE  /\ \A arg \in FileArgs :
              CreateFile(arg) => Contract!CreateFile(arg) /\ db' \in Database
         /\ \A arg \in FileOf :
              DeleteFile(arg) => Contract!DeleteFile(arg) /\ db' \in Database
         /\ \A uuid :
              GetFileByID(uuid)
                => Contract!GetFileByID(uuid) /\ db' \in Database
         /\ \A p : ListAllFiles(p)
                    => Contract!ListAllFiles(p) /\ db' \in Database
         /\ CountAllFiles => Contract!CountAllFiles /\ db' \in Database
<1>1. ASSUME NEW arg \in FileArgs, CreateFile(arg)
      PROVE  Contract!CreateFile(arg) /\ db' \in Database
  <2>1. CASE Reject(FileViolations(db, arg))
    BY <2>1, CountReplies, SameViolations, NothingWritten
    DEF Contract!CreateFile
  <2>2. CASE ~Reject(FileViolations(db, arg))
    <3>1. PICK at \in Instants :
            LET d == Q!CreateFile(db, arg, at)
            IN  Write(d, Single({ToCreateFileRow(Q!FileMetadata(f)) :
                                   f \in Q!GetFileByID(d, arg.uuid)}))
      BY <1>1, <2>2 DEF CreateFile
    <3> DEFINE d == Q!CreateFile(db, arg, at)
               F == Q!GetFileByID(d, arg.uuid)
               R == {Q!FileMetadata(f) : f \in F}
    <3>2. d \in Database /\ F # {} /\ F \subseteq FileRow
      BY FileWrites, Tabled DEF Q!GetFileByID
    <3>3. R # {}
      BY <3>2
    <3>4. Contract!Write(d, Contract!Found(R))
      BY <3>1, <3>2, <3>3, FaithfulFiles, Replies
    <3>5. db' = d
      BY <3>1 DEF Write
    <3>6. /\ Contract!Q!CreateFile(db, arg, at) = d
          /\ {Contract!Q!FileMetadata(f) :
                f \in Contract!Q!GetFileByID(d, arg.uuid)} = R
      BY SameFileQueries
    <3>7. FileViolations(db, arg) = {}
      BY <1>1, <2>2 DEF CreateFile
    <3> HIDE DEF d, R
    <3> QED
      BY <3>2, <3>4, <3>5, <3>6, <3>7, SameViolations DEF Contract!CreateFile
  <2> QED
    BY <2>1, <2>2
<1>2. ASSUME NEW arg \in FileOf, DeleteFile(arg)
      PROVE  Contract!DeleteFile(arg) /\ db' \in Database
  BY <1>2, FileWrites, CountReplies, SameFileQueries, SameCardinality
  DEF DeleteFile, Contract!DeleteFile, Write
<1>3. ASSUME NEW uuid, GetFileByID(uuid)
      PROVE  Contract!GetFileByID(uuid) /\ db' \in Database
  <2>1. Q!GetFileByID(db, uuid) \subseteq FileRow
    BY Tabled DEF Q!GetFileByID
  <2> QED
    BY <1>3, <2>1, FaithfulFiles, Replies, SameFileQueries, NothingWritten
    DEF GetFileByID, Contract!GetFileByID
<1>4. ASSUME NEW p, ListAllFiles(p)
      PROVE  Contract!ListAllFiles(p) /\ db' \in Database
  <2> DEFINE F == Q!NewestFilesPage(
                    {f \in db.files : Q!HasId(db.tenants, f.tenant)}, p)
  <2>1. F \subseteq FileRow
    BY Tabled DEF Q!NewestFilesPage
  <2>2. Q!ListAllFiles(db, p) = {Q!FileMetadata(f) : f \in F}
    BY DEF Q!ListAllFiles
  <2> HIDE DEF F
  <2> QED
    BY <1>4, <2>1, <2>2, FaithfulFiles, Replies, SameFileQueries,
       NothingWritten
    DEF ListAllFiles, Contract!ListAllFiles
<1>5. ASSUME CountAllFiles
      PROVE  Contract!CountAllFiles /\ db' \in Database
  BY <1>5, CountReplies, SameFileQueries, NothingWritten
  DEF CountAllFiles, Contract!CountAllFiles
<1> QED
  BY <1>1, <1>2, <1>3, <1>4, <1>5

\* CreateForm, UpdateForm, DeleteForm.
LEMMA FormChanges ==
  ASSUME db \in Database
  PROVE  /\ \A arg \in NewForms :
              CreateForm(arg) => Contract!CreateForm(arg) /\ db' \in Database
         /\ \A arg \in FormEdits :
              UpdateForm(arg) => Contract!UpdateForm(arg) /\ db' \in Database
         /\ \A arg \in FormOf :
              DeleteForm(arg) => Contract!DeleteForm(arg) /\ db' \in Database
<1>1. ASSUME NEW arg \in NewForms, CreateForm(arg)
      PROVE  Contract!CreateForm(arg) /\ db' \in Database
  <2>1. CASE Reject(FormViolations(db, 0, arg))
    BY <2>1, CountReplies, SameViolations, SameConstraints, NothingWritten
    DEF Contract!CreateForm
  <2>2. CASE ~Reject(FormViolations(db, 0, arg))
    <3>1. PICK i \in RowIds, at \in Instants :
            /\ NewId(db.forms, i)
            /\ LET d == Q!CreateForm(db, i, arg, at)
               IN  Write(d, Single({ToForm(r) :
                                      r \in {x \in d.forms : x.id = i}}))
      BY <1>1, <2>2 DEF CreateForm
    <3> DEFINE d == Q!CreateForm(db, i, arg, at)
               R == {x \in d.forms : x.id = i}
    <3>2. d \in Database /\ R # {} /\ R \subseteq FormRow
      BY FormWrites, Tabled
    <3>3. i \in Contract!FreshIds(db.forms)
      BY <3>1, NextIdIsFresh, Tabled DEF FormRow
    <3>4. Contract!Write(d, Contract!Stored(d.forms, i))
      BY <3>1, <3>2, FaithfulForms, Replies DEF Contract!Stored
    <3>5. db' = d
      BY <3>1 DEF Write
    <3>6. Contract!Q!CreateForm(db, i, arg, at) = d
      BY SameFormWrites
    <3>7. FormViolations(db, 0, arg) = {}
      BY <1>1, <2>2 DEF CreateForm
    <3> HIDE DEF d
    <3> QED
      BY <3>2, <3>3, <3>4, <3>5, <3>6, <3>7, SameViolations, SameConstraints
      DEF Contract!CreateForm
  <2> QED
    BY <2>1, <2>2
<1>2. ASSUME NEW arg \in FormEdits, UpdateForm(arg)
      PROVE  Contract!UpdateForm(arg) /\ db' \in Database
  <2>1. CASE Q!UpdatableForm(db, arg) = {}
    BY <1>2, <2>1, CountReplies, SameFormWrites, SameResults, NothingWritten
    DEF UpdateForm, Contract!UpdateForm
  <2>2. CASE /\ Q!UpdatableForm(db, arg) # {}
             /\ Reject(FormViolations(db, arg.id, arg))
    BY <2>2, CountReplies, SameFormWrites, SameViolations, NothingWritten
    DEF Contract!UpdateForm
  <2>3. CASE /\ Q!UpdatableForm(db, arg) # {}
             /\ ~Reject(FormViolations(db, arg.id, arg))
    <3> DEFINE d == Q!UpdateForm(db, arg)
               R == {g \in d.forms : g.id = arg.id}
    <3>1. /\ FormViolations(db, arg.id, arg) = {}
          /\ Write(d, Single({ToForm(f) : f \in R}))
      BY <1>2, <2>3 DEF UpdateForm
    <3>2. d \in Database /\ R # {} /\ R \subseteq FormRow
      BY <2>3, FormEditWrites, Tabled
    <3>3. Contract!Write(d, Contract!Stored(d.forms, arg.id)) /\ db' = d
      BY <3>1, <3>2, FaithfulForms, Replies DEF Contract!Stored, Write
    <3>4. Contract!Q!UpdateForm(db, arg) = d
      BY SameFormWrites
    <3> HIDE DEF d
    <3> QED
      BY <2>3, <3>1, <3>2, <3>3, <3>4, SameFormWrites, SameViolations
      DEF Contract!UpdateForm
  <2> QED
    BY <2>1, <2>2, <2>3
<1>3. ASSUME NEW arg \in FormOf, DeleteForm(arg)
      PROVE  Contract!DeleteForm(arg) /\ db' \in Database
  <2>1. Q!DeleteForm(db, arg) \in Database
    BY FormWrites
  <2>2. /\ Contract!Q!OwnForm(db, arg) = Q!OwnForm(db, arg)
        /\ Contract!Q!DeleteForm(db, arg) = Q!DeleteForm(db, arg)
        /\ Contract!Referenced(db, arg.id) = Referenced(db, arg.id)
    BY SameFormWrites, SameConstraints
  <2>3. CASE Q!OwnForm(db, arg) # {} /\ Referenced(db, arg.id)
    BY <1>3, <2>2, <2>3, CountReplies, NothingWritten
    DEF DeleteForm, Contract!DeleteForm
  <2>4. CASE ~(Q!OwnForm(db, arg) # {} /\ Referenced(db, arg.id))
    BY <1>3, <2>1, <2>2, <2>4, CountReplies, SameCardinality
    DEF DeleteForm, Contract!DeleteForm, Write
  <2> QED
    BY <2>3, <2>4
<1> QED
  BY <1>1, <1>2, <1>3

\* GetFormByID, GetAnyFormByID, GetPublicFormBySlug, ListFormsByTenant,
\* CountFormsByTenant, ListAllForms, CountAllForms.
LEMMA FormReads ==
  ASSUME db \in Database, NEW arg, NEW i, NEW slug, NEW filter, NEW p
  PROVE  /\ GetFormByID(arg) => Contract!GetFormByID(arg) /\ db' \in Database
         /\ GetAnyFormByID(i)
              => Contract!GetAnyFormByID(i) /\ db' \in Database
         /\ GetPublicFormBySlug(slug)
              => Contract!GetPublicFormBySlug(slug) /\ db' \in Database
         /\ ListFormsByTenant(filter, p)
              => Contract!ListFormsByTenant(filter, p) /\ db' \in Database
         /\ CountFormsByTenant(filter)
              => Contract!CountFormsByTenant(filter) /\ db' \in Database
         /\ ListAllForms(p) => Contract!ListAllForms(p) /\ db' \in Database
         /\ CountAllForms => Contract!CountAllForms /\ db' \in Database
<1>1. ASSUME GetFormByID(arg)
      PROVE  Contract!GetFormByID(arg) /\ db' \in Database
  <2>1. Q!GetFormByID(db, arg) \subseteq FormRow
    BY Tabled DEF Q!GetFormByID
  <2> QED
    BY <1>1, <2>1, FaithfulForms, Replies, SameFormReads, NothingWritten
    DEF GetFormByID, Contract!GetFormByID
<1>2. ASSUME GetAnyFormByID(i)
      PROVE  Contract!GetAnyFormByID(i) /\ db' \in Database
  <2> DEFINE F == {f \in db.forms : f.id = i /\ Q!HasId(db.tenants, f.tenant)}
  <2>1. F \subseteq FormRow
    BY Tabled
  <2>2. Q!GetAnyFormByID(db, i) = {Q!Overview(db, f) : f \in F}
    BY DEF Q!GetAnyFormByID
  <2> HIDE DEF F
  <2> QED
    BY <1>2, <2>1, <2>2, FaithfulOverviews, Replies, SameFormReads,
       NothingWritten
    DEF GetAnyFormByID, Contract!GetAnyFormByID
<1>3. ASSUME GetPublicFormBySlug(slug)
      PROVE  Contract!GetPublicFormBySlug(slug) /\ db' \in Database
  <2>1. Q!GetPublicFormBySlug(db, slug) \subseteq FormRow
    BY Tabled DEF Q!GetPublicFormBySlug
  <2> QED
    BY <1>3, <2>1, FaithfulForms, Replies, SameFormReads, NothingWritten
    DEF GetPublicFormBySlug, Contract!GetPublicFormBySlug
<1>4. ASSUME ListFormsByTenant(filter, p)
      PROVE  Contract!ListFormsByTenant(filter, p) /\ db' \in Database
  <2> DEFINE F == Q!NewestPage(Q!Matching(db, filter), p)
  <2>1. F \subseteq FormRow
    BY Tabled DEF Q!NewestPage, Q!Matching
  <2>2. Q!ListFormsByTenant(db, filter, p) = {Q!Overview(db, f) : f \in F}
    BY DEF Q!ListFormsByTenant
  <2> HIDE DEF F
  <2> QED
    BY <1>4, <2>1, <2>2, FaithfulOverviews, Replies, SameFormReads,
       NothingWritten
    DEF ListFormsByTenant, Contract!ListFormsByTenant
<1>5. ASSUME CountFormsByTenant(filter)
      PROVE  Contract!CountFormsByTenant(filter) /\ db' \in Database
  BY <1>5, CountReplies, SameFormReads, NothingWritten
  DEF CountFormsByTenant, Contract!CountFormsByTenant
<1>6. ASSUME ListAllForms(p)
      PROVE  Contract!ListAllForms(p) /\ db' \in Database
  <2> DEFINE F == Q!NewestPage(
                    {f \in db.forms : Q!HasId(db.tenants, f.tenant)}, p)
  <2>1. F \subseteq FormRow
    BY Tabled DEF Q!NewestPage
  <2>2. Q!ListAllForms(db, p) = {Q!Overview(db, f) : f \in F}
    BY DEF Q!ListAllForms
  <2> HIDE DEF F
  <2> QED
    BY <1>6, <2>1, <2>2, FaithfulOverviews, Replies, SameFormReads,
       NothingWritten
    DEF ListAllForms, Contract!ListAllForms
<1>7. ASSUME CountAllForms
      PROVE  Contract!CountAllForms /\ db' \in Database
  BY <1>7, CountReplies, SameFormReads, NothingWritten
  DEF CountAllForms, Contract!CountAllForms
<1> QED
  BY <1>1, <1>2, <1>3, <1>4, <1>5, <1>6, <1>7

\* CreateFormSubmission, CreateSubmissionMetadata, CreateFormWebhook.
LEMMA SubmissionInserts ==
  ASSUME db \in Database
  PROVE  /\ \A arg \in SubmissionArgs :
              CreateFormSubmission(arg)
                => Contract!CreateFormSubmission(arg) /\ db' \in Database
         /\ \A arg \in MetadataArgs :
              CreateSubmissionMetadata(arg)
                => Contract!CreateSubmissionMetadata(arg) /\ db' \in Database
         /\ \A form \in Ids :
              CreateFormWebhook(form)
                => Contract!CreateFormWebhook(form) /\ db' \in Database
<1>1. ASSUME NEW arg \in SubmissionArgs, CreateFormSubmission(arg)
      PROVE  Contract!CreateFormSubmission(arg) /\ db' \in Database
  <2> DEFINE row == [form |-> arg.form, user |-> FromInt32Ptr(arg.user)]
  <2>0. row = arg
    BY DEF SubmissionArgs, FromInt32Ptr
  <2>1. CASE Reject(SubmissionViolations(db, arg))
    BY <2>1, CountReplies, SameViolations, SameConstraints, NothingWritten
    DEF Contract!CreateFormSubmission
  <2>2. CASE ~Reject(SubmissionViolations(db, arg))
    <3>1. PICK i \in RowIds, at \in Instants :
            /\ NewId(db.submissions, i)
            /\ LET d == Q!CreateFormSubmission(db, i, arg, at)
               IN  Write(d, Single({ToFormSubmission(r) :
                                      r \in {x \in d.submissions : x.id = i}}))
      BY <1>1, <2>0, <2>2 DEF CreateFormSubmission
    <3> DEFINE d == Q!CreateFormSubmission(db, i, arg, at)
               R == {x \in d.submissions : x.id = i}
    <3>2. d \in Database /\ R # {} /\ R \subseteq SubmissionRow
      BY SubmissionWrites, Tabled
    <3>3. i \in Contract!FreshIds(db.submissions)
      BY <3>1, NextIdIsFresh, Tabled DEF SubmissionRow
    <3>4. Contract!Write(d, Contract!Stored(d.submissions, i))
      BY <3>1, <3>2, FaithfulSubmissions, Replies DEF Contract!Stored
    <3>5. db' = d
      BY <3>1 DEF Write
    <3>6. Contract!Q!CreateFormSubmission(db, i, arg, at) = d
      BY SameSubmissionQueries
    <3>7. SubmissionViolations(db, arg) = {}
      BY <1>1, <2>0, <2>2 DEF CreateFormSubmission
    <3> HIDE DEF d
    <3> QED
      BY <3>2, <3>3, <3>4, <3>5, <3>6, <3>7, SameViolations, SameConstraints
      DEF Contract!CreateFormSubmission
  <2> QED
    BY <2>1, <2>2
<1>2. ASSUME NEW arg \in MetadataArgs, CreateSubmissionMetadata(arg)
      PROVE  Contract!CreateSubmissionMetadata(arg) /\ db' \in Database
  <2>1. CASE Reject(MetadataViolations(db, arg))
    BY <2>1, CountReplies, SameViolations, SameConstraints, NothingWritten
    DEF Contract!CreateSubmissionMetadata
  <2>2. CASE ~Reject(MetadataViolations(db, arg))
    <3>1. PICK i \in RowIds :
            /\ NewId(db.metadata, i)
            /\ LET d == Q!CreateSubmissionMetadata(db, i, arg)
               IN  Write(d, Single({ToSubmissionMetadatum(r) :
                                      r \in {x \in d.metadata : x.id = i}}))
      BY <1>2, <2>2 DEF CreateSubmissionMetadata
    <3> DEFINE d == Q!CreateSubmissionMetadata(db, i, arg)
               R == {x \in d.metadata : x.id = i}
    <3>2. d \in Database /\ R # {} /\ R \subseteq MetadataRow
      BY SubmissionWrites, Tabled
    <3>3. i \in Contract!FreshIds(db.metadata)
      BY <3>1, NextIdIsFresh, Tabled DEF MetadataRow
    <3>4. Contract!Write(d, Contract!Stored(d.metadata, i))
      BY <3>1, <3>2, FaithfulDeliveries, Replies DEF Contract!Stored
    <3>5. db' = d
      BY <3>1 DEF Write
    <3>6. Contract!Q!CreateSubmissionMetadata(db, i, arg) = d
      BY SameSubmissionQueries
    <3>7. MetadataViolations(db, arg) = {}
      BY <1>2, <2>2 DEF CreateSubmissionMetadata
    <3> HIDE DEF d
    <3> QED
      BY <3>2, <3>3, <3>4, <3>5, <3>6, <3>7, SameViolations, SameConstraints
      DEF Contract!CreateSubmissionMetadata
  <2> QED
    BY <2>1, <2>2
<1>3. ASSUME NEW form \in Ids, CreateFormWebhook(form)
      PROVE  Contract!CreateFormWebhook(form) /\ db' \in Database
  <2>1. CASE Reject(Unless(HasId(db.forms, form), "foreign_key"))
    BY <2>1, CountReplies, SameViolations, SameConstraints, NothingWritten
    DEF Contract!CreateFormWebhook
  <2>2. CASE ~Reject(Unless(HasId(db.forms, form), "foreign_key"))
    <3>1. PICK i \in RowIds :
            /\ NewId(db.webhooks, i)
            /\ LET d == Q!CreateFormWebhook(db, i, form)
               IN  Write(d, Single({ToFormWebhook(r) :
                                      r \in {x \in d.webhooks : x.id = i}}))
      BY <1>3, <2>2 DEF CreateFormWebhook
    <3> DEFINE d == Q!CreateFormWebhook(db, i, form)
               R == {x \in d.webhooks : x.id = i}
    <3>2. d \in Database /\ R # {} /\ R \subseteq WebhookRow
      BY SubmissionWrites, Tabled
    <3>3. i \in Contract!FreshIds(db.webhooks)
      BY <3>1, NextIdIsFresh, Tabled DEF WebhookRow
    <3>4. Contract!Write(d, Contract!Stored(d.webhooks, i))
      BY <3>1, <3>2, FaithfulDeliveries, Replies DEF Contract!Stored
    <3>5. db' = d
      BY <3>1 DEF Write
    <3>6. Contract!Q!CreateFormWebhook(db, i, form) = d
      BY SameSubmissionQueries
    <3>7. HasId(db.forms, form)
      BY <1>3, <2>2 DEF CreateFormWebhook
    <3> HIDE DEF d
    <3> QED
      BY <3>2, <3>3, <3>4, <3>5, <3>6, <3>7, SameViolations, SameConstraints
      DEF Contract!CreateFormWebhook
  <2> QED
    BY <2>1, <2>2
<1> QED
  BY <1>1, <1>2, <1>3

\* ListAllSubmissionsByForm, ListSubmissionsByForm,
\* ListActiveWebhooksByForm.
LEMMA SubmissionReads ==
  ASSUME db \in Database, NEW arg, NEW p, NEW form
  PROVE  /\ ListAllSubmissionsByForm(arg)
              => Contract!ListAllSubmissionsByForm(arg) /\ db' \in Database
         /\ ListSubmissionsByForm(arg, p)
              => Contract!ListSubmissionsByForm(arg, p) /\ db' \in Database
         /\ ListActiveWebhooksByForm(form)
              => Contract!ListActiveWebhooksByForm(form) /\ db' \in Database
<1>1. ASSUME ListAllSubmissionsByForm(arg)
      PROVE  Contract!ListAllSubmissionsByForm(arg) /\ db' \in Database
  <2> DEFINE F == Q!SubmissionsOfTenant(db, arg)
  <2>1. F \subseteq SubmissionRow
    BY Tabled DEF Q!SubmissionsOfTenant
  <2>2. Q!ListAllSubmissionsByForm(db, arg) = {Q!WithMetadata(db, f) : f \in F}
    BY DEF Q!ListAllSubmissionsByForm
  <2> HIDE DEF F
  <2> QED
    BY <1>1, <2>1, <2>2, FaithfulSubmissions, Replies, SameSubmissionQueries,
       NothingWritten
    DEF ListAllSubmissionsByForm, Contract!ListAllSubmissionsByForm
<1>2. ASSUME ListSubmissionsByForm(arg, p)
      PROVE  Contract!ListSubmissionsByForm(arg, p) /\ db' \in Database
  <2> DEFINE F == Q!NewestPage(Q!SubmissionsOfTenant(db, arg), p)
  <2>1. F \subseteq SubmissionRow
    BY Tabled DEF Q!NewestPage, Q!SubmissionsOfTenant
  <2>2. Q!ListSubmissionsByForm(db, arg, p) = {Q!WithMetadata(db, f) : f \in F}
    BY DEF Q!ListSubmissionsByForm
  <2> HIDE DEF F
  <2> QED
    BY <1>2, <2>1, <2>2, FaithfulSubmissions, Replies, SameSubmissionQueries,
       NothingWritten
    DEF ListSubmissionsByForm, Contract!ListSubmissionsByForm
<1>3. ASSUME ListActiveWebhooksByForm(form)
      PROVE  Contract!ListActiveWebhooksByForm(form) /\ db' \in Database
  <2>1. Q!ListActiveWebhooksByForm(db, form) \subseteq WebhookRow
    BY Tabled DEF Q!ListActiveWebhooksByForm
  <2> QED
    BY <1>3, <2>1, FaithfulDeliveries, Replies,
       SameSubmissionQueries, NothingWritten
    DEF ListActiveWebhooksByForm, Contract!ListActiveWebhooksByForm
<1> QED
  BY <1>1, <1>2, <1>3

-----------------------------------------------------------------------------
(* The refinement.                                                         *)

DatabaseTyped == db \in Database

\* A step of the adapter is a step of the contract.
LEMMA NextRefines ==
  ASSUME DatabaseTyped, Next
  PROVE  Contract!Next /\ DatabaseTyped'
<1> USE DEF DatabaseTyped
<1>1. CASE AnyTenants
  BY <1>1, TenantsRefined
  DEF AnyTenants, Contract!AnyTenants, Contract!Next
<1>2. CASE AnyUsers
  <2>1. Contract!AnyUsers /\ db' \in Database
    BY <1>2, UserInserts, LinkInsert, UserReads, UserUpdates, SameSets
    DEF AnyUsers, Contract!AnyUsers
  <2> QED
    BY <2>1 DEF Contract!Next
<1>3. CASE AnyFiles
  <2>1. Contract!AnyFiles /\ db' \in Database
    BY <1>3, FilesRefined, SameSets DEF AnyFiles, Contract!AnyFiles
  <2> QED
    BY <2>1 DEF Contract!Next
<1>4. CASE AnyForms
  <2>1. Contract!AnyForms /\ db' \in Database
    BY <1>4, FormChanges, FormReads, SameSets DEF AnyForms, Contract!AnyForms
  <2> QED
    BY <2>1 DEF Contract!Next
<1>5. CASE AnySubmissions
  <2>1. Contract!AnySubmissions /\ db' \in Database
    BY <1>5, SubmissionInserts, SubmissionReads, SameSets
    DEF AnySubmissions, Contract!AnySubmissions
  <2> QED
    BY <2>1 DEF Contract!Next
<1> QED
  BY <1>1, <1>2, <1>3, <1>4, <1>5 DEF Next

\* The database keeps its type: every row a statement writes is of its
\* table's type, whatever the database opened holds.
THEOREM DatabaseStaysTyped == Spec => []DatabaseTyped
<1>1. Init => DatabaseTyped
  BY DatabasesAssumption DEF Init, DatabaseTyped, Empty, Database
<1>2. DatabaseTyped /\ [Next]_vars => DatabaseTyped'
  <2> SUFFICES ASSUME DatabaseTyped, [Next]_vars
               PROVE  DatabaseTyped'
    OBVIOUS
  <2>1. CASE Next
    BY <2>1, NextRefines
  <2>2. CASE UNCHANGED vars
    BY <2>2 DEF vars, DatabaseTyped
  <2> QED
    BY <2>1, <2>2
<1> QED
  BY <1>1, <1>2, PTL DEF Spec

\* SQLite behind db.Querier behaves as the interface promises: no row is
\* returned that is not there, no id but the row's own, no statement half
\* done.
THEOREM AdapterImplementsQuerier == Spec => ImplementsQuerier
<1>1. Init => Contract!Init
  BY SameSets, SameResults DEF Init, Contract!Init
<1>2. ASSUME DatabaseTyped, [Next]_vars
      PROVE  [Contract!Next]_(Contract!vars)
  <2>1. CASE Next
    BY <1>2, <2>1, NextRefines
  <2>2. CASE UNCHANGED vars
    BY <2>2 DEF vars, Contract!vars
  <2> QED
    BY <1>2, <2>1, <2>2
<1> QED
  BY <1>1, <1>2, DatabaseStaysTyped, PTL
  DEF Spec, ImplementsQuerier, Contract!Spec
=============================================================================
