--------------------------- MODULE SqliteQuerier ----------------------------
(***************************************************************************)
(* The adapter that lets the program use SQLite as a db.Querier: every     *)
(* method runs a statement of SqliteQueries, turns SQLite's no-rows error  *)
(* into ErrNoRows and narrows 64-bit ids to 32 bits, with an error when    *)
(* one does not fit.                                                       *)
(***************************************************************************)
EXTENDS Tables

VARIABLES
  db,      \* the database file
  answer   \* what the last method returned

Q == INSTANCE SqliteQueries

vars == <<db, answer>>

Init == db \in {Empty} \cup Databases /\ answer = Found({})

-----------------------------------------------------------------------------
(* Conversions.                                                            *)

\* What an id that does not fit becomes: the conversion reports an error.
Overflow == -1

\* Fault: the upper bits are dropped.
TruncatedToInt32(i) == IF i <= IdMax THEN i ELSE i - IdMax

\* Fault: the largest id is refused.
StrictToInt32(i) == IF i < IdMax THEN i ELSE Overflow

\* Fault: the id is not looked at.
UncheckedToInt32(i) == i

ToInt32(i) == IF i <= IdMax THEN i ELSE Overflow

ToInt32Ptr(p) == IF p = Null THEN Null ELSE ToInt32(p)
FromInt32Ptr(p) == IF p = Null THEN Null ELSE p

ToTenant(t) == [t EXCEPT !.id = ToInt32(@)]
ToUser(u) == [u EXCEPT !.id = ToInt32(@)]
ToFile(f) == [f EXCEPT !.tenant = ToInt32(@)]
ToCreateFileRow(f) == [f EXCEPT !.tenant = ToInt32(@)]
ToListAllFilesRow(f) == [f EXCEPT !.tenant = ToInt32(@)]
ToForm(f) == [f EXCEPT !.id = ToInt32(@), !.tenant = ToInt32(@)]
ToGetAnyFormByIDRow(f) == [f EXCEPT !.id = ToInt32(@), !.tenant = ToInt32(@)]
ToGetFormByIDRow(f) == [f EXCEPT !.id = ToInt32(@), !.tenant = ToInt32(@)]
ToListAllFormsRow(f) == [f EXCEPT !.id = ToInt32(@), !.tenant = ToInt32(@)]
ToListFormsByTenantRow(f) ==
  [f EXCEPT !.id = ToInt32(@), !.tenant = ToInt32(@)]
ToFormSubmission(s) ==
  [s EXCEPT !.id = ToInt32(@), !.form = ToInt32(@), !.user = ToInt32Ptr(@)]
ToFormWebhook(w) == [w EXCEPT !.id = ToInt32(@), !.form = ToInt32(@)]
ToSubmissionMetadatum(m) ==
  [m EXCEPT !.id = ToInt32(@), !.submission = ToInt32(@),
            !.seconds = ToInt32Ptr(@)]
ToListAllSubmissionsByFormRow(s) ==
  [s EXCEPT !.id = ToInt32(@), !.form = ToInt32(@), !.user = ToInt32Ptr(@),
            !.seconds = ToInt32Ptr(@)]
ToListSubmissionsByFormRow(s) ==
  [s EXCEPT !.id = ToInt32(@), !.form = ToInt32(@), !.user = ToInt32Ptr(@),
            !.seconds = ToInt32Ptr(@)]

\* A method returns the first conversion error it meets and no rows then.
Converted(rows) ==
  IF \E r \in rows, c \in IdColumns : c \in DOMAIN r /\ r[c] = Overflow
    THEN Failed("internal")
    ELSE Found(rows)

\* A :one method; mapSQLiteErr turns sql.ErrNoRows into ErrNoRows.
Single(rows) == IF rows = {} THEN Failed("no_rows") ELSE Converted(rows)

Read(result) == answer' = result /\ UNCHANGED db
Reject(violations) ==
  /\ \E v \in violations : answer' = Failed(v)
  /\ UNCHANGED db
Write(d, result) == db' = d /\ answer' = result

\* The id of the row an INSERT adds, while there is one.
NewId(rows, i) == Q!IsNextRowId(rows, i)

-----------------------------------------------------------------------------
(* Tenants and users.                                                      *)

CreateTenant(key) ==
  \/ Reject(Unless(~KeyTaken(db, key), "unique"))
  \/ /\ ~KeyTaken(db, key)
     /\ \E i \in RowIds :
          /\ NewId(db.tenants, i)
          /\ LET d == Q!CreateTenant(db, i, key)
             IN  Write(d, Single({ToTenant(t) :
                                    t \in {u \in d.tenants : u.id = i}}))

GetTenantByAPIKey(key) ==
  Read(Single({ToTenant(t) : t \in Q!GetTenantByAPIKey(db, key)}))

CreateUser(arg) ==
  \/ Reject(Unless(~NameTaken(db, arg.name), "unique"))
  \/ /\ ~NameTaken(db, arg.name)
     /\ \E i \in RowIds :
          /\ NewId(db.users, i)
          /\ LET d == Q!CreateUser(db, i, arg)
             IN  Write(d, Single({ToUser(u) :
                                    u \in {v \in d.users : v.id = i}}))

CreateUserIfNotExists(arg) ==
  \E i \in RowIds :
    /\ NewId(db.users, i)
    /\ LET d == Q!CreateUserIfNotExists(db, i, arg)
       IN  Write(d, Counted(IF d = db THEN 0 ELSE 1))

GetUserByID(i) == Read(Single({ToUser(u) : u \in Q!GetUserByID(db, i)}))
GetUserByUsername(name) ==
  Read(Single({ToUser(u) : u \in Q!GetUserByUsername(db, name)}))
ListUsers(p) == Read(Converted({ToUser(u) : u \in Q!ListUsers(db, p)}))

UpdateUserRole(arg) ==
  LET d == Q!UpdateUserRole(db, arg)
  IN  Write(d, Single({ToUser(u) : u \in {v \in d.users : v.id = arg.id}}))

GetUserByIdentity(identity) ==
  Read(Single({ToUser(u) : u \in Q!GetUserByIdentity(db, identity)}))

TouchUserIdentity(arg) == Write(Q!TouchUserIdentity(db, arg), Found({}))

\* Fault: the account stays when its identity is taken.
CreateUserThenIdentity(arg) ==
  \E i \in RowIds :
    /\ NewId(db.users, i)
    /\ ~NameTaken(db, arg.name)
    /\ LET first == Q!CreateUserWithoutPassword(db, i, arg)
       IN  IF IdentityTaken(db, arg.identity)
             THEN Write(first, Failed("unique"))
             ELSE Write(Q!CreateUserIdentity(first, i, arg),
                        Single({ToUser(u) :
                                  u \in {v \in first.users : v.id = i}}))

\* Both inserts in one transaction: the rollback undoes the first when the
\* second fails.
CreateUserWithIdentity(arg) ==
  \/ Reject(Unless(/\ ~NameTaken(db, arg.name)
                   /\ ~IdentityTaken(db, arg.identity), "unique"))
  \/ /\ ~NameTaken(db, arg.name)
     /\ ~IdentityTaken(db, arg.identity)
     /\ \E i \in RowIds :
          /\ NewId(db.users, i)
          /\ LET first == Q!CreateUserWithoutPassword(db, i, arg)
                 d == Q!CreateUserIdentity(first, i, arg)
             IN  Write(d, Single({ToUser(u) :
                                    u \in {v \in d.users : v.id = i}}))

CountUserIdentities(i) == Read(Counted(Q!CountUserIdentities(db, i)))

-----------------------------------------------------------------------------
(* Files.                                                                  *)

CountAllFiles == Read(Counted(Q!CountAllFiles(db)))

CreateFile(arg) ==
  \/ Reject(FileViolations(db, arg))
  \/ /\ FileViolations(db, arg) = {}
     /\ \E at \in Instants :
          LET d == Q!CreateFile(db, arg, at)
          IN  Write(d, Single({ToCreateFileRow(Q!FileMetadata(f)) :
                                 f \in Q!GetFileByID(d, arg.uuid)}))

DeleteFile(arg) ==
  Write(Q!DeleteFile(db, arg), Counted(Cardinality(Q!OwnFile(db, arg))))

GetFileByID(uuid) == Read(Single({ToFile(f) : f \in Q!GetFileByID(db, uuid)}))

ListAllFiles(p) ==
  Read(Converted({ToListAllFilesRow(f) : f \in Q!ListAllFiles(db, p)}))

-----------------------------------------------------------------------------
(* Forms.                                                                  *)

CountAllForms == Read(Counted(Q!CountAllForms(db)))
CountFormsByTenant(filter) == Read(Counted(Q!CountFormsByTenant(db, filter)))

CreateForm(arg) ==
  \/ Reject(FormViolations(db, 0, arg))
  \/ /\ FormViolations(db, 0, arg) = {}
     /\ \E i \in RowIds, at \in Instants :
          /\ NewId(db.forms, i)
          /\ LET d == Q!CreateForm(db, i, arg, at)
             IN  Write(d, Single({ToForm(f) :
                                    f \in {g \in d.forms : g.id = i}}))

DeleteForm(arg) ==
  IF Q!OwnForm(db, arg) # {} /\ Referenced(db, arg.id)
    THEN Reject({"foreign_key"})
    ELSE Write(Q!DeleteForm(db, arg), Counted(Cardinality(Q!OwnForm(db, arg))))

GetAnyFormByID(i) ==
  Read(Single({ToGetAnyFormByIDRow(f) : f \in Q!GetAnyFormByID(db, i)}))
GetFormByID(arg) ==
  Read(Single({ToGetFormByIDRow(f) : f \in Q!GetFormByID(db, arg)}))
GetPublicFormBySlug(slug) ==
  Read(Single({ToForm(f) : f \in Q!GetPublicFormBySlug(db, slug)}))
ListAllForms(p) ==
  Read(Converted({ToListAllFormsRow(f) : f \in Q!ListAllForms(db, p)}))
ListFormsByTenant(filter, p) ==
  Read(Converted({ToListFormsByTenantRow(f) :
                    f \in Q!ListFormsByTenant(db, filter, p)}))

UpdateForm(arg) ==
  IF Q!UpdatableForm(db, arg) = {}
    THEN Read(Failed("no_rows"))
    ELSE \/ Reject(FormViolations(db, arg.id, arg))
         \/ /\ FormViolations(db, arg.id, arg) = {}
            /\ LET d == Q!UpdateForm(db, arg)
               IN  Write(d, Single({ToForm(f) :
                                      f \in {g \in d.forms : g.id = arg.id}}))

-----------------------------------------------------------------------------
(* Submissions and webhooks.                                               *)

CreateFormSubmission(arg) ==
  LET row == [form |-> arg.form, user |-> FromInt32Ptr(arg.user)] IN
  \/ Reject(SubmissionViolations(db, row))
  \/ /\ SubmissionViolations(db, row) = {}
     /\ \E i \in RowIds, at \in Instants :
          /\ NewId(db.submissions, i)
          /\ LET d == Q!CreateFormSubmission(db, i, row, at)
             IN  Write(d, Single({ToFormSubmission(s) :
                                    s \in {r \in d.submissions : r.id = i}}))

CreateSubmissionMetadata(arg) ==
  \/ Reject(MetadataViolations(db, arg))
  \/ /\ MetadataViolations(db, arg) = {}
     /\ \E i \in RowIds :
          /\ NewId(db.metadata, i)
          /\ LET d == Q!CreateSubmissionMetadata(db, i, arg)
             IN  Write(d, Single({ToSubmissionMetadatum(m) :
                                    m \in {n \in d.metadata : n.id = i}}))

ListAllSubmissionsByForm(arg) ==
  Read(Converted({ToListAllSubmissionsByFormRow(s) :
                    s \in Q!ListAllSubmissionsByForm(db, arg)}))
ListSubmissionsByForm(arg, p) ==
  Read(Converted({ToListSubmissionsByFormRow(s) :
                    s \in Q!ListSubmissionsByForm(db, arg, p)}))

CreateFormWebhook(form) ==
  \/ Reject(Unless(HasId(db.forms, form), "foreign_key"))
  \/ /\ HasId(db.forms, form)
     /\ \E i \in RowIds :
          /\ NewId(db.webhooks, i)
          /\ LET d == Q!CreateFormWebhook(db, i, form)
             IN  Write(d, Single({ToFormWebhook(w) :
                                    w \in {v \in d.webhooks : v.id = i}}))

ListActiveWebhooksByForm(form) ==
  Read(Converted({ToFormWebhook(w) :
                    w \in Q!ListActiveWebhooksByForm(db, form)}))

-----------------------------------------------------------------------------

AnyTenants == \E key \in Keys : CreateTenant(key) \/ GetTenantByAPIKey(key)

AnyUsers ==
  \/ \E arg \in UserArgs : CreateUser(arg) \/ CreateUserIfNotExists(arg)
  \/ \E arg \in LinkArgs : CreateUserWithIdentity(arg)
  \/ \E i \in Ids : GetUserByID(i) \/ CountUserIdentities(i)
  \/ \E name \in Usernames : GetUserByUsername(name)
  \/ \E identity \in Identities : GetUserByIdentity(identity)
  \/ \E p \in Pages : ListUsers(p)
  \/ \E arg \in RoleArgs : UpdateUserRole(arg)
  \/ \E arg \in TouchArgs : TouchUserIdentity(arg)

AnyFiles ==
  \/ \E arg \in FileArgs : CreateFile(arg)
  \/ \E uuid \in Uuids : GetFileByID(uuid)
  \/ \E p \in Pages : ListAllFiles(p)
  \/ CountAllFiles
  \/ \E arg \in FileOf : DeleteFile(arg)

AnyForms ==
  \/ \E arg \in NewForms : CreateForm(arg)
  \/ \E arg \in FormOf : GetFormByID(arg) \/ DeleteForm(arg)
  \/ \E i \in Ids : GetAnyFormByID(i)
  \/ \E slug \in Slugs : GetPublicFormBySlug(slug)
  \/ \E filter \in Filters :
       \/ CountFormsByTenant(filter)
       \/ \E p \in Pages : ListFormsByTenant(filter, p)
  \/ \E p \in Pages : ListAllForms(p)
  \/ CountAllForms
  \/ \E arg \in FormEdits : UpdateForm(arg)

AnySubmissions ==
  \/ \E arg \in SubmissionArgs : CreateFormSubmission(arg)
  \/ \E arg \in MetadataArgs : CreateSubmissionMetadata(arg)
  \/ \E arg \in SubmissionsOf :
       \/ ListAllSubmissionsByForm(arg)
       \/ \E p \in Pages : ListSubmissionsByForm(arg, p)
  \/ \E form \in Ids : CreateFormWebhook(form) \/ ListActiveWebhooksByForm(form)

Next == AnyTenants \/ AnyUsers \/ AnyFiles \/ AnyForms \/ AnySubmissions

Spec == Init /\ [][Next]_vars

Contract == INSTANCE Querier WITH db <- db, answer <- answer
ImplementsQuerier == Contract!Spec
=============================================================================
