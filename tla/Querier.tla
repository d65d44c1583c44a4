------------------------------ MODULE Querier -------------------------------
(***************************************************************************)
(* The contract of db.Querier, the interface through which every service   *)
(* reaches the database whatever engine is behind it: each method runs one *)
(* statement of Queries, all or nothing, and returns what it found.  A     *)
(* method may also return an error, without or, where the acknowledgement  *)
(* is lost, after its effect; what it never does is to return a row that   *)
(* is not there or an id other than the row's.                             *)
(***************************************************************************)
EXTENDS Tables

VARIABLES
  db,      \* the database
  answer   \* what the last method returned

Q == INSTANCE Queries

vars == <<db, answer>>

Init == db \in {Empty} \cup Databases /\ answer = Found({})

\* Ids are 32 bits wide in the rows returned.
Return(result) ==
  \/ /\ answer' = result
     /\ \A r \in result.rows : ~Wide(r)
  \/ answer' = Failed("internal")

Read(result) == UNCHANGED db /\ Return(result)
Reject(violations) ==
  /\ UNCHANGED db
  /\ \E v \in violations : answer' = Failed(v)
Write(d, result) == (db' = d /\ Return(result)) \/ Read(Failed("internal"))

\* An id the database may give a new row.
FreshIds(rows) == {i \in RowIds : ~HasId(rows, i)}

\* An INSERT of the row with id i returns it.
Stored(rows, i) == Found({r \in rows : r.id = i})

-----------------------------------------------------------------------------

CreateTenant(key) ==
  \/ Reject(Unless(~KeyTaken(db, key), "unique"))
  \/ /\ ~KeyTaken(db, key)
     /\ \E i \in FreshIds(db.tenants) :
          LET d == Q!CreateTenant(db, i, key)
          IN  Write(d, Stored(d.tenants, i))

GetTenantByAPIKey(key) == Read(One(Q!GetTenantByAPIKey(db, key)))

CreateUser(arg) ==
  \/ Reject(Unless(~NameTaken(db, arg.name), "unique"))
  \/ /\ ~NameTaken(db, arg.name)
     /\ \E i \in FreshIds(db.users) :
          LET d == Q!CreateUser(db, i, arg)
          IN  Write(d, Stored(d.users, i))

CreateUserIfNotExists(arg) ==
  \E i \in FreshIds(db.users) :
    LET d == Q!CreateUserIfNotExists(db, i, arg)
    IN  Write(d, Counted(IF d = db THEN 0 ELSE 1))

CreateUserWithIdentity(arg) ==
  \/ Reject(Unless(/\ ~NameTaken(db, arg.name)
                   /\ ~IdentityTaken(db, arg.identity), "unique"))
  \/ /\ ~NameTaken(db, arg.name)
     /\ ~IdentityTaken(db, arg.identity)
     /\ \E i \in FreshIds(db.users) :
          LET d == Q!CreateUserWithIdentity(db, i, arg)
          IN  Write(d, Stored(d.users, i))

GetUserByID(i) == Read(One(Q!GetUserByID(db, i)))
GetUserByUsername(name) == Read(One(Q!GetUserByUsername(db, name)))
GetUserByIdentity(identity) == Read(One(Q!GetUserByIdentity(db, identity)))
ListUsers(p) == Read(Found(Q!ListUsers(db, p)))
CountUserIdentities(i) == Read(Counted(Q!CountUserIdentities(db, i)))

UpdateUserRole(arg) ==
  LET d == Q!UpdateUserRole(db, arg)
  IN  Write(d, One({u \in d.users : u.id = arg.id}))

TouchUserIdentity(arg) == Write(Q!TouchUserIdentity(db, arg), Found({}))

-----------------------------------------------------------------------------

CreateFile(arg) ==
  \/ Reject(FileViolations(db, arg))
  \/ /\ FileViolations(db, arg) = {}
     /\ \E at \in Instants :
          LET d == Q!CreateFile(db, arg, at)
          IN  Write(d, Found({Q!FileMetadata(f) :
                                f \in Q!GetFileByID(d, arg.uuid)}))

GetFileByID(uuid) == Read(One(Q!GetFileByID(db, uuid)))
ListAllFiles(p) == Read(Found(Q!ListAllFiles(db, p)))
CountAllFiles == Read(Counted(Q!CountAllFiles(db)))

DeleteFile(arg) ==
  Write(Q!DeleteFile(db, arg), Counted(Cardinality(Q!OwnFile(db, arg))))

-----------------------------------------------------------------------------

CreateForm(arg) ==
  \/ Reject(FormViolations(db, 0, arg))
  \/ /\ FormViolations(db, 0, arg) = {}
     /\ \E i \in FreshIds(db.forms), at \in Instants :
          LET d == Q!CreateForm(db, i, arg, at)
          IN  Write(d, Stored(d.forms, i))

GetFormByID(arg) == Read(One(Q!GetFormByID(db, arg)))
GetAnyFormByID(i) == Read(One(Q!GetAnyFormByID(db, i)))
GetPublicFormBySlug(slug) == Read(One(Q!GetPublicFormBySlug(db, slug)))
ListFormsByTenant(filter, p) == Read(Found(Q!ListFormsByTenant(db, filter, p)))
CountFormsByTenant(filter) == Read(Counted(Q!CountFormsByTenant(db, filter)))
ListAllForms(p) == Read(Found(Q!ListAllForms(db, p)))
CountAllForms == Read(Counted(Q!CountAllForms(db)))

UpdateForm(arg) ==
  IF Q!UpdatableForm(db, arg) = {}
    THEN Read(Failed("no_rows"))
    ELSE \/ Reject(FormViolations(db, arg.id, arg))
         \/ /\ FormViolations(db, arg.id, arg) = {}
            /\ LET d == Q!UpdateForm(db, arg)
               IN  Write(d, Stored(d.forms, arg.id))

DeleteForm(arg) ==
  IF Q!OwnForm(db, arg) # {} /\ Referenced(db, arg.id)
    THEN Reject({"foreign_key"})
    ELSE Write(Q!DeleteForm(db, arg), Counted(Cardinality(Q!OwnForm(db, arg))))

-----------------------------------------------------------------------------

CreateFormSubmission(arg) ==
  \/ Reject(SubmissionViolations(db, arg))
  \/ /\ SubmissionViolations(db, arg) = {}
     /\ \E i \in FreshIds(db.submissions), at \in Instants :
          LET d == Q!CreateFormSubmission(db, i, arg, at)
          IN  Write(d, Stored(d.submissions, i))

CreateSubmissionMetadata(arg) ==
  \/ Reject(MetadataViolations(db, arg))
  \/ /\ MetadataViolations(db, arg) = {}
     /\ \E i \in FreshIds(db.metadata) :
          LET d == Q!CreateSubmissionMetadata(db, i, arg)
          IN  Write(d, Stored(d.metadata, i))

ListAllSubmissionsByForm(arg) == Read(Found(Q!ListAllSubmissionsByForm(db, arg)))
ListSubmissionsByForm(arg, p) ==
  Read(Found(Q!ListSubmissionsByForm(db, arg, p)))

CreateFormWebhook(form) ==
  \/ Reject(Unless(HasId(db.forms, form), "foreign_key"))
  \/ /\ HasId(db.forms, form)
     /\ \E i \in FreshIds(db.webhooks) :
          LET d == Q!CreateFormWebhook(db, i, form)
          IN  Write(d, Stored(d.webhooks, i))

ListActiveWebhooksByForm(form) ==
  Read(Found(Q!ListActiveWebhooksByForm(db, form)))

-----------------------------------------------------------------------------

AnyTenants == \E key \in Keys : CreateTenant(key) \/ GetTenantByAPIKey(key)

AnyUsers ==
  \/ \E arg \in UserArgs : CreateUser(arg) \/ CreateUserIfNotExists(arg)
  \/ \E arg \in LinkArgs : CreateUserWithIdentity(arg)
  \/ \E i \in Ids : GetUserByID(i) \/ CountUserIdentities(i)
  \/ \E name \in Usernames : GetUserByUsername(name)
  \/ \E identity \in Identities : GetUserByIdentity(identity)
  \/ \E p \in Pages : ListUsers(p)
  \/ \E arg \in RoleArgs : UpdateUserRole(arg)
  \/ \E arg \in TouchArgs : TouchUserIdentity(arg)

AnyFiles ==
  \/ \E arg \in FileArgs : CreateFile(arg)
  \/ \E uuid \in Uuids : GetFileByID(uuid)
  \/ \E p \in Pages : ListAllFiles(p)
  \/ CountAllFiles
  \/ \E arg \in FileOf : DeleteFile(arg)

AnyForms ==
  \/ \E arg \in NewForms : CreateForm(arg)
  \/ \E arg \in FormOf : GetFormByID(arg) \/ DeleteForm(arg)
  \/ \E i \in Ids : GetAnyFormByID(i)
  \/ \E slug \in Slugs : GetPublicFormBySlug(slug)
  \/ \E filter \in Filters :
       \/ CountFormsByTenant(filter)
       \/ \E p \in Pages : ListFormsByTenant(filter, p)
  \/ \E p \in Pages : ListAllForms(p)
  \/ CountAllForms
  \/ \E arg \in FormEdits : UpdateForm(arg)

AnySubmissions ==
  \/ \E arg \in SubmissionArgs : CreateFormSubmission(arg)
  \/ \E arg \in MetadataArgs : CreateSubmissionMetadata(arg)
  \/ \E arg \in SubmissionsOf :
       \/ ListAllSubmissionsByForm(arg)
       \/ \E p \in Pages : ListSubmissionsByForm(arg, p)
  \/ \E form \in Ids : CreateFormWebhook(form) \/ ListActiveWebhooksByForm(form)

Next == AnyTenants \/ AnyUsers \/ AnyFiles \/ AnyForms \/ AnySubmissions

Spec == Init /\ [][Next]_vars
=============================================================================
