--------------------------- MODULE ListingProofs ----------------------------
(***************************************************************************)
(* What a client that pages through a listing can rely on, whatever the    *)
(* number of rows and the size of a page: the rows of a table that keeps   *)
(* its constraints stand in a total order, in which every row has a rank   *)
(* of its own, and a page is an interval of ranks.                         *)
(***************************************************************************)
EXTENDS ServerProofs

-----------------------------------------------------------------------------
(* Ranks.                                                                  *)

\* The rows that R puts before one of S, and how many they are.
Before(S, R, x) == {y \in S : <<y, x>> \in R}
RankIn(S, R, x) == Cardinality(Before(S, R, x))

\* R orders S strictly: each of two different rows is before or after the other.
Orders(R, S) ==
  /\ \A x \in S : <<x, x>> \notin R
  /\ \A x, y, z \in S : <<x, y>> \in R /\ <<y, z>> \in R => <<x, z>> \in R
  /\ \A x, y \in S : x = y \/ <<x, y>> \in R \/ <<y, x>> \in R

\* A row has a smaller rank than those after it.
LEMMA RanksGrow ==
  ASSUME NEW S, NEW R, IsFiniteSet(S), Orders(R, S),
         NEW x \in S, NEW y \in S, <<x, y>> \in R
  PROVE  RankIn(S, R, x) < RankIn(S, R, y)
<1>1. Before(S, R, x) \cup {x} \subseteq Before(S, R, y)
  BY DEF Before, Orders
<1>2. x \notin Before(S, R, x)
  BY DEF Before, Orders
<1>3. IsFiniteSet(Before(S, R, x)) /\ IsFiniteSet(Before(S, R, y))
  BY FS_Subset DEF Before
<1>4. /\ RankIn(S, R, x) \in Nat /\ RankIn(S, R, y) \in Nat
      /\ Cardinality(Before(S, R, x) \cup {x}) = RankIn(S, R, x) + 1
  BY <1>2, <1>3, FS_AddElement, FS_CardinalityType DEF RankIn
<1>5. Cardinality(Before(S, R, x) \cup {x}) <= RankIn(S, R, y)
  BY <1>1, <1>3, FS_Subset DEF RankIn
<1> QED
  BY <1>4, <1>5

\* The ranks of the rows are the numbers below their number, each once.
LEMMA Ranks ==
  ASSUME NEW S, NEW R, IsFiniteSet(S), Orders(R, S)
  PROVE  /\ Cardinality(S) \in Nat
         /\ \A x \in S : RankIn(S, R, x) \in 0..(Cardinality(S) - 1)
         /\ \A x, y \in S : RankIn(S, R, x) = RankIn(S, R, y) => x = y
         /\ \A k \in 0..(Cardinality(S) - 1) :
              \E x \in S : RankIn(S, R, x) = k
<1> DEFINE n == Cardinality(S)
           rank == [x \in S |-> RankIn(S, R, x)]
<1>1. n \in Nat
  BY FS_CardinalityType
<1>2. ASSUME NEW x \in S
      PROVE  RankIn(S, R, x) \in 0..(n - 1)
  <2>1. Before(S, R, x) \in SUBSET (S \ {x})
    BY DEF Before, Orders
  <2>2. IsFiniteSet(S \ {x}) /\ Cardinality(S \ {x}) = n - 1
    BY FS_RemoveElement
  <2>3. /\ IsFiniteSet(Before(S, R, x))
        /\ RankIn(S, R, x) <= n - 1
    BY <2>1, <2>2, FS_Subset DEF RankIn
  <2>4. RankIn(S, R, x) \in Nat
    BY <2>3, FS_CardinalityType DEF RankIn
  <2> QED
    BY <1>1, <2>3, <2>4
<1>3. ASSUME NEW x \in S, NEW y \in S, RankIn(S, R, x) = RankIn(S, R, y)
      PROVE  x = y
  <2>1. RankIn(S, R, x) \in Int /\ RankIn(S, R, y) \in Int
    BY <1>2
  <2>2. <<x, y>> \notin R /\ <<y, x>> \notin R
    BY <1>3, <2>1, RanksGrow
  <2> QED
    BY <2>2 DEF Orders
<1>4. rank \in Injection(S, 0..(n - 1))
  BY <1>2, <1>3 DEF Injection, IsInjective
<1>5. IsFiniteSet(0..(n - 1)) /\ Cardinality(0..(n - 1)) = n
  BY <1>1, FS_Interval
<1>6. rank \in Surjection(S, 0..(n - 1))
  BY <1>4, <1>5, FS_Injection
<1>7. ASSUME NEW k \in 0..(n - 1)
      PROVE  \E x \in S : RankIn(S, R, x) = k
  BY <1>6, <1>7 DEF Surjection
<1> QED
  BY <1>1, <1>2, <1>3, <1>7

-----------------------------------------------------------------------------
(* The orders of the listings.                                             *)

\* Which rows come before which.
ByNews(S) == {e \in S \X S : Newer(e[1], e[2])}
ByFileNews(S) == {e \in S \X S : NewerFile(e[1], e[2])}

LEMMA NewsOrders ==
  ASSUME NEW S, Unique(S, "id"),
         \A r \in S : r.at \in Nat /\ r.id \in Nat
  PROVE  Orders(ByNews(S), S)
BY DEF Orders, ByNews, Newer, Unique

LEMMA FileNewsOrders ==
  ASSUME NEW S, Unique(S, "uuid"),
         \A r \in S : r.at \in Nat /\ r.uuid \in Nat
  PROVE  Orders(ByFileNews(S), S)
BY DEF Orders, ByFileNews, NewerFile, Unique

\* A page holds the rows whose ranks lie within it.
LEMMA PagesByRank ==
  ASSUME NEW S, NEW p
  PROVE  /\ Q!NewestPage(S, p) =
              {r \in S : Within(RankIn(S, ByNews(S), r), p)}
         /\ Q!NewestFilesPage(S, p) =
              {r \in S : Within(RankIn(S, ByFileNews(S), r), p)}
<1>1. \A r \in S : /\ Before(S, ByNews(S), r) = {s \in S : Newer(s, r)}
                   /\ Before(S, ByFileNews(S), r) = {s \in S : NewerFile(s, r)}
  BY DEF Before, ByNews, ByFileNews
<1>2. /\ \A r, s : Q!Newer(r, s) = Newer(r, s)
      /\ \A r, s : Q!NewerFile(r, s) = NewerFile(r, s)
      /\ \A n : Q!Within(n, p) = Within(n, p)
  BY DEF Q!Newer, Newer, Q!NewerFile, NewerFile, Q!Within, Within
<1> QED
  BY <1>1, <1>2, SameCardinality
  DEF Q!NewestPage, Q!NewestFilesPage, RankIn

-----------------------------------------------------------------------------
(* Pages.                                                                  *)

Row(n) == [offset |-> n, limit |-> 1]

\* The pages of one row each are complete, when what is shown of a row tells
\* it from others.
LEMMA CompletePages ==
  ASSUME NEW S, NEW R, IsFiniteSet(S), Orders(R, S),
         NEW shown, \A r, s \in S : shown[r] = shown[s] => r = s,
         NEW pages,
         \A n \in 0..Cardinality(S) :
           pages[n] =
             {shown[r] : r \in {s \in S : Within(RankIn(S, R, s), Row(n))}}
  PROVE  Complete(pages, Cardinality(S))
<1> DEFINE total == Cardinality(S)
<1>1. /\ total \in Nat
      /\ \A r \in S : RankIn(S, R, r) \in 0..(total - 1)
      /\ \A r, s \in S : RankIn(S, R, r) = RankIn(S, R, s) => r = s
      /\ \A n \in 0..(total - 1) : \E r \in S : RankIn(S, R, r) = n
  BY Ranks
<1>2. \A n \in 0..total :
        {s \in S : Within(RankIn(S, R, s), Row(n))}
          = {s \in S : RankIn(S, R, s) = n}
  BY <1>1 DEF Within, Row
<1>3. \A n \in 0..total :
        pages[n] = {shown[r] : r \in {s \in S : RankIn(S, R, s) = n}}
  BY <1>2
<1> HIDE DEF total
<1>4. ASSUME NEW n \in 0..(total - 1)
      PROVE  Cardinality(pages[n]) = 1
  <2>1. PICK r \in S : RankIn(S, R, r) = n
    BY <1>1
  <2>2. {s \in S : RankIn(S, R, s) = n} = {r}
    BY <1>1, <2>1
  <2>3. n \in 0..total
    BY <1>1
  <2>4. pages[n] = {shown[r]}
    BY <1>3, <2>2, <2>3
  <2> QED
    BY <2>4, FS_Singleton
<1>5. ASSUME NEW n \in 0..total, NEW m \in 0..total, n # m
      PROVE  pages[n] \cap pages[m] = {}
  BY <1>3, <1>5
<1>6. pages[total] = {}
  BY <1>1, <1>3
<1> QED
  BY <1>4, <1>5, <1>6 DEF Complete, total

\* Every form and every file has the tenant that the listing joins it with.
LEMMA JoinedRows ==
  ASSUME DatabaseTyped, Consistent(db)
  PROVE  /\ {f \in db.forms : Q!HasId(db.tenants, f.tenant)} = db.forms
         /\ {f \in db.files : Q!HasId(db.tenants, f.tenant)} = db.files
<1>1. /\ \A f \in db.forms : f.tenant \in Int
      /\ \A f \in db.files : f.tenant \in Int
  BY DEF DatabaseTyped, Database, FormRow, FileRow, RowIds
<1>2. /\ \A f \in db.forms : HasId(db.tenants, f.tenant)
      /\ \A f \in db.files : HasId(db.tenants, f.tenant)
  BY <1>1, TablesAssumption DEF Consistent, Refers
<1> QED
  BY <1>2 DEF HasId, Q!HasId

\* The forms and the files are finitely many and have keys.
LEMMA KeyedRows ==
  ASSUME NEW d \in Database, Consistent(d)
  PROVE  /\ IsFiniteSet(d.forms) /\ Unique(d.forms, "id")
         /\ \A f \in d.forms : f.at \in Nat /\ f.id \in Nat
         /\ IsFiniteSet(d.files) /\ Unique(d.files, "uuid")
         /\ \A f \in d.files : f.at \in Nat /\ f.uuid \in Nat
<1>1. FormsKept(d) /\ FilesKept(d)
  BY TableByTable
<1>2. d.forms \subseteq FormRow /\ d.files \subseteq FileRow
  BY DEF Database
<1>3. /\ \A i \in RowIds : i \in Nat
      /\ \A n \in Instants \cup Uuids : n \in Nat
  BY TablesAssumption DEF RowIds
<1>4. /\ \A f \in FormRow : f.at \in Nat /\ f.id \in Nat
      /\ \A f \in FileRow : f.at \in Nat /\ f.uuid \in Nat
  BY <1>3 DEF FormRow, FileRow
<1> QED
  BY <1>1, <1>2, <1>4 DEF FormsKept, FilesKept

\* The pages of a listing of forms are complete.
LEMMA FormPages ==
  ASSUME DatabaseTyped, Consistent(db), NEW S \in SUBSET db.forms
  PROVE  Complete([n \in 0..Cardinality(S) |->
                    {Q!Overview(db, f) : f \in Q!NewestPage(S, Row(n))}],
                  Cardinality(S))
<1> DEFINE shown == [f \in S |-> Q!Overview(db, f)]
           pages == [n \in 0..Cardinality(S) |->
                      {Q!Overview(db, f) : f \in Q!NewestPage(S, Row(n))}]
<1>1. IsFiniteSet(S) /\ Orders(ByNews(S), S)
  <2>1. Unique(S, "id") /\ \A f \in S : f.at \in Nat /\ f.id \in Nat
    BY KeyedRows DEF Unique, DatabaseTyped
  <2> QED
    BY <2>1, KeyedRows, FS_Subset, NewsOrders DEF DatabaseTyped
<1>2. \A f, g \in S : shown[f] = shown[g] => f = g
  BY KeyedRows DEF Q!Overview, Unique, DatabaseTyped
<1>3. \A n \in 0..Cardinality(S) :
        pages[n] = {shown[r] : r \in
          {s \in S : Within(RankIn(S, ByNews(S), s), Row(n))}}
  BY PagesByRank
<1> HIDE DEF shown, pages
<1>4. Complete(pages, Cardinality(S))
  BY <1>1, <1>2, <1>3, CompletePages
<1> QED
  BY <1>4 DEF pages

\* So are those of a listing of files.
LEMMA FilePages ==
  ASSUME DatabaseTyped, Consistent(db), NEW S \in SUBSET db.files
  PROVE  Complete([n \in 0..Cardinality(S) |->
                    {Q!FileMetadata(f) : f \in Q!NewestFilesPage(S, Row(n))}],
                  Cardinality(S))
<1> DEFINE shown == [f \in S |-> Q!FileMetadata(f)]
           pages == [n \in 0..Cardinality(S) |->
                      {Q!FileMetadata(f) : f \in Q!NewestFilesPage(S, Row(n))}]
<1>1. IsFiniteSet(S) /\ Orders(ByFileNews(S), S)
  <2>1. Unique(S, "uuid") /\ \A f \in S : f.at \in Nat /\ f.uuid \in Nat
    BY KeyedRows DEF Unique, DatabaseTyped
  <2> QED
    BY <2>1, KeyedRows, FS_Subset, FileNewsOrders DEF DatabaseTyped
<1>2. \A f, g \in S : shown[f] = shown[g] => f = g
  BY KeyedRows DEF Q!FileMetadata, Unique, DatabaseTyped
<1>3. \A n \in 0..Cardinality(S) :
        pages[n] = {shown[r] : r \in
          {s \in S : Within(RankIn(S, ByFileNews(S), s), Row(n))}}
  BY PagesByRank
<1> HIDE DEF shown, pages
<1>4. Complete(pages, Cardinality(S))
  BY <1>1, <1>2, <1>3, CompletePages
<1> QED
  BY <1>4 DEF pages

\* The pages of every listing show every row once, and the total beside them
\* is their number: the statement that counts and the one that lists agree on
\* the rows, though only one of them joins the tenants.
THEOREM ListingsAddUp == ServerSpec => []PagesAddUp
<1>1. ASSUME DatabaseTyped, Consistent(db)
      PROVE  PagesAddUp
  <2>1. /\ \A n : Q!ListAllForms(db, Row(n)) =
             {Q!Overview(db, f) : f \in Q!NewestPage(db.forms, Row(n))}
        /\ \A n : Q!ListAllFiles(db, Row(n)) =
             {Q!FileMetadata(f) : f \in Q!NewestFilesPage(db.files, Row(n))}
    BY <1>1, JoinedRows DEF Q!ListAllForms, Q!ListAllFiles
  <2>2. /\ Q!CountAllForms(db) = Cardinality(db.forms)
        /\ Q!CountAllFiles(db) = Cardinality(db.files)
        /\ \A filter : Q!CountFormsByTenant(db, filter) =
                         Cardinality(Q!Matching(db, filter))
    BY SameCardinality
    DEF Q!CountAllForms, Q!CountAllFiles, Q!CountFormsByTenant
  <2>3. \A filter : Q!Matching(db, filter) \in SUBSET db.forms
    BY DEF Q!Matching
  <2>4. Complete([n \in 0..Cardinality(db.forms) |->
                   Q!ListAllForms(db, Row(n))], Cardinality(db.forms))
    BY <1>1, <2>1, FormPages
  <2>5. Complete([n \in 0..Cardinality(db.files) |->
                   Q!ListAllFiles(db, Row(n))], Cardinality(db.files))
    BY <1>1, <2>1, FilePages
  <2>6. ASSUME NEW filter
        PROVE  LET S == Q!Matching(db, filter)
               IN  Complete([n \in 0..Cardinality(S) |->
                              Q!ListFormsByTenant(db, filter, Row(n))],
                            Cardinality(S))
    BY <1>1, <2>3, FormPages DEF Q!ListFormsByTenant
  <2> QED
    BY <2>2, <2>4, <2>5, <2>6 DEF PagesAddUp, Row
<1> QED
  BY <1>1, DatabaseHolds, ConstraintsStay, PTL DEF ServerSpec

-----------------------------------------------------------------------------
(* The client that pages through the forms of its tenant.                  *)

\* How many of the forms S are before f in the listing.
Place(S, f) == RankIn(S, ByNews(S), f)

\* The form with id i is the n-th of S or a later one.
From(S, i, n) == \E f \in S : f.id = i /\ Place(S, f) >= n

\* Forms that can be listed.
Listed(S) ==
  /\ IsFiniteSet(S) /\ Unique(S, "id")
  /\ \A f \in S : f.at \in Nat /\ f.id \in Nat

LEMMA TenantsForms ==
  ASSUME NEW d \in Database, Consistent(d), NEW t
  PROVE  Listed({f \in d.forms : f.tenant = t})
<1> DEFINE S == {f \in d.forms : f.tenant = t}
<1>1. S \in SUBSET d.forms
  OBVIOUS
<1> HIDE DEF S
<1>2. Listed(S)
  BY <1>1, KeyedRows, FS_Subset DEF Listed, Unique
<1> QED
  BY <1>2 DEF S

LEMMA Places ==
  ASSUME NEW S, Listed(S), NEW f \in S
  PROVE  Place(S, f) \in Nat
BY NewsOrders, Ranks DEF Listed, Place

\* A form never moves to the front of the listing while forms come and are
\* edited: those before it stay before it.
LEMMA PlacesGrow ==
  ASSUME NEW S, NEW T, Listed(S), Listed(T),
         \A h \in S : \E k \in T : k.id = h.id /\ k.at = h.at,
         NEW f \in S, NEW g \in T, g.id = f.id, g.at = f.at
  PROVE  Place(S, f) <= Place(T, g)
<1> DEFINE B == Before(S, ByNews(S), f)
           C == Before(T, ByNews(T), g)
           same == [h \in B |-> CHOOSE k \in T : k.id = h.id /\ k.at = h.at]
<1>1. \A h \in B : /\ same[h] \in T
                   /\ same[h].id = h.id /\ same[h].at = h.at
  BY DEF Before
<1>2. same = [h \in B |-> same[h]]
  OBVIOUS
<1>3. B \subseteq S /\ C = {k \in T : Newer(k, g)}
      /\ \A h \in B : Newer(h, f)
  BY DEF Before, ByNews
<1> HIDE DEF same, B, C
<1>4. \A h \in B : same[h] \in C
  <2> SUFFICES ASSUME NEW h \in B PROVE Newer(same[h], g)
    BY <1>1, <1>3
  <2>1. Newer(h, f)
    BY <1>3
  <2> QED
    BY <1>1, <2>1 DEF Newer
<1>5. \A h, k \in B : same[h] = same[k] => h = k
  BY <1>1, <1>3 DEF Listed, Unique
<1>6. same \in Injection(B, C)
  BY <1>2, <1>4, <1>5 DEF Injection, IsInjective
<1>7. IsFiniteSet(C)
  BY <1>3, FS_Subset DEF Listed
<1> QED
  BY <1>6, <1>7, FS_Injection DEF Place, RankIn, B, C

\* So a form that is the n-th or a later one stays so.
LEMMA FromOn ==
  ASSUME NEW S, NEW T, Listed(S), Listed(T),
         \A h \in S : \E k \in T : k.id = h.id /\ k.at = h.at,
         NEW i, NEW n \in Nat, From(S, i, n)
  PROVE  From(T, i, n)
<1>1. PICK f \in S : f.id = i /\ Place(S, f) >= n
  BY DEF From
<1>2. PICK g \in T : g.id = f.id /\ g.at = f.at
  OBVIOUS
<1>3. Place(S, f) <= Place(T, g)
  BY <1>2, PlacesGrow
<1>4. Place(S, f) \in Nat /\ Place(T, g) \in Nat
  BY Places
<1> QED
  BY <1>1, <1>2, <1>3, <1>4 DEF From

\* A page that is not full is the last: every form from its offset on is there.
LEMMA ShortPage ==
  ASSUME NEW S, Listed(S), NEW offset \in Nat, NEW limit \in Nat \ {0},
         NEW P, P = {f \in S : Within(Place(S, f),
                                      [offset |-> offset, limit |-> limit])}
  PROVE  /\ \A f \in S : f \notin P /\ Place(S, f) >= offset
              => Place(S, f) >= offset + limit
         /\ Cardinality(P) < limit
              => \A f \in S : Place(S, f) >= offset => f \in P
<1> DEFINE total == Cardinality(S)
<1>1. /\ total \in Nat
      /\ \A f \in S : Place(S, f) \in 0..(total - 1)
      /\ \A n \in 0..(total - 1) : \E f \in S : Place(S, f) = n
  BY NewsOrders, Ranks DEF Listed, Place
<1>2. P = {f \in S : offset <= Place(S, f) /\ Place(S, f) < offset + limit}
  BY DEF Within
<1>3. ASSUME NEW f \in S, f \notin P, Place(S, f) >= offset
      PROVE  Place(S, f) >= offset + limit
  BY <1>1, <1>2, <1>3
<1>4. ASSUME Cardinality(P) < limit, NEW f \in S, Place(S, f) >= offset
      PROVE  f \in P
  <2> SUFFICES ASSUME f \notin P PROVE FALSE
    OBVIOUS
  <2>1. Place(S, f) >= offset + limit
    BY <1>3, <1>4
  <2> DEFINE nth == [n \in 0..(limit - 1) |->
                      CHOOSE g \in S : Place(S, g) = offset + n]
  <2>2. \A n \in 0..(limit - 1) :
          nth[n] \in S /\ Place(S, nth[n]) = offset + n
    <3> SUFFICES ASSUME NEW n \in 0..(limit - 1)
                 PROVE  \E g \in S : Place(S, g) = offset + n
      OBVIOUS
    <3>1. offset + n \in 0..(total - 1)
      BY <1>1, <2>1
    <3> QED
      BY <1>1, <3>1
  <2>3. nth = [n \in 0..(limit - 1) |-> nth[n]]
    OBVIOUS
  <2> HIDE DEF nth
  <2>4. \A n \in 0..(limit - 1) : nth[n] \in P
    BY <1>2, <2>2
  <2>5. \A n, m \in 0..(limit - 1) : nth[n] = nth[m] => n = m
    BY <2>2
  <2>6. nth \in Injection(0..(limit - 1), P)
    BY <2>3, <2>4, <2>5 DEF Injection, IsInjective
  <2>7. IsFiniteSet(P)
    BY <1>2, FS_Subset DEF Listed
  <2>8. Cardinality(0..(limit - 1)) = limit
    BY FS_Interval
  <2>9. Cardinality(P) \in Nat /\ limit <= Cardinality(P)
    BY <2>6, <2>7, <2>8, FS_Injection, FS_CardinalityType
  <2> QED
    BY <1>4, <2>9
<1> QED
  BY <1>3, <1>4

-----------------------------------------------------------------------------
(* What the methods do to the forms.                                       *)

\* Most methods leave the forms alone.
LEMMA OtherFormTables ==
  ASSUME DatabaseTyped, AnyTenants \/ AnyUsers \/ AnyFiles \/ AnySubmissions
  PROVE  UNCHANGED db.forms
<1> USE DEF DatabaseTyped, Database
<1>1. /\ \A result : Read(result) => UNCHANGED db
      /\ \A v : Reject(v) => UNCHANGED db
      /\ \A d, result : Write(d, result) => db' = d
  BY DEF Read, Reject, Write
<1>2. CASE AnyTenants
  BY <1>1, <1>2
  DEF AnyTenants, CreateTenant, GetTenantByAPIKey, Q!CreateTenant
<1>3. CASE AnyUsers
  BY <1>1, <1>3
  DEF AnyUsers, CreateUser, CreateUserIfNotExists, CreateUserWithIdentity,
      GetUserByID, CountUserIdentities, GetUserByUsername, GetUserByIdentity,
      ListUsers, UpdateUserRole, TouchUserIdentity, Q!CreateUser,
      Q!CreateUserIfNotExists, Q!CreateUserWithoutPassword,
      Q!CreateUserIdentity, Q!UpdateUserRole, Q!TouchUserIdentity
<1>4. CASE AnyFiles
  BY <1>1, <1>4
  DEF AnyFiles, CreateFile, GetFileByID, ListAllFiles, CountAllFiles,
      DeleteFile, Q!CreateFile, Q!DeleteFile
<1>5. CASE AnySubmissions
  BY <1>1, <1>5
  DEF AnySubmissions, CreateFormSubmission, CreateSubmissionMetadata,
      ListAllSubmissionsByForm, ListSubmissionsByForm, CreateFormWebhook,
      ListActiveWebhooksByForm, Q!CreateFormSubmission,
      Q!CreateSubmissionMetadata, Q!CreateFormWebhook
<1> QED
  BY <1>2, <1>3, <1>4, <1>5

\* The same form, perhaps edited.
SameForm(f, g) == g.id = f.id /\ g.tenant = f.tenant /\ g.at = f.at

\* A method that deletes no form keeps each one's id, tenant and time.
LEMMA FormsPersist ==
  ASSUME DatabaseTyped, Consistent(db), Next,
         \A f \in db.forms : HasId(db'.forms, f.id)
  PROVE  \A f \in db.forms : \E g \in db'.forms : SameForm(f, g)
<1> USE DEF DatabaseTyped
<1>1. /\ \A result : Read(result) => db'.forms = db.forms
      /\ \A v : Reject(v) => db'.forms = db.forms
      /\ \A d, result : Write(d, result) => db' = d
  BY DEF Read, Reject, Write
<1>2. \A f \in db.forms : f \in db'.forms => \E g \in db'.forms : SameForm(f, g)
  BY DEF SameForm
<1>3. ASSUME NEW arg, CreateForm(arg)
      PROVE  db.forms \subseteq db'.forms
  <2>1. \A i, at : db.forms \subseteq Q!CreateForm(db, i, arg, at).forms
    BY DEF Q!CreateForm, Database
  <2> QED
    BY <1>1, <1>3, <2>1 DEF CreateForm
<1>4. ASSUME NEW arg, DeleteForm(arg)
      PROVE  db.forms \subseteq db'.forms
  <2>1. Q!DeleteForm(db, arg).forms \subseteq db.forms
    BY DEF Q!DeleteForm, Database
  <2>2. db'.forms \subseteq db.forms
    BY <1>1, <1>4, <2>1 DEF DeleteForm
  <2> QED
    BY <2>2, KeyedRows DEF HasId, Unique
<1>5. ASSUME NEW arg, UpdateForm(arg), NEW f \in db.forms
      PROVE  \E g \in db'.forms : SameForm(f, g)
  <2>1. CASE db'.forms = db.forms
    BY <1>2, <2>1
  <2>2. CASE db' = Q!UpdateForm(db, arg)
    <3> DEFINE found == Q!UpdatableForm(db, arg)
    <3>1. db'.forms = (db.forms \ found)
                        \cup {[g EXCEPT !.def = arg.def] : g \in found}
      BY <2>2 DEF Q!UpdateForm, Database
    <3>2. f \in FormRow
      BY DEF Database
    <3>3. SameForm(f, [f EXCEPT !.def = arg.def])
      BY <3>2 DEF SameForm, FormRow
    <3> HIDE DEF found
    <3>4. f \in db'.forms \/ [f EXCEPT !.def = arg.def] \in db'.forms
      BY <3>1
    <3> QED
      BY <1>2, <3>3, <3>4
  <2> QED
    BY <1>1, <1>5, <2>1, <2>2 DEF UpdateForm
<1>6. CASE AnyForms
  <2>1. CASE db.forms \subseteq db'.forms
    BY <1>2, <2>1
  <2> QED
    BY <1>1, <1>3, <1>4, <1>5, <1>6, <2>1
    DEF AnyForms, GetFormByID, GetAnyFormByID, GetPublicFormBySlug,
        CountFormsByTenant, ListFormsByTenant, ListAllForms, CountAllForms
<1> QED
  BY <1>2, <1>6, OtherFormTables DEF Next

-----------------------------------------------------------------------------
(* The walk.                                                               *)

\* What was there when the client began is still there, and is behind it or
\* ahead: a form it has not been shown is on the page asked for or later.
WalkInv ==
  /\ req.step \in {"authenticate", "list", "count"} => walk # NoWalk
  /\ walk # NoWalk =>
       LET S == TenantForms(walk.tenant) IN
       /\ walk.owed # {}
       /\ \A i \in walk.owed : HasId(S, i)
       /\ \A i \in walk.owed \ walk.seen : From(S, i, walk.offset)
       /\ req.step \in {"list", "count"} => req.tenant = walk.tenant
       /\ req.step = "count" =>
            /\ \A i \in walk.owed \ (walk.seen \cup req.rows) :
                 From(S, i, walk.offset + ListLimit)
            /\ Cardinality(req.rows) < ListLimit
                 => walk.owed \subseteq walk.seen \cup req.rows

LEMMA WalkInvInit == ServerInit => WalkInv
BY DEF ServerInit, WalkInv, Idle

\* It stays so when the forms change, but for a deletion.
LEMMA WalkOnForms ==
  ASSUME DatabaseTyped, Consistent(db), DatabaseTyped', Consistent(db'),
         Typed, WalkInv, UNCHANGED <<req, walk>>,
         \A f \in db.forms : \E g \in db'.forms : SameForm(f, g)
  PROVE  WalkInv'
<1> SUFFICES ASSUME walk # NoWalk
             PROVE  WalkInv'
  BY DEF WalkInv
<1> DEFINE t == walk.tenant
           S == TenantForms(t)
           T == TenantForms(t)'
<1>1. Listed(S) /\ Listed(T)
  BY TenantsForms DEF TenantForms, DatabaseTyped
<1>2. \A h \in S : \E k \in T : k.id = h.id /\ k.at = h.at
  BY DEF TenantForms, SameForm
<1>3. \A i, n : n \in Nat /\ From(S, i, n) => From(T, i, n)
  BY <1>1, <1>2, FromOn
<1>4. walk.offset \in Nat /\ walk.offset + ListLimit \in Nat
  BY ServerAssumption DEF Typed, Walk
<1>5. \A i : HasId(S, i) => HasId(T, i)
  BY <1>2 DEF HasId
<1>6. TenantForms(walk.tenant)' = T
  OBVIOUS
<1> HIDE DEF S, T
<1> QED
  BY <1>3, <1>4, <1>5, <1>6 DEF WalkInv, S

\* A step that leaves the forms and the client alone, and asks for no page of
\* the listing, keeps the invariant.
LEMMA WalkAside ==
  ASSUME WalkInv, UNCHANGED <<db.forms, walk>>,
         req' = req \/ req'.step \notin {"authenticate", "list", "count"}
  PROVE  WalkInv'
BY DEF WalkInv, TenantForms

\* What the API shows of a page of the tenant's forms.
LEMMA PageShown ==
  ASSUME DatabaseTyped, NEW t, NEW n,
         Run(ListFormsByTenant(AllOf(t), PageAt(n))), answer'.error = "none"
  PROVE  {f.id : f \in answer'.rows} =
           {f.id : f \in {g \in TenantForms(t) :
                            Within(Place(TenantForms(t), g), PageAt(n))}}
<1> DEFINE F == Q!NewestPage(Q!Matching(db, AllOf(t)), PageAt(n))
           R == {Q!Overview(db, f) : f \in F}
           C == {ToListFormsByTenantRow(f) : f \in R}
<1>1. Q!Matching(db, AllOf(t)) = TenantForms(t)
  <2>1. \A f \in db.forms : f.def.title \in Titles
    BY DEF DatabaseTyped, Database, FormRow, FormDef
  <2> QED
    BY <2>1 DEF Q!Matching, AllOf, TenantForms
<1>2. F = {g \in TenantForms(t) :
             Within(Place(TenantForms(t), g), PageAt(n))}
  BY <1>1, PagesByRank DEF Place
<1>3. F \subseteq FormRow
  BY <1>2 DEF TenantForms, DatabaseTyped, Database
<1>4. Faithful(R, C)
  BY <1>3, FaithfulOverviews
<1>5. answer' = Converted(C)
  BY DEF Run, Read, Failed, ListFormsByTenant, Q!ListFormsByTenant
<1>6. \A f \in F : Q!Overview(db, f).id = f.id
  BY DEF Q!Overview
<1> HIDE DEF F, C
<1>7. answer'.rows = R
  BY <1>4, <1>5, Results DEF Failed, Found
<1>8. {f.id : f \in answer'.rows} = {f.id : f \in F}
  BY <1>6, <1>7
<1> QED
  BY <1>2, <1>8

\* What a page leaves for the next one.
LEMMA PageLeaves ==
  ASSUME NEW S, Listed(S), NEW offset \in Nat, NEW ids,
         ids = {f.id : f \in {g \in S : Within(Place(S, g), PageAt(offset))}}
  PROVE  /\ \A i : From(S, i, offset) /\ i \notin ids
              => From(S, i, offset + ListLimit)
         /\ Cardinality(ids) < ListLimit
              => \A i : From(S, i, offset) => i \in ids
<1> DEFINE P == {g \in S : Within(Place(S, g), PageAt(offset))}
           id == [f \in P |-> f.id]
<1>1. /\ \A f \in S : f \notin P /\ Place(S, f) >= offset
           => Place(S, f) >= offset + ListLimit
      /\ Cardinality(P) < ListLimit
           => \A f \in S : Place(S, f) >= offset => f \in P
  BY ShortPage, ServerAssumption DEF PageAt
<1>2. ids = {id[f] : f \in P}
  OBVIOUS
<1>3. \A f, g \in P : id[f] = id[g] => f = g
  BY DEF Listed, Unique
<1>4. IsFiniteSet(P)
  BY FS_Subset DEF Listed
<1>5. id = [f \in P |-> id[f]]
  OBVIOUS
<1>6. \A f \in P : f.id \in ids
  BY <1>2
<1> HIDE DEF P, id
<1>7. Cardinality({id[f] : f \in P}) = Cardinality(P)
  BY <1>3, <1>4, <1>5, FiniteImage
<1> QED
  BY <1>1, <1>2, <1>6, <1>7 DEF From

\* The key of the client is that of its tenant.
LEMMA KeyFindsTenant ==
  ASSUME DatabaseTyped, Consistent(db), NEW t, TenantForms(t) # {},
         Run(GetTenantByAPIKey(KeyOf(t))), answer'.error = "none"
  PROVE  TheRow.id = t
<1>1. PICK f \in db.forms : f.tenant = t
  BY DEF TenantForms
<1>2. t \in Nat
  BY <1>1 DEF DatabaseTyped, Database, FormRow, RowIds
<1>3. \E r \in db.tenants : r.id = t
  BY <1>1, <1>2, TablesAssumption DEF Consistent, Refers, HasId
<1>4. PICK r \in db.tenants : r.id = t /\ r.key = KeyOf(t)
  BY <1>3 DEF KeyOf
<1> DEFINE R == Q!GetTenantByAPIKey(db, KeyOf(t))
           C == {ToTenant(u) : u \in R}
<1>5. R \subseteq db.tenants /\ \A u \in R : u.key = KeyOf(t)
  BY DEF Q!GetTenantByAPIKey
<1>6. Faithful(R, C)
  BY <1>5, FaithfulAccounts DEF DatabaseTyped, Database
<1>7. answer' = Single(C)
  BY DEF Run, Read, Failed, GetTenantByAPIKey
<1> HIDE DEF R, C
<1>8. answer'.rows \subseteq R /\ answer'.rows # {}
  BY <1>6, <1>7, AnsweredRows
<1>9. Unique(db.tenants, "key")
  BY DEF Consistent
<1>10. \A u \in answer'.rows : u = r
  BY <1>4, <1>5, <1>8, <1>9 DEF Unique
<1> QED
  BY <1>4, <1>8, <1>10 DEF TheRow

\* The steps of the request that lists.
LEMMA WalkInvList ==
  ASSUME DatabaseTyped, Consistent(db), Typed, WalkInv,
         Authenticate \/ List \/ Count
  PROVE  WalkInv'
<1>1. UNCHANGED db
  BY DEF Authenticate, List, Count, Run, Read, GetTenantByAPIKey,
         ListFormsByTenant, CountFormsByTenant
<1>2. UNCHANGED db.forms /\ \A t : UNCHANGED TenantForms(t)
  BY <1>1 DEF TenantForms
<1>3. walk # NoWalk
  BY DEF WalkInv, Authenticate, List, Count
<1>4. \A code : Answer(code) => WalkInv'
  BY <1>2, WalkAside DEF Answer, Send, Idle
<1> DEFINE S == TenantForms(walk.tenant)
<1>5. /\ walk.owed # {}
      /\ \A i \in walk.owed : HasId(S, i)
      /\ \A i \in walk.owed \ walk.seen : From(S, i, walk.offset)
  BY <1>3 DEF WalkInv
<1>6. CASE Authenticate /\ answer'.error = "none"
  <2>1. S # {}
    BY <1>5 DEF HasId
  <2>2. TheRow.id = walk.tenant
    BY <1>6, <2>1, KeyFindsTenant DEF Authenticate
  <2>3. /\ req'.step = "list" /\ req'.tenant = walk.tenant
        /\ UNCHANGED walk
    BY <1>6, <2>2 DEF Authenticate, Then, Typed, Request
  <2> QED
    BY <1>2, <1>3, <1>5, <2>3 DEF WalkInv
<1>7. CASE List /\ answer'.error = "none"
  <2>1. req.tenant = walk.tenant
    BY <1>3, <1>7 DEF WalkInv, List
  <2> DEFINE ids == {f.id : f \in answer'.rows}
  <2>2. /\ req'.step = "count" /\ req'.tenant = req.tenant
        /\ req'.rows = ids /\ UNCHANGED walk
    BY <1>7 DEF List, IfFound, Then, Typed, Request
  <2>3. ids = {f.id : f \in {g \in S :
                 Within(Place(S, g), PageAt(walk.offset))}}
    BY <1>7, <2>1, PageShown DEF List
  <2>4. Listed(S) /\ walk.offset \in Nat
    BY TenantsForms DEF TenantForms, DatabaseTyped, Typed, Walk
  <2> HIDE DEF ids, S
  <2>5. /\ \A i : From(S, i, walk.offset) /\ i \notin ids
             => From(S, i, walk.offset + ListLimit)
        /\ Cardinality(ids) < ListLimit
             => \A i : From(S, i, walk.offset) => i \in ids
    BY <2>3, <2>4, PageLeaves
  <2>6. TenantForms(walk.tenant)' = S
    BY <1>2, <2>2 DEF S
  <2> QED
    BY <1>3, <1>5, <2>1, <2>2, <2>5, <2>6 DEF WalkInv
<1>8. CASE Count /\ answer'.error = "none"
  <2>1. req' = Idle /\ Idle.step = "idle"
    BY <1>8 DEF Count, Answer, Send, Idle
  <2>2. CASE walk' = NoWalk
    BY <2>1, <2>2 DEF WalkInv
  <2>3. CASE walk' = [walk EXCEPT !.offset = @ + ListLimit,
                                  !.seen = @ \cup req.rows]
    <3>1. /\ walk'.tenant = walk.tenant /\ walk'.owed = walk.owed
          /\ walk'.offset = walk.offset + ListLimit
          /\ walk'.seen = walk.seen \cup req.rows
      BY <2>3 DEF Typed, Walk
    <3>2. \A i \in walk.owed \ (walk.seen \cup req.rows) :
            From(S, i, walk.offset + ListLimit)
      BY <1>3, <1>8 DEF WalkInv, Count
    <3>3. TenantForms(walk.tenant)' = S
      BY <1>2, <3>1
    <3> HIDE DEF S
    <3> QED
      BY <1>5, <2>1, <3>1, <3>2, <3>3 DEF WalkInv
  <2> QED
    BY <1>4, <1>8, <2>2, <2>3 DEF Count
<1> QED
  BY <1>4, <1>6, <1>7, <1>8 DEF Authenticate, List, Count, IfFound

\* Every step keeps the invariant.
LEMMA WalkInvStep ==
  ASSUME DatabaseTyped, DatabaseTyped', Consistent(db), Consistent(db)',
         Typed, WalkInv, [ServerNext]_allVars
  PROVE  WalkInv'
<1>1. CASE UNCHANGED allVars
  BY <1>1, WalkAside DEF allVars, serving
<1>2. CASE Boot
  <2>1. UNCHANGED serving
    BY <1>2
    DEF Boot, ReadDotEnv, LoadConfig, OpenDatabase, Migrate, NewAuthService,
        EnsureAdmin, DiscoverProvider, Go, Quit
  <2>2. UNCHANGED db.forms
    <3>1. [name |-> AdminName, hash |-> AdminHash, role |-> "ADMIN"]
            \in UserArgs
      BY ServerAssumption DEF UserArgs
    <3>2. CASE EnsureAdmin
      BY <3>1, <3>2, OtherFormTables
      DEF EnsureAdmin, Run, Read, AnyUsers
    <3> QED
      BY <1>2, <3>2
      DEF Boot, ReadDotEnv, LoadConfig, OpenDatabase, Migrate,
          NewAuthService, DiscoverProvider
  <2> QED
    BY <2>1, <2>2, WalkAside DEF serving
<1>3. CASE Stop
  BY <1>3 DEF Stop, WalkInv, Idle
<1>4. CASE OpenPage
  BY <1>4, WalkAside DEF OpenPage, Open, Then, Idle
<1>5. CASE BeginWalk
  <2>1. PICK t \in Ids :
          /\ TenantForms(t) # {}
          /\ walk' = [NoWalk EXCEPT !.tenant = t,
                                    !.owed = {f.id : f \in TenantForms(t)}]
    BY <1>5 DEF BeginWalk
  <2> DEFINE S == TenantForms(t)
  <2>2. /\ walk'.tenant = t /\ walk'.offset = 0 /\ walk'.seen = {}
        /\ walk'.owed = {f.id : f \in S}
    BY <2>1 DEF NoWalk
  <2>3. TenantForms(walk.tenant)' = S
    BY <1>5, <2>2 DEF BeginWalk, TenantForms
  <2>4. Listed(S)
    BY TenantsForms DEF TenantForms, DatabaseTyped
  <2>5. S # {}
    BY <2>1
  <2> HIDE DEF S
  <2>6. \A i \in {f.id : f \in S} : HasId(S, i) /\ From(S, i, 0)
    BY <2>4, Places DEF HasId, From
  <2>7. req'.step = "idle"
    BY <1>5 DEF BeginWalk, Idle
  <2> QED
    BY <2>2, <2>3, <2>5, <2>6, <2>7 DEF WalkInv
<1>6. CASE RequestList
  <2>1. req'.step = "authenticate" /\ walk # NoWalk /\ UNCHANGED <<db, walk>>
    BY <1>6 DEF RequestList, Then, Idle
  <2> QED
    BY <2>1 DEF WalkInv, TenantForms
<1>7. CASE ReadSession \/ Dashboard \/ ReadForm \/ ReadRows \/ Account \/ Users
  <2>1. UNCHANGED db
    BY <1>7
    DEF ReadSession, Dashboard, ReadForm, ReadRows, Account, Users, Run, Read,
        GetUserByID, ListAllForms, CountAllForms, ListAllFiles, CountAllFiles,
        GetAnyFormByID, ListAllSubmissionsByForm, ListSubmissionsByForm,
        CountUserIdentities, ListUsers
  <2>2. UNCHANGED walk
    BY <1>7
    DEF ReadSession, Guard, Dashboard, ReadForm, ReadRows, Account, Users,
        IfFound, ThenStep, Then, Answer, Send
  <2>3. req'.step \notin {"authenticate", "list", "count"}
    <3>1. /\ \A code, t, rows : Send(code, t, rows) => req'.step = "idle"
          /\ \A code : Answer(code) => req'.step = "idle"
          /\ \A step : ThenStep(step) => req'.step = step
      BY DEF Answer, Send, ThenStep, Then, Idle, Typed, Request
    <3>2. CASE ReadSession
      <4>1. req.page \in AppPages
        BY <3>2 DEF ReadSession, Typed
      <4>2. FirstStep[req.page] \notin {"authenticate", "list", "count"}
        BY <4>1 DEF FirstStep, AppPages
      <4>3. ASSUME NEW users, Guard(users)
            PROVE  req'.step \in {FirstStep[req.page], "idle"}
        <5>1. req'.step = FirstStep[req.page] \/ \E code : Answer(code)
          BY <4>3 DEF Guard, Then, Typed, Request
        <5> QED
          BY <3>1, <5>1
      <4> QED
        BY <3>2, <4>2, <4>3 DEF ReadSession
    <3>3. CASE ReadForm
      BY <3>1, <3>3 DEF ReadForm, IfFound, Then, Typed, Request
    <3>4. CASE Dashboard \/ ReadRows \/ Account \/ Users
      BY <3>1, <3>4 DEF Dashboard, ReadRows, Account, Users, IfFound
    <3> QED
      BY <1>7, <3>2, <3>3, <3>4
  <2> QED
    BY <2>1, <2>2, <2>3, WalkAside
<1>8. CASE Authenticate \/ List \/ Count
  BY <1>8, WalkInvList
<1>9. CASE Statement
  <2>1. CASE \E f \in db.forms : ~HasId(db'.forms, f.id)
    <3>1. walk' = NoWalk /\ req' = IF walk = NoWalk THEN req ELSE Idle
      BY <1>9, <2>1 DEF Statement
    <3> QED
      BY <3>1 DEF WalkInv, Idle
  <2>2. CASE \A f \in db.forms : HasId(db'.forms, f.id)
    <3>1. UNCHANGED <<req, walk>> /\ Next
      BY <1>9, <2>2 DEF Statement
    <3> QED
      BY <2>2, <3>1, FormsPersist, WalkOnForms
  <2> QED
    BY <2>1, <2>2
<1> QED
  BY <1>1, <1>2, <1>3, <1>4, <1>5, <1>6, <1>7, <1>8, <1>9
  DEF ServerNext, Serve

\* The client that pages until a page is not full has then been shown every
\* form that there was when it began, whatever was created and edited
\* meanwhile, for any number of forms, any page size and any other requests.
THEOREM WalksMissNothing == ServerSpec => WalkMissesNothing
<1>1. ServerInit => WalkInv /\ Typed
  BY WalkInvInit DEF ServerInit, Typed, Idle, Request, NoWalk, Walk
<1>2. ASSUME Typed, WalkInv, [ServerNext]_allVars,
             walk # NoWalk, reply'.page = "list", walk' = NoWalk
      PROVE  walk.owed \subseteq walk.seen \cup reply'.rows
  <2>1. CASE Count
    <3>1. UNCHANGED walk => FALSE
      BY <1>2
    <3>2. [walk EXCEPT !.offset = @ + ListLimit, !.seen = @ \cup req.rows]
            # NoWalk
      <4>1. [walk EXCEPT !.offset = @ + ListLimit,
                         !.seen = @ \cup req.rows].offset # 0
        BY <1>2, ServerAssumption DEF Typed, Walk
      <4> QED
        BY <4>1 DEF NoWalk
    <3>3. Cardinality(req.rows) < ListLimit /\ reply'.rows = req.rows
      BY <1>2, <2>1, <3>1, <3>2 DEF Count, Answer, Send
    <3> QED
      BY <1>2, <2>1, <3>3 DEF WalkInv, Count
  <2>2. CASE Stop \/ BeginWalk \/ Statement
    <3>1. reply' = NoReply
      BY <2>2 DEF Stop, BeginWalk, Statement
    <3> QED
      BY <1>2, <3>1 DEF NoReply
  <2>3. CASE ReadSession \/ Dashboard \/ ReadForm \/ ReadRows \/ Account
               \/ Users \/ Authenticate \/ List \/ OpenPage \/ RequestList
    BY <1>2, <2>3
    DEF ReadSession, Guard, Dashboard, ReadForm, ReadRows, Account, Users,
        Authenticate, List, OpenPage, Open, RequestList, IfFound, ThenStep,
        Then, Answer, Send
  <2>4. CASE Boot \/ UNCHANGED allVars
    BY <1>2, <2>4
    DEF Boot, ReadDotEnv, LoadConfig, OpenDatabase, Migrate, NewAuthService,
        EnsureAdmin, DiscoverProvider, Go, Quit, allVars, serving
  <2> QED
    BY <1>2, <2>1, <2>2, <2>3, <2>4 DEF ServerNext, Serve
<1> QED
  BY <1>1, <1>2, TypedStep, WalkInvStep, DatabaseHolds, ConstraintsStay, PTL
  DEF ServerSpec, WalkMissesNothing
=============================================================================
