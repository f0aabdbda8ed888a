---------------------------- MODULE CatalogProofs ----------------------------
(***************************************************************************)
(* Packages and profiles are exclusive, profiles in use exist, and the     *)
(* terms of a voucher stay as sold, for every value of the constants.      *)
(***************************************************************************)
EXTENDS Catalog, TLAPS

USE DEF tables

-----------------------------------------------------------------------------
(* Tables *)

LEMMA PutIsTable ==
  ASSUME NEW f, NEW K, NEW V, NEW key \in K, NEW value \in V, IsTable(f, K, V)
  PROVE  IsTable(Put(f, key, value), K, V)
BY DEF IsTable, Put

LEMMA WithoutIsTable ==
  ASSUME NEW f, NEW K, NEW V, NEW key, IsTable(f, K, V)
  PROVE  IsTable(Without(f, key), K, V)
BY DEF IsTable, Without

LEMMA ExceptIsTable ==
  ASSUME NEW f, NEW K, NEW V, NEW key, NEW value \in V, IsTable(f, K, V)
  PROVE  IsTable([f EXCEPT ![key] = value], K, V)
BY DEF IsTable

LEMMA EmptyIsTable == ASSUME NEW K, NEW V PROVE IsTable(Empty, K, V)
BY DEF IsTable, Empty

LEMMA UnassignedIsTable ==
  ASSUME NEW table, IsTable(table, Users, User), NEW p
  PROVE  IsTable(Unassigned(table, p), Users, User)
<1> SUFFICES ASSUME NEW u \in DOMAIN table
             PROVE  [table[u] EXCEPT !.profile = Nil] \in User
  BY DEF IsTable, Unassigned
<1>1. QED
  BY DEF IsTable, User

LEMMA TermsTyped ==
  ASSUME NEW row \in Package, NEW k \in Packages
  PROVE  Voucher(k, row) \in User
BY DEF Package, Terms, Voucher, User

LEMMA TaskFields ==
  ASSUME NEW t \in Task
  PROVE  /\ t.op = "create" => t.profile \in Profiles \cup {Nil}
         /\ t.op = "user" => t.id \in Users /\ t.row \in User
         /\ t.op = "assign" => t.id \in Users /\ t.row \in User /\ t.profile \in Profiles
         /\ t.op = "generate" => /\ t.id \in Packages /\ t.row \in Package
                                 /\ t.left \in 0 .. MaxCount /\ t.made \in SUBSET Users
BY DEF Task, Idle

LEMMA TaskStep ==
  ASSUME TypeOK, NEW w \in Workers, NEW t \in Task, tasks' = [tasks EXCEPT ![w] = t]
  PROVE  tasks' \in [Workers -> Task]
BY DEF TypeOK

LEMMA IdleTask == Idle \in Task
BY DEF Task

LEMMA Bounds == MaxCount \in Nat /\ MaxRequests \in Nat
BY CatalogAssumption

LEMMA Arrival ==
  ASSUME TypeOK, Arrives
  PROVE  requests' \in 0 .. MaxRequests
<1>1. requests \in 0 .. MaxRequests
  BY DEF TypeOK, TablesOK
<1>2. requests < MaxRequests /\ requests' = requests + 1
  BY DEF Arrives
<1>3. QED
  BY <1>1, <1>2, Bounds

-----------------------------------------------------------------------------
(* Types, request by request *)

LEMMA PackageType ==
  ASSUME TypeOK, NEW k \in Packages, NEW limit \in LimitTypes, NEW value \in Values,
         NEW extras \in Extras, NEW enabled \in BOOLEAN,
         \/ CreatePackage(k, limit, value, extras)
         \/ UpdatePackage(k, limit, value, extras, enabled)
  PROVE  TypeOK'
<1>1. /\ [limit |-> IF limit = "calendar" THEN "calendar" ELSE "usage",
          value |-> value, extras |-> extras, enabled |-> TRUE] \in Package
      /\ [limit |-> limit, value |-> value, extras |-> extras, enabled |-> enabled]
           \in Package
  BY DEF Package, LimitTypes
<1>2. IsTable(packages', Packages, Package)
  BY <1>1, PutIsTable, ExceptIsTable DEF TypeOK, TablesOK, CreatePackage, UpdatePackage
<1>3. /\ requests' \in 0 .. MaxRequests
      /\ drawn' \subseteq Users \cup Packages \cup Profiles
      /\ UNCHANGED <<profiles, users, tasks, refresh, attached>>
  BY Arrival DEF CreatePackage, UpdatePackage, TypeOK, TablesOK
<1>4. QED
  BY <1>2, <1>3 DEF TypeOK, TablesOK, RefreshOK, RefreshRecord, AttachedOK, IsTable

LEMMA DeletePackageType ==
  ASSUME TypeOK, NEW k, DeletePackage(k)
  PROVE  TypeOK'
<1>1. IsTable(packages', Packages, Package) /\ requests' \in 0 .. MaxRequests
  BY WithoutIsTable, Arrival DEF DeletePackage, TypeOK, TablesOK
<1>2. QED
  BY <1>1 DEF DeletePackage, TypeOK, TablesOK, RefreshOK, AttachedOK

LEMMA ProfileType ==
  ASSUME TypeOK, NEW p \in Profiles, NEW value \in Values, NEW enabled \in BOOLEAN,
         CreateProfile(p, value) \/ UpdateProfile(p, value, enabled)
  PROVE  TypeOK'
<1>1. /\ [value |-> value, enabled |-> TRUE] \in Profile
      /\ [value |-> value, enabled |-> enabled] \in Profile
  BY DEF Profile
<1>2. IsTable(profiles', Profiles, Profile)
  BY <1>1, PutIsTable, ExceptIsTable DEF TypeOK, TablesOK, CreateProfile, UpdateProfile
<1>3. /\ requests' \in 0 .. MaxRequests
      /\ drawn' \subseteq Users \cup Packages \cup Profiles
      /\ UNCHANGED <<packages, users, tasks, refresh, attached>>
  BY Arrival DEF CreateProfile, UpdateProfile, TypeOK, TablesOK
<1>4. QED
  BY <1>2, <1>3 DEF TypeOK, TablesOK, RefreshOK, RefreshRecord, AttachedOK, IsTable

LEMMA DeleteProfileType ==
  ASSUME TypeOK, NEW p, DeleteProfile(p)
  PROVE  TypeOK'
<1>1. /\ IsTable(profiles', Profiles, Profile)
      /\ IsTable(users', Users, User)
      /\ requests' \in 0 .. MaxRequests
  BY WithoutIsTable, UnassignedIsTable, Arrival DEF DeleteProfile, TypeOK, TablesOK
<1>2. QED
  BY <1>1 DEF DeleteProfile, TypeOK, TablesOK, RefreshOK, AttachedOK

LEMMA GenerateType ==
  ASSUME TypeOK, NEW w \in Workers,
         \/ \E k \in Packages, count \in 1 .. MaxCount : GenerateVouchers(w, k, count)
         \/ \E u \in Users : GenerateOneVoucher(w, u)
         \/ Generated(w)
  PROVE  TypeOK'
<1>1. ASSUME NEW k \in Packages, NEW count \in 1 .. MaxCount, GenerateVouchers(w, k, count)
      PROVE  TypeOK'
  <2>1. packages[k] \in Package
    BY <1>1 DEF GenerateVouchers, TypeOK, TablesOK, IsTable
  <2>2. [op |-> "generate", id |-> k, row |-> packages[k], left |-> count,
         made |-> {}] \in Task
    <3>1. count \in 0 .. MaxCount /\ {} \in SUBSET Users
      OBVIOUS
    <3>2. QED
      BY <2>1, <3>1 DEF Task
  <2>3. tasks' \in [Workers -> Task] /\ requests' \in 0 .. MaxRequests
    BY <1>1, <2>2, TaskStep, Arrival DEF GenerateVouchers, Begin
  <2>4. QED
    BY <1>1, <2>3 DEF GenerateVouchers, TypeOK, TablesOK, RefreshOK, AttachedOK
<1>2. ASSUME NEW u \in Users, GenerateOneVoucher(w, u) PROVE TypeOK'
  <2>1. tasks[w] \in Task /\ tasks[w].op = "generate" /\ tasks[w].left > 0
    BY <1>2 DEF GenerateOneVoucher, Issue, TypeOK
  <2>2. [tasks[w] EXCEPT !.left = @ - 1, !.made = @ \cup {u}] \in Task
    <3>1. /\ tasks[w] \in [op: {"generate"}, id: Packages, row: Package,
                           left: 0 .. MaxCount, made: SUBSET Users]
          /\ tasks[w].left - 1 \in 0 .. MaxCount
          /\ tasks[w].made \cup {u} \in SUBSET Users
      <4>1. tasks[w] \in [op: {"generate"}, id: Packages, row: Package,
                          left: 0 .. MaxCount, made: SUBSET Users]
        BY <2>1 DEF Task, Idle
      <4>2. QED
        BY <2>1, <4>1, Bounds
    <3>2. [tasks[w] EXCEPT !.left = @ - 1, !.made = @ \cup {u}]
            \in [op: {"generate"}, id: Packages, row: Package,
                 left: 0 .. MaxCount, made: SUBSET Users]
      BY <3>1
    <3>3. QED
      BY <3>2 DEF Task
  <2>3. tasks' = [tasks EXCEPT ![w] = [tasks[w] EXCEPT !.left = @ - 1, !.made = @ \cup {u}]]
    BY <1>2 DEF GenerateOneVoucher, Issue, TypeOK
  <2>4. tasks' \in [Workers -> Task]
    BY <2>2, <2>3, TaskStep
  <2>5. Voucher(tasks[w].id, tasks[w].row) \in User
    BY <2>1, TaskFields, TermsTyped
  <2>6. IsTable(users', Users, User)
    BY <1>2, <2>5, PutIsTable DEF GenerateOneVoucher, Issue, TypeOK, TablesOK
  <2>7. QED
    BY <1>2, <2>4, <2>6
       DEF GenerateOneVoucher, Issue, TypeOK, TablesOK, RefreshOK, AttachedOK
<1>3. CASE Generated(w)
  <2>1. tasks' \in [Workers -> Task]
    BY <1>3, IdleTask, TaskStep DEF Generated, Continue
  <2>2. QED
    BY <1>3, <2>1 DEF Generated, TypeOK, TablesOK, RefreshOK, AttachedOK
<1>4. QED
  BY <1>1, <1>2, <1>3

LEMMA CreateUserType ==
  ASSUME TypeOK, NEW w \in Workers,
         \/ \E p \in Profiles \cup {Nil} : BeginCreate(w, p)
         \/ \E u \in Users, allowance \in Values : CreateUser(w, u, allowance)
  PROVE  TypeOK'
<1>1. ASSUME NEW p \in Profiles \cup {Nil}, BeginCreate(w, p) PROVE TypeOK'
  <2>1. [op |-> "create", profile |-> p] \in Task
    BY DEF Task
  <2>2. tasks' \in [Workers -> Task] /\ requests' \in 0 .. MaxRequests
    BY <1>1, <2>1, TaskStep, Arrival DEF BeginCreate, Begin
  <2>3. QED
    BY <1>1, <2>2 DEF BeginCreate, TypeOK, TablesOK, RefreshOK, AttachedOK
<1>2. ASSUME NEW u \in Users, NEW allowance \in Values, CreateUser(w, u, allowance)
      PROVE  TypeOK'
  <2>1. tasks' \in [Workers -> Task]
    BY <1>2, IdleTask, TaskStep DEF CreateUser, Continue
  <2>2. tasks[w].profile \in Profiles \cup {Nil}
    BY <1>2, TaskFields DEF CreateUser, Continue, TypeOK
  <2>3. [package |-> Nil, profile |-> tasks[w].profile, terms |-> <<>>,
         allowance |-> allowance] \in User
    BY <2>2 DEF User
  <2>4. IsTable(users', Users, User)
    BY <1>2, <2>3, PutIsTable DEF CreateUser, TypeOK, TablesOK
  <2>5. QED
    BY <1>2, <2>1, <2>4 DEF CreateUser, TypeOK, TablesOK, RefreshOK, AttachedOK
<1>3. QED
  BY <1>1, <1>2

LEMMA EditedRow ==
  ASSUME NEW old \in User, NEW p \in Profiles \cup {Nil}, NEW a \in Values
  PROVE  /\ With(old, p, a) \in User
         /\ With(old, p, a).package = old.package
         /\ With(old, p, a).terms = old.terms
         /\ With(old, p, a).profile = p
<1> DEFINE Terminable == {<<>>} \cup {<<l, v>> : l \in LimitTypes, v \in Values}
<1>1. User = [package: Packages \cup {Nil}, profile: Profiles \cup {Nil},
              terms: Terminable, allowance: Values]
  BY DEF User
<1> HIDE DEF Terminable
<1>2. QED
  BY <1>1 DEF With

\* What an edit may write, and which request wrote it.
LEMMA Edits ==
  ASSUME TypeOK, NEW w \in Workers, UpdateSubscriber(w)
  PROVE  \E row \in User :
           /\ UpdateUser(w, row)
           /\ tasks[w].op \in {"user", "assign"}
           /\ tasks[w].id \in Users /\ tasks[w].row \in User
           /\ row.package = tasks[w].row.package /\ row.terms = tasks[w].row.terms
           /\ row.profile \in {tasks[w].row.profile, Nil, tasks[w].profile}
           /\ row.profile = tasks[w].row.profile \/ row.profile = Nil
                \/ tasks[w].op = "assign"
<1>1. tasks[w] \in Task
  BY DEF TypeOK
<1>2. PICK allowance \in Values, p \in {tasks[w].row.profile, Nil, tasks[w].profile} :
        /\ UpdateUser(w, With(tasks[w].row, p, allowance))
        /\ \/ tasks[w].op = "user" /\ p \in {tasks[w].row.profile, Nil}
           \/ tasks[w].op = "assign" /\ p = tasks[w].profile
  BY DEF UpdateSubscriber
<1>3. tasks[w].id \in Users /\ tasks[w].row \in User
  BY <1>1, <1>2, TaskFields
<1>4. p \in Profiles \cup {Nil}
  BY <1>1, <1>2, <1>3, TaskFields DEF User
<1>5. PICK row : row = With(tasks[w].row, p, allowance)
  OBVIOUS
<1>6. /\ row \in User /\ row.package = tasks[w].row.package
      /\ row.terms = tasks[w].row.terms /\ row.profile = p
  BY <1>3, <1>4, <1>5, EditedRow
<1>7. UpdateUser(w, row)
  BY <1>2, <1>5
<1>8. QED
  BY <1>2, <1>3, <1>6, <1>7

LEMMA EditType ==
  ASSUME TypeOK, NEW w \in Workers,
         \/ \E u \in Users : ReadUser(w, u)
         \/ \E p \in Profiles : Assign(w, p)
         \/ UpdateSubscriber(w)
         \/ Fail(w)
  PROVE  TypeOK'
<1>1. ASSUME NEW u \in Users, ReadUser(w, u) PROVE TypeOK'
  <2>1. [op |-> "user", id |-> u, row |-> users[u]] \in Task
    BY <1>1 DEF ReadUser, Task, TypeOK, TablesOK, IsTable
  <2>2. tasks' \in [Workers -> Task] /\ requests' \in 0 .. MaxRequests
    BY <1>1, <2>1, TaskStep, Arrival DEF ReadUser, Begin
  <2>3. QED
    BY <1>1, <2>2 DEF ReadUser, TypeOK, TablesOK, RefreshOK, AttachedOK
<1>2. ASSUME NEW p \in Profiles, Assign(w, p) PROVE TypeOK'
  <2>1. tasks[w].id \in Users /\ tasks[w].row \in User
    BY <1>2, TaskFields DEF Assign, TypeOK
  <2>2. [op |-> "assign", id |-> tasks[w].id, row |-> tasks[w].row, profile |-> p] \in Task
    BY <2>1 DEF Task
  <2>3. tasks' \in [Workers -> Task]
    BY <1>2, <2>2, TaskStep DEF Assign, TypeOK
  <2>4. QED
    BY <1>2, <2>3 DEF Assign, TypeOK, TablesOK, RefreshOK, AttachedOK
<1>3. CASE UpdateSubscriber(w)
  <2>1. PICK row \in User : UpdateUser(w, row)
    BY <1>3, Edits
  <2>2. tasks' \in [Workers -> Task]
    BY <2>1, IdleTask, TaskStep DEF UpdateUser
  <2>3. IsTable(users', Users, User)
    BY <2>1, ExceptIsTable DEF UpdateUser, TypeOK, TablesOK
  <2>4. QED
    BY <2>1, <2>2, <2>3 DEF UpdateUser, TypeOK, TablesOK, RefreshOK, AttachedOK
<1>4. CASE Fail(w)
  <2>1. tasks' \in [Workers -> Task]
    BY <1>4, IdleTask, TaskStep DEF Fail
  <2>2. QED
    BY <1>4, <2>1 DEF Fail, TypeOK, TablesOK, RefreshOK, AttachedOK
<1>5. QED
  BY <1>1, <1>2, <1>3, <1>4

LEMMA DeleteUserType ==
  ASSUME TypeOK, NEW u, DeleteUser(u)
  PROVE  TypeOK'
<1>1. IsTable(users', Users, User) /\ requests' \in 0 .. MaxRequests
  BY WithoutIsTable, Arrival DEF DeleteUser, TypeOK, TablesOK
<1>2. QED
  BY <1>1 DEF DeleteUser, TypeOK, TablesOK, RefreshOK, AttachedOK

LEMMA IdleRecord == RefreshRecord(IdleRefresh)
BY EmptyIsTable DEF RefreshRecord, IdleRefresh, Holding

LEMMA RefreshStep ==
  ASSUME TypeOK, NEW r \in Refreshers, NEW x, RefreshRecord(x),
         refresh' = [refresh EXCEPT ![r] = x]
  PROVE  RefreshOK'
BY DEF TypeOK, RefreshOK, RefreshRecord

LEMMA ReadType ==
  ASSUME TypeOK, NEW r \in Refreshers,
         ReadUsers(r) \/ ReadProfiles(r) \/ ReadPackages(r) \/ RefreshError(r)
  PROVE  TypeOK'
<1>1. RefreshRecord(refresh[r]) /\ DOMAIN refresh = Refreshers
  BY DEF TypeOK, RefreshOK
<1>2. CASE ReadUsers(r)
  <2> DEFINE x == Holding("profiles", users, Empty, Empty)
  <2>1. RefreshRecord(x)
    BY <1>1, EmptyIsTable DEF RefreshRecord, Holding, TypeOK, TablesOK
  <2>2. refresh' = [refresh EXCEPT ![r] = x]
    BY <1>1, <1>2 DEF ReadUsers
  <2>3. RefreshOK'
    BY <2>1, <2>2, RefreshStep
  <2>4. QED
    BY <1>2, <2>3 DEF ReadUsers, TypeOK, TablesOK, AttachedOK
<1>3. CASE ReadProfiles(r)
  <2> DEFINE x == Holding("packages", refresh[r].users, profiles, Empty)
  <2>1. RefreshRecord(x)
    BY <1>1, EmptyIsTable DEF RefreshRecord, Holding, TypeOK, TablesOK
  <2>2. refresh' = [refresh EXCEPT ![r] = x]
    BY <1>1, <1>3 DEF ReadProfiles
  <2>3. RefreshOK'
    BY <2>1, <2>2, RefreshStep
  <2>4. QED
    BY <1>3, <2>3 DEF ReadProfiles, TypeOK, TablesOK, AttachedOK
<1>4. CASE ReadPackages(r)
  <2> DEFINE x == Holding("apply", refresh[r].users, refresh[r].profiles, packages)
  <2>1. RefreshRecord(x)
    BY <1>1, EmptyIsTable DEF RefreshRecord, Holding, TypeOK, TablesOK
  <2>2. refresh' = [refresh EXCEPT ![r] = x]
    BY <1>1, <1>4 DEF ReadPackages
  <2>3. RefreshOK'
    BY <2>1, <2>2, RefreshStep
  <2>4. QED
    BY <1>4, <2>3 DEF ReadPackages, TypeOK, TablesOK, AttachedOK
<1>5. CASE RefreshError(r)
  <2>1. RefreshOK'
    BY <1>5, IdleRecord, RefreshStep DEF RefreshError
  <2>2. QED
    BY <1>5, <2>1 DEF RefreshError, TypeOK, TablesOK, AttachedOK
<1>6. QED
  BY <1>2, <1>3, <1>4, <1>5

\* What the cache holds after a merge: rows of the table, and only profiles
\* and packages that were read.
LEMMA ViewTyped ==
  ASSUME NEW us, NEW ps, NEW ks, IsTable(us, Users, User),
         IsTable(ps, Profiles, Profile), IsTable(ks, Packages, Package),
         NEW u \in DOMAIN View(us, ps, ks)
  PROVE  /\ u \in DOMAIN us /\ u \in Users
         /\ View(us, ps, ks)[u].row = us[u] /\ us[u] \in User
         /\ View(us, ps, ks)[u].profile \subseteq Profile
         /\ View(us, ps, ks)[u].package \subseteq Package
         /\ us[u].profile = Nil => View(us, ps, ks)[u].profile = {}
         /\ us[u].package = Nil => View(us, ps, ks)[u].package = {}
<1>1. /\ DOMAIN View(us, ps, ks) = DOMAIN us
      /\ Nil \notin DOMAIN ps /\ Nil \notin DOMAIN ks
  BY CatalogAssumption DEF View, IsTable
<1>2. u \in Users /\ us[u] \in User
  BY <1>1 DEF IsTable
<1>3. \A p \in DOMAIN ps : {ps[p]} \subseteq Profile
  BY DEF IsTable
<1>4. \A k \in DOMAIN ks : {ks[k]} \subseteq Package
  BY DEF IsTable
<1>5. QED
  BY <1>1, <1>2, <1>3, <1>4 DEF View

LEMMA ApplyType ==
  ASSUME TypeOK, NEW r \in Refreshers, Apply(r)
  PROVE  TypeOK'
<1>1. RefreshOK'
  BY IdleRecord, RefreshStep DEF Apply
<1>2. RefreshRecord(refresh[r])
  BY DEF TypeOK, RefreshOK
<1>3. AttachedOK'
  <2>1. attached' = View(refresh[r].users, refresh[r].profiles, refresh[r].packages)
    BY DEF Apply
  <2>2. /\ IsTable(refresh[r].users, Users, User)
        /\ IsTable(refresh[r].profiles, Profiles, Profile)
        /\ IsTable(refresh[r].packages, Packages, Package)
    BY <1>2 DEF RefreshRecord
  <2>3. QED
    BY <2>1, <2>2, ViewTyped DEF AttachedOK
<1>4. QED
  BY <1>1, <1>3 DEF Apply, TypeOK, TablesOK

LEMMA InitType == Init => TypeOK
<1> SUFFICES ASSUME Init PROVE TypeOK
  OBVIOUS
<1>1. TablesOK
  BY EmptyIsTable, Bounds DEF Init, TablesOK
<1>2. RefreshOK
  BY IdleRecord DEF Init, RefreshOK
<1>3. tasks \in [Workers -> Task]
  BY IdleTask DEF Init
<1>4. AttachedOK
  BY DEF Init, AttachedOK, Empty
<1>5. QED
  BY <1>1, <1>2, <1>3, <1>4 DEF TypeOK

LEMMA SentLimits == Limits \subseteq LimitTypes
BY CatalogAssumption DEF LimitTypes

LEMMA PackageRequestType == TypeOK /\ PackageRequest => TypeOK'
<1> SUFFICES ASSUME TypeOK, PackageRequest PROVE TypeOK'
  OBVIOUS
<1>1. ASSUME NEW k \in Packages, NEW limit \in Limits, NEW value \in Values,
             NEW extras \in Extras, CreatePackage(k, limit, value, extras)
      PROVE  TypeOK'
  BY <1>1, PackageType, SentLimits
<1>2. ASSUME NEW k \in Packages, NEW limit \in Limits, NEW value \in Values,
             NEW extras \in Extras, NEW enabled \in BOOLEAN,
             UpdatePackage(k, limit, value, extras, enabled)
      PROVE  TypeOK'
  BY <1>2, PackageType, SentLimits
<1>3. ASSUME NEW k \in Packages, DeletePackage(k) PROVE TypeOK'
  BY <1>3, DeletePackageType
<1>4. QED
  BY <1>1, <1>2, <1>3, GenerateType DEF PackageRequest

LEMMA NextType == TypeOK /\ [Next]_vars => TypeOK'
<1> SUFFICES ASSUME TypeOK, [Next]_vars PROVE TypeOK'
  OBVIOUS
<1>1. CASE PackageRequest
  BY <1>1, PackageRequestType
<1>2. CASE ProfileRequest
  BY <1>2, ProfileType, DeleteProfileType DEF ProfileRequest
<1>3. CASE UserRequest
  BY <1>3, CreateUserType, EditType, DeleteUserType DEF UserRequest
<1>4. CASE \E w \in Workers : Fail(w)
  BY <1>4, EditType
<1>5. CASE \E r \in Refreshers : RefreshFromDB(r) \/ RefreshError(r)
  BY <1>5, ReadType, ApplyType DEF RefreshFromDB
<1>6. CASE UNCHANGED vars
  BY <1>6 DEF vars, TypeOK, TablesOK, RefreshOK, RefreshRecord, AttachedOK, IsTable
<1>7. QED
  BY <1>1, <1>2, <1>3, <1>4, <1>5, <1>6 DEF Next

\* Every table, request and refresh, and the cache, have the values their
\* declarations say, whatever overlaps what.
THEOREM CatalogTypeCorrect == Spec => []TypeOK
<1>1. Init => TypeOK
  BY InitType
<1>2. TypeOK /\ [Next]_vars => TypeOK'
  BY NextType
<1>3. QED
  BY <1>1, <1>2, PTL DEF Spec

-----------------------------------------------------------------------------
(* How a step changes the users and the requests in progress *)

Inserted(u, row) ==
  /\ u \notin drawn /\ drawn' = drawn \cup {u}
  /\ users' = Put(users, u, row)
  /\ Exclusive(row) /\ Storable(row)
  /\ UNCHANGED profiles

Removed(u) == users' = Without(users, u) /\ UNCHANGED <<drawn, profiles>>

Cleared(p) ==
  /\ users' = Unassigned(users, p) /\ profiles' = Without(profiles, p)
  /\ UNCHANGED drawn

Edited(w, row) ==
  /\ tasks[w].op \in {"user", "assign"} /\ tasks[w].id \in DOMAIN users
  /\ users' = [users EXCEPT ![tasks[w].id] = row]
  /\ row.package = tasks[w].row.package /\ row.terms = tasks[w].row.terms
  /\ row.profile \in {tasks[w].row.profile, Nil} \/ tasks[w].op = "assign"
  /\ Storable(row)
  /\ UNCHANGED <<drawn, profiles>>

Kept ==
  /\ UNCHANGED users
  /\ drawn \subseteq drawn' /\ DOMAIN profiles \subseteq DOMAIN profiles'

LEMMA UserChanges ==
  ASSUME TypeOK, [Next]_vars
  PROVE  \/ Kept
         \/ \E u, row : Inserted(u, row)
         \/ \E u : Removed(u)
         \/ \E p : Cleared(p)
         \/ \E w \in Workers, row \in User : Edited(w, row)
<1>1. CASE PackageRequest
  <2>1. ASSUME NEW w \in Workers, NEW u \in Users, GenerateOneVoucher(w, u)
        PROVE  \E v, row : Inserted(v, row)
    <3> DEFINE row == Voucher(tasks[w].id, tasks[w].row)
    <3>1. Exclusive(row) /\ Storable(row)
      BY DEF Voucher, Exclusive, Storable
    <3>2. Inserted(u, row)
      BY <2>1, <3>1 DEF GenerateOneVoucher, Issue, Inserted
    <3>3. QED
      BY <3>2
  <2>2. CASE UNCHANGED <<users, profiles>> /\ drawn \subseteq drawn'
    BY <2>2 DEF Kept
  <2>3. ASSUME ~ \E w \in Workers, u \in Users : GenerateOneVoucher(w, u)
        PROVE  UNCHANGED <<users, profiles>> /\ drawn \subseteq drawn'
    BY <1>1, <2>3
       DEF PackageRequest, CreatePackage, UpdatePackage, DeletePackage,
           GenerateVouchers, Generated
  <2>4. QED
    BY <2>1, <2>2, <2>3
<1>2. CASE ProfileRequest
  <2>1. ASSUME NEW p \in Profiles, DeleteProfile(p) PROVE Cleared(p)
    BY <2>1 DEF DeleteProfile, Cleared
  <2>2. ASSUME NEW p \in Profiles, NEW value \in Values, CreateProfile(p, value)
        PROVE  Kept
    BY <2>2 DEF CreateProfile, Kept, Put
  <2>3. ASSUME NEW p \in Profiles, NEW value \in Values, NEW enabled \in BOOLEAN,
               UpdateProfile(p, value, enabled)
        PROVE  Kept
    BY <2>3 DEF UpdateProfile, Kept
  <2>4. QED
    BY <1>2, <2>1, <2>2, <2>3 DEF ProfileRequest
<1>3. CASE UserRequest
  <2>1. ASSUME NEW u \in Users, DeleteUser(u) PROVE Removed(u)
    BY <2>1 DEF DeleteUser, Removed
  <2>2. ASSUME NEW w \in Workers, NEW u \in Users, NEW allowance \in Values,
               CreateUser(w, u, allowance)
        PROVE  \E v, row : Inserted(v, row)
    <3> DEFINE row == [package |-> Nil, profile |-> tasks[w].profile, terms |-> <<>>,
                       allowance |-> allowance]
    <3>1. Inserted(u, row)
      BY <2>2 DEF CreateUser, Inserted, Exclusive
    <3>2. QED
      BY <3>1
  <2>3. ASSUME NEW w \in Workers, UpdateSubscriber(w)
        PROVE  \E row \in User : Edited(w, row)
    <3>1. PICK row \in User :
            /\ UpdateUser(w, row)
            /\ tasks[w].op \in {"user", "assign"}
            /\ row.package = tasks[w].row.package /\ row.terms = tasks[w].row.terms
            /\ row.profile = tasks[w].row.profile \/ row.profile = Nil
                 \/ tasks[w].op = "assign"
      BY <2>3, Edits
    <3>2. Edited(w, row)
      BY <3>1 DEF UpdateUser, Edited
    <3>3. QED
      BY <3>2
  <2>4. ASSUME NEW w \in Workers,
               \/ \E p \in Profiles \cup {Nil} : BeginCreate(w, p)
               \/ \E p \in Profiles : Assign(w, p)
               \/ \E u \in Users : ReadUser(w, u)
        PROVE  Kept
    BY <2>4 DEF BeginCreate, Assign, ReadUser, tables, Kept
  <2>5. QED
    BY <1>3, <2>1, <2>2, <2>3, <2>4 DEF UserRequest
<1>4. CASE \E w \in Workers : Fail(w)
  BY <1>4 DEF Fail, tables, Kept
<1>5. CASE \E r \in Refreshers : RefreshFromDB(r) \/ RefreshError(r)
  BY <1>5
     DEF RefreshFromDB, ReadUsers, ReadProfiles, ReadPackages, Apply, RefreshError,
         tables, Kept
<1>6. CASE UNCHANGED vars
  BY <1>6 DEF vars, Kept
<1>7. QED
  BY <1>1, <1>2, <1>3, <1>4, <1>5, <1>6 DEF Next

\* What worker w is doing after the step.
TaskKnown(w) ==
  \/ tasks'[w] = tasks[w]
  \/ tasks'[w].op \notin {"user", "assign", "generate"}
  \/ /\ tasks'[w].op = "user" /\ tasks'[w].id \in DOMAIN users
     /\ tasks'[w].row = users[tasks'[w].id]
     /\ UNCHANGED <<users, drawn>>
  \/ /\ tasks'[w].op = "assign" /\ tasks[w].op = "user"
     /\ tasks[w].row.package = Nil
     /\ tasks'[w].id = tasks[w].id /\ tasks'[w].row = tasks[w].row
  \/ tasks'[w].op = "generate" /\ tasks'[w].made = {}
  \/ /\ tasks'[w].op = "generate" /\ tasks[w].op = "generate"
     /\ tasks'[w].row = tasks[w].row
     /\ \E u \in Users :
          /\ u \notin drawn /\ drawn' = drawn \cup {u}
          /\ tasks'[w].made = tasks[w].made \cup {u}
          /\ users' = Put(users, u, Voucher(tasks[w].id, tasks[w].row))

LEMMA OneTask ==
  ASSUME NEW w \in Workers, NEW t, tasks' = [tasks EXCEPT ![w] = t], TypeOK,
         TaskKnown(w)
  PROVE  \A v \in Workers : TaskKnown(v)
<1>1. ASSUME NEW v \in Workers, v # w PROVE tasks'[v] = tasks[v]
  BY <1>1 DEF TypeOK
<1>2. QED
  BY <1>1 DEF TaskKnown

LEMMA SameTasks ==
  ASSUME UNCHANGED tasks
  PROVE  \A w \in Workers : TaskKnown(w)
BY DEF TaskKnown

LEMMA IdleOp == ASSUME TypeOK, NEW w \in Workers, tasks' = [tasks EXCEPT ![w] = Idle]
                PROVE  \A v \in Workers : TaskKnown(v)
<1>1. tasks'[w].op = "idle"
  BY DEF TypeOK, Idle
<1>2. QED
  BY <1>1, OneTask DEF TaskKnown

LEMMA TaskChanges ==
  ASSUME TypeOK, [Next]_vars
  PROVE  \A w \in Workers : TaskKnown(w)
<1>1. CASE PackageRequest
  <2>1. ASSUME NEW w \in Workers, NEW k \in Packages, NEW count \in 1 .. MaxCount,
               GenerateVouchers(w, k, count)
        PROVE  \A v \in Workers : TaskKnown(v)
    <3> DEFINE t == [op |-> "generate", id |-> k, row |-> packages[k],
                     left |-> count, made |-> {}]
    <3>1. tasks' = [tasks EXCEPT ![w] = t]
      BY <2>1 DEF GenerateVouchers, Begin
    <3>2. TaskKnown(w)
      BY <3>1 DEF TaskKnown, TypeOK
    <3>3. QED
      BY <3>1, <3>2, OneTask
  <2>2. ASSUME NEW w \in Workers, NEW u \in Users, GenerateOneVoucher(w, u)
        PROVE  \A v \in Workers : TaskKnown(v)
    <3> DEFINE t == [tasks[w] EXCEPT !.left = @ - 1, !.made = @ \cup {u}]
    <3>1. tasks' = [tasks EXCEPT ![w] = t]
      BY <2>2 DEF GenerateOneVoucher, Issue, TypeOK
    <3>2. tasks[w] \in [op: {"generate"}, id: Packages, row: Package,
                        left: 0 .. MaxCount, made: SUBSET Users]
      BY <2>2 DEF GenerateOneVoucher, TypeOK, Task, Idle
    <3>3. /\ t.op = "generate" /\ t.row = tasks[w].row
          /\ t.made = tasks[w].made \cup {u}
      BY <3>2
    <3>4. tasks'[w] = t
      BY <3>1 DEF TypeOK
    <3>5. /\ u \notin drawn /\ drawn' = drawn \cup {u}
          /\ users' = Put(users, u, Voucher(tasks[w].id, tasks[w].row))
          /\ tasks[w].op = "generate"
      BY <2>2 DEF GenerateOneVoucher, Issue
    <3>6. TaskKnown(w)
      BY <3>3, <3>4, <3>5 DEF TaskKnown
    <3>7. QED
      BY <3>1, <3>6, OneTask
  <2>3. ASSUME NEW w \in Workers, Generated(w)
        PROVE  \A v \in Workers : TaskKnown(v)
    BY <2>3, IdleOp DEF Generated, Continue
  <2>4. CASE UNCHANGED tasks
    BY <2>4, SameTasks
  <2>5. QED
    BY <1>1, <2>1, <2>2, <2>3, <2>4
       DEF PackageRequest, CreatePackage, UpdatePackage, DeletePackage
<1>2. CASE ProfileRequest
  BY <1>2, SameTasks DEF ProfileRequest, CreateProfile, UpdateProfile, DeleteProfile
<1>3. CASE UserRequest
  <2>1. ASSUME NEW w \in Workers, NEW p, BeginCreate(w, p)
        PROVE  \A v \in Workers : TaskKnown(v)
    <3> DEFINE t == [op |-> "create", profile |-> p]
    <3>1. tasks' = [tasks EXCEPT ![w] = t]
      BY <2>1 DEF BeginCreate, Begin
    <3>2. TaskKnown(w)
      BY <3>1 DEF TaskKnown, TypeOK
    <3>3. QED
      BY <3>1, <3>2, OneTask
  <2>2. ASSUME NEW w \in Workers, NEW u, NEW allowance, CreateUser(w, u, allowance)
        PROVE  \A v \in Workers : TaskKnown(v)
    BY <2>2, IdleOp DEF CreateUser, Continue
  <2>3. ASSUME NEW w \in Workers, NEW u, ReadUser(w, u)
        PROVE  \A v \in Workers : TaskKnown(v)
    <3> DEFINE t == [op |-> "user", id |-> u, row |-> users[u]]
    <3>1. tasks' = [tasks EXCEPT ![w] = t]
      BY <2>3 DEF ReadUser, Begin
    <3>2. UNCHANGED <<users, drawn>> /\ u \in DOMAIN users
      BY <2>3 DEF ReadUser, tables
    <3>3. TaskKnown(w)
      BY <3>1, <3>2 DEF TaskKnown, TypeOK
    <3>4. QED
      BY <3>1, <3>3, OneTask
  <2>4. ASSUME NEW w \in Workers, NEW p, Assign(w, p)
        PROVE  \A v \in Workers : TaskKnown(v)
    <3> DEFINE t == [op |-> "assign", id |-> tasks[w].id, row |-> tasks[w].row,
                     profile |-> p]
    <3>1. tasks' = [tasks EXCEPT ![w] = t]
      BY <2>4 DEF Assign, TypeOK
    <3>2. TaskKnown(w)
      BY <2>4, <3>1 DEF Assign, TaskKnown, TypeOK
    <3>3. QED
      BY <3>1, <3>2, OneTask
  <2>5. ASSUME NEW w \in Workers, UpdateSubscriber(w)
        PROVE  \A v \in Workers : TaskKnown(v)
    BY <2>5, Edits, IdleOp DEF UpdateUser
  <2>6. CASE UNCHANGED tasks
    BY <2>6, SameTasks
  <2>7. QED
    BY <1>3, <2>1, <2>2, <2>3, <2>4, <2>5, <2>6 DEF UserRequest, DeleteUser
<1>4. CASE \E w \in Workers : Fail(w)
  BY <1>4, IdleOp DEF Fail
<1>5. CASE \E r \in Refreshers : RefreshFromDB(r) \/ RefreshError(r)
  BY <1>5, SameTasks
     DEF RefreshFromDB, ReadUsers, ReadProfiles, ReadPackages, Apply, RefreshError
<1>6. CASE UNCHANGED vars
  BY <1>6, SameTasks DEF vars
<1>7. QED
  BY <1>1, <1>2, <1>3, <1>4, <1>5, <1>6 DEF Next

-----------------------------------------------------------------------------
(* Profiles in use *)

LEMMA ProfilesNext ==
  ASSUME TypeOK, AssignedProfilesExist, [Next]_vars
  PROVE  AssignedProfilesExist'
<1>1. CASE Kept
  BY <1>1 DEF Kept, AssignedProfilesExist
<1>2. ASSUME NEW u, NEW row, Inserted(u, row) PROVE AssignedProfilesExist'
  BY <1>2 DEF Inserted, Put, Storable, AssignedProfilesExist
<1>3. ASSUME NEW u, Removed(u) PROVE AssignedProfilesExist'
  BY <1>3 DEF Removed, Without, AssignedProfilesExist
<1>4. ASSUME NEW p, Cleared(p) PROVE AssignedProfilesExist'
  <2>1. ASSUME NEW u \in DOMAIN users
        PROVE  Unassigned(users, p)[u].profile \in DOMAIN Without(profiles, p) \cup {Nil}
    <3>1. users[u] \in User /\ users[u].profile \in DOMAIN profiles \cup {Nil}
      BY <2>1 DEF AssignedProfilesExist, TypeOK, TablesOK, IsTable
    <3>2. QED
      BY <3>1 DEF Unassigned, Without, User
  <2>2. QED
    BY <1>4, <2>1 DEF Cleared, Unassigned, AssignedProfilesExist
<1>5. ASSUME NEW w \in Workers, NEW row \in User, Edited(w, row)
      PROVE  AssignedProfilesExist'
  BY <1>5 DEF Edited, Storable, AssignedProfilesExist
<1>6. QED
  BY <1>1, <1>2, <1>3, <1>4, <1>5, UserChanges

\* The profile of every user exists, however many requests validate, assign
\* and delete it at once.
THEOREM ProfilesExist == Spec => []AssignedProfilesExist
<1>1. Init => AssignedProfilesExist
  BY DEF Init, Empty, AssignedProfilesExist
<1>2. TypeOK /\ AssignedProfilesExist /\ [Next]_vars => AssignedProfilesExist'
  BY ProfilesNext
<1>3. QED
  BY <1>1, <1>2, CatalogTypeCorrect, PTL DEF Spec

-----------------------------------------------------------------------------
(* Packages and profiles exclude each other *)

\* A row that an edit has read is exclusive, and stays good for the write.
RowsExclusive ==
  /\ \A u \in DOMAIN users : Exclusive(users[u])
  /\ \A w \in Workers :
       /\ tasks[w].op = "user" => Exclusive(tasks[w].row)
       /\ tasks[w].op = "assign" => tasks[w].row.package = Nil

\* The refreshes in progress and the cache hold exclusive rows.
CopiesExclusive ==
  /\ \A r \in Refreshers : \A u \in DOMAIN refresh[r].users :
       Exclusive(refresh[r].users[u])
  /\ \A u \in DOMAIN attached :
       /\ Exclusive(attached[u].row)
       /\ attached[u].profile = {} \/ attached[u].package = {}

LEMMA RowsNext ==
  ASSUME TypeOK, RowsExclusive, [Next]_vars
  PROVE  RowsExclusive'
<1>1. \A u \in DOMAIN users' : Exclusive(users'[u])
  <2>1. CASE Kept
    BY <2>1 DEF Kept, RowsExclusive
  <2>2. ASSUME NEW u, NEW row, Inserted(u, row)
        PROVE  \A v \in DOMAIN users' : Exclusive(users'[v])
    BY <2>2 DEF Inserted, Put, RowsExclusive
  <2>3. ASSUME NEW u, Removed(u)
        PROVE  \A v \in DOMAIN users' : Exclusive(users'[v])
    BY <2>3 DEF Removed, Without, RowsExclusive
  <2>4. ASSUME NEW p, Cleared(p)
        PROVE  \A v \in DOMAIN users' : Exclusive(users'[v])
    <3>1. ASSUME NEW v \in DOMAIN users PROVE Exclusive(Unassigned(users, p)[v])
      <4>1. users[v] \in User /\ Exclusive(users[v])
        BY DEF RowsExclusive, TypeOK, TablesOK, IsTable
      <4>2. QED
        BY <4>1 DEF Unassigned, User, Exclusive
    <3>2. QED
      BY <2>4, <3>1 DEF Cleared, Unassigned
  <2>5. ASSUME NEW w \in Workers, NEW row \in User, Edited(w, row)
        PROVE  \A v \in DOMAIN users' : Exclusive(users'[v])
    <3>1. Exclusive(row)
      BY <2>5 DEF Edited, Exclusive, RowsExclusive
    <3>2. QED
      BY <2>5, <3>1 DEF Edited, RowsExclusive
  <2>6. QED
    BY <2>1, <2>2, <2>3, <2>4, <2>5, UserChanges
<1>2. ASSUME NEW w \in Workers
      PROVE  /\ tasks'[w].op = "user" => Exclusive(tasks'[w].row)
             /\ tasks'[w].op = "assign" => tasks'[w].row.package = Nil
  <2>1. TaskKnown(w)
    BY TaskChanges
  <2>2. QED
    BY <2>1 DEF TaskKnown, RowsExclusive
<1>3. QED
  BY <1>1, <1>2 DEF RowsExclusive

LEMMA CopiesNext ==
  ASSUME TypeOK, RowsExclusive, CopiesExclusive, [Next]_vars
  PROVE  CopiesExclusive'
<1>1. CASE UNCHANGED <<refresh, attached>>
  BY <1>1 DEF CopiesExclusive
<1>2. ASSUME NEW r \in Refreshers, RefreshFromDB(r) \/ RefreshError(r)
      PROVE  CopiesExclusive'
  <2>1. RefreshRecord(refresh[r]) /\ DOMAIN refresh = Refreshers
    BY DEF TypeOK, RefreshOK
  <2>2. PICK pc, read, profs, packs :
          /\ refresh' = [refresh EXCEPT ![r] = Holding(pc, read, profs, packs)]
          /\ \A u \in DOMAIN read : Exclusive(read[u])
    <3>1. CASE ReadUsers(r)
      BY <3>1 DEF ReadUsers, RowsExclusive
    <3>2. CASE ReadProfiles(r)
      BY <2>1, <3>2 DEF ReadProfiles, CopiesExclusive
    <3>3. CASE ReadPackages(r)
      BY <2>1, <3>3 DEF ReadPackages, CopiesExclusive
    <3>4. CASE Apply(r) \/ RefreshError(r)
      <4>1. \A u \in DOMAIN Empty : Exclusive(Empty[u])
        BY DEF Empty
      <4>2. QED
        BY <3>4, <4>1 DEF Apply, RefreshError, IdleRefresh
    <3>5. QED
      BY <1>2, <3>1, <3>2, <3>3, <3>4 DEF RefreshFromDB
  <2>3. \A s \in Refreshers : \A u \in DOMAIN refresh'[s].users :
          Exclusive(refresh'[s].users[u])
    BY <2>1, <2>2 DEF CopiesExclusive, Holding
  <2>4. ASSUME NEW u \in DOMAIN attached'
        PROVE  /\ Exclusive(attached'[u].row)
               /\ attached'[u].profile = {} \/ attached'[u].package = {}
    <3>1. CASE UNCHANGED attached
      BY <3>1 DEF CopiesExclusive
    <3>2. CASE Apply(r)
      <4> DEFINE us == refresh[r].users
                 ps == refresh[r].profiles
                 ks == refresh[r].packages
      <4>1. attached' = View(us, ps, ks)
        BY <3>2 DEF Apply
      <4>2. /\ IsTable(us, Users, User) /\ IsTable(ps, Profiles, Profile)
            /\ IsTable(ks, Packages, Package)
        BY <2>1 DEF RefreshRecord
      <4>3. /\ u \in DOMAIN us /\ attached'[u].row = us[u]
            /\ us[u].profile = Nil => attached'[u].profile = {}
            /\ us[u].package = Nil => attached'[u].package = {}
        BY <4>1, <4>2, ViewTyped
      <4>4. Exclusive(us[u])
        BY <4>3 DEF CopiesExclusive
      <4>5. QED
        BY <4>3, <4>4 DEF Exclusive
    <3>3. QED
      BY <1>2, <3>1, <3>2
         DEF RefreshFromDB, ReadUsers, ReadProfiles, ReadPackages, RefreshError
  <2>5. QED
    BY <2>3, <2>4 DEF CopiesExclusive
<1>3. CASE UNCHANGED vars
  BY <1>1, <1>3 DEF vars
<1>4. CASE PackageRequest
  BY <1>1, <1>4
     DEF PackageRequest, CreatePackage, UpdatePackage, DeletePackage,
         GenerateVouchers, GenerateOneVoucher, Issue, Generated
<1>5. CASE ProfileRequest
  BY <1>1, <1>5 DEF ProfileRequest, CreateProfile, UpdateProfile, DeleteProfile
<1>6. CASE UserRequest
  BY <1>1, <1>6
     DEF UserRequest, DeleteUser, BeginCreate, CreateUser, ReadUser, Assign,
         UpdateSubscriber, UpdateUser
<1>7. CASE \E w \in Workers : Fail(w)
  BY <1>1, <1>7 DEF Fail
<1>8. QED
  BY <1>2, <1>3, <1>4, <1>5, <1>6, <1>7 DEF Next

\* No user has a package and a profile, in the table, in a request, in a
\* refresh or in the cache, whatever overlaps what.
THEOREM PackagesExcludeProfiles == Spec => []NeverBoth
<1>1. Init => RowsExclusive /\ CopiesExclusive
  BY DEF Init, Empty, Idle, IdleRefresh, Holding, RowsExclusive, CopiesExclusive
<1>2. TypeOK /\ RowsExclusive /\ CopiesExclusive /\ [Next]_vars
        => RowsExclusive' /\ CopiesExclusive'
  BY RowsNext, CopiesNext
<1>3. RowsExclusive /\ CopiesExclusive => NeverBoth
  BY DEF RowsExclusive, CopiesExclusive, NeverBoth
<1>4. QED
  BY <1>1, <1>2, <1>3, CatalogTypeCorrect, PTL DEF Spec

-----------------------------------------------------------------------------
(* The terms of a voucher *)

\* An id is never drawn twice, so a row that was read and deleted meanwhile
\* cannot be written over another user's.
UsersDrawn ==
  /\ DOMAIN users \subseteq drawn
  /\ \A w \in Workers :
       /\ tasks[w].op \in {"user", "assign"} => tasks[w].id \in drawn
       /\ tasks[w].op = "generate" => tasks[w].made \subseteq drawn

\* A request holds the terms the table holds.
TermsHeld ==
  \A w \in Workers :
    /\ tasks[w].op \in {"user", "assign"} /\ tasks[w].id \in DOMAIN users =>
         tasks[w].row.terms = users[tasks[w].id].terms
    /\ tasks[w].op = "generate" =>
         \A u \in tasks[w].made \cap DOMAIN users : users[u].terms = Terms(tasks[w].row)

TermsStep ==
  /\ drawn \subseteq drawn' /\ DOMAIN users' \subseteq drawn'
  /\ DOMAIN users' \cap drawn \subseteq DOMAIN users
  /\ \A u \in DOMAIN users \cap DOMAIN users' : users'[u].terms = users[u].terms

LEMMA TermsChange ==
  ASSUME TypeOK, UsersDrawn, TermsHeld, [Next]_vars
  PROVE  TermsStep
<1>1. CASE Kept
  BY <1>1 DEF Kept, TermsStep, UsersDrawn
<1>2. ASSUME NEW u, NEW row, Inserted(u, row) PROVE TermsStep
  BY <1>2 DEF Inserted, Put, TermsStep, UsersDrawn
<1>3. ASSUME NEW u, Removed(u) PROVE TermsStep
  BY <1>3 DEF Removed, Without, TermsStep, UsersDrawn
<1>4. ASSUME NEW p, Cleared(p) PROVE TermsStep
  <2>1. ASSUME NEW u \in DOMAIN users
        PROVE  Unassigned(users, p)[u].terms = users[u].terms
    <3>1. users[u] \in User
      BY DEF TypeOK, TablesOK, IsTable
    <3>2. QED
      BY <3>1 DEF Unassigned, User
  <2>2. DOMAIN Unassigned(users, p) = DOMAIN users
    BY DEF Unassigned
  <2>3. QED
    BY <1>4, <2>1, <2>2 DEF Cleared, TermsStep, UsersDrawn
<1>5. ASSUME NEW w \in Workers, NEW row \in User, Edited(w, row) PROVE TermsStep
  <2>1. row.terms = users[tasks[w].id].terms
    BY <1>5 DEF Edited, TermsHeld
  <2>2. QED
    BY <1>5, <2>1 DEF Edited, TermsStep, UsersDrawn
<1>6. QED
  BY <1>1, <1>2, <1>3, <1>4, <1>5, UserChanges

LEMMA DrawnNext ==
  ASSUME TypeOK, UsersDrawn, TermsHeld, [Next]_vars
  PROVE  UsersDrawn'
<1>1. TermsStep
  BY TermsChange
<1>2. ASSUME NEW w \in Workers
      PROVE  /\ tasks'[w].op \in {"user", "assign"} => tasks'[w].id \in drawn'
             /\ tasks'[w].op = "generate" => tasks'[w].made \subseteq drawn'
  <2>1. TaskKnown(w)
    BY TaskChanges
  <2>2. QED
    BY <1>1, <2>1 DEF TaskKnown, UsersDrawn, TermsStep
<1>3. QED
  BY <1>1, <1>2 DEF TermsStep, UsersDrawn

LEMMA HeldNext ==
  ASSUME TypeOK, UsersDrawn, TermsHeld, [Next]_vars
  PROVE  TermsHeld'
<1> SUFFICES ASSUME NEW w \in Workers
             PROVE  /\ tasks'[w].op \in {"user", "assign"}
                         /\ tasks'[w].id \in DOMAIN users' =>
                         tasks'[w].row.terms = users'[tasks'[w].id].terms
                    /\ tasks'[w].op = "generate" =>
                         \A u \in tasks'[w].made \cap DOMAIN users' :
                           users'[u].terms = Terms(tasks'[w].row)
  BY DEF TermsHeld
<1>1. TermsStep
  BY TermsChange
<1>2. TaskKnown(w)
  BY TaskChanges
<1>3. CASE tasks'[w] = tasks[w]
  BY <1>1, <1>3 DEF TermsHeld, TermsStep, UsersDrawn
<1>4. CASE /\ tasks'[w].op = "user" /\ tasks'[w].id \in DOMAIN users
           /\ tasks'[w].row = users[tasks'[w].id] /\ UNCHANGED users
  BY <1>4
<1>5. CASE /\ tasks'[w].op = "assign" /\ tasks[w].op = "user"
           /\ tasks'[w].id = tasks[w].id /\ tasks'[w].row = tasks[w].row
  BY <1>1, <1>5 DEF TermsHeld, TermsStep, UsersDrawn
<1>6. CASE tasks'[w].op = "generate" /\ tasks'[w].made = {}
  BY <1>6
<1>7. CASE /\ tasks'[w].op = "generate" /\ tasks[w].op = "generate"
           /\ tasks'[w].row = tasks[w].row
           /\ \E u \in Users :
                /\ u \notin drawn /\ drawn' = drawn \cup {u}
                /\ tasks'[w].made = tasks[w].made \cup {u}
                /\ users' = Put(users, u, Voucher(tasks[w].id, tasks[w].row))
  <2>1. PICK u \in Users :
          /\ tasks'[w].made = tasks[w].made \cup {u}
          /\ users' = Put(users, u, Voucher(tasks[w].id, tasks[w].row))
    BY <1>7
  <2>2. users'[u].terms = Terms(tasks'[w].row)
    BY <1>7, <2>1 DEF Put, Voucher
  <2>3. ASSUME NEW v \in tasks[w].made \cap DOMAIN users'
        PROVE  users'[v].terms = Terms(tasks'[w].row)
    BY <1>1, <1>7, <2>3 DEF TermsStep, TermsHeld, UsersDrawn
  <2>4. QED
    BY <1>7, <2>1, <2>2, <2>3
<1>8. QED
  BY <1>2, <1>3, <1>4, <1>5, <1>6, <1>7 DEF TaskKnown

LEMMA TermsInvariant == Spec => [](UsersDrawn /\ TermsHeld)
<1>1. Init => UsersDrawn /\ TermsHeld
  BY DEF Init, Empty, Idle, UsersDrawn, TermsHeld
<1>2. TypeOK /\ UsersDrawn /\ TermsHeld /\ [Next]_vars => UsersDrawn' /\ TermsHeld'
  BY DrawnNext, HeldNext
<1>3. QED
  BY <1>1, <1>2, CatalogTypeCorrect, PTL DEF Spec

\* The time limit, the data cap and the speeds of a voucher stay as sold, for
\* any number of edits that overlap: a row read earlier is only written over
\* the voucher it was read from.  The columns an edit may name, and the ones
\* that are not copied, are not among the terms.
THEOREM TermsNeverChange == Spec => TermsSold
<1>1. TypeOK /\ UsersDrawn /\ TermsHeld /\ [Next]_vars =>
        [\A u \in DOMAIN users \cap DOMAIN users' : users'[u].terms = users[u].terms]_vars
  BY TermsChange DEF TermsStep
<1>2. QED
  BY <1>1, CatalogTypeCorrect, TermsInvariant, PTL DEF Spec, TermsSold

\* The vouchers of one request are sold on the same terms, in batches of any
\* size and whatever happens to the package meanwhile.
THEOREM BatchesUniform == Spec => []BatchUniform
<1>1. TermsHeld => BatchUniform
  BY DEF TermsHeld, BatchUniform
<1>2. QED
  BY <1>1, TermsInvariant, PTL

=============================================================================
