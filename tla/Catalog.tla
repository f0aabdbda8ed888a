------------------------------- MODULE Catalog -------------------------------
(***************************************************************************)
(* Voucher packages, PPPoE profiles and the users they are given to        *)
(* (voucher_service.go, pppoe_profile_service.go and their handlers): the  *)
(* requests that change the three tables in more than one statement, and   *)
(* the refresh that attaches packages and profiles to the cached users.    *)
(* A voucher has a copy of some columns of its package, and the others     *)
(* are looked up in the package that is attached to it.                    *)
(* Usernames, passwords and the rest of a row are left to module Server.   *)
(***************************************************************************)
EXTENDS Integers, FiniteSets

CONSTANTS
  Users,        \* UUIDs of radius_users rows
  Packages,     \* UUIDs of voucher_packages rows
  Profiles,     \* UUIDs of pppoe_profiles rows
  Values,       \* what the remaining columns of a package, profile or user may hold
  Extras,       \* what the address pool and DNS servers of a package may be
  Workers,      \* API requests in progress
  Refreshers,   \* executions of refreshFromDB in progress
  Limits,       \* the time limit types that are sent
  MaxCount,     \* bound: vouchers generated by one request
  MaxRequests,  \* bound: requests
  Nil

ASSUME CatalogAssumption ==
  /\ Nil \notin Packages \cup Profiles
  /\ Limits \subseteq {"usage", "calendar", ""}
  /\ MaxCount \in Nat
  /\ MaxRequests \in Nat

VARIABLES
  packages,     \* voucher_packages: id -> Package
  profiles,     \* pppoe_profiles: id -> Profile
  users,        \* radius_users: id -> User
  drawn,        \* UUIDs that have been used
  requests,     \* API requests that change something, so far
  tasks,        \* the request each worker is in the middle of
  refresh,      \* refreshFromDB, per execution
  attached      \* Service.subscribers: id -> user, profile and package

tables == <<packages, profiles, users>>
vars == <<packages, profiles, users, drawn, requests, tasks, refresh, attached>>

\* domain.TimeLimitType as it may be stored.
LimitTypes == {"usage", "calendar", ""}

Package == [limit: LimitTypes, value: Values, extras: Extras, enabled: BOOLEAN]
Profile == [value: Values, enabled: BOOLEAN]

\* terms: the time limit and its type, the data cap and the speeds, copied
\* from a package, empty for a subscriber.  allowance: simultaneous_use and
\* max_total_octets, copied from a package too, which a request may change.
User == [package: Packages \cup {Nil}, profile: Profiles \cup {Nil},
         terms: {<<>>} \cup {<<l, v>> : l \in LimitTypes, v \in Values},
         allowance: Values]

IsTable(f, K, V) == DOMAIN f \subseteq K /\ \A k \in DOMAIN f : f[k] \in V

Empty == [k \in {} |-> k]

Put(f, key, value) ==
  [k \in DOMAIN f \cup {key} |-> IF k = key THEN value ELSE f[k]]

Without(f, key) == [k \in DOMAIN f \ {key} |-> f[k]]

Terms(package) == <<package.limit, package.value>>

-----------------------------------------------------------------------------
(* Requests in progress *)

Idle == [op |-> "idle"]

\* "create": the profile of a new subscriber, if any, has been validated;
\* "user": the subscriber has been read; "assign": a profile has been
\* validated for it; "generate": the package has been read, made are the
\* vouchers so far.
Task == {Idle}
          \cup [op: {"create"}, profile: Profiles \cup {Nil}]
          \cup [op: {"user"}, id: Users, row: User]
          \cup [op: {"assign"}, id: Users, row: User, profile: Profiles]
          \cup [op: {"generate"}, id: Packages, row: Package, left: 0 .. MaxCount,
                made: SUBSET Users]

Arrives == requests < MaxRequests /\ requests' = requests + 1

Begin(w, task) == tasks[w] = Idle /\ tasks' = [tasks EXCEPT ![w] = task]

Continue(w, op, task) == tasks[w].op = op /\ tasks' = [tasks EXCEPT ![w] = task]

\* A request gives up: an error, a rejected value or the request timeout.
Fail(w) ==
  /\ tasks[w] # Idle
  /\ tasks' = [tasks EXCEPT ![w] = Idle]
  /\ UNCHANGED <<tables, drawn, refresh, attached, requests>>

-----------------------------------------------------------------------------
(* Voucher packages *)

\* A time limit type other than "calendar" becomes "usage".
CreatePackage(k, limit, value, extras) ==
  /\ Arrives
  /\ k \notin drawn
  /\ drawn' = drawn \cup {k}
  /\ packages' = Put(packages, k,
                     [limit |-> IF limit = "calendar" THEN "calendar" ELSE "usage",
                      value |-> value, extras |-> extras, enabled |-> TRUE])
  /\ UNCHANGED <<profiles, users, tasks, refresh, attached>>

\* The row is read and written back with the requested changes; a request
\* may set every column, so the earlier read restricts nothing.  Unlike
\* CreatePackage it stores the time limit type as sent, the empty one too.
UpdatePackage(k, limit, value, extras, enabled) ==
  /\ Arrives
  /\ k \in DOMAIN packages
  /\ packages' = [packages EXCEPT ![k] =
                    [limit |-> limit, value |-> value, extras |-> extras,
                     enabled |-> enabled]]
  /\ UNCHANGED <<profiles, users, drawn, tasks, refresh, attached>>

\* voucher_package_id is not a foreign key.
DeletePackage(k) ==
  /\ Arrives
  /\ k \in DOMAIN packages
  /\ packages' = Without(packages, k)
  /\ UNCHANGED <<profiles, users, drawn, tasks, refresh, attached>>

-----------------------------------------------------------------------------
(* Vouchers *)

GenerateVouchers(w, k, count) ==
  /\ Arrives
  /\ k \in DOMAIN packages
  /\ packages[k].enabled
  /\ Begin(w, [op |-> "generate", id |-> k, row |-> packages[k], left |-> count,
               made |-> {}])
  /\ UNCHANGED <<tables, drawn, refresh, attached>>

\* Nothing of the address pool and the DNS servers is copied.
Voucher(k, row) == [package |-> k, profile |-> Nil, terms |-> Terms(row),
                    allowance |-> row.value]

\* Mutant: one voucher too many.
IssueTooMany(w, u, row) ==
  /\ u \notin drawn
  /\ tasks[w].left >= 0
  /\ drawn' = drawn \cup {u}
  /\ users' = Put(users, u, Voucher(tasks[w].id, row))
  /\ tasks' = [tasks EXCEPT ![w].left = @ - 1, ![w].made = @ \cup {u}]
  /\ UNCHANGED <<packages, profiles, refresh, attached, requests>>

\* Insert voucher u as the package row says and return to the loop.
Issue(w, u, row) ==
  /\ u \notin drawn
  /\ tasks[w].left > 0
  /\ drawn' = drawn \cup {u}
  /\ users' = Put(users, u, Voucher(tasks[w].id, row))
  /\ tasks' = [tasks EXCEPT ![w].left = @ - 1, ![w].made = @ \cup {u}]
  /\ UNCHANGED <<packages, profiles, refresh, attached, requests>>

\* Mutant: the package is read again for every voucher.
GenerateOneVoucherReread(w, u) ==
  /\ tasks[w].op = "generate"
  /\ tasks[w].id \in DOMAIN packages
  /\ Issue(w, u, packages[tasks[w].id])

GenerateOneVoucher(w, u) == tasks[w].op = "generate" /\ Issue(w, u, tasks[w].row)

\* The answer carries the vouchers that were made.
Generated(w) ==
  /\ Continue(w, "generate", Idle)
  /\ tasks[w].left = 0
  /\ UNCHANGED <<tables, drawn, refresh, attached, requests>>

-----------------------------------------------------------------------------
(* PPPoE profiles *)

CreateProfile(p, value) ==
  /\ Arrives
  /\ p \notin drawn
  /\ drawn' = drawn \cup {p}
  /\ profiles' = Put(profiles, p, [value |-> value, enabled |-> TRUE])
  /\ UNCHANGED <<packages, users, tasks, refresh, attached>>

\* As for packages, the write may set every column.
UpdateProfile(p, value, enabled) ==
  /\ Arrives
  /\ p \in DOMAIN profiles
  /\ profiles' = [profiles EXCEPT ![p] = [value |-> value, enabled |-> enabled]]
  /\ UNCHANGED <<packages, users, drawn, tasks, refresh, attached>>

\* Mutant: the column pppoe_profile_id is not ON DELETE SET NULL.
UnassignedNowhere(table, p) == table

\* pppoe_profile_id is a foreign key, ON DELETE SET NULL.
Unassigned(table, p) ==
  [u \in DOMAIN table |-> IF table[u].profile = p THEN [table[u] EXCEPT !.profile = Nil]
                                                  ELSE table[u]]

DeleteProfile(p) ==
  /\ Arrives
  /\ p \in DOMAIN profiles
  /\ profiles' = Without(profiles, p)
  /\ users' = Unassigned(users, p)
  /\ UNCHANGED <<packages, drawn, tasks, refresh, attached>>

-----------------------------------------------------------------------------
(* Subscribers *)

ValidateAssignment(p) == p \in DOMAIN profiles /\ profiles[p].enabled

\* What the foreign key lets the table store.
Storable(row) == row.profile = Nil \/ row.profile \in DOMAIN profiles

\* A subscriber is created without a profile or after validating one.
BeginCreate(w, p) ==
  /\ Arrives
  /\ p = Nil \/ ValidateAssignment(p)
  /\ Begin(w, [op |-> "create", profile |-> p])
  /\ UNCHANGED <<tables, drawn, refresh, attached>>

CreateUser(w, u, allowance) ==
  /\ Continue(w, "create", Idle)
  /\ u \notin drawn
  /\ LET row == [package |-> Nil, profile |-> tasks[w].profile, terms |-> <<>>,
                 allowance |-> allowance]
     IN  Storable(row) /\ users' = Put(users, u, row)
  /\ drawn' = drawn \cup {u}
  /\ UNCHANGED <<packages, profiles, refresh, attached, requests>>

ReadUser(w, u) ==
  /\ Arrives
  /\ u \in DOMAIN users
  /\ Begin(w, [op |-> "user", id |-> u, row |-> users[u]])
  /\ UNCHANGED <<tables, drawn, refresh, attached>>

\* Mutant: validateMutualExclusion is not called.
AssignAnyone(w, p) ==
  /\ tasks[w].op = "user"
  /\ ValidateAssignment(p)
  /\ tasks' = [tasks EXCEPT ![w] = [op |-> "assign", id |-> @.id, row |-> @.row,
                                    profile |-> p]]
  /\ UNCHANGED <<tables, drawn, refresh, attached, requests>>

\* validateMutualExclusion on the row that was read, then ValidateAssignment.
Assign(w, p) ==
  /\ tasks[w].op = "user"
  /\ tasks[w].row.package = Nil
  /\ ValidateAssignment(p)
  /\ tasks' = [tasks EXCEPT ![w] = [op |-> "assign", id |-> @.id, row |-> @.row,
                                    profile |-> p]]
  /\ UNCHANGED <<tables, drawn, refresh, attached, requests>>

\* Mutant: the policy of the package is copied again.
UpdateUserRecopies(w, row) ==
  /\ tasks' = [tasks EXCEPT ![w] = Idle]
  /\ tasks[w].id \in DOMAIN users
  /\ Storable(row)
  /\ users' = [users EXCEPT ![tasks[w].id] =
                 IF row.package \in DOMAIN packages
                   THEN [row EXCEPT !.terms = Terms(packages[row.package])]
                   ELSE row]
  /\ UNCHANGED <<packages, profiles, drawn, refresh, attached, requests>>

\* Every column of the row that was read is written back.  When the row is
\* gone the statement changes nothing, which Fail covers.
UpdateUser(w, row) ==
  /\ tasks' = [tasks EXCEPT ![w] = Idle]
  /\ tasks[w].id \in DOMAIN users
  /\ Storable(row)
  /\ users' = [users EXCEPT ![tasks[w].id] = row]
  /\ UNCHANGED <<packages, profiles, drawn, refresh, attached, requests>>

With(row, profile, allowance) ==
  [row EXCEPT !.profile = profile, !.allowance = allowance]

\* HandleUpdateSubscriber leaves the profile, clears it or assigns one, and
\* leaves or sets the allowance; it has no names for the columns of the terms.
UpdateSubscriber(w) ==
  \E allowance \in Values :
    \/ /\ tasks[w].op = "user"
       /\ \E p \in {tasks[w].row.profile, Nil} :
            UpdateUser(w, With(tasks[w].row, p, allowance))
    \/ /\ tasks[w].op = "assign"
       /\ UpdateUser(w, With(tasks[w].row, tasks[w].profile, allowance))

DeleteUser(u) ==
  /\ Arrives
  /\ u \in DOMAIN users
  /\ users' = Without(users, u)
  /\ UNCHANGED <<packages, profiles, drawn, tasks, refresh, attached>>

-----------------------------------------------------------------------------
(* refreshFromDB: users, then profiles, then packages, one query each.     *)

Holding(pc, us, ps, ks) == [pc |-> pc, users |-> us, profiles |-> ps, packages |-> ks]

IdleRefresh == Holding("users", Empty, Empty, Empty)

ReadUsers(r) ==
  /\ refresh[r].pc = "users"
  /\ refresh' = [refresh EXCEPT ![r] = Holding("profiles", users, Empty, Empty)]
  /\ UNCHANGED <<tables, drawn, tasks, attached, requests>>

ReadProfiles(r) ==
  /\ refresh[r].pc = "profiles"
  /\ refresh' = [refresh EXCEPT ![r] = Holding("packages", @.users, profiles, Empty)]
  /\ UNCHANGED <<tables, drawn, tasks, attached, requests>>

ReadPackages(r) ==
  /\ refresh[r].pc = "packages"
  /\ refresh' = [refresh EXCEPT ![r] = Holding("apply", @.users, @.profiles, packages)]
  /\ UNCHANGED <<tables, drawn, tasks, attached, requests>>

\* The cached users: an enabled profile and any package, if they exist.
View(us, ps, ks) ==
  [u \in DOMAIN us |->
     [row |-> us[u],
      profile |-> IF us[u].profile \in DOMAIN ps /\ ps[us[u].profile].enabled
                    THEN {ps[us[u].profile]} ELSE {},
      package |-> IF us[u].package \in DOMAIN ks THEN {ks[us[u].package]} ELSE {}]]

\* Mutant: a user without a profile keeps the one it had in the cache.
ApplySticky(r) ==
  /\ refresh[r].pc = "apply"
  /\ LET new == View(refresh[r].users, refresh[r].profiles, refresh[r].packages)
     IN  attached' = [u \in DOMAIN new |->
                        IF new[u].profile = {} /\ u \in DOMAIN attached
                          THEN [new[u] EXCEPT !.profile = attached[u].profile] ELSE new[u]]
  /\ refresh' = [refresh EXCEPT ![r] = IdleRefresh]
  /\ UNCHANGED <<tables, drawn, tasks, requests>>

Apply(r) ==
  /\ refresh[r].pc = "apply"
  /\ attached' = View(refresh[r].users, refresh[r].profiles, refresh[r].packages)
  /\ refresh' = [refresh EXCEPT ![r] = IdleRefresh]
  /\ UNCHANGED <<tables, drawn, tasks, requests>>

RefreshError(r) ==
  /\ refresh[r].pc # "users"
  /\ refresh' = [refresh EXCEPT ![r] = IdleRefresh]
  /\ UNCHANGED <<tables, drawn, tasks, attached, requests>>

RefreshFromDB(r) == ReadUsers(r) \/ ReadProfiles(r) \/ ReadPackages(r) \/ Apply(r)

-----------------------------------------------------------------------------

Init ==
  /\ packages = Empty
  /\ profiles = Empty
  /\ users = Empty
  /\ drawn = {}
  /\ requests = 0
  /\ tasks = [w \in Workers |-> Idle]
  /\ refresh = [r \in Refreshers |-> IdleRefresh]
  /\ attached = Empty

PackageRequest ==
  \/ \E k \in Packages, limit \in Limits, value \in Values, extras \in Extras :
       \/ CreatePackage(k, limit, value, extras)
       \/ \E enabled \in BOOLEAN : UpdatePackage(k, limit, value, extras, enabled)
  \/ \E k \in Packages : DeletePackage(k)
  \/ \E w \in Workers :
       \/ \E k \in Packages, count \in 1 .. MaxCount : GenerateVouchers(w, k, count)
       \/ \E u \in Users : GenerateOneVoucher(w, u)
       \/ Generated(w)

ProfileRequest ==
  \/ \E p \in Profiles, value \in Values : CreateProfile(p, value)
  \/ \E p \in Profiles, value \in Values, enabled \in BOOLEAN :
       UpdateProfile(p, value, enabled)
  \/ \E p \in Profiles : DeleteProfile(p)

UserRequest ==
  \/ \E u \in Users : DeleteUser(u)
  \/ \E w \in Workers :
       \/ \E p \in Profiles \cup {Nil} : BeginCreate(w, p)
       \/ \E p \in Profiles : Assign(w, p)
       \/ \E u \in Users, allowance \in Values : CreateUser(w, u, allowance)
       \/ \E u \in Users : ReadUser(w, u)
       \/ UpdateSubscriber(w)

Next ==
  \/ PackageRequest
  \/ ProfileRequest
  \/ UserRequest
  \/ \E w \in Workers : Fail(w)
  \/ \E r \in Refreshers : RefreshFromDB(r) \/ RefreshError(r)

\* A refresh that is tried for ever succeeds infinitely often.
Fairness ==
  \A r \in Refreshers : /\ WF_vars(ReadUsers(r))
                        /\ SF_vars(ReadProfiles(r))
                        /\ SF_vars(ReadPackages(r))
                        /\ SF_vars(Apply(r))

Spec == Init /\ [][Next]_vars

LiveSpec == Spec /\ Fairness

-----------------------------------------------------------------------------
(* Properties *)

TablesOK ==
  /\ IsTable(packages, Packages, Package)
  /\ IsTable(profiles, Profiles, Profile)
  /\ IsTable(users, Users, User)
  /\ drawn \subseteq Users \cup Packages \cup Profiles
  /\ requests \in 0 .. MaxRequests

RefreshRecord(x) ==
  /\ x = Holding(x.pc, x.users, x.profiles, x.packages)
  /\ x.pc \in {"users", "profiles", "packages", "apply"}
  /\ IsTable(x.users, Users, User)
  /\ IsTable(x.profiles, Profiles, Profile)
  /\ IsTable(x.packages, Packages, Package)

RefreshOK ==
  DOMAIN refresh = Refreshers /\ \A r \in Refreshers : RefreshRecord(refresh[r])

AttachedOK ==
  /\ DOMAIN attached \subseteq Users
  /\ \A u \in DOMAIN attached :
       /\ attached[u].row \in User
       /\ attached[u].profile \subseteq Profile
       /\ attached[u].package \subseteq Package

\* Every variable has the values its comment says.
TypeOK ==
  /\ TablesOK
  /\ tasks \in [Workers -> Task]
  /\ RefreshOK
  /\ AttachedOK

Exclusive(row) == row.package = Nil \/ row.profile = Nil

\* No user has a voucher package and a PPPoE profile, in the table, in what
\* a request or a refresh has read, or in the cache: the check made on a row
\* that was read is good for the row that is overwritten later
\* (validate.go:144-151, subscriber_handlers.go:211-229, and
\* docs/adr/003-pppoe-profiles.md:45).
NeverBoth ==
  /\ \A u \in DOMAIN users : Exclusive(users[u])
  /\ \A w \in Workers : tasks[w].op = "assign" => tasks[w].row.package = Nil
  /\ \A r \in Refreshers : \A u \in DOMAIN refresh[r].users :
       Exclusive(refresh[r].users[u])
  /\ \A u \in DOMAIN attached :
       /\ Exclusive(attached[u].row)
       /\ attached[u].profile = {} \/ attached[u].package = {}

\* The profile of every user exists, although it may be deleted between its
\* validation and the statement that assigns it (subscriber_handlers.go:75-79
\* and 107, pppoe_profile_service.go:131-149).
AssignedProfilesExist ==
  \A u \in DOMAIN users : users[u].profile \in DOMAIN profiles \cup {Nil}

\* The vouchers of one request are all sold on the same terms, even if the
\* package is changed or deleted meanwhile (voucher_service.go:180-206).
BatchUniform ==
  \A w \in Workers : tasks[w].op = "generate" =>
    \A u, v \in tasks[w].made \cap DOMAIN users : users[u].terms = users[v].terms

\* The time limit, the data cap and the speeds of a voucher stay as they were
\* sold: no edit names them, and what an edit writes back it has read from the
\* same voucher, whatever is deleted, sold and edited in between
\* (voucher_service.go:234-248, subscriber_handlers.go:157-231 and
\* repository.go:101-118).  simultaneous_use and max_total_octets, copied too,
\* may be edited; for what is not copied see NoRetroactiveChange.
TermsSold ==
  [][\A u \in DOMAIN users \cap DOMAIN users' : users'[u].terms = users[u].terms]_vars

\* Once the tables stop changing, the cached users have the packages and the
\* enabled profiles the tables say, and keep them, although a refresh reads
\* the three tables at different times (service.go:181-246).
CatalogReachesCache ==
  <>[][FALSE]_tables => <>[](attached = View(users, profiles, packages))

\* What an Access-Accept takes from the package of a cached user.
Referenced(user) == {package.extras : package \in user.package}

\* docs/adr/002-voucher-system.md:64-66: "Package changes do not affect
\* already-generated vouchers because policy is copied at generation time.
\* This is intentional: a sold voucher should not change terms after issuance."
\* The address pool and the DNS servers of the package, which the reply to a
\* voucher carries, do not change while the voucher and the package exist
\* (service.go:239-243, auth.go:151-159).
NoRetroactiveChange ==
  [][\A u \in DOMAIN attached \cap DOMAIN attached' :
       attached[u].package # {} /\ attached'[u].package # {} =>
         Referenced(attached'[u]) = Referenced(attached[u])]_vars

=============================================================================
