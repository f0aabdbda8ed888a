# radius-go in TLA+

A model of radius-go, the RADIUS authentication and accounting server with a
PostgreSQL database and an HTTP API, checked with TLC on small instances and,
for thirty of its properties, proved with TLAPS for every instance. Line numbers
refer to the repository; `internal/radius/` is left out of file names.

## 1. The system and what is hard about it

One process serves RADIUS packets from in-memory maps and writes to PostgreSQL
behind the packets' back. The same process serves the administrative API, which
writes to PostgreSQL directly and then asks for the maps to be refreshed.

| Component | State | Operations | Talks to |
|---|---|---|---|
| Access-Request handling (`auth.go`) | none of its own; a copy of the user while it runs | `handleAuth` | reads `subscribers`, `sessions`; starts background writes |
| Access-Accept attributes (`auth.go`, `*_vsa.go`, `pppoe_attributes.go`) | the packet | setters, precedence rules | called by `handleAuth` |
| Accounting (`accounting.go`) | `sessions`, usage in `subscribers` | Start, Interim-Update, Stop | background writes; starts a disconnect when a limit is reached |
| Cache (`service.go`) | `subscribers`, `nases`, guarded by `mu` | `refreshFromDB` by ticker, by every API handler, at start | reads four tables |
| Session housekeeping (`service.go`) | `sessions` | `cleanupStaleSessions`, `ReconcileSessions` | background writes; reads `radius_sessions` |
| Disconnect and CoA (`coa.go`) | the NASes still to be asked | `DisconnectUser`, `ChangeUserProfile` | NASes over UDP; marks `sessions` |
| Repository (`repository.go`) | the tables | one SQL statement per method | PostgreSQL |
| Subscriber and NAS API (`subscriber_handlers.go`, `handlers.go`) | the row a request has read | create, edit, delete | repository, then a refresh |
| Vouchers (`voucher_service.go`) | packages, the batch in progress | packages, `GenerateVouchers`, `GetBalance` | repository, then a refresh |
| PPPoE profiles (`pppoe_profile_service.go`) | profiles | create, edit, delete, assignment | repository, then a refresh |
| Voucher balance (`voucher_service.go`) | the user it has read | `GetBalance` | two reads of the database |
| Migrations (`internal/database/postgres.go`) | `schema_migrations`, the schema | one transaction per migration, at start | PostgreSQL; other processes that start |
| Life cycle (`cmd/`, `internal/app`, `service.go`) | what the process is doing | start-up, serving, shutdown in two stages | signals, the supervisor |
| `radiusctl` (`internal/radiusctl`) | the request it is waiting for | one command, one request | the API, over HTTP |
| HTTP routing, request secret, configuration | - | - | - |

What makes it hard:

* **The copy.** `handleAuth` copies the user under a lock, releases it, and
  decides on the copy; accounting, a refresh or another request change the
  stored user in between.
* **Writes nobody waits for.** Usage, first logins, disables and sessions are
  written by `go s.repo...` goroutines, in any order, with errors discarded.
* **Refreshes that overlap.** A refresh reads the tables without the lock and
  merges what it read later. Any number run at the same time, and the merge must
  neither lose what memory knows and the database does not yet, nor keep what the
  database has changed.
* **UDP.** Packets are retransmitted, lost and reordered; Acct-Session-Id and
  User-Name are all that ties them to a session.
* **Crashes.** Maps and background writes are lost; sessions are not loaded at
  start.
* **Several instances.** They share the database and nothing else: each merges
  the others' charges by maximum, knows the sessions that started at it, and
  migrates the schema when it starts, possibly at the same moment as another or
  a release behind it.
* **Widths.** Octets come as two 32-bit words, are added as 64-bit numbers, and
  leave as 32-bit limits through a signed column.
* **Read, then write, over HTTP.** An edit writes all columns back, usage
  counters included.
* **One attribute number.** Every vendor attribute is RADIUS type 26, and
  `Packet.Set` replaces all attributes of a type.

What makes each component correct: an exhausted voucher is never accepted and is
disabled for good (authentication, accounting, refresh); usage is charged exactly
once (accounting, repository, refresh); first login and expiry stay together
(authentication, repository, refresh); sessions end once and stay ended
(accounting, housekeeping, disconnect); the cache converges to the tables
(refresh, API); nobody has a package and a profile, and no edit changes the limits and
speeds a voucher was sold with (vouchers, profiles, API); an answer carries the limits
(attributes); memory shows
what the NAS enforces (CoA); a partial edit changes what it names (API,
`radiusctl`); a balance is not better or worse than the truth (balance); each
migration is applied once, before anything needs it (migrations).
`PROJECT.json` lists the hazards line by line, with the properties that cover
them or the reason why none does.

## 2. The modules

`Server` is one process over one database. Its state is declared once, in
`ServerState`; each component module adds the actions of its source file.

| Module | Models |
|---|---|
| `Domain` | rows, sessions, usage arithmetic, the voucher limits, maps (`internal/domain`) |
| `ServerState` | the variables, `Init`, `TypeOK`; background writes and disconnects as bags |
| `Auth` | `handleAuth` in six steps, split where it holds no lock |
| `Accounting` | Start, Interim-Update, Stop; the first two steps after a limit is reached |
| `Refresh` | `refreshFromDB` (read users, read NASes, merge; or fail), `Restart` |
| `Sessions` | stale sweep, reconciliation (read, then merge) |
| `Coa` | `DisconnectUser`: collect, one exchange per NAS with three outcomes, finish |
| `Repository` | the execution, or failure, of one background statement |
| `Admin` | subscribers, vouchers and NASes through the API, edits as read and write |
| `Server` | composes them: clock, `Next`, fairness, the properties |
| `Ledger` | no action: the properties about what is on its way to the database (the books of usage, the disabling of a voucher) |
| `Claims` | sentences of the repository that the code does not keep |
| `SessionLifecycle` | abstract specification: what the session map promises |
| `Account` | abstract specification: what several instances together promise of a voucher |
| `Catalog` | packages, profiles, assignments, batches, and the refresh that attaches them |
| `Migrations` | the life of a process: migration runner, serving, shutdown, failure, restart |
| `Cluster` | several such processes over one database, serving a voucher's sessions |
| `Reply` | the blocks of `handleAuth` that build an Access-Accept |
| `Change` | `ChangeUserProfile`: CoA exchanges, and what memory shows afterwards |
| `Edits` | a partial edit from the flags of `radiusctl` to the UPDATE and back |
| `Meter` | octets from the counters on the wire to the balance, with their widths |
| `MCServer`, `MCCluster`, `MCParts` | the values of the small instances; `MCParts` runs one of the four modules before it |
| `ServerProofs`, `CacheProofs`, `SessionProofs`, `LifecycleProofs`, `VoucherProofs` | the theorems about `Server`; `CacheProofs`, which uses those of `VoucherProofs`, has those of `Ledger` |
| `CatalogProofs`, `ClusterProofs` | the theorems about `Catalog` and `Cluster` |
| `PartsProofs` | the theorems about `Reply`, `Change`, `Edits` and `Meter`, and about `MCParts`, which runs them |

`Cluster` EXTENDS `Migrations` and composes each step of a process with what it
does to the process's maps. `Reply`, `Change`, `Edits` and `Meter` share no state
with anything: each stands alone, with an `Init` and a `Next` of its own.

**State.** `subscribers`, `sessions` and `nases` are the maps of `Service`.
`dbUsers`, `dbSessions` and `dbNas` are the tables, keyed by UUID. `writes` is
the bag of statements handed to goroutines and not yet executed; `jobs` is the
bag of disconnect procedures, with what each has left to do. `auth`, `refresh`,
`edit` and `recon` are the local variables of handlers between two critical
sections. `spent` and `issued` are history, used only in properties (and in the
field `late` of a request).

**Atomicity.** A critical section of `mu` is one action, an SQL statement is one
action, and nothing else is atomic. `handleAuth` is thus: copy and start
`RecordFirstLogin` (`Admit`); store the first login (`StampFirstLogin`); reject
by the voucher's limits and disable (`RejectVoucher`), or go on (`PassLimits`);
count the sessions and answer. An accounting packet is one action because
`handleAcct*` holds the lock from the search of the session to the update of the
user. The remaining steps of `disconnectAndDisableVoucher` are steps of the job.

**Abstractions.** A voucher's policy is a function of its row (`Limit`,
`Window`): it is copied into the row when it is created and no handler changes
it, which `Catalog` checks (`TermsSold`). Simultaneous use, which an edit may change,
is a column of the row. Octets and seconds are small numbers.
Passwords and authenticators are outcomes. A host is a model value; `HostPrefix`
says which host's text is a prefix of which peer address, which is all that
`nasContains` looks at. `Admin` names the administrative operations of an
instance; `"custom"` allows vouchers under a chosen username and `"rename"` edits
that change it. In `Catalog` a profile is its
`enabled` flag and one `value` for the rest of its columns; a package moreover has its
time limit type and, as `extras`, its address pool and DNS servers. The columns of a
package go three ways. Time limit and type, data cap and speeds are copied to a voucher,
where no edit names them (`terms`); simultaneous use and the octet limit are copied too,
and an edit may change them (`allowance`); the `extras` are not copied, and looked up in
the package that the refresh attaches. A partial edit is a
write of any row, which includes the write of values read earlier.
In `Reply` a setting is present or absent, and an attribute records whose setting
it carries; only octet limits have a value, for their width. In `Change` a setting
is known by the request that gave it, the NAS applies what is in the packet, and
`HostPrefix` is what it is in `Server`: which sessions `nasContains` takes for those of
the NAS that has answered.
In `Edits` each kind of row has one column for every kind of flag: a pointer, which
can make its column empty, or a string, which cannot; the row as it would be if
every edit were one step (`intended`) is history. `Meter` keeps the numbers:
`Two32` and `MaxInt32` are parameters, and a counter is a pair of words.

`Cluster` has one voucher and treats as one step what `Server` takes apart inside
a process: a refresh, a disconnect, a request. What it adds is what one process
cannot show: packets that reach another instance, a second `Accounting-Start` or a
reconciliation that makes two instances know one session (`copied`), charges each
instance has not written yet (`owed`), processes that die between any two steps.
The NASes and the users' traffic are external: `nas` and `reading` say what state
a session has at its NAS and how much it has used.

## 3. What TLC checks

Twelve runs; bounds are constants named `Max...` and appear in guards.

| Run | Question | Instance |
|---|---|---|
| `MCVoucher` | Is a spent voucher ever accepted, usage charged twice, lost or forgiven, an answer counted wrongly? (`SpentRefused`, `UsageLedger`, `CacheMonotone`, `AnsweredOnce`, `TypeOK`) | one voucher with a limit of 2 seconds, a request, a refresh, readings 1 and 2, so that a limit is reached by one or two updates, counters repeat and go backwards; a write may fail |
| `MCUsers` | Do first login and expiry stay together in every copy of a row, and does the database learn of every refusal? Do sessions end once, with a stop time, and stay ended? (`CalendarWindow`, `RefusalsKept`, `StopStamped`, `SessionsFollowLifecycle`) | one of: a calendar voucher, two requests, two refreshes, a lost write, a restart; or two sessions with one Acct-Session-Id, Starts and Stops repeated, the sweep, a disconnect, a reconciliation, a restart |
| `MCEnforce` | Is a voucher at its limit always on its way to be disabled in the database, and disabled in the end? (`DisableOnItsWay`, `LimitReachesDatabase`) | a data cap of 2, two NASes that acknowledge, refuse or stay silent |
| `MCCache` | Does the cache end up with what the tables hold? (`CacheConverges`, `DisableReachesCache`) | two rows that may take the same name, edits, deletes, NAS changes, two overlapping refreshes |
| `MCCatalog` | Are packages and profiles exclusive, profiles in use present, batches uniform, sold limits and speeds out of reach of edits, and does the catalogue reach the cache? (`NeverBoth`, `AssignedProfilesExist`, `BatchUniform`, `TermsSold`, `CatalogReachesCache`, `TypeOK`) | two users, a package, a profile, two values of every column, a batch of two, four requests, two of them at a time, over one refresh |
| `MCParts` | Do timeouts, bandwidths and octet limits arrive, by precedence and in 32 bits? Does memory show what NASes enforce? Do edits change only what they name, and does success mean written? Is every octet charged, and is the balance honest? (`LimitsDelivered`, `OctetsWithinPolicy`, `ShownIsApplied`, `OnlyOverlapsAreLost`, `SuccessIsWritten`, `AllBytesCharged`, `BalanceHonest`, `PartsTypeOK`) | one of: every combination of settings of user, profile and package, with octet limits around a word of 3; two changes over three sessions on two NASes, the address of one beginning that of the other; two operators and a delete on one row of each kind; traffic of 5 octets around a 32-bit word of 4 and a column of 1 |
| `MCCluster` | With several instances: are migrations applied once and in order, usage charged once, no cache ahead of the row, no more counted than was used, and nobody refused, or the voucher disabled, before the sessions have used up the limit; do caches catch up, and do sessions end when the limit is reached through all instances together? (`AppliedOnce`, `SchemaReady`, `SessionBooks`, `NoInstanceAhead`, `NoPhantomUsage`, `AccountHonest`, which says that the cluster implements `Account`, `CachesCatchUp`, `OverspentSessionsEnd`, `TypeOK`) | two processes, one a release behind the other, two migrations, a session that both may come to know, a limit of 2 and traffic of 2, one fault: a failure, a kill, a stop, a lost statement, a strayed packet |

All of them pass. Why the bounds are enough: the hazards need two overlapping
executions of one procedure (two requests, two refreshes, two sessions) or one of
each of several; a third is never needed to lose an update, and counters matter
only as below or at a limit, growing, repeated or going backwards. Usage limits
and windows of one or two units make each of these happen. In `MCCluster` a limit of 2
with a session that uses 2 is reached honestly, by one instance in one or two charges,
and too early when the session is charged twice, by both instances. One fault at a time:
a process or a statement is lost, or a session strays, and what follows from it is seen
to its end. The theorems, which cover every safety property of the run, have no such
bound. In `MCParts` a total of 5 makes a word of 4 wrap in either direction.
The bounds that cut behaviour (`MaxWrites`, `MaxUsage`, `MaxJobs`, `MaxSessions`,
`MaxTime`, `MaxRequests`, `MaxReading`, `MaxTraffic`, `MaxSent`, `MaxUsed`)
stop new packets or requests, never a step of something that has begun, with
one exception: a usage delta beyond `MaxUsage` or `MaxUsed` is not taken.
`MaxFaults` bounds what goes wrong, so that the liveness of `MCCluster` is about
what happens after the last fault. The constraint of `MCUsers` (`Apart`) keeps first
logins and sessions, which share nothing that its properties speak of, out of one
behaviour, and the failing statement out of the latter; `MCVoucher` and `MCEnforce` run
logins or refreshes together with sessions. The symmetries of `MCParts` and `MCUsers`
are sound because all their properties are about single states or steps and name no
session, change, request or refresh.

`SpentRefused`, `UsageLedger` and `DisableOnItsWay` exclude operations that put a
different row under a username while it is cached, or add or remove one
(`Stable`); `CalendarWindow` and `RefusalsKept` only those that give a name to a
second row (`NamesKept`): the merge goes by username, and the repository does not
say what should happen then. `DisableOnItsWay`, `RefusalsKept` and the equality in
`UsageLedger` moreover exclude an administrator's edit, which may enable a user or
put counters back, and a statement that failed, since none is tried again; what
`UsageLedger` says without them is that the database is never ahead. `MCCache` runs
the excluded operations. `CacheMonotone` and `StopStamped` hold with all of them.

Some properties of the parts exclude what the code makes no promise about, by a
history variable that says where it happened: `lost` (a column another edit gave
meanwhile), `torn` (a setting at a NAS whose answer was lost, where two changes
overlapped, where a session started during a change, or whose address begins like that
of another NAS that was changed; until an acknowledged change of that setting that
nothing disturbs, one in `calm`, has been stored), `late` (an update delivered after a later
one), `edited` (the package was edited after the sale), `copied` and `blind` (a
session two instances came to know, or one opened where the voucher was not
cached). `NoPhantomUsage` is about runs in which no session was opened twice: one
that was is charged twice, by design of the reconciliation, and the row does not say
for which session it was charged. `Account` makes the same exception. The runs reach
all of them. What happens there is modelled and no property judges it: a session opened
twice is charged twice, usage that only a process that ended could have charged is lost,
and an edit writes back the counters it has read. `CachesCatchUp` speaks of the voucher's
row: sessions are not loaded by a refresh at all.

### Fairness

Safety runs need none. `LiveSpec` of `Server` assumes: a goroutine goes on (weak
fairness of the steps of a user's disconnect, and of a disable that has been
issued); each exchange ends because it has a ten-second context (`coa.go`); the
refresh, which a ticker starts for ever, completes infinitely often if it is
tried infinitely often (strong fairness of its later steps, because an error may
interrupt each). Packets and API calls owe nothing. `MCEnforce` moreover sets
`MaxLost = 0`: a disable whose statement fails is not retried, and the property
would not hold. `Catalog` makes the same assumption about its refreshes.

`Cluster` assumes: a process goes on, and its supervisor starts it again
(`restart: unless-stopped` in `docker-compose.yml`); the ticker refreshes, and
goroutines execute what they were given unless a fault takes it; a NAS keeps
sending updates for a running session to the instances that know it (interim
accounting, without which no limit could be enforced at all); ended sessions are
swept by the ticker; and a disconnect that is asked for again and again is not
refused for ever while the session is open (strong fairness, because the job comes and
goes); each disconnect ends, by its ten-second context. Sessions need not
start, traffic need not come, and nobody needs to stop a session.

### Sentences the code does not keep

Five runs are expected to be violated; each quotes a comment or a design record.

| Run | Sentence | What happens |
|---|---|---|
| `ClaimReenable` | "stay disabled until explicitly re-enabled" (`service.go:222`) | the merge can only clear `Enabled`, so an explicit re-enable through the API never reaches the cache before a restart |
| `ClaimTimeout` | "Session-Timeout for calendar vouchers: remaining until expiry" (`auth.go:194`) | at the first login the copy has no expiry and the answer no timeout |
| `ClaimAck` | "checks whether a session NASIP (host:port) matches a nasAddr" (`coa.go:151`) | it compares prefixes: an ACK from 10.0.0.1 also ends the sessions on 10.0.0.11 |
| `ClaimVsa` | "now emits ... Address-Pool ..., Microsoft DNS VSAs, and pfSense DNS VSAs" (`docs/adr/003-pppoe-profiles.md:35`) | the rate limit, set later with `Packet.Set`, removes them |
| `ClaimSold` | "Package changes do not affect already-generated vouchers because policy is copied at generation time" (`docs/adr/002-voucher-system.md:64`) | address pool and DNS servers are not copied but taken from the package as it is now, so an edit of the package reaches the vouchers that have been sold |

The comment "usage only increases" (`service.go:214`) is about the merge, and of the
merge it is true (`CacheMonotone`). Of the table it is not: `UpdateUser` writes back
the counters its handler read before an `AddUsageDelta` ran.

Every property of a passing run has a mutant, a plausible bug written next to
the definition it replaces (`Mutant:` in the comment), under which TLC finds the
property violated.

## 4. What is proved

| Theorem | Statement | Module |
|---|---|---|
| `TypeCorrect` | `Spec => []TypeOK` | `ServerProofs` |
| `CacheNeverForgives` | `Spec => CacheMonotone` | `CacheProofs` |
| `BooksBalance` | `Spec => []UsageLedger` | `CacheProofs` |
| `DisableIsNeverDropped` | `Spec => []DisableOnItsWay` | `CacheProofs` |
| `RefusalsAreKept` | `Spec => []RefusalsKept` | `CacheProofs` |
| `StopTimesAgree` | `Spec => []StopStamped` | `SessionProofs` |
| `ImplementsLifecycle` | `Spec => SessionsFollowLifecycle` | `LifecycleProofs` |
| `CatalogTypeCorrect` | `Spec => []TypeOK` | `CatalogProofs` |
| `PackagesExcludeProfiles` | `Spec => []NeverBoth` | `CatalogProofs` |
| `ProfilesExist` | `Spec => []AssignedProfilesExist` | `CatalogProofs` |
| `TermsNeverChange` | `Spec => TermsSold` | `CatalogProofs` |
| `BatchesUniform` | `Spec => []BatchUniform` | `CatalogProofs` |
| `WindowsStayWhole` | `Spec => []CalendarWindow` | `VoucherProofs` |
| `SpentAreRefused` | `Spec => []SpentRefused` | `VoucherProofs` |
| `RequestsAnsweredOnce` | `Spec => []AnsweredOnce` | `VoucherProofs` |
| `ClusterTypeCorrect` | `Spec => []TypeOK` | `ClusterProofs` |
| `MigrationsAppliedOnce` | `Spec => []AppliedOnce` | `ClusterProofs` |
| `SchemaBeforeService` | `Spec => []SchemaReady` | `ClusterProofs` |
| `SessionChargedOnce` | `Spec => []SessionBooks` | `ClusterProofs` |
| `CachesNeverAhead` | `Spec => []NoInstanceAhead` | `ClusterProofs` |
| `OnlyUsageIsCounted` | `Spec => []NoPhantomUsage` | `ClusterProofs` |
| `ImplementsAccount` | `Spec => AccountHonest` | `ClusterProofs` |
| `EditsKeepOthers` | `EditsSpec => []OnlyOverlapsAreLost` | `PartsProofs` |
| `SuccessIsTrue` | `EditsSpec => []SuccessIsWritten` | `PartsProofs` |
| `OctetsCharged` | `MeterSpec => []AllBytesCharged` | `PartsProofs` |
| `BalancesAreHonest` | `MeterSpec => []BalanceHonest` | `PartsProofs` |
| `LimitsReachTheNAS` | `ReplySpec => []LimitsDelivered` | `PartsProofs` |
| `OctetsAreClamped` | `ReplySpec => []OctetsWithinPolicy` | `PartsProofs` |
| `ShownSettingsHold` | `ChangeSpec => []ShownIsApplied` | `PartsProofs` |
| `PartsTypeCorrect` | `PartsSpec => []PartsTypeOK` | `PartsProofs` |

They hold for every value of the constants that satisfies the assumptions of the
modules: any users, NASes, policies, packages, profiles, concurrent requests,
refreshes and edits, instances and releases, word sizes, and any bounds. Nothing
else is assumed. `NilAssumption` says that `Nil` is neither a number nor the
identifier of a row, which is what tells an absent value from a present one; the
`Limit` of `Cluster` is positive, since 0 is no limit in the code (`auth.go:75`,
`accounting.go:157`).

The server:

* `TypeOK` is inductive by itself. Two of its conjuncts are there for that: a
  request between two steps has a row, and one that has to store a first login
  has the time of it; a reconciliation has read sessions.
* `CacheMonotone` is a property of steps; `TypeOK` is all it needs. The crux is
  `MergeKeepsLosses`: whatever row a refresh has read, however long ago, merging
  it into the cached user takes neither a disable nor usage back.
* `StopStamped` is inductive with `TypeOK` because it speaks about every place a
  session can be: the map, the table, a write on its way and the rows of a
  reconciliation. The last are also all active, which the refinement needs.
* The refinement needs `IdsDrawn`: every session id anywhere, in a pending write
  too, has been drawn, so that a Start opens an id the map has never held.
  `StepSimulates` then maps each action to a step of `SessionLifecycle` or to a
  stutter.
* `CalendarWindow` and `SpentRefused` rest on `CacheStep` and `TableStep`: the six
  ways a step can change the cached users, and what it can do to the table. Both
  need `NamesBound`: while names stay on their rows, a row has the name it was
  inserted with wherever it is (table, refresh, cache, edit, request), so that a
  merge by name is a merge of two copies of one row. `AllWhole` is then inductive:
  the window is whole in every copy, because the two timestamps are set, kept and
  merged together.
* `SpentRefused` needs `SpentInv`: a refresh that will be applied has every row; a
  row whose limit was seen reached is in the cache with its limit reached, since
  usage only grows there (`UsersGrow`); and a request that came later still has the
  limit to check, on a copy that shows it reached. It holds whether or not the
  disable ever reaches the database.
* `UsageLedger` adds up the statements under way, a bag. A sum over a bag would need
  an induction, so a statement of n units that the bag holds k times is k * n units,
  a set (`UnitsIn`), and the books are cardinalities; `OneMoreCopy` and `SameUnits`
  say what a statement that is handed over or executed does to them. The inductive
  `BooksInv` also speaks of users who are not cached, whose rows nothing is added to
  but by an edit, and of the rows that refreshes and editors hold: a row read before
  a statement was executed shows less than the cache, never more, so that a merge
  does not change what is cached and an edit only puts the table behind.
* `DisableOnItsWay` follows a disable from hand to hand: the look-up of the user, the
  disconnect over the NASes, the statement, the column (`LookUpGoesOn`,
  `DisconnectGoesOn`, `StatementGoesOn`, `RowStaysSettled`). It is inductive in this
  form: each hands over to the next in the step in which it ends. The look-up finds
  the user since a spent voucher stays in the cache (`SpentInv`).
* `RefusalsKept` starts from the cache instead and covers the refusals that requests
  decide and rows that are deleted. A refresh carries a disabled row from the table to
  the cache, perhaps after a restart has emptied both bags; so the inductive
  `RefusalsInv` says the same of every row a refresh holds, and `JobsNamed` that a
  disconnect about to disable a user in memory has the identifier of that user's row.
* `AnsweredOnce` counts the requests in flight; each step adds one, removes one or
  keeps the set.

The catalogue:

* The theorems about `Catalog` rest on two lemmas: `UserChanges`, the five ways a
  step can change the users, and `TaskChanges`, what a request can do next.
  `NeverBoth` needs `RowsExclusive`: a row an edit has read excludes as well,
  since the table may have changed before it is written back. `AssignedProfilesExist`
  is inductive: the foreign key refuses a profile that is gone, and clears it in
  every row.
* `TermsSold`, which is about the columns that are copied and that no edit names, and
  `BatchUniform` need `TermsHeld`, a request that has read a row
  holds the terms the row still has, and `UsersDrawn`: an id is not drawn again, so
  that a request cannot write an old row over another user's.

The cluster has one invariant, `ClusterInv`, of five parts:

* the schema (`PassedAreRecorded`): every migration a process has passed is in the
  table, and one past the runner has passed all of its release. The race of two
  processes is decided by the primary key;
* the values (`ReadingsPast`, `ChargesForward`): an instance's reading of a session
  is not ahead of the counter, and a charge is for a later reading;
* the books: a session opened once is known to one instance at most, and to none
  before it starts; what was charged is at most that instance's reading, and
  exactly that if the voucher was cached, which it stays;
* the debts (`OwedIsCharged`): what an instance owes the row are units of sessions
  it knows, up to the reading it has seen. A charge therefore adds units that are
  not owed yet, a statement removes as many as it adds to the row, and a merge by
  maximum cannot put the cache ahead of both;
* the earnings (`Earned`): the usage in the row is that of a set of units of traffic,
  each written once. None of them is owed by any instance or will be charged again
  by the one that knows its session, and the units of a statement under way are among
  those its instance owes, in no other statement (`StatementsOwed`). The last needs
  the books: a session that two instances know could be charged by both. What a cache
  holds is then counted by the union of the written units and of those its instance
  owes, all of them traffic.

`Cluster` implements `Account` (`ImplementsAccount`): the usage made is the number of
units the sessions have used (`Used`), what is counted is the row, and an instance
refuses when its cache shows the voucher disabled or at its limit. Each step of the
cluster is one step of the account or a stutter (`StepHonest`).

* No one refuses too early: what is disabled in one place got there from another (a
  cache, a disconnect at work, a statement under way, the row), so the invariant speaks
  of all of them. `Justified`: if any of them blames the voucher, the sessions have
  used up the limit. It starts where an instance compares its cache with the limit
  (`LimitMade`), and there it needs `NoPhantomUsage`: what the cache shows was used.
* No one takes a refusal back: a charge adds, and a merge keeps the disable and the
  larger usage (`UpdateRefuses`, `MergeFacts`), so that an instance that refuses does
  so until its process ends, when the cache goes with it (`EndHonest`).

The parts:

* `Edits`: a run between its read and its write has read the row as it is now, but
  for the columns in `lost` (`SeenIsCurrent`); and an answer of success follows a
  write (`AnswersFollowWrites`).
* `Meter`: the session's last total is at most the largest delivered, and equal to
  it unless an update came late; a balance that has been read belongs to a voucher
  sold with the package's cap, and shows usage that was true once (`SaleOK`,
  `Answered`). `BalanceHonest` then needs only that usage grows.
* `Reply`: timeouts travel under types of their own, which a `Packet.Set` of a vendor
  attribute leaves alone (`TypesOK`); and bandwidth and octet limits are added after
  the last `Packet.Set` (`LimitsSent`), which the rate limit is not: a group erases it. The
  order of the blocks is what the proof
  is about.
* `Change`: of a setting that is not torn at a NAS, memory shows what the NAS
  enforces, or a change of it that the NAS has acknowledged waits to be stored, and
  every active session there has it from that change (`Booked`); a session that has
  not started has the same in both places (`Fresh`). A calm change is the only one
  waiting at its NAS, and every active session there has all of it from that change
  (`Alone`): that is why its store mends what was torn. A store that reaches the
  sessions of another NAS tears its settings there (`Upset`), and nothing else.

* `PartsTypeOK`: for the edits, one that has read a row still has it in its hands
  (`EditsTypes`); the other parts' types are inductive. `PartsAreParts` says that a
  step of `MCParts` is one of the part it runs and leaves the others alone.

Every invariant and every action property of a passing run is a theorem. Only
model-checked are the liveness properties (`LimitReachesDatabase`, `CacheConverges`,
`DisableReachesCache`, `CatalogReachesCache`, `CachesCatchUp`,
`OverspentSessionsEnd`), because fairness and ENABLED are out of the prover's reach,
and the violated sentences.

## 5. What is not modelled

* Generated API documentation (`docs/docs.go`), examples and assets: no behaviour.
* HTTP routing, envelopes and the request secret: a comparison and a table. The
  rate limiter is a library's.
* Reading and validating the environment: it happens once, before there is state.
  A refresh interval or cleanup period that is not positive makes `NewTicker` panic;
  the model's tickers tick.
* A listener that cannot bind is only logged, and the process stays up without
  serving. In the model a process that serves does so on all its ports.
* Formats and lengths of strings, list handlers and the commands of `radiusctl`
  other than the updates: one request, one answer, nothing kept.
* The radius library and the NASes, except as external actions: packets come in any
  order, repeatedly or never, and a NAS may acknowledge, refuse or stay silent.
* In `Server`, widths (they are in `Meter`) and the two catalogue tables of the
  refresh (they are in `Catalog`, which leaves out the users' names in turn); in
  `Cluster`, everything about a single process that `Server` has.

## 6. What would come next

1. How far the instances together may overspend a voucher (they may, by what each has
   not yet seen of the others' charges): a bound on `row.used` above `Limit` from the
   sessions in progress, as an invariant of `Cluster`. `Account` says that a voucher is not
   refused too early; this would say how late.
2. The safety parts of the liveness properties as theorems, as `DisableOnItsWay` is of
   `LimitReachesDatabase`: that a change in the tables is in the rows of every refresh
   that started after it.
3. The books of `Cluster` for sessions that were opened twice: at most one counter
   more for each opening.
4. The listeners as processes of their own, with one that cannot bind.

## 7. Running it

    tlc -config MCVoucher.cfg MCServer.tla
    tlc -config MCCluster.cfg MCCluster.tla
    tlc -config MCParts.cfg MCParts.tla
    tlapm VoucherProofs.tla

`MCCatalog.cfg` and `ClaimSold.cfg` are run with `Catalog.tla`, `ClaimVsa.cfg` with `Reply.tla`,
and every
other `.cfg` not named here with `MCServer.tla`. Every `*Proofs.tla` is checked like
the last.
