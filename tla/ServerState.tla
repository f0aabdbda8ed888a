---------------------------- MODULE ServerState -----------------------------
(***************************************************************************)
(* The state one radius-go process and its PostgreSQL database are in:     *)
(* the three maps of Service guarded by mu, the tables, and every          *)
(* goroutine that is between two of its critical sections.  A critical     *)
(* section of mu is one action; an SQL statement is one action.            *)
(***************************************************************************)
EXTENDS Domain, Bags

CONSTANTS
  Requests,      \* Access-Requests, each handled once (a retransmission that
                 \* the packet server passes on is another request)
  Refreshers,    \* concurrent executions of refreshFromDB
  Editors,       \* concurrent executions of HandleUpdateSubscriber
  Reconcilers,   \* concurrent executions of ReconcileSessions
  Admin,         \* administrative operations in use, see module Admin
  SimUses,       \* simultaneous_use values an edit may store
  Seed,          \* rows of radius_users at first boot: row id -> username
  SeedNas,       \* rows of radius_nas at first boot: nas id -> host
  MaxTime,       \* bound: the clock
  MaxWrites,     \* bound: pending background writes before accounting waits
  MaxUsage,      \* bound: usage accumulated by a voucher
  MaxJobs,       \* bound: disconnect procedures in progress
  MaxLost,       \* bound: background writes that fail
  MaxRestarts    \* bound: process restarts

ASSUME ServerAssumption ==
  /\ DOMAIN Seed \subseteq RowIds
  /\ \A i \in DOMAIN Seed : Seed[i] \in Usernames
  /\ \A i, j \in DOMAIN Seed : Seed[i] = Seed[j] => i = j
  /\ DOMAIN SeedNas \subseteq NasIds
  /\ \A k \in DOMAIN SeedNas : SeedNas[k] \in Hosts
  /\ SimUses \subseteq Nat
  /\ MaxTime \in Nat
  /\ MaxUsage \in Nat
  /\ MaxWrites \in Nat
  /\ MaxJobs \in Nat
  /\ MaxLost \in Nat
  /\ MaxRestarts \in Nat

VARIABLES
  now,          \* wall clock, shared by the process and the database
  dbUsers,      \* radius_users: row id -> Row
  issued,       \* history: row id -> the username it was inserted with
  dbSessions,   \* radius_sessions: session UUID -> Session
  dbNas,        \* radius_nas: nas id -> NasRow
  subscribers,  \* Service.subscribers: username -> Row
  sessions,     \* Service.sessions: session UUID -> Session
  nases,        \* keys of Service.nases: hosts of enabled NAS rows
  minted,       \* session UUIDs 1 .. minted have been drawn
  auth,         \* handleAuth, per request
  refresh,      \* refreshFromDB, per execution
  edit,         \* the row HandleUpdateSubscriber has read and not yet written
  recon,        \* the rows ReconcileSessions has read and not yet merged
  writes,       \* bag of `go s.repo...` statements not yet executed
  jobs,         \* bag of disconnect procedures in progress
  stats,        \* authRequests, authAccepts, authRejects
  spent,        \* history: rows whose limit accounting of this process
                \* has seen reached
  lost,         \* background writes that failed so far
  boots         \* restarts so far

db == <<dbUsers, issued, dbSessions, dbNas>>
cache == <<subscribers, nases>>
sessionTable == <<sessions, minted>>
handlers == <<auth, stats>>
adminVars == <<edit, recon>>
faults == <<lost, boots>>

vars == <<now, db, cache, sessionTable, handlers, refresh, adminVars,
          writes, jobs, spent, faults>>

-----------------------------------------------------------------------------
(* Background writes: the statement a goroutine will execute. *)

FirstLoginWrite(i) == [op |-> "firstLogin", id |-> i]
UsageWrite(i, delta) == [op |-> "addUsage", id |-> i, delta |-> delta]
DisableWrite(i) == [op |-> "disable", id |-> i]
SessionWrite(k, s) == [op |-> "upsert", sid |-> k, session |-> s]

Write == [op: {"firstLogin", "disable"}, id: RowIds]
           \cup [op: {"addUsage"}, id: RowIds, delta: Usage]
           \cup [op: {"upsert"}, sid: SessionIds, session: Session]

Spawn(S) == writes' = writes (+) SetToBag(S)

Room == BagCardinality(writes) < MaxWrites

-----------------------------------------------------------------------------
(* A disconnect procedure.  "hit": accounting found a limit reached and    *)
(* will look the user up; "disable": it will disable the cached user;      *)
(* "collect": DisconnectUser will collect the NASes; "exchange": it is     *)
(* talking to the NASes in todo.  id is the row to disable at the end, or  *)
(* Nil when the API asked for the disconnect.                              *)

Job == [op: {"hit", "disable", "collect", "exchange"}, name: Usernames,
        id: RowIds \cup {Nil}, todo: SUBSET Hosts]

NewJob(op, n, i, todo) == [op |-> op, name |-> n, id |-> i, todo |-> todo]

Replace(job, S) == jobs' = (jobs (-) SetToBag({job})) (+) SetToBag(S)

-----------------------------------------------------------------------------
(* Request handlers and refreshes *)

\* "stamp": the first login is still to be stored in subscribers; "limits":
\* the voucher limits are still to be checked; "count": the simultaneous-use
\* limit is; "lost": the process died.  late is history: the row's limit had
\* been reached when the request arrived.
AuthState == [pc: {"new", "stamp", "limits", "count", "accept", "reject", "lost"},
              row: Row \cup {Nil}, late: BOOLEAN, timeout: Nat]

NewRequest == [pc |-> "new", row |-> Nil, late |-> FALSE, timeout |-> 0]

\* "nas": the users have been read, the NASes have not; "apply": both have.
IdleRefresh == [pc |-> "idle", users |-> EmptyMap, hosts |-> {}]

\* Service.nases after loading a radius_nas table: its enabled hosts.
EnabledHosts(table) ==
  {table[k].host : k \in {m \in DOMAIN table : table[m].enabled}}

\* subscribers with n disabled, if n is there.
Disabled(n) ==
  IF n \in DOMAIN subscribers
    THEN [subscribers EXCEPT ![n].enabled = FALSE]
    ELSE subscribers

-----------------------------------------------------------------------------

DbOK ==
  /\ IsMap(dbUsers, RowIds, Row)
  /\ IsMap(issued, RowIds, Usernames)
  /\ IsMap(dbSessions, SessionIds, Session)
  /\ IsMap(dbNas, NasIds, NasRow)

CacheOK == IsMap(subscribers, Usernames, Row) /\ nases \subseteq Hosts

SessionsOK == IsMap(sessions, SessionIds, Session) /\ minted \in 0 .. MaxSessions

AuthOK ==
  /\ auth \in [Requests -> AuthState]
  /\ \A h \in Requests :
       /\ auth[h].pc \in {"stamp", "limits", "count"} => auth[h].row \in Row
       /\ auth[h].pc = "stamp" => auth[h].row.first \in Nat
  /\ stats \in [req: Nat, acc: Nat, rej: Nat]

RefreshRecord(x) ==
  /\ x = [pc |-> x.pc, users |-> x.users, hosts |-> x.hosts]
  /\ x.pc \in {"idle", "nas", "apply"}
  /\ IsMap(x.users, RowIds, Row)
  /\ x.hosts \subseteq Hosts

RefreshOK ==
  DOMAIN refresh = Refreshers /\ \A r \in Refreshers : RefreshRecord(refresh[r])

AdminOK ==
  /\ edit \in [Editors -> Row \cup {Nil}]
  /\ DOMAIN recon = Reconcilers
  /\ \A c \in Reconcilers : recon[c] # Nil => IsMap(recon[c], SessionIds, Session)

WorkOK == DOMAIN writes \subseteq Write /\ DOMAIN jobs \subseteq Job

CountersOK ==
  /\ now \in 0 .. MaxTime
  /\ spent \subseteq RowIds
  /\ lost \in 0 .. MaxLost
  /\ boots \in 0 .. MaxRestarts

\* Every variable has the values its comment says.
TypeOK ==
  /\ DbOK
  /\ CacheOK
  /\ SessionsOK
  /\ AuthOK
  /\ RefreshOK
  /\ AdminOK
  /\ WorkOK
  /\ CountersOK

\* First boot: the tables hold fresh rows, and NewService has either loaded
\* them or failed to and gone on with empty maps.
Init ==
  /\ now = 0
  /\ dbUsers = [i \in DOMAIN Seed |-> NewRow(i, Seed[i])]
  /\ issued = Seed
  /\ dbSessions = EmptyMap
  /\ dbNas = [k \in DOMAIN SeedNas |-> [host |-> SeedNas[k], enabled |-> TRUE]]
  /\ \/ /\ subscribers = [n \in {Seed[i] : i \in DOMAIN Seed} |->
                            dbUsers[CHOOSE i \in DOMAIN Seed : Seed[i] = n]]
        /\ nases = EnabledHosts(dbNas)
     \/ /\ subscribers = EmptyMap
        /\ nases = {}
  /\ sessions = EmptyMap
  /\ minted = 0
  /\ auth = [h \in Requests |-> NewRequest]
  /\ refresh = [r \in Refreshers |-> IdleRefresh]
  /\ edit = [e \in Editors |-> Nil]
  /\ recon = [c \in Reconcilers |-> Nil]
  /\ writes = EmptyBag
  /\ jobs = EmptyBag
  /\ stats = [req |-> 0, acc |-> 0, rej |-> 0]
  /\ spent = {}
  /\ lost = 0
  /\ boots = 0

=============================================================================
