------------------------------- MODULE Server -------------------------------
(***************************************************************************)
(* One radius-go process: RADIUS handlers, refresh loop, cleanup loop,     *)
(* background writes, disconnect procedures and administrative handlers    *)
(* running concurrently over one database, and the properties that make    *)
(* them correct together.                                                  *)
(***************************************************************************)
EXTENDS Auth, Accounting, Refresh, Sessions, Coa, Repository, Admin

Tick ==
  /\ now < MaxTime
  /\ now' = now + 1
  /\ UNCHANGED <<db, cache, sessionTable, handlers, refresh, adminVars,
                 writes, jobs, spent, faults>>

\* The steps of the background procedures.
Background ==
  \/ \E job \in BagToSet(jobs) : LookUpHit(job) \/ DisableHit(job) \/ DisconnectUser(job)
  \/ \E w \in BagToSet(writes) : ExecuteWrite(w) \/ FailWrite(w)
  \/ \E r \in Refreshers : RefreshFromDB(r) \/ RefreshError(r)
  \/ CleanupStaleSessions

Next ==
  \/ Tick
  \/ \E h \in Requests : HandleAuth(h)
  \/ HandleAccounting
  \/ Background
  \/ \E c \in Reconcilers : ReconcileSessions(c)
  \/ \E n \in Usernames : HandleDisconnectUser(n)
  \/ Administer
  \/ Restart

Spec == Init /\ [][Next]_vars

-----------------------------------------------------------------------------
(* Fairness: every goroutine runs on, a PoD exchange ends by its answer or *)
(* by the ten-second context, and a refresh that is tried for ever         *)
(* succeeds infinitely often.  Packets and API calls owe nothing.          *)

JobStep(n) ==
  \E job \in BagToSet(jobs) :
    job.name = n /\ (LookUpHit(job) \/ DisableHit(job) \/ DisconnectUser(job))

Fairness ==
  /\ \A n \in Usernames : WF_vars(JobStep(n))
  /\ \A i \in RowIds : WF_vars(ExecuteWrite(DisableWrite(i)))
  /\ \A r \in Refreshers : /\ WF_vars(ReadUsers(r))
                           /\ SF_vars(ReadNas(r))
                           /\ SF_vars(Apply(r))

LiveSpec == Spec /\ Fairness

-----------------------------------------------------------------------------
(* Vouchers *)

\* The operations in use keep every name on the row it was first given to:
\* none frees a name that another row then takes.
NamesKept == Admin \cap {"create", "custom", "rename"} = {}

\* They moreover keep the set of rows: a refresh never misses a user.
Stable == NamesKept /\ Admin \cap {"generate", "delete"} = {}

\* A request that arrives after accounting has seen the voucher's limit
\* reached is never accepted, whatever refreshes and late writes did in
\* between (auth.go:72-87 against accounting.go:150-164, service.go:215-233).
SpentRefused ==
  Stable => \A h \in Requests : auth[h].pc = "accept" => ~auth[h].late

\* First login and expiry of a calendar voucher go together.
WindowOf(row) ==
  row.id \in Vouchers /\ Window[row.id] # Nil =>
    row.expires = IF row.first = Nil THEN Nil ELSE row.first + Window[row.id]

\* In the database, in every row a refresh has in hand and in the cache, a
\* calendar voucher expires exactly Window after its first login: no copy
\* has one timestamp without the other (auth.go:49-60, repository.go:214-223,
\* service.go:226-232).
CalendarWindow ==
  NamesKept =>
    /\ \A i \in DOMAIN dbUsers : WindowOf(dbUsers[i])
    /\ \A n \in DOMAIN subscribers : WindowOf(subscribers[n])
    /\ \A r \in Refreshers : \A i \in DOMAIN refresh[r].users :
         WindowOf(refresh[r].users[i])

\* No user that stays in the cache is enabled again or has usage taken back.
UsersKeepLosing ==
  \A n \in DOMAIN subscribers \cap DOMAIN subscribers' :
    /\ ~subscribers[n].enabled => ~subscribers'[n].enabled
    /\ \A d \in Dims : subscribers'[n].used[d] >= subscribers[n].used[d]

\* While the process runs, a cached user that is disabled stays disabled
\* and its usage never decreases, whatever a refresh that started earlier
\* has read (service.go:213-225).
CacheMonotone == [][boots' = boots => UsersKeepLosing]_vars

-----------------------------------------------------------------------------
(* Sessions *)

StopKnown(sess) == sess.ended <=> sess.status # "active"

StopsKnown(table) == \A k \in DOMAIN table : StopKnown(table[k])

\* A session has a StopTime exactly when it is not active, in memory, in the
\* database, in every write on its way and in the rows a reconciliation has
\* read, which were all active (accounting.go:140-144, service.go:295-302,
\* coa.go:126-149).
StopStamped ==
  /\ StopsKnown(sessions)
  /\ StopsKnown(dbSessions)
  /\ \A w \in BagToSet(writes) : w.op = "upsert" => StopKnown(w.session)
  /\ \A c \in Reconcilers : recon[c] # Nil =>
       /\ StopsKnown(recon[c])
       /\ \A k \in DOMAIN recon[c] : recon[c][k].status = "active"

Phase == [k \in SessionIds |->
            IF k \in DOMAIN sessions THEN sessions[k].status ELSE "absent"]

\* The session map implements the life cycle: whatever the order of
\* packets, sweeps, disconnects and reconciliations, no session comes back
\* while the process runs, and only a Stop ends one a second time.
Lifecycle == INSTANCE SessionLifecycle WITH Ids <- SessionIds, phase <- Phase

SessionsFollowLifecycle == Lifecycle!Spec

-----------------------------------------------------------------------------
(* Requests *)

\* Every Access-Request counted is counted again as accepted or as rejected
\* when its handler is done, and never both (auth.go:24, 209, 214).
AnsweredOnce ==
  stats.req = stats.acc + stats.rej
                + Cardinality({h \in Requests : auth[h].pc \in {"stamp", "limits", "count"}})

-----------------------------------------------------------------------------
(* Liveness *)

InDatabase(i, P(_)) == i \in DOMAIN dbUsers /\ P(dbUsers[i])

\* A voucher whose limit accounting has seen reached is disabled in the
\* database in the end (accounting.go:176-210).
LimitReachesDatabase ==
  \A i \in Vouchers :
    i \in spent ~> ~InDatabase(i, LAMBDA row : row.enabled)

\* Once the tables stop changing, the cache holds exactly the users and the
\* enabled NASes they hold, and keeps doing so: no refresh that started
\* earlier brings an old state back for good (service.go:181-264).
CacheConverges ==
  /\ \A S \in SUBSET Usernames :
       <>[](UsedNames = S) => <>[](DOMAIN subscribers = S)
  /\ \A S \in SUBSET Hosts :
       <>[](EnabledHosts(dbNas) = S) => <>[](nases = S)

\* A row that is disabled in the database is disabled in the cache, or
\* missing from it, after some later refresh (service.go:181-264).
DisableReachesCache ==
  \A i \in RowIds, n \in Usernames :
    InDatabase(i, LAMBDA row : row.name = n /\ ~row.enabled)
      ~> \/ ~InDatabase(i, LAMBDA row : row.name = n /\ ~row.enabled)
         \/ n \in DOMAIN subscribers => ~subscribers[n].enabled

=============================================================================
