---------------------------- MODULE ServerProofs ----------------------------
(***************************************************************************)
(* What holds of Server for every choice of its constants.                 *)
(***************************************************************************)
EXTENDS Server, TLAPS

USE DEF db, cache, sessionTable, handlers, adminVars, faults

(* Maps and bags *)

LEMMA PutIsMap ==
  ASSUME NEW f, NEW K, NEW V, NEW key \in K, NEW value \in V, IsMap(f, K, V)
  PROVE  IsMap(Put(f, key, value), K, V)
BY DEF IsMap, Put

LEMMA WithoutIsMap ==
  ASSUME NEW f, NEW K, NEW V, NEW key, IsMap(f, K, V)
  PROVE  IsMap(Without(f, key), K, V)
BY DEF IsMap, Without

LEMMA ExceptIsMap ==
  ASSUME NEW f, NEW K, NEW V, NEW key, NEW value \in V, IsMap(f, K, V)
  PROVE  IsMap([f EXCEPT ![key] = value], K, V)
BY DEF IsMap

LEMMA EmptyIsMap == ASSUME NEW K, NEW V PROVE IsMap(EmptyMap, K, V)
BY DEF IsMap, EmptyMap

LEMMA BagPlus ==
  ASSUME NEW B, NEW S
  PROVE  DOMAIN (B (+) SetToBag(S)) = DOMAIN B \cup S
BY DEF (+), SetToBag

LEMMA BagMinus ==
  ASSUME NEW B, NEW S
  PROVE  DOMAIN (B (-) SetToBag(S)) \subseteq DOMAIN B
BY DEF (-), SetToBag

LEMMA EmptyBagDomain == DOMAIN EmptyBag = {}
BY DEF EmptyBag, SetToBag

-----------------------------------------------------------------------------
(* Usage, rows and sessions *)

LEMMA UsageTyped ==
  ASSUME NEW a \in Usage, NEW b \in Usage
  PROVE  /\ Plus(a, b) \in Usage
         /\ Delta(a, b) \in Usage
         /\ AtLeast(a, b) \in Usage
         /\ NoUsage \in Usage
BY DEF Usage, Plus, Delta, AtLeast, NoUsage

LEMMA NewRowTyped ==
  ASSUME NEW i \in RowIds, NEW n \in Usernames
  PROVE  NewRow(i, n) \in Row
BY PolicyAssumption DEF NewRow, Row, OptTime, NoUsage, Usage

LEMMA MergeTyped ==
  ASSUME NEW old \in Row, NEW row \in Row
  PROVE  Merge(old, row) \in Row
<1>1. AtLeast(row.used, old.used) \in Usage
  BY UsageTyped DEF Row
<1>2. QED
  BY <1>1 DEF Merge, Row

LEMMA StampedTyped ==
  ASSUME NEW row \in Row, NEW i \in RowIds, NEW t \in Nat
  PROVE  Stamped(row, i, t) \in Row
<1>1. CASE Window[i] = Nil
  BY <1>1 DEF Stamped, Row, OptTime
<1>2. CASE Window[i] # Nil
  <2>1. Window[i] \in Nat
    BY <1>2, PolicyAssumption DEF OptTime
  <2>2. t + Window[i] \in OptTime
    BY <2>1 DEF OptTime
  <2>3. QED
    BY <1>2, <2>2 DEF Stamped, Row, OptTime
<1>3. QED
  BY <1>1, <1>2

LEMMA DisabledTyped ==
  ASSUME CacheOK, NEW n
  PROVE  IsMap(Disabled(n), Usernames, Row)
BY DEF CacheOK, IsMap, Disabled, Row

LEMMA LoadedTyped ==
  ASSUME NEW table, NEW cached, IsMap(table, RowIds, Row), IsMap(cached, Usernames, Row)
  PROVE  IsMap(Loaded(table, cached), Usernames, Row)
<1>1. Names(table) \subseteq Usernames
  BY DEF Names, IsMap, Row
<1>2. ASSUME NEW n \in Names(table)
      PROVE  RowNamed(table, n) \in Row
  BY DEF Names, RowNamed, IsMap
<1>3. ASSUME NEW n \in Names(table), n \in DOMAIN cached
      PROVE  Merge(cached[n], RowNamed(table, n)) \in Row
  BY <1>2, <1>3, MergeTyped DEF IsMap
<1>4. QED
  BY <1>1, <1>2, <1>3 DEF Loaded, IsMap

LEMMA SessionTyped ==
  ASSUME TypeOK, NEW sess \in Session, NEW u \in Usage, NEW stop \in BOOLEAN
  PROVE  Updated(sess, u, stop) \in Session /\ Swept(sess) \in Session
<1>1. now \in Nat
  BY ServerAssumption DEF TypeOK, CountersOK
<1>2. QED
  BY <1>1 DEF Updated, Swept, Session, Statuses

LEMMA WriteTyped ==
  /\ \A i \in RowIds : FirstLoginWrite(i) \in Write /\ DisableWrite(i) \in Write
  /\ \A i \in RowIds, u \in Usage : UsageWrite(i, u) \in Write
  /\ \A k \in SessionIds, sess \in Session : SessionWrite(k, sess) \in Write
BY DEF FirstLoginWrite, DisableWrite, UsageWrite, SessionWrite, Write

LEMMA SpawnTyped ==
  ASSUME WorkOK, NEW S \in SUBSET Write, Spawn(S)
  PROVE  DOMAIN writes' \subseteq Write
BY BagPlus DEF Spawn, WorkOK

LEMMA ReplaceTyped ==
  ASSUME WorkOK, NEW job, NEW S \in SUBSET Job, Replace(job, S)
  PROVE  DOMAIN jobs' \subseteq Job
<1> DEFINE rest == jobs (-) SetToBag({job})
<1>1. DOMAIN rest \subseteq Job
  BY BagMinus DEF WorkOK
<1>2. DOMAIN (rest (+) SetToBag(S)) = DOMAIN rest \cup S
  BY BagPlus
<1>3. QED
  BY <1>1, <1>2 DEF Replace

\* What an action leaves alone keeps its type.
LEMMA Frame ==
  ASSUME TypeOK
  PROVE  /\ UNCHANGED db => DbOK'
         /\ UNCHANGED cache => CacheOK'
         /\ UNCHANGED sessionTable => SessionsOK'
         /\ UNCHANGED handlers => AuthOK'
         /\ UNCHANGED refresh => RefreshOK'
         /\ UNCHANGED adminVars => AdminOK'
         /\ UNCHANGED <<writes, jobs>> => WorkOK'
         /\ UNCHANGED <<now, spent, faults>> => CountersOK'
BY DEF TypeOK, DbOK, CacheOK, SessionsOK, AuthOK, RefreshOK, AdminOK, WorkOK,
       CountersOK, IsMap, db, cache, sessionTable, handlers, adminVars, faults

-----------------------------------------------------------------------------
(* handleAuth *)

\* A handler's new state, and the counters after one request more.
LEMMA AuthStep ==
  ASSUME TypeOK, NEW h \in Requests, NEW a \in AuthState,
         auth' = [auth EXCEPT ![h] = a],
         a.pc \in {"stamp", "limits", "count"} => a.row \in Row,
         a.pc = "stamp" => a.row.first \in Nat,
         stats' \in [req: Nat, acc: Nat, rej: Nat]
  PROVE  AuthOK'
BY DEF TypeOK, AuthOK

LEMMA Counted ==
  ASSUME TypeOK
  PROVE  LET Counters == [req: Nat, acc: Nat, rej: Nat]
         IN  /\ stats \in Counters
             /\ [stats EXCEPT !.req = @ + 1] \in Counters
             /\ [stats EXCEPT !.acc = @ + 1] \in Counters
             /\ [stats EXCEPT !.rej = @ + 1] \in Counters
             /\ [stats EXCEPT !.req = @ + 1, !.rej = @ + 1] \in Counters
<1>1. /\ stats \in [req: Nat, acc: Nat, rej: Nat]
      /\ stats.req + 1 \in Nat /\ stats.acc + 1 \in Nat /\ stats.rej + 1 \in Nat
  BY DEF TypeOK, AuthOK
<1>2. QED
  BY <1>1

LEMMA AnswerTyped ==
  ASSUME TypeOK, NEW h \in Requests, NEW code \in {"accept", "reject"},
         NEW t \in Nat, Answer(h, code, t)
  PROVE  AuthOK'
<1> DEFINE a == [auth[h] EXCEPT !.pc = code, !.timeout = t]
<1>1. a \in AuthState /\ a.pc = code
  BY DEF TypeOK, AuthOK, AuthState
<1>2. auth' = [auth EXCEPT ![h] = a]
  BY DEF Answer
<1>3. stats' \in [req: Nat, acc: Nat, rej: Nat]
  BY Counted DEF Answer
<1>4. QED
  BY <1>1, <1>2, <1>3, AuthStep

LEMMA MoveTyped ==
  ASSUME TypeOK, NEW h \in Requests, NEW pc \in {"limits", "count"},
         auth[h].row \in Row, Move(h, pc)
  PROVE  AuthOK'
<1> DEFINE a == [auth[h] EXCEPT !.pc = pc]
<1>1. a \in AuthState /\ a.pc = pc /\ a.row = auth[h].row
  BY DEF TypeOK, AuthOK, AuthState
<1>2. auth' = [auth EXCEPT ![h] = a]
  BY DEF Move
<1>3. stats' \in [req: Nat, acc: Nat, rej: Nat]
  BY Counted DEF Move
<1>4. QED
  BY <1>1, <1>2, <1>3, AuthStep

LEMMA RejectCredentialsType ==
  ASSUME TypeOK, NEW h \in Requests, NEW host, NEW n, NEW ok,
         RejectCredentials(h, host, n, ok)
  PROVE  TypeOK'
<1> DEFINE a == [auth[h] EXCEPT !.pc = "reject"]
<1>1. a \in AuthState /\ a.pc = "reject"
  BY DEF TypeOK, AuthOK, AuthState
<1>2. AuthOK'
  BY <1>1, Counted, AuthStep DEF RejectCredentials
<1>3. QED
  BY <1>2, Frame DEF RejectCredentials, TypeOK

LEMMA AdmitType ==
  ASSUME TypeOK, NEW h \in Requests, NEW host, NEW n, Admit(h, host, n)
  PROVE  TypeOK'
<1> DEFINE user == subscribers[n]
<1>1. user \in Row /\ now \in Nat
  BY ServerAssumption DEF Admit, TypeOK, CacheOK, IsMap, CountersOK
<1>2. [user EXCEPT !.first = now] \in Row
  BY <1>1 DEF Row, OptTime
<1> DEFINE first == IsVoucher(user) /\ user.first = Nil
           pc == CASE first -> "stamp"
                   [] IsVoucher(user) /\ ~first -> "limits"
                   [] OTHER -> "count"
           row == IF first THEN [user EXCEPT !.first = now] ELSE user
           late == user.id \in spent
           a == [auth[h] EXCEPT !.pc = pc, !.row = row, !.late = late]
<1>3. AuthOK'
  <2>1. row \in Row /\ late \in BOOLEAN
    BY <1>1, <1>2
  <2>2. pc \in {"stamp", "limits", "count"} /\ (pc = "stamp" => row.first \in Nat)
    <3>1. CASE first
      BY <1>1, <3>1 DEF Row
    <3>2. CASE ~first
      BY <3>2
    <3>3. QED
      BY <3>1, <3>2
  <2> HIDE DEF first, pc, row, late
  <2>5. a \in AuthState /\ a.pc = pc /\ a.row = row
    BY <2>1, <2>2 DEF TypeOK, AuthOK, AuthState
  <2> USE DEF first, pc, row, late
  <2>3. auth' = [auth EXCEPT ![h] = a] /\ stats' = [stats EXCEPT !.req = @ + 1]
    BY DEF Admit
  <2>4. QED
    BY <2>1, <2>2, <2>3, <2>5, Counted, AuthStep
<1>4. WorkOK'
  <2>1. user.id \in RowIds
    BY <1>1 DEF Row
  <2>2. PICK S \in SUBSET Write : Spawn(S)
    BY <2>1, WriteTyped DEF Admit
  <2>3. QED
    BY <2>2, SpawnTyped DEF Admit, TypeOK, WorkOK
<1>5. QED
  BY <1>3, <1>4, Frame DEF Admit, TypeOK

LEMMA StampFirstLoginType ==
  ASSUME TypeOK, NEW h \in Requests, StampFirstLogin(h)
  PROVE  TypeOK'
<1> DEFINE user == auth[h].row
<1>1. user \in Row
  BY DEF StampFirstLogin, TypeOK, AuthOK
<1>2. AuthOK'
  BY <1>1, MoveTyped DEF StampFirstLogin
<1>3. CacheOK'
  <2>1. user.first \in Nat /\ user.id \in RowIds
    BY <1>1 DEF StampFirstLogin, TypeOK, AuthOK, Row
  <2>2. ASSUME user.name \in DOMAIN subscribers
        PROVE  Stamped(subscribers[user.name], user.id, user.first) \in Row
    BY <2>1, <2>2, StampedTyped DEF TypeOK, CacheOK, IsMap
  <2>3. QED
    BY <2>2, ExceptIsMap DEF StampFirstLogin, TypeOK, CacheOK
<1>4. QED
  BY <1>2, <1>3, Frame DEF StampFirstLogin, TypeOK

LEMMA RejectVoucherType ==
  ASSUME TypeOK, NEW h \in Requests, RejectVoucher(h)
  PROVE  TypeOK'
<1>1. AuthOK'
  BY AnswerTyped DEF RejectVoucher
<1>2. CacheOK'
  BY DisabledTyped DEF RejectVoucher, TypeOK, CacheOK
<1>3. WorkOK'
  <2>1. {DisableWrite(auth[h].row.id)} \in SUBSET Write
    BY WriteTyped DEF RejectVoucher, TypeOK, AuthOK, Row
  <2>2. QED
    BY <2>1, SpawnTyped DEF RejectVoucher, TypeOK, WorkOK
<1>4. QED
  BY <1>1, <1>2, <1>3, Frame DEF RejectVoucher, TypeOK

LEMMA PassLimitsType ==
  ASSUME TypeOK, NEW h \in Requests, PassLimits(h)
  PROVE  TypeOK'
<1>1. AuthOK'
  BY MoveTyped DEF PassLimits, TypeOK, AuthOK
<1>2. QED
  BY <1>1, Frame DEF PassLimits, TypeOK

LEMMA VoucherTimeoutTyped ==
  ASSUME NEW row \in Row, NEW t \in Nat
  PROVE  VoucherTimeout(row, t) \in Nat
<1>1. row.id \in RowIds /\ row.used["sec"] \in Nat
  BY DEF Row, Usage, Dims
<1>2. Limit[row.id]["sec"] \in Nat
  BY <1>1, PolicyAssumption DEF Usage, Dims
<1>3. row.expires # Nil => row.expires \in Nat
  BY DEF Row, OptTime
<1>4. QED
  BY <1>1, <1>2, <1>3 DEF VoucherTimeout

LEMMA CountType ==
  ASSUME TypeOK, NEW h \in Requests, RejectLast(h) \/ Accept(h)
  PROVE  TypeOK'
<1>1. CASE RejectLast(h)
  BY <1>1, AnswerTyped, Frame DEF RejectLast, TypeOK
<1>2. CASE Accept(h)
  <2>1. VoucherTimeout(auth[h].row, now) \in Nat
    BY <1>2, VoucherTimeoutTyped, ServerAssumption DEF Accept, TypeOK, AuthOK, CountersOK
  <2>2. AuthOK'
    BY <1>2, <2>1, AnswerTyped DEF Accept
  <2>3. QED
    BY <1>2, <2>2, Frame DEF Accept, TypeOK
<1>3. QED
  BY <1>1, <1>2

LEMMA AuthType ==
  ASSUME TypeOK, NEW h \in Requests, HandleAuth(h)
  PROVE  TypeOK'
BY RejectCredentialsType, AdmitType, StampFirstLoginType, RejectVoucherType,
   PassLimitsType, CountType DEF HandleAuth

-----------------------------------------------------------------------------
(* handleAccounting and disconnectAndDisableVoucher *)

LEMMA NewJobTyped ==
  /\ \A n \in Usernames : NewJob("hit", n, Nil, {}) \in Job
  /\ \A n \in Usernames : NewJob("collect", n, Nil, {}) \in Job
  /\ \A n \in Usernames, i \in RowIds : NewJob("disable", n, i, {}) \in Job
BY DEF NewJob, Job

LEMMA AddJobTyped ==
  ASSUME WorkOK, NEW job \in Job, jobs' = jobs (+) SetToBag({job})
  PROVE  DOMAIN jobs' \subseteq Job
<1>1. DOMAIN (jobs (+) SetToBag({job})) = DOMAIN jobs \cup {job}
  BY BagPlus
<1>2. QED
  BY <1>1 DEF WorkOK

LEMMA AcctStartType ==
  ASSUME TypeOK, NEW host \in Hosts, NEW n \in Usernames, NEW a \in AcctIds,
         HandleAcctStart(host, n, a)
  PROVE  TypeOK'
<1> DEFINE sess == NewSession(host, n, a)
           k == minted + 1
<1>1. sess \in Session
  BY UsageTyped, ServerAssumption
     DEF NewSession, Session, Statuses, NoUsage, Usage, TypeOK, CountersOK
<1>2. k \in SessionIds /\ minted' \in 0 .. MaxSessions
  BY BoundAssumption DEF HandleAcctStart, TypeOK, SessionsOK, SessionIds
<1>3. SessionsOK'
  <2>1. sessions' = Put(sessions, k, sess)
    BY DEF HandleAcctStart
  <2> HIDE DEF sess, k
  <2>2. QED
    BY <1>1, <1>2, <2>1, PutIsMap DEF TypeOK, SessionsOK
<1>4. WorkOK'
  <2>1. Spawn({SessionWrite(k, sess)})
    BY DEF HandleAcctStart
  <2>2. {SessionWrite(k, sess)} \in SUBSET Write
    BY <1>1, <1>2, WriteTyped
  <2>3. DOMAIN writes' \subseteq Write
    BY <2>1, <2>2, SpawnTyped DEF TypeOK
  <2>4. QED
    BY <2>3 DEF HandleAcctStart, TypeOK, WorkOK
<1>5. QED
  BY <1>3, <1>4, Frame DEF HandleAcctStart, TypeOK

LEMMA ChargeTyped ==
  ASSUME NEW row \in Row, NEW u \in Usage
  PROVE  Charge(row, u) \in Row /\ Charge(row, u).id = row.id
<1>1. Plus(row.used, u) \in Usage
  BY UsageTyped DEF Row
<1>2. QED
  BY <1>1 DEF Charge, Row

LEMMA ChargeVoucherType ==
  ASSUME TypeOK, NEW n \in Usernames, NEW reading \in Usage, NEW stop \in BOOLEAN,
         NEW k \in DOMAIN sessions, n \in DOMAIN subscribers,
         ChargeVoucher(k, n, reading, stop),
         UNCHANGED <<nases, minted>>
  PROVE  SessionsOK' /\ CacheOK' /\ WorkOK' /\ spent' \subseteq RowIds
<1> DEFINE sess == Updated(sessions[k], reading, stop)
           delta == Delta(reading, sessions[k].cum)
           u == Charge(subscribers[n], delta)
<1>1. sessions[k] \in Session /\ k \in SessionIds /\ subscribers[n] \in Row
  BY DEF TypeOK, SessionsOK, CacheOK, IsMap
<1>2. sess \in Session
  BY <1>1, SessionTyped
<1>3. delta \in Usage
  BY <1>1, UsageTyped DEF Session
<1>4. u \in Row /\ u.id \in RowIds
  BY <1>1, <1>3, ChargeTyped DEF Row
<1>5. /\ sessions' = [sessions EXCEPT ![k] = sess]
      /\ subscribers' = [subscribers EXCEPT ![n] = u]
      /\ Spawn({SessionWrite(k, sess)}
                  \cup (IF delta = NoUsage THEN {} ELSE {UsageWrite(u.id, delta)}))
      /\ \/ /\ jobs' = jobs (+) SetToBag({NewJob("hit", n, Nil, {})})
            /\ spent' = spent \cup {u.id}
         \/ UNCHANGED <<jobs, spent>>
  BY DEF ChargeVoucher
<1> HIDE DEF sess, delta, u
<1>6. SessionsOK'
  BY <1>2, <1>5, ExceptIsMap DEF TypeOK, SessionsOK
<1>7. CacheOK'
  BY <1>4, <1>5, ExceptIsMap DEF TypeOK, CacheOK
<1>8. WorkOK'
  <2>1. ({SessionWrite(k, sess)}
           \cup (IF delta = NoUsage THEN {} ELSE {UsageWrite(u.id, delta)}))
           \in SUBSET Write
    BY <1>1, <1>2, <1>3, <1>4, WriteTyped
  <2>2. DOMAIN writes' \subseteq Write
    BY <2>1, <1>5, SpawnTyped DEF TypeOK
  <2>3. DOMAIN jobs' \subseteq Job
    BY <1>5, NewJobTyped, AddJobTyped DEF TypeOK, WorkOK
  <2>4. QED
    BY <2>2, <2>3 DEF WorkOK
<1>9. spent' \subseteq RowIds
  BY <1>4, <1>5 DEF TypeOK, CountersOK
<1>10. QED
  BY <1>6, <1>7, <1>8, <1>9

LEMMA RecordOnlyType ==
  ASSUME TypeOK, NEW reading \in Usage, NEW stop \in BOOLEAN,
         NEW k \in DOMAIN sessions, RecordOnly(k, reading, stop),
         UNCHANGED <<nases, minted>>
  PROVE  SessionsOK' /\ CacheOK' /\ WorkOK' /\ spent' \subseteq RowIds
<1> DEFINE sess == Updated(sessions[k], reading, stop)
<1>1. sess \in Session /\ k \in SessionIds
  BY SessionTyped DEF TypeOK, SessionsOK, IsMap
<1>2. /\ sessions' = [sessions EXCEPT ![k] = sess]
      /\ Spawn({SessionWrite(k, sess)})
      /\ UNCHANGED <<subscribers, jobs, spent>>
  BY DEF RecordOnly
<1> HIDE DEF sess
<1>3. SessionsOK'
  BY <1>1, <1>2, ExceptIsMap DEF TypeOK, SessionsOK
<1>4. WorkOK'
  <2>1. {SessionWrite(k, sess)} \in SUBSET Write
    BY <1>1, WriteTyped
  <2>2. QED
    BY <2>1, <1>2, SpawnTyped DEF TypeOK, WorkOK
<1>5. QED
  BY <1>2, <1>3, <1>4, Frame DEF TypeOK, CountersOK

LEMMA AcctUpdateType ==
  ASSUME TypeOK, NEW host \in Hosts, NEW n \in Usernames, NEW a \in AcctIds,
         NEW reading \in Readings, NEW stop \in BOOLEAN,
         HandleAcctUpdate(host, n, a, reading, stop)
  PROVE  TypeOK'
<1>1. reading \in Usage
  BY BoundAssumption
<1>2. PICK k \in DOMAIN sessions :
        IF n \in DOMAIN subscribers /\ IsVoucher(subscribers[n])
          THEN ChargeVoucher(k, n, reading, stop)
          ELSE RecordOnly(k, reading, stop)
  BY DEF HandleAcctUpdate, Matching
<1>3. UNCHANGED <<nases, minted>>
  BY DEF HandleAcctUpdate
<1>4. SessionsOK' /\ CacheOK' /\ WorkOK' /\ spent' \subseteq RowIds
  BY <1>1, <1>2, <1>3, ChargeVoucherType, RecordOnlyType
<1>5. QED
  BY <1>4, Frame DEF HandleAcctUpdate, TypeOK, CountersOK

LEMMA AccountingType == TypeOK /\ HandleAccounting => TypeOK'
BY AcctStartType, AcctUpdateType DEF HandleAccounting

LEMMA HitType ==
  ASSUME TypeOK, NEW job, LookUpHit(job) \/ DisableHit(job)
  PROVE  TypeOK'
<1>1. job \in Job
  BY DEF LookUpHit, DisableHit, BagIn, BagToSet, TypeOK, WorkOK
<1>2. CASE LookUpHit(job)
  <2>1. job.name \in DOMAIN subscribers => subscribers[job.name].id \in RowIds
    BY DEF TypeOK, CacheOK, IsMap, Row
  <2>2. (IF job.name \in DOMAIN subscribers
           THEN {NewJob("disable", job.name, subscribers[job.name].id, {})}
           ELSE {}) \in SUBSET Job
    BY <1>1, <2>1 DEF NewJob, Job
  <2>3. WorkOK'
    BY <1>2, <2>2, ReplaceTyped DEF LookUpHit, TypeOK, WorkOK
  <2>4. QED
    BY <1>2, <2>3, Frame DEF LookUpHit, TypeOK
<1>3. CASE DisableHit(job)
  <2>1. {[job EXCEPT !.op = "collect"]} \in SUBSET Job
    BY <1>1 DEF Job
  <2>2. WorkOK'
    BY <1>3, <2>1, ReplaceTyped DEF DisableHit, TypeOK, WorkOK
  <2>3. CacheOK'
    BY <1>3, DisabledTyped DEF DisableHit, TypeOK, CacheOK
  <2>4. QED
    BY <1>3, <2>2, <2>3, Frame DEF DisableHit, TypeOK
<1>4. QED
  BY <1>2, <1>3

-----------------------------------------------------------------------------
(* refreshFromDB and restarts *)

LEMMA EnabledHostsTyped ==
  ASSUME NEW table, IsMap(table, NasIds, NasRow)
  PROVE  EnabledHosts(table) \subseteq Hosts
BY DEF EnabledHosts, IsMap, NasRow

LEMMA RefreshStep ==
  ASSUME TypeOK, NEW r \in Refreshers, NEW x, RefreshRecord(x),
         refresh' = [refresh EXCEPT ![r] = x]
  PROVE  RefreshOK'
BY DEF TypeOK, RefreshOK, RefreshRecord, IsMap

LEMMA IdleTyped == RefreshRecord(IdleRefresh)
BY EmptyIsMap DEF RefreshRecord, IdleRefresh

LEMMA ReadType ==
  ASSUME TypeOK, NEW r \in Refreshers, ReadUsers(r) \/ ReadNas(r) \/ RefreshError(r)
  PROVE  TypeOK'
<1> DEFINE readUsers == [pc |-> "nas", users |-> dbUsers, hosts |-> {}]
           readNas == [pc |-> "apply", users |-> refresh[r].users,
                       hosts |-> EnabledHosts(dbNas)]
<1>1. RefreshRecord(readUsers)
  BY DEF TypeOK, DbOK, RefreshRecord
<1>2. RefreshRecord(readNas)
  BY EnabledHostsTyped DEF TypeOK, DbOK, RefreshOK, RefreshRecord
<1>3. \E x \in {readUsers, readNas, IdleRefresh} : refresh' = [refresh EXCEPT ![r] = x]
  BY DEF ReadUsers, ReadNas, RefreshError
<1>4. RefreshOK'
  <2> HIDE DEF readUsers, readNas
  <2> QED
    BY <1>1, <1>2, <1>3, IdleTyped, RefreshStep
<1>5. QED
  BY <1>4, Frame DEF ReadUsers, ReadNas, RefreshError, TypeOK

LEMMA ApplyType ==
  ASSUME TypeOK, NEW r \in Refreshers, Apply(r)
  PROVE  TypeOK'
<1>1. CacheOK'
  BY LoadedTyped DEF Apply, TypeOK, CacheOK, RefreshOK, RefreshRecord
<1>2. RefreshOK'
  BY IdleTyped, RefreshStep DEF Apply
<1>3. QED
  BY <1>1, <1>2, Frame DEF Apply, TypeOK

LEMMA RestartType ==
  ASSUME TypeOK, Restart
  PROVE  TypeOK'
<1>1. CacheOK'
  <2>1. IsMap(EmptyMap, Usernames, Row) /\ EnabledHosts(dbNas) \subseteq Hosts
    BY EmptyIsMap, EnabledHostsTyped DEF TypeOK, DbOK
  <2>2. IsMap(Loaded(dbUsers, EmptyMap), Usernames, Row)
    BY <2>1, LoadedTyped DEF TypeOK, DbOK
  <2>3. QED
    BY <2>1, <2>2 DEF Restart, CacheOK
<1>2. SessionsOK'
  BY EmptyIsMap DEF Restart, TypeOK, SessionsOK
<1>3. AuthOK'
  <2>1. ASSUME NEW h \in Requests
        PROVE  auth'[h] \in AuthState /\ auth'[h].pc \notin {"stamp", "limits", "count"}
    <3>1. [auth[h] EXCEPT !.pc = "lost"] \in AuthState
      BY DEF TypeOK, AuthOK, AuthState
    <3>2. [auth[h] EXCEPT !.pc = "lost"].pc = "lost"
      BY DEF TypeOK, AuthOK, AuthState
    <3>3. QED
      BY <3>1, <3>2 DEF Restart, TypeOK, AuthOK
  <2>2. auth' \in [Requests -> AuthState]
    BY <2>1 DEF Restart
  <2>3. stats' \in [req: Nat, acc: Nat, rej: Nat]
    BY DEF Restart
  <2>4. QED
    BY <2>1, <2>2, <2>3 DEF AuthOK
<1>4. RefreshOK'
  BY IdleTyped DEF Restart, RefreshOK
<1>5. AdminOK'
  BY DEF Restart, AdminOK
<1>6. WorkOK'
  BY EmptyBagDomain DEF Restart, WorkOK
<1>7. CountersOK'
  BY ServerAssumption DEF Restart, TypeOK, CountersOK
<1>8. DbOK'
  BY Frame DEF Restart
<1>9. QED
  BY <1>1, <1>2, <1>3, <1>4, <1>5, <1>6, <1>7, <1>8 DEF TypeOK

-----------------------------------------------------------------------------
(* Housekeeping of the session map *)

LEMMA CleanupType ==
  ASSUME TypeOK, CleanupStaleSessions
  PROVE  TypeOK'
<1>1. ASSUME NEW k \in DOMAIN sessions
      PROVE  k \in SessionIds /\ sessions[k] \in Session /\ Swept(sessions[k]) \in Session
  <2>1. NoUsage \in Usage
    BY DEF NoUsage, Usage
  <2>2. QED
    BY <2>1, SessionTyped DEF TypeOK, SessionsOK, IsMap
<1>2. SessionsOK'
  BY <1>1 DEF CleanupStaleSessions, TypeOK, SessionsOK, IsMap
<1>3. {SessionWrite(k, Swept(sessions[k])) : k \in Stale} \in SUBSET Write
  BY <1>1, WriteTyped DEF Stale
<1>4. WorkOK'
  BY <1>3, SpawnTyped DEF CleanupStaleSessions, TypeOK, WorkOK
<1>5. QED
  BY <1>2, <1>4, Frame DEF CleanupStaleSessions, TypeOK

LEMMA ReconcileType ==
  ASSUME TypeOK, NEW c \in Reconcilers, ReconcileSessions(c)
  PROVE  TypeOK'
<1>1. CASE ReconcileRead(c)
  <2>1. IsMap(ListActiveSessions, SessionIds, Session)
    BY DEF ListActiveSessions, TypeOK, DbOK, IsMap
  <2>2. AdminOK'
    BY <1>1, <2>1 DEF ReconcileRead, TypeOK, AdminOK, IsMap
  <2>3. QED
    BY <1>1, <2>2, Frame DEF ReconcileRead, TypeOK
<1>2. CASE ReconcileMerge(c)
  <2>1. IsMap(recon[c], SessionIds, Session)
    BY <1>2 DEF ReconcileMerge, TypeOK, AdminOK
  <2>2. SessionsOK'
    BY <1>2, <2>1 DEF ReconcileMerge, Merged, TypeOK, SessionsOK, IsMap
  <2>3. AdminOK'
    BY <1>2 DEF ReconcileMerge, TypeOK, AdminOK, IsMap
  <2>4. QED
    BY <1>2, <2>2, <2>3, Frame DEF ReconcileMerge, TypeOK
<1>3. QED
  BY <1>1, <1>2 DEF ReconcileSessions

-----------------------------------------------------------------------------
(* DisconnectUser *)

LEMMA StoppedTyped ==
  ASSUME TypeOK, NEW n, NEW host
  PROVE  /\ IsMap(MarkSessionsStopped(n), SessionIds, Session)
         /\ IsMap(MarkSessionsByNAS(n, host), SessionIds, Session)
<1>1. ASSUME NEW k \in DOMAIN sessions
      PROVE  /\ sessions[k] \in Session
             /\ [sessions[k] EXCEPT !.status = "stopped", !.ended = TRUE] \in Session
  BY DEF TypeOK, SessionsOK, IsMap, Session, Statuses
<1>2. QED
  BY <1>1 DEF MarkSessionsStopped, MarkSessionsByNAS, Stopped, IsMap, TypeOK, SessionsOK

LEMMA HandleDisconnectUserType ==
  ASSUME TypeOK, NEW n \in Usernames, HandleDisconnectUser(n)
  PROVE  TypeOK'
<1>1. NewJob("collect", n, Nil, {}) \in Job
  BY NewJobTyped
<1>2. WorkOK'
  BY <1>1, AddJobTyped DEF HandleDisconnectUser, TypeOK, WorkOK
<1>3. QED
  BY <1>2, Frame DEF HandleDisconnectUser, TypeOK

LEMMA DisconnectUserType ==
  ASSUME TypeOK, NEW job, DisconnectUser(job)
  PROVE  TypeOK'
<1>1. job \in Job
  BY DEF DisconnectUser, Collect, Exchange, FinishDisconnect, BagIn, BagToSet,
         TypeOK, WorkOK
<1>2. CASE Collect(job)
  <2>1. CollectNASForUser(job.name) \in SUBSET Hosts
    BY DEF CollectNASForUser, TypeOK, CacheOK
  <2>2. {[job EXCEPT !.op = "exchange", !.todo = CollectNASForUser(job.name)]}
          \in SUBSET Job
    BY <1>1, <2>1 DEF Job
  <2>3. WorkOK'
    BY <1>2, <2>2, ReplaceTyped DEF Collect, TypeOK, WorkOK
  <2>4. QED
    BY <1>2, <2>3, Frame DEF Collect, TypeOK
<1>3. ASSUME NEW host \in Hosts, NEW answer \in {"ack", "nak", "error"},
             Exchange(job, host, answer)
      PROVE  TypeOK'
  <2>1. {[job EXCEPT !.todo = @ \ {host}]} \in SUBSET Job
    BY <1>1 DEF Job
  <2>2. WorkOK'
    BY <1>3, <2>1, ReplaceTyped DEF Exchange, TypeOK, WorkOK
  <2>3. SessionsOK'
    <3>1. \/ sessions' = MarkSessionsStopped(job.name)
          \/ sessions' = MarkSessionsByNAS(job.name, host)
          \/ sessions' = sessions
      BY <1>3 DEF Exchange
    <3>2. QED
      BY <1>3, <3>1, StoppedTyped DEF Exchange, TypeOK, SessionsOK
  <2>4. QED
    BY <1>3, <2>2, <2>3, Frame DEF Exchange, TypeOK
<1>4. CASE FinishDisconnect(job)
  <2>1. (IF job.id = Nil THEN {} ELSE {DisableWrite(job.id)}) \in SUBSET Write
    BY <1>1, WriteTyped DEF Job
  <2>2. DOMAIN writes' \subseteq Write
    BY <1>4, <2>1, SpawnTyped DEF FinishDisconnect, TypeOK
  <2>3. DOMAIN jobs' \subseteq Job
    BY <1>4, ReplaceTyped DEF FinishDisconnect, TypeOK
  <2>4. QED
    BY <1>4, <2>2, <2>3, Frame DEF FinishDisconnect, TypeOK, WorkOK
<1>5. QED
  BY <1>2, <1>3, <1>4 DEF DisconnectUser

-----------------------------------------------------------------------------
(* Background writes *)

LEMMA UpdateRowTyped ==
  ASSUME IsMap(dbUsers, RowIds, Row), NEW i, NEW row,
         i \in DOMAIN dbUsers => row \in Row, UpdateRow(i, row)
  PROVE  IsMap(dbUsers', RowIds, Row)
BY DEF UpdateRow, IsMap

LEMMA ExecuteWriteType ==
  ASSUME TypeOK, NEW w, ExecuteWrite(w)
  PROVE  TypeOK'
<1>1. w \in Write
  BY DEF ExecuteWrite, BagIn, BagToSet, TypeOK, WorkOK
<1>2. now \in Nat
  BY ServerAssumption DEF TypeOK, CountersOK
<1>3. IsMap(dbUsers, RowIds, Row) /\ IsMap(dbSessions, SessionIds, Session)
  BY DEF TypeOK, DbOK
<1>4. IsMap(dbUsers', RowIds, Row) /\ IsMap(dbSessions', SessionIds, Session)
  <2>1. CASE RecordFirstLogin(w)
    <3> DEFINE row == [dbUsers[w.id] EXCEPT !.first = now,
                                            !.expires = IF Window[w.id] = Nil THEN @
                                                        ELSE now + Window[w.id]]
    <3>1. w.id \in DOMAIN dbUsers => row \in Row
      <4>1. row = Stamped(dbUsers[w.id], w.id, now)
        BY DEF Stamped
      <4>2. QED
        BY <1>2, <1>3, <4>1, StampedTyped DEF IsMap
    <3>2. UpdateRow(w.id, row) /\ UNCHANGED dbSessions
      BY <2>1 DEF RecordFirstLogin
    <3> HIDE DEF row
    <3>3. QED
      BY <1>3, <3>1, <3>2, UpdateRowTyped
  <2>2. CASE AddUsageDelta(w)
    <3> DEFINE row == [dbUsers[w.id] EXCEPT !.used = Plus(@, w.delta)]
    <3>1. w.delta \in Usage
      BY <1>1, <2>2 DEF AddUsageDelta, Write
    <3>2. w.id \in DOMAIN dbUsers => row \in Row
      <4>1. row = Charge(dbUsers[w.id], w.delta)
        BY DEF Charge
      <4>2. QED
        BY <1>3, <3>1, <4>1, ChargeTyped DEF IsMap
    <3>3. UpdateRow(w.id, row) /\ UNCHANGED dbSessions
      BY <2>2 DEF AddUsageDelta
    <3> HIDE DEF row
    <3>4. QED
      BY <1>3, <3>2, <3>3, UpdateRowTyped
  <2>3. CASE DisableUser(w)
    <3> DEFINE row == [dbUsers[w.id] EXCEPT !.enabled = FALSE]
    <3>1. w.id \in DOMAIN dbUsers => row \in Row
      BY <1>3 DEF IsMap, Row
    <3>2. UpdateRow(w.id, row) /\ UNCHANGED dbSessions
      BY <2>3 DEF DisableUser
    <3> HIDE DEF row
    <3>3. QED
      BY <1>3, <3>1, <3>2, UpdateRowTyped
  <2>4. CASE UpsertSession(w)
    <3>1. w.sid \in SessionIds /\ w.session \in Session
      BY <1>1, <2>4 DEF UpsertSession, Write
    <3>2. dbSessions' = Put(dbSessions, w.sid, w.session) /\ UNCHANGED dbUsers
      BY <2>4 DEF UpsertSession
    <3>3. QED
      BY <1>3, <3>1, <3>2, PutIsMap
  <2>5. QED
    BY <2>1, <2>2, <2>3, <2>4 DEF ExecuteWrite
<1>5. DbOK'
  BY <1>4 DEF ExecuteWrite, TypeOK, DbOK, IsMap
<1>6. WorkOK'
  BY BagMinus DEF ExecuteWrite, Done, TypeOK, WorkOK
<1>7. QED
  BY <1>5, <1>6, Frame DEF ExecuteWrite, TypeOK

LEMMA FailWriteType ==
  ASSUME TypeOK, NEW w, FailWrite(w)
  PROVE  TypeOK'
<1>1. WorkOK'
  BY BagMinus DEF FailWrite, Done, TypeOK, WorkOK
<1>2. CountersOK'
  BY ServerAssumption DEF FailWrite, TypeOK, CountersOK
<1>3. QED
  BY <1>1, <1>2, Frame DEF FailWrite, TypeOK

-----------------------------------------------------------------------------
(* Administrative handlers *)

LEMMA InsertType ==
  ASSUME TypeOK, NEW i \in RowIds, NEW n \in Usernames, Insert(i, n)
  PROVE  TypeOK'
<1>1. IsMap(dbUsers', RowIds, Row) /\ IsMap(issued', RowIds, Usernames)
  BY NewRowTyped, PutIsMap DEF Insert, TypeOK, DbOK
<1>2. DbOK'
  BY <1>1 DEF Insert, TypeOK, DbOK, IsMap
<1>3. QED
  BY <1>2, Frame DEF Insert, TypeOK

LEMMA EditType ==
  ASSUME TypeOK, NEW e \in Editors, NEW i \in RowIds, NEW n \in Usernames,
         NEW enabled \in BOOLEAN, EditRead(e, i) \/ EditWrite(e, n, enabled)
  PROVE  TypeOK'
<1>1. CASE EditRead(e, i)
  <2>1. dbUsers[i] \in Row
    BY <1>1 DEF EditRead, TypeOK, DbOK, IsMap
  <2>2. AdminOK'
    BY <1>1, <2>1 DEF EditRead, TypeOK, AdminOK, IsMap
  <2>3. QED
    BY <1>1, <2>2, Frame DEF EditRead, TypeOK
<1>2. CASE EditWrite(e, n, enabled)
  <2> DEFINE old == edit[e]
             row(sim) == Overwritten(dbUsers[old.id], old, n, enabled, sim)
  <2>1. old \in Row /\ SimUses \cup {old.sim} \subseteq Nat
    BY <1>2, ServerAssumption DEF EditWrite, TypeOK, AdminOK, Row
  <2>2. old.id \in DOMAIN dbUsers => \A sim \in SimUses \cup {old.sim} : row(sim) \in Row
    BY <2>1 DEF Overwritten, Row, TypeOK, DbOK, IsMap
  <2>3. \/ /\ old.id \in DOMAIN dbUsers
           /\ \E sim \in SimUses \cup {old.sim} :
                dbUsers' = [dbUsers EXCEPT ![old.id] = row(sim)]
        \/ UNCHANGED dbUsers
    BY <1>2 DEF EditWrite
  <2>4. IsMap(dbUsers', RowIds, Row)
    <3> HIDE DEF row, old
    <3> QED
      BY <2>2, <2>3, ExceptIsMap DEF TypeOK, DbOK, IsMap
  <2>5. DbOK'
    BY <1>2, <2>4 DEF EditWrite, TypeOK, DbOK, IsMap
  <2>6. AdminOK'
    BY <1>2 DEF EditWrite, TypeOK, AdminOK, IsMap
  <2>7. QED
    BY <1>2, <2>5, <2>6, Frame DEF EditWrite, TypeOK
<1>3. QED
  BY <1>1, <1>2

LEMMA DeleteType ==
  ASSUME TypeOK, NEW i \in RowIds, HandleDeleteSubscriber(i)
  PROVE  TypeOK'
<1>1. DbOK'
  BY WithoutIsMap DEF HandleDeleteSubscriber, TypeOK, DbOK, IsMap
<1>2. QED
  BY <1>1, Frame DEF HandleDeleteSubscriber, TypeOK

LEMMA NasType ==
  ASSUME TypeOK, NEW k \in NasIds, NEW host \in Hosts, NEW enabled \in BOOLEAN,
         \/ HandleCreateNAS(k, host)
         \/ HandleDeleteNAS(k)
         \/ HandleUpdateNAS(k, host, enabled)
  PROVE  TypeOK'
<1>1. \A b \in BOOLEAN : [host |-> host, enabled |-> b] \in NasRow
  BY DEF NasRow
<1>2. IsMap(dbNas', NasIds, NasRow)
  <2>1. CASE HandleCreateNAS(k, host)
    BY <1>1, <2>1, PutIsMap DEF HandleCreateNAS, TypeOK, DbOK
  <2>2. CASE HandleDeleteNAS(k)
    BY <2>2, WithoutIsMap DEF HandleDeleteNAS, TypeOK, DbOK
  <2>3. CASE HandleUpdateNAS(k, host, enabled)
    BY <1>1, <2>3, ExceptIsMap DEF HandleUpdateNAS, TypeOK, DbOK
  <2>4. QED
    BY <2>1, <2>2, <2>3
<1>3. DbOK'
  BY <1>2 DEF HandleCreateNAS, HandleDeleteNAS, HandleUpdateNAS, TypeOK, DbOK, IsMap
<1>4. QED
  BY <1>3, Frame DEF HandleCreateNAS, HandleDeleteNAS, HandleUpdateNAS, TypeOK

LEMMA AdministerType == TypeOK /\ Administer => TypeOK'
<1> SUFFICES ASSUME TypeOK, Administer PROVE TypeOK'
  OBVIOUS
<1>1. ASSUME NEW i \in RowIds, NEW n \in Usernames,
             HandleCreateSubscriber(i, n) \/ GenerateOneVoucher(i, n)
      PROVE  TypeOK'
  BY <1>1, InsertType DEF HandleCreateSubscriber, GenerateOneVoucher
<1>2. ASSUME NEW e \in Editors, NEW i \in RowIds, EditRead(e, i)
      PROVE  TypeOK'
  <2>1. \E n \in Usernames : TRUE
    BY <1>2 DEF EditRead, TypeOK, DbOK, IsMap, Row
  <2>2. QED
    BY <1>2, <2>1, EditType
<1>3. ASSUME NEW e \in Editors, NEW n \in Usernames, NEW enabled \in BOOLEAN,
             EditWrite(e, n, enabled)
      PROVE  TypeOK'
  <2>1. \E i \in RowIds : TRUE
    BY <1>3 DEF EditWrite, TypeOK, AdminOK, Row
  <2>2. QED
    BY <1>3, <2>1, EditType
<1>4. ASSUME NEW k \in NasIds, HandleDeleteNAS(k)
      PROVE  TypeOK'
  <2>1. \E host \in Hosts : TRUE
    BY <1>4 DEF HandleDeleteNAS, TypeOK, DbOK, IsMap, NasRow
  <2>2. QED
    BY <1>4, <2>1, NasType
<1>5. QED
  BY <1>1, <1>2, <1>3, <1>4, DeleteType, NasType DEF Administer

-----------------------------------------------------------------------------
(* The specification *)

LEMMA TickType == TypeOK /\ Tick => TypeOK'
<1> SUFFICES ASSUME TypeOK, Tick PROVE TypeOK'
  OBVIOUS
<1>1. CountersOK'
  BY ServerAssumption DEF Tick, TypeOK, CountersOK
<1>2. QED
  BY <1>1, Frame DEF Tick, TypeOK

LEMMA InitType == Init => TypeOK
<1> SUFFICES ASSUME Init PROVE TypeOK
  OBVIOUS
<1>1. DbOK
  BY ServerAssumption, NewRowTyped, EmptyIsMap DEF Init, DbOK, IsMap, NasRow
<1>2. CacheOK
  <2>1. EnabledHosts(dbNas) \subseteq Hosts
    BY <1>1, EnabledHostsTyped DEF DbOK
  <2>2. IsMap([n \in {Seed[i] : i \in DOMAIN Seed} |->
                 dbUsers[CHOOSE i \in DOMAIN Seed : Seed[i] = n]], Usernames, Row)
    BY <1>1, ServerAssumption DEF Init, DbOK, IsMap
  <2>3. QED
    BY <2>1, <2>2, EmptyIsMap DEF Init, CacheOK
<1>3. SessionsOK
  BY EmptyIsMap, BoundAssumption DEF Init, SessionsOK
<1>4. AuthOK
  BY DEF Init, AuthOK, NewRequest, AuthState
<1>5. RefreshOK
  BY IdleTyped DEF Init, RefreshOK
<1>6. AdminOK
  BY DEF Init, AdminOK
<1>7. WorkOK
  BY EmptyBagDomain DEF Init, WorkOK
<1>8. CountersOK
  BY ServerAssumption DEF Init, CountersOK
<1>9. QED
  BY <1>1, <1>2, <1>3, <1>4, <1>5, <1>6, <1>7, <1>8 DEF TypeOK

LEMMA NextType == TypeOK /\ [Next]_vars => TypeOK'
<1> SUFFICES ASSUME TypeOK, [Next]_vars PROVE TypeOK'
  OBVIOUS
<1>1. CASE Background
  BY <1>1, HitType, DisconnectUserType, ExecuteWriteType, FailWriteType, ReadType,
     ApplyType, CleanupType DEF Background, RefreshFromDB
<1>2. CASE UNCHANGED vars
  BY <1>2, Frame DEF vars, TypeOK
<1>3. QED
  BY <1>1, <1>2, TickType, AuthType, AccountingType, ReconcileType,
     HandleDisconnectUserType, AdministerType, RestartType DEF Next

\* In every reachable state every table, map, goroutine and counter has the
\* values its declaration says: no handler stores a row it made up, a negative
\* usage or a dangling goroutine, whatever overlaps what.
THEOREM TypeCorrect == Spec => []TypeOK
<1>1. Init => TypeOK
  BY InitType
<1>2. TypeOK /\ [Next]_vars => TypeOK'
  BY NextType
<1>3. QED
  BY <1>1, <1>2, PTL DEF Spec

=============================================================================
