--------------------------- MODULE LifecycleProofs ---------------------------
(***************************************************************************)
(* The session map implements SessionLifecycle: every step of Server opens *)
(* new sessions, stops sessions, sweeps them, forgets them all, or leaves  *)
(* every session's phase alone.                                            *)
(***************************************************************************)
EXTENDS SessionProofs

USE DEF db, cache, sessionTable, handlers, adminVars, faults

\* No session id is in use that has not been drawn: the next one is fresh.
IdsDrawn ==
  /\ DOMAIN sessions \subseteq 1 .. minted
  /\ DOMAIN dbSessions \subseteq 1 .. minted
  /\ \A w \in DOMAIN writes : w.op = "upsert" => w.sid \in 1 .. minted
  /\ \A c \in Reconcilers : recon[c] # Nil => DOMAIN recon[c] \subseteq 1 .. minted

LEMMA SpawnedIds ==
  ASSUME IdsDrawn, NEW S, Spawn(S), UNCHANGED minted,
         \A w \in S : w.op = "upsert" => w.sid \in 1 .. minted
  PROVE  \A w \in DOMAIN writes' : w.op = "upsert" => w.sid \in 1 .. minted'
<1>1. DOMAIN writes' = DOMAIN writes \cup S
  BY BagPlus DEF Spawn
<1>2. QED
  BY <1>1 DEF IdsDrawn

LEMMA SessionWriteId == \A k, sess : SessionWrite(k, sess).sid = k
BY DEF SessionWrite

LEMMA DrawnFrame ==
  ASSUME IdsDrawn, UNCHANGED <<minted, recon>>,
         DOMAIN sessions' \subseteq DOMAIN sessions,
         DOMAIN dbSessions' \subseteq DOMAIN dbSessions,
         DOMAIN writes' \subseteq DOMAIN writes
  PROVE  IdsDrawn'
BY DEF IdsDrawn

LEMMA DrawnSpawn ==
  ASSUME IdsDrawn, UNCHANGED <<minted, recon, dbSessions>>,
         DOMAIN sessions' = DOMAIN sessions,
         NEW S, Spawn(S), \A w \in S : w.op = "upsert" => w.sid \in 1 .. minted
  PROVE  IdsDrawn'
BY SpawnedIds DEF IdsDrawn

LEMMA AuthDrawn ==
  ASSUME TypeOK, IdsDrawn, NEW h \in Requests, HandleAuth(h)
  PROVE  IdsDrawn'
<1>1. ASSUME NEW host, NEW n, Admit(h, host, n)
      PROVE  IdsDrawn'
  <2>1. PICK S : Spawn(S) /\ \A w \in S : w.op # "upsert"
    BY <1>1, OtherWrites DEF Admit
  <2>2. QED
    BY <1>1, <2>1, DrawnSpawn DEF Admit
<1>2. CASE RejectVoucher(h)
  <2>1. PICK S : Spawn(S) /\ \A w \in S : w.op # "upsert"
    BY <1>2, OtherWrites DEF RejectVoucher
  <2>2. QED
    BY <1>2, <2>1, DrawnSpawn DEF RejectVoucher
<1>3. QED
  BY <1>1, <1>2, DrawnFrame
     DEF HandleAuth, RejectCredentials, StampFirstLogin, PassLimits,
         RejectLast, Accept

LEMMA AccountingDrawn ==
  ASSUME TypeOK, IdsDrawn, HandleAccounting
  PROVE  IdsDrawn'
<1>1. ASSUME NEW host \in Hosts, NEW n \in Usernames, NEW a \in AcctIds,
             HandleAcctStart(host, n, a)
      PROVE  IdsDrawn'
  <2> DEFINE w == SessionWrite(minted + 1, NewSession(host, n, a))
  <2>1. minted \in Nat /\ minted' = minted + 1
    BY <1>1, BoundAssumption DEF HandleAcctStart, TypeOK, SessionsOK
  <2>2. 1 .. minted \subseteq 1 .. minted' /\ minted + 1 \in 1 .. minted'
    BY <2>1
  <2>3. DOMAIN writes' = DOMAIN writes \cup {w}
    BY <1>1, BagPlus DEF HandleAcctStart, Spawn
  <2>4. w.sid = minted + 1
    BY SessionWriteId
  <2>5. DOMAIN sessions' = DOMAIN sessions \cup {minted + 1}
    BY <1>1 DEF HandleAcctStart, Put
  <2>6. UNCHANGED <<dbSessions, recon>>
    BY <1>1 DEF HandleAcctStart
  <2> HIDE DEF w
  <2>7. QED
    BY <2>2, <2>3, <2>4, <2>5, <2>6 DEF IdsDrawn
<1>2. ASSUME NEW host \in Hosts, NEW n \in Usernames, NEW a \in AcctIds,
             NEW reading \in Readings, NEW stop \in BOOLEAN,
             HandleAcctUpdate(host, n, a, reading, stop)
      PROVE  IdsDrawn'
  <2>1. PICK k \in DOMAIN sessions :
          IF n \in DOMAIN subscribers /\ IsVoucher(subscribers[n])
            THEN ChargeVoucher(k, n, reading, stop)
            ELSE RecordOnly(k, reading, stop)
    BY <1>2 DEF HandleAcctUpdate, Matching
  <2> DEFINE sess == Updated(sessions[k], reading, stop)
             delta == Delta(reading, sessions[k].cum)
             i == Charge(subscribers[n], delta).id
  <2>2. /\ sessions' = [sessions EXCEPT ![k] = sess]
        /\ \/ Spawn({SessionWrite(k, sess)}
                      \cup (IF delta = NoUsage THEN {} ELSE {UsageWrite(i, delta)}))
           \/ Spawn({SessionWrite(k, sess)})
    BY <2>1 DEF ChargeVoucher, RecordOnly
  <2>3. k \in 1 .. minted
    BY DEF IdsDrawn
  <2>4. UNCHANGED <<minted, recon, dbSessions>>
    BY <1>2 DEF HandleAcctUpdate
  <2> HIDE DEF sess, delta, i
  <2>5. \E S : Spawn(S) /\ \A w \in S : w.op = "upsert" => w.sid \in 1 .. minted
    BY <2>2, <2>3, SessionWriteId, OtherWrites
  <2>6. QED
    BY <2>2, <2>4, <2>5, DrawnSpawn
<1>3. QED
  BY <1>1, <1>2 DEF HandleAccounting

LEMMA CleanupDrawn ==
  ASSUME IdsDrawn, CleanupStaleSessions
  PROVE  IdsDrawn'
<1> DEFINE S == {SessionWrite(k, Swept(sessions[k])) : k \in Stale}
<1>1. \A w \in S : w.sid \in 1 .. minted
  BY SessionWriteId DEF Stale, IdsDrawn
<1>2. Spawn(S) /\ DOMAIN sessions' = DOMAIN sessions
      /\ UNCHANGED <<minted, recon, dbSessions>>
  BY DEF CleanupStaleSessions
<1> HIDE DEF S
<1>3. QED
  BY <1>1, <1>2, DrawnSpawn

LEMMA ReconcileDrawn ==
  ASSUME TypeOK, IdsDrawn, NEW c \in Reconcilers, ReconcileSessions(c)
  PROVE  IdsDrawn'
<1>1. CASE ReconcileRead(c)
  <2>1. DOMAIN ListActiveSessions \subseteq DOMAIN dbSessions
    BY DEF ListActiveSessions
  <2>2. QED
    BY <1>1, <2>1 DEF ReconcileRead, IdsDrawn, TypeOK, AdminOK
<1>2. CASE ReconcileMerge(c)
  <2>1. DOMAIN sessions' = DOMAIN sessions \cup DOMAIN recon[c]
    BY <1>2 DEF ReconcileMerge, Merged
  <2>2. QED
    BY <1>2, <2>1 DEF ReconcileMerge, IdsDrawn, TypeOK, AdminOK
<1>3. QED
  BY <1>1, <1>2 DEF ReconcileSessions

LEMMA ExchangeChoices ==
  ASSUME NEW job, NEW host, NEW answer \in {"ack", "nak", "error"},
         Exchange(job, host, answer)
  PROVE  \/ sessions' = MarkSessionsStopped(job.name)
         \/ sessions' = MarkSessionsByNAS(job.name, host)
         \/ sessions' = sessions
BY DEF Exchange

LEMMA JobDrawn ==
  ASSUME TypeOK, IdsDrawn, NEW job,
         LookUpHit(job) \/ DisableHit(job) \/ DisconnectUser(job)
  PROVE  IdsDrawn'
<1>1. CASE FinishDisconnect(job)
  <2>1. PICK S : Spawn(S) /\ \A w \in S : w.op # "upsert"
    BY <1>1, OtherWrites DEF FinishDisconnect
  <2>2. QED
    BY <1>1, <2>1, DrawnSpawn DEF FinishDisconnect
<1>2. ASSUME NEW host, NEW answer \in {"ack", "nak", "error"},
             Exchange(job, host, answer)
      PROVE  IdsDrawn'
  <2>1. DOMAIN sessions' = DOMAIN sessions
    BY <1>2, ExchangeChoices DEF MarkSessionsStopped, MarkSessionsByNAS, Stopped
  <2>2. QED
    BY <1>2, <2>1, DrawnFrame DEF Exchange
<1>3. QED
  BY <1>1, <1>2, DrawnFrame DEF LookUpHit, DisableHit, DisconnectUser, Collect

LEMMA WriteDrawn ==
  ASSUME TypeOK, IdsDrawn, NEW w, ExecuteWrite(w) \/ FailWrite(w)
  PROVE  IdsDrawn'
<1>1. DOMAIN writes' \subseteq DOMAIN writes
  BY BagMinus DEF ExecuteWrite, FailWrite, Done
<1>2. CASE UNCHANGED dbSessions
  BY <1>1, <1>2, DrawnFrame DEF ExecuteWrite, FailWrite
<1>3. CASE ExecuteWrite(w) /\ UpsertSession(w)
  <2>1. w.sid \in 1 .. minted
    BY <1>3, BagDomains DEF ExecuteWrite, UpsertSession, IdsDrawn
  <2>2. DOMAIN dbSessions' = DOMAIN dbSessions \cup {w.sid}
    BY <1>3 DEF UpsertSession, Put
  <2>3. QED
    BY <1>1, <1>3, <2>1, <2>2 DEF ExecuteWrite, IdsDrawn
<1>4. QED
  BY <1>2, <1>3
     DEF ExecuteWrite, FailWrite, RecordFirstLogin, AddUsageDelta, DisableUser

LEMMA DrawnNext == TypeOK /\ IdsDrawn /\ [Next]_vars => IdsDrawn'
<1> SUFFICES ASSUME TypeOK, IdsDrawn, [Next]_vars PROVE IdsDrawn'
  OBVIOUS
<1>1. CASE UNCHANGED <<sessions, minted, writes, dbSessions, recon>>
  BY <1>1, DrawnFrame
<1>2. CASE Background
  BY <1>1, <1>2, JobDrawn, WriteDrawn, CleanupDrawn
     DEF Background, RefreshFromDB, ReadUsers, ReadNas, Apply, RefreshError
<1>3. CASE Restart
  BY <1>3, EmptyBagDomain DEF Restart, IdsDrawn, EmptyMap
<1>4. CASE Administer
  <2>1. UNCHANGED <<sessions, minted, writes, dbSessions, recon>>
    BY <1>4
       DEF Administer, HandleCreateSubscriber, GenerateOneVoucher, Insert,
           HandleDeleteSubscriber, EditRead, EditWrite, HandleCreateNAS,
           HandleDeleteNAS, HandleUpdateNAS
  <2>2. QED
    BY <2>1, <1>1
<1>5. CASE Tick \/ (\E n \in Usernames : HandleDisconnectUser(n)) \/ UNCHANGED vars
  <2>1. UNCHANGED <<sessions, minted, writes, dbSessions, recon>>
    BY <1>5 DEF Tick, HandleDisconnectUser, vars
  <2>2. QED
    BY <2>1, <1>1
<1>6. QED
  BY <1>2, <1>3, <1>4, <1>5, AuthDrawn, AccountingDrawn, ReconcileDrawn DEF Next

LEMMA DrawnInit == Init => IdsDrawn
BY EmptyBagDomain DEF Init, IdsDrawn, EmptyMap

-----------------------------------------------------------------------------
(* The step simulation *)

\* A step that puts the sessions of S into phase p and leaves the others.
LEMMA Becomes ==
  ASSUME NEW S, NEW p,
         \A k \in SessionIds : Phase'[k] = IF k \in S THEN p ELSE Phase[k]
  PROVE  Lifecycle!Become(S, p)
BY DEF Lifecycle!Become, Phase

LEMMA PhaseOf ==
  ASSUME TypeOK
  PROVE  /\ \A k \in DOMAIN sessions :
              /\ k \in SessionIds /\ Phase[k] = sessions[k].status
              /\ sessions[k].status \in Statuses
         /\ \A k \in SessionIds \ DOMAIN sessions : Phase[k] = "absent"
BY DEF Phase, TypeOK, SessionsOK, IsMap, Session

LEMMA SamePhases == UNCHANGED sessions => UNCHANGED Phase
BY DEF Phase

LEMMA StartOpens ==
  ASSUME TypeOK, TypeOK', IdsDrawn, NEW host \in Hosts, NEW n \in Usernames,
         NEW a \in AcctIds, HandleAcctStart(host, n, a)
  PROVE  Lifecycle!Next
<1> DEFINE k == minted + 1
<1>1. k \in SessionIds \ DOMAIN sessions
  BY BoundAssumption DEF HandleAcctStart, IdsDrawn, TypeOK, SessionsOK, SessionIds
<1>2. {k} \in SUBSET Lifecycle!In("absent")
  BY <1>1, PhaseOf DEF Lifecycle!In
<1>3. /\ DOMAIN sessions' = DOMAIN sessions \cup {k}
      /\ sessions'[k].status = "active"
      /\ \A m \in DOMAIN sessions \ {k} : sessions'[m] = sessions[m]
  BY DEF HandleAcctStart, Put, NewSession
<1> HIDE DEF k
<1>4. \A m \in SessionIds : Phase'[m] = IF m \in {k} THEN "active" ELSE Phase[m]
  BY <1>1, <1>3 DEF Phase
<1>5. Lifecycle!Become({k}, "active")
  BY <1>4, Becomes
<1>6. QED
  BY <1>2, <1>5 DEF Lifecycle!Next, Lifecycle!Open

LEMMA UpdateStops ==
  ASSUME TypeOK, NEW k \in DOMAIN sessions, NEW reading, NEW stop \in BOOLEAN,
         sessions' = [sessions EXCEPT ![k] = Updated(sessions[k], reading, stop)]
  PROVE  Lifecycle!Next \/ UNCHANGED Phase
<1>1. sessions[k] \in Session /\ k \in SessionIds
  BY DEF TypeOK, SessionsOK, IsMap
<1>2. sessions'[k].status = IF stop THEN "stopped" ELSE sessions[k].status
  BY <1>1 DEF Updated, Session
<1>3. CASE ~stop \/ sessions[k].status = "stopped"
  BY <1>2, <1>3 DEF Phase
<1>4. CASE stop /\ sessions[k].status # "stopped"
  <2>1. {k} \in SUBSET (Lifecycle!In("active") \cup Lifecycle!In("stale"))
    BY <1>1, <1>4, PhaseOf DEF Lifecycle!In, Statuses
  <2>2. \A m \in SessionIds : Phase'[m] = IF m \in {k} THEN "stopped" ELSE Phase[m]
    BY <1>2, <1>4 DEF Phase
  <2>3. Lifecycle!Become({k}, "stopped")
    BY <2>2, Becomes
  <2>4. QED
    BY <2>1, <2>3 DEF Lifecycle!Next, Lifecycle!Stop
<1>5. QED
  BY <1>3, <1>4

LEMMA AccountingSimulates ==
  ASSUME TypeOK, TypeOK', IdsDrawn, HandleAccounting
  PROVE  Lifecycle!Next \/ UNCHANGED Phase
<1>1. ASSUME NEW host \in Hosts, NEW n \in Usernames, NEW a \in AcctIds,
             NEW reading \in Readings, NEW stop \in BOOLEAN,
             HandleAcctUpdate(host, n, a, reading, stop)
      PROVE  Lifecycle!Next \/ UNCHANGED Phase
  <2>1. PICK k \in DOMAIN sessions :
          sessions' = [sessions EXCEPT ![k] = Updated(sessions[k], reading, stop)]
    BY <1>1 DEF HandleAcctUpdate, Matching, ChargeVoucher, RecordOnly
  <2>2. QED
    BY <2>1, UpdateStops
<1>2. QED
  BY <1>1, StartOpens DEF HandleAccounting

LEMMA CleanupSweeps ==
  ASSUME TypeOK, CleanupStaleSessions
  PROVE  Lifecycle!Next
<1>1. Stale \in SUBSET Lifecycle!In("active")
  BY PhaseOf DEF Stale, Lifecycle!In
<1>2. \A k \in DOMAIN sessions :
        sessions'[k].status = IF k \in Stale THEN "stale" ELSE sessions[k].status
  BY DEF CleanupStaleSessions, Swept, TypeOK, SessionsOK, IsMap, Session
<1>3. DOMAIN sessions' = DOMAIN sessions /\ Stale \subseteq DOMAIN sessions
  BY DEF CleanupStaleSessions, Stale
<1>4. \A k \in SessionIds : Phase'[k] = IF k \in Stale THEN "stale" ELSE Phase[k]
  BY <1>2, <1>3 DEF Phase
<1>5. Lifecycle!Become(Stale, "stale")
  BY <1>4, Becomes
<1>6. QED
  BY <1>1, <1>5 DEF Lifecycle!Next, Lifecycle!Sweep

LEMMA MergeOpens ==
  ASSUME TypeOK, StopStamped, NEW c \in Reconcilers, ReconcileMerge(c)
  PROVE  Lifecycle!Next
<1> DEFINE S == DOMAIN recon[c] \ DOMAIN sessions
<1>1. /\ DOMAIN recon[c] \subseteq SessionIds
      /\ \A k \in DOMAIN recon[c] : recon[c][k].status = "active"
  BY DEF ReconcileMerge, StopStamped, TypeOK, AdminOK, IsMap
<1>2. S \in SUBSET Lifecycle!In("absent")
  BY <1>1, PhaseOf DEF Lifecycle!In
<1>3. \A k \in SessionIds : Phase'[k] = IF k \in S THEN "active" ELSE Phase[k]
  BY <1>1 DEF ReconcileMerge, Merged, Phase
<1>4. Lifecycle!Become(S, "active")
  BY <1>3, Becomes
<1>5. QED
  BY <1>2, <1>4 DEF Lifecycle!Next, Lifecycle!Open

LEMMA MarkStops ==
  ASSUME TypeOK, NEW n, NEW host,
         \/ sessions' = MarkSessionsStopped(n)
         \/ sessions' = MarkSessionsByNAS(n, host)
  PROVE  Lifecycle!Next
<1>1. PICK S \in SUBSET {k \in DOMAIN sessions : sessions[k].status = "active"} :
        sessions' = [k \in DOMAIN sessions |->
                       IF k \in S
                         THEN [sessions[k] EXCEPT !.status = "stopped", !.ended = TRUE]
                         ELSE sessions[k]]
  <2> DEFINE A == {k \in DOMAIN sessions : sessions[k].name = n
                                           /\ sessions[k].status = "active"}
             B == {k \in A : NasContains(sessions[k], host)}
  <2>1. CASE sessions' = MarkSessionsStopped(n)
    <3>1. sessions' = [k \in DOMAIN sessions |->
                         IF k \in A
                           THEN [sessions[k] EXCEPT !.status = "stopped", !.ended = TRUE]
                           ELSE sessions[k]]
      BY <2>1 DEF MarkSessionsStopped, Stopped
    <3>2. QED
      BY <3>1
  <2>2. CASE sessions' = MarkSessionsByNAS(n, host)
    <3>1. sessions' = [k \in DOMAIN sessions |->
                         IF k \in B
                           THEN [sessions[k] EXCEPT !.status = "stopped", !.ended = TRUE]
                           ELSE sessions[k]]
      BY <2>2 DEF MarkSessionsByNAS, Stopped
    <3>2. QED
      BY <3>1
  <2>3. QED
    BY <2>1, <2>2
<1>2. S \in SUBSET (Lifecycle!In("active") \cup Lifecycle!In("stale"))
  BY PhaseOf DEF Lifecycle!In
<1>3. \A k \in DOMAIN sessions :
        sessions'[k].status = IF k \in S THEN "stopped" ELSE sessions[k].status
  BY <1>1 DEF TypeOK, SessionsOK, IsMap, Session
<1>4. \A k \in SessionIds : Phase'[k] = IF k \in S THEN "stopped" ELSE Phase[k]
  BY <1>1, <1>3 DEF Phase
<1>5. Lifecycle!Become(S, "stopped")
  BY <1>4, Becomes
<1>6. QED
  BY <1>2, <1>5 DEF Lifecycle!Next, Lifecycle!Stop

LEMMA RestartForgets ==
  ASSUME Restart
  PROVE  Lifecycle!Next
<1>1. \A k \in SessionIds : Phase'[k] = IF k \in SessionIds THEN "absent" ELSE Phase[k]
  BY DEF Restart, Phase, EmptyMap
<1>2. QED
  BY <1>1, Becomes DEF Lifecycle!Next, Lifecycle!Forget

LEMMA StepSimulates ==
  TypeOK /\ TypeOK' /\ StopStamped /\ IdsDrawn /\ [Next]_vars => [Lifecycle!Next]_Phase
<1> SUFFICES ASSUME TypeOK, TypeOK', StopStamped, IdsDrawn, [Next]_vars
             PROVE  Lifecycle!Next \/ UNCHANGED Phase
  OBVIOUS
<1>1. CASE UNCHANGED sessions
  BY <1>1, SamePhases
<1>2. ASSUME NEW job, LookUpHit(job) \/ DisableHit(job) \/ DisconnectUser(job)
      PROVE  Lifecycle!Next \/ UNCHANGED Phase
  BY <1>1, <1>2, ExchangeChoices, MarkStops
     DEF LookUpHit, DisableHit, DisconnectUser, Collect, FinishDisconnect
<1>3. CASE Background
  BY <1>1, <1>2, <1>3, CleanupSweeps
     DEF Background, RefreshFromDB, ReadUsers, ReadNas, Apply, RefreshError,
         ExecuteWrite, FailWrite
<1>4. ASSUME NEW h \in Requests, HandleAuth(h)
      PROVE  UNCHANGED sessions
  BY <1>4 DEF HandleAuth, RejectCredentials, Admit, StampFirstLogin, RejectVoucher,
              PassLimits, RejectLast, Accept
<1>5. CASE Administer
  BY <1>1, <1>5
     DEF Administer, HandleCreateSubscriber, GenerateOneVoucher, Insert,
         HandleDeleteSubscriber, EditRead, EditWrite, HandleCreateNAS,
         HandleDeleteNAS, HandleUpdateNAS
<1>6. QED
  BY <1>1, <1>3, <1>4, <1>5, AccountingSimulates, MergeOpens, RestartForgets
     DEF Next, Tick, ReconcileSessions, ReconcileRead, HandleDisconnectUser, vars

LEMMA InitSimulates == Init => Lifecycle!Init
BY DEF Init, Lifecycle!Init, Phase, EmptyMap

\* The detailed server implements the life cycle of sessions: no handler,
\* sweep, disconnect or reconciliation, in any order, brings a session back.
THEOREM ImplementsLifecycle == Spec => SessionsFollowLifecycle
<1>1. Spec => []IdsDrawn
  <2>1. TypeOK /\ IdsDrawn /\ [Next]_vars => IdsDrawn'
    BY DrawnNext
  <2>2. QED
    BY <2>1, DrawnInit, TypeCorrect, PTL DEF Spec
<1>2. TypeOK /\ TypeOK' /\ StopStamped /\ IdsDrawn /\ [Next]_vars
        => [Lifecycle!Next]_Phase
  BY StepSimulates
<1>3. QED
  BY <1>1, <1>2, InitSimulates, TypeCorrect, StopTimesAgree, PTL
     DEF Spec, SessionsFollowLifecycle, Lifecycle!Spec

=============================================================================
