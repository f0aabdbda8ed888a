---------------------------- MODULE SessionProofs ----------------------------
(***************************************************************************)
(* Sessions: StopTime and status agree wherever a session is kept, and the *)
(* session map implements the life cycle.                                  *)
(***************************************************************************)
EXTENDS ServerProofs

USE DEF db, cache, sessionTable, handlers, adminVars, faults

\* What StopStamped says of the session map and of the writes, to be shown of
\* each step; the rest only copies from these.
LEMMA StopFrame ==
  ASSUME StopStamped,
         StopsKnown(sessions'),
         \A w \in BagToSet(writes') : w.op = "upsert" => StopKnown(w.session),
         UNCHANGED <<dbSessions, recon>>
  PROVE  StopStamped'
BY DEF StopStamped, StopsKnown, StopKnown

LEMMA BagDomains ==
  /\ \A B : BagToSet(B) = DOMAIN B
  /\ \A B, x : BagIn(x, B) <=> x \in DOMAIN B
BY DEF BagToSet, BagIn

LEMMA SpawnedStops ==
  ASSUME StopStamped, NEW S, Spawn(S),
         \A w \in S : w.op = "upsert" => StopKnown(w.session)
  PROVE  \A w \in BagToSet(writes') : w.op = "upsert" => StopKnown(w.session)
<1>1. DOMAIN writes' = DOMAIN writes \cup S
  BY BagPlus DEF Spawn
<1>2. QED
  BY <1>1, BagDomains DEF StopStamped

LEMMA OtherWrites ==
  /\ \A i : FirstLoginWrite(i).op # "upsert" /\ DisableWrite(i).op # "upsert"
  /\ \A i, delta : UsageWrite(i, delta).op # "upsert"
  /\ \A k, sess : SessionWrite(k, sess).session = sess
BY DEF FirstLoginWrite, DisableWrite, UsageWrite, SessionWrite

LEMMA UpdatedStops ==
  ASSUME TypeOK, NEW sess \in Session, StopKnown(sess), NEW u, NEW stop \in BOOLEAN
  PROVE  StopKnown(Updated(sess, u, stop)) /\ StopKnown(Swept(sess))
BY DEF StopKnown, Updated, Swept, Session

LEMMA ExceptStops ==
  ASSUME NEW table, StopsKnown(table), NEW k, NEW sess, StopKnown(sess)
  PROVE  StopsKnown([table EXCEPT ![k] = sess])
BY DEF StopsKnown

LEMMA AuthStops ==
  ASSUME TypeOK, StopStamped, NEW h \in Requests, HandleAuth(h)
  PROVE  StopStamped'
<1>1. UNCHANGED <<sessions, dbSessions, recon>>
  BY DEF HandleAuth, RejectCredentials, Admit, StampFirstLogin, RejectVoucher,
         PassLimits, RejectLast, Accept
<1>2. \A w \in BagToSet(writes') : w.op = "upsert" => StopKnown(w.session)
  <2>1. CASE UNCHANGED writes
    BY <2>1 DEF StopStamped
  <2>2. CASE \E S : Spawn(S) /\ \A w \in S : w.op # "upsert"
    BY <2>2, SpawnedStops
  <2>3. ASSUME NEW host, NEW n, Admit(h, host, n)
        PROVE  \E S : Spawn(S) /\ \A w \in S : w.op # "upsert"
    BY <2>3, OtherWrites DEF Admit
  <2>4. CASE RejectVoucher(h)
    BY <2>2, <2>4, OtherWrites DEF RejectVoucher
  <2>5. QED
    BY <2>1, <2>2, <2>3, <2>4
       DEF HandleAuth, RejectCredentials, StampFirstLogin, PassLimits,
           RejectLast, Accept
<1>3. StopsKnown(sessions')
  BY <1>1 DEF StopStamped, StopsKnown
<1>4. QED
  BY <1>1, <1>2, <1>3, StopFrame

LEMMA AccountingStops ==
  ASSUME TypeOK, StopStamped, HandleAccounting
  PROVE  StopStamped'
<1>1. ASSUME NEW host \in Hosts, NEW n \in Usernames, NEW a \in AcctIds,
             HandleAcctStart(host, n, a)
      PROVE  StopStamped'
  <2> DEFINE sess == NewSession(host, n, a)
  <2>1. StopKnown(sess)
    BY DEF StopKnown, NewSession
  <2>2. /\ sessions' = Put(sessions, minted + 1, sess)
        /\ Spawn({SessionWrite(minted + 1, sess)})
        /\ UNCHANGED <<dbSessions, recon>>
    BY <1>1 DEF HandleAcctStart
  <2> HIDE DEF sess
  <2>3. StopsKnown(sessions')
    BY <2>1, <2>2 DEF StopStamped, StopsKnown, Put
  <2>4. \A w \in BagToSet(writes') : w.op = "upsert" => StopKnown(w.session)
    BY <2>1, <2>2, OtherWrites, SpawnedStops
  <2>5. QED
    BY <2>2, <2>3, <2>4, StopFrame
<1>2. ASSUME NEW host \in Hosts, NEW n \in Usernames, NEW a \in AcctIds,
             NEW reading \in Readings, NEW stop \in BOOLEAN,
             HandleAcctUpdate(host, n, a, reading, stop)
      PROVE  StopStamped'
  <2>1. PICK k \in DOMAIN sessions :
          IF n \in DOMAIN subscribers /\ IsVoucher(subscribers[n])
            THEN ChargeVoucher(k, n, reading, stop)
            ELSE RecordOnly(k, reading, stop)
    BY <1>2 DEF HandleAcctUpdate, Matching
  <2> DEFINE sess == Updated(sessions[k], reading, stop)
  <2>2. StopKnown(sess)
    BY UpdatedStops DEF StopStamped, StopsKnown, TypeOK, SessionsOK, IsMap
  <2>3. /\ sessions' = [sessions EXCEPT ![k] = sess]
        /\ \E S : /\ Spawn(S)
                  /\ \A w \in S : w = SessionWrite(k, sess) \/ w.op # "upsert"
    <3>1. CASE ChargeVoucher(k, n, reading, stop)
      <4> DEFINE delta == Delta(reading, sessions[k].cum)
                 i == Charge(subscribers[n], delta).id
      <4>1. /\ sessions' = [sessions EXCEPT ![k] = sess]
            /\ Spawn({SessionWrite(k, sess)}
                       \cup (IF delta = NoUsage THEN {} ELSE {UsageWrite(i, delta)}))
        BY <3>1 DEF ChargeVoucher
      <4> HIDE DEF sess, delta, i
      <4>2. QED
        BY <4>1, OtherWrites
    <3>2. CASE RecordOnly(k, reading, stop)
      BY <3>2 DEF RecordOnly
    <3>3. QED
      BY <2>1, <3>1, <3>2
  <2>4. UNCHANGED <<dbSessions, recon>>
    BY <1>2 DEF HandleAcctUpdate
  <2> HIDE DEF sess
  <2>5. StopsKnown(sessions')
    BY <2>2, <2>3, ExceptStops DEF StopStamped
  <2>6. \A w \in BagToSet(writes') : w.op = "upsert" => StopKnown(w.session)
    BY <2>2, <2>3, OtherWrites, SpawnedStops
  <2>7. QED
    BY <2>4, <2>5, <2>6, StopFrame
<1>3. QED
  BY <1>1, <1>2 DEF HandleAccounting

LEMMA CleanupStops ==
  ASSUME TypeOK, StopStamped, CleanupStaleSessions
  PROVE  StopStamped'
<1>1. \A k \in DOMAIN sessions : StopKnown(sessions[k]) /\ StopKnown(Swept(sessions[k]))
  BY UpdatedStops DEF StopStamped, StopsKnown, TypeOK, SessionsOK, IsMap
<1>2. StopsKnown(sessions')
  BY <1>1 DEF CleanupStaleSessions, StopsKnown
<1>3. \A w \in BagToSet(writes') : w.op = "upsert" => StopKnown(w.session)
  <2> DEFINE S == {SessionWrite(k, Swept(sessions[k])) : k \in Stale}
  <2>1. \A w \in S : StopKnown(w.session)
    BY <1>1, OtherWrites DEF Stale
  <2>2. Spawn(S)
    BY DEF CleanupStaleSessions
  <2> HIDE DEF S
  <2>3. QED
    BY <2>1, <2>2, SpawnedStops
<1>4. QED
  BY <1>2, <1>3, StopFrame DEF CleanupStaleSessions

LEMMA ReconcileStops ==
  ASSUME TypeOK, StopStamped, NEW c \in Reconcilers, ReconcileSessions(c)
  PROVE  StopStamped'
<1>1. CASE ReconcileRead(c)
  <2>1. /\ StopsKnown(ListActiveSessions)
        /\ \A k \in DOMAIN ListActiveSessions : ListActiveSessions[k].status = "active"
    BY DEF ListActiveSessions, StopStamped, StopsKnown
  <2>2. recon' = [recon EXCEPT ![c] = ListActiveSessions]
        /\ UNCHANGED <<sessions, dbSessions, writes>>
    BY <1>1 DEF ReconcileRead
  <2>3. \A e \in Reconcilers : recon'[e] # Nil =>
          /\ StopsKnown(recon'[e])
          /\ \A k \in DOMAIN recon'[e] : recon'[e][k].status = "active"
    BY <2>1, <2>2 DEF StopStamped, TypeOK, AdminOK
  <2>4. QED
    BY <2>2, <2>3 DEF StopStamped, StopsKnown
<1>2. CASE ReconcileMerge(c)
  <2>1. StopsKnown(sessions')
    BY <1>2 DEF ReconcileMerge, Merged, StopStamped, StopsKnown
  <2>2. recon' = [recon EXCEPT ![c] = Nil] /\ UNCHANGED <<dbSessions, writes>>
    BY <1>2 DEF ReconcileMerge
  <2>3. \A e \in Reconcilers : recon'[e] # Nil =>
          /\ StopsKnown(recon'[e])
          /\ \A k \in DOMAIN recon'[e] : recon'[e][k].status = "active"
    BY <2>2 DEF StopStamped, TypeOK, AdminOK
  <2>4. QED
    BY <2>1, <2>2, <2>3 DEF StopStamped, StopsKnown
<1>3. QED
  BY <1>1, <1>2 DEF ReconcileSessions

LEMMA MarkedStops ==
  ASSUME TypeOK, StopStamped, NEW n, NEW host
  PROVE  StopsKnown(MarkSessionsStopped(n)) /\ StopsKnown(MarkSessionsByNAS(n, host))
<1>1. \A k \in DOMAIN sessions :
        /\ StopKnown(sessions[k])
        /\ StopKnown([sessions[k] EXCEPT !.status = "stopped", !.ended = TRUE])
  BY DEF StopStamped, StopsKnown, StopKnown, TypeOK, SessionsOK, IsMap, Session
<1>2. QED
  BY <1>1 DEF MarkSessionsStopped, MarkSessionsByNAS, Stopped, StopsKnown

LEMMA JobStops ==
  ASSUME TypeOK, StopStamped, NEW job,
         LookUpHit(job) \/ DisableHit(job) \/ DisconnectUser(job)
  PROVE  StopStamped'
<1>1. UNCHANGED <<dbSessions, recon>>
  BY DEF LookUpHit, DisableHit, DisconnectUser, Collect, Exchange, FinishDisconnect
<1>2. StopsKnown(sessions')
  <2>1. ASSUME NEW host, NEW answer \in {"ack", "nak", "error"},
               Exchange(job, host, answer)
        PROVE  \/ sessions' = MarkSessionsStopped(job.name)
               \/ sessions' = MarkSessionsByNAS(job.name, host)
               \/ sessions' = sessions
    BY <2>1 DEF Exchange
  <2>2. CASE UNCHANGED sessions
    BY <2>2 DEF StopStamped, StopsKnown
  <2>3. QED
    BY <2>1, <2>2, MarkedStops
       DEF LookUpHit, DisableHit, DisconnectUser, Collect, FinishDisconnect
<1>3. \A w \in BagToSet(writes') : w.op = "upsert" => StopKnown(w.session)
  <2>1. CASE UNCHANGED writes
    BY <2>1 DEF StopStamped
  <2>2. CASE FinishDisconnect(job)
    <3>1. \E S : Spawn(S) /\ \A w \in S : w.op # "upsert"
      BY <2>2, OtherWrites DEF FinishDisconnect
    <3>2. QED
      BY <3>1, SpawnedStops
  <2>3. QED
    BY <2>1, <2>2 DEF LookUpHit, DisableHit, DisconnectUser, Collect, Exchange
<1>4. QED
  BY <1>1, <1>2, <1>3, StopFrame

LEMMA WriteStops ==
  ASSUME TypeOK, StopStamped, NEW w, ExecuteWrite(w) \/ FailWrite(w)
  PROVE  StopStamped'
<1>1. \A v \in BagToSet(writes') : v.op = "upsert" => StopKnown(v.session)
  <2>1. DOMAIN writes' \subseteq DOMAIN writes
    BY BagMinus DEF ExecuteWrite, FailWrite, Done
  <2>2. QED
    BY <2>1, BagDomains DEF StopStamped
<1>2. UNCHANGED <<sessions, recon>>
  BY DEF ExecuteWrite, FailWrite
<1>3. StopsKnown(dbSessions')
  <2>1. CASE UNCHANGED dbSessions
    BY <2>1 DEF StopStamped, StopsKnown
  <2>2. CASE ExecuteWrite(w) /\ UpsertSession(w)
    <3>1. StopKnown(w.session)
      BY <2>2, BagDomains DEF ExecuteWrite, UpsertSession, StopStamped
    <3>2. QED
      BY <2>2, <3>1 DEF UpsertSession, StopStamped, StopsKnown, Put
  <2>3. QED
    BY <2>1, <2>2
       DEF ExecuteWrite, FailWrite, RecordFirstLogin, AddUsageDelta, DisableUser
<1>4. QED
  BY <1>1, <1>2, <1>3 DEF StopStamped, StopsKnown, StopKnown

LEMMA StopInit == Init => StopStamped
BY EmptyBagDomain, BagDomains DEF Init, StopStamped, StopsKnown, EmptyMap

LEMMA StopNext == TypeOK /\ StopStamped /\ [Next]_vars => StopStamped'
<1> SUFFICES ASSUME TypeOK, StopStamped, [Next]_vars PROVE StopStamped'
  OBVIOUS
<1>1. CASE UNCHANGED <<sessions, writes, dbSessions, recon>>
  BY <1>1 DEF StopStamped, StopsKnown, StopKnown
<1>2. CASE Background
  BY <1>1, <1>2, JobStops, WriteStops, CleanupStops
     DEF Background, RefreshFromDB, ReadUsers, ReadNas, Apply, RefreshError
<1>3. CASE Restart
  BY <1>3, EmptyBagDomain, BagDomains
     DEF Restart, StopStamped, StopsKnown, StopKnown, EmptyMap
<1>4. CASE Administer
  <2>1. UNCHANGED <<sessions, writes, dbSessions, recon>>
    BY <1>4
       DEF Administer, HandleCreateSubscriber, GenerateOneVoucher, Insert,
           HandleDeleteSubscriber, EditRead, EditWrite, HandleCreateNAS,
           HandleDeleteNAS, HandleUpdateNAS
  <2>2. QED
    BY <2>1, <1>1
<1>5. CASE Tick \/ (\E n \in Usernames : HandleDisconnectUser(n)) \/ UNCHANGED vars
  <2>1. UNCHANGED <<sessions, writes, dbSessions, recon>>
    BY <1>5 DEF Tick, HandleDisconnectUser, vars
  <2>2. QED
    BY <2>1, <1>1
<1>6. QED
  BY <1>2, <1>3, <1>4, <1>5, AuthStops, AccountingStops, ReconcileStops DEF Next

\* Wherever a session is kept - in memory, in the database, in a write on its
\* way, in the hands of a reconciliation - its StopTime is set exactly when it
\* is not active, whatever order packets, sweeps and disconnects came in.
THEOREM StopTimesAgree == Spec => []StopStamped
<1>1. TypeOK /\ StopStamped /\ [Next]_vars => StopStamped'
  BY StopNext
<1>2. QED
  BY <1>1, StopInit, TypeCorrect, PTL DEF Spec

=============================================================================
