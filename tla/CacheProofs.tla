----------------------------- MODULE CacheProofs -----------------------------
(***************************************************************************)
(* The cache of subscribers never forgives, the usage it shows is the      *)
(* usage booked in the database, a spent voucher is on its way to be       *)
(* disabled there, and so is every user that the cache shows disabled:     *)
(* whatever the order of accounting, voucher checks, refreshes, late       *)
(* writes and restarts.                                                    *)
(***************************************************************************)
EXTENDS VoucherProofs, Ledger

USE DEF db, cache, sessionTable, handlers, adminVars, faults

LEMMA MergeKeepsLosses ==
  ASSUME NEW old \in Row, NEW row \in Row
  PROVE  /\ ~old.enabled => ~Merge(old, row).enabled
         /\ \A d \in Dims : Merge(old, row).used[d] >= old.used[d]
<1>1. /\ ~old.enabled => ~Merge(old, row).enabled
      /\ Merge(old, row).used = AtLeast(row.used, old.used)
  BY DEF Merge, Row
<1>2. \A d \in Dims : old.used[d] \in Nat /\ row.used[d] \in Nat
  BY DEF Row, Usage
<1>3. QED
  BY <1>1, <1>2 DEF AtLeast

\* A step that replaces one cached user, or disables one.
LEMMA OneUser ==
  ASSUME TypeOK, NEW n, NEW row,
         ~subscribers[n].enabled => ~row.enabled,
         \A d \in Dims : row.used[d] >= subscribers[n].used[d],
         subscribers' = [subscribers EXCEPT ![n] = row]
  PROVE  UsersKeepLosing
<1> SUFFICES ASSUME NEW m \in DOMAIN subscribers \cap DOMAIN subscribers'
             PROVE  /\ ~subscribers[m].enabled => ~subscribers'[m].enabled
                    /\ \A d \in Dims : subscribers'[m].used[d] >= subscribers[m].used[d]
  BY DEF UsersKeepLosing
<1>1. \A d \in Dims : subscribers[m].used[d] \in Nat
  BY DEF TypeOK, CacheOK, IsMap, Row, Usage
<1>2. QED
  BY <1>1

LEMMA SameUsers ==
  ASSUME TypeOK, subscribers' = subscribers
  PROVE  UsersKeepLosing
BY DEF UsersKeepLosing, TypeOK, CacheOK, IsMap, Row, Usage

LEMMA DisabledUser ==
  ASSUME TypeOK, NEW n, subscribers' = Disabled(n)
  PROVE  UsersKeepLosing
<1>1. CASE n \in DOMAIN subscribers
  <2> DEFINE row == [subscribers[n] EXCEPT !.enabled = FALSE]
  <2>1. subscribers[n] \in Row
    BY <1>1 DEF TypeOK, CacheOK, IsMap
  <2>2. ~row.enabled /\ row.used = subscribers[n].used
    BY <2>1 DEF Row
  <2>3. \A d \in Dims : row.used[d] >= subscribers[n].used[d]
    BY <2>1, <2>2 DEF Row, Usage
  <2>4. subscribers' = [subscribers EXCEPT ![n] = row]
    BY <1>1 DEF Disabled
  <2> HIDE DEF row
  <2>5. QED
    BY <2>2, <2>3, <2>4, OneUser
<1>2. CASE n \notin DOMAIN subscribers
  BY <1>2, SameUsers DEF Disabled
<1>3. QED
  BY <1>1, <1>2

LEMMA StampKeepsLosses ==
  ASSUME TypeOK, NEW h \in Requests, StampFirstLogin(h)
  PROVE  UsersKeepLosing
<1> DEFINE user == auth[h].row
           n == user.name
           row == Stamped(subscribers[n], user.id, user.first)
<1>1. CASE n \in DOMAIN subscribers
  <2>1. subscribers[n] \in Row
    BY <1>1 DEF TypeOK, CacheOK, IsMap
  <2>2. row.enabled = subscribers[n].enabled /\ row.used = subscribers[n].used
    BY <2>1 DEF Stamped, Row
  <2>3. \A d \in Dims : row.used[d] >= subscribers[n].used[d]
    BY <2>1, <2>2 DEF Row, Usage
  <2>4. subscribers' = [subscribers EXCEPT ![n] = row]
    BY <1>1 DEF StampFirstLogin
  <2> HIDE DEF user, n, row
  <2>5. QED
    BY <2>2, <2>3, <2>4, OneUser
<1>2. CASE n \notin DOMAIN subscribers
  BY <1>2, SameUsers DEF StampFirstLogin
<1>3. QED
  BY <1>1, <1>2

LEMMA AccountingKeepsLosses ==
  ASSUME TypeOK, HandleAccounting
  PROVE  UsersKeepLosing
<1>1. ASSUME NEW host \in Hosts, NEW n \in Usernames, NEW a \in AcctIds,
             HandleAcctStart(host, n, a)
      PROVE  UsersKeepLosing
  BY <1>1, SameUsers DEF HandleAcctStart
<1>2. ASSUME NEW host \in Hosts, NEW n \in Usernames, NEW a \in AcctIds,
             NEW reading \in Readings, NEW stop \in BOOLEAN,
             HandleAcctUpdate(host, n, a, reading, stop)
      PROVE  UsersKeepLosing
  <2>1. PICK k \in DOMAIN sessions :
          IF n \in DOMAIN subscribers /\ IsVoucher(subscribers[n])
            THEN ChargeVoucher(k, n, reading, stop)
            ELSE RecordOnly(k, reading, stop)
    BY <1>2 DEF HandleAcctUpdate, Matching
  <2>2. CASE n \in DOMAIN subscribers /\ ChargeVoucher(k, n, reading, stop)
    <3> DEFINE delta == Delta(reading, sessions[k].cum)
               row == Charge(subscribers[n], delta)
    <3>1. subscribers[n] \in Row /\ sessions[k].cum \in Usage
      BY <2>2 DEF TypeOK, CacheOK, SessionsOK, IsMap, Session
    <3>2. delta \in Usage
      BY <3>1, UsageTyped, BoundAssumption
    <3>3. row.enabled = subscribers[n].enabled
          /\ row.used = Plus(subscribers[n].used, delta)
      BY <3>1 DEF Charge, Row
    <3>4. \A d \in Dims : row.used[d] >= subscribers[n].used[d]
      <4>1. \A d \in Dims : subscribers[n].used[d] \in Nat /\ delta[d] \in Nat
        BY <3>1, <3>2 DEF Row, Usage
      <4> HIDE DEF delta, row
      <4>2. QED
        BY <3>3, <4>1 DEF Plus
    <3>5. subscribers' = [subscribers EXCEPT ![n] = row]
      BY <2>2 DEF ChargeVoucher
    <3> HIDE DEF delta, row
    <3>6. QED
      BY <3>3, <3>4, <3>5, OneUser
  <2>3. CASE RecordOnly(k, reading, stop)
    BY <2>3, SameUsers DEF RecordOnly
  <2>4. QED
    BY <2>1, <2>2, <2>3
<1>3. QED
  BY <1>1, <1>2 DEF HandleAccounting

LEMMA ApplyKeepsLosses ==
  ASSUME TypeOK, NEW r \in Refreshers, Apply(r)
  PROVE  UsersKeepLosing
<1> DEFINE table == refresh[r].users
<1>1. IsMap(table, RowIds, Row)
  BY DEF TypeOK, RefreshOK, RefreshRecord
<1>2. subscribers' = Loaded(table, subscribers)
  BY DEF Apply
<1> HIDE DEF table
<1> SUFFICES ASSUME NEW n \in DOMAIN subscribers \cap DOMAIN subscribers'
             PROVE  /\ ~subscribers[n].enabled => ~subscribers'[n].enabled
                    /\ \A d \in Dims : subscribers'[n].used[d] >= subscribers[n].used[d]
  BY DEF UsersKeepLosing
<1>3. n \in Names(table) /\ subscribers'[n] = Merge(subscribers[n], RowNamed(table, n))
  BY <1>2 DEF Loaded
<1>4. RowNamed(table, n) \in Row
  BY <1>1, <1>3 DEF RowNamed, Names, IsMap
<1>5. subscribers[n] \in Row
  BY DEF TypeOK, CacheOK, IsMap
<1>6. QED
  BY <1>3, <1>4, <1>5, MergeKeepsLosses

LEMMA StepKeepsLosses ==
  ASSUME TypeOK, [Next]_vars, boots' = boots
  PROVE  UsersKeepLosing
<1>1. CASE UNCHANGED vars
  BY <1>1, SameUsers DEF vars
<1>2. CASE Tick
  BY <1>2, SameUsers DEF Tick
<1>3. ASSUME NEW h \in Requests, HandleAuth(h)
      PROVE  UsersKeepLosing
  <2>1. CASE RejectVoucher(h)
    BY <2>1, DisabledUser DEF RejectVoucher
  <2>2. CASE StampFirstLogin(h)
    BY <2>2, StampKeepsLosses
  <2>3. QED
    BY <1>3, <2>1, <2>2, SameUsers
       DEF HandleAuth, RejectCredentials, Admit, PassLimits, RejectLast, Accept
<1>4. CASE HandleAccounting
  BY <1>4, AccountingKeepsLosses
<1>5. CASE Background
  <2>1. ASSUME NEW job, LookUpHit(job) \/ DisableHit(job) \/ DisconnectUser(job)
        PROVE  UsersKeepLosing
    <3>1. CASE DisableHit(job)
      BY <3>1, DisabledUser DEF DisableHit
    <3>2. QED
      BY <2>1, <3>1, SameUsers
         DEF LookUpHit, DisconnectUser, Collect, Exchange, FinishDisconnect
  <2>2. ASSUME NEW w, ExecuteWrite(w) \/ FailWrite(w)
        PROVE  UsersKeepLosing
    BY <2>2, SameUsers DEF ExecuteWrite, FailWrite
  <2>3. ASSUME NEW r \in Refreshers, RefreshFromDB(r) \/ RefreshError(r)
        PROVE  UsersKeepLosing
    BY <2>3, SameUsers, ApplyKeepsLosses DEF RefreshFromDB, ReadUsers, ReadNas, RefreshError
  <2>4. CASE CleanupStaleSessions
    BY <2>4, SameUsers DEF CleanupStaleSessions
  <2>5. QED
    BY <1>5, <2>1, <2>2, <2>3, <2>4 DEF Background
<1>6. CASE \E c \in Reconcilers : ReconcileSessions(c)
  BY <1>6, SameUsers DEF ReconcileSessions, ReconcileRead, ReconcileMerge
<1>7. CASE \E n \in Usernames : HandleDisconnectUser(n)
  BY <1>7, SameUsers DEF HandleDisconnectUser
<1>8. CASE Administer
  BY <1>8, SameUsers
     DEF Administer, HandleCreateSubscriber, GenerateOneVoucher, Insert,
         HandleDeleteSubscriber, EditRead, EditWrite, HandleCreateNAS,
         HandleDeleteNAS, HandleUpdateNAS
<1>9. CASE Restart
  BY <1>9 DEF Restart, TypeOK, CountersOK
<1>10. QED
  BY <1>1, <1>2, <1>3, <1>4, <1>5, <1>6, <1>7, <1>8, <1>9 DEF Next

\* While a process runs, no interleaving of requests, accounting, refreshes
\* that read the tables long ago and late writes enables a cached user again
\* or takes usage back from it.
THEOREM CacheNeverForgives == Spec => CacheMonotone
<1>1. TypeOK /\ [Next]_vars => [boots' = boots => UsersKeepLosing]_vars
  BY StepKeepsLosses
<1>2. QED
  BY <1>1, TypeCorrect, PTL DEF Spec, CacheMonotone

(***************************************************************************)
(* Bags of statements, and the units of usage that a bag holds.            *)
(***************************************************************************)

CopiesOf(x, B) == IF x \in DOMAIN B THEN B[x] ELSE 0

LEMMA Members ==
  /\ \A B : BagToSet(B) = DOMAIN B
  /\ \A B, x : BagIn(x, B) <=> x \in DOMAIN B
BY DEF BagToSet, BagIn

LEMMA CopiesTyped ==
  ASSUME NEW B, IsABag(B), NEW x
  PROVE  CopiesOf(x, B) \in Nat /\ (CopiesOf(x, B) > 0 <=> x \in DOMAIN B)
BY DEF IsABag, CopiesOf

LEMMA Added ==
  ASSUME NEW B, IsABag(B), NEW S
  PROVE  /\ IsABag(B (+) SetToBag(S))
         /\ \A x : CopiesOf(x, B (+) SetToBag(S)) = CopiesOf(x, B) + IF x \in S THEN 1 ELSE 0
<1> DEFINE C == B (+) SetToBag(S)
<1>1. /\ DOMAIN C = DOMAIN B \cup S
      /\ C = [x \in DOMAIN B \cup S |-> (IF x \in DOMAIN B THEN B[x] ELSE 0)
                                           + (IF x \in S THEN 1 ELSE 0)]
  BY DEF (+), SetToBag
<1>2. \A x \in DOMAIN B : B[x] \in Nat /\ B[x] > 0
  BY DEF IsABag
<1> HIDE DEF C
<1>3. \A x \in DOMAIN C : C[x] \in Nat /\ C[x] > 0
  BY <1>1, <1>2
<1>4. IsABag(C)
  BY <1>1, <1>3 DEF IsABag
<1>5. \A x : CopiesOf(x, C) = CopiesOf(x, B) + IF x \in S THEN 1 ELSE 0
  BY <1>1, <1>2 DEF CopiesOf
<1>6. QED
  BY <1>4, <1>5 DEF C

LEMMA Taken ==
  ASSUME NEW B, IsABag(B), NEW y
  PROVE  /\ IsABag(B (-) SetToBag({y}))
         /\ \A x : CopiesOf(x, B (-) SetToBag({y}))
                     = IF x = y /\ x \in DOMAIN B THEN CopiesOf(x, B) - 1 ELSE CopiesOf(x, B)
<1> DEFINE left == [x \in DOMAIN B |-> IF x \in {y} THEN B[x] - 1 ELSE B[x]]
           C == B (-) SetToBag({y})
<1>1. \A x \in DOMAIN B : B[x] \in Nat /\ B[x] > 0
  BY DEF IsABag
<1>2. C = [x \in {z \in DOMAIN left : left[z] > 0} |-> left[x]]
  BY DEF (-), SetToBag
<1> HIDE DEF C
<1>3. /\ DOMAIN C = {z \in DOMAIN B : left[z] > 0}
      /\ \A x \in DOMAIN C : C[x] = left[x]
  BY <1>2
<1>4. IsABag(C)
  BY <1>1, <1>2, <1>3 DEF IsABag
<1>5. \A x \in DOMAIN B : left[x] = (IF x = y THEN B[x] - 1 ELSE B[x]) /\ left[x] \in Nat
  BY <1>1
<1> HIDE DEF left
<1>6. ASSUME NEW x
      PROVE  CopiesOf(x, C) = IF x = y /\ x \in DOMAIN B THEN CopiesOf(x, B) - 1 ELSE CopiesOf(x, B)
  <2>1. CASE x \in DOMAIN B
    <3>1. CopiesOf(x, C) = left[x] /\ CopiesOf(x, B) = B[x]
      BY <1>3, <1>5, <2>1 DEF CopiesOf
    <3>2. QED
      BY <1>5, <2>1, <3>1
  <2>2. CASE x \notin DOMAIN B
    BY <1>3, <2>2 DEF CopiesOf
  <2>3. QED
    BY <2>1, <2>2
<1>7. QED
  BY <1>4, <1>6 DEF C

LEMMA UnitIn ==
  ASSUME NEW B, IsABag(B), NEW i, NEW d, NEW p
  PROVE  p \in UnitsIn(B, i, d) <=>
           \E w : /\ w.op = "addUsage" /\ w.id = i
                  /\ \E c \in 1 .. CopiesOf(w, B), u \in 1 .. w.delta[d] : p = <<<<w, c>>, u>>
<1>1. ASSUME NEW w, NEW c \in 1 .. CopiesOf(w, B) PROVE w \in BagToSet(B)
  <2>1. CopiesOf(w, B) \in Nat /\ 1 <= c /\ c <= CopiesOf(w, B)
    BY CopiesTyped
  <2>2. QED
    BY <2>1, CopiesTyped, Members
<1> DEFINE mine == {v \in BagToSet(B) : v.op = "addUsage" /\ v.id = i}
<1>2. p \in UnitsIn(B, i, d) <=>
        \E w \in mine : p \in ({w} \X (1 .. CopiesOf(w, B))) \X (1 .. w.delta[d])
  BY Members DEF UnitsIn, CopiesOf
<1>3. \A w : p \in ({w} \X (1 .. CopiesOf(w, B))) \X (1 .. w.delta[d])
               <=> \E c \in 1 .. CopiesOf(w, B), u \in 1 .. w.delta[d] : p = <<<<w, c>>, u>>
  OBVIOUS
<1>4. QED
  BY <1>1, <1>2, <1>3

\* A bag with as many copies of every usage statement of row i holds its units.
LEMMA SameUnits ==
  ASSUME NEW B, NEW C, IsABag(B), IsABag(C), NEW i, NEW d,
         \A w : w.op = "addUsage" /\ w.id = i => CopiesOf(w, C) = CopiesOf(w, B)
  PROVE  UnitsIn(C, i, d) = UnitsIn(B, i, d)
<1>1. \A p : p \in UnitsIn(C, i, d) <=> p \in UnitsIn(B, i, d)
  BY UnitIn
<1>2. QED
  BY <1>1

LEMMA UpTo ==
  ASSUME NEW n \in Nat
  PROVE  IsFiniteSet(1 .. n) /\ Cardinality(1 .. n) = n
<1>1. 1 \in Int /\ n \in Int
  OBVIOUS
<1>2. IsFiniteSet(1 .. n) /\ Cardinality(1 .. n) = IF 1 > n THEN 0 ELSE n - 1 + 1
  BY <1>1, FS_Interval
<1>3. QED
  BY <1>2

\* One more copy of a usage statement is as many more units as its delta.
LEMMA OneMoreCopy ==
  ASSUME NEW B, NEW C, IsABag(B), IsABag(C), NEW d, NEW w, w.op = "addUsage",
         w.delta[d] \in Nat,
         CopiesOf(w, C) = CopiesOf(w, B) + 1,
         \A v : v # w => CopiesOf(v, C) = CopiesOf(v, B),
         IsFiniteSet(UnitsIn(B, w.id, d)) \/ IsFiniteSet(UnitsIn(C, w.id, d))
  PROVE  /\ IsFiniteSet(UnitsIn(B, w.id, d)) /\ IsFiniteSet(UnitsIn(C, w.id, d))
         /\ Cardinality(UnitsIn(B, w.id, d)) \in Nat
         /\ Cardinality(UnitsIn(C, w.id, d)) = Cardinality(UnitsIn(B, w.id, d)) + w.delta[d]
<1> DEFINE n == CopiesOf(w, B)
           U == UnitsIn(B, w.id, d)
           V == UnitsIn(C, w.id, d)
           block == {<<w, n + 1>>} \X (1 .. w.delta[d])
<1>1. n \in Nat /\ CopiesOf(w, C) = n + 1
  BY CopiesTyped
<1>2. /\ IsFiniteSet(block)
      /\ Cardinality(block) = w.delta[d]
  <2>1. /\ IsFiniteSet({<<w, n + 1>>})
        /\ Cardinality({<<w, n + 1>>}) = 1
    BY FS_Singleton
  <2>2. /\ IsFiniteSet(1 .. w.delta[d])
        /\ Cardinality(1 .. w.delta[d]) = w.delta[d]
    BY UpTo
  <2>3. /\ IsFiniteSet(block)
        /\ Cardinality(block) = Cardinality({<<w, n + 1>>}) * Cardinality(1 .. w.delta[d])
    BY <2>1, <2>2, FS_Product
  <2> HIDE DEF block, n
  <2>4. QED
    BY <2>1, <2>2, <2>3
<1> DEFINE of(S, p, v) == \E c \in S, u \in 1 .. v.delta[d] : p = <<<<v, c>>, u>>
<1>3. \A p : p \in U <=> \E v : v.op = "addUsage" /\ v.id = w.id /\ of(1 .. CopiesOf(v, B), p, v)
  BY UnitIn
<1>4. \A p : p \in V <=> \E v : v.op = "addUsage" /\ v.id = w.id /\ of(1 .. CopiesOf(v, C), p, v)
  BY UnitIn
<1>5. \A p : p \in block <=> of({n + 1}, p, w)
  OBVIOUS
<1>6. 1 .. CopiesOf(w, C) = (1 .. n) \cup {n + 1} /\ n + 1 \notin 1 .. n
  BY <1>1
<1>7. V = U \cup block
  <2>1. \A p : of(1 .. CopiesOf(w, C), p, w) <=> of(1 .. n, p, w) \/ of({n + 1}, p, w)
    BY <1>6
  <2> HIDE DEF of, n, block, U, V
  <2>2. \A p, v : v # w => (of(1 .. CopiesOf(v, C), p, v) <=> of(1 .. CopiesOf(v, B), p, v))
    OBVIOUS
  <2>3. \A p : p \in V <=> p \in U \/ p \in block
    BY <1>3, <1>4, <1>5, <2>1, <2>2 DEF n
  <2>4. QED
    BY <2>3
<1>8. U \cap block = {}
  <2>1. ASSUME NEW p \in U, p \in block PROVE FALSE
    <3>1. PICK v : of(1 .. CopiesOf(v, B), p, v)
      BY <1>3
    <3>2. PICK u : p = <<<<w, n + 1>>, u>>
      BY <2>1
    <3>3. v = w /\ n + 1 \in 1 .. n
      BY <3>1, <3>2
    <3>4. QED
      BY <1>6, <3>3
  <2>2. QED
    BY <2>1
<1>9. IsFiniteSet(U) /\ IsFiniteSet(V)
  <2>1. U \in SUBSET V
    BY <1>7
  <2> HIDE DEF U, V, block
  <2>2. IsFiniteSet(V) => IsFiniteSet(U)
    BY <2>1, FS_Subset
  <2>3. IsFiniteSet(U) => IsFiniteSet(V)
    BY <1>2, <1>7, FS_Union
  <2>4. QED
    BY <2>2, <2>3 DEF U, V
<1> HIDE DEF U, V, block
<1>10. Cardinality(V) = Cardinality(U) + Cardinality(block) - Cardinality({})
  BY <1>2, <1>7, <1>8, <1>9, FS_Union
<1>11. Cardinality(U) \in Nat
  BY <1>9, FS_CardinalityType
<1>12. Cardinality(V) = Cardinality(U) + w.delta[d]
  BY <1>2, <1>10, <1>11, FS_EmptySet
<1>13. QED
  BY <1>9, <1>11, <1>12 DEF U, V

(***************************************************************************)
(* What a step can do to the statements and the procedures under way.      *)
(***************************************************************************)

\* Statements other than usage are started, or none is.
WritesCalm ==
  UNCHANGED writes \/ \E S : Spawn(S) /\ \A w \in S : w.op # "addUsage"

LEMMA OtherStatements ==
  /\ \A i : FirstLoginWrite(i).op # "addUsage" /\ DisableWrite(i).op # "addUsage"
  /\ \A k, sess : SessionWrite(k, sess).op # "addUsage"
  /\ \A i, delta : LET w == UsageWrite(i, delta)
                   IN  w.op = "addUsage" /\ w.id = i /\ w.delta = delta
BY DEF FirstLoginWrite, DisableWrite, SessionWrite, UsageWrite

LEMMA WritesMoves ==
  ASSUME [Next]_vars
  PROVE  \/ WritesCalm \/ HandleAccounting \/ Restart
         \/ \E w : ExecuteWrite(w) \/ FailWrite(w)
<1>1. ASSUME NEW h, HandleAuth(h) PROVE WritesCalm
  <2>1. ASSUME NEW host, NEW n, Admit(h, host, n) PROVE WritesCalm
    BY <2>1, OtherStatements DEF Admit, WritesCalm
  <2>2. CASE RejectVoucher(h)
    BY <2>2, OtherStatements DEF RejectVoucher, WritesCalm
  <2>3. QED
    BY <1>1, <2>1, <2>2
       DEF HandleAuth, RejectCredentials, StampFirstLogin, PassLimits, RejectLast,
           Accept, WritesCalm
<1>2. ASSUME NEW job, LookUpHit(job) \/ DisableHit(job) \/ DisconnectUser(job)
      PROVE  WritesCalm
  <2>1. CASE FinishDisconnect(job)
    <3>1. \A w \in (IF job.id = Nil THEN {} ELSE {DisableWrite(job.id)}) : w.op # "addUsage"
      BY OtherStatements
    <3>2. QED
      BY <2>1, <3>1 DEF FinishDisconnect, WritesCalm
  <2>2. QED
    BY <1>2, <2>1 DEF LookUpHit, DisableHit, DisconnectUser, Collect, Exchange,
       WritesCalm
<1>3. ASSUME CleanupStaleSessions PROVE WritesCalm
  BY <1>3, OtherStatements DEF CleanupStaleSessions, WritesCalm
<1>4. ASSUME Administer PROVE WritesCalm
  BY <1>4
     DEF Administer, HandleCreateSubscriber, GenerateOneVoucher, Insert,
         HandleDeleteSubscriber, EditRead, EditWrite, HandleCreateNAS,
         HandleDeleteNAS, HandleUpdateNAS, WritesCalm
<1>5. ASSUME NEW r, RefreshFromDB(r) \/ RefreshError(r) PROVE WritesCalm
  BY <1>5 DEF RefreshFromDB, ReadUsers, ReadNas, Apply, RefreshError,
     WritesCalm
<1>6. QED
  BY <1>1, <1>2, <1>3, <1>4, <1>5
     DEF Next, vars, Tick, Background, HandleDisconnectUser, ReconcileSessions,
         ReconcileRead, ReconcileMerge, WritesCalm

\* What an accounting packet does: a Start or an update that charges nothing,
\* or the charge of a voucher.
Charges(n, delta) ==
  LET u == Charge(subscribers[n], delta)
  IN  /\ n \in DOMAIN subscribers
      /\ subscribers' = [subscribers EXCEPT ![n] = u]
      /\ \E w : w.op = "upsert" /\ Spawn({w} \cup (IF delta = NoUsage THEN {}
                                                   ELSE {UsageWrite(u.id, delta)}))
      /\ \/ jobs' = jobs (+) SetToBag({NewJob("hit", n, Nil, {})}) /\ spent' = spent \cup {u.id}
         \/ UNCHANGED <<jobs, spent>>

LEMMA AccountingMoves ==
  ASSUME TypeOK, HandleAccounting
  PROVE  \/ UNCHANGED <<subscribers, jobs, spent>> /\ WritesCalm
         \/ \E n \in Usernames, delta \in Usage : Charges(n, delta)
<1>1. ASSUME NEW host, NEW n, NEW a, HandleAcctStart(host, n, a)
      PROVE  UNCHANGED <<subscribers, jobs, spent>> /\ WritesCalm
  BY <1>1, OtherStatements DEF HandleAcctStart, WritesCalm
<1>2. ASSUME NEW host, NEW n \in Usernames, NEW a, NEW reading \in Readings, NEW stop,
             HandleAcctUpdate(host, n, a, reading, stop)
      PROVE  \/ UNCHANGED <<subscribers, jobs, spent>> /\ WritesCalm
             \/ \E delta \in Usage : Charges(n, delta)
  <2>1. PICK k \in DOMAIN sessions :
          IF n \in DOMAIN subscribers /\ IsVoucher(subscribers[n])
            THEN ChargeVoucher(k, n, reading, stop)
            ELSE RecordOnly(k, reading, stop)
    BY <1>2 DEF HandleAcctUpdate, Matching
  <2>2. CASE RecordOnly(k, reading, stop)
    BY <2>2, OtherStatements DEF RecordOnly, WritesCalm
  <2>3. CASE n \in DOMAIN subscribers /\ ChargeVoucher(k, n, reading, stop)
    <3> DEFINE delta == Delta(reading, sessions[k].cum)
               u == Charge(subscribers[n], delta)
               w == SessionWrite(k, Updated(sessions[k], reading, stop))
    <3>1. delta \in Usage
      BY BoundAssumption, UsageTyped DEF TypeOK, SessionsOK, IsMap, Session
    <3>2. w.op = "upsert"
      BY DEF SessionWrite
    <3>3. /\ subscribers' = [subscribers EXCEPT ![n] = u]
          /\ Spawn({w} \cup (IF delta = NoUsage THEN {} ELSE {UsageWrite(u.id, delta)}))
          /\ \/ jobs' = jobs (+) SetToBag({NewJob("hit", n, Nil, {})})
                /\ spent' = spent \cup {u.id}
             \/ UNCHANGED <<jobs, spent>>
      BY <2>3 DEF ChargeVoucher
    <3> HIDE DEF delta, w
    <3>4. Charges(n, delta)
      BY <2>3, <3>2, <3>3 DEF Charges
    <3>5. QED
      BY <3>1, <3>4
  <2>4. QED
    BY <2>1, <2>2, <2>3
<1>3. QED
  BY <1>1, <1>2 DEF HandleAccounting

\* What a step does to the usage that a row has in radius_users.
LEMMA TableMoves ==
  ASSUME [Next]_vars
  PROVE  \/ UNCHANGED <<dbUsers, issued>>
         \/ \E w : ExecuteWrite(w)
         \/ \E e \in Editors, n \in Usernames, enabled \in BOOLEAN : EditWrite(e, n, enabled)
         \/ ~Stable /\ \E i \in RowIds, n \in Usernames : Insert(i, n)
         \/ ~Stable /\ \E i \in RowIds : HandleDeleteSubscriber(i)
<1>1. ASSUME NEW i \in RowIds, NEW n \in Usernames,
             HandleCreateSubscriber(i, n) \/ GenerateOneVoucher(i, n)
      PROVE  ~Stable /\ Insert(i, n)
  BY <1>1 DEF HandleCreateSubscriber, GenerateOneVoucher, Stable, NamesKept
<1>2. ASSUME NEW i \in RowIds, HandleDeleteSubscriber(i) PROVE ~Stable
  BY <1>2 DEF HandleDeleteSubscriber, Stable
<1>3. ASSUME NEW job, LookUpHit(job) \/ DisableHit(job) \/ DisconnectUser(job)
      PROVE  UNCHANGED <<dbUsers, issued>>
  BY <1>3 DEF LookUpHit, DisableHit, DisconnectUser, Collect, Exchange, FinishDisconnect
<1>4. ASSUME NEW r, RefreshFromDB(r) \/ RefreshError(r) PROVE UNCHANGED <<dbUsers, issued>>
  BY <1>4 DEF RefreshFromDB, ReadUsers, ReadNas, Apply, RefreshError
<1>5. ASSUME NEW h, HandleAuth(h) PROVE UNCHANGED <<dbUsers, issued>>
  BY <1>5 DEF HandleAuth, RejectCredentials, Admit, StampFirstLogin, RejectVoucher,
     PassLimits, RejectLast, Accept
<1>6. ASSUME HandleAccounting PROVE UNCHANGED <<dbUsers, issued>>
  BY <1>6 DEF HandleAccounting, HandleAcctStart, HandleAcctUpdate
<1>7. ASSUME Administer
      PROVE  \/ UNCHANGED <<dbUsers, issued>>
             \/ \E e \in Editors, n \in Usernames, enabled \in BOOLEAN : EditWrite(e, n, enabled)
             \/ ~Stable /\ \E i \in RowIds, n \in Usernames : Insert(i, n)
             \/ ~Stable /\ \E i \in RowIds : HandleDeleteSubscriber(i)
  <2>1. ASSUME NEW e, NEW i, EditRead(e, i) PROVE UNCHANGED <<dbUsers, issued>>
    BY <2>1 DEF EditRead
  <2>2. ASSUME NEW k, NEW host, NEW enabled,
               \/ HandleCreateNAS(k, host) \/ HandleDeleteNAS(k)
               \/ HandleUpdateNAS(k, host, enabled)
        PROVE  UNCHANGED <<dbUsers, issued>>
    BY <2>2 DEF HandleCreateNAS, HandleDeleteNAS, HandleUpdateNAS
  <2>3. QED
    BY <1>1, <1>2, <1>7, <2>1, <2>2 DEF Administer
<1>8. QED
  BY <1>3, <1>4, <1>5, <1>6, <1>7
     DEF Next, vars, Tick, Background, HandleDisconnectUser, ReconcileSessions,
         ReconcileRead, ReconcileMerge, CleanupStaleSessions, FailWrite, Restart

\* An editor has the row it read, or one of the table now, or none.
LEMMA EditRows ==
  ASSUME TypeOK, [Next]_vars, NEW e \in Editors, edit'[e] # Nil
  PROVE  \/ edit'[e] = edit[e]
         \/ "edit" \in Admin /\ \E i \in DOMAIN dbUsers : edit'[e] = dbUsers[i]
<1>1. CASE UNCHANGED edit
  BY <1>1
<1>2. CASE Administer
  <2>1. ASSUME NEW g \in Editors, NEW i \in RowIds, EditRead(g, i)
        PROVE  \/ edit'[e] = edit[e]
               \/ "edit" \in Admin /\ \E j \in DOMAIN dbUsers : edit'[e] = dbUsers[j]
    BY <2>1 DEF EditRead, TypeOK, AdminOK
  <2>2. ASSUME NEW g \in Editors, NEW n, NEW enabled, EditWrite(g, n, enabled)
        PROVE  edit'[e] = edit[e]
    BY <2>2 DEF EditWrite, TypeOK, AdminOK
  <2>3. QED
    BY <1>1, <1>2, <2>1, <2>2 DEF Administer, HandleCreateSubscriber, GenerateOneVoucher,
       Insert, HandleDeleteSubscriber, HandleCreateNAS, HandleDeleteNAS, HandleUpdateNAS
<1>3. ASSUME NEW h, HandleAuth(h) PROVE UNCHANGED edit
  BY <1>3 DEF HandleAuth, RejectCredentials, Admit, StampFirstLogin, RejectVoucher,
     PassLimits, RejectLast, Accept
<1>4. ASSUME HandleAccounting PROVE UNCHANGED edit
  BY <1>4 DEF HandleAccounting, HandleAcctStart, HandleAcctUpdate
<1>5. ASSUME Background PROVE UNCHANGED edit
  BY <1>5 DEF Background, LookUpHit, DisableHit, DisconnectUser, Collect, Exchange,
     FinishDisconnect, ExecuteWrite, FailWrite, RefreshFromDB, ReadUsers, ReadNas, Apply,
     RefreshError, CleanupStaleSessions
<1>6. ASSUME Restart PROVE FALSE
  BY <1>6 DEF Restart
<1>7. QED
  BY <1>1, <1>2, <1>3, <1>4, <1>5, <1>6
     DEF Next, vars, Tick, HandleDisconnectUser, ReconcileSessions, ReconcileRead,
         ReconcileMerge

\* Only a failed statement is counted as lost.
LEMMA LostMoves ==
  ASSUME [Next]_vars
  PROVE  UNCHANGED lost \/ \E w : FailWrite(w)
<1>1. ASSUME NEW h, HandleAuth(h) PROVE UNCHANGED lost
  BY <1>1 DEF HandleAuth, RejectCredentials, Admit, StampFirstLogin, RejectVoucher,
     PassLimits, RejectLast, Accept
<1>2. ASSUME HandleAccounting PROVE UNCHANGED lost
  BY <1>2 DEF HandleAccounting, HandleAcctStart, HandleAcctUpdate
<1>3. ASSUME Background PROVE UNCHANGED lost \/ \E w : FailWrite(w)
  BY <1>3 DEF Background, LookUpHit, DisableHit, DisconnectUser, Collect, Exchange,
     FinishDisconnect, ExecuteWrite, RefreshFromDB, ReadUsers, ReadNas, Apply,
     RefreshError, CleanupStaleSessions
<1>4. ASSUME Administer PROVE UNCHANGED lost
  BY <1>4 DEF Administer, HandleCreateSubscriber, GenerateOneVoucher, Insert,
     HandleDeleteSubscriber, EditRead, EditWrite, HandleCreateNAS, HandleDeleteNAS,
     HandleUpdateNAS
<1>5. QED
  BY <1>1, <1>2, <1>3, <1>4
     DEF Next, vars, Tick, HandleDisconnectUser, ReconcileSessions, ReconcileRead,
         ReconcileMerge, Restart

\* The statements and the procedures under way are bags.
WorkIsBags == IsABag(writes) /\ IsABag(jobs)

LEMMA Bags ==
  /\ IsABag(EmptyBag)
  /\ \A B : IsABag(B) => \A S : IsABag(B (+) SetToBag(S))
  /\ \A B : IsABag(B) => \A x : IsABag(B (-) SetToBag({x}))
<1>1. IsABag(EmptyBag)
  BY DEF IsABag, EmptyBag, SetToBag
<1>2. QED
  BY <1>1, Added, Taken

LEMMA BagsStep ==
  ASSUME TypeOK, WorkIsBags, [Next]_vars
  PROVE  WorkIsBags'
<1> USE DEF WorkIsBags
<1>1. ASSUME NEW job, LookUpHit(job) \/ DisableHit(job) \/ DisconnectUser(job)
      PROVE  IsABag(jobs')
  <2>1. PICK S : Replace(job, S)
    BY <1>1 DEF LookUpHit, DisableHit, DisconnectUser, Collect, Exchange, FinishDisconnect
  <2>2. QED
    BY <2>1, Bags DEF Replace
<1>2. CASE HandleAccounting
  <2>1. IsABag(writes') /\ IsABag(jobs')
    <3>1. CASE UNCHANGED <<subscribers, jobs, spent>> /\ WritesCalm
      BY <3>1, Bags DEF WritesCalm, Spawn
    <3>2. ASSUME NEW n, NEW delta, Charges(n, delta)
          PROVE  IsABag(writes') /\ IsABag(jobs')
      BY <3>2, Bags DEF Charges, Spawn
    <3>3. QED
      BY <1>2, <3>1, <3>2, AccountingMoves
  <2>2. QED
    BY <2>1
<1>3. IsABag(writes')
  <2>1. ASSUME NEW w, ExecuteWrite(w) \/ FailWrite(w) PROVE IsABag(writes')
    BY <2>1, Bags DEF ExecuteWrite, FailWrite, Done
  <2>2. CASE WritesCalm
    BY <2>2, Bags DEF WritesCalm, Spawn
  <2>3. CASE Restart
    BY <2>3, Bags DEF Restart
  <2>4. QED
    BY <1>2, <2>1, <2>2, <2>3, WritesMoves
<1>4. IsABag(jobs')
  <2>1. ASSUME NEW h, HandleAuth(h) PROVE UNCHANGED jobs
    BY <2>1 DEF HandleAuth, RejectCredentials, Admit, StampFirstLogin, RejectVoucher,
       PassLimits, RejectLast, Accept
  <2>2. CASE Background
    <3>1. ASSUME NEW w, ExecuteWrite(w) \/ FailWrite(w) PROVE UNCHANGED jobs
      BY <3>1 DEF ExecuteWrite, FailWrite
    <3>2. ASSUME NEW r, RefreshFromDB(r) \/ RefreshError(r) PROVE UNCHANGED jobs
      BY <3>2 DEF RefreshFromDB, ReadUsers, ReadNas, Apply, RefreshError
    <3>3. QED
      BY <1>1, <2>2, <3>1, <3>2 DEF Background, CleanupStaleSessions
  <2>3. ASSUME Administer PROVE UNCHANGED jobs
    BY <2>3 DEF Administer, HandleCreateSubscriber, GenerateOneVoucher, Insert,
       HandleDeleteSubscriber, EditRead, EditWrite, HandleCreateNAS, HandleDeleteNAS,
       HandleUpdateNAS
  <2>4. ASSUME NEW n, HandleDisconnectUser(n) PROVE IsABag(jobs')
    BY <2>4, Bags DEF HandleDisconnectUser
  <2>5. CASE Restart
    BY <2>5, Bags DEF Restart
  <2>6. QED
    BY <1>2, <2>1, <2>2, <2>3, <2>4, <2>5
       DEF Next, vars, Tick, ReconcileSessions, ReconcileRead, ReconcileMerge
<1>5. QED
  BY <1>3, <1>4

(***************************************************************************)
(* The books.                                                              *)
(***************************************************************************)

IsCached(i) == issued[i] \in DOMAIN subscribers

\* The usage of row i as the process knows it, or will load it.
Charged(i, d) == IF IsCached(i) THEN subscribers[issued[i]].used[d] ELSE dbUsers[i].used[d]

\* A row in an editor's hands may still be written back, one in a refresh's
\* hands may still be merged.  What is not cached has no statement under way,
\* and every copy of it is the row of the table.
Books(i, d) ==
  /\ IsFiniteSet(UnitsIn(writes, i, d))
  /\ Booked(i, d) <= Charged(i, d)
  /\ lost = 0 /\ "edit" \notin Admin => Booked(i, d) = Charged(i, d)
  /\ \A e \in Editors :
       edit[e] # Nil /\ edit[e].id = i =>
         /\ edit[e].used[d] + Outstanding(i, d) <= Charged(i, d)
         /\ IsCached(i) \/ edit[e].used[d] = dbUsers[i].used[d]
  /\ \A r \in Refreshers :
       i \in DOMAIN refresh[r].users =>
         /\ refresh[r].users[i].used[d] <= Charged(i, d)
         /\ IsCached(i) \/ refresh[r].users[i].used[d] = dbUsers[i].used[d]

BooksInv == \A i \in DOMAIN issued, d \in Dims : Books(i, d)

\* While names stay, a cached user is that of the row it was issued to.
LEMMA CachedRow ==
  ASSUME TypeOK, NamesBound, SpentInv, NEW n \in DOMAIN subscribers
  PROVE  /\ subscribers[n].id \in DOMAIN issued
         /\ subscribers[n].id \in DOMAIN dbUsers
         /\ issued[subscribers[n].id] = n
BY DEF NamesBound, UsersBound, Bound, SpentInv

LEMMA BooksTyped ==
  ASSUME TypeOK, NamesBound, SpentInv, NEW i \in DOMAIN issued, NEW d \in Dims,
         IsFiniteSet(UnitsIn(writes, i, d))
  PROVE  /\ Outstanding(i, d) \in Nat
         /\ dbUsers[i].used[d] \in Nat
         /\ Charged(i, d) \in Nat
         /\ \A e \in Editors : edit[e] # Nil => edit[e].used[d] \in Nat
         /\ \A r \in Refreshers :
              i \in DOMAIN refresh[r].users => refresh[r].users[i].used[d] \in Nat
<1>1. \A row \in Row : row.used[d] \in Nat
  BY DEF Row, Usage
<1>2. dbUsers[i] \in Row /\ \A n \in DOMAIN subscribers : subscribers[n] \in Row
  BY DEF TypeOK, DbOK, CacheOK, IsMap, SpentInv
<1>3. Outstanding(i, d) \in Nat
  BY FS_CardinalityType DEF Outstanding
<1>4. \A e \in Editors : edit[e] # Nil => edit[e] \in Row
  BY DEF TypeOK, AdminOK
<1>5. \A r \in Refreshers : i \in DOMAIN refresh[r].users => refresh[r].users[i] \in Row
  BY DEF TypeOK, RefreshOK, RefreshRecord, IsMap
<1>6. QED
  BY <1>1, <1>2, <1>3, <1>4, <1>5 DEF Charged, IsCached

LEMMA CalmUsers ==
  ASSUME TypeOK, CacheCalm
  PROVE  /\ DOMAIN subscribers' = DOMAIN subscribers
         /\ \A n \in DOMAIN subscribers : subscribers'[n].used = subscribers[n].used
<1>1. \A n \in DOMAIN subscribers : subscribers[n] \in Row
  BY DEF TypeOK, CacheOK, IsMap
<1>2. CASE UNCHANGED subscribers
  BY <1>2
<1>3. ASSUME NEW n \in DOMAIN subscribers, NEW row, row.used = subscribers[n].used,
             subscribers' = [subscribers EXCEPT ![n] = row]
      PROVE  /\ DOMAIN subscribers' = DOMAIN subscribers
             /\ \A m \in DOMAIN subscribers : subscribers'[m].used = subscribers[m].used
  BY <1>3
<1>4. CASE DisablesUser
  <2>1. PICK n \in DOMAIN subscribers :
          subscribers' = [subscribers EXCEPT ![n] = [@ EXCEPT !.enabled = FALSE]]
    BY <1>4 DEF DisablesUser
  <2>2. [subscribers[n] EXCEPT !.enabled = FALSE].used = subscribers[n].used
    BY <1>1 DEF Row
  <2>3. QED
    BY <1>3, <2>1, <2>2
<1>5. ASSUME NEW h, StampsUser(h)
      PROVE  /\ DOMAIN subscribers' = DOMAIN subscribers
             /\ \A m \in DOMAIN subscribers : subscribers'[m].used = subscribers[m].used
  <2>1. PICK n \in DOMAIN subscribers :
          \E i, t : subscribers' = [subscribers EXCEPT ![n] = Stamped(subscribers[n], i, t)]
    BY <1>5 DEF StampsUser
  <2>2. PICK i, t : subscribers' = [subscribers EXCEPT ![n] = Stamped(subscribers[n], i, t)]
    BY <2>1
  <2>3. Stamped(subscribers[n], i, t).used = subscribers[n].used
    BY <1>1 DEF Row, Stamped
  <2>4. QED
    BY <1>3, <2>2, <2>3
<1>6. QED
  BY <1>2, <1>4, <1>5 DEF CacheCalm

LEMMA CalmCharged ==
  ASSUME TypeOK, CacheCalm, NEW i, NEW d, UNCHANGED issued,
         dbUsers'[i].used[d] = dbUsers[i].used[d]
  PROVE  Charged(i, d)' = Charged(i, d) /\ IsCached(i)' = IsCached(i)
<1>1. IsCached(i)' = IsCached(i)
  BY CalmUsers DEF IsCached
<1>2. IsCached(i) => subscribers'[issued[i]].used[d] = subscribers[issued[i]].used[d]
  BY CalmUsers DEF IsCached
<1>3. QED
  BY <1>1, <1>2 DEF Charged

LEMMA CalmUnits ==
  ASSUME WorkIsBags, WorkIsBags', WritesCalm, NEW i, NEW d
  PROVE  UnitsIn(writes', i, d) = UnitsIn(writes, i, d)
<1>1. CASE UNCHANGED writes
  BY <1>1
<1>2. ASSUME NEW S, Spawn(S), \A w \in S : w.op # "addUsage"
      PROVE  UnitsIn(writes', i, d) = UnitsIn(writes, i, d)
  <2>1. \A w : w.op = "addUsage" => CopiesOf(w, writes') = CopiesOf(w, writes) + 0
    BY <1>2, Added DEF WorkIsBags, Spawn
  <2>2. \A w : w.op = "addUsage" => CopiesOf(w, writes') = CopiesOf(w, writes)
    BY <2>1, CopiesTyped DEF WorkIsBags
  <2>3. QED
    BY <2>2, SameUnits DEF WorkIsBags
<1>3. QED
  BY <1>1, <1>2 DEF WritesCalm

\* A statement that is done with, executed or not, takes its units along.
LEMMA DoneUnits ==
  ASSUME WorkIsBags, WorkIsBags', NEW w \in Write, BagIn(w, writes), Done(w), NEW i, NEW d \in Dims,
         IsFiniteSet(UnitsIn(writes, i, d))
  PROVE  /\ IsFiniteSet(UnitsIn(writes', i, d))
         /\ w.op = "addUsage" /\ w.id = i =>
              /\ Outstanding(i, d)' \in Nat
              /\ Outstanding(i, d) = Outstanding(i, d)' + w.delta[d]
         /\ ~(w.op = "addUsage" /\ w.id = i) =>
              Outstanding(i, d)' = Outstanding(i, d)
<1>1. \A x : CopiesOf(x, writes')
               = IF x = w THEN CopiesOf(x, writes) - 1 ELSE CopiesOf(x, writes)
  BY Taken, Members DEF Done, WorkIsBags
<1>2. CASE w.op = "addUsage" /\ w.id = i
  <2>1. w.delta[d] \in Nat
    BY <1>2 DEF Write, Usage
  <2>2. CopiesOf(w, writes) = CopiesOf(w, writes') + 1
    BY <1>1, CopiesTyped DEF WorkIsBags
  <2>3. \A x : x # w => CopiesOf(x, writes) = CopiesOf(x, writes')
    BY <1>1
  <2>4. /\ IsFiniteSet(UnitsIn(writes', w.id, d))
        /\ Cardinality(UnitsIn(writes', w.id, d)) \in Nat
        /\ Cardinality(UnitsIn(writes, w.id, d))
             = Cardinality(UnitsIn(writes', w.id, d)) + w.delta[d]
    BY <1>2, <2>1, <2>2, <2>3, OneMoreCopy DEF WorkIsBags
  <2>5. QED
    BY <1>2, <2>4 DEF Outstanding
<1>3. CASE ~(w.op = "addUsage" /\ w.id = i)
  <2>1. \A x : x.op = "addUsage" /\ x.id = i => CopiesOf(x, writes') = CopiesOf(x, writes)
    BY <1>1, <1>3
  <2>2. UnitsIn(writes', i, d) = UnitsIn(writes, i, d)
    BY <2>1, SameUnits DEF WorkIsBags
  <2>3. QED
    BY <1>3, <2>2 DEF Outstanding
<1>4. QED
  BY <1>2, <1>3

LEMMA StatementUsage ==
  ASSUME TypeOK, NEW w, ExecuteWrite(w), NEW i \in DOMAIN dbUsers
  PROVE  dbUsers'[i].used = IF w.op = "addUsage" /\ w.id = i
                              THEN Plus(dbUsers[i].used, w.delta)
                              ELSE dbUsers[i].used
<1>1. dbUsers[i] \in Row
  BY DEF TypeOK, DbOK, IsMap
<1>2. ASSUME NEW row, UpdateRow(w.id, row)
      PROVE  dbUsers'[i] = IF w.id = i THEN row ELSE dbUsers[i]
  BY <1>2 DEF UpdateRow
<1>3. CASE AddUsageDelta(w)
  <2>1. dbUsers'[i] = IF w.id = i THEN [dbUsers[w.id] EXCEPT !.used = Plus(@, w.delta)]
                                  ELSE dbUsers[i]
    BY <1>2, <1>3 DEF AddUsageDelta
  <2>2. QED
    BY <1>1, <1>3, <2>1 DEF AddUsageDelta, Row
<1>4. CASE DisableUser(w)
  <2>1. dbUsers'[i] = IF w.id = i THEN [dbUsers[w.id] EXCEPT !.enabled = FALSE]
                                  ELSE dbUsers[i]
    BY <1>2, <1>4 DEF DisableUser
  <2>2. QED
    BY <1>1, <1>4, <2>1 DEF DisableUser, Row
<1>5. CASE RecordFirstLogin(w)
  <2>1. dbUsers'[i] = IF w.id = i THEN Stamped(dbUsers[w.id], w.id, now) ELSE dbUsers[i]
    BY <1>2, <1>5 DEF RecordFirstLogin, Stamped
  <2>2. Stamped(dbUsers[i], i, now).used = dbUsers[i].used
    BY <1>1 DEF Row, Stamped
  <2>3. QED
    BY <1>5, <2>1, <2>2 DEF RecordFirstLogin
<1>6. CASE UpsertSession(w)
  BY <1>6 DEF UpsertSession
<1>7. QED
  BY <1>3, <1>4, <1>5, <1>6 DEF ExecuteWrite

LEMMA Shift ==
  ASSUME NEW x \in Nat, NEW o \in Nat, NEW c \in Nat, NEW p \in Nat, NEW q \in Nat,
         x + o <= c, p + c <= q + o
  PROVE  x + p <= q
OBVIOUS

\* What the books of row i ask of a step beyond its own entries.
LEMMA BooksHold ==
  ASSUME TypeOK, TypeOK', NamesBound, NamesBound', SpentInv, SpentInv', [Next]_vars,
         NEW i \in DOMAIN issued, NEW d \in Dims, Books(i, d), UNCHANGED issued,
         IsFiniteSet(UnitsIn(writes', i, d)),
         Charged(i, d)' >= Charged(i, d),
         Outstanding(i, d)' + Charged(i, d) <= Charged(i, d)' + Outstanding(i, d),
         IsCached(i) => IsCached(i)',
         IsCached(i)' \/ dbUsers'[i].used[d] = dbUsers[i].used[d],
         Booked(i, d)' <= Charged(i, d)',
         lost' = 0 /\ "edit" \notin Admin => Booked(i, d)' = Charged(i, d)'
  PROVE  Books(i, d)'
<1> DEFINE o == Outstanding(i, d)
           c == Charged(i, d)
           u == dbUsers[i].used[d]
<1>1. o \in Nat /\ c \in Nat /\ u \in Nat
  BY BooksTyped DEF Books
<1>2. o' \in Nat /\ c' \in Nat
  <2>1. i \in DOMAIN issued'
    OBVIOUS
  <2>2. o' \in Nat
    BY FS_CardinalityType DEF Outstanding
  <2>3. c' \in Nat
    BY <2>1 DEF Charged, IsCached, SpentInv, TypeOK, DbOK, CacheOK, IsMap, Row, Usage
  <2>4. QED
    BY <2>2, <2>3
<1>3. u + o <= c
  BY DEF Books, Booked
<1> HIDE DEF o, c, u
<1>4. \A x \in Nat : x + o <= c => x + o' <= c'
  <2>1. o' + c <= c' + o
    BY DEF o, c
  <2>2. QED
    BY <1>1, <1>2, <2>1, Shift
<1>5. \A x \in Nat : x <= c => x <= c'
  <2>1. c' >= c
    BY DEF c
  <2>2. QED
    BY <1>1, <1>2, <2>1
<1>6. u <= c
  BY <1>1, <1>3
<1> USE DEF o, c, u
<1>7. ASSUME NEW e \in Editors, edit'[e] # Nil, edit'[e].id = i
      PROVE  /\ edit'[e].used[d] + o' <= c'
             /\ IsCached(i)' \/ edit'[e].used[d] = dbUsers'[i].used[d]
  <2>1. CASE edit'[e] = edit[e]
    <3>1. /\ edit[e].used[d] \in Nat
          /\ edit[e].used[d] + o <= c
          /\ IsCached(i) \/ edit[e].used[d] = u
      BY <1>7, <2>1, BooksTyped DEF Books
    <3>2. edit[e].used[d] + o' <= c'
      BY <1>4, <3>1
    <3>3. QED
      BY <2>1, <3>1, <3>2
  <2>2. ASSUME NEW j \in DOMAIN dbUsers, edit'[e] = dbUsers[j]
        PROVE  /\ edit'[e].used[d] + o' <= c'
               /\ IsCached(i)' \/ edit'[e].used[d] = dbUsers'[i].used[d]
    <3>1. j = i
      BY <1>7, <2>2 DEF NamesBound, TableBound
    <3>2. u + o' <= c'
      BY <1>1, <1>3, <1>4
    <3>3. QED
      BY <2>2, <3>1, <3>2
  <2>3. QED
    BY <1>7, <2>1, <2>2, EditRows
<1>8. ASSUME NEW r \in Refreshers, i \in DOMAIN refresh'[r].users
      PROVE  /\ refresh'[r].users[i].used[d] <= c'
             /\ IsCached(i)' \/ refresh'[r].users[i].used[d] = dbUsers'[i].used[d]
  <2>1. refresh'[r] # IdleRefresh
    BY <1>8 DEF IdleRefresh, EmptyMap
  <2>2. CASE refresh'[r].users = refresh[r].users
    <3>1. /\ refresh[r].users[i].used[d] \in Nat
          /\ refresh[r].users[i].used[d] <= c
          /\ IsCached(i) \/ refresh[r].users[i].used[d] = u
      BY <1>8, <2>2, BooksTyped DEF Books
    <3>2. refresh[r].users[i].used[d] <= c'
      BY <1>5, <3>1
    <3>3. QED
      BY <2>2, <3>1, <3>2
  <2>3. CASE refresh'[r].users = dbUsers
    <3>1. u <= c'
      BY <1>1, <1>5, <1>6
    <3>2. QED
      BY <2>3, <3>1
  <2>4. QED
    BY <2>1, <2>2, <2>3, RefreshRows
<1>9. QED
  BY <1>7, <1>8 DEF Books

\* A step that leaves the books of row i as they are.
LEMMA BooksSame ==
  ASSUME TypeOK, TypeOK', NamesBound, NamesBound', SpentInv, SpentInv', [Next]_vars,
         NEW i \in DOMAIN issued, NEW d \in Dims, Books(i, d), UNCHANGED issued,
         UnitsIn(writes', i, d) = UnitsIn(writes, i, d),
         dbUsers'[i].used[d] = dbUsers[i].used[d],
         Charged(i, d)' = Charged(i, d),
         IsCached(i) => IsCached(i)',
         lost' = 0 => lost = 0
  PROVE  Books(i, d)'
<1>1. IsFiniteSet(UnitsIn(writes', i, d)) /\ Outstanding(i, d)' = Outstanding(i, d)
  BY DEF Books, Outstanding
<1>2. Booked(i, d)' = Booked(i, d)
  BY <1>1 DEF Booked
<1>3. /\ Booked(i, d)' <= Charged(i, d)'
      /\ lost' = 0 /\ "edit" \notin Admin => Booked(i, d)' = Charged(i, d)'
  BY <1>2 DEF Books
<1>4. Outstanding(i, d) \in Nat /\ Charged(i, d) \in Nat
  BY BooksTyped DEF Books
<1>5. /\ Charged(i, d)' >= Charged(i, d)
      /\ Outstanding(i, d)' + Charged(i, d) <= Charged(i, d)' + Outstanding(i, d)
  BY <1>1, <1>4
<1>6. QED
  BY <1>1, <1>3, <1>5, BooksHold

LEMMA BooksAccounting ==
  ASSUME TypeOK, TypeOK', NamesBound, NamesBound', SpentInv, SpentInv', [Next]_vars,
         WorkIsBags, WorkIsBags', HandleAccounting,
         NEW i \in DOMAIN issued, NEW d \in Dims, Books(i, d)
  PROVE  Books(i, d)'
<1>1. UNCHANGED <<dbUsers, issued, lost>>
  BY DEF HandleAccounting, HandleAcctStart, HandleAcctUpdate
<1>2. CASE UNCHANGED <<subscribers, jobs, spent>> /\ WritesCalm
  <2>1. UnitsIn(writes', i, d) = UnitsIn(writes, i, d)
    BY <1>2, CalmUnits
  <2>2. CacheCalm
    BY <1>2 DEF CacheCalm
  <2>3. Charged(i, d)' = Charged(i, d) /\ IsCached(i)' = IsCached(i)
    BY <1>1, <2>2, CalmCharged
  <2>4. QED
    BY <1>1, <2>1, <2>3, BooksSame
<1>3. ASSUME NEW n \in Usernames, NEW delta \in Usage, Charges(n, delta)
      PROVE  Books(i, d)'
  <2> DEFINE u == Charge(subscribers[n], delta)
             w == UsageWrite(u.id, delta)
             extra == IF delta = NoUsage THEN {} ELSE {w}
  <2>1. /\ n \in DOMAIN subscribers
        /\ subscribers' = [subscribers EXCEPT ![n] = u]
    BY <1>3 DEF Charges
  <2>2. PICK v : v.op = "upsert" /\ writes' = writes (+) SetToBag({v} \cup extra)
    BY <1>3 DEF Charges, Spawn
  <2>3. /\ subscribers[n] \in Row
        /\ u.id = subscribers[n].id
        /\ u.used = Plus(subscribers[n].used, delta)
    BY <2>1 DEF TypeOK, CacheOK, IsMap, Row, Charge
  <2>4. u.id \in DOMAIN issued /\ issued[u.id] = n
    BY <2>1, <2>3, CachedRow
  <2>5. w.op = "addUsage" /\ w.id = u.id /\ w.delta = delta
    BY DEF UsageWrite
  <2>6. delta[d] \in Nat /\ (delta = NoUsage => delta[d] = 0)
    BY DEF Usage, NoUsage
  <2> HIDE DEF u, w
  <2>7. \A x : x.op = "addUsage" =>
          CopiesOf(x, writes') = CopiesOf(x, writes) + IF x \in extra THEN 1 ELSE 0
    BY <2>2, Added DEF WorkIsBags
  <2>8. \A x : x.op = "addUsage" /\ x \notin extra => CopiesOf(x, writes') = CopiesOf(x, writes)
    BY <2>7, CopiesTyped DEF WorkIsBags
  <2>9. CASE u.id # i
    <3>1. \A x : x.op = "addUsage" /\ x.id = i => CopiesOf(x, writes') = CopiesOf(x, writes)
      BY <2>5, <2>8, <2>9
    <3>2. UnitsIn(writes', i, d) = UnitsIn(writes, i, d)
      BY <3>1, SameUnits DEF WorkIsBags
    <3>3. issued[i] # n
      BY <2>4, <2>9 DEF NamesBound, NamesUnique
    <3>4. Charged(i, d)' = Charged(i, d) /\ IsCached(i)' = IsCached(i)
      BY <1>1, <2>1, <3>3 DEF Charged, IsCached
    <3>5. QED
      BY <1>1, <3>2, <3>4, BooksSame
  <2>10. CASE u.id = i
    <3>1. /\ IsCached(i) /\ IsCached(i)'
          /\ Charged(i, d) = subscribers[n].used[d]
          /\ Charged(i, d)' = u.used[d]
      BY <1>1, <2>1, <2>4, <2>10 DEF IsCached, Charged
    <3>2. Charged(i, d)' = Charged(i, d) + delta[d]
      BY <2>3, <3>1 DEF Plus
    <3>3. /\ IsFiniteSet(UnitsIn(writes', i, d))
          /\ Outstanding(i, d)' = Outstanding(i, d) + delta[d]
      <4>1. CASE delta = NoUsage
        <5>1. UnitsIn(writes', i, d) = UnitsIn(writes, i, d)
          BY <2>8, <4>1, SameUnits DEF WorkIsBags
        <5>2. Outstanding(i, d) \in Nat
          BY BooksTyped DEF Books
        <5>3. Outstanding(i, d)' = Outstanding(i, d) /\ delta[d] = 0
          BY <2>6, <4>1, <5>1 DEF Outstanding
        <5>4. QED
          BY <5>1, <5>2, <5>3 DEF Books
      <4>2. CASE delta # NoUsage
        <5> DEFINE more == writes (+) SetToBag({w})
        <5>1. /\ IsABag(more)
              /\ \A x : CopiesOf(x, more) = CopiesOf(x, writes) + IF x \in {w} THEN 1 ELSE 0
          BY Added DEF WorkIsBags
        <5> HIDE DEF more
        <5>2. UnitsIn(writes', i, d) = UnitsIn(more, i, d)
          <6>1. \A x : x.op = "addUsage" /\ x.id = i => CopiesOf(x, writes') = CopiesOf(x, more)
            BY <2>7, <4>2, <5>1
          <6>2. QED
            BY <5>1, <6>1, SameUnits DEF WorkIsBags
        <5>3. /\ CopiesOf(w, more) = CopiesOf(w, writes) + 1
              /\ \A x : x # w => CopiesOf(x, more) = CopiesOf(x, writes)
          <6>1. \A x : CopiesOf(x, writes) \in Nat
            BY CopiesTyped DEF WorkIsBags
          <6>2. QED
            BY <5>1, <6>1
        <5>4. /\ IsFiniteSet(UnitsIn(more, w.id, d))
              /\ Cardinality(UnitsIn(more, w.id, d))
                   = Cardinality(UnitsIn(writes, w.id, d)) + w.delta[d]
          BY <2>5, <2>6, <2>10, <5>1, <5>3, OneMoreCopy DEF WorkIsBags, Books
        <5>5. QED
          BY <2>5, <2>10, <5>2, <5>4 DEF Outstanding
      <4>3. QED
        BY <4>1, <4>2
    <3>4. Outstanding(i, d) \in Nat /\ Charged(i, d) \in Nat /\ dbUsers[i].used[d] \in Nat
      BY BooksTyped DEF Books
    <3>5. /\ Booked(i, d) = dbUsers[i].used[d] + Outstanding(i, d)
          /\ Booked(i, d)' = dbUsers[i].used[d] + Outstanding(i, d)'
      BY <1>1 DEF Booked
    <3>6. Booked(i, d)' = Booked(i, d) + delta[d] /\ Booked(i, d) \in Nat
      BY <2>6, <3>3, <3>4, <3>5
    <3>7. Booked(i, d) <= Charged(i, d)
      BY DEF Books
    <3>8. lost' = 0 /\ "edit" \notin Admin => Booked(i, d) = Charged(i, d)
      BY <1>1 DEF Books
    <3>9. Booked(i, d)' <= Charged(i, d)'
      BY <2>6, <3>2, <3>4, <3>6, <3>7
    <3>10. lost' = 0 /\ "edit" \notin Admin => Booked(i, d)' = Charged(i, d)'
      BY <3>2, <3>6, <3>8
    <3>11. /\ Charged(i, d)' >= Charged(i, d)
           /\ Outstanding(i, d)' + Charged(i, d) <= Charged(i, d)' + Outstanding(i, d)
      BY <2>6, <3>2, <3>3, <3>4
    <3>12. QED
      BY <1>1, <3>1, <3>3, <3>9, <3>10, <3>11, BooksHold
  <2>11. QED
    BY <2>9, <2>10
<1>4. QED
  BY <1>2, <1>3, AccountingMoves

LEMMA BooksExecute ==
  ASSUME TypeOK, TypeOK', NamesBound, NamesBound', SpentInv, SpentInv', [Next]_vars,
         WorkIsBags, WorkIsBags', NEW w, ExecuteWrite(w), UNCHANGED issued,
         NEW i \in DOMAIN issued, NEW d \in Dims, Books(i, d)
  PROVE  Books(i, d)'
<1>1. UNCHANGED <<subscribers, lost>> /\ BagIn(w, writes) /\ Done(w)
  BY DEF ExecuteWrite
<1>2. w \in Write
  BY <1>1, Members DEF TypeOK, WorkOK
<1>3. IsCached(i)' = IsCached(i)
  BY <1>1 DEF IsCached
<1>4. i \in DOMAIN dbUsers
  BY DEF SpentInv
<1>5. /\ Outstanding(i, d) \in Nat /\ Charged(i, d) \in Nat /\ dbUsers[i].used[d] \in Nat
      /\ Booked(i, d) = dbUsers[i].used[d] + Outstanding(i, d)
      /\ Booked(i, d)' = dbUsers'[i].used[d] + Outstanding(i, d)'
      /\ Booked(i, d) <= Charged(i, d)
      /\ lost' = 0 /\ "edit" \notin Admin => Booked(i, d) = Charged(i, d)
  BY <1>1, BooksTyped DEF Books, Booked
<1>6. IsFiniteSet(UnitsIn(writes', i, d))
  BY <1>1, <1>2, DoneUnits DEF Books
<1>7. CASE w.op = "addUsage" /\ w.id = i
  <2>1. w.delta[d] \in Nat
    BY <1>2, <1>7 DEF Write, Usage
  <2>2. /\ Outstanding(i, d)' \in Nat
        /\ Outstanding(i, d) = Outstanding(i, d)' + w.delta[d]
    BY <1>1, <1>2, <1>7, DoneUnits DEF Books
  <2>3. dbUsers'[i].used[d] = dbUsers[i].used[d] + w.delta[d]
    BY <1>4, <1>7, StatementUsage DEF Plus
  <2>4. Booked(i, d)' = Booked(i, d)
    BY <1>5, <2>1, <2>2, <2>3
  <2>5. Charged(i, d)' = Charged(i, d) /\ (IsCached(i)' \/ dbUsers'[i].used[d] = dbUsers[i].used[d])
    <3>1. CASE IsCached(i)
      BY <1>1, <1>3, <3>1 DEF Charged
    <3>2. CASE ~IsCached(i)
      <4>1. Charged(i, d) = dbUsers[i].used[d] /\ Charged(i, d)' = dbUsers'[i].used[d]
        BY <1>3, <3>2 DEF Charged
      <4>2. w.delta[d] = 0
        BY <1>5, <2>1, <2>2, <4>1
      <4>3. dbUsers'[i].used[d] = dbUsers[i].used[d]
        BY <1>5, <2>3, <4>2
      <4>4. QED
        BY <4>1, <4>3
    <3>3. QED
      BY <3>1, <3>2
  <2>6. /\ Charged(i, d)' >= Charged(i, d)
        /\ Outstanding(i, d)' + Charged(i, d) <= Charged(i, d)' + Outstanding(i, d)
    BY <1>5, <2>1, <2>2, <2>5
  <2>7. /\ Booked(i, d)' <= Charged(i, d)'
        /\ lost' = 0 /\ "edit" \notin Admin => Booked(i, d)' = Charged(i, d)'
    BY <1>5, <2>4, <2>5
  <2>8. QED
    BY <1>3, <1>6, <2>5, <2>6, <2>7, BooksHold
<1>8. CASE ~(w.op = "addUsage" /\ w.id = i)
  <2>1. Outstanding(i, d)' = Outstanding(i, d)
    BY <1>1, <1>2, <1>8, DoneUnits DEF Books
  <2>2. dbUsers'[i].used[d] = dbUsers[i].used[d]
    BY <1>4, <1>8, StatementUsage
  <2>3. Charged(i, d)' = Charged(i, d) /\ Booked(i, d)' = Booked(i, d)
    BY <1>1, <1>3, <1>5, <2>1, <2>2 DEF Charged
  <2>4. /\ Charged(i, d)' >= Charged(i, d)
        /\ Outstanding(i, d)' + Charged(i, d) <= Charged(i, d)' + Outstanding(i, d)
    BY <1>5, <2>1, <2>3
  <2>5. /\ Booked(i, d)' <= Charged(i, d)'
        /\ lost' = 0 /\ "edit" \notin Admin => Booked(i, d)' = Charged(i, d)'
    BY <1>5, <2>3
  <2>6. QED
    BY <1>3, <1>6, <2>2, <2>4, <2>5, BooksHold
<1>9. QED
  BY <1>7, <1>8

LEMMA BooksFail ==
  ASSUME TypeOK, TypeOK', NamesBound, NamesBound', SpentInv, SpentInv', [Next]_vars,
         WorkIsBags, WorkIsBags', NEW w, FailWrite(w),
         NEW i \in DOMAIN issued, NEW d \in Dims, Books(i, d)
  PROVE  Books(i, d)'
<1>1. /\ UNCHANGED <<subscribers, dbUsers, issued>> /\ BagIn(w, writes) /\ Done(w)
      /\ lost' = lost + 1
  BY DEF FailWrite
<1>2. w \in Write /\ lost' # 0
  BY <1>1, Members, ServerAssumption DEF TypeOK, WorkOK, CountersOK
<1>3. Charged(i, d)' = Charged(i, d) /\ IsCached(i)' = IsCached(i)
  BY <1>1 DEF Charged, IsCached
<1>4. /\ Outstanding(i, d) \in Nat /\ Charged(i, d) \in Nat /\ dbUsers[i].used[d] \in Nat
      /\ Booked(i, d) = dbUsers[i].used[d] + Outstanding(i, d)
      /\ Booked(i, d)' = dbUsers[i].used[d] + Outstanding(i, d)'
      /\ Booked(i, d) <= Charged(i, d)
  BY <1>1, BooksTyped DEF Books, Booked
<1>5. /\ IsFiniteSet(UnitsIn(writes', i, d))
      /\ Outstanding(i, d)' \in Nat
      /\ Outstanding(i, d)' <= Outstanding(i, d)
  <2>1. CASE w.op = "addUsage" /\ w.id = i
    <3>1. w.delta[d] \in Nat
      BY <1>2, <2>1 DEF Write, Usage
    <3>2. /\ IsFiniteSet(UnitsIn(writes', i, d))
          /\ Outstanding(i, d)' \in Nat
          /\ Outstanding(i, d) = Outstanding(i, d)' + w.delta[d]
      BY <1>1, <1>2, <2>1, DoneUnits DEF Books
    <3>3. QED
      BY <3>1, <3>2
  <2>2. CASE ~(w.op = "addUsage" /\ w.id = i)
    <3>1. /\ IsFiniteSet(UnitsIn(writes', i, d))
          /\ Outstanding(i, d)' = Outstanding(i, d)
      BY <1>1, <1>2, <2>2, DoneUnits DEF Books
    <3>2. QED
      BY <1>4, <3>1
  <2>3. QED
    BY <2>1, <2>2
<1>6. /\ Charged(i, d)' >= Charged(i, d)
      /\ Outstanding(i, d)' + Charged(i, d) <= Charged(i, d)' + Outstanding(i, d)
      /\ Booked(i, d)' <= Charged(i, d)'
  BY <1>3, <1>4, <1>5
<1>7. QED
  BY <1>1, <1>2, <1>3, <1>5, <1>6, BooksHold

LEMMA BooksEdit ==
  ASSUME TypeOK, TypeOK', NamesBound, NamesBound', SpentInv, SpentInv', [Next]_vars,
         NEW e \in Editors, NEW n, NEW enabled, EditWrite(e, n, enabled), "edit" \in Admin,
         NEW i \in DOMAIN issued, NEW d \in Dims, Books(i, d)
  PROVE  Books(i, d)'
<1>1. UNCHANGED <<subscribers, issued, writes, lost>> /\ edit[e] # Nil
  BY DEF EditWrite
<1>2. /\ IsFiniteSet(UnitsIn(writes', i, d)) /\ UnitsIn(writes', i, d) = UnitsIn(writes, i, d)
      /\ Outstanding(i, d)' = Outstanding(i, d) /\ IsCached(i)' = IsCached(i)
  BY <1>1 DEF Books, Outstanding, IsCached
<1>3. i \in DOMAIN dbUsers /\ dbUsers[i] \in Row
  BY DEF SpentInv, TypeOK, DbOK, IsMap
<1>4. \/ dbUsers'[i].used[d] = dbUsers[i].used[d]
      \/ edit[e].id = i /\ dbUsers'[i].used[d] = edit[e].used[d]
  <2>1. CASE UNCHANGED dbUsers
    BY <2>1
  <2>2. ASSUME NEW sim, edit[e].id \in DOMAIN dbUsers,
               dbUsers' = [dbUsers EXCEPT ![edit[e].id] =
                             Overwritten(@, edit[e], n, enabled, sim)]
        PROVE  \/ dbUsers'[i].used[d] = dbUsers[i].used[d]
               \/ edit[e].id = i /\ dbUsers'[i].used[d] = edit[e].used[d]
    <3>1. Overwritten(dbUsers[i], edit[e], n, enabled, sim).used = edit[e].used
      BY <1>3 DEF Overwritten, Row
    <3>2. QED
      BY <1>3, <2>2, <3>1
  <2>3. QED
    BY <2>1, <2>2 DEF EditWrite
<1>5. CASE dbUsers'[i].used[d] = dbUsers[i].used[d]
  <2>1. Charged(i, d)' = Charged(i, d)
    BY <1>1, <1>5 DEF Charged, IsCached
  <2>2. QED
    BY <1>1, <1>2, <1>5, <2>1, BooksSame
<1>6. CASE edit[e].id = i /\ dbUsers'[i].used[d] = edit[e].used[d]
  <2>1. /\ edit[e].used[d] + Outstanding(i, d) <= Charged(i, d)
        /\ IsCached(i) \/ edit[e].used[d] = dbUsers[i].used[d]
    BY <1>1, <1>6 DEF Books
  <2>2. IsCached(i)' \/ dbUsers'[i].used[d] = dbUsers[i].used[d]
    BY <1>2, <1>6, <2>1
  <2>3. Charged(i, d)' = Charged(i, d)
    BY <1>1, <1>2, <1>6, <2>1 DEF Charged
  <2>4. Booked(i, d)' <= Charged(i, d)'
    BY <1>2, <1>6, <2>1, <2>3 DEF Booked
  <2>5. Outstanding(i, d) \in Nat /\ Charged(i, d) \in Nat
    BY BooksTyped DEF Books
  <2>6. /\ Charged(i, d)' >= Charged(i, d)
        /\ Outstanding(i, d)' + Charged(i, d) <= Charged(i, d)' + Outstanding(i, d)
    BY <1>2, <2>3, <2>5
  <2>7. QED
    BY <1>1, <1>2, <2>2, <2>4, <2>6, BooksHold
<1>7. QED
  BY <1>4, <1>5, <1>6

\* A refresh brings what is not cached, and changes no usage that is.
LEMMA BooksApply ==
  ASSUME TypeOK, TypeOK', NamesBound, NamesBound', SpentInv, SpentInv', [Next]_vars,
         NEW r \in Refreshers, Apply(r),
         NEW i \in DOMAIN issued, NEW d \in Dims, Books(i, d)
  PROVE  Books(i, d)'
<1> DEFINE table == refresh[r].users
           n == issued[i]
<1>1. /\ UNCHANGED <<dbUsers, issued, writes, lost>>
      /\ subscribers' = Loaded(table, subscribers) /\ refresh[r].pc = "apply"
  BY DEF Apply
<1>2. IsMap(table, RowIds, Row) /\ TableBound(issued, table) /\ DOMAIN table = DOMAIN issued
  BY <1>1 DEF TypeOK, RefreshOK, RefreshRecord, NamesBound, HandsBound, SpentInv
<1>3. table[i] \in Row /\ table[i].name = n
  BY <1>2 DEF IsMap, TableBound, Bound
<1>4. n \in Names(table)
  BY <1>2, <1>3 DEF Names
<1>5. PICK j \in DOMAIN table : RowNamed(table, n) = table[j] /\ table[j].name = n
  BY <1>4, NamedRow
<1>6. j = i
  BY <1>2, <1>3, <1>5 DEF TableBound, Bound, NamesBound, NamesUnique
<1>7. IsCached(i)'
  BY <1>1, <1>4 DEF IsCached, Loaded
<1>8. /\ table[i].used[d] \in Nat /\ table[i].used[d] <= Charged(i, d)
      /\ IsCached(i) \/ table[i].used[d] = dbUsers[i].used[d]
  BY <1>2, <1>3 DEF Books, Row, Usage
<1>9. Charged(i, d)' = Charged(i, d)
  <2>1. Charged(i, d)' = Loaded(table, subscribers)[n].used[d]
    BY <1>1, <1>7 DEF Charged
  <2>2. CASE n \notin DOMAIN subscribers
    <3>1. Loaded(table, subscribers)[n] = table[i]
      BY <1>4, <1>5, <1>6, <2>2 DEF Loaded
    <3>2. QED
      BY <1>8, <2>1, <2>2, <3>1 DEF Charged, IsCached
  <2>3. CASE n \in DOMAIN subscribers
    <3>1. Loaded(table, subscribers)[n] = Merge(subscribers[n], table[i])
      BY <1>4, <1>5, <1>6, <2>3 DEF Loaded
    <3>2. Merge(subscribers[n], table[i]).used = AtLeast(table[i].used, subscribers[n].used)
      BY <1>3 DEF Row, Merge
    <3>3. Charged(i, d) = subscribers[n].used[d]
      BY <2>3 DEF Charged, IsCached
    <3>4. subscribers[n].used[d] \in Nat
      BY <2>3 DEF TypeOK, CacheOK, IsMap, Row, Usage
    <3>5. AtLeast(table[i].used, subscribers[n].used)[d] = subscribers[n].used[d]
      BY <1>8, <3>3, <3>4 DEF AtLeast
    <3>6. QED
      BY <2>1, <3>1, <3>2, <3>3, <3>5
  <2>4. QED
    BY <2>2, <2>3
<1>10. QED
  BY <1>1, <1>7, <1>9, BooksSame

\* A process that starts has the usage of the table, and nothing under way.
Fresh ==
  /\ writes = EmptyBag
  /\ \A e \in Editors : edit[e] = Nil
  /\ \A r \in Refreshers : refresh[r] = IdleRefresh
  /\ \A n \in DOMAIN subscribers :
       \E j \in DOMAIN dbUsers : dbUsers[j].name = n /\ subscribers[n].used = dbUsers[j].used

LEMMA FreshBooks ==
  ASSUME TypeOK, NamesBound, SpentInv, Fresh
  PROVE  BooksInv
<1> SUFFICES ASSUME NEW i \in DOMAIN issued, NEW d \in Dims
             PROVE  Books(i, d)
  BY DEF BooksInv
<1>1. UnitsIn(writes, i, d) = {}
  BY Members, EmptyBagDomain DEF UnitsIn, Fresh
<1>2. IsFiniteSet(UnitsIn(writes, i, d)) /\ Outstanding(i, d) = 0
  BY <1>1, FS_EmptySet DEF Outstanding
<1>3. Charged(i, d) = dbUsers[i].used[d]
  <2>1. CASE IsCached(i)
    <3>1. PICK j \in DOMAIN dbUsers :
            dbUsers[j].name = issued[i] /\ subscribers[issued[i]].used = dbUsers[j].used
      BY <2>1 DEF IsCached, Fresh
    <3>2. j = i
      BY <3>1 DEF NamesBound, NamesUnique, TableBound, Bound
    <3>3. QED
      BY <2>1, <3>1, <3>2 DEF Charged
  <2>2. QED
    BY <2>1 DEF Charged
<1>4. dbUsers[i].used[d] \in Nat
  BY <1>2, BooksTyped
<1>5. Booked(i, d) = Charged(i, d) /\ Booked(i, d) <= Charged(i, d)
  BY <1>2, <1>3, <1>4 DEF Booked
<1>6. \A r \in Refreshers : DOMAIN refresh[r].users = {}
  BY DEF IdleRefresh, EmptyMap, Fresh
<1>7. QED
  BY <1>2, <1>5, <1>6 DEF Books, Fresh

LEMMA FreshInitially == ASSUME Init PROVE Fresh
<1>1. ASSUME NEW n \in DOMAIN subscribers
      PROVE  \E j \in DOMAIN dbUsers : dbUsers[j].name = n /\ subscribers[n].used = dbUsers[j].used
  <2>1. /\ n \in {Seed[i] : i \in DOMAIN Seed} /\ DOMAIN dbUsers = DOMAIN Seed
        /\ subscribers[n] = dbUsers[CHOOSE i \in DOMAIN Seed : Seed[i] = n]
    BY DEF Init, EmptyMap
  <2>2. PICK j \in DOMAIN Seed : Seed[j] = n /\ subscribers[n] = dbUsers[j]
    BY <2>1
  <2>3. dbUsers[j].name = n
    BY <2>2 DEF Init, NewRow
  <2>4. QED
    BY <2>1, <2>2, <2>3
<1>2. QED
  BY <1>1 DEF Init, Fresh

LEMMA FreshAfterRestart == ASSUME Restart PROVE Fresh'
<1>1. UNCHANGED dbUsers
  BY DEF Restart
<1>2. ASSUME NEW n \in DOMAIN subscribers'
      PROVE  \E j \in DOMAIN dbUsers : dbUsers[j].name = n /\ subscribers'[n].used = dbUsers[j].used
  <2>1. subscribers' = Loaded(dbUsers, EmptyMap)
    BY DEF Restart, EmptyMap
  <2>2. n \in Names(dbUsers) /\ subscribers'[n] = RowNamed(dbUsers, n)
    BY <2>1 DEF Loaded, EmptyMap
  <2>3. QED
    BY <2>2, NamedRow
<1>3. QED
  BY <1>1, <1>2 DEF Restart, Fresh

EditsAllowed == \A e \in Editors : edit[e] # Nil => "edit" \in Admin

LEMMA BooksStep ==
  ASSUME TypeOK, TypeOK', NamesBound, NamesBound', SpentInv, SpentInv', Stable, [Next]_vars,
         WorkIsBags, WorkIsBags', EditsAllowed, BooksInv
  PROVE  BooksInv' \/ Fresh'
<1>1. UNCHANGED issued
  BY TableStep DEF Stable, TableChanges, AltersUser, RecordsLogin
<1> SUFFICES ASSUME ~Restart, NEW i \in DOMAIN issued, NEW d \in Dims
             PROVE  Books(i, d)'
  BY <1>1, FreshAfterRestart DEF BooksInv
<1>2. Books(i, d)
  BY DEF BooksInv
<1>3. CASE HandleAccounting
  BY <1>2, <1>3, BooksAccounting
<1>4. ASSUME NEW w, ExecuteWrite(w) PROVE Books(i, d)'
  BY <1>1, <1>2, <1>4, BooksExecute
<1>5. ASSUME NEW w, FailWrite(w) PROVE Books(i, d)'
  BY <1>2, <1>5, BooksFail
<1>6. ASSUME NEW e \in Editors, NEW n, NEW enabled, EditWrite(e, n, enabled) PROVE Books(i, d)'
  <2>1. "edit" \in Admin
    BY <1>6 DEF EditWrite, EditsAllowed
  <2>2. QED
    BY <1>2, <1>6, <2>1, BooksEdit
<1>7. ASSUME NEW r \in Refreshers, Apply(r) PROVE Books(i, d)'
  BY <1>2, <1>7, BooksApply
<1>8. CASE /\ CacheCalm /\ WritesCalm /\ UNCHANGED dbUsers /\ UNCHANGED lost
  <2>1. dbUsers'[i].used[d] = dbUsers[i].used[d] /\ (lost' = 0 => lost = 0)
    BY <1>8
  <2>2. UnitsIn(writes', i, d) = UnitsIn(writes, i, d)
    BY <1>8, CalmUnits
  <2>3. Charged(i, d)' = Charged(i, d) /\ (IsCached(i) => IsCached(i)')
    BY <1>1, <1>8, <2>1, CalmCharged
  <2>4. QED
    BY <1>1, <1>2, <2>1, <2>2, <2>3, BooksSame
<1>9. QED
  <2>1. HandleAccounting \/ (\E r \in Refreshers : Apply(r)) \/ CacheCalm
    BY CacheMoves
  <2>2. HandleAccounting \/ (\E w : ExecuteWrite(w) \/ FailWrite(w)) \/ WritesCalm
    BY WritesMoves
  <2>3. \/ UNCHANGED dbUsers \/ (\E w : ExecuteWrite(w))
        \/ \E e \in Editors, n \in Usernames, enabled \in BOOLEAN : EditWrite(e, n, enabled)
    BY TableMoves
  <2>4. UNCHANGED lost \/ \E w : FailWrite(w)
    BY LostMoves
  <2> HIDE DEF WritesCalm, CacheCalm
  <2>5. QED
    BY <1>3, <1>4, <1>5, <1>6, <1>7, <1>8, <2>1, <2>2, <2>3, <2>4

\* What the steps of the ledgers rest on.
Grounds ==
  /\ NamesKept => NamesBound
  /\ Stable => SpentInv
  /\ WorkIsBags
  /\ EditsAllowed

LEMMA GroundsStep ==
  ASSUME TypeOK, TypeOK', Grounds, [Next]_vars
  PROVE  Grounds'
<1>1. NamesKept => NamesBound'
  BY NamesStep DEF Grounds
<1>2. Stable => SpentInv'
  BY SpentInvStep DEF Grounds, Stable
<1>3. WorkIsBags'
  BY BagsStep DEF Grounds
<1>4. EditsAllowed'
  BY EditRows DEF Grounds, EditsAllowed
<1>5. QED
  BY <1>1, <1>2, <1>3, <1>4 DEF Grounds

LEMMA GroundsHold == Spec => []Grounds
<1>1. Init => Grounds
  <2> SUFFICES ASSUME Init PROVE Grounds
    OBVIOUS
  <2>1. WorkIsBags /\ EditsAllowed
    BY Bags DEF Init, WorkIsBags, EditsAllowed
  <2>2. NamesBound /\ SpentInv
    BY NamesInitially, SpentInitially
  <2>3. QED
    BY <2>1, <2>2 DEF Grounds
<1>2. TypeOK /\ TypeOK' /\ Grounds /\ [Next]_vars => Grounds'
  BY GroundsStep
<1>3. QED
  BY <1>1, <1>2, TypeCorrect, PTL DEF Spec

\* While the set of rows and their names stay: what the cache shows a voucher
\* to have used is what radius_users holds plus the deltas of the statements
\* still to be executed, through interim updates in any order, refreshes that
\* began before the last charge and late writes; a failed statement or an
\* UpdateUser that writes counters it read earlier only leaves the table
\* behind (accounting.go:150-171, service.go:215-221, repository.go:226-230).
THEOREM BooksBalance == Spec => []UsageLedger
<1> DEFINE Balanced == Stable => BooksInv
           Started == Stable => Fresh
<1>1. Init => Started
  BY FreshInitially
<1>2. TypeOK /\ Grounds /\ Started => Balanced
  BY FreshBooks DEF Grounds, Stable
<1>3. TypeOK /\ TypeOK' /\ Grounds /\ Grounds' /\ Balanced /\ [Next]_vars => Balanced' \/ Started'
  BY BooksStep DEF Grounds, Stable
<1>4. TypeOK /\ Grounds /\ Balanced => UsageLedger
  <2> SUFFICES ASSUME TypeOK, Grounds, Balanced, Stable,
                      NEW n \in DOMAIN subscribers, NEW d \in Dims
               PROVE  LET row == subscribers[n]
                      IN  /\ Booked(row.id, d) <= row.used[d]
                          /\ lost = 0 /\ "edit" \notin Admin => Booked(row.id, d) = row.used[d]
    BY DEF UsageLedger
  <2>1. NamesBound /\ SpentInv
    BY DEF Grounds, Stable
  <2>2. subscribers[n].id \in DOMAIN issued /\ issued[subscribers[n].id] = n
    BY <2>1, CachedRow
  <2>3. Books(subscribers[n].id, d)
    BY <2>2 DEF BooksInv
  <2>4. Charged(subscribers[n].id, d) = subscribers[n].used[d]
    BY <2>2 DEF Charged, IsCached
  <2>5. QED
    BY <2>3, <2>4 DEF Books
<1> HIDE DEF Balanced, Started
<1>5. QED
  BY <1>1, <1>2, <1>3, <1>4, GroundsHold, TypeCorrect, PTL DEF Spec

(***************************************************************************)
(* The disabling of a spent voucher.                                       *)
(***************************************************************************)

LEMMA JobsSteps ==
  ASSUME [Next]_vars
  PROVE  \/ UNCHANGED jobs
         \/ HandleAccounting
         \/ \E n : HandleDisconnectUser(n)
         \/ \E job : LookUpHit(job) \/ DisableHit(job) \/ DisconnectUser(job)
         \/ Restart
<1>1. ASSUME NEW h, HandleAuth(h) PROVE UNCHANGED jobs
  BY <1>1 DEF HandleAuth, RejectCredentials, Admit, StampFirstLogin, RejectVoucher,
     PassLimits, RejectLast, Accept
<1>2. ASSUME NEW w, ExecuteWrite(w) \/ FailWrite(w) PROVE UNCHANGED jobs
  BY <1>2 DEF ExecuteWrite, FailWrite
<1>3. ASSUME NEW r, RefreshFromDB(r) \/ RefreshError(r) PROVE UNCHANGED jobs
  BY <1>3 DEF RefreshFromDB, ReadUsers, ReadNas, Apply, RefreshError
<1>4. ASSUME Administer PROVE UNCHANGED jobs
  BY <1>4 DEF Administer, HandleCreateSubscriber, GenerateOneVoucher, Insert,
     HandleDeleteSubscriber, EditRead, EditWrite, HandleCreateNAS, HandleDeleteNAS,
     HandleUpdateNAS
<1>5. QED
  BY <1>1, <1>2, <1>3, <1>4
     DEF Next, vars, Tick, Background, CleanupStaleSessions, ReconcileSessions,
         ReconcileRead, ReconcileMerge

LEMMA JobsMoves ==
  ASSUME [Next]_vars
  PROVE  \/ UNCHANGED jobs
         \/ \E S : jobs' = jobs (+) SetToBag(S)
         \/ \E job : LookUpHit(job) \/ DisableHit(job) \/ DisconnectUser(job)
         \/ Restart
<1>1. ASSUME HandleAccounting PROVE UNCHANGED jobs \/ \E S : jobs' = jobs (+) SetToBag(S)
  <2>1. ASSUME NEW k, NEW n, NEW reading, NEW stop,
               ChargeVoucher(k, n, reading, stop) \/ RecordOnly(k, reading, stop)
        PROVE  UNCHANGED jobs \/ \E S : jobs' = jobs (+) SetToBag(S)
    BY <2>1 DEF ChargeVoucher, RecordOnly
  <2>2. QED
    BY <1>1, <2>1 DEF HandleAccounting, HandleAcctStart, HandleAcctUpdate
<1>2. ASSUME NEW n, HandleDisconnectUser(n) PROVE \E S : jobs' = jobs (+) SetToBag(S)
  BY <1>2 DEF HandleDisconnectUser
<1>3. QED
  BY <1>1, <1>2, JobsSteps

\* What starts is there, and nothing that was there is gone but what is done with.
LEMMA WorkAdded ==
  ASSUME NEW B, IsABag(B), NEW S
  PROVE  /\ BagToSet(B) \subseteq BagToSet(B (+) SetToBag(S))
         /\ S \subseteq BagToSet(B (+) SetToBag(S))
BY BagPlus, Members

LEMMA WorkRemains ==
  ASSUME NEW B, IsABag(B), NEW y, NEW x \in BagToSet(B), x # y
  PROVE  x \in BagToSet(B (-) SetToBag({y}))
<1>1. /\ IsABag(B (-) SetToBag({y}))
      /\ CopiesOf(x, B (-) SetToBag({y})) = CopiesOf(x, B)
  BY Taken
<1>2. CopiesOf(x, B) > 0
  BY CopiesTyped, Members
<1>3. QED
  BY <1>1, <1>2, CopiesTyped, Members

\* What is there after a step was there or has just started.
LEMMA WorkLeft ==
  ASSUME NEW B, NEW y, NEW S
  PROVE  BagToSet((B (-) SetToBag({y})) (+) SetToBag(S)) \subseteq BagToSet(B) \cup S
<1> DEFINE C == B (-) SetToBag({y})
<1>1. DOMAIN C \subseteq DOMAIN B
  BY BagMinus
<1> HIDE DEF C
<1>2. DOMAIN (C (+) SetToBag(S)) = DOMAIN C \cup S
  BY BagPlus
<1>3. QED
  BY <1>1, <1>2, Members DEF C

\* A disconnect that ends in disabling row i goes on, or its UPDATE is started.
LEMMA DisconnectGoesOn ==
  ASSUME TypeOK, WorkIsBags, [Next]_vars, ~Restart, NEW i \in RowIds,
         NEW job \in BagToSet(jobs), job.op # "hit", job.id = i
  PROVE  Disabling(i)'
<1>1. IsABag(writes) /\ IsABag(jobs) /\ job \in Job
  BY Members DEF WorkIsBags, TypeOK, WorkOK
<1>2. ASSUME job \in BagToSet(jobs') PROVE Disabling(i)'
  BY <1>2 DEF Disabling
<1>3. ASSUME NEW later, later.op # "hit", later.id = i, Replace(job, {later})
      PROVE  Disabling(i)'
  <2>1. IsABag(jobs (-) SetToBag({job}))
    BY <1>1, Taken
  <2>2. later \in BagToSet(jobs')
    BY <1>3, <2>1, WorkAdded DEF Replace
  <2>3. QED
    BY <1>3, <2>2 DEF Disabling
<1>4. ASSUME NEW S, NEW other, other # job, Replace(other, S)
      PROVE  job \in BagToSet(jobs')
  <2>1. IsABag(jobs (-) SetToBag({other})) /\ job \in BagToSet(jobs (-) SetToBag({other}))
    BY <1>1, <1>4, Taken, WorkRemains
  <2>2. QED
    BY <1>4, <2>1, WorkAdded DEF Replace
<1>5. CASE DisableHit(job)
  <2> DEFINE later == [job EXCEPT !.op = "collect"]
  <2>1. later.op # "hit" /\ later.id = i /\ Replace(job, {later})
    BY <1>1, <1>5 DEF Job, DisableHit
  <2> HIDE DEF later
  <2>2. QED
    BY <1>3, <2>1
<1>6. CASE Collect(job)
  <2> DEFINE later == [job EXCEPT !.op = "exchange", !.todo = CollectNASForUser(job.name)]
  <2>1. later.op # "hit" /\ later.id = i
    BY <1>1 DEF Job
  <2>2. Replace(job, {later})
    BY <1>6 DEF Collect
  <2> HIDE DEF later
  <2>3. QED
    BY <1>3, <2>1, <2>2
<1>7. ASSUME NEW host, NEW answer, Exchange(job, host, answer)
      PROVE  Disabling(i)'
  <2> DEFINE later == [job EXCEPT !.todo = @ \ {host}]
  <2>1. later.op = job.op /\ later.id = i
    BY <1>1 DEF Job
  <2>2. Replace(job, {later})
    BY <1>7 DEF Exchange
  <2> HIDE DEF later
  <2>3. QED
    BY <1>3, <2>1, <2>2
<1>8. CASE FinishDisconnect(job)
  <2>1. Spawn({DisableWrite(i)})
    BY <1>8, NilAssumption DEF FinishDisconnect
  <2>2. DisableWrite(i) \in BagToSet(writes')
    BY <1>1, <2>1, WorkAdded DEF Spawn
  <2>3. QED
    BY <2>2 DEF Disabling, DisableWrite
<1>9. ASSUME NEW other, LookUpHit(other) \/ DisableHit(other) \/ DisconnectUser(other)
      PROVE  Disabling(i)'
  <2>1. CASE other = job
    <3>1. ~LookUpHit(job)
      BY DEF LookUpHit
    <3>2. QED
      BY <1>5, <1>6, <1>7, <1>8, <1>9, <2>1, <3>1 DEF DisconnectUser
  <2>2. CASE other # job
    <3>1. \E S : Replace(other, S)
      BY <1>9 DEF LookUpHit, DisableHit, DisconnectUser, Collect, Exchange,
         FinishDisconnect
    <3>2. QED
      BY <1>2, <1>4, <2>2, <3>1
  <2>3. QED
    BY <2>1, <2>2
<1>10. ASSUME NEW S, jobs' = jobs (+) SetToBag(S) PROVE Disabling(i)'
  BY <1>1, <1>2, <1>10, WorkAdded
<1>11. CASE UNCHANGED jobs
  BY <1>2, <1>11
<1>12. QED
  BY <1>9, <1>10, <1>11, JobsMoves

\* A look-up that accounting has started finds the user, and goes on.
LEMMA LookUpGoesOn ==
  ASSUME TypeOK, NamesBound, SpentInv, WorkIsBags, [Next]_vars, ~Restart, UNCHANGED issued,
         NEW i \in spent, NEW job \in BagToSet(jobs), job.op = "hit", job.name = issued[i]
  PROVE  WillDisable(i)'
<1>1. IsABag(jobs)
  BY DEF WorkIsBags
<1>2. PICK n \in DOMAIN subscribers : subscribers[n].id = i
  BY DEF SpentInv, SpentKnown
<1>3. issued[i] = n
  BY <1>2, CachedRow
<1>4. ASSUME job \in BagToSet(jobs') PROVE WillDisable(i)'
  BY <1>4 DEF WillDisable
<1>5. CASE LookUpHit(job)
  <2> DEFINE later == NewJob("disable", n, i, {})
  <2>1. Replace(job, {later})
    BY <1>2, <1>3, <1>5 DEF LookUpHit
  <2>2. later.op # "hit" /\ later.id = i
    BY DEF NewJob
  <2> HIDE DEF later
  <2>3. IsABag(jobs (-) SetToBag({job}))
    BY <1>1, Taken
  <2>4. later \in BagToSet(jobs')
    BY <2>1, <2>3, WorkAdded DEF Replace
  <2>5. QED
    BY <2>2, <2>4 DEF WillDisable, Disabling
<1>6. ASSUME NEW other, LookUpHit(other) \/ DisableHit(other) \/ DisconnectUser(other)
      PROVE  WillDisable(i)'
  <2>1. CASE other = job
    BY <1>5, <1>6, <2>1 DEF DisableHit, DisconnectUser, Collect, Exchange, FinishDisconnect
  <2>2. CASE other # job
    <3>1. PICK S : Replace(other, S)
      BY <1>6 DEF LookUpHit, DisableHit, DisconnectUser, Collect, Exchange,
         FinishDisconnect
    <3>2. IsABag(jobs (-) SetToBag({other})) /\ job \in BagToSet(jobs (-) SetToBag({other}))
      BY <1>1, <2>2, Taken, WorkRemains
    <3>3. job \in BagToSet(jobs')
      BY <3>1, <3>2, WorkAdded DEF Replace
    <3>4. QED
      BY <1>4, <3>3
  <2>3. QED
    BY <2>1, <2>2
<1>7. ASSUME NEW S, jobs' = jobs (+) SetToBag(S) PROVE WillDisable(i)'
  BY <1>1, <1>4, <1>7, WorkAdded
<1>8. CASE UNCHANGED jobs
  BY <1>4, <1>8
<1>9. QED
  BY <1>6, <1>7, <1>8, JobsMoves

\* The row is disabled, or deleted, or some work under way will disable it.
Settled(i) == i \in DOMAIN dbUsers => ~dbUsers[i].enabled

Kept(i) == Settled(i) \/ Disabling(i)

\* The UPDATE is under way until it is executed, or it fails.
LEMMA StatementGoesOn ==
  ASSUME TypeOK, WorkIsBags, [Next]_vars, ~Restart, NEW i, DisableWrite(i) \in BagToSet(writes)
  PROVE  Kept(i)' \/ lost' # 0
<1> DEFINE v == DisableWrite(i)
<1>1. IsABag(writes) /\ v.op = "disable" /\ v.id = i
  BY DEF WorkIsBags, DisableWrite
<1>2. v \in BagToSet(writes') => Kept(i)'
  BY DEF Kept, Disabling, DisableWrite
<1> HIDE DEF v
<1>3. ASSUME NEW w, w # v, Done(w) PROVE v \in BagToSet(writes')
  BY <1>1, <1>3, WorkRemains DEF Done, v
<1>4. ASSUME NEW S, Spawn(S) PROVE v \in BagToSet(writes')
  BY <1>1, <1>4, WorkAdded DEF Spawn, v
<1>5. CASE WritesCalm
  BY <1>2, <1>4, <1>5 DEF WritesCalm, v
<1>6. CASE HandleAccounting
  <2>1. CASE UNCHANGED <<subscribers, jobs, spent>> /\ WritesCalm
    BY <1>5, <2>1
  <2>2. ASSUME NEW n, NEW delta, Charges(n, delta) PROVE v \in BagToSet(writes')
    BY <1>4, <2>2 DEF Charges
  <2>3. QED
    BY <1>2, <1>6, <2>1, <2>2, AccountingMoves
<1>7. CASE ExecuteWrite(v)
  <2>1. DisableUser(v)
    BY <1>1, <1>7 DEF ExecuteWrite, RecordFirstLogin, AddUsageDelta, UpsertSession
  <2>2. CASE i \in DOMAIN dbUsers
    <3>1. dbUsers' = [dbUsers EXCEPT ![i] = [dbUsers[i] EXCEPT !.enabled = FALSE]]
      BY <1>1, <2>1, <2>2 DEF DisableUser, UpdateRow
    <3>2. dbUsers[i] \in Row
      BY <2>2 DEF TypeOK, DbOK, IsMap
    <3>3. ~dbUsers'[i].enabled
      BY <2>2, <3>1, <3>2 DEF Row
    <3>4. QED
      BY <3>3 DEF Kept, Settled
  <2>3. CASE i \notin DOMAIN dbUsers
    BY <1>1, <2>1, <2>3 DEF DisableUser, UpdateRow, Kept, Settled
  <2>4. QED
    BY <2>2, <2>3
<1>8. ASSUME NEW w, w # v, ExecuteWrite(w) PROVE v \in BagToSet(writes')
  BY <1>3, <1>8 DEF ExecuteWrite
<1>9. ASSUME NEW w, FailWrite(w) PROVE lost' # 0
  BY <1>9, ServerAssumption DEF FailWrite, TypeOK, CountersOK
<1>10. QED
  BY <1>2, <1>5, <1>6, <1>7, <1>8, <1>9, WritesMoves

\* A row that is disabled or deleted stays so while no one writes back what was
\* read: its id is not issued again.
LEMMA RowStaysSettled ==
  ASSUME TypeOK, EditsAllowed, "edit" \notin Admin, [Next]_vars,
         NEW i \in DOMAIN issued, Settled(i)
  PROVE  Settled(i)'
<1>1. ASSUME NEW e \in Editors, NEW n, NEW enabled, EditWrite(e, n, enabled) PROVE FALSE
  BY <1>1 DEF EditWrite, EditsAllowed
<1>2. ASSUME NEW w, ExecuteWrite(w) PROVE Settled(i)'
  <2>1. ASSUME NEW row, UpdateRow(w.id, row),
               w.id = i => row.enabled = dbUsers[i].enabled \/ ~row.enabled
        PROVE  Settled(i)'
    BY <2>1 DEF UpdateRow, Settled
  <2>2. w.id = i /\ i \in DOMAIN dbUsers => dbUsers[w.id] \in Row
    BY DEF TypeOK, DbOK, IsMap
  <2>3. CASE i \notin DOMAIN dbUsers
    BY <1>2, <2>3
       DEF ExecuteWrite, RecordFirstLogin, AddUsageDelta, DisableUser, UpsertSession,
           UpdateRow, Settled
  <2>4. ASSUME AddUsageDelta(w), i \in DOMAIN dbUsers PROVE Settled(i)'
    <3> DEFINE row == [dbUsers[w.id] EXCEPT !.used = Plus(@, w.delta)]
    <3>1. w.id = i => row.enabled = dbUsers[i].enabled
      BY <2>2, <2>4 DEF Row
    <3>2. UpdateRow(w.id, row)
      BY <2>4 DEF AddUsageDelta
    <3> HIDE DEF row
    <3>3. QED
      BY <2>1, <3>1, <3>2
  <2>5. ASSUME DisableUser(w), i \in DOMAIN dbUsers PROVE Settled(i)'
    <3> DEFINE row == [dbUsers[w.id] EXCEPT !.enabled = FALSE]
    <3>1. w.id = i => ~row.enabled
      BY <2>2, <2>5 DEF Row
    <3>2. UpdateRow(w.id, row)
      BY <2>5 DEF DisableUser
    <3> HIDE DEF row
    <3>3. QED
      BY <2>1, <3>1, <3>2
  <2>6. ASSUME RecordFirstLogin(w), i \in DOMAIN dbUsers PROVE Settled(i)'
    <3> DEFINE row == Stamped(dbUsers[w.id], w.id, now)
    <3>1. w.id = i => row.enabled = dbUsers[i].enabled
      BY <2>2, <2>6 DEF Row, Stamped
    <3>2. UpdateRow(w.id, row)
      BY <2>6 DEF RecordFirstLogin, Stamped
    <3> HIDE DEF row
    <3>3. QED
      BY <2>1, <3>1, <3>2
  <2>7. CASE UpsertSession(w)
    BY <2>7 DEF UpsertSession, Settled
  <2>8. QED
    BY <1>2, <2>3, <2>4, <2>5, <2>6, <2>7 DEF ExecuteWrite
<1>3. ASSUME NEW j \in RowIds, NEW n, Insert(j, n) PROVE Settled(i)'
  BY <1>3 DEF Insert, Put, Settled
<1>4. ASSUME NEW j \in RowIds, HandleDeleteSubscriber(j) PROVE Settled(i)'
  BY <1>4 DEF HandleDeleteSubscriber, Without, Settled
<1>5. CASE UNCHANGED dbUsers
  BY <1>5 DEF Settled
<1>6. QED
  BY <1>1, <1>2, <1>3, <1>4, <1>5, TableMoves

\* While nothing fails, what was disabled or on its way to be stays so.
LEMMA KeptStays ==
  ASSUME TypeOK, WorkIsBags, EditsAllowed, "edit" \notin Admin, [Next]_vars, ~Restart, lost' = 0,
         NEW i \in DOMAIN issued, Kept(i)
  PROVE  Kept(i)'
<1>1. i \in RowIds
  BY DEF TypeOK, DbOK, IsMap
<1>2. CASE Settled(i)
  BY <1>2, RowStaysSettled DEF Kept
<1>3. CASE DisableWrite(i) \in BagToSet(writes)
  BY <1>3, StatementGoesOn
<1>4. ASSUME NEW job \in BagToSet(jobs), job.op # "hit", job.id = i PROVE Kept(i)'
  BY <1>1, <1>4, DisconnectGoesOn DEF Kept
<1>5. QED
  BY <1>2, <1>3, <1>4 DEF Kept, Disabling, DisableWrite

\* No statement has been lost if none is after the step.
LEMMA NoneLost ==
  ASSUME TypeOK, [Next]_vars, lost' = 0
  PROVE  lost = 0
<1>1. UNCHANGED lost
  BY LostMoves, ServerAssumption DEF FailWrite, TypeOK, CountersOK
<1>2. QED
  BY <1>1

OnItsWay == lost = 0 => \A i \in spent : ~dbUsers[i].enabled \/ WillDisable(i)

LEMMA OnItsWayStep ==
  ASSUME TypeOK, TypeOK', NamesBound, NamesBound', SpentInv, SpentInv', Stable,
         "edit" \notin Admin, WorkIsBags, EditsAllowed, [Next]_vars, OnItsWay
  PROVE  OnItsWay'
<1>1. UNCHANGED issued /\ DOMAIN dbUsers = DOMAIN issued /\ DOMAIN dbUsers' = DOMAIN issued
  BY TableStep DEF Stable, TableChanges, AltersUser, RecordsLogin, SpentInv
<1>2. CASE Restart
  BY <1>2 DEF Restart, OnItsWay
<1> SUFFICES ASSUME ~Restart, lost' = 0, NEW i \in spent'
             PROVE  ~dbUsers'[i].enabled \/ WillDisable(i)'
  BY <1>2 DEF OnItsWay
<1>3. CASE i \in spent
  <2>1. i \in DOMAIN issued
    BY <1>3, CachedRow DEF SpentInv, SpentKnown
  <2>2. lost = 0
    BY NoneLost
  <2>3. CASE Kept(i)
    <3>1. Kept(i)'
      BY <2>1, <2>3, KeptStays
    <3>2. QED
      BY <1>1, <2>1, <3>1 DEF Kept, Settled, WillDisable
  <2>4. ASSUME NEW job \in BagToSet(jobs), job.op = "hit", job.name = issued[i]
        PROVE  WillDisable(i)'
    BY <1>1, <1>3, <2>4, LookUpGoesOn
  <2>5. QED
    BY <1>3, <2>2, <2>3, <2>4 DEF OnItsWay, WillDisable, Kept, Settled
<1>4. CASE i \notin spent
  <2>1. HandleAccounting
    BY <1>4, CacheMoves DEF CacheCalm, Apply
  <2>2. PICK n \in Usernames, delta \in Usage : Charges(n, delta)
    BY <1>4, <2>1, AccountingMoves
  <2> DEFINE hit == NewJob("hit", n, Nil, {})
  <2>3. /\ n \in DOMAIN subscribers
        /\ jobs' = jobs (+) SetToBag({hit})
        /\ i = Charge(subscribers[n], delta).id
    BY <1>4, <2>2 DEF Charges
  <2>4. Charge(subscribers[n], delta).id = subscribers[n].id
    BY <2>3 DEF TypeOK, CacheOK, IsMap, Row, Charge
  <2>5. issued'[i] = n
    BY <1>1, <2>3, <2>4, CachedRow
  <2>6. hit.op = "hit" /\ hit.name = issued'[i]
    BY <2>5 DEF NewJob
  <2> HIDE DEF hit
  <2>7. hit \in BagToSet(jobs')
    BY <2>3, WorkAdded DEF WorkIsBags
  <2>8. QED
    BY <2>6, <2>7 DEF WillDisable
<1>5. QED
  BY <1>3, <1>4

\* While the set of rows and their names stay: from the packet that shows a
\* limit reached until radius_users has the voucher disabled, some procedure
\* or statement under way will disable it, whichever refreshes replace the
\* users in between and whatever the NASes answer; only a failed statement or
\* an UpdateUser ends that (accounting.go:176-210, coa.go:21-47).
THEOREM DisableIsNeverDropped == Spec => []DisableOnItsWay
<1> DEFINE Held == Stable /\ "edit" \notin Admin => OnItsWay
<1>1. Init => Held
  BY DEF Init, OnItsWay
<1>2. TypeOK /\ TypeOK' /\ Grounds /\ Grounds' /\ Held /\ [Next]_vars => Held'
  BY OnItsWayStep DEF Grounds, Stable
<1>3. Held => DisableOnItsWay
  BY DEF OnItsWay, DisableOnItsWay
<1> HIDE DEF Held
<1>4. QED
  BY <1>1, <1>2, <1>3, GroundsHold, TypeCorrect, PTL DEF Spec

(***************************************************************************)
(* The users that memory shows disabled.                                   *)
(***************************************************************************)

\* A disconnect that will disable a user in memory names the row's own user.
JobNamed(job) == job.op = "disable" => job.id \in DOMAIN issued /\ issued[job.id] = job.name

JobsNamed == \A job \in BagToSet(jobs) : JobNamed(job)

\* Every refusal that memory shows, or that a refresh will bring to it, is in
\* the table or on its way there.
RefusalsInv ==
  lost = 0 =>
    /\ \A n \in DOMAIN subscribers : subscribers[n].enabled \/ Kept(subscribers[n].id)
    /\ \A r \in Refreshers : \A i \in DOMAIN refresh[r].users :
         refresh[r].users[i].enabled \/ Kept(i)

LEMMA NamesLast ==
  ASSUME TypeOK, NamesBound, NamesKept, [Next]_vars
  PROVE  \A i \in DOMAIN issued : i \in DOMAIN issued' /\ issued'[i] = issued[i]
<1>1. CASE UNCHANGED issued
  BY <1>1
<1>2. ASSUME NEW i, NEW n, Insert(i, n)
      PROVE  \A j \in DOMAIN issued : j \in DOMAIN issued' /\ issued'[j] = issued[j]
  BY <1>2 DEF Insert, Put
<1>3. QED
  BY <1>1, <1>2, TableStep DEF TableChanges, AltersUser, RecordsLogin, HandleDeleteSubscriber

LEMMA JobsNamedStep ==
  ASSUME TypeOK, TypeOK', NamesBound, NamesKept, WorkIsBags, JobsNamed, [Next]_vars
  PROVE  JobsNamed'
<1>1. \A i \in DOMAIN issued : i \in DOMAIN issued' /\ issued'[i] = issued[i]
  BY NamesLast
<1>2. \A y, S : Replace(y, S) => BagToSet(jobs') \subseteq BagToSet(jobs) \cup S
  BY WorkLeft DEF Replace
<1>3. \A S : jobs' = jobs (+) SetToBag(S) => BagToSet(jobs') \subseteq BagToSet(jobs) \cup S
  BY BagPlus, Members
<1>4. ASSUME NEW S, \A job \in S : JobNamed(job),
             BagToSet(jobs') \subseteq BagToSet(jobs) \cup S
      PROVE  JobsNamed'
  <2>1. \A job \in BagToSet(jobs') : JobNamed(job)
    BY <1>4 DEF JobsNamed
  <2>2. QED
    BY <1>1, <2>1 DEF JobsNamed, JobNamed
<1>5. \A n, i, todo : NewJob("hit", n, i, todo).op # "disable"
                        /\ NewJob("collect", n, i, todo).op # "disable"
  BY DEF NewJob
<1>6. ASSUME NEW y, LookUpHit(y) PROVE JobsNamed'
  <2>1. CASE y.name \in DOMAIN subscribers
    <3> DEFINE job == NewJob("disable", y.name, subscribers[y.name].id, {})
    <3>1. job.id = subscribers[y.name].id /\ job.name = y.name
      BY DEF NewJob
    <3>2. job.id \in DOMAIN issued /\ issued[job.id] = job.name
      BY <2>1, <3>1 DEF NamesBound, UsersBound, Bound
    <3>3. Replace(y, {job})
      BY <1>6, <2>1 DEF LookUpHit
    <3> HIDE DEF job
    <3>4. QED
      BY <1>2, <1>4, <3>2, <3>3 DEF JobNamed
  <2>2. CASE y.name \notin DOMAIN subscribers
    BY <1>2, <1>4, <1>6, <2>2 DEF LookUpHit
  <2>3. QED
    BY <2>1, <2>2
<1>7. ASSUME NEW y \in Job, DisableHit(y) \/ DisconnectUser(y) PROVE JobsNamed'
  <2>1. /\ [y EXCEPT !.op = "collect"].op # "disable"
        /\ \A todo : [y EXCEPT !.op = "exchange", !.todo = todo].op # "disable"
        /\ \A todo : [y EXCEPT !.todo = todo].op = y.op
    BY DEF Job
  <2>2. CASE DisableHit(y)
    <3> DEFINE job == [y EXCEPT !.op = "collect"]
    <3>1. Replace(y, {job}) /\ job.op # "disable"
      BY <2>1, <2>2 DEF DisableHit
    <3> HIDE DEF job
    <3>2. QED
      BY <1>2, <1>4, <3>1 DEF JobNamed
  <2>3. CASE Collect(y)
    <3> DEFINE job == [y EXCEPT !.op = "exchange", !.todo = CollectNASForUser(y.name)]
    <3>1. Replace(y, {job}) /\ job.op # "disable"
      BY <2>1, <2>3 DEF Collect
    <3> HIDE DEF job
    <3>2. QED
      BY <1>2, <1>4, <3>1 DEF JobNamed
  <2>4. ASSUME NEW host, NEW answer, Exchange(y, host, answer) PROVE JobsNamed'
    <3> DEFINE job == [y EXCEPT !.todo = @ \ {host}]
    <3>1. Replace(y, {job}) /\ job.op = y.op /\ y.op = "exchange"
      BY <2>4 DEF Exchange, Job
    <3> HIDE DEF job
    <3>2. QED
      BY <1>2, <1>4, <3>1 DEF JobNamed
  <2>5. CASE FinishDisconnect(y)
    BY <1>2, <1>4, <2>5 DEF FinishDisconnect
  <2>6. QED
    BY <1>7, <2>2, <2>3, <2>4, <2>5 DEF DisconnectUser
<1>8. ASSUME NEW y, LookUpHit(y) \/ DisableHit(y) \/ DisconnectUser(y) PROVE y \in Job
  BY <1>8, Members
     DEF LookUpHit, DisableHit, DisconnectUser, Collect, Exchange, FinishDisconnect,
         TypeOK, WorkOK
<1>9. CASE UNCHANGED jobs
  BY <1>1, <1>9 DEF JobsNamed, JobNamed
<1>10. CASE HandleAccounting
  <2>1. ASSUME NEW n, NEW delta, Charges(n, delta) PROVE JobsNamed'
    <3>1. CASE jobs' = jobs (+) SetToBag({NewJob("hit", n, Nil, {})})
      BY <1>3, <1>4, <1>5, <3>1 DEF JobNamed
    <3>2. QED
      BY <1>9, <2>1, <3>1 DEF Charges
  <2>2. QED
    BY <1>9, <1>10, <2>1, AccountingMoves
<1>11. ASSUME NEW n, HandleDisconnectUser(n) PROVE JobsNamed'
  BY <1>3, <1>4, <1>5, <1>11 DEF HandleDisconnectUser, JobNamed
<1>12. CASE Restart
  BY <1>12, Members, EmptyBagDomain DEF Restart, JobsNamed
<1>13. QED
  BY <1>6, <1>7, <1>8, <1>9, <1>10, <1>11, <1>12, JobsSteps

\* Who touches the users in memory.
LEMMA UsersMoves ==
  ASSUME [Next]_vars
  PROVE  \/ UNCHANGED subscribers
         \/ \E h \in Requests : StampsUser(h)
         \/ \E h \in Requests : RejectVoucher(h)
         \/ \E job \in BagToSet(jobs) : DisableHit(job)
         \/ HandleAccounting
         \/ \E r \in Refreshers : Apply(r)
         \/ Restart
<1>1. ASSUME NEW h \in Requests, HandleAuth(h)
      PROVE  UNCHANGED subscribers \/ StampsUser(h) \/ RejectVoucher(h)
  <2>1. CASE StampFirstLogin(h)
    BY <2>1 DEF StampFirstLogin, StampsUser
  <2>2. QED
    BY <1>1, <2>1
       DEF HandleAuth, RejectCredentials, Admit, PassLimits, RejectLast, Accept
<1>2. ASSUME NEW job, LookUpHit(job) \/ DisconnectUser(job) PROVE UNCHANGED subscribers
  BY <1>2 DEF LookUpHit, DisconnectUser, Collect, Exchange, FinishDisconnect
<1>3. ASSUME NEW w, ExecuteWrite(w) \/ FailWrite(w) PROVE UNCHANGED subscribers
  BY <1>3 DEF ExecuteWrite, FailWrite
<1>4. ASSUME NEW r \in Refreshers, RefreshFromDB(r) \/ RefreshError(r)
      PROVE  UNCHANGED subscribers \/ Apply(r)
  BY <1>4 DEF RefreshFromDB, ReadUsers, ReadNas, RefreshError
<1>5. ASSUME Administer PROVE UNCHANGED subscribers
  BY <1>5
     DEF Administer, HandleCreateSubscriber, GenerateOneVoucher, Insert,
         HandleDeleteSubscriber, EditRead, EditWrite, HandleCreateNAS,
         HandleDeleteNAS, HandleUpdateNAS
<1>6. QED
  BY <1>1, <1>2, <1>3, <1>4, <1>5
     DEF Next, vars, Tick, Background, CleanupStaleSessions, HandleDisconnectUser,
         ReconcileSessions, ReconcileRead, ReconcileMerge

\* Why user n of memory is disabled after a step: it was, or the refresh that
\* replaces it has its row disabled, or some work under way disables its row.
Reason(n) ==
  \E i :
    /\ subscribers'[n].id = i
    /\ \/ /\ n \in DOMAIN subscribers /\ subscribers[n].id = i
          /\ ~subscribers[n].enabled \/ Disabling(i)
       \/ \E r \in Refreshers :
            i \in DOMAIN refresh[r].users /\ ~refresh[r].users[i].enabled
       \/ Disabling(i)'

\* One user is replaced by one with its id, and the others stay.
LEMMA OneReason ==
  ASSUME NEW m, NEW row, subscribers' = [subscribers EXCEPT ![m] = row],
         m \in DOMAIN subscribers => row.id = subscribers[m].id,
         NEW n \in DOMAIN subscribers', ~subscribers'[n].enabled,
         m = n => \/ ~subscribers[n].enabled
                  \/ \E i : subscribers[n].id = i /\ (Disabling(i) \/ Disabling(i)')
  PROVE  Reason(n)
<1>1. n \in DOMAIN subscribers /\ subscribers'[n].id = subscribers[n].id
  OBVIOUS
<1>2. n # m => subscribers'[n] = subscribers[n]
  BY <1>1
<1>3. QED
  BY <1>1, <1>2 DEF Reason

LEMMA DisabledHasReason ==
  ASSUME TypeOK, NamesBound, WorkIsBags, JobsNamed, [Next]_vars, ~Restart,
         NEW n \in DOMAIN subscribers', ~subscribers'[n].enabled
  PROVE  Reason(n)
<1>1. \A m \in DOMAIN subscribers :
        /\ subscribers[m] \in Row /\ subscribers[m].name = m
        /\ subscribers[m].id \in DOMAIN issued /\ issued[subscribers[m].id] = m
  BY DEF TypeOK, CacheOK, IsMap, NamesBound, UsersBound, Bound
<1>2. \A i, j \in DOMAIN issued : issued[i] = issued[j] => i = j
  BY DEF NamesBound, NamesUnique
<1>3. CASE UNCHANGED subscribers
  BY <1>3 DEF Reason
<1>4. ASSUME NEW m, subscribers' = Disabled(m),
             m \in DOMAIN subscribers =>
               \E i : subscribers[m].id = i /\ (Disabling(i) \/ Disabling(i)')
      PROVE  Reason(n)
  <2>1. CASE m \in DOMAIN subscribers
    <3> DEFINE row == [subscribers[m] EXCEPT !.enabled = FALSE]
    <3>1. row.id = subscribers[m].id
      BY <1>1, <2>1, RowKeeps
    <3>2. subscribers' = [subscribers EXCEPT ![m] = row]
      BY <1>4, <2>1 DEF Disabled
    <3> HIDE DEF row
    <3>3. QED
      BY <1>4, <2>1, <3>1, <3>2, OneReason
  <2>2. CASE m \notin DOMAIN subscribers
    BY <1>3, <1>4, <2>2 DEF Disabled
  <2>3. QED
    BY <2>1, <2>2
<1>5. ASSUME NEW h \in Requests, StampsUser(h) PROVE Reason(n)
  <2> DEFINE m == auth[h].row.name
             row == Stamped(subscribers[m], auth[h].row.id, auth[h].row.first)
  <2>1. m \in DOMAIN subscribers /\ subscribers' = [subscribers EXCEPT ![m] = row]
    BY <1>5 DEF StampsUser
  <2>2. row.id = subscribers[m].id /\ row.enabled = subscribers[m].enabled
    BY <1>1, <2>1 DEF Row, Stamped
  <2> HIDE DEF m, row
  <2>3. m = n => ~subscribers[n].enabled
    BY <2>1, <2>2
  <2>4. QED
    BY <2>1, <2>2, <2>3, OneReason
<1>6. ASSUME NEW h \in Requests, RejectVoucher(h) PROVE Reason(n)
  <2>1. PICK i, m : i = auth[h].row.id /\ m = auth[h].row.name
    OBVIOUS
  <2>2. subscribers' = Disabled(m) /\ Spawn({DisableWrite(i)})
    BY <1>6, <2>1 DEF RejectVoucher
  <2>3. i \in DOMAIN issued /\ issued[i] = m
    BY <1>6, <2>1 DEF RejectVoucher, NamesBound, HandsBound, Bound, InHand
  <2>4. DisableWrite(i) \in BagToSet(writes')
    BY <2>2, WorkAdded DEF Spawn, WorkIsBags
  <2>5. Disabling(i)'
    BY <2>4 DEF Disabling, DisableWrite
  <2>6. m \in DOMAIN subscribers => subscribers[m].id = i
    BY <1>1, <1>2, <2>3
  <2>7. QED
    BY <1>4, <2>2, <2>5, <2>6
<1>7. ASSUME NEW job \in BagToSet(jobs), DisableHit(job) PROVE Reason(n)
  <2>1. subscribers' = Disabled(job.name) /\ job.op = "disable"
    BY <1>7 DEF DisableHit
  <2>2. job.id \in DOMAIN issued /\ issued[job.id] = job.name
    BY <2>1 DEF JobsNamed, JobNamed
  <2>3. job.name \in DOMAIN subscribers => subscribers[job.name].id = job.id
    BY <1>1, <1>2, <2>2
  <2>4. Disabling(job.id)
    BY <2>1 DEF Disabling
  <2>5. QED
    BY <1>4, <2>1, <2>3, <2>4
<1>8. CASE HandleAccounting
  <2>1. ASSUME NEW m, NEW delta, Charges(m, delta) PROVE Reason(n)
    <3> DEFINE row == Charge(subscribers[m], delta)
    <3>1. m \in DOMAIN subscribers /\ subscribers' = [subscribers EXCEPT ![m] = row]
      BY <2>1 DEF Charges
    <3>2. row.id = subscribers[m].id /\ row.enabled = subscribers[m].enabled
      BY <1>1, <3>1 DEF Row, Charge
    <3> HIDE DEF row
    <3>3. m = n => ~subscribers[n].enabled
      BY <3>1, <3>2
    <3>4. QED
      BY <3>1, <3>2, <3>3, OneReason
  <2>2. QED
    BY <1>3, <1>8, <2>1, AccountingMoves
<1>9. ASSUME NEW r \in Refreshers, Apply(r) PROVE Reason(n)
  <2> DEFINE table == refresh[r].users
  <2>1. subscribers' = Loaded(table, subscribers)
    BY <1>9 DEF Apply
  <2>2. /\ \A i \in DOMAIN table : table[i] \in Row
        /\ \A i \in DOMAIN table :
             table[i].id = i /\ i \in DOMAIN issued /\ issued[i] = table[i].name
    BY DEF TypeOK, RefreshOK, RefreshRecord, IsMap, NamesBound, HandsBound, TableBound, Bound
  <2> HIDE DEF table
  <2>3. n \in Names(table)
    BY <2>1 DEF Loaded
  <2>4. PICK i \in DOMAIN table : RowNamed(table, n) = table[i] /\ table[i].name = n
    BY <2>3, NamedRow
  <2>5. CASE n \notin DOMAIN subscribers
    <3>1. subscribers'[n] = table[i]
      BY <2>1, <2>3, <2>4, <2>5 DEF Loaded
    <3>2. QED
      BY <2>2, <3>1 DEF Reason, table
  <2>6. CASE n \in DOMAIN subscribers
    <3> DEFINE row == Merge(subscribers[n], table[i])
    <3>1. subscribers'[n] = row
      BY <2>1, <2>3, <2>4, <2>6 DEF Loaded
    <3>2. row.id = i /\ row.enabled = (table[i].enabled /\ subscribers[n].enabled)
      BY <2>2 DEF Merge, Row
    <3> HIDE DEF row
    <3>3. subscribers[n].id = i
      BY <1>1, <1>2, <2>2, <2>4, <2>6
    <3>4. ~table[i].enabled \/ ~subscribers[n].enabled
      BY <3>1, <3>2
    <3>5. QED
      BY <2>6, <3>1, <3>2, <3>3, <3>4 DEF Reason, table
  <2>7. QED
    BY <2>5, <2>6
<1>10. QED
  BY <1>3, <1>5, <1>6, <1>7, <1>8, <1>9, UsersMoves

\* A restart loads what the table shows.
RefusalsLoaded ==
  /\ \A r \in Refreshers : refresh[r] = IdleRefresh
  /\ \A n \in DOMAIN subscribers : subscribers[n].enabled \/ Settled(subscribers[n].id)

LEMMA LoadedRefusals ==
  ASSUME RefusalsLoaded
  PROVE  RefusalsInv
BY DEF RefusalsLoaded, RefusalsInv, Kept, IdleRefresh, EmptyMap

LEMMA RefusalsAfterRestart ==
  ASSUME TypeOK, NamesBound, Restart
  PROVE  RefusalsLoaded'
<1>1. UNCHANGED dbUsers
  BY DEF Restart
<1>2. ASSUME NEW n \in DOMAIN subscribers'
      PROVE  subscribers'[n].enabled \/ Settled(subscribers[n].id)'
  <2>1. subscribers' = Loaded(dbUsers, EmptyMap)
    BY <1>2 DEF Restart, EmptyMap
  <2>2. n \in Names(dbUsers) /\ subscribers'[n] = RowNamed(dbUsers, n)
    BY <2>1 DEF Loaded, EmptyMap
  <2>3. PICK i \in DOMAIN dbUsers : subscribers'[n] = dbUsers[i]
    BY <2>2, NamedRow
  <2>4. dbUsers[i].id = i
    BY DEF NamesBound, TableBound
  <2>5. QED
    BY <1>1, <2>3, <2>4 DEF Settled
<1>3. QED
  BY <1>2 DEF Restart, RefusalsLoaded

LEMMA RefusalsStep ==
  ASSUME TypeOK, NamesBound, NamesBound', NamesKept, WorkIsBags, EditsAllowed,
         "edit" \notin Admin, JobsNamed, RefusalsInv, [Next]_vars
  PROVE  RefusalsInv' \/ RefusalsLoaded'
<1>1. CASE Restart
  BY <1>1, RefusalsAfterRestart
<1> SUFFICES ASSUME ~Restart, lost' = 0
             PROVE  /\ \A n \in DOMAIN subscribers' :
                         subscribers'[n].enabled \/ Kept(subscribers[n].id)'
                    /\ \A r \in Refreshers : \A i \in DOMAIN refresh'[r].users :
                         refresh'[r].users[i].enabled \/ Kept(i)'
  BY <1>1 DEF RefusalsInv
<1>2. lost = 0
  BY NoneLost
<1>3. \A i \in DOMAIN issued : Kept(i) => Kept(i)'
  BY KeptStays
<1>4. \A r \in Refreshers : \A i \in DOMAIN refresh[r].users : i \in DOMAIN issued
  BY DEF NamesBound, HandsBound, TableBound, Bound
<1>5. ASSUME NEW r \in Refreshers, NEW i \in DOMAIN refresh[r].users, ~refresh[r].users[i].enabled
      PROVE  Kept(i)'
  BY <1>2, <1>3, <1>4, <1>5 DEF RefusalsInv
<1>6. ASSUME NEW n \in DOMAIN subscribers', ~subscribers'[n].enabled
      PROVE  Kept(subscribers[n].id)'
  <2>1. PICK i :
          /\ subscribers'[n].id = i
          /\ \/ /\ n \in DOMAIN subscribers /\ subscribers[n].id = i
                /\ ~subscribers[n].enabled \/ Disabling(i)
             \/ \E r \in Refreshers :
                  i \in DOMAIN refresh[r].users /\ ~refresh[r].users[i].enabled
             \/ Disabling(i)'
    BY <1>6, DisabledHasReason DEF Reason
  <2>2. CASE /\ n \in DOMAIN subscribers /\ subscribers[n].id = i
             /\ ~subscribers[n].enabled \/ Disabling(i)
    <3>1. i \in DOMAIN issued
      BY <2>2 DEF NamesBound, UsersBound, Bound
    <3>2. Kept(i)
      BY <1>2, <2>2 DEF RefusalsInv, Kept
    <3>3. QED
      BY <1>3, <2>1, <3>1, <3>2
  <2>3. CASE \E r \in Refreshers : i \in DOMAIN refresh[r].users /\ ~refresh[r].users[i].enabled
    BY <1>5, <2>1, <2>3
  <2>4. CASE Disabling(i)'
    BY <2>1, <2>4 DEF Kept
  <2>5. QED
    BY <2>1, <2>2, <2>3, <2>4
<1>7. ASSUME NEW r \in Refreshers, NEW i \in DOMAIN refresh'[r].users, ~refresh'[r].users[i].enabled
      PROVE  Kept(i)'
  <2>1. CASE refresh'[r] = IdleRefresh
    BY <1>7, <2>1 DEF IdleRefresh, EmptyMap
  <2>2. CASE refresh'[r].users = dbUsers
    <3>1. i \in DOMAIN issued /\ Kept(i)
      BY <1>7, <2>2 DEF NamesBound, TableBound, Bound, Kept, Settled
    <3>2. QED
      BY <1>3, <3>1
  <2>3. CASE refresh'[r].users = refresh[r].users
    BY <1>5, <1>7, <2>3
  <2>4. QED
    BY <2>1, <2>2, <2>3, RefreshRows
<1>8. QED
  BY <1>6, <1>7

\* Where names are not given twice and no administrator edits users: whatever
\* this process refuses a user for stays refused after it.  Every user that
\* memory shows disabled is disabled in radius_users, or deleted, or some
\* procedure or statement under way will disable it; through overlapping
\* refreshes, that may bring an older row, and restarts, that bring only what
\* the table has (auth.go:221-229, accounting.go:186-208, coa.go:21-47,
\* service.go:222-225).
THEOREM RefusalsAreKept == Spec => []RefusalsKept
<1> DEFINE Loading == NamesKept /\ "edit" \notin Admin => RefusalsLoaded
           Named == NamesKept => JobsNamed
           Refusing == NamesKept /\ "edit" \notin Admin => RefusalsInv
<1>1. Init => Named /\ Loading
  <2> SUFFICES ASSUME Init PROVE JobsNamed /\ RefusalsLoaded
    OBVIOUS
  <2>1. JobsNamed
    BY Members, EmptyBagDomain DEF Init, JobsNamed
  <2>2. \A i \in DOMAIN dbUsers : dbUsers[i].enabled
    BY DEF Init, NewRow
  <2>3. \A n \in DOMAIN subscribers : subscribers[n].enabled
    <3>1. CASE subscribers = EmptyMap
      BY <3>1 DEF EmptyMap
    <3>2. CASE subscribers = [n \in {Seed[i] : i \in DOMAIN Seed} |->
                                dbUsers[CHOOSE i \in DOMAIN Seed : Seed[i] = n]]
      BY <2>2, <3>2 DEF Init
    <3>3. QED
      BY <3>1, <3>2 DEF Init
  <2>4. QED
    BY <2>1, <2>3 DEF Init, RefusalsLoaded
<1>2. Loading => Refusing
  BY LoadedRefusals
<1>3. TypeOK /\ TypeOK' /\ Grounds /\ Grounds' /\ Named /\ Refusing /\ [Next]_vars
        => Named' /\ (Refusing' \/ Loading')
  BY JobsNamedStep, RefusalsStep DEF Grounds, NamesKept
<1>4. Refusing => RefusalsKept
  BY DEF RefusalsInv, RefusalsKept, Kept, Settled
<1> HIDE DEF Named, Loading, Refusing
<1>5. QED
  BY <1>1, <1>2, <1>3, <1>4, GroundsHold, TypeCorrect, PTL DEF Spec

=============================================================================
