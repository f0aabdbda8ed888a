---------------------------- MODULE VoucherProofs ----------------------------
(***************************************************************************)
(* Vouchers: a spent one is refused, the calendar window stays whole, and  *)
(* every request is answered.                                              *)
(***************************************************************************)
EXTENDS ServerProofs, FiniteSetTheorems

USE DEF db, cache, sessionTable, handlers, adminVars, faults

(***************************************************************************)
(* What a step can do to the cached users and to radius_users.             *)
(***************************************************************************)

DisablesUser ==
  \E n \in DOMAIN subscribers :
    subscribers' = [subscribers EXCEPT ![n] = [@ EXCEPT !.enabled = FALSE]]

StampsUser(h) ==
  LET user == auth[h].row
  IN  /\ auth[h].pc = "stamp"
      /\ user.name \in DOMAIN subscribers
      /\ subscribers' = [subscribers EXCEPT ![user.name] =
                           Stamped(subscribers[user.name], user.id, user.first)]

ChargesUser ==
  \E n \in DOMAIN subscribers, delta \in Usage :
    LET u == Charge(subscribers[n], delta)
    IN  /\ subscribers' = [subscribers EXCEPT ![n] = u]
        /\ spent' = spent \/ (LimitHit(u) /\ spent' = spent \cup {u.id})

CacheChanges ==
  \/ UNCHANGED <<subscribers, spent>>
  \/ DisablesUser /\ UNCHANGED spent
  \/ (\E h \in Requests : StampsUser(h)) /\ UNCHANGED spent
  \/ ChargesUser
  \/ \E r \in Refreshers : Apply(r)
  \/ Restart

LEMMA DisabledChanges ==
  ASSUME NEW n, subscribers' = Disabled(n)
  PROVE  UNCHANGED subscribers \/ DisablesUser
BY DEF Disabled, DisablesUser

LEMMA AccountingCache ==
  ASSUME TypeOK, HandleAccounting
  PROVE  CacheChanges
<1>1. ASSUME NEW host \in Hosts, NEW n \in Usernames, NEW a \in AcctIds,
             HandleAcctStart(host, n, a)
      PROVE  CacheChanges
  BY <1>1 DEF HandleAcctStart, CacheChanges
<1>2. ASSUME NEW host \in Hosts, NEW n \in Usernames, NEW a \in AcctIds,
             NEW reading \in Readings, NEW stop \in BOOLEAN,
             HandleAcctUpdate(host, n, a, reading, stop)
      PROVE  CacheChanges
  <2>1. PICK k \in DOMAIN sessions :
          IF n \in DOMAIN subscribers /\ IsVoucher(subscribers[n])
            THEN ChargeVoucher(k, n, reading, stop)
            ELSE RecordOnly(k, reading, stop)
    BY <1>2 DEF HandleAcctUpdate, Matching
  <2>2. CASE n \in DOMAIN subscribers /\ ChargeVoucher(k, n, reading, stop)
    <3> DEFINE delta == Delta(reading, sessions[k].cum)
               u == Charge(subscribers[n], delta)
    <3>1. sessions[k].cum \in Usage /\ reading \in Usage
      BY BoundAssumption DEF TypeOK, SessionsOK, IsMap, Session
    <3>2. delta \in Usage
      BY <3>1, UsageTyped
    <3>3. /\ subscribers' = [subscribers EXCEPT ![n] = u]
          /\ spent' = spent \/ (LimitHit(u) /\ spent' = spent \cup {u.id})
      BY <2>2 DEF ChargeVoucher
    <3> HIDE DEF delta
    <3>4. QED
      BY <2>2, <3>2, <3>3 DEF CacheChanges, ChargesUser
  <2>3. CASE RecordOnly(k, reading, stop)
    BY <2>3 DEF RecordOnly, CacheChanges
  <2>4. QED
    BY <2>1, <2>2, <2>3
<1>3. QED
  BY <1>1, <1>2 DEF HandleAccounting

\* A user is disabled or stamped, or none is changed.
CacheCalm ==
  /\ UNCHANGED spent
  /\ UNCHANGED subscribers \/ DisablesUser \/ \E h \in Requests : StampsUser(h)

LEMMA CacheMoves ==
  ASSUME [Next]_vars
  PROVE  CacheCalm \/ HandleAccounting \/ (\E r \in Refreshers : Apply(r)) \/ Restart
<1>1. CASE UNCHANGED <<subscribers, spent>>
  BY <1>1 DEF CacheCalm
<1>2. ASSUME NEW h \in Requests, HandleAuth(h)
      PROVE  CacheCalm
  <2>1. CASE StampFirstLogin(h)
    BY <2>1 DEF StampFirstLogin, StampsUser, CacheCalm
  <2>2. CASE RejectVoucher(h)
    BY <2>2, DisabledChanges DEF RejectVoucher, CacheCalm
  <2>3. QED
    BY <1>1, <1>2, <2>1, <2>2
       DEF HandleAuth, RejectCredentials, Admit, PassLimits, RejectLast, Accept,
           CacheCalm
<1>3. CASE Background
  <2>1. ASSUME NEW job, LookUpHit(job) \/ DisableHit(job) \/ DisconnectUser(job)
        PROVE  CacheCalm
    BY <1>1, <2>1, DisabledChanges
       DEF LookUpHit, DisableHit, DisconnectUser, Collect, Exchange, FinishDisconnect,
           CacheCalm
  <2>2. ASSUME NEW w, ExecuteWrite(w) \/ FailWrite(w)
        PROVE  CacheCalm
    BY <1>1, <2>2 DEF ExecuteWrite, FailWrite, CacheCalm
  <2>3. ASSUME NEW r \in Refreshers, RefreshFromDB(r) \/ RefreshError(r)
        PROVE  CacheCalm \/ Apply(r)
    BY <2>3 DEF RefreshFromDB, ReadUsers, ReadNas, RefreshError, CacheCalm
  <2>4. QED
    BY <1>1, <1>3, <2>1, <2>2, <2>3 DEF Background, CleanupStaleSessions
<1>4. CASE Administer
  BY <1>1, <1>4
     DEF Administer, HandleCreateSubscriber, GenerateOneVoucher, Insert,
         HandleDeleteSubscriber, EditRead, EditWrite, HandleCreateNAS,
         HandleDeleteNAS, HandleUpdateNAS
<1>5. QED
  BY <1>1, <1>2, <1>3, <1>4
     DEF Next, vars, Tick, HandleDisconnectUser, ReconcileSessions, ReconcileRead,
         ReconcileMerge

LEMMA CacheStep ==
  ASSUME TypeOK, [Next]_vars
  PROVE  CacheChanges
BY CacheMoves, AccountingCache DEF CacheCalm, CacheChanges

\* A statement or an edit that leaves the row's login times alone.  An edit
\* writes the name that it has read.
AltersUser ==
  /\ UNCHANGED issued
  /\ \E i \in DOMAIN dbUsers, row \in Row :
       /\ dbUsers' = [dbUsers EXCEPT ![i] = row]
       /\ row.id = dbUsers[i].id
       /\ row.first = dbUsers[i].first /\ row.expires = dbUsers[i].expires
       /\ \/ row.name = dbUsers[i].name
          \/ \E e \in Editors : edit[e] # Nil /\ edit[e].id = i /\ row.name = edit[e].name

RecordsLogin ==
  /\ UNCHANGED issued
  /\ \E i \in DOMAIN dbUsers, t \in Nat :
       dbUsers' = [dbUsers EXCEPT ![i] = Stamped(dbUsers[i], i, t)]

TableChanges ==
  \/ UNCHANGED <<dbUsers, issued>>
  \/ AltersUser
  \/ RecordsLogin
  \/ /\ ~Stable
     /\ \E i \in RowIds, n \in Usernames :
          Insert(i, n) /\ \A j \in DOMAIN issued : issued[j] # n
  \/ ~Stable /\ \E i \in RowIds : HandleDeleteSubscriber(i)

LEMMA StatementTable ==
  ASSUME TypeOK, NEW w, ExecuteWrite(w)
  PROVE  TableChanges
<1>1. CASE UNCHANGED <<dbUsers, issued>>
  BY <1>1 DEF TableChanges
<1>2. w \in Write /\ UNCHANGED issued /\ now \in Nat
  BY ServerAssumption DEF ExecuteWrite, BagIn, BagToSet, TypeOK, WorkOK, CountersOK
<1>3. \A i \in DOMAIN dbUsers : i \in RowIds /\ dbUsers[i] \in Row
  BY DEF TypeOK, DbOK, IsMap
<1>4. ASSUME w.id \in DOMAIN dbUsers, RecordFirstLogin(w) PROVE TableChanges
  <2>1. dbUsers' = [dbUsers EXCEPT ![w.id] = Stamped(dbUsers[w.id], w.id, now)]
    BY <1>4 DEF RecordFirstLogin, UpdateRow, Stamped
  <2>2. QED
    BY <1>2, <1>4, <2>1 DEF TableChanges, RecordsLogin
<1>5. ASSUME w.id \in DOMAIN dbUsers, NEW row \in Row, UpdateRow(w.id, row),
             row.id = dbUsers[w.id].id, row.name = dbUsers[w.id].name,
             row.first = dbUsers[w.id].first, row.expires = dbUsers[w.id].expires
      PROVE  TableChanges
  BY <1>2, <1>5 DEF UpdateRow, TableChanges, AltersUser
<1>6. ASSUME w.id \in DOMAIN dbUsers, AddUsageDelta(w) PROVE TableChanges
  <2> DEFINE row == Charge(dbUsers[w.id], w.delta)
  <2>1. w.delta \in Usage
    BY <1>2, <1>6 DEF AddUsageDelta, Write
  <2>2. row \in Row
    BY <1>3, <1>6, <2>1, ChargeTyped
  <2>3. /\ row.id = dbUsers[w.id].id /\ row.name = dbUsers[w.id].name
        /\ row.first = dbUsers[w.id].first /\ row.expires = dbUsers[w.id].expires
    BY <1>3, <1>6 DEF Charge, Row
  <2>4. UpdateRow(w.id, row)
    BY <1>6 DEF AddUsageDelta, Charge
  <2> HIDE DEF row
  <2>5. QED
    BY <1>5, <1>6, <2>2, <2>3, <2>4
<1>7. ASSUME w.id \in DOMAIN dbUsers, DisableUser(w) PROVE TableChanges
  <2> DEFINE row == [dbUsers[w.id] EXCEPT !.enabled = FALSE]
  <2>1. /\ row \in Row /\ row.id = dbUsers[w.id].id /\ row.name = dbUsers[w.id].name
        /\ row.first = dbUsers[w.id].first /\ row.expires = dbUsers[w.id].expires
    BY <1>3, <1>7 DEF Row
  <2>2. UpdateRow(w.id, row)
    BY <1>7 DEF DisableUser
  <2> HIDE DEF row
  <2>3. QED
    BY <1>5, <1>7, <2>1, <2>2
<1>8. CASE UpsertSession(w)
  BY <1>1, <1>2, <1>8 DEF UpsertSession
<1>9. ASSUME w.id \notin DOMAIN dbUsers,
             RecordFirstLogin(w) \/ AddUsageDelta(w) \/ DisableUser(w)
      PROVE  TableChanges
  BY <1>1, <1>2, <1>9 DEF RecordFirstLogin, AddUsageDelta, DisableUser, UpdateRow
<1>10. QED
  BY <1>4, <1>6, <1>7, <1>8, <1>9 DEF ExecuteWrite

LEMMA EditTable ==
  ASSUME TypeOK, NamesKept, NEW e \in Editors, NEW n \in Usernames, NEW enabled \in BOOLEAN,
         EditWrite(e, n, enabled)
  PROVE  TableChanges
<1> DEFINE old == edit[e]
           row(sim) == Overwritten(dbUsers[old.id], old, n, enabled, sim)
<1>1. old \in Row /\ SimUses \cup {old.sim} \subseteq Nat /\ n = old.name
  BY ServerAssumption DEF EditWrite, TypeOK, AdminOK, Row, NamesKept
<1>2. CASE UNCHANGED dbUsers
  BY <1>2 DEF EditWrite, TableChanges
<1>3. CASE /\ old.id \in DOMAIN dbUsers
           /\ \E sim \in SimUses \cup {old.sim} :
                dbUsers' = [dbUsers EXCEPT ![old.id] = row(sim)]
  <2>1. PICK sim \in SimUses \cup {old.sim} :
          dbUsers' = [dbUsers EXCEPT ![old.id] = row(sim)]
    BY <1>3
  <2>2. dbUsers[old.id] \in Row /\ sim \in Nat
    BY <1>1, <1>3 DEF TypeOK, DbOK, IsMap
  <2>3. /\ row(sim) \in Row /\ row(sim).id = dbUsers[old.id].id
        /\ row(sim).first = dbUsers[old.id].first /\ row(sim).expires = dbUsers[old.id].expires
        /\ row(sim).name = old.name
    BY <1>1, <2>2 DEF Overwritten, Row
  <2>4. PICK new \in Row :
          /\ dbUsers' = [dbUsers EXCEPT ![old.id] = new]
          /\ new.id = dbUsers[old.id].id
          /\ new.first = dbUsers[old.id].first /\ new.expires = dbUsers[old.id].expires
          /\ new.name = old.name
    BY <2>1, <2>3
  <2>5. UNCHANGED issued /\ edit[e] # Nil /\ old.id \in DOMAIN dbUsers
    BY <1>3 DEF EditWrite
  <2>6. edit[e] # Nil /\ edit[e].id = old.id /\ new.name = edit[e].name
    BY <2>4, <2>5
  <2> HIDE DEF old
  <2>7. AltersUser
    BY <2>4, <2>5, <2>6 DEF AltersUser
  <2>8. QED
    BY <2>7 DEF TableChanges
<1>4. QED
  BY <1>2, <1>3 DEF EditWrite

LEMMA TableStep ==
  ASSUME TypeOK, NamesKept, [Next]_vars
  PROVE  TableChanges
<1>1. CASE UNCHANGED <<dbUsers, issued>>
  BY <1>1 DEF TableChanges
<1>2. CASE Administer
  <2>1. ASSUME NEW i \in RowIds, NEW n \in Usernames, GenerateOneVoucher(i, n)
        PROVE  TableChanges
    BY <2>1 DEF GenerateOneVoucher, NamesKept, Stable, TableChanges
  <2>2. ASSUME NEW i \in RowIds, HandleDeleteSubscriber(i) PROVE TableChanges
    BY <2>2 DEF HandleDeleteSubscriber, Stable, TableChanges
  <2>3. ASSUME NEW e \in Editors, NEW i, EditRead(e, i) PROVE TableChanges
    BY <1>1, <2>3 DEF EditRead
  <2>4. ASSUME NEW i, NEW n, HandleCreateSubscriber(i, n) PROVE TableChanges
    BY <2>4 DEF HandleCreateSubscriber, NamesKept
  <2>5. ASSUME NEW k, NEW host, NEW enabled,
               \/ HandleCreateNAS(k, host) \/ HandleDeleteNAS(k)
               \/ HandleUpdateNAS(k, host, enabled)
        PROVE  TableChanges
    BY <1>1, <2>5 DEF HandleCreateNAS, HandleDeleteNAS, HandleUpdateNAS
  <2>6. QED
    BY <1>2, <2>1, <2>2, <2>3, <2>4, <2>5, EditTable DEF Administer
<1>3. CASE Background
  <2>1. ASSUME NEW job, LookUpHit(job) \/ DisableHit(job) \/ DisconnectUser(job)
        PROVE  TableChanges
    BY <1>1, <2>1 DEF LookUpHit, DisableHit, DisconnectUser, Collect, Exchange,
       FinishDisconnect
  <2>2. ASSUME NEW w, FailWrite(w) PROVE TableChanges
    BY <1>1, <2>2 DEF FailWrite
  <2>3. ASSUME NEW r, RefreshFromDB(r) \/ RefreshError(r) PROVE TableChanges
    BY <1>1, <2>3 DEF RefreshFromDB, ReadUsers, ReadNas, Apply, RefreshError
  <2>4. QED
    BY <1>1, <1>3, <2>1, <2>2, <2>3, StatementTable DEF Background, CleanupStaleSessions
<1>4. ASSUME NEW h, HandleAuth(h) PROVE TableChanges
  BY <1>1, <1>4 DEF HandleAuth, RejectCredentials, Admit, StampFirstLogin, RejectVoucher,
     PassLimits, RejectLast, Accept
<1>5. CASE HandleAccounting
  BY <1>1, <1>5 DEF HandleAccounting, HandleAcctStart, HandleAcctUpdate
<1>6. QED
  BY <1>1, <1>2, <1>3, <1>4, <1>5
     DEF Next, vars, Tick, HandleDisconnectUser, ReconcileSessions, ReconcileRead,
         ReconcileMerge, Restart

(***************************************************************************)
(* While names stay on the row they were first given to, a row has that    *)
(* name wherever it is: in the table, in a refresh, in the cache, in an    *)
(* edit and in a request.                                                  *)
(***************************************************************************)

Bound(names, row) == row.id \in DOMAIN names /\ names[row.id] = row.name

TableBound(names, table) == \A i \in DOMAIN table : table[i].id = i /\ Bound(names, table[i])

UsersBound(names, users) == \A n \in DOMAIN users : users[n].name = n /\ Bound(names, users[n])

InHand == {"stamp", "limits", "count"}

NamesUnique == \A i, j \in DOMAIN issued : issued[i] = issued[j] => i = j

HandsBound ==
  /\ \A r \in Refreshers : TableBound(issued, refresh[r].users)
  /\ \A e \in Editors : edit[e] # Nil => Bound(issued, edit[e])
  /\ \A h \in Requests : auth[h].pc \in InHand => Bound(issued, auth[h].row)

NamesBound ==
  NamesUnique /\ TableBound(issued, dbUsers) /\ UsersBound(issued, subscribers) /\ HandsBound

\* What becomes of a row keeps its id and its name.
LEMMA RowKeeps ==
  ASSUME NEW row \in Row
  PROVE  /\ \A i, t : Stamped(row, i, t).id = row.id /\ Stamped(row, i, t).name = row.name
         /\ \A u : Charge(row, u).id = row.id /\ Charge(row, u).name = row.name
         /\ [row EXCEPT !.enabled = FALSE].id = row.id
         /\ [row EXCEPT !.enabled = FALSE].name = row.name
         /\ \A t : [row EXCEPT !.first = t].id = row.id /\ [row EXCEPT !.first = t].name = row.name
         /\ \A old : Merge(old, row).id = row.id /\ Merge(old, row).name = row.name
BY DEF Row, Stamped, Charge, Merge

LEMMA NamedRow ==
  ASSUME NEW table, NEW n \in Names(table)
  PROVE  \E i \in DOMAIN table : RowNamed(table, n) = table[i] /\ table[i].name = n
BY DEF Names, RowNamed

LEMMA LoadedBound ==
  ASSUME NEW names, NEW table, NEW cached, IsMap(table, RowIds, Row), TableBound(names, table)
  PROVE  UsersBound(names, Loaded(table, cached))
<1> SUFFICES ASSUME NEW n \in Names(table)
             PROVE  Loaded(table, cached)[n].name = n /\ Bound(names, Loaded(table, cached)[n])
  BY DEF UsersBound, Loaded
<1>1. PICK i \in DOMAIN table : RowNamed(table, n) = table[i] /\ table[i].name = n
  BY NamedRow
<1>2. table[i] \in Row /\ Bound(names, table[i])
  BY DEF IsMap, TableBound
<1>3. \/ Loaded(table, cached)[n] = table[i]
      \/ Loaded(table, cached)[n] = Merge(cached[n], table[i])
  BY <1>1 DEF Loaded
<1>4. QED
  BY <1>1, <1>2, <1>3, RowKeeps DEF Bound

LEMMA CacheNames ==
  ASSUME TypeOK, NamesBound, CacheChanges
  PROVE  UsersBound(issued, subscribers')
<1>1. \A n \in DOMAIN subscribers :
        /\ subscribers[n] \in Row /\ subscribers[n].name = n /\ Bound(issued, subscribers[n])
  BY DEF TypeOK, CacheOK, IsMap, NamesBound, UsersBound
<1>2. ASSUME NEW n \in DOMAIN subscribers, NEW row,
             row.id = subscribers[n].id, row.name = subscribers[n].name,
             subscribers' = [subscribers EXCEPT ![n] = row]
      PROVE  UsersBound(issued, subscribers')
  BY <1>1, <1>2 DEF UsersBound, Bound
<1>3. CASE UNCHANGED subscribers
  BY <1>3 DEF NamesBound
<1>4. CASE DisablesUser
  BY <1>1, <1>2, <1>4, RowKeeps DEF DisablesUser
<1>5. ASSUME NEW h \in Requests, StampsUser(h)
      PROVE  UsersBound(issued, subscribers')
  <2>1. PICK n \in DOMAIN subscribers :
          \E i, t : subscribers' = [subscribers EXCEPT ![n] = Stamped(subscribers[n], i, t)]
    BY <1>5 DEF StampsUser
  <2>2. PICK i, t : subscribers' = [subscribers EXCEPT ![n] = Stamped(subscribers[n], i, t)]
    BY <2>1
  <2> DEFINE row == Stamped(subscribers[n], i, t)
  <2>3. row.id = subscribers[n].id /\ row.name = subscribers[n].name
    BY <1>1, RowKeeps
  <2> HIDE DEF row
  <2>4. QED
    BY <1>2, <2>2, <2>3 DEF row
<1>6. CASE ChargesUser
  <2>1. PICK n \in DOMAIN subscribers, delta \in Usage :
          subscribers' = [subscribers EXCEPT ![n] = Charge(subscribers[n], delta)]
    BY <1>6 DEF ChargesUser
  <2>2. QED
    BY <1>1, <1>2, <2>1, RowKeeps
<1>7. ASSUME NEW r \in Refreshers, Apply(r)
      PROVE  UsersBound(issued, subscribers')
  BY <1>7, LoadedBound DEF Apply, NamesBound, HandsBound, TypeOK, RefreshOK, RefreshRecord
<1>8. CASE Restart
  <2>1. UsersBound(issued, Loaded(dbUsers, EmptyMap))
    BY LoadedBound DEF NamesBound, TypeOK, DbOK
  <2>2. UsersBound(issued, EmptyMap)
    BY DEF UsersBound, EmptyMap
  <2>3. QED
    BY <1>8, <2>1, <2>2 DEF Restart
<1>9. QED
  BY <1>3, <1>4, <1>5, <1>6, <1>7, <1>8 DEF CacheChanges

LEMMA TableNames ==
  ASSUME TypeOK, NamesBound, TableChanges
  PROVE  /\ NamesUnique'
         /\ TableBound(issued', dbUsers')
         /\ \A row : Bound(issued, row) => Bound(issued', row)
<1>1. \A i \in DOMAIN dbUsers : dbUsers[i] \in Row /\ dbUsers[i].id = i /\ Bound(issued, dbUsers[i])
  BY DEF TypeOK, DbOK, IsMap, NamesBound, TableBound
<1>2. CASE UNCHANGED <<dbUsers, issued>>
  BY <1>2 DEF NamesBound, NamesUnique
<1>3. CASE AltersUser
  <2>1. PICK i \in DOMAIN dbUsers, row \in Row :
          /\ dbUsers' = [dbUsers EXCEPT ![i] = row]
          /\ row.id = dbUsers[i].id
          /\ \/ row.name = dbUsers[i].name
             \/ \E e \in Editors : edit[e] # Nil /\ edit[e].id = i /\ row.name = edit[e].name
    BY <1>3 DEF AltersUser
  <2>2. row.id = i /\ Bound(issued, row)
    BY <1>1, <2>1 DEF NamesBound, HandsBound, Bound
  <2>3. QED
    BY <1>1, <1>3, <2>1, <2>2 DEF AltersUser, NamesBound, NamesUnique, TableBound
<1>4. CASE RecordsLogin
  BY <1>1, <1>4, RowKeeps DEF RecordsLogin, NamesBound, NamesUnique, TableBound, Bound
<1>5. ASSUME NEW i \in RowIds, NEW n \in Usernames, Insert(i, n),
             \A j \in DOMAIN issued : issued[j] # n
      PROVE  /\ NamesUnique'
             /\ TableBound(issued', dbUsers')
             /\ \A row : Bound(issued, row) => Bound(issued', row)
  <2>1. i \notin DOMAIN issued /\ issued' = Put(issued, i, n)
        /\ dbUsers' = Put(dbUsers, i, NewRow(i, n))
    BY <1>5 DEF Insert
  <2>2. \A row : Bound(issued, row) => Bound(issued', row)
    BY <2>1 DEF Bound, Put
  <2>3. NewRow(i, n).id = i /\ NewRow(i, n).name = n
    BY DEF NewRow
  <2>4. TableBound(issued', dbUsers')
    BY <1>1, <2>1, <2>2, <2>3 DEF TableBound, Bound, Put
  <2>5. NamesUnique'
    BY <1>5, <2>1 DEF NamesBound, NamesUnique, Put
  <2>6. QED
    BY <2>2, <2>4, <2>5
<1>6. ASSUME NEW i \in RowIds, HandleDeleteSubscriber(i)
      PROVE  /\ NamesUnique'
             /\ TableBound(issued', dbUsers')
             /\ \A row : Bound(issued, row) => Bound(issued', row)
  BY <1>1, <1>6 DEF HandleDeleteSubscriber, Without, TableBound, NamesBound, NamesUnique
<1>7. QED
  BY <1>2, <1>3, <1>4, <1>5, <1>6 DEF TableChanges

\* Requests change by their own steps and by a restart only.
LEMMA RequestStep ==
  ASSUME [Next]_vars
  PROVE  UNCHANGED <<auth, stats>> \/ (\E h \in Requests : HandleAuth(h)) \/ Restart
<1>1. ASSUME Background PROVE UNCHANGED <<auth, stats>>
  BY <1>1 DEF Background, LookUpHit, DisableHit, DisconnectUser, Collect, Exchange,
     FinishDisconnect, ExecuteWrite, FailWrite, RefreshFromDB, ReadUsers, ReadNas, Apply,
     RefreshError, CleanupStaleSessions
<1>2. ASSUME HandleAccounting PROVE UNCHANGED <<auth, stats>>
  BY <1>2 DEF HandleAccounting, HandleAcctStart, HandleAcctUpdate
<1>3. ASSUME Administer PROVE UNCHANGED <<auth, stats>>
  BY <1>3 DEF Administer, HandleCreateSubscriber, GenerateOneVoucher, Insert,
     HandleDeleteSubscriber, EditRead, EditWrite, HandleCreateNAS, HandleDeleteNAS,
     HandleUpdateNAS
<1>4. QED
  BY <1>1, <1>2, <1>3 DEF Next, vars, Tick, HandleDisconnectUser, ReconcileSessions,
     ReconcileRead, ReconcileMerge

\* What an admitted request has in hand is the cached user, stamped or not.
LEMMA AdmittedRow ==
  ASSUME TypeOK, NEW h \in Requests, NEW host, NEW n, Admit(h, host, n)
  PROVE  \E a \in AuthState :
           /\ auth' = [auth EXCEPT ![h] = a]
           /\ a.pc \in InHand
           /\ a.pc = "count" => ~IsVoucher(subscribers[n])
           /\ a.row.id = subscribers[n].id /\ a.row.name = subscribers[n].name
           /\ a.row.used = subscribers[n].used
           /\ a.late = (subscribers[n].id \in spent)
<1> DEFINE user == subscribers[n]
           first == IsVoucher(user) /\ user.first = Nil
           pc == CASE first -> "stamp"
                   [] IsVoucher(user) /\ ~first -> "limits"
                   [] OTHER -> "count"
           row == IF first THEN [user EXCEPT !.first = now] ELSE user
           late == user.id \in spent
           a == [auth[h] EXCEPT !.pc = pc, !.row = row, !.late = late]
<1>1. user \in Row /\ now \in Nat
  BY ServerAssumption DEF Admit, TypeOK, CacheOK, IsMap, CountersOK
<1>2. row \in Row /\ late \in BOOLEAN
  BY <1>1 DEF Row, OptTime
<1>3. pc \in InHand /\ (pc = "count" => ~IsVoucher(user))
  BY DEF InHand
<1>4. row.id = user.id /\ row.name = user.name /\ row.used = user.used
  BY <1>1 DEF Row
<1>5. auth' = [auth EXCEPT ![h] = a]
  BY DEF Admit
<1> HIDE DEF pc, row, late
<1>6. a \in AuthState /\ a.pc = pc /\ a.row = row /\ a.late = late
  BY <1>2, <1>3 DEF TypeOK, AuthOK, AuthState, InHand
<1> HIDE DEF a
<1>7. a.late = (user.id \in spent)
  BY <1>6 DEF late
<1>8. QED
  BY <1>3, <1>4, <1>5, <1>6, <1>7

\* A later step of a request moves it on, and keeps what it has in hand.
LEMMA MovedRow ==
  ASSUME TypeOK, NEW h \in Requests,
         \/ StampFirstLogin(h) \/ RejectVoucher(h) \/ PassLimits(h)
         \/ RejectLast(h) \/ Accept(h)
  PROVE  \E a \in AuthState :
           /\ auth' = [auth EXCEPT ![h] = a]
           /\ auth[h].pc \in InHand
           /\ a.row = auth[h].row /\ a.late = auth[h].late
           /\ \/ auth[h].pc = "stamp" /\ a.pc = "limits"
              \/ auth[h].pc = "limits" /\ a.pc = "count" /\ ~LimitHit(auth[h].row)
              \/ a.pc = "reject"
              \/ auth[h].pc = "count" /\ a.pc = "accept"
<1>1. auth[h] \in AuthState /\ now \in Nat
  BY ServerAssumption DEF TypeOK, AuthOK, CountersOK
<1>2. \A pc \in {"limits", "count"} :
        LET a == [auth[h] EXCEPT !.pc = pc]
        IN  a \in AuthState /\ a.pc = pc /\ a.row = auth[h].row /\ a.late = auth[h].late
  BY <1>1 DEF AuthState
<1>3. \A code \in {"accept", "reject"}, t \in Nat :
        LET a == [auth[h] EXCEPT !.pc = code, !.timeout = t]
        IN  a \in AuthState /\ a.pc = code /\ a.row = auth[h].row /\ a.late = auth[h].late
  BY <1>1 DEF AuthState
<1>4. CASE StampFirstLogin(h)
  BY <1>2, <1>4 DEF StampFirstLogin, Move, InHand
<1>5. CASE RejectVoucher(h)
  BY <1>3, <1>5 DEF RejectVoucher, Answer, InHand
<1>6. CASE PassLimits(h)
  BY <1>2, <1>6 DEF PassLimits, Move, Refused, InHand
<1>7. CASE RejectLast(h)
  BY <1>3, <1>7 DEF RejectLast, Answer, InHand
<1>8. CASE Accept(h)
  <2>1. VoucherTimeout(auth[h].row, now) \in Nat
    BY <1>1, <1>8, VoucherTimeoutTyped DEF Accept, TypeOK, AuthOK
  <2>2. QED
    BY <1>3, <1>8, <2>1 DEF Accept, Answer, InHand
<1>9. QED
  BY <1>4, <1>5, <1>6, <1>7, <1>8

\* A refresh has the rows it read, or those of the table now, or none.
LEMMA RefreshRows ==
  ASSUME TypeOK, [Next]_vars, NEW r \in Refreshers
  PROVE  \/ refresh'[r] = IdleRefresh
         \/ refresh'[r].users = dbUsers
         \/ refresh[r].pc # "idle" /\ refresh'[r].users = refresh[r].users
         \/ refresh'[r] = refresh[r]
<1>1. ASSUME NEW q \in Refreshers, RefreshFromDB(q) \/ RefreshError(q)
      PROVE  \E x : /\ refresh' = [refresh EXCEPT ![q] = x]
                    /\ \/ x = IdleRefresh \/ x.users = dbUsers
                       \/ refresh[q].pc # "idle" /\ x.users = refresh[q].users
  BY <1>1 DEF RefreshFromDB, ReadUsers, ReadNas, Apply, RefreshError
<1>2. ASSUME NEW h, HandleAuth(h) PROVE UNCHANGED refresh
  BY <1>2 DEF HandleAuth, RejectCredentials, Admit, StampFirstLogin, RejectVoucher,
     PassLimits, RejectLast, Accept
<1>3. ASSUME HandleAccounting PROVE UNCHANGED refresh
  BY <1>3 DEF HandleAccounting, HandleAcctStart, HandleAcctUpdate
<1>4. ASSUME Administer PROVE UNCHANGED refresh
  BY <1>4 DEF Administer, HandleCreateSubscriber, GenerateOneVoucher, Insert,
     HandleDeleteSubscriber, EditRead, EditWrite, HandleCreateNAS, HandleDeleteNAS,
     HandleUpdateNAS
<1>5. ASSUME NEW job, LookUpHit(job) \/ DisableHit(job) \/ DisconnectUser(job)
      PROVE  UNCHANGED refresh
  BY <1>5 DEF LookUpHit, DisableHit, DisconnectUser, Collect, Exchange, FinishDisconnect
<1>6. ASSUME NEW w, ExecuteWrite(w) \/ FailWrite(w) PROVE UNCHANGED refresh
  BY <1>6 DEF ExecuteWrite, FailWrite
<1>7. \/ UNCHANGED refresh \/ Restart
      \/ \E q \in Refreshers : RefreshFromDB(q) \/ RefreshError(q)
  BY <1>2, <1>3, <1>4, <1>5, <1>6
     DEF Next, vars, Tick, Background, HandleDisconnectUser, ReconcileSessions,
         ReconcileRead, ReconcileMerge, CleanupStaleSessions
<1>8. QED
  BY <1>1, <1>7 DEF Restart, TypeOK, RefreshOK

\* The rows in hand come from the table, from the cache, or have been there.
LEMMA HandNames ==
  ASSUME TypeOK, NamesBound, [Next]_vars
  PROVE  /\ \A r \in Refreshers : TableBound(issued, refresh'[r].users)
         /\ \A e \in Editors : edit'[e] # Nil => Bound(issued, edit'[e])
         /\ \A h \in Requests : auth'[h].pc \in InHand => Bound(issued, auth'[h].row)
<1>1. \A r \in Refreshers : TableBound(issued, refresh'[r].users)
  <2>1. TableBound(issued, IdleRefresh.users)
    BY DEF TableBound, IdleRefresh, EmptyMap
  <2>2. QED
    BY <2>1, RefreshRows DEF NamesBound, HandsBound
<1>2. \A e \in Editors : edit'[e] # Nil => Bound(issued, edit'[e])
  <2>1. CASE UNCHANGED edit
    BY <2>1 DEF NamesBound, HandsBound
  <2>2. CASE Administer
    <3>1. ASSUME NEW e \in Editors, NEW i \in RowIds, EditRead(e, i)
          PROVE  \A g \in Editors : edit'[g] # Nil => Bound(issued, edit'[g])
      BY <3>1 DEF EditRead, TypeOK, AdminOK, NamesBound, TableBound, HandsBound
    <3>2. ASSUME NEW e \in Editors, NEW n, NEW enabled, EditWrite(e, n, enabled)
          PROVE  \A g \in Editors : edit'[g] # Nil => Bound(issued, edit'[g])
      BY <3>2 DEF EditWrite, TypeOK, AdminOK, NamesBound, HandsBound
    <3>3. QED
      BY <2>1, <2>2, <3>1, <3>2 DEF Administer, HandleCreateSubscriber, GenerateOneVoucher,
         Insert, HandleDeleteSubscriber, HandleCreateNAS, HandleDeleteNAS, HandleUpdateNAS
  <2>3. CASE Restart
    BY <2>3 DEF Restart
  <2>4. ASSUME NEW h, HandleAuth(h) PROVE UNCHANGED edit
    BY <2>4 DEF HandleAuth, RejectCredentials, Admit, StampFirstLogin, RejectVoucher,
       PassLimits, RejectLast, Accept
  <2>5. ASSUME HandleAccounting PROVE UNCHANGED edit
    BY <2>5 DEF HandleAccounting, HandleAcctStart, HandleAcctUpdate
  <2>6. ASSUME Background PROVE UNCHANGED edit
    BY <2>6 DEF Background, LookUpHit, DisableHit, DisconnectUser, Collect, Exchange,
       FinishDisconnect, ExecuteWrite, FailWrite, RefreshFromDB, ReadUsers, ReadNas, Apply,
       RefreshError, CleanupStaleSessions
  <2>7. QED
    BY <2>1, <2>2, <2>3, <2>4, <2>5, <2>6
       DEF Next, vars, Tick, HandleDisconnectUser, ReconcileSessions, ReconcileRead,
           ReconcileMerge
<1>3. \A h \in Requests : auth'[h].pc \in InHand => Bound(issued, auth'[h].row)
  <2>1. CASE UNCHANGED auth
    BY <2>1 DEF NamesBound, HandsBound
  <2>2. ASSUME NEW h \in Requests, NEW a, auth' = [auth EXCEPT ![h] = a],
               a.pc \in InHand => Bound(issued, a.row)
        PROVE  \A g \in Requests : auth'[g].pc \in InHand => Bound(issued, auth'[g].row)
    BY <2>2 DEF TypeOK, AuthOK, NamesBound, HandsBound
  <2>3. ASSUME NEW h \in Requests, HandleAuth(h)
        PROVE  \A g \in Requests : auth'[g].pc \in InHand => Bound(issued, auth'[g].row)
    <3>1. ASSUME NEW host, NEW n, NEW ok, RejectCredentials(h, host, n, ok)
          PROVE  \E a : auth' = [auth EXCEPT ![h] = a] /\ a.pc \notin InHand
      <4>1. [auth[h] EXCEPT !.pc = "reject"].pc = "reject"
        BY DEF TypeOK, AuthOK, AuthState
      <4>2. QED
        BY <3>1, <4>1 DEF RejectCredentials, InHand
    <3>2. ASSUME NEW host, NEW n, Admit(h, host, n)
          PROVE  \E a : auth' = [auth EXCEPT ![h] = a] /\ Bound(issued, a.row)
      <4>1. subscribers[n] \in Row /\ Bound(issued, subscribers[n])
        BY <3>2 DEF Admit, TypeOK, CacheOK, IsMap, NamesBound, UsersBound
      <4>2. PICK a \in AuthState :
              /\ auth' = [auth EXCEPT ![h] = a]
              /\ a.row.id = subscribers[n].id /\ a.row.name = subscribers[n].name
        BY <3>2, AdmittedRow
      <4>3. QED
        BY <4>1, <4>2 DEF Bound
    <3>3. CASE \/ StampFirstLogin(h) \/ RejectVoucher(h) \/ PassLimits(h)
               \/ RejectLast(h) \/ Accept(h)
      BY <2>2, <3>3, MovedRow DEF NamesBound, HandsBound
    <3>4. QED
      BY <2>2, <2>3, <3>1, <3>2, <3>3 DEF HandleAuth
  <2>4. CASE Restart
    <3>1. ASSUME NEW h \in Requests PROVE auth'[h].pc \notin InHand
      <4>1. [auth[h] EXCEPT !.pc = "lost"].pc = "lost"
        BY DEF TypeOK, AuthOK, AuthState
      <4>2. QED
        BY <2>4, <4>1 DEF Restart, InHand
    <3>2. QED
      BY <3>1
  <2>5. QED
    BY <2>1, <2>3, <2>4, RequestStep
<1>4. QED
  BY <1>1, <1>2, <1>3

LEMMA NamesStep ==
  ASSUME TypeOK, NamesKept, NamesBound, [Next]_vars
  PROVE  NamesBound'
<1>1. CacheChanges /\ TableChanges
  BY CacheStep, TableStep
<1>2. /\ NamesUnique'
      /\ TableBound(issued', dbUsers')
      /\ \A row : Bound(issued, row) => Bound(issued', row)
  BY <1>1, TableNames
<1>3. UsersBound(issued', subscribers')
  BY <1>1, <1>2, CacheNames DEF UsersBound
<1>4. HandsBound'
  BY <1>2, HandNames DEF HandsBound, TableBound
<1>5. QED
  BY <1>2, <1>3, <1>4 DEF NamesBound

LEMMA NamesInitially == ASSUME Init PROVE NamesBound
<1>1. TableBound(issued, dbUsers)
  BY DEF Init, TableBound, Bound, NewRow
<1>2. NamesUnique
  BY ServerAssumption DEF Init, NamesUnique
<1>3. UsersBound(issued, subscribers)
  <2>1. CASE subscribers = EmptyMap
    BY <2>1 DEF UsersBound, EmptyMap
  <2>2. CASE subscribers = [n \in {Seed[i] : i \in DOMAIN Seed} |->
                              dbUsers[CHOOSE i \in DOMAIN Seed : Seed[i] = n]]
    BY <2>2 DEF Init, UsersBound, Bound, NewRow
  <2>3. QED
    BY <2>1, <2>2 DEF Init
<1>4. HandsBound
  BY DEF Init, HandsBound, IdleRefresh, EmptyMap, TableBound, NewRequest, InHand
<1>5. QED
  BY <1>1, <1>2, <1>3, <1>4 DEF NamesBound

(***************************************************************************)
(* The calendar window.                                                    *)
(***************************************************************************)

TableWhole(table) == \A i \in DOMAIN table : WindowOf(table[i])

UsersWhole(users) == \A n \in DOMAIN users : WindowOf(users[n])

\* First login and expiry that are set, kept and merged together.
LEMMA StampedWhole ==
  ASSUME NEW row \in Row, NEW t \in Nat
  PROVE  WindowOf(Stamped(row, row.id, t))
<1>1. /\ Stamped(row, row.id, t).id = row.id
      /\ Stamped(row, row.id, t).first = t
      /\ Window[row.id] # Nil => Stamped(row, row.id, t).expires = t + Window[row.id]
  BY DEF Row, Stamped
<1>2. QED
  BY <1>1, NilAssumption DEF WindowOf

LEMMA MergedWhole ==
  ASSUME NEW old \in Row, NEW row \in Row, old.id = row.id, WindowOf(old), WindowOf(row)
  PROVE  WindowOf(Merge(old, row))
<1>1. /\ Merge(old, row).id = row.id
      /\ Merge(old, row).first = IF old.first # Nil THEN old.first ELSE row.first
      /\ Merge(old, row).expires = IF old.expires # Nil THEN old.expires ELSE row.expires
  BY DEF Row, Merge
<1>2. CASE row.id \in Vouchers /\ Window[row.id] # Nil
  <2>1. row.id \in RowIds /\ Window[row.id] \in Nat
    BY <1>2, PolicyAssumption DEF OptTime
  <2>2. old.first # Nil => old.first + Window[row.id] \in Nat
    BY <2>1 DEF Row, OptTime
  <2>3. old.expires = Nil <=> old.first = Nil
    BY <1>2, <2>2, NilAssumption DEF WindowOf
  <2>4. QED
    BY <1>1, <1>2, <2>3 DEF WindowOf
<1>3. QED
  BY <1>1, <1>2 DEF WindowOf

LEMMA LoadedWhole ==
  ASSUME NEW table, NEW cached,
         IsMap(table, RowIds, Row), IsMap(cached, Usernames, Row), NamesUnique,
         TableBound(issued, table), UsersBound(issued, cached),
         TableWhole(table), UsersWhole(cached)
  PROVE  UsersWhole(Loaded(table, cached))
<1> SUFFICES ASSUME NEW n \in Names(table) PROVE WindowOf(Loaded(table, cached)[n])
  BY DEF UsersWhole, Loaded
<1>1. PICK i \in DOMAIN table : RowNamed(table, n) = table[i] /\ table[i].name = n
  BY NamedRow
<1>2. table[i] \in Row /\ Bound(issued, table[i]) /\ WindowOf(table[i])
  BY DEF IsMap, TableBound, TableWhole
<1>3. CASE n \notin DOMAIN cached
  BY <1>1, <1>2, <1>3 DEF Loaded
<1>4. CASE n \in DOMAIN cached
  <2>1. /\ cached[n] \in Row /\ cached[n].name = n /\ Bound(issued, cached[n])
        /\ WindowOf(cached[n])
    BY <1>4 DEF IsMap, UsersBound, UsersWhole
  <2>2. cached[n].id = table[i].id
    BY <1>1, <1>2, <2>1 DEF Bound, NamesUnique
  <2>3. Loaded(table, cached)[n] = Merge(cached[n], table[i])
    BY <1>1, <1>4 DEF Loaded
  <2>4. QED
    BY <1>2, <2>1, <2>2, <2>3, MergedWhole
<1>5. QED
  BY <1>3, <1>4

AllWhole ==
  /\ TableWhole(dbUsers)
  /\ UsersWhole(subscribers)
  /\ \A r \in Refreshers : TableWhole(refresh[r].users)

LEMMA CacheWhole ==
  ASSUME TypeOK, NamesBound, AllWhole, CacheChanges
  PROVE  UsersWhole(subscribers')
<1>1. \A n \in DOMAIN subscribers :
        /\ subscribers[n] \in Row /\ subscribers[n].name = n /\ Bound(issued, subscribers[n])
        /\ WindowOf(subscribers[n])
  BY DEF TypeOK, CacheOK, IsMap, NamesBound, UsersBound, AllWhole, UsersWhole
<1>2. ASSUME NEW n \in DOMAIN subscribers, NEW row, WindowOf(row),
             subscribers' = [subscribers EXCEPT ![n] = row]
      PROVE  UsersWhole(subscribers')
  BY <1>1, <1>2 DEF UsersWhole
<1>3. CASE UNCHANGED subscribers
  BY <1>3 DEF AllWhole
<1>4. CASE DisablesUser
  <2>1. PICK n \in DOMAIN subscribers :
          subscribers' = [subscribers EXCEPT ![n] = [@ EXCEPT !.enabled = FALSE]]
    BY <1>4 DEF DisablesUser
  <2>2. WindowOf([subscribers[n] EXCEPT !.enabled = FALSE])
    BY <1>1 DEF WindowOf, Row
  <2>3. QED
    BY <1>2, <2>1, <2>2
<1>5. ASSUME NEW h \in Requests, StampsUser(h)
      PROVE  UsersWhole(subscribers')
  <2> DEFINE user == auth[h].row
             n == user.name
  <2>1. n \in DOMAIN subscribers
        /\ subscribers' = [subscribers EXCEPT ![n] = Stamped(subscribers[n], user.id, user.first)]
    BY <1>5 DEF StampsUser
  <2>2. user.first \in Nat /\ Bound(issued, user)
    BY <1>5 DEF StampsUser, TypeOK, AuthOK, NamesBound, HandsBound, InHand
  <2>3. user.id = subscribers[n].id
    BY <1>1, <2>1, <2>2 DEF Bound, NamesBound, NamesUnique
  <2> HIDE DEF user, n
  <2>4. WindowOf(Stamped(subscribers[n], user.id, user.first))
    BY <1>1, <2>1, <2>2, <2>3, StampedWhole
  <2>5. QED
    BY <1>2, <2>1, <2>4
<1>6. CASE ChargesUser
  <2>1. PICK n \in DOMAIN subscribers, delta \in Usage :
          subscribers' = [subscribers EXCEPT ![n] = Charge(subscribers[n], delta)]
    BY <1>6 DEF ChargesUser
  <2>2. WindowOf(Charge(subscribers[n], delta))
    BY <1>1 DEF WindowOf, Charge, Row
  <2>3. QED
    BY <1>2, <2>1, <2>2
<1>7. ASSUME NEW r \in Refreshers, Apply(r)
      PROVE  UsersWhole(subscribers')
  BY <1>7, LoadedWhole
     DEF Apply, NamesBound, HandsBound, AllWhole, TypeOK, CacheOK, RefreshOK, RefreshRecord
<1>8. CASE Restart
  <2>1. IsMap(EmptyMap, Usernames, Row) /\ UsersBound(issued, EmptyMap) /\ UsersWhole(EmptyMap)
    BY EmptyIsMap DEF UsersBound, UsersWhole, EmptyMap
  <2>2. UsersWhole(Loaded(dbUsers, EmptyMap))
    BY <2>1, LoadedWhole DEF NamesBound, AllWhole, TypeOK, DbOK
  <2>3. QED
    BY <1>8, <2>1, <2>2 DEF Restart
<1>9. QED
  BY <1>3, <1>4, <1>5, <1>6, <1>7, <1>8 DEF CacheChanges

LEMMA TableStaysWhole ==
  ASSUME TypeOK, NamesBound, AllWhole, TableChanges
  PROVE  TableWhole(dbUsers')
<1>1. \A i \in DOMAIN dbUsers : dbUsers[i] \in Row /\ dbUsers[i].id = i /\ WindowOf(dbUsers[i])
  BY DEF TypeOK, DbOK, IsMap, NamesBound, TableBound, AllWhole, TableWhole
<1>2. CASE UNCHANGED dbUsers
  BY <1>2 DEF AllWhole
<1>3. CASE AltersUser
  BY <1>1, <1>3 DEF AltersUser, TableWhole, WindowOf
<1>4. CASE RecordsLogin
  BY <1>1, <1>4, StampedWhole DEF RecordsLogin, TableWhole
<1>5. ASSUME NEW i \in RowIds, NEW n \in Usernames, Insert(i, n)
      PROVE  TableWhole(dbUsers')
  <2>1. WindowOf(NewRow(i, n))
    BY DEF WindowOf, NewRow
  <2>2. QED
    BY <1>1, <1>5, <2>1 DEF Insert, Put, TableWhole
<1>6. ASSUME NEW i \in RowIds, HandleDeleteSubscriber(i)
      PROVE  TableWhole(dbUsers')
  BY <1>1, <1>6 DEF HandleDeleteSubscriber, Without, TableWhole
<1>7. QED
  BY <1>2, <1>3, <1>4, <1>5, <1>6 DEF TableChanges

LEMMA WholeStep ==
  ASSUME TypeOK, NamesKept, NamesBound, AllWhole, [Next]_vars
  PROVE  AllWhole'
<1>1. CacheChanges /\ TableChanges
  BY CacheStep, TableStep
<1>2. TableWhole(dbUsers') /\ UsersWhole(subscribers')
  BY <1>1, CacheWhole, TableStaysWhole
<1>3. TableWhole(IdleRefresh.users)
  BY DEF TableWhole, IdleRefresh, EmptyMap
<1>4. \A r \in Refreshers : TableWhole(refresh'[r].users)
  BY <1>3, RefreshRows DEF AllWhole
<1>5. QED
  BY <1>2, <1>4 DEF AllWhole, TableWhole, UsersWhole

LEMMA WholeInitially == ASSUME Init PROVE AllWhole
<1>1. \A i, n : WindowOf(NewRow(i, n))
  BY DEF WindowOf, NewRow
<1>2. TableWhole(dbUsers)
  BY <1>1 DEF Init, TableWhole
<1>3. UsersWhole(subscribers)
  <2>1. CASE subscribers = EmptyMap
    BY <2>1 DEF UsersWhole, EmptyMap
  <2>2. CASE subscribers = [n \in {Seed[i] : i \in DOMAIN Seed} |->
                              dbUsers[CHOOSE i \in DOMAIN Seed : Seed[i] = n]]
    BY <1>2, <2>2 DEF Init, UsersWhole, TableWhole
  <2>3. QED
    BY <2>1, <2>2 DEF Init
<1>4. QED
  BY <1>2, <1>3 DEF Init, AllWhole, IdleRefresh, EmptyMap, TableWhole

\* While names stay on their rows: however first logins, refreshes, failed or
\* late statements, edits and restarts overlap, first login and expiry of a
\* calendar voucher are Window apart in the table, in every refresh and in the
\* cache, or both missing (auth.go:49-60, repository.go:214-223).
THEOREM WindowsStayWhole == Spec => []CalendarWindow
<1>1. Init => (NamesKept => NamesBound /\ AllWhole)
  BY NamesInitially, WholeInitially
<1>2. TypeOK /\ (NamesKept => NamesBound /\ AllWhole) /\ [Next]_vars
        => (NamesKept => NamesBound /\ AllWhole)'
  BY NamesStep, WholeStep DEF NamesKept
<1>3. (NamesKept => NamesBound /\ AllWhole) => CalendarWindow
  BY DEF CalendarWindow, AllWhole, TableWhole, UsersWhole
<1>4. QED
  BY <1>1, <1>2, <1>3, TypeCorrect, PTL DEF Spec

(***************************************************************************)
(* A spent voucher is refused.                                             *)
(***************************************************************************)

SpentKnown(i, users) == \E n \in DOMAIN users : users[n].id = i /\ LimitHit(users[n])

\* A user of users is still there in later, with at least its usage.
UsersGrow(users, later) ==
  \A n \in DOMAIN users :
    /\ n \in DOMAIN later
    /\ later[n].id = users[n].id
    /\ \A d \in Dims : later[n].used[d] >= users[n].used[d]

LateRefused(a) ==
  a.late => /\ a.pc \in {"stamp", "limits", "reject", "lost"}
            /\ a.pc \in {"stamp", "limits"} => LimitHit(a.row)

\* A refresh that will be applied has every row, a row whose limit was seen
\* reached is in the cache with its limit reached, and a request that came
\* after that has the limit still to check on a copy that shows it reached.
SpentInv ==
  /\ DOMAIN dbUsers = DOMAIN issued
  /\ \A r \in Refreshers :
       refresh[r].pc # "idle" => DOMAIN refresh[r].users = DOMAIN issued
  /\ \A i \in spent : SpentKnown(i, subscribers)
  /\ \A h \in Requests : LateRefused(auth[h])

LEMMA LimitHitGrows ==
  ASSUME NEW old \in Row, NEW row \in Row, row.id = old.id,
         \A d \in Dims : row.used[d] >= old.used[d], LimitHit(old)
  PROVE  LimitHit(row)
<1>1. PICK d \in Dims : Limit[old.id][d] > 0 /\ old.used[d] >= Limit[old.id][d]
  BY DEF LimitHit
<1>2. old.id \in RowIds /\ old.used \in Usage /\ row.used \in Usage
  BY DEF Row
<1>3. Limit[old.id][d] \in Nat /\ old.used[d] \in Nat /\ row.used[d] \in Nat
  BY <1>2, PolicyAssumption DEF Usage
<1>4. row.used[d] >= Limit[row.id][d]
  BY <1>1, <1>3
<1>5. QED
  BY <1>1, <1>4 DEF LimitHit, IsVoucher

LEMMA SpentStays ==
  ASSUME NEW users, NEW later, IsMap(users, Usernames, Row), IsMap(later, Usernames, Row),
         UsersGrow(users, later), NEW i, SpentKnown(i, users)
  PROVE  SpentKnown(i, later)
<1>1. PICK n \in DOMAIN users : users[n].id = i /\ LimitHit(users[n])
  BY DEF SpentKnown
<1>2. n \in DOMAIN later /\ users[n] \in Row /\ later[n] \in Row /\ later[n].id = users[n].id
  BY DEF UsersGrow, IsMap
<1>3. LimitHit(later[n])
  BY <1>1, <1>2, LimitHitGrows DEF UsersGrow
<1>4. QED
  BY <1>1, <1>2, <1>3 DEF SpentKnown

LEMMA OneUserGrows ==
  ASSUME IsMap(subscribers, Usernames, Row), NEW n \in DOMAIN subscribers, NEW row,
         subscribers' = [subscribers EXCEPT ![n] = row],
         row.id = subscribers[n].id,
         \A d \in Dims : row.used[d] >= subscribers[n].used[d]
  PROVE  UsersGrow(subscribers, subscribers')
<1>1. \A m \in DOMAIN subscribers, d \in Dims : subscribers[m].used[d] \in Nat
  BY DEF IsMap, Row, Usage
<1>2. QED
  BY <1>1 DEF UsersGrow

\* A refresh that has every row keeps every cached user and its usage.
LEMMA LoadedGrows ==
  ASSUME NEW table, NEW cached,
         IsMap(table, RowIds, Row), IsMap(cached, Usernames, Row), NamesUnique,
         TableBound(issued, table), UsersBound(issued, cached),
         DOMAIN table = DOMAIN issued
  PROVE  UsersGrow(cached, Loaded(table, cached))
<1> SUFFICES ASSUME NEW n \in DOMAIN cached
             PROVE  /\ n \in DOMAIN Loaded(table, cached)
                    /\ Loaded(table, cached)[n].id = cached[n].id
                    /\ \A d \in Dims : Loaded(table, cached)[n].used[d] >= cached[n].used[d]
  BY DEF UsersGrow
<1>1. cached[n] \in Row /\ cached[n].name = n /\ Bound(issued, cached[n])
  BY DEF IsMap, UsersBound
<1>2. n \in Names(table)
  BY <1>1 DEF Names, TableBound, Bound
<1>3. PICK i \in DOMAIN table : RowNamed(table, n) = table[i] /\ table[i].name = n
  BY <1>2, NamedRow
<1>4. table[i] \in Row /\ Bound(issued, table[i])
  BY DEF IsMap, TableBound
<1>5. table[i].id = cached[n].id
  BY <1>1, <1>3, <1>4 DEF Bound, NamesUnique
<1>6. Loaded(table, cached)[n] = Merge(cached[n], table[i])
  BY <1>2, <1>3 DEF Loaded
<1>7. /\ Merge(cached[n], table[i]).id = table[i].id
      /\ Merge(cached[n], table[i]).used = AtLeast(table[i].used, cached[n].used)
  BY <1>4 DEF Row, Merge
<1>8. \A d \in Dims : table[i].used[d] \in Nat /\ cached[n].used[d] \in Nat
  BY <1>1, <1>4 DEF Row, Usage
<1>9. \A d \in Dims : AtLeast(table[i].used, cached[n].used)[d] >= cached[n].used[d]
  BY <1>8 DEF AtLeast
<1>10. QED
  BY <1>2, <1>5, <1>6, <1>7, <1>9 DEF Loaded

LEMMA SpentStep ==
  ASSUME TypeOK, TypeOK', NamesBound, SpentInv, CacheChanges
  PROVE  \A i \in spent' : SpentKnown(i, subscribers')
<1>1. IsMap(subscribers, Usernames, Row) /\ IsMap(subscribers', Usernames, Row)
  BY DEF TypeOK, CacheOK
<1>2. ASSUME UsersGrow(subscribers, subscribers'), NEW i \in spent
      PROVE  SpentKnown(i, subscribers')
  BY <1>1, <1>2, SpentStays DEF SpentInv
<1>3. \A n \in DOMAIN subscribers :
        subscribers[n] \in Row /\ \A d \in Dims : subscribers[n].used[d] \in Nat
  BY <1>1 DEF IsMap, Row, Usage
<1>4. CASE UNCHANGED <<subscribers, spent>>
  BY <1>4 DEF SpentInv
<1>5. CASE DisablesUser /\ UNCHANGED spent
  <2>1. PICK n \in DOMAIN subscribers :
          subscribers' = [subscribers EXCEPT ![n] = [@ EXCEPT !.enabled = FALSE]]
    BY <1>5 DEF DisablesUser
  <2> DEFINE row == [subscribers[n] EXCEPT !.enabled = FALSE]
  <2>2. row.id = subscribers[n].id /\ row.used = subscribers[n].used
    BY <1>3 DEF Row
  <2>3. subscribers' = [subscribers EXCEPT ![n] = row]
    BY <2>1
  <2> HIDE DEF row
  <2>4. \A d \in Dims : row.used[d] >= subscribers[n].used[d]
    BY <1>3, <2>2
  <2>5. UsersGrow(subscribers, subscribers')
    BY <1>1, <2>2, <2>3, <2>4, OneUserGrows
  <2>6. QED
    BY <1>2, <1>5, <2>5
<1>6. CASE (\E h \in Requests : StampsUser(h)) /\ UNCHANGED spent
  <2>1. PICK n \in DOMAIN subscribers :
          \E i, t : subscribers' = [subscribers EXCEPT ![n] = Stamped(subscribers[n], i, t)]
    BY <1>6 DEF StampsUser
  <2>2. PICK i, t : subscribers' = [subscribers EXCEPT ![n] = Stamped(subscribers[n], i, t)]
    BY <2>1
  <2> DEFINE row == Stamped(subscribers[n], i, t)
  <2>3. row.id = subscribers[n].id /\ row.used = subscribers[n].used
    BY <1>3 DEF Row, Stamped
  <2>4. subscribers' = [subscribers EXCEPT ![n] = row]
    BY <2>2
  <2> HIDE DEF row
  <2>5. \A d \in Dims : row.used[d] >= subscribers[n].used[d]
    BY <1>3, <2>3
  <2>6. UsersGrow(subscribers, subscribers')
    BY <1>1, <2>3, <2>4, <2>5, OneUserGrows
  <2>7. QED
    BY <1>2, <1>6, <2>6
<1>7. CASE ChargesUser
  <2>1. PICK n \in DOMAIN subscribers, delta \in Usage :
          /\ subscribers' = [subscribers EXCEPT ![n] = Charge(subscribers[n], delta)]
          /\ \/ spent' = spent
             \/ /\ LimitHit(Charge(subscribers[n], delta))
                /\ spent' = spent \cup {Charge(subscribers[n], delta).id}
    BY <1>7 DEF ChargesUser
  <2> DEFINE row == Charge(subscribers[n], delta)
  <2>2. row.id = subscribers[n].id /\ row.used = Plus(subscribers[n].used, delta)
    BY <1>3 DEF Row, Charge
  <2>3. \A d \in Dims : row.used[d] >= subscribers[n].used[d]
    BY <1>3, <2>2 DEF Plus, Usage
  <2>4. /\ subscribers' = [subscribers EXCEPT ![n] = row]
        /\ spent' = spent \/ (LimitHit(row) /\ spent' = spent \cup {row.id})
    BY <2>1
  <2> HIDE DEF row
  <2>5. UsersGrow(subscribers, subscribers')
    BY <1>1, <2>2, <2>3, <2>4, OneUserGrows
  <2>6. LimitHit(row) => SpentKnown(row.id, subscribers')
    BY <2>4 DEF SpentKnown
  <2>7. QED
    BY <1>2, <2>4, <2>5, <2>6
<1>8. ASSUME NEW r \in Refreshers, Apply(r)
      PROVE  \A i \in spent' : SpentKnown(i, subscribers')
  <2>1. /\ subscribers' = Loaded(refresh[r].users, subscribers)
        /\ refresh[r].pc = "apply" /\ spent' = spent
    BY <1>8 DEF Apply
  <2>2. IsMap(refresh[r].users, RowIds, Row)
    BY DEF TypeOK, RefreshOK, RefreshRecord
  <2>3. DOMAIN refresh[r].users = DOMAIN issued
    BY <2>1 DEF SpentInv
  <2>4. UsersGrow(subscribers, subscribers')
    BY <1>1, <2>1, <2>2, <2>3, LoadedGrows DEF NamesBound, HandsBound
  <2>5. QED
    BY <1>2, <2>1, <2>4
<1>9. CASE Restart
  BY <1>9 DEF Restart
<1>10. QED
  BY <1>4, <1>5, <1>6, <1>7, <1>8, <1>9 DEF CacheChanges

LEMMA LateStep ==
  ASSUME TypeOK, NamesBound, SpentInv, [Next]_vars
  PROVE  \A h \in Requests : LateRefused(auth'[h])
<1>1. \A h \in Requests : auth[h] \in AuthState /\ LateRefused(auth[h])
  BY DEF TypeOK, AuthOK, SpentInv
<1>2. CASE UNCHANGED auth
  BY <1>1, <1>2
<1>3. ASSUME NEW h \in Requests, NEW a, auth' = [auth EXCEPT ![h] = a], LateRefused(a)
      PROVE  \A g \in Requests : LateRefused(auth'[g])
  BY <1>1, <1>3 DEF TypeOK, AuthOK
<1>4. ASSUME NEW h \in Requests, HandleAuth(h)
      PROVE  \A g \in Requests : LateRefused(auth'[g])
  <2>1. ASSUME NEW host, NEW n, NEW ok, RejectCredentials(h, host, n, ok)
        PROVE  \E a : auth' = [auth EXCEPT ![h] = a] /\ LateRefused(a)
    <3> DEFINE a == [auth[h] EXCEPT !.pc = "reject"]
    <3>1. LateRefused(a)
      BY <1>1 DEF LateRefused, AuthState
    <3>2. auth' = [auth EXCEPT ![h] = a]
      BY <2>1 DEF RejectCredentials
    <3>3. QED
      BY <3>1, <3>2
  <2>2. ASSUME NEW host, NEW n, Admit(h, host, n)
        PROVE  \E a : auth' = [auth EXCEPT ![h] = a] /\ LateRefused(a)
    <3>1. PICK a \in AuthState :
            /\ auth' = [auth EXCEPT ![h] = a]
            /\ a.pc \in InHand
            /\ a.pc = "count" => ~IsVoucher(subscribers[n])
            /\ a.row.id = subscribers[n].id
            /\ a.row.used = subscribers[n].used
            /\ a.late = (subscribers[n].id \in spent)
      BY <2>2, AdmittedRow
    <3>2. n \in DOMAIN subscribers
      BY <2>2 DEF Admit
    <3>3. ASSUME a.late PROVE LimitHit(subscribers[n])
      <4>1. PICK m \in DOMAIN subscribers :
              subscribers[m].id = subscribers[n].id /\ LimitHit(subscribers[m])
        BY <3>1, <3>3 DEF SpentInv, SpentKnown
      <4>2. m = n
        BY <3>2, <4>1 DEF NamesBound, UsersBound, Bound
      <4>3. QED
        BY <4>1, <4>2
    <3>4. LimitHit(subscribers[n]) => IsVoucher(subscribers[n]) /\ LimitHit(a.row)
      BY <3>1 DEF LimitHit, IsVoucher
    <3>5. LateRefused(a)
      BY <3>1, <3>3, <3>4 DEF LateRefused, InHand
    <3>6. QED
      BY <3>1, <3>5
  <2>3. CASE \/ StampFirstLogin(h) \/ RejectVoucher(h) \/ PassLimits(h)
             \/ RejectLast(h) \/ Accept(h)
    <3>1. PICK a \in AuthState :
            /\ auth' = [auth EXCEPT ![h] = a]
            /\ a.row = auth[h].row /\ a.late = auth[h].late
            /\ \/ auth[h].pc = "stamp" /\ a.pc = "limits"
               \/ auth[h].pc = "limits" /\ a.pc = "count" /\ ~LimitHit(auth[h].row)
               \/ a.pc = "reject"
               \/ auth[h].pc = "count" /\ a.pc = "accept"
      BY <2>3, MovedRow
    <3>2. LateRefused(a)
      BY <1>1, <3>1 DEF LateRefused
    <3>3. QED
      BY <1>3, <3>1, <3>2
  <2>4. QED
    BY <1>3, <1>4, <2>1, <2>2, <2>3 DEF HandleAuth
<1>5. CASE Restart
  <2>1. ASSUME NEW h \in Requests PROVE LateRefused(auth'[h])
    <3>1. [auth[h] EXCEPT !.pc = "lost"].pc = "lost"
      BY <1>1 DEF AuthState
    <3>2. QED
      BY <1>1, <1>5, <3>1 DEF Restart, LateRefused
  <2>2. QED
    BY <2>1
<1>6. QED
  BY <1>2, <1>4, <1>5, RequestStep

LEMMA SpentInvStep ==
  ASSUME TypeOK, TypeOK', Stable, NamesBound, SpentInv, [Next]_vars
  PROVE  SpentInv'
<1>1. CacheChanges /\ TableChanges
  BY CacheStep, TableStep DEF Stable
<1>2. DOMAIN dbUsers' = DOMAIN dbUsers /\ issued' = issued
  BY <1>1 DEF TableChanges, AltersUser, RecordsLogin
<1>3. \A r \in Refreshers :
        refresh'[r].pc # "idle" => DOMAIN refresh'[r].users = DOMAIN issued
  BY RefreshRows DEF SpentInv, IdleRefresh
<1>4. (\A i \in spent' : SpentKnown(i, subscribers')) /\ \A h \in Requests : LateRefused(auth'[h])
  BY <1>1, SpentStep, LateStep
<1>5. QED
  BY <1>2, <1>3, <1>4 DEF SpentInv, SpentKnown, LateRefused

LEMMA SpentInitially == ASSUME Init PROVE SpentInv
BY DEF Init, SpentInv, IdleRefresh, NewRequest, LateRefused

\* While the set of rows and their names stay: a request that comes after
\* accounting has seen the limit of its voucher reached is not accepted, for
\* any number of requests, refreshes, editors and failed statements
\* (auth.go:72-87, accounting.go:150-164, service.go:215-233).
THEOREM SpentAreRefused == Spec => []SpentRefused
<1> DEFINE Held == /\ NamesKept => NamesBound
                   /\ Stable => SpentInv
<1>1. Init => Held
  BY NamesInitially, SpentInitially
<1>2. TypeOK /\ TypeOK' /\ Held /\ [Next]_vars => Held'
  BY NamesStep, SpentInvStep DEF NamesKept, Stable
<1>3. Held => SpentRefused
  BY DEF SpentRefused, SpentInv, LateRefused
<1> HIDE DEF Held
<1>4. QED
  BY <1>1, <1>2, <1>3, TypeCorrect, PTL DEF Spec

(***************************************************************************)
(* Every request is answered once.                                         *)
(***************************************************************************)

InFlight == {h \in Requests : auth[h].pc \in InHand}

AnsweredInv == IsFiniteSet(InFlight) /\ AnsweredOnce

LEMMA InFlightStep ==
  ASSUME TypeOK, NEW h \in Requests, NEW a, auth' = [auth EXCEPT ![h] = a]
  PROVE  InFlight' = IF a.pc \in InHand THEN InFlight \cup {h} ELSE InFlight \ {h}
BY DEF TypeOK, AuthOK, InFlight

LEMMA AnsweredStep ==
  ASSUME TypeOK, AnsweredInv, [Next]_vars
  PROVE  AnsweredInv'
<1>1. /\ stats \in [req: Nat, acc: Nat, rej: Nat]
      /\ IsFiniteSet(InFlight) /\ Cardinality(InFlight) \in Nat
      /\ stats.req = stats.acc + stats.rej + Cardinality(InFlight)
  BY FS_CardinalityType DEF TypeOK, AuthOK, AnsweredInv, AnsweredOnce, InFlight, InHand
<1>2. ASSUME IsFiniteSet(InFlight'),
             stats'.req = stats'.acc + stats'.rej + Cardinality(InFlight')
      PROVE  AnsweredInv'
  BY <1>2 DEF AnsweredInv, AnsweredOnce, InFlight, InHand
<1>3. ASSUME NEW h \in Requests, HandleAuth(h)
      PROVE  AnsweredInv'
  <2>1. ASSUME NEW host, NEW n, NEW ok, RejectCredentials(h, host, n, ok)
        PROVE  AnsweredInv'
    <3> DEFINE a == [auth[h] EXCEPT !.pc = "reject"]
    <3>1. a.pc = "reject" /\ auth' = [auth EXCEPT ![h] = a]
      BY <2>1 DEF RejectCredentials, TypeOK, AuthOK, AuthState
    <3> HIDE DEF a
    <3>2. InFlight' = InFlight
      BY <2>1, <3>1, InFlightStep DEF RejectCredentials, InFlight, InHand
    <3>3. stats' = [stats EXCEPT !.req = @ + 1, !.rej = @ + 1]
      BY <2>1 DEF RejectCredentials
    <3>4. QED
      BY <1>1, <1>2, <3>2, <3>3
  <2>2. ASSUME NEW host, NEW n, Admit(h, host, n)
        PROVE  AnsweredInv'
    <3>1. PICK a \in AuthState : auth' = [auth EXCEPT ![h] = a] /\ a.pc \in InHand
      BY <2>2, AdmittedRow
    <3>2. InFlight' = InFlight \cup {h} /\ h \notin InFlight
      BY <2>2, <3>1, InFlightStep DEF Admit, InFlight, InHand
    <3>3. IsFiniteSet(InFlight') /\ Cardinality(InFlight') = Cardinality(InFlight) + 1
      BY <1>1, <3>2, FS_AddElement
    <3>4. stats' = [stats EXCEPT !.req = @ + 1]
      BY <2>2 DEF Admit
    <3>5. QED
      BY <1>1, <1>2, <3>3, <3>4
  <2>3. ASSUME NEW pc \in {"limits", "count"}, auth[h].pc \in InHand, Move(h, pc)
        PROVE  AnsweredInv'
    <3> DEFINE a == [auth[h] EXCEPT !.pc = pc]
    <3>1. a.pc = pc /\ auth' = [auth EXCEPT ![h] = a]
      BY <2>3 DEF Move, TypeOK, AuthOK, AuthState
    <3> HIDE DEF a
    <3>2. InFlight' = InFlight /\ stats' = stats
      BY <2>3, <3>1, InFlightStep DEF Move, InFlight, InHand
    <3>3. QED
      BY <1>1, <1>2, <3>2
  <2>4. ASSUME NEW code \in {"accept", "reject"}, NEW t, auth[h].pc \in InHand,
               Answer(h, code, t)
        PROVE  AnsweredInv'
    <3> DEFINE a == [auth[h] EXCEPT !.pc = code, !.timeout = t]
    <3>1. a.pc = code /\ auth' = [auth EXCEPT ![h] = a]
      BY <2>4 DEF Answer, TypeOK, AuthOK, AuthState
    <3> HIDE DEF a
    <3>2. InFlight' = InFlight \ {h} /\ h \in InFlight
      BY <2>4, <3>1, InFlightStep DEF InFlight, InHand
    <3>3. IsFiniteSet(InFlight') /\ Cardinality(InFlight') = Cardinality(InFlight) - 1
      BY <1>1, <3>2, FS_RemoveElement
    <3>4. \/ stats' = [stats EXCEPT !.acc = @ + 1]
          \/ stats' = [stats EXCEPT !.rej = @ + 1]
      BY <2>4 DEF Answer
    <3>5. QED
      BY <1>1, <1>2, <3>3, <3>4
  <2>5. CASE StampFirstLogin(h) \/ PassLimits(h)
    BY <2>3, <2>5 DEF StampFirstLogin, PassLimits, InHand
  <2>6. CASE RejectVoucher(h) \/ RejectLast(h) \/ Accept(h)
    BY <2>4, <2>6 DEF RejectVoucher, RejectLast, Accept, InHand
  <2>7. QED
    BY <1>3, <2>1, <2>2, <2>5, <2>6 DEF HandleAuth
<1>4. CASE Restart
  <2>1. ASSUME NEW h \in Requests PROVE auth'[h].pc \notin InHand
    <3>1. [auth[h] EXCEPT !.pc = "lost"].pc = "lost"
      BY DEF TypeOK, AuthOK, AuthState
    <3>2. QED
      BY <1>4, <3>1 DEF Restart, InHand
  <2>2. InFlight' = {}
    BY <2>1 DEF InFlight
  <2>3. stats' = [req |-> 0, acc |-> 0, rej |-> 0]
    BY <1>4 DEF Restart
  <2>4. QED
    BY <1>2, <2>2, <2>3, FS_EmptySet
<1>5. CASE UNCHANGED <<auth, stats>>
  <2>1. InFlight' = InFlight /\ stats' = stats
    BY <1>5 DEF InFlight
  <2>2. QED
    BY <1>1, <1>2, <2>1
<1>6. QED
  BY <1>3, <1>4, <1>5, RequestStep

\* For any number of concurrent requests: every one counted is counted again
\* as accepted or rejected when its handler is done, once, whichever steps it
\* took on the way, and a restart starts the three counters over together
\* (auth.go:24, 209, 214).
THEOREM RequestsAnsweredOnce == Spec => []AnsweredOnce
<1>1. Init => AnsweredInv
  <2> SUFFICES ASSUME Init PROVE AnsweredInv
    OBVIOUS
  <2>1. InFlight = {}
    BY DEF Init, InFlight, NewRequest, InHand
  <2>2. IsFiniteSet(InFlight) /\ Cardinality(InFlight) = 0
    BY <2>1, FS_EmptySet
  <2>3. stats.req = 0 /\ stats.acc = 0 /\ stats.rej = 0
    BY DEF Init
  <2>4. stats.req = stats.acc + stats.rej + Cardinality(InFlight)
    BY <2>2, <2>3
  <2>5. QED
    BY <2>2, <2>4 DEF AnsweredInv, AnsweredOnce, InFlight, InHand
<1>2. TypeOK /\ AnsweredInv /\ [Next]_vars => AnsweredInv'
  BY AnsweredStep
<1>3. AnsweredInv => AnsweredOnce
  BY DEF AnsweredInv
<1>4. QED
  BY <1>1, <1>2, <1>3, TypeCorrect, PTL DEF Spec

=============================================================================
