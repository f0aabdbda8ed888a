-------------------------------- MODULE Admin -------------------------------
(***************************************************************************)
(* The HTTP handlers that change radius_users and radius_nas               *)
(* (subscriber_handlers.go, handlers.go, voucher_service.go).  Each ends   *)
(* by starting refreshFromDB, which module Refresh allows at any time.  A  *)
(* constant names the operations a run uses.                               *)
(***************************************************************************)
EXTENDS ServerState

Operations == {"create", "generate", "custom", "edit", "rename", "delete",
               "nas", "disconnect"}

ASSUME AdminAssumption == Admin \subseteq Operations

UsedNames == {dbUsers[i].name : i \in DOMAIN dbUsers}

Insert(i, n) ==
  /\ i \in RowIds \ DOMAIN issued
  /\ n \notin UsedNames
  /\ dbUsers' = Put(dbUsers, i, NewRow(i, n))
  /\ issued' = Put(issued, i, n)
  /\ UNCHANGED <<now, dbSessions, dbNas, cache, sessionTable, handlers, refresh,
                 adminVars, writes, jobs, spent, faults>>

\* HandleCreateSubscriber: any username that no row has now.
HandleCreateSubscriber(i, n) ==
  /\ "create" \in Admin
  /\ i \notin Vouchers
  /\ Insert(i, n)

\* generateOneVoucher: a random code, taken never to repeat, or a custom
\* code, which may be that of a row deleted before.
GenerateOneVoucher(i, n) ==
  /\ "generate" \in Admin
  /\ i \in Vouchers
  /\ "custom" \in Admin \/ \A j \in DOMAIN issued : issued[j] # n
  /\ Insert(i, n)

\* HandleDeleteSubscriber
HandleDeleteSubscriber(i) ==
  /\ "delete" \in Admin
  /\ i \in DOMAIN dbUsers
  /\ dbUsers' = Without(dbUsers, i)
  /\ UNCHANGED <<now, issued, dbSessions, dbNas, cache, sessionTable, handlers,
                 refresh, adminVars, writes, jobs, spent, faults>>

\* HandleUpdateSubscriber reads the row ...
EditRead(e, i) ==
  /\ "edit" \in Admin
  /\ edit[e] = Nil
  /\ i \in DOMAIN dbUsers
  /\ edit' = [edit EXCEPT ![e] = dbUsers[i]]
  /\ UNCHANGED <<now, db, cache, sessionTable, handlers, refresh, recon,
                 writes, jobs, spent, faults>>

\* The row after UpdateUser: the columns of the row that was read, usage
\* counters included, with the requested changes; first_login_at and
\* expires_at are not among the columns written.
Overwritten(row, old, n, enabled, sim) ==
  [row EXCEPT !.name = n, !.enabled = enabled, !.sim = sim, !.used = old.used]

\* ... and writes it back, if it is still there and the name is free.  The
\* statement may also fail; the read is not repeated.
EditWrite(e, n, enabled) ==
  /\ edit[e] # Nil
  /\ LET old == edit[e]
     IN  /\ n = old.name \/ "rename" \in Admin
         /\ \/ /\ old.id \in DOMAIN dbUsers
               /\ \A j \in DOMAIN dbUsers : dbUsers[j].name = n => j = old.id
               /\ \E sim \in SimUses \cup {old.sim} :
                    dbUsers' = [dbUsers EXCEPT ![old.id] =
                                  Overwritten(@, old, n, enabled, sim)]
            \/ UNCHANGED dbUsers
  /\ edit' = [edit EXCEPT ![e] = Nil]
  /\ UNCHANGED <<now, issued, dbSessions, dbNas, cache, sessionTable, handlers,
                 refresh, recon, writes, jobs, spent, faults>>

-----------------------------------------------------------------------------

\* HandleCreateNAS; the address is not unique in the table.
HandleCreateNAS(k, host) ==
  /\ "nas" \in Admin
  /\ k \notin DOMAIN dbNas
  /\ dbNas' = Put(dbNas, k, [host |-> host, enabled |-> TRUE])
  /\ UNCHANGED <<now, dbUsers, issued, dbSessions, cache, sessionTable, handlers,
                 refresh, adminVars, writes, jobs, spent, faults>>

\* HandleDeleteNAS
HandleDeleteNAS(k) ==
  /\ "nas" \in Admin
  /\ k \in DOMAIN dbNas
  /\ dbNas' = Without(dbNas, k)
  /\ UNCHANGED <<now, dbUsers, issued, dbSessions, cache, sessionTable, handlers,
                 refresh, adminVars, writes, jobs, spent, faults>>

\* HandleUpdateNAS.  It reads the row and writes it back with the requested
\* changes; the request may set every column, so the write may store any
\* value and the earlier read restricts nothing.
HandleUpdateNAS(k, host, enabled) ==
  /\ "nas" \in Admin
  /\ k \in DOMAIN dbNas
  /\ dbNas' = [dbNas EXCEPT ![k] = [host |-> host, enabled |-> enabled]]
  /\ UNCHANGED <<now, dbUsers, issued, dbSessions, cache, sessionTable, handlers,
                 refresh, adminVars, writes, jobs, spent, faults>>

Administer ==
  \/ \E i \in RowIds, n \in Usernames :
       \/ HandleCreateSubscriber(i, n)
       \/ GenerateOneVoucher(i, n)
  \/ \E i \in RowIds : HandleDeleteSubscriber(i)
  \/ \E e \in Editors, i \in RowIds : EditRead(e, i)
  \/ \E e \in Editors, n \in Usernames, enabled \in BOOLEAN : EditWrite(e, n, enabled)
  \/ \E k \in NasIds, host \in Hosts : HandleCreateNAS(k, host)
  \/ \E k \in NasIds : HandleDeleteNAS(k)
  \/ \E k \in NasIds, host \in Hosts, enabled \in BOOLEAN :
       HandleUpdateNAS(k, host, enabled)

=============================================================================
