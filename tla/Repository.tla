----------------------------- MODULE Repository -----------------------------
(***************************************************************************)
(* The statements background goroutines execute (repository.go), in        *)
(* whatever order the scheduler and the connection pool run them.  Their   *)
(* errors are ignored and they are not retried.                            *)
(***************************************************************************)
EXTENDS ServerState

Done(w) == writes' = writes (-) SetToBag({w})

\* UPDATE radius_users ... WHERE id = i: no row, no effect.
UpdateRow(i, row) ==
  dbUsers' = IF i \in DOMAIN dbUsers THEN [dbUsers EXCEPT ![i] = row] ELSE dbUsers

\* first_login_at and, for a calendar voucher, expires_at, from the time at
\* which the statement runs.
RecordFirstLogin(w) ==
  /\ w.op = "firstLogin"
  /\ UpdateRow(w.id,
       [dbUsers[w.id] EXCEPT !.first = now,
                             !.expires = IF Window[w.id] = Nil THEN @
                                         ELSE now + Window[w.id]])
  /\ UNCHANGED dbSessions

\* Mutant: the delta replaces the counters instead of being added.
AddUsageDeltaOverwrites(w) ==
  /\ w.op = "addUsage"
  /\ UpdateRow(w.id, [dbUsers[w.id] EXCEPT !.used = w.delta])
  /\ UNCHANGED dbSessions

AddUsageDelta(w) ==
  /\ w.op = "addUsage"
  /\ UpdateRow(w.id, [dbUsers[w.id] EXCEPT !.used = Plus(@, w.delta)])
  /\ UNCHANGED dbSessions

DisableUser(w) ==
  /\ w.op = "disable"
  /\ UpdateRow(w.id, [dbUsers[w.id] EXCEPT !.enabled = FALSE])
  /\ UNCHANGED dbSessions

UpsertSession(w) ==
  /\ w.op = "upsert"
  /\ dbSessions' = Put(dbSessions, w.sid, w.session)
  /\ UNCHANGED dbUsers

ExecuteWrite(w) ==
  /\ BagIn(w, writes)
  /\ \/ RecordFirstLogin(w)
     \/ AddUsageDelta(w)
     \/ DisableUser(w)
     \/ UpsertSession(w)
  /\ Done(w)
  /\ UNCHANGED <<now, issued, dbNas, cache, sessionTable, handlers, refresh,
                 adminVars, jobs, spent, faults>>

FailWrite(w) ==
  /\ BagIn(w, writes)
  /\ lost < MaxLost
  /\ lost' = lost + 1
  /\ Done(w)
  /\ UNCHANGED <<now, db, cache, sessionTable, handlers, refresh, adminVars,
                 jobs, spent, boots>>

=============================================================================
