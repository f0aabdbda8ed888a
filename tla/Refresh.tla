------------------------------- MODULE Refresh ------------------------------
(***************************************************************************)
(* refreshFromDB (service.go): the tables are read one query after the     *)
(* other without the lock, then merged into the maps under it.  The        *)
(* ticker, every administrative handler and NewService run it, so several  *)
(* executions may overlap.                                                 *)
(***************************************************************************)
EXTENDS ServerState

ReadUsers(r) ==
  /\ refresh[r].pc = "idle"
  /\ refresh' = [refresh EXCEPT ![r] = [pc |-> "nas", users |-> dbUsers, hosts |-> {}]]
  /\ UNCHANGED <<now, db, cache, sessionTable, handlers, adminVars,
                 writes, jobs, spent, faults>>

ReadNas(r) ==
  /\ refresh[r].pc = "nas"
  /\ refresh' = [refresh EXCEPT ![r] = [pc |-> "apply", users |-> refresh[r].users,
                                        hosts |-> EnabledHosts(dbNas)]]
  /\ UNCHANGED <<now, db, cache, sessionTable, handlers, adminVars,
                 writes, jobs, spent, faults>>

\* A query fails or the ten-second context expires: nothing is changed.
RefreshError(r) ==
  /\ refresh[r].pc # "idle"
  /\ refresh' = [refresh EXCEPT ![r] = IdleRefresh]
  /\ UNCHANGED <<now, db, cache, sessionTable, handlers, adminVars,
                 writes, jobs, spent, faults>>

\* Mutant: the database wins, losing what is still on its way to it.
MergeDatabaseWins(existing, row) == row

\* Mutant: the expiry is not preserved with the first login.
MergeKeepsFirstOnly(existing, row) ==
  [row EXCEPT !.used = AtLeast(row.used, existing.used),
              !.enabled = row.enabled /\ existing.enabled,
              !.first = IF existing.first # Nil THEN existing.first ELSE @]

\* Mutant: the enabled flag of the row is taken over.
MergeRowEnabled(existing, row) ==
  [row EXCEPT !.used = AtLeast(row.used, existing.used),
              !.first = IF existing.first # Nil THEN existing.first ELSE @,
              !.expires = IF existing.expires # Nil THEN existing.expires ELSE @]

\* Mutant: the cached flag is kept whatever the row says.
MergeKeepsEnabled(existing, row) ==
  [row EXCEPT !.used = AtLeast(row.used, existing.used),
              !.enabled = existing.enabled,
              !.first = IF existing.first # Nil THEN existing.first ELSE @,
              !.expires = IF existing.expires # Nil THEN existing.expires ELSE @]

\* What is kept of the cached user when its row is loaded again.
Merge(existing, row) ==
  [row EXCEPT !.used = AtLeast(row.used, existing.used),
              !.enabled = row.enabled /\ existing.enabled,
              !.first = IF existing.first # Nil THEN existing.first ELSE @,
              !.expires = IF existing.expires # Nil THEN existing.expires ELSE @]

Names(table) == {table[i].name : i \in DOMAIN table}

RowNamed(table, n) == table[CHOOSE i \in DOMAIN table : table[i].name = n]

\* Mutant: users that are gone from the table are kept.
LoadedKeepsMissing(table, cached) ==
  [n \in Names(table) \cup DOMAIN cached |->
     IF n \notin Names(table) THEN cached[n]
     ELSE IF n \in DOMAIN cached THEN Merge(cached[n], RowNamed(table, n))
     ELSE RowNamed(table, n)]

\* The map that replaces subscribers when the rows in table are loaded.
Loaded(table, cached) ==
  [n \in Names(table) |->
     IF n \in DOMAIN cached THEN Merge(cached[n], RowNamed(table, n))
                            ELSE RowNamed(table, n)]

Apply(r) ==
  /\ refresh[r].pc = "apply"
  /\ subscribers' = Loaded(refresh[r].users, subscribers)
  /\ nases' = refresh[r].hosts
  /\ refresh' = [refresh EXCEPT ![r] = IdleRefresh]
  /\ UNCHANGED <<now, db, sessionTable, handlers, adminVars,
                 writes, jobs, spent, faults>>

RefreshFromDB(r) == ReadUsers(r) \/ ReadNas(r) \/ Apply(r)

\* The process stops, at any point, and is started again: goroutines and
\* maps are gone.  NewService loads users and NASes, or logs the error and
\* goes on without them; it does not load sessions.
Restart ==
  /\ boots < MaxRestarts
  /\ \/ subscribers' = Loaded(dbUsers, EmptyMap) /\ nases' = EnabledHosts(dbNas)
     \/ subscribers' = EmptyMap /\ nases' = {}
  /\ sessions' = EmptyMap
  /\ auth' = [h \in Requests |-> IF auth[h].pc \in {"stamp", "limits", "count"}
                                   THEN [auth[h] EXCEPT !.pc = "lost"]
                                   ELSE auth[h]]
  /\ stats' = [req |-> 0, acc |-> 0, rej |-> 0]
  /\ refresh' = [r \in Refreshers |-> IdleRefresh]
  /\ edit' = [e \in Editors |-> Nil]
  /\ recon' = [c \in Reconcilers |-> Nil]
  /\ writes' = EmptyBag
  /\ jobs' = EmptyBag
  /\ spent' = {}
  /\ boots' = boots + 1
  /\ UNCHANGED <<now, db, minted, lost>>

=============================================================================
