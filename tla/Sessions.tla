------------------------------ MODULE Sessions ------------------------------
(***************************************************************************)
(* Housekeeping of the session map (service.go): the stale-session sweep,  *)
(* run by cleanupLoop and by the API, and the merge of the sessions the    *)
(* database still holds as active, run by the API after a restart.         *)
(***************************************************************************)
EXTENDS ServerState

\* Active sessions whose last update is before now - StaleAfter.
Stale == {k \in DOMAIN sessions : /\ sessions[k].status = "active"
                                  /\ sessions[k].last + StaleAfter < now}

Swept(sess) == [sess EXCEPT !.status = "stale", !.ended = TRUE, !.last = now]

CleanupStaleSessions ==
  /\ Stale # {}
  /\ sessions' = [k \in DOMAIN sessions |->
                    IF k \in Stale THEN Swept(sessions[k]) ELSE sessions[k]]
  /\ Spawn({SessionWrite(k, Swept(sessions[k])) : k \in Stale})
  /\ UNCHANGED <<now, db, cache, minted, handlers, refresh, adminVars,
                 jobs, spent, faults>>

ListActiveSessions ==
  [k \in {m \in DOMAIN dbSessions : dbSessions[m].status = "active"} |-> dbSessions[k]]

ReconcileRead(c) ==
  /\ recon[c] = Nil
  /\ recon' = [recon EXCEPT ![c] = ListActiveSessions]
  /\ UNCHANGED <<now, db, cache, sessionTable, handlers, refresh, edit,
                 writes, jobs, spent, faults>>

\* Mutant: the database row replaces the session in memory.
MergedOverwriting(table) ==
  [k \in DOMAIN sessions \cup DOMAIN table |->
     IF k \in DOMAIN table THEN table[k] ELSE sessions[k]]

\* sessions and the rows of table whose ids it does not hold.
Merged(table) ==
  [k \in DOMAIN sessions \cup DOMAIN table |->
     IF k \in DOMAIN sessions THEN sessions[k] ELSE table[k]]

ReconcileMerge(c) ==
  /\ recon[c] # Nil
  /\ sessions' = Merged(recon[c])
  /\ recon' = [recon EXCEPT ![c] = Nil]
  /\ UNCHANGED <<now, db, cache, minted, handlers, refresh, edit,
                 writes, jobs, spent, faults>>

ReconcileSessions(c) == ReconcileRead(c) \/ ReconcileMerge(c)

=============================================================================
