-------------------------------- MODULE Auth --------------------------------
(***************************************************************************)
(* handleAuth (auth.go).  The handler copies the subscriber under the read *)
(* lock and decides on that copy, releasing and retaking the lock on the   *)
(* way: the copy may be stale when it is used.                             *)
(***************************************************************************)
EXTENDS ServerState

\* Mutant: a rejection by the voucher limits is not counted.
AnswerUncounted(h, code, timeout) ==
  /\ auth' = [auth EXCEPT ![h] = [@ EXCEPT !.pc = code, !.timeout = timeout]]
  /\ stats' = IF code = "accept" THEN [stats EXCEPT !.acc = @ + 1] ELSE stats

\* Leave the handler with an answer.
Answer(h, code, timeout) ==
  /\ auth' = [auth EXCEPT ![h] = [@ EXCEPT !.pc = code, !.timeout = timeout]]
  /\ stats' = IF code = "accept" THEN [stats EXCEPT !.acc = @ + 1]
                                 ELSE [stats EXCEPT !.rej = @ + 1]

Move(h, pc) == auth' = [auth EXCEPT ![h].pc = pc] /\ UNCHANGED stats

\* No password, unknown or disabled user, wrong password.
RejectCredentials(h, host, n, passwordMatches) ==
  /\ auth[h].pc = "new"
  /\ host \in nases
  /\ ~(passwordMatches /\ n \in DOMAIN subscribers /\ subscribers[n].enabled)
  /\ auth' = [auth EXCEPT ![h].pc = "reject"]
  /\ stats' = [stats EXCEPT !.req = @ + 1, !.rej = @ + 1]
  /\ UNCHANGED <<now, db, cache, sessionTable, refresh, adminVars,
                 writes, jobs, spent, faults>>

\* The user is copied.  At the first login of a voucher the row is stamped
\* in the copy, whose ExpiresAt is left alone, and RecordFirstLogin is
\* started before the stored user is touched.
Admit(h, host, n) ==
  /\ auth[h].pc = "new"
  /\ host \in nases
  /\ n \in DOMAIN subscribers
  /\ subscribers[n].enabled
  /\ LET user == subscribers[n]
         firstLogin == IsVoucher(user) /\ user.first = Nil
     IN  /\ auth' = [auth EXCEPT ![h] =
                      [@ EXCEPT !.pc = CASE firstLogin -> "stamp"
                                         [] IsVoucher(user) /\ ~firstLogin -> "limits"
                                         [] OTHER -> "count",
                                !.row = IF firstLogin
                                          THEN [user EXCEPT !.first = now]
                                          ELSE user,
                                !.late = user.id \in spent]]
         /\ Spawn(IF firstLogin THEN {FirstLoginWrite(user.id)} ELSE {})
  /\ stats' = [stats EXCEPT !.req = @ + 1]
  /\ UNCHANGED <<now, db, cache, sessionTable, refresh, adminVars,
                 jobs, spent, faults>>

\* The stored user after its first login at time t as a voucher of row i.
Stamped(stored, i, t) ==
  [stored EXCEPT !.first = t,
                 !.expires = IF Window[i] = Nil THEN @ ELSE t + Window[i]]

StampFirstLogin(h) ==
  /\ auth[h].pc = "stamp"
  /\ LET user == auth[h].row
         n == user.name
     IN  subscribers' = IF n \in DOMAIN subscribers
                          THEN [subscribers EXCEPT ![n] = Stamped(@, user.id, user.first)]
                          ELSE subscribers
  /\ Move(h, "limits")
  /\ UNCHANGED <<now, db, nases, sessionTable, refresh, adminVars,
                 writes, jobs, spent, faults>>

Refused(row) == Expired(row, now) \/ LimitHit(row)

\* Mutant: the voucher is disabled in memory only.
RejectInMemory(h) ==
  /\ auth[h].pc = "limits"
  /\ Refused(auth[h].row)
  /\ subscribers' = Disabled(auth[h].row.name)
  /\ Answer(h, "reject", 0)
  /\ UNCHANGED <<now, db, nases, sessionTable, refresh, adminVars,
                 writes, jobs, spent, faults>>

\* rejectAndDisableVoucher, then rejectAuth.
RejectVoucher(h) ==
  /\ auth[h].pc = "limits"
  /\ Refused(auth[h].row)
  /\ subscribers' = Disabled(auth[h].row.name)
  /\ Spawn({DisableWrite(auth[h].row.id)})
  /\ Answer(h, "reject", 0)
  /\ UNCHANGED <<now, db, nases, sessionTable, refresh, adminVars,
                 jobs, spent, faults>>

PassLimits(h) ==
  /\ auth[h].pc = "limits"
  /\ ~Refused(auth[h].row)
  /\ Move(h, "count")
  /\ UNCHANGED <<now, db, cache, sessionTable, refresh, adminVars,
                 writes, jobs, spent, faults>>

ActiveSessions(n) ==
  {k \in DOMAIN sessions : sessions[k].name = n /\ sessions[k].status = "active"}

SimultaneousUseReached(row) ==
  /\ row.sim > 0
  /\ Cardinality(ActiveSessions(row.name)) >= row.sim

\* The Session-Timeout a voucher's limits put into the Access-Accept: what
\* is left of the usage limit, or of the window when the copy knows it.
VoucherTimeout(row, t) ==
  CASE IsVoucher(row) /\ Limit[row.id]["sec"] > row.used["sec"]
         -> Limit[row.id]["sec"] - row.used["sec"]
    [] IsVoucher(row) /\ Window[row.id] # Nil /\ row.expires # Nil /\ row.expires > t
         -> row.expires - t
    [] OTHER -> 0

\* The user has as many sessions as it may have, or, at any count, the reply
\* cannot be encoded to be signed (addMessageAuthenticator fails).
RejectLast(h) ==
  /\ auth[h].pc = "count"
  /\ Answer(h, "reject", 0)
  /\ UNCHANGED <<now, db, cache, sessionTable, refresh, adminVars,
                 writes, jobs, spent, faults>>

Accept(h) ==
  /\ auth[h].pc = "count"
  /\ ~SimultaneousUseReached(auth[h].row)
  /\ Answer(h, "accept", VoucherTimeout(auth[h].row, now))
  /\ UNCHANGED <<now, db, cache, sessionTable, refresh, adminVars,
                 writes, jobs, spent, faults>>

HandleAuth(h) ==
  \/ \E host \in Hosts, n \in Usernames :
       \/ \E passwordMatches \in BOOLEAN :
            RejectCredentials(h, host, n, passwordMatches)
       \/ Admit(h, host, n)
  \/ StampFirstLogin(h)
  \/ RejectVoucher(h)
  \/ PassLimits(h)
  \/ RejectLast(h)
  \/ Accept(h)

=============================================================================
