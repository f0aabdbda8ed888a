----------------------------- MODULE Accounting -----------------------------
(***************************************************************************)
(* handleAccounting (accounting.go).  Packets come in any order, more than *)
(* once or never; nothing but Acct-Session-Id and User-Name ties an update *)
(* to a session, and every Start makes a session of its own.               *)
(***************************************************************************)
EXTENDS ServerState

NewSession(host, n, a) ==
  [acct |-> a, name |-> n, host |-> host, status |-> "active",
   cum |-> NoUsage, last |-> now, ended |-> FALSE]

HandleAcctStart(host, n, a) ==
  /\ host \in nases
  /\ minted < MaxSessions
  /\ Room
  /\ LET sess == NewSession(host, n, a)
     IN  /\ sessions' = Put(sessions, minted + 1, sess)
         /\ Spawn({SessionWrite(minted + 1, sess)})
  /\ minted' = minted + 1
  /\ UNCHANGED <<now, db, cache, handlers, refresh, adminVars, jobs, spent, faults>>

\* Mutant: StopTime is not recorded.
UpdatedNoStopTime(sess, reading, stop) ==
  [sess EXCEPT !.last = now,
               !.cum = reading,
               !.status = IF stop THEN "stopped" ELSE @]

\* The session an Interim-Update or a Stop leaves behind.
Updated(sess, reading, stop) ==
  [sess EXCEPT !.last = now,
               !.cum = reading,
               !.status = IF stop THEN "stopped" ELSE @,
               !.ended = IF stop THEN TRUE ELSE @]

\* The sessions a packet may be applied to: the map is searched in random
\* order and the search ends at the first match, whatever its status.
Matching(n, a) ==
  {k \in DOMAIN sessions : sessions[k].acct = a /\ sessions[k].name = n}

\* The usage of a cached voucher grows by delta.
Charge(row, delta) == [row EXCEPT !.used = Plus(@, delta)]

\* applyAcctUpdate on session k of a voucher in the cache, and the start of
\* disconnectAndDisableVoucher when a limit is reached.
ChargeVoucher(k, n, reading, stop) ==
  LET sess == Updated(sessions[k], reading, stop)
      delta == Delta(reading, sessions[k].cum)
      u == Charge(subscribers[n], delta)
  IN  /\ \A d \in Dims : u.used[d] <= MaxUsage
      /\ sessions' = [sessions EXCEPT ![k] = sess]
      /\ subscribers' = [subscribers EXCEPT ![n] = u]
      /\ Spawn({SessionWrite(k, sess)}
                 \cup (IF delta = NoUsage THEN {} ELSE {UsageWrite(u.id, delta)}))
      /\ \/ /\ LimitHit(u)
            /\ BagCardinality(jobs) < MaxJobs
            /\ jobs' = jobs (+) SetToBag({NewJob("hit", n, Nil, {})})
            /\ spent' = spent \cup {u.id}
         \/ ~LimitHit(u) /\ UNCHANGED <<jobs, spent>>

\* The same for a user that is not a voucher or is not in the cache.
RecordOnly(k, reading, stop) ==
  LET sess == Updated(sessions[k], reading, stop)
  IN  /\ sessions' = [sessions EXCEPT ![k] = sess]
      /\ Spawn({SessionWrite(k, sess)})
      /\ UNCHANGED <<subscribers, jobs, spent>>

HandleAcctUpdate(host, n, a, reading, stop) ==
  /\ host \in nases
  /\ Room
  /\ \E k \in Matching(n, a) :
       IF n \in DOMAIN subscribers /\ IsVoucher(subscribers[n])
         THEN ChargeVoucher(k, n, reading, stop)
         ELSE RecordOnly(k, reading, stop)
  /\ UNCHANGED <<now, db, nases, minted, handlers, refresh, adminVars, faults>>

\* Any registered NAS may report anything about any session.
HandleAccounting ==
  \E host \in Hosts, n \in Usernames, a \in AcctIds :
    \/ HandleAcctStart(host, n, a)
    \/ \E reading \in Readings, stop \in BOOLEAN :
         HandleAcctUpdate(host, n, a, reading, stop)

-----------------------------------------------------------------------------
(* disconnectAndDisableVoucher, after applyAcctUpdate has returned true.   *)

\* The user is looked up again; nothing happens if it is gone.
LookUpHit(job) ==
  /\ BagIn(job, jobs)
  /\ job.op = "hit"
  /\ Replace(job, IF job.name \in DOMAIN subscribers
                    THEN {NewJob("disable", job.name, subscribers[job.name].id, {})}
                    ELSE {})
  /\ UNCHANGED <<now, db, cache, sessionTable, handlers, refresh, adminVars,
                 writes, spent, faults>>

\* The user is disabled in memory and the disconnect goroutine started.
DisableHit(job) ==
  /\ BagIn(job, jobs)
  /\ job.op = "disable"
  /\ subscribers' = Disabled(job.name)
  /\ Replace(job, {[job EXCEPT !.op = "collect"]})
  /\ UNCHANGED <<now, db, nases, sessionTable, handlers, refresh, adminVars,
                 writes, spent, faults>>

=============================================================================
