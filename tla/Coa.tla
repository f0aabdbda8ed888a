--------------------------------- MODULE Coa --------------------------------
(***************************************************************************)
(* DisconnectUser (coa.go): a Disconnect-Request to every NAS that hosts   *)
(* an active session of the user, one NAS after the other, marking         *)
(* sessions stopped in memory on the way (the database is not told).       *)
(***************************************************************************)
EXTENDS ServerState

\* Hosts of the user's active sessions that are registered NASes.
CollectNASForUser(n) ==
  {sessions[k].host : k \in {m \in DOMAIN sessions :
                               /\ sessions[m].name = n
                               /\ sessions[m].status = "active"}} \cap nases

\* HandleDisconnectUser: the API starts a disconnect.
HandleDisconnectUser(n) ==
  /\ "disconnect" \in Admin
  /\ BagCardinality(jobs) < MaxJobs
  /\ jobs' = jobs (+) SetToBag({NewJob("collect", n, Nil, {})})
  /\ UNCHANGED <<now, db, cache, sessionTable, handlers, refresh, adminVars,
                 writes, spent, faults>>

\* Mutant: without a NAS to ask, the procedure ends before the voucher is
\* disabled.
CollectOrReturn(job) ==
  /\ BagIn(job, jobs)
  /\ job.op = "collect"
  /\ Replace(job, {[job EXCEPT !.op = "exchange", !.todo = t] :
                    t \in {CollectNASForUser(job.name)} \ {{}}})
  /\ UNCHANGED <<now, db, cache, sessionTable, handlers, refresh, adminVars,
                 writes, spent, faults>>

Collect(job) ==
  /\ BagIn(job, jobs)
  /\ job.op = "collect"
  /\ Replace(job, {[job EXCEPT !.op = "exchange",
                               !.todo = CollectNASForUser(job.name)]})
  /\ UNCHANGED <<now, db, cache, sessionTable, handlers, refresh, adminVars,
                 writes, spent, faults>>

\* nasContains: the text of the NAS host is a prefix of the session's
\* NASIP, the "host:port" the packet came from.
NasContains(sess, host) == <<host, sess.host>> \in HostPrefix

\* sessions with the active ones of n that satisfy Chosen marked stopped.
Stopped(n, Chosen(_)) ==
  [k \in DOMAIN sessions |->
     IF /\ sessions[k].name = n
        /\ sessions[k].status = "active"
        /\ Chosen(sessions[k])
       THEN [sessions[k] EXCEPT !.status = "stopped", !.ended = TRUE]
       ELSE sessions[k]]

MarkSessionsStopped(n) == Stopped(n, LAMBDA sess : TRUE)

MarkSessionsByNAS(n, host) == Stopped(n, LAMBDA sess : NasContains(sess, host))

\* One exchange: no answer (all sessions of the user are marked), an ACK
\* (those of the NAS are) or a NAK (nothing is).
Exchange(job, host, answer) ==
  /\ BagIn(job, jobs)
  /\ job.op = "exchange"
  /\ host \in job.todo
  /\ sessions' = CASE answer = "error" -> MarkSessionsStopped(job.name)
                   [] answer = "ack" -> MarkSessionsByNAS(job.name, host)
                   [] answer = "nak" -> sessions
  /\ Replace(job, {[job EXCEPT !.todo = @ \ {host}]})
  /\ UNCHANGED <<now, db, cache, minted, handlers, refresh, adminVars,
                 writes, spent, faults>>

\* Mutant: the voucher is not disabled when the disconnects are done.
FinishWithoutDisable(job) ==
  /\ BagIn(job, jobs)
  /\ job.op = "exchange"
  /\ job.todo = {}
  /\ Replace(job, {})
  /\ UNCHANGED <<now, db, cache, sessionTable, handlers, refresh, adminVars,
                 writes, spent, faults>>

\* All NASes are done; a voucher is then disabled in the database.
FinishDisconnect(job) ==
  /\ BagIn(job, jobs)
  /\ job.op = "exchange"
  /\ job.todo = {}
  /\ Replace(job, {})
  /\ Spawn(IF job.id = Nil THEN {} ELSE {DisableWrite(job.id)})
  /\ UNCHANGED <<now, db, cache, sessionTable, handlers, refresh, adminVars,
                 spent, faults>>

DisconnectUser(job) ==
  \/ Collect(job)
  \/ \E host \in Hosts, answer \in {"ack", "nak", "error"} :
       Exchange(job, host, answer)
  \/ FinishDisconnect(job)

=============================================================================
