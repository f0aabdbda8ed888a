------------------------------- MODULE Claims -------------------------------
(***************************************************************************)
(* Statements the repository makes about itself, in comments and design    *)
(* records, that the code does not keep.  Each is refuted by one run.      *)
(***************************************************************************)
EXTENDS Server

\* "Once disabled in-memory (limit hit), stay disabled until explicitly
\* re-enabled." (service.go:222): a row that the database holds as enabled is
\* enabled in the cache in the end, or does not stay enabled in the database.
ReenableTakesEffect ==
  \A i \in RowIds, n \in Usernames :
    InDatabase(i, LAMBDA row : row.name = n /\ row.enabled)
      ~> \/ ~InDatabase(i, LAMBDA row : row.name = n /\ row.enabled)
         \/ n \in DOMAIN subscribers /\ subscribers[n].enabled

\* "Session-Timeout for calendar vouchers: remaining until expiry."
\* (auth.go:194): an Access-Accept for a calendar voucher whose window has
\* time left tells the NAS how much.
CalendarTimeout ==
  [][\A h \in Requests :
       LET row == auth[h].row
       IN  /\ auth[h].pc = "count" /\ auth'[h].pc = "accept"
           /\ Window[row.id] # Nil
           /\ row.first + Window[row.id] > now
           => auth'[h].timeout > 0]_vars

\* "nasContains checks whether a session NASIP (host:port) matches a nasAddr
\* (host[:port])." (coa.go:151): an acknowledged Disconnect-Request ends the
\* user's sessions on the NAS that acknowledged it and no others.
AckEndsItsNas ==
  [][\A job \in BagToSet(jobs), host \in Hosts :
       Exchange(job, host, "ack") /\ ~Exchange(job, host, "error") =>
         \A k \in DOMAIN sessions :
           sessions[k].name = job.name /\ sessions[k].status = "active" =>
             (sessions'[k].status = "stopped" <=> sessions[k].host = host)]_vars

=============================================================================
