-------------------------------- MODULE Cluster --------------------------------
(***************************************************************************)
(* Several instances of the server behind a load balancer, over one        *)
(* database, serving one voucher (docs/adr/001-base-architecture.md,       *)
(* Consequences).  A packet may reach any instance that serves RADIUS; an  *)
(* instance knows the sessions whose Accounting-Start it has seen and the  *)
(* voucher as its last refresh merged it.  What happens inside one         *)
(* instance (overlapping requests and refreshes, failed refreshes, edits)  *)
(* is module Server; here a critical section, a refresh and a disconnect   *)
(* are one step each.                                                      *)
(***************************************************************************)
EXTENDS Migrations, FiniteSets

CONSTANTS
  Sessions,    \* sessions of the voucher, at the NASes
  Limit,       \* the voucher's usage limit (0 would be none)
  SimultaneousUse,  \* how many sessions it may have at once, or 0
  MaxReading,  \* bound: what a session's counter reaches
  Nil

ASSUME ClusterAssumption ==
  /\ Limit \in Nat \ {0}
  /\ MaxReading \in Nat
  /\ SimultaneousUse \in Nat
  /\ Nil \notin [used: Nat, enabled: BOOLEAN]

VARIABLES
  row,         \* the voucher's row
  cache,       \* subscribers[username] of each instance, or Nil
  writes,      \* statements an instance has left to goroutines
  jobs,        \* instances that are disconnecting the voucher's sessions
  known,       \* sessions of each instance: session -> last reading
  open,        \* the known sessions whose status is active
  nas,         \* external: the state of each session at its NAS
  reading,     \* external: the session's counter at its NAS
  answered,    \* the last reading that was answered, which bounds the table's
  charged,     \* history: usage charged for a session, by any instance
  copied,      \* history: sessions opened more than once
  blind,       \* history: sessions opened where the voucher was not cached
  owed         \* history: the units of usage <<session, n>> an instance has
               \* charged in memory and not (or not yet) written to the row

rowVars == <<row, cache, writes, jobs, owed>>
historyVars == <<answered, charged, copied, blind>>
sessionVars == <<known, open, nas, reading, historyVars>>
vars == <<migrationVars, rowVars, sessionVars>>

Row == [used: Nat, enabled: BOOLEAN]

\* AddUsageDelta for the part of session s between two readings, DisableUser.
Charge(s, from, to) == [op |-> "usage", s |-> s, from |-> from, to |-> to]
Disable == [op |-> "disable"]

Units(s, from, to) == {s} \X (from + 1 .. to)

EmptyMap == [s \in {} |-> 0]

Put(f, key, value) ==
  [k \in DOMAIN f \cup {key} |-> IF k = key THEN value ELSE f[k]]

ServesRadius(i) == proc[i].pc \in {"serve", "drain"}

Init ==
  /\ MigrationsInit
  /\ row = [used |-> 0, enabled |-> TRUE]
  /\ cache = [i \in Instances |-> Nil]
  /\ writes = [i \in Instances |-> {}]
  /\ jobs = {}
  /\ owed = [i \in Instances |-> {}]
  /\ known = [i \in Instances |-> EmptyMap]
  /\ open = [i \in Instances |-> {}]
  /\ nas = [s \in Sessions |-> "idle"]
  /\ reading = [s \in Sessions |-> 0]
  /\ answered = [s \in Sessions |-> 0]
  /\ charged = [s \in Sessions |-> 0]
  /\ copied = {}
  /\ blind = {}

-----------------------------------------------------------------------------
(* Processes *)

\* A process that ends takes its maps and its pending statements with it.
Forgets(i) ==
  /\ cache' = [cache EXCEPT ![i] = Nil]
  /\ writes' = [writes EXCEPT ![i] = {}]
  /\ jobs' = jobs \ {i}
  /\ owed' = [owed EXCEPT ![i] = {}]
  /\ known' = [known EXCEPT ![i] = EmptyMap]
  /\ open' = [open EXCEPT ![i] = {}]
  /\ UNCHANGED <<row, nas, reading, historyVars>>

Process(i) ==
  \/ (Progress(i) \/ Serve(i)) /\ UNCHANGED <<rowVars, sessionVars>>
  \/ (LoseRace(i) \/ Exit(i)) /\ Forgets(i)

Interruption(i) ==
  \/ Signal(i) /\ UNCHANGED <<rowVars, sessionVars>>
  \/ Fault(i) /\ Forgets(i)

-----------------------------------------------------------------------------
(* The cached row *)

\* Mutant: usage known to both is counted twice.
MergeSum(old, new) ==
  [used |-> old.used + new.used, enabled |-> new.enabled /\ old.enabled]

\* Mutant: what is in memory stays as it is.
MergeKeep(old, new) == old

\* What memory knows and the database does not yet is kept.
Merge(old, new) ==
  [used |-> IF old.used > new.used THEN old.used ELSE new.used,
   enabled |-> new.enabled /\ old.enabled]

\* refreshFromDB, from NewService or from the loop.  One that fails does
\* nothing, and NewService goes on without it.
Refresh(i) ==
  /\ proc[i].pc \in Ready \ {"close"}
  /\ cache' = [cache EXCEPT ![i] = IF @ = Nil THEN row ELSE Merge(@, row)]
  /\ UNCHANGED <<migrationVars, row, writes, jobs, owed, sessionVars>>

-----------------------------------------------------------------------------
(* Background statements *)

\* Mutant: a statement that has been executed is executed again.
ExecuteAgain(i, w) ==
  /\ w \in writes[i]
  /\ row' = IF w = Disable THEN [row EXCEPT !.enabled = FALSE]
                           ELSE [row EXCEPT !.used = @ + (w.to - w.from)]
  /\ owed' = [owed EXCEPT ![i] = IF w = Disable THEN @ ELSE @ \ Units(w.s, w.from, w.to)]
  /\ UNCHANGED <<migrationVars, writes, cache, jobs, sessionVars>>

\* AddUsageDelta adds in the database; DisableUser.
Execute(i, w) ==
  /\ w \in writes[i]
  /\ row' = IF w = Disable THEN [row EXCEPT !.enabled = FALSE]
                           ELSE [row EXCEPT !.used = @ + (w.to - w.from)]
  /\ owed' = [owed EXCEPT ![i] = IF w = Disable THEN @ ELSE @ \ Units(w.s, w.from, w.to)]
  /\ writes' = [writes EXCEPT ![i] = @ \ {w}]
  /\ UNCHANGED <<migrationVars, cache, jobs, sessionVars>>

\* The statement fails, and is not tried again.
StatementFails(i, w) ==
  /\ w \in writes[i]
  /\ Interrupts
  /\ writes' = [writes EXCEPT ![i] = @ \ {w}]
  /\ UNCHANGED <<schemaVars, proc, row, cache, jobs, owed, sessionVars>>

-----------------------------------------------------------------------------
(* Packets *)

\* handleAuth goes by the cached row.
Enabled(i) == cache[i] # Nil /\ cache[i].enabled

\* Simultaneous use: the active sessions the instance itself knows.
Accept(i, s) ==
  /\ ServesRadius(i)
  /\ nas[s] = "idle"
  /\ Enabled(i) /\ cache[i].used < Limit
  /\ SimultaneousUse = 0 \/ Cardinality(open[i]) < SimultaneousUse
  /\ nas' = [nas EXCEPT ![s] = "accepted"]
  /\ UNCHANGED <<migrationVars, rowVars, known, open, reading, historyVars>>

\* rejectAndDisableVoucher.
RejectVoucher(i) ==
  /\ ServesRadius(i)
  /\ Enabled(i) /\ cache[i].used >= Limit
  /\ cache' = [cache EXCEPT ![i].enabled = FALSE]
  /\ writes' = [writes EXCEPT ![i] = @ \cup {Disable}]
  /\ UNCHANGED <<migrationVars, row, jobs, owed, sessionVars>>

\* The session's Accounting-Start, or its retransmission to an instance that
\* has not seen it.  (A second one at the same instance is in Server.)
AcctStart(i, s) ==
  /\ ServesRadius(i)
  /\ nas[s] \in {"accepted", "running"}
  /\ s \notin DOMAIN known[i]
  /\ known' = [known EXCEPT ![i] = Put(@, s, 0)]
  /\ open' = [open EXCEPT ![i] = @ \cup {s}]
  /\ nas' = [nas EXCEPT ![s] = "running"]
  /\ IF nas[s] = "running" THEN Interrupts /\ copied' = copied \cup {s}
                           ELSE UNCHANGED <<faults, copied>>
  /\ blind' = IF cache[i] = Nil THEN blind \cup {s} ELSE blind
  /\ UNCHANGED <<schemaVars, proc, rowVars, reading, answered, charged>>

\* ReconcileSessions: the table holds some snapshot of the session, as active.
Reconcile(i, s, r) ==
  /\ proc[i].pc = "serve"
  /\ s \notin DOMAIN known[i]
  /\ nas[s] \in {"running", "stopping"}
  /\ r <= answered[s]
  /\ Interrupts
  /\ known' = [known EXCEPT ![i] = Put(@, s, r)]
  /\ open' = [open EXCEPT ![i] = @ \cup {s}]
  /\ copied' = copied \cup {s}
  /\ UNCHANGED <<schemaVars, proc, rowVars, nas, reading, answered, charged, blind>>

\* External: the user's traffic.
Traffic(s) ==
  /\ nas[s] = "running"
  /\ reading[s] < MaxReading
  /\ reading' = [reading EXCEPT ![s] = @ + 1]
  /\ UNCHANGED <<migrationVars, rowVars, known, open, nas, historyVars>>

\* Mutant: the session's whole counter is charged with each update.
DeltaWhole(i, s) == reading[s]

\* The usage since the reading the instance has seen last.
Delta(i, s) == reading[s] - known[i][s]

\* Mutant: the session's whole counter is compared, not what it adds.
AtLimitWhole(i, s) == cache[i].used + reading[s] >= Limit

\* Mutant: only an update that brings usage is compared with the limit.
AtLimitIfUsed(i, s) == Delta(i, s) > 0 /\ cache[i].used + Delta(i, s) >= Limit

AtLimit(i, s) == cache[i].used + Delta(i, s) >= Limit

\* What remains of the update when it is for a session the instance knows.
\* d is charged if the voucher is in the cache; at the limit it is disabled
\* there, and the disconnect starts.
ApplyAcctUpdate(i, s, stop) ==
  LET d == Delta(i, s)
      user == [cache[i] EXCEPT !.used = @ + d]
      hit == AtLimit(i, s)
  IN  /\ known' = [known EXCEPT ![i][s] = reading[s]]
      /\ open' = IF stop THEN [open EXCEPT ![i] = @ \ {s}] ELSE open
      /\ IF cache[i] = Nil
           THEN UNCHANGED <<cache, writes, jobs, owed, charged>>
           ELSE /\ cache' = [cache EXCEPT ![i] =
                               IF hit THEN [user EXCEPT !.enabled = FALSE] ELSE user]
                /\ writes' = IF d > 0
                               THEN [writes EXCEPT ![i] = @ \cup
                                       {Charge(s, known[i][s], reading[s])}]
                               ELSE writes
                /\ jobs' = IF hit THEN jobs \cup {i} ELSE jobs
                /\ owed' = [owed EXCEPT ![i] = @ \cup Units(s, known[i][s], reading[s])]
                /\ charged' = [charged EXCEPT ![s] = @ + d]

\* An Interim-Update or a Stop, answered whether or not the session is known.
AcctUpdate(i, s, stop) ==
  /\ ServesRadius(i)
  /\ nas[s] = "running" \/ (nas[s] = "stopping" /\ stop)
  /\ IF s \in DOMAIN known[i]
       THEN ApplyAcctUpdate(i, s, stop)
       ELSE UNCHANGED <<cache, writes, jobs, owed, known, open, charged>>
  /\ answered' = [answered EXCEPT ![s] = reading[s]]
  /\ nas' = IF stop THEN [nas EXCEPT ![s] = "ended"] ELSE nas
  /\ UNCHANGED <<migrationVars, row, reading, copied, blind>>

\* DisconnectUser, then DisableUser.  The NASes of the open sessions are asked;
\* gone are the sessions of those that obeyed, also ones this instance does
\* not know.  If one did not answer all are marked stopped, else those; a
\* refusal leaves a session active.
Disconnect(i, gone, silent) ==
  /\ i \in jobs
  /\ open[i] = {} => gone = {} /\ ~silent
  /\ open' = [open EXCEPT ![i] = IF silent THEN {} ELSE @ \ gone]
  /\ nas' = [s \in Sessions |->
               IF s \in gone /\ nas[s] = "running" THEN "stopping" ELSE nas[s]]
  /\ jobs' = jobs \ {i}
  /\ writes' = [writes EXCEPT ![i] = @ \cup {Disable}]
  /\ UNCHANGED <<migrationVars, row, cache, owed, known, reading, historyVars>>

\* cleanupStaleSessions: an active session without an update for long.  If it
\* is still running its updates have been lost, or have gone elsewhere.
Cleanup(i, s) ==
  /\ ServesRadius(i)
  /\ s \in open[i]
  /\ IF nas[s] = "running" THEN Interrupts ELSE UNCHANGED faults
  /\ open' = [open EXCEPT ![i] = @ \ {s}]
  /\ UNCHANGED <<schemaVars, proc, rowVars, known, nas, reading, historyVars>>

-----------------------------------------------------------------------------

Next ==
  \/ \E i \in Instances :
       \/ Process(i)
       \/ Interruption(i)
       \/ Refresh(i)
       \/ RejectVoucher(i)
       \/ \E w \in writes[i] : Execute(i, w) \/ StatementFails(i, w)
       \/ \E gone \in SUBSET Sessions, silent \in BOOLEAN : Disconnect(i, gone, silent)
       \/ \E s \in Sessions :
            \/ Accept(i, s)
            \/ AcctStart(i, s)
            \/ Cleanup(i, s)
            \/ \E r \in 0 .. MaxReading : Reconcile(i, s, r)
            \/ \E stop \in BOOLEAN : AcctUpdate(i, s, stop)
  \/ \E s \in Sessions : Traffic(s)

Spec == Init /\ [][Next]_vars

Statements == {Disable} \cup [op: {"usage"}, s: Sessions, from: 0 .. MaxReading,
                               to: 1 .. MaxReading]

\* A supervisor restarts processes, tickers and goroutines go on, a disconnect
\* ends by its ten-second context, and a refresh that is tried for ever
\* succeeds.  Of the NASes: a running session keeps reporting to the instances
\* that know it, and the disconnect of an open session that is asked for again
\* and again is not refused for ever.
Fairness ==
  \A i \in Instances :
    /\ WF_vars(Process(i))
    /\ WF_vars(Refresh(i))
    /\ WF_vars(\E w \in writes[i] : Execute(i, w))
    /\ WF_vars(\E gone \in SUBSET Sessions, silent \in BOOLEAN :
                 Disconnect(i, gone, silent))
    /\ \A s \in Sessions :
         /\ WF_vars(s \in DOMAIN known[i] /\ AcctUpdate(i, s, FALSE))
         /\ WF_vars(nas[s] \in {"stopping", "ended"} /\ Cleanup(i, s))
         /\ SF_vars(\E gone \in SUBSET Sessions, silent \in BOOLEAN :
                      /\ s \in open[i]
                      /\ silent \/ s \in gone
                      /\ Disconnect(i, gone, silent))

LiveSpec == Spec /\ Fairness

-----------------------------------------------------------------------------
(* Properties *)

RowsOK ==
  /\ row \in Row
  /\ cache \in [Instances -> Row \cup {Nil}]
  /\ writes \in [Instances -> SUBSET Statements]
  /\ jobs \subseteq Instances
  /\ owed \in [Instances -> SUBSET (Sessions \X (1 .. MaxReading))]

SessionsOK ==
  /\ DOMAIN known = Instances
  /\ \A i \in Instances :
       /\ DOMAIN known[i] \subseteq Sessions
       /\ \A s \in DOMAIN known[i] : known[i][s] \in 0 .. MaxReading
  /\ open \in [Instances -> SUBSET Sessions]
  /\ nas \in [Sessions -> {"idle", "accepted", "running", "stopping", "ended"}]
  /\ reading \in [Sessions -> 0 .. MaxReading]
  /\ answered \in [Sessions -> 0 .. MaxReading]
  /\ charged \in [Sessions -> Nat]
  /\ copied \subseteq Sessions
  /\ blind \subseteq Sessions

\* Every variable has the values its comment says.
TypeOK == MigrationsTypeOK /\ RowsOK /\ SessionsOK

\* The caches of several instances, merged with a row to which they all add,
\* are never ahead of it by more than what the instance itself has charged
\* and not written: one instance's charges reach another once, through the
\* database (service.go:209-226, accounting.go:136-137 and 153).
NoInstanceAhead ==
  \A i \in Instances :
    cache[i] # Nil => cache[i].used <= row.used + Cardinality(owed[i])

\* The traffic of the sessions, in units of usage.
Used == {u \in Sessions \X (1 .. MaxReading) : u[2] <= reading[u[1]]}

\* Unless a session has been opened twice, neither the row nor any cache holds
\* more usage than the sessions have had, whichever instances their updates
\* reached, died before or after they wrote, lost statements or merged rows
\* meanwhile: nobody is refused at the limit for usage that was never made
\* (auth.go:75-88, service.go:209-226, accounting.go:110-153).
NoPhantomUsage ==
  copied = {} =>
    /\ row.used <= Cardinality(Used)
    /\ \A i \in Instances :
         cache[i] # Nil => cache[i].used <= Cardinality(Used)

\* A session opened once is never charged for more than its counter says,
\* whichever instances its updates reach and whichever of them die; and an
\* update that reached another instance is not lost, because the next one at
\* the session's own instance charges all since the last it has seen
\* (accounting.go:110-126).
SessionBooks ==
  \A s \in Sessions \ copied :
    /\ charged[s] <= reading[s]
    /\ \A i \in Instances :
         s \in DOMAIN known[i] \ blind => charged[s] = known[i][s]

Up == {i \in Instances : proc[i].pc \in Ready}

\* The instances that refuse the voucher.
Refusing ==
  {i \in Instances : cache[i] # Nil /\ (~cache[i].enabled \/ cache[i].used >= Limit)}

\* Together the instances keep an honest account of the voucher.  Whatever is
\* delayed, merged, lost or killed: usage in the database only grows, and only
\* by what was made; the voucher is refused by an instance, or disabled in the
\* database for good, only when its sessions have used up the limit; and no
\* refresh takes a refusal back (auth.go:75-88, accounting.go:153-208,
\* service.go:209-226).
Promise == INSTANCE Account
  WITH made <- Cardinality(Used), counted <- row.used, enabled <- row.enabled,
       up <- Up, refusing <- Refusing, doubled <- copied

AccountHonest == Promise!Spec

\* After the last packet and the last fault, every process serves, and its
\* cache holds at least the usage that the instances together have written,
\* and the disable of any of them: "a second instance can start cold and reach
\* consistency after one refresh cycle" (docs/adr/001-base-architecture.md:81-82),
\* as far as it is the voucher's row that is to be consistent.
CachesCatchUp ==
  <>[](\A i \in Instances :
         /\ proc[i].pc = "serve"
         /\ cache[i] # Nil
         /\ cache[i].used >= row.used
         /\ ~row.enabled => ~cache[i].enabled)

\* After the last packet and the last fault, no instance keeps a session of the
\* voucher active if the limit is reached through all instances together,
\* although none has charged all the usage (accounting.go:141-148 and 186-208).
OverspentSessionsEnd ==
  <>[](row.used >= Limit => \A i \in Instances : open[i] = {})

=============================================================================
