------------------------------- MODULE Ledger -------------------------------
(***************************************************************************)
(* What is still on its way to the database: the books of voucher usage,   *)
(* and the disabling of a voucher whose limit is reached.                  *)
(***************************************************************************)
EXTENDS Server

\* The units of usage that the statements in bag still have to add to row i:
\* one for each unit of the delta of each copy of such a statement.
UnitsIn(bag, i, d) ==
  UNION {({w} \X (1 .. bag[w])) \X (1 .. w.delta[d]) :
           w \in {v \in BagToSet(bag) : v.op = "addUsage" /\ v.id = i}}

Outstanding(i, d) == Cardinality(UnitsIn(writes, i, d))

\* The usage that row i has in the database, or will have.
Booked(i, d) == dbUsers[i].used[d] + Outstanding(i, d)

\* A cached voucher's usage is what the database holds plus what is on its
\* way there: nothing is charged twice or forgotten by interim updates,
\* refreshes and late writes (accounting.go:150-171, service.go:215-221,
\* repository.go:226-230).  A write that fails, or an UpdateUser that puts
\* back counters it read earlier, leaves the database behind; nothing puts it
\* ahead.
UsageLedger ==
  Stable =>
    \A n \in DOMAIN subscribers, d \in Dims :
      LET row == subscribers[n]
      IN  /\ Booked(row.id, d) <= row.used[d]
          /\ lost = 0 /\ "edit" \notin Admin => Booked(row.id, d) = row.used[d]

\* A disconnect that will disable row i in the database is under way, or the
\* UPDATE is.
Disabling(i) ==
  \/ \E job \in BagToSet(jobs) : job.op # "hit" /\ job.id = i
  \/ DisableWrite(i) \in BagToSet(writes)

\* Or accounting has still to look the user up.
WillDisable(i) ==
  Disabling(i) \/ \E job \in BagToSet(jobs) : job.op = "hit" /\ job.name = issued[i]

\* Until the process stops, a voucher whose limit accounting has seen reached
\* is disabled in the database, or one of the procedures and statements under
\* way will disable it: the look-ups, the refreshes in between and the
\* exchanges with the NASes never drop it.  Only a failed statement or an
\* administrator's UpdateUser undoes it (accounting.go:176-210, coa.go:21-47).
DisableOnItsWay ==
  Stable /\ "edit" \notin Admin /\ lost = 0 =>
    \A i \in spent : ~dbUsers[i].enabled \/ WillDisable(i)

\* A user whom memory shows disabled is disabled in the database, or about to
\* be, or deleted: no refusal is known to this process alone, whether accounting
\* or a request decided it, and whatever refreshes and restarts follow
\* (auth.go:221-229, accounting.go:186-208, service.go:222-225).
RefusalsKept ==
  NamesKept /\ "edit" \notin Admin /\ lost = 0 =>
    \A n \in DOMAIN subscribers :
      LET i == subscribers[n].id
      IN  subscribers[n].enabled \/ i \notin DOMAIN dbUsers
            \/ ~dbUsers[i].enabled \/ Disabling(i)

=============================================================================
