---------------------------- MODULE ClusterProofs ----------------------------
(***************************************************************************)
(* Several instances over one database, of any number, with any number of  *)
(* sessions: types, the schema, the books of a session, the caches, that   *)
(* only usage that was made is counted, and that the instances together    *)
(* implement what module Account promises of a voucher.                    *)
(***************************************************************************)
EXTENDS Cluster, FiniteSetTheorems, TLAPS

USE MigrationsAssumption, ClusterAssumption

(***************************************************************************)
(* The schema.  What makes it inductive: a process has found or committed  *)
(* every migration before the one it is at.                                *)
(***************************************************************************)

PassedAreRecorded ==
  \A i \in Instances :
    /\ 1 .. (proc[i].file - 1) \subseteq recorded
    /\ proc[i].pc = "execute" => ~AllChecked(i)
    /\ proc[i].pc \in Ready => AllChecked(i)

SchemaInv == MigrationsTypeOK /\ AppliedOnce /\ SchemaReady /\ PassedAreRecorded

\* The steps of the migration runner, of any composition with it.
MigrationStep(i) ==
  Progress(i) \/ Serve(i) \/ LoseRace(i) \/ Exit(i) \/ Signal(i) \/ Fault(i)

LEMMA SchemaInitially == ASSUME MigrationsInit PROVE SchemaInv
BY DEF MigrationsInit, SchemaInv, MigrationsTypeOK, AppliedOnce, SchemaReady,
       PassedAreRecorded, AllChecked, Down, Pcs, Ready

\* A process that goes on, or down, while the schema stays.
LEMMA ProcessFrame ==
  ASSUME SchemaInv, UNCHANGED schemaVars, faults' \in 0 .. MaxFaults,
         NEW i \in Instances, NEW p \in [pc: Pcs, file: 1 .. Files + 1],
         proc' = [proc EXCEPT ![i] = p],
         1 .. (p.file - 1) \subseteq recorded,
         p.pc = "execute" => p.file <= Version[i],
         p.pc \in Ready => p.file > Version[i]
  PROVE  SchemaInv'
<1>1. MigrationsTypeOK' /\ AppliedOnce'
  BY DEF SchemaInv, MigrationsTypeOK, AppliedOnce, schemaVars
<1>2. ASSUME NEW j \in Instances
      PROVE  /\ 1 .. (proc'[j].file - 1) \subseteq recorded'
             /\ proc'[j].pc = "execute" => ~(proc'[j].file > Version[j])
             /\ proc'[j].pc \in Ready => proc'[j].file > Version[j]
  <2>1. CASE j = i
    BY <2>1 DEF SchemaInv, MigrationsTypeOK, schemaVars
  <2>2. CASE j # i
    BY <2>2 DEF SchemaInv, MigrationsTypeOK, PassedAreRecorded, AllChecked, schemaVars
  <2>3. QED
    BY <2>1, <2>2
<1>3. PassedAreRecorded'
  BY <1>2 DEF PassedAreRecorded, AllChecked
<1>4. SchemaReady'
  <2>1. ASSUME NEW j \in Instances, proc'[j].pc \in Ready
        PROVE  1 .. Version[j] \subseteq recorded'
    <3>1. /\ 1 .. (proc'[j].file - 1) \subseteq recorded'
          /\ proc'[j].file > Version[j]
      BY <1>2, <2>1
    <3>2. proc'[j].file \in Nat /\ Version[j] \in Nat
      BY <1>1 DEF MigrationsTypeOK
    <3>3. 1 .. Version[j] \subseteq 1 .. (proc'[j].file - 1)
      BY <3>1, <3>2
    <3>4. QED
      BY <3>1, <3>3
  <2>2. QED
    BY <2>1 DEF SchemaReady, SchemaInv, schemaVars
<1>5. QED
  BY <1>1, <1>3, <1>4 DEF SchemaInv

LEMMA CommitKeeps ==
  ASSUME SchemaInv, NEW i \in Instances, Commit(i)
  PROVE  SchemaInv'
<1> DEFINE f == proc[i].file
<1>1. f \in 1 .. Files /\ f \notin recorded /\ 1 .. (f - 1) \subseteq recorded
  BY DEF SchemaInv, MigrationsTypeOK, PassedAreRecorded, AllChecked, Commit
<1>2. /\ recorded' = recorded \cup {f}
      /\ proc' = [proc EXCEPT ![i] = [pc |-> "check", file |-> f + 1]]
      /\ proc'[i] = [pc |-> "check", file |-> f + 1]
  BY DEF Commit, SchemaInv, MigrationsTypeOK
<1>3. MigrationsTypeOK' /\ AppliedOnce'
  <2>1. applied' = [applied EXCEPT ![f] = @ + 1] /\ faults' = faults
    BY DEF Commit
  <2>2. [pc |-> "check", file |-> f + 1] \in [pc: Pcs, file: 1 .. Files + 1]
    BY <1>1 DEF Pcs
  <2>3. MigrationsTypeOK'
    <3>1. recorded' \subseteq 1 .. Files
      BY <1>1, <1>2 DEF SchemaInv, MigrationsTypeOK
    <3>2. applied' \in [1 .. Files -> Nat]
      BY <1>1, <2>1 DEF SchemaInv, MigrationsTypeOK
    <3>3. proc' \in [Instances -> [pc: Pcs, file: 1 .. Files + 1]]
      BY <1>2, <2>2 DEF SchemaInv, MigrationsTypeOK
    <3>4. QED
      BY <2>1, <3>1, <3>2, <3>3 DEF SchemaInv, MigrationsTypeOK
  <2>4. AppliedOnce'
    BY <1>1, <1>2, <2>1 DEF SchemaInv, MigrationsTypeOK, AppliedOnce
  <2>5. QED
    BY <2>3, <2>4
<1>4. PassedAreRecorded'
  <2>1. ASSUME NEW j \in Instances, j # i PROVE proc'[j] = proc[j]
    BY <1>2, <2>1 DEF SchemaInv, MigrationsTypeOK
  <2>2. QED
    BY <1>1, <1>2, <2>1 DEF SchemaInv, PassedAreRecorded, AllChecked, Ready
<1>5. \A g \in recorded' : 1 .. g \subseteq recorded'
  BY <1>1, <1>2 DEF SchemaInv, SchemaReady
<1>6. ASSUME NEW j \in Instances, proc'[j].pc \in Ready
      PROVE  1 .. Version[j] \subseteq recorded'
  BY <1>2, <1>6 DEF SchemaInv, SchemaReady, MigrationsTypeOK, Ready
<1>7. QED
  BY <1>3, <1>4, <1>5, <1>6 DEF SchemaInv, SchemaReady

LEMMA SchemaStep ==
  ASSUME SchemaInv, NEW i \in Instances, MigrationStep(i)
  PROVE  SchemaInv'
<1>0. /\ proc[i] \in [pc: Pcs, file: 1 .. Files + 1] /\ Down \in [pc: Pcs, file: 1 .. Files + 1]
      /\ proc[i] = [pc |-> proc[i].pc, file |-> proc[i].file]
      /\ 1 .. (proc[i].file - 1) \subseteq recorded
      /\ proc[i].pc \in Ready => proc[i].file > Version[i]
  BY DEF Down, Pcs, PassedAreRecorded, AllChecked, SchemaInv, MigrationsTypeOK
\* From one pc to another, where the second is neither "execute" nor newly past
\* the runner.
<1>1. ASSUME NEW from, NEW to \in Pcs, Goes(i, from, to) \/ proc' = [proc EXCEPT ![i].pc = to],
             UNCHANGED schemaVars, faults' \in 0 .. MaxFaults,
             to = "execute" => ~AllChecked(i),
             to \in Ready => AllChecked(i)
      PROVE  SchemaInv'
  <2> DEFINE p == [pc |-> to, file |-> proc[i].file]
  <2>1. proc' = [proc EXCEPT ![i] = p]
    BY <1>0, <1>1 DEF Goes
  <2>2. p \in [pc: Pcs, file: 1 .. Files + 1] /\ p.pc = to /\ p.file = proc[i].file
    BY <1>0, <1>1
  <2>3. /\ p.pc = "execute" => p.file <= Version[i]
        /\ p.pc \in Ready => p.file > Version[i]
        /\ 1 .. (p.file - 1) \subseteq recorded
    BY <1>0, <1>1, <2>2 DEF AllChecked
  <2> HIDE DEF p
  <2>4. QED
    BY <1>1, <2>1, <2>2, <2>3, ProcessFrame
<1>2. ASSUME proc' = [proc EXCEPT ![i] = Down], UNCHANGED schemaVars,
             faults' \in 0 .. MaxFaults
      PROVE  SchemaInv'
  <2>1. 1 .. (Down.file - 1) \subseteq recorded /\ Down.pc \notin Ready \cup {"execute"}
    BY DEF Down, Ready
  <2>2. QED
    BY <1>0, <1>2, <2>1, ProcessFrame
<1>3. Boot(i) \/ CreateTable(i) => SchemaInv'
  BY <1>1 DEF Boot, CreateTable, Goes, Pcs, Ready, SchemaInv, MigrationsTypeOK
<1>4. Skip(i) => SchemaInv'
  <2> SUFFICES ASSUME Skip(i) PROVE SchemaInv'
    OBVIOUS
  <2> DEFINE p == [pc |-> "check", file |-> proc[i].file + 1]
  <2>1. proc' = [proc EXCEPT ![i] = p]
    <3>1. [proc[i] EXCEPT !.file = proc[i].file + 1] = p
      BY <1>0 DEF Skip
    <3>2. QED
      BY <3>1 DEF Skip
  <2>2. proc[i].file \in 1 .. Files /\ proc[i].file \in recorded
    BY <1>0, MigrationsAssumption DEF Skip, AllChecked
  <2>3. /\ p \in [pc: Pcs, file: 1 .. Files + 1]
        /\ p.pc = "check" /\ p.file = proc[i].file + 1
    BY <2>2 DEF Pcs
  <2>4. 1 .. (p.file - 1) \subseteq recorded
    BY <1>0, <2>2, <2>3
  <2>5. UNCHANGED <<schemaVars, faults>> /\ faults' \in 0 .. MaxFaults
    BY DEF Skip, SchemaInv, MigrationsTypeOK
  <2>6. p.pc # "execute" /\ p.pc \notin Ready
    BY <2>3 DEF Ready
  <2> HIDE DEF p
  <2>7. QED
    BY <2>1, <2>3, <2>4, <2>5, <2>6, ProcessFrame
<1>5. BeginMigration(i) \/ Migrated(i) => SchemaInv'
  BY <1>1 DEF BeginMigration, Migrated, Goes, Pcs, Ready, SchemaInv, MigrationsTypeOK
<1>6. Commit(i) => SchemaInv'
  BY CommitKeeps
<1>7. Serve(i) \/ HTTPClosed(i) => SchemaInv'
  BY <1>0, <1>1 DEF Serve, HTTPClosed, Goes, Pcs, Ready, AllChecked, SchemaInv, MigrationsTypeOK
<1>8. Signal(i) => SchemaInv'
  <2> SUFFICES ASSUME Signal(i) PROVE SchemaInv'
    OBVIOUS
  <2>1. faults' \in 0 .. MaxFaults
    BY DEF Signal, Interrupts, SchemaInv, MigrationsTypeOK
  <2>2. AllChecked(i)
    BY <1>0 DEF Signal, Ready, AllChecked
  <2>3. QED
    <3>1. "drain" \in Pcs /\ "drain" # "execute"
      BY DEF Pcs
    <3>2. proc' = [proc EXCEPT ![i].pc = "drain"] /\ UNCHANGED schemaVars
      BY DEF Signal
    <3>3. QED
      BY <1>1, <2>1, <2>2, <3>1, <3>2
<1>9. LoseRace(i) \/ Exit(i) \/ Fault(i) => SchemaInv'
  <2> SUFFICES ASSUME LoseRace(i) \/ Exit(i) \/ Fault(i) PROVE SchemaInv'
    OBVIOUS
  <2>1. proc' = [proc EXCEPT ![i] = Down] /\ UNCHANGED schemaVars
    BY DEF LoseRace, Exit, Fault
  <2>2. faults' \in 0 .. MaxFaults
    BY DEF LoseRace, Exit, Fault, Interrupts, SchemaInv, MigrationsTypeOK
  <2>3. QED
    BY <1>2, <2>1, <2>2
<1>10. QED
  BY <1>3, <1>4, <1>5, <1>6, <1>7, <1>8, <1>9 DEF MigrationStep, Progress

LEMMA SchemaIdle ==
  ASSUME SchemaInv, UNCHANGED <<schemaVars, proc>>, UNCHANGED faults \/ Interrupts
  PROVE  SchemaInv'
BY DEF SchemaInv, MigrationsTypeOK, AppliedOnce, SchemaReady, PassedAreRecorded,
       AllChecked, schemaVars, Interrupts

(***************************************************************************)
(* Types, with two facts they need: a counter's reading does not run ahead *)
(* of the counter, and a charge is for a later reading.                    *)
(***************************************************************************)

ReadingsPast ==
  \A s \in Sessions :
    /\ answered[s] <= reading[s]
    /\ \A i \in Instances : s \in DOMAIN known[i] => known[i][s] <= reading[s]

ChargesForward ==
  \A i \in Instances : \A w \in writes[i] : w # Disable => w.from < w.to

ValuesInv == RowsOK /\ SessionsOK /\ ReadingsPast /\ ChargesForward

LEMMA StatementTypes ==
  /\ Disable \in Statements
  /\ \A s \in Sessions, from, to \in 0 .. MaxReading :
       from < to => Charge(s, from, to) \in Statements /\ Charge(s, from, to) # Disable
  /\ \A s, from, to : Charge(s, from, to).from = from /\ Charge(s, from, to).to = to
  /\ \A w \in Statements : w # Disable => w.s \in Sessions /\ w.from \in 0 .. MaxReading
                                         /\ w.to \in 1 .. MaxReading
BY DEF Statements, Disable, Charge

LEMMA Disabled ==
  ASSUME NEW v \in Row
  PROVE  [v EXCEPT !.enabled = FALSE] \in Row /\ [v EXCEPT !.enabled = FALSE].used = v.used
BY DEF Row

LEMMA RowTypes ==
  ASSUME NEW u \in Row, NEW d \in Nat
  PROVE  /\ [u EXCEPT !.used = @ + d] \in Row
         /\ [u EXCEPT !.used = @ + d].used = u.used + d
         /\ [[u EXCEPT !.used = @ + d] EXCEPT !.enabled = FALSE] \in Row
         /\ [[u EXCEPT !.used = @ + d] EXCEPT !.enabled = FALSE].used = u.used + d
<1>1. [u EXCEPT !.used = @ + d] \in Row /\ [u EXCEPT !.used = @ + d].used = u.used + d
  BY DEF Row
<1>2. QED
  BY <1>1, Disabled

\* Opening session s at i with reading r.
Opens(i, s, r) == known' = [known EXCEPT ![i] = Put(@, s, r)]

LEMMA OpenedMap ==
  ASSUME SessionsOK, NEW i \in Instances, NEW s \in Sessions, NEW r \in 0 .. MaxReading,
         Opens(i, s, r)
  PROVE  /\ \A j \in Instances : j # i => known'[j] = known[j]
         /\ DOMAIN known'[i] = DOMAIN known[i] \cup {s}
         /\ known'[i][s] = r
         /\ \A t \in DOMAIN known[i] : t # s => known'[i][t] = known[i][t]
<1>1. known'[i] = [k \in DOMAIN known[i] \cup {s} |-> IF k = s THEN r ELSE known[i][k]]
  BY DEF SessionsOK, Put, Opens
<1>2. QED
  BY <1>1 DEF SessionsOK, Opens

LEMMA ValuesInitially == ASSUME Init PROVE ValuesInv
BY DEF Init, MigrationsInit, ValuesInv, RowsOK, SessionsOK, ReadingsPast, ChargesForward, Row,
       EmptyMap

\* Steps that leave the rows and the sessions alone.
LEMMA ValuesIdle ==
  ASSUME ValuesInv, UNCHANGED <<rowVars, sessionVars>>
  PROVE  ValuesInv'
BY DEF ValuesInv, RowsOK, SessionsOK, ReadingsPast, ChargesForward, rowVars, sessionVars,
       historyVars

LEMMA ForgetsValues ==
  ASSUME ValuesInv, NEW i \in Instances, Forgets(i)
  PROVE  ValuesInv'
<1>1. RowsOK'
  BY DEF ValuesInv, RowsOK, Forgets
<1>2. known' = [known EXCEPT ![i] = EmptyMap] /\ DOMAIN EmptyMap = {}
  BY DEF Forgets, EmptyMap
<1>3. ASSUME NEW j \in Instances
      PROVE  known'[j] = IF j = i THEN EmptyMap ELSE known[j]
  BY <1>2 DEF ValuesInv, SessionsOK
<1>4. SessionsOK'
  BY <1>2, <1>3 DEF ValuesInv, SessionsOK, Forgets, historyVars
<1>5. ReadingsPast'
  BY <1>2, <1>3 DEF ValuesInv, ReadingsPast, SessionsOK, Forgets, historyVars
<1>6. ChargesForward'
  BY DEF ValuesInv, ChargesForward, RowsOK, Forgets
<1>7. QED
  BY <1>1, <1>4, <1>5, <1>6 DEF ValuesInv

\* Steps of the cached row and its statements that do not touch a session.
LEMMA RowValues ==
  ASSUME ValuesInv, RowsOK', ChargesForward', UNCHANGED sessionVars
  PROVE  ValuesInv'
BY DEF ValuesInv, SessionsOK, ReadingsPast, sessionVars, historyVars

LEMMA RefreshValues ==
  ASSUME ValuesInv, NEW i \in Instances, Refresh(i)
  PROVE  ValuesInv'
<1>1. cache'[i] \in Row
  BY DEF ValuesInv, RowsOK, Refresh, Merge, Row
<1>2. RowsOK'
  BY <1>1 DEF ValuesInv, RowsOK, Refresh
<1>3. QED
  BY <1>2, RowValues DEF Refresh, ValuesInv, ChargesForward

LEMMA StatementValues ==
  ASSUME ValuesInv, NEW i \in Instances, NEW w \in writes[i],
         Execute(i, w) \/ StatementFails(i, w)
  PROVE  ValuesInv'
<1>1. w \in Statements
  BY DEF ValuesInv, RowsOK
<1>2. row' \in Row
  <2>1. CASE w = Disable
    <3>1. row' = row \/ row' = [row EXCEPT !.enabled = FALSE]
      BY <2>1 DEF Execute, StatementFails
    <3>2. QED
      BY <3>1, Disabled DEF ValuesInv, RowsOK
  <2>2. CASE w # Disable
    <3>1. w.from \in Nat /\ w.to \in Nat /\ w.from < w.to
      BY <1>1, <2>2, StatementTypes DEF ValuesInv, ChargesForward
    <3>2. QED
      BY <2>2, <3>1 DEF ValuesInv, RowsOK, Row, Execute, StatementFails
  <2>3. QED
    BY <2>1, <2>2
<1>3. writes' = [writes EXCEPT ![i] = @ \ {w}]
  BY DEF Execute, StatementFails
<1>4. owed' \in [Instances -> SUBSET (Sessions \X (1 .. MaxReading))]
  BY DEF ValuesInv, RowsOK, Execute, StatementFails
<1>5. RowsOK' /\ ChargesForward'
  <2>1. UNCHANGED <<cache, jobs>>
    BY DEF Execute, StatementFails
  <2>2. writes' \in [Instances -> SUBSET Statements]
    BY <1>3 DEF ValuesInv, RowsOK
  <2>3. \A j \in Instances : writes'[j] \subseteq writes[j]
    BY <1>3 DEF ValuesInv, RowsOK
  <2>4. QED
    BY <1>2, <1>4, <2>1, <2>2, <2>3 DEF ValuesInv, RowsOK, ChargesForward
<1>6. QED
  BY <1>5, RowValues DEF Execute, StatementFails

LEMMA RejectValues ==
  ASSUME ValuesInv, NEW i \in Instances, RejectVoucher(i)
  PROVE  ValuesInv'
<1>1. RowsOK'
  <2>1. cache[i] # Nil /\ cache' = [cache EXCEPT ![i] = [@ EXCEPT !.enabled = FALSE]]
    BY DEF RejectVoucher, Enabled
  <2>2. [cache[i] EXCEPT !.enabled = FALSE] \in Row
    BY <2>1, Disabled DEF ValuesInv, RowsOK
  <2>3. cache' \in [Instances -> Row \cup {Nil}]
    BY <2>1, <2>2 DEF ValuesInv, RowsOK
  <2>4. UNCHANGED <<row, jobs, owed>> /\ writes' = [writes EXCEPT ![i] = @ \cup {Disable}]
    BY DEF RejectVoucher
  <2>5. QED
    BY <2>3, <2>4, StatementTypes DEF ValuesInv, RowsOK
<1>2. ChargesForward'
  BY DEF ValuesInv, ChargesForward, RowsOK, RejectVoucher
<1>3. QED
  BY <1>1, <1>2, RowValues DEF RejectVoucher

\* Steps of the sessions that do not touch the row, and open session s at i,
\* if at all, with a reading its counter has had.
LEMMA OpenedValues ==
  ASSUME ValuesInv, UNCHANGED <<rowVars, reading, answered, charged>>,
         NEW i \in Instances, NEW s \in Sessions, NEW r \in 0 .. MaxReading, r <= reading[s],
         Opens(i, s, r),
         open' \in [Instances -> SUBSET Sessions],
         nas' \in [Sessions -> {"idle", "accepted", "running", "stopping", "ended"}],
         copied' \subseteq Sessions, blind' \subseteq Sessions
  PROVE  ValuesInv'
<1>1. RowsOK' /\ ChargesForward'
  BY DEF ValuesInv, RowsOK, ChargesForward, rowVars
<1>2. ASSUME NEW j \in Instances
      PROVE  /\ DOMAIN known'[j] \subseteq Sessions
             /\ \A t \in DOMAIN known'[j] :
                  known'[j][t] \in 0 .. MaxReading /\ known'[j][t] <= reading[t]
  <2>1. CASE j # i
    BY <2>1, OpenedMap DEF ValuesInv, SessionsOK, ReadingsPast
  <2>2. CASE j = i
    <3>1. DOMAIN known'[j] = DOMAIN known[i] \cup {s}
      BY <2>2, OpenedMap DEF ValuesInv
    <3>2. \A t \in DOMAIN known'[j] : known'[j][t] = IF t = s THEN r ELSE known[i][t]
      BY <2>2, <3>1, OpenedMap DEF ValuesInv
    <3>3. \A t \in DOMAIN known[i] : /\ t \in Sessions
                                     /\ known[i][t] \in 0 .. MaxReading
                                     /\ known[i][t] <= reading[t]
      BY DEF ValuesInv, SessionsOK, ReadingsPast
    <3>4. QED
      BY <3>1, <3>2, <3>3
  <2>3. QED
    BY <2>1, <2>2
<1>3. SessionsOK'
  BY <1>2 DEF ValuesInv, SessionsOK, Opens
<1>4. ReadingsPast'
  BY <1>2 DEF ValuesInv, ReadingsPast
<1>5. QED
  BY <1>1, <1>3, <1>4 DEF ValuesInv

LEMMA OpenValues ==
  ASSUME ValuesInv, NEW i \in Instances, NEW s \in Sessions,
         AcctStart(i, s) \/ \E r \in 0 .. MaxReading : Reconcile(i, s, r)
  PROVE  ValuesInv'
<1>1. CASE AcctStart(i, s)
  <2>1. 0 \in 0 .. MaxReading /\ 0 <= reading[s]
    BY DEF ValuesInv, SessionsOK
  <2>2. open' \in [Instances -> SUBSET Sessions]
    BY <1>1 DEF ValuesInv, SessionsOK, AcctStart
  <2>3. nas' \in [Sessions -> {"idle", "accepted", "running", "stopping", "ended"}]
    BY <1>1 DEF ValuesInv, SessionsOK, AcctStart
  <2>4. copied' \subseteq Sessions /\ blind' \subseteq Sessions
    BY <1>1 DEF ValuesInv, SessionsOK, AcctStart
  <2>5. QED
    BY <1>1, <2>1, <2>2, <2>3, <2>4, OpenedValues DEF AcctStart, Opens
<1>2. ASSUME NEW r \in 0 .. MaxReading, Reconcile(i, s, r) PROVE ValuesInv'
  <2>1. r <= reading[s]
    BY <1>2 DEF Reconcile, ValuesInv, SessionsOK, ReadingsPast
  <2>2. open' \in [Instances -> SUBSET Sessions] /\ copied' \subseteq Sessions
    BY <1>2 DEF ValuesInv, SessionsOK, Reconcile
  <2>3. QED
    BY <1>2, <2>1, <2>2, OpenedValues DEF Reconcile, Opens, ValuesInv, SessionsOK
<1>3. QED
  BY <1>1, <1>2

LEMMA SmallValues ==
  ASSUME ValuesInv, NEW i \in Instances, NEW s \in Sessions,
         Accept(i, s) \/ Cleanup(i, s)
  PROVE  ValuesInv'
<1>1. RowsOK' /\ ChargesForward'
  BY DEF ValuesInv, RowsOK, ChargesForward, Accept, Cleanup, rowVars
<1>2. SessionsOK'
  <2>1. CASE Accept(i, s)
    BY <2>1 DEF Accept, ValuesInv, SessionsOK, historyVars
  <2>2. CASE Cleanup(i, s)
    BY <2>2 DEF Cleanup, ValuesInv, SessionsOK, historyVars
  <2>3. QED
    BY <2>1, <2>2
<1>3. ReadingsPast'
  BY DEF ValuesInv, ReadingsPast, Accept, Cleanup, historyVars
<1>4. QED
  BY <1>1, <1>2, <1>3 DEF ValuesInv

LEMMA TrafficValues ==
  ASSUME ValuesInv, NEW s \in Sessions, Traffic(s)
  PROVE  ValuesInv'
<1>1. RowsOK' /\ ChargesForward'
  BY DEF ValuesInv, RowsOK, ChargesForward, Traffic, rowVars
<1>2. SessionsOK'
  BY DEF Traffic, ValuesInv, SessionsOK, historyVars
<1>3. ReadingsPast'
  <2>1. UNCHANGED <<known, answered>>
    BY DEF Traffic, historyVars
  <2>2. \A t \in Sessions : reading[t] <= reading'[t]
    BY DEF Traffic, historyVars, ValuesInv, SessionsOK
  <2>3. \A t \in Sessions : reading'[t] \in Nat /\ reading[t] \in Nat /\ answered[t] \in Nat
    BY <1>2 DEF ValuesInv, SessionsOK
  <2>4. \A j \in Instances : \A t \in DOMAIN known[j] : t \in Sessions /\ known[j][t] \in Nat
    BY DEF ValuesInv, SessionsOK
  <2>5. QED
    BY <2>1, <2>2, <2>3, <2>4 DEF ValuesInv, ReadingsPast
<1>4. QED
  BY <1>1, <1>2, <1>3 DEF ValuesInv

LEMMA DisconnectValues ==
  ASSUME ValuesInv, NEW i \in Instances, NEW gone \in SUBSET Sessions, NEW silent \in BOOLEAN,
         Disconnect(i, gone, silent)
  PROVE  ValuesInv'
<1>1. RowsOK' /\ ChargesForward'
  BY StatementTypes DEF ValuesInv, RowsOK, ChargesForward, Disconnect
<1>2. SessionsOK'
  BY DEF Disconnect, ValuesInv, SessionsOK, historyVars
<1>3. ReadingsPast'
  BY DEF Disconnect, ValuesInv, ReadingsPast, historyVars
<1>4. QED
  BY <1>1, <1>2, <1>3 DEF ValuesInv

\* What an update leaves: the new reading, and a delta that is not negative.
LEMMA UpdateFacts ==
  ASSUME ValuesInv, NEW i \in Instances, NEW s \in Sessions, NEW stop \in BOOLEAN,
         s \in DOMAIN known[i], ApplyAcctUpdate(i, s, stop)
  PROVE  /\ Delta(i, s) \in Nat /\ Delta(i, s) = reading[s] - known[i][s]
         /\ known[i][s] \in 0 .. MaxReading /\ reading[s] \in 0 .. MaxReading
         /\ known[i][s] <= reading[s]
         /\ \A j \in Instances : DOMAIN known'[j] = DOMAIN known[j]
         /\ DOMAIN known' = Instances
         /\ known'[i][s] = reading[s]
         /\ \A j \in Instances : \A t \in DOMAIN known[j] :
              j # i \/ t # s => known'[j][t] = known[j][t]
<1>1. /\ known[i][s] \in 0 .. MaxReading /\ reading[s] \in 0 .. MaxReading
      /\ known[i][s] <= reading[s]
  BY DEF ValuesInv, SessionsOK, ReadingsPast
<1>2. Delta(i, s) \in Nat /\ Delta(i, s) = reading[s] - known[i][s]
  BY <1>1 DEF Delta
<1>3. known' = [known EXCEPT ![i] = [@ EXCEPT ![s] = reading[s]]]
  BY DEF ApplyAcctUpdate
<1>4. QED
  BY <1>1, <1>2, <1>3 DEF ValuesInv, SessionsOK

\* What it leaves in the caches.
LEMMA UpdateCache ==
  ASSUME ValuesInv, NEW i \in Instances, NEW s \in Sessions, NEW stop \in BOOLEAN,
         s \in DOMAIN known[i], ApplyAcctUpdate(i, s, stop)
  PROVE  /\ \A j \in Instances : cache[j] # Nil => cache'[j] # Nil
         /\ \A j \in Instances : j # i \/ cache[i] = Nil => cache'[j] = cache[j]
         /\ cache[i] # Nil => /\ cache'[i] \in Row
                              /\ cache'[i].used = cache[i].used + Delta(i, s)
<1>1. CASE cache[i] = Nil
  BY <1>1 DEF ApplyAcctUpdate
<1>2. CASE cache[i] # Nil
  <2> DEFINE d == Delta(i, s)
             user == [cache[i] EXCEPT !.used = @ + d]
             off == [user EXCEPT !.enabled = FALSE]
  <2>1. d \in Nat
    BY UpdateFacts
  <2>2. cache[i] \in Row
    BY <1>2 DEF ValuesInv, RowsOK
  <2>3. /\ user \in Row /\ user.used = cache[i].used + d
        /\ off \in Row /\ off.used = cache[i].used + d
    BY <2>1, <2>2, RowTypes
  <2>4. cache' = [cache EXCEPT ![i] = user] \/ cache' = [cache EXCEPT ![i] = off]
    BY <1>2 DEF ApplyAcctUpdate
  <2> HIDE DEF d, user, off
  <2>5. /\ cache'[i] \in Row /\ cache'[i].used = cache[i].used + d
        /\ \A j \in Instances : j # i => cache'[j] = cache[j]
    BY <2>3, <2>4 DEF ValuesInv, RowsOK
  <2>6. QED
    BY <1>2, <2>5 DEF d, Row
<1>3. QED
  BY <1>1, <1>2

LEMMA UpdateValues ==
  ASSUME ValuesInv, NEW i \in Instances, NEW s \in Sessions, NEW stop \in BOOLEAN,
         AcctUpdate(i, s, stop)
  PROVE  ValuesInv'
<1>1. nas' \in [Sessions -> {"idle", "accepted", "running", "stopping", "ended"}]
  BY DEF AcctUpdate, ValuesInv, SessionsOK
<1>2. answered' \in [Sessions -> 0 .. MaxReading] /\ \A t \in Sessions : answered'[t] <= reading[t]
  BY DEF AcctUpdate, ValuesInv, SessionsOK, ReadingsPast
<1>3. UNCHANGED <<row, reading, copied, blind>>
  BY DEF AcctUpdate
<1>4. CASE s \notin DOMAIN known[i]
  <2>1. UNCHANGED <<cache, writes, jobs, owed, known, open, charged>>
    BY <1>4 DEF AcctUpdate
  <2>2. RowsOK' /\ ChargesForward'
    BY <1>3, <2>1 DEF ValuesInv, RowsOK, ChargesForward
  <2>3. SessionsOK' /\ ReadingsPast'
    BY <1>1, <1>2, <1>3, <2>1 DEF ValuesInv, SessionsOK, ReadingsPast
  <2>4. QED
    BY <2>2, <2>3 DEF ValuesInv
<1>5. CASE s \in DOMAIN known[i]
  <2>1. ApplyAcctUpdate(i, s, stop)
    BY <1>5 DEF AcctUpdate
  <2> DEFINE d == Delta(i, s)
             from == known[i][s]
             to == reading[s]
  <2>2. /\ d \in Nat /\ d = to - from /\ from \in 0 .. MaxReading /\ to \in 0 .. MaxReading
        /\ from <= to
    BY <1>5, <2>1, UpdateFacts
  <2>3. ReadingsPast'
    BY <1>2, <1>3, <1>5, <2>1, UpdateFacts DEF ValuesInv, ReadingsPast, SessionsOK
  <2>4. open' \in [Instances -> SUBSET Sessions]
    BY <2>1 DEF ApplyAcctUpdate, ValuesInv, SessionsOK
  <2>5. charged' \in [Sessions -> Nat]
    BY <2>1, <2>2 DEF ApplyAcctUpdate, ValuesInv, SessionsOK
  <2>6. ASSUME NEW j \in Instances
        PROVE  /\ DOMAIN known'[j] \subseteq Sessions
               /\ \A t \in DOMAIN known'[j] : known'[j][t] \in 0 .. MaxReading
    BY <1>5, <2>1, UpdateFacts DEF ValuesInv, SessionsOK
  <2>7. SessionsOK'
    BY <1>1, <1>2, <1>3, <1>5, <2>1, <2>4, <2>5, <2>6, UpdateFacts DEF ValuesInv, SessionsOK
  <2>8. CASE cache[i] = Nil
    <3>1. UNCHANGED <<cache, writes, jobs, owed>>
      BY <2>1, <2>8 DEF ApplyAcctUpdate
    <3>2. RowsOK' /\ ChargesForward'
      BY <1>3, <3>1 DEF ValuesInv, RowsOK, ChargesForward
    <3>3. QED
      BY <2>3, <2>7, <3>2 DEF ValuesInv
  <2>9. CASE cache[i] # Nil
    <3>1. cache[i] \in Row
      BY <2>9 DEF ValuesInv, RowsOK
    <3>2. cache' \in [Instances -> Row \cup {Nil}]
      <4> DEFINE user == [cache[i] EXCEPT !.used = @ + d]
      <4>1. user \in Row /\ [user EXCEPT !.enabled = FALSE] \in Row
        BY <2>2, <3>1, RowTypes
      <4>2. \/ cache' = [cache EXCEPT ![i] = user]
            \/ cache' = [cache EXCEPT ![i] = [user EXCEPT !.enabled = FALSE]]
        BY <2>1, <2>9 DEF ApplyAcctUpdate
      <4> HIDE DEF user
      <4>3. QED
        BY <4>1, <4>2 DEF ValuesInv, RowsOK
    <3>3. jobs' \subseteq Instances
      BY <2>1, <2>9 DEF ApplyAcctUpdate, ValuesInv, RowsOK
    <3>4. Units(s, from, to) \subseteq Sessions \X (1 .. MaxReading)
      BY <2>2 DEF Units
    <3>5. owed' = [owed EXCEPT ![i] = @ \cup Units(s, from, to)]
      BY <2>1, <2>9 DEF ApplyAcctUpdate
    <3>6. owed' \in [Instances -> SUBSET (Sessions \X (1 .. MaxReading))]
      BY <3>4, <3>5 DEF ValuesInv, RowsOK
    <3>7. CASE d > 0
      <4>1. writes' = [writes EXCEPT ![i] = @ \cup {Charge(s, from, to)}]
        BY <2>1, <2>9, <3>7 DEF ApplyAcctUpdate
      <4>2. from < to
        BY <2>2, <3>7
      <4>3. Charge(s, from, to) \in Statements /\ Charge(s, from, to).from < Charge(s, from, to).to
        BY <2>2, <4>2, StatementTypes
      <4>4. writes' \in [Instances -> SUBSET Statements] /\ ChargesForward'
        BY <4>1, <4>3 DEF ValuesInv, RowsOK, ChargesForward
      <4>5. QED
        BY <1>3, <2>3, <2>7, <3>2, <3>3, <3>6, <4>4 DEF ValuesInv, RowsOK
    <3>8. CASE ~(d > 0)
      <4>1. writes' = writes
        BY <2>1, <2>9, <3>8 DEF ApplyAcctUpdate
      <4>2. QED
        BY <1>3, <2>3, <2>7, <3>2, <3>3, <3>6, <4>1 DEF ValuesInv, RowsOK, ChargesForward
    <3>9. QED
      BY <3>7, <3>8
  <2>10. QED
    BY <2>8, <2>9
<1>6. QED
  BY <1>4, <1>5

LEMMA ProcessSplit ==
  ASSUME NEW i \in Instances, Process(i) \/ Interruption(i)
  PROVE  /\ MigrationStep(i)
         /\ UNCHANGED <<rowVars, sessionVars>> \/ Forgets(i)
BY DEF Process, Interruption, MigrationStep

LEMMA ValuesStep ==
  ASSUME ValuesInv, [Next]_vars
  PROVE  ValuesInv'
<1>1. CASE UNCHANGED vars
  BY <1>1, ValuesIdle DEF vars
<1>2. ASSUME NEW i \in Instances, Process(i) \/ Interruption(i)
      PROVE  ValuesInv'
  BY <1>2, ProcessSplit, ValuesIdle, ForgetsValues
<1>3. ASSUME NEW i \in Instances, Refresh(i) \/ RejectVoucher(i)
      PROVE  ValuesInv'
  BY <1>3, RefreshValues, RejectValues
<1>4. ASSUME NEW i \in Instances, NEW w \in writes[i], Execute(i, w) \/ StatementFails(i, w)
      PROVE  ValuesInv'
  BY <1>4, StatementValues
<1>5. ASSUME NEW i \in Instances, NEW gone \in SUBSET Sessions, NEW silent \in BOOLEAN,
             Disconnect(i, gone, silent)
      PROVE  ValuesInv'
  BY <1>5, DisconnectValues
<1>6. ASSUME NEW i \in Instances, NEW s \in Sessions,
             \/ Accept(i, s) \/ AcctStart(i, s) \/ Cleanup(i, s)
             \/ \E r \in 0 .. MaxReading : Reconcile(i, s, r)
             \/ \E stop \in BOOLEAN : AcctUpdate(i, s, stop)
      PROVE  ValuesInv'
  BY <1>6, SmallValues, OpenValues, UpdateValues
<1>7. ASSUME NEW s \in Sessions, Traffic(s)
      PROVE  ValuesInv'
  BY <1>7, TrafficValues
<1>8. QED
  BY <1>1, <1>2, <1>3, <1>4, <1>5, <1>6, <1>7 DEF Next

(***************************************************************************)
(* The books of a session that was opened once.  What makes them           *)
(* inductive: one instance at most knows it, none before its start, and    *)
(* one that had the voucher then has it still.                             *)
(***************************************************************************)

BooksOf(s) ==
  /\ \A i, j \in Instances : s \in DOMAIN known[i] /\ s \in DOMAIN known[j] => i = j
  /\ nas[s] \in {"idle", "accepted"} =>
       charged[s] = 0 /\ \A i \in Instances : s \notin DOMAIN known[i]
  /\ charged[s] <= reading[s]
  /\ \A i \in Instances : s \in DOMAIN known[i] =>
       /\ charged[s] <= known[i][s]
       /\ s \notin blind => charged[s] = known[i][s] /\ cache[i] # Nil

Books == \A s \in Sessions \ copied : BooksOf(s)

LEMMA BooksInitially == ASSUME Init PROVE Books
BY DEF Init, Books, BooksOf, EmptyMap

\* Steps that open no session and charge nothing.
LEMMA BooksFrame ==
  ASSUME ValuesInv, ValuesInv', Books, UNCHANGED <<known, charged, copied, blind>>,
         \A s \in Sessions : reading[s] <= reading'[s],
         \A s \in Sessions : nas'[s] \in {"idle", "accepted"} => nas[s] \in {"idle", "accepted"},
         \A i \in Instances : cache[i] # Nil => cache'[i] # Nil
  PROVE  Books'
<1> SUFFICES ASSUME NEW s \in Sessions, s \notin copied PROVE BooksOf(s)'
  BY DEF Books
<1>1. BooksOf(s)
  BY DEF Books
<1>2. charged[s] \in Nat /\ reading[s] \in Nat /\ reading'[s] \in Nat
  BY DEF ValuesInv, SessionsOK
<1>3. QED
  BY <1>1, <1>2 DEF BooksOf

LEMMA ForgetsBooks ==
  ASSUME ValuesInv, Books, NEW i \in Instances, Forgets(i)
  PROVE  Books'
<1>1. known' = [known EXCEPT ![i] = EmptyMap] /\ DOMAIN EmptyMap = {}
  BY DEF Forgets, EmptyMap
<1>2. ASSUME NEW j \in Instances
      PROVE  known'[j] = (IF j = i THEN EmptyMap ELSE known[j]) /\ (j # i => cache'[j] = cache[j])
  BY <1>1 DEF ValuesInv, SessionsOK, RowsOK, Forgets
<1> SUFFICES ASSUME NEW s \in Sessions, s \notin copied PROVE BooksOf(s)'
  BY DEF Books, Forgets, historyVars
<1>3. BooksOf(s)
  BY DEF Books
<1>4. UNCHANGED <<nas, reading, charged, blind>>
  BY DEF Forgets, historyVars
<1>5. QED
  BY <1>1, <1>2, <1>3, <1>4 DEF BooksOf

LEMMA StartBooks ==
  ASSUME ValuesInv, Books, NEW i \in Instances, NEW s \in Sessions, AcctStart(i, s)
  PROVE  Books'
<1>1. /\ Opens(i, s, 0) /\ 0 \in 0 .. MaxReading
      /\ nas' = [nas EXCEPT ![s] = "running"]
      /\ UNCHANGED <<cache, reading, charged>>
  BY DEF AcctStart, rowVars, Opens
<1>2. /\ \A j \in Instances : j # i => known'[j] = known[j]
      /\ DOMAIN known'[i] = DOMAIN known[i] \cup {s} /\ known'[i][s] = 0
      /\ \A k \in DOMAIN known[i] : k # s => known'[i][k] = known[i][k]
  BY <1>1, OpenedMap DEF ValuesInv
<1> SUFFICES ASSUME NEW t \in Sessions, t \notin copied' PROVE BooksOf(t)'
  BY DEF Books
<1>3. t \notin copied /\ BooksOf(t)
  BY DEF Books, AcctStart
<1>4. blind' = IF cache[i] = Nil THEN blind \cup {s} ELSE blind
  BY DEF AcctStart
<1>5. CASE t = s
  <2>1. nas[s] = "accepted"
    BY <1>5 DEF AcctStart
  <2>2. charged[s] = 0 /\ \A j \in Instances : s \notin DOMAIN known[j]
    BY <1>3, <1>5, <2>1 DEF BooksOf
  <2>3. \A j \in Instances : s \in DOMAIN known'[j] => j = i /\ known'[j][s] = 0
    BY <1>2, <2>2
  <2>4. nas'[s] = "running"
    BY <1>1 DEF ValuesInv, SessionsOK
  <2>5. s \notin blind' => cache'[i] # Nil
    BY <1>1, <1>4
  <2>6. charged'[s] = 0 /\ reading'[s] \in Nat
    BY <1>1, <2>2 DEF ValuesInv, SessionsOK
  <2>7. QED
    BY <1>5, <2>3, <2>4, <2>5, <2>6 DEF BooksOf
<1>6. CASE t # s
  <2>1. \A j \in Instances : /\ t \in DOMAIN known'[j] <=> t \in DOMAIN known[j]
                             /\ t \in DOMAIN known[j] => known'[j][t] = known[j][t]
    BY <1>2, <1>6
  <2>2. nas'[t] = nas[t] /\ (t \in blind' <=> t \in blind)
    BY <1>1, <1>4, <1>6 DEF ValuesInv, SessionsOK
  <2>3. QED
    BY <1>1, <1>3, <2>1, <2>2 DEF BooksOf
<1>7. QED
  BY <1>5, <1>6

LEMMA ReconcileBooks ==
  ASSUME ValuesInv, Books, NEW i \in Instances, NEW s \in Sessions,
         NEW r \in 0 .. MaxReading, Reconcile(i, s, r)
  PROVE  Books'
<1>1. /\ Opens(i, s, r)
      /\ copied' = copied \cup {s}
      /\ UNCHANGED <<cache, nas, reading, charged, blind>>
  BY DEF Reconcile, rowVars, Opens
<1> SUFFICES ASSUME NEW t \in Sessions, t \notin copied' PROVE BooksOf(t)'
  BY DEF Books
<1>2. t # s /\ BooksOf(t)
  BY <1>1 DEF Books
<1>3. /\ \A j \in Instances : j # i => known'[j] = known[j]
      /\ DOMAIN known'[i] = DOMAIN known[i] \cup {s} /\ known'[i][s] = r
      /\ \A k \in DOMAIN known[i] : k # s => known'[i][k] = known[i][k]
  BY <1>1, OpenedMap DEF ValuesInv
<1>4. \A j \in Instances : /\ t \in DOMAIN known'[j] <=> t \in DOMAIN known[j]
                           /\ t \in DOMAIN known[j] => known'[j][t] = known[j][t]
  BY <1>2, <1>3
<1>5. QED
  BY <1>1, <1>2, <1>4 DEF BooksOf

LEMMA UpdateBooks ==
  ASSUME ValuesInv, ValuesInv', Books, NEW i \in Instances, NEW s \in Sessions,
         NEW stop \in BOOLEAN, AcctUpdate(i, s, stop)
  PROVE  Books'
<1>1. UNCHANGED <<reading, copied, blind>>
  BY DEF AcctUpdate
<1>2. \A t \in Sessions : nas'[t] \in {"idle", "accepted"} => nas[t] \in {"idle", "accepted"}
  BY DEF AcctUpdate, ValuesInv, SessionsOK
<1>3. CASE s \notin DOMAIN known[i]
  <2>1. UNCHANGED <<cache, known, charged>>
    BY <1>3 DEF AcctUpdate
  <2>2. \A t \in Sessions : reading[t] <= reading'[t]
    BY <1>1 DEF ValuesInv, SessionsOK
  <2>3. QED
    BY <1>1, <1>2, <2>1, <2>2, BooksFrame
<1>4. CASE s \in DOMAIN known[i]
  <2>1. ApplyAcctUpdate(i, s, stop)
    BY <1>4 DEF AcctUpdate
  <2> SUFFICES ASSUME NEW t \in Sessions, t \notin copied PROVE BooksOf(t)'
    BY <1>1 DEF Books
  <2>2. BooksOf(t)
    BY DEF Books
  <2>3. \A j \in Instances : DOMAIN known'[j] = DOMAIN known[j]
    BY <1>4, <2>1, UpdateFacts
  <2>4. \A j \in Instances : cache[j] # Nil => cache'[j] # Nil
    BY <2>1, <1>4, UpdateCache
  <2>5. nas[s] \notin {"idle", "accepted"}
    BY DEF AcctUpdate
  <2>6. CASE t # s
    <3>1. charged'[t] = charged[t]
      BY <2>1, <2>6 DEF ApplyAcctUpdate, ValuesInv, SessionsOK
    <3>2. \A j \in Instances : t \in DOMAIN known[j] => known'[j][t] = known[j][t]
      BY <1>4, <2>1, <2>6, UpdateFacts
    <3>3. QED
      BY <1>1, <1>2, <2>2, <2>3, <2>4, <3>1, <3>2 DEF BooksOf
  <2>7. CASE t = s
    <3>1. \A j \in Instances : s \in DOMAIN known[j] => j = i
      BY <1>4, <2>2, <2>7 DEF BooksOf
    <3>2. /\ charged[s] \in Nat /\ charged[s] <= known[i][s]
          /\ s \notin blind => charged[s] = known[i][s] /\ cache[i] # Nil
      BY <1>4, <2>2, <2>7 DEF BooksOf, ValuesInv, SessionsOK
    <3>3. /\ known'[i][s] = reading[s] /\ known[i][s] \in Nat /\ reading[s] \in Nat
          /\ known[i][s] <= reading[s] /\ Delta(i, s) = reading[s] - known[i][s]
      BY <1>4, <2>1, UpdateFacts
    <3>4. charged'[s] = IF cache[i] = Nil THEN charged[s]
                        ELSE charged[s] + (reading[s] - known[i][s])
      BY <2>1, <3>3 DEF ApplyAcctUpdate, ValuesInv, SessionsOK
    <3>5. charged'[s] <= reading[s] /\ (s \notin blind => charged'[s] = reading[s])
      BY <3>2, <3>3, <3>4
    <3>6. QED
      BY <1>1, <1>2, <1>4, <2>2, <2>3, <2>4, <2>5, <2>7, <3>1, <3>2, <3>3, <3>5 DEF BooksOf
  <2>8. QED
    BY <2>6, <2>7
<1>5. QED
  BY <1>3, <1>4

\* The steps of the frame lemma.
LEMMA QuietBooks ==
  ASSUME ValuesInv, ValuesInv', Books, NEW i \in Instances,
         \/ UNCHANGED <<rowVars, sessionVars>>
         \/ Refresh(i) \/ RejectVoucher(i)
         \/ \E w \in writes[i] : Execute(i, w) \/ StatementFails(i, w)
         \/ \E gone \in SUBSET Sessions, silent \in BOOLEAN : Disconnect(i, gone, silent)
         \/ \E s \in Sessions : Accept(i, s) \/ Cleanup(i, s)
  PROVE  Books'
<1>1. UNCHANGED <<known, reading, charged, copied, blind>>
  BY DEF Refresh, RejectVoucher, Execute, StatementFails, Disconnect, Accept, Cleanup,
         rowVars, sessionVars, historyVars
<1>2. \A s \in Sessions : reading[s] <= reading'[s]
  BY <1>1 DEF ValuesInv, SessionsOK
<1>3. \A s \in Sessions : nas'[s] \in {"idle", "accepted"} => nas[s] \in {"idle", "accepted"}
  <2>1. CASE \E s \in Sessions : Accept(i, s)
    BY <2>1 DEF Accept, ValuesInv, SessionsOK
  <2>2. CASE \E gone \in SUBSET Sessions, silent \in BOOLEAN : Disconnect(i, gone, silent)
    BY <2>2 DEF Disconnect
  <2>3. CASE UNCHANGED nas
    BY <2>3
  <2>4. QED
    BY <2>1, <2>2, <2>3 DEF Refresh, RejectVoucher, Execute, StatementFails, Cleanup,
       rowVars, sessionVars, historyVars
<1>4. \A j \in Instances : cache[j] # Nil => cache'[j] # Nil
  <2>1. CASE Refresh(i)
    BY <2>1 DEF Refresh, ValuesInv, RowsOK, Merge, Row
  <2>2. CASE RejectVoucher(i)
    <3>1. cache[i] # Nil /\ cache' = [cache EXCEPT ![i] = [@ EXCEPT !.enabled = FALSE]]
      BY <2>2 DEF RejectVoucher, Enabled
    <3>2. [cache[i] EXCEPT !.enabled = FALSE] \in Row
      BY <3>1, Disabled DEF ValuesInv, RowsOK
    <3>3. QED
      BY <3>1, <3>2 DEF ValuesInv, RowsOK, Row
  <2>3. CASE UNCHANGED cache
    BY <2>3
  <2>4. QED
    BY <2>1, <2>2, <2>3 DEF Execute, StatementFails, Disconnect, Accept, Cleanup, rowVars
<1>5. QED
  BY <1>1, <1>2, <1>3, <1>4, BooksFrame

LEMMA BooksStep ==
  ASSUME ValuesInv, ValuesInv', Books, [Next]_vars
  PROVE  Books'
<1>1. CASE UNCHANGED vars
  <2>1. UNCHANGED <<known, charged, copied, blind, nas, cache, reading>>
    BY <1>1 DEF vars, rowVars, sessionVars, historyVars
  <2>2. QED
    BY <2>1, BooksFrame DEF ValuesInv, SessionsOK
<1>2. ASSUME NEW i \in Instances, Process(i) \/ Interruption(i)
      PROVE  Books'
  BY <1>2, ProcessSplit, QuietBooks, ForgetsBooks
<1>3. ASSUME NEW i \in Instances,
             \/ Refresh(i) \/ RejectVoucher(i)
             \/ \E w \in writes[i] : Execute(i, w) \/ StatementFails(i, w)
             \/ \E gone \in SUBSET Sessions, silent \in BOOLEAN : Disconnect(i, gone, silent)
             \/ \E s \in Sessions : Accept(i, s) \/ Cleanup(i, s)
      PROVE  Books'
  BY <1>3, QuietBooks
<1>4. ASSUME NEW i \in Instances, NEW s \in Sessions,
             \/ AcctStart(i, s)
             \/ \E r \in 0 .. MaxReading : Reconcile(i, s, r)
             \/ \E stop \in BOOLEAN : AcctUpdate(i, s, stop)
      PROVE  Books'
  BY <1>4, StartBooks, ReconcileBooks, UpdateBooks
<1>5. ASSUME NEW s \in Sessions, Traffic(s)
      PROVE  Books'
  <2>1. UNCHANGED <<known, charged, copied, blind, nas, cache>>
    BY <1>5 DEF Traffic, rowVars, historyVars
  <2>2. \A t \in Sessions : reading[t] <= reading'[t]
    BY <1>5 DEF Traffic, ValuesInv, SessionsOK
  <2>3. QED
    BY <2>1, <2>2, BooksFrame
<1>6. QED
  BY <1>1, <1>2, <1>3, <1>4, <1>5 DEF Next

LEMMA BooksImply == Books => SessionBooks
BY DEF Books, BooksOf, SessionBooks

(***************************************************************************)
(* The caches against the row.  What makes it inductive: an instance owes  *)
(* only units it has charged, up to its last reading of a session it       *)
(* knows, so that the units of the next charge are new.                    *)
(***************************************************************************)

OwedIsCharged ==
  \A i \in Instances :
    /\ IsFiniteSet(owed[i])
    /\ \A s \in Sessions, n \in 1 .. MaxReading :
         <<s, n>> \in owed[i] => s \in DOMAIN known[i] /\ n <= known[i][s]

Ahead == OwedIsCharged /\ NoInstanceAhead

LEMMA AheadInitially == ASSUME Init PROVE Ahead
BY FS_EmptySet DEF Init, Ahead, OwedIsCharged, NoInstanceAhead

LEMMA UnitsSize ==
  ASSUME NEW s, NEW from \in Nat, NEW to \in Nat, from <= to
  PROVE  IsFiniteSet(Units(s, from, to)) /\ Cardinality(Units(s, from, to)) = to - from
<1>1. IsFiniteSet({s}) /\ Cardinality({s}) = 1
  BY FS_Singleton
<1>2. /\ IsFiniteSet(from + 1 .. to)
      /\ Cardinality(from + 1 .. to) = to - from
  <2>1. from + 1 \in Int /\ to \in Int
    OBVIOUS
  <2>2. /\ IsFiniteSet(from + 1 .. to)
        /\ Cardinality(from + 1 .. to) = IF from + 1 > to THEN 0 ELSE to - (from + 1) + 1
    BY <2>1, FS_Interval
  <2>3. QED
    BY <2>2
<1>3. /\ IsFiniteSet({s} \X (from + 1 .. to))
      /\ Cardinality({s} \X (from + 1 .. to)) = Cardinality({s}) * Cardinality(from + 1 .. to)
  BY <1>1, <1>2, FS_Product
<1>4. QED
  BY <1>1, <1>2, <1>3 DEF Units

\* The instances that a step does not concern: the row has not lost usage.
LEMMA AheadOthers ==
  ASSUME ValuesInv, ValuesInv', Ahead, NEW j \in Instances, row.used <= row'.used,
         cache'[j] = cache[j], owed'[j] = owed[j], cache'[j] # Nil
  PROVE  cache'[j].used <= row'.used + Cardinality(owed'[j])
<1>1. cache[j].used <= row.used + Cardinality(owed[j])
  BY DEF Ahead, NoInstanceAhead
<1>2. Cardinality(owed[j]) \in Nat
  BY FS_CardinalityType DEF Ahead, OwedIsCharged
<1>3. cache[j].used \in Nat /\ row.used \in Nat /\ row'.used \in Nat
  BY DEF ValuesInv, RowsOK, Row
<1>4. QED
  BY <1>1, <1>2, <1>3

\* Steps that charge nothing and write nothing to the row: the caches stay,
\* or are not above the row.
LEMMA AheadFrame ==
  ASSUME ValuesInv, ValuesInv', Ahead, row'.used = row.used, UNCHANGED owed,
         \A i \in Instances : \A s \in DOMAIN known[i] :
           s \in DOMAIN known'[i] /\ known[i][s] <= known'[i][s],
         \A i \in Instances : cache'[i] # Nil =>
           \/ cache'[i].used <= row.used
           \/ cache[i] # Nil /\ cache'[i].used = cache[i].used
  PROVE  Ahead'
<1>1. OwedIsCharged'
  <2>1. \A i \in Instances : \A s \in DOMAIN known[i] :
          known[i][s] \in Nat /\ known'[i][s] \in Nat
    BY DEF ValuesInv, SessionsOK
  <2>2. QED
    BY <2>1 DEF Ahead, OwedIsCharged
<1>2. ASSUME NEW j \in Instances, cache'[j] # Nil
      PROVE  cache'[j].used <= row'.used + Cardinality(owed'[j])
  <2>1. Cardinality(owed[j]) \in Nat
    BY FS_CardinalityType DEF Ahead, OwedIsCharged
  <2>2. cache'[j].used \in Nat /\ row.used \in Nat
    BY <1>2 DEF ValuesInv, RowsOK, Row
  <2>3. CASE cache'[j].used <= row.used
    BY <2>1, <2>2, <2>3
  <2>4. CASE cache[j] # Nil /\ cache'[j].used = cache[j].used
    BY <2>4 DEF Ahead, NoInstanceAhead
  <2>5. QED
    BY <1>2, <2>3, <2>4
<1>3. QED
  BY <1>1, <1>2 DEF Ahead, NoInstanceAhead

LEMMA QuietAhead ==
  ASSUME ValuesInv, ValuesInv', Ahead, NEW i \in Instances,
         \/ UNCHANGED <<rowVars, sessionVars>>
         \/ Refresh(i) \/ RejectVoucher(i)
         \/ \E w \in writes[i] : StatementFails(i, w)
         \/ \E gone \in SUBSET Sessions, silent \in BOOLEAN : Disconnect(i, gone, silent)
         \/ \E s \in Sessions : Accept(i, s) \/ Cleanup(i, s) \/ Traffic(s)
  PROVE  Ahead'
<1>1. UNCHANGED <<row, owed, known>>
  BY DEF Refresh, RejectVoucher, StatementFails, Disconnect, Accept, Cleanup, Traffic,
         rowVars, sessionVars, historyVars
<1>2. \A j \in Instances : \A s \in DOMAIN known[j] :
        s \in DOMAIN known'[j] /\ known[j][s] <= known'[j][s]
  BY <1>1 DEF ValuesInv, SessionsOK
<1>3. ASSUME NEW j \in Instances, cache'[j] # Nil
      PROVE  \/ cache'[j].used <= row.used
             \/ cache[j] # Nil /\ cache'[j].used = cache[j].used
  <2>1. CASE Refresh(i)
    <3>1. j # i => cache'[j] = cache[j]
      BY <2>1 DEF Refresh, ValuesInv, RowsOK
    <3>2. j = i => cache'[j] = IF cache[j] = Nil THEN row ELSE Merge(cache[j], row)
      BY <2>1 DEF Refresh, ValuesInv, RowsOK
    <3>3. row \in Row /\ row.used \in Nat /\ (cache[j] # Nil => cache[j].used \in Nat)
      BY DEF ValuesInv, RowsOK, Row
    <3>4. \/ Merge(cache[j], row).used = row.used
          \/ Merge(cache[j], row).used = cache[j].used
      BY DEF Merge
    <3>5. QED
      BY <1>3, <3>1, <3>2, <3>3, <3>4
  <2>2. CASE RejectVoucher(i)
    <3>1. cache[i] # Nil /\ cache' = [cache EXCEPT ![i] = [@ EXCEPT !.enabled = FALSE]]
      BY <2>2 DEF RejectVoucher, Enabled
    <3>2. [cache[i] EXCEPT !.enabled = FALSE].used = cache[i].used
      BY <3>1, Disabled DEF ValuesInv, RowsOK
    <3>3. QED
      BY <1>3, <3>1, <3>2 DEF ValuesInv, RowsOK
  <2>3. CASE UNCHANGED cache
    BY <1>3, <2>3
  <2>4. QED
    BY <2>1, <2>2, <2>3 DEF StatementFails, Disconnect, Accept, Cleanup, Traffic, rowVars
<1>4. QED
  BY <1>1, <1>2, <1>3, AheadFrame

LEMMA ForgetsAhead ==
  ASSUME ValuesInv, ValuesInv', Ahead, NEW i \in Instances, Forgets(i)
  PROVE  Ahead'
<1>1. /\ cache'[i] = Nil /\ owed'[i] = {}
      /\ \A j \in Instances : j # i => /\ cache'[j] = cache[j] /\ owed'[j] = owed[j]
                                       /\ known'[j] = known[j]
      /\ row' = row
  BY DEF Forgets, ValuesInv, RowsOK, SessionsOK
<1>2. OwedIsCharged'
  BY <1>1, FS_EmptySet DEF Ahead, OwedIsCharged
<1>3. NoInstanceAhead'
  BY <1>1 DEF Ahead, NoInstanceAhead
<1>4. QED
  BY <1>2, <1>3 DEF Ahead

LEMMA OpenAhead ==
  ASSUME ValuesInv, ValuesInv', Ahead, NEW i \in Instances, NEW s \in Sessions,
         AcctStart(i, s) \/ \E r \in 0 .. MaxReading : Reconcile(i, s, r)
  PROVE  Ahead'
<1>1. PICK r \in 0 .. MaxReading : Opens(i, s, r)
  <2>1. 0 \in 0 .. MaxReading
    OBVIOUS
  <2>2. QED
    BY <2>1 DEF AcctStart, Reconcile, Opens
<1>2. s \notin DOMAIN known[i] /\ UNCHANGED <<row, cache, owed>>
  BY DEF AcctStart, Reconcile, rowVars
<1>3. /\ \A j \in Instances : j # i => known'[j] = known[j]
      /\ DOMAIN known'[i] = DOMAIN known[i] \cup {s}
      /\ \A t \in DOMAIN known[i] : t # s => known'[i][t] = known[i][t]
  BY <1>1, OpenedMap DEF ValuesInv
<1>4. \A j \in Instances : \A t \in DOMAIN known[j] :
        t \in DOMAIN known'[j] /\ known[j][t] = known'[j][t] /\ known[j][t] \in Nat
  BY <1>2, <1>3 DEF ValuesInv, SessionsOK
<1>5. QED
  BY <1>2, <1>4, AheadFrame

\* A statement adds to the row what its instance ceases to owe.
LEMMA ExecuteAhead ==
  ASSUME ValuesInv, ValuesInv', Ahead, NEW i \in Instances, NEW w \in writes[i], Execute(i, w)
  PROVE  Ahead'
<1>1. UNCHANGED <<cache, known>> /\ row \in Row /\ row' \in Row
  BY DEF Execute, sessionVars, ValuesInv, RowsOK
<1>2. CASE w = Disable
  <2>1. row'.used = row.used /\ owed' = owed
    BY <1>1, <1>2 DEF Execute, ValuesInv, RowsOK, Row
  <2>2. \A j \in Instances : \A t \in DOMAIN known[j] : known[j][t] \in Nat
    BY DEF ValuesInv, SessionsOK
  <2>3. QED
    BY <1>1, <2>1, <2>2, AheadFrame
<1>3. CASE w # Disable
  <2>1. w.from \in Nat /\ w.to \in Nat /\ w.from < w.to
    BY <1>3, StatementTypes DEF ValuesInv, RowsOK, ChargesForward
  <2> DEFINE U == Units(w.s, w.from, w.to)
  <2>2. IsFiniteSet(U) /\ Cardinality(U) = w.to - w.from
    BY <2>1, UnitsSize
  <2>3. row'.used = row.used + (w.to - w.from)
    BY <1>1, <1>3, <2>1 DEF Execute, Row
  <2>4. /\ owed'[i] = owed[i] \ U
        /\ \A j \in Instances : j # i => owed'[j] = owed[j]
    BY <1>3 DEF Execute, ValuesInv, RowsOK
  <2> HIDE DEF U
  <2>5. IsFiniteSet(owed[i])
    BY DEF Ahead, OwedIsCharged
  <2>6. /\ IsFiniteSet(owed'[i])
        /\ Cardinality(owed'[i]) = Cardinality(owed[i]) - Cardinality(owed[i] \cap U)
    <3>1. /\ IsFiniteSet(owed[i] \ U)
          /\ Cardinality(owed[i] \ U) = Cardinality(owed[i]) - Cardinality(owed[i] \cap U)
      BY <2>5, FS_Difference
    <3>2. QED
      BY <2>4, <3>1
  <2>7. /\ Cardinality(owed[i] \cap U) \in Nat /\ Cardinality(owed[i]) \in Nat
        /\ Cardinality(owed[i] \cap U) <= w.to - w.from
    <3>1. owed[i] \cap U \in SUBSET U
      OBVIOUS
    <3>2. QED
      BY <2>2, <2>5, <3>1, FS_Subset, FS_CardinalityType
  <2>8. OwedIsCharged'
    BY <1>1, <2>4, <2>6 DEF Ahead, OwedIsCharged
  <2>9. ASSUME NEW j \in Instances, cache'[j] # Nil
        PROVE  cache'[j].used <= row'.used + Cardinality(owed'[j])
    <3>1. CASE j = i
      <4>1. cache[i].used <= row.used + Cardinality(owed[i])
        BY <1>1, <2>9, <3>1 DEF Ahead, NoInstanceAhead
      <4>2. cache[i].used \in Nat /\ row.used \in Nat
        BY <1>1, <2>9, <3>1 DEF ValuesInv, RowsOK, Row
      <4>3. QED
        BY <1>1, <2>1, <2>3, <2>6, <2>7, <3>1, <4>1, <4>2
    <3>2. CASE j # i
      <4>1. row.used \in Nat
        BY <1>1 DEF Row
      <4>2. row.used <= row'.used
        BY <2>1, <2>3, <4>1
      <4>3. QED
        BY <1>1, <2>4, <2>9, <3>2, <4>2, AheadOthers
    <3>3. QED
      BY <3>1, <3>2
  <2>10. QED
    BY <2>8, <2>9 DEF Ahead, NoInstanceAhead
<1>4. QED
  BY <1>2, <1>3

\* The units that an update charges are new to its instance.
LEMMA NewUnits ==
  ASSUME ValuesInv, Ahead, NEW i \in Instances, NEW s \in DOMAIN known[i], NEW to \in Nat
  PROVE  owed[i] \cap Units(s, known[i][s], to) = {}
<1> DEFINE from == known[i][s]
<1>0. s \in Sessions /\ from \in Nat
  BY DEF ValuesInv, SessionsOK
<1>1. \A n \in 1 .. MaxReading : <<s, n>> \in owed[i] => n <= from
  BY <1>0 DEF Ahead, OwedIsCharged
<1>2. owed[i] \subseteq Sessions \X (1 .. MaxReading)
  BY DEF ValuesInv, RowsOK
<1>3. \A u \in Units(s, from, to) : \E n \in from + 1 .. to : u = <<s, n>>
  BY DEF Units
<1>4. ASSUME NEW u \in owed[i], u \in Units(s, from, to) PROVE FALSE
  <2>1. PICK n \in from + 1 .. to : u = <<s, n>>
    BY <1>3, <1>4
  <2>2. n \in 1 .. MaxReading
    BY <1>2, <2>1
  <2>3. n <= from
    BY <1>1, <2>1, <2>2
  <2>4. QED
    BY <1>0, <2>1, <2>3
<1>5. QED
  BY <1>4

\* An update adds to the cache what its instance then owes: the units are new.
LEMMA UpdateAhead ==
  ASSUME ValuesInv, ValuesInv', Ahead, NEW i \in Instances, NEW s \in Sessions,
         NEW stop \in BOOLEAN, AcctUpdate(i, s, stop)
  PROVE  Ahead'
<1>1. row' = row
  BY DEF AcctUpdate
<1>2. \A j \in Instances : \A t \in DOMAIN known[j] : t \in Sessions /\ known[j][t] \in Nat
  BY DEF ValuesInv, SessionsOK
<1>3. CASE s \notin DOMAIN known[i]
  <2>1. UNCHANGED <<cache, owed, known>>
    BY <1>3 DEF AcctUpdate
  <2>2. QED
    BY <1>1, <1>2, <2>1, AheadFrame
<1>4. CASE s \in DOMAIN known[i]
  <2> DEFINE from == known[i][s]
             to == reading[s]
             U == Units(s, from, to)
  <2>1. ApplyAcctUpdate(i, s, stop)
    BY <1>4 DEF AcctUpdate
  <2>2. from \in Nat /\ to \in Nat /\ from <= to /\ Delta(i, s) = to - from
    BY <1>4, <2>1, UpdateFacts
  <2>3. /\ \A j \in Instances : DOMAIN known'[j] = DOMAIN known[j]
        /\ known'[i][s] = to
        /\ \A j \in Instances : \A t \in DOMAIN known[j] :
             j # i \/ t # s => known'[j][t] = known[j][t]
    BY <1>4, <2>1, UpdateFacts
  <2>4. \A j \in Instances : \A t \in DOMAIN known[j] :
          t \in DOMAIN known'[j] /\ known[j][t] <= known'[j][t] /\ known'[j][t] \in Nat
    BY <1>2, <2>2, <2>3
  <2>5. CASE cache[i] = Nil
    <3>1. UNCHANGED <<cache, owed>>
      BY <2>1, <2>5 DEF ApplyAcctUpdate
    <3>2. QED
      BY <1>1, <2>4, <3>1, AheadFrame
  <2>6. CASE cache[i] # Nil
    <3>1. owed' = [owed EXCEPT ![i] = @ \cup U]
      BY <2>1, <2>6 DEF ApplyAcctUpdate
    <3>2. /\ owed'[i] = owed[i] \cup U
          /\ \A j \in Instances : j # i => owed'[j] = owed[j]
      BY <3>1 DEF ValuesInv, RowsOK
    <3>3. IsFiniteSet(U) /\ Cardinality(U) = to - from
      BY <2>2, UnitsSize
    <3>4. owed[i] \cap U = {}
      BY <1>4, <2>2, NewUnits
    <3>5. OwedIsCharged'
      <4>1. \A j \in Instances : IsFiniteSet(owed'[j])
        <5>1. IsFiniteSet(owed[i] \cup U)
          BY <3>3, FS_Union DEF Ahead, OwedIsCharged
        <5>2. QED
          BY <3>2, <5>1 DEF Ahead, OwedIsCharged
      <4>2. ASSUME NEW j \in Instances, NEW t \in Sessions, NEW n \in 1 .. MaxReading,
                   <<t, n>> \in owed'[j]
            PROVE  t \in DOMAIN known'[j] /\ n <= known'[j][t]
        <5>1. CASE <<t, n>> \in owed[j]
          <6>1. t \in DOMAIN known[j] /\ n <= known[j][t]
            BY <5>1 DEF Ahead, OwedIsCharged
          <6>2. QED
            BY <1>2, <2>4, <6>1
        <5>2. CASE <<t, n>> \notin owed[j]
          <6>1. j = i /\ <<t, n>> \in U
            BY <3>2, <4>2, <5>2
          <6>2. t = s /\ n <= to
            BY <2>2, <6>1 DEF Units
          <6>3. QED
            BY <1>4, <2>3, <6>1, <6>2
        <5>3. QED
          BY <5>1, <5>2
      <4>3. QED
        BY <4>1, <4>2 DEF OwedIsCharged
    <3>6. ASSUME NEW j \in Instances, cache'[j] # Nil
          PROVE  cache'[j].used <= row'.used + Cardinality(owed'[j])
      <4>1. CASE j = i
        <5>1. cache'[i].used = cache[i].used + (to - from)
          BY <1>4, <2>1, <2>2, <2>6, UpdateCache
        <5>2. cache[i].used <= row.used + Cardinality(owed[i])
          BY <2>6 DEF Ahead, NoInstanceAhead
        <5>3. Cardinality(owed'[i]) = Cardinality(owed[i]) + (to - from)
          <6>1. IsFiniteSet(owed[i]) /\ Cardinality(owed[i]) \in Nat
            BY FS_CardinalityType DEF Ahead, OwedIsCharged
          <6>2. Cardinality(owed[i] \cup U)
                  = Cardinality(owed[i]) + Cardinality(U) - Cardinality(owed[i] \cap U)
            BY <3>3, <6>1, FS_Union
          <6>3. Cardinality(owed[i] \cap U) = 0
            BY <3>4, FS_EmptySet
          <6>4. QED
            BY <2>2, <3>2, <3>3, <6>1, <6>2, <6>3
        <5>4. cache[i].used \in Nat /\ row.used \in Nat /\ Cardinality(owed[i]) \in Nat
          BY <2>6, FS_CardinalityType DEF ValuesInv, RowsOK, Row, Ahead, OwedIsCharged
        <5>5. QED
          BY <1>1, <2>2, <4>1, <5>1, <5>2, <5>3, <5>4
      <4>2. CASE j # i
        <5>1. cache'[j] = cache[j] /\ row.used <= row'.used
          BY <1>1, <1>4, <2>1, <4>2, UpdateCache DEF ValuesInv, RowsOK, Row
        <5>2. QED
          BY <3>2, <3>6, <4>2, <5>1, AheadOthers
      <4>3. QED
        BY <4>1, <4>2
    <3>7. QED
      BY <3>5, <3>6 DEF Ahead, NoInstanceAhead
  <2>7. QED
    BY <2>5, <2>6
<1>5. QED
  BY <1>3, <1>4

LEMMA AheadStep ==
  ASSUME ValuesInv, ValuesInv', Ahead, [Next]_vars
  PROVE  Ahead'
<1>1. CASE UNCHANGED vars
  BY <1>1 DEF vars, rowVars, sessionVars, Ahead, OwedIsCharged, NoInstanceAhead
<1>2. ASSUME NEW i \in Instances, Process(i) \/ Interruption(i)
      PROVE  Ahead'
  BY <1>2, ProcessSplit, QuietAhead, ForgetsAhead
<1>3. ASSUME NEW i \in Instances,
             \/ Refresh(i) \/ RejectVoucher(i)
             \/ \E w \in writes[i] : StatementFails(i, w)
             \/ \E gone \in SUBSET Sessions, silent \in BOOLEAN : Disconnect(i, gone, silent)
             \/ \E s \in Sessions : Accept(i, s) \/ Cleanup(i, s)
      PROVE  Ahead'
  BY <1>3, QuietAhead
<1>4. ASSUME NEW i \in Instances, NEW w \in writes[i], Execute(i, w)
      PROVE  Ahead'
  BY <1>4, ExecuteAhead
<1>5. ASSUME NEW i \in Instances, NEW s \in Sessions,
             \/ AcctStart(i, s)
             \/ \E r \in 0 .. MaxReading : Reconcile(i, s, r)
             \/ \E stop \in BOOLEAN : AcctUpdate(i, s, stop)
      PROVE  Ahead'
  BY <1>5, OpenAhead, UpdateAhead
<1>6. ASSUME NEW s \in Sessions, Traffic(s)
      PROVE  Ahead'
  <2>1. UNCHANGED rowVars /\ UNCHANGED known
    BY <1>6 DEF Traffic
  <2>2. QED
    BY <2>1 DEF rowVars, Ahead, OwedIsCharged, NoInstanceAhead
<1>7. QED
  BY <1>1, <1>2, <1>3, <1>4, <1>5, <1>6 DEF Next

(***************************************************************************)
(* The usage that is counted and the traffic that was made.  What makes it *)
(* inductive: the row's usage is that of a set W of units of traffic, each *)
(* written once, because no instance owes a unit of W or will charge it    *)
(* again; and the units of an instance's statements are among those it     *)
(* owes, each in one statement.                                            *)
(***************************************************************************)

Part(w) == Units(w.s, w.from, w.to)

StatementsOwed ==
  \A i \in Instances :
    /\ \A w \in writes[i] : w # Disable => Part(w) \subseteq owed[i]
    /\ \A w, v \in writes[i] :
         w # Disable /\ v # Disable /\ w # v => Part(w) \cap Part(v) = {}

\* The units of W are in the row.
Written(W) ==
  /\ W \subseteq Used
  /\ IsFiniteSet(W)
  /\ row.used <= Cardinality(W)
  /\ \A i \in Instances :
       /\ W \cap owed[i] = {}
       /\ \A u \in W : u[1] \in DOMAIN known[i] => u[2] <= known[i][u[1]]

Traffics ==
  /\ IsFiniteSet(Used)
  /\ \A s \in Sessions : nas[s] \in {"idle", "accepted"} => reading[s] = 0

Earned == Traffics /\ StatementsOwed /\ (copied = {} => \E W : Written(W))

LEMMA EarnedInitially == ASSUME Init PROVE Earned
<1>1. reading = [s \in Sessions |-> 0]
  BY DEF Init
<1>2. Used = {}
  BY <1>1 DEF Used
<1>3. Written({})
  BY <1>2, FS_EmptySet DEF Init, Written
<1>4. QED
  BY <1>1, <1>2, <1>3, FS_EmptySet DEF Init, Earned, Traffics, StatementsOwed

LEMMA PartFacts ==
  ASSUME ValuesInv, NEW i \in Instances, NEW w \in writes[i], w # Disable
  PROVE  /\ w.s \in Sessions /\ w.from \in Nat /\ w.to \in Nat /\ w.from < w.to
         /\ IsFiniteSet(Part(w)) /\ Cardinality(Part(w)) = w.to - w.from
<1>1. w \in Statements /\ w.from < w.to
  BY DEF ValuesInv, RowsOK, ChargesForward
<1>2. w.s \in Sessions /\ w.from \in Nat /\ w.to \in Nat
  BY <1>1, StatementTypes
<1>3. QED
  BY <1>1, <1>2, UnitsSize DEF Part

\* What is owed of a session has been its traffic.
LEMMA OwedIsUsed ==
  ASSUME ValuesInv, Ahead, NEW i \in Instances
  PROVE  owed[i] \subseteq Used
<1>1. owed[i] \subseteq Sessions \X (1 .. MaxReading)
  BY DEF ValuesInv, RowsOK
<1> SUFFICES ASSUME NEW u \in owed[i] PROVE u \in Used
  OBVIOUS
<1>2. PICK s \in Sessions, n \in 1 .. MaxReading : u = <<s, n>>
  BY <1>1
<1>3. s \in DOMAIN known[i] /\ n <= known[i][s]
  BY <1>2 DEF Ahead, OwedIsCharged
<1>4. known[i][s] <= reading[s] /\ known[i][s] \in Nat /\ reading[s] \in Nat
  BY <1>3 DEF ValuesInv, ReadingsPast, SessionsOK
<1>5. n <= reading[s]
  BY <1>2, <1>3, <1>4
<1>6. QED
  BY <1>2, <1>5 DEF Used

\* Statements that stay among what is owed.
LEMMA StatementsFrame ==
  ASSUME StatementsOwed,
         \A i \in Instances : writes'[i] \subseteq writes[i] \cup {Disable},
         \A i \in Instances : \A w \in writes'[i] :
           w # Disable => Part(w) \cap owed[i] \subseteq owed'[i]
  PROVE  StatementsOwed'
<1>1. ASSUME NEW i \in Instances, NEW w \in writes'[i], w # Disable
      PROVE  w \in writes[i] /\ Part(w) \subseteq owed'[i]
  <2>1. w \in writes[i]
    BY <1>1
  <2>2. Part(w) \subseteq owed[i]
    BY <1>1, <2>1 DEF StatementsOwed
  <2>3. Part(w) \cap owed[i] \subseteq owed'[i]
    BY <1>1
  <2>4. QED
    BY <2>1, <2>2, <2>3
<1>2. ASSUME NEW i \in Instances, NEW w \in writes'[i], NEW v \in writes'[i],
             w # Disable, v # Disable, w # v
      PROVE  Part(w) \cap Part(v) = {}
  BY <1>1, <1>2 DEF StatementsOwed
<1>3. QED
  BY <1>1, <1>2 DEF StatementsOwed, Part

\* The units of W stay in the row.
LEMMA WrittenFrame ==
  ASSUME ValuesInv, ValuesInv', NEW W, Written(W), row'.used = row.used,
         \A s \in Sessions : reading[s] <= reading'[s],
         \A i \in Instances : W \cap owed'[i] = {},
         \A i \in Instances : \A s \in DOMAIN known'[i] :
           \/ reading[s] = 0
           \/ s \in DOMAIN known[i] /\ known[i][s] <= known'[i][s]
  PROVE  Written(W)'
<1>1. \A u \in W : u[1] \in Sessions /\ u[2] \in Nat /\ 1 <= u[2] /\ u[2] <= reading[u[1]]
                   /\ u \in Sessions \X (1 .. MaxReading)
  BY DEF Written, Used
<1>2. \A s \in Sessions : reading[s] \in Nat /\ reading'[s] \in Nat
  BY DEF ValuesInv, SessionsOK
<1>3. \A u \in W : u[2] <= reading'[u[1]]
  BY <1>1, <1>2
<1>4. W \subseteq Used'
  BY <1>1, <1>3 DEF Used
<1>5. ASSUME NEW i \in Instances, NEW u \in W, u[1] \in DOMAIN known'[i]
      PROVE  u[2] <= known'[i][u[1]]
  <2> DEFINE s == u[1]
  <2>1. s \in Sessions /\ u[2] \in Nat /\ 1 <= u[2] /\ u[2] <= reading[s] /\ reading[s] \in Nat
    BY <1>1, <1>2
  <2>2. s \in DOMAIN known[i] /\ known[i][s] <= known'[i][s]
    BY <1>5, <2>1
  <2>3. known[i][s] \in Nat /\ known'[i][s] \in Nat
    BY <1>5, <2>2 DEF ValuesInv, SessionsOK
  <2>4. u[2] <= known[i][s]
    BY <2>2 DEF Written
  <2>5. QED
    BY <2>1, <2>2, <2>3, <2>4
<1>6. QED
  BY <1>4, <1>5 DEF Written

\* Steps that leave the row's usage, what is owed and the sessions' counters.
LEMMA QuietEarned ==
  ASSUME ValuesInv, ValuesInv', Earned, NEW i \in Instances,
         \/ UNCHANGED <<rowVars, sessionVars>>
         \/ Refresh(i) \/ RejectVoucher(i)
         \/ \E w \in writes[i] : StatementFails(i, w)
         \/ \E gone \in SUBSET Sessions, silent \in BOOLEAN : Disconnect(i, gone, silent)
         \/ \E s \in Sessions : Accept(i, s) \/ Cleanup(i, s)
  PROVE  Earned'
<1>1. UNCHANGED <<row, owed, known, reading, copied>>
  BY DEF Refresh, RejectVoucher, StatementFails, Disconnect, Accept, Cleanup,
         rowVars, sessionVars, historyVars
<1>2. \A s \in Sessions : nas'[s] \in {"idle", "accepted"} => nas[s] \in {"idle", "accepted"}
  <2>1. CASE \E s \in Sessions : Accept(i, s)
    BY <2>1 DEF Accept, ValuesInv, SessionsOK
  <2>2. CASE \E gone \in SUBSET Sessions, silent \in BOOLEAN : Disconnect(i, gone, silent)
    BY <2>2 DEF Disconnect
  <2>3. CASE UNCHANGED nas
    BY <2>3
  <2>4. QED
    BY <2>1, <2>2, <2>3 DEF Refresh, RejectVoucher, StatementFails, Cleanup,
       rowVars, sessionVars, historyVars
<1>3. \A j \in Instances : writes'[j] \subseteq writes[j] \cup {Disable}
  <2>1. CASE UNCHANGED writes
    BY <2>1
  <2>2. CASE writes' = [writes EXCEPT ![i] = @ \cup {Disable}]
    BY <2>2 DEF ValuesInv, RowsOK
  <2>3. CASE \E w \in writes[i] : writes' = [writes EXCEPT ![i] = @ \ {w}]
    BY <2>3 DEF ValuesInv, RowsOK
  <2>4. QED
    BY <2>1, <2>2, <2>3 DEF Refresh, RejectVoucher, StatementFails, Disconnect, Accept, Cleanup,
       rowVars
<1>4. StatementsOwed'
  BY <1>1, <1>3, StatementsFrame DEF Earned
<1>5. Traffics'
  BY <1>1, <1>2 DEF Earned, Traffics, Used
<1>6. ASSUME NEW W, Written(W) PROVE Written(W)'
  BY <1>1, <1>6 DEF Written, Used
<1>7. QED
  BY <1>1, <1>4, <1>5, <1>6 DEF Earned

LEMMA ForgetsEarned ==
  ASSUME ValuesInv, ValuesInv', Earned, NEW i \in Instances, Forgets(i)
  PROVE  Earned'
<1>1. /\ owed'[i] = {} /\ writes'[i] = {} /\ DOMAIN known'[i] = {}
      /\ \A j \in Instances : j # i => /\ owed'[j] = owed[j] /\ writes'[j] = writes[j]
                                       /\ known'[j] = known[j]
      /\ UNCHANGED <<row, nas, reading, copied>>
  BY DEF Forgets, EmptyMap, historyVars, ValuesInv, RowsOK, SessionsOK
<1>2. StatementsOwed'
  <2>1. \A j \in Instances : writes'[j] \subseteq writes[j] \cup {Disable}
    BY <1>1
  <2>2. \A j \in Instances : \A w \in writes'[j] :
          w # Disable => Part(w) \cap owed[j] \subseteq owed'[j]
    BY <1>1
  <2>3. QED
    BY <2>1, <2>2, StatementsFrame DEF Earned
<1>3. Traffics'
  BY <1>1 DEF Earned, Traffics, Used
<1>4. ASSUME NEW W, Written(W) PROVE Written(W)'
  <2>1. Used' = Used
    BY <1>1 DEF Used
  <2>2. \A j \in Instances : W \cap owed'[j] = {}
    BY <1>1, <1>4 DEF Written
  <2>3. \A j \in Instances : \A u \in W : u[1] \in DOMAIN known'[j] => u[2] <= known'[j][u[1]]
    BY <1>1, <1>4 DEF Written
  <2>4. QED
    BY <1>1, <1>4, <2>1, <2>2, <2>3 DEF Written
<1>5. QED
  BY <1>1, <1>2, <1>3, <1>4 DEF Earned

LEMMA TrafficAdds ==
  ASSUME ValuesInv, ValuesInv', Earned, NEW s \in Sessions, Traffic(s)
  PROVE  /\ Used \subseteq Used' /\ IsFiniteSet(Used')
         /\ Cardinality(Used') = Cardinality(Used) + 1
<1> DEFINE new == <<s, reading[s] + 1>>
<1>1. /\ reading[s] \in Nat /\ reading'[s] = reading[s] + 1 /\ reading'[s] \in 0 .. MaxReading
      /\ \A t \in Sessions : t # s => reading'[t] = reading[t]
      /\ \A t \in Sessions : reading[t] \in Nat
  BY DEF Traffic, ValuesInv, SessionsOK
<1>2. Used' \subseteq Used \cup {new}
  <2> SUFFICES ASSUME NEW u \in Used', u \notin Used PROVE u = new
    OBVIOUS
  <2>1. PICK t \in Sessions, n \in 1 .. MaxReading : u = <<t, n>>
    BY DEF Used
  <2>2. n <= reading'[t] /\ ~(n <= reading[t])
    BY <2>1 DEF Used
  <2>3. t = s
    BY <1>1, <2>2
  <2>4. n = reading[s] + 1
    BY <1>1, <2>2, <2>3
  <2>5. QED
    BY <2>1, <2>3, <2>4
<1>3. Used \subseteq Used'
  <2>1. \A t \in Sessions : reading[t] <= reading'[t] /\ reading'[t] \in Nat
    BY <1>1
  <2> SUFFICES ASSUME NEW t \in Sessions, NEW n \in 1 .. MaxReading, n <= reading[t]
               PROVE  n <= reading'[t]
    BY DEF Used
  <2>2. QED
    BY <1>1, <2>1
<1>4. new \in Used' /\ new \notin Used
  BY <1>1 DEF Used
<1>5. Used' = Used \cup {new} /\ new \notin Used /\ IsFiniteSet(Used)
  BY <1>2, <1>3, <1>4 DEF Earned, Traffics
<1> HIDE DEF new
<1>6. IsFiniteSet(Used') /\ Cardinality(Used') = Cardinality(Used) + 1
  BY <1>5, FS_AddElement
<1>7. QED
  BY <1>3, <1>6

LEMMA TrafficEarned ==
  ASSUME ValuesInv, ValuesInv', Earned, NEW s \in Sessions, Traffic(s)
  PROVE  Earned'
<1>1. /\ UNCHANGED <<row, owed, writes, known, nas, copied>>
      /\ nas[s] = "running"
      /\ reading[s] \in Nat /\ reading'[s] = reading[s] + 1
      /\ \A t \in Sessions : t # s => reading'[t] = reading[t]
  BY DEF Traffic, rowVars, historyVars, ValuesInv, SessionsOK
<1>2. Traffics'
  BY <1>1, TrafficAdds DEF Earned, Traffics
<1>3. StatementsOwed'
  BY <1>1, StatementsFrame DEF Earned
<1>4. ASSUME NEW W, Written(W) PROVE Written(W)'
  <2>1. \A t \in Sessions : reading[t] <= reading'[t]
    <3>1. \A t \in Sessions : reading[t] \in Nat
      BY DEF ValuesInv, SessionsOK
    <3>2. QED
      BY <1>1, <3>1
  <2>2. \A j \in Instances : W \cap owed'[j] = {}
    BY <1>1, <1>4 DEF Written
  <2>3. \A j \in Instances : \A t \in DOMAIN known'[j] :
          t \in DOMAIN known[j] /\ known[j][t] <= known'[j][t]
    BY <1>1 DEF ValuesInv, SessionsOK
  <2>4. QED
    BY <1>1, <1>4, <2>1, <2>2, <2>3, WrittenFrame
<1>5. QED
  BY <1>1, <1>2, <1>3, <1>4 DEF Earned

\* A session that is opened for the first time has had no traffic.
LEMMA OpenEarned ==
  ASSUME ValuesInv, ValuesInv', Earned, NEW i \in Instances, NEW s \in Sessions,
         AcctStart(i, s) \/ \E r \in 0 .. MaxReading : Reconcile(i, s, r)
  PROVE  Earned'
<1>1. PICK r \in 0 .. MaxReading : Opens(i, s, r)
  <2>1. 0 \in 0 .. MaxReading
    OBVIOUS
  <2>2. QED
    BY <2>1 DEF AcctStart, Reconcile, Opens
<1>2. UNCHANGED <<row, owed, writes, reading>>
  BY DEF AcctStart, Reconcile, rowVars
<1>3. copied' = {} => copied = {} /\ nas[s] = "accepted"
  BY DEF AcctStart, Reconcile
<1>4. \A t \in Sessions : nas'[t] \in {"idle", "accepted"} => nas[t] \in {"idle", "accepted"}
  BY DEF AcctStart, Reconcile, ValuesInv, SessionsOK
<1>5. Traffics'
  BY <1>2, <1>4 DEF Earned, Traffics, Used
<1>6. StatementsOwed'
  BY <1>2, StatementsFrame DEF Earned
<1>7. ASSUME copied' = {}, NEW W, Written(W) PROVE Written(W)'
  <2>1. reading[s] = 0
    BY <1>3, <1>7 DEF Earned, Traffics
  <2>2. ASSUME NEW j \in Instances, NEW t \in DOMAIN known'[j]
        PROVE  \/ reading[t] = 0
               \/ t \in DOMAIN known[j] /\ known[j][t] <= known'[j][t]
    <3>1. CASE t = s
      BY <2>1, <3>1
    <3>2. CASE t # s
      <4>1. t \in DOMAIN known[j] /\ known'[j][t] = known[j][t]
        BY <1>1, <2>2, <3>2, OpenedMap DEF ValuesInv
      <4>2. known[j][t] \in Nat
        BY <4>1 DEF ValuesInv, SessionsOK
      <4>3. QED
        BY <4>1, <4>2
    <3>3. QED
      BY <3>1, <3>2
  <2>3. \A t \in Sessions : reading[t] <= reading'[t]
    BY <1>2 DEF ValuesInv, SessionsOK
  <2>4. \A j \in Instances : W \cap owed'[j] = {}
    BY <1>2, <1>7 DEF Written
  <2>5. row'.used = row.used
    BY <1>2
  <2>6. QED
    BY <1>7, <2>2, <2>3, <2>4, <2>5, WrittenFrame
<1>8. QED
  BY <1>3, <1>5, <1>6, <1>7 DEF Earned

\* A statement of usage writes its units, which no other instance owes.
LEMMA ExecuteEarned ==
  ASSUME ValuesInv, ValuesInv', Books, Ahead, Earned,
         NEW i \in Instances, NEW w \in writes[i], Execute(i, w)
  PROVE  Earned'
<1>1. /\ UNCHANGED <<cache, known, nas, reading, copied>> /\ row \in Row
      /\ writes'[i] = writes[i] \ {w}
      /\ \A j \in Instances : j # i => writes'[j] = writes[j]
  BY DEF Execute, sessionVars, historyVars, ValuesInv, RowsOK
<1>2. Used' = Used /\ Traffics'
  BY <1>1 DEF Earned, Traffics, Used
<1>3. CASE w = Disable
  <2>1. row'.used = row.used /\ owed' = owed
    BY <1>1, <1>3 DEF Execute, ValuesInv, RowsOK, Row
  <2>2. StatementsOwed'
    <3>1. \A j \in Instances : writes'[j] \subseteq writes[j] \cup {Disable}
      BY <1>1
    <3>2. QED
      BY <2>1, <3>1, StatementsFrame DEF Earned
  <2>3. ASSUME NEW W, Written(W) PROVE Written(W)'
    BY <1>1, <1>2, <2>1, <2>3 DEF Written
  <2>4. QED
    BY <1>1, <1>2, <2>2, <2>3 DEF Earned
<1>4. CASE w # Disable
  <2> DEFINE U == Part(w)
  <2>1. /\ w.s \in Sessions /\ w.from \in Nat /\ w.to \in Nat /\ w.from < w.to
        /\ IsFiniteSet(U) /\ Cardinality(U) = w.to - w.from
    BY <1>4, PartFacts
  <2>2. /\ row'.used = row.used + Cardinality(U)
        /\ owed'[i] = owed[i] \ U
        /\ \A j \in Instances : j # i => owed'[j] = owed[j]
    <3>1. row' = [row EXCEPT !.used = @ + (w.to - w.from)]
      BY <1>4 DEF Execute
    <3>2. owed' = [owed EXCEPT ![i] = @ \ U]
      BY <1>4 DEF Execute, Part
    <3> HIDE DEF U
    <3>3. QED
      BY <1>1, <2>1, <3>1, <3>2 DEF Row, ValuesInv, RowsOK
  <2>3. U \subseteq owed[i] /\ U \subseteq Used
    BY <1>4, OwedIsUsed DEF Earned, StatementsOwed
  <2>4. \A u \in U : u[1] = w.s /\ u[2] \in Nat /\ u \in Sessions \X (1 .. MaxReading)
    <3>1. \A u \in U : \E n \in w.from + 1 .. w.to : u = <<w.s, n>>
      BY DEF Part, Units
    <3>2. U \subseteq Sessions \X (1 .. MaxReading)
      BY <2>3 DEF ValuesInv, RowsOK
    <3>3. QED
      BY <2>1, <3>1, <3>2
  <2>5. \A u \in U : w.s \in DOMAIN known[i] /\ u[2] <= known[i][w.s]
    <3> SUFFICES ASSUME NEW u \in U
                 PROVE  w.s \in DOMAIN known[i] /\ u[2] <= known[i][w.s]
      OBVIOUS
    <3>1. PICK n \in 1 .. MaxReading : u = <<w.s, n>>
      BY <2>4
    <3>2. u \in owed[i]
      BY <2>3
    <3>3. QED
      BY <2>1, <3>1, <3>2 DEF Ahead, OwedIsCharged
  <2> HIDE DEF U
  <2>6. StatementsOwed'
    <3>1. \A j \in Instances : writes'[j] \subseteq writes[j] \cup {Disable}
      BY <1>1
    <3>2. ASSUME NEW j \in Instances, NEW v \in writes'[j], v # Disable
          PROVE  Part(v) \cap owed[j] \subseteq owed'[j]
      <4>1. CASE j = i
        <5>1. v \in writes[i] /\ v # w
          BY <1>1, <3>2, <4>1
        <5>2. Part(v) \cap U = {}
          BY <1>4, <3>2, <5>1 DEF Earned, StatementsOwed, U
        <5>3. QED
          BY <2>2, <4>1, <5>2
      <4>2. CASE j # i
        BY <2>2, <4>2
      <4>3. QED
        BY <4>1, <4>2
    <3>3. QED
      BY <3>1, <3>2, StatementsFrame DEF Earned
  <2>7. ASSUME copied = {}, NEW W, Written(W) PROVE Written(W \cup U)'
    <3>1. \A j \in Instances : w.s \in DOMAIN known[j] /\ w.s \in DOMAIN known[i] => j = i
      BY <2>1, <2>7 DEF Books, BooksOf
    <3>2. ASSUME NEW j \in Instances
          PROVE  (W \cup U) \cap owed'[j] = {}
      <4>1. W \cap owed[j] = {}
        BY <2>7 DEF Written
      <4>2. CASE j = i
        BY <2>2, <4>1, <4>2
      <4>3. CASE j # i
        <5>1. ASSUME NEW u \in U, u \in owed[j] PROVE FALSE
          <6>1. PICK n \in 1 .. MaxReading : u = <<w.s, n>>
            BY <2>4, <5>1
          <6>2. w.s \in DOMAIN known[j]
            BY <2>1, <5>1, <6>1 DEF Ahead, OwedIsCharged
          <6>3. QED
            BY <2>5, <3>1, <4>3, <5>1, <6>2
        <5>2. QED
          BY <2>2, <4>1, <4>3, <5>1
      <4>4. QED
        BY <4>2, <4>3
    <3>3. ASSUME NEW j \in Instances, NEW u \in W \cup U, u[1] \in DOMAIN known'[j]
          PROVE  u[2] <= known'[j][u[1]]
      <4>1. CASE u \in W
        BY <1>1, <2>7, <3>3, <4>1 DEF Written
      <4>2. CASE u \in U
        <5>1. u[1] = w.s /\ w.s \in DOMAIN known[i] /\ u[2] <= known[i][w.s]
          BY <2>4, <2>5, <4>2
        <5>2. j = i
          BY <1>1, <3>1, <3>3, <5>1
        <5>3. QED
          BY <1>1, <5>1, <5>2
      <4>3. QED
        BY <3>3, <4>1, <4>2
    <3>4. IsFiniteSet(W \cup U) /\ row'.used <= Cardinality(W \cup U)
      <4>1. IsFiniteSet(W) /\ row.used <= Cardinality(W) /\ W \cap U = {}
        BY <2>3, <2>7 DEF Written
      <4>2. /\ IsFiniteSet(W \cup U)
            /\ Cardinality(W \cup U)
                 = Cardinality(W) + Cardinality(U) - Cardinality(W \cap U)
        BY <2>1, <4>1, FS_Union
      <4>3. Cardinality(W \cap U) = 0
        BY <4>1, FS_EmptySet
      <4>4. Cardinality(W) \in Nat /\ Cardinality(U) \in Nat /\ row.used \in Nat
        BY <1>1, <2>1, <4>1, FS_CardinalityType DEF Row
      <4>5. QED
        BY <2>2, <4>1, <4>2, <4>3, <4>4
    <3>5. W \cup U \subseteq Used'
      BY <1>2, <2>3, <2>7 DEF Written
    <3>6. QED
      BY <3>2, <3>3, <3>4, <3>5 DEF Written
  <2>8. QED
    BY <1>1, <1>2, <2>6, <2>7 DEF Earned
<1>5. QED
  BY <1>3, <1>4

\* An update owes units above the instance's last reading, which are not yet
\* in the row.
LEMMA UpdateEarned ==
  ASSUME ValuesInv, ValuesInv', Ahead, Earned, NEW i \in Instances, NEW s \in Sessions,
         NEW stop \in BOOLEAN, AcctUpdate(i, s, stop)
  PROVE  Earned'
<1>1. UNCHANGED <<row, reading, copied>>
  BY DEF AcctUpdate
<1>2. \A t \in Sessions : nas'[t] \in {"idle", "accepted"} => nas[t] \in {"idle", "accepted"}
  BY DEF AcctUpdate, ValuesInv, SessionsOK
<1>3. Used' = Used /\ Traffics'
  BY <1>1, <1>2 DEF Earned, Traffics, Used
<1>4. CASE s \notin DOMAIN known[i]
  <2>1. UNCHANGED <<writes, owed, known>>
    BY <1>4 DEF AcctUpdate
  <2>2. StatementsOwed'
    BY <2>1, StatementsFrame DEF Earned
  <2>3. ASSUME NEW W, Written(W) PROVE Written(W)'
    BY <1>1, <1>3, <2>1, <2>3 DEF Written
  <2>4. QED
    BY <1>1, <1>3, <2>2, <2>3 DEF Earned
<1>5. CASE s \in DOMAIN known[i]
  <2> DEFINE from == known[i][s]
             to == reading[s]
             U == Units(s, from, to)
             c == Charge(s, from, to)
  <2>1. ApplyAcctUpdate(i, s, stop)
    BY <1>5 DEF AcctUpdate
  <2>2. from \in Nat /\ to \in Nat /\ from <= to
    BY <1>5, <2>1, UpdateFacts
  <2>3. /\ \A j \in Instances : DOMAIN known'[j] = DOMAIN known[j]
        /\ known'[i][s] = to
        /\ \A j \in Instances : \A t \in DOMAIN known[j] :
             j # i \/ t # s => known'[j][t] = known[j][t]
    BY <1>5, <2>1, UpdateFacts
  <2>4. owed[i] \cap U = {}
    BY <1>5, <2>2, NewUnits
  <2>5. c # Disable /\ Part(c) = U
    BY DEF Charge, Disable, Part
  <2>6. /\ owed'[i] \subseteq owed[i] \cup U /\ owed[i] \subseteq owed'[i]
        /\ writes'[i] \subseteq writes[i] \cup {c}
        /\ c \in writes'[i] \ writes[i] => U \subseteq owed'[i]
        /\ \A j \in Instances : j # i => owed'[j] = owed[j] /\ writes'[j] = writes[j]
    <3>1. CASE cache[i] = Nil
      BY <2>1, <3>1 DEF ApplyAcctUpdate
    <3>2. CASE cache[i] # Nil
      <4>1. owed' = [owed EXCEPT ![i] = @ \cup U]
        BY <2>1, <3>2 DEF ApplyAcctUpdate
      <4>2. writes' = writes \/ writes' = [writes EXCEPT ![i] = @ \cup {c}]
        BY <2>1, <3>2 DEF ApplyAcctUpdate
      <4> HIDE DEF U, c
      <4>3. QED
        BY <4>1, <4>2 DEF ValuesInv, RowsOK
    <3>3. QED
      BY <3>1, <3>2
  <2> HIDE DEF U, c
  <2>7. ASSUME NEW v \in writes[i], v # Disable
        PROVE  Part(v) \subseteq owed[i] /\ Part(v) \cap U = {}
    BY <2>4, <2>7 DEF Earned, StatementsOwed
  <2>8. StatementsOwed'
    <3>1. ASSUME NEW j \in Instances, NEW v \in writes'[j], v # Disable
          PROVE  Part(v) \subseteq owed'[j]
      <4>1. CASE v \in writes[j]
        <5>1. Part(v) \subseteq owed[j]
          BY <3>1, <4>1 DEF Earned, StatementsOwed
        <5>2. QED
          BY <2>6, <5>1
      <4>2. CASE v \notin writes[j]
        BY <2>5, <2>6, <3>1, <4>2
      <4>3. QED
        BY <4>1, <4>2
    <3>2. ASSUME NEW j \in Instances, NEW v \in writes'[j], NEW x \in writes'[j],
                 v # Disable, x # Disable, v # x
          PROVE  Part(v) \cap Part(x) = {}
      <4>1. CASE v \in writes[j] /\ x \in writes[j]
        BY <3>2, <4>1 DEF Earned, StatementsOwed
      <4>2. CASE v \notin writes[j]
        <5>1. j = i /\ v = c /\ x \in writes[i]
          BY <2>6, <3>2, <4>2
        <5>2. QED
          BY <2>5, <2>7, <3>2, <5>1
      <4>3. CASE x \notin writes[j]
        <5>1. j = i /\ x = c /\ v \in writes[i]
          BY <2>6, <3>2, <4>3
        <5>2. QED
          BY <2>5, <2>7, <3>2, <5>1
      <4>4. QED
        BY <4>1, <4>2, <4>3
    <3>3. QED
      BY <3>1, <3>2 DEF StatementsOwed, Part
  <2>9. ASSUME NEW W, Written(W) PROVE Written(W)'
    <3>1. \A t \in Sessions : reading[t] <= reading'[t]
      BY <1>1 DEF ValuesInv, SessionsOK
    <3>2. ASSUME NEW u \in W, u \in U PROVE FALSE
      <4>1. PICK n \in from + 1 .. to : u = <<s, n>>
        BY <3>2 DEF U, Units
      <4>2. u[1] = s /\ u[2] = n
        BY <4>1
      <4>3. n <= from
        BY <1>5, <2>9, <3>2, <4>2 DEF Written
      <4>4. QED
        BY <2>2, <4>1, <4>3
    <3>3. \A j \in Instances : W \cap owed'[j] = {}
      <4>1. \A j \in Instances : W \cap owed[j] = {}
        BY <2>9 DEF Written
      <4>2. QED
        BY <2>6, <3>2, <4>1
    <3>4. ASSUME NEW j \in Instances, NEW t \in DOMAIN known'[j]
          PROVE  t \in DOMAIN known[j] /\ known[j][t] <= known'[j][t]
      <4>1. t \in DOMAIN known[j]
        BY <2>3, <3>4
      <4>2. CASE j = i /\ t = s
        BY <2>2, <2>3, <4>1, <4>2
      <4>3. CASE j # i \/ t # s
        <5>1. known'[j][t] = known[j][t] /\ known[j][t] \in Nat
          BY <2>3, <4>1, <4>3 DEF ValuesInv, SessionsOK
        <5>2. QED
          BY <4>1, <5>1
      <4>4. QED
        BY <4>2, <4>3
    <3>5. row'.used = row.used
      BY <1>1
    <3>6. QED
      BY <2>9, <3>1, <3>3, <3>4, <3>5, WrittenFrame
  <2>10. QED
    BY <1>1, <1>3, <2>8, <2>9 DEF Earned
<1>6. QED
  BY <1>4, <1>5

LEMMA EarnedStep ==
  ASSUME ValuesInv, ValuesInv', Books, Ahead, Earned, [Next]_vars
  PROVE  Earned'
<1>1. CASE UNCHANGED vars
  <2>1. UNCHANGED <<row, owed, writes, known, nas, reading, copied>>
    BY <1>1 DEF vars, rowVars, sessionVars, historyVars
  <2>2. Used' = Used /\ Traffics' /\ StatementsOwed'
    BY <2>1 DEF Earned, Traffics, StatementsOwed, Part, Used
  <2>3. ASSUME NEW W, Written(W) PROVE Written(W)'
    BY <2>1, <2>2, <2>3 DEF Written
  <2>4. QED
    BY <2>1, <2>2, <2>3 DEF Earned
<1>2. ASSUME NEW i \in Instances, Process(i) \/ Interruption(i)
      PROVE  Earned'
  BY <1>2, ProcessSplit, QuietEarned, ForgetsEarned
<1>3. ASSUME NEW i \in Instances,
             \/ Refresh(i) \/ RejectVoucher(i)
             \/ \E w \in writes[i] : StatementFails(i, w)
             \/ \E gone \in SUBSET Sessions, silent \in BOOLEAN : Disconnect(i, gone, silent)
             \/ \E s \in Sessions : Accept(i, s) \/ Cleanup(i, s)
      PROVE  Earned'
  BY <1>3, QuietEarned
<1>4. ASSUME NEW i \in Instances, NEW w \in writes[i], Execute(i, w)
      PROVE  Earned'
  BY <1>4, ExecuteEarned
<1>5. ASSUME NEW i \in Instances, NEW s \in Sessions,
             \/ AcctStart(i, s)
             \/ \E r \in 0 .. MaxReading : Reconcile(i, s, r)
             \/ \E stop \in BOOLEAN : AcctUpdate(i, s, stop)
      PROVE  Earned'
  BY <1>5, OpenEarned, UpdateEarned
<1>6. ASSUME NEW s \in Sessions, Traffic(s)
      PROVE  Earned'
  BY <1>6, TrafficEarned
<1>7. QED
  BY <1>1, <1>2, <1>3, <1>4, <1>5, <1>6 DEF Next

\* The usage of a cache is at most that of the row and of what its instance
\* owes, and the units of the two are different.
LEMMA EarnedImplies ==
  ASSUME ValuesInv, Ahead, Earned
  PROVE  NoPhantomUsage
<1> SUFFICES ASSUME copied = {}
             PROVE  /\ row.used <= Cardinality(Used)
                    /\ \A i \in Instances :
                         cache[i] # Nil => cache[i].used <= Cardinality(Used)
  BY DEF NoPhantomUsage
<1>1. PICK W : Written(W)
  BY DEF Earned
<1>2. /\ W \subseteq Used /\ IsFiniteSet(W) /\ row.used <= Cardinality(W)
      /\ \A i \in Instances : W \cap owed[i] = {}
  BY <1>1 DEF Written
<1>3. IsFiniteSet(Used) /\ Cardinality(Used) \in Nat /\ Cardinality(W) \in Nat
  BY <1>2, FS_CardinalityType DEF Earned, Traffics
<1>4. row.used \in Nat
  BY DEF ValuesInv, RowsOK, Row
<1>5. row.used <= Cardinality(Used)
  <2>1. Cardinality(W) <= Cardinality(Used)
    BY <1>2, <1>3, FS_Subset
  <2>2. QED
    BY <1>2, <1>3, <1>4, <2>1
<1>6. ASSUME NEW i \in Instances, cache[i] # Nil
      PROVE  cache[i].used <= Cardinality(Used)
  <2>1. IsFiniteSet(owed[i]) /\ Cardinality(owed[i]) \in Nat
    BY FS_CardinalityType DEF Ahead, OwedIsCharged
  <2>2. cache[i].used \in Nat /\ cache[i].used <= row.used + Cardinality(owed[i])
    BY <1>6 DEF ValuesInv, RowsOK, Row, Ahead, NoInstanceAhead
  <2>3. /\ IsFiniteSet(W \cup owed[i])
        /\ Cardinality(W \cup owed[i])
             = Cardinality(W) + Cardinality(owed[i]) - Cardinality(W \cap owed[i])
    BY <1>2, <2>1, FS_Union
  <2>4. Cardinality(W \cap owed[i]) = 0
    BY <1>2, FS_EmptySet
  <2>5. Cardinality(W \cup owed[i]) <= Cardinality(Used)
    <3>1. W \cup owed[i] \subseteq Used
      BY <1>2, OwedIsUsed
    <3>2. QED
      BY <1>3, <3>1, FS_Subset
  <2>6. QED
    BY <1>2, <1>3, <1>4, <2>1, <2>2, <2>3, <2>4, <2>5
<1>7. QED
  BY <1>5, <1>6

(***************************************************************************)
(* The account.  What makes it inductive: whatever disables the voucher,   *)
(* the row, a cache, a statement or a disconnect, does so since the limit  *)
(* was reached.                                                            *)
(***************************************************************************)

Blamed ==
  \/ row.enabled = FALSE
  \/ jobs # {}
  \/ \E i \in Instances :
       Disable \in writes[i] \/ (cache[i] # Nil /\ cache[i].enabled = FALSE)

Justified == copied = {} /\ Blamed => Limit <= Cardinality(Used)

\* An update disables at the limit, and enables nothing.
LEMMA UpdateRefuses ==
  ASSUME ValuesInv, NEW i \in Instances, NEW s \in Sessions, NEW stop \in BOOLEAN,
         s \in DOMAIN known[i], ApplyAcctUpdate(i, s, stop), cache[i] # Nil
  PROVE  /\ cache'[i] # Nil /\ cache[i].used <= cache'[i].used
         /\ cache[i].enabled = FALSE => cache'[i].enabled = FALSE
         /\ \/ Limit <= cache'[i].used
            \/ jobs' = jobs /\ cache'[i].enabled = cache[i].enabled
<1> DEFINE d == Delta(i, s)
           user == [cache[i] EXCEPT !.used = @ + d]
           off == [user EXCEPT !.enabled = FALSE]
<1>1. d \in Nat /\ cache[i] \in Row
  BY UpdateFacts DEF ValuesInv, RowsOK
<1>2. /\ user \in Row /\ user.used = cache[i].used + d /\ user.enabled = cache[i].enabled
      /\ off \in Row /\ off.used = cache[i].used + d /\ off.enabled = FALSE
  <2>1. /\ user \in Row /\ user.used = cache[i].used + d
        /\ off \in Row /\ off.used = cache[i].used + d
    BY <1>1, RowTypes
  <2>2. user.enabled = cache[i].enabled /\ off.enabled = FALSE
    BY <1>1 DEF Row
  <2>3. QED
    BY <2>1, <2>2
<1>3. cache[i].used \in Nat
  BY <1>1 DEF Row
<1>4. CASE AtLimit(i, s)
  <2>1. cache' = [cache EXCEPT ![i] = off]
    BY <1>4 DEF ApplyAcctUpdate
  <2>2. Limit <= cache[i].used + d
    BY <1>1, <1>3, <1>4 DEF AtLimit
  <2> HIDE DEF d, user, off
  <2>3. cache'[i] = off
    BY <2>1 DEF ValuesInv, RowsOK
  <2>4. cache[i].used <= off.used /\ Limit <= off.used
    BY <1>1, <1>2, <1>3, <2>2
  <2>5. off # Nil
    BY <1>2 DEF Row
  <2>6. QED
    BY <1>2, <2>3, <2>4, <2>5
<1>5. CASE ~AtLimit(i, s)
  <2>1. cache' = [cache EXCEPT ![i] = user] /\ jobs' = jobs
    BY <1>5 DEF ApplyAcctUpdate
  <2> HIDE DEF d, user, off
  <2>2. cache'[i] = user
    BY <2>1 DEF ValuesInv, RowsOK
  <2>3. cache[i].used <= user.used
    BY <1>1, <1>2, <1>3
  <2>4. user # Nil
    BY <1>2 DEF Row
  <2>5. QED
    BY <1>2, <2>1, <2>2, <2>3, <2>4
<1>6. QED
  BY <1>4, <1>5

LEMMA JustifiedFrame ==
  ASSUME Justified, Used' = Used, copied' = {} => copied = {}, Blamed' => Blamed
  PROVE  Justified'
BY DEF Justified

\* A merge disables what was disabled on one side, and counts the larger usage.
LEMMA MergeFacts ==
  ASSUME NEW old \in Row, NEW new \in Row
  PROVE  /\ Merge(old, new) \in Row
         /\ old.used <= Merge(old, new).used
         /\ old.enabled = FALSE => Merge(old, new).enabled = FALSE
         /\ Merge(old, new).enabled = FALSE => old.enabled = FALSE \/ new.enabled = FALSE
<1>1. /\ old.used \in Nat /\ new.used \in Nat /\ old.enabled \in BOOLEAN /\ new.enabled \in BOOLEAN
  BY DEF Row
<1> DEFINE used == IF old.used > new.used THEN old.used ELSE new.used
           enabled == new.enabled /\ old.enabled
<1>2. Merge(old, new) = [used |-> used, enabled |-> enabled]
  BY DEF Merge
<1>3. used \in Nat /\ old.used <= used
  BY <1>1
<1>4. /\ enabled \in BOOLEAN
      /\ old.enabled = FALSE => enabled = FALSE
      /\ enabled = FALSE => old.enabled = FALSE \/ new.enabled = FALSE
  BY <1>1
<1> HIDE DEF used, enabled
<1>5. QED
  BY <1>2, <1>3, <1>4 DEF Row

LEMMA RefreshFacts ==
  ASSUME ValuesInv, NEW i \in Instances, Refresh(i)
  PROVE  /\ \A j \in Instances : j # i => cache'[j] = cache[j]
         /\ cache'[i] # Nil
         /\ cache'[i].enabled = FALSE =>
              row.enabled = FALSE \/ (cache[i] # Nil /\ cache[i].enabled = FALSE)
         /\ cache[i] # Nil =>
              /\ cache[i].used <= cache'[i].used
              /\ cache[i].enabled = FALSE => cache'[i].enabled = FALSE
<1>1. row \in Row /\ (cache[i] # Nil => cache[i] \in Row)
  BY DEF ValuesInv, RowsOK
<1>2. /\ cache'[i] = IF cache[i] = Nil THEN row ELSE Merge(cache[i], row)
      /\ \A j \in Instances : j # i => cache'[j] = cache[j]
  BY DEF Refresh, ValuesInv, RowsOK
<1>3. CASE cache[i] = Nil
  BY <1>1, <1>2, <1>3 DEF Row
<1>4. CASE cache[i] # Nil
  <2> DEFINE m == Merge(cache[i], row)
  <2>1. /\ m \in Row /\ cache[i].used <= m.used
        /\ cache[i].enabled = FALSE => m.enabled = FALSE
        /\ m.enabled = FALSE => cache[i].enabled = FALSE \/ row.enabled = FALSE
    BY <1>1, <1>4, MergeFacts
  <2>2. cache'[i] = m
    BY <1>2, <1>4
  <2> HIDE DEF m
  <2>3. m # Nil
    BY <2>1 DEF Row
  <2>4. QED
    BY <1>2, <1>4, <2>1, <2>2, <2>3
<1>5. QED
  BY <1>3, <1>4

LEMMA RejectFacts ==
  ASSUME ValuesInv, NEW i \in Instances, RejectVoucher(i)
  PROVE  /\ cache[i] # Nil /\ cache'[i] # Nil
         /\ Limit <= cache[i].used /\ cache'[i].used = cache[i].used
         /\ cache'[i].enabled = FALSE
         /\ \A j \in Instances : j # i => cache'[j] = cache[j]
<1> DEFINE off == [cache[i] EXCEPT !.enabled = FALSE]
<1>1. /\ cache[i] # Nil /\ cache[i].used >= Limit
      /\ cache' = [cache EXCEPT ![i] = off]
  BY DEF RejectVoucher, Enabled
<1>2. cache[i] \in Row
  BY <1>1 DEF ValuesInv, RowsOK
<1>3. off \in Row /\ off.used = cache[i].used
  BY <1>2, Disabled
<1>4. off.enabled = FALSE /\ cache[i].used \in Nat
  BY <1>2 DEF Row
<1> HIDE DEF off
<1>5. cache'[i] = off /\ \A j \in Instances : j # i => cache'[j] = cache[j]
  BY <1>1 DEF ValuesInv, RowsOK
<1>6. off # Nil /\ Limit <= cache[i].used
  BY <1>1, <1>3, <1>4 DEF Row
<1>7. QED
  BY <1>1, <1>3, <1>4, <1>5, <1>6

\* The limit that an instance sees reached has been reached.
LEMMA LimitMade ==
  ASSUME ValuesInv', Earned', NoPhantomUsage', copied' = {}, NEW i \in Instances,
         cache'[i] # Nil, Limit <= cache'[i].used
  PROVE  Limit <= Cardinality(Used')
<1>1. cache'[i].used \in Nat /\ Limit \in Nat
  BY DEF ValuesInv, RowsOK, Row
<1>2. cache'[i].used <= Cardinality(Used')
  BY DEF NoPhantomUsage
<1>3. Cardinality(Used') \in Nat
  BY FS_CardinalityType DEF Earned, Traffics
<1>4. QED
  BY <1>1, <1>2, <1>3

LEMMA JustifiedInitially == ASSUME Init PROVE Justified
<1>1. ~Blamed
  BY DEF Init, Blamed
<1>2. QED
  BY <1>1 DEF Justified

\* Steps of an instance that concern neither traffic nor its caches.
LEMMA SmallBlame ==
  ASSUME ValuesInv, Justified, NEW i \in Instances,
         \/ UNCHANGED <<rowVars, sessionVars>> \/ Forgets(i)
         \/ \E w \in writes[i] : Execute(i, w) \/ StatementFails(i, w)
         \/ \E gone \in SUBSET Sessions, silent \in BOOLEAN : Disconnect(i, gone, silent)
         \/ \E s \in Sessions :
              \/ Accept(i, s) \/ AcctStart(i, s) \/ Cleanup(i, s)
              \/ \E r \in 0 .. MaxReading : Reconcile(i, s, r)
  PROVE  Justified'
<1>1. CASE UNCHANGED <<rowVars, sessionVars>>
  BY <1>1, JustifiedFrame DEF rowVars, sessionVars, historyVars, Blamed, Used
<1>2. CASE Forgets(i)
  <2>1. UNCHANGED <<row, reading, copied>> /\ jobs' \subseteq jobs
    BY <1>2 DEF Forgets, historyVars
  <2>2. \A j \in Instances : cache'[j] \in {Nil, cache[j]} /\ writes'[j] \subseteq writes[j]
    BY <1>2 DEF Forgets, ValuesInv, RowsOK
  <2>3. Blamed' => Blamed
    BY <2>1, <2>2 DEF Blamed
  <2>4. QED
    BY <2>1, <2>3, JustifiedFrame DEF Used
<1>3. ASSUME NEW w \in writes[i], Execute(i, w) \/ StatementFails(i, w)
      PROVE  Justified'
  <2>1. UNCHANGED <<cache, jobs, reading, copied>>
    BY <1>3 DEF Execute, StatementFails, sessionVars, historyVars
  <2>2. \A j \in Instances : writes'[j] \subseteq writes[j]
    BY <1>3 DEF Execute, StatementFails, ValuesInv, RowsOK
  <2>3. w = Disable \/ row'.enabled = row.enabled
    BY <1>3 DEF Execute, StatementFails, ValuesInv, RowsOK, Row
  <2>4. Blamed' => Blamed
    BY <2>1, <2>2, <2>3 DEF Blamed
  <2>5. QED
    BY <2>1, <2>4, JustifiedFrame DEF Used
<1>4. ASSUME NEW gone \in SUBSET Sessions, NEW silent \in BOOLEAN, Disconnect(i, gone, silent)
      PROVE  Justified'
  <2>1. i \in jobs /\ UNCHANGED <<reading, copied>>
    BY <1>4 DEF Disconnect, historyVars
  <2>2. Blamed
    BY <2>1 DEF Blamed
  <2>3. QED
    BY <2>1, <2>2, JustifiedFrame DEF Used
<1>5. ASSUME NEW s \in Sessions,
             \/ Accept(i, s) \/ AcctStart(i, s) \/ Cleanup(i, s)
             \/ \E r \in 0 .. MaxReading : Reconcile(i, s, r)
      PROVE  Justified'
  <2>1. UNCHANGED <<row, cache, writes, jobs, reading>>
    BY <1>5 DEF Accept, AcctStart, Cleanup, Reconcile, rowVars
  <2>2. copied \subseteq copied'
    BY <1>5 DEF Accept, AcctStart, Cleanup, Reconcile, historyVars
  <2>3. QED
    BY <2>1, <2>2, JustifiedFrame DEF Used, Blamed
<1>6. QED
  BY <1>1, <1>2, <1>3, <1>4, <1>5

LEMMA JustifiedStep ==
  ASSUME ValuesInv, ValuesInv', Earned, Earned', NoPhantomUsage', Justified, [Next]_vars
  PROVE  Justified'
<1>1. CASE UNCHANGED vars
  BY <1>1, JustifiedFrame DEF vars, rowVars, sessionVars, historyVars, Blamed, Used
<1>2. ASSUME NEW i \in Instances, Process(i) \/ Interruption(i)
      PROVE  Justified'
  BY <1>2, ProcessSplit, SmallBlame
<1>3. ASSUME NEW i \in Instances, Refresh(i)
      PROVE  Justified'
  <2>1. UNCHANGED <<row, writes, jobs, reading, copied>>
    BY <1>3 DEF Refresh, sessionVars, historyVars
  <2>2. Blamed' => Blamed
    BY <1>3, <2>1, RefreshFacts DEF Blamed
  <2>3. QED
    BY <2>1, <2>2, JustifiedFrame DEF Used
<1>4. ASSUME NEW i \in Instances, RejectVoucher(i)
      PROVE  Justified'
  <2>1. cache'[i] # Nil /\ Limit <= cache'[i].used
    BY <1>4, RejectFacts
  <2>2. QED
    BY <2>1, LimitMade DEF Justified
<1>5. ASSUME NEW i \in Instances,
             \/ \E w \in writes[i] : Execute(i, w) \/ StatementFails(i, w)
             \/ \E gone \in SUBSET Sessions, silent \in BOOLEAN : Disconnect(i, gone, silent)
             \/ \E s \in Sessions :
                  \/ Accept(i, s) \/ AcctStart(i, s) \/ Cleanup(i, s)
                  \/ \E r \in 0 .. MaxReading : Reconcile(i, s, r)
      PROVE  Justified'
  BY <1>5, SmallBlame
<1>6. ASSUME NEW i \in Instances, NEW s \in Sessions, NEW stop \in BOOLEAN,
             AcctUpdate(i, s, stop)
      PROVE  Justified'
  <2>1. UNCHANGED <<row, reading, copied>>
    BY <1>6 DEF AcctUpdate
  <2>2. CASE s \notin DOMAIN known[i]
    <3>1. UNCHANGED <<cache, writes, jobs>>
      BY <1>6, <2>2 DEF AcctUpdate
    <3>2. QED
      BY <2>1, <3>1, JustifiedFrame DEF Blamed, Used
  <2>3. CASE s \in DOMAIN known[i]
    <3>1. ApplyAcctUpdate(i, s, stop)
      BY <1>6, <2>3 DEF AcctUpdate
    <3>2. CASE cache[i] = Nil
      <4>1. UNCHANGED <<cache, writes, jobs>>
        BY <3>1, <3>2 DEF ApplyAcctUpdate
      <4>2. QED
        BY <2>1, <4>1, JustifiedFrame DEF Blamed, Used
    <3>3. CASE cache[i] # Nil /\ Limit <= cache'[i].used
      <4>1. cache'[i] # Nil
        BY <2>3, <3>1, <3>3, UpdateRefuses
      <4>2. QED
        BY <3>3, <4>1, LimitMade DEF Justified
    <3>4. CASE cache[i] # Nil /\ ~(Limit <= cache'[i].used)
      <4>1. jobs' = jobs /\ cache'[i].enabled = cache[i].enabled
        BY <2>3, <3>1, <3>4, UpdateRefuses
      <4>2. \A j \in Instances : j # i => cache'[j] = cache[j]
        BY <2>3, <3>1, UpdateCache
      <4>3. \A j \in Instances : Disable \in writes'[j] => Disable \in writes[j]
        <5> DEFINE c == Charge(s, known[i][s], reading[s])
        <5>1. c # Disable
          BY DEF Charge, Disable
        <5>2. writes' = writes \/ writes' = [writes EXCEPT ![i] = @ \cup {c}]
          BY <3>1, <3>4 DEF ApplyAcctUpdate
        <5> HIDE DEF c
        <5>3. QED
          BY <5>1, <5>2 DEF ValuesInv, RowsOK
      <4>4. Blamed' => Blamed
        BY <2>1, <3>4, <4>1, <4>2, <4>3 DEF Blamed
      <4>5. QED
        BY <2>1, <4>4, JustifiedFrame DEF Used
    <3>5. QED
      BY <3>2, <3>3, <3>4
  <2>4. QED
    BY <2>2, <2>3
<1>7. ASSUME NEW s \in Sessions, Traffic(s)
      PROVE  Justified'
  <2>1. UNCHANGED <<row, cache, writes, jobs, copied>>
    BY <1>7 DEF Traffic, rowVars, historyVars
  <2>2. Blamed' => Blamed
    BY <2>1 DEF Blamed
  <2>3. Cardinality(Used') = Cardinality(Used) + 1 /\ Cardinality(Used) \in Nat /\ Limit \in Nat
    BY <1>7, TrafficAdds, FS_CardinalityType DEF Earned, Traffics
  <2>4. Limit <= Cardinality(Used) => Limit <= Cardinality(Used')
    BY <2>3
  <2>5. QED
    BY <2>1, <2>2, <2>4 DEF Justified
<1>8. QED
  BY <1>1, <1>2, <1>3, <1>4, <1>5, <1>6, <1>7 DEF Next

(***************************************************************************)
(* The cluster implements Account: each step is one of the account's, or   *)
(* leaves the account alone.                                               *)
(***************************************************************************)

Honest == Promise!Next \/ UNCHANGED Promise!vars

LEMMA Silent ==
  ASSUME UNCHANGED <<row, cache, reading, copied>>, Up' = Up
  PROVE  Honest
BY DEF Honest, Promise!vars, Used, Refusing

\* A process goes on, or starts to serve.
LEMMA RunnerHonest ==
  ASSUME SchemaInv, NEW i \in Instances, Progress(i) \/ Serve(i) \/ Signal(i),
         UNCHANGED <<rowVars, sessionVars>>
  PROVE  Honest
<1>1. UNCHANGED <<row, cache, reading, copied>>
  BY DEF rowVars, sessionVars, historyVars
<1>2. \A j \in Instances : j # i => proc'[j] = proc[j]
  BY DEF Progress, Boot, CreateTable, Skip, BeginMigration, Commit, Migrated, HTTPClosed, Serve,
         Signal, Goes, SchemaInv, MigrationsTypeOK
<1>3. proc[i].pc \in Ready => proc'[i].pc \in Ready
  <2>1. proc \in [Instances -> [pc: Pcs, file: 1 .. Files + 1]]
    BY DEF SchemaInv, MigrationsTypeOK
  <2>2. CASE Boot(i) \/ CreateTable(i) \/ BeginMigration(i)
    BY <2>1, <2>2 DEF Boot, CreateTable, BeginMigration, Goes, Ready
  <2>3. CASE Skip(i) \/ Commit(i)
    BY <2>1, <2>3 DEF Skip, Commit, Ready
  <2>4. CASE Migrated(i) \/ HTTPClosed(i) \/ Serve(i) \/ Signal(i)
    BY <2>1, <2>4 DEF Migrated, HTTPClosed, Serve, Signal, Goes, Ready
  <2>5. QED
    BY <2>2, <2>3, <2>4 DEF Progress
<1>4. Up' = Up \/ Up' = Up \cup {i}
  BY <1>2, <1>3 DEF Up
<1>5. CASE Up' = Up
  BY <1>1, <1>5, Silent
<1>6. CASE Up' = Up \cup {i}
  <2>1. Promise!Start(i)
    BY <1>1, <1>6 DEF Promise!Start, Used, Refusing
  <2>2. QED
    BY <2>1 DEF Honest, Promise!Next
<1>7. QED
  BY <1>4, <1>5, <1>6

LEMMA EndHonest ==
  ASSUME SchemaInv, ValuesInv, NEW i \in Instances,
         LoseRace(i) \/ Exit(i) \/ Fault(i), Forgets(i)
  PROVE  Honest
<1>1. proc' = [proc EXCEPT ![i] = Down] /\ cache' = [cache EXCEPT ![i] = Nil]
  BY DEF LoseRace, Exit, Fault, Forgets
<1>2. UNCHANGED <<row, reading, copied>>
  BY DEF Forgets, historyVars
<1>3. Up' = Up \ {i}
  <2>1. Down.pc \notin Ready
    BY DEF Down, Ready
  <2>2. \A j \in Instances : proc'[j] = IF j = i THEN Down ELSE proc[j]
    BY <1>1 DEF SchemaInv, MigrationsTypeOK
  <2>3. QED
    BY <2>1, <2>2 DEF Up
<1>4. Refusing' = Refusing \ {i}
  <2>1. \A j \in Instances : cache'[j] = IF j = i THEN Nil ELSE cache[j]
    BY <1>1 DEF ValuesInv, RowsOK
  <2>2. QED
    BY <2>1 DEF Refusing
<1>5. Promise!End(i)
  BY <1>2, <1>3, <1>4 DEF Promise!End, Used
<1>6. QED
  BY <1>5 DEF Honest, Promise!Next

\* An instance that refuses goes on to, and one that begins to has a reason.
LEMMA CacheHonest ==
  ASSUME ValuesInv', Earned', NoPhantomUsage', Justified',
         NEW i \in Instances, i \in Up,
         UNCHANGED <<row, reading, copied, proc>>,
         \A j \in Instances : j # i => cache'[j] = cache[j],
         i \in Refusing => i \in Refusing'
  PROVE  Honest
<1>1. Refusing' = Refusing \/ (i \in Refusing' /\ Refusing' = Refusing \cup {i})
  BY DEF Refusing
<1>2. Used' = Used /\ Up' = Up
  BY DEF Used, Up
<1>3. CASE Refusing' = Refusing
  BY <1>2, <1>3 DEF Honest, Promise!vars
<1>4. CASE i \in Refusing' /\ Refusing' = Refusing \cup {i}
  <2>1. ASSUME copied = {} PROVE Limit <= Cardinality(Used)
    <3>1. cache'[i] # Nil /\ (~cache'[i].enabled \/ cache'[i].used >= Limit)
      BY <1>4 DEF Refusing
    <3>2. cache'[i].used \in Nat /\ cache'[i].enabled \in BOOLEAN /\ Limit \in Nat
      BY <3>1 DEF ValuesInv, RowsOK, Row
    <3>3. CASE cache'[i].used >= Limit
      <4>1. Limit <= cache'[i].used
        BY <3>2, <3>3
      <4>2. QED
        BY <1>2, <2>1, <3>1, <4>1, LimitMade
    <3>4. CASE ~cache'[i].enabled
      <4>1. cache'[i].enabled = FALSE
        BY <3>2, <3>4
      <4>2. Blamed'
        BY <3>1, <4>1 DEF Blamed
      <4>3. QED
        BY <1>2, <2>1, <4>2 DEF Justified
    <3>5. QED
      BY <3>1, <3>3, <3>4
  <2>2. Promise!Refuse(i)
    BY <1>2, <1>4, <2>1 DEF Promise!Refuse, Promise!UsedUp
  <2>3. QED
    BY <2>2 DEF Honest, Promise!Next
<1>5. QED
  BY <1>1, <1>3, <1>4

LEMMA Refuses ==
  ASSUME ValuesInv, ValuesInv', NEW i \in Instances, i \in Refusing, cache'[i] # Nil,
         cache[i].used <= cache'[i].used,
         cache[i].enabled = FALSE => cache'[i].enabled = FALSE
  PROVE  i \in Refusing'
<1>1. cache[i] # Nil /\ (~cache[i].enabled \/ cache[i].used >= Limit)
  BY DEF Refusing
<1>2. /\ cache[i].used \in Nat /\ cache'[i].used \in Nat /\ Limit \in Nat
      /\ cache[i].enabled \in BOOLEAN /\ cache'[i].enabled \in BOOLEAN
  BY <1>1 DEF ValuesInv, RowsOK, Row
<1>3. CASE ~cache[i].enabled
  BY <1>2, <1>3 DEF Refusing
<1>4. CASE cache[i].used >= Limit
  <2>1. cache'[i].used >= Limit
    BY <1>2, <1>4
  <2>2. QED
    BY <2>1 DEF Refusing
<1>5. QED
  BY <1>1, <1>3, <1>4

LEMMA RefreshHonest ==
  ASSUME ValuesInv, ValuesInv', Earned', NoPhantomUsage', Justified',
         NEW i \in Instances, Refresh(i)
  PROVE  Honest
<1>1. i \in Up /\ UNCHANGED <<row, reading, copied, proc>>
  BY DEF Refresh, Up, sessionVars, historyVars, migrationVars
<1>2. i \in Refusing => i \in Refusing'
  <2>1. i \in Refusing => cache[i] # Nil
    BY DEF Refusing
  <2>2. QED
    BY <2>1, RefreshFacts, Refuses
<1>3. QED
  BY <1>1, <1>2, RefreshFacts, CacheHonest

LEMMA RejectHonest ==
  ASSUME ValuesInv, ValuesInv', Earned', NoPhantomUsage', Justified',
         NEW i \in Instances, RejectVoucher(i)
  PROVE  Honest
<1>1. i \in Up /\ UNCHANGED <<row, reading, copied, proc>>
  BY DEF RejectVoucher, ServesRadius, Ready, Up, sessionVars, historyVars, migrationVars
<1>2. i \in Refusing'
  BY RejectFacts DEF Refusing
<1>3. QED
  BY <1>1, <1>2, RejectFacts, CacheHonest

LEMMA UpdateHonest ==
  ASSUME ValuesInv, ValuesInv', Earned', NoPhantomUsage', Justified',
         NEW i \in Instances, NEW s \in Sessions, NEW stop \in BOOLEAN, AcctUpdate(i, s, stop)
  PROVE  Honest
<1>1. i \in Up /\ UNCHANGED <<row, reading, copied, proc>>
  BY DEF AcctUpdate, ServesRadius, Ready, Up, migrationVars
<1>2. CASE s \notin DOMAIN known[i] \/ cache[i] = Nil
  <2>1. cache' = cache
    BY <1>2 DEF AcctUpdate, ApplyAcctUpdate
  <2>2. Up' = Up
    BY <1>1 DEF Up
  <2>3. QED
    BY <1>1, <2>1, <2>2, Silent
<1>3. CASE s \in DOMAIN known[i] /\ cache[i] # Nil
  <2>1. ApplyAcctUpdate(i, s, stop)
    BY <1>3 DEF AcctUpdate
  <2>2. \A j \in Instances : j # i => cache'[j] = cache[j]
    BY <1>3, <2>1, UpdateCache
  <2>3. i \in Refusing => i \in Refusing'
    BY <1>3, <2>1, UpdateRefuses, Refuses
  <2>4. QED
    BY <1>1, <2>2, <2>3, CacheHonest
<1>4. QED
  BY <1>2, <1>3

LEMMA ExecuteHonest ==
  ASSUME ValuesInv, ValuesInv', Justified, NoPhantomUsage',
         NEW i \in Instances, NEW w \in writes[i], Execute(i, w)
  PROVE  Honest
<1>1. UNCHANGED <<cache, reading, copied, proc>> /\ row \in Row
  BY DEF Execute, sessionVars, historyVars, migrationVars, ValuesInv, RowsOK
<1>2. Used' = Used /\ Up' = Up /\ Refusing' = Refusing
  BY <1>1 DEF Used, Up, Refusing
<1>3. CASE w = Disable
  <2>1. row' = [row EXCEPT !.enabled = FALSE]
    BY <1>3 DEF Execute
  <2>2. row'.enabled = FALSE /\ row'.used = row.used
    BY <1>1, <2>1 DEF Row
  <2>3. Blamed
    BY <1>3 DEF Blamed
  <2>4. Promise!Disable
    BY <1>1, <1>2, <2>2, <2>3 DEF Justified, Promise!Disable, Promise!UsedUp
  <2>5. QED
    BY <2>4 DEF Honest, Promise!Next
<1>4. CASE w # Disable
  <2>1. w.from \in Nat /\ w.to \in Nat /\ w.from < w.to
    BY <1>4, PartFacts
  <2>2. row' = [row EXCEPT !.used = @ + (w.to - w.from)]
    BY <1>4 DEF Execute
  <2>3. row'.enabled = row.enabled /\ row'.used = row.used + (w.to - w.from)
    BY <1>1, <2>2 DEF Row
  <2>4. row.used \in Nat
    BY <1>1 DEF Row
  <2>5. row'.used > row.used
    BY <2>1, <2>3, <2>4
  <2>6. copied = {} => row'.used <= Cardinality(Used)
    BY <1>1, <1>2 DEF NoPhantomUsage
  <2>7. Promise!Count
    BY <1>1, <1>2, <2>3, <2>5, <2>6 DEF Promise!Count
  <2>8. QED
    BY <2>7 DEF Honest, Promise!Next
<1>5. QED
  BY <1>3, <1>4

LEMMA OpenHonest ==
  ASSUME NEW i \in Instances, NEW s \in Sessions,
         AcctStart(i, s) \/ \E r \in 0 .. MaxReading : Reconcile(i, s, r)
  PROVE  Honest
<1>1. UNCHANGED <<row, cache, reading, proc>>
  BY DEF AcctStart, Reconcile, rowVars
<1>2. Up' = Up
  BY <1>1 DEF Up
<1>3. copied' = copied \/ copied' = copied \cup {s}
  BY DEF AcctStart, Reconcile
<1>4. CASE copied' = copied
  BY <1>1, <1>2, <1>4, Silent
<1>5. CASE copied' = copied \cup {s}
  <2>1. Promise!Double(s)
    BY <1>1, <1>2, <1>5 DEF Promise!Double, Used, Refusing
  <2>2. QED
    BY <2>1 DEF Honest, Promise!Next
<1>6. QED
  BY <1>3, <1>4, <1>5

LEMMA TrafficHonest ==
  ASSUME ValuesInv, ValuesInv', Earned, NEW s \in Sessions, Traffic(s)
  PROVE  Honest
<1>1. UNCHANGED <<row, cache, copied, proc>>
  BY DEF Traffic, rowVars, historyVars, migrationVars
<1>2. Up' = Up /\ Refusing' = Refusing
  BY <1>1 DEF Up, Refusing
<1>3. Promise!Use
  BY <1>1, <1>2, TrafficAdds DEF Promise!Use
<1>4. QED
  BY <1>3 DEF Honest, Promise!Next

LEMMA StepHonest ==
  ASSUME SchemaInv, ValuesInv, ValuesInv', Earned, Earned', NoPhantomUsage',
         Justified, Justified', [Next]_vars
  PROVE  Honest
<1>1. CASE UNCHANGED vars
  <2>1. UNCHANGED <<row, cache, reading, copied, proc>>
    BY <1>1 DEF vars, rowVars, sessionVars, historyVars, migrationVars
  <2>2. QED
    BY <2>1, Silent DEF Up
<1>2. ASSUME NEW i \in Instances, Process(i) \/ Interruption(i)
      PROVE  Honest
  <2>1. \/ (Progress(i) \/ Serve(i) \/ Signal(i)) /\ UNCHANGED <<rowVars, sessionVars>>
        \/ (LoseRace(i) \/ Exit(i) \/ Fault(i)) /\ Forgets(i)
    BY <1>2 DEF Process, Interruption
  <2>2. QED
    BY <2>1, RunnerHonest, EndHonest
<1>3. ASSUME NEW i \in Instances,
             \/ \E w \in writes[i] : StatementFails(i, w)
             \/ \E gone \in SUBSET Sessions, silent \in BOOLEAN : Disconnect(i, gone, silent)
             \/ \E s \in Sessions : Accept(i, s) \/ Cleanup(i, s)
      PROVE  Honest
  <2>1. UNCHANGED <<row, cache, reading, copied, proc>>
    BY <1>3 DEF StatementFails, Disconnect, Accept, Cleanup, rowVars, sessionVars, historyVars,
       migrationVars
  <2>2. QED
    BY <2>1, Silent DEF Up
<1>4. ASSUME NEW i \in Instances,
             \/ Refresh(i) \/ RejectVoucher(i)
             \/ \E w \in writes[i] : Execute(i, w)
             \/ \E s \in Sessions : \E stop \in BOOLEAN : AcctUpdate(i, s, stop)
      PROVE  Honest
  BY <1>4, RefreshHonest, RejectHonest, ExecuteHonest, UpdateHonest
<1>5. ASSUME NEW i \in Instances, NEW s \in Sessions,
             AcctStart(i, s) \/ \E r \in 0 .. MaxReading : Reconcile(i, s, r)
      PROVE  Honest
  BY <1>5, OpenHonest
<1>6. ASSUME NEW s \in Sessions, Traffic(s)
      PROVE  Honest
  BY <1>6, TrafficHonest
<1>7. QED
  BY <1>1, <1>2, <1>3, <1>4, <1>5, <1>6 DEF Next

LEMMA InitHonest == ASSUME Init PROVE Promise!Init
<1>1. Used = {}
  BY DEF Init, Used
<1>2. Up = {} /\ Refusing = {}
  BY DEF Init, MigrationsInit, Down, Up, Refusing, Ready
<1>3. row.used = 0 /\ row.enabled = TRUE /\ copied = {}
  BY DEF Init
<1>4. QED
  BY <1>1, <1>2, <1>3, FS_EmptySet DEF Promise!Init

(***************************************************************************)
(* The theorems                                                            *)
(***************************************************************************)

LEMMA SchemaNext ==
  ASSUME SchemaInv, [Next]_vars
  PROVE  SchemaInv'
<1>1. CASE UNCHANGED vars
  BY <1>1, SchemaIdle DEF vars, migrationVars, schemaVars
<1>2. ASSUME NEW i \in Instances, Process(i) \/ Interruption(i)
      PROVE  SchemaInv'
  BY <1>2, ProcessSplit, SchemaStep
<1>3. ASSUME NEW i \in Instances,
             \/ Refresh(i) \/ RejectVoucher(i)
             \/ \E w \in writes[i] : Execute(i, w) \/ StatementFails(i, w)
             \/ \E gone \in SUBSET Sessions, silent \in BOOLEAN : Disconnect(i, gone, silent)
             \/ \E s \in Sessions :
                  \/ Accept(i, s) \/ AcctStart(i, s) \/ Cleanup(i, s)
                  \/ \E r \in 0 .. MaxReading : Reconcile(i, s, r)
                  \/ \E stop \in BOOLEAN : AcctUpdate(i, s, stop)
      PROVE  SchemaInv'
  <2>1. UNCHANGED <<schemaVars, proc>>
    BY <1>3 DEF Refresh, RejectVoucher, Execute, StatementFails, Disconnect, Accept, AcctStart,
       Cleanup, Reconcile, AcctUpdate, migrationVars, schemaVars
  <2>2. UNCHANGED faults \/ Interrupts
    BY <1>3 DEF Refresh, RejectVoucher, Execute, StatementFails, Disconnect, Accept, AcctStart,
       Cleanup, Reconcile, AcctUpdate, migrationVars
  <2>3. QED
    BY <2>1, <2>2, SchemaIdle
<1>4. ASSUME NEW s \in Sessions, Traffic(s)
      PROVE  SchemaInv'
  BY <1>4, SchemaIdle DEF Traffic, migrationVars, schemaVars
<1>5. QED
  BY <1>1, <1>2, <1>3, <1>4 DEF Next

ClusterInv == SchemaInv /\ ValuesInv /\ Books /\ Ahead /\ Earned

LEMMA ClusterInvariant == Spec => []ClusterInv
<1>1. Init => ClusterInv
  BY SchemaInitially, ValuesInitially, BooksInitially, AheadInitially, EarnedInitially
  DEF Init, ClusterInv
<1>2. ClusterInv /\ [Next]_vars => ClusterInv'
  <2> SUFFICES ASSUME ClusterInv, [Next]_vars PROVE ClusterInv'
    OBVIOUS
  <2>1. SchemaInv' /\ ValuesInv'
    BY SchemaNext, ValuesStep DEF ClusterInv
  <2>2. Books' /\ Ahead' /\ Earned'
    BY <2>1, BooksStep, AheadStep, EarnedStep DEF ClusterInv
  <2>3. QED
    BY <2>1, <2>2 DEF ClusterInv
<1>3. QED
  BY <1>1, <1>2, PTL DEF Spec

\* Every variable of the cluster keeps its type (service.go:30-57,
\* postgres.go:59-85).
THEOREM ClusterTypeCorrect == Spec => []TypeOK
<1>1. ClusterInv => TypeOK
  BY DEF ClusterInv, SchemaInv, ValuesInv, TypeOK
<1>2. QED
  BY <1>1, ClusterInvariant, PTL

\* Any number of processes of any releases, starting together, failing and
\* being killed between any two steps, apply each migration at most once, and
\* the table says which (postgres.go:59-85).
THEOREM MigrationsAppliedOnce == Spec => []AppliedOnce
<1>1. ClusterInv => AppliedOnce
  BY DEF ClusterInv, SchemaInv
<1>2. QED
  BY <1>1, ClusterInvariant, PTL

\* A process that reads rows or serves finds every migration of its release
\* applied, in order (postgres.go:57-86, bootstrap.go:28-31).
THEOREM SchemaBeforeService == Spec => []SchemaReady
<1>1. ClusterInv => SchemaReady
  BY DEF ClusterInv, SchemaInv
<1>2. QED
  BY <1>1, ClusterInvariant, PTL

\* Whichever instances the updates of a session reach, and whichever of them
\* die, a session opened once is charged for at most its counter, and for all
\* of the last reading its own instance has seen (accounting.go:110-126).
THEOREM SessionChargedOnce == Spec => []SessionBooks
<1>1. ClusterInv => SessionBooks
  BY BooksImply DEF ClusterInv
<1>2. QED
  BY <1>1, ClusterInvariant, PTL

\* No refresh, in whatever order with charges and statements of any instances,
\* counts usage twice in a cache (service.go:209-226, accounting.go:136-153).
THEOREM CachesNeverAhead == Spec => []NoInstanceAhead
<1>1. ClusterInv => NoInstanceAhead
  BY DEF ClusterInv, Ahead
<1>2. QED
  BY <1>1, ClusterInvariant, PTL

\* Through any number of instances and sessions, and whatever is refreshed,
\* lost or killed meanwhile, nobody is counted or refused for usage that was
\* never made, unless a session was opened twice (auth.go:75-88,
\* service.go:209-226, accounting.go:110-153).
THEOREM OnlyUsageIsCounted == Spec => []NoPhantomUsage
<1>1. ClusterInv => NoPhantomUsage
  BY EarnedImplies DEF ClusterInv
<1>2. QED
  BY <1>1, ClusterInvariant, PTL

\* The instances implement Account: charges, refusals and disables, of however
\* many instances, are those of one honest account of the voucher (auth.go:75-88,
\* accounting.go:153-208, service.go:209-226).
THEOREM ImplementsAccount == Spec => AccountHonest
<1>1. Spec => []Justified
  <2>1. ClusterInv /\ ClusterInv' /\ NoPhantomUsage' /\ Justified /\ [Next]_vars => Justified'
    BY JustifiedStep DEF ClusterInv
  <2>2. Init => Justified
    BY JustifiedInitially
  <2>3. QED
    BY <2>1, <2>2, ClusterInvariant, OnlyUsageIsCounted, PTL DEF Spec
<1>2. ClusterInv /\ ClusterInv' /\ NoPhantomUsage' /\ Justified /\ Justified' /\ [Next]_vars
        => [Promise!Next]_(Promise!vars)
  BY StepHonest DEF ClusterInv, Honest
<1>3. Init => Promise!Init
  BY InitHonest
<1>4. QED
  BY <1>1, <1>2, <1>3, ClusterInvariant, OnlyUsageIsCounted, PTL
     DEF Spec, AccountHonest, Promise!Spec

=============================================================================
