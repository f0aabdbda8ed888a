------------------------------ MODULE MCServer ------------------------------
(***************************************************************************)
(* Small instances of Server.  Rows: u, a voucher with a usage limit of 2  *)
(* seconds; d, a voucher with a data cap of 2; c, a calendar voucher with  *)
(* a window of 1; s and t, subscribers.  u and s may have one session at a *)
(* time.                                                                   *)
(***************************************************************************)
EXTENDS Ledger, Claims, TLC

MCVouchers == RowIds \cap {"u", "d", "c"}
Units(sec, oct) == [x \in Dims |-> IF x = "sec" THEN sec ELSE oct]
MCLimit == [i \in RowIds |-> CASE i = "u" -> Units(2, 0)
                                 [] i = "d" -> Units(0, 2)
                                 [] OTHER -> NoUsage]
MCWindow == [i \in RowIds |-> IF i = "c" THEN 1 ELSE Nil]
MCSimUse == [i \in RowIds |-> IF i \in {"u", "s"} THEN 1 ELSE 0]

Single(k, v) == [x \in {k} |-> v]
None == EmptyMap

SeedUsage == Single("u", "alice")
SeedData == Single("d", "alice")
SeedCalendar == Single("c", "alice")
SeedSubscriber == Single("s", "alice")

OneNas == Single("n1", "h1")
ThreeNas == [k \in NasIds |-> CASE k = "n1" -> "h1" [] k = "n2" -> "h2" [] k = "n3" -> "h3"]
TwoNas == [k \in {"n1", "n2"} |-> IF k = "n1" THEN "h1" ELSE "h2"]

Exact1 == {<<"h1", "h1">>}
Exact2 == {<<"h1", "h1">>, <<"h2", "h2">>}
Overlapping == Exact2 \cup {<<"h1", "h2">>, <<"h3", "h3">>}

Seconds == {Units(x, 0) : x \in 1 .. 2}
Both == {Units(1, 1), Units(1, 2)}
One == {Units(1, 0)}
Nothing == {}

\* Bound of MCUsers: first logins, or sessions, but not both in one behaviour;
\* no statement fails in the latter, and their clock is a tick shorter.
NoLogins == /\ issued = Seed
            /\ \A h \in Requests : auth[h] = NewRequest
            /\ \A r \in Refreshers : refresh[r] = IdleRefresh
NoSessions == minted = 0 /\ jobs = EmptyBag /\ \A c \in Reconcilers : recon[c] = Nil
Apart == NoSessions \/ (NoLogins /\ lost = 0 /\ now < MaxTime)

\* Access-Requests, and refreshes, are alike.
Alike == Permutations(Requests) \cup Permutations(Refreshers)

=============================================================================
