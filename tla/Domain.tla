------------------------------- MODULE Domain -------------------------------
(***************************************************************************)
(* The values the RADIUS server works on (internal/domain) and the pure    *)
(* decisions it takes on them.  A radius_users row is identified by its    *)
(* UUID; the voucher policy copied into the row when it is created (is it  *)
(* a voucher, its limits, its calendar window) never changes afterwards    *)
(* and is a function of that UUID.                                         *)
(***************************************************************************)
EXTENDS Integers, FiniteSets

CONSTANTS
  Usernames,    \* the User-Name strings
  RowIds,       \* UUIDs of radius_users rows
  Vouchers,     \* the rows with is_voucher = true
  Limit,        \* Limit[i]["sec"]: voucher_time_limit_seconds of a "usage"
                \* voucher, Limit[i]["oct"]: voucher_data_cap_bytes; 0 is none
  Window,       \* voucher_time_limit_seconds of a "calendar" voucher, or Nil
  SimUse,       \* simultaneous_use a row is created with, 0 is unlimited
  Hosts,        \* host parts of NAS addresses
  HostPrefix,   \* <<h, g>>: the text h is a prefix of the address of a peer g
  NasIds,       \* UUIDs of radius_nas rows
  AcctIds,      \* Acct-Session-Id strings
  Readings,     \* cumulative counters an accounting packet may carry
  Nil,          \* a nil pointer / SQL NULL
  StaleAfter,   \* STALE_SESSION_TIMEOUT
  MaxSessions   \* bound: sessions ever started

\* The two metered quantities: session time and input + output octets.
Dims == {"sec", "oct"}

Usage == [Dims -> Nat]

OptTime == Nat \cup {Nil}

ASSUME PolicyAssumption ==
  /\ Vouchers \subseteq RowIds
  /\ Limit \in [RowIds -> Usage]
  /\ Window \in [RowIds -> OptTime]
  /\ SimUse \in [RowIds -> Nat]
  /\ \A i \in RowIds : Window[i] # Nil => Limit[i]["sec"] = 0

ASSUME NilAssumption == Nil \notin Nat \cup RowIds

ASSUME BoundAssumption ==
  /\ Readings \subseteq Usage
  /\ HostPrefix \subseteq Hosts \X Hosts
  /\ StaleAfter \in Nat
  /\ MaxSessions \in Nat

SessionIds == 1 .. MaxSessions

-----------------------------------------------------------------------------
(* Records *)

\* domain.RadiusUser, as stored in radius_users and in Service.subscribers.
Row == [id: RowIds, name: Usernames, enabled: BOOLEAN, sim: Nat,
        first: OptTime, expires: OptTime, used: Usage]

\* domain.SessionState
Statuses == {"active", "stopped", "stale"}

\* domain.RadiusSession.  cum holds the last counters reported, ended says
\* whether StopTime is set.
Session == [acct: AcctIds, name: Usernames, host: Hosts, status: Statuses,
            cum: Usage, last: Nat, ended: BOOLEAN]

\* domain.NAS
NasRow == [host: Hosts, enabled: BOOLEAN]

-----------------------------------------------------------------------------
(* Maps: a Go map or an SQL table is a function whose domain is its keys.  *)

IsMap(f, K, V) == DOMAIN f \subseteq K /\ \A k \in DOMAIN f : f[k] \in V

EmptyMap == [k \in {} |-> k]

\* f[key] = value, inserting the key when it is absent.
Put(f, key, value) ==
  [k \in DOMAIN f \cup {key} |-> IF k = key THEN value ELSE f[k]]

Without(f, key) == [k \in DOMAIN f \ {key} |-> f[k]]

-----------------------------------------------------------------------------
(* Usage arithmetic and the voucher limits *)

NoUsage == [d \in Dims |-> 0]

Plus(a, b) == [d \in Dims |-> a[d] + b[d]]

AtLeast(a, b) == [d \in Dims |-> IF b[d] > a[d] THEN b[d] ELSE a[d]]

\* Mutant: a counter that went backwards gives a negative delta.
DeltaSigned(reading, cum) == [d \in Dims |-> reading[d] - cum[d]]

\* What a cumulative reading adds to the previous one of its session: a
\* counter that went backwards is taken to have restarted from zero.
Delta(reading, cum) ==
  [d \in Dims |-> IF reading[d] < cum[d] THEN reading[d]
                                         ELSE reading[d] - cum[d]]

IsVoucher(row) == row.id \in Vouchers

\* The usage-time limit or the data cap is reached.
LimitHit(row) ==
  /\ IsVoucher(row)
  /\ \E d \in Dims : Limit[row.id][d] > 0 /\ row.used[d] >= Limit[row.id][d]

\* now.After(*user.ExpiresAt)
Expired(row, t) == IsVoucher(row) /\ row.expires # Nil /\ t > row.expires

\* A radius_users row as INSERTed.
NewRow(i, n) == [id |-> i, name |-> n, enabled |-> TRUE, sim |-> SimUse[i],
                 first |-> Nil, expires |-> Nil, used |-> NoUsage]

=============================================================================
