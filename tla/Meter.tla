-------------------------------- MODULE Meter --------------------------------
(***************************************************************************)
(* The octets of a voucher, from the counters of the NAS to the balance    *)
(* (applyAcctUpdate in accounting.go, generateOneVoucher and GetBalance in *)
(* voucher_service.go), with the widths of the numbers: 32-bit octets and  *)
(* gigawords on the wire, 64-bit totals, and a 32-bit signed column for    *)
(* the limit a NAS is told.  Totals stay below the clamp at 2^63 - 1.      *)
(***************************************************************************)
EXTENDS Integers, FiniteSets

CONSTANTS
  Two32,        \* 2^32
  MaxInt32,     \* 2^31 - 1
  Caps,         \* data_cap_bytes a package may have; 0 is no cap
  MaxTraffic,   \* bound: octets the session has
  MaxSent,      \* bound: updates sent
  MaxUsed       \* bound: octets charged

ASSUME MeterAssumption ==
  /\ Two32 \in Nat \ {0}
  /\ MaxInt32 \in Nat
  /\ Caps \subseteq Nat

VARIABLES
  traffic,      \* external: octets the session has had, in and out
  wire,         \* updates sent, each delivered never, once or several times
  session,      \* input and output octets of the session in memory
  bytes,        \* the voucher's data_bytes_used, in memory and in its row
  top,          \* history: the largest total delivered
  late,         \* history: an update was delivered after a later one
  packageCap,   \* data_cap_bytes of the package now
  voucher,      \* the voucher's own cap and octet limit, or Unsold
  edited,       \* history: the package was edited after the sale
  balance       \* the local variables of GetBalance

meterVars == <<traffic, wire, session, bytes, top, late, packageCap, voucher, edited, balance>>

Unsold == [cap |-> -1, octets |-> 0]
NoBalance == [pc |-> "idle", used |-> 0, left |-> 0]

MeterInit ==
  /\ traffic = [in |-> 0, out |-> 0]
  /\ wire = {}
  /\ session = [in |-> 0, out |-> 0]
  /\ bytes = 0
  /\ top = 0
  /\ late = FALSE
  /\ packageCap \in Caps
  /\ voucher = Unsold
  /\ edited = FALSE
  /\ balance = NoBalance

counterVars == <<traffic, wire, session, bytes, top, late>>
saleVars == <<packageCap, voucher, edited>>

-----------------------------------------------------------------------------
(* The sale *)

\* The cap as uint32, if it fits.
OctetLimit(cap) == IF cap < Two32 THEN cap ELSE 0

\* max_total_octets is INTEGER: a limit that needs the 32nd bit is refused
\* by the database driver, and no voucher of the package can be generated.
Sell ==
  /\ voucher = Unsold
  /\ OctetLimit(packageCap) <= MaxInt32
  /\ voucher' = [cap |-> packageCap, octets |-> OctetLimit(packageCap)]
  /\ UNCHANGED <<counterVars, packageCap, edited, balance>>

\* Bound: once after the sale.
EditPackage(cap) ==
  /\ cap # packageCap
  /\ ~edited
  /\ packageCap' = cap
  /\ edited' = (edited \/ voucher # Unsold)
  /\ UNCHANGED <<counterVars, voucher, balance>>

-----------------------------------------------------------------------------
(* The counters *)

\* External: one octet in direction d, for a voucher that is sold.
Octet(d) ==
  /\ voucher # Unsold
  /\ traffic.in + traffic.out < MaxTraffic
  /\ traffic' = [traffic EXCEPT ![d] = @ + 1]
  /\ UNCHANGED <<wire, session, bytes, top, late, saleVars, balance>>

\* Acct-Input-Octets, Acct-Input-Gigawords and so on; a NAS may leave out
\* gigawords that are zero.
OnWire(n) == [octets |-> n % Two32, gigawords |-> n \div Two32]

\* External: the NAS sends an update.
SendUpdate ==
  /\ Cardinality(wire) < MaxSent
  /\ wire' = wire \cup {[in |-> OnWire(traffic.in), out |-> OnWire(traffic.out)]}
  /\ wire' # wire
  /\ UNCHANGED <<traffic, session, bytes, top, late, saleVars, balance>>

\* Mutant: gigawords are counted as octets.
CombineNarrow(counter) == counter.gigawords + counter.octets

Combine(counter) == counter.gigawords * Two32 + counter.octets

\* A counter that went back is taken for one that started again.
OctetDelta(new, old) == IF new - old < 0 THEN new ELSE new - old

\* An update as the NAS meant it.
Total(u) == u.in.gigawords * Two32 + u.in.octets + u.out.gigawords * Two32 + u.out.octets

DeliverUpdate(u) ==
  LET in == Combine(u.in)
      out == Combine(u.out)
      delta == OctetDelta(in + out, session.in + session.out)
  IN  /\ u \in wire
      /\ bytes + delta <= MaxUsed
      /\ session' = [in |-> in, out |-> out]
      /\ bytes' = bytes + delta
      /\ top' = IF Total(u) > top THEN Total(u) ELSE top
      /\ late' = (late \/ Total(u) < top)
      /\ UNCHANGED <<traffic, wire, saleVars, balance>>

-----------------------------------------------------------------------------
(* GET /vouchers/:code/balance *)

\* GetUserByUsername.
BalanceUser ==
  /\ balance.pc # "user"
  /\ voucher # Unsold
  /\ balance' = [pc |-> "user", used |-> bytes, left |-> 0]
  /\ UNCHANGED <<counterVars, saleVars>>

\* Mutant: what is left may be negative.
LeftSigned(cap, used) == cap - used

LeftOf(cap, used) == IF cap - used < 0 THEN 0 ELSE cap - used

\* GetPackage: the package as it is now, not as it was sold.
BalancePackage ==
  /\ balance.pc = "user"
  /\ balance' = [balance EXCEPT !.pc = "answered", !.left = LeftOf(packageCap, balance.used)]
  /\ UNCHANGED <<counterVars, saleVars>>

\* The package is gone or cannot be read: what is left stays zero in the
\* answer, which names no package.
BalanceNoPackage ==
  /\ balance.pc = "user"
  /\ balance' = [balance EXCEPT !.pc = "bare"]
  /\ UNCHANGED <<counterVars, saleVars>>

MeterNext ==
  \/ Sell
  \/ \E cap \in Caps : EditPackage(cap)
  \/ \E d \in {"in", "out"} : Octet(d)
  \/ SendUpdate
  \/ \E u \in wire : DeliverUpdate(u)
  \/ BalanceUser
  \/ BalancePackage
  \/ BalanceNoPackage

MeterSpec == MeterInit /\ [][MeterNext]_meterVars

-----------------------------------------------------------------------------

Counter == [octets: 0 .. Two32 - 1, gigawords: Nat]
InOut == [in: Nat, out: Nat]

MeterTypeOK ==
  /\ traffic \in InOut
  /\ wire \subseteq [in: Counter, out: Counter]
  /\ session \in InOut
  /\ bytes \in Nat
  /\ top \in Nat
  /\ late \in BOOLEAN
  /\ packageCap \in Caps
  /\ voucher \in [cap: Caps \cup {-1}, octets: 0 .. MaxInt32]
  /\ edited \in BOOLEAN
  /\ balance \in [pc: {"idle", "user", "answered", "bare"}, used: Nat, left: Nat]

\* A voucher pays for all the traffic its NAS has reported, through the wrap of
\* either 32-bit counter and whatever the network repeats or reorders, and for
\* no more unless an update came after a later one: then the older total is
\* taken for a counter that started again (accounting.go:97-133).
AllBytesCharged == bytes >= top /\ (late \/ bytes = top)

\* Until its package is edited, a voucher that has a cap, and whose balance
\* names the package and shows nothing left, is at that cap and will be refused;
\* and no voucher is shown less than it has left, although user and package are
\* read one after the other (voucher_service.go:267-303, auth.go:82-87).
\* Nothing left of a voucher without a cap means that there is none.  After an
\* edit the balance is that of the new package, which is never applied.
BalanceHonest ==
  balance.pc = "answered" /\ ~edited =>
    /\ balance.left = 0 /\ voucher.cap > 0 => bytes >= voucher.cap
    /\ balance.left >= voucher.cap - bytes
    /\ balance.left \in 0 .. voucher.cap

=============================================================================
