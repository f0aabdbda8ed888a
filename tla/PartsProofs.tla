------------------------------ MODULE PartsProofs ------------------------------
(***************************************************************************)
(* The parts that share no state with the others: edits of a row, changes  *)
(* of settings, the octet counters and the Access-Accept, for all values   *)
(* of their constants.                                                     *)
(***************************************************************************)
EXTENDS MCParts, TLAPS

(***************************************************************************)
(* Edits.  What makes it inductive: what an edit has read is still in the  *)
(* row, but for the columns that were given in between.                    *)
(***************************************************************************)

CommandsOK ==
  /\ DOMAIN command = Operators
  /\ command = [o \in Operators |-> command[o]]
  /\ \A o \in Operators :
       command[o] = [server |-> command[o].server, client |-> command[o].client,
                     given |-> command[o].given, seen |-> command[o].seen]

SeenIsCurrent ==
  record # Gone => \A o \in Reading : \A x \in Columns \ lost : command[o].seen[x] = record[x]

AnswersFollowWrites ==
  \A o \in Operators :
    /\ command[o].client = "ok" => command[o].server = "written"
    /\ command[o].client = "idle" => command[o].server = "idle"
    /\ command[o].server = "written" => o \in written \/ record = Gone

EditsInv == CommandsOK /\ SeenIsCurrent /\ OnlyOverlapsAreLost /\ AnswersFollowWrites

LEMMA EditsInitially == ASSUME EditsInit PROVE EditsInv
<1>2. CommandsOK
  BY DEF EditsInit, CommandsOK, IdleCommand
<1>3. \A o \in Operators : command[o].server = "idle" /\ command[o].client = "idle"
  BY DEF EditsInit, IdleCommand
<1>4. Reading = {}
  BY <1>3 DEF Reading
<1>5. QED
  BY <1>2, <1>3, <1>4 DEF EditsInit, EditsInv, SeenIsCurrent, OnlyOverlapsAreLost,
     AnswersFollowWrites

\* A step of command o alone, which does not write anything.
LEMMA CommandMoves ==
  ASSUME EditsInv, NEW o \in Operators, CommandsOK',
         \A p \in Operators : p # o => command'[p] = command[p],
         UNCHANGED <<resource, record, intended, written, lost>>,
         command'[o].server = "read" =>
           \/ \A x \in Columns : command'[o].seen[x] = record[x]
           \/ command[o].server = "read" /\ command'[o].seen = command[o].seen,
         command'[o].client = "ok" => command'[o].server = "written",
         command'[o].client = "idle" => command'[o].server = "idle",
         command'[o].server = "written" => command[o].server = "written"
  PROVE  EditsInv'
<1>1. UNCHANGED Columns
  BY DEF Columns
<1>2. SeenIsCurrent'
  BY <1>1 DEF EditsInv, SeenIsCurrent, Reading
<1>3. OnlyOverlapsAreLost'
  BY <1>1 DEF EditsInv, OnlyOverlapsAreLost
<1>4. AnswersFollowWrites'
  BY DEF EditsInv, AnswersFollowWrites
<1>5. QED
  BY <1>2, <1>3, <1>4 DEF EditsInv

\* The steps of that kind.
LEMMA QuietEdits ==
  ASSUME EditsInv, NEW o \in Operators,
         \/ \E flags \in Partial : RunCommand(o, flags)
         \/ ReadRecord(o) \/ Refuse(o) \/ WriteFails(o) \/ Respond(o) \/ GiveUp(o)
  PROVE  EditsInv'
<1>1. /\ command[o].client = "ok" => command[o].server = "written"
      /\ command[o].client = "idle" => command[o].server = "idle"
  BY DEF EditsInv, AnswersFollowWrites
<1>2. ASSUME NEW flags \in Partial, RunCommand(o, flags) PROVE EditsInv'
  <2>1. /\ command' = [command EXCEPT ![o] = [server |-> "sent", client |-> "waiting",
                                              given |-> flags, seen |-> Gone]]
        /\ UNCHANGED <<resource, record, intended, written, lost>>
    BY <1>2 DEF RunCommand
  <2>2. /\ command'[o].server = "sent" /\ command'[o].client = "waiting"
        /\ \A p \in Operators : p # o => command'[p] = command[p]
        /\ CommandsOK'
    BY <2>1 DEF EditsInv, CommandsOK
  <2>3. QED
    BY <2>1, <2>2, CommandMoves
<1>3. CASE ReadRecord(o)
  <2>1. /\ command' = [command EXCEPT ![o].server = "read", ![o].seen = record]
        /\ command[o].server = "sent"
        /\ UNCHANGED <<resource, record, intended, written, lost>>
    BY <1>3 DEF ReadRecord
  <2>2. /\ command'[o].server = "read" /\ command'[o].client = command[o].client
        /\ command'[o].seen = record
        /\ \A p \in Operators : p # o => command'[p] = command[p]
        /\ CommandsOK'
    <3> DEFINE c == command[o]
               d == [server |-> "read", client |-> c.client, given |-> c.given, seen |-> record]
    <3>1. c = [server |-> c.server, client |-> c.client, given |-> c.given, seen |-> c.seen]
      BY DEF EditsInv, CommandsOK
    <3>2. [[c EXCEPT !.server = "read"] EXCEPT !.seen = record] = d
      <4> DEFINE e == [c EXCEPT !.server = "read"]
      <4>1. e = [server |-> "read", client |-> c.client, given |-> c.given, seen |-> c.seen]
        BY <3>1
      <4> HIDE DEF e
      <4>2. [e EXCEPT !.seen = record] = d
        BY <4>1
      <4>3. QED
        BY <4>2 DEF e
    <3>3. command'[o] = d /\ \A p \in Operators : p # o => command'[p] = command[p]
      BY <2>1, <3>2 DEF EditsInv, CommandsOK
    <3>4. command' = [p \in Operators |-> command'[p]]
      BY <2>1 DEF EditsInv, CommandsOK
    <3>5. d = [server |-> d.server, client |-> d.client, given |-> d.given, seen |-> d.seen]
      OBVIOUS
    <3>6. d.server = "read" /\ d.client = c.client /\ d.seen = record
      OBVIOUS
    <3> HIDE DEF d
    <3>7. QED
      BY <3>3, <3>4, <3>5, <3>6 DEF EditsInv, CommandsOK
  <2>3. QED
    BY <1>1, <2>1, <2>2, CommandMoves
<1>4. CASE Refuse(o) \/ WriteFails(o)
  <2>1. /\ command' = [command EXCEPT ![o].server = "refused"]
        /\ command[o].server \in {"sent", "read"}
        /\ UNCHANGED <<resource, record, intended, written, lost>>
    BY <1>4 DEF Refuse, WriteFails, Goes
  <2>2. /\ command'[o].server = "refused" /\ command'[o].client = command[o].client
        /\ \A p \in Operators : p # o => command'[p] = command[p]
        /\ CommandsOK'
    BY <2>1 DEF EditsInv, CommandsOK
  <2>3. QED
    BY <1>1, <2>1, <2>2, CommandMoves
<1>5. CASE Respond(o) \/ GiveUp(o)
  <2>1. PICK client \in {"ok", "error"} :
          /\ command' = [command EXCEPT ![o].client = client]
          /\ client = "ok" => command[o].server = "written"
    <3>1. CASE Respond(o) /\ command[o].server = "written"
      BY <3>1 DEF Respond
    <3>2. CASE GiveUp(o) \/ (Respond(o) /\ command[o].server # "written")
      BY <3>2 DEF Respond, GiveUp
    <3>3. QED
      BY <1>5, <3>1, <3>2
  <2>2. /\ command'[o].server = command[o].server /\ command'[o].client = client
        /\ command'[o].seen = command[o].seen
        /\ \A p \in Operators : p # o => command'[p] = command[p]
        /\ CommandsOK'
    BY <2>1 DEF EditsInv, CommandsOK
  <2>3. UNCHANGED <<resource, record, intended, written, lost>>
    BY <1>5 DEF Respond, GiveUp
  <2>4. QED
    BY <2>1, <2>2, <2>3, CommandMoves
<1>6. QED
  BY <1>2, <1>3, <1>4, <1>5

LEMMA WriteEdits ==
  ASSUME EditsInv, NEW o \in Operators, WriteRecord(o)
  PROVE  EditsInv'
<1> DEFINE c == command[o]
           body == Meant(c.given)
<1>1. /\ c.server = "read" /\ command' = [command EXCEPT ![o].server = "written"]
      /\ UNCHANGED resource
  BY DEF WriteRecord, Goes
<1>2. /\ command'[o].server = "written" /\ command'[o].client = c.client
      /\ command'[o].seen = c.seen
      /\ \A p \in Operators : p # o => command'[p] = command[p]
  BY <1>1 DEF EditsInv, CommandsOK
<1>3. CommandsOK'
  BY <1>1 DEF EditsInv, CommandsOK
<1>4. UNCHANGED Columns
  BY <1>1 DEF Columns
<1>5. Reading' = Reading \ {o} /\ o \in Reading
  BY <1>1, <1>2 DEF Reading
<1>6. CASE record = Gone
  <2>1. UNCHANGED <<record, intended, written, lost>>
    BY <1>6 DEF WriteRecord
  <2>2. AnswersFollowWrites'
    BY <1>1, <1>2, <1>6, <2>1 DEF EditsInv, AnswersFollowWrites
  <2>3. QED
    BY <1>3, <1>6, <2>1, <2>2 DEF EditsInv, SeenIsCurrent, OnlyOverlapsAreLost
<1>7. CASE record # Gone
  <2>1. /\ record' = Over(body, c.seen) /\ intended' = Over(body, intended)
        /\ written' = written \cup {o}
        /\ lost' = IF Reading = {o} THEN lost ELSE lost \cup DOMAIN body
    BY <1>7 DEF WriteRecord, Body
  <2> HIDE DEF body
  <2>2. ASSUME NEW x \in Columns, x \notin lost'
        PROVE  record'[x] = intended'[x] /\ (x \notin DOMAIN body => record'[x] = record[x])
    <3>1. x \notin lost
      BY <2>1, <2>2
    <3>2. c.seen[x] = record[x] /\ record[x] = intended[x]
      BY <1>5, <1>7, <3>1 DEF EditsInv, SeenIsCurrent, OnlyOverlapsAreLost
    <3>3. /\ record'[x] = IF x \in DOMAIN body THEN body[x] ELSE c.seen[x]
          /\ intended'[x] = IF x \in DOMAIN body THEN body[x] ELSE intended[x]
      BY <2>1 DEF Over
    <3>4. QED
      BY <3>2, <3>3
  <2>3. OnlyOverlapsAreLost'
    BY <1>4, <2>2 DEF OnlyOverlapsAreLost
  <2>4. SeenIsCurrent'
    <3> SUFFICES ASSUME NEW p \in Reading', NEW x \in Columns, x \notin lost'
                 PROVE  command'[p].seen[x] = record'[x]
      BY <1>4 DEF SeenIsCurrent
    <3>1. p \in Reading /\ p # o /\ command'[p] = command[p]
      BY <1>2, <1>5 DEF Reading
    <3>2. x \notin lost /\ x \notin DOMAIN body
      BY <2>1, <3>1
    <3>3. command[p].seen[x] = record[x]
      BY <1>7, <3>1, <3>2 DEF EditsInv, SeenIsCurrent
    <3>4. QED
      BY <2>2, <3>1, <3>2, <3>3
  <2>5. AnswersFollowWrites'
    <3>1. \A p \in Operators : command'[p].server = "written" => p \in written'
      BY <1>2, <1>7, <2>1 DEF EditsInv, AnswersFollowWrites
    <3>2. QED
      BY <1>1, <1>2, <3>1 DEF EditsInv, AnswersFollowWrites
  <2>6. QED
    BY <1>3, <2>3, <2>4, <2>5 DEF EditsInv
<1>8. QED
  BY <1>6, <1>7

LEMMA EditsStep ==
  ASSUME EditsInv, [EditsNext]_editsVars
  PROVE  EditsInv'
<1>1. CASE UNCHANGED editsVars
  BY <1>1 DEF editsVars, EditsInv, CommandsOK, SeenIsCurrent, OnlyOverlapsAreLost,
     AnswersFollowWrites, Reading, Columns
<1>2. CASE DeleteRecord
  BY <1>2 DEF DeleteRecord, EditsInv, CommandsOK, SeenIsCurrent, OnlyOverlapsAreLost,
     AnswersFollowWrites
<1>3. QED
  BY <1>1, <1>2, QuietEdits, WriteEdits DEF EditsNext

LEMMA EditsInvariant == EditsSpec => []EditsInv
<1>1. EditsInit => EditsInv
  BY EditsInitially
<1>2. EditsInv /\ [EditsNext]_editsVars => EditsInv'
  BY EditsStep
<1>3. QED
  BY <1>1, <1>2, PTL DEF EditsSpec

\* However many edits of a row overlap, what is lost is a column that one of
\* them gave while another was between its read and its write; all others
\* hold what the edits meant (subscriber_handlers.go:157-227).
THEOREM EditsKeepOthers == EditsSpec => []OnlyOverlapsAreLost
<1>1. EditsInv => OnlyOverlapsAreLost
  BY DEF EditsInv
<1>2. QED
  BY <1>1, EditsInvariant, PTL

\* radiusctl says "ok" only of a row that has been written or is gone, however
\* commands, deletes, errors and time limits interleave
\* (radiusctl/client.go:67-98).
THEOREM SuccessIsTrue == EditsSpec => []SuccessIsWritten
<1>1. EditsInv => SuccessIsWritten
  BY DEF EditsInv, AnswersFollowWrites, SuccessIsWritten
<1>2. QED
  BY <1>1, EditsInvariant, PTL

(***************************************************************************)
(* The octet counters.  What makes it inductive: the session's total is at *)
(* most the largest delivered, and is that one if none came late.          *)
(***************************************************************************)

Last == session.in + session.out

CountersOK ==
  /\ traffic \in InOut
  /\ wire \subseteq [in: Counter, out: Counter]
  /\ session \in InOut
  /\ bytes \in Nat
  /\ top \in Nat
  /\ late \in BOOLEAN

MeterInv == CountersOK /\ AllBytesCharged /\ Last <= top /\ (late \/ Last = top)

LEMMA OnWireType ==
  ASSUME NEW n \in Nat
  PROVE  OnWire(n) \in Counter
BY MeterAssumption DEF OnWire, Counter

LEMMA CombineType ==
  ASSUME NEW c \in Counter
  PROVE  Combine(c) \in Nat
<1>1. c.octets \in Nat /\ c.gigawords \in Nat /\ Two32 \in Nat
  BY MeterAssumption DEF Counter
<1>2. \A x, y \in Nat : x * y \in Nat
  OBVIOUS
<1>3. QED
  BY <1>1, <1>2 DEF Combine

LEMMA DeliverKeeps ==
  ASSUME MeterInv, NEW u \in wire, DeliverUpdate(u)
  PROVE  MeterInv' /\ bytes \in Nat /\ bytes' \in Nat /\ bytes <= bytes'
<1> DEFINE in == Combine(u.in)
           out == Combine(u.out)
           total == in + out
           delta == OctetDelta(total, Last)
<1>1. u.in \in Counter /\ u.out \in Counter
  BY DEF MeterInv, CountersOK
<1>2. in \in Nat /\ out \in Nat
  BY <1>1, CombineType
<1>3. Total(u) = total
  <2>1. \A c \in Counter : c.gigawords * Two32 \in Nat /\ c.octets \in Nat
    <3>1. \A x, y \in Nat : x * y \in Nat
      OBVIOUS
    <3>2. QED
      BY <3>1, MeterAssumption DEF Counter
  <2>2. QED
    BY <1>1, <2>1 DEF Total, Combine
<1>4. Last \in Nat /\ bytes \in Nat /\ top \in Nat /\ Last <= top /\ top <= bytes
  BY DEF MeterInv, CountersOK, AllBytesCharged, InOut, Last
<1>5. delta = IF total < Last THEN total ELSE total - Last
  BY <1>2, <1>4 DEF OctetDelta
<1>6. /\ session' = [in |-> in, out |-> out]
      /\ bytes' = bytes + delta
      /\ top' = IF total > top THEN total ELSE top
      /\ late' = (late \/ total < top)
      /\ UNCHANGED <<traffic, wire>>
  BY <1>3 DEF DeliverUpdate, Last
<1>7. Last' = total
  BY <1>6 DEF Last
<1> HIDE DEF in, out
<1>8. delta \in Nat
  BY <1>2, <1>4, <1>5
<1>9. CountersOK'
  BY <1>2, <1>4, <1>6, <1>8 DEF MeterInv, CountersOK, InOut
<1>10. bytes' >= top' /\ Last' <= top'
  BY <1>2, <1>4, <1>5, <1>6, <1>7
<1>11. late' \/ (bytes' = top' /\ Last' = top')
  <2>1. CASE late \/ total < top
    BY <1>6, <2>1 DEF MeterInv, CountersOK
  <2>2. CASE ~late /\ total >= top
    <3>1. Last = top /\ bytes = top
      BY <2>2 DEF MeterInv, AllBytesCharged
    <3>2. QED
      BY <1>2, <1>4, <1>5, <1>6, <1>7, <2>2, <3>1
  <2>3. QED
    BY <1>2, <1>4, <2>1, <2>2
<1>12. MeterInv'
  BY <1>9, <1>10, <1>11 DEF MeterInv, AllBytesCharged
<1>13. QED
  BY <1>4, <1>6, <1>8, <1>12

LEMMA MeterStep ==
  ASSUME MeterInv, [MeterNext]_meterVars
  PROVE  MeterInv'
<1>1. CASE UNCHANGED <<wire, session, bytes, top, late>> /\ traffic' \in InOut
  BY <1>1 DEF MeterInv, CountersOK, AllBytesCharged, Last
<1>2. UNCHANGED traffic => traffic' \in InOut
  BY DEF MeterInv, CountersOK
<1>3. CASE UNCHANGED meterVars \/ Sell \/ (\E cap \in Caps : EditPackage(cap))
           \/ BalanceUser \/ BalancePackage \/ BalanceNoPackage
  BY <1>1, <1>2, <1>3 DEF meterVars, counterVars, Sell, EditPackage, BalanceUser, BalancePackage,
     BalanceNoPackage
<1>4. ASSUME NEW d \in {"in", "out"}, Octet(d) PROVE MeterInv'
  <2>1. traffic' \in InOut
    BY <1>4 DEF Octet, MeterInv, CountersOK, InOut
  <2>2. QED
    BY <1>1, <1>4, <2>1 DEF Octet
<1>5. CASE SendUpdate
  <2>1. traffic.in \in Nat /\ traffic.out \in Nat
    BY DEF MeterInv, CountersOK, InOut
  <2>2. [in |-> OnWire(traffic.in), out |-> OnWire(traffic.out)] \in [in: Counter, out: Counter]
    BY <2>1, OnWireType
  <2>3. QED
    BY <1>5, <2>2 DEF SendUpdate, MeterInv, CountersOK, AllBytesCharged, Last
<1>6. ASSUME NEW u \in wire, DeliverUpdate(u) PROVE MeterInv'
  BY <1>6, DeliverKeeps
<1>7. QED
  BY <1>3, <1>4, <1>5, <1>6 DEF MeterNext

LEMMA MeterInitially == ASSUME MeterInit PROVE MeterInv
<1>1. /\ traffic = [in |-> 0, out |-> 0] /\ session = [in |-> 0, out |-> 0]
      /\ wire = {} /\ bytes = 0 /\ top = 0 /\ late = FALSE
  BY DEF MeterInit
<1>2. [in |-> 0, out |-> 0] \in InOut
  BY DEF InOut
<1>3. CountersOK
  BY <1>1, <1>2 DEF CountersOK
<1>4. Last = 0
  BY <1>1 DEF Last
<1>5. QED
  BY <1>1, <1>3, <1>4 DEF MeterInv, AllBytesCharged

\* Whatever the width of the counters, and whatever the network repeats,
\* reorders and loses, a voucher pays for at least the largest total that has
\* arrived, and for no more unless a total came late (accounting.go:97-133).
THEOREM OctetsCharged == MeterSpec => []AllBytesCharged
<1>1. MeterInit => MeterInv
  BY MeterInitially
<1>2. MeterInv /\ [MeterNext]_meterVars => MeterInv'
  BY MeterStep
<1>3. MeterInv => AllBytesCharged
  BY DEF MeterInv
<1>4. QED
  BY <1>1, <1>2, <1>3, PTL DEF MeterSpec

(***************************************************************************)
(* The balance.  What makes it inductive: the octets GetBalance has read   *)
(* are no more than the voucher's now, and a package that has not been     *)
(* edited since the sale still has the voucher's cap.                      *)
(***************************************************************************)

SaleOK ==
  /\ packageCap \in Caps
  /\ edited \in BOOLEAN
  /\ voucher # Unsold => voucher.cap \in Caps /\ (edited \/ voucher.cap = packageCap)

Answered ==
  /\ balance.pc # "idle" =>
       voucher # Unsold /\ balance.used \in Nat /\ balance.used <= bytes
  /\ balance.pc = "answered" /\ ~edited => balance.left = LeftOf(voucher.cap, balance.used)

BalanceInv == SaleOK /\ Answered

LEMMA BalanceStep ==
  ASSUME BalanceInv, MeterInv, [MeterNext]_meterVars
  PROVE  BalanceInv'
<1>1. CASE UNCHANGED <<saleVars, balance, bytes>>
  BY <1>1 DEF BalanceInv, SaleOK, Answered, saleVars
<1>2. CASE UNCHANGED meterVars \/ SendUpdate \/ \E d \in {"in", "out"} : Octet(d)
  BY <1>1, <1>2 DEF meterVars, saleVars, SendUpdate, Octet
<1>3. CASE Sell
  <2>1. /\ voucher = Unsold /\ voucher' = [cap |-> packageCap, octets |-> OctetLimit(packageCap)]
        /\ UNCHANGED <<packageCap, edited, balance, bytes>>
    BY <1>3 DEF Sell, counterVars
  <2>2. balance.pc = "idle" /\ voucher'.cap = packageCap
    BY <2>1 DEF BalanceInv, Answered
  <2>3. QED
    BY <2>1, <2>2 DEF BalanceInv, SaleOK, Answered
<1>4. ASSUME NEW cap \in Caps, EditPackage(cap) PROVE BalanceInv'
  <2>1. packageCap' = cap /\ edited' = (edited \/ voucher # Unsold)
        /\ UNCHANGED <<voucher, balance, bytes>>
    BY <1>4 DEF EditPackage, counterVars
  <2>2. QED
    BY <2>1 DEF BalanceInv, SaleOK, Answered
<1>5. ASSUME NEW u \in wire, DeliverUpdate(u) PROVE BalanceInv'
  <2>1. bytes \in Nat /\ bytes' \in Nat /\ bytes <= bytes'
    BY <1>5, DeliverKeeps
  <2>2. UNCHANGED <<packageCap, voucher, edited, balance>>
    BY <1>5 DEF DeliverUpdate, saleVars
  <2>3. QED
    BY <2>1, <2>2 DEF BalanceInv, SaleOK, Answered
<1>6. CASE BalanceUser
  <2>1. voucher # Unsold /\ balance' = [pc |-> "user", used |-> bytes, left |-> 0]
        /\ UNCHANGED <<packageCap, voucher, edited, bytes>>
    BY <1>6 DEF BalanceUser, saleVars, counterVars
  <2>2. bytes \in Nat /\ balance'.pc = "user" /\ balance'.used = bytes
    BY <2>1 DEF MeterInv, CountersOK
  <2>3. QED
    BY <2>1, <2>2 DEF BalanceInv, SaleOK, Answered
<1>7. CASE BalancePackage
  <2>1. /\ balance.pc = "user"
        /\ balance' = [balance EXCEPT !.pc = "answered", !.left = LeftOf(packageCap, balance.used)]
        /\ UNCHANGED <<packageCap, voucher, edited, bytes>>
    BY <1>7 DEF BalancePackage, saleVars, counterVars
  <2>2. QED
    BY <2>1 DEF BalanceInv, SaleOK, Answered
<1>8. CASE BalanceNoPackage
  <2>1. /\ balance.pc = "user" /\ balance' = [balance EXCEPT !.pc = "bare"]
        /\ UNCHANGED <<packageCap, voucher, edited, bytes>>
    BY <1>8 DEF BalanceNoPackage, saleVars, counterVars
  <2>2. QED
    BY <2>1 DEF BalanceInv, SaleOK, Answered
<1>9. QED
  BY <1>2, <1>3, <1>4, <1>5, <1>6, <1>7, <1>8 DEF MeterNext

\* Until its package is edited, a balance that shows nothing left of a cap is
\* that of a voucher at its cap, and one that shows something left never shows
\* less than there is, for any caps and any traffic between the two reads
\* (voucher_service.go:267-303).
THEOREM BalancesAreHonest == MeterSpec => []BalanceHonest
<1>1. MeterInit => MeterInv /\ BalanceInv
  <2> SUFFICES ASSUME MeterInit PROVE MeterInv /\ BalanceInv
    OBVIOUS
  <2>1. balance.pc = "idle" /\ voucher = Unsold /\ packageCap \in Caps /\ edited \in BOOLEAN
    BY DEF MeterInit, NoBalance
  <2>2. QED
    BY <2>1, MeterInitially DEF BalanceInv, SaleOK, Answered
<1>2. MeterInv /\ BalanceInv /\ [MeterNext]_meterVars => MeterInv' /\ BalanceInv'
  BY MeterStep, BalanceStep
<1>3. MeterInv /\ BalanceInv => BalanceHonest
  <2> SUFFICES ASSUME MeterInv, BalanceInv, balance.pc = "answered", ~edited
               PROVE  /\ balance.left = 0 /\ voucher.cap > 0 => bytes >= voucher.cap
                      /\ balance.left >= voucher.cap - bytes
                      /\ balance.left \in 0 .. voucher.cap
    BY DEF BalanceHonest
  <2>1. bytes \in Nat
    BY DEF MeterInv, CountersOK
  <2>2. voucher # Unsold /\ balance.used \in Nat /\ balance.used <= bytes
        /\ balance.left = LeftOf(voucher.cap, balance.used)
    BY DEF BalanceInv, Answered
  <2>3. voucher.cap \in Nat
    BY <2>2, MeterAssumption DEF BalanceInv, SaleOK
  <2>4. QED
    BY <2>1, <2>2, <2>3 DEF LeftOf
<1>4. QED
  BY <1>1, <1>2, <1>3, PTL DEF MeterSpec

(***************************************************************************)
(* The Access-Accept.  What makes it inductive: what each block leaves of  *)
(* the attributes that the properties name.                                *)
(***************************************************************************)

Timeout == {"Session-Timeout", "Idle-Timeout"}
Early == {"service", "ppp", "package", "timeouts"}

\* Timeouts travel under a type of their own, which Packet.Set for a vendor
\* attribute leaves alone.
TypesOK ==
  \A a \in packet : a.name \in Timeout => a.type # "Vendor-Specific"

TimeoutsSent ==
  /\ stage \in Early => \A a \in packet : a.name \notin Timeout
  /\ stage \in {"mikrotik", "voucher"} =>
       Senders("Session-Timeout") = Ruling("session") /\ Senders("Idle-Timeout") = Ruling("idle")
  /\ stage = "done" =>
       /\ Senders("Session-Timeout") \ {"limit"} = Ruling("session")
       /\ Senders("Idle-Timeout") = Ruling("idle")
       /\ user.remaining => "limit" \in Senders("Session-Timeout")

Limits == {"pfSense-Bandwidth", "MikroTik-Total-Limit"}

LimitsSent ==
  /\ stage \in Early \cup {"mikrotik"} => \A a \in packet : a.name \notin Limits
  /\ stage \in {"voucher", "done"} =>
       /\ Senders("pfSense-Bandwidth") = Ruling("bandwidth")
       /\ {a.n : a \in {b \in packet : b.name = "MikroTik-Total-Limit"}}
            = IF EffectiveMaxTotalOctets > 0 THEN {EffectiveMaxTotalOctets} ELSE {}

ReplyInv == user \in User /\ TypesOK /\ TimeoutsSent /\ LimitsSent

\* A step that adds only attributes the properties do not name, and takes
\* away only vendor attributes.
LEMMA BlockAdds ==
  ASSUME ReplyInv, UNCHANGED user, stage \in Early, stage' \in Early,
         \A a \in packet' : a \in packet \/ a.name \notin Timeout \cup Limits
  PROVE  ReplyInv'
BY DEF ReplyInv, TypesOK, TimeoutsSent, LimitsSent, Early

LEMMA EarlyBlocks ==
  ASSUME ReplyInv, ServiceType \/ Ppp \/ Package
  PROVE  ReplyInv'
<1>1. UNCHANGED user /\ stage \in Early /\ stage' \in Early
  BY DEF ServiceType, Ppp, Package, Step, Early
<1>2. ASSUME NEW a \in packet' PROVE a \in packet \/ a.name \notin Timeout \cup Limits
  <2>1. CASE ServiceType
    BY <2>1 DEF ServiceType, Step, Std, Timeout, Limits
  <2>2. CASE Ppp
    BY <2>2 DEF Ppp, Step, Std, Vsa, When, WithPool, Set, FramedIP, EmitDNS, Timeout, Limits
  <2>3. CASE Package
    BY <2>3 DEF Package, Step, Std, Vsa, When, WithPool, Set, EmitDNS, Timeout, Limits
  <2>4. QED
    BY <2>1, <2>2, <2>3
<1>3. QED
  BY <1>1, <1>2, BlockAdds

LEMMA EffectiveIsRuling ==
  ASSUME NEW setting
  PROVE  IF Effective(setting) = "none" THEN Ruling(setting) = {}
                                        ELSE Ruling(setting) = {Effective(setting)}
BY DEF Effective, Ruling

LEMMA TimeoutsBlock ==
  ASSUME ReplyInv, Timeouts
  PROVE  ReplyInv'
<1> DEFINE hard == When(Effective("session") # "none",
                        {Std("Session-Timeout", Effective("session"))})
           idle == When(Effective("idle") # "none", {Std("Idle-Timeout", Effective("idle"))})
<1>1. /\ packet' = packet \cup hard \cup idle
      /\ stage = "timeouts" /\ stage' = "mikrotik" /\ UNCHANGED user
  BY DEF Timeouts, Step
<1>2. \A a \in packet : a.name \notin Timeout /\ a.name \notin Limits
  BY <1>1 DEF ReplyInv, TimeoutsSent, LimitsSent, Early
<1>3. /\ \A a \in hard : a.name = "Session-Timeout" /\ a.type = "Session-Timeout"
      /\ \A a \in idle : a.name = "Idle-Timeout" /\ a.type = "Idle-Timeout"
  BY DEF When, Std
<1>4. {a.from : a \in hard} = Ruling("session") /\ {a.from : a \in idle} = Ruling("idle")
  <2>1. \A name, from : Std(name, from).from = from
    BY DEF Std
  <2>2. QED
    BY <2>1, EffectiveIsRuling DEF When
<1> HIDE DEF hard, idle
<1>5. {b \in packet' : b.name = "Session-Timeout"} = hard
  BY <1>1, <1>2, <1>3 DEF Timeout
<1>6. {b \in packet' : b.name = "Idle-Timeout"} = idle
  BY <1>1, <1>2, <1>3 DEF Timeout
<1>7. Ruling("session")' = Ruling("session") /\ Ruling("idle")' = Ruling("idle")
  BY <1>1 DEF Ruling
<1>8. Senders("Session-Timeout")' = Ruling("session")
  BY <1>4, <1>5 DEF Senders
<1>9. Senders("Idle-Timeout")' = Ruling("idle")
  BY <1>4, <1>6 DEF Senders
<1>10. TimeoutsSent'
  BY <1>1, <1>7, <1>8, <1>9 DEF TimeoutsSent, Early
<1>11. TypesOK' /\ LimitsSent'
  BY <1>1, <1>2, <1>3 DEF ReplyInv, TypesOK, LimitsSent, Timeout, Limits, Early
<1>12. QED
  BY <1>1, <1>10, <1>11 DEF ReplyInv

LEMMA VendorBlock ==
  ASSUME ReplyInv, Vendor
  PROVE  ReplyInv'
<1> DEFINE p == MikrotikSet(packet)
           bandwidth == When(Effective("bandwidth") # "none",
                             {Vsa("pfSense-Bandwidth", Effective("bandwidth"))})
           n == EffectiveMaxTotalOctets
           octets == When(n > 0, {VsaUint32("pfSense-Max-Total-Octets", n),
                                  VsaUint32("MikroTik-Total-Limit", n)})
<1>1. /\ packet' = p \cup bandwidth \cup octets
      /\ stage = "mikrotik" /\ stage' = "voucher" /\ UNCHANGED user
  BY DEF Vendor, Step, OctetsAdded, BandwidthsAdded
<1>2. /\ \A a \in packet : a.type # "Vendor-Specific" => a \in p
      /\ \A a \in p : a \in packet \/ a.name \in {"MikroTik-Rate-Limit", "MikroTik-Group"}
  BY DEF MikrotikSet, Set, Vsa
<1>3. /\ \A a \in bandwidth : a.name = "pfSense-Bandwidth"
      /\ {a.from : a \in bandwidth} = Ruling("bandwidth")
  <2>1. \A name, from : Vsa(name, from).name = name /\ Vsa(name, from).from = from
    BY DEF Vsa
  <2>2. QED
    BY <2>1, EffectiveIsRuling DEF When
<1>4. /\ \A a \in octets : a.name \in {"pfSense-Max-Total-Octets", "MikroTik-Total-Limit"}
      /\ {a.n : a \in {b \in octets : b.name = "MikroTik-Total-Limit"}}
            = IF n > 0 THEN {n} ELSE {}
  <2>1. \A name, m : VsaUint32(name, m).name = name /\ VsaUint32(name, m).n = m
    BY DEF VsaUint32
  <2>2. QED
    BY <2>1 DEF When
<1>5. /\ TypesOK /\ Senders("Session-Timeout") = Ruling("session")
      /\ Senders("Idle-Timeout") = Ruling("idle")
      /\ \A a \in packet : a.name \notin Limits
  BY <1>1 DEF ReplyInv, TimeoutsSent, LimitsSent
<1> HIDE DEF p, n, bandwidth, octets
<1>6. \A name \in Timeout : {b \in packet' : b.name = name} = {b \in packet : b.name = name}
  <2> SUFFICES ASSUME NEW name \in Timeout, NEW b, b.name = name
               PROVE  b \in packet' <=> b \in packet
    OBVIOUS
  <2>1. b \in packet => b \in p
    BY <1>2, <1>5 DEF TypesOK
  <2>2. b \in p => b \in packet
    BY <1>2 DEF Timeout
  <2>3. b \notin bandwidth /\ b \notin octets
    BY <1>3, <1>4 DEF Timeout
  <2>4. QED
    BY <1>1, <2>1, <2>2, <2>3
<1>7. /\ Senders("Session-Timeout")' = Senders("Session-Timeout")
      /\ Senders("Idle-Timeout")' = Senders("Idle-Timeout")
  BY <1>6 DEF Senders, Timeout
<1>8. \A setting : Ruling(setting)' = Ruling(setting)
  BY <1>1 DEF Ruling
<1>9. {b \in packet' : b.name = "pfSense-Bandwidth"} = bandwidth
  <2>1. \A b \in p : b.name # "pfSense-Bandwidth"
    BY <1>2, <1>5 DEF Limits
  <2>2. \A b \in octets : b.name # "pfSense-Bandwidth"
    BY <1>4
  <2>3. QED
    BY <1>1, <1>3, <2>1, <2>2
<1>10. Senders("pfSense-Bandwidth")' = Ruling("bandwidth")
  BY <1>3, <1>9 DEF Senders
<1>11. {b \in packet' : b.name = "MikroTik-Total-Limit"}
         = {b \in octets : b.name = "MikroTik-Total-Limit"}
  <2>1. \A b \in p : b.name # "MikroTik-Total-Limit"
    BY <1>2, <1>5 DEF Limits
  <2>2. \A b \in bandwidth : b.name # "MikroTik-Total-Limit"
    BY <1>3
  <2>3. QED
    BY <1>1, <2>1, <2>2
<1>12. {a.n : a \in {b \in packet' : b.name = "MikroTik-Total-Limit"}} = IF n > 0 THEN {n} ELSE {}
  BY <1>4, <1>11
<1>13. EffectiveMaxTotalOctets' = n
  BY <1>1 DEF n, EffectiveMaxTotalOctets
<1>14. LimitsSent'
  BY <1>1, <1>8, <1>10, <1>12, <1>13 DEF LimitsSent, Early
<1>15. TimeoutsSent'
  BY <1>1, <1>5, <1>7, <1>8 DEF TimeoutsSent, Early
<1>16. TypesOK'
  BY <1>5, <1>6 DEF TypesOK, Timeout
<1>17. QED
  BY <1>1, <1>14, <1>15, <1>16 DEF ReplyInv

LEMMA RestBlock ==
  ASSUME ReplyInv, VoucherRest
  PROVE  ReplyInv'
<1> DEFINE rest == When(user.remaining, {Std("Session-Timeout", "limit")})
<1>1. /\ packet' = packet \cup rest
      /\ stage = "voucher" /\ stage' = "done" /\ UNCHANGED user
  BY DEF VoucherRest, Step
<1>2. \A a \in rest : a.name = "Session-Timeout" /\ a.from = "limit" /\ a.type = "Session-Timeout"
  BY DEF When, Std
<1>3. user.remaining => \E a \in rest : a.name = "Session-Timeout" /\ a.from = "limit"
  BY DEF When, Std
<1> HIDE DEF rest
<1>4. \A name : name # "Session-Timeout" =>
        {b \in packet' : b.name = name} = {b \in packet : b.name = name}
  BY <1>1, <1>2
<1>5. \A setting : Ruling(setting)' = Ruling(setting) /\ "limit" \notin Ruling(setting)
  BY <1>1 DEF Ruling
<1>6. Senders("Session-Timeout")' \ {"limit"} = Ruling("session")
  <2>1. Senders("Session-Timeout") = Ruling("session")
    BY <1>1 DEF ReplyInv, TimeoutsSent
  <2>2. Senders("Session-Timeout")' \ {"limit"} = Senders("Session-Timeout") \ {"limit"}
    BY <1>1, <1>2 DEF Senders
  <2>3. QED
    BY <1>5, <2>1, <2>2
<1>7. user.remaining => "limit" \in Senders("Session-Timeout")'
  BY <1>1, <1>3 DEF Senders
<1>8. TimeoutsSent'
  BY <1>1, <1>4, <1>5, <1>6, <1>7 DEF ReplyInv, TimeoutsSent, Senders, Early
<1>9. EffectiveMaxTotalOctets' = EffectiveMaxTotalOctets
  BY <1>1 DEF EffectiveMaxTotalOctets
<1>10. LimitsSent'
  BY <1>1, <1>4, <1>5, <1>9 DEF ReplyInv, LimitsSent, Senders, Early
<1>11. QED
  BY <1>1, <1>2, <1>8, <1>10 DEF ReplyInv, TypesOK

LEMMA ReplyInvariant == ReplySpec => []ReplyInv
<1>1. ReplyInit => ReplyInv
  BY DEF ReplyInit, ReplyInv, TypesOK, TimeoutsSent, LimitsSent, Early
<1>2. ReplyInv /\ [ReplyNext]_replyVars => ReplyInv'
  <2> SUFFICES ASSUME ReplyInv, [ReplyNext]_replyVars PROVE ReplyInv'
    OBVIOUS
  <2>1. CASE UNCHANGED replyVars
    BY <2>1 DEF replyVars, ReplyInv, TypesOK, TimeoutsSent, LimitsSent, Senders, Ruling,
       EffectiveMaxTotalOctets
  <2>2. QED
    BY <2>1, EarlyBlocks, TimeoutsBlock, VendorBlock, RestBlock DEF ReplyNext
<1>3. QED
  BY <1>1, <1>2, PTL DEF ReplySpec

\* Whatever settings a user, a profile and a package carry, a finished
\* Access-Accept has each timeout and bandwidth that is set, from the user
\* before the profile: no Packet.Set of a vendor attribute removes one
\* (auth.go:161-184).
THEOREM LimitsReachTheNAS == ReplySpec => []LimitsDelivered
<1>1. ReplyInv => LimitsDelivered
  BY DEF ReplyInv, TimeoutsSent, LimitsSent, LimitsDelivered
<1>2. QED
  BY <1>1, ReplyInvariant, PTL

\* For any word size and any octet limits, what is sent is at most what was
\* set, and fits (auth.go:272-284).
THEOREM OctetsAreClamped == ReplySpec => []OctetsWithinPolicy
<1>1. ReplyInv => OctetsWithinPolicy
  <2> SUFFICES ASSUME ReplyInv, stage = "done" PROVE OctetsWithinPolicy
    BY DEF OctetsWithinPolicy
  <2> DEFINE n == EffectiveMaxTotalOctets
             sent == {a.n : a \in {b \in packet : b.name = "MikroTik-Total-Limit"}}
  <2>1. sent = IF n > 0 THEN {n} ELSE {}
    BY DEF ReplyInv, LimitsSent
  <2>2. user.octets \in 0 .. Word /\ user.profileOctets \in Nat /\ Word \in Nat \ {0}
    BY ReplyAssumption DEF ReplyInv, User
  <2>3. n \in Nat /\ n <= Word /\ n <= Policy /\ (n = 0 <=> Policy = 0)
    BY <2>2 DEF EffectiveMaxTotalOctets, Policy
  <2> HIDE DEF n, sent
  <2>4. /\ sent = {} <=> Policy = 0
        /\ \A m \in sent : m <= Policy /\ m <= Word
    BY <2>1, <2>3
  <2>5. QED
    BY <2>4 DEF OctetsWithinPolicy, sent
<1>2. QED
  BY <1>1, ReplyInvariant, PTL

(***************************************************************************)
(* Changes of settings.  What makes it inductive: of the settings that     *)
(* are not torn, a change that memory does not show yet is what the NAS    *)
(* enforces; and a calm one is alone at its NAS, where every active        *)
(* session has all of it, so that its store mends whatever was torn.       *)
(***************************************************************************)

Grouped(v) == \E c \in Changes : v = c /\ "group" \in change[c].wants

Same(k, x) ==
  \/ shown[k][x] = applied[k][x]
  \/ x = "rate" /\ Grouped(shown[k][x])

Fresh(k) == \A x \in Settings : shown[k][x] = applied[k][x]

Booked(k, x) ==
  LET n == NasOf[k]
  IN  /\ status[k] = "begun" => shown[k][x] = applied[k][x]
      /\ status[k] = "active" /\ <<n, n>> \in HostPrefix /\ x \notin Awaited(n) => Same(k, x)
      /\ status[k] = "active" => \A c \in Unstored(n) :
           x \in PacketOf(change[c].wants) => applied[k][x] = c

SessionsBooked ==
  \A k \in UserSessions :
    /\ status[k] = "new" => Fresh(k)
    /\ \A x \in Settings : <<NasOf[k], x>> \notin torn => Booked(k, x)

Alone(c) ==
  /\ change[c].pc = "store"
  /\ Unstored(change[c].at) = {c}
  /\ \A k \in UserSessions : NasOf[k] = change[c].at =>
       /\ status[k] = "begun" => Fresh(k)
       /\ status[k] = "active" =>
            \A x \in PacketOf(change[c].wants) : applied[k][x] = c

IdleWantsNothing ==
  \A c \in Changes : change[c].pc = "idle" => change[c].wants = {}

ChangeInv ==
  /\ ChangeTypeOK
  /\ IdleWantsNothing
  /\ SessionsBooked
  /\ \A c \in calm : Alone(c)

LEMMA ChangeInitially == ASSUME ChangeInit PROVE ChangeInv
<1>1. ChangeTypeOK
  BY DEF ChangeInit, ChangeTypeOK, Unset, IdleChange
<1>2. IdleWantsNothing /\ calm = {}
  BY DEF ChangeInit, IdleWantsNothing, IdleChange
<1>3. SessionsBooked
  BY DEF ChangeInit, SessionsBooked, Fresh, Booked
<1>4. QED
  BY <1>1, <1>2, <1>3 DEF ChangeInv

LEMMA GiveType ==
  ASSUME NEW settings \in [UserSessions -> [Settings -> Changes \cup {None}]],
         NEW S, NEW X, NEW c \in Changes
  PROVE  Give(settings, S, X, c) \in [UserSessions -> [Settings -> Changes \cup {None}]]
BY DEF Give

LEMMA GiveAt ==
  ASSUME NEW settings, NEW S, NEW X, NEW c, NEW k \in UserSessions, NEW x \in Settings
  PROVE  Give(settings, S, X, c)[k][x] = IF k \in S /\ x \in X THEN c ELSE settings[k][x]
BY DEF Give

LEMMA PacketWanted ==
  ASSUME NEW X
  PROVE  /\ PacketOf(X) \subseteq X
         /\ \A x \in X : x \in PacketOf(X) \/ (x = "rate" /\ "group" \in X)
BY DEF PacketOf

LEMMA ChangeTypes ==
  ASSUME ChangeTypeOK, ChangeNext
  PROVE  ChangeTypeOK'
<1>1. ASSUME NEW c \in Changes, NEW W \in Wanted, BeginChange(c, W) PROVE ChangeTypeOK'
  <2>1. CollectForUser \subseteq Devices
    BY DEF CollectForUser, Devices
  <2>2. W \subseteq Settings
    BY ChangeAssumption DEF Settings
  <2>3. QED
    BY <1>1, <2>1, <2>2 DEF BeginChange, ChangeTypeOK
<1>2. ASSUME NEW c \in Changes, NEW n \in Devices,
             Acknowledge(c, n) \/ \E done \in BOOLEAN : Unacknowledged(c, n, done)
      PROVE  ChangeTypeOK'
  <2>1. applied' \in [UserSessions -> [Settings -> Changes \cup {None}]]
    BY <1>2, GiveType DEF Acknowledge, Unacknowledged, ChangeTypeOK
  <2>2. change' \in [Changes -> [pc: {"idle", "exchange", "store", "done"},
                                 wants: SUBSET Settings, left: SUBSET Devices,
                                 at: Devices \cup {None}]]
    <3>1. CASE Acknowledge(c, n)
      <4>1. /\ change[c].wants \in SUBSET Settings /\ change[c].left \ {n} \in SUBSET Devices
            /\ change' = [change EXCEPT ![c] = [pc |-> "store", wants |-> change[c].wants,
                                                left |-> change[c].left \ {n}, at |-> n]]
        BY <3>1 DEF Acknowledge, ChangeTypeOK
      <4>2. QED
        BY <4>1 DEF ChangeTypeOK
    <3>2. CASE \E done \in BOOLEAN : Unacknowledged(c, n, done)
      <4>1. change' = [change EXCEPT ![c] = [change[c] EXCEPT !.left = change[c].left \ {n}]]
        BY <3>2 DEF Unacknowledged
      <4>2. [change[c] EXCEPT !.left = change[c].left \ {n}]
              \in [pc: {"idle", "exchange", "store", "done"}, wants: SUBSET Settings,
                   left: SUBSET Devices, at: Devices \cup {None}]
        <5>1. change[c].left \ {n} \in SUBSET Devices
          BY DEF ChangeTypeOK
        <5> DEFINE left == change[c].left \ {n}
        <5> HIDE DEF left
        <5>2. [change[c] EXCEPT !.left = left]
                = [pc |-> change[c].pc, wants |-> change[c].wants, left |-> left,
                   at |-> change[c].at]
          BY DEF ChangeTypeOK
        <5>3. left \in SUBSET Devices
          BY <5>1 DEF left
        <5>4. [change[c] EXCEPT !.left = left]
                \in [pc: {"idle", "exchange", "store", "done"}, wants: SUBSET Settings,
                     left: SUBSET Devices, at: Devices \cup {None}]
          BY <5>2, <5>3 DEF ChangeTypeOK
        <5>5. QED
          BY <5>4 DEF left
      <4>3. QED
        BY <4>1, <4>2 DEF ChangeTypeOK
    <3>3. QED
      BY <1>2, <3>1, <3>2
  <2>3. PacketOf(change[c].wants) \subseteq Settings /\ Unstored(n) \subseteq Changes
    BY PacketWanted DEF ChangeTypeOK, Unstored
  <2>4. torn' \subseteq Devices \X Settings /\ calm' \subseteq Changes
    BY <1>2, <2>3 DEF Acknowledge, Unacknowledged, ChangeTypeOK
  <2>5. UNCHANGED <<status, shown>>
    BY <1>2 DEF Acknowledge, Unacknowledged
  <2>6. QED
    BY <2>1, <2>2, <2>4, <2>5 DEF ChangeTypeOK
<1>3. ASSUME NEW c \in Changes, Store(c) PROVE ChangeTypeOK'
  <2>1. shown' \in [UserSessions -> [Settings -> Changes \cup {None}]]
    BY <1>3, GiveType DEF Store, ChangeTypeOK
  <2>2. Upset(c) \subseteq Devices \X Settings
    BY DEF Upset, ChangeTypeOK
  <2>3. torn' \subseteq Devices \X Settings /\ calm' \subseteq Changes
    BY <1>3, <2>2 DEF Store, ChangeTypeOK
  <2>4. change' \in [Changes -> [pc: {"idle", "exchange", "store", "done"},
                                 wants: SUBSET Settings, left: SUBSET Devices,
                                 at: Devices \cup {None}]]
    BY <1>3 DEF Store, ChangeTypeOK
  <2>5. QED
    BY <1>3, <2>1, <2>3, <2>4 DEF Store, ChangeTypeOK
<1>4. ASSUME NEW c \in Changes, AnswerChange(c) PROVE ChangeTypeOK'
  <2>1. change' = [change EXCEPT ![c] = [change[c] EXCEPT !.pc = "done"]]
    BY <1>4 DEF AnswerChange
  <2>2. [change[c] EXCEPT !.pc = "done"]
          \in [pc: {"idle", "exchange", "store", "done"}, wants: SUBSET Settings,
               left: SUBSET Devices, at: Devices \cup {None}]
    BY DEF ChangeTypeOK
  <2>3. change' \in [Changes -> [pc: {"idle", "exchange", "store", "done"},
                                 wants: SUBSET Settings, left: SUBSET Devices,
                                 at: Devices \cup {None}]]
    BY <2>1, <2>2 DEF ChangeTypeOK
  <2>4. QED
    BY <1>4, <2>3 DEF AnswerChange, ChangeTypeOK
<1>5. ASSUME NEW k \in UserSessions, BeginSession(k) \/ StartSession(k) \/ EndSession(k)
      PROVE  ChangeTypeOK'
  <2>1. Awaited(NasOf[k]) \subseteq Settings /\ NasOf[k] \in Devices
    BY DEF Awaited, Unstored, Devices, ChangeTypeOK
  <2>2. torn' \subseteq Devices \X Settings /\ calm' \subseteq Changes
    BY <1>5, <2>1 DEF BeginSession, StartSession, EndSession, ChangeTypeOK
  <2>3. QED
    BY <1>5, <2>2 DEF BeginSession, StartSession, EndSession, ChangeTypeOK
<1>6. QED
  BY <1>1, <1>2, <1>3, <1>4, <1>5 DEF ChangeNext

\* Wants are given when a change begins, and stay.
WantsStay ==
  /\ IdleWantsNothing
  /\ \A c \in Changes : change[c].pc # "idle" => change'[c].wants = change[c].wants

\* A setting the step does not concern.
LEMMA BookedKeeps ==
  ASSUME WantsStay, NEW k \in UserSessions, NEW x \in Settings, Booked(k, x),
         Unstored(NasOf[k])' = Unstored(NasOf[k]), status'[k] = status[k],
         shown'[k][x] = shown[k][x], applied'[k][x] = applied[k][x]
  PROVE  Booked(k, x)'
<1>1. \A v : Grouped(v) => Grouped(v)'
  BY DEF WantsStay, IdleWantsNothing, Grouped
<1>2. Same(k, x) => Same(k, x)'
  BY <1>1 DEF Same
<1>3. \A c \in Unstored(NasOf[k]) : change'[c].wants = change[c].wants
  BY DEF Unstored, WantsStay
<1>4. Awaited(NasOf[k])' = Awaited(NasOf[k])
  BY <1>3 DEF Awaited
<1>5. \A c \in Unstored(NasOf[k]) : PacketOf(change'[c].wants) = PacketOf(change[c].wants)
  BY <1>3
<1>6. QED
  BY <1>2, <1>4, <1>5 DEF Booked

\* A calm change the step does not disturb.
LEMMA AloneKeeps ==
  ASSUME NEW c, NEW n, Alone(c), n = change[c].at, change'[c] = change[c],
         Unstored(n)' = Unstored(n),
         \A k \in UserSessions : NasOf[k] = n =>
           /\ status'[k] = status[k] /\ applied'[k] = applied[k]
           /\ status[k] = "begun" => shown'[k] = shown[k]
  PROVE  Alone(c)'
BY DEF Alone, Fresh, PacketOf

LEMMA BeginKeeps ==
  ASSUME ChangeInv, ChangeTypeOK', NEW c \in Changes, NEW W \in Wanted, BeginChange(c, W)
  PROVE  ChangeInv'
<1>1. /\ change[c].pc = "idle" /\ change'[c].pc = "exchange"
      /\ \A d \in Changes : d # c => change'[d] = change[d]
      /\ UNCHANGED <<status, shown, applied, torn, calm>>
  BY DEF BeginChange, ChangeInv, ChangeTypeOK
<1>2. \A n : Unstored(n)' = Unstored(n)
  BY <1>1 DEF Unstored
<1>3. IdleWantsNothing' /\ WantsStay
  BY <1>1 DEF ChangeInv, IdleWantsNothing, WantsStay
<1>4. SessionsBooked'
  BY <1>1, <1>2, <1>3, BookedKeeps DEF ChangeInv, SessionsBooked, Fresh
<1>5. \A d \in calm' : Alone(d)'
  <2>1. ASSUME NEW d \in calm PROVE Alone(d)'
    <3>1. Alone(d) /\ d \in Changes /\ d # c
      BY <1>1 DEF ChangeInv, ChangeTypeOK, Alone
    <3>2. QED
      BY <1>1, <1>2, <3>1, AloneKeeps
  <2>2. QED
    BY <1>1, <2>1
<1>6. QED
  BY <1>3, <1>4, <1>5 DEF ChangeInv

LEMMA AcknowledgeKeeps ==
  ASSUME ChangeInv, ChangeTypeOK', NEW c \in Changes, NEW n \in Devices, Acknowledge(c, n)
  PROVE  ChangeInv'
<1>0. PICK wants : wants = change[c].wants
  OBVIOUS
<1>1. /\ change[c].pc = "exchange" /\ change'[c].pc = "store" /\ change'[c].at = n
      /\ change'[c].wants = wants
      /\ \A d \in Changes : d # c => change'[d] = change[d]
      /\ UNCHANGED <<status, shown>>
  BY <1>0 DEF Acknowledge, ChangeInv, ChangeTypeOK
<1>2. \/ /\ Unstored(n) = {} /\ At(n, {"begun"}) = {}
         /\ calm' = calm \cup {c} /\ torn' = torn
      \/ calm' = calm \ Unstored(n) /\ torn' = torn \cup {n} \X PacketOf(wants)
  BY <1>0 DEF Acknowledge
<1>3. applied' = Give(applied, At(n, {"begun", "active"}), PacketOf(wants), c)
  BY <1>0 DEF Acknowledge
<1>4. Unstored(n)' = Unstored(n) \cup {c} /\ \A m : m # n => Unstored(m)' = Unstored(m)
  BY <1>1 DEF Unstored
<1>5. IdleWantsNothing' /\ WantsStay
  BY <1>0, <1>1 DEF ChangeInv, IdleWantsNothing, WantsStay
<1>6. \A k \in UserSessions, x \in Settings :
        applied'[k][x] = IF k \in At(n, {"begun", "active"}) /\ x \in PacketOf(wants)
                           THEN c ELSE applied[k][x]
  BY <1>3, GiveAt
<1>7. \A k \in UserSessions : k \notin At(n, {"begun", "active"}) => applied'[k] = applied[k]
  BY <1>6 DEF ChangeInv, ChangeTypeOK
<1>8. ASSUME NEW k \in UserSessions, status[k] = "new" PROVE Fresh(k)'
  BY <1>1, <1>7, <1>8 DEF ChangeInv, SessionsBooked, Fresh, At
<1>9. ASSUME NEW k \in UserSessions, NEW x \in Settings, <<NasOf[k], x>> \notin torn'
      PROVE  Booked(k, x)'
  <2>0. Booked(k, x)
    BY <1>2, <1>9 DEF ChangeInv, SessionsBooked
  <2>1. CASE NasOf[k] # n
    BY <1>1, <1>4, <1>5, <1>7, <2>0, <2>1, BookedKeeps DEF At
  <2>2. CASE NasOf[k] = n
    <3>1. x \in PacketOf(wants) => Unstored(n) = {} /\ At(n, {"begun"}) = {}
      BY <1>2, <1>9, <2>2
    <3>2. ASSUME status[k] = "begun" PROVE shown'[k][x] = applied'[k][x]
      <4>1. x \notin PacketOf(wants)
        BY <2>2, <3>1, <3>2 DEF At
      <4>2. QED
        BY <1>1, <1>6, <2>0, <3>2, <4>1 DEF Booked
    <3>3. ASSUME status[k] = "active", <<n, n>> \in HostPrefix, x \notin Awaited(n)'
          PROVE  Same(k, x)'
      <4>1. x \notin wants /\ x \notin Awaited(n)
        <5>1. \A d \in Unstored(n) : change'[d].wants = change[d].wants
          BY <1>5 DEF Unstored, WantsStay
        <5>2. QED
          BY <1>1, <1>4, <3>3, <5>1 DEF Awaited
      <4>2. applied'[k][x] = applied[k][x]
        BY <1>6, <4>1, PacketWanted
      <4>3. Same(k, x)
        BY <2>0, <2>2, <3>3, <4>1 DEF Booked
      <4>4. Grouped(shown[k][x]) => Grouped(shown[k][x])'
        BY <1>1, <1>5 DEF Grouped, WantsStay, IdleWantsNothing
      <4>5. QED
        BY <1>1, <4>2, <4>3, <4>4 DEF Same
    <3>4. ASSUME status[k] = "active", NEW d \in Unstored(n)',
                 x \in PacketOf(change'[d].wants)
          PROVE  applied'[k][x] = d
      <4>1. CASE d = c
        BY <1>1, <1>6, <2>2, <3>4, <4>1 DEF At
      <4>2. CASE d # c
        <5>1. d \in Unstored(n) /\ change'[d] = change[d]
          BY <1>1, <1>4, <3>4, <4>2 DEF Unstored
        <5>2. x \notin PacketOf(wants)
          BY <3>1, <5>1
        <5>3. QED
          BY <1>6, <2>0, <2>2, <3>4, <5>1, <5>2 DEF Booked
      <4>3. QED
        BY <4>1, <4>2
    <3>5. QED
      BY <1>1, <2>2, <3>2, <3>3, <3>4 DEF Booked
  <2>3. QED
    BY <2>1, <2>2
<1>10. ASSUME NEW d \in calm' PROVE Alone(d)'
  <2>1. CASE d = c
    <3>1. Unstored(n) = {} /\ At(n, {"begun"}) = {}
      <4>1. c \notin calm
        BY <1>1 DEF ChangeInv, Alone
      <4>2. QED
        BY <1>2, <1>10, <2>1, <4>1
    <3>2. Unstored(n)' = {c}
      BY <1>4, <3>1
    <3>3. ASSUME NEW k \in UserSessions, NasOf[k] = n
          PROVE  /\ status'[k] # "begun"
                 /\ status'[k] = "active" => \A x \in PacketOf(wants) : applied'[k][x] = c
      <4>1. status[k] # "begun"
        BY <3>1, <3>3 DEF At
      <4>2. ASSUME status[k] = "active", NEW x \in PacketOf(wants)
            PROVE  applied'[k][x] = c
        <5>1. x \in Settings
          BY <1>0, PacketWanted DEF ChangeInv, ChangeTypeOK
        <5>2. QED
          BY <1>6, <3>3, <4>2, <5>1 DEF At
      <4>3. QED
        BY <1>1, <4>1, <4>2
    <3>4. QED
      BY <1>1, <2>1, <3>2, <3>3 DEF Alone
  <2>2. CASE d # c
    <3>1. Alone(d) /\ d \in calm /\ d \in Changes
      BY <1>2, <1>10, <2>2 DEF ChangeInv, ChangeTypeOK
    <3>2. change[d].at # n
      BY <1>2, <1>10, <2>2, <3>1 DEF Alone
    <3>3. \A k \in UserSessions : NasOf[k] = change[d].at => applied'[k] = applied[k]
      BY <1>7, <3>2 DEF At
    <3>4. QED
      BY <1>1, <1>4, <2>2, <3>1, <3>2, <3>3, AloneKeeps
  <2>3. QED
    BY <2>1, <2>2
<1>11. SessionsBooked'
  BY <1>1, <1>8, <1>9 DEF SessionsBooked
<1>12. QED
  BY <1>5, <1>10, <1>11 DEF ChangeInv

LEMMA UnacknowledgedKeeps ==
  ASSUME ChangeInv, ChangeTypeOK', NEW c \in Changes, NEW n \in Devices, NEW done \in BOOLEAN,
         Unacknowledged(c, n, done)
  PROVE  ChangeInv'
<1>0. PICK wants : wants = change[c].wants
  OBVIOUS
<1>1. /\ change[c].pc = "exchange" /\ change'[c].pc = "exchange"
      /\ change'[c].wants = change[c].wants
      /\ \A d \in Changes : d # c => change'[d] = change[d]
      /\ UNCHANGED <<status, shown>>
  BY DEF Unacknowledged, ChangeInv, ChangeTypeOK
<1>2. \A m : Unstored(m)' = Unstored(m)
  BY <1>1 DEF Unstored
<1>3. \/ /\ applied' = Give(applied, At(n, {"begun", "active"}), PacketOf(wants), c)
         /\ torn' = torn \cup {n} \X PacketOf(wants) /\ calm' = calm \ Unstored(n)
      \/ UNCHANGED <<applied, torn, calm>>
  BY <1>0 DEF Unacknowledged
<1>4. IdleWantsNothing' /\ WantsStay
  BY <1>1 DEF ChangeInv, IdleWantsNothing, WantsStay
<1>5. ASSUME NEW k \in UserSessions, NEW x \in Settings,
             NasOf[k] # n \/ status[k] = "new" \/ <<NasOf[k], x>> \notin torn'
      PROVE  applied'[k][x] = applied[k][x]
  <2>1. CASE applied' = Give(applied, At(n, {"begun", "active"}), PacketOf(wants), c)
               /\ torn' = torn \cup {n} \X PacketOf(wants)
    <3>1. ~(k \in At(n, {"begun", "active"}) /\ x \in PacketOf(wants))
      BY <1>5, <2>1 DEF At
    <3>2. QED
      BY <2>1, <3>1, GiveAt
  <2>2. QED
    BY <1>3, <2>1
<1>6. SessionsBooked'
  <2>1. ASSUME NEW k \in UserSessions, status[k] = "new" PROVE Fresh(k)'
    BY <1>1, <1>5, <2>1 DEF ChangeInv, SessionsBooked, Fresh
  <2>2. ASSUME NEW k \in UserSessions, NEW x \in Settings, <<NasOf[k], x>> \notin torn'
        PROVE  Booked(k, x)'
    <3>1. Booked(k, x)
      BY <1>3, <2>2 DEF ChangeInv, SessionsBooked
    <3>2. QED
      BY <1>1, <1>2, <1>4, <1>5, <2>2, <3>1, BookedKeeps
  <2>3. QED
    BY <1>1, <2>1, <2>2 DEF SessionsBooked
<1>7. ASSUME NEW d \in calm' PROVE Alone(d)'
  <2>1. Alone(d) /\ d \in calm /\ d \in Changes /\ d # c
    BY <1>1, <1>3, <1>7 DEF ChangeInv, ChangeTypeOK, Alone
  <2>2. CASE UNCHANGED applied
    BY <1>1, <1>2, <2>1, <2>2, AloneKeeps
  <2>3. CASE calm' = calm \ Unstored(n)
    <3>1. change[d].at # n
      BY <1>7, <2>1, <2>3 DEF Alone
    <3>2. ASSUME NEW k \in UserSessions, NasOf[k] = change[d].at
          PROVE  applied'[k] = applied[k]
      <4>1. \A x \in Settings : applied'[k][x] = applied[k][x]
        BY <1>5, <3>1, <3>2
      <4>2. QED
        BY <4>1 DEF ChangeInv, ChangeTypeOK
    <3>3. QED
      BY <1>1, <1>2, <2>1, <3>2, AloneKeeps
  <2>4. QED
    BY <1>3, <2>2, <2>3
<1>8. QED
  BY <1>4, <1>6, <1>7 DEF ChangeInv

LEMMA StoreKeeps ==
  ASSUME ChangeInv, ChangeTypeOK', NEW c \in Changes, Store(c)
  PROVE  ChangeInv'
<1>0. PICK n, wants : n = change[c].at /\ wants = change[c].wants
  OBVIOUS
<1>1. /\ change[c].pc = "store" /\ change'[c].pc = "exchange" /\ change'[c].wants = wants
      /\ \A d \in Changes : d # c => change'[d] = change[d]
      /\ UNCHANGED <<status, applied>> /\ calm' = calm \ {c}
  BY <1>0 DEF Store, ChangeInv, ChangeTypeOK
<1>2. torn' = (torn \ Mended(c)) \cup Upset(c)
  BY DEF Store
<1>3. /\ c \in Unstored(n) /\ Unstored(n)' = Unstored(n) \ {c}
      /\ \A m : m # n => Unstored(m)' = Unstored(m)
  BY <1>0, <1>1 DEF Unstored
<1>4. IdleWantsNothing' /\ WantsStay
  BY <1>0, <1>1 DEF ChangeInv, IdleWantsNothing, WantsStay
<1>5. \A k \in UserSessions, x \in Settings :
        shown'[k][x] = IF k \in ContainedIn(n) /\ x \in wants THEN c ELSE shown[k][x]
  BY <1>0, GiveAt DEF Store
<1>6. ASSUME NEW k \in UserSessions, status[k] # "active" PROVE shown'[k] = shown[k]
  <2>1. \A x \in Settings : shown'[k][x] = shown[k][x]
    BY <1>5, <1>6 DEF ContainedIn
  <2>2. QED
    BY <2>1 DEF ChangeInv, ChangeTypeOK
<1>7. ASSUME NEW k \in UserSessions, status[k] = "new" PROVE Fresh(k)'
  BY <1>1, <1>6, <1>7 DEF ChangeInv, SessionsBooked, Fresh
<1>8. ASSUME NEW k \in UserSessions, NEW x \in Settings, <<NasOf[k], x>> \notin torn'
      PROVE  Booked(k, x)'
  <2>1. CASE NasOf[k] # n
    <3>1. NasOf[k] \in Devices /\ <<NasOf[k], x>> \notin Mended(c)
      BY <1>0, <2>1 DEF Mended, Devices
    <3>2. Booked(k, x)
      BY <1>2, <1>8, <3>1 DEF ChangeInv, SessionsBooked
    <3>3. ~(k \in ContainedIn(n) /\ x \in wants)
      BY <1>0, <1>2, <1>8, <2>1, <3>1 DEF Upset, ContainedIn
    <3>4. QED
      BY <1>1, <1>3, <1>4, <1>5, <2>1, <3>2, <3>3, BookedKeeps
  <2>2. CASE NasOf[k] = n
    <3>1. (c \in calm /\ x \in PacketOf(wants)) \/ Booked(k, x)
      <4>1. <<n, x>> \notin torn \/ <<n, x>> \in Mended(c)
        BY <1>2, <1>8, <2>2
      <4>2. QED
        BY <1>0, <2>2, <4>1 DEF Mended, ChangeInv, SessionsBooked
    <3>2. c \in calm => Unstored(n)' = {}
      BY <1>0, <1>3 DEF ChangeInv, Alone
    <3>3. ASSUME status[k] = "begun" PROVE shown'[k][x] = applied'[k][x]
      <4>1. shown[k][x] = applied[k][x]
        BY <1>0, <2>2, <3>1, <3>3 DEF ChangeInv, Alone, Booked, Fresh
      <4>2. QED
        BY <1>1, <1>6, <3>3, <4>1
    <3>4. ASSUME status[k] = "active", NEW d \in Unstored(n)', x \in PacketOf(change'[d].wants)
          PROVE  applied'[k][x] = d
      <4>1. d \in Unstored(n) /\ d # c /\ change'[d] = change[d] /\ Booked(k, x)
        BY <1>1, <1>3, <3>1, <3>2 DEF Unstored
      <4>2. QED
        BY <1>1, <2>2, <3>4, <4>1 DEF Booked
    <3>5. ASSUME status[k] = "active", <<n, n>> \in HostPrefix, x \notin Awaited(n)'
          PROVE  Same(k, x)'
      <4>0. shown'[k][x] = IF x \in wants THEN c ELSE shown[k][x]
        BY <1>5, <2>2, <3>5 DEF ContainedIn
      <4>1. CASE x \in PacketOf(wants)
        <5>1. applied[k][x] = c
          BY <1>0, <1>3, <2>2, <3>1, <3>5, <4>1 DEF ChangeInv, Alone, Booked
        <5>2. QED
          BY <1>1, <4>0, <4>1, <5>1, PacketWanted DEF Same
      <4>2. CASE x \in wants /\ x \notin PacketOf(wants)
        <5>1. x = "rate" /\ "group" \in wants
          BY <4>2, PacketWanted
        <5>2. QED
          BY <1>1, <4>0, <4>2, <5>1 DEF Same, Grouped
      <4>3. CASE x \notin wants
        <5>1. Booked(k, x)
          BY <3>1, <4>3, PacketWanted
        <5>2. \A d \in Unstored(n)' : change'[d] = change[d]
          BY <1>1, <1>3 DEF Unstored
        <5>3. x \notin Awaited(n)
          BY <1>0, <1>3, <3>5, <4>3, <5>2 DEF Awaited
        <5>4. Same(k, x)
          BY <2>2, <3>5, <5>1, <5>3 DEF Booked
        <5>5. Grouped(shown[k][x]) => Grouped(shown[k][x])'
          BY <1>5, <1>4, <4>0, <4>3 DEF Grouped, WantsStay, IdleWantsNothing
        <5>6. QED
          BY <1>1, <4>0, <4>3, <5>4, <5>5 DEF Same
      <4>4. QED
        BY <4>1, <4>2, <4>3
    <3>6. QED
      BY <1>1, <2>2, <3>3, <3>4, <3>5 DEF Booked
  <2>3. QED
    BY <2>1, <2>2
<1>9. ASSUME NEW d \in calm' PROVE Alone(d)'
  <2>1. Alone(d) /\ d \in Changes /\ d # c
    BY <1>1, <1>9 DEF ChangeInv, ChangeTypeOK
  <2>2. change[d].at # n
    BY <1>3, <2>1 DEF Alone
  <2>3. QED
    BY <1>1, <1>3, <1>6, <2>1, <2>2, AloneKeeps
<1>10. SessionsBooked'
  BY <1>1, <1>7, <1>8 DEF SessionsBooked
<1>11. QED
  BY <1>4, <1>9, <1>10 DEF ChangeInv

LEMMA SessionMoves ==
  ASSUME ChangeInv, ChangeTypeOK', NEW k \in UserSessions,
         BeginSession(k) \/ StartSession(k) \/ EndSession(k)
  PROVE  ChangeInv'
<1>1. /\ UNCHANGED <<shown, applied, change>> /\ torn \subseteq torn' /\ calm' \subseteq calm
      /\ \A j \in UserSessions : j # k => status'[j] = status[j]
  BY DEF BeginSession, StartSession, EndSession, ChangeInv, ChangeTypeOK
<1>2. \A m : Unstored(m)' = Unstored(m)
  BY <1>1 DEF Unstored
<1>3. IdleWantsNothing' /\ WantsStay
  BY <1>1 DEF ChangeInv, IdleWantsNothing, WantsStay
<1>4. \/ BeginSession(k) /\ status[k] = "new" /\ status'[k] = "begun" /\ Fresh(k)
      \/ StartSession(k) /\ status[k] = "begun" /\ status'[k] = "active"
      \/ EndSession(k) /\ status'[k] = "over"
  BY DEF BeginSession, StartSession, EndSession, ChangeInv, ChangeTypeOK, SessionsBooked
<1>5. SessionsBooked'
  <2>1. ASSUME NEW j \in UserSessions, status'[j] = "new" PROVE Fresh(j)'
    BY <1>1, <1>4, <2>1 DEF ChangeInv, SessionsBooked, Fresh
  <2>2. ASSUME NEW j \in UserSessions, NEW x \in Settings, <<NasOf[j], x>> \notin torn'
        PROVE  Booked(j, x)'
    <3>1. Booked(j, x)
      BY <1>1, <2>2 DEF ChangeInv, SessionsBooked
    <3>2. CASE j # k
      BY <1>1, <1>2, <1>3, <3>1, <3>2, BookedKeeps
    <3>3. CASE j = k /\ BeginSession(k)
      BY <1>1, <1>4, <3>3 DEF Booked, Fresh, BeginSession
    <3>4. CASE j = k /\ EndSession(k)
      BY <1>1, <1>4, <3>4 DEF Booked, EndSession
    <3>5. CASE j = k /\ StartSession(k)
      <4>1. x \notin Awaited(NasOf[k])
        BY <2>2, <3>5 DEF StartSession
      <4>2. \A c \in Unstored(NasOf[k]) : x \notin PacketOf(change[c].wants)
        BY <4>1, PacketWanted DEF Awaited
      <4>3. status[k] = "begun" /\ status'[k] = "active"
        BY <3>5 DEF StartSession, ChangeInv, ChangeTypeOK
      <4>4. shown[k][x] = applied[k][x]
        BY <3>1, <3>5, <4>3 DEF Booked
      <4>5. Same(k, x)'
        BY <1>1, <4>4 DEF Same
      <4>6. \A c \in Unstored(NasOf[k])' : x \notin PacketOf(change'[c].wants)
        BY <1>1, <1>2, <4>2
      <4>7. QED
        BY <3>5, <4>3, <4>5, <4>6 DEF Booked
    <3>6. QED
      BY <1>4, <3>2, <3>3, <3>4, <3>5
  <2>3. QED
    BY <2>1, <2>2 DEF SessionsBooked
<1>6. ASSUME NEW d \in calm' PROVE Alone(d)'
  <2>1. Alone(d) /\ d \in Changes
    BY <1>1, <1>6 DEF ChangeInv, ChangeTypeOK
  <2>2. NasOf[k] = change[d].at => ~StartSession(k)
    BY <1>6, <2>1 DEF StartSession, Alone
  <2>3. ASSUME NEW j \in UserSessions, NasOf[j] = change[d].at
        PROVE  /\ status'[j] = "begun" => Fresh(j)
               /\ status'[j] = "active" => status[j] = "active"
    BY <1>1, <1>4, <2>1, <2>2, <2>3 DEF Alone
  <2>4. QED
    BY <1>1, <1>2, <2>1, <2>3 DEF Alone, Fresh
<1>7. QED
  BY <1>3, <1>5, <1>6 DEF ChangeInv

LEMMA ChangeStep ==
  ASSUME ChangeInv, [ChangeNext]_changeVars
  PROVE  ChangeInv'
<1>1. CASE UNCHANGED changeVars
  BY <1>1 DEF changeVars, ChangeInv, ChangeTypeOK, IdleWantsNothing, SessionsBooked, Booked,
     Fresh, Same, Grouped, Alone, Unstored, Awaited
<1>2. CASE ChangeNext
  <2>1. ChangeTypeOK'
    BY <1>2, ChangeTypes DEF ChangeInv
  <2>2. ASSUME NEW c \in Changes, AnswerChange(c) PROVE ChangeInv'
    <3>1. /\ change[c].pc = "exchange" /\ change'[c].pc = "done"
          /\ change'[c].wants = change[c].wants
          /\ \A d \in Changes : d # c => change'[d] = change[d]
          /\ UNCHANGED <<status, shown, applied, torn, calm>>
      BY <2>2 DEF AnswerChange, ChangeInv, ChangeTypeOK
    <3>2. \A m : Unstored(m)' = Unstored(m)
      BY <3>1 DEF Unstored
    <3>3. IdleWantsNothing' /\ WantsStay
      BY <3>1 DEF ChangeInv, IdleWantsNothing, WantsStay
    <3>4. SessionsBooked'
      BY <3>1, <3>2, <3>3, BookedKeeps DEF ChangeInv, SessionsBooked, Fresh
    <3>5. ASSUME NEW d \in calm PROVE Alone(d)'
      <4>1. Alone(d) /\ d \in Changes /\ d # c
        BY <3>1 DEF ChangeInv, ChangeTypeOK, Alone
      <4>2. QED
        BY <3>1, <3>2, <4>1, AloneKeeps
    <3>6. QED
      BY <2>1, <3>1, <3>3, <3>4, <3>5 DEF ChangeInv
  <2>3. QED
    BY <1>2, <2>1, <2>2, BeginKeeps, AcknowledgeKeeps, UnacknowledgedKeeps, StoreKeeps,
       SessionMoves DEF ChangeNext
<1>3. QED
  BY <1>1, <1>2

\* For any changes, NASes and sessions, and whichever addresses begin alike:
\* what memory shows of an active session its NAS enforces, but where a lost
\* answer, an overlap or another NAS's store has driven them apart; and the
\* next acknowledged change that nothing disturbs mends that
\* (coa.go:43-97 and 151-158).
THEOREM ShownSettingsHold == ChangeSpec => []ShownIsApplied
<1>1. ChangeInit => ChangeInv
  BY ChangeInitially
<1>2. ChangeInv /\ [ChangeNext]_changeVars => ChangeInv'
  BY ChangeStep
<1>3. ChangeInv => ShownIsApplied
  BY DEF ChangeInv, SessionsBooked, Booked, Same, Grouped, ShownIsApplied
<1>4. QED
  BY <1>1, <1>2, <1>3, PTL DEF ChangeSpec

(***************************************************************************)
(* The types of the parts, and of their product, which is what TLC runs.   *)
(* An edit needs to be told that what it has read is a row; a packet that  *)
(* no block asks for a sender there is none of.                            *)
(***************************************************************************)

LEMMA AttributeTypes ==
  ASSUME NEW from \in Origins
  PROVE  /\ \A name \in StdNames : Std(name, from) \in Attribute
         /\ \A name \in VsaNames : Vsa(name, from) \in Attribute
<1>1. 0 \in 0 .. Word
  BY ReplyAssumption
<1>2. QED
  BY <1>1 DEF Std, Vsa, Attribute

LEMMA SetType ==
  ASSUME NEW p \in SUBSET Attribute, NEW a \in Attribute
  PROVE  Set(p, a) \in SUBSET Attribute
BY DEF Set

LEMMA WhenType ==
  ASSUME NEW condition, NEW S, condition => S \subseteq Attribute
  PROVE  When(condition, S) \in SUBSET Attribute
BY DEF When

LEMMA PoolType ==
  ASSUME NEW p \in SUBSET Attribute, NEW setter \in Origins
  PROVE  WithPool(p, setter) \in SUBSET Attribute
<1>1. Std("Framed-Pool", setter) \in Attribute /\ Vsa("MikroTik-Address-Pool", setter) \in Attribute
  BY AttributeTypes DEF StdNames, VsaNames
<1>2. p \cup {Std("Framed-Pool", setter)} \in SUBSET Attribute
  BY <1>1
<1>3. QED
  BY <1>1, <1>2, SetType DEF WithPool

LEMMA DNSType ==
  ASSUME NEW setter \in Origins
  PROVE  EmitDNS(setter) \in SUBSET Attribute
BY AttributeTypes DEF EmitDNS, VsaNames

LEMMA EffectiveType ==
  /\ \A setting : Effective(setting) # "none" => Effective(setting) \in Origins
  /\ EffectiveRateLimit # "none" => EffectiveRateLimit \in Origins
BY DEF Effective, EffectiveRateLimit, Origins

LEMMA OctetsType ==
  ASSUME user \in User
  PROVE  EffectiveMaxTotalOctets \in 0 .. Word
<1>1. user.octets \in 0 .. Word /\ user.profileOctets \in Nat /\ Word \in Nat
  BY ReplyAssumption DEF User
<1>2. QED
  BY <1>1 DEF EffectiveMaxTotalOctets

LEMMA PacketTypes ==
  ASSUME ReplyTypeOK, ReplyNext
  PROVE  packet' \in SUBSET Attribute
<1>1. packet \in SUBSET Attribute /\ user \in User
  BY DEF ReplyTypeOK
<1>2. /\ "user" \in Origins /\ "profile" \in Origins /\ "package" \in Origins
      /\ "limit" \in Origins /\ "login" \in Origins /\ "framed" \in Origins
  BY DEF Origins
<1>3. FramedIP \in SUBSET Attribute
  BY <1>2, AttributeTypes, WhenType DEF FramedIP, StdNames
<1>4. CASE ServiceType
  <2>1. PICK from \in {"login", "framed"} : packet' = packet \cup {Std("Service-Type", from)}
    BY <1>4 DEF ServiceType, Step
  <2>2. QED
    BY <1>1, <1>2, <2>1, AttributeTypes DEF StdNames
<1>5. CASE Ppp
  <2> DEFINE ppp == packet \cup {Std("Framed-Protocol", "profile")}
             addressed == IF "pool" \in user.profile THEN WithPool(ppp, "profile")
                                                     ELSE ppp \cup FramedIP
             mask == When("mask" \in user.profile, {Std("Framed-IP-Netmask", "profile")})
             mtu == When("mtu" \in user.profile, {Std("Framed-MTU", "profile")})
             compression == When("compression" \in user.profile,
                                 {Std("Framed-Compression", "profile")})
             dns == When("dns" \in user.profile, EmitDNS("profile"))
  <2>1. \/ packet' = addressed \cup mask \cup mtu \cup compression \cup dns
        \/ packet' = packet \cup FramedIP
    BY <1>5 DEF Ppp, Step
  <2>2. ppp \in SUBSET Attribute
    BY <1>1, <1>2, AttributeTypes DEF StdNames
  <2> HIDE DEF ppp
  <2>3. addressed \in SUBSET Attribute
    BY <1>2, <1>3, <2>2, PoolType
  <2>4. mask \in SUBSET Attribute /\ mtu \in SUBSET Attribute /\ compression \in SUBSET Attribute
    BY <1>2, AttributeTypes, WhenType DEF StdNames
  <2>5. dns \in SUBSET Attribute
    BY <1>2, DNSType, WhenType
  <2> HIDE DEF addressed, mask, mtu, compression, dns
  <2>6. QED
    BY <1>1, <1>3, <2>1, <2>3, <2>4, <2>5
<1>6. CASE Package
  <2>1. PICK pool \in {packet, WithPool(packet, "package")}, extras \in BOOLEAN :
          packet' = pool \cup When(extras, EmitDNS("package"))
    <3> DEFINE extras == user.packaged /\ ~user.login
               pool == IF extras /\ "pool" \in user.package THEN WithPool(packet, "package")
                                                            ELSE packet
    <3>1. packet' = pool \cup When(extras /\ "dns" \in user.package, EmitDNS("package"))
      BY <1>6 DEF Package, Step
    <3>2. pool \in {packet, WithPool(packet, "package")}
      OBVIOUS
    <3>3. (extras /\ "dns" \in user.package) \in BOOLEAN
      OBVIOUS
    <3> HIDE DEF pool, extras
    <3>4. QED
      BY <3>1, <3>2, <3>3
  <2>2. When(extras, EmitDNS("package")) \in SUBSET Attribute
    BY <1>2, DNSType, WhenType
  <2>3. WithPool(packet, "package") \in SUBSET Attribute
    BY <1>1, <1>2, PoolType
  <2>4. QED
    BY <1>1, <2>1, <2>2, <2>3
<1>7. CASE Timeouts
  <2> DEFINE hard == When(Effective("session") # "none",
                          {Std("Session-Timeout", Effective("session"))})
             idle == When(Effective("idle") # "none", {Std("Idle-Timeout", Effective("idle"))})
  <2>1. packet' = packet \cup hard \cup idle
    BY <1>7 DEF Timeouts, Step
  <2>2. Effective("session") # "none" =>
          {Std("Session-Timeout", Effective("session"))} \subseteq Attribute
    BY EffectiveType, AttributeTypes DEF StdNames
  <2>3. Effective("idle") # "none" =>
          {Std("Idle-Timeout", Effective("idle"))} \subseteq Attribute
    BY EffectiveType, AttributeTypes DEF StdNames
  <2>4. hard \in SUBSET Attribute /\ idle \in SUBSET Attribute
    BY <2>2, <2>3, WhenType
  <2> HIDE DEF hard, idle
  <2>5. QED
    BY <1>1, <2>1, <2>4
<1>8. CASE Vendor
  <2> DEFINE limited == IF EffectiveRateLimit = "none" THEN packet
                        ELSE Set(packet, Vsa("MikroTik-Rate-Limit", EffectiveRateLimit))
             bandwidth == When(Effective("bandwidth") # "none",
                               {Vsa("pfSense-Bandwidth", Effective("bandwidth"))})
             n == EffectiveMaxTotalOctets
             octets == When(n > 0, {VsaUint32("pfSense-Max-Total-Octets", n),
                                    VsaUint32("MikroTik-Total-Limit", n)})
  <2>1. packet' = MikrotikSet(packet) \cup bandwidth \cup octets
    BY <1>8 DEF Vendor, Step, OctetsAdded, BandwidthsAdded
  <2>2. limited \in SUBSET Attribute
    <3>1. EffectiveRateLimit # "none" =>
            Vsa("MikroTik-Rate-Limit", EffectiveRateLimit) \in Attribute
      BY EffectiveType, AttributeTypes DEF VsaNames
    <3>2. QED
      BY <1>1, <3>1, SetType
  <2>3. MikrotikSet(packet) \in SUBSET Attribute
    <3>1. Vsa("MikroTik-Group", "user") \in Attribute
      BY <1>2, AttributeTypes DEF VsaNames
    <3>2. MikrotikSet(packet) = IF "group" \in user.own
                                  THEN Set(limited, Vsa("MikroTik-Group", "user")) ELSE limited
      BY DEF MikrotikSet
    <3> HIDE DEF limited
    <3>3. QED
      BY <2>2, <3>1, <3>2, SetType
  <2>4. bandwidth \in SUBSET Attribute
    <3>1. Effective("bandwidth") # "none" =>
            {Vsa("pfSense-Bandwidth", Effective("bandwidth"))} \subseteq Attribute
      BY EffectiveType, AttributeTypes DEF VsaNames
    <3>2. QED
      BY <3>1, WhenType
  <2>5. octets \in SUBSET Attribute
    <3>1. n \in 0 .. Word
      BY <1>1, OctetsType
    <3> HIDE DEF n
    <3>2. \A name \in VsaNames : VsaUint32(name, n) \in Attribute
      BY <1>2, <3>1 DEF VsaUint32, Attribute
    <3>3. {VsaUint32("pfSense-Max-Total-Octets", n), VsaUint32("MikroTik-Total-Limit", n)}
            \subseteq Attribute
      BY <3>2 DEF VsaNames
    <3>4. QED
      BY <3>3, WhenType
  <2> HIDE DEF bandwidth, octets
  <2>6. QED
    BY <2>1, <2>3, <2>4, <2>5
<1>9. CASE VoucherRest
  <2>1. packet' = packet \cup When(user.remaining, {Std("Session-Timeout", "limit")})
    BY <1>9 DEF VoucherRest, Step
  <2>2. When(user.remaining, {Std("Session-Timeout", "limit")}) \in SUBSET Attribute
    BY <1>2, AttributeTypes, WhenType DEF StdNames
  <2>3. QED
    BY <1>1, <2>1, <2>2
<1>10. QED
  BY <1>4, <1>5, <1>6, <1>7, <1>8, <1>9 DEF ReplyNext

LEMMA ReplyTypes == ReplySpec => []ReplyTypeOK
<1>1. ReplyInit => ReplyTypeOK
  BY DEF ReplyInit, ReplyTypeOK, Stages
<1>2. ReplyTypeOK /\ [ReplyNext]_replyVars => ReplyTypeOK'
  <2> SUFFICES ASSUME ReplyTypeOK, [ReplyNext]_replyVars PROVE ReplyTypeOK'
    OBVIOUS
  <2>1. CASE UNCHANGED replyVars
    BY <2>1 DEF replyVars, ReplyTypeOK
  <2>2. CASE ReplyNext
    <3>1. UNCHANGED user /\ stage' \in Stages
      BY <2>2 DEF ReplyNext, ServiceType, Ppp, Package, Timeouts, Vendor, VoucherRest, Step, Stages
    <3>2. QED
      BY <2>2, <3>1, PacketTypes DEF ReplyTypeOK
  <2>3. QED
    BY <2>1, <2>2
<1>3. QED
  BY <1>1, <1>2, PTL DEF ReplySpec

\* Besides their types: an edit that has read has a row in its hands, and
\* while there is a row there is one that the edits mean.
EditsTypes ==
  /\ EditsTypeOK
  /\ \A o \in Reading : command[o].seen \in Rows
  /\ record # Gone => intended \in Rows

Server == {"idle", "sent", "read", "written", "refused"}
Client == {"idle", "waiting", "ok", "error"}
Command == [server: Server, client: Client, given: Partial, seen: Rows \cup {Gone}]

LEMMA PartialIs ==
  ASSUME NEW f
  PROVE  f \in Partial <=> /\ f = [x \in DOMAIN f |-> f[x]]
                           /\ DOMAIN f \subseteq Columns
                           /\ \A x \in DOMAIN f : f[x] \in Values
<1>1. f \in Partial <=> \E D \in SUBSET Columns : f \in [D -> Values]
  BY DEF Partial
<1>2. QED
  BY <1>1

LEMMA MeantType ==
  ASSUME NEW flags \in Partial
  PROVE  Meant(flags) \in Partial
BY PartialIs DEF Meant

LEMMA OverType ==
  ASSUME NEW new \in Partial, NEW old \in Rows
  PROVE  Over(new, old) \in Rows
BY PartialIs DEF Over, Rows

LEMMA EditsTypesInitially == ASSUME EditsInit PROVE EditsTypes
<1>2. IdleCommand \in Command
  <2>1. [x \in {} |-> Empty] \in Partial
    BY PartialIs
  <2>2. QED
    BY <2>1 DEF IdleCommand, Command, Server, Client
<1>3. command \in [Operators -> Command]
  BY <1>2 DEF EditsInit
<1>4. Reading = {}
  BY DEF EditsInit, Reading, IdleCommand
<1>5. QED
  BY <1>3, <1>4 DEF EditsInit, EditsTypes, EditsTypeOK, Command, Server, Client

\* A step that changes one command and no row.
LEMMA CommandType ==
  ASSUME EditsTypes, NEW o \in Operators, NEW c \in Command,
         command' = [command EXCEPT ![o] = c],
         c.server = "read" => c.seen \in Rows,
         UNCHANGED <<resource, record, intended, written, lost>>
  PROVE  EditsTypes'
<1>1. /\ command \in [Operators -> Command]
      /\ \A p \in Reading : command[p].seen \in Rows
  BY DEF EditsTypes, EditsTypeOK, Command, Server, Client
<1>2. UNCHANGED <<Columns, Rows, Partial, Command>>
  BY DEF Columns, Rows, Partial, Command
<1>3. command' \in [Operators -> Command] /\ command'[o] = c
      /\ \A p \in Operators : p # o => command'[p] = command[p]
  BY <1>1
<1>4. \A p \in Reading' : command'[p].seen \in Rows
  BY <1>1, <1>3 DEF Reading
<1>5. EditsTypeOK'
  BY <1>2, <1>3 DEF EditsTypes, EditsTypeOK, Command, Server, Client
<1>6. QED
  BY <1>2, <1>4, <1>5 DEF EditsTypes

LEMMA CommandTypes ==
  ASSUME EditsTypes, NEW o \in Operators,
         \/ \E flags \in Partial : RunCommand(o, flags)
         \/ ReadRecord(o) \/ Refuse(o) \/ WriteFails(o) \/ Respond(o) \/ GiveUp(o)
  PROVE  EditsTypes'
<1>1. PICK server, client, given, seen :
        /\ command[o] = [server |-> server, client |-> client, given |-> given, seen |-> seen]
        /\ server \in Server /\ client \in Client /\ given \in Partial /\ seen \in Rows \cup {Gone}
        /\ server = "read" => seen \in Rows
  <2>1. command[o] \in Command
    BY DEF EditsTypes, EditsTypeOK, Command, Server, Client
  <2>2. command[o].server = "read" => command[o].seen \in Rows
    BY DEF EditsTypes, Reading
  <2>3. QED
    BY <2>1, <2>2 DEF Command
<1>2. /\ DOMAIN command = Operators
      /\ record \in Rows \cup {Gone}
  BY DEF EditsTypes, EditsTypeOK
<1>3. /\ \A s \in Server : [command[o] EXCEPT !.server = s]
                             = [server |-> s, client |-> client, given |-> given, seen |-> seen]
      /\ \A k \in Client : [command[o] EXCEPT !.client = k]
                             = [server |-> server, client |-> k, given |-> given, seen |-> seen]
  BY <1>1
<1>4. UNCHANGED <<resource, record, intended, written, lost>>
  BY DEF RunCommand, ReadRecord, Refuse, WriteFails, Respond, GiveUp
<1>5. PICK c \in Command : /\ command' = [command EXCEPT ![o] = c]
                           /\ c.server = "read" => c.seen \in Rows
  <2>1. ASSUME NEW flags \in Partial, RunCommand(o, flags)
        PROVE  \E c \in Command : /\ command' = [command EXCEPT ![o] = c]
                                  /\ c.server = "read" => c.seen \in Rows
    <3> DEFINE c == [server |-> "sent", client |-> "waiting", given |-> flags, seen |-> Gone]
    <3>1. command' = [command EXCEPT ![o] = c]
      BY <2>1 DEF RunCommand
    <3>2. c \in Command /\ c.server # "read"
      BY DEF Command, Server, Client
    <3> HIDE DEF c
    <3>3. QED
      BY <3>1, <3>2
  <2>2. CASE ReadRecord(o)
    <3> DEFINE c == [server |-> "read", client |-> client, given |-> given, seen |-> record]
    <3>1. command' = [command EXCEPT ![o] = c]
      <4>1. command' = [command EXCEPT ![o].server = "read", ![o].seen = record]
        BY <2>2 DEF ReadRecord
      <4>2. [[command[o] EXCEPT !.server = "read"] EXCEPT !.seen = record] = c
        <5> DEFINE e == [command[o] EXCEPT !.server = "read"]
        <5>1. e = [server |-> "read", client |-> client, given |-> given, seen |-> seen]
          BY <1>3 DEF Server
        <5> HIDE DEF e
        <5>2. [e EXCEPT !.seen = record] = c
          BY <5>1
        <5>3. QED
          BY <5>2 DEF e
      <4>3. QED
        BY <4>1, <4>2, <1>2
    <3>2. c \in Command /\ c.seen \in Rows
      BY <1>1, <1>2, <2>2 DEF ReadRecord, Command, Server
    <3>3. QED
      BY <3>1, <3>2
  <2>3. CASE Refuse(o) \/ WriteFails(o)
    <3> DEFINE c == [server |-> "refused", client |-> client, given |-> given, seen |-> seen]
    <3>1. command' = [command EXCEPT ![o] = c]
      BY <1>2, <1>3, <2>3 DEF Refuse, WriteFails, Goes, Server
    <3>2. c \in Command
      BY <1>1 DEF Command, Server
    <3>3. QED
      BY <3>1, <3>2
  <2>4. CASE Respond(o) \/ GiveUp(o)
    <3>1. PICK k \in {"ok", "error"} : command' = [command EXCEPT ![o].client = k]
      BY <2>4 DEF Respond, GiveUp
    <3> DEFINE c == [server |-> server, client |-> k, given |-> given, seen |-> seen]
    <3>2. command' = [command EXCEPT ![o] = c]
      BY <1>2, <1>3, <3>1 DEF Client
    <3>3. c \in Command
      BY <1>1 DEF Command, Client
    <3>4. QED
      BY <1>1, <3>2, <3>3
  <2>5. QED
    BY <2>1, <2>2, <2>3, <2>4
<1>6. QED
  BY <1>4, <1>5, CommandType

LEMMA WriteTypes ==
  ASSUME EditsTypes, NEW o \in Operators, WriteRecord(o)
  PROVE  EditsTypes'
<1> DEFINE body == Meant(command[o].given)
<1>1. /\ command[o].server = "read" /\ command' = [command EXCEPT ![o].server = "written"]
      /\ UNCHANGED resource
  BY DEF WriteRecord, Goes
<1>2. /\ command \in [Operators -> Command]
      /\ \A p \in Reading : command[p].seen \in Rows
  BY DEF EditsTypes, EditsTypeOK, Command, Server, Client
<1>3. UNCHANGED <<Columns, Rows, Partial, Command>>
  BY <1>1 DEF Columns, Rows, Partial, Command
<1>4. command' \in [Operators -> Command] /\ command'[o].server = "written"
      /\ \A p \in Operators : p # o => command'[p] = command[p]
  BY <1>1, <1>2 DEF Command, Server
<1>5. \A p \in Reading' : command'[p].seen \in Rows
  BY <1>2, <1>4 DEF Reading
<1>6. command[o].seen \in Rows /\ body \in Partial
  BY <1>1, <1>2, MeantType DEF Reading, Command
<1>7. body \in Partial /\ DOMAIN body \subseteq Columns
  BY <1>6, PartialIs
<1> HIDE DEF body
<1>8. CASE record = Gone
  <2>1. UNCHANGED <<record, intended, written, lost>>
    BY <1>8 DEF WriteRecord
  <2>2. QED
    BY <1>3, <1>4, <1>5, <1>8, <2>1, <1>1 DEF EditsTypes, EditsTypeOK, Command, Server, Client
<1>9. CASE record # Gone
  <2>1. /\ record' = Over(body, command[o].seen) /\ intended' = Over(body, intended)
        /\ written' = written \cup {o}
        /\ lost' = IF Reading = {o} THEN lost ELSE lost \cup DOMAIN body
    BY <1>9 DEF WriteRecord, Body, body
  <2>2. record' \in Rows /\ intended' \in Rows
    BY <1>6, <1>9, <2>1, OverType DEF EditsTypes
  <2>3. lost' \subseteq Columns /\ written' \subseteq Operators
    BY <1>7, <2>1 DEF EditsTypes, EditsTypeOK
  <2>4. EditsTypeOK'
    BY <1>1, <1>3, <1>4, <2>2, <2>3 DEF EditsTypes, EditsTypeOK, Command, Server, Client
  <2>5. QED
    BY <1>3, <1>5, <2>2, <2>4 DEF EditsTypes
<1>10. QED
  BY <1>8, <1>9

LEMMA EditsTypesInvariant == EditsSpec => []EditsTypes
<1>1. EditsInit => EditsTypes
  BY EditsTypesInitially
<1>2. EditsTypes /\ [EditsNext]_editsVars => EditsTypes'
  <2> SUFFICES ASSUME EditsTypes, [EditsNext]_editsVars PROVE EditsTypes'
    OBVIOUS
  <2>1. CASE UNCHANGED editsVars
    BY <2>1 DEF editsVars, EditsTypes, EditsTypeOK, Reading, Rows, Columns, Partial
  <2>2. CASE DeleteRecord
    BY <2>2 DEF DeleteRecord, EditsTypes, EditsTypeOK, Reading, Rows, Columns, Partial
  <2>3. QED
    BY <2>1, <2>2, CommandTypes, WriteTypes DEF EditsNext
<1>3. QED
  BY <1>1, <1>2, PTL DEF EditsSpec

LEMMA MeterTypes == MeterSpec => []MeterTypeOK
<1> DEFINE Others == /\ packageCap \in Caps
                     /\ voucher \in [cap: Caps \cup {-1}, octets: 0 .. MaxInt32]
                     /\ edited \in BOOLEAN
                     /\ balance \in [pc: {"idle", "user", "answered", "bare"},
                                     used: Nat, left: Nat]
<1>1. MeterInit => MeterInv /\ Others
  <2>1. Unsold \in [cap: Caps \cup {-1}, octets: 0 .. MaxInt32]
    <3>1. -1 \in Caps \cup {-1} /\ 0 \in 0 .. MaxInt32
      BY MeterAssumption
    <3>2. QED
      BY <3>1 DEF Unsold
  <2>2. NoBalance \in [pc: {"idle", "user", "answered", "bare"}, used: Nat, left: Nat]
    BY DEF NoBalance
  <2>3. MeterInit => Others
    BY <2>1, <2>2 DEF MeterInit
  <2>4. QED
    BY <2>3, MeterInitially
<1>2. MeterInv /\ Others /\ [MeterNext]_meterVars => Others'
  <2> SUFFICES ASSUME MeterInv, Others, [MeterNext]_meterVars PROVE Others'
    OBVIOUS
  <2>1. bytes \in Nat
    BY DEF MeterInv, CountersOK
  <2>2. CASE UNCHANGED <<packageCap, voucher, edited, balance>>
    BY <2>2
  <2>3. CASE Sell
    <3>1. packageCap \in Nat /\ Two32 \in Nat /\ MaxInt32 \in Nat
      BY MeterAssumption
    <3>2. OctetLimit(packageCap) \in 0 .. MaxInt32
      BY <2>3, <3>1 DEF Sell, OctetLimit
    <3>3. QED
      BY <2>3, <3>2 DEF Sell
  <2>4. ASSUME NEW cap \in Caps, EditPackage(cap) PROVE Others'
    BY <2>4 DEF EditPackage
  <2>5. CASE BalanceUser
    BY <2>1, <2>5 DEF BalanceUser, saleVars
  <2>6. CASE BalancePackage
    <3>1. packageCap \in Nat /\ balance.used \in Nat
      BY MeterAssumption
    <3>2. LeftOf(packageCap, balance.used) \in Nat
      BY <3>1 DEF LeftOf
    <3>3. QED
      BY <2>6, <3>2 DEF BalancePackage, saleVars
  <2>7. CASE BalanceNoPackage
    BY <2>7 DEF BalanceNoPackage, saleVars
  <2>8. QED
    <3>1. ASSUME NEW d \in {"in", "out"}, Octet(d) PROVE Others'
      BY <2>2, <3>1 DEF Octet, saleVars
    <3>2. ASSUME NEW u \in wire, DeliverUpdate(u) PROVE Others'
      BY <2>2, <3>2 DEF DeliverUpdate, saleVars
    <3>3. CASE UNCHANGED meterVars \/ SendUpdate
      BY <2>2, <3>3 DEF meterVars, SendUpdate, saleVars
    <3>4. QED
      BY <2>3, <2>4, <2>5, <2>6, <2>7, <3>1, <3>2, <3>3 DEF MeterNext
<1>3. MeterInv /\ [MeterNext]_meterVars => MeterInv'
  BY MeterStep
<1>4. MeterInv /\ Others => MeterTypeOK
  BY DEF MeterInv, CountersOK, MeterTypeOK
<1> HIDE DEF Others
<1>5. QED
  BY <1>1, <1>2, <1>3, <1>4, PTL DEF MeterSpec

LEMMA ChangeTypesInvariant == ChangeSpec => []ChangeTypeOK
<1>1. ChangeInit => ChangeInv
  BY ChangeInitially
<1>2. ChangeInv /\ [ChangeNext]_changeVars => ChangeInv'
  BY ChangeStep
<1>3. ChangeInv => ChangeTypeOK
  BY DEF ChangeInv
<1>4. QED
  BY <1>1, <1>2, <1>3, PTL DEF ChangeSpec

\* Each part of the product behaves as it does alone: it takes its own steps,
\* or rests.
LEMMA PartsAreParts ==
  PartsSpec => ReplySpec /\ ChangeSpec /\ EditsSpec /\ MeterSpec
<1>1. PartsInit => ReplyInit /\ ChangeInit /\ EditsInit /\ MeterInit
  BY DEF PartsInit
<1>2. [PartsNext]_partsVars => [ReplyNext]_replyVars
  BY DEF PartsNext, partsVars
<1>3. [PartsNext]_partsVars => [ChangeNext]_changeVars
  BY DEF PartsNext, partsVars
<1>4. [PartsNext]_partsVars => [EditsNext]_editsVars
  BY DEF PartsNext, partsVars
<1>5. [PartsNext]_partsVars => [MeterNext]_meterVars
  BY DEF PartsNext, partsVars
<1>6. QED
  BY <1>1, <1>2, <1>3, <1>4, <1>5, PTL DEF PartsSpec, ReplySpec, ChangeSpec, EditsSpec, MeterSpec

\* For any values of the constants: the packet has only attributes with a
\* sender, what an edit has read is a row of the table, whatever is deleted
\* meanwhile, and a voucher's limit fits its column
\* (auth.go:101-186, subscriber_handlers.go:157-227, voucher_service.go:253).
THEOREM PartsTypeCorrect == PartsSpec => []PartsTypeOK
<1>1. EditsTypes => EditsTypeOK
  BY DEF EditsTypes
<1>2. QED
  BY <1>1, PartsAreParts, ReplyTypes, ChangeTypesInvariant, EditsTypesInvariant, MeterTypes, PTL
     DEF PartsTypeOK

=============================================================================
