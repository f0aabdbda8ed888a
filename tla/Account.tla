------------------------------- MODULE Account -------------------------------
(***************************************************************************)
(* What several instances of the server promise, together, of a voucher    *)
(* with a usage limit: it is charged for no more than was used; nobody is  *)
(* refused, by any of them or in the database, before the sessions have    *)
(* used up the limit; and an instance that refuses it does so until its    *)
(* process ends.  A session that is opened twice voids the first two.      *)
(***************************************************************************)
EXTENDS Naturals

CONSTANTS
  Instances,
  Sessions,
  Limit        \* the voucher's usage limit

VARIABLES
  made,        \* the usage the sessions have had
  counted,     \* the usage the database holds
  enabled,     \* whether the voucher is enabled in the database
  up,          \* the instances that have been started and not ended
  refusing,    \* the instances that refuse the voucher
  doubled      \* the sessions that have been opened twice

vars == <<made, counted, enabled, up, refusing, doubled>>

Init ==
  /\ made = 0
  /\ counted = 0
  /\ enabled = TRUE
  /\ up = {}
  /\ refusing = {}
  /\ doubled = {}

UsedUp == doubled = {} => Limit <= made

Use ==
  /\ made' = made + 1
  /\ UNCHANGED <<counted, enabled, up, refusing, doubled>>

\* Usage is only ever added, never more than was made.
Count ==
  /\ counted' > counted
  /\ doubled = {} => counted' <= made
  /\ UNCHANGED <<made, enabled, up, refusing, doubled>>

\* The database does not enable a voucher again.
Disable ==
  /\ UsedUp
  /\ enabled' = FALSE
  /\ UNCHANGED <<made, counted, up, refusing, doubled>>

Start(i) ==
  /\ up' = up \cup {i}
  /\ UNCHANGED <<made, counted, enabled, refusing, doubled>>

Refuse(i) ==
  /\ i \in up
  /\ UsedUp
  /\ refusing' = refusing \cup {i}
  /\ UNCHANGED <<made, counted, enabled, up, doubled>>

End(i) ==
  /\ up' = up \ {i}
  /\ refusing' = refusing \ {i}
  /\ UNCHANGED <<made, counted, enabled, doubled>>

Double(s) ==
  /\ doubled' = doubled \cup {s}
  /\ UNCHANGED <<made, counted, enabled, up, refusing>>

Next ==
  \/ Use \/ Count \/ Disable
  \/ \E i \in Instances : Start(i) \/ Refuse(i) \/ End(i)
  \/ \E s \in Sessions : Double(s)

Spec == Init /\ [][Next]_vars

=============================================================================
