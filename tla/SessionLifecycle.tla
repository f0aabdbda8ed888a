-------------------------- MODULE SessionLifecycle --------------------------
(***************************************************************************)
(* What the session map promises its readers (the simultaneous-use check,  *)
(* the status page, the disconnect procedure): a session is opened once,   *)
(* ends by a stop or by the stale sweep, and never becomes active again    *)
(* while the process runs.  Only a restart forgets sessions.               *)
(***************************************************************************)
CONSTANT Ids      \* session UUIDs

VARIABLE phase    \* phase[k]: "absent" or the session's status

Phases == {"absent", "active", "stopped", "stale"}

Init == phase = [k \in Ids |-> "absent"]

Become(S, p) == phase' = [k \in Ids |-> IF k \in S THEN p ELSE phase[k]]

In(p) == {k \in Ids : phase[k] = p}

\* Start packets open one session, a reconciliation several.
Open == \E S \in SUBSET In("absent") : Become(S, "active")

\* A Stop packet, or a disconnect of all sessions of a user.
Stop == \E S \in SUBSET (In("active") \cup In("stale")) : Become(S, "stopped")

Sweep == \E S \in SUBSET In("active") : Become(S, "stale")

Forget == Become(Ids, "absent")

Next == Open \/ Stop \/ Sweep \/ Forget

Spec == Init /\ [][Next]_phase

=============================================================================
