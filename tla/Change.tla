-------------------------------- MODULE Change --------------------------------
(***************************************************************************)
(* Changes of a user's settings on running sessions (ChangeUserProfile in  *)
(* coa.go, called by HandleCoAChange): a CoA-Request to each NAS with an   *)
(* active session of the user, and, when it is acknowledged, the settings  *)
(* of the sessions in memory.  The lock is held to collect the NASes and   *)
(* to store, not in between.  A setting is known by the request that gave  *)
(* it.                                                                     *)
(***************************************************************************)
EXTENDS Naturals

CONSTANTS
  Changes,       \* requests, in any order and overlapping
  Wanted,        \* the sets of settings a request may give
  UserSessions,  \* the user's sessions
  NasOf,         \* NasOf[k]: the NAS of session k
  Configured,    \* the NASes in the server's map
  HostPrefix,    \* pairs <<n, m>>: the host text of n begins a peer address of m
  None

ASSUME ChangeAssumption == Wanted \subseteq SUBSET {"rate", "group", "bandwidth", "octets"}

VARIABLES
  status,    \* "new", "begun" at its NAS, "active" in memory, "over"
  shown,     \* shown[k][x]: the request whose x the session in memory has
  change,    \* the local variables of each ChangeUserProfile
  applied,   \* external: applied[k][x]: the request whose x the NAS enforces
  torn,      \* history: <<n, x>> where memory and NAS n may differ in setting x
  calm       \* history: requests whose exchange nothing at the NAS has disturbed

changeVars == <<status, shown, change, applied, torn, calm>>

Settings == {"rate", "group", "bandwidth", "octets"}

Devices == {NasOf[k] : k \in UserSessions}

Unset == [k \in UserSessions |-> [x \in Settings |-> None]]

\* wants: the settings given; left: NASes to be asked; at: the one that has
\* acknowledged.  The result, a line per NAS, is left out.
IdleChange == [pc |-> "idle", wants |-> {}, left |-> {}, at |-> None]

ChangeInit ==
  /\ status = [k \in UserSessions |-> "new"]
  /\ shown = Unset
  /\ change = [c \in Changes |-> IdleChange]
  /\ applied = Unset
  /\ torn = {}
  /\ calm = {}

\* Give the sessions in S the settings in X, from request c.
Give(settings, S, X, c) ==
  [k \in UserSessions |-> [x \in Settings |->
     IF k \in S /\ x \in X THEN c ELSE settings[k][x]]]

\* The user's sessions that NAS n has.
At(n, states) == {k \in UserSessions : NasOf[k] = n /\ status[k] \in states}

\* nasContains: the sessions whose peer address begins with the host of n,
\* which may be those of other NASes too.  A host in brackets (IPv6) begins
\* no peer address, not even its own.
ContainedIn(n) == {k \in UserSessions : status[k] = "active" /\ <<n, NasOf[k]>> \in HostPrefix}

\* A change that NAS n has acknowledged and memory does not show yet.
Unstored(n) == {c \in Changes : change[c].pc = "store" /\ change[c].at = n}

Awaited(n) == UNION {change[c].wants : c \in Unstored(n)}

\* The group is put into the packet with Packet.Set, which drops the rate
\* limit; bandwidths and octets are added.
PacketOf(wants) == IF "group" \in wants THEN wants \ {"rate"} ELSE wants

\* collectNASForUser: the configured NASes with active sessions.
CollectForUser == {NasOf[k] : k \in {s \in UserSessions : status[s] = "active"}} \cap Configured

BeginChange(c, W) ==
  /\ change[c].pc = "idle"
  /\ change' = [change EXCEPT ![c] = [pc |-> "exchange", wants |-> W,
                                       left |-> CollectForUser, at |-> None]]
  /\ UNCHANGED <<status, shown, applied, torn, calm>>

\* CoA-ACK: the NAS has changed all its sessions of the user, also those
\* whose Accounting-Start is still on its way.  The exchange is calm when
\* there are none, and no other change waits to be stored.
Acknowledge(c, n) ==
  /\ change[c].pc = "exchange"
  /\ n \in change[c].left
  /\ applied' = Give(applied, At(n, {"begun", "active"}), PacketOf(change[c].wants), c)
  /\ change' = [change EXCEPT ![c] = [pc |-> "store", wants |-> @.wants,
                                       left |-> @.left \ {n}, at |-> n]]
  /\ IF Unstored(n) = {} /\ At(n, {"begun"}) = {}
       THEN calm' = calm \cup {c} /\ torn' = torn
       ELSE /\ calm' = calm \ Unstored(n)
            /\ torn' = torn \cup {n} \X PacketOf(change[c].wants)
  /\ UNCHANGED <<status, shown>>

\* Mutant: the code of the answer is not looked at.
AnyAnswerStored(c, n, done) ==
  /\ change[c].pc = "exchange"
  /\ n \in change[c].left
  /\ done = FALSE
  /\ change' = [change EXCEPT ![c] = [pc |-> "store", wants |-> @.wants,
                                       left |-> @.left \ {n}, at |-> n]]
  /\ UNCHANGED <<status, shown, applied, torn, calm>>

\* CoA-NAK, no answer, or the ten seconds of the request are over.  done
\* says that the NAS has obeyed and its answer is lost or late.
Unacknowledged(c, n, done) ==
  /\ change[c].pc = "exchange"
  /\ n \in change[c].left
  /\ IF done
       THEN /\ applied' = Give(applied, At(n, {"begun", "active"}),
                               PacketOf(change[c].wants), c)
            /\ torn' = torn \cup {n} \X PacketOf(change[c].wants)
            /\ calm' = calm \ Unstored(n)
       ELSE UNCHANGED <<applied, torn, calm>>
  /\ change' = [change EXCEPT ![c].left = @ \ {n}]
  /\ UNCHANGED <<status, shown>>

\* What a store sets right at its own NAS, and what it upsets at the others
\* whose addresses begin alike.
Mended(c) == IF c \in calm THEN {change[c].at} \X PacketOf(change[c].wants) ELSE {}

Upset(c) == {m \in Devices \ {change[c].at} : <<change[c].at, m>> \in HostPrefix}
              \X change[c].wants

\* The active sessions attributed to the NAS get the settings in memory.
Store(c) ==
  /\ change[c].pc = "store"
  /\ shown' = Give(shown, ContainedIn(change[c].at), change[c].wants, c)
  /\ change' = [change EXCEPT ![c] = [pc |-> "exchange", wants |-> @.wants,
                                       left |-> @.left, at |-> None]]
  /\ torn' = (torn \ Mended(c)) \cup Upset(c)
  /\ calm' = calm \ {c}
  /\ UNCHANGED <<status, applied>>

AnswerChange(c) ==
  /\ change[c].pc = "exchange"
  /\ change[c].left = {}
  /\ change' = [change EXCEPT ![c].pc = "done"]
  /\ UNCHANGED <<status, shown, applied, torn, calm>>

\* External: the NAS opens a session.
BeginSession(k) ==
  /\ status[k] = "new"
  /\ status' = [status EXCEPT ![k] = "begun"]
  /\ UNCHANGED <<shown, change, applied, torn, calm>>

\* handleAcctStart: a session in memory, without settings.
StartSession(k) ==
  /\ status[k] = "begun"
  /\ status' = [status EXCEPT ![k] = "active"]
  /\ torn' = torn \cup {NasOf[k]} \X Awaited(NasOf[k])
  /\ calm' = calm \ Unstored(NasOf[k])
  /\ UNCHANGED <<shown, change, applied>>

\* A Stop, a disconnect or the stale sweep.
EndSession(k) ==
  /\ status[k] = "active"
  /\ status' = [status EXCEPT ![k] = "over"]
  /\ UNCHANGED <<shown, change, applied, torn, calm>>

ChangeNext ==
  \/ \E c \in Changes :
       \/ \E W \in Wanted : BeginChange(c, W)
       \/ \E n \in Devices :
            Acknowledge(c, n) \/ \E done \in BOOLEAN : Unacknowledged(c, n, done)
       \/ Store(c)
       \/ AnswerChange(c)
  \/ \E k \in UserSessions : BeginSession(k) \/ StartSession(k) \/ EndSession(k)

ChangeSpec == ChangeInit /\ [][ChangeNext]_changeVars

-----------------------------------------------------------------------------

ChangeTypeOK ==
  /\ status \in [UserSessions -> {"new", "begun", "active", "over"}]
  /\ shown \in [UserSessions -> [Settings -> Changes \cup {None}]]
  /\ change \in [Changes -> [pc: {"idle", "exchange", "store", "done"}, wants: SUBSET Settings,
                             left: SUBSET Devices, at: Devices \cup {None}]]
  /\ applied \in [UserSessions -> [Settings -> Changes \cup {None}]]
  /\ torn \subseteq Devices \X Settings
  /\ calm \subseteq Changes

\* What the server shows of an active session is what its NAS enforces, but
\* for the settings of a change still to be stored, and for a rate limit that
\* a group came with.  A lost answer, an overlap of changes, a session that
\* starts during one or a store meant for another NAS may drive the two apart,
\* and the next acknowledged change that nothing disturbs brings them together
\* (coa.go:69-97 and 151-158).  Of a NAS whose own host does not begin its
\* peer address nothing is claimed.
ShownIsApplied ==
  \A k \in UserSessions, x \in Settings :
    /\ status[k] = "active"
    /\ <<NasOf[k], NasOf[k]>> \in HostPrefix
    /\ <<NasOf[k], x>> \notin torn
    /\ x \notin Awaited(NasOf[k])
    => \/ shown[k][x] = applied[k][x]
       \/ x = "rate" /\ \E c \in Changes : shown[k][x] = c /\ "group" \in change[c].wants

=============================================================================
