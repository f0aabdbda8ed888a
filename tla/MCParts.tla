-------------------------------- MODULE MCParts --------------------------------
(***************************************************************************)
(* The parts of the system that share no state with the others, on small   *)
(* instances: one is chosen, and runs.                                     *)
(***************************************************************************)
EXTENDS Reply, Change, Edits, Meter, TLC

CONSTANTS a1, a2, a3, n1, n2, c1, c2

\* Two sessions on one NAS, one on another.
MCNasOf == (a1 :> n1) @@ (a2 :> n1) @@ (a3 :> n2)

\* The host of n1 begins the addresses of both: 10.0.0.1 and 10.0.0.11.
MCHostPrefix == {<<n1, n1>>, <<n1, n2>>, <<n2, n2>>}

\* Every property is an invariant, and none names a session or a change.
MCSymmetry == Permutations({c1, c2}) \cup Permutations({a1, a2})

VARIABLE part

partsVars == <<part, replyVars, changeVars, editsVars, meterVars>>

\* What a part that is not chosen starts from, and stays in.
RestingUser == [login |-> FALSE, own |-> {}, profiled |-> FALSE, profile |-> {},
                packaged |-> FALSE, package |-> {}, octets |-> 0, profileOctets |-> 0,
                remaining |-> FALSE]

PartsInit ==
  /\ part \in {"reply", "change", "edits", "meter"}
  /\ part # "reply" => user = RestingUser
  /\ part # "edits" => resource = NASFlags /\ record = [x \in Columns |-> Empty]
  /\ part # "meter" => packageCap = 0
  /\ ReplyInit
  /\ ChangeInit
  /\ EditsInit
  /\ MeterInit

PartsNext ==
  \/ part = "reply" /\ ReplyNext /\ UNCHANGED <<part, changeVars, editsVars, meterVars>>
  \/ part = "change" /\ ChangeNext /\ UNCHANGED <<part, replyVars, editsVars, meterVars>>
  \/ part = "edits" /\ EditsNext /\ UNCHANGED <<part, replyVars, changeVars, meterVars>>
  \/ part = "meter" /\ MeterNext /\ UNCHANGED <<part, replyVars, changeVars, editsVars>>

PartsSpec == PartsInit /\ [][PartsNext]_partsVars

\* Every variable has the values its comment says.
PartsTypeOK == ReplyTypeOK /\ ChangeTypeOK /\ EditsTypeOK /\ MeterTypeOK

=============================================================================
