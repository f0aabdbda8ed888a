-------------------------------- MODULE Edits --------------------------------
(***************************************************************************)
(* Partial edits of one row, from the command line to the table: radiusctl *)
(* makes a JSON body of the flags that were given, the handler reads the   *)
(* row, puts the body's columns into it and writes every column back.      *)
(* Subscribers, NASes, packages and profiles are all edited in this way.   *)
(***************************************************************************)
EXTENDS Naturals

CONSTANTS
  Operators,   \* runs of radiusctl, in any order and overlapping
  Texts,       \* values that are not empty or zero
  Empty,
  Gone         \* no row

VARIABLES
  resource,    \* the flags of the kind of row that is edited
  record,      \* the row
  command,     \* each run of radiusctl, with its request at the server
  intended,    \* history: the row if each edit were one step
  written,     \* history: the runs whose UPDATE found the row
  lost         \* history: columns an edit gave between another's read and write

editsVars == <<resource, record, command, intended, written, lost>>

(* The flags of the update commands.  A pointer goes into the body when    *)
(* its flag was given, and may make the column empty or zero; a string     *)
(* only when it is not empty.  Each stands for the others of its kind.     *)

SubscriberFlags == [pointers |-> {"max-octets"}, strings |-> {"rate-limit"}]
NASFlags == [pointers |-> {"enabled"}, strings |-> {"secret"}]
PackageFlags == [pointers |-> {"data-cap-bytes", "time-limit-type"}, strings |-> {}]
ProfileFlags == [pointers |-> {"pool", "max-octets"}, strings |-> {}]

Resources == {SubscriberFlags, NASFlags, PackageFlags, ProfileFlags}

Clearable == resource.pointers
Columns == resource.pointers \cup resource.strings
Values == Texts \cup {Empty}
Rows == [Columns -> Values]
Partial == UNION {[D -> Values] : D \in SUBSET Columns}

IdleCommand == [server |-> "idle", client |-> "idle", given |-> [x \in {} |-> Empty],
                seen |-> Gone]

EditsInit ==
  /\ resource \in Resources
  /\ record \in Rows
  /\ command = [o \in Operators |-> IdleCommand]
  /\ intended = record
  /\ written = {}
  /\ lost = {}

\* The columns of new, and old for the rest.
Over(new, old) == [x \in Columns |-> IF x \in DOMAIN new THEN new[x] ELSE old[x]]

\* What an operator may mean: an empty string does not clear a string column.
Meant(flags) ==
  [x \in {y \in DOMAIN flags : y \in Clearable \/ flags[y] # Empty} |-> flags[x]]

\* Mutant: a clearable column is sent whether or not its flag was given.
BodyAlways(flags) ==
  [x \in Clearable \cup DOMAIN Meant(flags) |->
     IF x \in DOMAIN flags THEN flags[x] ELSE Empty]

Body(flags) == Meant(flags)

Goes(o, server) == command' = [command EXCEPT ![o].server = server]

RunCommand(o, flags) ==
  /\ command[o].client = "idle"
  /\ command' = [command EXCEPT ![o] = [server |-> "sent", client |-> "waiting",
                                        given |-> flags, seen |-> Gone]]
  /\ UNCHANGED <<resource, record, intended, written, lost>>

\* GetUserByID and the like.
ReadRecord(o) ==
  /\ command[o].server = "sent"
  /\ record # Gone
  /\ command' = [command EXCEPT ![o].server = "read", ![o].seen = record]
  /\ UNCHANGED <<resource, record, intended, written, lost>>

\* 400, 404 or 500: a field that is not valid, no row, or a failed query.
Refuse(o) ==
  /\ command[o].server = "sent"
  /\ Goes(o, "refused")
  /\ UNCHANGED <<resource, record, intended, written, lost>>

Reading == {o \in Operators : command[o].server = "read"}

\* UPDATE of all columns WHERE id: a row that is gone is no error.
WriteRecord(o) ==
  LET body == Body(command[o].given)
  IN  /\ command[o].server = "read"
      /\ Goes(o, "written")
      /\ UNCHANGED resource
      /\ IF record = Gone
           THEN UNCHANGED <<record, intended, written, lost>>
           ELSE /\ record' = Over(body, command[o].seen)
                /\ intended' = Over(Meant(command[o].given), intended)
                /\ written' = written \cup {o}
                /\ lost' = IF Reading = {o} THEN lost ELSE lost \cup DOMAIN body

\* Mutant: the handler does not look at the error.
WriteIgnored(o) ==
  /\ command[o].server = "read"
  /\ Goes(o, "written")
  /\ UNCHANGED <<resource, record, intended, written, lost>>

\* The statement fails or its ten seconds are over: 500.
WriteFails(o) ==
  /\ command[o].server = "read"
  /\ Goes(o, "refused")
  /\ UNCHANGED <<resource, record, intended, written, lost>>

\* The envelope reaches radiusctl, which prints the row or the error.
Respond(o) ==
  /\ command[o].client = "waiting"
  /\ command[o].server \in {"written", "refused"}
  /\ command' = [command EXCEPT ![o].client =
                   IF command[o].server = "written" THEN "ok" ELSE "error"]
  /\ UNCHANGED <<resource, record, intended, written, lost>>

\* Thirty seconds are over, or the connection breaks: radiusctl reports an
\* error, whatever becomes of the request.
GiveUp(o) ==
  /\ command[o].client = "waiting"
  /\ command' = [command EXCEPT ![o].client = "error"]
  /\ UNCHANGED <<resource, record, intended, written, lost>>

DeleteRecord ==
  /\ record # Gone
  /\ record' = Gone
  /\ intended' = Gone
  /\ UNCHANGED <<resource, command, written, lost>>

EditsNext ==
  \/ \E o \in Operators :
       \/ \E flags \in Partial : RunCommand(o, flags)
       \/ ReadRecord(o) \/ Refuse(o) \/ WriteRecord(o) \/ WriteFails(o)
       \/ Respond(o) \/ GiveUp(o)
  \/ DeleteRecord

EditsSpec == EditsInit /\ [][EditsNext]_editsVars

-----------------------------------------------------------------------------

EditsTypeOK ==
  /\ resource \in Resources
  /\ record \in Rows \cup {Gone}
  /\ command \in [Operators -> [server: {"idle", "sent", "read", "written", "refused"},
                                client: {"idle", "waiting", "ok", "error"},
                                given: Partial, seen: Rows \cup {Gone}]]
  /\ intended \in Rows \cup {Gone}
  /\ written \subseteq Operators
  /\ lost \subseteq Columns

\* Edits that read and write the whole row change what their flags say and
\* nothing else, for every column but those that another edit gave while this
\* one was between its read and its write (subscriber_handlers.go:157-227,
\* voucher_service.go:107-160, radiusctl/subscriber.go:126-161).
OnlyOverlapsAreLost ==
  record # Gone => \A x \in Columns \ lost : record[x] = intended[x]

\* When radiusctl reports success the row has been written, or is gone since
\* the handler read it (radiusctl/client.go:67-98, repository.go:101-118).
SuccessIsWritten ==
  \A o \in Operators : command[o].client = "ok" => o \in written \/ record = Gone

=============================================================================
