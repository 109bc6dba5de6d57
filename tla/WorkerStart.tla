------------------------------ MODULE WorkerStart ------------------------------
(***************************************************************************)
(* How a worker process gets ready for its firmware. The legacy worker     *)
(* parses its options (worker_config.c, worker_main.c); both workers check *)
(* where they run and receive the record of initial resources, names with  *)
(* a descriptor each, from the supervisor (receive_initial_resources,      *)
(* workerReceiveSupervisorResources). Safe 3 has no options: the name of   *)
(* its display resource selects the backend.                               *)
(*                                                                         *)
(* A descriptor is its position in the record. The options and the record  *)
(* are forgotten once the firmware runs.                                   *)
(***************************************************************************)
EXTENDS Naturals, Sequences

CONSTANTS
    Argv,     \* the option lists a worker may be given
    Record    \* the records of initial resources it may receive

VARIABLES
    phase,     \* where the start is
    worker,    \* "safe3" or "legacy"
    argv,      \* the options, while they matter
    record,    \* the record, while it matters
    position,  \* index, or i: the option or the entry that is next
    role,      \* the descriptor of each role, 0 for none
    backend    \* display_backend with display_backend_selected, or "none"

startVars == <<phase, worker, argv, record, position, role, backend>>

Backend == {"ssd1306-i2c", "sh1106-i2c", "sh1106-spi", "st7789-spi"}
Role == {"bus", "control", "buttons", "reconnect"}
RolesOf(w) == IF w = "safe3" THEN Role ELSE Role \ {"reconnect"}
NoRole == [r \in Role |-> 0]
NoRecord == [names |-> <<>>, defect |-> "none"]

\* Where a record is malformed: its header or count (nothing is assigned), the
\* length of a name, or what follows the last name.
Defect == {"none", "header", "name", "trailing"}

Words == Seq([option : STRING, value : STRING, joined : BOOLEAN])
Records == [names : Seq(STRING), defect : Defect]

ASSUME InputAssumption == Argv \subseteq Words /\ Record \subseteq Records

\* A worker whose options or record are no good ends with "usage" or "refused",
\* for another reason with "exited".
Phase == {"begin", "options", "parsing", "parsed", "record", "entries", "assigned",
          "running", "usage", "refused", "exited"}

StartInit ==
    /\ phase = "begin" /\ worker = "safe3"
    /\ argv = <<>> /\ record = NoRecord /\ position = 1
    /\ role = NoRole /\ backend = "none"
-----------------------------------------------------------------------------
(* Options. A word is an option alone, an option joined to its value by    *)
(* "=", or any other text.                                                 *)

Alone(option) == [option |-> option, value |-> "", joined |-> FALSE]
Joined(option, value) == [option |-> option, value |-> value, joined |-> TRUE]
Text(value) == [option |-> "", value |-> value, joined |-> FALSE]

\* A word taken as a value: the text of an option is no value.
ValueOf(word) == IF word.option = "" THEN word.value ELSE "option"

\* What a value selects, for each option.
Selects(option, value) ==
    CASE option = "--display" /\ value \in Backend -> value
      [] option = "--i2c-display" /\ value = "ssd1306" -> "ssd1306-i2c"
      [] option = "--i2c-display" /\ value = "sh1106" -> "sh1106-i2c"
      [] OTHER -> "none"

\* The option at position i of argv, and the words it takes.
Taken(i) == IF argv[i].joined THEN 1 ELSE 2
SelectedAt(i) ==
    IF argv[i].joined THEN Selects(argv[i].option, argv[i].value)
    ELSE IF i < Len(argv) THEN Selects(argv[i].option, ValueOf(argv[i + 1])) ELSE "none"

\* worker_config_parse begins, with the default backend.
ParseBegins(words) ==
    /\ phase = "options" /\ phase' = "parsing"
    /\ argv' = words /\ position' = 1 /\ backend' = "sh1106-spi"
    /\ UNCHANGED <<worker, record, role>>

\* Mutant of ParseOption: a second option overrides the first.
ParseOption_Overrides ==
    /\ phase = "parsing" /\ position <= Len(argv)
    /\ IF SelectedAt(position) = "none"
       THEN phase' = "usage" /\ UNCHANGED <<position, backend>>
       ELSE /\ backend' = SelectedAt(position) /\ position' = position + Taken(position)
            /\ UNCHANGED phase
    /\ UNCHANGED <<worker, argv, record, role>>

\* An option, with its value (which may look like an option); the second one is
\* refused.
ParseOption ==
    /\ phase = "parsing" /\ position <= Len(argv)
    /\ IF position # 1 \/ SelectedAt(position) = "none"
       THEN phase' = "usage" /\ UNCHANGED <<position, backend>>
       ELSE /\ backend' = SelectedAt(position) /\ position' = position + Taken(position)
            /\ UNCHANGED phase
    /\ UNCHANGED <<worker, argv, record, role>>

ParseEnds ==
    /\ phase = "parsing" /\ position > Len(argv)
    /\ phase' = "parsed"
    /\ UNCHANGED <<worker, argv, record, position, role, backend>>

\* main registers the display shutdown with atexit, which may fail, and goes on
\* to receive the resources.
OptionsParsed(registered) ==
    /\ phase = "parsed"
    /\ phase' = (IF registered THEN "record" ELSE "exited")
    /\ argv' = <<>> /\ position' = 1
    /\ UNCHANGED <<worker, record, role, backend>>
-----------------------------------------------------------------------------
(* Resources.                                                              *)

SelectedByName(name) ==
    CASE name = "display-ssd1306-i2c" -> "ssd1306-i2c"
      [] name = "display-sh1106-i2c"  -> "sh1106-i2c"
      [] name = "display-sh1106-spi"  -> "sh1106-spi"
      [] name = "display-st7789-spi"  -> "st7789-spi"
      [] OTHER -> "none"

\* The role a name assigns.
RoleOf(w, name) ==
    CASE w = "safe3" /\ SelectedByName(name) # "none" -> "bus"
      [] w = "legacy" /\ name \in {"display-spi", "display-i2c"} -> "bus"
      [] name = "display-control" -> "control"
      [] name = "buttons" -> "buttons"
      [] w = "safe3" /\ name = "reconnect-button" -> "reconnect"
      [] OTHER -> "none"

\* receive_record: the record comes, with a well-formed header and as many names
\* as descriptors, or the process ends.
ReceiveRecord(rec) ==
    /\ phase = "record"
    /\ record' = rec
    /\ phase' = (IF rec.defect = "header" THEN "refused" ELSE "entries")
    /\ UNCHANGED <<worker, argv, position, role, backend>>

NextRole == RoleOf(worker, record.names[position])

\* Mutant of AssignResource: a display resource after the first keeps its bus.
AssignResource_Keeps ==
    /\ phase = "entries" /\ position <= Len(record.names)
    /\ IF NextRole = "none"
       THEN phase' = "refused" /\ UNCHANGED <<position, role, backend>>
       ELSE /\ role' = (IF role[NextRole] # 0 THEN role ELSE [role EXCEPT ![NextRole] = position])
            /\ backend' = (IF worker = "safe3" /\ NextRole = "bus"
                           THEN SelectedByName(record.names[position]) ELSE backend)
            /\ position' = position + 1 /\ UNCHANGED phase
    /\ UNCHANGED <<worker, argv, record>>

\* assign_resource for the next entry. A role assigned twice keeps the last
\* descriptor, except that Safe 3 refuses a second display.
AssignResource ==
    /\ phase = "entries" /\ position <= Len(record.names)
    /\ IF NextRole = "none" \/ (worker = "safe3" /\ NextRole = "bus" /\ role["bus"] # 0)
       THEN phase' = "refused" /\ UNCHANGED <<position, role, backend>>
       ELSE /\ role' = [role EXCEPT ![NextRole] = position]
            /\ backend' = (IF worker = "safe3" /\ NextRole = "bus"
                           THEN SelectedByName(record.names[position]) ELSE backend)
            /\ position' = position + 1 /\ UNCHANGED phase
    /\ UNCHANGED <<worker, argv, record>>

\* After the last name that could be read: the record must end there, and no role
\* may be missing.
ResourcesAssigned ==
    /\ phase = "entries" /\ position > Len(record.names)
    /\ phase' = (IF record.defect = "none" /\ \A r \in RolesOf(worker) : role[r] # 0
                 THEN "assigned" ELSE "refused")
    /\ UNCHANGED <<worker, argv, record, position, role, backend>>
-----------------------------------------------------------------------------
(* The rest of a start.                                                    *)

\* The constructors: not root, and inside an absolute state directory. Safe 3
\* receives its record there; the legacy worker first gets to main.
ProcessStarts(w, environmentOk) ==
    /\ phase = "begin"
    /\ worker' = w
    /\ phase' = (IF ~environmentOk THEN "exited" ELSE IF w = "safe3" THEN "record" ELSE "options")
    /\ UNCHANGED <<argv, record, position, role, backend>>

\* Last, Safe 3 makes both button lines nonblocking and reads KEY3's level,
\* which can fail. Then the firmware begins.
FirmwareStarts(linesOk) ==
    /\ phase = "assigned"
    /\ linesOk \/ worker = "safe3"
    /\ phase' = (IF linesOk THEN "running" ELSE "exited")
    /\ record' = NoRecord /\ position' = 1
    /\ UNCHANGED <<worker, argv, role, backend>>

StartNext ==
    \/ \E w \in {"safe3", "legacy"}, ok \in BOOLEAN : ProcessStarts(w, ok)
    \/ \E words \in Argv : ParseBegins(words)
    \/ ParseOption \/ ParseEnds
    \/ \E rec \in Record : ReceiveRecord(rec)
    \/ AssignResource \/ ResourcesAssigned
    \/ \E ok \in BOOLEAN : OptionsParsed(ok) \/ FirmwareStarts(ok)
-----------------------------------------------------------------------------
(* Properties.                                                             *)

\* Every variable stays within the values its C counterpart can have.
StartTypeOK ==
    /\ phase \in Phase
    /\ worker \in {"safe3", "legacy"}
    /\ argv \in Words /\ record \in Records
    /\ position \in Nat \ {0}
    /\ role \in [Role -> Nat] /\ backend \in Backend \cup {"none"}

\* What the usage text and the profiles promise, said without the loops: no
\* option or a single one, with a value of its own ...
ValidOptions(words) ==
    \/ words = <<>>
    \/ /\ Len(words) = 1 /\ words[1].joined
       /\ Selects(words[1].option, words[1].value) # "none"
    \/ /\ Len(words) = 2 /\ words[1].option # "" /\ ~words[1].joined
       /\ Selects(words[1].option, ValueOf(words[2])) # "none"

\* ... and a well-formed record of known names, in any order, that fills every
\* role; on Safe 3 with one display.
ValidRecord(w, rec) ==
    LET entries(r) == {i \in 1..Len(rec.names) : RoleOf(w, rec.names[i]) = r}
    IN  /\ rec.defect = "none" /\ entries("none") = {}
        /\ \A r \in RolesOf(w) : entries(r) # {}
        /\ w = "safe3" => \A i, j \in entries("bus") : i = j

\* A worker runs its firmware exactly when its options and its record are
\* valid, with the backend they name, and with a descriptor for every role that
\* was sent under a name of that role, on Safe 3 the bus of its backend
\* (worker_config_parse, assign_resource).
StartsAsTold ==
    /\ phase = "parsed" =>
          /\ ValidOptions(argv)
          /\ backend = (IF argv = <<>> THEN "sh1106-spi" ELSE SelectedAt(1))
    /\ phase = "assigned" =>
          /\ ValidRecord(worker, record)
          /\ \A r \in RolesOf(worker) : RoleOf(worker, record.names[role[r]]) = r
          /\ worker = "safe3" => backend = SelectedByName(record.names[role["bus"]])
          /\ worker = "legacy" => backend \in Backend
    /\ phase = "usage" => ~ValidOptions(argv)
    /\ phase = "refused" => ~ValidRecord(worker, record)
=============================================================================
