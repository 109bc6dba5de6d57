-------------------------- MODULE WorkerDevices_proofs --------------------------
(***************************************************************************)
(* Proofs about the start of a worker and the devices of Safe 3: for every *)
(* option list and record, of any length, and every order of calls and     *)
(* failures; and about the buttons of both workers: none waits with a      *)
(* press or a release it has not sampled, whatever the length of the       *)
(* kernel's queue.                                                         *)
(***************************************************************************)
EXTENDS Safe3Devices, WorkerButtons, TLAPS

\* The inductive invariant of the start. While options are parsed, the first was
\* good or is still to come; while entries are assigned, each role has the last
\* entry of it so far.
Fresh ==
    /\ phase \in {"begin", "options", "parsing", "parsed", "usage", "record"} =>
          role = NoRole /\ record = NoRecord
    /\ phase \in {"begin", "options", "record"} => position = 1

OptionsInv ==
    /\ phase \in {"begin", "options"} => backend = "none"
    /\ phase = "parsing" =>
          \/ position = 1 /\ backend = "sh1106-spi"
          \/ /\ argv # <<>> /\ position = 1 + Taken(1)
             /\ SelectedAt(1) # "none" /\ backend = SelectedAt(1)
    /\ phase = "parsed" =>
          ValidOptions(argv) /\ backend = (IF argv = <<>> THEN "sh1106-spi" ELSE SelectedAt(1))
    /\ phase = "usage" => ~ValidOptions(argv)

Read(i) == i \in 1..Len(record.names) /\ i < position

EntriesInv ==
    /\ position <= Len(record.names) + 1
    /\ \A i \in Nat : Read(i) =>
          /\ RoleOf(worker, record.names[i]) \in Role
          /\ role[RoleOf(worker, record.names[i])] # 0
          /\ worker = "safe3" /\ RoleOf(worker, record.names[i]) = "bus" => role["bus"] = i
    /\ \A r \in Role : role[r] # 0 =>
          Read(role[r]) /\ RoleOf(worker, record.names[role[r]]) = r
    /\ worker = "safe3" /\ role["bus"] # 0 =>
          backend = SelectedByName(record.names[role["bus"]])

BackendInv ==
    /\ worker = "legacy" /\ phase \in {"parsing", "parsed", "record", "entries", "assigned"} =>
          backend \in Backend
    /\ phase = "running" => backend \in Backend

StartInv ==
    /\ StartTypeOK /\ Fresh /\ OptionsInv /\ BackendInv
    /\ phase \in {"entries", "assigned"} => EntriesInv
    /\ phase = "assigned" =>
          ValidRecord(worker, record) /\ \A r \in RolesOf(worker) : role[r] # 0
    /\ phase = "refused" => ~ValidRecord(worker, record)

LEMMA StartInvInit == StartInit => StartInv
BY DEF StartInit, StartInv, StartTypeOK, Words, Records, Defect, Phase, Fresh, OptionsInv,
       BackendInv, NoRole, NoRecord, Role, Backend

LEMMA RoleOfType ==
    ASSUME NEW w, NEW name
    PROVE  /\ RoleOf(w, name) \in Role \cup {"none"}
           /\ w = "safe3" /\ RoleOf(w, name) = "bus" => SelectedByName(name) \in Backend
           /\ w # "safe3" => RoleOf(w, name) # "reconnect"
BY DEF RoleOf, Role, SelectedByName, Backend

LEMMA SelectedAtType ==
    ASSUME NEW i \in Nat PROVE SelectedAt(i) \in Backend \cup {"none"}
BY DEF SelectedAt, Selects, Backend

\* What the usage text allows, as the parser finds it: a first option with a good
\* value, and nothing after it.
LEMMA OneOption ==
    ASSUME argv \in Words
    PROVE  /\ Len(argv) \in Nat /\ (argv = <<>> <=> Len(argv) = 0)
           /\ Taken(1) \in {1, 2}
           /\ SelectedAt(1) # "none" /\ argv # <<>> => Taken(1) <= Len(argv)
           /\ ValidOptions(argv) <=>
                  Len(argv) = 0 \/ (Len(argv) = Taken(1) /\ SelectedAt(1) # "none")
<1>1. Len(argv) \in Nat /\ (argv = <<>> <=> Len(argv) = 0)
    BY DEF Words
<1>2. Taken(1) \in {1, 2}
    BY DEF Taken
<1>3. CASE argv[1].joined
    <2>1. Taken(1) = 1 /\ SelectedAt(1) = Selects(argv[1].option, argv[1].value)
        BY <1>3 DEF Taken, SelectedAt
    <2> QED
        BY <1>1, <1>2, <1>3, <2>1 DEF ValidOptions, Taken
<1>4. CASE ~argv[1].joined
    <2>1. Taken(1) = 2
        BY <1>4 DEF Taken
    <2>2. SelectedAt(1) = IF 1 < Len(argv) THEN Selects(argv[1].option, ValueOf(argv[2])) ELSE "none"
        BY <1>4 DEF SelectedAt
    <2>3. \A value : Selects("", value) = "none"
        BY DEF Selects
    <2>4. SelectedAt(1) # "none" => Taken(1) <= Len(argv)
        BY <1>1, <2>1, <2>2
    <2>5. ValidOptions(argv) <=> Len(argv) = 0 \/ (Len(argv) = 2 /\ SelectedAt(1) # "none")
        <3>1. CASE Len(argv) = 2
            <4>1. SelectedAt(1) # "none" => argv[1].option # ""
                BY <2>2, <2>3, <3>1
            <4>2. SelectedAt(1) = Selects(argv[1].option, ValueOf(argv[2]))
                BY <2>2, <3>1
            <4> QED
                BY <1>1, <1>4, <3>1, <4>1, <4>2 DEF ValidOptions
        <3>2. CASE Len(argv) # 2
            BY <1>1, <1>4, <3>2 DEF ValidOptions
        <3> QED
            BY <3>1, <3>2
    <2> QED
        BY <1>1, <1>2, <2>1, <2>4, <2>5
<1> QED
    BY <1>1, <1>2, <1>3, <1>4

LEMMA StartInvNext == StartInv /\ StartNext => StartInv'
<1> SUFFICES ASSUME StartInv, StartNext PROVE StartInv'
    OBVIOUS
<1> USE InputAssumption DEF StartInv, StartTypeOK, Phase
<1>1. ASSUME NEW w \in {"safe3", "legacy"}, NEW ok \in BOOLEAN, ProcessStarts(w, ok)
      PROVE  StartInv'
    <2>1. /\ phase = "begin" /\ phase' \in {"exited", "record", "options"} /\ worker' = w
          /\ phase' = "record" => w = "safe3"
          /\ UNCHANGED <<argv, record, position, role, backend>>
        BY <1>1 DEF ProcessStarts
    <2> QED
        BY <2>1 DEF Fresh, OptionsInv, BackendInv
<1>2. ASSUME NEW words \in Argv, ParseBegins(words) PROVE StartInv'
    <2>1. words \in Words /\ "sh1106-spi" \in Backend
        BY DEF Backend
    <2>2. StartTypeOK' /\ Fresh' /\ BackendInv'
        BY <1>2, <2>1 DEF ParseBegins, Fresh, BackendInv
    <2>3. OptionsInv'
        BY <1>2 DEF ParseBegins, OptionsInv
    <2> QED
        BY <1>2, <2>2, <2>3 DEF ParseBegins
<1>3. CASE ParseOption
    <2>1. phase = "parsing" /\ position \in Nat \ {0} /\ argv' = argv /\ record' = record
        BY <1>3 DEF ParseOption
    <2>2. Taken(position) \in {1, 2} /\ SelectedAt(position) \in Backend \cup {"none"}
        BY <2>1, SelectedAtType DEF Taken
    <2>3. CASE position # 1 \/ SelectedAt(position) = "none"
        <3>1. phase' = "usage" /\ UNCHANGED <<position, role, backend, worker>>
            BY <1>3, <2>3 DEF ParseOption
        <3>2. ~ValidOptions(argv)
            BY <1>3, <2>1, <2>3, OneOption DEF ParseOption, OptionsInv
        <3>3. StartTypeOK' /\ Fresh' /\ BackendInv'
            BY <2>1, <3>1 DEF Fresh, BackendInv
        <3>4. OptionsInv'
            BY <2>1, <3>1, <3>2 DEF OptionsInv, ValidOptions, ValueOf
        <3> QED
            BY <3>1, <3>3, <3>4
    <2>4. CASE position = 1 /\ SelectedAt(1) # "none"
        <3>1. /\ phase' = phase /\ UNCHANGED <<role, worker>>
              /\ backend' = SelectedAt(1) /\ position' = 1 + Taken(1)
            BY <1>3, <2>4 DEF ParseOption
        <3>2. argv # <<>>
            BY <1>3, <2>4, OneOption DEF ParseOption
        <3>3. StartTypeOK' /\ Fresh' /\ BackendInv'
            BY <2>1, <2>2, <2>4, <3>1 DEF Fresh, BackendInv
        <3>4. OptionsInv'
            BY <2>1, <2>4, <3>1, <3>2 DEF OptionsInv, SelectedAt, Taken
        <3> QED
            BY <2>1, <3>1, <3>3, <3>4
    <2> QED
        BY <2>3, <2>4
<1>4. CASE ParseEnds
    <2>1. /\ phase = "parsing" /\ position \in Nat \ {0} /\ position > Len(argv)
          /\ phase' = "parsed" /\ UNCHANGED <<worker, argv, record, position, role, backend>>
        BY <1>4 DEF ParseEnds
    <2>2. ValidOptions(argv) /\ backend = (IF argv = <<>> THEN "sh1106-spi" ELSE SelectedAt(1))
        <3>1. CASE position = 1
            BY <2>1, <3>1, OneOption DEF OptionsInv
        <3>2. CASE position # 1
            BY <2>1, <3>2, OneOption DEF OptionsInv
        <3> QED
            BY <3>1, <3>2
    <2>3. StartTypeOK' /\ Fresh' /\ BackendInv'
        BY <2>1 DEF Fresh, BackendInv
    <2>4. OptionsInv'
        BY <2>1, <2>2 DEF OptionsInv, ValidOptions, ValueOf, SelectedAt
    <2> QED
        BY <2>1, <2>3, <2>4
<1>5. ASSUME NEW rec \in Record, ReceiveRecord(rec) PROVE StartInv'
    <2>1. /\ phase = "record" /\ phase' \in {"refused", "entries"} /\ record' \in Records
          /\ phase' = "refused" <=> record'.defect = "header"
          /\ role' = NoRole /\ position' = 1 /\ UNCHANGED <<worker, argv, backend>>
        BY <1>5 DEF ReceiveRecord, Fresh, Defect
    <2>2. StartTypeOK' /\ Fresh' /\ BackendInv' /\ OptionsInv'
        BY <2>1 DEF Fresh, BackendInv, OptionsInv
    <2>3. EntriesInv'
        BY <2>1 DEF EntriesInv, Read, NoRole, Role, Records
    <2>4. phase' = "refused" => ~ValidRecord(worker, record)'
        BY <2>1 DEF ValidRecord
    <2> QED
        BY <2>1, <2>2, <2>3, <2>4
<1>6. CASE AssignResource
    <2>1. /\ phase = "entries" /\ position \in 1..Len(record.names) /\ EntriesInv
          /\ UNCHANGED <<worker, argv, record>>
          /\ NextRole \in Role \cup {"none"} /\ Len(record.names) \in Nat
        BY <1>6, RoleOfType DEF AssignResource, NextRole, Records
    <2>2. CASE NextRole = "none" \/ (worker = "safe3" /\ NextRole = "bus" /\ role["bus"] # 0)
        <3>1. phase' = "refused" /\ UNCHANGED <<position, role, backend>>
            BY <1>6, <2>2 DEF AssignResource
        <3>2. StartTypeOK' /\ Fresh' /\ BackendInv' /\ OptionsInv'
            BY <2>1, <3>1 DEF Fresh, BackendInv, OptionsInv
        <3>3. CASE NextRole = "none"
            <4>1. ~ValidRecord(worker, record)
                BY <2>1, <3>3 DEF ValidRecord, NextRole
            <4> QED
                BY <2>1, <3>1, <3>2, <4>1
        <3>4. CASE worker = "safe3" /\ NextRole = "bus" /\ role["bus"] # 0
            <4>1. Read(role["bus"]) /\ RoleOf(worker, record.names[role["bus"]]) = "bus"
                BY <2>1, <3>4 DEF EntriesInv, Role
            <4>2. ~ValidRecord(worker, record)
                BY <2>1, <3>4, <4>1 DEF ValidRecord, NextRole, Read
            <4> QED
                BY <2>1, <3>1, <3>2, <4>2
        <3> QED
            BY <2>2, <3>3, <3>4
    <2>3. CASE ~(NextRole = "none" \/ (worker = "safe3" /\ NextRole = "bus" /\ role["bus"] # 0))
        <3>1. /\ role' = [role EXCEPT ![NextRole] = position]
              /\ backend' = (IF worker = "safe3" /\ NextRole = "bus"
                             THEN SelectedByName(record.names[position]) ELSE backend)
              /\ position' = position + 1 /\ phase' = phase
              /\ NextRole \in Role
            BY <1>6, <2>1, <2>3 DEF AssignResource
        <3>2. worker = "safe3" /\ NextRole = "bus" =>
                  SelectedByName(record.names[position]) \in Backend
            BY RoleOfType DEF NextRole
        <3>3. StartTypeOK' /\ Fresh' /\ BackendInv' /\ OptionsInv'
            BY <2>1, <3>1, <3>2 DEF Fresh, BackendInv, OptionsInv
        <3>4. \A i : Read(i)' <=> Read(i) \/ i = position
            BY <2>1, <3>1 DEF Read
        <3>5. EntriesInv'
            BY <2>1, <2>3, <3>1, <3>4 DEF EntriesInv, NextRole, Read
        <3> QED
            BY <2>1, <3>1, <3>3, <3>5
    <2> QED
        BY <2>2, <2>3
<1>7. CASE ResourcesAssigned
    <2>1. /\ phase = "entries" /\ position > Len(record.names) /\ EntriesInv
          /\ phase' \in {"assigned", "refused"}
          /\ phase' = "assigned" <=>
                record.defect = "none" /\ \A r \in RolesOf(worker) : role[r] # 0
          /\ UNCHANGED <<worker, argv, record, position, role, backend>>
        BY <1>7 DEF ResourcesAssigned
    <2>2. StartTypeOK' /\ Fresh' /\ BackendInv' /\ OptionsInv'
        BY <2>1 DEF Fresh, BackendInv, OptionsInv
    <2>3. EntriesInv'
        BY <2>1 DEF EntriesInv, Read
    <2>4. ValidRecord(worker, record) <=>
              record.defect = "none" /\ \A r \in RolesOf(worker) : role[r] # 0
        <3>1. \A i \in 1..Len(record.names) : Read(i)
            BY <2>1 DEF EntriesInv, Read, Records
        <3>2. \A i \in 1..Len(record.names) : RoleOf(worker, record.names[i]) # "none"
            BY <2>1, <3>1 DEF EntriesInv, Role, Records
        <3>3. \A r \in RolesOf(worker) :
                  role[r] # 0 <=> \E i \in 1..Len(record.names) : RoleOf(worker, record.names[i]) = r
            <4> SUFFICES ASSUME NEW r \in RolesOf(worker)
                PROVE  role[r] # 0 <=>
                           \E i \in 1..Len(record.names) : RoleOf(worker, record.names[i]) = r
                OBVIOUS
            <4>1. r \in Role
                BY DEF RolesOf, Role
            <4>2. role[r] # 0 =>
                      \E i \in 1..Len(record.names) : RoleOf(worker, record.names[i]) = r
                BY <2>1, <4>1 DEF EntriesInv, Read
            <4>3. ASSUME NEW i \in 1..Len(record.names), RoleOf(worker, record.names[i]) = r
                  PROVE  role[r] # 0
                BY <2>1, <3>1, <4>3 DEF EntriesInv, Records
            <4> QED
                BY <4>2, <4>3
        <3>4. worker = "safe3" =>
                  \A i, j \in 1..Len(record.names) :
                      RoleOf(worker, record.names[i]) = "bus"
                          /\ RoleOf(worker, record.names[j]) = "bus" => i = j
            <4>1. ASSUME worker = "safe3", NEW i \in 1..Len(record.names),
                         RoleOf(worker, record.names[i]) = "bus"
                  PROVE  role["bus"] = i
                BY <2>1, <3>1, <4>1 DEF EntriesInv, Records
            <4>2. ASSUME worker = "safe3",
                         NEW i \in 1..Len(record.names), NEW j \in 1..Len(record.names),
                         RoleOf(worker, record.names[i]) = "bus",
                         RoleOf(worker, record.names[j]) = "bus"
                  PROVE  i = j
                BY <4>1, <4>2
            <4> QED
                BY <4>2
        <3> QED
            BY <3>2, <3>3, <3>4 DEF ValidRecord
    <2>5. ValidRecord(worker, record)' <=> ValidRecord(worker, record)
        BY <2>1
    <2> QED
        BY <2>1, <2>2, <2>3, <2>4, <2>5
<1>8. ASSUME NEW ok \in BOOLEAN, OptionsParsed(ok) PROVE StartInv'
    <2>1. /\ phase = "parsed" /\ phase' \in {"record", "exited"} /\ argv' = <<>> /\ position' = 1
          /\ UNCHANGED <<worker, record, role, backend>>
        BY <1>8 DEF OptionsParsed
    <2> QED
        BY <2>1 DEF Fresh, OptionsInv, BackendInv, Words
<1>9. ASSUME NEW ok \in BOOLEAN, FirmwareStarts(ok) PROVE StartInv'
    <2>1. /\ phase = "assigned" /\ phase' \in {"running", "exited"}
          /\ record' = NoRecord /\ position' = 1
          /\ UNCHANGED <<worker, argv, role, backend>>
        BY <1>9 DEF FirmwareStarts
    <2>2. backend \in Backend
        <3>1. CASE worker = "safe3"
            <4>1. role["bus"] # 0 /\ EntriesInv
                BY <2>1, <3>1 DEF RolesOf, Role
            <4>2. RoleOf(worker, record.names[role["bus"]]) = "bus"
                BY <4>1 DEF EntriesInv, Role
            <4> QED
                BY <3>1, <4>1, <4>2, RoleOfType DEF EntriesInv
        <3> QED
            BY <2>1, <3>1 DEF BackendInv
    <2>3. NoRecord \in Records
        BY DEF NoRecord, Records, Defect
    <2> QED
        BY <2>1, <2>2, <2>3 DEF Fresh, OptionsInv, BackendInv
<1> QED
    BY <1>1, <1>2, <1>3, <1>4, <1>5, <1>6, <1>7, <1>8, <1>9 DEF StartNext
-----------------------------------------------------------------------------
\* Every descriptor has its owner, in every place of a call: what was given, what
\* the library holds while the display is up, and what the call in progress opened.
OwnBus == IF source = "opened" /\ call \in {"lines", "create"} THEN {Own("bus")} ELSE {}
OwnControl == IF source = "opened" /\ call = "create" THEN {Own("control")} ELSE {}
OwnButtons == IF source = "opened" /\ buttons \in {"acquired", "ready"} THEN {Own("buttons")} ELSE {}
LibrarysOwn == IF displayUp THEN Duplicates ELSE {}

InCreation == call \in {"bus", "lines", "create"}

HeldInv ==
    /\ call = "begin" => held = {} /\ buttons = "off"
    /\ call \notin {"begin", "exited"} =>
          held = Given(source) \cup LibrarysOwn \cup OwnBus \cup OwnControl \cup OwnButtons
    /\ buttons = "acquired" <=> call = "buttons"
    /\ call = "lines" => source = "opened"

\* The handle, the library's canvas, the shutdown handler and the panel go
\* together, whatever failed.
DisplayInv ==
    /\ call = "begin" => handle = "none"
    /\ InCreation => ~displayUp /\ registered /\ selected # "none"
    /\ gfx = (IF displayUp \/ InCreation THEN 1 ELSE 0)
    /\ registered = handler
    /\ displayUp => handler /\ handle = selected
    /\ darkened /\ ~displayUp => panel = "dark"
    /\ call = "exited" => ~displayUp
    /\ call # "begin" /\ source = "supervisor" => selected = backend /\ backend # "none"

DevicesInv == StartInv /\ DevicesTypeOK /\ HeldInv /\ DisplayInv

LEMMA DevicesInvInit == DevicesInit => DevicesInv
<1> SUFFICES ASSUME DevicesInit PROVE DevicesInv
    OBVIOUS
<1>1. StartInv
    BY StartInvInit DEF DevicesInit
<1>2. DevicesTypeOK
    <2>1. gfx \in Int /\ frame \in Content /\ backlight \in Level \cup {0, 255}
        BY ContentAssumption DEF DevicesInit
    <2>2. held \subseteq {"supervisor", "parent", "driver", "library"} \X Role
        BY DEF DevicesInit
    <2> QED
        BY <2>1, <2>2 DEF DevicesInit, DevicesTypeOK
<1>3. HeldInv /\ DisplayInv
    BY DEF DevicesInit, HeldInv, DisplayInv, displayUp, InCreation
<1> QED
    BY <1>1, <1>2, <1>3 DEF DevicesInv

LEMMA StartInvUnchanged == StartInv /\ UNCHANGED startVars => StartInv'
<1> SUFFICES ASSUME StartInv, UNCHANGED startVars PROVE StartInv'
    OBVIOUS
<1>1. UNCHANGED <<phase, worker, argv, record, position, role, backend>>
    BY DEF startVars
<1>2. StartTypeOK' /\ Fresh' /\ BackendInv'
    BY <1>1 DEF StartInv, StartTypeOK, Fresh, BackendInv
<1>3. OptionsInv'
    BY <1>1 DEF StartInv, OptionsInv, ValidOptions, SelectedAt, Taken
<1>4. EntriesInv' = EntriesInv
    BY <1>1 DEF EntriesInv, Read
<1>5. ValidRecord(worker, record)' = ValidRecord(worker, record)
    BY <1>1
<1> QED
    BY <1>1, <1>2, <1>3, <1>4, <1>5 DEF StartInv

\* What the library closes.
LEMMA DuplicatesClosed ==
    ASSUME NEW src \in {"supervisor", "inherited", "opened"},
           NEW others \in SUBSET {Own("buttons")}
    PROVE  (Given(src) \cup Duplicates \cup others) \ Duplicates = Given(src) \cup others
BY DEF Given, Own, Duplicates, Role

\* The calls of the display keep the invariant, at whichever step they fail.
LEMMA DisplayInvNext == DevicesInv /\ DisplayCalls => HeldInv' /\ DisplayInv' /\ DevicesTypeOK'
<1> SUFFICES ASSUME DevicesInv, DisplayCalls PROVE HeldInv' /\ DisplayInv' /\ DevicesTypeOK'
    OBVIOUS
<1> DEFINE Mine == OwnBus \cup OwnControl
<1> USE DEF DevicesInv
<1>a. /\ Mine \in SUBSET {Own("bus"), Own("control")} /\ OwnButtons \in SUBSET {Own("buttons")}
      /\ source \in {"supervisor", "inherited", "opened"}
    BY DEF OwnBus, OwnControl, OwnButtons, DevicesTypeOK
<1>b. call \notin {"begin", "exited"} => held = (Given(source) \cup LibrarysOwn \cup OwnButtons) \cup Mine
    BY DEF HeldInv
<1>c. Released((Given(source) \cup OwnButtons) \cup Mine) = Given(source) \cup OwnButtons
    <2> HIDE DEF Mine
    <2> QED
        BY <1>a DEF Released, Given, Own, Role
<1>1. ASSUME NEW reset \in BOOLEAN, NEW ok \in BOOLEAN, DisplayInit(reset, ok)
      PROVE  HeldInv' /\ DisplayInv' /\ DevicesTypeOK'
    <2>1. CASE ~registered /\ ~ok
        BY <1>1, <2>1 DEF DisplayInit, HeldInv, DisplayInv, DevicesTypeOK, displayUp, InCreation, OwnBus,
           OwnControl, OwnButtons, LibrarysOwn, startVars
    <2>2. CASE registered \/ ok
        <3>1. /\ call = "core" /\ call' = "bus" /\ ~displayUp
              /\ registered' = TRUE /\ handler' = TRUE /\ gfx' = gfx + 1
              /\ selected' = (IF selected = "none" THEN "st7789-spi" ELSE selected)
              /\ UNCHANGED <<backend, source, held, handle, panel, darkened, buttons>>
            BY <1>1, <2>2 DEF DisplayInit, startVars, DisplayInv
        <3>2. HeldInv'
            BY <3>1 DEF HeldInv, displayUp, InCreation, OwnBus, OwnControl, OwnButtons, LibrarysOwn
        <3>3. DisplayInv'
            BY <3>1 DEF DisplayInv, displayUp, InCreation
        <3>4. frame' \in Content /\ backlight' \in Level \cup {0, 255}
            BY <1>1, <2>2, ContentAssumption DEF DisplayInit, DevicesTypeOK
        <3>5. DevicesTypeOK'
            BY <3>1, <3>4 DEF DevicesTypeOK, Backend
        <3> QED
            BY <3>2, <3>3, <3>5
    <2> QED
        BY <2>1, <2>2
<1>2. ASSUME NEW reset \in BOOLEAN, NEW ok \in BOOLEAN, DisplayDeinit(reset, ok)
      PROVE  HeldInv' /\ DisplayInv' /\ DevicesTypeOK'
    <2>1. /\ call = "core" /\ displayUp /\ handle' = "none" /\ gfx' = gfx - 1
          /\ darkened' = ok /\ (ok => panel' = "dark") /\ panel' \in {panel, "dark"}
          /\ frame' \in {frame, Blank} /\ held' = held \ Duplicates
          /\ UNCHANGED <<backend, source, call, selected, registered, handler, backlight, buttons>>
        BY <1>2 DEF DisplayDeinit, Shutdown, startVars
    <2>2. held = Given(source) \cup Duplicates \cup OwnButtons
        BY <2>1 DEF HeldInv, LibrarysOwn, OwnBus, OwnControl
    <2>3. held' = Given(source) \cup OwnButtons
        BY <1>a, <2>1, <2>2, DuplicatesClosed
    <2>4. HeldInv'
        BY <2>1, <2>3 DEF HeldInv, displayUp, OwnBus, OwnControl, OwnButtons, LibrarysOwn
    <2>5. DisplayInv'
        BY <2>1 DEF DisplayInv, displayUp, InCreation
    <2>6. DevicesTypeOK'
        BY <2>1, ContentAssumption DEF DevicesTypeOK
    <2> QED
        BY <2>4, <2>5, <2>6
<1>3. CASE AcquireBus
    <2>1. /\ call = "bus" /\ call' = (IF source = "opened" THEN "lines" ELSE "create")
          /\ held' = held \cup (IF source = "opened" THEN {Own("bus")} ELSE {})
          /\ UNCHANGED <<backend, source, selected, registered, handler, handle, gfx, frame,
                         backlight, panel, darkened, buttons>>
        BY <1>3 DEF AcquireBus, displayVars, startVars
    <2>2. HeldInv'
        BY <2>1 DEF HeldInv, displayUp, OwnBus, OwnControl, OwnButtons, LibrarysOwn
    <2>3. DisplayInv'
        BY <2>1 DEF DisplayInv, displayUp, InCreation
    <2>4. DevicesTypeOK'
        BY <2>1 DEF DevicesTypeOK, Own, Role
    <2> QED
        BY <2>2, <2>3, <2>4
<1>4. CASE AcquireLines
    <2>1. /\ call = "lines" /\ call' = "create" /\ source = "opened"
          /\ held' = held \cup {Own("control")}
          /\ UNCHANGED <<backend, source, selected, registered, handler, handle, gfx, frame,
                         backlight, panel, darkened, buttons>>
        BY <1>4 DEF AcquireLines, displayVars, startVars, HeldInv
    <2>2. HeldInv'
        BY <2>1 DEF HeldInv, displayUp, OwnBus, OwnControl, OwnButtons, LibrarysOwn
    <2>3. DisplayInv'
        BY <2>1 DEF DisplayInv, displayUp, InCreation
    <2>4. DevicesTypeOK'
        BY <2>1 DEF DevicesTypeOK, Own, Role
    <2> QED
        BY <2>2, <2>3, <2>4
<1>5. CASE AcquireFails \/ CreateFails
    <2>1. /\ InCreation /\ call' = "core" /\ gfx' = gfx - 1 /\ held' = Released(held)
          /\ UNCHANGED <<backend, source, selected, registered, handler, handle, frame,
                         backlight, panel, darkened, buttons>>
        BY <1>5 DEF AcquireFails, CreateFails, InitFails, InCreation, startVars
    <2>2. held = (Given(source) \cup OwnButtons) \cup Mine
        BY <1>b, <2>1 DEF DisplayInv, LibrarysOwn, InCreation
    <2>3. held' = Given(source) \cup OwnButtons
        BY <1>c, <2>1, <2>2
    <2>4. ~displayUp /\ buttons # "acquired"
        BY <2>1 DEF DisplayInv, HeldInv, InCreation
    <2>5. HeldInv'
        BY <2>1, <2>3, <2>4 DEF HeldInv, displayUp, OwnBus, OwnControl, OwnButtons, LibrarysOwn
    <2>6. DisplayInv'
        BY <2>1, <2>4 DEF DisplayInv, displayUp, InCreation
    <2>7. DevicesTypeOK'
        BY <2>1 DEF DevicesTypeOK, Released
    <2> QED
        BY <2>5, <2>6, <2>7
<1>6. CASE Create
    <2>1. /\ call = "create" /\ call' = "core" /\ held' = Released(held) \cup Duplicates
          /\ handle' = selected /\ panel' = Blank
          /\ UNCHANGED <<backend, source, selected, registered, handler, gfx, frame,
                         backlight, darkened, buttons>>
        BY <1>6 DEF Create, startVars
    <2>2. held = (Given(source) \cup OwnButtons) \cup Mine
        BY <1>b, <2>1 DEF DisplayInv, LibrarysOwn, InCreation
    <2>3. held' = Given(source) \cup Duplicates \cup OwnButtons
        BY <1>c, <2>1, <2>2
    <2>4. InCreation /\ buttons # "acquired"
        BY <2>1 DEF HeldInv, InCreation
    <2>5. HeldInv'
        BY <2>1, <2>3, <2>4 DEF HeldInv, DisplayInv, displayUp, OwnBus, OwnControl, OwnButtons, LibrarysOwn
    <2>6. DisplayInv'
        BY <2>1, <2>4 DEF DisplayInv, displayUp, InCreation
    <2>7. DevicesTypeOK'
        BY <2>1, ContentAssumption DEF DevicesTypeOK, Released, Duplicates, Role
    <2> QED
        BY <2>5, <2>6, <2>7
<1>7. CASE \/ \E ok \in BOOLEAN : Refresh(ok)
           \/ \E level \in Level, ok \in BOOLEAN : SetBacklight(level, ok)
           \/ \E content \in Content : Draw(content)
    <2>1. /\ call = "core" /\ displayUp
          /\ frame' \in Content /\ panel' \in Content \cup {"dark"}
          /\ backlight' \in Level \cup {0, 255}
          /\ UNCHANGED <<backend, source, call, held, selected, registered, handler, handle, gfx,
                         darkened, buttons>>
        BY <1>7 DEF Refresh, SetBacklight, Draw, startVars, DevicesTypeOK
    <2>2. HeldInv'
        BY <2>1 DEF HeldInv, displayUp, OwnBus, OwnControl, OwnButtons, LibrarysOwn
    <2>3. DisplayInv'
        BY <2>1 DEF DisplayInv, displayUp, InCreation
    <2>4. DevicesTypeOK'
        BY <2>1 DEF DevicesTypeOK
    <2> QED
        BY <2>2, <2>3, <2>4
<1> QED
    BY <1>1, <1>2, <1>3, <1>4, <1>5, <1>6, <1>7 DEF DisplayCalls

\* Every action keeps the invariant. The interesting ones are those of display_init,
\* which may give up at every step.
LEMMA DevicesInvNext == DevicesInv /\ [DevicesNext \/ DevicesDone]_deviceVars => DevicesInv'
<1> SUFFICES ASSUME DevicesInv, [DevicesNext \/ DevicesDone]_deviceVars PROVE DevicesInv'
    OBVIOUS
<1> USE DEF DevicesInv
<1>1. CASE call = "begin" /\ StartNext /\ UNCHANGED <<source, call, held, displayVars, buttons>>
    <2>1. StartInv'
        BY <1>1, StartInvNext
    <2>2. DevicesTypeOK'
        BY <1>1 DEF DevicesTypeOK, displayVars
    <2>3. HeldInv' /\ DisplayInv'
        BY <1>1 DEF HeldInv, DisplayInv, displayUp, InCreation, displayVars
    <2> QED
        BY <2>1, <2>2, <2>3
<1>2. ASSUME NEW src \in Source, CoreBegins(src) PROVE DevicesInv'
    <2>1. /\ call = "begin" /\ call' = "core" /\ source' = src /\ held' = Given(src)
          /\ selected' = (IF src = "supervisor" THEN backend ELSE "none")
          /\ src = "supervisor" => backend \in Backend
          /\ UNCHANGED <<startVars, registered, handler, handle, gfx, frame, backlight, panel,
                         darkened, buttons>>
        BY <1>2 DEF CoreBegins, StartInv, BackendInv
    <2>2. StartInv'
        BY <2>1, StartInvUnchanged
    <2>3. src \in {"supervisor", "inherited", "opened"} /\ backend' = backend /\ "none" \notin Backend
        BY <2>1, SourceAssumption DEF startVars, Backend
    <2>4. DevicesTypeOK'
        BY <2>1, <2>3 DEF DevicesTypeOK, Given, Role
    <2>5. HeldInv'
        BY <2>1, <2>3 DEF HeldInv, DisplayInv, displayUp, OwnBus, OwnControl, OwnButtons, LibrarysOwn
    <2>6. DisplayInv'
        BY <2>1, <2>3 DEF DisplayInv, displayUp, InCreation
    <2> QED
        BY <2>2, <2>4, <2>5, <2>6
<1>3. CASE DisplayCalls
    <2>1. UNCHANGED startVars
        BY <1>3 DEF DisplayCalls, DisplayInit, AcquireBus, AcquireLines, AcquireFails, Create,
                    CreateFails, InitFails, DisplayDeinit, Refresh, SetBacklight, Draw
    <2> QED
        BY <1>3, <2>1, StartInvUnchanged, DisplayInvNext
<1>4. CASE ButtonCalls
    <2> DEFINE Changed ==
          /\ call \in {"core", "buttons"} /\ call' \in {"core", "buttons"}
          /\ buttons' = "acquired" <=> call' = "buttons"
          /\ buttons' \in {"off", "acquired", "ready"}
          /\ held' = (held \ {Own("buttons")}) \cup OwnButtons'
          /\ UNCHANGED <<startVars, source, displayVars>>
    <2>a. call \in {"core", "buttons"} =>
              /\ held = Given(source) \cup LibrarysOwn \cup OwnButtons
              /\ held \ {Own("buttons")} = Given(source) \cup LibrarysOwn
        <3>1. call \in {"core", "buttons"} => held = Given(source) \cup LibrarysOwn \cup OwnButtons
            BY DEF HeldInv, OwnBus, OwnControl
        <3> QED
            BY <3>1 DEF OwnButtons, LibrarysOwn, Duplicates, Own, Given
    <2>1. Changed
        <3>1. ASSUME NEW ok \in BOOLEAN, ButtonsAcquire(ok) PROVE Changed
            BY <2>a, <3>1 DEF ButtonsAcquire, OwnButtons, HeldInv
        <3>2. ASSUME NEW ok \in BOOLEAN, ButtonsPolled(ok) PROVE Changed
            BY <2>a, <3>2 DEF ButtonsPolled, OwnButtons, HeldInv
        <3>3. CASE ButtonsDeinit
            BY <2>a, <3>3 DEF ButtonsDeinit, OwnButtons, HeldInv
        <3> QED
            BY <1>4, <3>1, <3>2, <3>3 DEF ButtonCalls
    <2>2. StartInv'
        BY <2>1, StartInvUnchanged
    <2>3. HeldInv'
        <3>1. held' = Given(source) \cup LibrarysOwn \cup OwnButtons'
            BY <2>a, <2>1
        <3> QED
            BY <2>1, <3>1 DEF HeldInv, OwnBus, OwnControl, LibrarysOwn, displayUp, displayVars
    <2>4. DisplayInv'
        BY <2>1 DEF DisplayInv, displayUp, InCreation, displayVars, startVars
    <2>5. DevicesTypeOK'
        BY <2>1 DEF DevicesTypeOK, OwnButtons, Own, Role, displayVars
    <2> QED
        BY <2>2, <2>3, <2>4, <2>5
<1>5. ASSUME NEW ok \in BOOLEAN, OrderlyExit(ok) PROVE DevicesInv'
    <2>1. /\ call = "core" /\ call' = "exited" /\ held' = {} /\ buttons' = "off"
          /\ UNCHANGED <<startVars, source, selected, registered, handler, backlight>>
        BY <1>5 DEF OrderlyExit
    <2>2. /\ handle' = "none" /\ gfx' = 0 /\ darkened' \in BOOLEAN
          /\ frame' \in Content /\ panel' \in {panel, "dark"}
          /\ darkened' => panel' = "dark"
        BY <1>5, <2>1, ContentAssumption
        DEF OrderlyExit, Shutdown, DisplayInv, displayUp, InCreation, DevicesTypeOK
    <2>3. StartInv'
        BY <2>1, StartInvUnchanged
    <2>4. HeldInv'
        BY <2>1 DEF HeldInv
    <2>5. DisplayInv'
        BY <2>1, <2>2 DEF DisplayInv, displayUp, InCreation, startVars
    <2>6. DevicesTypeOK'
        BY <2>1, <2>2 DEF DevicesTypeOK
    <2> QED
        BY <2>3, <2>4, <2>5, <2>6
<1>6. CASE DevicesDone \/ UNCHANGED deviceVars
    <2>1. UNCHANGED <<startVars, source, call, held, displayVars, buttons>>
        BY <1>6 DEF DevicesDone, deviceVars
    <2>2. StartInv'
        BY <2>1, StartInvUnchanged
    <2>3. DevicesTypeOK'
        BY <2>1 DEF DevicesTypeOK, displayVars
    <2>4. HeldInv' /\ DisplayInv'
        BY <2>1 DEF HeldInv, DisplayInv, displayUp, InCreation, displayVars, OwnBus, OwnControl,
                    OwnButtons, LibrarysOwn, startVars
    <2> QED
        BY <2>2, <2>3, <2>4
<1> QED
    BY <1>1, <1>2, <1>3, <1>4, <1>5, <1>6 DEF DevicesNext

LEMMA DevicesInvariant == DevicesSpec => []DevicesInv
BY DevicesInvInit, DevicesInvNext, PTL DEF DevicesSpec

\* The state of the drivers and of the start of the process stays within its type.
THEOREM DevicesTypeCorrect == DevicesSpec => [](StartTypeOK /\ DevicesTypeOK)
<1>1. DevicesInv => StartTypeOK /\ DevicesTypeOK
    BY DEF DevicesInv, StartInv
<1> QED
    BY DevicesInvariant, <1>1, PTL

\* A worker runs its firmware exactly when its options and its record, of any
\* length, are valid, with the backend and the descriptors they name.
THEOREM WorkerStartsAsTold == DevicesSpec => []StartsAsTold
<1>1. DevicesInv => StartsAsTold
    <2> SUFFICES ASSUME DevicesInv PROVE StartsAsTold
        OBVIOUS
    <2>1. ASSUME phase = "assigned"
          PROVE  /\ \A r \in RolesOf(worker) : RoleOf(worker, record.names[role[r]]) = r
                 /\ worker = "safe3" => backend = SelectedByName(record.names[role["bus"]])
        BY <2>1 DEF DevicesInv, StartInv, EntriesInv, RolesOf, Role
    <2> QED
        BY <2>1 DEF StartsAsTold, DevicesInv, StartInv, OptionsInv, BackendInv
<1> QED
    BY DevicesInvariant, <1>1, PTL

\* Between two calls of Core no descriptor has leaked and none that was given is
\* lost, whatever failed before.
THEOREM NothingLeaks == DevicesSpec => []DevicesBalanced
<1>1. DevicesInv => DevicesBalanced
    <2> SUFFICES ASSUME DevicesInv, call = "core"
                 PROVE  /\ source = "supervisor" /\ displayUp => handle = backend
                        /\ held = Given(source) \cup LibrarysOwn \cup OwnButtons
                        /\ gfx = (IF displayUp THEN 1 ELSE 0)
                        /\ buttons # "acquired"
        BY DEF DevicesBalanced, LibrarysOwn, OwnButtons
    <2> QED
        BY DEF DevicesInv, HeldInv, DisplayInv, InCreation, OwnBus, OwnControl
<1> QED
    BY DevicesInvariant, <1>1, PTL

\* An orderly exit leaves a dark panel.
THEOREM PanelGoesDark == DevicesSpec => []PanelDarkAtExit
<1>1. DevicesInv => PanelDarkAtExit
    BY DEF DevicesInv, DisplayInv, PanelDarkAtExit
<1> QED
    BY DevicesInvariant, <1>1, PTL
-----------------------------------------------------------------------------
(* The buttons.                                                            *)

\* Where a driver may begin a wait without sampling again: Safe 3 after a probe
\* of the buttons, the legacy firmware wherever it runs.
MayWait(d, at) == at = "wait" \/ at = (IF d = "safe3" THEN "probed" ELSE "run")

\* The inductive invariant: at those places the sample is current, or an edge is
\* queued. Only a probe of Core samples between two waits of Safe 3.
ButtonsInv ==
    /\ ButtonsTypeOK
    /\ bpc = "probed" => driver = "safe3"
    /\ bpc = "drained" => driver = "legacy"
    /\ MayWait(driver, bpc) /\ edges = 0 => sampled = Pressed(lines)

LEMMA PressedType == ASSUME NEW low \in SUBSET Line PROVE Pressed(low) \subseteq Button
BY DEF Pressed, Line, Button

LEMMA ButtonsInvInit == ButtonsInit => ButtonsInv
BY MaxEdgesAssumption DEF ButtonsInit, ButtonsInv, ButtonsTypeOK, ButtonPC, MayWait, Pressed

\* Each action keeps the invariant: an edge of a line is queued, for the queue
\* has room for one at least; draining leads to a place that samples.
LEMMA ButtonsInvNext == ButtonsInv /\ [ButtonsNext]_buttonVars => ButtonsInv'
<1> SUFFICES ASSUME ButtonsInv, [ButtonsNext]_buttonVars PROVE ButtonsInv'
    OBVIOUS
<1> USE MaxEdgesAssumption, PressedType
    DEF ButtonsInv, ButtonsTypeOK, ButtonPC, MayWait
<1>1. ASSUME NEW l \in Line, LineChanges(l) PROVE ButtonsInv'
    BY <1>1 DEF LineChanges
<1>2. ASSUME NEW d \in {"safe3", "legacy"}, DriverStarts(d) PROVE ButtonsInv'
    BY <1>2 DEF DriverStarts
<1>3. CASE Sample
    BY <1>3 DEF Sample
<1>4. CASE TaskRuns
    BY <1>4 DEF TaskRuns
<1>5. CASE WaitBegins
    BY <1>5 DEF WaitBegins
<1>6. CASE EdgeReported \/ WaitEnds
    BY <1>6 DEF EdgeReported, WaitEnds
<1>7. CASE DrainEdge
    BY <1>7 DEF DrainEdge
<1>8. CASE DrainEnds
    BY <1>8 DEF DrainEnds
<1>9. CASE CacheSample
    BY <1>9 DEF CacheSample
<1>10. CASE ButtonsFail
    BY <1>10 DEF ButtonsFail
<1>11. CASE UNCHANGED buttonVars
    BY <1>11 DEF buttonVars
<1> QED
    BY <1>1, <1>2, <1>3, <1>4, <1>5, <1>6, <1>7, <1>8, <1>9, <1>10, <1>11
    DEF ButtonsNext, ButtonsRun

\* The state of the button lines stays within its type.
THEOREM ButtonsTypeCorrect == ButtonsSpec => []ButtonsTypeOK
<1>1. ButtonsInv => ButtonsTypeOK
    BY DEF ButtonsInv
<1> QED
    BY ButtonsInvInit, ButtonsInvNext, <1>1, PTL DEF ButtonsSpec

\* No wait begins or goes on with levels other than those sampled last and no edge
\* queued, for a queue of any length and any timing of edges against draining and
\* sampling.
THEOREM EveryEdgeIsSeen == ButtonsSpec => []ButtonsSeen
<1>1. ButtonsInv => ButtonsSeen
    BY DEF ButtonsInv, ButtonsSeen, MayWait
<1> QED
    BY ButtonsInvInit, ButtonsInvNext, <1>1, PTL DEF ButtonsSpec
=============================================================================
