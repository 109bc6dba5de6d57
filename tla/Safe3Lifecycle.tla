--------------------------- MODULE Safe3Lifecycle ---------------------------
(***************************************************************************)
(* The life of a USB generation between the Safe 3 worker                  *)
(* (usb_supervisor.c), usb-gadget-supervisor and KEY3: configuration,      *)
(* quiescing, serving, bus events, ejection and insertion.                 *)
(*                                                                         *)
(* The two ends exchange records over one SEQPACKET socket, a FIFO each    *)
(* way. The worker's part is translated from its source. The supervisor is *)
(* another program: it does here what that source expects of it, and where *)
(* the source admits several answers it may give each of them. Endpoint    *)
(* helpers are Safe3Endpoint's subject: here a generation's descriptors    *)
(* are open or closed as a whole.                                          *)
(***************************************************************************)
EXTENDS Naturals, Sequences

CONSTANTS
    Budget,     \* bound: KEY3 transitions, calls of Core, rejections and
                \* enumerations by the host, together
    MaxRecords  \* bound: bus events in the socket at once

ASSUME BudgetAssumption == Budget \in Nat /\ MaxRecords \in Nat \ {0}

VARIABLES
    wpc,         \* where the worker's main thread is
    initialized, started, ejected,
    pressed,     \* g_reconnect_pressed
    edgeSeen,    \* the reconnect line was readable when this pass polled
    generation,  \* g_usb.generation
    installed,   \* the generation whose descriptors are open, 0 for none
    leaked,      \* generations whose descriptors are open and in no endpoint
    enabled, suspended, activation,
    nextId,      \* g_usb.next_request_id
    exchange,    \* the exchange the worker waits in
    active,      \* the supervisor's generation, 0 when there is none
    newest,      \* the newest generation it created
    phase,       \* what it waits for: nothing, QUIESCED, SERVING, or the end.
                 \* gone: it has closed its end of the socket
    answering,   \* the Configure it answers
    bound,       \* the UDC is bound: the host sees the gadget
    configured,  \* the host selected the configuration
    link,        \* activation of the endpoints, as the supervisor counts it
    toWorker, toSupervisor,   \* the socket
    level,       \* KEY3 is held
    edges,       \* the kernel holds edge events of the line
    budget

flags      == <<initialized, started, ejected>>
key3       == <<pressed, edgeSeen>>
usb        == <<generation, installed, leaked, enabled, suspended, activation>>
worker     == <<wpc, flags, key3, usb, nextId, exchange>>
udc        == <<bound, configured, link>>
supervisor == <<active, newest, phase, answering, udc>>
button     == <<level, edges>>
vars == <<worker, supervisor, toWorker, toSupervisor, button, budget>>

Ended == {"dead", "exited"}
BusKind == {"bind", "enable", "disable", "suspend", "resume"}
Goal == {"none", "start", "insert"}
NoExchange == [id |-> 0, quiesced |-> FALSE, replacement |-> FALSE, goal |-> "none"]

\* A record. act is the activation a bus event carries, full tells a complete
\* personality from an empty Configure.
Record(kind, gen, id) == [kind |-> kind, gen |-> gen, id |-> id, act |-> 0, full |-> FALSE]
Configure(id, full) == [Record("configure", generation, id) EXCEPT !.full = full]
BusRecord(kind, act) == [Record(kind, active, 0) EXCEPT !.act = act]

Init ==
    /\ wpc = "core"
    /\ initialized = FALSE /\ started = FALSE /\ ejected = FALSE
    /\ level \in BOOLEAN /\ pressed = level /\ edges = FALSE /\ edgeSeen = FALSE
    /\ generation = 0 /\ installed = 0 /\ leaked = {}
    /\ enabled = FALSE /\ suspended = FALSE /\ activation = 0
    /\ nextId = 1 /\ exchange = NoExchange
    /\ active = 0 /\ newest = 0 /\ phase = "idle"
    /\ answering = [id |-> 0, full |-> FALSE]
    /\ bound = FALSE /\ configured = FALSE /\ link = 0
    /\ toWorker = <<>> /\ toSupervisor = <<>>
    /\ budget = Budget

Spend == budget > 0 /\ budget' = budget - 1
-----------------------------------------------------------------------------
(* The worker.                                                             *)

\* The process ends, and the kernel closes what it had open.
WorkerEnds(how) ==
    /\ wpc' = how
    /\ installed' = 0 /\ leaked' = {} /\ enabled' = FALSE /\ exchange' = NoExchange
    /\ UNCHANGED <<flags, key3, generation, suspended, activation, nextId>>

\* The socket takes a record as long as its other end is open.
Send(record) == phase # "gone" /\ toSupervisor' = Append(toSupervisor, record)

\* Mutant of CloseAndAnswer: QUIESCED is sent with the descriptors still open.
CloseAndAnswer_KeepsOpen(id) ==
    /\ enabled' = FALSE /\ UNCHANGED <<installed, leaked>>
    /\ Send(Record("quiesced", generation, id))

\* close_endpoints, then QUIESCED with the id of the QUIESCE.
CloseAndAnswer(id) ==
    /\ enabled' = FALSE /\ installed' = 0 /\ UNCHANGED leaked
    /\ Send(Record("quiesced", generation, id))

\* handle_bus_event accepts a record of its own generation, and a suspend or
\* resume of its own activation.
BusEventValid(r) ==
    /\ r.gen = generation
    /\ r.kind \in {"suspend", "resume"} => r.act = activation

\* Mutant of HandleBusEvent: the activation is checked and not kept.
HandleBusEvent_ForgetsActivation(r) ==
    /\ enabled' = (r.kind = "enable" \/ (enabled /\ r.kind \in {"suspend", "resume"}))
    /\ suspended' = (r.kind = "suspend")
    /\ UNCHANGED <<generation, installed, leaked, activation, toSupervisor>>

HandleBusEvent(r) ==
    /\ activation' = r.act
    /\ enabled' = (r.kind = "enable" \/ (enabled /\ r.kind \in {"suspend", "resume"}))
    /\ suspended' = (r.kind = "suspend")
    /\ UNCHANGED <<generation, installed, leaked, toSupervisor>>

\* poll: the control socket, and whether KEY3's line is readable. One record
\* is handled, by handle_runtime_record, before the line is looked at.
Poll == edgeSeen' = edges

PassWithoutRecord ==
    /\ wpc = "core" /\ toWorker = <<>> /\ phase # "gone"
    /\ wpc' = "refresh" /\ Poll
    /\ UNCHANGED <<flags, pressed, usb, nextId, exchange, supervisor, toWorker,
                   toSupervisor, button, budget>>

PassWithRecord ==
    LET r == Head(toWorker)
    IN  /\ wpc = "core" /\ toWorker # <<>>
        /\ toWorker' = Tail(toWorker)
        /\ \/ /\ r.kind \in BusKind /\ BusEventValid(r)
              /\ HandleBusEvent(r)
              /\ wpc' = "refresh" /\ Poll
              /\ UNCHANGED <<flags, pressed, nextId, exchange>>
           \/ /\ r.kind = "quiesce" /\ r.gen = generation /\ r.id # 0
              /\ CloseAndAnswer(r.id)
              /\ wpc' = "refresh" /\ Poll
              /\ UNCHANGED <<flags, pressed, generation, suspended, activation, nextId, exchange>>
           \/ /\ r.kind = "quiesce" /\ r.gen = generation /\ r.id = 0
              /\ Send(Record("quiesced", generation, 0))
              /\ WorkerEnds("exited")
           \/ /\ ~(r.kind \in BusKind /\ BusEventValid(r))
              /\ ~(r.kind = "quiesce" /\ r.gen = generation)
              /\ WorkerEnds("dead")
              /\ UNCHANGED toSupervisor
        /\ UNCHANGED <<supervisor, button, budget>>

\* refresh_reconnect_state, when the line was readable: read every edge event.
DrainEdges ==
    /\ wpc = "refresh" /\ edgeSeen
    /\ edges' = FALSE /\ wpc' = "sample"
    /\ UNCHANGED <<flags, key3, usb, nextId, exchange, supervisor, toWorker,
                   toSupervisor, level, budget>>

\* Mutant of SampleLevel: the edge is taken for a command.
SampleLevel_Toggle ==
    /\ wpc = "sample" /\ wpc' = "key3"
    /\ pressed' = ~pressed /\ edgeSeen' = FALSE
    /\ UNCHANGED <<flags, usb, nextId, exchange, supervisor, toWorker, toSupervisor,
                   button, budget>>

\* Then ask for the level of the line.
SampleLevel ==
    /\ wpc = "sample" /\ wpc' = "key3"
    /\ pressed' = level /\ edgeSeen' = FALSE
    /\ UNCHANGED <<flags, usb, nextId, exchange, supervisor, toWorker, toSupervisor,
                   button, budget>>

NoEdge ==
    /\ wpc = "refresh" /\ ~edgeSeen /\ wpc' = "key3"
    /\ UNCHANGED <<flags, key3, usb, nextId, exchange, supervisor, toWorker,
                   toSupervisor, button, budget>>

\* Sending a Configure and waiting for what answers it.
BeginExchange(full, replacement, goal) ==
    /\ Send(Configure(nextId, full))
    /\ nextId' = nextId + 1
    /\ exchange' = [id |-> nextId, quiesced |-> ~replacement,
                    replacement |-> replacement, goal |-> goal]
    /\ wpc' = (IF full THEN "configuring" ELSE "unconfiguring")

\* KEY3 is held: unconfigure_until_quiesced.
Eject ==
    /\ wpc = "key3" /\ pressed /\ started /\ ~ejected
    /\ BeginExchange(FALSE, TRUE, "none")
    /\ UNCHANGED <<flags, key3, usb, supervisor, toWorker, button, budget>>

\* KEY3 was released: configure_until_endpoints(false).
Insert ==
    /\ wpc = "key3" /\ ~pressed /\ started /\ ejected
    /\ BeginExchange(TRUE, FALSE, "insert")
    /\ UNCHANGED <<flags, key3, usb, supervisor, toWorker, button, budget>>

PassEnds ==
    /\ wpc = "key3" /\ ~(started /\ pressed # ejected)
    /\ wpc' = "core"
    /\ UNCHANGED <<flags, key3, usb, nextId, exchange, supervisor, toWorker,
                   toSupervisor, button, budget>>

\* The record received in an exchange, and the answers it can be.
Receives ==
    /\ wpc \in {"configuring", "unconfiguring"} /\ toWorker # <<>>
    /\ toWorker' = Tail(toWorker)
IsAnswer(kind) == Head(toWorker).kind = kind /\ Head(toWorker).id = exchange.id

IsRejection == IsAnswer("rejected") /\ Head(toWorker).gen = generation
IsQuiesce ==
    /\ IsAnswer("quiesce") /\ Head(toWorker).gen = generation
    /\ exchange.replacement /\ ~exchange.quiesced
IsEndpoints == IsAnswer("endpoints") /\ wpc = "configuring" /\ exchange.quiesced

\* Mutant of Rejected: a rejected ejection counts as one.
Rejected_Ejects ==
    /\ Receives /\ IsRejection
    /\ IF exchange.goal = "insert"
       THEN WorkerEnds("dead")
       ELSE /\ ejected' = (ejected \/ wpc = "unconfiguring")
            /\ wpc' = "core" /\ exchange' = NoExchange
            /\ UNCHANGED <<initialized, started, key3, usb, nextId>>
    /\ UNCHANGED <<supervisor, toSupervisor, button, budget>>

\* The supervisor keeps what it has. A rejected insertion ends the worker.
Rejected ==
    /\ Receives /\ IsRejection
    /\ IF exchange.goal = "insert"
       THEN WorkerEnds("dead")
       ELSE wpc' = "core" /\ exchange' = NoExchange /\ UNCHANGED <<flags, key3, usb, nextId>>
    /\ UNCHANGED <<supervisor, toSupervisor, button, budget>>

\* Close the endpoints of the old generation. An ejection is then complete.
Quiesced ==
    /\ Receives /\ IsQuiesce
    /\ CloseAndAnswer(exchange.id)
    /\ IF wpc = "configuring"
       THEN exchange' = [exchange EXCEPT !.quiesced = TRUE] /\ UNCHANGED <<wpc, ejected>>
       ELSE exchange' = NoExchange /\ wpc' = "core" /\ ejected' = TRUE
    /\ UNCHANGED <<initialized, started, key3, generation, suspended, activation, nextId,
                   supervisor, button, budget>>

\* Mutant of Installed: the descriptors are taken for the generation before.
Installed_OldGeneration ==
    LET gen == Head(toWorker).gen
    IN  /\ Receives /\ IsEndpoints
        /\ generation' = gen /\ installed' = generation /\ enabled' = FALSE
        /\ Send(Record("serving", gen, exchange.id))
        /\ started' = (started \/ exchange.goal = "start")
        /\ ejected' = (ejected /\ exchange.goal # "insert")
        /\ wpc' = "core" /\ exchange' = NoExchange
        /\ UNCHANGED <<initialized, key3, leaked, suspended, activation, nextId, supervisor,
                       button, budget>>

\* install_endpoints and SERVING: usb_start or the insertion is complete.
Installed ==
    LET gen == Head(toWorker).gen
    IN  /\ Receives /\ IsEndpoints
        /\ generation' = gen /\ installed' = gen /\ enabled' = FALSE
        /\ Send(Record("serving", gen, exchange.id))
        /\ started' = (started \/ exchange.goal = "start")
        /\ ejected' = (ejected /\ exchange.goal # "insert")
        /\ wpc' = "core" /\ exchange' = NoExchange
        /\ UNCHANGED <<initialized, key3, leaked, suspended, activation, nextId, supervisor,
                       button, budget>>

\* Anything else received in an exchange ends the worker.
Unexpected ==
    /\ Receives /\ ~IsRejection /\ ~IsQuiesce /\ ~IsEndpoints
    /\ WorkerEnds("dead")
    /\ UNCHANGED <<supervisor, toSupervisor, button, budget>>

\* The supervisor is gone: a receive finds the end of the stream, which is an
\* orderly end, or an error, and so does the next record the worker sends.
MustSend ==
    \/ wpc = "core"
    \/ wpc = "key3" /\ started /\ pressed # ejected
    \/ wpc \in {"configuring", "unconfiguring"} /\ toWorker # <<>> /\ (IsQuiesce \/ IsEndpoints)
ConnectionLost ==
    /\ phase = "gone"
    /\ (wpc \in {"configuring", "unconfiguring"} /\ toWorker = <<>>) \/ MustSend
    /\ \E how \in Ended : WorkerEnds(how)
    /\ UNCHANGED <<supervisor, toWorker, toSupervisor, button, budget>>

WorkerServes ==
    \/ PassWithoutRecord \/ PassWithRecord
    \/ NoEdge \/ DrainEdges \/ SampleLevel \/ Eject \/ Insert \/ PassEnds
    \/ Rejected \/ Quiesced \/ Installed \/ Unexpected \/ ConnectionLost
-----------------------------------------------------------------------------
(* What Core calls.                                                        *)

\* usb_init: every endpoint is without a descriptor, also when it still had one
\* open, and an empty Configure is sent whose answer is not awaited.
UsbInit ==
    /\ wpc = "core" /\ ~initialized /\ Spend
    /\ initialized' = TRUE
    /\ leaked' = leaked \cup ({installed} \ {0}) /\ installed' = 0
    /\ Send(Configure(nextId, FALSE)) /\ nextId' = nextId + 1
    /\ UNCHANGED <<wpc, started, ejected, key3, generation, enabled, suspended, activation,
                   exchange, supervisor, toWorker, button>>

\* Mutant of UsbStart: the helpers are stopped, and the stack still counts as started
\* if the new personality is rejected.
UsbStart_StaysStarted ==
    /\ wpc = "core" /\ initialized /\ Spend
    /\ enabled' = (enabled /\ ~started)
    /\ BeginExchange(TRUE, generation # 0, "start")
    /\ UNCHANGED <<initialized, started, ejected, key3, generation, installed, leaked,
                   suspended, activation, supervisor, toWorker, button>>

\* usb_start: new parameters stop a started stack first.
UsbStart ==
    /\ wpc = "core" /\ initialized /\ Spend
    /\ started' = FALSE /\ enabled' = (enabled /\ ~started)
    /\ BeginExchange(TRUE, generation # 0, "start")
    /\ UNCHANGED <<initialized, ejected, key3, generation, installed, leaked, suspended,
                   activation, supervisor, toWorker, button>>

\* usb_stop alone, and as a part of usb_deinit.
UsbStop(deinit) ==
    /\ wpc = "core" /\ initialized /\ (started \/ deinit) /\ Spend
    /\ initialized' = ~deinit
    /\ started' = FALSE /\ enabled' = (enabled /\ ~started)
    /\ UNCHANGED <<wpc, ejected, key3, generation, installed, leaked, suspended, activation,
                   nextId, exchange, supervisor, toWorker, toSupervisor, button>>

CoreCalls == UsbInit \/ UsbStart \/ \E deinit \in BOOLEAN : UsbStop(deinit)
-----------------------------------------------------------------------------
(* usb-gadget-supervisor, the USB host and KEY3.                           *)

Alive == wpc \notin Ended
Tell(records) == toWorker' = toWorker \o records
Unbind == bound' = FALSE /\ configured' = FALSE /\ UNCHANGED link

\* A new generation is created for the Configure with this id.
Create(id) ==
    /\ newest' = newest + 1 /\ active' = newest + 1 /\ phase' = "serving"
    /\ Tell(<<Record("endpoints", newest + 1, id)>>)

TakeConfigure ==
    /\ Alive /\ phase = "idle" /\ toSupervisor # <<>>
    /\ Head(toSupervisor).kind = "configure"
    /\ toSupervisor' = Tail(toSupervisor)

\* A Configure is invalid: nothing changes.
Reject ==
    LET r == Head(toSupervisor)
    IN  /\ TakeConfigure /\ (r.full \/ active # 0) /\ Spend
        /\ Tell(<<Record("rejected", r.gen, r.id)>>)
        /\ UNCHANGED <<worker, supervisor, button>>

\* A Configure while a generation is active: unbind, and ask to quiesce it.
Retire ==
    LET r == Head(toSupervisor)
    IN  /\ TakeConfigure /\ active # 0
        /\ Unbind
        /\ phase' = "quiescing" /\ answering' = [id |-> r.id, full |-> r.full]
        /\ Tell(<<Record("quiesce", active, r.id)>>)
        /\ UNCHANGED <<worker, active, newest, button, budget>>

\* A Configure while there is none. An empty one only declares readiness.
Publish ==
    LET r == Head(toSupervisor)
    IN  /\ TakeConfigure /\ active = 0
        /\ IF r.full THEN Create(r.id) ELSE UNCHANGED <<newest, active, phase, toWorker>>
        /\ UNCHANGED <<worker, answering, udc, button, budget>>

\* QUIESCED: the old generation is removed, and replaced when it is to be.
Replace ==
    /\ Alive /\ phase = "quiescing" /\ toSupervisor # <<>>
    /\ Head(toSupervisor).kind = "quiesced" /\ Head(toSupervisor).id = answering.id
    /\ toSupervisor' = Tail(toSupervisor)
    /\ IF answering.full
       THEN Create(answering.id)
       ELSE active' = 0 /\ phase' = "idle" /\ UNCHANGED <<newest, toWorker>>
    /\ UNCHANGED <<worker, answering, udc, button, budget>>

\* SERVING: bind the UDC.
Bind ==
    /\ Alive /\ phase = "serving" /\ toSupervisor # <<>>
    /\ Head(toSupervisor).kind = "serving"
    /\ toSupervisor' = Tail(toSupervisor)
    /\ bound' = TRUE /\ configured' = FALSE /\ phase' = "idle"
    /\ Tell(<<BusRecord("bind", link)>>)
    /\ UNCHANGED <<worker, active, newest, answering, link, button, budget>>

\* The host configures, resets, suspends or resumes the gadget.
HostEvent(kind) ==
    /\ Alive /\ bound /\ phase = "idle" /\ Len(toWorker) < MaxRecords
    /\ \/ /\ kind = "enable" /\ ~configured /\ Spend
          /\ configured' = TRUE /\ link' = link + 1
       \/ /\ kind = "disable" /\ configured
          /\ configured' = FALSE /\ UNCHANGED <<link, budget>>
       \/ /\ kind \in {"suspend", "resume"} /\ configured
          /\ UNCHANGED <<configured, link, budget>>
    /\ Tell(<<BusRecord(kind, link')>>)
    /\ UNCHANGED <<worker, active, newest, phase, answering, bound, toSupervisor, button>>

\* The service stops: QUIESCE without a request.
Shutdown ==
    /\ Alive /\ phase = "idle" /\ Spend
    /\ Unbind
    /\ phase' = "ending"
    /\ Tell(<<Record("quiesce", newest, 0)>>)
    /\ UNCHANGED <<worker, active, newest, answering, toSupervisor, button>>

\* The service fails: the kernel closes its end of the socket and the gadget.
SupervisorFails ==
    /\ Alive /\ phase # "gone" /\ Spend
    /\ Unbind
    /\ phase' = "gone"
    /\ UNCHANGED <<worker, active, newest, answering, toWorker, toSupervisor, button>>

\* A Configure that usb_init sent before it read the QUIESCE comes in place of
\* QUIESCED. What the supervisor does then is not known here: it gives up.
Overtaken ==
    /\ Alive /\ phase = "quiescing" /\ toSupervisor # <<>>
    /\ Head(toSupervisor).kind = "configure"
    /\ Unbind
    /\ phase' = "gone"
    /\ UNCHANGED <<worker, active, newest, answering, toWorker, toSupervisor, button, budget>>

SupervisorAnswers == Reject \/ Retire \/ Publish \/ Replace \/ Bind \/ Overtaken

\* The user presses or releases KEY3.
Key3Moves ==
    /\ Alive /\ Spend
    /\ level' = ~level /\ edges' = TRUE
    /\ UNCHANGED <<worker, supervisor, toWorker, toSupervisor>>

Next ==
    \/ WorkerServes \/ CoreCalls \/ SupervisorAnswers \/ Shutdown \/ SupervisorFails
    \/ Key3Moves
    \/ \E kind \in BusKind \ {"bind"} : HostEvent(kind)

\* The worker has ended.
Terminated == ~Alive /\ UNCHANGED vars

Spec == Init /\ [][Next \/ Terminated]_vars

(* The worker runs its passes and the supervisor answers what it receives. *)
Fairness == WF_vars(WorkerServes) /\ WF_vars(SupervisorAnswers)

FairSpec == Spec /\ Fairness
-----------------------------------------------------------------------------
(* Properties.                                                             *)

RecordKind == BusKind \cup {"configure", "quiesce", "quiesced", "endpoints",
                            "serving", "rejected"}
Records == [kind : RecordKind, gen : Nat, id : Nat, act : Nat, full : BOOLEAN]

\* Every variable stays within the values its C counterpart can have.
TypeOK ==
    /\ wpc \in {"core", "refresh", "sample", "key3", "configuring", "unconfiguring"} \cup Ended
    /\ initialized \in BOOLEAN /\ started \in BOOLEAN /\ ejected \in BOOLEAN
    /\ pressed \in BOOLEAN /\ edgeSeen \in BOOLEAN
    /\ generation \in Nat /\ installed \in Nat /\ activation \in Nat
    /\ leaked \subseteq Nat \ {0}
    /\ enabled \in BOOLEAN /\ suspended \in BOOLEAN
    /\ nextId \in Nat \ {0}
    /\ exchange \in [id : Nat, quiesced : BOOLEAN, replacement : BOOLEAN, goal : Goal]
    /\ active \in Nat /\ newest \in Nat
    /\ phase \in {"idle", "quiescing", "serving", "ending", "gone"}
    /\ answering \in [id : Nat, full : BOOLEAN]
    /\ bound \in BOOLEAN /\ configured \in BOOLEAN /\ link \in Nat
    /\ toWorker \in Seq(Records) /\ toSupervisor \in Seq(Records)
    /\ level \in BOOLEAN /\ edges \in BOOLEAN /\ budget \in 0..Budget

\* What the two ends promise each other about generations, and their state in it.
Offered == \E i \in 1..Len(toWorker) : toWorker[i].kind = "endpoints"
Generations == INSTANCE UsbGenerations WITH
    offered <- Offered, open <- installed, lost <- leaked, shown <- bound

\* A generation is opened once, before the host sees it, and is removed or replaced
\* only when the host no longer sees it and the worker has closed its descriptors,
\* or usb_init has forgotten them; there is one at a time. So it is however
\* configurations, rejections, ejections, the service's end and its failure cross
\* in the socket.
GenerationsRefined == Generations!Spec

\* Handles of a retired generation cannot transfer: what the worker's endpoints
\* hold is of the generation the supervisor has, also when QUIESCE, usb_init and a
\* replacement cross. Descriptors usb_init overwrites stay open, for nothing closes
\* them, but no endpoint has them again.
RetiredHandlesClosed == installed # 0 => installed = active /\ installed \notin leaked

\* What the host sees is the generation the worker configured, and while Core's
\* stack is started it is served: its descriptors are open, and once the bus
\* events on their way are handled the helpers run if, and only if, the host has
\* configured it. Core may stop its stack and leave the gadget bound.
BoundIsServed ==
    Alive /\ bound =>
        /\ generation = active
        /\ started => installed = active /\ (toWorker = <<>> => enabled = configured)

\* The gadget stays absent for the whole hold: from the end of the ejection to
\* the insertion there is no active generation, bound or not.
EjectedStaysAbsent ==
    ejected /\ exchange.goal = "none" /\ phase = "idle" /\ toSupervisor = <<>>
        => ~bound /\ active = 0

\* A bus event is for the generation and the activation the worker has when it
\* handles it, so the checks of handle_bus_event never end the process.
BusEventsCurrent ==
    wpc = "core" /\ toWorker # <<>> /\ Head(toWorker).kind \in BusKind
        => BusEventValid(Head(toWorker))

\* KEY3 converges to the physical level, whatever edges were queued on the way:
\* a started worker that is still alive ends ejected with the gadget gone while
\* the key is held, and inserted with the gadget bound when it is not.
Key3Converges ==
    <>[](Alive /\ started /\ phase \notin {"ending", "gone"} =>
            ejected = level /\ bound = ~level)

\* A KEY3 press keeps the worker and the firmware running: no bus event is
\* received in place of the answer to a Configure.
NoCrossedBusEvent ==
    wpc \in {"configuring", "unconfiguring"} /\ toWorker # <<>>
        => Head(toWorker).kind \notin BusKind

\* The endpoints that answer usb_start are expected, also while KEY3 is held.
EndpointsExpected ==
    wpc = "configuring" /\ toWorker # <<>> /\ Head(toWorker).kind = "endpoints"
        => exchange.quiesced

\* A rejected Configure leaves the active generation as it was: a gadget the host
\* sees is still served by a started stack.
RejectionKeepsService ==
    wpc \in {"configuring", "unconfiguring"} /\ toWorker # <<>> /\ IsRejection /\ bound
        => started
=============================================================================
