------------------------------ MODULE Safe3Facade ------------------------------
(***************************************************************************)
(* The USB interface that Safe 3's Core sees (usb_supervisor.c): the table *)
(* of interfaces, the personality that describes them to the supervisor,   *)
(* the handles registered with sysevents, and how a task learns that the   *)
(* host configured the device. What the exchanges with the supervisor do   *)
(* is Safe3Lifecycle's; here one is accepted or rejected.                  *)
(*                                                                         *)
(* The personality builder, syshandle (a handle is registered once) and    *)
(* sysevents are external. Core adds its interfaces, in their order, after *)
(* each usb_init, and deinitializes when one of them fails.                *)
(***************************************************************************)
EXTENDS Naturals

CONSTANTS
    Iface,    \* interface numbers, below MAX_INTERFACES
    Task,     \* the tasks of Core
    Params    \* what a usb_start sets: landing page and serial number

ASSUME IfaceAssumption == Iface \subseteq Nat

VARIABLES
    initialized, started,    \* fields of g_usb
    table,         \* g_usb.interfaces: the type of each
    params,        \* landing_page and the serial number of device
    builder,       \* g_usb.personality: what was added to it
    gadget,        \* what the supervisor last accepted
    handles,       \* the interfaces whose handle is registered
    configuring,   \* Core may add and start: no call failed since usb_init
    enabled,       \* g_usb.enabled
    told,          \* task_state: what each task was last told of it
    awaiting,      \* the tasks that wait for a change of it
    round,         \* "run" (a task), "poll" (a round of probes) or "park"
    probed,        \* the USB handle was probed in this round
    signalled,     \* a probe of this round signalled somebody
    found          \* history: what the USB handle's probe of this round found

stackVars == <<initialized, started, params, gadget, handles>>
addVars   == <<table, builder, configuring>>
eventVars == <<told, awaiting>>
roundVars == <<round, probed, signalled, found>>
facadeVars == <<stackVars, addVars, enabled, eventVars, roundVars>>

Nothing == [i \in Iface |-> "disabled"]
Personality == [types : [Iface -> {"disabled", "webusb", "hid"}], compatible : BOOLEAN]
NoPersonality == [types |-> Nothing, compatible |-> FALSE]
Used == {i \in Iface : table[i] # "disabled"}

FacadeInit ==
    /\ initialized = FALSE /\ started = FALSE /\ params = "none"
    /\ table = Nothing /\ builder = NoPersonality /\ gadget = NoPersonality
    /\ handles = {} /\ configuring = FALSE /\ enabled = FALSE
    /\ told = [t \in Task |-> FALSE] /\ awaiting = {}
    /\ round = "run" /\ probed = FALSE /\ signalled = FALSE /\ found = FALSE
-----------------------------------------------------------------------------
(* The calls a task makes.                                                 *)

\* A fresh personality, the device's own serial number and the handle of the
\* controller; the call fails without the first or the last.
UsbInit(ok) ==
    /\ round = "run" /\ ~initialized
    /\ initialized' = ok /\ configuring' = ok
    /\ builder' = NoPersonality /\ params' = "none"
    /\ UNCHANGED <<table, started, gadget, handles, enabled, eventVars, roundVars>>

Adding(i) ==
    /\ round = "run" /\ configuring /\ ~started
    /\ \A j \in Iface : j < i => builder.types[j] # "disabled"

\* usb_webusb_add and usb_hid_add of a free number. Interface 0 is also declared
\* WinUSB compatible when it is for WebUSB.
Add(i, type) ==
    /\ Adding(i) /\ table[i] = "disabled"
    /\ table' = [table EXCEPT ![i] = type]
    /\ builder' = [types |-> [builder.types EXCEPT ![i] = type],
                   compatible |-> builder.compatible \/ (type = "webusb" /\ i = 0)]
    /\ UNCHANGED <<stackVars, configuring, enabled, eventVars, roundVars>>

\* Mutant of AddFails: the result of the builder is not looked at.
AddFails_Unnoticed(i, type) ==
    /\ Adding(i)
    /\ table' = [table EXCEPT ![i] = type]
    /\ UNCHANGED <<stackVars, builder, configuring, enabled, eventVars, roundVars>>

\* A number in use (the table survives usb_deinit), usb_vcp_add, or a failure of
\* the builder, which for interface 0 may come after it took the interface.
AddFails(i, type) ==
    /\ Adding(i)
    /\ \/ UNCHANGED builder
       \/ /\ table[i] = "disabled" /\ type = "webusb" /\ i = 0
          /\ builder' = [builder EXCEPT !.types[i] = type]
    /\ configuring' = FALSE
    /\ UNCHANGED <<stackVars, table, enabled, eventVars, roundVars>>

\* Mutant of Stopped: the interfaces keep their handles.
Stopped_KeepsHandles == handles

\* The handles that usb_stop leaves.
Stopped == IF started THEN handles \ Used ELSE handles

UsbStop ==
    /\ round = "run" /\ started
    /\ started' = FALSE /\ enabled' = FALSE /\ handles' = Stopped
    /\ UNCHANGED <<initialized, params, gadget, addVars, eventVars, roundVars>>

UsbDeinit ==
    /\ round = "run" /\ initialized
    /\ initialized' = FALSE /\ configuring' = FALSE
    /\ started' = FALSE /\ enabled' = (enabled /\ ~started) /\ handles' = Stopped
    /\ builder' = NoPersonality
    /\ UNCHANGED <<params, gadget, table, eventVars, roundVars>>

\* Core starts once it added interfaces. A started stack is left alone unless the
\* parameters change, which stops it.
Starts(p) ==
    /\ round = "run" /\ configuring /\ builder.types # Nothing
    /\ started => p # params
    /\ params' = p

\* The personality is not completed, or the supervisor rejects it.
StartFails(p) ==
    /\ Starts(p)
    /\ started' = FALSE /\ enabled' = (enabled /\ ~started) /\ handles' = Stopped
    /\ UNCHANGED <<initialized, gadget, addVars, eventVars, roundVars>>

\* The gadget is replaced, then the handles are registered in order. One that is
\* registered already ends the call, which takes nothing back.
UsbStart(p) ==
    LET taken == Used \cap Stopped
    IN  /\ Starts(p)
        /\ gadget' = builder /\ enabled' = FALSE
        /\ started' = (taken = {})
        /\ handles' = Stopped \cup {i \in Used : \A j \in taken : i < j}
        /\ UNCHANGED <<initialized, addVars, eventVars, roundVars>>

\* on_task_created.
TaskCreated(t) ==
    /\ round = "run" /\ initialized
    /\ told' = [told EXCEPT ![t] = FALSE] /\ awaiting' = awaiting \ {t}
    /\ UNCHANGED <<stackVars, addVars, enabled, roundVars>>

\* The event is computed from the two levels, whatever happened in between.
UsbGetEvent(t) ==
    /\ round = "run" /\ initialized /\ t \notin awaiting
    /\ told' = [told EXCEPT ![t] = enabled]
    /\ UNCHANGED <<stackVars, addVars, enabled, awaiting, roundVars>>
-----------------------------------------------------------------------------
(* The events.                                                             *)

\* A task waits for the USB handle; then every task is blocked.
Await(t) ==
    /\ round = "run" /\ initialized
    /\ awaiting' = awaiting \cup {t}
    /\ UNCHANGED <<stackVars, addVars, enabled, told, roundVars>>

RoundBegins ==
    /\ round = "run" /\ round' = "poll"
    /\ probed' = FALSE /\ signalled' = FALSE /\ found' = FALSE
    /\ UNCHANGED <<stackVars, addVars, enabled, eventVars>>

\* What service_controller may do to `enabled`: a bus event of the gadget, or a
\* generation that KEY3 or the supervisor retires.
Serviced(now) == now => enabled \/ gadget # NoPersonality

\* Mutant of ProbeUsb: the tasks are signalled before the controller is serviced.
ProbeUsb_SignalsFirst(now) ==
    LET changed == {t \in awaiting : told[t] # enabled}
    IN  /\ round = "poll" /\ ~probed /\ initialized /\ Serviced(now)
        /\ enabled' = now /\ probed' = TRUE /\ found' = now
        /\ awaiting' = awaiting \ changed
        /\ signalled' = (signalled \/ changed # {})
        /\ UNCHANGED <<stackVars, addVars, told, round>>

\* usb_event_poll: service the controller, then signal the state, which wakes
\* the tasks that were told another one (usb_state_changed).
ProbeUsb(now) ==
    LET changed == {t \in awaiting : told[t] # now}
    IN  /\ round = "poll" /\ ~probed /\ initialized /\ Serviced(now)
        /\ enabled' = now /\ probed' = TRUE /\ found' = now
        /\ awaiting' = awaiting \ changed
        /\ signalled' = (signalled \/ changed # {})
        /\ UNCHANGED <<stackVars, addVars, told, round>>

\* iface_event_poll of an interface services the controller as well, and may
\* signal a task that waits for the interface.
ProbeIface(now, signals) ==
    /\ round = "poll" /\ handles # {} /\ Serviced(now)
    /\ enabled' = now
    /\ signalled' = (signalled \/ signals)
    /\ UNCHANGED <<stackVars, addVars, eventVars, round, probed, found>>

\* When nobody was signalled, the virtual wait.
RoundEnds ==
    /\ round = "poll" /\ (initialized => probed)
    /\ round' = (IF signalled THEN "run" ELSE "park")
    /\ UNCHANGED <<stackVars, addVars, enabled, eventVars, probed, signalled, found>>

\* The wait services the controller and returns to another round; a timeout of
\* Core returns to a task.
ParkEnds(now) ==
    /\ round = "park" /\ Serviced(now)
    /\ enabled' = now /\ round' = "run"
    /\ UNCHANGED <<stackVars, addVars, eventVars, probed, signalled, found>>

TaskCalls ==
    \/ \E ok \in BOOLEAN : UsbInit(ok)
    \/ \E i \in Iface, type \in {"webusb", "hid"} : Add(i, type) \/ AddFails(i, type)
    \/ UsbStop \/ UsbDeinit
    \/ \E p \in Params \cup {params} : StartFails(p) \/ UsbStart(p)
    \/ \E t \in Task : TaskCreated(t) \/ UsbGetEvent(t) \/ Await(t)

Events ==
    \/ RoundBegins \/ RoundEnds
    \/ \E now, signals \in BOOLEAN : ProbeUsb(now) \/ ProbeIface(now, signals) \/ ParkEnds(now)

FacadeNext == TaskCalls \/ Events

FacadeSpec == FacadeInit /\ [][FacadeNext]_facadeVars
-----------------------------------------------------------------------------
(* Properties.                                                             *)

\* Every variable stays within the values its C counterpart can have.
FacadeTypeOK ==
    /\ {initialized, started, configuring, enabled} \subseteq BOOLEAN
    /\ table \in [Iface -> {"disabled", "webusb", "hid"}] /\ params \in Params \cup {"none"}
    /\ builder \in Personality /\ gadget \in Personality
    /\ handles \subseteq Iface
    /\ told \in [Task -> BOOLEAN] /\ awaiting \subseteq Task
    /\ round \in {"run", "poll", "park"} /\ {probed, signalled, found} \subseteq BOOLEAN

\* docs/trezor-safe3.md: the gadget the host sees describes exactly the
\* interfaces whose handles Core can use, the vendor interface with its WINUSB
\* identifier, through failed calls, restarts with new parameters and repeated
\* initializations; and an interface has a handle only while the stack is
\* started, so usb_start, which cannot take a gadget back, never finds one taken.
InterfacesServed ==
    /\ handles = (IF started THEN Used ELSE {})
    /\ started => gadget = [types |-> table,
                            compatible |-> \E i \in Iface : i = 0 /\ table[i] = "webusb"]

\* When Core parks, every task that waits for the USB state was told the one that
\* the USB handle's probe of the round found: servicing the controller comes before
\* the comparison, and a task is never left behind by the round that finds a change.
\* This is all the code promises. The probe of an interface later in the round
\* services the controller too, and a change it finds is not signalled: Core then
\* parks with tasks told the old state, until a round after the park finds it.
ToldBeforeParking ==
    round = "park" /\ initialized => \A t \in awaiting : told[t] = found
=============================================================================
