-------------------------- MODULE Safe3Facade_proofs --------------------------
(***************************************************************************)
(* Proofs about Safe3Facade, for any interfaces, tasks and parameters, and *)
(* any order of calls, failures and events.                                *)
(***************************************************************************)
EXTENDS Safe3Facade, TLAPS

\* The table is filled from the lowest number on. While Core may add and start, the
\* personality is the table's, or nothing was added since usb_init: the table keeps
\* what an earlier initialization added, and then the first interface is refused.
TableInv ==
    /\ \A i, j \in Iface : j < i /\ table[i] # "disabled" => table[j] # "disabled"
    /\ configuring => initialized
    /\ configuring => builder.types = table \/ builder.types = Nothing
    /\ configuring =>
           builder.compatible = \E i \in Iface : i = 0 /\ builder.types[i] = "webusb"

HandlesInv == InterfacesServed /\ (started => initialized)

ToldInv ==
    round \in {"poll", "park"} /\ initialized /\ (round = "poll" => probed) =>
        \A t \in awaiting : told[t] = found

FacadeInv == FacadeTypeOK /\ TableInv /\ HandlesInv /\ ToldInv

LEMMA FacadeInvInit == FacadeInit => FacadeInv
<1> SUFFICES ASSUME FacadeInit PROVE FacadeInv
    OBVIOUS
<1>1. FacadeTypeOK
    BY DEF FacadeInit, FacadeTypeOK, Nothing, NoPersonality, Personality
<1>2. TableInv /\ HandlesInv /\ ToldInv
    BY DEF FacadeInit, TableInv, HandlesInv, ToldInv, InterfacesServed, Nothing
<1> QED
    BY <1>1, <1>2 DEF FacadeInv

\* An interface is only added to a personality that is the table's.
LEMMA AddToTable ==
    ASSUME FacadeInv, NEW i \in Iface, Adding(i), table[i] = "disabled"
    PROVE  /\ builder.types = table
           /\ \A j \in Iface : table[j] # "disabled" <=> j < i
<1>1. configuring /\ \A j \in Iface : j < i => builder.types[j] # "disabled"
    BY DEF Adding
<1>2. \A j \in Iface : j \in Nat
    BY IfaceAssumption
<1>3. builder.types = table
    <2>1. CASE builder.types = Nothing
        <3>1. \A j \in Iface : ~(j < i)
            <4>1. \A j \in Iface : builder.types[j] = "disabled"
                BY <2>1 DEF Nothing
            <4> QED
                BY <1>1, <4>1
        <3>2. \A j \in Iface : table[j] = "disabled"
            <4> SUFFICES ASSUME NEW j \in Iface, table[j] # "disabled" PROVE FALSE
                OBVIOUS
            <4>1. i < j
                BY <1>2, <3>1
            <4> QED
                BY <4>1 DEF FacadeInv, TableInv
        <3> QED
            BY <2>1, <3>2 DEF Nothing, FacadeInv, FacadeTypeOK
    <2> QED
        BY <1>1, <2>1 DEF FacadeInv, TableInv
<1>4. \A j \in Iface : table[j] # "disabled" => j < i
    BY <1>2 DEF FacadeInv, TableInv
<1> QED
    BY <1>1, <1>3, <1>4

\* The handles usb_stop leaves: none.
LEMMA StoppedNone == FacadeInv => Stopped = {}
BY DEF FacadeInv, HandlesInv, InterfacesServed, Stopped, Used

LEMMA FacadeInvNext == FacadeInv /\ [FacadeNext]_facadeVars => FacadeInv'
<1> SUFFICES ASSUME FacadeInv, [FacadeNext]_facadeVars PROVE FacadeInv'
    OBVIOUS
<1> USE DEF FacadeInv
<1>1. ASSUME NEW ok \in BOOLEAN, UsbInit(ok) PROVE FacadeInv'
    <2>1. /\ round = "run" /\ ~initialized /\ initialized' = ok /\ configuring' = ok
          /\ builder' = NoPersonality /\ params' = "none"
          /\ UNCHANGED <<table, started, gadget, handles, enabled, told, awaiting, roundVars>>
        BY <1>1 DEF UsbInit, eventVars
    <2>2. FacadeTypeOK'
        BY <2>1 DEF FacadeTypeOK, roundVars, NoPersonality, Nothing, Personality
    <2>3. TableInv'
        BY <2>1 DEF TableInv, NoPersonality, Nothing
    <2>4. HandlesInv' /\ ToldInv'
        BY <2>1 DEF HandlesInv, ToldInv, InterfacesServed, Used, roundVars
    <2> QED
        BY <2>2, <2>3, <2>4
<1>2. ASSUME NEW i \in Iface, NEW type \in {"webusb", "hid"}, Add(i, type) PROVE FacadeInv'
    <2>1. /\ configuring /\ ~started /\ table[i] = "disabled" /\ Adding(i)
          /\ table' = [table EXCEPT ![i] = type]
          /\ builder' = [types |-> [builder.types EXCEPT ![i] = type],
                         compatible |-> builder.compatible \/ (type = "webusb" /\ i = 0)]
          /\ UNCHANGED <<stackVars, configuring, enabled, eventVars, roundVars>>
        BY <1>2 DEF Add, Adding
    <2>2. builder.types = table /\ \A j \in Iface : table[j] # "disabled" <=> j < i
        BY <2>1, AddToTable
    <2>3. FacadeTypeOK'
        BY <2>1 DEF FacadeTypeOK, stackVars, eventVars, roundVars, Personality
    <2>4. TableInv'
        <3>1. builder'.types = table' /\ table' \in [Iface -> {"disabled", "webusb", "hid"}]
            BY <2>1, <2>2, <2>3 DEF FacadeTypeOK
        <3>2. \A j \in Iface : table'[j] # "disabled" <=> j <= i
            <4> SUFFICES ASSUME NEW j \in Iface PROVE table'[j] # "disabled" <=> j <= i
                OBVIOUS
            <4>1. i \in Nat /\ j \in Nat
                BY IfaceAssumption
            <4>2. table'[j] = (IF j = i THEN type ELSE table[j])
                BY <2>1 DEF FacadeTypeOK
            <4>3. j = i \/ (table[j] # "disabled" <=> j < i)
                BY <2>2
            <4> QED
                BY <4>1, <4>2, <4>3
        <3>3. \A j, k \in Iface : k < j /\ table'[j] # "disabled" => table'[k] # "disabled"
            BY <3>2, IfaceAssumption
        <3>4. builder'.compatible = \E j \in Iface : j = 0 /\ builder'.types[j] = "webusb"
            BY <2>1, <2>2 DEF TableInv, FacadeTypeOK, Personality
        <3> QED
            BY <2>1, <3>1, <3>3, <3>4 DEF TableInv, stackVars
    <2>5. HandlesInv' /\ ToldInv'
        BY <2>1 DEF HandlesInv, ToldInv, InterfacesServed, stackVars, eventVars, roundVars
    <2> QED
        BY <2>3, <2>4, <2>5
<1>3. ASSUME NEW i \in Iface, NEW type \in {"webusb", "hid"}, AddFails(i, type) PROVE FacadeInv'
    <2>1. /\ builder' \in {builder, [builder EXCEPT !.types[i] = type]} /\ configuring' = FALSE
          /\ UNCHANGED <<stackVars, table, enabled, eventVars, roundVars>>
        BY <1>3 DEF AddFails
    <2>2. FacadeTypeOK'
        <3>1. builder' \in Personality
            <4>1. CASE builder' = builder
                BY <4>1 DEF FacadeTypeOK
            <4>2. CASE builder' = [builder EXCEPT !.types[i] = type]
                BY <4>2 DEF FacadeTypeOK, Personality
            <4> QED
                BY <2>1, <4>1, <4>2
        <3> QED
            BY <2>1, <3>1 DEF FacadeTypeOK, stackVars, eventVars, roundVars
    <2>3. TableInv' /\ HandlesInv' /\ ToldInv'
        BY <2>1 DEF TableInv, HandlesInv, ToldInv, InterfacesServed, Used, stackVars, eventVars, roundVars
    <2> QED
        BY <2>2, <2>3
<1>4. CASE UsbStop \/ UsbDeinit
    <2>1. /\ round = "run" /\ started' = FALSE /\ handles' = {} /\ enabled' \in BOOLEAN
          /\ \/ configuring' = configuring /\ builder' = builder /\ initialized' = initialized
             \/ configuring' = FALSE /\ builder' = NoPersonality /\ initialized' = FALSE
          /\ UNCHANGED <<params, gadget, table, told, awaiting, roundVars>>
        BY <1>4, StoppedNone DEF UsbStop, UsbDeinit, addVars, eventVars, FacadeTypeOK
    <2>2. FacadeTypeOK'
        <3>1. NoPersonality \in Personality
            BY DEF NoPersonality, Nothing, Personality
        <3>2. builder' \in Personality /\ configuring' \in BOOLEAN /\ initialized' \in BOOLEAN
            BY <2>1, <3>1 DEF FacadeTypeOK
        <3> QED
            BY <2>1, <3>2 DEF FacadeTypeOK, roundVars
    <2>3. TableInv'
        <3>1. CASE UNCHANGED <<initialized, configuring, builder, table>>
            BY <3>1 DEF TableInv
        <3>2. CASE configuring' = FALSE /\ UNCHANGED table
            BY <3>2 DEF TableInv
        <3> QED
            BY <2>1, <3>1, <3>2
    <2>4. HandlesInv' /\ ToldInv'
        BY <2>1 DEF HandlesInv, ToldInv, InterfacesServed, roundVars
    <2> QED
        BY <2>2, <2>3, <2>4
<1>5. ASSUME NEW p \in Params \cup {params}, StartFails(p) PROVE FacadeInv'
    <2>1. /\ round = "run" /\ started' = FALSE /\ handles' = {} /\ enabled' \in BOOLEAN /\ params' = p
          /\ UNCHANGED <<initialized, gadget, addVars, eventVars, roundVars>>
        BY <1>5, StoppedNone DEF StartFails, Starts, FacadeTypeOK
    <2>2. FacadeTypeOK'
        BY <2>1 DEF FacadeTypeOK, addVars, eventVars, roundVars
    <2>3. TableInv' /\ HandlesInv' /\ ToldInv'
        BY <2>1 DEF TableInv, HandlesInv, ToldInv, InterfacesServed, addVars, eventVars, roundVars
    <2> QED
        BY <2>2, <2>3
<1>6. ASSUME NEW p \in Params \cup {params}, UsbStart(p) PROVE FacadeInv'
    <2>1. /\ round = "run" /\ configuring /\ builder.types # Nothing /\ params' = p
          /\ gadget' = builder /\ enabled' = FALSE /\ started' = TRUE /\ handles' = Used
          /\ UNCHANGED <<initialized, addVars, eventVars, roundVars>>
        BY <1>6, StoppedNone DEF UsbStart, Starts
    <2>2. FacadeTypeOK'
        BY <2>1 DEF FacadeTypeOK, addVars, eventVars, roundVars, Used
    <2>3. TableInv' /\ ToldInv'
        BY <2>1 DEF TableInv, ToldInv, addVars, eventVars, roundVars
    <2>4. builder.types = table
        BY <2>1 DEF TableInv
    <2>5. gadget' = [types |-> table', compatible |-> \E i \in Iface : i = 0 /\ table'[i] = "webusb"]
        BY <2>1, <2>4 DEF TableInv, FacadeTypeOK, Personality, addVars
    <2>6. HandlesInv'
        BY <2>1, <2>5 DEF TableInv, HandlesInv, InterfacesServed, Used, addVars
    <2> QED
        BY <2>2, <2>3, <2>6
<1>7. ASSUME NEW t \in Task, TaskCreated(t) \/ UsbGetEvent(t) \/ Await(t) PROVE FacadeInv'
    <2>1. /\ round = "run" /\ told' \in [Task -> BOOLEAN] /\ awaiting' \subseteq Task
          /\ UNCHANGED <<stackVars, addVars, enabled, roundVars>>
        BY <1>7 DEF TaskCreated, UsbGetEvent, Await, FacadeTypeOK
    <2>2. FacadeTypeOK'
        BY <2>1 DEF FacadeTypeOK, stackVars, addVars, roundVars
    <2>3. TableInv' /\ HandlesInv' /\ ToldInv'
        BY <2>1 DEF TableInv, HandlesInv, ToldInv, InterfacesServed, Used, stackVars, addVars, roundVars
    <2> QED
        BY <2>2, <2>3
<1>8. CASE Events
    <2>1. UNCHANGED <<stackVars, addVars, told>>
        BY <1>8 DEF Events, RoundBegins, RoundEnds, ProbeUsb, ProbeIface, ParkEnds, eventVars
    <2>2. FacadeTypeOK'
        BY <1>8, <2>1 DEF Events, RoundBegins, RoundEnds, ProbeUsb, ProbeIface, ParkEnds, eventVars,
                          FacadeTypeOK, stackVars, addVars
    <2>3. TableInv' /\ HandlesInv'
        BY <2>1 DEF TableInv, HandlesInv, InterfacesServed, Used, stackVars, addVars
    <2>4. ToldInv'
        <3>1. CASE RoundBegins \/ RoundEnds
            BY <3>1 DEF RoundBegins, RoundEnds, ToldInv, stackVars, eventVars
        <3>2. ASSUME NEW now \in BOOLEAN, ProbeUsb(now) PROVE ToldInv'
            BY <3>2 DEF ProbeUsb, ToldInv, FacadeTypeOK
        <3>3. ASSUME NEW now \in BOOLEAN, NEW signals \in BOOLEAN, ProbeIface(now, signals)
              PROVE  ToldInv'
            BY <3>3 DEF ProbeIface, ToldInv, stackVars, eventVars
        <3>4. ASSUME NEW now \in BOOLEAN, ParkEnds(now) PROVE ToldInv'
            BY <3>4 DEF ParkEnds, ToldInv
        <3> QED
            BY <1>8, <3>1, <3>2, <3>3, <3>4 DEF Events
    <2> QED
        BY <2>2, <2>3, <2>4
<1>9. CASE UNCHANGED facadeVars
    <2>1. UNCHANGED <<stackVars, addVars, enabled, eventVars, roundVars>>
        BY <1>9 DEF facadeVars
    <2>2. FacadeTypeOK'
        BY <2>1 DEF FacadeTypeOK, stackVars, addVars, eventVars, roundVars
    <2>3. TableInv' /\ HandlesInv' /\ ToldInv'
        BY <2>1 DEF TableInv, HandlesInv, ToldInv, InterfacesServed, Used,
                    stackVars, addVars, eventVars, roundVars
    <2> QED
        BY <2>2, <2>3
<1> QED
    BY <1>1, <1>2, <1>3, <1>4, <1>5, <1>6, <1>7, <1>8, <1>9 DEF FacadeNext, TaskCalls

LEMMA FacadeInvariant == FacadeSpec => []FacadeInv
BY FacadeInvInit, FacadeInvNext, PTL DEF FacadeSpec

\* The state of the facade stays within its type.
THEOREM FacadeTypeCorrect == FacadeSpec => []FacadeTypeOK
<1>1. FacadeInv => FacadeTypeOK
    BY DEF FacadeInv
<1> QED
    BY FacadeInvariant, <1>1, PTL

\* The host's gadget describes the interfaces that have a handle, however many
\* there are and whatever failed before.
THEOREM GadgetIsServed == FacadeSpec => []InterfacesServed
<1>1. FacadeInv => InterfacesServed
    BY DEF FacadeInv, HandlesInv
<1> QED
    BY FacadeInvariant, <1>1, PTL

\* Core parks with every waiting task told what the USB handle's probe of the round
\* found; a change that an interface's probe finds after it waits for another round.
THEOREM TasksAreTold == FacadeSpec => []ToldBeforeParking
<1>1. FacadeInv => ToldBeforeParking
    BY DEF FacadeInv, ToldInv, ToldBeforeParking
<1> QED
    BY FacadeInvariant, <1>1, PTL
=============================================================================
