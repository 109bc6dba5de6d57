------------------------- MODULE Safe3Lifecycle_proofs -------------------------
(***************************************************************************)
(* Proofs about Safe3Lifecycle, for any number of KEY3 transitions, calls  *)
(* of Core, rejections, enumerations and queued bus events.                *)
(***************************************************************************)
EXTENDS Safe3Lifecycle, TLAPS

InExchange == wpc \in {"configuring", "unconfiguring"}

\* What Core called, and what the worker's flags follow from.
FlagsInv ==
    /\ started \/ wpc = "configuring" => initialized
    /\ started \/ ejected => generation # 0
    /\ wpc = "unconfiguring" => started

\* The records to the worker. A QUIESCE and the endpoints are always the last: the
\* supervisor awaits the answer.
ToWorkerInv ==
    \A i \in 1..Len(toWorker) : LET r == toWorker[i] IN
        /\ r.kind \in BusKind \cup {"quiesce", "endpoints", "rejected"}
        /\ r.kind \in BusKind => r.gen = generation
        /\ r.kind \in {"quiesce", "endpoints"} => i = Len(toWorker)
        /\ r.kind = "endpoints" =>
               /\ phase \in {"serving", "gone"} /\ installed = 0
               /\ r.gen = active /\ active # 0 /\ active \notin leaked
        /\ r.kind = "quiesce" =>
               IF r.id = 0 THEN phase \in {"ending", "gone"}
               ELSE phase \in {"quiescing", "gone"} /\ r.id = answering.id /\ ~ejected

\* The records to the supervisor. There is one answer at a time, and nothing behind
\* the record it answers; the descriptors are as the answer says.
Answer == {"quiesced", "serving"}
ToSupervisorInv ==
    \A i \in 1..Len(toSupervisor) : LET r == toSupervisor[i] IN
        /\ r.kind \in Answer \cup {"configure"}
        /\ r.kind = "configure" =>
               /\ 0 < r.id /\ r.id < nextId
               /\ InExchange /\ r.id = exchange.id => r.full = (wpc = "configuring")
        /\ r.kind = "serving" =>
               /\ phase \in {"serving", "gone"} /\ ~ejected
               /\ Alive => generation = active /\ active # 0 /\ active \in {installed} \cup leaked
               /\ Alive /\ started => installed = active
        /\ r.kind = "quiesced" => phase \in {"quiescing", "ending", "gone"} /\ installed = 0
        /\ r.kind \in Answer =>
               /\ toWorker = <<>>
               /\ \A j \in 1..Len(toSupervisor) : toSupervisor[j].kind \in Answer => j = i

\* What the supervisor waits for, and the identifiers of the exchange.
PhaseInv ==
    /\ bound => phase = "idle" /\ active # 0
    /\ configured => bound
    /\ answering.id < nextId
    /\ InExchange => 0 < exchange.id /\ exchange.id < nextId
    /\ phase = "quiescing" /\ InExchange /\ answering.id = exchange.id =>
           answering.full = (wpc = "configuring")

\* While ejected there is no generation, unless usb_start asked for one that the
\* worker will not accept.
EjectedInv ==
    ejected =>
        /\ phase = "idle" => active = 0
        /\ phase = "quiescing" => ~answering.full
        /\ wpc = "configuring" /\ exchange.goal # "insert" =>
               exchange.replacement /\ ~exchange.quiesced

\* The activations of the bus events: f[i] is the worker's after the i-th record. A
\* suspend or resume is of the one before it; the last is the supervisor's.
Follows(f, q, first) ==
    /\ f[0] = first
    /\ \A i \in 1..Len(q) :
          /\ f[i] = (IF q[i].kind \in BusKind THEN q[i].act ELSE f[i - 1])
          /\ q[i].kind \in {"suspend", "resume"} => q[i].act = f[i - 1]
ChainInv ==
    Alive => \E f \in [0..Len(toWorker) -> Nat] :
                 Follows(f, toWorker, activation) /\ (bound => f[Len(toWorker)] = link)

\* The host sees the worker's generation. While the stack is started the helpers run
\* as the host last configured it: as the last bus event on its way says, or as they
\* do when there is none.
BoundInv == Alive /\ bound => generation = active
Toggle == {"bind", "enable", "disable"}
NoneAfter(i) == \A j \in 1..Len(toWorker) : j > i => toWorker[j].kind \notin Toggle
Following ==
    /\ (\A i \in 1..Len(toWorker) : toWorker[i].kind \notin Toggle) => enabled = configured
    /\ \A i \in 1..Len(toWorker) :
          toWorker[i].kind \in Toggle /\ NoneAfter(i) => configured = (toWorker[i].kind = "enable")
ServedInv == Alive /\ bound /\ started => installed = active /\ Following

\* What usb_init forgot is of a generation there was.
LeakedInv == active <= newest /\ \A gen \in leaked : gen <= newest

Protocol ==
    /\ FlagsInv /\ ToWorkerInv /\ ToSupervisorInv /\ PhaseInv /\ EjectedInv /\ ChainInv
    /\ RetiredHandlesClosed /\ BoundInv
IInv == TypeOK /\ Protocol /\ ServedInv /\ LeakedInv

Step == [Next \/ Terminated]_vars
-----------------------------------------------------------------------------
(* Records and the socket.                                                 *)

LEMMA Taken ==
    ASSUME NEW q \in Seq(Records), q # <<>>
    PROVE  /\ Tail(q) \in Seq(Records) /\ Head(q) = q[1] /\ q[1] \in Records
           /\ Len(q) \in Nat \ {0} /\ Len(Tail(q)) = Len(q) - 1
           /\ \A i \in 1..Len(Tail(q)) : Tail(q)[i] = q[i + 1] /\ i + 1 \in 1..Len(q)
           /\ Len(q) = 1 => Tail(q) = <<>>
<1>1. /\ Tail(q) \in Seq(Records) /\ Head(q) = q[1] /\ q[1] \in Records
      /\ Len(q) \in Nat \ {0} /\ Len(Tail(q)) = Len(q) - 1
      /\ \A i \in 1..Len(Tail(q)) : Tail(q)[i] = q[i + 1] /\ i + 1 \in 1..Len(q)
    OBVIOUS
<1>2. ASSUME NEW t \in Seq(Records), Len(t) = 0 PROVE t = <<>>
    BY <1>2
<1> QED
    BY <1>1, <1>2

LEMMA Sent ==
    ASSUME NEW q \in Seq(Records), NEW r \in Records
    PROVE  /\ Append(q, r) \in Seq(Records) /\ q \o <<r>> = Append(q, r)
           /\ Len(q) \in Nat /\ Len(Append(q, r)) = Len(q) + 1
           /\ \A i \in 1..Len(q) : Append(q, r)[i] = q[i]
           /\ Append(q, r)[Len(q) + 1] = r
OBVIOUS

LEMMA RecordFields ==
    ASSUME NEW kind \in RecordKind, NEW gen \in Nat, NEW id \in Nat
    PROVE  /\ Record(kind, gen, id) \in Records
           /\ Record(kind, gen, id).kind = kind /\ Record(kind, gen, id).gen = gen
           /\ Record(kind, gen, id).id = id
BY DEF Record, Records

LEMMA ConfigureFields ==
    ASSUME TypeOK, NEW full \in BOOLEAN
    PROVE  LET r == Configure(nextId, full)
           IN  /\ r \in Records /\ r.kind = "configure" /\ r.id = nextId /\ r.full = full
BY DEF Configure, Record, Records, RecordKind, TypeOK

LEMMA BusRecordFields ==
    ASSUME TypeOK, NEW kind \in BusKind, NEW act \in Nat
    PROVE  LET r == BusRecord(kind, act)
           IN  /\ r \in Records /\ r.kind = kind /\ r.gen = active /\ r.act = act
BY DEF BusRecord, Record, Records, RecordKind, TypeOK
-----------------------------------------------------------------------------
(* Types.                                                                  *)

LEMMA NoExchangeTyped == NoExchange \in [id : Nat, quiesced : BOOLEAN, replacement : BOOLEAN, goal : Goal]
BY DEF NoExchange, Goal

LEMMA InitTyped == ASSUME Init PROVE TypeOK
<1>1. <<>> \in Seq(Records) /\ Budget \in 0..Budget
    BY BudgetAssumption
<1>2. /\ initialized \in BOOLEAN /\ started \in BOOLEAN /\ ejected \in BOOLEAN
      /\ pressed \in BOOLEAN /\ edgeSeen \in BOOLEAN /\ edges \in BOOLEAN /\ level \in BOOLEAN
      /\ enabled \in BOOLEAN /\ suspended \in BOOLEAN /\ bound \in BOOLEAN /\ configured \in BOOLEAN
    BY Zenon DEF Init
<1> QED
    BY <1>1, <1>2, NoExchangeTyped DEF Init, TypeOK

LEMMA UnbindTyped ==
    ASSUME Unbind PROVE bound' \in BOOLEAN /\ configured' \in BOOLEAN /\ link' = link
BY Zenon DEF Unbind

\* The records that are sent have the fields of one.
LEMMA SendTyped ==
    ASSUME TypeOK, NEW kind \in RecordKind, NEW gen \in Nat, NEW id \in Nat,
           Send(Record(kind, gen, id))
    PROVE  toSupervisor' \in Seq(Records)
BY Sent, RecordFields DEF Send, TypeOK

LEMMA TellTyped ==
    ASSUME TypeOK, NEW r \in Records, Tell(<<r>>)
    PROVE  toWorker' \in Seq(Records)
BY Sent DEF Tell, TypeOK

LEMMA CloseTyped ==
    ASSUME TypeOK, NEW id \in Nat, CloseAndAnswer(id)
    PROVE  /\ enabled' \in BOOLEAN /\ installed' \in Nat /\ UNCHANGED leaked
           /\ toSupervisor' \in Seq(Records)
<1>1. "quiesced" \in RecordKind
    BY DEF RecordKind
<1> QED
    BY <1>1, SendTyped DEF CloseAndAnswer, TypeOK

LEMMA EndTyped ==
    ASSUME TypeOK, NEW how \in Ended, WorkerEnds(how)
    PROVE  TypeOK' <=> /\ active' \in Nat /\ newest' \in Nat
                       /\ phase' \in {"idle", "quiescing", "serving", "ending", "gone"}
                       /\ answering' \in [id : Nat, full : BOOLEAN]
                       /\ bound' \in BOOLEAN /\ configured' \in BOOLEAN /\ link' \in Nat
                       /\ toWorker' \in Seq(Records) /\ toSupervisor' \in Seq(Records)
                       /\ level' \in BOOLEAN /\ edges' \in BOOLEAN /\ budget' \in 0..Budget
BY NoExchangeTyped DEF WorkerEnds, TypeOK, Ended, flags, key3

BeginTypes ==
    /\ toSupervisor' \in Seq(Records) /\ nextId' \in Nat \ {0}
    /\ exchange' \in [id : Nat, quiesced : BOOLEAN, replacement : BOOLEAN, goal : Goal]
    /\ wpc' \in {"configuring", "unconfiguring"}
LEMMA BeginTyped ==
    ASSUME TypeOK, NEW full \in BOOLEAN, NEW replacement \in BOOLEAN, NEW goal \in Goal,
           BeginExchange(full, replacement, goal)
    PROVE  BeginTypes
<1>1. toSupervisor' \in Seq(Records)
    BY ConfigureFields, Sent DEF BeginExchange, Send, TypeOK
<1> QED
    BY <1>1 DEF BeginExchange, TypeOK, BeginTypes

LEMMA PassTyped ==
    ASSUME TypeOK,
           PassWithoutRecord \/ PassWithRecord \/ NoEdge \/ DrainEdges \/ SampleLevel \/ PassEnds
    PROVE  TypeOK'
<1> USE DEF TypeOK
<1>1. CASE PassWithoutRecord
    BY <1>1 DEF PassWithoutRecord, Poll, flags, usb, supervisor, udc, button
<1>2. CASE NoEdge \/ DrainEdges \/ SampleLevel \/ PassEnds
  <2>1. pressed' \in BOOLEAN /\ edgeSeen' \in BOOLEAN /\ edges' \in BOOLEAN
      BY <1>2, Zenon DEF NoEdge, DrainEdges, SampleLevel, PassEnds, key3, button
  <2>2. UNCHANGED <<flags, usb, nextId, exchange, supervisor, toWorker, toSupervisor, level, budget>>
      BY <1>2, Zenon DEF NoEdge, DrainEdges, SampleLevel, PassEnds, button
  <2>3. wpc' \in {"core", "sample", "key3"}
      BY <1>2 DEF NoEdge, DrainEdges, SampleLevel, PassEnds
  <2> QED
      BY <2>1, <2>2, <2>3 DEF flags, usb, supervisor, udc
<1>3. CASE PassWithRecord
  <2> DEFINE r == Head(toWorker)
  <2>1. toWorker \in Seq(Records) /\ toWorker # <<>> /\ toWorker' = Tail(toWorker)
      BY <1>3 DEF PassWithRecord
  <2>2. r \in Records /\ toWorker' \in Seq(Records)
      BY <2>1, Taken
  <2>3. r.gen \in Nat /\ r.id \in Nat /\ r.act \in Nat
      BY <2>2 DEF Records
  <2> HIDE DEF r
  <2>4. UNCHANGED <<supervisor, button, budget>>
      BY <1>3 DEF PassWithRecord
  <2>5. CASE HandleBusEvent(r) /\ wpc' = "refresh" /\ Poll /\ UNCHANGED <<flags, pressed, nextId, exchange>>
      BY <2>2, <2>3, <2>4, <2>5 DEF HandleBusEvent, Poll, flags, supervisor, udc, button
  <2>6. CASE /\ CloseAndAnswer(r.id)
             /\ wpc' = "refresh" /\ Poll
             /\ UNCHANGED <<flags, pressed, generation, suspended, activation, nextId, exchange>>
    <3>1. /\ enabled' \in BOOLEAN /\ installed' \in Nat /\ UNCHANGED leaked
          /\ toSupervisor' \in Seq(Records)
        BY <2>3, <2>6, CloseTyped
    <3> QED
        BY <2>2, <2>4, <2>6, <3>1 DEF Poll, flags, supervisor, udc, button
  <2>7. CASE Send(Record("quiesced", generation, 0)) /\ WorkerEnds("exited")
    <3>1. toSupervisor' \in Seq(Records)
        BY <2>7, SendTyped DEF RecordKind
    <3> QED
        BY <2>2, <2>4, <2>7, <3>1, EndTyped DEF Ended, supervisor, udc, button
  <2>8. CASE WorkerEnds("dead") /\ UNCHANGED toSupervisor
      BY <2>2, <2>4, <2>8, EndTyped DEF Ended, supervisor, udc, button
  <2> QED
      BY <1>3, <2>5, <2>6, <2>7, <2>8 DEF PassWithRecord, r
<1> QED
    BY <1>1, <1>2, <1>3

LEMMA ExchangeTyped ==
    ASSUME TypeOK,
           Eject \/ Insert \/ Rejected \/ Quiesced \/ Installed \/ Unexpected \/ ConnectionLost
    PROVE  TypeOK'
<1> USE DEF TypeOK
<1>1. CASE Eject
  <2>1. BeginExchange(FALSE, TRUE, "none") /\ "none" \in Goal
      BY <1>1 DEF Eject, Goal
  <2>2. BeginTypes
      BY <2>1, BeginTyped, Zenon
  <2> QED
      BY <1>1, <2>2 DEF BeginTypes, Eject, flags, key3, usb, supervisor, udc, button
<1>2. CASE Insert
  <2>1. BeginExchange(TRUE, FALSE, "insert") /\ "insert" \in Goal
      BY <1>2 DEF Insert, Goal
  <2>2. BeginTypes
      BY <2>1, BeginTyped, Zenon
  <2> QED
      BY <1>2, <2>2 DEF BeginTypes, Insert, flags, key3, usb, supervisor, udc, button
<1>3. CASE ConnectionLost
  <2> PICK how \in Ended : WorkerEnds(how)
      BY <1>3 DEF ConnectionLost
  <2> QED
      BY <1>3, EndTyped DEF ConnectionLost, supervisor, udc, button
<1>4. CASE Rejected \/ Quiesced \/ Installed \/ Unexpected
  <2>1. Receives
      BY <1>4 DEF Rejected, Quiesced, Installed, Unexpected
  <2>2. toWorker' \in Seq(Records) /\ Head(toWorker) \in Records
      BY <2>1, Taken DEF Receives
  <2>3. CASE Unexpected
      BY <2>2, <2>3, EndTyped DEF Unexpected, Ended, supervisor, udc, button
  <2>4. CASE Rejected
    <3>1. CASE WorkerEnds("dead")
        BY <2>2, <2>4, <3>1, EndTyped DEF Rejected, Ended, supervisor, udc, button
    <3>2. CASE wpc' = "core" /\ exchange' = NoExchange /\ UNCHANGED <<flags, key3, usb, nextId>>
        BY <2>2, <2>4, <3>2, NoExchangeTyped DEF Rejected, flags, key3, usb, supervisor, udc, button
    <3> QED
        BY <2>4, <3>1, <3>2 DEF Rejected
  <2>5. CASE Quiesced
    <3>1. /\ enabled' \in BOOLEAN /\ installed' \in Nat /\ UNCHANGED leaked
          /\ toSupervisor' \in Seq(Records)
        BY <2>5, CloseTyped DEF Quiesced
    <3>2. ejected' \in BOOLEAN
        BY <2>5, Zenon DEF Quiesced
    <3>3. /\ exchange' \in [id : Nat, quiesced : BOOLEAN, replacement : BOOLEAN, goal : Goal]
          /\ wpc' = wpc \/ wpc' = "core"
        BY <2>5, NoExchangeTyped DEF Quiesced
    <3> QED
        BY <2>2, <2>5, <3>1, <3>2, <3>3 DEF Quiesced, key3, supervisor, udc, button
  <2>6. CASE Installed
    <3>1. Head(toWorker).gen \in Nat
        BY <2>2 DEF Records
    <3>2. toSupervisor' \in Seq(Records)
        BY <2>6, <3>1, SendTyped DEF Installed, RecordKind
    <3>3. started' \in BOOLEAN /\ ejected' \in BOOLEAN /\ enabled' \in BOOLEAN
        BY <2>6, Zenon DEF Installed
    <3> QED
        BY <2>2, <2>6, <3>1, <3>2, <3>3, NoExchangeTyped DEF Installed, key3, supervisor, udc, button
  <2> QED
      BY <1>4, <2>3, <2>4, <2>5, <2>6
<1> QED
    BY <1>1, <1>2, <1>3, <1>4

LEMMA CallTyped == ASSUME TypeOK, CoreCalls PROVE TypeOK'
<1> USE BudgetAssumption DEF TypeOK, Spend
<1>1. CASE UsbInit
  <2>1. toSupervisor' \in Seq(Records)
      BY <1>1, ConfigureFields, Sent DEF UsbInit, Send
  <2>2. initialized' \in BOOLEAN
      BY <1>1, Zenon DEF UsbInit
  <2> QED
      BY <1>1, <2>1, <2>2 DEF UsbInit, key3, supervisor, udc, button
<1>2. CASE UsbStart
  <2>1. BeginExchange(TRUE, generation # 0, "start") /\ "start" \in Goal
      BY <1>2 DEF UsbStart, Goal
  <2>2. BeginTypes
      BY <2>1, BeginTyped, Zenon
  <2>3. started' \in BOOLEAN /\ enabled' \in BOOLEAN
      BY <1>2, Zenon DEF UsbStart
  <2> QED
      BY <1>2, <2>2, <2>3 DEF BeginTypes, UsbStart, key3, supervisor, udc, button
<1>3. CASE \E deinit \in BOOLEAN : UsbStop(deinit)
  <2>1. initialized' \in BOOLEAN /\ started' \in BOOLEAN /\ enabled' \in BOOLEAN
      BY <1>3, Zenon DEF UsbStop
  <2> QED
      BY <1>3, <2>1 DEF UsbStop, key3, supervisor, udc, button
<1> QED
    BY <1>1, <1>2, <1>3 DEF CoreCalls

LEMMA CreateTyped ==
    ASSUME TypeOK, NEW id \in Nat, Create(id)
    PROVE  newest' \in Nat /\ active' \in Nat /\ phase' = "serving" /\ toWorker' \in Seq(Records)
<1>1. "endpoints" \in RecordKind /\ newest + 1 \in Nat
    BY DEF RecordKind, TypeOK
<1>2. Record("endpoints", newest + 1, id) \in Records
    BY <1>1, RecordFields
<1> QED
    BY <1>1, <1>2, TellTyped DEF Create

LEMMA SupervisorTyped ==
    ASSUME TypeOK,
           \/ SupervisorAnswers \/ Shutdown \/ SupervisorFails \/ Key3Moves
           \/ \E kind \in BusKind \ {"bind"} : HostEvent(kind)
    PROVE  TypeOK'
<1> USE BudgetAssumption DEF TypeOK, Spend
<1> DEFINE r == Head(toSupervisor)
<1>1. ASSUME TakeConfigure \/ Replace \/ Bind
      PROVE  toSupervisor' \in Seq(Records) /\ r.gen \in Nat /\ r.id \in Nat /\ r.full \in BOOLEAN
  <2>1. toSupervisor # <<>> /\ toSupervisor' = Tail(toSupervisor)
      BY <1>1 DEF TakeConfigure, Replace, Bind
  <2>2. r \in Records
      BY <2>1, Taken
  <2> QED
      BY <2>1, <2>2, Taken DEF Records
<1> HIDE DEF r
<1>2. CASE Reject
  <2>1. Record("rejected", r.gen, r.id) \in Records
      BY <1>1, <1>2, RecordFields DEF Reject, RecordKind
  <2> QED
      BY <1>1, <1>2, <2>1, TellTyped
      DEF Reject, r, worker, flags, key3, usb, supervisor, udc, button
<1>3. CASE Retire
  <2>1. Record("quiesce", active, r.id) \in Records
      BY <1>1, <1>3, RecordFields DEF Retire, RecordKind
  <2> QED
      BY <1>1, <1>3, <2>1, TellTyped, UnbindTyped DEF Retire, r, worker, flags, key3, usb, button
<1>4. CASE Publish
    BY <1>1, <1>4, CreateTyped DEF Publish, r, worker, flags, key3, usb, udc, button
<1>5. CASE Replace
    BY <1>1, <1>5, CreateTyped DEF Replace, worker, flags, key3, usb, udc, button
<1>6. CASE Bind
  <2>1. BusRecord("bind", link) \in Records
      BY BusRecordFields DEF BusKind
  <2>2. bound' \in BOOLEAN /\ configured' \in BOOLEAN
      BY <1>6, Zenon DEF Bind
  <2> QED
      BY <1>1, <1>6, <2>1, <2>2, TellTyped DEF Bind, worker, flags, key3, usb, button
<1>7. CASE Shutdown
  <2>1. Record("quiesce", newest, 0) \in Records
      BY RecordFields DEF RecordKind
  <2> QED
      BY <1>7, <2>1, TellTyped, UnbindTyped DEF Shutdown, worker, flags, key3, usb, button
<1>8. CASE SupervisorFails \/ Overtaken \/ Key3Moves
  <2>1. CASE SupervisorFails
      BY <2>1, UnbindTyped DEF SupervisorFails, worker, flags, key3, usb, button
  <2>2. CASE Overtaken
      BY <2>2, UnbindTyped DEF Overtaken, worker, flags, key3, usb, button
  <2>3. CASE Key3Moves
    <3>1. level' \in BOOLEAN /\ edges' \in BOOLEAN
        BY <2>3, Zenon DEF Key3Moves
    <3> QED
        BY <2>3, <3>1 DEF Key3Moves, worker, flags, key3, usb, supervisor, udc
  <2> QED
      BY <1>8, <2>1, <2>2, <2>3
<1>9. CASE \E kind \in BusKind \ {"bind"} : HostEvent(kind)
  <2> PICK kind \in BusKind \ {"bind"} : HostEvent(kind)
      BY <1>9
  <2>1. link' \in Nat /\ configured' \in BOOLEAN /\ budget' \in 0..Budget
    <3>1. configured' \in BOOLEAN
        BY Zenon DEF HostEvent
    <3> QED
        BY <3>1 DEF HostEvent
  <2>2. BusRecord(kind, link') \in Records
      BY <2>1, BusRecordFields
  <2> QED
      BY <2>1, <2>2, TellTyped DEF HostEvent, worker, flags, key3, usb, button
<1> QED
    BY <1>2, <1>3, <1>4, <1>5, <1>6, <1>7, <1>8, <1>9 DEF SupervisorAnswers

LEMMA TypeKept == TypeOK /\ Step => TypeOK'
<1> SUFFICES ASSUME TypeOK, Step PROVE TypeOK'
    OBVIOUS
<1>1. CASE UNCHANGED vars
    BY <1>1 DEF TypeOK, vars, worker, flags, key3, usb, supervisor, udc, button
<1> QED
    BY <1>1, PassTyped, ExchangeTyped, CallTyped, SupervisorTyped
    DEF Step, Next, Terminated, WorkerServes

\* Every variable stays within the values its C counterpart can have, over any
\* history of the worker, the supervisor, the host and KEY3.
THEOREM TypeCorrect == Spec => []TypeOK
<1>1. Init => TypeOK
    BY InitTyped
<1>2. TypeOK /\ [Next \/ Terminated]_vars => TypeOK'
    BY TypeKept DEF Step
<1> QED
    BY <1>1, <1>2, PTL DEF Spec
-----------------------------------------------------------------------------
(* The steps of the worker.                                                *)

LEMMA InitProtocol == ASSUME Init PROVE Protocol
<1>1. ChainInv
  <2> DEFINE f == [i \in 0..0 |-> 0]
  <2>1. f \in [0..Len(toWorker) -> Nat] /\ f[0] = 0 /\ Len(toWorker) = 0
      BY DEF Init
  <2> HIDE DEF f
  <2>2. Follows(f, toWorker, activation) /\ ~bound
      BY <2>1 DEF Init, Follows
  <2> QED
      BY <2>1, <2>2 DEF ChainInv
<1> QED
    BY <1>1 DEF Init, Protocol, FlagsInv, ToWorkerInv, ToSupervisorInv, PhaseInv, EjectedInv,
                RetiredHandlesClosed, BoundInv, InExchange

\* Steps that only move the main thread within a pass, or KEY3.
Quiet ==
    /\ UNCHANGED <<initialized, started, ejected, generation, installed, leaked, activation,
                   nextId, exchange, active, phase, answering, bound, configured, link, toWorker,
                   toSupervisor>>
    /\ wpc' = wpc \/ ({wpc, wpc'} \cap {"configuring", "unconfiguring", "dead", "exited"} = {})

LEMMA QuietKept == ASSUME Protocol, Quiet PROVE Protocol'
<1>1. /\ Alive' <=> Alive
      /\ InExchange' <=> InExchange
      /\ wpc' = "configuring" <=> wpc = "configuring"
      /\ wpc' = "unconfiguring" <=> wpc = "unconfiguring"
    BY DEF Quiet, Alive, InExchange, Ended
<1>2. FlagsInv' /\ PhaseInv' /\ EjectedInv' /\ RetiredHandlesClosed' /\ BoundInv'
    BY <1>1 DEF Quiet, Protocol, FlagsInv, PhaseInv, EjectedInv, RetiredHandlesClosed, BoundInv
<1>3. ToWorkerInv' /\ ToSupervisorInv'
    BY <1>1 DEF Quiet, Protocol, ToWorkerInv, ToSupervisorInv
<1>4. ChainInv'
    BY <1>1 DEF Quiet, Protocol, ChainInv, Follows
<1> QED
    BY <1>2, <1>3, <1>4 DEF Protocol

\* The worker ends, with or without the record it ends for.
LEMMA EndKept ==
    ASSUME IInv, NEW how \in Ended, WorkerEnds(how), UNCHANGED supervisor,
           \/ UNCHANGED toWorker
           \/ toWorker # <<>> /\ toWorker' = Tail(toWorker),
           \/ UNCHANGED toSupervisor
           \/ /\ toWorker # <<>> /\ toWorker' = Tail(toWorker)
              /\ Head(toWorker).kind = "quiesce" /\ Head(toWorker).id = 0
              /\ Send(Record("quiesced", generation, 0))
    PROVE  Protocol'
<1>1. /\ wpc' \in Ended /\ installed' = 0 /\ leaked' = {}
      /\ UNCHANGED <<initialized, started, ejected, generation, activation, nextId, active,
                     phase, answering, bound, configured, link>>
    BY DEF WorkerEnds, flags, supervisor, udc
<1>2. ~Alive' /\ ~InExchange' /\ wpc' # "configuring" /\ wpc' # "unconfiguring"
    BY <1>1 DEF Alive, InExchange, Ended
<1>3. FlagsInv' /\ PhaseInv' /\ EjectedInv' /\ RetiredHandlesClosed' /\ BoundInv' /\ ChainInv'
    BY <1>1, <1>2
    DEF IInv, Protocol, FlagsInv, PhaseInv, EjectedInv, RetiredHandlesClosed, BoundInv, ChainInv
<1>4. CASE UNCHANGED toWorker /\ UNCHANGED toSupervisor
    BY <1>1, <1>2, <1>3, <1>4 DEF IInv, Protocol, ToWorkerInv, ToSupervisorInv
<1>5. CASE toWorker # <<>> /\ toWorker' = Tail(toWorker)
  <2>1. /\ Len(toWorker) \in Nat \ {0} /\ Len(toWorker') = Len(toWorker) - 1
        /\ \A i \in 1..Len(toWorker') : toWorker'[i] = toWorker[i + 1] /\ i + 1 \in 1..Len(toWorker)
        /\ Head(toWorker) = toWorker[1] /\ 1 \in 1..Len(toWorker)
        /\ Len(toWorker) = 1 => toWorker' = <<>>
      BY <1>5, Taken DEF IInv, TypeOK
  <2>2. ToWorkerInv'
      BY <1>1, <2>1 DEF IInv, Protocol, ToWorkerInv
  <2>3. \A i \in 1..Len(toSupervisor) : toSupervisor[i].kind = "configure"
      BY <1>5 DEF IInv, Protocol, ToSupervisorInv, Answer
  <2>4. CASE UNCHANGED toSupervisor
    <3>1. ToSupervisorInv'
        BY <1>1, <1>2, <2>3, <2>4 DEF IInv, Protocol, ToSupervisorInv, Answer
    <3> QED
        BY <1>3, <2>2, <3>1 DEF Protocol
  <2>5. CASE /\ Head(toWorker).kind = "quiesce" /\ Head(toWorker).id = 0
             /\ Send(Record("quiesced", generation, 0))
    <3> DEFINE r == Record("quiesced", generation, 0)
    <3>1. toWorker' = <<>> /\ phase \in {"ending", "gone"}
        BY <2>1, <2>5 DEF IInv, Protocol, ToWorkerInv
    <3>2. r \in Records /\ r.kind = "quiesced" /\ toSupervisor' = Append(toSupervisor, r)
      <4>1. "quiesced" \in RecordKind /\ generation \in Nat
          BY DEF RecordKind, IInv, TypeOK
      <4> QED
          BY <2>5, <4>1, RecordFields DEF Send
    <3> HIDE DEF r
    <3>3. /\ Len(toSupervisor) \in Nat /\ Len(toSupervisor') = Len(toSupervisor) + 1
          /\ \A i \in 1..Len(toSupervisor) : toSupervisor'[i] = toSupervisor[i]
          /\ toSupervisor'[Len(toSupervisor')] = r
        BY <3>2, Sent DEF IInv, TypeOK
    <3>4. ToSupervisorInv'
        BY <1>1, <1>2, <2>3, <3>1, <3>2, <3>3 DEF IInv, Protocol, ToSupervisorInv, Answer
    <3> QED
        BY <1>3, <2>2, <3>4 DEF Protocol
  <2> QED
      BY <1>3, <2>2, <2>4, <2>5 DEF Protocol
<1> QED
    BY <1>4, <1>5

\* What is known of the records after one was received, unless it was the last.
LEMMA Received ==
    ASSUME TypeOK, ToWorkerInv, toWorker # <<>>, toWorker' = Tail(toWorker)
    PROVE  /\ Len(toWorker) \in Nat \ {0} /\ Len(toWorker') = Len(toWorker) - 1
           /\ \A i \in 1..Len(toWorker') :
                 toWorker'[i] = toWorker[i + 1] /\ i + 1 \in 1..Len(toWorker)
           /\ Head(toWorker) = toWorker[1] /\ 1 \in 1..Len(toWorker)
           /\ Head(toWorker).kind \in {"quiesce", "endpoints"} => toWorker' = <<>>
<1>1. /\ Len(toWorker) \in Nat \ {0} /\ Len(toWorker') = Len(toWorker) - 1
      /\ \A i \in 1..Len(toWorker') : toWorker'[i] = toWorker[i + 1] /\ i + 1 \in 1..Len(toWorker)
      /\ Head(toWorker) = toWorker[1] /\ 1 \in 1..Len(toWorker)
      /\ Len(toWorker) = 1 => toWorker' = <<>>
    BY Taken DEF TypeOK
<1> QED
    BY <1>1 DEF ToWorkerInv

\* And after one was sent.
LEMMA Appended ==
    ASSUME TypeOK, NEW r \in Records, Send(r)
    PROVE  /\ Len(toSupervisor) \in Nat /\ Len(toSupervisor') = Len(toSupervisor) + 1
           /\ \A i \in 1..Len(toSupervisor) : toSupervisor'[i] = toSupervisor[i]
           /\ toSupervisor'[Len(toSupervisor')] = r
           /\ \A i \in 1..Len(toSupervisor') : i = Len(toSupervisor') \/ i \in 1..Len(toSupervisor)
           /\ phase # "gone"
BY Sent DEF TypeOK, Send

\* The activations after a record was received.
LEMMA ChainTaken ==
    ASSUME TypeOK, ToWorkerInv, ChainInv, Alive, toWorker # <<>>, toWorker' = Tail(toWorker),
           activation' = (IF Head(toWorker).kind \in BusKind THEN Head(toWorker).act ELSE activation),
           UNCHANGED link, bound' => bound
    PROVE  /\ ChainInv'
           /\ Head(toWorker).kind \in {"suspend", "resume"} => Head(toWorker).act = activation
<1>1. PICK f \in [0..Len(toWorker) -> Nat] :
          Follows(f, toWorker, activation) /\ (bound => f[Len(toWorker)] = link)
    BY DEF ChainInv
<1>2. /\ Len(toWorker) \in Nat \ {0} /\ Len(toWorker') = Len(toWorker) - 1
      /\ \A i \in 1..Len(toWorker') : toWorker'[i] = toWorker[i + 1] /\ i + 1 \in 1..Len(toWorker)
      /\ Head(toWorker) = toWorker[1] /\ 1 \in 1..Len(toWorker)
    BY Received
<1> DEFINE g == [i \in 0..Len(toWorker') |-> f[i + 1]]
<1>3. g \in [0..Len(toWorker') -> Nat] /\ \A i \in 0..Len(toWorker') : g[i] = f[i + 1]
    BY <1>2
<1> HIDE DEF g
<1>4. Follows(g, toWorker', activation')
  <2>1. g[0] = activation' /\ (Head(toWorker).kind \in {"suspend", "resume"} => Head(toWorker).act = activation)
      BY <1>1, <1>2, <1>3 DEF Follows
  <2>2. ASSUME NEW i \in 1..Len(toWorker')
        PROVE  /\ g[i] = (IF toWorker'[i].kind \in BusKind THEN toWorker'[i].act ELSE g[i - 1])
               /\ toWorker'[i].kind \in {"suspend", "resume"} => toWorker'[i].act = g[i - 1]
    <3>1. g[i] = f[i + 1] /\ g[i - 1] = f[(i + 1) - 1]
        BY <1>2, <1>3
    <3> QED
        BY <1>1, <1>2, <3>1 DEF Follows
  <2> QED
      BY <2>1, <2>2 DEF Follows
<1>5. Head(toWorker).kind \in {"suspend", "resume"} => Head(toWorker).act = activation
    BY <1>1, <1>2 DEF Follows
<1>6. bound' => g[Len(toWorker')] = link'
    BY <1>1, <1>2, <1>3
<1> QED
    BY <1>3, <1>4, <1>5, <1>6 DEF ChainInv

\* A bus event in a pass.
LEMMA BusEventKept ==
    ASSUME IInv, PassWithRecord, HandleBusEvent(Head(toWorker)), wpc' = "refresh",
           Head(toWorker).kind \in BusKind, UNCHANGED <<flags, nextId, exchange>>
    PROVE  Protocol'
<1> USE DEF IInv, Protocol
<1>1. /\ UNCHANGED <<initialized, started, ejected, generation, installed, leaked, nextId,
                     exchange, active, phase, answering, bound, configured, link, toSupervisor>>
      /\ activation' = Head(toWorker).act
      /\ toWorker # <<>> /\ toWorker' = Tail(toWorker)
    BY DEF PassWithRecord, HandleBusEvent, flags, supervisor, udc
<1>2. Alive /\ Alive' /\ ~InExchange /\ ~InExchange'
    BY DEF PassWithRecord, Alive, Ended, InExchange
<1>3. ChainInv'
    BY <1>1, <1>2, ChainTaken
<1>4. ToWorkerInv'
    BY <1>1, Received DEF ToWorkerInv
<1>5. ToSupervisorInv'
    BY <1>1, <1>2 DEF ToSupervisorInv, Answer
<1>6. FlagsInv' /\ PhaseInv' /\ EjectedInv' /\ RetiredHandlesClosed' /\ BoundInv'
    BY <1>1, <1>2 DEF FlagsInv, PhaseInv, EjectedInv, RetiredHandlesClosed, BoundInv, InExchange
<1> QED
    BY <1>3, <1>4, <1>5, <1>6

\* The answer to a QUIESCE of the generation, in a pass or in an exchange.
LEMMA ClosedKept ==
    ASSUME IInv, toWorker # <<>>, toWorker' = Tail(toWorker),
           Head(toWorker).kind = "quiesce", Head(toWorker).id # 0,
           CloseAndAnswer(Head(toWorker).id),
           Alive, Alive',
           UNCHANGED <<initialized, started, generation, activation, nextId, supervisor>>,
           InExchange' => InExchange /\ UNCHANGED wpc /\ exchange'.id = exchange.id
    PROVE  /\ toWorker' = <<>> /\ phase \in {"quiescing", "gone"} /\ ~bound /\ ~ejected
           /\ phase = "quiescing" => answering.id = Head(toWorker).id
           /\ installed' = 0
           /\ ToWorkerInv' /\ ToSupervisorInv' /\ ChainInv'
           /\ PhaseInv' /\ RetiredHandlesClosed' /\ BoundInv'
<1> USE DEF IInv, Protocol
<1>1. /\ toWorker' = <<>> /\ phase \in {"quiescing", "gone"} /\ ~ejected
      /\ Head(toWorker).id = answering.id
    BY Received DEF ToWorkerInv
<1>2. ~bound /\ ~configured
    BY <1>1 DEF PhaseInv
<1>3. /\ UNCHANGED <<active, phase, answering, bound, configured, link, leaked>>
      /\ installed' = 0
    BY DEF supervisor, udc, CloseAndAnswer
<1>4. \A i \in 1..Len(toSupervisor) : toSupervisor[i].kind = "configure"
    BY DEF ToSupervisorInv, Answer
<1> DEFINE r == Record("quiesced", generation, Head(toWorker).id)
<1>5. Head(toWorker).id \in Nat /\ generation \in Nat /\ "quiesced" \in RecordKind
    BY Taken DEF TypeOK, Records, RecordKind
<1>6. r \in Records /\ r.kind = "quiesced" /\ Send(r)
  <2>1. Send(r)
      BY DEF CloseAndAnswer
  <2> QED
      BY <1>5, <2>1, RecordFields
<1> HIDE DEF r
<1>7. ToSupervisorInv'
  <2>1. ASSUME NEW i \in 1..Len(toSupervisor), InExchange', toSupervisor[i].id = exchange'.id
        PROVE  toSupervisor[i].full = (wpc' = "configuring")
      BY <1>4, <2>1 DEF ToSupervisorInv, InExchange
  <2>2. \A i \in 1..Len(toSupervisor) : 0 < toSupervisor[i].id /\ toSupervisor[i].id < nextId
      BY <1>4 DEF ToSupervisorInv
  <2> QED
      BY <1>1, <1>3, <1>4, <1>6, <2>1, <2>2, Appended DEF ToSupervisorInv, Answer
<1>8. ToWorkerInv' /\ RetiredHandlesClosed' /\ BoundInv'
    BY <1>1, <1>2, <1>3 DEF ToWorkerInv, RetiredHandlesClosed, BoundInv
<1>9. ChainInv'
  <2>1. Head(toWorker).kind \notin BusKind
      BY DEF BusKind
  <2> QED
      BY <1>2, <1>3, <2>1, ChainTaken
<1>10. PhaseInv'
    BY <1>1, <1>2, <1>3 DEF PhaseInv, InExchange
<1> QED
    BY <1>1, <1>2, <1>3, <1>7, <1>8, <1>9, <1>10

LEMMA PassKept ==
    ASSUME IInv, PassWithRecord
    PROVE  Protocol'
<1> DEFINE r == Head(toWorker)
<1>1. /\ toWorker # <<>> /\ toWorker' = Tail(toWorker) /\ UNCHANGED supervisor
      /\ wpc = "core" /\ Alive /\ ~InExchange
    BY DEF PassWithRecord, Alive, Ended, InExchange
<1>2. CASE r.kind \in BusKind /\ HandleBusEvent(r) /\ wpc' = "refresh"
           /\ UNCHANGED <<flags, pressed, nextId, exchange>>
    BY <1>2, BusEventKept
<1>3. CASE /\ r.kind = "quiesce" /\ r.id # 0 /\ CloseAndAnswer(r.id)
           /\ wpc' = "refresh"
           /\ UNCHANGED <<flags, pressed, generation, suspended, activation, nextId, exchange>>
  <2>1. UNCHANGED <<initialized, started, ejected, generation, activation, nextId>>
      BY <1>3 DEF flags
  <2>2. Alive' /\ ~InExchange' /\ wpc' # "configuring"
      BY <1>3 DEF Alive, Ended, InExchange
  <2>3. /\ ~ejected
        /\ ToWorkerInv' /\ ToSupervisorInv' /\ ChainInv'
        /\ PhaseInv' /\ RetiredHandlesClosed' /\ BoundInv'
      BY <1>1, <1>3, <2>1, <2>2, ClosedKept
  <2>4. FlagsInv' /\ EjectedInv'
      BY <1>3, <2>1, <2>3 DEF IInv, Protocol, FlagsInv, EjectedInv
  <2> QED
      BY <2>3, <2>4 DEF Protocol
<1>4. CASE /\ r.kind = "quiesce" /\ r.id = 0 /\ Send(Record("quiesced", generation, 0))
           /\ WorkerEnds("exited")
    BY <1>1, <1>4, EndKept DEF Ended
<1>5. CASE WorkerEnds("dead") /\ UNCHANGED toSupervisor
    BY <1>1, <1>5, EndKept DEF Ended
<1> QED
    BY <1>2, <1>3, <1>4, <1>5 DEF PassWithRecord

\* A Configure is sent: its identifier is new.
LEMMA ConfigureKept ==
    ASSUME IInv, NEW full \in BOOLEAN, Send(Configure(nextId, full)), nextId' = nextId + 1,
           Alive, Alive', UNCHANGED <<generation, active, phase, toWorker>>,
           installed' \in {installed, 0}, started' => started /\ installed' = installed,
           active # 0 /\ active \in {installed} \cup leaked => active \in {installed'} \cup leaked',
           ejected' => ejected,
           InExchange' => exchange'.id = nextId /\ (full <=> wpc' = "configuring")
    PROVE  ToSupervisorInv'
<1> USE DEF IInv, Protocol
<1> DEFINE r == Configure(nextId, full)
<1>1. /\ r \in Records /\ Send(r) /\ r.kind = "configure" /\ r.id = nextId /\ r.full = full
      /\ nextId \in Nat \ {0}
    BY ConfigureFields DEF TypeOK
<1> HIDE DEF r
<1>2. /\ Len(toSupervisor) \in Nat /\ Len(toSupervisor') = Len(toSupervisor) + 1
      /\ \A i \in 1..Len(toSupervisor) : toSupervisor'[i] = toSupervisor[i]
      /\ toSupervisor'[Len(toSupervisor')] = r
      /\ \A i \in 1..Len(toSupervisor') : i = Len(toSupervisor') \/ i \in 1..Len(toSupervisor)
    BY <1>1, Appended
<1>3. \A i \in 1..Len(toSupervisor) : toSupervisor[i].id \in Nat
  <2>1. \A i \in 1..Len(toSupervisor) : toSupervisor[i] \in Records
      BY DEF TypeOK
  <2> QED
      BY <2>1 DEF Records
<1>4. "configure" \notin Answer
    BY DEF Answer
<1> QED
  <2>1. ASSUME NEW i \in 1..Len(toSupervisor'), toSupervisor'[i].kind = "configure"
        PROVE  /\ 0 < toSupervisor'[i].id /\ toSupervisor'[i].id < nextId'
               /\ InExchange' /\ toSupervisor'[i].id = exchange'.id =>
                      toSupervisor'[i].full = (wpc' = "configuring")
    <3>1. CASE i = Len(toSupervisor')
        BY <1>1, <1>2, <3>1
    <3>2. CASE i \in 1..Len(toSupervisor)
        BY <1>1, <1>2, <1>3, <2>1, <3>2 DEF ToSupervisorInv
    <3> QED
        BY <1>2, <3>1, <3>2
  <2>2. ASSUME NEW i \in 1..Len(toSupervisor'), toSupervisor'[i].kind \in Answer
        PROVE  /\ i \in 1..Len(toSupervisor) /\ toSupervisor'[i] = toSupervisor[i]
               /\ \A j \in 1..Len(toSupervisor') : toSupervisor'[j].kind \in Answer => j = i
    <3>1. i \in 1..Len(toSupervisor) /\ toSupervisor'[i] = toSupervisor[i]
        BY <1>1, <1>2, <1>4, <2>2
    <3>2. \A j \in 1..Len(toSupervisor') : toSupervisor'[j].kind \in Answer => j = i
        BY <1>1, <1>2, <1>4, <2>2, <3>1 DEF ToSupervisorInv
    <3> QED
        BY <3>1, <3>2
  <2>3. \A i \in 1..Len(toSupervisor') : toSupervisor'[i].kind \in Answer \cup {"configure"}
      BY <1>1, <1>2 DEF ToSupervisorInv
  <2> QED
      BY <2>1, <2>2, <2>3 DEF ToSupervisorInv, Answer

LEMMA BeginKept ==
    ASSUME IInv, NEW full \in BOOLEAN, NEW replacement \in BOOLEAN, NEW goal \in Goal,
           BeginExchange(full, replacement, goal), wpc \in {"core", "key3"},
           UNCHANGED <<initialized, ejected, generation, installed, leaked, activation, supervisor,
                       toWorker>>,
           started' => started, IF full THEN initialized ELSE started',
           ejected /\ full /\ goal # "insert" => replacement
    PROVE  Protocol'
<1> USE DEF IInv, Protocol
<1>1. /\ wpc' = (IF full THEN "configuring" ELSE "unconfiguring")
      /\ nextId' = nextId + 1 /\ nextId \in Nat \ {0}
      /\ exchange'.id = nextId /\ exchange'.quiesced = ~replacement
      /\ exchange'.replacement = replacement /\ exchange'.goal = goal
      /\ Send(Configure(nextId, full))
      /\ UNCHANGED <<active, phase, answering, bound, configured, link>>
    BY DEF BeginExchange, supervisor, udc, TypeOK
<1>2. Alive /\ Alive' /\ InExchange'
    BY <1>1 DEF Alive, Ended, InExchange
<1>3. ToSupervisorInv'
    BY <1>1, <1>2, ConfigureKept
<1>4. ToWorkerInv' /\ RetiredHandlesClosed' /\ BoundInv'
    BY <1>1, <1>2 DEF ToWorkerInv, RetiredHandlesClosed, BoundInv
<1>5. ChainInv'
    BY <1>1, <1>2 DEF ChainInv, Follows
<1>6. PhaseInv'
  <2>1. answering.id \in Nat
      BY DEF TypeOK
  <2> QED
      BY <1>1, <2>1 DEF PhaseInv
<1>7. FlagsInv' /\ EjectedInv'
    BY <1>1 DEF FlagsInv, EjectedInv
<1> QED
    BY <1>3, <1>4, <1>5, <1>6, <1>7

LEMMA KeyKept == ASSUME IInv, Eject \/ Insert PROVE Protocol'
<1>1. CASE Eject
  <2>1. /\ BeginExchange(FALSE, TRUE, "none") /\ "none" \in Goal /\ wpc = "key3" /\ started'
        /\ UNCHANGED <<initialized, started, ejected, generation, installed, leaked, activation,
                       supervisor, toWorker>>
      BY <1>1 DEF Eject, flags, usb, Goal
  <2> QED
      BY <2>1, BeginKept, Zenon
<1>2. CASE Insert
  <2>1. /\ BeginExchange(TRUE, FALSE, "insert") /\ "insert" \in Goal /\ wpc = "key3" /\ initialized
        /\ UNCHANGED <<initialized, started, ejected, generation, installed, leaked, activation,
                       supervisor, toWorker>>
      BY <1>2 DEF Insert, flags, usb, Goal, IInv, Protocol, FlagsInv
  <2> QED
      BY <2>1, BeginKept, Zenon
<1> QED
    BY <1>1, <1>2

LEMMA CallKept == ASSUME IInv, CoreCalls PROVE Protocol'
<1>1. CASE UsbStart
  <2>1. /\ BeginExchange(TRUE, generation # 0, "start") /\ "start" \in Goal /\ wpc = "core"
        /\ initialized /\ ~started'
        /\ UNCHANGED <<initialized, ejected, generation, installed, leaked, activation, supervisor,
                       toWorker>>
      BY <1>1 DEF UsbStart, Goal
  <2>2. ejected => generation # 0
      BY DEF IInv, Protocol, FlagsInv
  <2> QED
      BY <2>1, <2>2, BeginKept, Zenon
<1>2. CASE \E deinit \in BOOLEAN : UsbStop(deinit)
  <2>1. /\ wpc = "core" /\ wpc' = wpc /\ ~started'
        /\ UNCHANGED <<ejected, generation, installed, leaked, activation, nextId, exchange,
                       active, phase, answering, bound, configured, link, toWorker, toSupervisor>>
      BY <1>2 DEF UsbStop, supervisor, udc
  <2>2. Alive /\ Alive' /\ ~InExchange /\ ~InExchange'
      BY <2>1 DEF Alive, Ended, InExchange
  <2>3. FlagsInv' /\ PhaseInv' /\ EjectedInv' /\ RetiredHandlesClosed' /\ BoundInv'
      BY <2>1, <2>2
      DEF IInv, Protocol, FlagsInv, PhaseInv, EjectedInv, RetiredHandlesClosed, BoundInv
  <2>4. ToWorkerInv' /\ ToSupervisorInv' /\ ChainInv'
      BY <2>1, <2>2 DEF IInv, Protocol, ToWorkerInv, ToSupervisorInv, ChainInv, Follows
  <2> QED
      BY <2>3, <2>4 DEF Protocol
<1>3. CASE UsbInit
  <2> USE DEF IInv, Protocol
  <2>1. /\ wpc = "core" /\ wpc' = wpc /\ ~initialized
        /\ installed' = 0 /\ leaked' = leaked \cup ({installed} \ {0})
        /\ Send(Configure(nextId, FALSE)) /\ nextId' = nextId + 1 /\ nextId \in Nat
        /\ UNCHANGED <<started, ejected, generation, activation, exchange, active, phase, answering,
                       bound, configured, link, toWorker>>
      BY <1>3 DEF UsbInit, supervisor, udc, TypeOK
  <2>2. Alive /\ Alive' /\ ~InExchange /\ ~InExchange' /\ wpc # "unconfiguring"
      BY <2>1 DEF Alive, Ended, InExchange
  <2>3. ~started /\ ~started'
      BY <2>1 DEF FlagsInv
  <2>4. ToSupervisorInv'
    <3>1. active # 0 /\ active \in {installed} \cup leaked => active \in {installed'} \cup leaked'
        BY <2>1
    <3>2. FALSE \in BOOLEAN /\ installed' \in {installed, 0} /\ (ejected' => ejected)
        BY <2>1
    <3> QED
        BY <2>1, <2>2, <2>3, <3>1, <3>2, ConfigureKept, Zenon
  <2>5. FlagsInv' /\ PhaseInv' /\ EjectedInv' /\ RetiredHandlesClosed' /\ BoundInv'
    <3>1. answering.id \in Nat
        BY DEF TypeOK
    <3> QED
      BY <2>1, <2>2, <2>3, <3>1
      DEF FlagsInv, PhaseInv, EjectedInv, RetiredHandlesClosed, BoundInv
  <2>6. ToWorkerInv' /\ ChainInv'
      BY <2>1, <2>2 DEF ToWorkerInv, ChainInv, Follows
  <2> QED
      BY <2>4, <2>5, <2>6
<1> QED
    BY <1>1, <1>2, <1>3 DEF CoreCalls

LEMMA RejectedKept == ASSUME IInv, Rejected PROVE Protocol'
<1> USE DEF IInv, Protocol
<1>1. /\ toWorker # <<>> /\ toWorker' = Tail(toWorker) /\ UNCHANGED <<supervisor, toSupervisor>>
      /\ Head(toWorker).kind = "rejected" /\ wpc \in {"configuring", "unconfiguring"}
    BY DEF Rejected, Receives, IsRejection, IsAnswer
<1>2. CASE WorkerEnds("dead")
    BY <1>1, <1>2, EndKept DEF Ended
<1>3. CASE wpc' = "core" /\ exchange' = NoExchange /\ UNCHANGED <<flags, key3, usb, nextId>>
  <2>1. UNCHANGED <<initialized, started, ejected, generation, installed, leaked, activation,
                    nextId, active, phase, answering, bound, configured, link, toSupervisor>>
      BY <1>1, <1>3 DEF flags, usb, supervisor, udc
  <2>2. Alive /\ Alive' /\ ~InExchange'
      BY <1>1, <1>3 DEF Alive, Ended, InExchange
  <2>3. ChainInv'
    <3>1. Head(toWorker).kind \notin BusKind
        BY <1>1 DEF BusKind
    <3> QED
        BY <1>1, <2>1, <2>2, <3>1, ChainTaken
  <2>4. ToWorkerInv'
      BY <1>1, <2>1, Received DEF ToWorkerInv
  <2>5. ToSupervisorInv'
      BY <1>1, <2>1, <2>2 DEF ToSupervisorInv, Answer
  <2>6. FlagsInv' /\ PhaseInv' /\ EjectedInv' /\ RetiredHandlesClosed' /\ BoundInv'
      BY <1>3, <2>1, <2>2
      DEF FlagsInv, PhaseInv, EjectedInv, RetiredHandlesClosed, BoundInv
  <2> QED
      BY <2>3, <2>4, <2>5, <2>6
<1> QED
    BY <1>2, <1>3 DEF Rejected

LEMMA QuiescedKept == ASSUME IInv, Quiesced PROVE Protocol'
<1> USE DEF IInv, Protocol
<1>1. /\ toWorker # <<>> /\ toWorker' = Tail(toWorker)
      /\ Head(toWorker).kind = "quiesce" /\ Head(toWorker).id = exchange.id
      /\ CloseAndAnswer(exchange.id) /\ wpc \in {"configuring", "unconfiguring"}
      /\ UNCHANGED <<initialized, started, generation, activation, nextId, supervisor>>
    BY DEF Quiesced, Receives, IsQuiesce, IsAnswer
<1>2. exchange.id # 0
    BY <1>1 DEF PhaseInv, InExchange
<1>3. \/ wpc' = wpc /\ exchange'.id = exchange.id /\ ejected' = ejected
      \/ wpc' = "core" /\ wpc = "unconfiguring" /\ ejected'
  <2>1. CASE wpc = "configuring"
    <3>1. exchange'.id = exchange.id
        BY <2>1 DEF Quiesced, TypeOK
    <3> QED
        BY <2>1, <3>1 DEF Quiesced
  <2>2. CASE wpc # "configuring"
      BY <1>1, <2>2 DEF Quiesced
  <2> QED
      BY <2>1, <2>2
<1>4. Alive /\ Alive' /\ InExchange /\ (InExchange' => wpc' = wpc /\ exchange'.id = exchange.id)
    BY <1>1, <1>3 DEF Alive, Ended, InExchange
<1>5. /\ phase \in {"quiescing", "gone"} /\ ~ejected
      /\ phase = "quiescing" => answering.id = exchange.id
      /\ ToWorkerInv' /\ ToSupervisorInv' /\ ChainInv'
      /\ PhaseInv' /\ RetiredHandlesClosed' /\ BoundInv'
    BY <1>1, <1>2, <1>4, ClosedKept
<1>6. UNCHANGED <<phase, answering, active>>
    BY <1>1 DEF supervisor
<1>7. FlagsInv' /\ EjectedInv'
  <2>1. CASE wpc' = wpc /\ ejected' = ejected
      BY <1>1, <1>5, <2>1 DEF FlagsInv, EjectedInv
  <2>2. CASE wpc' = "core" /\ wpc = "unconfiguring" /\ ejected'
    <3>1. phase = "quiescing" => ~answering.full
        BY <1>4, <1>5, <2>2 DEF PhaseInv
    <3> QED
        BY <1>1, <1>5, <1>6, <2>2, <3>1 DEF FlagsInv, EjectedInv
  <2> QED
      BY <1>3, <2>1, <2>2
<1> QED
    BY <1>5, <1>7

LEMMA InstalledKept == ASSUME IInv, Installed PROVE Protocol'
<1> USE DEF IInv, Protocol
<1> DEFINE gen == Head(toWorker).gen
           r == Record("serving", gen, exchange.id)
<1>1. /\ toWorker # <<>> /\ toWorker' = Tail(toWorker)
      /\ Head(toWorker).kind = "endpoints" /\ wpc = "configuring" /\ exchange.quiesced
      /\ generation' = gen /\ installed' = gen /\ Send(r) /\ wpc' = "core"
      /\ started' => started \/ initialized
      /\ ejected' => ejected /\ exchange.goal # "insert"
      /\ UNCHANGED <<initialized, leaked, activation, nextId, active, phase, answering, bound,
                     configured, link>>
      /\ phase # "gone"
    BY DEF Installed, Receives, IsEndpoints, IsAnswer, supervisor, udc, Send, FlagsInv
<1>2. /\ toWorker' = <<>> /\ phase = "serving" /\ gen = active /\ active # 0 /\ active \notin leaked
    BY <1>1, Received DEF ToWorkerInv
<1>3. ~bound /\ ~ejected' /\ ~configured
    BY <1>1, <1>2 DEF PhaseInv, EjectedInv
<1>4. Alive /\ Alive' /\ ~InExchange'
    BY <1>1 DEF Alive, Ended, InExchange
<1>5. \A i \in 1..Len(toSupervisor) : toSupervisor[i].kind = "configure"
    BY <1>1 DEF ToSupervisorInv, Answer
<1>6. r \in Records /\ r.kind = "serving"
  <2>1. gen \in Nat /\ exchange.id \in Nat /\ "serving" \in RecordKind
      BY <1>1, Taken DEF TypeOK, Records, RecordKind
  <2> QED
      BY <2>1, RecordFields
<1> HIDE DEF r, gen
<1>7. ToSupervisorInv'
  <2>1. \A i \in 1..Len(toSupervisor) : 0 < toSupervisor[i].id /\ toSupervisor[i].id < nextId
      BY <1>5 DEF ToSupervisorInv
  <2> QED
      BY <1>1, <1>2, <1>3, <1>4, <1>5, <1>6, <2>1, Appended DEF ToSupervisorInv, Answer
<1>8. ToWorkerInv' /\ RetiredHandlesClosed' /\ BoundInv'
    BY <1>1, <1>2, <1>3 DEF ToWorkerInv, RetiredHandlesClosed, BoundInv
<1>9. ChainInv'
  <2>1. Head(toWorker).kind \notin BusKind
      BY <1>1 DEF BusKind
  <2> QED
      BY <1>1, <1>4, <2>1, ChainTaken
<1>10. FlagsInv' /\ PhaseInv' /\ EjectedInv'
    BY <1>1, <1>2, <1>3, <1>4 DEF FlagsInv, PhaseInv, EjectedInv
<1> QED
    BY <1>7, <1>8, <1>9, <1>10

LEMMA LostKept == ASSUME IInv, Unexpected \/ ConnectionLost PROVE Protocol'
<1>1. CASE Unexpected
    BY <1>1, EndKept DEF Unexpected, Receives, Ended
<1>2. CASE ConnectionLost
  <2> PICK how \in Ended : WorkerEnds(how)
      BY <1>2 DEF ConnectionLost
  <2> QED
      BY <1>2, EndKept DEF ConnectionLost
<1> QED
    BY <1>1, <1>2
-----------------------------------------------------------------------------
(* The steps of the supervisor and the host.                               *)

\* A record is told to the worker.
LEMMA Told ==
    ASSUME TypeOK, NEW r \in Records, Tell(<<r>>)
    PROVE  /\ Len(toWorker) \in Nat /\ Len(toWorker') = Len(toWorker) + 1
           /\ \A i \in 1..Len(toWorker) : toWorker'[i] = toWorker[i]
           /\ toWorker'[Len(toWorker')] = r
           /\ \A i \in 1..Len(toWorker') : i = Len(toWorker') \/ i \in 1..Len(toWorker)
BY Sent DEF TypeOK, Tell

LEMMA ChainTold ==
    ASSUME TypeOK, ChainInv, NEW r \in Records, Tell(<<r>>), Alive => Alive', UNCHANGED activation,
           Alive,
           r.kind \in {"suspend", "resume"} => bound /\ r.act = link,
           bound' => IF r.kind \in BusKind THEN r.act = link' ELSE bound /\ link' = link
    PROVE  ChainInv'
<1>1. PICK f \in [0..Len(toWorker) -> Nat] :
          Follows(f, toWorker, activation) /\ (bound => f[Len(toWorker)] = link)
    BY DEF ChainInv
<1>2. /\ Len(toWorker) \in Nat /\ Len(toWorker') = Len(toWorker) + 1
      /\ \A i \in 1..Len(toWorker) : toWorker'[i] = toWorker[i]
      /\ toWorker'[Len(toWorker')] = r
      /\ \A i \in 1..Len(toWorker') : i = Len(toWorker') \/ i \in 1..Len(toWorker)
    BY Told
<1> DEFINE n == Len(toWorker)
           last == IF r.kind \in BusKind THEN r.act ELSE f[n]
           g == [i \in 0..(n + 1) |-> IF i = n + 1 THEN last ELSE f[i]]
<1>3. last \in Nat
    BY <1>2 DEF Records
<1>4. /\ g \in [0..Len(toWorker') -> Nat] /\ g[n + 1] = last
      /\ \A i \in 0..n : g[i] = f[i]
    BY <1>2, <1>3
<1> HIDE DEF g
<1>5. Follows(g, toWorker', activation')
  <2>1. g[0] = activation'
      BY <1>1, <1>2, <1>4 DEF Follows
  <2>2. ASSUME NEW i \in 1..Len(toWorker')
        PROVE  /\ g[i] = (IF toWorker'[i].kind \in BusKind THEN toWorker'[i].act ELSE g[i - 1])
               /\ toWorker'[i].kind \in {"suspend", "resume"} => toWorker'[i].act = g[i - 1]
    <3>1. CASE i = n + 1
      <4>1. g[i] = last /\ g[i - 1] = f[n] /\ toWorker'[i] = r
          BY <1>2, <1>4, <3>1
      <4> QED
          BY <1>1, <4>1
    <3>2. CASE i \in 1..n
      <4>1. g[i] = f[i] /\ g[i - 1] = f[i - 1] /\ toWorker'[i] = toWorker[i]
          BY <1>2, <1>4, <3>2
      <4> QED
          BY <1>1, <3>2, <4>1 DEF Follows
    <3> QED
        BY <1>2, <3>1, <3>2
  <2> QED
      BY <2>1, <2>2 DEF Follows
<1>6. bound' => g[Len(toWorker')] = link'
    BY <1>1, <1>2, <1>4
<1> QED
    BY <1>4, <1>5, <1>6 DEF ChainInv

\* The supervisor takes a record, or none, and no answer is left: the records after
\* it are Configures.
LEMMA ConfiguresLeft ==
    ASSUME IInv, UNCHANGED worker,
           \/ UNCHANGED toSupervisor /\ phase \notin {"quiescing", "serving", "ending", "gone"}
           \/ /\ toSupervisor # <<>> /\ toSupervisor' = Tail(toSupervisor)
              /\ phase = "idle" \/ Head(toSupervisor).kind \in Answer
    PROVE  /\ ToSupervisorInv'
           /\ \A i \in 1..Len(toSupervisor') : toSupervisor'[i].kind = "configure"
<1> USE DEF IInv, Protocol
<1>1. /\ UNCHANGED <<wpc, nextId, exchange>> /\ (InExchange' <=> InExchange)
    BY DEF worker, InExchange
<1>2. CASE UNCHANGED toSupervisor /\ phase \notin {"quiescing", "serving", "ending", "gone"}
  <2>1. \A i \in 1..Len(toSupervisor) : toSupervisor[i].kind = "configure"
      BY <1>2 DEF ToSupervisorInv, Answer
  <2> QED
      BY <1>1, <1>2, <2>1 DEF ToSupervisorInv, Answer
<1>3. CASE /\ toSupervisor # <<>> /\ toSupervisor' = Tail(toSupervisor)
           /\ phase = "idle" \/ Head(toSupervisor).kind \in Answer
  <2>1. /\ Len(toSupervisor) \in Nat \ {0} /\ Len(toSupervisor') = Len(toSupervisor) - 1
        /\ Head(toSupervisor) = toSupervisor[1] /\ 1 \in 1..Len(toSupervisor)
        /\ \A i \in 1..Len(toSupervisor') :
              toSupervisor'[i] = toSupervisor[i + 1] /\ i + 1 \in 1..Len(toSupervisor) /\ i + 1 # 1
      BY <1>3, Taken DEF TypeOK
  <2>2. \A i \in 1..Len(toSupervisor') : toSupervisor'[i].kind = "configure"
      BY <1>3, <2>1 DEF ToSupervisorInv, Answer
  <2>3. ASSUME NEW i \in 1..Len(toSupervisor')
        PROVE  /\ 0 < toSupervisor'[i].id /\ toSupervisor'[i].id < nextId
               /\ InExchange /\ toSupervisor'[i].id = exchange.id =>
                      toSupervisor'[i].full = (wpc = "configuring")
    <3>1. toSupervisor'[i] = toSupervisor[i + 1] /\ i + 1 \in 1..Len(toSupervisor)
        BY <2>1
    <3>2. toSupervisor[i + 1].kind = "configure"
        BY <2>2, <3>1
    <3> QED
        BY <3>1, <3>2 DEF ToSupervisorInv
  <2>4. \A i \in 1..Len(toSupervisor') : toSupervisor'[i].kind \notin Answer
      BY <2>2 DEF Answer
  <2>5. "serving" \in Answer /\ "quiesced" \in Answer
      BY DEF Answer
  <2>6. ToSupervisorInv'
      BY <1>1, <2>2, <2>3, <2>4, <2>5 DEF ToSupervisorInv
  <2> QED
      BY <2>2, <2>6
<1> QED
    BY <1>2, <1>3

\* The Configure that the supervisor takes.
LEMMA ConfigureTaken ==
    ASSUME IInv, TakeConfigure, UNCHANGED worker
    PROVE  LET c == Head(toSupervisor)
           IN  /\ phase = "idle" /\ Alive /\ Alive'
               /\ c.gen \in Nat /\ c.id \in Nat \ {0} /\ c.id < nextId /\ c.full \in BOOLEAN
               /\ InExchange /\ c.id = exchange.id => c.full = (wpc = "configuring")
               /\ ToSupervisorInv'
               /\ \A i \in 1..Len(toSupervisor') : toSupervisor'[i].kind = "configure"
<1> USE DEF IInv, Protocol
<1> DEFINE c == Head(toSupervisor)
<1>1. /\ toSupervisor # <<>> /\ toSupervisor' = Tail(toSupervisor) /\ c.kind = "configure"
      /\ phase = "idle" /\ Alive /\ wpc' = wpc
    BY DEF TakeConfigure, worker
<1>2. c \in Records /\ c = toSupervisor[1] /\ 1 \in 1..Len(toSupervisor)
    BY <1>1, Taken DEF TypeOK
<1>3. c.gen \in Nat /\ c.id \in Nat /\ c.full \in BOOLEAN
    BY <1>2 DEF Records
<1> HIDE DEF c
<1>4. 0 < c.id /\ c.id < nextId /\ (InExchange /\ c.id = exchange.id => c.full = (wpc = "configuring"))
    BY <1>1, <1>2 DEF ToSupervisorInv
<1>5. /\ ToSupervisorInv'
      /\ \A i \in 1..Len(toSupervisor') : toSupervisor'[i].kind = "configure"
    BY <1>1, ConfiguresLeft DEF c
<1>6. Alive' /\ c.id \in Nat \ {0}
    BY <1>1, <1>3, <1>4 DEF Alive
<1> QED
    BY <1>1, <1>3, <1>4, <1>5, <1>6 DEF c

\* A record is told to a worker that has no QUIESCE and no endpoints to receive.
LEMMA ToldKept ==
    ASSUME IInv, NEW r \in Records, Tell(<<r>>), UNCHANGED worker,
           phase = "idle" \/ toWorker = <<>>,
           \/ r.kind \in BusKind /\ r.gen = generation
           \/ r.kind = "rejected"
           \/ /\ r.kind = "endpoints" /\ phase' = "serving" /\ installed = 0 /\ r.gen = active'
              /\ active' # 0 /\ active' \notin leaked
           \/ r.kind = "quiesce" /\ r.id = 0 /\ phase' = "ending"
           \/ r.kind = "quiesce" /\ r.id # 0 /\ phase' = "quiescing" /\ r.id = answering'.id /\ ~ejected
    PROVE  ToWorkerInv'
<1> USE DEF IInv, Protocol
<1>1. UNCHANGED <<generation, installed, leaked, ejected>>
    BY DEF worker, usb, flags
<1>2. \A i \in 1..Len(toWorker) :
          /\ toWorker[i].kind \in BusKind \cup {"rejected"}
          /\ toWorker[i].kind \in BusKind => toWorker[i].gen = generation
    BY DEF ToWorkerInv
<1>3. "quiesce" \notin BusKind \cup {"rejected"} /\ "endpoints" \notin BusKind \cup {"rejected"}
    BY DEF BusKind
<1>4. "rejected" \notin BusKind
    BY DEF BusKind
<1> QED
    BY <1>1, <1>2, <1>3, <1>4, Told DEF ToWorkerInv

\* What the worker's variables are part of.
LEMMA WorkerUnchanged ==
    ASSUME UNCHANGED worker
    PROVE  /\ UNCHANGED <<wpc, initialized, started, ejected, generation, installed, leaked,
                          enabled, activation, nextId, exchange>>
           /\ (InExchange' <=> InExchange) /\ (Alive' <=> Alive)
           /\ FlagsInv => FlagsInv'
<1>1. UNCHANGED <<wpc, initialized, started, ejected, generation, installed, leaked, enabled,
                  activation, nextId, exchange>>
    BY DEF worker, flags, usb
<1> QED
    BY <1>1 DEF InExchange, Alive, FlagsInv

\* A Configure is rejected.
LEMMA RejectKept == ASSUME IInv, Reject PROVE Protocol'
<1> USE DEF IInv, Protocol
<1> DEFINE c == Head(toSupervisor)
           r == Record("rejected", c.gen, c.id)
<1>1. TakeConfigure /\ Tell(<<r>>) /\ UNCHANGED <<worker, supervisor>>
    BY DEF Reject
<1>2. r \in Records /\ r.kind = "rejected"
  <2>1. "rejected" \in RecordKind /\ c.gen \in Nat /\ c.id \in Nat
      BY <1>1, ConfigureTaken DEF RecordKind
  <2> QED
      BY <2>1, RecordFields
<1> HIDE DEF r
<1>3. UNCHANGED <<active, phase, answering, bound, configured, link>>
    BY <1>1 DEF supervisor, udc
<1>4. ToSupervisorInv' /\ ToWorkerInv' /\ Alive
    BY <1>1, <1>2, ConfigureTaken, ToldKept
<1>5. ChainInv'
  <2>1. r.kind \notin BusKind
      BY <1>2 DEF BusKind
  <2> QED
      BY <1>1, <1>2, <1>3, <1>4, <2>1, ChainTold, WorkerUnchanged
<1>6. PhaseInv' /\ EjectedInv' /\ RetiredHandlesClosed' /\ BoundInv'
    BY <1>1, <1>3, WorkerUnchanged DEF PhaseInv, EjectedInv, RetiredHandlesClosed, BoundInv
<1> QED
    BY <1>1, <1>4, <1>5, <1>6, WorkerUnchanged

\* The generation is asked to quiesce.
LEMMA RetireKept == ASSUME IInv, Retire PROVE Protocol'
<1> USE DEF IInv, Protocol
<1> DEFINE c == Head(toSupervisor)
           r == Record("quiesce", active, c.id)
<1>1. /\ TakeConfigure /\ Tell(<<r>>) /\ UNCHANGED <<worker, active, link>> /\ active # 0
      /\ ~bound' /\ ~configured' /\ phase' = "quiescing"
      /\ answering'.id = c.id /\ answering'.full = c.full
    BY DEF Retire, Unbind
<1>2. /\ phase = "idle" /\ Alive /\ Alive'
      /\ c.gen \in Nat /\ c.id \in Nat \ {0} /\ c.id < nextId /\ c.full \in BOOLEAN
      /\ InExchange /\ c.id = exchange.id => c.full = (wpc = "configuring")
      /\ ToSupervisorInv'
    BY <1>1, ConfigureTaken
<1>3. r \in Records /\ r.kind = "quiesce" /\ r.id = c.id
  <2>1. "quiesce" \in RecordKind /\ active \in Nat /\ c.id \in Nat
      BY <1>2 DEF RecordKind, TypeOK
  <2> QED
      BY <2>1, RecordFields
<1> HIDE DEF r, c
<1>4. ~ejected
    BY <1>1, <1>2 DEF EjectedInv
<1>5. ToWorkerInv'
    BY <1>1, <1>2, <1>3, <1>4, ToldKept
<1>6. ChainInv'
  <2>1. r.kind \notin BusKind
      BY <1>3 DEF BusKind
  <2> QED
      BY <1>1, <1>2, <1>3, <2>1, ChainTold, WorkerUnchanged
<1>7. PhaseInv' /\ EjectedInv' /\ RetiredHandlesClosed' /\ BoundInv'
    BY <1>1, <1>2, <1>4, WorkerUnchanged
    DEF PhaseInv, EjectedInv, RetiredHandlesClosed, BoundInv
<1> QED
    BY <1>1, <1>2, <1>5, <1>6, <1>7, WorkerUnchanged

\* A generation is created, when no other is open and no answer is on its way.
LEMMA CreateKept ==
    ASSUME IInv, NEW id \in Nat, Create(id), UNCHANGED <<worker, answering, udc>>, Alive,
           ToSupervisorInv', \A i \in 1..Len(toSupervisor') : toSupervisor'[i].kind = "configure",
           installed = 0, phase = "idle" \/ toWorker = <<>>, ~bound
    PROVE  Protocol'
<1> USE DEF IInv, Protocol
<1> DEFINE r == Record("endpoints", newest + 1, id)
<1>1. /\ active' = newest + 1 /\ newest \in Nat /\ phase' = "serving" /\ Tell(<<r>>)
      /\ UNCHANGED <<bound, configured, link>>
    BY DEF Create, TypeOK, udc
<1>2. /\ r \in Records /\ r.kind = "endpoints" /\ r.gen = active' /\ active' # 0
      /\ active' \notin leaked
  <2>1. "endpoints" \in RecordKind /\ newest + 1 \in Nat
      BY DEF RecordKind, TypeOK
  <2>2. r \in Records /\ r.kind = "endpoints" /\ r.gen = newest + 1
      BY <2>1, RecordFields
  <2> HIDE DEF r
  <2>3. newest + 1 \notin leaked
      BY <1>1 DEF LeakedInv, TypeOK
  <2> QED
      BY <1>1, <2>2, <2>3
<1> HIDE DEF r
<1>3. ToWorkerInv'
    BY <1>1, <1>2, ToldKept
<1>4. ChainInv'
  <2>1. r.kind \notin BusKind
      BY <1>2 DEF BusKind
  <2> QED
      BY <1>1, <1>2, <2>1, ChainTold, WorkerUnchanged
<1>5. PhaseInv' /\ EjectedInv' /\ RetiredHandlesClosed' /\ BoundInv'
    BY <1>1, WorkerUnchanged
    DEF PhaseInv, EjectedInv, RetiredHandlesClosed, BoundInv
<1> QED
    BY <1>3, <1>4, <1>5, WorkerUnchanged

LEMMA PublishKept == ASSUME IInv, Publish PROVE Protocol'
<1> USE DEF IInv, Protocol
<1> DEFINE c == Head(toSupervisor)
<1>1. TakeConfigure /\ UNCHANGED <<worker, answering, udc>> /\ active = 0
    BY DEF Publish
<1>2. /\ phase = "idle" /\ Alive /\ c.id \in Nat /\ ToSupervisorInv'
      /\ \A i \in 1..Len(toSupervisor') : toSupervisor'[i].kind = "configure"
    BY <1>1, ConfigureTaken
<1>3. ~bound /\ installed = 0
    BY <1>1 DEF PhaseInv, RetiredHandlesClosed
<1>4. CASE Create(c.id)
    BY <1>1, <1>2, <1>3, <1>4, CreateKept
<1>5. CASE UNCHANGED <<newest, active, phase, toWorker>>
  <2>1. UNCHANGED <<bound, configured, link>>
      BY <1>1 DEF udc
  <2>2. ToWorkerInv' /\ ChainInv'
    <3>1. UNCHANGED <<toWorker, generation, installed, leaked, active, phase, answering, ejected, activation>>
        BY <1>1, <1>5, WorkerUnchanged
    <3>2. ToWorkerInv'
        BY <3>1 DEF ToWorkerInv
    <3>3. ChainInv'
        BY <1>1, <2>1, <3>1, WorkerUnchanged DEF ChainInv, Follows
    <3> QED
        BY <3>2, <3>3
  <2>3. PhaseInv' /\ EjectedInv' /\ RetiredHandlesClosed' /\ BoundInv'
      BY <1>1, <1>5, <2>1, WorkerUnchanged
      DEF PhaseInv, EjectedInv, RetiredHandlesClosed, BoundInv
  <2> QED
      BY <1>1, <1>2, <2>2, <2>3, WorkerUnchanged
<1> QED
    BY <1>4, <1>5 DEF Publish

LEMMA ReplaceKept == ASSUME IInv, Replace PROVE Protocol'
<1> USE DEF IInv, Protocol
<1>1. /\ phase = "quiescing" /\ toSupervisor # <<>> /\ toSupervisor' = Tail(toSupervisor)
      /\ Head(toSupervisor).kind = "quiesced" /\ Alive
      /\ UNCHANGED <<worker, answering, udc>>
    BY DEF Replace
<1>2. Head(toSupervisor) = toSupervisor[1] /\ 1 \in 1..Len(toSupervisor)
    BY <1>1, Taken DEF TypeOK
<1>3. installed = 0 /\ toWorker = <<>> /\ ~bound
    BY <1>1, <1>2 DEF ToSupervisorInv, PhaseInv, Answer
<1>4. /\ ToSupervisorInv'
      /\ \A i \in 1..Len(toSupervisor') : toSupervisor'[i].kind = "configure"
    BY <1>1, ConfiguresLeft DEF Answer
<1>5. CASE Create(answering.id)
  <2>1. answering.id \in Nat
      BY DEF TypeOK
  <2> QED
      BY <1>1, <1>3, <1>4, <1>5, <2>1, CreateKept
<1>6. CASE active' = 0 /\ phase' = "idle" /\ UNCHANGED <<newest, toWorker>>
  <2>1. UNCHANGED <<bound, configured, link>>
      BY <1>1 DEF udc
  <2>2. ToWorkerInv'
      BY <1>3, <1>6 DEF ToWorkerInv
  <2>3. ChainInv'
      BY <1>1, <1>6, <2>1, WorkerUnchanged DEF ChainInv, Follows
  <2>4. PhaseInv' /\ EjectedInv' /\ RetiredHandlesClosed' /\ BoundInv'
      BY <1>1, <1>3, <1>6, <2>1, WorkerUnchanged
      DEF PhaseInv, EjectedInv, RetiredHandlesClosed, BoundInv
  <2> QED
      BY <1>1, <1>4, <2>2, <2>3, <2>4, WorkerUnchanged
<1> QED
    BY <1>5, <1>6 DEF Replace

LEMMA BindKept == ASSUME IInv, Bind PROVE Protocol'
<1> USE DEF IInv, Protocol
<1> DEFINE r == BusRecord("bind", link)
<1>1. /\ phase = "serving" /\ toSupervisor # <<>> /\ toSupervisor' = Tail(toSupervisor)
      /\ Head(toSupervisor).kind = "serving" /\ Alive /\ Tell(<<r>>)
      /\ UNCHANGED <<worker, active, answering, link>>
      /\ bound' /\ ~configured' /\ phase' = "idle"
    BY DEF Bind
<1>2. Head(toSupervisor) = toSupervisor[1] /\ 1 \in 1..Len(toSupervisor)
    BY <1>1, Taken DEF TypeOK
<1>3. /\ generation = active /\ active # 0
      /\ toWorker = <<>> /\ ~bound /\ ~ejected
    BY <1>1, <1>2 DEF ToSupervisorInv, PhaseInv, Answer
<1>4. ToSupervisorInv'
    BY <1>1, ConfiguresLeft DEF Answer
<1>5. r \in Records /\ r.kind = "bind" /\ r.gen = generation /\ r.act = link
  <2>1. "bind" \in BusKind /\ link \in Nat
      BY DEF BusKind, TypeOK
  <2> QED
      BY <1>3, <2>1, BusRecordFields
<1> HIDE DEF r
<1>6. "bind" \in BusKind
    BY DEF BusKind
<1>7. ToWorkerInv'
    BY <1>1, <1>3, <1>5, <1>6, ToldKept
<1>8. ChainInv'
    BY <1>1, <1>5, <1>6, ChainTold, WorkerUnchanged
<1>9. PhaseInv' /\ EjectedInv' /\ RetiredHandlesClosed' /\ BoundInv'
    BY <1>1, <1>3, WorkerUnchanged
    DEF PhaseInv, EjectedInv, RetiredHandlesClosed, BoundInv
<1> QED
    BY <1>1, <1>4, <1>7, <1>8, <1>9, WorkerUnchanged

LEMMA HostKept ==
    ASSUME IInv, NEW kind \in BusKind \ {"bind"}, HostEvent(kind)
    PROVE  Protocol'
<1> USE DEF IInv, Protocol
<1> DEFINE r == BusRecord(kind, link')
<1>1. /\ Alive /\ bound /\ phase = "idle" /\ Tell(<<r>>)
      /\ UNCHANGED <<worker, active, phase, answering, bound, toSupervisor>>
      /\ link' \in Nat /\ (kind \in {"suspend", "resume"} => link' = link)
    BY DEF HostEvent, TypeOK
<1>2. /\ r \in Records /\ r.kind = kind /\ r.gen = active /\ r.act = link'
    BY <1>1, BusRecordFields
<1> HIDE DEF r
<1>3. generation = active
    BY <1>1 DEF BoundInv
<1>4. ToSupervisorInv'
    BY <1>1, ConfiguresLeft
<1>5. ToWorkerInv'
    BY <1>1, <1>2, <1>3, ToldKept
<1>6. ChainInv'
    BY <1>1, <1>2, ChainTold, WorkerUnchanged
<1>7. PhaseInv' /\ EjectedInv' /\ RetiredHandlesClosed' /\ BoundInv'
    BY <1>1, WorkerUnchanged
    DEF PhaseInv, EjectedInv, RetiredHandlesClosed, BoundInv
<1> QED
    BY <1>1, <1>4, <1>5, <1>6, <1>7, WorkerUnchanged

LEMMA ServiceEndKept == ASSUME IInv, Shutdown \/ SupervisorFails \/ Overtaken PROVE Protocol'
<1> USE DEF IInv, Protocol
<1>1. /\ Alive /\ UNCHANGED <<worker, active, answering, toSupervisor, link>>
      /\ ~bound' /\ ~configured' /\ phase' \in {"ending", "gone"}
    BY DEF Shutdown, SupervisorFails, Overtaken, Unbind
<1>2. PhaseInv' /\ EjectedInv' /\ RetiredHandlesClosed' /\ BoundInv'
    BY <1>1, WorkerUnchanged
    DEF PhaseInv, EjectedInv, RetiredHandlesClosed, BoundInv
<1>3. CASE Shutdown
  <2> DEFINE r == Record("quiesce", newest, 0)
  <2>1. phase = "idle" /\ phase' = "ending" /\ Tell(<<r>>)
      BY <1>3 DEF Shutdown
  <2>2. r \in Records /\ r.kind = "quiesce" /\ r.id = 0
    <3>1. "quiesce" \in RecordKind /\ newest \in Nat
        BY DEF RecordKind, TypeOK
    <3> QED
        BY <3>1, RecordFields
  <2> HIDE DEF r
  <2>3. ToWorkerInv'
      BY <1>1, <2>1, <2>2, ToldKept
  <2>4. ToSupervisorInv'
      BY <1>1, <2>1, ConfiguresLeft
  <2>5. ChainInv'
    <3>1. r.kind \notin BusKind
        BY <2>2 DEF BusKind
    <3> QED
        BY <1>1, <2>1, <2>2, <3>1, ChainTold, WorkerUnchanged
  <2> QED
      BY <1>1, <1>2, <2>3, <2>4, <2>5, WorkerUnchanged
<1>4. CASE SupervisorFails \/ Overtaken
  <2>1. phase' = "gone" /\ UNCHANGED toWorker
      BY <1>4 DEF SupervisorFails, Overtaken
  <2>2. UNCHANGED <<wpc, nextId, exchange, generation, installed, leaked, started, ejected,
                    activation>>
      BY <1>1, WorkerUnchanged
  <2>3. ToWorkerInv'
      BY <1>1, <2>1, <2>2 DEF ToWorkerInv
  <2>4. ToSupervisorInv'
      BY <1>1, <2>1, <2>2, WorkerUnchanged DEF ToSupervisorInv
  <2>5. ChainInv'
      BY <1>1, <2>1, WorkerUnchanged DEF ChainInv, Follows
  <2> QED
      BY <1>1, <1>2, <2>3, <2>4, <2>5, WorkerUnchanged
<1> QED
    BY <1>3, <1>4
-----------------------------------------------------------------------------
(* The helpers run as the host configured.                                 *)

\* A record was handled, and the helpers with it.
LEMMA ServedTaken ==
    ASSUME IInv, toWorker # <<>>, toWorker' = Tail(toWorker), Following,
           enabled' \in BOOLEAN, UNCHANGED configured,
           LET kind == Head(toWorker).kind
           IN  IF kind \in Toggle THEN enabled' = (kind = "enable") ELSE UNCHANGED enabled
    PROVE  Following'
<1>1. /\ Len(toWorker) \in Nat \ {0} /\ Len(toWorker') = Len(toWorker) - 1
      /\ \A i \in 1..Len(toWorker') : toWorker'[i] = toWorker[i + 1] /\ i + 1 \in 1..Len(toWorker)
      /\ Head(toWorker) = toWorker[1] /\ 1 \in 1..Len(toWorker)
    BY Taken DEF IInv, TypeOK
<1>2. \A i \in 1..Len(toWorker) : i # 1 => i - 1 \in 1..Len(toWorker') /\ toWorker[i] = toWorker'[i - 1]
    BY <1>1
<1>3. ASSUME \A i \in 1..Len(toWorker') : toWorker'[i].kind \notin Toggle
      PROVE  enabled' = configured
  <2>1. \A i \in 1..Len(toWorker) : i # 1 => toWorker[i].kind \notin Toggle
      BY <1>2, <1>3
  <2>2. CASE Head(toWorker).kind \in Toggle
    <3>1. \A j \in 1..Len(toWorker) : j > 1 => toWorker[j].kind \notin Toggle
        BY <1>1, <2>1
    <3>2. configured = (toWorker[1].kind = "enable")
        BY <1>1, <2>2, <3>1 DEF Following, NoneAfter
    <3> QED
        BY <1>1, <2>2, <3>2
  <2>3. CASE Head(toWorker).kind \notin Toggle
    <3>1. \A i \in 1..Len(toWorker) : toWorker[i].kind \notin Toggle
        BY <1>1, <2>1, <2>3
    <3> QED
        BY <2>3, <3>1 DEF Following
  <2> QED
      BY <2>2, <2>3
<1>4. ASSUME NEW i \in 1..Len(toWorker'), toWorker'[i].kind \in Toggle,
             \A j \in 1..Len(toWorker') : j > i => toWorker'[j].kind \notin Toggle
      PROVE  configured = (toWorker'[i].kind = "enable")
  <2>1. i \in Nat \ {0} /\ i + 1 \in 1..Len(toWorker) /\ toWorker'[i] = toWorker[i + 1]
      BY <1>1
  <2>2. ASSUME NEW j \in 1..Len(toWorker), j > i + 1 PROVE toWorker[j].kind \notin Toggle
    <3>1. j # 1 /\ j - 1 > i
        BY <2>1, <2>2
    <3> QED
        BY <1>2, <1>4, <3>1
  <2> QED
      BY <1>4, <2>1, <2>2 DEF Following, NoneAfter
<1> QED
    BY <1>3, <1>4 DEF Following, NoneAfter

\* A record is told, and what the host configured with it.
LEMMA ServedTold ==
    ASSUME IInv, NEW r \in Records, Tell(<<r>>), UNCHANGED enabled,
           IF r.kind \in Toggle THEN configured' = (r.kind = "enable")
           ELSE Following /\ UNCHANGED configured
    PROVE  Following'
<1>1. /\ Len(toWorker) \in Nat /\ Len(toWorker') = Len(toWorker) + 1
      /\ \A i \in 1..Len(toWorker) : toWorker'[i] = toWorker[i] /\ i \in 1..Len(toWorker')
      /\ toWorker'[Len(toWorker')] = r /\ Len(toWorker') \in 1..Len(toWorker')
      /\ \A i \in 1..Len(toWorker') : i = Len(toWorker') \/ i \in 1..Len(toWorker)
    BY Told DEF IInv
<1>2. CASE r.kind \in Toggle
  <2>1. ~\A i \in 1..Len(toWorker') : toWorker'[i].kind \notin Toggle
      BY <1>1, <1>2
  <2>2. ASSUME NEW i \in 1..Len(toWorker'), NoneAfter(i)' PROVE toWorker'[i] = r
    <3>1. CASE i \in 1..Len(toWorker)
        BY <1>1, <1>2, <2>2, <3>1 DEF NoneAfter
    <3> QED
        BY <1>1, <3>1
  <2> QED
      BY <1>2, <2>1, <2>2 DEF Following
<1>3. CASE r.kind \notin Toggle
  <2>1. ASSUME \A i \in 1..Len(toWorker') : toWorker'[i].kind \notin Toggle
        PROVE  enabled' = configured'
      BY <1>1, <1>3, <2>1 DEF Following
  <2>2. ASSUME NEW i \in 1..Len(toWorker'), toWorker'[i].kind \in Toggle, NoneAfter(i)'
        PROVE  configured' = (toWorker'[i].kind = "enable")
    <3>1. i \in 1..Len(toWorker) /\ toWorker'[i] = toWorker[i]
        BY <1>1, <1>3, <2>2
    <3>2. NoneAfter(i)
        BY <1>1, <2>2 DEF NoneAfter
    <3> QED
        BY <1>3, <2>2, <3>1, <3>2 DEF Following
  <2> QED
      BY <2>1, <2>2 DEF Following
<1> QED
    BY <1>2, <1>3

\* Nobody is served: the worker has ended, the gadget is hidden or Core has stopped.
Unserved == ~Alive' \/ ~bound' \/ ~started'

LEMMA PassServed == ASSUME IInv, PassWithRecord PROVE ServedInv'
<1> DEFINE r == Head(toWorker)
<1>1. /\ toWorker # <<>> /\ toWorker' = Tail(toWorker) /\ wpc = "core"
      /\ UNCHANGED <<bound, active, configured, phase>>
    BY DEF PassWithRecord, supervisor, udc
<1>2. r = toWorker[1] /\ 1 \in 1..Len(toWorker)
    BY <1>1, Taken DEF IInv, TypeOK
<1>3. CASE r.kind \in BusKind /\ HandleBusEvent(r) /\ UNCHANGED flags
  <2> SUFFICES ASSUME bound, started PROVE installed' = active' /\ Following'
      BY <1>1, <1>3 DEF ServedInv, flags
  <2>1. installed = active /\ Following
      BY <1>1 DEF IInv, ServedInv, Alive, Ended
  <2>2. IF r.kind \in Toggle THEN enabled' = (r.kind = "enable") ELSE enabled' = enabled
    <3>1. enabled \in BOOLEAN
        BY DEF IInv, TypeOK
    <3>2. CASE r.kind = "enable"
      <4>1. enabled' = TRUE
          BY <1>3, <3>2, Zenon DEF HandleBusEvent
      <4> QED
          BY <3>2, <4>1 DEF Toggle
    <3>3. CASE r.kind \in {"bind", "disable"}
      <4>1. r.kind # "enable" /\ r.kind \notin {"suspend", "resume"}
          BY <3>3
      <4>2. enabled' = FALSE
          BY <1>3, <4>1, Zenon DEF HandleBusEvent
      <4> QED
          BY <3>3, <4>2 DEF Toggle
    <3>4. CASE r.kind \in {"suspend", "resume"}
      <4>1. r.kind # "enable" /\ r.kind \notin Toggle
          BY <3>4 DEF Toggle
      <4>2. enabled' = enabled
          BY <1>3, <3>1, <3>4, <4>1, Zenon DEF HandleBusEvent
      <4> QED
          BY <4>1, <4>2
    <3> QED
        BY <1>3, <3>2, <3>3, <3>4 DEF BusKind
  <2>3. enabled' \in BOOLEAN
      BY <1>3, Zenon DEF HandleBusEvent
  <2>4. Following'
      BY <1>1, <2>1, <2>2, <2>3, ServedTaken
  <2> QED
      BY <1>1, <1>3, <2>1, <2>4 DEF HandleBusEvent
<1>4. CASE r.kind = "quiesce" /\ r.id # 0
  <2>1. ~bound
      BY <1>2, <1>4 DEF IInv, Protocol, ToWorkerInv, PhaseInv
  <2> QED
      BY <1>1, <2>1 DEF ServedInv
<1>5. CASE wpc' \in Ended
    BY <1>5 DEF ServedInv, Alive
<1> QED
    BY <1>3, <1>4, <1>5 DEF PassWithRecord, WorkerEnds, Ended

LEMMA ServedKept == ASSUME IInv, Step PROVE ServedInv'
<1>1. ASSUME UNCHANGED <<started, installed, active, bound>>, Alive' => Alive,
             Following => Following'
      PROVE  ServedInv'
    BY <1>1 DEF IInv, ServedInv
<1>2. ASSUME Unserved PROVE ServedInv'
    BY <1>2 DEF Unserved, ServedInv
<1>3. CASE \/ PassWithoutRecord \/ NoEdge \/ DrainEdges \/ SampleLevel \/ PassEnds \/ Eject
           \/ Insert \/ Key3Moves \/ UNCHANGED vars
  <2>1. UNCHANGED <<started, installed, active, bound, enabled, configured, toWorker>>
      BY <1>3 DEF PassWithoutRecord, NoEdge, DrainEdges, SampleLevel, PassEnds, Eject, Insert,
                  Key3Moves, vars, worker, flags, usb, supervisor, udc
  <2>2. Alive' => Alive
      BY <1>3 DEF PassWithoutRecord, NoEdge, DrainEdges, SampleLevel, PassEnds, Eject, Insert,
                  Key3Moves, vars, worker, Alive, Ended
  <2>3. Following => Following'
      BY <2>1 DEF Following, NoneAfter
  <2> QED
      BY <1>1, <2>1, <2>2, <2>3
<1>4. CASE PassWithRecord
    BY <1>4, PassServed
<1>5. CASE Unexpected \/ ConnectionLost
  <2>1. ~Alive'
      BY <1>5 DEF Unexpected, ConnectionLost, WorkerEnds, Alive, Ended
  <2> QED
      BY <1>2, <2>1 DEF Unserved
<1>6. CASE CoreCalls
  <2>1. ~started'
      BY <1>6 DEF CoreCalls, UsbInit, UsbStart, UsbStop, IInv, Protocol, FlagsInv
  <2> QED
      BY <1>2, <2>1 DEF Unserved
<1>7. CASE Retire \/ Shutdown \/ SupervisorFails \/ Overtaken
  <2>1. ~bound'
      BY <1>7 DEF Retire, Shutdown, SupervisorFails, Overtaken, Unbind
  <2> QED
      BY <1>2, <2>1 DEF Unserved
<1>8. CASE Quiesced \/ Installed \/ Publish \/ Replace
  <2>1. UNCHANGED bound
      BY <1>8 DEF Quiesced, Installed, Publish, Replace, supervisor, udc
  <2>2. ~bound
    <3>1. CASE Quiesced \/ Installed
      <4>1. toWorker # <<>> /\ Head(toWorker).kind \in {"quiesce", "endpoints"}
          BY <3>1 DEF Quiesced, Installed, Receives, IsQuiesce, IsEndpoints, IsAnswer
      <4>2. Head(toWorker) = toWorker[1] /\ 1 \in 1..Len(toWorker)
          BY <4>1, Taken DEF IInv, TypeOK
      <4>3. phase # "idle"
          BY <4>1, <4>2 DEF IInv, Protocol, ToWorkerInv
      <4> QED
          BY <4>3 DEF IInv, Protocol, PhaseInv
    <3>2. CASE Publish \/ Replace
        BY <3>2 DEF Publish, Replace, IInv, Protocol, PhaseInv
    <3> QED
        BY <1>8, <3>1, <3>2
  <2> QED
      BY <1>2, <2>1, <2>2 DEF Unserved
<1>9. CASE Rejected
  <2>1. CASE WorkerEnds("dead")
    <3>1. ~Alive'
        BY <2>1 DEF WorkerEnds, Alive, Ended
    <3> QED
        BY <1>2, <3>1 DEF Unserved
  <2>2. CASE wpc' = "core" /\ UNCHANGED <<flags, usb>>
    <3>1. /\ toWorker # <<>> /\ toWorker' = Tail(toWorker) /\ Head(toWorker).kind = "rejected"
          /\ UNCHANGED <<started, installed, active, bound, enabled, configured>>
        BY <1>9, <2>2 DEF Rejected, Receives, IsRejection, IsAnswer, flags, usb, supervisor, udc
    <3>2. "rejected" \notin Toggle /\ enabled' \in BOOLEAN
        BY <3>1 DEF Toggle, IInv, TypeOK
    <3>3. Following => Following'
        BY <3>1, <3>2, ServedTaken
    <3>4. Alive' => Alive
        BY <1>9 DEF Rejected, Receives, Alive, Ended
    <3> QED
        BY <1>1, <3>1, <3>3, <3>4
  <2> QED
      BY <1>9, <2>1, <2>2 DEF Rejected
<1>10. CASE Reject
  <2> DEFINE c == Head(toSupervisor)
             r == Record("rejected", c.gen, c.id)
  <2>1. TakeConfigure /\ Tell(<<r>>) /\ UNCHANGED <<worker, supervisor>>
      BY <1>10 DEF Reject
  <2>2. r \in Records /\ r.kind \notin Toggle
    <3>1. "rejected" \in RecordKind /\ c.gen \in Nat /\ c.id \in Nat /\ "rejected" \notin Toggle
        BY <2>1, ConfigureTaken DEF RecordKind, Toggle
    <3> QED
        BY <3>1, RecordFields
  <2> HIDE DEF r
  <2>3. UNCHANGED <<started, installed, active, bound, enabled, configured>> /\ (Alive' <=> Alive)
      BY <2>1, WorkerUnchanged DEF supervisor, udc
  <2>4. Following => Following'
      BY <2>1, <2>2, <2>3, ServedTold
  <2> QED
      BY <1>1, <2>3, <2>4
<1>11. CASE Bind
  <2> DEFINE r == BusRecord("bind", link)
  <2>1. /\ toSupervisor # <<>> /\ Head(toSupervisor).kind = "serving" /\ Alive /\ Tell(<<r>>)
        /\ UNCHANGED worker /\ active' = active /\ configured' = FALSE
      BY <1>11 DEF Bind
  <2>2. Head(toSupervisor) = toSupervisor[1] /\ 1 \in 1..Len(toSupervisor)
      BY <2>1, Taken DEF IInv, TypeOK
  <2>3. started => installed = active
      BY <2>1, <2>2 DEF IInv, Protocol, ToSupervisorInv
  <2>4. r \in Records /\ r.kind = "bind"
    <3>1. "bind" \in BusKind /\ link \in Nat
        BY DEF BusKind, IInv, TypeOK
    <3> QED
        BY <3>1, BusRecordFields DEF IInv
  <2> HIDE DEF r
  <2>5. r.kind \in Toggle /\ configured' = (r.kind = "enable")
      BY <2>1, <2>4 DEF Toggle
  <2>6. Following'
      BY <2>1, <2>4, <2>5, ServedTold, WorkerUnchanged
  <2> QED
      BY <2>1, <2>3, <2>6, WorkerUnchanged DEF ServedInv
<1>12. CASE \E kind \in BusKind \ {"bind"} : HostEvent(kind)
  <2> PICK kind \in BusKind \ {"bind"} : HostEvent(kind)
      BY <1>12
  <2> DEFINE r == BusRecord(kind, link')
  <2>1. Tell(<<r>>) /\ UNCHANGED <<worker, active, bound>> /\ link' \in Nat
      BY DEF HostEvent, IInv, TypeOK
  <2>2. r \in Records /\ r.kind = kind
      BY <2>1, BusRecordFields DEF IInv
  <2> HIDE DEF r
  <2>3. IF kind \in Toggle THEN configured' = (kind = "enable") ELSE configured' = configured
    <3>1. kind \in {"enable", "disable", "suspend", "resume"}
        BY DEF BusKind
    <3>2. CASE kind = "enable"
        BY <3>2 DEF HostEvent, Toggle
    <3>3. CASE kind = "disable"
        BY <3>3 DEF HostEvent, Toggle
    <3>4. CASE kind \in {"suspend", "resume"}
        BY <3>4 DEF HostEvent, Toggle
    <3> QED
        BY <3>1, <3>2, <3>3, <3>4
  <2>4. Following => Following'
      BY <2>1, <2>2, <2>3, ServedTold, WorkerUnchanged
  <2> QED
      BY <1>1, <2>1, <2>4, WorkerUnchanged
<1> QED
    BY <1>3, <1>4, <1>5, <1>6, <1>7, <1>8, <1>9, <1>10, <1>11, <1>12
    DEF Step, Next, Terminated, WorkerServes, SupervisorAnswers

LEMMA LeakedKept == ASSUME IInv, Step PROVE LeakedInv'
<1> USE DEF IInv
<1>1. /\ active \in Nat /\ newest \in Nat /\ installed \in Nat /\ leaked \subseteq Nat
      /\ active <= newest /\ (\A gen \in leaked : gen <= newest)
    BY DEF TypeOK, LeakedInv
<1>2. installed # 0 => installed <= newest
    BY <1>1 DEF Protocol, RetiredHandlesClosed
<1>3. CASE WorkerServes
  <2>1. UNCHANGED <<active, newest>>
      BY <1>3
      DEF WorkerServes, PassWithoutRecord, PassWithRecord, NoEdge, DrainEdges, SampleLevel, Eject,
          Insert, PassEnds, Rejected, Quiesced, Installed, Unexpected, ConnectionLost, supervisor
  <2>2. leaked' \in {leaked, {}}
      BY <1>3
      DEF WorkerServes, PassWithoutRecord, PassWithRecord, NoEdge, DrainEdges, SampleLevel, Eject,
          Insert, PassEnds, Rejected, Quiesced, Installed, Unexpected, ConnectionLost, usb,
          WorkerEnds, HandleBusEvent, CloseAndAnswer
  <2> QED
      BY <1>1, <2>1, <2>2 DEF LeakedInv
<1>4. CASE CoreCalls
  <2>1. UNCHANGED <<active, newest>> /\ leaked' \subseteq leaked \cup ({installed} \ {0})
      BY <1>4 DEF CoreCalls, UsbInit, UsbStart, UsbStop, supervisor
  <2> QED
      BY <1>1, <1>2, <2>1 DEF LeakedInv
<1>5. CASE UNCHANGED leaked /\ newest' \in Nat /\ newest <= newest' /\ active' \in {active, newest', 0}
    BY <1>1, <1>5 DEF LeakedInv
<1>6. CASE \/ SupervisorAnswers \/ Shutdown \/ SupervisorFails \/ Key3Moves \/ UNCHANGED vars
           \/ \E kind \in BusKind \ {"bind"} : HostEvent(kind)
  <2>1. UNCHANGED leaked
      BY <1>6 DEF SupervisorAnswers, Reject, Retire, Publish, Replace, Bind, Overtaken, Shutdown,
                  SupervisorFails, Key3Moves, HostEvent, vars, worker, usb
  <2>2. UNCHANGED <<active, newest>> \/ (newest' = newest + 1 /\ active' = newest')
        \/ (newest' = newest /\ active' = 0)
      BY <1>6 DEF SupervisorAnswers, Reject, Retire, Publish, Replace, Bind, Overtaken, Shutdown,
                  SupervisorFails, Key3Moves, HostEvent, Create, vars, supervisor
  <2> QED
      BY <1>1, <1>5, <2>1, <2>2
<1> QED
    BY <1>3, <1>4, <1>6 DEF Step, Next, Terminated
-----------------------------------------------------------------------------
(* The theorems.                                                           *)

LEMMA ProtocolKept == ASSUME IInv, Step PROVE Protocol'
<1>1. CASE \/ PassWithoutRecord \/ NoEdge \/ DrainEdges \/ SampleLevel \/ PassEnds \/ Key3Moves
           \/ UNCHANGED vars
  <2>1. Quiet
      BY <1>1
      DEF Quiet, PassWithoutRecord, NoEdge, DrainEdges, SampleLevel, PassEnds, Key3Moves,
          vars, worker, flags, key3, usb, supervisor, udc, button
  <2> QED
      BY <2>1, QuietKept DEF IInv
<1>2. CASE WorkerServes
    BY <1>1, <1>2, PassKept, KeyKept, RejectedKept, QuiescedKept, InstalledKept, LostKept
    DEF WorkerServes
<1>3. CASE SupervisorAnswers
    BY <1>3, RejectKept, RetireKept, PublishKept, ReplaceKept, BindKept, ServiceEndKept
    DEF SupervisorAnswers
<1> QED
    BY <1>1, <1>2, <1>3, CallKept, HostKept, ServiceEndKept DEF Step, Next, Terminated

LEMMA Invariant == Spec => []IInv
<1>1. Init => IInv
  <2>1. Init => ServedInv /\ LeakedInv
      BY DEF Init, ServedInv, LeakedInv
  <2> QED
      BY <2>1, InitTyped, InitProtocol DEF IInv
<1>2. IInv /\ [Next \/ Terminated]_vars => IInv'
    BY TypeKept, ProtocolKept, ServedKept, LeakedKept DEF IInv, Step
<1> QED
    BY <1>1, <1>2, PTL DEF Spec

-----------------------------------------------------------------------------
(* The life of a generation: each step is one of UsbGenerations, or none.   *)

Kept == UNCHANGED <<active, newest, installed, leaked, bound>>
Allowed == Generations!Next \/ UNCHANGED Generations!generations

LEMMA Stutter == ASSUME Kept, Offered' <=> Offered PROVE Allowed
BY DEF Kept, Allowed, Generations!generations

\* Descriptors on their way are for a generation the host does not see, and no
\* others are open.
LEMMA OfferedClosed ==
    ASSUME IInv, Offered
    PROVE  installed = 0 /\ ~bound /\ phase \in {"serving", "gone"}
BY DEF IInv, Protocol, ToWorkerInv, PhaseInv, Offered

LEMMA OfferedTaken ==
    ASSUME IInv, toWorker # <<>>, toWorker' = Tail(toWorker)
    PROVE  IF Head(toWorker).kind = "endpoints" THEN Offered /\ ~Offered' ELSE Offered' <=> Offered
<1>1. /\ Len(toWorker) \in Nat \ {0} /\ Len(toWorker') = Len(toWorker) - 1
      /\ \A i \in 1..Len(toWorker') : toWorker'[i] = toWorker[i + 1] /\ i + 1 \in 1..Len(toWorker)
      /\ Head(toWorker) = toWorker[1] /\ 1 \in 1..Len(toWorker)
      /\ Head(toWorker).kind \in {"quiesce", "endpoints"} => toWorker' = <<>>
    BY Received DEF IInv, Protocol
<1>2. \A i \in 1..Len(toWorker) : i # 1 => i - 1 \in 1..Len(toWorker') /\ toWorker[i] = toWorker'[i - 1]
    BY <1>1
<1>3. CASE Head(toWorker).kind = "endpoints"
  <2>1. toWorker[1].kind = "endpoints" /\ 1 \in 1..Len(toWorker)
      BY <1>1, <1>3
  <2>2. Len(toWorker') = 0
      BY <1>1, <1>3
  <2>3. Offered
      BY <2>1 DEF Offered
  <2>4. ~Offered'
    <3>1. ASSUME NEW n, n = 0 PROVE 1..n = {}
        BY <3>1
    <3>2. 1..Len(toWorker') = {}
        BY <2>2, <3>1, Zenon
    <3> QED
        BY <3>2, Zenon DEF Offered
  <2> QED
      BY <1>3, <2>3, <2>4
<1>4. CASE Head(toWorker).kind # "endpoints"
  <2>1. ASSUME Offered PROVE Offered'
    <3>1. PICK i \in 1..Len(toWorker) : toWorker[i].kind = "endpoints"
        BY <2>1 DEF Offered
    <3>2. i # 1
        BY <1>1, <1>4, <3>1
    <3> QED
        BY <1>2, <3>1, <3>2 DEF Offered
  <2>2. ASSUME Offered' PROVE Offered
    <3>1. PICK i \in 1..Len(toWorker') : toWorker'[i].kind = "endpoints"
        BY <2>2 DEF Offered
    <3> QED
        BY <1>1, <3>1 DEF Offered
  <2> QED
      BY <1>4, <2>1, <2>2
<1> QED
    BY <1>3, <1>4

LEMMA OfferedTold ==
    ASSUME TypeOK, NEW r \in Records, Tell(<<r>>)
    PROVE  IF r.kind = "endpoints" THEN Offered' ELSE Offered' <=> Offered
<1>1. /\ Len(toWorker) \in Nat /\ Len(toWorker') = Len(toWorker) + 1
      /\ \A i \in 1..Len(toWorker) : toWorker'[i] = toWorker[i] /\ i \in 1..Len(toWorker')
      /\ toWorker'[Len(toWorker')] = r /\ Len(toWorker') \in 1..Len(toWorker')
      /\ \A i \in 1..Len(toWorker') : i = Len(toWorker') \/ i \in 1..Len(toWorker)
    BY Told
<1>2. r.kind = "endpoints" => Offered'
    BY <1>1 DEF Offered
<1>3. Offered => Offered'
    BY <1>1 DEF Offered
<1>4. r.kind # "endpoints" /\ Offered' => Offered
    BY <1>1 DEF Offered
<1> QED
    BY <1>2, <1>3, <1>4

\* The worker ends, whatever it had and was to receive.
LEMMA EndStep ==
    ASSUME IInv, installed' = 0, leaked' = {}, UNCHANGED <<active, newest, bound>>,
           \/ UNCHANGED toWorker
           \/ toWorker # <<>> /\ toWorker' = Tail(toWorker)
    PROVE  Allowed
<1>1. UNCHANGED toWorker => (Offered' <=> Offered)
    BY DEF Offered
<1>2. Offered' => Offered
    BY <1>1, OfferedTaken
<1> QED
    BY <1>2 DEF Allowed, Generations!Next, Generations!End

\* The descriptors are closed by an answer.
LEMMA CloseStep ==
    ASSUME IInv, installed' = 0, UNCHANGED <<active, newest, leaked, bound>>, Offered' <=> Offered
    PROVE  Allowed
<1>1. CASE installed = 0
    BY <1>1, Stutter DEF Kept
<1>2. CASE installed # 0
    BY <1>2 DEF Allowed, Generations!Next, Generations!Close
<1> QED
    BY <1>1, <1>2

LEMMA WorkerStep == ASSUME IInv, WorkerServes PROVE Allowed
<1>1. UNCHANGED <<active, newest, bound>>
    BY DEF WorkerServes, PassWithoutRecord, PassWithRecord, NoEdge, DrainEdges, SampleLevel, Eject,
           Insert, PassEnds, Rejected, Quiesced, Installed, Unexpected, ConnectionLost, supervisor, udc
<1>2. CASE UNCHANGED <<installed, leaked, toWorker>>
  <2>1. Offered' <=> Offered
      BY <1>2 DEF Offered
  <2> QED
      BY <1>1, <1>2, <2>1, Stutter DEF Kept
<1>3. CASE PassWithoutRecord \/ NoEdge \/ DrainEdges \/ SampleLevel \/ PassEnds \/ Eject \/ Insert
    BY <1>2, <1>3
    DEF PassWithoutRecord, NoEdge, DrainEdges, SampleLevel, PassEnds, Eject, Insert, usb
<1>4. CASE PassWithRecord \/ Rejected \/ Quiesced \/ Unexpected \/ ConnectionLost
  <2>1. CASE \E how \in Ended : WorkerEnds(how)
    <3>1. UNCHANGED toWorker \/ (toWorker # <<>> /\ toWorker' = Tail(toWorker))
        BY <1>4 DEF PassWithRecord, Rejected, Quiesced, Unexpected, ConnectionLost, Receives
    <3>2. installed' = 0 /\ leaked' = {}
        BY <2>1 DEF WorkerEnds
    <3> QED
        BY <1>1, <3>1, <3>2, EndStep
  <2>2. CASE /\ UNCHANGED leaked /\ installed' \in {installed, 0}
             /\ toWorker # <<>> /\ toWorker' = Tail(toWorker)
             /\ Head(toWorker).kind # "endpoints"
    <3>1. Offered' <=> Offered
        BY <2>2, OfferedTaken
    <3>2. CASE installed' = installed
        BY <1>1, <2>2, <3>1, <3>2, Stutter DEF Kept
    <3>3. CASE installed' = 0
        BY <1>1, <2>2, <3>1, <3>3, CloseStep
    <3> QED
        BY <2>2, <3>2, <3>3
  <2>3. CASE PassWithRecord
      BY <2>1, <2>2, <2>3 DEF PassWithRecord, HandleBusEvent, CloseAndAnswer, BusKind, Ended
  <2>4. CASE Rejected
      BY <2>1, <2>2, <2>4 DEF Rejected, Receives, IsRejection, IsAnswer, Ended, usb
  <2>5. CASE Quiesced
      BY <2>2, <2>5 DEF Quiesced, Receives, IsQuiesce, IsAnswer, CloseAndAnswer
  <2>6. CASE Unexpected \/ ConnectionLost
      BY <2>1, <2>6 DEF Unexpected, ConnectionLost, Ended
  <2> QED
      BY <1>4, <2>3, <2>4, <2>5, <2>6
<1>5. CASE Installed
  <2>1. /\ toWorker # <<>> /\ toWorker' = Tail(toWorker) /\ Head(toWorker).kind = "endpoints"
        /\ installed' = Head(toWorker).gen /\ UNCHANGED leaked
      BY <1>5 DEF Installed, Receives, IsEndpoints, IsAnswer
  <2>2. Head(toWorker).gen = active /\ active \notin leaked
    <3>1. Head(toWorker) = toWorker[1] /\ 1 \in 1..Len(toWorker)
        BY <2>1, Taken DEF IInv, TypeOK
    <3> QED
        BY <2>1, <3>1 DEF IInv, Protocol, ToWorkerInv
  <2>3. Offered /\ ~Offered'
      BY <2>1, OfferedTaken
  <2>4. installed = 0 /\ ~bound
      BY <2>3, OfferedClosed
  <2> QED
      BY <1>1, <2>1, <2>2, <2>3, <2>4 DEF Allowed, Generations!Next, Generations!Open
<1> QED
    BY <1>3, <1>4, <1>5 DEF WorkerServes

LEMMA CallStep == ASSUME IInv, CoreCalls PROVE Allowed
<1>1. CASE UsbInit
  <2>1. /\ installed' = 0 /\ leaked' = leaked \cup ({installed} \ {0})
        /\ UNCHANGED <<active, newest, bound, toWorker>>
      BY <1>1 DEF UsbInit, supervisor, udc
  <2>2. Offered' <=> Offered
      BY <2>1 DEF Offered
  <2>3. CASE installed = 0
    <3>1. UNCHANGED leaked
        BY <2>1, <2>3
    <3> QED
        BY <2>1, <2>2, <2>3, <3>1, Stutter DEF Kept
  <2>4. CASE installed # 0
    <3>1. leaked' = leaked \cup {installed}
        BY <2>1, <2>4
    <3> QED
        BY <2>1, <2>2, <2>4, <3>1 DEF Allowed, Generations!Next, Generations!Lose
  <2> QED
      BY <2>3, <2>4
<1>2. CASE UsbStart \/ \E deinit \in BOOLEAN : UsbStop(deinit)
  <2>1. Kept /\ UNCHANGED toWorker
      BY <1>2 DEF UsbStart, UsbStop, Kept, supervisor, udc
  <2>2. Offered' <=> Offered
      BY <2>1 DEF Offered
  <2> QED
      BY <2>1, <2>2, Stutter
<1> QED
    BY <1>1, <1>2 DEF CoreCalls

\* The supervisor creates a generation, or does not.
LEMMA CreateStep ==
    ASSUME IInv, NEW id \in Nat, Create(id), installed = 0, ~bound, ~Offered,
           UNCHANGED <<installed, leaked, bound>>
    PROVE  Allowed
<1> DEFINE r == Record("endpoints", newest + 1, id)
<1>1. "endpoints" \in RecordKind /\ newest + 1 \in Nat
    BY DEF RecordKind, IInv, TypeOK
<1>2. r \in Records /\ r.kind = "endpoints" /\ Tell(<<r>>)
    BY <1>1, RecordFields DEF Create
<1> HIDE DEF r
<1>3. Offered'
    BY <1>2, OfferedTold DEF IInv
<1> QED
    BY <1>3 DEF Create, Allowed, Generations!Next, Generations!Create

\* Telling anything else, and hiding the gadget or not.
LEMMA HideStep ==
    ASSUME IInv, NEW r \in Records, r.kind # "endpoints",
           Tell(<<r>>) \/ UNCHANGED toWorker,
           UNCHANGED <<active, newest, installed, leaked>>, UNCHANGED bound \/ bound' = FALSE
    PROVE  Allowed
<1>1. Offered' <=> Offered
  <2>1. CASE Tell(<<r>>)
      BY <2>1, OfferedTold DEF IInv
  <2>2. CASE UNCHANGED toWorker
      BY <2>2 DEF Offered
  <2> QED
      BY <2>1, <2>2
<1>2. CASE UNCHANGED bound
    BY <1>1, <1>2, Stutter DEF Kept
<1>3. CASE bound /\ bound' = FALSE
    BY <1>1, <1>3 DEF Allowed, Generations!Next, Generations!Hide
<1>4. CASE ~bound /\ bound' = FALSE
  <2>1. bound \in BOOLEAN
      BY DEF IInv, TypeOK
  <2>2. UNCHANGED bound
      BY <1>4, <2>1, Zenon
  <2> QED
      BY <1>2, <2>2
<1> QED
    BY <1>2, <1>3, <1>4

LEMMA SupervisorStep == ASSUME IInv, SupervisorAnswers PROVE Allowed
<1> USE DEF IInv
<1> DEFINE c == Head(toSupervisor)
<1>1. UNCHANGED worker /\ UNCHANGED <<installed, leaked>>
    BY DEF SupervisorAnswers, Reject, Retire, Publish, Replace, Bind, Overtaken, worker, usb
<1>2. CASE Reject
  <2>1. TakeConfigure /\ Tell(<<Record("rejected", c.gen, c.id)>>) /\ UNCHANGED <<active, newest, bound>>
      BY <1>2 DEF Reject, supervisor, udc
  <2>2. "rejected" \in RecordKind /\ c.gen \in Nat /\ c.id \in Nat
      BY <1>1, <2>1, ConfigureTaken DEF RecordKind
  <2>3. /\ Record("rejected", c.gen, c.id) \in Records
        /\ Record("rejected", c.gen, c.id).kind # "endpoints"
      BY <2>2, RecordFields
  <2> QED
      BY <1>1, <2>1, <2>3, HideStep
<1>3. CASE Retire
  <2>1. /\ TakeConfigure /\ Tell(<<Record("quiesce", active, c.id)>>) /\ bound' = FALSE
        /\ UNCHANGED <<active, newest>>
      BY <1>3 DEF Retire, Unbind
  <2>2. "quiesce" \in RecordKind /\ active \in Nat /\ c.id \in Nat
      BY <1>1, <2>1, ConfigureTaken DEF RecordKind, TypeOK
  <2>3. /\ Record("quiesce", active, c.id) \in Records
        /\ Record("quiesce", active, c.id).kind # "endpoints"
      BY <2>2, RecordFields
  <2> QED
      BY <1>1, <2>1, <2>3, HideStep
<1>4. CASE Publish
  <2>1. TakeConfigure /\ active = 0 /\ UNCHANGED bound
      BY <1>4 DEF Publish, udc
  <2>2. phase = "idle" /\ c.id \in Nat /\ installed = 0 /\ ~bound
      BY <1>1, <2>1, ConfigureTaken DEF Protocol, RetiredHandlesClosed, PhaseInv
  <2>3. ~Offered
      BY <2>2, OfferedClosed
  <2>4. CASE Create(c.id)
      BY <1>1, <2>1, <2>2, <2>3, <2>4, CreateStep
  <2>5. CASE UNCHANGED <<newest, active, phase, toWorker>>
    <3>1. Offered' <=> Offered
        BY <2>5 DEF Offered
    <3> QED
        BY <1>1, <2>1, <2>5, <3>1, Stutter DEF Kept
  <2> QED
      BY <1>4, <2>4, <2>5 DEF Publish
<1>5. CASE Replace
  <2>1. /\ phase = "quiescing" /\ toSupervisor # <<>> /\ c.kind = "quiesced" /\ UNCHANGED bound
      BY <1>5 DEF Replace, udc
  <2>2. c = toSupervisor[1] /\ 1 \in 1..Len(toSupervisor)
      BY <2>1, Taken DEF TypeOK
  <2>3. installed = 0 /\ ~bound
      BY <2>1, <2>2 DEF Protocol, ToSupervisorInv, PhaseInv
  <2>4. ~Offered
      BY <2>1, OfferedClosed
  <2>5. CASE Create(answering.id)
    <3>1. answering.id \in Nat
        BY DEF TypeOK
    <3> QED
        BY <1>1, <2>1, <2>3, <2>4, <2>5, <3>1, CreateStep
  <2>6. CASE active' = 0 /\ UNCHANGED <<newest, toWorker>>
    <3>1. Offered' <=> Offered
        BY <2>6 DEF Offered
    <3>2. CASE active = 0
        BY <1>1, <2>1, <2>6, <3>1, <3>2, Stutter DEF Kept
    <3>3. CASE active # 0
        BY <1>1, <2>1, <2>3, <2>4, <2>6, <3>1, <3>3 DEF Allowed, Generations!Next, Generations!Remove
    <3> QED
        BY <3>2, <3>3
  <2> QED
      BY <1>5, <2>5, <2>6 DEF Replace
<1>6. CASE Bind
  <2>1. /\ phase = "serving" /\ toSupervisor # <<>> /\ c.kind = "serving" /\ Alive
        /\ Tell(<<BusRecord("bind", link)>>) /\ bound' = TRUE /\ UNCHANGED <<active, newest>>
      BY <1>6 DEF Bind
  <2>2. c = toSupervisor[1] /\ 1 \in 1..Len(toSupervisor)
      BY <2>1, Taken DEF TypeOK
  <2>3. active \in {installed} \cup leaked /\ active # 0 /\ ~bound
      BY <2>1, <2>2 DEF Protocol, ToSupervisorInv, PhaseInv
  <2>4. /\ BusRecord("bind", link) \in Records /\ BusRecord("bind", link).kind # "endpoints"
    <3>1. "bind" \in BusKind /\ link \in Nat
        BY DEF BusKind, TypeOK
    <3> QED
        BY <3>1, BusRecordFields
  <2>5. Offered' <=> Offered
      BY <2>1, <2>4, OfferedTold
  <2> QED
      BY <1>1, <2>1, <2>3, <2>5 DEF Allowed, Generations!Next, Generations!Show
<1>7. CASE Overtaken
  <2>1. UNCHANGED <<active, newest, toWorker>> /\ bound' = FALSE
      BY <1>7 DEF Overtaken, Unbind
  <2>2. Record("quiesce", newest, 0) \in Records /\ Record("quiesce", newest, 0).kind # "endpoints"
    <3>1. "quiesce" \in RecordKind /\ newest \in Nat
        BY DEF RecordKind, TypeOK
    <3> QED
        BY <3>1, RecordFields
  <2> QED
      BY <1>1, <2>1, <2>2, HideStep
<1> QED
    BY <1>2, <1>3, <1>4, <1>5, <1>6, <1>7 DEF SupervisorAnswers

LEMMA OtherStep ==
    ASSUME IInv,
           \/ Shutdown \/ SupervisorFails \/ Key3Moves \/ UNCHANGED vars
           \/ \E kind \in BusKind \ {"bind"} : HostEvent(kind)
    PROVE  Allowed
<1> USE DEF IInv
<1>1. UNCHANGED <<installed, leaked>>
    BY DEF Shutdown, SupervisorFails, Key3Moves, HostEvent, vars, worker, usb
<1>2. /\ Record("quiesce", newest, 0) \in Records /\ Record("quiesce", newest, 0).kind # "endpoints"
  <2>1. "quiesce" \in RecordKind /\ newest \in Nat
      BY DEF RecordKind, TypeOK
  <2> QED
      BY <2>1, RecordFields
<1>3. CASE Shutdown
    BY <1>1, <1>2, <1>3, HideStep DEF Shutdown, Unbind
<1>4. CASE SupervisorFails
    BY <1>1, <1>2, <1>4, HideStep DEF SupervisorFails, Unbind
<1>5. CASE Key3Moves \/ UNCHANGED vars
    BY <1>1, <1>2, <1>5, HideStep DEF Key3Moves, vars, supervisor, udc
<1>6. CASE \E kind \in BusKind \ {"bind"} : HostEvent(kind)
  <2> PICK kind \in BusKind \ {"bind"} : HostEvent(kind)
      BY <1>6
  <2>1. Tell(<<BusRecord(kind, link')>>) /\ link' \in Nat /\ UNCHANGED <<active, newest, bound>>
      BY DEF HostEvent, TypeOK
  <2>2. BusRecord(kind, link') \in Records /\ BusRecord(kind, link').kind # "endpoints"
    <3>1. BusRecord(kind, link') \in Records /\ BusRecord(kind, link').kind = kind
        BY <2>1, BusRecordFields
    <3> QED
        BY <3>1 DEF BusKind
  <2> QED
      BY <1>1, <2>1, <2>2, HideStep
<1> QED
    BY <1>3, <1>4, <1>5, <1>6

\* Every behaviour of worker, supervisor, host and KEY3 is one of UsbGenerations: a
\* generation is opened once, before the host sees it, and removed or replaced only
\* when the host no longer sees it and its descriptors are closed, or usb_init has
\* overwritten them.
THEOREM GenerationsImplemented == Spec => GenerationsRefined
<1>1. Init => Generations!Init
    BY DEF Init, Generations!Init, Offered
<1>2. IInv /\ [Next \/ Terminated]_vars => [Generations!Next]_(Generations!generations)
  <2> SUFFICES ASSUME IInv, Step PROVE Allowed
      BY DEF Step, Allowed
  <2> QED
      BY WorkerStep, CallStep, SupervisorStep, OtherStep DEF Step, Next, Terminated
<1> QED
    BY <1>1, <1>2, Invariant, PTL DEF Spec, GenerationsRefined, Generations!Spec

\* However configurations, ejections, insertions, rejections, calls of Core and
\* failures cross in the socket: the endpoints of the worker hold descriptors of the
\* generation the supervisor has, or none, and never again those usb_init has
\* overwritten, which stay open; so no transfer of a retired handle can begin.
THEOREM NoRetiredHandle == Spec => []RetiredHandlesClosed
<1>1. IInv => RetiredHandlesClosed
    BY DEF IInv, Protocol
<1> QED
    BY <1>1, Invariant, PTL

\* What the host sees is the generation the worker configured, and a started stack
\* serves it: the descriptors are open, and the helpers run as the host configured
\* once the worker has handled what is on its way.
THEOREM HostSeesServedGadget == Spec => []BoundIsServed
<1>1. IInv => BoundIsServed
  <2> SUFFICES ASSUME IInv, Alive, bound
               PROVE  /\ generation = active
                      /\ started => installed = active /\ (toWorker = <<>> => enabled = configured)
      BY DEF BoundIsServed
  <2>1. generation = active
      BY DEF IInv, Protocol, BoundInv
  <2>2. ASSUME started PROVE installed = active /\ Following
      BY <2>2 DEF IInv, ServedInv
  <2>3. ASSUME toWorker = <<>>, Following PROVE enabled = configured
    <3>1. ASSUME NEW n, n = 0 PROVE 1..n = {}
        BY <3>1
    <3>2. Len(toWorker) = 0
        BY <2>3
    <3>3. 1..Len(toWorker) = {}
        BY <3>1, <3>2, Zenon
    <3>4. \A i \in 1..Len(toWorker) : toWorker[i].kind \notin Toggle
        BY <3>3, Zenon
    <3> QED
        BY <2>3, <3>4 DEF Following
  <2> QED
      BY <2>1, <2>2, <2>3
<1> QED
    BY <1>1, Invariant, PTL

\* From the end of an ejection to the insertion no generation exists or is bound.
THEOREM GadgetStaysAbsent == Spec => []EjectedStaysAbsent
<1>1. IInv => EjectedStaysAbsent
    BY DEF IInv, Protocol, EjectedStaysAbsent, EjectedInv, PhaseInv
<1> QED
    BY <1>1, Invariant, PTL

\* No bus event ever fails the checks of handle_bus_event in a pass: the order of
\* the socket keeps its generation and its activation those of the worker.
THEOREM BusEventsAccepted == Spec => []BusEventsCurrent
<1>1. IInv => BusEventsCurrent
  <2> SUFFICES ASSUME IInv, wpc = "core", toWorker # <<>>, Head(toWorker).kind \in BusKind
               PROVE  BusEventValid(Head(toWorker))
      BY DEF BusEventsCurrent
  <2>1. /\ Head(toWorker) = toWorker[1] /\ 1 \in 1..Len(toWorker)
      BY Taken DEF IInv, TypeOK
  <2>2. Head(toWorker).gen = generation
      BY <2>1 DEF IInv, Protocol, ToWorkerInv
  <2>3. PICK f \in [0..Len(toWorker) -> Nat] : Follows(f, toWorker, activation)
      BY DEF IInv, Protocol, ChainInv, Alive, Ended
  <2>4. Head(toWorker).kind \in {"suspend", "resume"} => Head(toWorker).act = activation
      BY <2>1, <2>3 DEF Follows
  <2> QED
      BY <2>2, <2>4 DEF BusEventValid
<1> QED
    BY <1>1, Invariant, PTL
=============================================================================
