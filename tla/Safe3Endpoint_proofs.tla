------------------------ MODULE Safe3Endpoint_proofs ------------------------
(***************************************************************************)
(* Proofs of the safety of the Safe 3 endpoint handoff, for any number of  *)
(* endpoints, any packets, any records and any bound on the socket.        *)
(***************************************************************************)
EXTENDS Safe3Endpoint, TLAPS

\* The process that ends is well typed, and leaves nothing behind.
LEMMA EndsTyped ==
    ASSUME NEW how \in Halted, ProcessEnds(how)
    PROVE  TypeOK' /\ RecordPending'
<1>1. mpc' \in Halted  BY DEF ProcessEnds
<1>2. inbox' \in Seq(Records)  BY DEF ProcessEnds
<1>3. cont' \in Continuation  BY DEF ProcessEnds, NoStop, Continuation
<1> QED  BY <1>1, <1>2, <1>3 DEF ProcessEnds, TypeOK, RecordPending, MainPC, ThreadPC, Halted

\* A helper's step keeps the types.
LEMMA HelperTyped ==
    ASSUME TypeOK, RecordPending, NEW e \in Endpoint,
           HelperRuns(e) \/ HelperTransfers(e) \/ SpuriousWake(e) \/ HelperFails(e)
    PROVE  TypeOK' /\ RecordPending'
<1> USE DEF TypeOK, RecordPending, threads, handoff, gate, bus, mains, service, stopping,
            core, ThreadPC
<1>1. CASE Acquire(e)  BY <1>1 DEF Acquire
<1>2. CASE Sleep(e)  BY <1>2 DEF Sleep
<1>3. CASE OutPost(e)  BY <1>3 DEF OutPost
<1>4. CASE InTake(e)  BY <1>4 DEF InTake
<1>5. CASE InClear(e)  BY <1>5 DEF InClear
<1>6. CASE Notify(e)  BY <1>6 DEF Notify, First
<1>7. CASE Cancelled(e)  BY <1>7 DEF Cancelled
<1>8. CASE Unwind(e)  BY <1>8 DEF Unwind
<1>9. ASSUME NEW p \in Packet, OutRead(e, p) PROVE TypeOK' /\ RecordPending'
  BY <1>9 DEF OutRead
<1>10. CASE InWritten(e)  BY <1>10 DEF InWritten
<1>11. CASE GenerationEnded(e)  BY <1>11 DEF GenerationEnded
<1>12. CASE SpuriousWake(e)  BY <1>12 DEF SpuriousWake
<1>13. CASE HelperFails(e)
  BY <1>13, EndsTyped DEF HelperFails, TransferFails, NotifyFails, Halted
<1> QED
  BY <1>1, <1>2, <1>3, <1>4, <1>5, <1>6, <1>7, <1>8, <1>9, <1>10, <1>11, <1>12, <1>13
     DEF HelperRuns, HelperTransfers

\* Handling a control record keeps the types.
LEMMA RecordTyped ==
    ASSUME TypeOK, RecordPending, HandleRecord
    PROVE  TypeOK' /\ RecordPending'
<1> USE DEF TypeOK, RecordPending, HandleRecord, service, stopping, MainPC, Continuation
<1>1. Tail(inbox) \in Seq(Records)  OBVIOUS
<1>2. mpc' \in {"key3", "stop"}
  BY DEF EnableEvent, DisableEvent, SuspendEvent, QuiesceRecord, BeginStop
<1>3. CASE EnableEvent
  <2>1. buffers' \in [Endpoint -> BOOLEAN]
    <3>1. CASE enabled  BY <1>3, <3>1 DEF EnableEvent
    <3>2. CASE ~enabled
      <4>1. buffers' = [e \in Endpoint |-> installed \/ buffers[e]]
        BY <1>3, <3>2 DEF EnableEvent, StartThreads
      <4>2. \A e \in Endpoint : (installed \/ buffers[e]) \in BOOLEAN  OBVIOUS
      <4> QED  BY <4>1, <4>2, Zenon
    <3> QED  BY <3>1, <3>2
  <2>2. pc' \in [Endpoint -> ThreadPC] /\ event' \in [Endpoint -> {"closed", "clear", "set"}]
    BY <1>3 DEF EnableEvent, StartThreads, ThreadPC, First
  <2>3. opened' \in BOOLEAN /\ enabled' \in BOOLEAN /\ suspended' \in BOOLEAN
    BY <1>3 DEF EnableEvent
  <2> QED  BY <1>1, <1>2, <1>3, <2>1, <2>2, <2>3 DEF EnableEvent
<1>4. CASE DisableEvent
  BY <1>1, <1>2, <1>4 DEF DisableEvent, BeginStop
<1>5. ASSUME NEW flag \in BOOLEAN, SuspendEvent(flag) PROVE TypeOK' /\ RecordPending'
  BY <1>1, <1>2, <1>5 DEF SuspendEvent
<1>6. ASSUME NEW next \in {"key3", "exited"}, QuiesceRecord(next)
      PROVE  TypeOK' /\ RecordPending'
  <2>1. cont' \in Continuation  BY <1>6 DEF QuiesceRecord, BeginStop
  <2> QED  BY <1>1, <1>2, <1>6, <2>1 DEF QuiesceRecord, BeginStop
<1> QED  BY <1>3, <1>4, <1>5, <1>6

\* A step of the main thread, and one of its surroundings, keep the types.
LEMMA MainTyped ==
    ASSUME TypeOK, RecordPending, MainServes
    PROVE  TypeOK' /\ RecordPending'
<1> USE DEF TypeOK, RecordPending, threads, handoff, gate, bus, mains, service, stopping,
            core, ThreadPC, MainPC, Halted
<1>1. ASSUME NEW h \in Interface \cup {Usb}, PollHandle(h) PROVE TypeOK' /\ RecordPending'
  BY <1>1 DEF PollHandle, ServiceController, Pending
<1>2. CASE HandleRecord  BY <1>2, RecordTyped
<1>3. CASE Key3Idle  BY <1>3 DEF Key3Idle
<1>4. CASE SignalReady  BY <1>4 DEF SignalReady
<1>5. CASE ServiceReturns
  <2>1. HandlesOf(awaited) \subseteq Interface  BY EndpointAssumption DEF HandlesOf
  <2>2. topoll' \subseteq Interface \cup {Usb}  BY <1>5, <2>1 DEF ServiceReturns, BeginRound
  <2>3. signalled' \in BOOLEAN /\ opened' \in BOOLEAN /\ mpc' \in {"poll", "recheck"}
    BY <1>5 DEF ServiceReturns, BeginRound
  <2> QED  BY <1>5, <2>2, <2>3 DEF ServiceReturns
<1>6. CASE Recheck  BY <1>6 DEF Recheck
<1>7. CASE TasksReady  BY <1>7 DEF TasksReady, RunTasks
<1>8. CASE EnterWfi  BY <1>8 DEF EnterWfi
<1>9. CASE WfiWake  BY <1>9 DEF WfiWake, ServiceController, Pending
<1>10. CASE StopDone
  <2>1. (dropped /\ cont.fds = "keep") \in BOOLEAN /\ (live /\ cont.fds = "keep") \in BOOLEAN
    OBVIOUS
  <2>2. dropped' \in BOOLEAN /\ live' \in BOOLEAN  BY <1>10, <2>1, Zenon DEF StopDone
  <2>3. installed' \in BOOLEAN /\ mpc' \in MainPC /\ mpc' # "record" /\ cont' \in Continuation
    BY <1>10 DEF StopDone, NoStop, Continuation
  <2> QED  BY <1>10, <2>2, <2>3 DEF StopDone
<1>11. ASSUME NEW e \in Endpoint,
              StopCancel(e) \/ StopJoin(e) \/ StopRelease(e) \/ DrainNotification(e)
       PROVE  TypeOK' /\ RecordPending'
  <2>1. CASE StopCancel(e) \/ StopJoin(e)
    <3>1. cancel' \in [Endpoint -> BOOLEAN]  BY <2>1, Zenon DEF StopCancel, StopJoin
    <3>2. pc' \in [Endpoint -> ThreadPC]  BY <2>1 DEF StopCancel, StopJoin
    <3> QED  BY <2>1, <3>1, <3>2 DEF StopCancel, StopJoin
  <2>3. CASE DrainNotification(e)  BY <2>3 DEF DrainNotification
  <2>2. CASE StopRelease(e)
    <3>1. buffers' \in [Endpoint -> BOOLEAN]  BY <2>2, Zenon DEF StopRelease
    <3> QED  BY <2>2, <3>1 DEF StopRelease
  <2> QED  BY <1>11, <2>1, <2>2, <2>3
<1>12. ASSUME NEW e \in Endpoint, DrainFails(e) PROVE TypeOK' /\ RecordPending'
  BY <1>12, EndsTyped DEF DrainFails
<1> QED
  BY <1>1, <1>2, <1>3, <1>4, <1>5, <1>6, <1>7, <1>8, <1>9, <1>10, <1>11, <1>12
     DEF MainServes

\* A call of one of Core's tasks keeps the types.
LEMMA CoreTyped ==
    ASSUME TypeOK, RecordPending, CoreCalls
    PROVE  TypeOK' /\ RecordPending'
<1> USE DEF TypeOK, RecordPending, threads, handoff, gate, bus, mains, service, stopping,
            core, ThreadPC, MainPC, Halted
<1>1. ASSUME NEW e \in Endpoint, IfaceRead(e) PROVE TypeOK' /\ RecordPending'
  BY <1>1 DEF IfaceRead, CondSignal
<1>2. ASSUME NEW e \in Endpoint, NEW p \in Packet, IfaceWrite(e, p)
      PROVE  TypeOK' /\ RecordPending'
  BY <1>2 DEF IfaceWrite, CondSignal
<1>3. ASSUME NEW es \in SUBSET Endpoint, SyseventsPoll(es) PROVE TypeOK' /\ RecordPending'
  <2>1. HandlesOf(es) \subseteq Interface  BY EndpointAssumption DEF HandlesOf
  <2> QED  BY <1>3, <2>1 DEF SyseventsPoll, BeginRound
<1>4. ASSUME NEW deinit \in BOOLEAN, UsbStop(deinit) PROVE TypeOK' /\ RecordPending'
  <2>0. stack' \in {"down", "stopped", "started"}  BY <1>4 DEF UsbStop
  <2>1. CASE stack = "started"
    <3>1. cont' \in Continuation  BY <1>4, <2>1 DEF UsbStop, BeginStop, Continuation
    <3>2. enabled' \in BOOLEAN /\ todo' \subseteq Endpoint /\ mpc' \in MainPC /\ mpc' # "record"
      BY <1>4, <2>1 DEF UsbStop, BeginStop
    <3> QED  BY <1>4, <2>0, <3>1, <3>2 DEF UsbStop
  <2>2. CASE stack # "started"  BY <1>4, <2>0, <2>2 DEF UsbStop
  <2> QED  BY <2>1, <2>2
<1>5. CASE UsbStart \/ Key3Eject \/ Key3Insert
  <2>1. inbox' = inbox /\ mpc' = "stop"
    BY <1>5 DEF UsbStart, Key3Eject, Key3Insert, Exchange, BeginStop
  <2>2. cont' \in Continuation
    BY <1>5 DEF UsbStart, Key3Eject, Key3Insert, Exchange, BeginStop, Continuation
  <2> QED
    BY <1>5, <2>1, <2>2 DEF UsbStart, Key3Eject, Key3Insert, Exchange, BeginStop
<1>6. CASE ExchangeCrossed  BY <1>6, EndsTyped DEF ExchangeCrossed
<1>7. CASE Key3EjectRejected  BY <1>7 DEF Key3EjectRejected
<1>8. CASE WfiEdge  BY <1>8 DEF WfiEdge, ServiceController, Pending
<1>9. CASE WfiTimeout  BY <1>9 DEF WfiTimeout, RunTasks
<1>10. CASE UsbInit
  <2>1. (dropped \/ installed) \in BOOLEAN  OBVIOUS
  <2>2. dropped' \in BOOLEAN  BY <1>10, <2>1, Zenon DEF UsbInit
  <2> QED  BY <1>10, <2>2 DEF UsbInit
<1> QED
  BY <1>1, <1>2, <1>3, <1>4, <1>5, <1>6, <1>7, <1>8, <1>9, <1>10 DEF CoreCalls

\* A record sent by the supervisor keeps the types.
LEMMA BusTyped ==
    ASSUME TypeOK, RecordPending, NEW kind \in Records, BusEvent(kind)
    PROVE  TypeOK' /\ RecordPending'
<1>1. live' \in BOOLEAN
  BY RecordAssumption DEF BusEvent, TypeOK
<1> QED  BY <1>1 DEF BusEvent, TypeOK, RecordPending, threads, handoff, gate, mains, service,
                     stopping, core

\* The program starts within its types.
LEMMA InitTyped == Init => TypeOK /\ RecordPending
<1> SUFFICES ASSUME Init PROVE TypeOK /\ RecordPending
  OBVIOUS
<1>1. inbox \in Seq(Records)  BY DEF Init
<1>2. cont \in Continuation  BY DEF Init, NoStop, Continuation
<1>3. RecordPending  BY DEF Init, RecordPending
<1> QED  BY <1>1, <1>2, <1>3 DEF Init, TypeOK, ThreadPC, MainPC

\* Every variable keeps to the values its C counterpart can have.
THEOREM TypeCorrect == Spec => []TypeOK
<1>1. TypeOK /\ RecordPending /\ [Next \/ Terminated]_vars => TypeOK' /\ RecordPending'
  <2> SUFFICES ASSUME TypeOK, RecordPending, [Next \/ Terminated]_vars
               PROVE  TypeOK' /\ RecordPending'
    OBVIOUS
  <2>1. CASE Next
    BY <2>1, HelperTyped, MainTyped, CoreTyped, BusTyped DEF Next
  <2>2. CASE Terminated \/ UNCHANGED vars
    BY <2>2 DEF Terminated, TypeOK, RecordPending, vars, threads, handoff, gate, bus, mains,
                service, stopping, core
  <2> QED  BY <2>1, <2>2
<1> QED  BY InitTyped, <1>1, PTL DEF Spec
-----------------------------------------------------------------------------
(* The inductive invariant.                                                *)

\* A process that has ended keeps every part of the invariant.
LEMMA EndsSafe ==
    ASSUME NEW how \in Halted, ProcessEnds(how)
    PROVE  IInv'
<1>1. mpc' \in Halted  BY DEF ProcessEnds
<1>2. TypeOK' /\ RecordPending'  BY EndsTyped
<1>3. StopInv'  BY <1>1 DEF StopInv, ProcessEnds, NoStop, Halted
<1>4. HaltedInv' /\ LoopInv' /\ CoveredInv'
  BY <1>1 DEF HaltedInv, LoopInv, CoveredInv, ProcessEnds, Halted, NoStop
<1>5. ResourcesOutliveHelper' /\ MutexReleased' /\ NoSleepOnReady' /\ HelpersMatchEnabled'
  BY <1>1 DEF ResourcesOutliveHelper, MutexReleased, NoSleepOnReady, HelpersMatchEnabled,
              ProcessEnds, HoldsPC
<1> QED  BY <1>2, <1>3, <1>4, <1>5 DEF IInv, EndpointInv

\* What the steps of a helper have in common: it exists before and after, it
\* changes nothing of another endpoint, and nothing of the main thread.
HelperFrame(e) ==
    /\ UNCHANGED <<cancel, gate, buffers, mains>>
    /\ pc[e] # "none" /\ pc'[e] # "none"
    /\ event'[e] = event[e] \/ (event[e] # "closed" /\ event'[e] = "set")
    /\ \A f \in Endpoint \ {e} :
          /\ pc'[f] = pc[f] /\ locked'[f] = locked[f]
          /\ slot'[f] = slot[f] /\ held'[f] = held[f] /\ event'[f] = event[f]

\* A step of a helper leaves the other endpoints, and all but its own slot and
\* notification, as they are.
LEMMA HelperFrames ==
    ASSUME TypeOK, NEW e \in Endpoint, HelperRuns(e) \/ HelperTransfers(e) \/ SpuriousWake(e)
    PROVE  HelperFrame(e)
<1> USE DEF TypeOK, HelperFrame, threads, handoff
<1>1. CASE Acquire(e)  BY <1>1 DEF Acquire
<1>2. CASE Sleep(e)  BY <1>2 DEF Sleep
<1>3. CASE OutPost(e)  BY <1>3 DEF OutPost
<1>4. CASE InTake(e)  BY <1>4 DEF InTake
<1>5. CASE InClear(e)  BY <1>5 DEF InClear
<1>6. CASE Notify(e)  BY <1>6 DEF Notify, First
<1>7. CASE Cancelled(e)  BY <1>7 DEF Cancelled
<1>8. CASE Unwind(e)  BY <1>8 DEF Unwind
<1>9. ASSUME NEW p \in Packet, OutRead(e, p) PROVE HelperFrame(e)
  BY <1>9 DEF OutRead
<1>10. CASE InWritten(e)  BY <1>10 DEF InWritten
<1>11. CASE GenerationEnded(e)  BY <1>11 DEF GenerationEnded
<1>12. CASE SpuriousWake(e)  BY <1>12 DEF SpuriousWake
<1> QED
  BY <1>1, <1>2, <1>3, <1>4, <1>5, <1>6, <1>7, <1>8, <1>9, <1>10, <1>11, <1>12
     DEF HelperRuns, HelperTransfers

\* The mutex and the wait of a helper after one of its own steps, and what the
\* step does to the readiness of the endpoint.
LEMMA HelperOwn ==
    ASSUME IInv, NEW e \in Endpoint, HelperRuns(e) \/ HelperTransfers(e) \/ SpuriousWake(e)
    PROVE  /\ locked'[e] <=> pc'[e] \in HoldsPC
           /\ pc'[e] = "wait" => (slot'[e] # Empty) = IsOut(e)
           /\ IsReady(e)' => (IsReady(e) /\ pc[e] # "notify") \/ pc'[e] = "notify"
                             \/ event'[e] = "set" \/ ~enabled
<1> USE DEF IInv, EndpointInv, TypeOK, MutexReleased, NoSleepOnReady, StopInv, HoldsPC, IsReady, gate,
            threads, handoff, mains
<1>1. CASE Acquire(e)  BY <1>1 DEF Acquire
<1>2. CASE Sleep(e)  BY <1>2 DEF Sleep
<1>3. CASE OutPost(e)  BY <1>3 DEF OutPost
<1>4. CASE InTake(e)  BY <1>4 DEF InTake
<1>5. CASE InClear(e)  BY <1>5 DEF InClear
<1>6. CASE Notify(e)  BY <1>6 DEF Notify, First
<1>7. CASE Cancelled(e)  BY <1>7 DEF Cancelled
<1>8. CASE Unwind(e)  BY <1>8 DEF Unwind
<1>9. ASSUME NEW p \in Packet, OutRead(e, p)
      PROVE  /\ locked'[e] <=> pc'[e] \in HoldsPC
             /\ pc'[e] = "wait" => (slot'[e] # Empty) = IsOut(e)
             /\ IsReady(e)' => (IsReady(e) /\ pc[e] # "notify") \/ pc'[e] = "notify"
                               \/ event'[e] = "set" \/ ~enabled
  BY <1>9 DEF OutRead
<1>10. CASE InWritten(e)  BY <1>10 DEF InWritten
<1>11. CASE GenerationEnded(e)  BY <1>11 DEF GenerationEnded
<1>12. CASE SpuriousWake(e)  BY <1>12 DEF SpuriousWake
<1> QED
  BY <1>1, <1>2, <1>3, <1>4, <1>5, <1>6, <1>7, <1>8, <1>9, <1>10, <1>11, <1>12
     DEF HelperRuns, HelperTransfers

\* A step of a helper keeps the invariant.
LEMMA HelperSafe ==
    ASSUME IInv, NEW e \in Endpoint,
           HelperRuns(e) \/ HelperTransfers(e) \/ SpuriousWake(e) \/ HelperFails(e)
    PROVE  IInv'
<1>1. CASE HelperFails(e)
  BY <1>1, EndsSafe DEF HelperFails, TransferFails, NotifyFails, Halted
<1>2. CASE HelperRuns(e) \/ HelperTransfers(e) \/ SpuriousWake(e)
  <2>1. TypeOK' /\ RecordPending'  BY HelperTyped DEF IInv
  <2>2. HelperFrame(e)  BY <1>2, HelperFrames DEF IInv
  <2> USE <1>2, <2>2 DEF IInv, EndpointInv, HelperFrame, gate, mains, service, stopping, core
  <2>3. StopInv'  BY DEF StopInv
  <2>4. HaltedInv' /\ LoopInv'  BY DEF HaltedInv, LoopInv
  <2>5. ResourcesOutliveHelper'  BY DEF ResourcesOutliveHelper
  <2>6. HelpersMatchEnabled'  BY DEF HelpersMatchEnabled
  <2>7. MutexReleased' /\ NoSleepOnReady'
    BY HelperOwn DEF MutexReleased, NoSleepOnReady
  <2>8. CoveredInv'
    <3> SUFFICES ASSUME ~opened, ~signalled, NEW f \in awaited, IsReady(f)'
                 PROVE  Announced(f)' \/ Unseen(f)'
      BY DEF CoveredInv
    <3>1. Unseen(f) => Unseen(f)'  BY DEF Unseen
    <3>2. f \in Endpoint /\ enabled /\ (IsReady(f) => Announced(f) \/ Unseen(f))
      BY DEF TypeOK, CoveredInv, IsReady
    <3>3. CASE f = e
      BY HelperOwn, <3>1, <3>2, <3>3 DEF Announced
    <3>4. CASE f # e
      BY <3>1, <3>2, <3>4 DEF Announced, IsReady
    <3> QED  BY <3>3, <3>4
  <2> QED  BY <2>1, <2>3, <2>4, <2>5, <2>6, <2>7, <2>8
<1> QED  BY <1>1, <1>2

\* A step of the main thread outside a stop that leaves the endpoints alone.
LEMMA EndpointsKept ==
    ASSUME IInv, UNCHANGED <<threads, handoff, enabled, installed, dropped, stopping>>,
           mpc \notin Halted \cup {"stop"}, mpc' \notin Halted \cup {"stop"}
    PROVE  EndpointInv'
<1> USE DEF IInv, EndpointInv, threads, handoff, stopping
<1>1. StopInv' /\ HaltedInv'  BY DEF StopInv, HaltedInv
<1>2. ResourcesOutliveHelper' /\ MutexReleased' /\ NoSleepOnReady' /\ HelpersMatchEnabled'
  BY DEF ResourcesOutliveHelper, MutexReleased, NoSleepOnReady, HelpersMatchEnabled
<1> QED  BY <1>1, <1>2

\* A step that enters stop_endpoint_threads.
LEMMA StopBegins ==
    ASSUME IInv, mpc # "stop",
           NEW fds \in {"keep", "close", "install"}, NEW next \in {"key3", "drain", "run", "exited"},
           next = "exited" => fds = "close",
           BeginStop(fds, next), UNCHANGED <<threads, handoff, installed, dropped>>
    PROVE  EndpointInv'
<1> USE DEF IInv, EndpointInv, threads, handoff, BeginStop
<1>1. StopInv'  BY DEF StopInv
<1>2. HaltedInv' /\ HelpersMatchEnabled'  BY DEF HaltedInv, HelpersMatchEnabled, Halted
<1>3. ResourcesOutliveHelper' /\ MutexReleased' /\ NoSleepOnReady'
  BY DEF ResourcesOutliveHelper, MutexReleased, NoSleepOnReady
<1> QED  BY <1>1, <1>2, <1>3

\* The steps of stop_endpoint_threads.
LEMMA StopSafe ==
    ASSUME IInv, NEW e \in Endpoint, StopCancel(e) \/ StopJoin(e) \/ StopRelease(e)
    PROVE  EndpointInv' /\ LoopInv' /\ CoveredInv'
<1> USE DEF IInv, EndpointInv, threads, handoff, gate, service, core, mains, TypeOK
<1>1. StopInv'
  <2>1. CASE StopCancel(e)  BY <2>1 DEF StopInv, StopCancel, stopping
  <2>2. CASE StopJoin(e)  BY <2>2 DEF StopInv, StopJoin, stopping
  <2>3. CASE StopRelease(e)  BY <2>3 DEF StopInv, StopRelease
  <2> QED  BY <2>1, <2>2, <2>3
<1>2. HaltedInv'
  BY DEF HaltedInv, StopInv, StopCancel, StopJoin, StopRelease, Halted
<1>3. ResourcesOutliveHelper' /\ HelpersMatchEnabled'
  BY DEF ResourcesOutliveHelper, HelpersMatchEnabled, StopInv, StopCancel, StopJoin,
         StopRelease
<1>4. MutexReleased' /\ NoSleepOnReady'
  <2>1. CASE StopCancel(e)  BY <2>1 DEF MutexReleased, NoSleepOnReady, StopCancel
  <2>2. CASE StopJoin(e)  BY <2>2 DEF MutexReleased, NoSleepOnReady, HoldsPC, StopJoin
  <2>3. CASE StopRelease(e)  BY <2>3 DEF MutexReleased, NoSleepOnReady, StopRelease
  <2> QED  BY <2>1, <2>2, <2>3
<1>5. LoopInv'
  BY DEF LoopInv, StopCancel, StopJoin, StopRelease, stopping
<1>6. CoveredInv'
  BY DEF CoveredInv, IsReady, StopInv, StopCancel, StopJoin, StopRelease
<1> QED  BY <1>1, <1>2, <1>3, <1>4, <1>5, <1>6

\* stop_endpoint_threads returns.
LEMMA StopDoneSafe ==
    ASSUME IInv, StopDone
    PROVE  EndpointInv' /\ LoopInv' /\ CoveredInv'
<1> USE DEF IInv, EndpointInv, StopDone, threads, handoff, service, core, TypeOK
<1>1. \A e \in Endpoint : pc[e] = "none" /\ ~buffers[e]  BY DEF StopInv
<1>2. mpc' \in {"key3", "drain", "run", "exited"} /\ (mpc' = "exited" => ~installed')
  BY DEF StopInv, Continuation
<1>3. StopInv' /\ HaltedInv'  BY <1>1, <1>2 DEF StopInv, HaltedInv, NoStop, Halted
<1>4. ResourcesOutliveHelper' /\ HelpersMatchEnabled'
  BY <1>1 DEF ResourcesOutliveHelper, HelpersMatchEnabled, StopInv
<1>5. MutexReleased' /\ NoSleepOnReady'  BY DEF MutexReleased, NoSleepOnReady
<1>6. LoopInv' /\ CoveredInv'
  BY <1>2 DEF LoopInv, CoveredInv, IsReady, StopInv
<1> QED  BY <1>3, <1>4, <1>5, <1>6

\* The event loop outside service_controller's records and KEY3.
LEMMA LoopSafe ==
    ASSUME IInv,
           \/ \E h \in Interface \cup {Usb} : PollHandle(h)
           \/ Key3Idle \/ SignalReady \/ ServiceReturns \/ Recheck \/ TasksReady \/ EnterWfi
           \/ WfiWake \/ WfiEdge \/ WfiTimeout \/ Key3EjectRejected
           \/ \E es \in SUBSET Endpoint : SyseventsPoll(es)
    PROVE  EndpointInv' /\ LoopInv' /\ CoveredInv'
<1> DEFINE Kept == EndpointInv' /\ LoopInv' /\ CoveredInv'
<1> USE DEF IInv, LoopInv, CoveredInv, Announced, Unseen, IsReady, ServicePC, Halted, TypeOK,
            threads, handoff, gate, bus, mains, service, stopping, core
<1>1. ASSUME NEW h \in Interface \cup {Usb}, PollHandle(h) PROVE Kept
  BY <1>1, EndpointsKept, HandleAssumption DEF PollHandle, ServiceController
<1>2. CASE Key3Idle  BY <1>2, EndpointsKept DEF Key3Idle
<1>3. CASE SignalReady  BY <1>3, EndpointsKept DEF SignalReady
<1>4. CASE ServiceReturns
  BY <1>4, EndpointsKept DEF ServiceReturns, BeginRound, HandlesOf
<1>5. CASE Recheck  BY <1>5, EndpointsKept DEF Recheck
<1>6. CASE TasksReady  BY <1>6, EndpointsKept DEF TasksReady, RunTasks
<1>7. CASE EnterWfi  BY <1>7, EndpointsKept DEF EnterWfi
<1>8. CASE WfiWake \/ WfiEdge
  BY <1>8, EndpointsKept DEF WfiWake, WfiEdge, ServiceController
<1>9. CASE WfiTimeout  BY <1>9, EndpointsKept DEF WfiTimeout, RunTasks
<1>10. CASE Key3EjectRejected  BY <1>10, EndpointsKept DEF Key3EjectRejected
<1>11. ASSUME NEW es \in SUBSET Endpoint, SyseventsPoll(es) PROVE Kept
  BY <1>11, EndpointsKept DEF SyseventsPoll, BeginRound, HandlesOf
<1> QED
  BY <1>1, <1>2, <1>3, <1>4, <1>5, <1>6, <1>7, <1>8, <1>9, <1>10, <1>11

\* The records: a bus event or QUIESCE.
LEMMA RecordSafe ==
    ASSUME IInv, HandleRecord
    PROVE  EndpointInv' /\ LoopInv' /\ CoveredInv'
<1> DEFINE Kept == EndpointInv' /\ LoopInv' /\ CoveredInv'
<1> USE DEF IInv, EndpointInv, HandleRecord, threads, handoff, gate, service, TypeOK
<1>0. mpc = "record" /\ mpc' \in {"key3", "stop"}
  BY DEF EnableEvent, DisableEvent, SuspendEvent, QuiesceRecord, BeginStop
<1>1. CASE EnableEvent
  <2>1. CASE enabled
    <3>1. EndpointInv'  BY <1>0, <1>1, <2>1, EndpointsKept DEF EnableEvent, Halted
    <3>2. LoopInv' /\ CoveredInv'
      BY <1>0, <1>1, <2>1 DEF EnableEvent, LoopInv, CoveredInv, IsReady, Announced, Unseen, ServicePC
    <3> QED  BY <3>1, <3>2
  <2>2. CASE ~enabled
    <3>1. \A e \in Endpoint : /\ pc[e] = "none" /\ ~locked[e] /\ ~cancel[e]
                              /\ pc'[e] = IF installed THEN First(e) ELSE "none"
                              /\ event'[e] = IF installed THEN "clear" ELSE event[e]
                              /\ ~buffers[e] /\ buffers'[e] = (installed \/ buffers[e])
      BY <1>0, <1>1, <2>2 DEF EnableEvent, StartThreads, HelpersMatchEnabled, Halted, MutexReleased, HoldsPC, StopInv
    <3>2. mpc' = "key3" /\ enabled' = TRUE /\ UNCHANGED <<locked, cancel, slot, installed, dropped, todo, cont>>
      BY <1>1, <2>2 DEF EnableEvent, stopping
    <3>3. StopInv' /\ HaltedInv'  BY <1>0, <3>1, <3>2 DEF StopInv, HaltedInv, Halted
    <3>4. ResourcesOutliveHelper' /\ HelpersMatchEnabled'
      BY <3>1, <3>2 DEF ResourcesOutliveHelper, HelpersMatchEnabled, First
    <3>5. MutexReleased' /\ NoSleepOnReady'
      BY <3>1, <3>2 DEF MutexReleased, NoSleepOnReady, HoldsPC, First
    <3>6. LoopInv' /\ CoveredInv'
      BY <1>0, <1>1, <2>2 DEF EnableEvent, LoopInv, CoveredInv, Unseen, ServicePC
    <3> QED  BY <3>3, <3>4, <3>5, <3>6
  <2> QED  BY <2>1, <2>2
<1>2. CASE DisableEvent
  <2>1. EndpointInv'  BY <1>0, <1>2, StopBegins DEF DisableEvent
  <2>2. LoopInv' /\ CoveredInv'
    BY <1>0, <1>2 DEF DisableEvent, BeginStop, LoopInv, CoveredInv, IsReady
  <2> QED  BY <2>1, <2>2
<1>3. ASSUME NEW flag \in BOOLEAN, SuspendEvent(flag) PROVE Kept
  <2>1. EndpointInv'  BY <1>0, <1>3, EndpointsKept DEF SuspendEvent, Halted
  <2>2. LoopInv' /\ CoveredInv'
    BY <1>0, <1>3 DEF SuspendEvent, LoopInv, CoveredInv, IsReady, Announced, Unseen, ServicePC
  <2> QED  BY <2>1, <2>2
<1>4. ASSUME NEW next \in {"key3", "exited"}, QuiesceRecord(next) PROVE Kept
  <2>1. EndpointInv'  BY <1>0, <1>4, StopBegins DEF QuiesceRecord
  <2>2. LoopInv' /\ CoveredInv'
    BY <1>0, <1>4 DEF QuiesceRecord, BeginStop, LoopInv, CoveredInv, IsReady
  <2> QED  BY <2>1, <2>2
<1> QED  BY <1>1, <1>2, <1>3, <1>4

\* The exchanges of KEY3, usb_stop and usb_start all enter a stop.
LEMMA ExchangeSafe ==
    ASSUME IInv,
           (\E deinit \in BOOLEAN : UsbStop(deinit)) \/ UsbStart \/ Key3Eject \/ Key3Insert
    PROVE  EndpointInv' /\ LoopInv' /\ CoveredInv'
<1> USE DEF Exchange, core
<1>1. EndpointInv'
  <2>1. ASSUME NEW deinit \in BOOLEAN, UsbStop(deinit) PROVE EndpointInv'
    <3>1. CASE stack = "started"  BY <2>1, <3>1, StopBegins DEF UsbStop
    <3>2. CASE stack # "started"  BY <2>1, <3>2, EndpointsKept DEF UsbStop, Halted
    <3> QED  BY <3>1, <3>2
  <2>2. CASE UsbStart  BY <2>2, StopBegins DEF UsbStart
  <2>3. CASE Key3Eject  BY <2>3, StopBegins DEF Key3Eject
  <2>4. CASE Key3Insert  BY <2>4, StopBegins DEF Key3Insert
  <2> QED  BY <2>1, <2>2, <2>3, <2>4
<1>2. LoopInv' /\ CoveredInv'
  BY DEF IInv, LoopInv, CoveredInv, IsReady, BeginStop, UsbStop, UsbStart, Key3Eject, Key3Insert,
         service
<1> QED  BY <1>1, <1>2

\* usb_init takes the descriptors and eventfds, and leaves the rest.
LEMMA InitCallSafe ==
    ASSUME IInv, UsbInit
    PROVE  EndpointInv' /\ LoopInv' /\ CoveredInv'
<1> USE DEF IInv, EndpointInv, UsbInit, TypeOK, threads, mains, service, stopping, core
<1>1. StopInv'  BY DEF StopInv
<1>2. HaltedInv'  BY DEF HaltedInv, Halted
<1>3. ResourcesOutliveHelper'  BY DEF ResourcesOutliveHelper
<1>4. HelpersMatchEnabled'  BY DEF HelpersMatchEnabled, Halted
<1>5. MutexReleased' /\ NoSleepOnReady'  BY DEF MutexReleased, NoSleepOnReady
<1>6. LoopInv' /\ CoveredInv'  BY DEF LoopInv, CoveredInv
<1> QED  BY <1>1, <1>2, <1>3, <1>4, <1>5, <1>6

\* iface_read and iface_write: the helper that waits is woken with the mutex
\* free, and nothing is awaited while a task runs.
LEMMA IfaceSafe ==
    ASSUME IInv, NEW e \in Endpoint, IfaceRead(e) \/ \E p \in Packet : IfaceWrite(e, p)
    PROVE  EndpointInv' /\ LoopInv' /\ CoveredInv'
<1> USE DEF IInv, EndpointInv, IfaceRead, IfaceWrite, CondSignal, TypeOK, gate, mains, service,
            stopping, core
<1>1. StopInv' /\ HaltedInv'  BY DEF StopInv, HaltedInv
<1>2. ResourcesOutliveHelper' /\ HelpersMatchEnabled'
  BY DEF ResourcesOutliveHelper, HelpersMatchEnabled
<1>3. MutexReleased' /\ NoSleepOnReady'  BY DEF MutexReleased, NoSleepOnReady, HoldsPC
<1>4. LoopInv' /\ CoveredInv'  BY DEF LoopInv, CoveredInv
<1> QED  BY <1>1, <1>2, <1>3, <1>4

\* Every step keeps the invariant.
LEMMA StepSafe ==
    ASSUME IInv, [Next \/ Terminated]_vars
    PROVE  IInv'
<1>1. CASE MainServes
  <2>1. TypeOK' /\ RecordPending'  BY <1>1, MainTyped DEF IInv
  <2>2. CASE \E e \in Endpoint : DrainFails(e)  BY <2>2, EndsSafe DEF DrainFails, Halted
  <2>3. CASE \E e \in Endpoint : DrainNotification(e)
    <3> USE <2>3 DEF DrainNotification, IInv, EndpointInv, threads, gate, bus, stopping, core, TypeOK
    <3>1. StopInv' /\ HaltedInv'  BY DEF StopInv, HaltedInv, Halted
    <3>2. ResourcesOutliveHelper' /\ HelpersMatchEnabled'
      BY DEF ResourcesOutliveHelper, HelpersMatchEnabled, Halted
    <3>3. MutexReleased' /\ NoSleepOnReady'  BY DEF MutexReleased, NoSleepOnReady
    <3>4. LoopInv' /\ CoveredInv'
      BY DEF LoopInv, CoveredInv, IsReady, Announced, Unseen, ServicePC
    <3> QED  BY <2>1, <3>1, <3>2, <3>3, <3>4
  <2> QED
    BY <1>1, <2>1, <2>2, <2>3, LoopSafe, RecordSafe, StopSafe, StopDoneSafe DEF MainServes, IInv
<1>2. CASE CoreCalls
  <2>1. TypeOK' /\ RecordPending'  BY <1>2, CoreTyped DEF IInv
  <2>2. CASE ExchangeCrossed  BY <2>2, EndsSafe DEF ExchangeCrossed, Halted
  <2> QED
    BY <1>2, <2>1, <2>2, LoopSafe, ExchangeSafe, InitCallSafe, IfaceSafe DEF CoreCalls, IInv
<1>3. ASSUME NEW e \in Endpoint,
             HelperRuns(e) \/ HelperTransfers(e) \/ SpuriousWake(e) \/ HelperFails(e)
      PROVE  IInv'
  BY <1>3, HelperSafe
<1>4. ASSUME NEW kind \in Records, BusEvent(kind) PROVE IInv'
  <2>1. TypeOK' /\ RecordPending'  BY <1>4, BusTyped DEF IInv
  <2> USE <1>4 DEF BusEvent, IInv, EndpointInv, threads, handoff, gate, mains, service, stopping, core
  <2>2. StopInv' /\ HaltedInv' /\ LoopInv'  BY DEF StopInv, HaltedInv, LoopInv
  <2>3. ResourcesOutliveHelper' /\ HelpersMatchEnabled' /\ MutexReleased' /\ NoSleepOnReady'
    BY DEF ResourcesOutliveHelper, HelpersMatchEnabled, MutexReleased, NoSleepOnReady
  <2>4. CoveredInv'  BY DEF CoveredInv, IsReady, Announced, Unseen
  <2> QED  BY <2>1, <2>2, <2>3, <2>4
<1>5. CASE Terminated \/ UNCHANGED vars
  <2>0. UNCHANGED vars  BY <1>5 DEF Terminated
  <2> USE <2>0 DEF vars, IInv, EndpointInv, threads, handoff, gate, bus, mains, service,
                   stopping, core
  <2>1. TypeOK' /\ RecordPending'  BY DEF TypeOK, RecordPending
  <2>2. StopInv' /\ HaltedInv' /\ LoopInv'  BY DEF StopInv, HaltedInv, LoopInv
  <2>3. ResourcesOutliveHelper' /\ HelpersMatchEnabled' /\ MutexReleased' /\ NoSleepOnReady'
    BY DEF ResourcesOutliveHelper, HelpersMatchEnabled, MutexReleased, NoSleepOnReady
  <2>4. CoveredInv'  BY DEF CoveredInv, IsReady, Announced, Unseen
  <2> QED  BY <2>1, <2>2, <2>3, <2>4
<1> QED  BY <1>1, <1>2, <1>3, <1>4, <1>5 DEF Next

\* The program starts within the invariant.
LEMMA InitSafe == Init => IInv
<1> SUFFICES ASSUME Init PROVE IInv
  OBVIOUS
<1>1. TypeOK /\ RecordPending  BY InitTyped
<1>2. StopInv /\ HaltedInv /\ LoopInv /\ CoveredInv
  BY DEF Init, StopInv, HaltedInv, LoopInv, CoveredInv, Halted, NoStop
<1>3. ResourcesOutliveHelper /\ MutexReleased /\ NoSleepOnReady /\ HelpersMatchEnabled
  BY DEF Init, ResourcesOutliveHelper, MutexReleased, NoSleepOnReady, HelpersMatchEnabled, HoldsPC
<1> QED  BY <1>1, <1>2, <1>3 DEF IInv, EndpointInv

\* The inductive invariant holds throughout.
LEMMA Invariance == Spec => []IInv
BY InitSafe, StepSafe, PTL DEF Spec

\* A helper that was not joined finds its buffers, and its eventfd and
\* descriptor unless usb_init has forgotten those: stop_endpoint_threads and
\* close_endpoints release them after it.
THEOREM ResourcesOutlive == Spec => []ResourcesOutliveHelper
<1>1. IInv => ResourcesOutliveHelper  BY DEF IInv, EndpointInv
<1> QED  BY Invariance, <1>1, PTL

\* Wherever a helper is cancelled, the mutex of its endpoint is released.
THEOREM MutexIsReleased == Spec => []MutexReleased
<1>1. IInv => MutexReleased  BY DEF IInv, EndpointInv
<1> QED  BY Invariance, <1>1, PTL

\* No helper sleeps in pthread_cond_wait with work before it.
THEOREM NoMissedSignal == Spec => []NoSleepOnReady
<1>1. IInv => NoSleepOnReady  BY DEF IInv, EndpointInv
<1> QED  BY Invariance, <1>1, PTL

\* An endpoint has a helper exactly when it has buffers, only while the
\* controller is enabled, and, for a generation that usb_init has not forgotten,
\* whenever it is enabled and has descriptors.
THEOREM HelpersMatch == Spec => []HelpersMatchEnabled
<1>1. IInv => HelpersMatchEnabled  BY DEF IInv, EndpointInv
<1> QED  BY Invariance, <1>1, PTL

\* virtual_trezor_wait_for_interrupt never parks Core on an endpoint it waits
\* for that is ready and not announced, but for the round WfiSeesEveryGate tells.
THEOREM WakeupKept == Spec => []NoLostWakeup
<1>1. IInv => NoLostWakeup
  <2> SUFFICES ASSUME IInv, mpc = "wfi", ~opened, NEW e \in awaited, IsReady(e)
               PROVE  event[e] = "set" \/ pc[e] = "notify"
    BY DEF NoLostWakeup
  <2>1. Announced(e) \/ Unseen(e)  BY DEF IInv, LoopInv, CoveredInv
  <2>2. ~Unseen(e) /\ e \notin current  BY DEF IInv, LoopInv, Unseen, ServicePC
  <2> QED  BY <2>1, <2>2 DEF Announced
<1> QED  BY Invariance, <1>1, PTL
=============================================================================
