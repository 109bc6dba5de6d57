-------------------------- MODULE Safe3Pipe_proofs --------------------------
(***************************************************************************)
(* Proof that the endpoint handoff implements PacketPipe: no packet that a *)
(* helper has read or iface_write has accepted is lost, repeated, altered  *)
(* or overtaken, for any number of endpoints and any packets.              *)
(***************************************************************************)
EXTENDS Safe3Endpoint_proofs, SequenceTheorems

-----------------------------------------------------------------------------
(* Where packets are.                                                      *)

\* At the start there are no packets.
LEMMA InitPackets == Init => PacketInv
BY DEF Init, PacketInv

\* A step of a helper keeps packets where PacketInv says they are.
LEMMA HelperPackets ==
    ASSUME IInv, PacketInv, NEW e \in Endpoint,
           HelperRuns(e) \/ HelperTransfers(e) \/ SpuriousWake(e)
    PROVE  PacketInv'
<1>1. HelperFrame(e)  BY HelperFrames DEF IInv
<1> USE DEF IInv, TypeOK, PacketInv, HelperFrame, mains, stopping, threads, handoff
<1> DEFINE Own == /\ IsOut(e) /\ pc'[e] \in {"read", "notify"} => held'[e] = Empty
                  /\ pc'[e] \in {"write", "relock", "clear"} => ~IsOut(e) /\ slot'[e] # Empty
<1>2. Own
  <2>1. CASE Acquire(e)  BY <2>1 DEF Acquire
  <2>2. CASE Sleep(e)  BY <2>2 DEF Sleep
  <2>3. CASE OutPost(e)  BY <2>3 DEF OutPost
  <2>4. CASE InTake(e)  BY <2>4 DEF InTake
  <2>5. CASE InClear(e)  BY <2>5 DEF InClear
  <2>6. CASE Notify(e)  BY <2>6 DEF Notify, First
  <2>7. CASE Cancelled(e)  BY <2>7 DEF Cancelled
  <2>8. CASE Unwind(e)  BY <2>8 DEF Unwind
  <2>9. ASSUME NEW p \in Packet, OutRead(e, p) PROVE Own  BY <2>9 DEF OutRead
  <2>10. CASE InWritten(e)  BY <2>10 DEF InWritten
  <2>11. CASE GenerationEnded(e)  BY <2>11 DEF GenerationEnded
  <2>12. CASE SpuriousWake(e)  BY <2>12 DEF SpuriousWake
  <2> QED
    BY <2>1, <2>2, <2>3, <2>4, <2>5, <2>6, <2>7, <2>8, <2>9, <2>10, <2>11, <2>12
       DEF HelperRuns, HelperTransfers
<1> HIDE DEF Own
<1> QED  BY <1>1, <1>2 DEF Own

\* Steps of the main thread, other than ends and Core's reads and writes, move
\* no packet: buffers are only released, each with its helper gone.
LEMMA MainPackets ==
    ASSUME IInv, PacketInv, MainServes \/ CoreCalls
    PROVE  PacketInv'
<1> USE DEF IInv, TypeOK, PacketInv, threads, handoff, gate, bus, mains, service, stopping, core
<1>1. CASE \E h \in Interface \cup {Usb} : PollHandle(h)  BY <1>1 DEF PollHandle
<1>2. CASE HandleRecord
  <2> USE <1>2 DEF HandleRecord
  <2>1. CASE EnableEvent /\ ~enabled
    <3>1. \A e \in Endpoint : pc[e] = "none" /\ e \notin todo /\ pc'[e] \in {"none", First(e)}
      BY <2>1 DEF EnableEvent, StartThreads, EndpointInv, HelpersMatchEnabled, StopInv, Halted
    <3> QED  BY <2>1, <3>1 DEF EnableEvent, First
  <2>2. CASE EnableEvent /\ enabled  BY <2>2 DEF EnableEvent
  <2>3. CASE DisableEvent  BY <2>3 DEF DisableEvent, BeginStop
  <2>4. ASSUME NEW flag \in BOOLEAN, SuspendEvent(flag) PROVE PacketInv'
    BY <2>4 DEF SuspendEvent
  <2>5. ASSUME NEW next \in {"key3", "exited"}, QuiesceRecord(next) PROVE PacketInv'
    BY <2>5 DEF QuiesceRecord, BeginStop
  <2> QED  BY <2>1, <2>2, <2>3, <2>4, <2>5
<1>3. CASE \/ Key3Idle \/ SignalReady \/ ServiceReturns \/ Recheck \/ TasksReady \/ EnterWfi
           \/ WfiWake \/ WfiEdge \/ WfiTimeout \/ Key3EjectRejected
           \/ \E es \in SUBSET Endpoint : SyseventsPoll(es)
  BY <1>3 DEF Key3Idle, SignalReady, ServiceReturns, Recheck, TasksReady, EnterWfi, WfiWake,
     WfiEdge, WfiTimeout, Key3EjectRejected, SyseventsPoll, RunTasks
<1>4. CASE UsbStart \/ Key3Eject \/ Key3Insert
  BY <1>4 DEF UsbStart, Key3Eject, Key3Insert, Exchange, BeginStop
<1>5. CASE StopDone  BY <1>5 DEF StopDone
<1>6. ASSUME NEW e \in Endpoint,
             StopCancel(e) \/ StopJoin(e) \/ StopRelease(e) \/ DrainNotification(e)
      PROVE  PacketInv'
  BY <1>6 DEF StopCancel, StopJoin, StopRelease, DrainNotification, EndpointInv, StopInv
<1>7. CASE ExchangeCrossed \/ \E e \in Endpoint : DrainFails(e)
  BY <1>7 DEF ExchangeCrossed, DrainFails, ProcessEnds
<1>8. ASSUME NEW e \in Endpoint, IfaceRead(e) PROVE PacketInv'
  BY <1>8 DEF IfaceRead, CondSignal
<1>9. ASSUME NEW e \in Endpoint, NEW p \in Packet, IfaceWrite(e, p) PROVE PacketInv'
  BY <1>9, PacketAssumption DEF IfaceWrite, CondSignal
<1>10. ASSUME NEW deinit \in BOOLEAN, UsbStop(deinit) PROVE PacketInv'
  <2>1. CASE stack = "started"  BY <1>10, <2>1 DEF UsbStop, BeginStop
  <2>2. CASE stack # "started"  BY <1>10, <2>2 DEF UsbStop
  <2> QED  BY <2>1, <2>2
<1>11. CASE UsbInit  BY <1>11 DEF UsbInit
<1> QED
  BY <1>1, <1>2, <1>3, <1>4, <1>5, <1>6, <1>7, <1>8, <1>9, <1>10, <1>11
     DEF MainServes, CoreCalls

\* Every step keeps packets where PacketInv says they are.
LEMMA StepPackets ==
    ASSUME IInv, PacketInv, [Next \/ Terminated]_vars
    PROVE  PacketInv'
<1>1. CASE MainServes \/ CoreCalls  BY <1>1, MainPackets
<1>2. ASSUME NEW e \in Endpoint, HelperRuns(e) \/ HelperTransfers(e) \/ SpuriousWake(e)
      PROVE  PacketInv'
  BY <1>2, HelperPackets
<1>3. ASSUME NEW e \in Endpoint, HelperFails(e) PROVE PacketInv'
  BY <1>3 DEF HelperFails, TransferFails, NotifyFails, ProcessEnds, PacketInv
<1>4. ASSUME NEW kind \in Records, BusEvent(kind) PROVE PacketInv'
  BY <1>4 DEF BusEvent, PacketInv, threads, handoff, mains, stopping
<1>5. CASE Terminated \/ UNCHANGED vars
  BY <1>5 DEF Terminated, vars, PacketInv, threads, handoff, mains, stopping
<1> QED  BY <1>1, <1>2, <1>3, <1>4, <1>5 DEF Next

\* Both invariants hold throughout.
LEMMA PacketInvariance == Spec => [](IInv /\ PacketInv)
BY InitSafe, StepSafe, InitPackets, StepPackets, PTL DEF Spec
-----------------------------------------------------------------------------
(* What a step does to the queues.                                         *)

\* An OUT path, as a sequence.
LEMMA OutPath ==
    ASSUME NEW s \in Packet \cup {Empty}, NEW h \in Packet \cup {Empty}
    PROVE  /\ Contents(s) \o Contents(h) \in Seq(Packet)
           /\ s = Empty => Contents(s) \o Contents(h) = Contents(h)
           /\ h = Empty => Contents(s) \o Contents(h) = Contents(s)
           /\ s # Empty /\ h # Empty => Contents(s) \o Contents(h) = <<s, h>>
<1>1. Contents(s) \in Seq(Packet) /\ Contents(h) \in Seq(Packet)  BY DEF Contents
<1>2. Contents(s) \o Contents(h) \in Seq(Packet)  BY <1>1
<1>3. ASSUME s = Empty PROVE Contents(s) \o Contents(h) = Contents(h)
  BY <1>1, <1>3, ConcatEmptySeq DEF Contents
<1>4. ASSUME h = Empty PROVE Contents(s) \o Contents(h) = Contents(s)
  BY <1>1, <1>4, ConcatEmptySeq DEF Contents
<1>5. ASSUME s # Empty, h # Empty PROVE Contents(s) \o Contents(h) = <<s, h>>
  <2>1. Contents(s) = <<s>> /\ Contents(h) = <<h>> /\ s \in Packet /\ h \in Packet
    BY <1>5 DEF Contents
  <2>2. <<s>> \o <<h>> \in Seq(Packet) /\ <<s, h>> \in Seq(Packet)  BY <2>1
  <2>3. Len(<<s>> \o <<h>>) = 2 /\ Len(<<s, h>>) = 2  BY <2>1
  <2>4. (<<s>> \o <<h>>)[1] = s /\ (<<s>> \o <<h>>)[2] = h  BY <2>1
  <2>5. \A i \in 1..2 : (<<s>> \o <<h>>)[i] = <<s, h>>[i]  BY <2>4
  <2> QED  BY <2>1, <2>2, <2>3, <2>5, SeqEqual
<1> QED  BY <1>2, <1>3, <1>4, <1>5

\* A packet appended to at most one.
LEMMA AppendOne ==
    ASSUME NEW s \in Packet \cup {Empty}, NEW p \in Packet
    PROVE  /\ Contents(s) \o Contents(p) = Append(Contents(s), p)
           /\ Contents(p) = <<p>> /\ Contents(p) = Append(<<>>, p)
           /\ Len(Contents(s)) < 2
<1>1. Contents(p) = <<p>>  BY PacketAssumption DEF Contents
<1>2. Contents(s) \in Seq(Packet)  BY DEF Contents
<1> QED  BY <1>1, <1>2, AppendIsConcat DEF Contents

\* The queue of an endpoint is kept, grows by a packet, loses its oldest one,
\* or is emptied.
Kept(e) == PipeQueue(e)' = PipeQueue(e)
Grows(e, p) == PipeQueue(e)' = Append(PipeQueue(e), p) /\ Len(PipeQueue(e)) < (IF IsOut(e) THEN 2 ELSE 1)
Shrinks(e) == PipeQueue(e) # <<>> /\ PipeQueue(e)' = Tail(PipeQueue(e))
Emptied(e) == PipeQueue(e)' = <<>>

\* The path of every endpoint is a sequence of packets.
LEMMA QueueType ==
    ASSUME TypeOK, NEW e \in Endpoint
    PROVE  PipeQueue(e) \in Seq(Packet)
<1>1. Contents(slot[e]) \in Seq(Packet)  BY DEF TypeOK, Contents
<1> QED  BY <1>1, OutPath DEF PipeQueue, TypeOK

\* read(fd) returning a packet.
LEMMA OutReadGrows ==
    ASSUME IInv, PacketInv, NEW e \in Endpoint, NEW p \in Packet, OutRead(e, p)
    PROVE  Grows(e, p) /\ \A f \in Endpoint \ {e} : Kept(f)
<1> USE DEF IInv, TypeOK, OutRead, handoff
<1>1. held[e] = Empty /\ held'[e] = p /\ slot' = slot /\ IsOut(e)  BY DEF PacketInv
<1>2. PipeQueue(e) = Contents(slot[e])  BY <1>1, OutPath DEF PipeQueue
<1>3. PipeQueue(e)' = Contents(slot[e]) \o Contents(p)  BY <1>1 DEF PipeQueue
<1>4. Grows(e, p)  BY <1>1, <1>2, <1>3, AppendOne DEF Grows
<1>5. ASSUME NEW f \in Endpoint \ {e} PROVE Kept(f)  BY DEF Kept, PipeQueue
<1> QED  BY <1>4, <1>5

\* iface_write accepting a packet.
LEMMA IfaceWriteGrows ==
    ASSUME IInv, PacketInv, NEW e \in Endpoint, NEW p \in Packet, IfaceWrite(e, p)
    PROVE  Grows(e, p) /\ \A f \in Endpoint \ {e} : Kept(f)
<1> USE DEF IInv, TypeOK, IfaceWrite, CondSignal
<1>1. slot[e] = Empty /\ slot'[e] = p /\ ~IsOut(e) /\ pc'[e] \notin {"relock", "clear"}
  BY DEF PacketInv
<1>2. PipeQueue(e) = <<>>  BY <1>1 DEF PipeQueue, Contents
<1>3. PipeQueue(e)' = Contents(p)  BY <1>1 DEF PipeQueue
<1>4. Grows(e, p)  BY <1>1, <1>2, <1>3, AppendOne DEF Grows
<1>5. ASSUME NEW f \in Endpoint \ {e} PROVE Kept(f)  BY DEF Kept, PipeQueue
<1> QED  BY <1>4, <1>5

\* iface_read of an occupied slot.
LEMMA IfaceReadShrinks ==
    ASSUME IInv, PacketInv, NEW e \in Endpoint, IfaceRead(e)
    PROVE  Shrinks(e) /\ \A f \in Endpoint \ {e} : Kept(f)
<1> USE DEF IInv, TypeOK, IfaceRead, CondSignal
<1>1. slot[e] \in Packet /\ slot'[e] = Empty /\ held' = held /\ IsOut(e)  OBVIOUS
<1>2. PipeQueue(e)' = Contents(held[e])  BY <1>1, OutPath DEF PipeQueue
<1>3. PipeQueue(e) = IF held[e] = Empty THEN <<slot[e]>> ELSE <<slot[e], held[e]>>
  BY <1>1, PacketAssumption, OutPath DEF PipeQueue, Contents
<1>4. Shrinks(e)
  <2>1. CASE held[e] = Empty  BY <1>1, <1>2, <1>3, <2>1 DEF Shrinks, Contents
  <2>2. CASE held[e] # Empty
    <3>1. held[e] \in Packet /\ PipeQueue(e) = <<slot[e], held[e]>> /\ PipeQueue(e)' = <<held[e]>>
      BY <1>2, <1>3, <2>2 DEF Contents
    <3> QED  BY <1>1, <3>1 DEF Shrinks
  <2> QED  BY <2>1, <2>2
<1>5. ASSUME NEW f \in Endpoint \ {e} PROVE Kept(f)  BY DEF Kept, PipeQueue
<1> QED  BY <1>4, <1>5

\* The host taking the packet in the slot.
LEMMA InWrittenShrinks ==
    ASSUME IInv, PacketInv, NEW e \in Endpoint, InWritten(e)
    PROVE  Shrinks(e) /\ \A f \in Endpoint \ {e} : Kept(f)
<1> USE DEF IInv, TypeOK, InWritten, handoff
<1>1. slot[e] \in Packet /\ ~IsOut(e) /\ pc[e] = "write" /\ pc'[e] = "relock" /\ slot' = slot
  BY DEF PacketInv
<1>2. PipeQueue(e) = <<slot[e]>> /\ PipeQueue(e)' = <<>>
  BY <1>1, PacketAssumption DEF PipeQueue, Contents
<1>3. Shrinks(e)  BY <1>1, <1>2 DEF Shrinks
<1>4. ASSUME NEW f \in Endpoint \ {e} PROVE Kept(f)  BY DEF Kept, PipeQueue
<1> QED  BY <1>3, <1>4

\* Releasing the buffers of an endpoint.
LEMMA StopReleaseEmpties ==
    ASSUME IInv, NEW e \in Endpoint, StopRelease(e)
    PROVE  Emptied(e) /\ \A f \in Endpoint \ {e} : Kept(f)
<1> USE DEF IInv, TypeOK, StopRelease
<1>1. slot'[e] = Empty /\ held'[e] = Empty  OBVIOUS
<1>2. Emptied(e)  BY <1>1, OutPath DEF Emptied, PipeQueue, Contents
<1>3. ASSUME NEW f \in Endpoint \ {e} PROVE Kept(f)  BY DEF Kept, PipeQueue
<1> QED  BY <1>2, <1>3

\* The end of the process.
LEMMA EndEmpties ==
    ASSUME NEW how \in Halted, ProcessEnds(how)
    PROVE  mpc' \in Halted /\ \A e \in Endpoint : Emptied(e)
<1>1. ASSUME NEW e \in Endpoint PROVE Emptied(e)
  <2>1. slot'[e] = Empty /\ held'[e] = Empty  BY DEF ProcessEnds
  <2> QED  BY <2>1, OutPath DEF Emptied, PipeQueue, Contents
<1> QED  BY <1>1 DEF ProcessEnds

\* The other steps of a helper: the packet moves inside its path, or not at all.
LEMMA HelperKeeps ==
    ASSUME IInv, PacketInv, NEW e \in Endpoint,
           HelperRuns(e) \/ GenerationEnded(e) \/ SpuriousWake(e)
    PROVE  \A f \in Endpoint : Kept(f)
<1> USE DEF IInv, TypeOK
<1>1. Kept(e)
  <2> USE DEF Kept, PipeQueue, handoff
  <2>1. CASE Acquire(e)
    <3>1. UNCHANGED <<slot, held>> /\ (pc'[e] \in {"relock", "clear"} <=> pc[e] \in {"relock", "clear"})
      BY <2>1 DEF Acquire
    <3> QED  BY <3>1
  <2>2. CASE Sleep(e)  BY <2>2 DEF Sleep
  <2>3. CASE OutPost(e)
    <3>1. IsOut(e) /\ slot[e] = Empty /\ slot'[e] = held[e] /\ held'[e] = Empty
      BY <2>3 DEF OutPost
    <3>2. PipeQueue(e) = Contents(held[e]) /\ PipeQueue(e)' = Contents(held[e])
      BY <3>1, OutPath
    <3> QED  BY <3>2
  <2>4. CASE InTake(e)  BY <2>4 DEF InTake
  <2>5. CASE InClear(e)
    <3>1. ~IsOut(e) /\ pc[e] = "clear" /\ pc'[e] = "notify" /\ slot'[e] = Empty
      BY <2>5 DEF InClear, PacketInv
    <3> QED  BY <3>1 DEF Contents
  <2>6. CASE Notify(e)  BY <2>6 DEF Notify, First
  <2>7. CASE Cancelled(e)  BY <2>7 DEF Cancelled
  <2>8. CASE Unwind(e)  BY <2>8 DEF Unwind
  <2>9. CASE GenerationEnded(e)  BY <2>9 DEF GenerationEnded
  <2>10. CASE SpuriousWake(e)  BY <2>10 DEF SpuriousWake
  <2> QED
    BY <2>1, <2>2, <2>3, <2>4, <2>5, <2>6, <2>7, <2>8, <2>9, <2>10 DEF HelperRuns
<1>2. HelperFrame(e)  BY HelperFrames DEF HelperTransfers
<1>3. ASSUME NEW f \in Endpoint \ {e} PROVE Kept(f)
  BY <1>2 DEF HelperFrame, Kept, PipeQueue
<1> QED  BY <1>1, <1>3

\* The steps of the main thread that are neither of the above.
LEMMA MainKeeps ==
    ASSUME IInv, MainServes \/ CoreCalls
    PROVE  \/ \A f \in Endpoint : Kept(f)
           \/ \E e \in Endpoint : IfaceRead(e) \/ StopRelease(e) \/ \E p \in Packet : IfaceWrite(e, p)
           \/ \E how \in Halted : ProcessEnds(how)
<1> DEFINE Same == \A f \in Endpoint : Kept(f)
<1> USE DEF IInv, TypeOK, Kept, PipeQueue, threads, handoff
<1>1. CASE \E h \in Interface \cup {Usb} : PollHandle(h)  BY <1>1 DEF PollHandle
<1>2. CASE HandleRecord
  <2>1. slot' = slot /\ held' = held
    BY <1>2 DEF HandleRecord, EnableEvent, DisableEvent, SuspendEvent, QuiesceRecord
  <2>2. \A f \in Endpoint : pc'[f] = pc[f] \/ (pc[f] = "none" /\ pc'[f] = First(f))
    <3>1. CASE EnableEvent /\ ~enabled
      <4>1. \A f \in Endpoint : pc[f] = "none"
        BY <1>2, <3>1 DEF HandleRecord, EndpointInv, HelpersMatchEnabled, Halted
      <4> QED  BY <3>1, <4>1 DEF EnableEvent, StartThreads
    <3>2. CASE ~EnableEvent \/ enabled
      BY <1>2, <3>2 DEF HandleRecord, EnableEvent, DisableEvent, SuspendEvent, QuiesceRecord
    <3> QED  BY <3>1, <3>2
  <2> QED  BY <2>1, <2>2 DEF First
<1>3. CASE \/ Key3Idle \/ SignalReady \/ ServiceReturns \/ Recheck \/ TasksReady \/ EnterWfi
           \/ WfiWake \/ WfiEdge \/ WfiTimeout \/ Key3EjectRejected
           \/ \E es \in SUBSET Endpoint : SyseventsPoll(es)
  BY <1>3 DEF Key3Idle, SignalReady, ServiceReturns, Recheck, TasksReady, EnterWfi, WfiWake,
     WfiEdge, WfiTimeout, Key3EjectRejected, SyseventsPoll, RunTasks
<1>4. CASE UsbStart \/ Key3Eject \/ Key3Insert
  BY <1>4 DEF UsbStart, Key3Eject, Key3Insert, Exchange, BeginStop
<1>5. CASE StopDone  BY <1>5 DEF StopDone
<1>6. ASSUME NEW e \in Endpoint, StopCancel(e) \/ StopJoin(e) \/ DrainNotification(e)
      PROVE  Same
  BY <1>6 DEF StopCancel, StopJoin, DrainNotification
<1>7. CASE ExchangeCrossed \/ \E e \in Endpoint : DrainFails(e)
  BY <1>7 DEF ExchangeCrossed, DrainFails, Halted
<1>8. CASE (\E deinit \in BOOLEAN : UsbStop(deinit)) \/ UsbInit
  BY <1>8 DEF UsbStop, UsbInit
<1> QED
  BY <1>1, <1>2, <1>3, <1>4, <1>5, <1>6, <1>7, <1>8 DEF MainServes, CoreCalls

\* Every step does one of five things to the queues.
LEMMA QueueStep ==
    ASSUME IInv, PacketInv, [Next \/ Terminated]_vars
    PROVE  \/ \A f \in Endpoint : Kept(f)
           \/ \E e \in Endpoint, p \in Packet : Grows(e, p) /\ \A f \in Endpoint \ {e} : Kept(f)
           \/ \E e \in Endpoint : /\ IfaceRead(e) \/ InWritten(e)
                                  /\ Shrinks(e) /\ \A f \in Endpoint \ {e} : Kept(f)
           \/ \E e \in Endpoint : /\ StopRelease(e)
                                  /\ Emptied(e) /\ \A f \in Endpoint \ {e} : Kept(f)
           \/ mpc' \in Halted /\ \A e \in Endpoint : Emptied(e)
<1>1. CASE MainServes \/ CoreCalls
  BY <1>1, MainKeeps, IfaceReadShrinks, IfaceWriteGrows, StopReleaseEmpties, EndEmpties
<1>2. CASE \E e \in Endpoint : HelperRuns(e) \/ HelperTransfers(e) \/ SpuriousWake(e)
  BY <1>2, HelperKeeps, OutReadGrows, InWrittenShrinks DEF HelperTransfers
<1>3. CASE \E e \in Endpoint : HelperFails(e)
  BY <1>3, EndEmpties DEF HelperFails, TransferFails, NotifyFails, Halted
<1>4. CASE (\E kind \in Records : BusEvent(kind)) \/ Terminated \/ UNCHANGED vars
  BY <1>4 DEF BusEvent, Terminated, vars, threads, handoff, Kept, PipeQueue
<1> QED  BY <1>1, <1>2, <1>3, <1>4 DEF Next
-----------------------------------------------------------------------------
(* The theorems.                                                           *)

\* The handoff implements the pipe.
THEOREM PipeImplemented == Spec => PipeRefined
<1> DEFINE queue == [e \in Endpoint |-> PipeQueue(e)]
<1>1. Init => Pipe!Init
  <2> SUFFICES ASSUME Init PROVE \A e \in Endpoint : PipeQueue(e) = <<>>
    BY DEF Pipe!Init
  <2>1. \A e \in Endpoint : slot[e] = Empty /\ held[e] = Empty /\ pc[e] = "none"  BY DEF Init
  <2> QED  BY <2>1, OutPath DEF PipeQueue, Contents
<1>2. ASSUME IInv, PacketInv, [Next \/ Terminated]_vars
      PROVE  Pipe!Next \/ UNCHANGED queue
  <2>1. CASE \A f \in Endpoint : Kept(f)  BY <2>1 DEF Kept
  <2>2. ASSUME NEW e \in Endpoint, NEW p \in Packet,
               Grows(e, p), \A f \in Endpoint \ {e} : Kept(f)
        PROVE  Pipe!Next
    <3>1. Pipe!Send(e, p)  BY <2>2 DEF Pipe!Send, Grows, Kept
    <3> QED  BY <3>1 DEF Pipe!Next
  <2>3. ASSUME NEW e \in Endpoint, Shrinks(e), \A f \in Endpoint \ {e} : Kept(f)
        PROVE  Pipe!Next
    <3>1. Pipe!Receive(e)  BY <2>3 DEF Pipe!Receive, Shrinks, Kept
    <3> QED  BY <3>1 DEF Pipe!Next
  <2>4. ASSUME NEW e \in Endpoint, Emptied(e), \A f \in Endpoint \ {e} : Kept(f)
        PROVE  Pipe!Next
    <3>1. Pipe!Reset({e})  BY <2>4 DEF Pipe!Reset, Emptied, Kept
    <3> QED  BY <3>1 DEF Pipe!Next
  <2>5. CASE \A e \in Endpoint : Emptied(e)
    <3>1. Pipe!Reset(Endpoint)  BY <2>5 DEF Pipe!Reset, Emptied
    <3> QED  BY <3>1 DEF Pipe!Next
  <2> QED  BY <1>2, <2>1, <2>2, <2>3, <2>4, <2>5, QueueStep
<1> QED  BY <1>1, <1>2, PacketInvariance, PTL DEF Spec, PipeRefined, Pipe!Spec

\* A pipe receives only where the code delivers or releases.
LEMMA ReceiveIsCall ==
    ASSUME IInv, PacketInv, [Next \/ Terminated]_vars, NEW e \in Endpoint, Pipe!Receive(e)
    PROVE  IfaceRead(e) \/ InWritten(e) \/ StopRelease(e) \/ mpc' \in Halted
<1>1. PipeQueue(e) \in Seq(Packet)  BY QueueType DEF IInv
<1>2. PipeQueue(e) # <<>> /\ PipeQueue(e)' = Tail(PipeQueue(e))  BY DEF Pipe!Receive
<1>3. Len(PipeQueue(e)') = Len(PipeQueue(e)) - 1  BY <1>1, <1>2
<1>4. ~Kept(e)  BY <1>1, <1>3 DEF Kept
<1>5. \A p \in Packet : ~Grows(e, p)  BY <1>1, <1>3 DEF Grows
<1> QED  BY <1>4, <1>5, QueueStep

\* Both ends of the pipe are the calls the code makes.
THEOREM EndsAreCalls == Spec => PipeEnds
<1> DEFINE Ends(e) ==
        /\ \A p \in Packet : OutRead(e, p) \/ IfaceWrite(e, p) => Pipe!Send(e, p)
        /\ IfaceRead(e) \/ InWritten(e) => Pipe!Receive(e)
        /\ Pipe!Receive(e) =>
               IfaceRead(e) \/ InWritten(e) \/ StopRelease(e) \/ mpc' \in Halted
<1>1. ASSUME IInv, PacketInv, [Next \/ Terminated]_vars
      PROVE  \A e \in Endpoint : Ends(e)
  <2> SUFFICES ASSUME NEW e \in Endpoint PROVE Ends(e)
    OBVIOUS
  <2>1. ASSUME NEW p \in Packet, OutRead(e, p) \/ IfaceWrite(e, p) PROVE Pipe!Send(e, p)
    <3>1. Grows(e, p) /\ \A f \in Endpoint \ {e} : Kept(f)
      BY <1>1, <2>1, OutReadGrows, IfaceWriteGrows
    <3> QED  BY <3>1 DEF Pipe!Send, Grows, Kept
  <2>2. ASSUME IfaceRead(e) \/ InWritten(e) PROVE Pipe!Receive(e)
    <3>1. Shrinks(e) /\ \A f \in Endpoint \ {e} : Kept(f)
      BY <1>1, <2>2, IfaceReadShrinks, InWrittenShrinks
    <3> QED  BY <3>1 DEF Pipe!Receive, Shrinks, Kept
  <2> QED  BY <1>1, <2>1, <2>2, ReceiveIsCall
<1>2. IInv /\ PacketInv /\ [Next \/ Terminated]_vars => [\A e \in Endpoint : Ends(e)]_vars
  BY <1>1
<1> QED  BY <1>2, PacketInvariance, PTL DEF Spec, PipeEnds

\* A packet is only ever where the handoff of the helper and of Core left it.
THEOREM PacketsAccounted == Spec => []PacketInv
BY PacketInvariance, PTL
=============================================================================
