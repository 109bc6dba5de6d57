------------------------ MODULE LegacyController_proofs ------------------------
(***************************************************************************)
(* Proofs about LegacyController, for any endpoints, depth of nesting and  *)
(* length of the socket's queue.                                           *)
(***************************************************************************)
EXTENDS LegacyController, TLAPS, SequenceTheorems

\* The services on the stack, and the record that is handled, exist.
StackInv ==
    /\ mpc \in {"poll", "record", "loop", "flush", "write"} => stack # <<>>
    /\ mpc = "stop" /\ cont.next = "loop" => stack # <<>>
    /\ mpc = "record" => inbox # <<>>

\* A reader that does not exist left nothing behind; an enabled controller has all
\* of them; a stop leaves none behind.
ThreadInv ==
    /\ AnnouncedOnce
    /\ \A e \in Endpoint : pc[e] = "none" => slot[e] = Empty
    /\ \A e \in Endpoint : pc[e] = "post" <=> held[e] # Empty
    /\ usbEnabled => mpc # "stop" /\ \A e \in Endpoint : pc[e] # "none"
    /\ mpc = "stop" => \A e \in Endpoint \ todo : pc[e] = "none"

\* The order of the records in the socket q: between two ENABLEs there is a record
\* that stops the readers; after the last one there is, when the function is not
\* live (any more); and nothing but the end follows a QUIESCE.
Resets == {"bind", "unbind", "disable", "quiesce"}
EnablesApart(q) ==
    \A i, k \in 1..Len(q) : i < k /\ q[i] = "enable" /\ q[k] = "enable" =>
        \E j \in 1..Len(q) : i < j /\ j < k /\ q[j] \in Resets
EnableEnded(q) ==
    \A i \in 1..Len(q) : q[i] = "enable" =>
        \E j \in 1..Len(q) : i < j /\ q[j] \in Resets \cup {"end"}
OnlyEnd(q) == \A k \in 1..Len(q) : q[k] = "end"
QuiesceLast(q) ==
    \A i, k \in 1..Len(q) : i < k /\ q[i] = "quiesce" => q[k] = "end"
ResetFirst(q) ==
    \A i \in 1..Len(q) : q[i] = "enable" => \E j \in 1..Len(q) : j < i /\ q[j] \in Resets
ResetComes(q) == \E j \in 1..Len(q) : q[j] \in Resets \cup {"end"}

\* While there are readers that nothing stops yet, a record that does is ahead of
\* any ENABLE: usb_enabled says less, as it may be cleared with the readers running.
Running == mpc # "stop" /\ \E e \in Endpoint : pc[e] # "none"
BusInv ==
    /\ EnablesApart(inbox) /\ QuiesceLast(inbox)
    /\ ~live => EnableEnded(inbox)
    /\ Running => ResetFirst(inbox)
    /\ Running /\ ~live => ResetComes(inbox)
    /\ mpc = "stop" /\ cont.fds # "keep" => OnlyEnd(inbox)

IInv == TypeOK /\ StackInv /\ ThreadInv /\ BusInv

Step == [Next \/ Terminated]_vars
-----------------------------------------------------------------------------
(* The socket.                                                             *)

\* One record is taken.
LEMMA Taken ==
    ASSUME NEW q \in Seq(Records), q # <<>>
    PROVE  /\ Tail(q) \in Seq(Records) /\ Head(q) \in Records
           /\ Len(Tail(q)) = Len(q) - 1
           /\ \A i \in 1..Len(Tail(q)) : Tail(q)[i] = q[i + 1]
OBVIOUS

LEMMA TakenOrder ==
    ASSUME NEW q \in Seq(Records), q # <<>>
    PROVE  /\ EnablesApart(q) => EnablesApart(Tail(q))
           /\ QuiesceLast(q) => QuiesceLast(Tail(q))
           /\ EnableEnded(q) => EnableEnded(Tail(q))
           /\ OnlyEnd(q) => OnlyEnd(Tail(q))
           /\ Head(q) = "quiesce" /\ QuiesceLast(q) => OnlyEnd(Tail(q))
           /\ Head(q) \notin Resets /\ ResetFirst(q) => ResetFirst(Tail(q))
           /\ Head(q) \notin Resets \cup {"end"} /\ ResetComes(q) => ResetComes(Tail(q))
           /\ Head(q) = "enable" /\ EnablesApart(q) => ResetFirst(Tail(q))
           /\ Head(q) = "enable" /\ EnableEnded(q) => ResetComes(Tail(q))
           /\ Head(q) = "enable" => ~ResetFirst(q)
<1> DEFINE t == Tail(q)
<1>1. /\ t \in Seq(Records) /\ Len(t) = Len(q) - 1 /\ Len(q) \in Nat \ {0}
      /\ \A i \in 1..Len(t) : t[i] = q[i + 1] /\ i + 1 \in 1..Len(q)
      /\ \A j \in 1..Len(q) : 1 < j => j - 1 \in 1..Len(t) /\ t[j - 1] = q[j]
      /\ Head(q) = q[1] /\ 1 \in 1..Len(q)
    BY Taken
<1> HIDE DEF t
<1>2. ASSUME EnablesApart(q) PROVE EnablesApart(t)
  <2> SUFFICES ASSUME NEW i \in 1..Len(t), NEW k \in 1..Len(t),
                      i < k, t[i] = "enable", t[k] = "enable"
               PROVE  \E j \in 1..Len(t) : i < j /\ j < k /\ t[j] \in Resets
      BY DEF EnablesApart
  <2>1. PICK j \in 1..Len(q) : i + 1 < j /\ j < k + 1 /\ q[j] \in Resets
      BY <1>1, <1>2 DEF EnablesApart
  <2>2. j - 1 \in 1..Len(t) /\ t[j - 1] = q[j] /\ i < j - 1 /\ j - 1 < k
      BY <1>1, <2>1
  <2> QED
      BY <2>1, <2>2
<1>3. QuiesceLast(q) => QuiesceLast(t)
    BY <1>1 DEF QuiesceLast
<1>4. ASSUME EnableEnded(q) PROVE EnableEnded(t)
  <2> SUFFICES ASSUME NEW i \in 1..Len(t), t[i] = "enable"
               PROVE  \E j \in 1..Len(t) : i < j /\ t[j] \in Resets \cup {"end"}
      BY DEF EnableEnded
  <2>1. PICK j \in 1..Len(q) : i + 1 < j /\ q[j] \in Resets \cup {"end"}
      BY <1>1, <1>4 DEF EnableEnded
  <2>2. j - 1 \in 1..Len(t) /\ t[j - 1] = q[j] /\ i < j - 1
      BY <1>1, <2>1
  <2> QED
      BY <2>1, <2>2
<1>5. OnlyEnd(q) => OnlyEnd(t)
    BY <1>1 DEF OnlyEnd
<1>6. Head(q) = "quiesce" /\ QuiesceLast(q) => OnlyEnd(t)
    BY <1>1 DEF QuiesceLast, OnlyEnd
<1>7. ASSUME Head(q) \notin Resets, ResetFirst(q) PROVE ResetFirst(t)
  <2> SUFFICES ASSUME NEW i \in 1..Len(t), t[i] = "enable"
               PROVE  \E j \in 1..Len(t) : j < i /\ t[j] \in Resets
      BY DEF ResetFirst
  <2>1. PICK j \in 1..Len(q) : j < i + 1 /\ q[j] \in Resets
      BY <1>1, <1>7 DEF ResetFirst
  <2>2. j # 1
      BY <1>1, <1>7, <2>1
  <2>3. j - 1 \in 1..Len(t) /\ t[j - 1] = q[j] /\ j - 1 < i
      BY <1>1, <2>1, <2>2
  <2> QED
      BY <2>1, <2>3
<1>8. Head(q) \notin Resets \cup {"end"} /\ ResetComes(q) => ResetComes(t)
    BY <1>1 DEF ResetComes
<1>9. Head(q) = "enable" /\ EnablesApart(q) => ResetFirst(t)
    BY <1>1 DEF EnablesApart, ResetFirst
<1>10. Head(q) = "enable" /\ EnableEnded(q) => ResetComes(t)
    BY <1>1 DEF EnableEnded, ResetComes
<1>11. Head(q) = "enable" => ~ResetFirst(q)
    BY <1>1 DEF ResetFirst
<1> QED
    BY <1>2, <1>3, <1>4, <1>5, <1>6, <1>7, <1>8, <1>9, <1>10, <1>11 DEF t

\* One is sent, and the stream has not ended before.
LEMMA SentOrder ==
    ASSUME NEW q \in Seq(Records), NEW kind \in Records, \A i \in 1..Len(q) : q[i] # "end"
    PROVE  LET a == Append(q, kind)
           IN  /\ a \in Seq(Records)
               /\ EnablesApart(q) /\ (kind = "enable" => EnableEnded(q)) => EnablesApart(a)
               /\ QuiesceLast(q) /\ (kind = "end" \/ \A i \in 1..Len(q) : q[i] # "quiesce")
                      => QuiesceLast(a)
               /\ kind # "enable" /\ EnableEnded(q) => EnableEnded(a)
               /\ kind \in Resets \cup {"end"} => EnableEnded(a) /\ ResetComes(a)
               /\ ResetFirst(q) /\ (kind = "enable" => ResetComes(q)) => ResetFirst(a)
               /\ ResetComes(q) => ResetComes(a)
               /\ kind = "end" /\ OnlyEnd(q) => OnlyEnd(a)
<1> DEFINE a == Append(q, kind)
           n == Len(q)
<1>1. /\ a \in Seq(Records) /\ n \in Nat /\ Len(a) = n + 1 /\ a[n + 1] = kind
      /\ \A i \in 1..n : a[i] = q[i]
      /\ \A i \in 1..Len(a) : i = n + 1 \/ i \in 1..n
      /\ \A i \in 1..n : i \in 1..Len(a)
    OBVIOUS
<1>2. "enable" \notin Resets \cup {"end"}
    BY DEF Resets
<1> HIDE DEF a
<1>3. EnablesApart(q) /\ (kind = "enable" => EnableEnded(q)) => EnablesApart(a)
    BY <1>1, <1>2 DEF EnablesApart, EnableEnded
<1>4. QuiesceLast(q) /\ (kind = "end" \/ \A i \in 1..Len(q) : q[i] # "quiesce") => QuiesceLast(a)
    BY <1>1 DEF QuiesceLast
<1>5. kind # "enable" /\ EnableEnded(q) => EnableEnded(a)
    BY <1>1 DEF EnableEnded
<1>6. kind \in Resets \cup {"end"} => EnableEnded(a) /\ ResetComes(a)
    BY <1>1, <1>2 DEF EnableEnded, ResetComes
<1>7. ResetFirst(q) /\ (kind = "enable" => ResetComes(q)) => ResetFirst(a)
    BY <1>1 DEF ResetFirst, ResetComes
<1>8. ResetComes(q) => ResetComes(a)
    BY <1>1 DEF ResetComes
<1>9. kind = "end" /\ OnlyEnd(q) => OnlyEnd(a)
    BY <1>1 DEF OnlyEnd
<1> QED
    BY <1>1, <1>3, <1>4, <1>5, <1>6, <1>7, <1>8, <1>9 DEF a
-----------------------------------------------------------------------------
(* Types.                                                                  *)

LEMMA EndingIsTyped ==
    ASSUME NEW how \in Halted, ProcessEnds(how)
    PROVE  TypeOK'
<1>1. /\ "none" \in ReaderPC /\ how \in MainPC /\ 0 \in Nat /\ NoStop \in Continuation
      /\ <<>> \in Seq(Records) /\ <<>> \in Seq(Frame)
    BY DEF Halted, MainPC, ReaderPC, Continuation, NoStop
<1> QED
    BY <1>1 DEF ProcessEnds, TypeOK

LEMMA InitTyped == Init => TypeOK
<1>1. /\ "none" \in ReaderPC /\ "firmware" \in MainPC /\ 0 \in Nat /\ NoStop \in Continuation
      /\ <<>> \in Seq(Records) /\ <<>> \in Seq(Frame)
    BY DEF MainPC, ReaderPC, Continuation, NoStop
<1> QED
    BY <1>1 DEF Init, TypeOK

\* What a frame keeps of poll.
LEMMA FrameTyped ==
    ASSUME stack \in Seq(Frame), stack # <<>>, NEW r \in SUBSET Endpoint
    PROVE  [stack EXCEPT ![1].ready = r] \in Seq(Frame)
<1>1. 1 \in DOMAIN stack /\ stack[1] \in Frame
    OBVIOUS
<1>2. [stack[1] EXCEPT !.ready = r] \in Frame
    BY <1>1 DEF Frame
<1> QED
    BY <1>1, <1>2

LEMMA TopTyped ==
    ASSUME stack \in Seq(Frame), stack # <<>>
    PROVE  Top = stack[1] /\ Top \in Frame /\ Top.ready \subseteq Endpoint /\ Tail(stack) \in Seq(Frame)
<1>1. Top = stack[1] /\ stack[1] \in Frame /\ Tail(stack) \in Seq(Frame)
    BY DEF Top
<1> QED
    BY <1>1 DEF Frame

LEMMA ReaderTyped ==
    ASSUME TypeOK, NEW e \in Endpoint, ReaderRuns(e) \/ ReadFails(e) \/ \E p \in Packet : OutRead(e, p)
    PROVE  TypeOK'
<1>1. CASE \E p \in Packet : OutRead(e, p)
    BY <1>1 DEF OutRead, TypeOK, ReaderPC, handoff, bus, gate, stopping
<1>2. CASE GenerationEnded(e)
    BY <1>2 DEF GenerationEnded, TypeOK, ReaderPC, handoff, bus, gate, stopping
<1>3. CASE ReadFails(e)
    BY <1>3, EndingIsTyped DEF ReadFails, Halted
<1>4. CASE Post(e)
  <2>1. CASE slot[e] # Empty
      BY <1>4, <2>1, EndingIsTyped DEF Post, Halted
  <2>2. CASE slot[e] = Empty
      BY <1>4, <2>2 DEF Post, TypeOK, ReaderPC, bus, gate, stopping
  <2> QED
      BY <2>1, <2>2
<1>5. CASE Notify(e)
    BY <1>5 DEF Notify, TypeOK, ReaderPC, bus, gate, stopping
<1> QED
    BY <1>1, <1>2, <1>3, <1>4, <1>5 DEF ReaderRuns

LEMMA RecordTyped ==
    ASSUME TypeOK, StackInv, HandleRecord
    PROVE  TypeOK'
<1> DEFINE kind == Head(inbox)
<1>1. inbox # <<>> /\ Tail(inbox) \in Seq(Records)
    BY Taken DEF HandleRecord, StackInv, TypeOK
<1>2. CASE kind = "end" /\ ProcessEnds("exited")
    BY <1>2, EndingIsTyped DEF Halted
<1>3. CASE EnableEvent /\ inbox' = Tail(inbox) /\ UNCHANGED stack
  <2>1. inbox' \in Seq(Records) /\ stack' \in Seq(Frame)
      BY <1>1, <1>3 DEF TypeOK
  <2>2. /\ pc' \in [Endpoint -> ReaderPC] /\ event' \in [Endpoint -> Nat]
        /\ open' \in [Endpoint -> BOOLEAN]
    <3>1. CASE usbEnabled /\ UNCHANGED <<pc, event, open>>
        BY <3>1 DEF TypeOK
    <3>2. CASE StartThreads
        BY <3>2 DEF StartThreads, ReaderPC
    <3> QED
        BY <1>3, <3>1, <3>2 DEF EnableEvent
  <2> QED
      BY <1>3, <2>1, <2>2 DEF EnableEvent, TypeOK, MainPC, stopping
<1>4. CASE (ResetEvent \/ QuiesceRecord) /\ inbox' = Tail(inbox) /\ UNCHANGED stack
  <2>1. inbox' \in Seq(Records) /\ stack' \in Seq(Frame)
      BY <1>1, <1>4 DEF TypeOK
  <2>2. cont' \in Continuation /\ todo' \subseteq Endpoint /\ mpc' \in MainPC
      BY <1>4 DEF ResetEvent, QuiesceRecord, BeginStop, MainPC, Continuation
  <2> QED
      BY <1>4, <2>1, <2>2 DEF ResetEvent, QuiesceRecord, BeginStop, TypeOK, readers, handoff
<1>5. CASE (SuspendEvent(TRUE) \/ SuspendEvent(FALSE)) /\ inbox' = Tail(inbox) /\ UNCHANGED stack
    BY <1>1, <1>5 DEF SuspendEvent, TypeOK, MainPC, readers, handoff, stopping
<1> QED
    BY <1>2, <1>3, <1>4, <1>5 DEF HandleRecord

LEMMA ServiceTyped ==
    ASSUME TypeOK, StackInv,
           \/ \E wait \in BOOLEAN : StartService(wait)
           \/ Poll \/ ButtonEdge \/ CallbackReturns \/ ServiceEnds \/ FlushDone
           \/ WriteBegins \/ Written \/ WriteEnds \/ WriteFails
           \/ \E e \in Endpoint : CompleteOut(e)
    PROVE  TypeOK'
<1> USE DEF TypeOK, readers, handoff, bus, gate, stopping
<1>1. CASE \E wait \in BOOLEAN : StartService(wait)
  <2> PICK wait \in BOOLEAN : StartService(wait)
      BY <1>1
  <2> DEFINE f == [wait |-> wait, ready |-> {}]
  <2>1. f \in Frame
      BY DEF Frame
  <2>2. stack' = <<f>> \o stack /\ stack \in Seq(Frame)
      BY DEF StartService
  <2> HIDE DEF f
  <2>3. <<f>> \o stack \in Seq(Frame)
      BY <2>1, <2>2
  <2> QED
      BY <2>2, <2>3 DEF StartService, MainPC
<1>2. CASE PollReturns /\ mpc = "poll"
  <2>1. stack' \in Seq(Frame)
    <3>1. stack # <<>> /\ (IF usbEnabled THEN Pending ELSE {}) \in SUBSET Endpoint
        BY <1>2 DEF StackInv, Pending
    <3> QED
        BY <1>2, <3>1, FrameTyped DEF PollReturns
  <2> QED
      BY <1>2, <2>1 DEF PollReturns, MainPC
<1>3. CASE CallbackReturns \/ WriteBegins
    BY <1>3 DEF CallbackReturns, WriteBegins, MainPC
<1>4. CASE ServiceEnds
  <2>1. stack' \in Seq(Frame)
      BY <1>4, FrameTyped DEF ServiceEnds, StackInv
  <2> QED
      BY <1>4, <2>1 DEF ServiceEnds, MainPC
<1>5. CASE FlushDone \/ Written \/ WriteEnds
  <2>1. stack' \in Seq(Frame)
      BY <1>5, TopTyped DEF FlushDone, Written, WriteEnds, Return, StackInv
  <2> QED
      BY <1>5, <2>1 DEF FlushDone, Written, WriteEnds, Return, MainPC
<1>6. CASE WriteFails
    BY <1>6, EndingIsTyped DEF WriteFails, Halted
<1>7. CASE \E e \in Endpoint : CompleteOut(e)
  <2> PICK e \in Endpoint : CompleteOut(e)
      BY <1>7
  <2>1. CASE event[e] # 1
      BY <2>1, EndingIsTyped DEF CompleteOut, Halted
  <2>2. CASE event[e] = 1
    <3>1. stack' = [stack EXCEPT ![1].ready = @ \ {e}] /\ stack # <<>>
        BY <2>2 DEF CompleteOut, StackInv
    <3>2. stack[1].ready \ {e} \in SUBSET Endpoint
        BY <3>1, TopTyped
    <3>3. stack' \in Seq(Frame)
        BY <3>1, <3>2, FrameTyped
    <3>4. /\ event' = [event EXCEPT ![e] = 0] /\ slot' = [slot EXCEPT ![e] = Empty]
          /\ mpc' = "firmware" /\ UNCHANGED <<readers, open, bus, gate, stopping>>
        BY <2>2 DEF CompleteOut
    <3> QED
        BY <3>3, <3>4 DEF MainPC
  <2> QED
      BY <2>1, <2>2
<1> QED
    BY <1>1, <1>2, <1>3, <1>4, <1>5, <1>6, <1>7 DEF Poll, ButtonEdge, PollReturns

LEMMA TypeKept == TypeOK /\ StackInv /\ Step => TypeOK'
<1> SUFFICES ASSUME TypeOK, StackInv, Step PROVE TypeOK'
    OBVIOUS
<1>1. CASE UNCHANGED vars
    BY <1>1 DEF vars, readers, handoff, bus, gate, stopping, TypeOK
<1>2. CASE \E e \in Endpoint : StopReader(e)
    BY <1>2 DEF StopReader, TypeOK, ReaderPC, bus, gate
<1>3. CASE StopDone
    BY <1>3 DEF StopDone, TypeOK, MainPC, Continuation, NoStop, readers, handoff
<1>4. CASE Reconnect
    BY <1>4 DEF Reconnect, BeginStop, TypeOK, MainPC, Continuation, readers, handoff
<1>5. CASE ReconnectCrossed
    BY <1>5, EndingIsTyped DEF ReconnectCrossed, Halted
<1>6. CASE Disconnect
    BY <1>6 DEF Disconnect, TypeOK, readers, handoff, bus, stopping
<1>7. CASE \E kind \in Records : BusEvent(kind)
  <2> PICK kind \in Records : BusEvent(kind)
      BY <1>7
  <2> QED
      BY SentOrder DEF BusEvent, TypeOK, readers, handoff, gate, stopping
<1> QED
    BY <1>1, <1>2, <1>3, <1>4, <1>5, <1>6, <1>7, ReaderTyped, RecordTyped, ServiceTyped
    DEF Step, Next, Terminated, MainRuns, ReaderRuns
-----------------------------------------------------------------------------
(* The stack.                                                              *)

LEMMA StackKept == TypeOK /\ StackInv /\ Step => StackInv'
<1> SUFFICES ASSUME TypeOK, StackInv, Step PROVE StackInv'
    OBVIOUS
<1>1. CASE UNCHANGED vars
    BY <1>1 DEF vars, bus, stopping, StackInv
<1>2. CASE \E e \in Endpoint :
               \/ ReaderRuns(e) \/ ReadFails(e) \/ (\E p \in Packet : OutRead(e, p))
               \/ CompleteOut(e) \/ StopReader(e)
  <2>1. CASE \E how \in Halted : ProcessEnds(how)
      BY <2>1 DEF ProcessEnds, Halted, StackInv, NoStop
  <2>2. CASE UNCHANGED <<inbox, mpc, stack, cont>>
      BY <2>2 DEF StackInv
  <2>3. CASE mpc' = "firmware"
      BY <2>3 DEF StackInv
  <2> QED
      BY <1>2, <2>1, <2>2, <2>3
      DEF ReaderRuns, Post, Notify, GenerationEnded, ReadFails, OutRead, CompleteOut, StopReader,
          bus, stopping, Halted
<1>3. CASE \E wait \in BOOLEAN : StartService(wait)
  <2> PICK wait \in BOOLEAN : StartService(wait)
      BY <1>3
  <2> DEFINE f == [wait |-> wait, ready |-> {}]
  <2>1. mpc' = "poll" /\ stack' = <<f>> \o stack
      BY DEF StartService
  <2> HIDE DEF f
  <2>2. stack' # <<>>
      BY <2>1 DEF TypeOK
  <2> QED
      BY <2>1, <2>2 DEF StackInv
<1>4. CASE PollReturns \/ CallbackReturns \/ ServiceEnds \/ WriteBegins
  <2>1. stack' # <<>> /\ mpc' # "stop" /\ (mpc' = "record" => inbox' # <<>>)
      BY <1>4 DEF PollReturns, CallbackReturns, ServiceEnds, WriteBegins, StackInv, TypeOK, bus
  <2> QED
      BY <2>1 DEF StackInv
<1>5. CASE HandleRecord
  <2>1. CASE ProcessEnds("exited")
      BY <2>1 DEF ProcessEnds, StackInv
  <2>2. CASE stack' = stack /\ mpc' \in {"loop", "stop"}
    <3>1. mpc = "record"
        BY <1>5 DEF HandleRecord
    <3>2. stack' # <<>>
        BY <2>2, <3>1 DEF StackInv
    <3> QED
        BY <2>2, <3>2 DEF StackInv
  <2> QED
      BY <1>5, <2>1, <2>2
      DEF HandleRecord, EnableEvent, ResetEvent, SuspendEvent, QuiesceRecord, BeginStop
<1>6. CASE FlushDone \/ Written \/ WriteEnds
    BY <1>6 DEF FlushDone, Written, WriteEnds, Return, StackInv
<1>7. CASE WriteFails \/ ReconnectCrossed
    BY <1>7 DEF WriteFails, ReconnectCrossed, ProcessEnds, StackInv
<1>8. CASE StopDone
    BY <1>8 DEF StopDone, StackInv, TypeOK, Continuation
<1>9. CASE Reconnect
    BY <1>9 DEF Reconnect, BeginStop, StackInv
<1>10. CASE Disconnect
    BY <1>10 DEF Disconnect, StackInv, bus, stopping
<1>11. CASE \E kind \in Records : BusEvent(kind)
  <2> PICK kind \in Records : BusEvent(kind)
      BY <1>11
  <2>1. inbox' # <<>> /\ UNCHANGED <<mpc, stack, cont>>
      BY DEF BusEvent, TypeOK, stopping
  <2> QED
      BY <2>1 DEF StackInv
<1> QED
    BY <1>1, <1>2, <1>3, <1>4, <1>5, <1>6, <1>7, <1>8, <1>9, <1>10, <1>11
    DEF Step, Next, Terminated, MainRuns, Poll, ButtonEdge
-----------------------------------------------------------------------------
(* The reader threads.                                                     *)

LEMMA EndingHasNoReaders ==
    ASSUME NEW how \in Halted, ProcessEnds(how)
    PROVE  ThreadInv'
BY DEF ProcessEnds, ThreadInv, AnnouncedOnce, Halted

\* What leaves the readers and their slots alone only has to respect usb_enabled
\* and the stop in progress.
LEMMA ReadersAlone ==
    ASSUME TypeOK, ThreadInv, UNCHANGED <<readers, handoff>>,
           usbEnabled' => usbEnabled /\ mpc' # "stop",
           mpc' = "stop" => todo' = Endpoint \/ (mpc = "stop" /\ todo' = todo)
    PROVE  ThreadInv'
BY DEF ThreadInv, AnnouncedOnce, readers, handoff

LEMMA ReaderKeepsThreads ==
    ASSUME TypeOK, ThreadInv, NEW e \in Endpoint,
           ReaderRuns(e) \/ ReadFails(e) \/ \E p \in Packet : OutRead(e, p)
    PROVE  ThreadInv'
<1> USE DEF TypeOK, ThreadInv, AnnouncedOnce
<1>1. CASE \E p \in Packet : OutRead(e, p)
  <2> PICK p \in Packet : OutRead(e, p)
      BY <1>1
  <2>1. p # Empty
      BY PacketAssumption
  <2> QED
      BY <2>1 DEF OutRead, handoff, bus, gate, stopping
<1>2. CASE GenerationEnded(e)
    BY <1>2 DEF GenerationEnded, handoff, bus, gate, stopping
<1>3. CASE ReadFails(e)
    BY <1>3, EndingHasNoReaders DEF ReadFails, Halted
<1>4. CASE Post(e)
  <2>1. CASE slot[e] # Empty
      BY <1>4, <2>1, EndingHasNoReaders DEF Post, Halted
  <2>2. CASE slot[e] = Empty
      BY <1>4, <2>2 DEF Post, bus, gate, stopping
  <2> QED
      BY <2>1, <2>2
<1>5. CASE Notify(e)
    BY <1>5 DEF Notify, bus, gate, stopping
<1> QED
    BY <1>1, <1>2, <1>3, <1>4, <1>5 DEF ReaderRuns

\* An ENABLE finds no reader, unless usb_enabled says there are.
LEMMA EnableFindsNone ==
    ASSUME TypeOK, StackInv, ThreadInv, BusInv, mpc = "record", Head(inbox) = "enable", NEW e \in Endpoint
    PROVE  pc[e] = "none" /\ slot[e] = Empty
<1>1. ~ResetFirst(inbox)
    BY TakenOrder DEF StackInv, TypeOK
<1>2. pc[e] = "none"
    BY <1>1 DEF BusInv, Running
<1> QED
    BY <1>2 DEF ThreadInv

LEMMA ThreadsKept == IInv /\ Step => ThreadInv'
<1> SUFFICES ASSUME TypeOK, StackInv, ThreadInv, BusInv, Step PROVE ThreadInv'
    BY DEF IInv
<1>1. CASE UNCHANGED vars
    BY <1>1, ReadersAlone DEF vars, gate, stopping, ThreadInv
<1>2. CASE \E e \in Endpoint : CompleteOut(e)
  <2> PICK e \in Endpoint : CompleteOut(e)
      BY <1>2
  <2>1. CASE event[e] # 1
      BY <2>1, EndingHasNoReaders DEF CompleteOut, Halted
  <2>2. CASE event[e] = 1
    <3>1. /\ event' = [event EXCEPT ![e] = 0] /\ slot' = [slot EXCEPT ![e] = Empty]
          /\ mpc' = "firmware" /\ UNCHANGED <<pc, held, open, usbEnabled>>
        BY <2>2 DEF CompleteOut, readers, gate
    <3>2. slot[e] # Empty /\ pc[e] # "notify"
        BY <2>2 DEF ThreadInv, AnnouncedOnce
    <3> QED
        BY <3>1, <3>2 DEF TypeOK, ThreadInv, AnnouncedOnce
  <2> QED
      BY <2>1, <2>2
<1>3. CASE \E e \in Endpoint : StopReader(e)
    BY <1>3 DEF StopReader, TypeOK, ThreadInv, AnnouncedOnce, bus, gate
<1>4. CASE HandleRecord
  <2>1. CASE ProcessEnds("exited")
      BY <2>1, EndingHasNoReaders DEF Halted
  <2>2. CASE Head(inbox) = "enable" /\ EnableEvent
    <3>1. mpc = "record" /\ UNCHANGED <<held, slot>> /\ mpc' = "loop"
        BY <1>4, <2>2 DEF HandleRecord, EnableEvent
    <3>2. CASE usbEnabled /\ UNCHANGED <<pc, event, open>>
        BY <3>1, <3>2 DEF ThreadInv, AnnouncedOnce
    <3>3. CASE StartThreads
      <4>1. \A e \in Endpoint : pc[e] = "none" /\ slot[e] = Empty /\ held[e] = Empty
          BY <2>2, <3>1, EnableFindsNone DEF ThreadInv
      <4>2. \A e \in Endpoint : pc'[e] = "read" /\ event'[e] = 0 /\ open'[e] /\ slot'[e] = Empty
                                 /\ held'[e] = Empty
          BY <3>1, <3>3, <4>1 DEF StartThreads
      <4> QED
          BY <3>1, <4>2 DEF ThreadInv, AnnouncedOnce
    <3> QED
        BY <2>2, <3>2, <3>3 DEF EnableEvent
  <2>3. CASE ResetEvent \/ QuiesceRecord \/ SuspendEvent(TRUE) \/ SuspendEvent(FALSE)
      BY <2>3, ReadersAlone DEF ResetEvent, QuiesceRecord, SuspendEvent, BeginStop
  <2> QED
      BY <1>4, <2>1, <2>2, <2>3 DEF HandleRecord
<1>5. CASE \/ \E wait \in BOOLEAN : StartService(wait)
           \/ PollReturns \/ CallbackReturns \/ ServiceEnds \/ FlushDone
           \/ WriteBegins \/ Written \/ WriteEnds \/ Disconnect
  <2>1. UNCHANGED <<readers, handoff, todo>> /\ (usbEnabled' = FALSE \/ usbEnabled' = usbEnabled)
    <3>1. CASE WriteEnds \/ Disconnect
        BY <3>1 DEF WriteEnds, Disconnect, stopping
    <3>2. CASE \E wait \in BOOLEAN : StartService(wait)
        BY <3>2 DEF StartService, gate, stopping
    <3> QED
        BY <1>5, <3>1, <3>2 DEF PollReturns, CallbackReturns, ServiceEnds, FlushDone, WriteBegins,
                                Written, gate, stopping
  <2>2. mpc' # "stop" \/ mpc' = mpc
      BY <1>5 DEF StartService, PollReturns, CallbackReturns, ServiceEnds, FlushDone, WriteBegins,
                  Written, WriteEnds, Disconnect, Return
  <2> QED
      BY <2>1, <2>2, ReadersAlone DEF ThreadInv
<1>6. CASE WriteFails \/ ReconnectCrossed
    BY <1>6, EndingHasNoReaders DEF WriteFails, ReconnectCrossed, Halted
<1>7. CASE StopDone
    BY <1>7, ReadersAlone DEF StopDone, ThreadInv, TypeOK, Continuation
<1>8. CASE Reconnect
    BY <1>8, ReadersAlone DEF Reconnect, BeginStop
<1>9. CASE \E kind \in Records : BusEvent(kind)
    BY <1>9, ReadersAlone DEF BusEvent, gate, stopping, ThreadInv
<1> QED
    BY <1>1, <1>2, <1>3, <1>4, <1>5, <1>6, <1>7, <1>8, <1>9, ReaderKeepsThreads
    DEF Step, Next, Terminated, MainRuns, ReaderRuns, Poll, ButtonEdge
-----------------------------------------------------------------------------
(* The order of the records, and the readers.                              *)

LEMMA NothingSent ==
    ASSUME inbox' = <<>>, ~Running'
    PROVE  BusInv'
BY DEF BusInv, EnablesApart, QuiesceLast, EnableEnded, OnlyEnd

LEMMA EndingLeavesNothing ==
    ASSUME NEW how \in Halted, ProcessEnds(how)
    PROVE  BusInv'
BY NothingSent DEF ProcessEnds, Running

\* What leaves the socket alone and starts no reader.
LEMMA SocketAlone ==
    ASSUME BusInv, UNCHANGED <<live, inbox>>, Running' => Running,
           mpc' = "stop" /\ cont'.fds # "keep" => mpc = "stop" /\ cont' = cont
    PROVE  BusInv'
BY DEF BusInv

LEMMA ReaderKeepsBus ==
    ASSUME TypeOK, BusInv, NEW e \in Endpoint,
           ReaderRuns(e) \/ ReadFails(e) \/ \E p \in Packet : OutRead(e, p)
    PROVE  BusInv'
<1>1. CASE \E how \in Halted : ProcessEnds(how)
    BY <1>1, EndingLeavesNothing
<1>2. CASE /\ UNCHANGED <<live, inbox, mpc, cont>>
           /\ \A f \in Endpoint : pc'[f] # "none" => pc[f] # "none"
    BY <1>2, SocketAlone DEF Running
<1> QED
    BY <1>1, <1>2 DEF TypeOK, ReaderRuns, Post, Notify, GenerationEnded, ReadFails, OutRead, bus, stopping, Halted

LEMMA RecordKeepsBus ==
    ASSUME TypeOK, StackInv, ThreadInv, BusInv, HandleRecord
    PROVE  BusInv'
<1> DEFINE kind == Head(inbox)
<1>1. /\ inbox \in Seq(Records) /\ inbox # <<>> /\ mpc = "record"
      /\ EnablesApart(Tail(inbox)) /\ QuiesceLast(Tail(inbox))
      /\ ~live => EnableEnded(Tail(inbox))
    BY TakenOrder DEF HandleRecord, StackInv, TypeOK, BusInv
<1>2. CASE ProcessEnds("exited")
    BY <1>2, EndingLeavesNothing DEF Halted
<1>3. CASE kind = "enable" /\ EnableEvent /\ inbox' = Tail(inbox)
  <2>1. ResetFirst(Tail(inbox)) /\ (~live => ResetComes(Tail(inbox)))
      BY <1>1, <1>3, TakenOrder DEF BusInv
  <2>2. live' = live /\ mpc' = "loop"
      BY <1>3 DEF EnableEvent
  <2> QED
      BY <1>1, <1>3, <2>1, <2>2 DEF BusInv
<1>4. CASE kind \in {"bind", "unbind", "disable"} /\ ResetEvent /\ inbox' = Tail(inbox)
  <2>1. live' = live /\ mpc' = "stop" /\ cont'.fds = "keep"
      BY <1>4 DEF ResetEvent, BeginStop
  <2> QED
      BY <1>1, <1>4, <2>1 DEF BusInv, Running
<1>5. CASE kind = "quiesce" /\ QuiesceRecord /\ inbox' = Tail(inbox)
  <2>1. live' = live /\ mpc' = "stop" /\ OnlyEnd(Tail(inbox))
      BY <1>1, <1>5, TakenOrder DEF QuiesceRecord, BeginStop, BusInv
  <2> QED
      BY <1>1, <1>5, <2>1 DEF BusInv, Running
<1>6. CASE kind \in {"suspend", "resume"} /\ inbox' = Tail(inbox)
           /\ (SuspendEvent(TRUE) \/ SuspendEvent(FALSE))
  <2>1. live' = live /\ pc' = pc /\ mpc' = "loop"
      BY <1>6 DEF SuspendEvent, readers
  <2>2. kind \notin Resets \cup {"end"}
      BY <1>6 DEF Resets
  <2>3. Running' => ResetFirst(Tail(inbox)) /\ (~live => ResetComes(Tail(inbox)))
      BY <1>1, <2>1, <2>2, TakenOrder DEF BusInv, Running
  <2> QED
      BY <1>1, <1>6, <2>1, <2>3 DEF BusInv
<1> QED
    BY <1>2, <1>3, <1>4, <1>5, <1>6 DEF HandleRecord

LEMMA BusEventKeepsBus ==
    ASSUME TypeOK, BusInv, NEW kind \in Records, BusEvent(kind)
    PROVE  BusInv'
<1>1. /\ inbox \in Seq(Records) /\ inbox' = Append(inbox, kind)
      /\ \A i \in 1..Len(inbox) : inbox[i] # "end"
      /\ UNCHANGED <<pc, mpc, cont>>
    BY DEF BusEvent, TypeOK, readers, stopping
<1>2. Running' = Running
    BY <1>1 DEF Running
<1>3. kind # "end" => BusAlive
    BY RecordAssumption DEF BusEvent, Possible
<1>4. kind = "enable" => ~live
    BY DEF BusEvent, Possible
<1>5. kind \notin Resets \cup {"end"} => kind \in {"enable", "suspend", "resume"}
    BY RecordAssumption DEF Resets
<1>6. kind \in {"suspend", "resume"} => live /\ live'
    BY DEF BusEvent, Possible
<1>7. kind = "enable" => live'
    BY DEF BusEvent
<1>8. EnablesApart(inbox') /\ QuiesceLast(inbox')
    BY <1>1, <1>3, <1>4, SentOrder DEF BusInv, BusAlive
<1>9. ~live' => EnableEnded(inbox') /\ ResetComes(inbox')
    BY <1>1, <1>5, <1>6, <1>7, SentOrder
<1>10. Running' => ResetFirst(inbox')
    BY <1>1, <1>2, <1>4, SentOrder DEF BusInv
<1>11. mpc' = "stop" /\ cont'.fds # "keep" => OnlyEnd(inbox')
    BY <1>1, <1>3, SentOrder DEF BusInv, BusAlive
<1> QED
    BY <1>8, <1>9, <1>10, <1>11 DEF BusInv

LEMMA BusKept == IInv /\ Step => BusInv'
<1> SUFFICES ASSUME TypeOK, StackInv, ThreadInv, BusInv, Step PROVE BusInv'
    BY DEF IInv
<1>1. CASE UNCHANGED vars
    BY <1>1, SocketAlone DEF vars, readers, bus, stopping, Running
<1>2. CASE \E e \in Endpoint : CompleteOut(e)
  <2> PICK e \in Endpoint : CompleteOut(e)
      BY <1>2
  <2>1. CASE event[e] # 1
      BY <2>1, EndingLeavesNothing DEF CompleteOut, Halted
  <2>2. CASE event[e] = 1
    <3>1. mpc = "loop" /\ mpc' = "firmware" /\ UNCHANGED <<pc, live, inbox>>
        BY <2>2 DEF CompleteOut, readers, bus
    <3> QED
        BY <3>1, SocketAlone DEF Running
  <2> QED
      BY <2>1, <2>2
<1>3. CASE \E e \in Endpoint : StopReader(e)
    BY <1>3, SocketAlone DEF StopReader, bus, Running
<1>4. CASE \/ \E wait \in BOOLEAN : StartService(wait)
           \/ PollReturns \/ CallbackReturns \/ ServiceEnds \/ FlushDone
           \/ WriteBegins \/ Written \/ WriteEnds \/ Disconnect
  <2>1. UNCHANGED <<pc, live, inbox, cont>>
    <3>1. CASE WriteEnds \/ Disconnect
        BY <3>1 DEF WriteEnds, Disconnect, readers, bus, stopping
    <3>2. CASE \E wait \in BOOLEAN : StartService(wait)
        BY <3>2 DEF StartService, readers, bus, stopping
    <3> QED
        BY <1>4, <3>1, <3>2 DEF PollReturns, CallbackReturns, ServiceEnds, FlushDone, WriteBegins,
                                Written, readers, bus, stopping
  <2>2. (mpc' # "stop" /\ mpc # "stop") \/ mpc' = mpc
      BY <1>4 DEF StartService, PollReturns, CallbackReturns, ServiceEnds, FlushDone, WriteBegins,
                  Written, WriteEnds, Disconnect, Return
  <2> QED
      BY <2>1, <2>2, SocketAlone DEF Running
<1>5. CASE WriteFails \/ ReconnectCrossed
    BY <1>5, EndingLeavesNothing DEF WriteFails, ReconnectCrossed, Halted
<1>6. CASE StopDone
  <2>1. /\ mpc = "stop" /\ mpc' \in {"loop", "firmware"} /\ UNCHANGED <<pc, inbox>>
        /\ \A e \in Endpoint : pc[e] = "none"
        /\ live' = (live /\ cont.fds = "keep")
      BY <1>6 DEF StopDone, ThreadInv, TypeOK, Continuation, readers
  <2>2. ~Running'
      BY <2>1 DEF Running
  <2>3. ~live' => EnableEnded(inbox')
    <3>1. CASE ~live
        BY <2>1, <3>1 DEF BusInv
    <3>2. CASE cont.fds # "keep"
        BY <2>1, <3>2 DEF BusInv, OnlyEnd, EnableEnded
    <3> QED
        BY <2>1, <3>1, <3>2
  <2> QED
      BY <2>1, <2>2, <2>3 DEF BusInv
<1>7. CASE Reconnect
    BY <1>7, NothingSent DEF Reconnect, BeginStop, Running
<1> QED
    BY <1>1, <1>2, <1>3, <1>4, <1>5, <1>6, <1>7, ReaderKeepsBus, RecordKeepsBus, BusEventKeepsBus
    DEF Step, Next, Terminated, MainRuns, ReaderRuns, Poll, ButtonEdge
-----------------------------------------------------------------------------
(* Theorems.                                                               *)

LEMMA Invariance == Spec => []IInv
<1>1. Init => IInv
  <2>1. Init => StackInv /\ ThreadInv
      BY DEF Init, StackInv, ThreadInv, AnnouncedOnce, NoStop
  <2>2. Init => BusInv
      BY DEF Init, BusInv, Running, EnablesApart, QuiesceLast, EnableEnded
  <2> QED
      BY <2>1, <2>2, InitTyped DEF IInv
<1>2. IInv /\ [Next \/ Terminated]_vars => IInv'
    BY TypeKept, StackKept, ThreadsKept, BusKept DEF IInv, Step
<1> QED
    BY <1>1, <1>2, PTL DEF Spec

\* Every variable stays within its type: the main thread never calls back into a
\* service that is not on its stack, whatever the depth of nesting.
THEOREM TypeCorrect == Spec => []TypeOK
BY Invariance, PTL DEF IInv

\* The eventfd and the slot of endpoint_thread_main tell the same story in every
\* state, for any number of endpoints.
THEOREM EachTransferAnnouncedOnce == Spec => []AnnouncedOnce
BY Invariance, PTL DEF IInv, ThreadInv

\* No ENABLE starts a reader on an endpoint that has one, whatever clears
\* usb_enabled meanwhile and however many records wait in the socket.
THEOREM OneReaderPerEndpoint == Spec => []NoSecondReader
<1>1. IInv => NoSecondReader
  <2> SUFFICES ASSUME IInv, mpc = "record", Head(inbox) = "enable", NEW e \in Endpoint
               PROVE  pc[e] = "none" /\ slot[e] = Empty
      BY DEF NoSecondReader
  <2> QED
      BY EnableFindsNone DEF IInv
<1> QED
    BY <1>1, Invariance, PTL

\* The endpoint loop of service_virtual_usb reads an eventfd only while it is open.
THEOREM NoClosedEventIsRead == Spec => ReadsOpenEvents
<1>1. IInv /\ [Next \/ Terminated]_vars => [\A e \in Endpoint : CompleteOut(e) => open[e]]_vars
    BY DEF IInv, ThreadInv, AnnouncedOnce, CompleteOut
<1> QED
    BY <1>1, Invariance, PTL DEF Spec, ReadsOpenEvents
-----------------------------------------------------------------------------
(* The path of an endpoint is a pipe.                                      *)

Path(e) == Contents(slot[e]) \o Contents(held[e])
Kept(e) == Path(e)' = Path(e)
Others(e) == \A f \in Endpoint \ {e} : Kept(f)

LEMMA PathOf ==
    ASSUME NEW s \in Packet \cup {Empty}, NEW h \in Packet \cup {Empty}
    PROVE  /\ Contents(s) \o Contents(h) \in Seq(Packet)
           /\ s = Empty => Contents(s) \o Contents(h) = Contents(h)
           /\ h = Empty => Contents(s) \o Contents(h) = Contents(s)
           /\ s # Empty => Contents(s) = <<s>> /\ s \in Packet
           /\ s = Empty => Contents(s) = <<>>
           /\ Len(Contents(s)) < 2 /\ Contents(s) \in Seq(Packet)
<1>1. Contents(s) \in Seq(Packet) /\ Contents(h) \in Seq(Packet) /\ Len(Contents(s)) < 2
    BY DEF Contents
<1>2. Contents(s) \o Contents(h) \in Seq(Packet)
    BY <1>1
<1>3. ASSUME s = Empty PROVE Contents(s) \o Contents(h) = Contents(h)
    BY <1>1, <1>3, ConcatEmptySeq DEF Contents
<1>4. ASSUME h = Empty PROVE Contents(s) \o Contents(h) = Contents(s)
    BY <1>1, <1>4, ConcatEmptySeq DEF Contents
<1> QED
    BY <1>1, <1>2, <1>3, <1>4 DEF Contents

\* A transfer that read(fd) returns enters it.
LEMMA ReadEnters ==
    ASSUME IInv, NEW e \in Endpoint, NEW p \in Packet, OutRead(e, p)
    PROVE  Pipe!Send(e, p) /\ Path(e)' = Append(Path(e), p) /\ Others(e)
<1>1. /\ held[e] = Empty /\ held' = [held EXCEPT ![e] = p] /\ slot' = slot
      /\ slot[e] \in Packet \cup {Empty} /\ p # Empty
    BY PacketAssumption DEF IInv, TypeOK, ThreadInv, OutRead, handoff
<1>2. Path(e) = Contents(slot[e]) /\ Contents(slot[e]) \in Seq(Packet) /\ Len(Path(e)) < 2
    BY <1>1, PathOf DEF Path
<1>3. Path(e)' = Contents(slot[e]) \o <<p>>
    BY <1>1 DEF Path, Contents, IInv, TypeOK
<1>4. Path(e)' = Append(Path(e), p)
    BY <1>2, <1>3
<1>5. Others(e)
    BY <1>1 DEF Others, Kept, Path, IInv, TypeOK
<1> QED
    BY <1>2, <1>4, <1>5 DEF Pipe!Send, Others, Kept, Path

\* The callback takes the oldest.
LEMMA CallbackTakes ==
    ASSUME IInv, NEW e \in Endpoint, CompleteOut(e), mpc' \notin Halted
    PROVE  Pipe!Receive(e) /\ Others(e)
<1>1. event[e] = 1
    BY DEF CompleteOut, ProcessEnds, Halted
<1>2. slot' = [slot EXCEPT ![e] = Empty] /\ held' = held
    BY <1>1 DEF CompleteOut, readers
<1>3. slot[e] # Empty /\ slot[e] \in Packet /\ held[e] \in Packet \cup {Empty}
  <2>1. slot[e] \in Packet \cup {Empty} /\ held[e] \in Packet \cup {Empty}
      BY DEF IInv, TypeOK
  <2>2. slot[e] # Empty
      BY <1>1 DEF IInv, ThreadInv, AnnouncedOnce
  <2> QED
      BY <2>1, <2>2
<1>4. Path(e) = <<slot[e]>> \o Contents(held[e]) /\ Contents(held[e]) \in Seq(Packet)
    BY <1>3, PathOf DEF Path
<1>5. Path(e)' = Contents(held[e])
    BY <1>2, <1>3, PathOf DEF Path, IInv, TypeOK
<1>6. Path(e) # <<>> /\ Path(e)' = Tail(Path(e))
    BY <1>3, <1>4, <1>5
<1>7. Others(e)
    BY <1>2 DEF Others, Kept, Path, IInv, TypeOK
<1> QED
    BY <1>6, <1>7 DEF Pipe!Receive, Others, Kept, Path

\* Every step does one of these to the paths.
LEMMA PathStep ==
    ASSUME IInv, Step
    PROVE  \/ \A f \in Endpoint : Kept(f)
           \/ \E e \in Endpoint, p \in Packet : OutRead(e, p)
           \/ \E e \in Endpoint : CompleteOut(e) /\ mpc' \notin Halted
           \/ \E e \in Endpoint : StopReader(e) /\ Path(e)' = <<>> /\ Others(e)
           \/ mpc' \in Halted /\ \A e \in Endpoint : Path(e)' = <<>>
<1> DEFINE Ended == mpc' \in Halted /\ \A e \in Endpoint : Path(e)' = <<>>
           Same == \A f \in Endpoint : Kept(f)
<1>1. ASSUME NEW how \in Halted, ProcessEnds(how) PROVE Ended
    BY <1>1, PathOf DEF ProcessEnds, Path
<1>2. CASE UNCHANGED <<slot, held>>
    BY <1>2 DEF Kept, Path
<1>3. ASSUME NEW e \in Endpoint, Post(e) PROVE Same \/ Ended
  <2>1. CASE slot[e] # Empty
      BY <1>1, <1>3, <2>1 DEF Post, Halted
  <2>2. CASE slot[e] = Empty
    <3>1. slot' = [slot EXCEPT ![e] = held[e]] /\ held' = [held EXCEPT ![e] = Empty]
        BY <1>3, <2>2 DEF Post
    <3>2. Path(e) = Contents(held[e]) /\ Path(e)' = Contents(held[e])
        BY <2>2, <3>1, PathOf DEF Path, IInv, TypeOK
    <3>3. Others(e)
        BY <3>1 DEF Others, Kept, Path, IInv, TypeOK
    <3> QED
        BY <3>2, <3>3 DEF Others, Kept
  <2> QED
      BY <2>1, <2>2
<1>4. ASSUME NEW e \in Endpoint, StopReader(e) PROVE Path(e)' = <<>> /\ Others(e)
  <2>1. slot' = [slot EXCEPT ![e] = Empty] /\ held' = [held EXCEPT ![e] = Empty]
      BY <1>4 DEF StopReader
  <2>2. Path(e)' = <<>>
      BY <2>1, PathOf DEF Path, IInv, TypeOK
  <2>3. Others(e)
      BY <2>1 DEF Others, Kept, Path, IInv, TypeOK
  <2> QED
      BY <2>2, <2>3
<1>5. ASSUME NEW e \in Endpoint, CompleteOut(e), mpc' \in Halted PROVE Ended
    BY <1>1, <1>5 DEF CompleteOut, Halted
<1>6. CASE \E e \in Endpoint : Notify(e) \/ GenerationEnded(e)
    BY <1>2, <1>6 DEF Notify, GenerationEnded, handoff
<1>7. CASE \E e \in Endpoint : ReadFails(e)
    BY <1>1, <1>7 DEF ReadFails, Halted
<1>8. CASE HandleRecord
    BY <1>1, <1>2, <1>8 DEF HandleRecord, EnableEvent, ResetEvent, SuspendEvent, QuiesceRecord,
                             readers, handoff, Halted
<1>9. CASE WriteFails \/ ReconnectCrossed
    BY <1>1, <1>9 DEF WriteFails, ReconnectCrossed, Halted
<1>10. CASE \/ \E wait \in BOOLEAN : StartService(wait)
            \/ PollReturns \/ CallbackReturns \/ ServiceEnds \/ FlushDone
            \/ WriteBegins \/ Written \/ WriteEnds \/ Disconnect \/ Reconnect \/ StopDone
            \/ (\E kind \in Records : BusEvent(kind)) \/ UNCHANGED vars
    BY <1>2, <1>10 DEF StartService, PollReturns, CallbackReturns, ServiceEnds, FlushDone, WriteBegins,
                Written, WriteEnds, Disconnect, Reconnect, StopDone, BusEvent, vars, readers, handoff
<1> QED
    BY <1>3, <1>4, <1>5, <1>6, <1>7, <1>8, <1>9, <1>10
    DEF Step, Next, Terminated, MainRuns, ReaderRuns, Poll, ButtonEdge

\* The handoff of the legacy worker implements the pipe that the Safe 3 one does.
THEOREM PipeImplemented == Spec => PipeRefined
<1> DEFINE queue == [e \in Endpoint |-> Path(e)]
<1>1. Init => Pipe!Init
  <2> SUFFICES ASSUME Init PROVE \A e \in Endpoint : Path(e) = <<>>
      BY DEF Pipe!Init, Path
  <2> QED
      BY PathOf DEF Init, Path
<1>2. ASSUME IInv, [Next \/ Terminated]_vars
      PROVE  Pipe!Next \/ UNCHANGED queue
  <2>1. CASE \A f \in Endpoint : Kept(f)
      BY <2>1 DEF Kept
  <2>2. ASSUME NEW e \in Endpoint, NEW p \in Packet, OutRead(e, p) PROVE Pipe!Next
      BY <1>2, <2>2, ReadEnters DEF Pipe!Next
  <2>3. ASSUME NEW e \in Endpoint, CompleteOut(e), mpc' \notin Halted PROVE Pipe!Next
      BY <1>2, <2>3, CallbackTakes DEF Pipe!Next
  <2>4. ASSUME NEW e \in Endpoint, Path(e)' = <<>>, Others(e) PROVE Pipe!Next
    <3>1. Pipe!Reset({e})
        BY <2>4 DEF Pipe!Reset, Others, Kept, Path
    <3> QED
        BY <3>1 DEF Pipe!Next
  <2>5. CASE \A e \in Endpoint : Path(e)' = <<>>
    <3>1. Pipe!Reset(Endpoint)
        BY <2>5 DEF Pipe!Reset, Path
    <3> QED
        BY <3>1 DEF Pipe!Next
  <2> QED
      BY <1>2, <2>1, <2>2, <2>3, <2>4, <2>5, PathStep DEF Step
<1> QED
    BY <1>1, <1>2, Invariance, PTL DEF Spec, PipeRefined, Pipe!Spec, Path

\* Nothing else takes a transfer out of it.
LEMMA ReceiveIsCall ==
    ASSUME IInv, Step, NEW e \in Endpoint, Pipe!Receive(e)
    PROVE  CompleteOut(e) \/ StopReader(e) \/ mpc' \in Halted
<1>1. Path(e) \in Seq(Packet)
    BY PathOf DEF Path, IInv, TypeOK
<1>2. Path(e) # <<>> /\ Path(e)' = Tail(Path(e))
    BY DEF Pipe!Receive, Path
<1>3. Len(Path(e)') = Len(Path(e)) - 1 /\ Len(Path(e)) \in Nat
    BY <1>1, <1>2
<1>4. ~Kept(e)
    BY <1>3 DEF Kept
<1>5. \A p \in Packet : Path(e)' # Append(Path(e), p)
    BY <1>1, <1>3
<1>6. \A f \in Endpoint, p \in Packet : ~OutRead(f, p)
    BY <1>4, <1>5, ReadEnters DEF Others
<1>7. \A f \in Endpoint \ {e} : ~Others(f)
    BY <1>4 DEF Others
<1> QED
    BY <1>4, <1>6, <1>7, PathStep, CallbackTakes

\* Both ends of the pipe are the calls the code makes.
THEOREM EndsAreCalls == Spec => PipeEnds
<1> DEFINE Ends(e) ==
        /\ \A p \in Packet : OutRead(e, p) => Pipe!Send(e, p)
        /\ CompleteOut(e) /\ mpc' \notin Halted => Pipe!Receive(e)
        /\ Pipe!Receive(e) => CompleteOut(e) \/ StopReader(e) \/ mpc' \in Halted
<1>1. IInv /\ [Next \/ Terminated]_vars => [\A e \in Endpoint : Ends(e)]_vars
    BY ReadEnters, CallbackTakes, ReceiveIsCall DEF Step
<1> QED
    BY <1>1, Invariance, PTL DEF Spec, PipeEnds
=============================================================================
