------------------------- MODULE ControlRequests_proofs -------------------------
(***************************************************************************)
(* Proofs about control requests: what a control transfer of the legacy    *)
(* worker comes to, for every size of packets and buffers, every request   *)
(* and reply; and what Safe 3 answers, for any interfaces and any sequence *)
(* of setup packets.                                                       *)
(***************************************************************************)
EXTENDS LegacyControl, Safe3Control, TLAPS

\* How far a transfer is, told without the loops: the data of the reply is collected
\* or still to be sent, unless it has no room ...
Sending ==
    /\ request.in /\ request.wLength # 0 /\ request.reply # Refused
    /\ state \in {"DATA_IN", "LAST_DATA_IN"}
    /\ state = "LAST_DATA_IN" => length = 0
    /\ stalled => request.reply > Capacity
    /\ ~stalled => collected + length = request.reply
    /\ handled = <<0>>

\* ... and what the firmware received is what it was given so far; in the last
\* packet comes the rest.
Receiving ==
    /\ ~request.in /\ request.wLength # 0 /\ request.wLength <= Buffer
    /\ ~stalled /\ collected = 0 /\ handled = <<>> /\ offset = length
    /\ state = "DATA_OUT" => request.wLength - length > MaxPacket
    /\ state = "LAST_DATA_OUT" =>
           request.wLength - length > 0 /\ request.wLength - length <= MaxPacket
    /\ state \in {"DATA_OUT", "LAST_DATA_OUT"}

\* The firmware has handled the request, or refused its size.
Done ==
    /\ handled = Handled(request)
    /\ stalled <=> Expected(request) = StallAnswer
    /\ ~stalled => /\ collected = (IF request.in /\ request.wLength # 0 THEN request.reply ELSE 0)
                   /\ state \in {"STATUS_IN", "STATUS_OUT", "LAST_DATA_IN"}
    /\ state # "STALLED"

Ep0Inv ==
    /\ Ep0TypeOK
    /\ step \notin {"idle", "ended", "answered"} => Matches(request)
    /\ step = "setup" =>
           ~stalled /\ offset = 0 /\ collected = 0 /\ handled = <<>> /\ answer = StallAnswer
    /\ step = "out" => Sending \/ Receiving \/ Done
    /\ step = "in" => request.in /\ (Sending \/ (Done /\ state # "DATA_IN"))
    /\ step = "status" => Done
    /\ step = "answered" => answer = Expected(request) /\ handled = Handled(request)

LEMMA Ep0InvInit == Ep0Init => Ep0Inv
<1> SUFFICES ASSUME Ep0Init PROVE Ep0Inv
    OBVIOUS
<1>1. NoTransfer \in Request
    BY SizeAssumption DEF NoTransfer, Request
<1>2. Ep0TypeOK
    <2>1. collected \in 0..Capacity /\ length \in Nat /\ offset \in Nat /\ handled \in Seq(Nat)
        BY SizeAssumption DEF Ep0Init
    <2>2. answer \in [kind : {"stall", "ack", "data"}, length : Nat]
        BY DEF Ep0Init, StallAnswer
    <2> QED
        BY <1>1, <2>1, <2>2 DEF Ep0Init, Ep0TypeOK, Step, State
<1> QED
    BY <1>2 DEF Ep0Init, Ep0Inv

\* The fields of a request, and of an answer.
LEMMA RequestFields ==
    ASSUME NEW r \in Request
    PROVE  /\ r.origin \in {"runtime", "capture"} /\ r.in \in BOOLEAN
           /\ r.wLength \in 0..MaxLength /\ r.out \in 0..MaxLength
           /\ r.reply = Refused \/ r.reply \in 0..MaxLength
           /\ Refused \notin Nat
BY SizeAssumption DEF Request

\* A packet that is written: collected, or a stall because there is no room.
LEMMA PacketWritten ==
    ASSUME Ep0TypeOK, NEW n \in Nat, WritePacket(n)
    PROVE  /\ collected' \in 0..Capacity /\ stalled' \in BOOLEAN
           /\ stalled => stalled'
           /\ ~stalled /\ stalled' => collected + n > Capacity
           /\ ~stalled' => collected' = collected + n
<1>1. collected \in Nat /\ collected <= Capacity /\ Capacity \in Nat /\ stalled \in BOOLEAN
    BY SizeAssumption DEF Ep0TypeOK
<1>2. CASE collected + n > Capacity
    <2>1. stalled' = TRUE /\ collected' = collected
        BY <1>2 DEF WritePacket
    <2> QED
        BY <1>1, <1>2, <2>1
<1>3. CASE ~(collected + n > Capacity)
    <2>1. stalled' = stalled /\ collected' = collected + n
        BY <1>3 DEF WritePacket
    <2>2. collected + n \in 0..Capacity
        BY <1>1, <1>3
    <2> QED
        BY <1>1, <2>1, <2>2
<1> QED
    BY <1>2, <1>3

\* The next chunk of a reply.
LEMMA ChunkSent ==
    ASSUME Ep0TypeOK, NEW n \in Nat, NEW z \in BOOLEAN, SendChunk(n, z),
           request.in, request.wLength # 0, request.reply \in Nat, handled' = << 0 >>,
           ~stalled => collected + n = request.reply,
           stalled => request.reply > Capacity,
           request' = request
    PROVE  /\ Sending'
           /\ collected' \in 0..Capacity /\ stalled' \in BOOLEAN
           /\ state' \in State /\ length' \in Nat /\ zlp' \in BOOLEAN
<1> DEFINE Size == IF MaxPacket < n THEN MaxPacket ELSE n
<1>1. /\ Size \in Nat /\ Size <= n /\ WritePacket(Size)
      /\ length' = n - Size /\ length' \in Nat /\ zlp' \in BOOLEAN
      /\ state' \in {"DATA_IN", "LAST_DATA_IN"} /\ (state' = "LAST_DATA_IN" => length' = 0)
    <2>1. MaxPacket \in Nat \ {0}
        BY SizeAssumption
    <2>2. CASE MaxPacket < n
        BY <2>1, <2>2 DEF SendChunk
    <2>3. CASE ~(MaxPacket < n)
        <3>1. /\ WritePacket(n) /\ length' = 0 /\ zlp' = FALSE
              /\ state' = "DATA_IN" \/ state' = "LAST_DATA_IN"
            BY <2>3 DEF SendChunk
        <3>2. Size = n /\ n - n = 0 /\ n <= n
            BY <2>3
        <3> HIDE DEF Size
        <3> QED
            BY <3>1, <3>2
    <2> QED
        BY <2>2, <2>3
<1> HIDE DEF Size
<1>2. /\ collected' \in 0..Capacity /\ stalled' \in BOOLEAN
      /\ stalled => stalled'
      /\ ~stalled /\ stalled' => collected + Size > Capacity
      /\ ~stalled' => collected' = collected + Size
    BY <1>1, PacketWritten
<1>3. collected \in Nat /\ Capacity \in Nat /\ Refused \notin Nat
    BY SizeAssumption DEF Ep0TypeOK
<1>4. stalled' => request.reply > Capacity
    BY <1>1, <1>2, <1>3
<1>5. ~stalled' => collected' + length' = request.reply
    BY <1>1, <1>2, <1>3
<1> QED
    BY <1>1, <1>2, <1>3, <1>4, <1>5 DEF Sending, State

\* Once a reply is sent, or has no room, the transfer is done with.
LEMMA ReplySent ==
    ASSUME Ep0TypeOK, Matches(request), Sending, state # "DATA_IN" \/ stalled
    PROVE  /\ handled = Handled(request)
           /\ stalled <=> Expected(request) = StallAnswer
           /\ ~stalled => collected = request.reply
<1>1. request.reply \in Nat /\ collected \in 0..Capacity /\ Capacity \in Nat /\ request.reply # Refused
    BY RequestFields, SizeAssumption DEF Ep0TypeOK, Sending
<1>2. ~stalled => collected = request.reply
    BY <1>1 DEF Sending, Ep0TypeOK
<1>3. handled = Handled(request)
    BY DEF Handled, Sending
<1>4. stalled <=> request.reply > Capacity
    BY <1>1, <1>2 DEF Sending, Ep0TypeOK
<1>5. Expected(request) = StallAnswer <=> request.reply > Capacity
    BY <1>1 DEF Expected, Sending, StallAnswer, AckAnswer, DataAnswer
<1> QED
    BY <1>2, <1>3, <1>4, <1>5

\* The SETUP callback leaves a transfer that sends its reply, that receives its data,
\* or that is done with.
LEMMA AfterSetup == Ep0Inv /\ SetupStage => Ep0Inv'
<1> SUFFICES ASSUME Ep0Inv, SetupStage PROVE Ep0Inv'
    OBVIOUS
<1>1. /\ Ep0TypeOK /\ Matches(request) /\ step' = "out"
      /\ ~stalled /\ stalled = FALSE /\ offset = 0 /\ collected = 0 /\ handled = <<>>
      /\ UNCHANGED <<request, offset, answer>>
    BY DEF Ep0Inv, SetupStage, Ep0TypeOK
<1>2. /\ request.in \in BOOLEAN /\ request.wLength \in Nat /\ request.out \in Nat
      /\ request.reply = Refused \/ request.reply \in Nat
      /\ Refused \notin Nat /\ MaxPacket \in Nat \ {0} /\ Buffer \in Nat /\ Capacity \in Nat
      /\ (request.reply # Refused => request.reply \in Nat)
    BY <1>1, RequestFields, SizeAssumption DEF Ep0TypeOK
<1>3. CASE request.in \/ request.wLength = 0
    <2>1. SetupRead /\ handled' = <<0>> /\ <<0>> \in Seq(Nat)
        <3>1. SetupRead
            BY <1>3 DEF SetupStage
        <3>2. handled' = Append(handled, 0)
            BY <3>1 DEF SetupRead
        <3>3. Append(<<>>, 0) = <<0>> /\ <<0>> \in Seq(Nat)
            OBVIOUS
        <3> QED
            BY <1>1, <3>1, <3>2, <3>3
    <2>2. Handled(request) = <<0>>
        BY <1>1, <1>2, <1>3 DEF Handled
    <2>3. CASE request.reply = Refused
        <3>1. stalled' = TRUE /\ state' = "IDLE" /\ UNCHANGED <<length, zlp, collected>>
            BY <2>1, <2>3 DEF SetupRead, StallEndpoint
        <3>2. Expected(request) = StallAnswer
            BY <2>3 DEF Expected
        <3>3. Done'
            BY <1>1, <2>1, <2>2, <3>1, <3>2 DEF Done
        <3>4. Ep0TypeOK'
            BY <1>1, <2>1, <3>1 DEF Ep0TypeOK, Step, State
        <3> QED
            BY <1>1, <3>3, <3>4 DEF Ep0Inv
    <2>4. CASE request.reply # Refused /\ request.wLength = 0
        <3>1. WritePacket(0) /\ state' = "STATUS_IN" /\ UNCHANGED <<length, zlp>>
            BY <2>1, <2>4 DEF SetupRead
        <3>2. stalled' = FALSE /\ collected' = 0
            BY <1>1, <1>2, <3>1 DEF WritePacket
        <3>3. Expected(request) # StallAnswer
            BY <1>1, <1>2, <2>4 DEF Expected, StallAnswer, AckAnswer, DataAnswer
        <3>4. Done'
            BY <1>1, <2>1, <2>2, <2>4, <3>1, <3>2, <3>3 DEF Done
        <3>5. Ep0TypeOK'
            BY <1>1, <1>2, <2>1, <3>1, <3>2 DEF Ep0TypeOK, Step, State
        <3> QED
            BY <1>1, <3>4, <3>5 DEF Ep0Inv
    <2>5. CASE request.reply # Refused /\ request.wLength # 0
        <3> DEFINE z == /\ request.reply < request.wLength /\ request.reply # 0
                        /\ request.reply % MaxPacket = 0
        <3>1. SendChunk(request.reply, z) /\ z \in BOOLEAN
            BY <2>1, <2>5 DEF SetupRead
        <3> HIDE DEF z
        <3>2. request.in /\ request.reply \in Nat /\ collected + request.reply = request.reply
            BY <1>1, <1>2, <1>3, <2>5
        <3>3. /\ Sending'
              /\ collected' \in 0..Capacity /\ stalled' \in BOOLEAN
              /\ state' \in State /\ length' \in Nat /\ zlp' \in BOOLEAN
            BY <1>1, <2>1, <2>5, <3>1, <3>2, ChunkSent
        <3>4. Ep0TypeOK'
            BY <1>1, <2>1, <3>3 DEF Ep0TypeOK, Step
        <3> QED
            BY <1>1, <3>3, <3>4 DEF Ep0Inv
    <2> QED
        BY <1>2, <2>3, <2>4, <2>5
<1>4. CASE ~(request.in \/ request.wLength = 0)
    <2>1. SetupWrite /\ UNCHANGED <<zlp, collected, handled>>
        BY <1>4 DEF SetupStage, SetupWrite
    <2>2. CASE request.wLength > Buffer
        <3>1. stalled' = TRUE /\ state' = "IDLE" /\ length' = length
            BY <2>1, <2>2 DEF SetupWrite, StallEndpoint
        <3>2. Expected(request) = StallAnswer /\ Handled(request) = <<>>
            BY <1>4, <2>2 DEF Expected, Handled
        <3>3. Done'
            BY <1>1, <2>1, <3>1, <3>2 DEF Done
        <3>4. Ep0TypeOK'
            BY <1>1, <2>1, <3>1 DEF Ep0TypeOK, Step, State
        <3> QED
            BY <1>1, <3>3, <3>4 DEF Ep0Inv
    <2>3. CASE ~(request.wLength > Buffer)
        <3>1. /\ state' = (IF request.wLength > MaxPacket THEN "DATA_OUT" ELSE "LAST_DATA_OUT")
              /\ length' = 0 /\ stalled' = stalled
            BY <2>1, <2>3 DEF SetupWrite
        <3>2. Receiving'
            BY <1>1, <1>2, <1>4, <2>1, <2>3, <3>1 DEF Receiving
        <3>3. Ep0TypeOK'
            BY <1>1, <2>1, <3>1 DEF Ep0TypeOK, Step, State
        <3> QED
            BY <1>1, <3>2, <3>3 DEF Ep0Inv
    <2> QED
        BY <2>2, <2>3
<1> QED
    BY <1>3, <1>4

\* A packet of data out: all that is wanted is there, so the transfer goes on, or the
\* firmware handles it with all of its data.
LEMMA AfterChunk == Ep0Inv /\ OutStage => Ep0Inv'
<1> SUFFICES ASSUME Ep0Inv, OutStage PROVE Ep0Inv'
    OBVIOUS
<1> DEFINE left == request.wLength - length
           wanted == Least(MaxPacket, left)
<1>1. /\ Ep0TypeOK /\ Matches(request) /\ step = "out" /\ step' = "out"
      /\ ~stalled /\ stalled = FALSE /\ ~request.in /\ request.wLength # 0
      /\ state \in {"DATA_OUT", "LAST_DATA_OUT"}
      /\ UNCHANGED <<request, zlp, answer>> /\ ReceiveChunk
    BY DEF Ep0Inv, OutStage, OutExpected, Ep0TypeOK
<1>2. Receiving
    BY <1>1 DEF Ep0Inv, Sending, Done
<1>3. /\ request.in = FALSE /\ request.wLength \in Nat /\ request.out \in Nat
      /\ (request.reply # Refused => request.reply \in Nat)
      /\ Refused \notin Nat /\ MaxPacket \in Nat \ {0} /\ Buffer \in Nat /\ Capacity \in Nat
      /\ length \in Nat /\ request.out = request.wLength
    BY <1>1, RequestFields, SizeAssumption DEF Ep0TypeOK, Matches
<1>4. /\ wanted \in Nat \ {0} /\ wanted <= left /\ wanted <= MaxPacket
      /\ state = "DATA_OUT" => wanted = MaxPacket /\ MaxPacket < left
      /\ state = "LAST_DATA_OUT" => wanted = left
    BY <1>2, <1>3, <1>1 DEF Receiving, Least
<1>5. ReadPacket(wanted) = [size |-> wanted, offset |-> offset + wanted]
    <2>1. request.out - offset = left
        BY <1>2, <1>3 DEF Receiving
    <2>2. Least(wanted, left) = wanted
        BY <1>3, <1>4 DEF Least
    <2> HIDE DEF wanted, left
    <2> QED
        BY <2>1, <2>2 DEF ReadPacket
<1>6. offset' = offset + wanted /\ offset' \in Nat
    BY <1>1, <1>3, <1>4, <1>5 DEF ReceiveChunk, Ep0TypeOK
<1>7. CASE state = "DATA_OUT"
    <2>1. /\ length' = length + wanted
          /\ state' = (IF request.wLength - (length + wanted) <= MaxPacket
                       THEN "LAST_DATA_OUT" ELSE "DATA_OUT")
          /\ UNCHANGED <<stalled, collected, handled>>
        BY <1>1, <1>5, <1>7 DEF ReceiveChunk
    <2>2. Receiving'
        BY <1>1, <1>2, <1>3, <1>4, <1>6, <1>7, <2>1 DEF Receiving
    <2>3. Ep0TypeOK'
        BY <1>1, <1>3, <1>4, <1>6, <2>1 DEF Ep0TypeOK, Step, State
    <2> QED
        BY <1>1, <2>2, <2>3 DEF Ep0Inv
<1>8. CASE state = "LAST_DATA_OUT"
    <2>1. /\ length' = length + wanted /\ handled' = Append(handled, length + wanted)
          /\ IF request.reply = Refused
             THEN StallEndpoint /\ UNCHANGED collected
             ELSE WritePacket(0) /\ state' = "STATUS_IN"
        BY <1>1, <1>5, <1>8 DEF ReceiveChunk
    <2>2. length + wanted = request.wLength
        BY <1>3, <1>4, <1>8
    <2>3. handled' = <<request.wLength>> /\ handled' \in Seq(Nat)
        BY <1>2, <1>3, <2>1, <2>2 DEF Receiving
    <2>4. Handled(request) = <<request.wLength>>
        BY <1>1, <1>2, <1>3 DEF Handled, Receiving
    <2>5. CASE request.reply = Refused
        <3>1. stalled' = TRUE /\ state' = "IDLE" /\ collected' = collected
            BY <2>1, <2>5 DEF StallEndpoint
        <3>2. Expected(request) = StallAnswer
            BY <2>5 DEF Expected
        <3>3. Done'
            BY <1>1, <2>3, <2>4, <3>1, <3>2 DEF Done
        <3>4. Ep0TypeOK'
            BY <1>1, <1>3, <1>6, <2>1, <2>2, <2>3, <3>1 DEF Ep0TypeOK, Step, State
        <3> QED
            BY <1>1, <3>3, <3>4 DEF Ep0Inv
    <2>6. CASE request.reply # Refused
        <3>1. stalled' = FALSE /\ collected' = 0 /\ state' = "STATUS_IN"
            BY <1>1, <1>2, <1>3, <2>1, <2>6 DEF WritePacket, Receiving
        <3>2. Expected(request) # StallAnswer
            BY <1>1, <1>2, <1>3, <2>6 DEF Expected, StallAnswer, AckAnswer, DataAnswer, Receiving
        <3>3. Done'
            BY <1>1, <1>3, <2>3, <2>4, <3>1, <3>2 DEF Done
        <3>4. collected' \in 0..Capacity /\ length' \in Nat
            BY <1>3, <2>1, <2>2, <3>1
        <3>5. Ep0TypeOK'
            BY <1>1, <1>6, <2>3, <3>1, <3>4 DEF Ep0TypeOK, Step, State
        <3> QED
            BY <1>1, <3>3, <3>5 DEF Ep0Inv
    <2> QED
        BY <2>5, <2>6
<1> QED
    BY <1>1, <1>7, <1>8

\* The answer of a transfer that is done with.
LEMMA DoneAnswered ==
    ASSUME Ep0TypeOK, Matches(request), Done
    PROVE  Answer = Expected(request) /\ Answer \in [kind : {"stall", "ack", "data"}, length : Nat]
<1>1. /\ request.in \in BOOLEAN /\ request.wLength \in Nat /\ collected \in Nat
      /\ request.reply = Refused \/ request.reply \in Nat
      /\ Refused \notin Nat /\ Buffer \in Nat /\ Capacity \in Nat /\ stalled \in BOOLEAN
      /\ request.origin \in {"runtime", "capture"}
    BY RequestFields, SizeAssumption DEF Ep0TypeOK
<1>2. CASE stalled
    BY <1>1, <1>2 DEF Answer, Done, StallAnswer
<1>3. CASE ~stalled
    BY <1>1, <1>3 DEF Answer, Done, Expected, StallAnswer, AckAnswer, DataAnswer, Least
<1> QED
    BY <1>2, <1>3

LEMMA Ep0InvNext == Ep0Inv /\ [Ep0Next]_ep0Vars => Ep0Inv'
<1> SUFFICES ASSUME Ep0Inv, [Ep0Next]_ep0Vars PROVE Ep0Inv'
    OBVIOUS
<1>1. ASSUME NEW r \in Request, TransferBegins(r) PROVE Ep0Inv'
    <2>1. /\ request' = r /\ stalled' = FALSE /\ offset' = 0 /\ collected' = 0 /\ handled' = <<>>
          /\ answer' = StallAnswer /\ UNCHANGED <<state, length, zlp>>
          /\ \/ step' = "setup" /\ Matches(r)
             \/ step' = "answered" /\ ~Matches(r)
             \/ step' = "ended"
        BY <1>1 DEF TransferBegins
    <2>2. 0 \in 0..Capacity /\ StallAnswer \in [kind : {"stall", "ack", "data"}, length : Nat]
        BY SizeAssumption DEF StallAnswer
    <2>3. Ep0TypeOK'
        <3>1. /\ step' \in Step /\ collected' \in 0..Capacity /\ offset' \in Nat /\ handled' \in Seq(Nat)
              /\ answer' \in [kind : {"stall", "ack", "data"}, length : Nat]
            BY <2>1, <2>2 DEF Step
        <3> QED
            BY <2>1, <3>1 DEF Ep0Inv, Ep0TypeOK
    <2>4. ~Matches(r) => Expected(r) = StallAnswer /\ Handled(r) = <<>>
        BY DEF Expected, Handled
    <2> QED
        BY <2>1, <2>3, <2>4 DEF Ep0Inv
<1>2. CASE SetupStage \/ OutStage
    BY <1>2, AfterSetup, AfterChunk
<1>3. CASE OutDone
    <2>1. /\ step = "out" /\ ~OutExpected /\ Ep0TypeOK /\ Matches(request)
          /\ step' = (IF ~stalled /\ request.in THEN "in" ELSE "status")
          /\ UNCHANGED <<request, state, length, zlp, stalled, offset, collected, handled, answer>>
        BY <1>3 DEF OutDone, Ep0Inv
    <2>2. Ep0TypeOK'
        BY <2>1 DEF Ep0TypeOK, Step
    <2>3. Sending \/ Done
        BY <2>1 DEF Ep0Inv, OutExpected, Receiving
    <2>4. CASE ~stalled /\ request.in
        <3>1. step' = "in"
            BY <2>1, <2>4
        <3>2. Sending' \/ (Done' /\ state' # "DATA_IN")
            BY <2>1, <2>3, <2>4 DEF Sending, Done
        <3> QED
            BY <2>1, <2>2, <2>4, <3>1, <3>2 DEF Ep0Inv
    <2>5. CASE ~(~stalled /\ request.in)
        <3>1. step' = "status" /\ (Sending => stalled)
            BY <2>1, <2>5 DEF Sending
        <3>2. CASE Done
            <4>1. Done'
                BY <2>1, <3>2 DEF Done
            <4> QED
                BY <2>1, <2>2, <3>1, <4>1 DEF Ep0Inv
        <3>3. CASE Sending /\ stalled
            <4>1. Done'
                BY <2>1, <3>3, ReplySent DEF Done, Sending
            <4> QED
                BY <2>1, <2>2, <3>1, <4>1 DEF Ep0Inv
        <3> QED
            BY <2>3, <3>1, <3>2, <3>3
    <2> QED
        BY <2>4, <2>5
<1>4. CASE InStage
    <2>1. /\ step = "in" /\ step' = "in" /\ state = "DATA_IN" /\ SendChunk(length, zlp)
          /\ Ep0TypeOK /\ request.in /\ Matches(request)
          /\ UNCHANGED <<request, offset, handled, answer>>
        BY <1>4 DEF InStage, Ep0Inv
    <2>2. Sending
        BY <2>1 DEF Ep0Inv, Done
    <2>3. request.reply \in Nat /\ length \in Nat /\ zlp \in BOOLEAN
        BY <2>1, <2>2, RequestFields DEF Sending, Ep0TypeOK
    <2>4. /\ Sending'
          /\ collected' \in 0..Capacity /\ stalled' \in BOOLEAN
          /\ state' \in State /\ length' \in Nat /\ zlp' \in BOOLEAN
        BY <2>1, <2>2, <2>3, ChunkSent DEF Sending
    <2>5. Ep0TypeOK'
        BY <2>1, <2>4 DEF Ep0TypeOK, Step
    <2> QED
        BY <2>1, <2>4, <2>5 DEF Ep0Inv, Matches
<1>5. CASE InDone
    <2>1. /\ step = "in" /\ step' = "status" /\ state # "DATA_IN"
          /\ state' = (IF state = "LAST_DATA_IN" THEN "STATUS_OUT" ELSE state)
          /\ Ep0TypeOK /\ request.in /\ Matches(request) /\ (Sending \/ Done)
          /\ UNCHANGED <<request, length, zlp, stalled, offset, collected, handled, answer>>
        BY <1>5 DEF InDone, Ep0Inv
    <2>2. Ep0TypeOK'
        BY <2>1 DEF Ep0TypeOK, Step, State
    <2>3. Done'
        <3>1. CASE Sending
            BY <2>1, <3>1, ReplySent DEF Done, Sending
        <3>2. CASE Done
            BY <2>1, <3>2 DEF Done
        <3> QED
            BY <2>1, <3>1, <3>2
    <2> QED
        BY <2>1, <2>2, <2>3 DEF Ep0Inv
<1>6. CASE StatusStage
    <2>1. /\ step = "status" /\ step' = "answered" /\ state' \in {"IDLE", state}
          /\ answer' = Answer /\ Ep0TypeOK /\ Matches(request) /\ Done
          /\ UNCHANGED <<request, length, zlp, stalled, offset, collected, handled>>
        BY <1>6 DEF StatusStage, Ep0Inv
    <2>2. Answer = Expected(request) /\ Answer \in [kind : {"stall", "ack", "data"}, length : Nat]
        BY <2>1, DoneAnswered
    <2>3. Ep0TypeOK'
        BY <2>1, <2>2 DEF Ep0TypeOK, Step, State
    <2> QED
        BY <2>1, <2>2, <2>3 DEF Ep0Inv, Done
<1>7. CASE Answered
    <2>1. /\ step' = "idle" /\ request' = NoTransfer /\ answer' = StallAnswer /\ handled' = <<>>
          /\ UNCHANGED <<state, length, zlp, stalled, offset, collected>>
        BY <1>7 DEF Answered
    <2>2. NoTransfer \in Request /\ StallAnswer \in [kind : {"stall", "ack", "data"}, length : Nat]
        BY SizeAssumption DEF NoTransfer, Request, StallAnswer
    <2>3. Ep0TypeOK'
        BY <2>1, <2>2 DEF Ep0Inv, Ep0TypeOK, Step
    <2> QED
        BY <2>1, <2>3 DEF Ep0Inv
<1>8. CASE UNCHANGED ep0Vars
    BY <1>8 DEF ep0Vars, Ep0Inv, Ep0TypeOK, Matches, Sending, Receiving, Done
<1> QED
    BY <1>1, <1>2, <1>3, <1>4, <1>5, <1>6, <1>7, <1>8 DEF Ep0Next, Ep0Runs

LEMMA Ep0Invariant == Ep0Spec => []Ep0Inv
BY Ep0InvInit, Ep0InvNext, PTL DEF Ep0Spec

\* The state of the control endpoint stays within its type: among others, the answer
\* never overruns its buffer.
THEOREM Ep0TypeCorrect == Ep0Spec => []Ep0TypeOK
<1>1. Ep0Inv => Ep0TypeOK
    BY DEF Ep0Inv
<1> QED
    BY Ep0Invariant, <1>1, PTL

\* A control transfer comes to what is expected of it, for every size of a packet, of
\* the firmware's buffer and of the answer's, and every request and reply.
THEOREM TransfersComeToTheirResult == Ep0Spec => []Ep0Result
<1>1. Ep0Inv => Ep0Result
    BY DEF Ep0Inv, Ep0Result
<1> QED
    BY Ep0Invariant, <1>1, PTL
-----------------------------------------------------------------------------
(* Safe 3.                                                                 *)

Responses == [kind : {"stall", "ack", "data"}, length : Nat, octet : Octet]

ControlInv == ControlTypeOK /\ ControlAnswered

LEMMA SetupFields ==
    ASSUME NEW s \in Setup
    PROVE  /\ s.in \in BOOLEAN /\ s.high \in Octet /\ s.low \in Octet
           /\ s.request \in Nat /\ s.index \in Nat /\ s.length \in Nat
<1>1. /\ s.in \in BOOLEAN /\ s.high \in Octet /\ s.low \in Octet
      /\ s.request \in Octet /\ s.index \in Short /\ s.length \in Short
    BY SetupAssumption DEF SetupPacket
<1>2. Octet \subseteq Nat /\ Short \subseteq Nat
    BY DEF Octet, Short
<1> QED
    BY <1>1, <1>2

LEMMA ResponseFields ==
    ASSUME NEW n \in Nat, NEW octet \in Octet
    PROVE  /\ Stall \in Responses /\ Ack \in Responses /\ Data(n, octet) \in Responses
           /\ Stall.kind = "stall" /\ Ack.kind = "ack" /\ Ack.length = 0
           /\ Data(n, octet).kind = "data" /\ Data(n, octet).length = n
           /\ Data(n, octet).octet = octet
BY DEF Stall, Ack, Data, Responses, Octet

\* The state of a HID interface is a pair of octets.
LEMMA ClassFields ==
    ASSUME ControlTypeOK, NEW s, Hid(s)
    PROVE  class[Target(s)].idle \in Octet /\ class[Target(s)].protocol \in Octet
BY DEF ControlTypeOK, Hid, Present

\* What each kind of request is answered with: data only to a request for data, an
\* acknowledgement only to one that has none.
Fits(s, r) ==
    r \in Responses /\ (r.kind = "data" => s.in) /\ (r.kind = "ack" => ~s.in /\ r = Ack)

LEMMA StandardFits == ASSUME ControlTypeOK, NEW s \in Setup PROVE Fits(s, Standard(s))
<1>1. /\ ReportLength \in Nat /\ 0 \in Nat /\ 0 \in Octet /\ 1 \in Octet
      /\ (IF configured THEN 1 ELSE 0) \in Octet
    BY ReportLengthAssumption DEF Octet
<1>2. \/ s.in /\ \E n \in Nat, octet \in Octet : Standard(s) = Data(n, octet)
      \/ ~s.in /\ Standard(s) = Ack
      \/ Standard(s) = Stall
    BY <1>1 DEF Standard
<1> QED
    BY <1>1, <1>2, ResponseFields DEF Fits

LEMMA VendorFits == ASSUME NEW s \in Setup PROVE Fits(s, Vendor(s))
<1>1. 18 \in Nat /\ 0 \in Nat /\ 0 \in Octet
    BY DEF Octet
<1>2. (s.in /\ Vendor(s) = Data(18, 0)) \/ Vendor(s) = Stall
    BY DEF Vendor
<1> QED
    BY <1>1, <1>2, ResponseFields DEF Fits

\* An octet that is reported is the one the interface has.
LEMMA ClassFits ==
    ASSUME ControlTypeOK, NEW s \in Setup
    PROVE  /\ Fits(s, Class(s))
           /\ Class(s).kind = "data" /\ Class(s).length # 0 =>
                  Class(s).octet = (IF s.request = 2 THEN class[Target(s)].idle
                                    ELSE class[Target(s)].protocol)
           /\ Class(s) = Ack <=>
                  s.recipient = "interface" /\ Hid(s) /\ ~s.in /\ s.request \in {9, 10, 11}
<1>1. 0 \in Nat /\ 1 \in Nat /\ 0 \in Octet
    BY DEF Octet
<1>2. CASE s.recipient # "interface" \/ ~Hid(s)
  <2>1. Class(s) = Stall
      BY <1>2 DEF Class
  <2> QED
      BY <1>1, <1>2, <2>1, ResponseFields DEF Fits
<1>3. CASE s.recipient = "interface" /\ Hid(s)
  <2>1. class[Target(s)].idle \in Octet /\ class[Target(s)].protocol \in Octet
      BY <1>3, ClassFields
  <2>2. CASE s.in /\ s.request = 2
    <3>1. Class(s) = Data(1, class[Target(s)].idle)
        BY <1>3, <2>2 DEF Class
    <3> QED
        BY <1>1, <2>1, <2>2, <3>1, ResponseFields DEF Fits
  <2>3. CASE s.in /\ s.request = 3
    <3>1. Class(s) = Data(1, class[Target(s)].protocol)
        BY <1>3, <2>3 DEF Class
    <3> QED
        BY <1>1, <2>1, <2>3, <3>1, ResponseFields DEF Fits
  <2>4. CASE s.in /\ s.request = 1
    <3>1. Class(s) = Data(0, 0)
        BY <1>3, <2>4 DEF Class
    <3> QED
        BY <1>1, <2>4, <3>1, ResponseFields DEF Fits
  <2>5. CASE ~s.in /\ s.request \in {9, 10, 11}
    <3>1. Class(s) = Ack
        BY <1>3, <2>5 DEF Class
    <3> QED
        BY <1>1, <1>3, <2>5, <3>1, ResponseFields DEF Fits
  <2>6. CASE IF s.in THEN s.request \notin {1, 2, 3} ELSE s.request \notin {9, 10, 11}
    <3>1. Class(s) = Stall
        BY <1>3, <2>6 DEF Class
    <3> QED
        BY <1>1, <2>6, <3>1, ResponseFields DEF Fits
  <2> QED
      BY <2>2, <2>3, <2>4, <2>5, <2>6
<1> QED
    BY <1>2, <1>3

\* What the worker has set after a request is what the host takes for set.
LEMMA HostAgrees ==
    ASSUME ControlTypeOK, class = host, NEW s \in Setup, NEW r,
           s.type = "class" => r = Class(s)
    PROVE  /\ ClassAfter(s) = HostSees(s, r)
           /\ ClassAfter(s) \in [DOMAIN Kind -> [idle : Octet, protocol : Octet]]
<1>1. /\ s.high \in Octet /\ s.low \in Octet
      /\ class \in [DOMAIN Kind -> [idle : Octet, protocol : Octet]]
    BY SetupFields DEF ControlTypeOK
<1> DEFINE i == s.index % 256
           idle == [class EXCEPT ![i].idle = s.high]
           protocol == [class EXCEPT ![i].protocol = s.low]
<1>2. i \in DOMAIN Kind => /\ idle \in [DOMAIN Kind -> [idle : Octet, protocol : Octet]]
                           /\ protocol \in [DOMAIN Kind -> [idle : Octet, protocol : Octet]]
    BY <1>1
<1>3. CASE s.type = "class" /\ s.recipient = "interface" /\ Hid(s) /\ ~s.in /\ s.request \in {9, 10, 11}
  <2>1. r = Ack /\ i \in DOMAIN Kind
      BY <1>3, ClassFits DEF Hid, Present, Target
  <2>2. CASE s.request = 9
    <3>1. ClassAfter(s) = class /\ HostSees(s, r) = host
        BY <1>3, <2>1, <2>2 DEF ClassAfter, HostSees
    <3> QED
        BY <1>1, <3>1
  <2>3. CASE s.request = 10
    <3>1. ClassAfter(s) = idle /\ HostSees(s, r) = idle
        BY <1>3, <2>1, <2>3 DEF ClassAfter, HostSees, Target
    <3> QED
        BY <1>2, <2>1, <3>1
  <2>4. CASE s.request = 11
    <3>1. ClassAfter(s) = protocol /\ HostSees(s, r) = protocol
        BY <1>3, <2>1, <2>4 DEF ClassAfter, HostSees, Target
    <3> QED
        BY <1>2, <2>1, <3>1
  <2> QED
      BY <1>3, <2>2, <2>3, <2>4
<1>4. CASE ~(s.type = "class" /\ s.recipient = "interface" /\ Hid(s) /\ ~s.in /\ s.request \in {9, 10, 11})
  <2>1. HostSees(s, r) = host
      BY <1>4, ClassFits DEF HostSees
  <2>2. ClassAfter(s) = class
      BY <1>4 DEF ClassAfter
  <2> QED
      BY <1>1, <2>1, <2>2
<1> QED
    BY <1>3, <1>4

LEMMA ControlInvInit == ControlInit => ControlInv
<1> SUFFICES ASSUME ControlInit PROVE ControlInv
    OBVIOUS
<1>1. Zero \in [idle : Octet, protocol : Octet] /\ Stall \in Responses /\ Stall.kind = "stall"
    BY DEF Zero, Stall, Responses, Octet
<1> QED
    BY <1>1 DEF ControlInit, ControlInv, ControlTypeOK, ControlAnswered, Responses

\* The answer is cut to what was asked for, which leaves an octet or nothing.
LEMMA CutFits ==
    ASSUME NEW s \in Setup, NEW r, Fits(s, r)
    PROVE  LET cut == Cut(r, s.length)
           IN  /\ cut \in Responses /\ cut.kind = r.kind
               /\ cut.kind = "data" => cut.length <= s.length
               /\ cut.length = 1 => cut.octet = r.octet /\ r.length # 0
<1>1. s.length \in Nat /\ r \in Responses
    BY SetupFields DEF Fits
<1>2. CASE r.length <= s.length
  <2>1. Cut(r, s.length) = r
      BY <1>2 DEF Cut
  <2> QED
      BY <1>1, <1>2, <2>1 DEF Responses
<1>3. CASE ~(r.length <= s.length)
  <2> DEFINE octet == IF s.length = 0 THEN 0 ELSE r.octet
  <2>1. Cut(r, s.length) = [kind |-> r.kind, length |-> s.length, octet |-> octet]
      BY <1>1, <1>3 DEF Cut, Responses
  <2> QED
      BY <1>1, <1>3, <2>1 DEF Responses, Octet
<1> QED
    BY <1>2, <1>3

LEMMA RequestAnswered == ASSUME ControlInv, NEW s \in Setup, AnswerControlRequest(s) PROVE ControlInv'
<1> DEFINE r == CASE s.type = "standard" -> Standard(s)
                  [] s.type = "class" -> Class(s)
                  [] OTHER -> Vendor(s)
<1>1. /\ asked' = s /\ class' = ClassAfter(s) /\ response' = Cut(r, s.length)
      /\ host' = HostSees(s, r) /\ configured' = configured /\ ControlTypeOK /\ class = host
    BY DEF AnswerControlRequest, ControlInv, ControlAnswered
<1>2. Fits(s, r) /\ (s.type = "class" => r = Class(s))
  <2>1. CASE s.type = "standard"
      BY <1>1, <2>1, StandardFits
  <2>2. CASE s.type = "class"
      BY <1>1, <2>2, ClassFits
  <2>3. CASE s.type \notin {"standard", "class"}
      BY <2>3, VendorFits
  <2> QED
      BY <2>1, <2>2, <2>3
<1> HIDE DEF r
<1>3. /\ class' = host' /\ class' \in [DOMAIN Kind -> [idle : Octet, protocol : Octet]]
    BY <1>1, <1>2, HostAgrees
<1>4. /\ response' \in Responses /\ response'.kind = r.kind
      /\ response'.kind = "data" => response'.length <= s.length
      /\ response'.length = 1 => response'.octet = r.octet /\ r.length # 0
    BY <1>1, <1>2, CutFits
<1>5. (response'.kind = "data" => s.in) /\ (response'.kind = "ack" => ~s.in)
    BY <1>2, <1>4 DEF Fits
<1>6. ControlTypeOK'
    BY <1>1, <1>3, <1>4 DEF ControlTypeOK, Responses
<1>7. ASSUME response'.kind = "data", response'.length = 1, s.type = "class"
      PROVE  LET set == host'[s.index % 256]
             IN  response'.octet = (IF s.request = 2 THEN set.idle ELSE set.protocol)
  <2>1. r = Class(s) /\ r.kind = "data" /\ s.in /\ response'.octet = r.octet /\ r.length # 0
      BY <1>2, <1>4, <1>5, <1>7
  <2>2. r.octet = (IF s.request = 2 THEN class[Target(s)].idle ELSE class[Target(s)].protocol)
      BY <1>1, <2>1, ClassFits
  <2>3. class' = class
      BY <1>1, <2>1 DEF ClassAfter
  <2> QED
      BY <1>3, <2>1, <2>2, <2>3 DEF Target
<1> QED
    BY <1>1, <1>3, <1>4, <1>5, <1>6, <1>7 DEF ControlInv, ControlAnswered

LEMMA ControlInvNext == ControlInv /\ [ControlNext]_controlVars => ControlInv'
<1> SUFFICES ASSUME ControlInv, [ControlNext]_controlVars PROVE ControlInv'
    OBVIOUS
<1>1. ASSUME NEW now \in BOOLEAN, NextRequest(now) PROVE ControlInv'
  <2>1. /\ response' = Stall /\ Stall \in Responses /\ Stall.kind = "stall"
        /\ asked' = NoRequest /\ UNCHANGED <<class, host>>
      BY <1>1 DEF NextRequest, Stall, Responses, Octet
  <2>2. configured' \in BOOLEAN
      BY <1>1, Zenon DEF NextRequest
  <2> QED
      BY <2>1, <2>2 DEF ControlInv, ControlTypeOK, ControlAnswered, Responses
<1>2. CASE UNCHANGED controlVars
    BY <1>2 DEF controlVars, ControlInv, ControlTypeOK, ControlAnswered
<1> QED
    BY <1>1, <1>2, RequestAnswered DEF ControlNext

\* The state and the responses of Safe 3's control requests stay within their types.
THEOREM ControlTypeCorrect == ControlSpec => []ControlTypeOK
<1>1. ControlInv => ControlTypeOK
    BY DEF ControlInv
<1> QED
    BY ControlInvInit, ControlInvNext, <1>1, PTL DEF ControlSpec

\* Whatever setup packets the host sends, to whatever interfaces: data answers only a
\* request for data, and an interface has and reports what was last set for it.
THEOREM RequestsAreAnswered == ControlSpec => []ControlAnswered
<1>1. ControlInv => ControlAnswered
    BY DEF ControlInv
<1> QED
    BY ControlInvInit, ControlInvNext, <1>1, PTL DEF ControlSpec
=============================================================================
