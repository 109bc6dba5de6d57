----------------------------- MODULE LegacyControl -----------------------------
(***************************************************************************)
(* Control transfers of the legacy worker (usb_functionfs.c). The          *)
(* supervisor, or the builder of the personality at the start, hands over  *)
(* a whole transfer; run_control_transfer plays the host against the       *)
(* firmware's control endpoint, packet by packet, until the transfer is    *)
(* answered. Data is counted, not looked at.                               *)
(*                                                                         *)
(* The state machine of the control endpoint is libopencm3's, which is     *)
(* external: it is modelled as the loops of this code expect it.           *)
(***************************************************************************)
EXTENDS Naturals, Sequences

CONSTANTS
    MaxPacket,    \* bMaxPacketSize0
    Buffer,       \* length of the firmware's control buffer
    Capacity,     \* CONTROL_BUFFER_LENGTH: room for an answer
    MaxLength,    \* bound: lengths a request names, and of replies
    Refused       \* the firmware's reply to a request it does not support

ASSUME SizeAssumption ==
    /\ MaxPacket \in Nat \ {0} /\ Buffer \in Nat /\ Capacity \in Nat /\ MaxLength \in Nat
    /\ Refused \notin Nat

VARIABLES
    step,        \* where run_control_transfer is
    request,     \* the transfer: its origin, direction, wLength, data and fate
    state,       \* control_state.state
    length,      \* control_state.ctrl_len
    zlp,         \* control_state.needs_zlp
    stalled,     \* control_stalled
    offset,      \* control_out_offset
    collected,   \* control_in_length
    handled,     \* how much data the firmware's handler was called with, each time
    answer       \* the answer

ep0Vars == <<step, request, state, length, zlp, stalled, offset, collected, handled, answer>>

Step == {"idle", "setup", "out", "in", "status", "answered", "ended"}
State == {"IDLE", "STALLED", "DATA_IN", "LAST_DATA_IN", "STATUS_IN", "DATA_OUT", "LAST_DATA_OUT",
          "STATUS_OUT"}

\* `reply` is what the firmware has for an IN request, and whether it accepts an
\* OUT request (any number) or refuses.
Request == [origin : {"runtime", "capture"}, in : BOOLEAN, wLength : 0..MaxLength,
            out : 0..MaxLength, reply : (0..MaxLength) \cup {Refused}]
NoTransfer == [origin |-> "runtime", in |-> FALSE, wLength |-> 0, out |-> 0, reply |-> Refused]
StallAnswer == [kind |-> "stall", length |-> 0]
AckAnswer == [kind |-> "ack", length |-> 0]
DataAnswer(n) == [kind |-> "data", length |-> n]

Ep0Init ==
    /\ step = "idle" /\ request = NoTransfer
    /\ state = "IDLE" /\ length = 0 /\ zlp = FALSE
    /\ stalled = FALSE /\ offset = 0 /\ collected = 0
    /\ handled = <<>> /\ answer = StallAnswer
-----------------------------------------------------------------------------
(* The firmware's control endpoint, with the packets this code gives it.   *)

Least(m, n) == IF m < n THEN m ELSE n

\* Mutant of WritePacket: the room is not looked at.
WritePacket_Unchecked(n) == collected' = collected + n /\ UNCHANGED stalled

\* virtual_ep_write_packet of n bytes. An answer that has no room stalls.
WritePacket(n) ==
    IF collected + n > Capacity
    THEN stalled' = TRUE /\ UNCHANGED collected
    ELSE collected' = collected + n /\ UNCHANGED stalled

\* virtual_ep_stall_set, from stall_transaction.
StallEndpoint == stalled' = TRUE /\ state' = "IDLE"

\* usb_control_send_chunk with n bytes left; z says that an empty packet must
\* follow a full last one.
SendChunk(n, z) ==
    IF MaxPacket < n
    THEN /\ WritePacket(MaxPacket)
         /\ state' = "DATA_IN" /\ length' = n - MaxPacket /\ zlp' = z
    ELSE /\ WritePacket(n)
         /\ state' = (IF z THEN "DATA_IN" ELSE "LAST_DATA_IN") /\ length' = 0 /\ zlp' = FALSE

\* The SETUP callback of a request without data out: the handler is called, and
\* the data or the status stage begins.
SetupRead ==
    /\ handled' = Append(handled, 0)
    /\ CASE request.reply = Refused -> StallEndpoint /\ UNCHANGED <<length, zlp, collected>>
         [] request.reply # Refused /\ request.wLength = 0 ->
                WritePacket(0) /\ state' = "STATUS_IN" /\ UNCHANGED <<length, zlp>>
         [] OTHER ->
                SendChunk(request.reply,
                          /\ request.reply < request.wLength /\ request.reply # 0
                          /\ request.reply % MaxPacket = 0)

\* That of one with data out, which must fit the firmware's buffer.
SetupWrite ==
    /\ IF request.wLength > Buffer
       THEN StallEndpoint /\ UNCHANGED length
       ELSE /\ state' = (IF request.wLength > MaxPacket THEN "DATA_OUT" ELSE "LAST_DATA_OUT")
            /\ length' = 0 /\ UNCHANGED stalled
    /\ UNCHANGED <<zlp, collected, handled>>

\* virtual_ep_read_packet of up to n bytes.
ReadPacket(n) ==
    LET size == Least(n, request.out - offset)
    IN  [size |-> size, offset |-> offset + size]

\* The OUT callback: a packet is read; after the last the handler is called with
\* all of them.
ReceiveChunk ==
    LET wanted == Least(MaxPacket, request.wLength - length)
        packet == ReadPacket(wanted)
        now == length + packet.size
    IN  /\ offset' = packet.offset
        /\ CASE packet.size # wanted -> StallEndpoint /\ UNCHANGED <<length, collected, handled>>
             [] packet.size = wanted /\ state = "DATA_OUT" ->
                    /\ length' = now
                    /\ state' = (IF request.wLength - now <= MaxPacket
                                 THEN "LAST_DATA_OUT" ELSE "DATA_OUT")
                    /\ UNCHANGED <<stalled, collected, handled>>
             [] OTHER ->
                    /\ length' = now /\ handled' = Append(handled, now)
                    /\ IF request.reply = Refused
                       THEN StallEndpoint /\ UNCHANGED collected
                       ELSE WritePacket(0) /\ state' = "STATUS_IN"
-----------------------------------------------------------------------------
(* run_control_transfer, and who calls it.                                 *)

Matches(r) == r.out = (IF r.in THEN 0 ELSE r.wLength)

\* Mutant of TransferBegins: what the last answer collected is not reset.
TransferBegins_KeepsLength(r) ==
    /\ step = "idle" /\ request' = r
    /\ step' = (CASE Matches(r) -> "setup"
                  [] ~Matches(r) /\ r.origin = "capture" -> "answered"
                  [] OTHER -> "ended")
    /\ stalled' = FALSE /\ offset' = 0
    /\ handled' = <<>> /\ answer' = StallAnswer
    /\ UNCHANGED <<state, length, zlp, collected>>

\* A transfer begins with whatever state the one before it left. Data that does
\* not match the setup packet ends the process, or stalls during the capture.
TransferBegins(r) ==
    /\ step = "idle" /\ request' = r
    /\ step' = (CASE Matches(r) -> "setup"
                  [] ~Matches(r) /\ r.origin = "capture" -> "answered"
                  [] OTHER -> "ended")
    /\ stalled' = FALSE /\ offset' = 0 /\ collected' = 0
    /\ handled' = <<>> /\ answer' = StallAnswer
    /\ UNCHANGED <<state, length, zlp>>

SetupStage ==
    /\ step = "setup" /\ step' = "out"
    /\ IF request.in \/ request.wLength = 0 THEN SetupRead ELSE SetupWrite
    /\ UNCHANGED <<request, offset, answer>>

OutExpected ==
    ~stalled /\ ~request.in /\ request.wLength # 0 /\ state \in {"DATA_OUT", "LAST_DATA_OUT"}

OutStage ==
    /\ step = "out" /\ OutExpected
    /\ ReceiveChunk
    /\ UNCHANGED <<step, request, zlp, answer>>

OutDone ==
    /\ step = "out" /\ ~OutExpected
    /\ step' = (IF ~stalled /\ request.in THEN "in" ELSE "status")
    /\ UNCHANGED <<request, state, length, zlp, stalled, offset, collected, handled, answer>>

\* The loop does not look at control_stalled: it ends with the data.
InStage ==
    /\ step = "in" /\ state = "DATA_IN"
    /\ SendChunk(length, zlp)
    /\ UNCHANGED <<step, request, offset, handled, answer>>

InDone ==
    /\ step = "in" /\ state # "DATA_IN" /\ step' = "status"
    /\ state' = (IF state = "LAST_DATA_IN" THEN "STATUS_OUT" ELSE state)
    /\ UNCHANGED <<request, length, zlp, stalled, offset, collected, handled, answer>>

\* What handle_usb_control_request answers, and firmware_control_transfer. Only
\* the first cuts the data to what was asked for.
Answer ==
    CASE stalled \/ state = "STALLED" -> StallAnswer
      [] ~stalled /\ request.origin = "capture" -> DataAnswer(collected)
      [] ~stalled /\ request.origin = "runtime" /\ ~request.in -> AckAnswer
      [] OTHER -> DataAnswer(Least(collected, request.wLength))

\* The status stage. An IN request without data leaves it to the next transfer.
StatusStage ==
    /\ step = "status" /\ step' = "answered"
    /\ state' = (IF \/ state = "STATUS_OUT"
                    \/ ~stalled /\ ~request.in /\ state = "STATUS_IN"
                 THEN "IDLE" ELSE state)
    /\ answer' = Answer
    /\ UNCHANGED <<request, length, zlp, stalled, offset, collected, handled>>

\* The answer is sent.
Answered ==
    /\ step = "answered" /\ step' = "idle"
    /\ request' = NoTransfer /\ answer' = StallAnswer /\ handled' = <<>>
    /\ UNCHANGED <<state, length, zlp, stalled, offset, collected>>

Ep0Runs == SetupStage \/ OutStage \/ OutDone \/ InStage \/ InDone \/ StatusStage \/ Answered
Ep0Next == Ep0Runs \/ \E r \in Request : TransferBegins(r)

Ep0Spec == Ep0Init /\ [][Ep0Next]_ep0Vars
-----------------------------------------------------------------------------
(* Properties.                                                             *)

\* What is collected for the answer never overruns its buffer, whatever the packets the
\* firmware writes, and the state of the control endpoint is one of its enumeration.
Ep0TypeOK ==
    /\ step \in Step /\ request \in Request
    /\ state \in State /\ length \in Nat /\ zlp \in BOOLEAN
    /\ stalled \in BOOLEAN /\ offset \in Nat /\ collected \in 0..Capacity
    /\ handled \in Seq(Nat)
    /\ answer \in [kind : {"stall", "ack", "data"}, length : Nat]

\* What a transfer is answered with, told at once: without packets.
Expected(r) ==
    LET reply == IF r.in THEN r.reply ELSE 0
    IN  CASE \/ ~Matches(r) \/ r.reply = Refused
             \/ ~r.in /\ r.wLength > Buffer
             \/ r.in /\ r.wLength # 0 /\ reply > Capacity -> StallAnswer
          [] OTHER ->
                IF r.origin = "runtime" /\ ~r.in THEN AckAnswer
                ELSE DataAnswer(CASE r.wLength = 0 -> 0
                            [] r.wLength # 0 /\ r.origin = "capture" -> reply
                            [] OTHER -> Least(reply, r.wLength))

\* How often the firmware's handler is called, and with how much data.
Handled(r) ==
    CASE ~Matches(r) \/ (~r.in /\ r.wLength > Buffer) -> <<>>
      [] OTHER -> <<IF r.in THEN 0 ELSE r.wLength>>

\* Whatever the sizes of packets and buffers, and whatever the transfer before
\* left behind: the firmware handles a request once, with all of its data, and
\* the host gets its whole reply, up to the length asked for, an acknowledgement
\* for exactly the data that was accepted, or a stall.
Ep0Result ==
    step = "answered" => answer = Expected(request) /\ handled = Handled(request)
=============================================================================
