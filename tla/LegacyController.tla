--------------------------- MODULE LegacyController ---------------------------
(***************************************************************************)
(* The virtual USB controller of the legacy worker (usb_functionfs.c): a   *)
(* reader thread for each OUT endpoint, its one-transfer slot and eventfd, *)
(* and the main thread, in which the firmware services the controller from *)
(* its waits and polls and, nested, from the packet callbacks that the     *)
(* service itself makes. IN transfers have no helper: the main thread      *)
(* writes them, and blocks until the host takes them.                      *)
(*                                                                         *)
(* The slot is only ever locked to copy a transfer in or out, so posting   *)
(* and taking one are single steps. An exchange with the supervisor is the *)
(* closing of the endpoints and their installation, as in Safe3Endpoint.   *)
(***************************************************************************)
EXTENDS Naturals, Sequences

CONSTANTS
    Endpoint,    \* numbers of the OUT endpoints
    Packet,      \* payloads
    Empty,       \* no packet
    MaxDepth,    \* bound: how deep the firmware nests services
    Records,     \* bound: the control records the supervisor sends
    MaxRecords   \* bound: how many of them the socket holds at once

ASSUME EndpointAssumption == Endpoint \subseteq Nat \ {0}
ASSUME PacketAssumption == Empty \notin Packet
ASSUME DepthAssumption == MaxDepth \in Nat \ {0}
ASSUME RecordAssumption ==
    /\ Records \subseteq {"bind", "unbind", "enable", "disable", "suspend", "resume",
                          "quiesce", "end"}
    /\ MaxRecords \in Nat \ {0}

VARIABLES
    pc,          \* where each reader thread is
    held,        \* its read_data
    slot,        \* transfer_data, transfer_length and transfer_occupied
    event,       \* the counter of event_fd
    open,        \* event_fd is open
    live,        \* the host has the function configured: I/O can complete
    inbox,       \* control records waiting in the socket
    usbEnabled,  \* usb_enabled
    suspended,   \* worker_timer_is_suspended
    installed,   \* functionfs_fd >= 0
    mpc,         \* where the main thread is
    stack,       \* the services in progress, innermost first
    todo, cont   \* stop_endpoint_threads: endpoints left, and what comes after

readers  == <<pc, held>>
handoff  == <<slot, event, open>>
bus      == <<live, inbox>>
gate     == <<usbEnabled, suspended, installed>>
stopping == <<todo, cont>>
vars     == <<readers, handoff, bus, gate, mpc, stack, stopping>>

ReaderPC == {"none", "read", "post", "notify", "ended"}
Halted   == {"stale", "failed", "crossed", "exited"}
MainPC   == {"firmware", "poll", "record", "loop", "flush", "write", "stop"} \cup Halted
Frame    == [wait : BOOLEAN, ready : SUBSET Endpoint]
Continuation == [fds : {"keep", "close", "install"}, next : {"loop", "firmware"}]

NoStop == [fds |-> "keep", next |-> "loop"]

\* After usbInit: the endpoints are installed and the UDC is not bound yet.
Init ==
    /\ pc = [e \in Endpoint |-> "none"]
    /\ held = [e \in Endpoint |-> Empty]
    /\ slot = [e \in Endpoint |-> Empty]
    /\ event = [e \in Endpoint |-> 0] /\ open = [e \in Endpoint |-> FALSE]
    /\ live = FALSE /\ inbox = <<>>
    /\ usbEnabled = FALSE /\ suspended = FALSE /\ installed = TRUE
    /\ mpc = "firmware" /\ stack = <<>>
    /\ todo = {} /\ cont = NoStop

\* The process ends, from either kind of thread.
ProcessEnds(how) ==
    /\ mpc' = how
    /\ pc' = [e \in Endpoint |-> "none"]
    /\ held' = [e \in Endpoint |-> Empty]
    /\ slot' = [e \in Endpoint |-> Empty]
    /\ event' = [e \in Endpoint |-> 0] /\ open' = [e \in Endpoint |-> FALSE]
    /\ live' = FALSE /\ inbox' = <<>>
    /\ usbEnabled' = FALSE /\ suspended' = FALSE /\ installed' = FALSE
    /\ stack' = <<>> /\ todo' = {} /\ cont' = NoStop
-----------------------------------------------------------------------------
(* The reader threads: endpoint_thread_main.                               *)

\* read(functionfs_fd) returns a transfer from the host.
OutRead(e, p) ==
    /\ pc[e] = "read" /\ live
    /\ held' = [held EXCEPT ![e] = p]
    /\ pc' = [pc EXCEPT ![e] = "post"]
    /\ UNCHANGED <<handoff, bus, gate, mpc, stack, stopping>>

\* It fails with an errno of functionfs_generation_ended: the reader returns.
GenerationEnded(e) ==
    /\ pc[e] = "read" /\ ~live
    /\ pc' = [pc EXCEPT ![e] = "ended"]
    /\ UNCHANGED <<held, handoff, bus, gate, mpc, stack, stopping>>

\* Any other errno ends the process.
ReadFails(e) == pc[e] = "read" /\ ProcessEnds("failed")

\* Mutant of Post: a transfer nobody took yet is overwritten.
Post_Overwrite(e) ==
    /\ pc[e] = "post"
    /\ slot' = [slot EXCEPT ![e] = held[e]]
    /\ held' = [held EXCEPT ![e] = Empty]
    /\ pc' = [pc EXCEPT ![e] = "notify"]
    /\ UNCHANGED <<event, open, bus, gate, mpc, stack, stopping>>

\* Publish the transfer. If the one before it is still there, the process ends.
Post(e) ==
    /\ pc[e] = "post"
    /\ IF slot[e] # Empty
       THEN ProcessEnds("failed")
       ELSE /\ slot' = [slot EXCEPT ![e] = held[e]]
            /\ held' = [held EXCEPT ![e] = Empty]
            /\ pc' = [pc EXCEPT ![e] = "notify"]
            /\ UNCHANGED <<event, open, bus, gate, mpc, stack, stopping>>

\* write(event_fd).
Notify(e) ==
    /\ pc[e] = "notify"
    /\ event' = [event EXCEPT ![e] = @ + 1]
    /\ pc' = [pc EXCEPT ![e] = "read"]
    /\ UNCHANGED <<held, slot, open, bus, gate, mpc, stack, stopping>>

ReaderRuns(e) == Post(e) \/ Notify(e) \/ GenerationEnded(e)
-----------------------------------------------------------------------------
(* stop_endpoint_threads and start_endpoint_threads.                       *)

BeginStop(fds, next) ==
    /\ usbEnabled' = FALSE
    /\ todo' = Endpoint /\ cont' = [fds |-> fds, next |-> next]
    /\ mpc' = "stop"

\* Cancel and join the next reader, which happens in read(functionfs_fd), in
\* write(event_fd) or after it returned; then release what it used.
StopReader(e) ==
    /\ mpc = "stop" /\ e \in todo /\ \A f \in todo : e <= f
    /\ pc[e] # "post"
    /\ pc' = [pc EXCEPT ![e] = "none"]
    /\ held' = [held EXCEPT ![e] = Empty]
    /\ slot' = [slot EXCEPT ![e] = Empty]
    /\ event' = [event EXCEPT ![e] = 0] /\ open' = [open EXCEPT ![e] = FALSE]
    /\ todo' = todo \ {e}
    /\ UNCHANGED <<bus, gate, mpc, stack, cont>>

\* Then _usbd_reset, with close_usb_endpoints and install_usb_endpoints when the
\* generation ends or is replaced.
StopDone ==
    /\ mpc = "stop" /\ todo = {}
    /\ installed' = (IF cont.fds = "keep" THEN installed ELSE cont.fds = "install")
    /\ live' = (live /\ cont.fds = "keep")
    /\ mpc' = cont.next /\ cont' = NoStop
    /\ UNCHANGED <<readers, handoff, inbox, usbEnabled, suspended, stack, todo>>

StartThreads ==
    /\ pc' = [e \in Endpoint |-> "read"]
    /\ event' = [e \in Endpoint |-> 0] /\ open' = [e \in Endpoint |-> TRUE]
-----------------------------------------------------------------------------
(* service_virtual_usb and handle_runtime_record.                          *)

Top == Head(stack)
Pending == {e \in Endpoint : event[e] > 0}

\* waitAndProcessUSBRequests, or usbPoll: a service begins.
StartService(wait) ==
    /\ mpc = "firmware" /\ Len(stack) < MaxDepth
    /\ stack' = <<[wait |-> wait, ready |-> {}]>> \o stack
    /\ mpc' = "poll"
    /\ UNCHANGED <<readers, handoff, bus, gate, stopping>>

\* poll returns: what it reported is kept in this frame.
PollReturns ==
    /\ mpc = "poll"
    /\ stack' = [stack EXCEPT ![1].ready = IF usbEnabled THEN Pending ELSE {}]
    /\ mpc' = (IF inbox # <<>> THEN "record" ELSE "loop")
    /\ UNCHANGED <<readers, handoff, bus, gate, stopping>>

\* A wait of a suspended firmware has no timeout: only a record or a
\* notification ends it, or a button edge.
Parked == Top.wait /\ suspended /\ inbox = <<>> /\ ~(usbEnabled /\ Pending # {})
Poll == mpc = "poll" /\ ~Parked /\ PollReturns
ButtonEdge == mpc = "poll" /\ Parked /\ PollReturns

EnableEvent ==
    /\ suspended' = FALSE /\ usbEnabled' = TRUE
    /\ IF usbEnabled THEN UNCHANGED <<pc, event, open>> ELSE StartThreads
    /\ mpc' = "loop"
    /\ UNCHANGED <<held, slot, live, installed, stopping>>

\* Mutant of ResetEvent: the readers are left as they are.
ResetEvent_KeepsReaders ==
    /\ usbEnabled' = FALSE /\ mpc' = "loop"
    /\ UNCHANGED <<readers, handoff, live, suspended, installed, stopping>>

\* bind, unbind and disable.
ResetEvent ==
    /\ BeginStop("keep", "loop")
    /\ UNCHANGED <<readers, handoff, live, suspended, installed>>

SuspendEvent(flag) ==
    /\ suspended' = flag /\ mpc' = "loop"
    /\ UNCHANGED <<readers, handoff, live, usbEnabled, installed, stopping>>

QuiesceRecord ==
    /\ BeginStop("close", "loop")
    /\ UNCHANGED <<readers, handoff, live, suspended, installed>>

\* One record, received before the notifications are looked at.
HandleRecord ==
    LET kind == Head(inbox)
    IN  /\ mpc = "record"
        /\ \/ /\ \/ kind = "enable" /\ EnableEvent
                 \/ kind \in {"bind", "unbind", "disable"} /\ ResetEvent
                 \/ kind = "suspend" /\ SuspendEvent(TRUE)
                 \/ kind = "resume" /\ SuspendEvent(FALSE)
                 \/ kind = "quiesce" /\ QuiesceRecord
              /\ inbox' = Tail(inbox)
              /\ UNCHANGED stack
           \/ kind = "end" /\ ProcessEnds("exited")

Nearest(e) == e \in Top.ready /\ \A f \in Top.ready : e <= f

\* Mutants of CompleteOut: the callback takes what the reader reads into, or the
\* loop does not look at usb_enabled.
CompleteOut_WrongBuffer(e) ==
    /\ mpc = "loop" /\ usbEnabled /\ Nearest(e) /\ held[e] # Empty
    /\ event' = [event EXCEPT ![e] = 0]
    /\ held' = [held EXCEPT ![e] = Empty]
    /\ stack' = [stack EXCEPT ![1].ready = @ \ {e}]
    /\ mpc' = "firmware"
    /\ UNCHANGED <<pc, slot, open, bus, gate, stopping>>

CompleteOut_Unguarded(e) ==
    /\ mpc = "loop" /\ Nearest(e)
    /\ IF event[e] # 1
       THEN ProcessEnds("stale")
       ELSE /\ event' = [event EXCEPT ![e] = 0]
            /\ slot' = [slot EXCEPT ![e] = Empty]
            /\ stack' = [stack EXCEPT ![1].ready = @ \ {e}]
            /\ mpc' = "firmware"
            /\ UNCHANGED <<readers, open, bus, gate, stopping>>

\* Read the notification of the next endpoint that poll reported, and call the
\* firmware's OUT callback, which takes the transfer first. The process ends
\* when the eventfd has no notification, or more than one.
CompleteOut(e) ==
    /\ mpc = "loop" /\ usbEnabled /\ Nearest(e)
    /\ IF event[e] # 1
       THEN ProcessEnds("stale")
       ELSE /\ event' = [event EXCEPT ![e] = 0]
            /\ slot' = [slot EXCEPT ![e] = Empty]
            /\ stack' = [stack EXCEPT ![1].ready = @ \ {e}]
            /\ mpc' = "firmware"
            /\ UNCHANGED <<readers, open, bus, gate, stopping>>

\* The callback returns to the service that made it.
CallbackReturns ==
    /\ mpc = "firmware" /\ stack # <<>>
    /\ mpc' = "loop"
    /\ UNCHANGED <<readers, handoff, bus, gate, stack, stopping>>

\* The loop is over. A wait goes on for as long as the firmware is suspended;
\* otherwise firmwareUsbPoll flushes the pending reply.
ServiceEnds ==
    /\ mpc = "loop" /\ (~usbEnabled \/ Top.ready = {})
    /\ mpc' = (IF Top.wait /\ suspended THEN "poll" ELSE "flush")
    /\ stack' = [stack EXCEPT ![1].ready = {}]
    /\ UNCHANGED <<readers, handoff, bus, gate, stopping>>

Return == mpc' = "firmware" /\ stack' = Tail(stack)

\* No reply is pending, or it is dropped: the host does not serve the endpoint.
FlushDone ==
    /\ mpc = "flush" /\ Return
    /\ UNCHANGED <<readers, handoff, bus, gate, stopping>>

\* write(functionfs_fd) of an IN endpoint, which blocks.
WriteBegins ==
    /\ mpc = "flush" /\ usbEnabled /\ installed
    /\ mpc' = "write"
    /\ UNCHANGED <<readers, handoff, bus, gate, stack, stopping>>

\* The host takes the packet.
Written ==
    /\ mpc = "write" /\ live /\ Return
    /\ UNCHANGED <<readers, handoff, bus, gate, stopping>>

\* Mutant of WriteEnds: a write survives the end of its generation.
WriteEnds_Blocked ==
    /\ mpc = "write" /\ ~live /\ ~usbEnabled /\ Return
    /\ UNCHANGED <<readers, handoff, bus, gate, stopping>>

\* The generation ended meanwhile: the packet is dropped.
WriteEnds ==
    /\ mpc = "write" /\ ~live /\ Return
    /\ usbEnabled' = FALSE
    /\ UNCHANGED <<readers, handoff, bus, suspended, installed, stopping>>

WriteFails == mpc = "write" /\ ProcessEnds("failed")
-----------------------------------------------------------------------------
(* What the firmware calls besides.                                        *)

\* usbReconnect: the supervisor replaces the generation. When it rejects the
\* personality instead, nothing changes that the endpoints depend on.
Reconnect ==
    /\ mpc = "firmware" /\ installed /\ inbox = <<>>
    /\ BeginStop("install", "firmware")
    /\ live' = FALSE
    /\ UNCHANGED <<readers, handoff, inbox, suspended, installed, stack>>

\* A record that was on its way, or the end of the stream, is received in place
\* of the answer.
ReconnectCrossed ==
    /\ mpc = "firmware" /\ installed /\ inbox # <<>>
    /\ ProcessEnds(IF Head(inbox) = "end" THEN "exited" ELSE "crossed")

\* usbd_disconnect: virtual_disconnect.
Disconnect ==
    /\ mpc = "firmware" /\ usbEnabled' = FALSE
    /\ UNCHANGED <<readers, handoff, bus, suspended, installed, mpc, stack, stopping>>

MainRuns ==
    \/ \E wait \in BOOLEAN : StartService(wait)
    \/ Poll \/ HandleRecord \/ CallbackReturns \/ ServiceEnds \/ FlushDone
    \/ WriteBegins \/ WriteEnds \/ StopDone
    \/ \E e \in Endpoint : CompleteOut(e) \/ StopReader(e)
-----------------------------------------------------------------------------
(* The host and usb-gadget-supervisor, which are outside this source.      *)

\* The supervisor unbinds a function before it asks to quiesce it, and says
\* nothing about a generation after that.
BusAlive ==
    /\ installed /\ ~(mpc = "stop" /\ cont.fds # "keep")
    /\ \A i \in 1..Len(inbox) : inbox[i] # "quiesce"

\* FunctionFS enables a function that is not enabled, and so on.
Possible(kind) ==
    CASE kind = "enable" -> BusAlive /\ ~live
      [] kind \in {"disable", "suspend", "resume"} -> BusAlive /\ live
      [] kind = "bind" -> BusAlive /\ ~live
      [] kind = "end" -> TRUE
      [] OTHER -> BusAlive

BusEvent(kind) ==
    /\ mpc \notin Halted
    /\ Len(inbox) < MaxRecords /\ Possible(kind)
    /\ \A i \in 1..Len(inbox) : inbox[i] # "end"
    /\ live' = (kind = "enable" \/ (live /\ kind \in {"suspend", "resume"}))
    /\ inbox' = Append(inbox, kind)
    /\ UNCHANGED <<readers, handoff, gate, mpc, stack, stopping>>

Next ==
    \/ MainRuns \/ ButtonEdge \/ Written \/ WriteFails
    \/ Reconnect \/ ReconnectCrossed \/ Disconnect
    \/ \E e \in Endpoint : ReaderRuns(e) \/ ReadFails(e) \/ \E p \in Packet : OutRead(e, p)
    \/ \E kind \in Records : BusEvent(kind)

Terminated == mpc \in Halted /\ UNCHANGED vars

Spec == Init /\ [][Next \/ Terminated]_vars

(* Scheduling: a thread that can take a step of its own does. The firmware *)
(* returns from its callbacks or services the controller in them. Nothing  *)
(* is assumed of the host, not even that it reads.                         *)
FairSpec == Spec /\ WF_vars(MainRuns) /\ \A e \in Endpoint : WF_vars(ReaderRuns(e))
-----------------------------------------------------------------------------
(* Properties.                                                             *)

\* Every variable stays within the values its C counterpart can have.
TypeOK ==
    /\ pc \in [Endpoint -> ReaderPC]
    /\ held \in [Endpoint -> Packet \cup {Empty}]
    /\ slot \in [Endpoint -> Packet \cup {Empty}]
    /\ event \in [Endpoint -> Nat] /\ open \in [Endpoint -> BOOLEAN]
    /\ live \in BOOLEAN /\ inbox \in Seq(Records)
    /\ usbEnabled \in BOOLEAN /\ suspended \in BOOLEAN
    /\ installed \in BOOLEAN
    /\ mpc \in MainPC /\ stack \in Seq(Frame)
    /\ todo \subseteq Endpoint /\ cont \in Continuation

\* A transfer in the slot is announced exactly once: by the notification in
\* the eventfd, or by the one its reader is about to write. So the counter that
\* service_virtual_usb insists to be 1 is never 2, and no transfer is forgotten.
AnnouncedOnce ==
    \A e \in Endpoint :
        /\ event[e] + (IF pc[e] = "notify" THEN 1 ELSE 0) = (IF slot[e] = Empty THEN 0 ELSE 1)
        /\ pc[e] # "none" <=> open[e]

\* usb_enabled is cleared in places that leave the readers running, yet an
\* ENABLE never starts a second reader on an endpoint.
NoSecondReader ==
    mpc = "record" /\ Head(inbox) = "enable" /\ ~usbEnabled =>
        \A e \in Endpoint : pc[e] = "none" /\ slot[e] = Empty

\* A record handled between poll and the endpoint loop, here or in a nested
\* service, may close the eventfds that poll reported: none of them is read.
ReadsOpenEvents == [][\A e \in Endpoint : CompleteOut(e) => open[e]]_vars

\* What poll reported still holds when the endpoint loop uses it.
PollResultsCurrent == mpc # "stale"

\* The path of an OUT endpoint is a pipe that holds the transfer in the slot and
\* the one its reader has just read.
Contents(buffer) == IF buffer = Empty THEN <<>> ELSE <<buffer>>
Pipe == INSTANCE PacketPipe WITH
    Capacity <- [e \in Endpoint |-> 2],
    queue <- [e \in Endpoint |-> Contents(slot[e]) \o Contents(held[e])]
PipeRefined == Pipe!Spec

\* Its ends are the calls the code makes: a transfer enters when read(fd) returns
\* it and leaves when the firmware's callback takes it, or with the endpoint.
PipeEnds ==
    [][\A e \in Endpoint :
        /\ \A p \in Packet : OutRead(e, p) => Pipe!Send(e, p)
        /\ CompleteOut(e) /\ mpc' \notin Halted => Pipe!Receive(e)
        /\ Pipe!Receive(e) => CompleteOut(e) \/ StopReader(e) \/ mpc' \in Halted]_vars

\* A QUIESCE is acted upon, even when it finds the main thread blocked in the
\* write of an IN transfer, parked by a suspension or deep in callbacks.
Waiting(kind) == \E i \in 1..Len(inbox) : inbox[i] = kind
QuiesceServed == Waiting("quiesce") ~> ~Waiting("quiesce")
=============================================================================
