---------------------------- MODULE Safe3Endpoint ----------------------------
(***************************************************************************)
(* The virtual USB controller of the Safe 3 worker (usb_supervisor.c): one *)
(* helper thread for each FunctionFS endpoint, the one-packet slot it      *)
(* shares with the main thread, the eventfd it notifies, and the main      *)
(* thread, which runs Core, its event loop, service_controller and the     *)
(* starting and stopping of the helpers.                                   *)
(*                                                                         *)
(* The control channel is reduced to the records that start, stop or gate  *)
(* endpoints. An exchange that replaces the generation is one closing of   *)
(* the endpoints, followed by an installation when it has one: its records *)
(* are the subject of Safe3Lifecycle.                                      *)
(***************************************************************************)
EXTENDS Naturals, Sequences, FiniteSets

CONSTANTS
    Interface,   \* the USB interfaces Core registered
    Endpoint,    \* the endpoints of the personality: <<interface, direction>>
    Packet,      \* payloads
    Empty,       \* no packet: occupied = false, or nothing read yet
    Usb,         \* SYSHANDLE_USB, a polled handle that has no endpoint
    Wfi,         \* the caller of service_controller that is no handle
    Records,     \* bound: the control records the supervisor sends
    MaxRecords   \* bound: how many of them the socket holds at once

ASSUME HandleAssumption == Usb \notin Interface /\ Wfi \notin Interface /\ Wfi # Usb
ASSUME EndpointAssumption == Endpoint \subseteq Interface \X {"out", "in"}
ASSUME PacketAssumption == Empty \notin Packet
ASSUME RecordAssumption ==
    /\ Records \subseteq {"enable", "disable", "suspend", "resume", "quiesce", "shutdown"}
    /\ MaxRecords \in Nat \ {0}

VARIABLES
    pc,         \* where each helper thread is
    cancel,     \* pthread_cancel was called on it
    locked,     \* it holds the endpoint's mutex
    held,       \* an OUT helper's read_buffer
    slot,       \* packet, packet_length and occupied
    event,      \* event_fd: closed (-1), clear or set (its counter is not 0)
    buffers,    \* packet, and read_buffer of an OUT endpoint, are allocated
    live,       \* the host has the function configured: I/O can complete
    inbox,      \* control records waiting in the socket
    enabled, suspended,      \* g_usb.enabled, g_usb.suspended
    installed,  \* the endpoints have descriptors: fd >= 0
    dropped,    \* usb_init forgot the descriptors of a generation that the
                \* supervisor still has
    stack,      \* g_usb.initialized and g_usb.started: down, stopped, started
    mpc,        \* where the main thread is
    caller,     \* who called service_controller
    snapshot,   \* ready_endpoints whose revents had POLLIN and are not read yet
    current,    \* {e} when the notification of e was just read, else {}
    todo, cont, \* stop_endpoint_threads: endpoints left, and what comes after
    awaited,    \* endpoints that Core's tasks wait for
    topoll,     \* handles sysevents_poll has still to probe in this round
    signalled,  \* a waiting task was signalled in this round
    opened      \* an ENABLE or RESUME was handled inside this round

IsOut(e) == e[2] = "out"

threads  == <<pc, cancel, locked, held>>
handoff  == <<slot, event, buffers>>
gate     == <<enabled, suspended, installed, dropped, stack>>
bus      == <<live, inbox>>
service  == <<caller, snapshot, current>>
stopping == <<todo, cont>>
core     == <<awaited, topoll, signalled, opened>>
mains    == <<mpc, service, stopping, core>>
vars     == <<threads, handoff, gate, bus, mains>>

ThreadPC == {"none", "read", "lock", "check", "wait", "woken", "write",
             "relock", "clear", "notify", "unwind", "ended"}
HoldsPC  == {"check", "clear", "unwind"}
Halted   == {"dead", "failed", "exited"}
MainPC   == {"run", "poll", "record", "key3", "drain", "signal", "recheck",
             "stop", "wfi"} \cup Halted
Continuation == [fds : {"keep", "close", "install"},
                 next : {"key3", "drain", "run", "exited"}]

NoStop == [fds |-> "keep", next |-> "run"]

First(e) == IF IsOut(e) THEN "read" ELSE "lock"

\* The process is gone, and the kernel takes back all that it had.
ProcessEnds(how) ==
    /\ mpc' = how
    /\ pc' = [e \in Endpoint |-> "none"]
    /\ cancel' = [e \in Endpoint |-> FALSE]
    /\ locked' = [e \in Endpoint |-> FALSE]
    /\ held' = [e \in Endpoint |-> Empty]
    /\ slot' = [e \in Endpoint |-> Empty]
    /\ event' = [e \in Endpoint |-> "closed"]
    /\ buffers' = [e \in Endpoint |-> FALSE]
    /\ live' = FALSE /\ inbox' = <<>>
    /\ enabled' = FALSE /\ suspended' = FALSE /\ installed' = FALSE
    /\ dropped' = FALSE /\ stack' = "down"
    /\ caller' = Wfi /\ snapshot' = {} /\ current' = {}
    /\ todo' = {} /\ cont' = NoStop
    /\ awaited' = {} /\ topoll' = {} /\ signalled' = FALSE /\ opened' = FALSE

Init ==
    /\ pc = [e \in Endpoint |-> "none"]
    /\ cancel = [e \in Endpoint |-> FALSE]
    /\ locked = [e \in Endpoint |-> FALSE]
    /\ held = [e \in Endpoint |-> Empty]
    /\ slot = [e \in Endpoint |-> Empty]
    /\ event = [e \in Endpoint |-> "closed"]
    /\ buffers = [e \in Endpoint |-> FALSE]
    /\ live = FALSE /\ inbox = <<>>
    /\ enabled = FALSE /\ suspended = FALSE /\ installed = TRUE
    /\ dropped = FALSE /\ stack = "started"
    /\ mpc = "run" /\ caller = Wfi /\ snapshot = {} /\ current = {}
    /\ todo = {} /\ cont = NoStop
    /\ awaited = {} /\ topoll = {} /\ signalled = FALSE /\ opened = FALSE
-----------------------------------------------------------------------------
(* The helper threads: out_thread_main and in_thread_main.                 *)

\* read(fd) returns a packet from the host.
OutRead(e, p) ==
    /\ IsOut(e) /\ pc[e] = "read" /\ ~cancel[e] /\ live
    /\ held' = [held EXCEPT ![e] = p]
    /\ pc' = [pc EXCEPT ![e] = "lock"]
    /\ UNCHANGED <<cancel, locked, handoff, gate, bus, mains>>

\* write(fd) returns: the host accepted the packet in the slot, which the
\* helper reads without the mutex.
InWritten(e) ==
    /\ pc[e] = "write" /\ ~cancel[e] /\ live
    /\ pc' = [pc EXCEPT ![e] = "relock"]
    /\ UNCHANGED <<cancel, locked, held, handoff, gate, bus, mains>>

\* The transfer fails with an errno of generation_ended, EBADF if it begins
\* after usb_init has set fd to -1: the helper returns.
GenerationEnded(e) ==
    /\ pc[e] \in {"read", "write"} /\ ~cancel[e] /\ (~live \/ dropped)
    /\ pc' = [pc EXCEPT ![e] = "ended"]
    /\ UNCHANGED <<cancel, locked, held, handoff, gate, bus, mains>>

\* Any other errno, or a short write, ends the process from the helper.
TransferFails(e) ==
    /\ pc[e] \in {"read", "write"} /\ ~cancel[e]
    /\ ProcessEnds("failed")

\* pthread_mutex_lock, or pthread_cond_wait taking the mutex again. A wait
\* that was cancelled runs unlock_endpoint_mutex with the mutex held.
Acquire(e) ==
    /\ ~locked[e]
    /\ \/ pc[e] = "lock"   /\ pc' = [pc EXCEPT ![e] = "check"]
       \/ pc[e] = "woken"  /\ pc' = [pc EXCEPT ![e] = "check"]
       \/ pc[e] = "relock" /\ pc' = [pc EXCEPT ![e] = "clear"]
       \/ pc[e] \in {"wait", "woken"} /\ cancel[e] /\ pc' = [pc EXCEPT ![e] = "unwind"]
    /\ locked' = [locked EXCEPT ![e] = TRUE]
    /\ UNCHANGED <<cancel, held, handoff, gate, bus, mains>>

\* pthread_cond_wait may return without a signal.
SpuriousWake(e) ==
    /\ pc[e] = "wait"
    /\ pc' = [pc EXCEPT ![e] = "woken"]
    /\ UNCHANGED <<cancel, locked, held, handoff, gate, bus, mains>>

\* The predicate of the wait loop is not met: release the mutex and sleep,
\* unless a cancellation is already pending.
Sleep(e) ==
    /\ pc[e] = "check" /\ (slot[e] # Empty) = IsOut(e)
    /\ pc' = [pc EXCEPT ![e] = IF cancel[e] THEN "unwind" ELSE "wait"]
    /\ locked' = [locked EXCEPT ![e] = cancel[e]]
    /\ UNCHANGED <<cancel, held, handoff, gate, bus, mains>>

\* Mutant of OutPost: the slot is overwritten whether or not it is free.
OutPost_Overwrite(e) ==
    /\ IsOut(e) /\ pc[e] = "check"
    /\ slot' = [slot EXCEPT ![e] = held[e]]
    /\ held' = [held EXCEPT ![e] = Empty]
    /\ locked' = [locked EXCEPT ![e] = FALSE]
    /\ pc' = [pc EXCEPT ![e] = "notify"]
    /\ UNCHANGED <<cancel, event, buffers, gate, bus, mains>>

\* The slot is free: copy the packet into it, mark it occupied, unlock.
OutPost(e) ==
    /\ IsOut(e) /\ pc[e] = "check" /\ slot[e] = Empty
    /\ slot' = [slot EXCEPT ![e] = held[e]]
    /\ held' = [held EXCEPT ![e] = Empty]
    /\ locked' = [locked EXCEPT ![e] = FALSE]
    /\ pc' = [pc EXCEPT ![e] = "notify"]
    /\ UNCHANGED <<cancel, event, buffers, gate, bus, mains>>

\* Mutant of InTake: the slot is given back before the packet is transmitted.
InTake_FreesEarly(e) ==
    /\ ~IsOut(e) /\ pc[e] = "check" /\ slot[e] # Empty
    /\ slot' = [slot EXCEPT ![e] = Empty]
    /\ locked' = [locked EXCEPT ![e] = FALSE]
    /\ pc' = [pc EXCEPT ![e] = "write"]
    /\ UNCHANGED <<cancel, held, event, buffers, gate, bus, mains>>

\* The slot is occupied: unlock and transmit, in vain when fd is -1.
InTake(e) ==
    /\ ~IsOut(e) /\ pc[e] = "check" /\ slot[e] # Empty
    /\ locked' = [locked EXCEPT ![e] = FALSE]
    /\ pc' = [pc EXCEPT ![e] = IF dropped /\ ~cancel[e] THEN "ended" ELSE "write"]
    /\ UNCHANGED <<cancel, held, handoff, gate, bus, mains>>

\* Mutant of InClear: the consumption of the packet is not notified.
InClear_NoNotify(e) ==
    /\ pc[e] = "clear"
    /\ slot' = [slot EXCEPT ![e] = Empty]
    /\ locked' = [locked EXCEPT ![e] = FALSE]
    /\ pc' = [pc EXCEPT ![e] = "lock"]
    /\ UNCHANGED <<cancel, held, event, buffers, gate, bus, mains>>

\* The transmitted packet leaves the slot.
InClear(e) ==
    /\ pc[e] = "clear"
    /\ slot' = [slot EXCEPT ![e] = Empty]
    /\ locked' = [locked EXCEPT ![e] = FALSE]
    /\ pc' = [pc EXCEPT ![e] = "notify"]
    /\ UNCHANGED <<cancel, held, event, buffers, gate, bus, mains>>

\* Mutant of Notify: the eventfd is not written.
Notify_Skipped(e) ==
    /\ pc[e] = "notify" /\ ~cancel[e]
    /\ pc' = [pc EXCEPT ![e] = First(e)]
    /\ UNCHANGED <<cancel, locked, held, handoff, gate, bus, mains>>

\* write(event_fd).
Notify(e) ==
    /\ pc[e] = "notify" /\ ~cancel[e] /\ event[e] # "closed"
    /\ event' = [event EXCEPT ![e] = "set"]
    /\ pc' = [pc EXCEPT ![e] = First(e)]
    /\ UNCHANGED <<cancel, locked, held, slot, buffers, gate, bus, mains>>

\* The same write fails, and ends the process: usb_init set event_fd to -1.
NotifyFails(e) ==
    /\ pc[e] = "notify" /\ ~cancel[e] /\ event[e] = "closed"
    /\ ProcessEnds("failed")

\* Mutant of Cancelled: a write the host never completes cannot be cancelled.
Cancelled_NotInWrite(e) ==
    /\ cancel[e] /\ pc[e] \in {"read", "notify"}
    /\ pc' = [pc EXCEPT ![e] = "ended"]
    /\ UNCHANGED <<cancel, locked, held, handoff, gate, bus, mains>>

\* A pending cancellation acts at read, write(fd) and write(event_fd).
Cancelled(e) ==
    /\ cancel[e] /\ pc[e] \in {"read", "write", "notify"}
    /\ pc' = [pc EXCEPT ![e] = "ended"]
    /\ UNCHANGED <<cancel, locked, held, handoff, gate, bus, mains>>

\* Mutant of Unwind: no cleanup handler, the mutex stays locked.
Unwind_NoHandler(e) ==
    /\ pc[e] = "unwind"
    /\ pc' = [pc EXCEPT ![e] = "ended"]
    /\ UNCHANGED <<cancel, locked, held, handoff, gate, bus, mains>>

\* unlock_endpoint_mutex, the cleanup handler of a cancelled wait.
Unwind(e) ==
    /\ pc[e] = "unwind"
    /\ locked' = [locked EXCEPT ![e] = FALSE]
    /\ pc' = [pc EXCEPT ![e] = "ended"]
    /\ UNCHANGED <<cancel, held, handoff, gate, bus, mains>>

HelperRuns(e) ==
    \/ Acquire(e) \/ Sleep(e) \/ OutPost(e) \/ InTake(e) \/ InClear(e)
    \/ Notify(e) \/ Cancelled(e) \/ Unwind(e)
HelperTransfers(e) ==
    (\E p \in Packet : OutRead(e, p)) \/ InWritten(e) \/ GenerationEnded(e)
HelperFails(e) == TransferFails(e) \/ NotifyFails(e)
-----------------------------------------------------------------------------
(* stop_endpoint_threads and start_endpoint_threads.                       *)

\* Entering stop_endpoint_threads, with what its caller does afterwards.
BeginStop(fds, next) ==
    /\ enabled' = FALSE
    /\ todo' = Endpoint
    /\ cont' = [fds |-> fds, next |-> next]
    /\ mpc' = "stop"

\* pthread_cancel, for an endpoint whose thread_running is set.
StopCancel(e) ==
    /\ mpc = "stop" /\ e \in todo /\ pc[e] # "none"
    /\ \A f \in Endpoint : ~cancel[f]
    /\ cancel' = [cancel EXCEPT ![e] = TRUE]
    /\ UNCHANGED <<pc, locked, held, handoff, gate, bus, mains>>

\* pthread_join: waits until the helper has ended.
StopJoin(e) ==
    /\ mpc = "stop" /\ cancel[e] /\ pc[e] = "ended"
    /\ pc' = [pc EXCEPT ![e] = "none"]
    /\ cancel' = [cancel EXCEPT ![e] = FALSE]
    /\ UNCHANGED <<locked, held, handoff, gate, bus, mains>>

\* Mutant of StopRelease: the helper is not joined first.
StopRelease_NoJoin(e) ==
    /\ mpc = "stop" /\ e \in todo
    /\ event' = [event EXCEPT ![e] = "closed"]
    /\ slot' = [slot EXCEPT ![e] = Empty]
    /\ held' = [held EXCEPT ![e] = Empty]
    /\ buffers' = [buffers EXCEPT ![e] = FALSE]
    /\ todo' = todo \ {e}
    /\ UNCHANGED <<pc, cancel, locked, gate, bus, mpc, service, cont, core>>

\* Close event_fd, free both buffers, clear occupied.
StopRelease(e) ==
    /\ mpc = "stop" /\ e \in todo /\ pc[e] = "none"
    /\ event' = [event EXCEPT ![e] = "closed"]
    /\ slot' = [slot EXCEPT ![e] = Empty]
    /\ held' = [held EXCEPT ![e] = Empty]
    /\ buffers' = [buffers EXCEPT ![e] = FALSE]
    /\ todo' = todo \ {e}
    /\ UNCHANGED <<pc, cancel, locked, gate, bus, mpc, service, cont, core>>

\* stop_endpoint_threads returns. close_endpoints then closes the descriptors,
\* and install_endpoints takes those of a new generation, not yet bound; the
\* supervisor has then given up a generation whose descriptors were forgotten.
StopDone ==
    /\ mpc = "stop" /\ todo = {}
    /\ installed' = (IF cont.fds = "keep" THEN installed ELSE cont.fds = "install")
    /\ dropped' = (dropped /\ cont.fds = "keep")
    /\ live' = (live /\ cont.fds = "keep")
    /\ mpc' = cont.next
    /\ cont' = NoStop
    /\ UNCHANGED <<threads, handoff, enabled, suspended, stack, inbox, service, todo, core>>

\* start_endpoint_threads: buffers, event_fd and helper of each descriptor.
StartThreads ==
    /\ pc' = [e \in Endpoint |-> IF installed THEN First(e) ELSE pc[e]]
    /\ event' = [e \in Endpoint |-> IF installed THEN "clear" ELSE event[e]]
    /\ buffers' = [e \in Endpoint |-> installed \/ buffers[e]]
-----------------------------------------------------------------------------
(* service_controller, its callers and virtual_trezor_wait_for_interrupt.  *)

Pending == {e \in Endpoint : event[e] = "set"}

\* poll(fds, count, 0): the control socket and, when enabled, the event_fds.
ServiceController(who) ==
    /\ caller' = who
    /\ snapshot' = (IF enabled THEN Pending ELSE {})
    /\ mpc' = (IF inbox # <<>> THEN "record" ELSE "key3")

\* sysevents_poll probes one handle that some task waits for.
PollHandle(h) ==
    /\ mpc = "poll" /\ h \in topoll
    /\ topoll' = topoll \ {h}
    /\ ServiceController(h)
    /\ UNCHANGED <<threads, handoff, gate, bus, current, stopping, awaited, signalled, opened>>

\* handle_runtime_record on a bus event or QUIESCE.
EnableEvent ==
    /\ IF enabled THEN UNCHANGED <<pc, event, buffers>> ELSE StartThreads
    /\ enabled' = TRUE /\ suspended' = FALSE
    /\ opened' = (opened \/ caller # Wfi)
    /\ mpc' = "key3"
    /\ UNCHANGED <<slot, installed, stopping>>

\* Mutant of DisableEvent: the helpers are left running.
DisableEvent_KeepsHelpers ==
    /\ suspended' = FALSE /\ enabled' = FALSE
    /\ mpc' = "key3"
    /\ UNCHANGED <<pc, event, buffers, slot, installed, opened, stopping>>

DisableEvent ==
    /\ suspended' = FALSE
    /\ BeginStop("keep", "key3")
    /\ UNCHANGED <<pc, event, buffers, slot, installed, opened>>

SuspendEvent(flag) ==
    /\ suspended' = flag
    /\ opened' = (opened \/ (~flag /\ caller # Wfi))
    /\ mpc' = "key3"
    /\ UNCHANGED <<pc, event, buffers, slot, enabled, installed, stopping>>

QuiesceRecord(next) ==
    /\ BeginStop("close", next)
    /\ UNCHANGED <<pc, event, buffers, slot, suspended, installed, opened>>

HandleRecord ==
    /\ mpc = "record"
    /\ inbox' = Tail(inbox)
    /\ \/ Head(inbox) = "enable"   /\ EnableEvent
       \/ Head(inbox) = "disable"  /\ DisableEvent
       \/ Head(inbox) = "suspend"  /\ SuspendEvent(TRUE)
       \/ Head(inbox) = "resume"   /\ SuspendEvent(FALSE)
       \/ Head(inbox) = "quiesce"  /\ QuiesceRecord("key3")
       \/ Head(inbox) = "shutdown" /\ QuiesceRecord("exited")
    /\ UNCHANGED <<cancel, locked, held, dropped, stack, live, service, awaited, topoll,
                   signalled>>

\* KEY3 asks for nothing.
Key3Idle ==
    /\ mpc = "key3" /\ mpc' = "drain"
    /\ UNCHANGED <<threads, handoff, gate, bus, service, stopping, core>>

\* An exchange with the supervisor: it unbinds the function, then the worker
\* closes the endpoints of the old generation.
Exchange(fds, next) ==
    /\ inbox = <<>>
    /\ live' = FALSE
    /\ BeginStop(fds, next)

\* A record that was already on its way when KEY3 or usb_start began an
\* exchange is received in place of the answer, and the worker dies.
ExchangeCrossed ==
    /\ mpc \in {"key3", "run"} /\ inbox # <<>>
    /\ ProcessEnds("dead")

\* unconfigure_until_quiesced: eject, and skip the endpoint loop.
Key3Eject ==
    /\ mpc = "key3" /\ stack = "started" /\ installed
    /\ snapshot' = {}
    /\ Exchange("close", "drain")
    /\ UNCHANGED <<threads, handoff, suspended, installed, dropped, stack, inbox, caller,
                   current, core>>

\* The supervisor rejects the ejection: return without the endpoint loop.
Key3EjectRejected ==
    /\ mpc = "key3" /\ stack = "started" /\ installed
    /\ snapshot' = {} /\ mpc' = "drain"
    /\ UNCHANGED <<threads, handoff, gate, bus, caller, current, stopping, core>>

\* configure_until_endpoints(false): insert again, and skip the endpoint loop.
Key3Insert ==
    /\ mpc = "key3" /\ stack = "started" /\ ~installed
    /\ snapshot' = {}
    /\ Exchange("install", "drain")
    /\ UNCHANGED <<threads, handoff, suspended, installed, dropped, stack, inbox, caller,
                   current, core>>

\* read(event_fd) of an endpoint in the snapshot returns its counter.
DrainNotification(e) ==
    /\ mpc = "drain" /\ e \in snapshot /\ event[e] = "set"
    /\ snapshot' = snapshot \ {e}
    /\ event' = [event EXCEPT ![e] = "clear"]
    /\ current' = {e}
    /\ mpc' = "signal"
    /\ UNCHANGED <<threads, slot, buffers, gate, bus, caller, stopping, core>>

\* The same read fails: the record handled in this pass closed the event_fd.
DrainFails(e) ==
    /\ mpc = "drain" /\ e \in snapshot /\ event[e] # "set"
    /\ ProcessEnds("dead")

\* iface_read_ready and iface_write_ready.
IsReady(e) == enabled /\ ~suspended /\ (slot[e] # Empty) = IsOut(e)

\* syshandle_signal_read_ready and _write_ready: a waiting task that finds the
\* endpoint ready (under its mutex) is scheduled.
SignalReady ==
    /\ mpc = "signal"
    /\ \A e \in current : ~locked[e]
    /\ signalled' = (signalled \/ \E e \in current : e \in awaited /\ IsReady(e))
    /\ current' = {} /\ mpc' = "drain"
    /\ UNCHANGED <<threads, handoff, gate, bus, caller, snapshot, stopping, awaited, topoll, opened>>

HandlesOf(es) == {e[1] : e \in es}

\* A round of sysevents_poll starts: the handles awaited, and perhaps
\* SYSHANDLE_USB while it is registered, are to be probed.
BeginRound(es) ==
    /\ \E usb \in {{}, {Usb}} :
          (usb # {} => stack # "down") /\ topoll' = HandlesOf(es) \cup usb
    /\ signalled' = FALSE /\ opened' = FALSE
    /\ mpc' = "poll"

\* service_controller returns: to iface_event_poll, or out of the virtual WFI,
\* after which sysevents_poll starts a new round.
ServiceReturns ==
    /\ mpc = "drain" /\ snapshot = {}
    /\ IF caller = Wfi
       THEN BeginRound(awaited)
       ELSE mpc' = "recheck" /\ UNCHANGED <<topoll, signalled, opened>>
    /\ UNCHANGED <<threads, handoff, gate, bus, service, stopping, awaited>>

\* Mutant of Recheck: iface_event_poll relies on the notifications alone.
Recheck_None ==
    /\ mpc = "recheck" /\ mpc' = "poll" /\ caller' = Wfi
    /\ UNCHANGED <<threads, handoff, gate, bus, snapshot, current, stopping, core>>

\* The rest of iface_event_poll: look at the slots, whatever was notified.
Recheck ==
    LET mine == {e \in awaited : e[1] = caller}
    IN  /\ mpc = "recheck"
        /\ \A e \in mine : ~locked[e]
        /\ signalled' = (signalled \/ \E e \in mine : IsReady(e))
        /\ mpc' = "poll" /\ caller' = Wfi
        /\ UNCHANGED <<threads, handoff, gate, bus, snapshot, current, stopping,
                        awaited, topoll, opened>>

\* sysevents_poll returns to the tasks, and its locals go out of scope.
RunTasks ==
    /\ mpc' = "run"
    /\ awaited' = {} /\ signalled' = FALSE /\ opened' = FALSE
    /\ UNCHANGED <<threads, handoff, gate, bus, service, stopping, topoll>>

\* The round is over: run the tasks that were signalled, or wait.
TasksReady == mpc = "poll" /\ topoll = {} /\ signalled /\ RunTasks
EnterWfi ==
    /\ mpc = "poll" /\ topoll = {} /\ ~signalled
    /\ mpc' = "wfi"
    /\ UNCHANGED <<threads, handoff, gate, bus, service, stopping, core>>

\* ppoll reports the control socket or a notification of an enabled endpoint.
WfiWake ==
    /\ mpc = "wfi" /\ (inbox # <<>> \/ (enabled /\ Pending # {}))
    /\ ServiceController(Wfi)
    /\ UNCHANGED <<threads, handoff, gate, bus, current, stopping, core>>

\* ppoll reports a button or KEY3 edge.
WfiEdge ==
    /\ mpc = "wfi"
    /\ ServiceController(Wfi)
    /\ UNCHANGED <<threads, handoff, gate, bus, current, stopping, core>>

\* The deadline passes, and the tasks whose timer expired run.
WfiTimeout == mpc = "wfi" /\ RunTasks
-----------------------------------------------------------------------------
(* What Core's tasks call.                                                 *)

\* Mutant of CondSignal: the helper is not signalled.
CondSignal_Missing(e) == pc' = [pc EXCEPT ![e] = @]

\* pthread_cond_signal on the condition a helper may be waiting on.
CondSignal(e) == pc' = [pc EXCEPT ![e] = IF @ = "wait" THEN "woken" ELSE @]

\* Mutant of IfaceRead: it takes the helper's read_buffer, not the slot.
IfaceRead_WrongBuffer(e) ==
    /\ mpc = "run" /\ IsOut(e) /\ ~locked[e] /\ held[e] # Empty
    /\ held' = [held EXCEPT ![e] = Empty]
    /\ CondSignal(e)
    /\ UNCHANGED <<cancel, locked, handoff, gate, bus, mains>>

\* iface_read of an occupied slot. The handles are registered while started. An empty one returns 0 and changes nothing.
IfaceRead(e) ==
    /\ mpc = "run" /\ stack = "started" /\ IsOut(e) /\ ~locked[e] /\ slot[e] # Empty
    /\ slot' = [slot EXCEPT ![e] = Empty]
    /\ CondSignal(e)
    /\ UNCHANGED <<cancel, locked, held, event, buffers, gate, bus, mains>>

\* Mutant of IfaceWrite: it does not look at occupied.
IfaceWrite_Overwrite(e, p) ==
    /\ mpc = "run" /\ stack = "started" /\ ~IsOut(e) /\ ~locked[e]
    /\ enabled /\ ~suspended /\ installed
    /\ slot' = [slot EXCEPT ![e] = p]
    /\ CondSignal(e)
    /\ UNCHANGED <<cancel, locked, held, event, buffers, gate, bus, mains>>

\* iface_write that is accepted.
IfaceWrite(e, p) ==
    /\ mpc = "run" /\ stack = "started" /\ ~IsOut(e) /\ ~locked[e]
    /\ enabled /\ ~suspended /\ installed /\ slot[e] = Empty
    /\ slot' = [slot EXCEPT ![e] = p]
    /\ CondSignal(e)
    /\ UNCHANGED <<cancel, locked, held, event, buffers, gate, bus, mains>>

\* The tasks yield: sysevents_poll waits for the endpoints in es.
SyseventsPoll(es) ==
    /\ mpc = "run" /\ (es # {} => stack = "started")
    /\ awaited' = es
    /\ BeginRound(es)
    /\ UNCHANGED <<threads, handoff, gate, bus, service, stopping>>

\* usb_stop, which a usb_start that the supervisor rejects has also called, and
\* usb_deinit: the helpers of a started stack stop, the descriptors stay. What
\* the supervisor sends is still handled, and ENABLE starts helpers again.
UsbStop(deinit) ==
    /\ mpc = "run" /\ stack # "down" /\ (stack = "started" \/ deinit)
    /\ stack' = (IF deinit THEN "down" ELSE "stopped")
    /\ IF stack = "started" THEN BeginStop("keep", "run")
       ELSE UNCHANGED <<enabled, stopping, mpc>>
    /\ UNCHANGED <<threads, handoff, suspended, installed, dropped, bus, service, core>>

\* usb_init: fd and event_fd of every endpoint become -1. Nothing is closed,
\* enabled stays, and so do the helpers that an ENABLE started meanwhile.
UsbInit ==
    /\ mpc = "run" /\ stack = "down"
    /\ stack' = "stopped"
    /\ installed' = FALSE /\ dropped' = (dropped \/ installed)
    /\ event' = [e \in Endpoint |-> "closed"]
    /\ UNCHANGED <<threads, slot, buffers, enabled, suspended, bus, mains>>

\* usb_start: the endpoints of a new generation replace those of the old one.
UsbStart ==
    /\ mpc = "run" /\ stack # "down"
    /\ stack' = "started"
    /\ Exchange("install", "run")
    /\ UNCHANGED <<threads, handoff, suspended, installed, dropped, inbox, service, core>>

MainServes ==
    \/ \E h \in Interface \cup {Usb} : PollHandle(h)
    \/ HandleRecord \/ Key3Idle \/ SignalReady \/ ServiceReturns \/ Recheck
    \/ TasksReady \/ EnterWfi \/ WfiWake \/ StopDone
    \/ \E e \in Endpoint :
          StopCancel(e) \/ StopJoin(e) \/ StopRelease(e)
          \/ DrainNotification(e) \/ DrainFails(e)
CoreCalls ==
    \/ \E e \in Endpoint : IfaceRead(e) \/ \E p \in Packet : IfaceWrite(e, p)
    \/ \E es \in SUBSET Endpoint : SyseventsPoll(es)
    \/ (\E deinit \in BOOLEAN : UsbStop(deinit)) \/ UsbInit \/ UsbStart
    \/ ExchangeCrossed
    \/ Key3Eject \/ Key3EjectRejected \/ Key3Insert \/ WfiEdge \/ WfiTimeout
-----------------------------------------------------------------------------
(* The USB host and usb-gadget-supervisor, which are outside this source.  *)

\* Bus events concern the generation installed, or the one whose descriptors
\* usb_init forgot, and none follows a QUIESCE.
BusAlive ==
    /\ (installed \/ dropped) /\ ~(mpc = "stop" /\ cont.fds # "keep")
    /\ \A i \in 1..Len(inbox) : inbox[i] \notin {"quiesce", "shutdown"}

BusEvent(kind) ==
    /\ BusAlive /\ Len(inbox) < MaxRecords
    /\ CASE kind = "enable"  -> ~live /\ live' = TRUE
         [] kind = "disable" -> live /\ live' = FALSE
         [] kind \in {"suspend", "resume"} -> live /\ live' = live
         [] OTHER -> live' = FALSE
    /\ inbox' = Append(inbox, kind)
    /\ UNCHANGED <<threads, handoff, gate, mains>>

Next ==
    \/ MainServes \/ CoreCalls
    \/ \E e \in Endpoint : HelperRuns(e) \/ HelperTransfers(e)
                           \/ SpuriousWake(e) \/ HelperFails(e)
    \/ \E kind \in Records : BusEvent(kind)

\* The process has ended: nothing moves any more.
Terminated == mpc \in Halted /\ UNCHANGED vars

Spec == Init /\ [][Next \/ Terminated]_vars

(* Scheduling: a helper that can take a step of its own does, and so does  *)
(* the main thread inside the controller. Nothing is assumed of the host,  *)
(* the supervisor, timers, buttons or Core.                                *)
Fairness ==
    /\ \A e \in Endpoint : WF_vars(HelperRuns(e))
    /\ WF_vars(MainServes)

FairSpec == Spec /\ Fairness
-----------------------------------------------------------------------------
(* Properties.                                                             *)

\* Every variable stays within the values its C counterpart can have.
TypeOK ==
    /\ pc \in [Endpoint -> ThreadPC]
    /\ cancel \in [Endpoint -> BOOLEAN]
    /\ locked \in [Endpoint -> BOOLEAN]
    /\ held \in [Endpoint -> Packet \cup {Empty}]
    /\ slot \in [Endpoint -> Packet \cup {Empty}]
    /\ event \in [Endpoint -> {"closed", "clear", "set"}]
    /\ live \in BOOLEAN /\ inbox \in Seq(Records)
    /\ buffers \in [Endpoint -> BOOLEAN]
    /\ enabled \in BOOLEAN /\ suspended \in BOOLEAN /\ installed \in BOOLEAN
    /\ dropped \in BOOLEAN /\ stack \in {"down", "stopped", "started"}
    /\ mpc \in MainPC /\ caller \in Interface \cup {Usb, Wfi}
    /\ snapshot \subseteq Endpoint /\ current \subseteq Endpoint
    /\ todo \subseteq Endpoint /\ cont \in Continuation
    /\ awaited \subseteq Endpoint /\ topoll \subseteq Interface \cup {Usb}
    /\ signalled \in BOOLEAN /\ opened \in BOOLEAN

\* A helper that has not been joined never outlives what it uses: its buffers
\* are allocated, its eventfd is open, its descriptor is not closed. The one
\* exception is usb_init, which takes the last two, not the buffers, from
\* helpers that an ENABLE started after usb_deinit: see NotifyFails.
ResourcesOutliveHelper ==
    \A e \in Endpoint :
        pc[e] # "none" =>
            /\ buffers[e]
            /\ dropped \/ (event[e] # "closed" /\ installed)

\* Cancelling a helper anywhere never leaves the endpoint mutex locked, so
\* neither iface_read nor the next helper can block on it for ever.
MutexReleased ==
    \A e \in Endpoint : locked[e] <=> pc[e] \in HoldsPC

\* No helper sleeps through its signal: an OUT helper in pthread_cond_wait
\* has an occupied slot before it, an IN helper an empty one.
NoSleepOnReady ==
    \A e \in Endpoint : pc[e] = "wait" => (slot[e] # Empty) = IsOut(e)

\* start_endpoint_threads never starts a second helper on an endpoint, nor
\* leaks the buffers of the first: outside a stop, whatever the order of usb_*
\* calls and records, an endpoint has a helper exactly when it has buffers, and
\* only while the controller is enabled. A controller that is enabled and has
\* descriptors has all its helpers, except for a generation whose descriptors
\* usb_init forgot: its helpers may run without.
HelpersMatchEnabled ==
    mpc \notin Halted \cup {"stop"} =>
        \A e \in Endpoint :
            /\ pc[e] # "none" <=> buffers[e]
            /\ pc[e] # "none" => enabled
            /\ ~dropped => ((enabled /\ installed) <=> pc[e] # "none")

\* The virtual WFI loses no wakeup: Core is never parked while an endpoint it
\* waits for is ready, unless the notification is there or about to be. A round
\* that handled an ENABLE or RESUME between two probes is set apart: see
\* WfiSeesEveryGate.
NoLostWakeup ==
    mpc = "wfi" /\ ~opened =>
        \A e \in awaited : IsReady(e) => event[e] = "set" \/ pc[e] = "notify"

\* The same without the exception.
WfiSeesEveryGate ==
    mpc = "wfi" =>
        \A e \in awaited : IsReady(e) => event[e] = "set" \/ pc[e] = "notify"

\* The records the supervisor may send in normal operation never end the
\* worker from the endpoint loop of service_controller.
StaleSnapshotHarmless ==
    mpc = "drain" => \A e \in snapshot : event[e] = "set"

\* Each endpoint is a packet pipe: an OUT path holds the packet a helper has
\* read and the one in the slot, an IN path the one the host has not taken.
Contents(buffer) == IF buffer = Empty THEN <<>> ELSE <<buffer>>
PipeQueue(e) ==
    IF IsOut(e) THEN Contents(slot[e]) \o Contents(held[e])
    ELSE IF pc[e] \in {"relock", "clear"} THEN <<>> ELSE Contents(slot[e])

Pipe == INSTANCE PacketPipe WITH
    Capacity <- [e \in Endpoint |-> IF IsOut(e) THEN 2 ELSE 1],
    queue <- [e \in Endpoint |-> PipeQueue(e)]

\* The handoff implements the pipe.
PipeRefined == Pipe!Spec

\* Both ends of that pipe are the calls the code makes: what the host sent or
\* iface_write accepted enters the queue, what iface_read returns or the host
\* is given is its oldest packet, and nothing else takes a packet out except
\* the teardown. So nothing accepted is dropped, overwritten or repeated.
PipeEnds ==
    [][\A e \in Endpoint :
        /\ \A p \in Packet : OutRead(e, p) \/ IfaceWrite(e, p) => Pipe!Send(e, p)
        /\ IfaceRead(e) \/ InWritten(e) => Pipe!Receive(e)
        /\ Pipe!Receive(e) =>
               IfaceRead(e) \/ InWritten(e) \/ StopRelease(e) \/ mpc' \in Halted]_vars

\* stop_endpoint_threads returns, wherever the helpers were: pthread_join
\* never waits for a helper that cannot reach a cancellation point.
StopTerminates == mpc = "stop" ~> mpc # "stop"

\* Core leaves the virtual WFI when an endpoint it waits for is ready, with
\* no help from a timer, a button or another record.
WfiWakes ==
    (mpc = "wfi" /\ ~opened /\ \E e \in awaited : IsReady(e)) ~> mpc # "wfi"
-----------------------------------------------------------------------------
(* Why the safety properties hold: an invariant that every step preserves. *)

\* service_controller is running, for a handle or for the virtual WFI.
ServicePC == {"record", "key3", "drain", "signal", "recheck", "stop"}

\* The control socket is read only when poll said that it holds a record.
RecordPending == mpc = "record" => inbox # <<>>

\* A stop: the controller is disabled, endpoints already released have no
\* helper and no buffers, and only a helper that is being joined has a cancellation pending.
StopInv ==
    /\ IF mpc = "stop" THEN ~enabled ELSE todo = {}
    /\ mpc = "stop" => \A e \in Endpoint \ todo : pc[e] = "none" /\ ~buffers[e]
    /\ \A e \in Endpoint : cancel[e] => e \in todo /\ pc[e] # "none"
    /\ cont.next = "exited" => cont.fds = "close"

\* A process that has ended has no descriptors, and those that were forgotten
\* are not installed.
HaltedInv == (mpc \in Halted => ~installed) /\ (dropped => ~installed)

\* The event loop: nothing is awaited while tasks run, a drained notification
\* is signalled before anything else, and Core parks only after a full round.
LoopInv ==
    /\ mpc = "run" \/ (mpc = "stop" /\ cont.next = "run") => awaited = {}
    /\ mpc # "signal" => current = {}
    /\ mpc = "recheck" => caller # Wfi
    /\ mpc = "wfi" => topoll = {} /\ ~signalled

\* Every awaited endpoint that is ready is announced, or still to be looked at.
Announced(e) == event[e] = "set" \/ pc[e] = "notify" \/ e \in current
Unseen(e) == e[1] \in topoll \/ (mpc \in ServicePC /\ caller \in {e[1], Wfi})
CoveredInv ==
    ~opened /\ ~signalled => \A e \in awaited : IsReady(e) => Announced(e) \/ Unseen(e)

\* What concerns the helpers and their lifetime, apart from the event loop.
EndpointInv ==
    /\ StopInv /\ HaltedInv
    /\ ResourcesOutliveHelper /\ MutexReleased /\ NoSleepOnReady /\ HelpersMatchEnabled

IInv == TypeOK /\ RecordPending /\ EndpointInv /\ LoopInv /\ CoveredInv

\* Where packets are: a helper about to read, notify or start has an empty
\* read_buffer, and one that transmits is of an IN endpoint, its packet in the slot.
PacketInv ==
    \A e \in Endpoint :
        /\ IsOut(e) /\ (pc[e] \in {"read", "notify"} \/ (pc[e] = "none" /\ e \notin todo))
              => held[e] = Empty
        /\ pc[e] \in {"write", "relock", "clear"} => ~IsOut(e) /\ slot[e] # Empty
=============================================================================
