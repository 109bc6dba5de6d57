# Verification of virtual-trezor

TLA+ models of the two firmware workers of this repository, the TLC runs that
check them on small instances, and TLAPS proofs of their main safety properties.
Source references are to `src/` of the repository.

## The system

A *worker* is an unprivileged process that runs genuine Trezor firmware. A
privileged service, `usb-gadget-supervisor`, owns the kernel's USB gadget and
talks to the worker over one SEQPACKET socket; it hands over FunctionFS endpoint
files, on which the worker exchanges packets with the USB host by itself. There
are two workers: *Safe 3* (Trezor Core) and *legacy* (Trezor One).

| Component | State | Operations | Correct when |
|---|---|---|---|
| Safe 3 endpoint controller, `safe3/usb_supervisor.c` | per endpoint: descriptor, helper thread, mutex, condition, one-packet slot, read buffer, eventfd; `enabled`, `suspended` | helper loops, `iface_read`, `iface_write`, `service_controller`, the virtual WFI, start and stop of helpers | packets are delivered once and in order, no wakeup is lost, stopping terminates and frees nothing in use |
| Safe 3 generations and KEY3, same file | `generation`, descriptors, `activation`, `started`, `ejected`, `pressed`, request ids | `usb_init/start/stop/deinit`, configuration and unconfiguration exchanges, bus events, QUIESCE, edge draining and level sampling | a bound gadget is served, a retired generation is closed, the gadget's presence follows KEY3 |
| Safe 3 control requests, same file | descriptors and class state of the interfaces | one response for one request | standard and HID requests are answered as Core's interfaces demand |
| Safe 3 facade of Core, same file | interface table, personality, registered handles, what each task was told | `usb_init/start/stop/deinit`, `usb_webusb_add`, `usb_hid_add`, `usb_get_event`, the poll callbacks | the gadget describes what Core serves, tasks hear of the state the USB handle's probe finds |
| Legacy controller and lifecycle, `raspberry-pi/usb_functionfs.c` | per OUT endpoint: reader thread, slot, eventfd; `usb_enabled`, generation, activation | reader loop, packet read and write, service pass with firmware callbacks, reconnect, bus events | each transfer is announced once and delivered in order, one reader per endpoint, a QUIESCE is always served |
| Legacy control transfers, same file | the firmware's control endpoint, packets out and collected in | `run_control_transfer` for the host and for the capture of the personality | one transfer, one answer, whatever the one before left |
| Virtual timer and poll timeout, `timer_linux.*`, `poll_timeout.h` | suspension start and total | suspend, resume, read | firmware time stands still while suspended and never goes back |
| Legacy display, `display_linux.c` | handle, retry deadline, suspended, last frame | write, retry, suspend, resume, shutdown | a failed panel is retried once a second, and turned off on suspension |
| Buttons, `buttons_gpio.c`, `safe3/button_*.c` | cached level, the kernel's queue of edges | drain edges, sample levels | no worker parks with levels it has not sampled |
| Safe 3 display and button drivers, `safe3/display_*.c`, `safe3/button_*.c` | descriptors, library handle, frame, backlight | init, deinit, refresh, backlight, exit | nothing leaks or is lost when a call fails halfway, a clean exit leaves the panel dark |
| Options and initial resources, `worker_config.c`, `worker_main.c`, both receivers | backend, one descriptor per role | parsing, receiving | a worker runs exactly when both are valid, with what they name |

How they interact: helper threads share only their slot (under a mutex) and an
eventfd with the main thread; the main thread alone runs firmware, reads the
socket, and starts and joins helpers. The supervisor's records are read in two
places, the service pass and the exchange loops, which is where ordering bites.
KEY3 reaches the service pass as an edge event plus a sampled level. Core reaches
the service pass from each probe of a handle and from the virtual WFI, the legacy
firmware from its wait and, nested, from its own packet callbacks.

What is hard: threads cancelled anywhere, a slot read without its mutex,
notifications consumed while other handles are probed, records that cross on the
socket, a poll result used after the record or the nested pass that invalidates
it, exchanges that are rejected halfway, a wait that must stop firmware time
while it sleeps. `PROJECT.json` lists each of these hazards with its line and the
properties that cover it.

## Modules

| Module | Models | State and actions |
|---|---|---|
| `PacketPipe` | what an endpoint promises, without code | a bounded FIFO per endpoint; `Send`, `Receive`, `Reset` by a teardown |
| `Safe3Endpoint` | `usb_supervisor.c`: helpers, slot, eventfd, `service_controller`, the virtual WFI and the polling loop of Core around it, `usb_init/start/stop/deinit` | one `pc` per helper thread; a helper's steps are the points where the code locks, waits, transfers or notifies. `mpc` is the main thread: `run` (a Core task), `poll` (a probe), `record` to `signal` (inside `service_controller`), `recheck`, `stop` (`stop_endpoint_threads`), `wfi` |
| `UsbGenerations` | what the two ends of the socket promise each other, without records | the generation there is, and whether its descriptors are offered, open or lost, and whether the host sees it |
| `Safe3Lifecycle` | `usb_supervisor.c`: `usb_init/start/stop/deinit`, both exchange loops, bus events, QUIESCE, KEY3 | records travel through one FIFO per direction; the supervisor is a small process that answers as the worker's code expects, with every answer that code admits |
| `LegacyController` | `usb_functionfs.c`: readers, slot, eventfd, nested service passes, bus events, `usbReconnect`, the blocking IN write | `stack` holds the service frames in progress, each with the endpoints its own `poll` reported, so a callback that services again is a push |
| `LegacyTime` | `timer_linux.*`, `poll_timeout.h`, `display_linux.c`, `waitAndProcessUSBRequests`, `usbFlush`, `usbPoll` | a millisecond clock; the wait or flush in progress and the timeout of its `poll`; what the panel shows, and whether display-backends failed last |
| `WorkerStart` | `worker_config_parse`, `main`, `receive_initial_resources` and the legacy receiver | `phase` of a start; one step per option and per entry of the record |
| `Safe3Devices` | `display_core.c`, `display_resources.c`, `button_gpio.c`, `button_resources.c` from the start of the process to its end | `held`, the open descriptors with their owners; a `display_init` is a step for each call in it that can fail |
| `WorkerButtons` | the samplers of both workers and the drain in their waits | line levels, the queue of edges, the last sample, and where the main thread is |
| `Safe3Facade` | `usb_init/start/stop/deinit`, the `add` calls, `usb_get_event`, the poll callbacks | Core's calls as actions, and a `round` of probes that ends in a task or in parking |
| `Safe3Control` | `answer_control_request` | one step per request; the class state beside what the host believes it set |
| `LegacyControl` | `run_control_transfer` and its two callers | one step per packet of the control endpoint |
| `*_proofs` | nothing: theorems | |
| `MC*` | nothing: the sets TLC is given; `MCWorkers` also runs `LegacyTime` to `LegacyControl`, one part at a time | |

How they compose. `Safe3Endpoint` and `LegacyController` each implement
`PacketPipe` under a refinement mapping (an OUT path is the slot followed by what
the helper has read, an IN path is the slot until the host took it), checked as
the property `PipeRefined`; `PipeEnds` adds that the two ends of the pipe are the
code's calls, which the mapping alone does not say. `Safe3Lifecycle` implements
`UsbGenerations` (`GenerationsRefined`): an offer is an ENDPOINTS record in the
socket, an open generation is what the worker installed, a lost one what `usb_init`
overwrote, a shown one is what the supervisor bound; the exchanges, bus events and KEY3 are stutters. `Safe3Endpoint` sees an
exchange with the supervisor as one closing of the endpoints and, where there is
one, their installation; `Safe3Lifecycle` sees the helpers of a generation as
descriptors that are open or closed as a whole. `LegacyTime` sees of the
controller only the records that suspend and resume. `Safe3Facade` sees an
exchange as accepted or rejected, and the service pass as a choice of `enabled`
(`Serviced`), for which `Safe3Endpoint` and `Safe3Lifecycle` are the detail.
`Safe3Devices` extends `WorkerStart`: its drivers begin with the descriptors and
the backend that the record assigned, or, in builds without the supervisor, with
those of the environment. The parts that share no state run beside each other in
`MCWorkers`, where a behaviour belongs to one part, so that their states add up
instead of multiplying.

Granularity. A mutex is an explicit lock in `Safe3Endpoint`, because a helper
waits and is cancelled inside it; in `LegacyController` the mutex only ever
guards a copy, so posting and taking are single steps. A record is handled in one
step except where it stops threads, which is a loop of its own: the readers run
on while it lasts. Data is reduced to what is compared: payloads are model
values, a descriptor is open or closed, an eventfd is closed, clear or set (the
legacy one is a counter, because the code insists on reading 1). A parser takes
one word or one entry per step: its loop is then an invariant's matter, and the
property compares it with a definition of the valid inputs that has no loop. In
`LegacyControl` data is counted, and libopencm3's side of the control endpoint is
modelled as far as the loops of this code depend on it.

External behaviour (marked so in `map`) is the USB host, the supervisor and the
kernel as the sources use them: FunctionFS I/O completes only while the host has
the function configured and fails with a `generation_ended` errno otherwise; bus
events of a generation stop with its QUIESCE; the supervisor unbinds before it
asks to quiesce; a Configure that it finds in place of QUIESCED makes it give up
(`Overtaken`; its code is not in this repository). Any read or write may also fail with another errno, which ends
the process. The kernel's queue of edges drops its oldest event when it is full;
display-backends duplicates the descriptors it is given; Core adds its interfaces
in order, and a syshandle can be registered once.

What the code does and a reader may not expect: the interface table survives
`usb_deinit`, so a second `usb_init` cannot add its interfaces again; `hid_protocol`
begins at 0 (boot), not 1; an IN request with `wLength` 0 leaves the legacy control
endpoint in `STATUS_IN` until the next one; the legacy receiver lets a repeated
name replace the descriptor, and does not compare `--display` with the kind of bus
it was sent. `usb_deinit` leaves the gadget bound and the descriptors open, and an
ENABLE then starts helpers again; `usb_init` overwrites the descriptors with -1 and
closes none, so they stay open until the process ends, a later QUIESCE is answered
with files of the generation still open, and the next notification of such a helper
ends the process. Both models have this: `leaked` in `Safe3Lifecycle`, `dropped` in
`Safe3Endpoint`, and the properties say what holds in spite of it. A panel whose
frame failed is not turned off on suspension, for it has no handle any more.

## Runs

| Run | Instance | Shows |
|---|---|---|
| `out` | one OUT endpoint, two packets, every record but the shutdown, two at once, every order of the `usb_*` calls | order and exactly-once delivery, no helper asleep with work to do, stops terminate, Core wakes |
| `in` | one IN endpoint, two packets, every record, the same calls | where each packet is while the helper transmits without the mutex, ends of the pipe, termination and waking |
| `two` | an OUT and an IN endpoint of two interfaces, one packet, ENABLE and DISABLE | no wakeup lost when one probe consumes what another waits for; helpers joined before release |
| `exchanges` | eight choices of user, Core, host and supervisor; two bus events in the socket | generations refined, no endpoint holds a retired handle, bound gadgets served by a started stack, ejected ones absent, KEY3 converges |
| `legacy_handoff` | two OUT endpoints, two payloads, all eight records, callbacks nested once | one notification per transfer, one reader per endpoint, no closed eventfd read, pipe refined, QUIESCE served |
| `workers` | see Bounds; one part at a time | a start accepts the valid options and records only; failed calls leak nothing and leave no lit panel; no wait with unsampled levels; what the host sees is what Core serves; control requests of both workers are answered as their data says; firmware time stands still exactly while suspended, waits are neither too long nor busy, flushes last, the panel follows |
| `stale`, `gate`, `crossing`, `restart`, `rejected`, `legacy_stale` | as small as the case allows | the findings below |

Bounds. Two packets tell reordering, loss and repetition apart, and a third adds
nothing to a path of capacity two. Two endpoints make the main thread choose
between notifications, and join one helper while another still runs. Two records
in the socket are enough for one to cross an exchange and one to overtake it; in
`legacy_handoff` one is enough, as records are handled one per pass. A nesting of
two is the first that can invalidate an outer frame. `Budget` in `Safe3Lifecycle`
bounds choices of the environment, not steps of the code: it lets KEY3 be pressed,
released and pressed again around a `usb_stop` and `usb_start` and an enumeration.
In `workers`, the clock of `LegacyTime` runs for six milliseconds, with a retry delay
and a longest poll of two and two drawings; a width of four milliseconds makes
`timer_ms` wrap within a run, which 32 bits would not. Option lists have up to three words (a
second option with its value is the first to conflict with another), and records
up to three entries of any names, besides every order of a complete record with
any further entry. Three edges fill the queue, which makes it drop one. A
WebUSB and a HID interface are what Core has; the requests of `AllSetups` include
every number that some type uses, in both directions and of absent and aliased
interfaces. The control endpoint has packets of two, a buffer of five and room for
four, with lengths up to six: lengths below, at and above each limit, and full
last packets. Handles, packets and records are few, but the proofs
below do not depend on their number.

Fairness. Only threads of the worker are assumed to run, and only where they can
take a step of their own: `HelperRuns`, `MainServes`, `ReaderRuns`, `MainRuns`,
`WorkerServes`. A transfer needs the host, so `InWritten`, `OutRead` and `Written`
are never fair, and neither are timers, buttons, Core's calls, or the choice of
the host to enumerate. `Key3Converges` also needs a supervisor that answers what
it received. Deadlock checking stays on everywhere: a process that has ended
stutters explicitly (`Terminated`), and `LegacyTime` always has a poll or a service
to take at the end of its clock. The parts in `workers` have safety properties only
and assume no fairness.

Each property has a mutant in `PROJECT.json`: an operator beside the one it
alters, with a plausible bug, under which the property fails in the same run.
What a run does not repeat is proved: `in` leaves `PipeRefined` to `Safe3Pipe_proofs`
and to `out`, and the runs leave the types to the proofs, but for `Ep0TypeOK`, by
which the answer of a control transfer never overruns its buffer.

## Findings

- `stale` (`usb_supervisor.c:984`): the Safe 3 service pass polls the eventfds,
  then handles a control record, then reads them. A DISABLE or QUIESCE in between
  has closed them, and the failed read ends the worker. The legacy loop tests
  `usb_enabled` first; `ReadsOpenEvents` shows that this suffices there.
- `gate` (`:1132`): a RESUME handled while a later handle is probed opens the gate
  of an endpoint that was already probed in this round and whose notification was
  consumed while suspended. Core then parks with a ready endpoint and nothing
  pending, until a timer or another event. `NoLostWakeup` states what holds:
  rounds without an ENABLE or RESUME between two probes lose nothing.
- `crossing` (`:690`): an exchange accepts no record but its answer, so a bus
  event that was already in the socket ends the worker. `usbReconnect` has the
  same race (`usb_functionfs.c:781`).
- `restart` (`:1388`): after KEY3 removed the generation, `usb_start` expects a
  QUIESCE that no generation can cause.
- `rejected` (`:1372`): `usb_start` with other parameters stops the helpers and
  forgets the handles before it asks; when the supervisor rejects the personality,
  the active generation stays bound to the host and nobody serves it, while
  `docs/architecture.md` says that a rejection comes before it is disturbed.
- `legacy_stale` (`usb_functionfs.c:985`): a packet callback that services the
  controller consumes the notification the outer loop reads next.

## Proofs

TLAPS proves, for any values of the constants under the named assumptions of the
modules (the placeholders for no packet and no handle are none of the values; an
endpoint belongs to a registered interface and has a direction; sizes are
naturals; a setup packet has the widths of its fields), that each of the following holds in every behaviour. Each file has an
inductive invariant for each module it is about (`IInv`; `ButtonsInv`, `DevicesInv`,
`FacadeInv`, `Ep0Inv` and `ControlInv` for the smaller ones), proved in three parts: the initial states satisfy it, each action
keeps it, and it implies the properties.

- `Safe3Endpoint_proofs`: `TypeOK`, `ResourcesOutliveHelper`, `MutexReleased`,
  `NoSleepOnReady`, `HelpersMatchEnabled` and `NoLostWakeup`. None is inductive by
  itself. `IInv` adds `StopInv` (during a stop the controller is disabled,
  endpoints already passed have no helper, a cancellation is pending only on the
  helper being joined), `LoopInv` (nothing is awaited while a task runs, a drained
  notification is signalled before anything else, Core parks only after a full
  round) and `CoveredInv`, the reason why no wakeup is lost: in a round without a
  signal, an awaited endpoint that is ready is announced (its eventfd set, or its
  helper about to set it, or just drained) or its handle is still to be looked at.
  `usb_init` is why two of them speak of `dropped`: it takes descriptors and eventfds
  from helpers that run, so that only their buffers are theirs whatever is called.
  Proof: helpers only ever move an endpoint from not ready to announced; the main
  thread un-announces it only by a signal; a probe passes it only when it is not
  ready; and a stop makes it not ready for good.
- `Safe3Pipe_proofs`: `PacketInv` (which buffer holds a packet at each point of a
  helper), and from it and the types `PipeRefined` and `PipeEnds`. Every step maps
  to a `Send`, a `Receive`, a `Reset` or a stutter of the pipe.
- `Safe3Lifecycle_proofs`, for any number of KEY3 transitions, calls of Core,
  rejections, enumerations and records in the socket: the types, `GenerationsRefined`,
  `RetiredHandlesClosed`, `BoundIsServed`, `EjectedStaysAbsent` and `BusEventsCurrent`.
  What is hard is what is still in the two FIFOs. `ToWorkerInv` says that a QUIESCE or
  the endpoints are the last record to the worker, belong to the phase the supervisor
  is in, and find the descriptors closed; `ToSupervisorInv` that there is at most one
  answer, that nothing is on the way to a worker that answered, and that a `SERVING`
  speaks of the generation that is installed and active; `PhaseInv` ties the exchange
  to the request it is for, and `bound` to an idle supervisor; `EjectedInv` says that
  while ejected nothing in progress can bring a generation back, except an endpoints
  record that the worker refuses (finding `restart`). `ServedInv` says what a started
  stack whose gadget is bound has installed and how `enabled` follows from the bus
  events still to come, and `LeakedInv` that what `usb_init` overwrote is of
  generations there were, so that a new one is never among them. `ChainInv` is about activations:
  there is a sequence of them, one per record in the socket, that starts with the
  worker's and ends with the supervisor's, along which each suspend or resume is of
  the activation before it. `BusEventsCurrent` is its first link. The refinement has
  a lemma per action; only the steps that send, take or drop an ENDPOINTS record,
  install, close, bind, unbind or create are steps of `UsbGenerations`.
- `LegacyController_proofs`: the types, `AnnouncedOnce`, `NoSecondReader`,
  `ReadsOpenEvents`, `PipeRefined` and `PipeEnds`, for any endpoints, depth of
  nesting and socket. `NoSecondReader` is the hard one, because `usb_enabled` may be
  false with the readers running: what keeps an ENABLE from starting a second one is
  the order of the records that are still in the socket. `BusInv` says that between
  two ENABLEs there is a record that stops the readers (`EnablesApart`); that one
  follows the last ENABLE once the function is no longer live (`EnableEnded`); that
  while readers run, such a record is ahead of any ENABLE (`ResetFirst`) and is
  there at all when the function is not live (`ResetComes`); and that nothing but
  the end of the stream follows a QUIESCE (`QuiesceLast`). Lemmas say what taking
  and appending a record does to each. `ThreadInv` relates readers, slots and
  counters; `ReadsOpenEvents` follows because the loop tests `usb_enabled`, which
  implies open eventfds.
- `LegacyTime_proofs`, for every retry delay, width and longest poll: the types,
  `AwakeTimeOnly`, `PanelFollows`, `NeverOversleeps`, `WaitBlocks` and `FlushLasts`. The
  strengthening says that the timer is suspended as the last record told it and a
  suspension began in the past, that a retry is only
  scheduled for a frame there is, that a panel without a handle is dark unless
  display-backends failed last, that a service about to poll for the regular
  wait has no retry due (`ServiceInv`, which `emulatorPoll` establishes and is the
  reason why the wait blocks), and what the timeout of a poll was computed from
  (`PollInv`). `FlushLasts` has its own invariant on top: a flush is at most as old as
  it is to last, and what is left when it services or polls awake ends with it; what
  it computed before a suspension may be stale, and is computed again after it. Lemma
  `Difference` says why the unsigned subtraction survives the wrap: the age is less
  than the width.
- `WorkerDevices_proofs`: `StartsAsTold` for every option list and record (the loop
  invariants say what the words and entries before `position` selected and assigned),
  `DevicesBalanced` (what is held at each step inside a call), `PanelDarkAtExit` (a
  display that is up has its exit handler registered, a panel that is lit without a
  display is one the library failed to turn off), `ButtonsSeen` for any length of the
  queue (an unsampled level has an edge in the queue, or the main thread is at a point
  from which it samples before it can wait), and the types.
- `Safe3Facade_proofs`: the types, `InterfacesServed` and `ToldBeforeParking`, for
  any interfaces and tasks. The strengthening relates table, personality and gadget
  through failed calls, and says that from the probe of the USB handle on, every task
  that still waits was told what that probe found. A change that the probe of an
  interface finds later in the round is not told in it; Core parks then.
- `ControlRequests_proofs`: the types of both workers' control requests; `Ep0Result`,
  for any sizes of packets, buffers and answers (the invariant says at each packet
  what was transferred, what is left, and which state of the endpoint that leaves,
  without any assumption on the state the transfer began in); and `ControlAnswered`,
  for any interfaces and setup packets. The latter is inductive with its types; its
  proof goes through the branches of `answer_control_request` and shows that the
  class state changes exactly with an acknowledgement the host takes for a change.

Only model-checked: the liveness properties (`StopTerminates`, `WfiWakes`,
`Key3Converges`, `QuiesceServed`), which are out of the prover's reach, and the
counterexamples of the findings. Every other property that a run checks is a theorem.

## Not modelled

The bytes of descriptors, personalities and records, beyond their lengths and
where they are malformed. Randomness (`random_linux.c`): one loop around
`getrandom` without state. `button_headless.c`, without lines. Logging.
What a failing `usb_init` does to descriptors (`Safe3Facade` has it for the rest).
Behaviour after a failed allocation, which ends the process; `exit` from a helper
thread, which runs the exit handlers beside the main thread.
`worker_display_shutdown`, which runs at exit. `usbTiny`, a flag of the firmware
itself, and resets and stalls of the legacy data endpoints. The orientation of
Safe 3's display, which only its getter reads. What the firmware of either worker
does with a packet. Build files, patches (but for the wait they replace) and tests.

## Plan

1. Done: every module above, with its proofs.
2. A rejected `usbReconnect` as a composition of `LegacyController` with the
   firmware's control state: it resets that state before it asks, while the active
   generation goes on.
3. An abstract specification of what Core's tasks are told (`Safe3Facade`), and of
   what a process holds (`Safe3Devices`), to be implemented as `PacketPipe` and
   `UsbGenerations` are.
