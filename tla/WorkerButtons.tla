----------------------------- MODULE WorkerButtons -----------------------------
(***************************************************************************)
(* The button lines of both workers: button_gpio.c and the virtual wait of *)
(* usb_supervisor.c for Safe 3, buttons_gpio.c for the legacy worker. The  *)
(* kernel queues an event for each edge of a line. A queued edge ends a    *)
(* wait, the wait drains the queue, and the levels are sampled apart from  *)
(* that: what an edge said is never looked at. A change is missed when its *)
(* edge is drained and its level is not sampled before the next wait. (A   *)
(* press and its release between two samples are not seen by design.)      *)
(***************************************************************************)
EXTENDS Naturals

CONSTANT MaxEdges    \* how many events the kernel's queue holds

ASSUME MaxEdgesAssumption == MaxEdges \in Nat \ {0}

VARIABLES
    driver,    \* whose lines these are: "safe3" or "legacy"
    lines,     \* the lines that are low now
    edges,     \* events in the kernel's queue
    sampled,   \* the last sample: button_get_state, or cached_gpio_pressed,
               \* which buttonRead refreshes before the firmware sees it
    bpc        \* where the main thread is

buttonVars == <<driver, lines, edges, sampled, bpc>>

Line == {"no", "yes", "center"}
Button == {"no", "yes"}
ButtonPC == {"start", "run", "probed", "wait", "drain", "drained", "ended"}

\* button_gpio_pressed: the center line presses both buttons.
Pressed(low) == IF "center" \in low THEN Button ELSE low

ButtonsInit ==
    /\ driver = "safe3" /\ bpc = "start"
    /\ lines = {} /\ edges = 0 /\ sampled = {}
-----------------------------------------------------------------------------
(* The kernel. A queue that is full drops its oldest event.                *)

LineChanges(l) ==
    /\ bpc # "ended"
    /\ lines' = (IF l \in lines THEN lines \ {l} ELSE lines \cup {l})
    /\ edges' = (IF edges < MaxEdges THEN edges + 1 ELSE edges)
    /\ UNCHANGED <<driver, sampled, bpc>>
-----------------------------------------------------------------------------
(* The worker.                                                             *)

\* button_init, or the first call of buttons_gpio.c, which samples the lines.
DriverStarts(d) ==
    /\ bpc = "start"
    /\ driver' = d /\ bpc' = "run"
    /\ sampled' = (IF d = "legacy" THEN Pressed(lines) ELSE sampled)
    /\ UNCHANGED <<lines, edges>>

\* button_get_state in Core's probe of the buttons, or buttonRead.
Sample ==
    /\ bpc \in {"run", "probed"}
    /\ sampled' = Pressed(lines)
    /\ bpc' = (IF driver = "safe3" THEN "probed" ELSE bpc)
    /\ UNCHANGED <<driver, lines, edges>>

\* A task of Core runs after the probes; another round begins with a new probe.
TaskRuns ==
    /\ bpc = "probed" /\ bpc' = "run"
    /\ UNCHANGED <<driver, lines, edges, sampled>>

\* Core waits once a round of probes signalled nobody; the legacy firmware waits
\* whenever it likes.
WaitBegins ==
    /\ bpc = (IF driver = "safe3" THEN "probed" ELSE "run")
    /\ bpc' = "wait"
    /\ UNCHANGED <<driver, lines, edges, sampled>>

\* poll reports an edge.
EdgeReported ==
    /\ bpc = "wait" /\ edges > 0
    /\ bpc' = "drain"
    /\ UNCHANGED <<driver, lines, edges, sampled>>

\* The wait ends for another reason: a timeout, a signal, USB, KEY3.
WaitEnds ==
    /\ bpc = "wait" /\ bpc' = "run"
    /\ UNCHANGED <<driver, lines, edges, sampled>>

\* drain_button_interrupts and buttonDrainEvents: one event after the other ...
DrainEdge ==
    /\ bpc = "drain" /\ edges > 0
    /\ edges' = edges - 1
    /\ UNCHANGED <<driver, lines, sampled, bpc>>

\* Mutant of DrainEnds: buttonDrainEvents sampled before it drained.
DrainEnds_SampledFirst ==
    /\ bpc = "drain" /\ edges = 0
    /\ bpc' = "run"
    /\ UNCHANGED <<driver, lines, edges, sampled>>

\* ... until there is none.
DrainEnds ==
    /\ bpc = "drain" /\ edges = 0
    /\ bpc' = (IF driver = "safe3" THEN "run" ELSE "drained")
    /\ UNCHANGED <<driver, lines, edges, sampled>>

\* buttonDrainEvents samples last.
CacheSample ==
    /\ bpc = "drained"
    /\ sampled' = Pressed(lines) /\ bpc' = "run"
    /\ UNCHANGED <<driver, lines, edges>>

\* A failed read of the levels or of an edge, the end of the lines, or a poll
\* result that is not an edge end the process.
ButtonsFail ==
    /\ bpc \in {"start", "run", "probed", "wait", "drain", "drained"}
    /\ bpc' = "ended"
    /\ UNCHANGED <<driver, lines, edges, sampled>>

ButtonsRun ==
    \/ Sample \/ TaskRuns \/ WaitBegins \/ EdgeReported \/ WaitEnds
    \/ DrainEdge \/ DrainEnds \/ CacheSample

ButtonsNext ==
    \/ \E l \in Line : LineChanges(l)
    \/ \E d \in {"safe3", "legacy"} : DriverStarts(d)
    \/ ButtonsRun \/ ButtonsFail

ButtonsSpec == ButtonsInit /\ [][ButtonsNext]_buttonVars
-----------------------------------------------------------------------------
(* Properties.                                                             *)

\* Every variable stays within the values its C counterpart can have.
ButtonsTypeOK ==
    /\ driver \in {"safe3", "legacy"} /\ bpc \in ButtonPC
    /\ lines \subseteq Line /\ sampled \subseteq Button
    /\ edges \in 0..MaxEdges

\* No worker waits with levels other than those it sampled last, unless an edge is
\* still queued that ends the wait at once: however edges race with draining and
\* sampling, and however many the kernel dropped. For Safe 3 the sample is what
\* Core acts upon (virtual_trezor_wait_for_interrupt, button_get_state); for the
\* legacy worker it is the cache that buttonDrainEvents keeps.
ButtonsSeen == bpc = "wait" /\ edges = 0 => sampled = Pressed(lines)
=============================================================================
