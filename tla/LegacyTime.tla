------------------------------ MODULE LegacyTime ------------------------------
(***************************************************************************)
(* Time in the legacy worker: the firmware's millisecond timer, which      *)
(* stands still while USB is suspended (timer_linux), the retries of a     *)
(* failed display (display_linux), and the timeout of the firmware's waits *)
(* (poll_timeout.h and usb_functionfs.c), which serves them both.          *)
(*                                                                         *)
(* Time passes while a wait blocks and while the firmware computes; what   *)
(* else the worker does takes none. Of the control records, only those     *)
(* that suspend and resume appear. display-backends, a library, takes      *)
(* a frame or fails.                                                       *)
(***************************************************************************)
EXTENDS Naturals

CONSTANTS
    Delay,     \* RETRY_DELAY_MS
    Width,     \* uint32_t, the firmware's time, counts modulo this
    IntMax,    \* INT_MAX, the longest timeout of poll
    Frames,    \* bound: how many contents the framebuffer takes
    MaxTime    \* bound: the last reading of CLOCK_MONOTONIC

ASSUME TimeAssumption ==
    /\ Delay \in Nat \ {0} /\ Width \in Nat \ {0} /\ IntMax \in Nat \ {0}
    /\ Frames \in Nat \ {0} /\ MaxTime \in Nat \ {0}

VARIABLES
    raw,          \* CLOCK_MONOTONIC in milliseconds; 0 is before the start
    timer,        \* timer_state
    awake,        \* history: the milliseconds that passed while not asleep
    asleep,       \* history: of the records handled, the last one was a SUSPEND
    display,      \* the display handle exists
    retryAfter,   \* retry_after_ms, 0 for none
    off,          \* suspended of display_linux
    image,        \* the content of the firmware's framebuffer, counted
    requested,        \* last_framebuffer, as the content it had then; 0 for NULL
    shown,        \* the content the panel was last given; 0 when it was cleared
    faulty,       \* the last display-backends call failed
    wpc,          \* where the main thread is
    wait,         \* the wait or flush in progress
    timeout       \* of the poll in progress

clockVars == <<raw, awake>>
timerVars == <<timer, asleep>>
panelVars == <<display, retryAfter, off, requested, shown, faulty>>
waitVars  == <<wpc, wait, timeout>>
timeVars  == <<clockVars, timerVars, image, panelVars, waitVars>>

Forever == MaxTime + 1    \* poll's timeout of -1
NoCall  == [flush |-> FALSE, start |-> 0, millis |-> 0, left |-> 0, began |-> 0]

TimeInit ==
    /\ raw = 1 /\ awake = 1
    /\ timer = [at |-> 0, total |-> 0, suspended |-> FALSE] /\ asleep = FALSE
    /\ display = FALSE /\ retryAfter = 0 /\ off = FALSE /\ faulty = FALSE
    /\ image = 1 /\ requested = 0 /\ shown = 0
    /\ wpc = "firmware" /\ wait = NoCall /\ timeout = [entered |-> 0, length |-> 0]
-----------------------------------------------------------------------------
(* timer_linux.h: suspend, resume and value.                               *)

\* Mutant of TimerSuspend: a second SUSPEND starts the interval again.
TimerSuspend_Again == [at |-> raw, total |-> timer.total, suspended |-> TRUE]

TimerSuspend ==
    IF timer.suspended THEN timer
    ELSE [at |-> raw, total |-> timer.total, suspended |-> TRUE]

TimerResume ==
    IF timer.suspended
    THEN [at |-> timer.at, total |-> timer.total + (raw - timer.at), suspended |-> FALSE]
    ELSE timer

TimerValue == (IF timer.suspended THEN timer.at ELSE raw) - timer.total

\* timer_ms: the value in 32 bits, and their unsigned difference.
TimerMs == TimerValue % Width
Elapsed(start) == (TimerMs + Width - start) % Width
-----------------------------------------------------------------------------
(* display_linux.c.                                                        *)

\* The firmware draws into the buffer that it gave to the display, or will.
FirmwareDraws ==
    /\ wpc = "firmware" /\ image < Frames
    /\ image' = image + 1
    /\ UNCHANGED <<clockVars, timerVars, panelVars, waitVars>>

\* write_last_frame, of what the buffer holds by now: nothing while suspended,
\* before the first oledRefresh or before the retry is due; otherwise it creates
\* the display if there is none and writes the frame, and either may fail.
WriteLastFrame(isOff, started, retry) ==
    IF isOff \/ ~started \/ (~display /\ retry # 0 /\ raw < retry)
    THEN retryAfter' = retry /\ UNCHANGED <<display, shown, faulty>>
    ELSE \/ /\ display' = TRUE /\ retryAfter' = (IF display THEN retry ELSE 0)
            /\ shown' = image /\ faulty' = FALSE
         \/ /\ display' = FALSE /\ retryAfter' = raw + Delay
            /\ UNCHANGED shown /\ faulty' = TRUE

\* oledInit and oledRefresh.
OledRefresh ==
    /\ wpc = "firmware"
    /\ requested' = image
    /\ WriteLastFrame(off, TRUE, retryAfter)
    /\ UNCHANGED <<clockVars, timerVars, image, off, waitVars>>

\* Mutant of DisplaySuspend: the handle is released, and the panel left as it is.
DisplaySuspend_NoShutdown ==
    off' = TRUE /\ display' = FALSE /\ UNCHANGED <<retryAfter, requested, shown, faulty>>

\* worker_display_suspend: a panel that has a handle is cleared, which may fail,
\* and the handle released.
DisplaySuspend ==
    /\ off' = TRUE
    /\ IF off \/ ~display
       THEN UNCHANGED <<display, shown, faulty>>
       ELSE /\ display' = FALSE
            /\ (shown' = 0 /\ faulty' = FALSE) \/ (UNCHANGED shown /\ faulty' = TRUE)
    /\ UNCHANGED <<retryAfter, requested>>

\* worker_display_resume.
DisplayResume ==
    IF off
    THEN off' = FALSE /\ WriteLastFrame(FALSE, requested # 0, 0) /\ UNCHANGED requested
    ELSE UNCHANGED panelVars

\* Mutant of EmulatorPoll: the deadline is not looked at again.
EmulatorPoll_Never == UNCHANGED panelVars

EmulatorPoll ==
    IF display \/ retryAfter = 0
    THEN UNCHANGED panelVars
    ELSE WriteLastFrame(off, requested # 0, retryAfter) /\ UNCHANGED <<off, requested>>

\* worker_display_retry_timeout_ms, with Forever for none.
RetryTimeout ==
    IF retryAfter = 0 THEN Forever
    ELSE IF raw >= retryAfter THEN 0
    ELSE IF retryAfter - raw > IntMax THEN IntMax ELSE retryAfter - raw
-----------------------------------------------------------------------------
(* The waits of usb_functionfs.c.                                          *)

\* Mutant of PollTimeout: the display's retry replaces the firmware's timeout.
PollTimeout_RetryOnly(millis) ==
    IF timer.suspended THEN Forever
    ELSE IF RetryTimeout # Forever THEN RetryTimeout
    ELSE IF millis > IntMax THEN IntMax ELSE millis

\* worker_poll_timeout_ms.
PollTimeout(millis) ==
    LET firmware == IF millis > IntMax THEN IntMax ELSE millis
    IN  IF timer.suspended THEN Forever
        ELSE IF RetryTimeout < firmware THEN RetryTimeout ELSE firmware

\* A record handled by a service: SUSPEND, or RESUME or ENABLE, or none.
Handle(kind) ==
    \/ kind = "none" /\ UNCHANGED <<timerVars, panelVars>>
    \/ kind = "suspend" /\ timer' = TimerSuspend /\ DisplaySuspend /\ asleep' = TRUE
    \/ kind = "resume" /\ timer' = TimerResume /\ DisplayResume /\ asleep' = FALSE
RecordKind == {"none", "suspend", "resume"}

\* waitAndProcessUSBRequests(millis).
Wait(millis) ==
    /\ wpc = "firmware" /\ EmulatorPoll
    /\ wpc' = "service"
    /\ wait' = [flush |-> FALSE, start |-> 0, millis |-> millis, left |-> millis, began |-> awake]
    /\ UNCHANGED <<clockVars, timerVars, image, timeout>>

\* usbFlush(millis).
Flush(millis) ==
    /\ wpc = "firmware"
    /\ wpc' = "flush"
    /\ wait' = [flush |-> TRUE, start |-> TimerMs, millis |-> millis, left |-> millis, began |-> awake]
    /\ UNCHANGED <<clockVars, timerVars, image, panelVars, timeout>>

\* usbPoll: a service that does not wait, from the firmware or in usbFlush.
UsbPoll(kind) ==
    /\ wpc \in {"firmware", "flush"}
    /\ Handle(kind)
    /\ wpc' = (IF wpc = "flush" THEN "check" ELSE "firmware")
    /\ UNCHANGED <<clockVars, image, wait, timeout>>

\* Mutant of FlushCheck: the difference is taken without its width.
FlushCheck_NoWrap ==
    LET elapsed == IF TimerMs >= wait.start THEN TimerMs - wait.start ELSE wait.millis
    IN  /\ wpc = "check"
        /\ IF elapsed >= wait.millis
           THEN wpc' = "firmware" /\ wait' = NoCall
           ELSE wpc' = "service" /\ wait' = [wait EXCEPT !.left = wait.millis - elapsed]
        /\ UNCHANGED <<clockVars, timerVars, image, panelVars, timeout>>

\* usbFlush returns when its time is over, and waits for the rest otherwise.
FlushCheck ==
    LET elapsed == Elapsed(wait.start)
    IN  /\ wpc = "check"
        /\ IF elapsed >= wait.millis
           THEN wpc' = "firmware" /\ wait' = NoCall
           ELSE wpc' = "service" /\ wait' = [wait EXCEPT !.left = wait.millis - elapsed]
        /\ UNCHANGED <<clockVars, timerVars, image, panelVars, timeout>>

\* service_virtual_usb_until_resumed computes the timeout and polls.
PollBegins ==
    /\ wpc = "service"
    /\ wpc' = "polling"
    /\ timeout' = [entered |-> raw, length |-> PollTimeout(wait.left)]
    /\ UNCHANGED <<clockVars, timerVars, image, panelVars, wait>>

\* poll returns: a record, a button, a notification, or the timeout. The wait
\* goes on for as long as the firmware is suspended.
PollReturns(kind) ==
    /\ wpc = "polling"
    /\ Handle(kind)
    /\ IF timer'.suspended
       THEN wpc' = "service" /\ UNCHANGED wait
       ELSE /\ wpc' = (IF wait.flush THEN "flush" ELSE "firmware")
            /\ wait' = (IF wait.flush THEN wait ELSE NoCall)
    /\ UNCHANGED <<clockVars, image, timeout>>

\* A millisecond passes, in the firmware or in a poll that has not timed out.
Tick ==
    /\ raw < MaxTime
    /\ wpc = "firmware" \/ (wpc = "polling" /\ raw < timeout.entered + timeout.length)
    /\ raw' = raw + 1
    /\ awake' = (IF asleep THEN awake ELSE awake + 1)
    /\ UNCHANGED <<timerVars, image, panelVars, waitVars>>

TimeNext ==
    \/ Tick \/ FirmwareDraws \/ OledRefresh \/ FlushCheck \/ PollBegins
    \/ \E millis \in 0..(Width - 1) : Wait(millis) \/ Flush(millis)
    \/ \E kind \in RecordKind : UsbPoll(kind) \/ PollReturns(kind)

TimeSpec == TimeInit /\ [][TimeNext]_timeVars
-----------------------------------------------------------------------------
(* Properties.                                                             *)

\* Every variable stays within the values its C counterpart can have.
TimeTypeOK ==
    /\ raw \in Nat \ {0} /\ awake \in Nat
    /\ timer \in [at : Nat, total : Nat, suspended : BOOLEAN] /\ asleep \in BOOLEAN
    /\ display \in BOOLEAN /\ retryAfter \in Nat /\ off \in BOOLEAN /\ faulty \in BOOLEAN
    /\ image \in 1..Frames /\ requested \in 0..image /\ shown \in 0..image
    /\ wpc \in {"firmware", "flush", "check", "service", "polling"}
    /\ wait \in [flush : BOOLEAN, start : Nat, millis : Nat, left : Nat, began : Nat]
    /\ timeout \in [entered : Nat, length : Nat]

\* The firmware's time is the time it was awake, by the records handled: no
\* sequence of SUSPEND, RESUME and ENABLE, repeated or not, makes it jump, run
\* backwards, go on while asleep, or stop once awake.
AwakeTimeOnly == TimerValue = awake

\* usbFlush lasts the milliseconds it is given, of the firmware's own time:
\* neither a suspension in between nor the wrap of timer_ms makes it return
\* early, and no poll of it sleeps longer than that.
FlushLasts ==
    /\ [][wpc = "check" /\ wpc' = "firmware" => awake - wait.began >= wait.millis]_timeVars
    /\ [](wait.flush => awake - wait.began <= wait.millis)

\* A wait never sleeps past the firmware's deadline, nor past the time at which
\* a failed display is to be tried again.
NeverOversleeps ==
    wpc = "polling" /\ ~timer.suspended =>
        /\ raw - timeout.entered <= wait.left
        /\ retryAfter # 0 => raw <= retryAfter \/ raw = timeout.entered

\* The firmware's regular wait blocks: a display that cannot be brought up does
\* not make it poll with a timeout of 0, over and over.
WaitBlocks ==
    wpc = "polling" /\ ~wait.flush /\ wait.left > 0 => timeout.length > 0

\* After failures and suspensions, a panel that has a handle shows what the
\* firmware drew before its last oledRefresh, or later drawing. While USB is
\* suspended there is no handle, and the panel is dark unless display-backends
\* failed when it was last called: worker_display_suspend releases the handle of
\* a panel that it could not clear, and does nothing for one lost to a failed frame.
PanelFollows ==
    /\ display => ~off /\ retryAfter = 0 /\ 0 < requested /\ requested <= shown
    /\ off = asleep
    /\ asleep /\ ~faulty => shown = 0
=============================================================================
