--------------------------- MODULE LegacyTime_proofs ---------------------------
(***************************************************************************)
(* Proofs about the legacy worker's time, for every retry delay, width of  *)
(* the firmware's time, longest poll, and history of suspensions, display  *)
(* failures and waits.                                                     *)
(***************************************************************************)
EXTENDS LegacyTime, Integers, TLAPS

\* The inductive invariant: the timer is suspended as the last record told it, and
\* a suspension began in the past; a retry is only scheduled for a frame there is,
\* and a panel without a handle is dark unless display-backends failed last; and a
\* service that is about to poll for the firmware's regular wait has just seen that
\* no retry is due.
SuspensionInv == timer.suspended = asleep /\ (timer.suspended => timer.at <= raw)
PanelInv ==
    /\ retryAfter # 0 => requested # 0
    /\ ~display /\ ~faulty => shown = 0
ServiceInv ==
    wpc = "service" /\ ~wait.flush /\ ~timer.suspended => retryAfter = 0 \/ raw < retryAfter
PollInv ==
    wpc = "polling" /\ ~timer.suspended =>
        /\ timeout.entered <= raw /\ raw <= timeout.entered + timeout.length
        /\ timeout.length <= wait.left
        /\ retryAfter # 0 => timeout.length = 0 \/ timeout.entered + timeout.length <= retryAfter

CallInv == wpc \in {"flush", "check"} => wait.flush

TimeInv == SuspensionInv /\ AwakeTimeOnly
IInv == TimeTypeOK /\ TimeInv /\ PanelFollows /\ PanelInv
        /\ CallInv /\ ServiceInv /\ PollInv /\ WaitBlocks

\* timer_ms fits its width, whatever the value.
LEMMA Remainder ==
    ASSUME NEW a \in Int, NEW b \in Nat \ {0}
    PROVE  a % b \in 0..(b - 1)
  OBVIOUS

\* The firmware's time after a SUSPEND and after a RESUME or ENABLE: the same.
LEMMA TimerKept ==
    ASSUME TimeTypeOK, SuspensionInv
    PROVE  /\ TimerSuspend.suspended /\ TimerSuspend.at <= raw
           /\ TimerSuspend.at - TimerSuspend.total = TimerValue
           /\ ~TimerResume.suspended
           /\ raw - TimerResume.total = TimerValue
           /\ TimerSuspend \in [at : Nat, total : Nat, suspended : BOOLEAN]
           /\ TimerResume \in [at : Nat, total : Nat, suspended : BOOLEAN]
  BY DEF TimeTypeOK, SuspensionInv, TimerSuspend, TimerResume, TimerValue

\* After write_last_frame, a panel with a handle shows the framebuffer and has no
\* retry scheduled, and unless it must stay dark, no retry is due.
LEMMA FrameWritten ==
    ASSUME TimeTypeOK, NEW isOff \in BOOLEAN, NEW want \in Nat, NEW retry \in Nat,
           WriteLastFrame(isOff, want # 0, retry),
           display => ~isOff /\ retry = 0 /\ want # 0,
           retry # 0 => want # 0, ~display /\ ~faulty => shown = 0
    PROVE  /\ display' \in BOOLEAN /\ retryAfter' \in Nat /\ shown' \in 0..image
           /\ faulty' \in BOOLEAN /\ (~display' /\ ~faulty' => shown' = 0)
           /\ display' => ~isOff /\ retryAfter' = 0 /\ want # 0 /\ shown' = image
           /\ retryAfter' # 0 => want # 0
           /\ ~isOff => retryAfter' = 0 \/ raw < retryAfter'
<1> DEFINE Skips == isOff \/ want = 0 \/ (~display /\ retry # 0 /\ raw < retry)
<1>1. CASE Skips
  BY <1>1 DEF WriteLastFrame, TimeTypeOK
<1>2. CASE ~Skips
  <2>1. /\ ~isOff /\ want # 0
        /\ \/ /\ display' = TRUE /\ retryAfter' = (IF display THEN retry ELSE 0)
              /\ shown' = image /\ faulty' = FALSE
           \/ /\ display' = FALSE /\ retryAfter' = raw + Delay /\ shown' = shown
              /\ faulty' = TRUE
    BY <1>2 DEF WriteLastFrame
  <2>2. CASE /\ display' = TRUE /\ retryAfter' = (IF display THEN retry ELSE 0)
            /\ shown' = image /\ faulty' = FALSE
    <3>1. display' \in BOOLEAN /\ display' /\ faulty' \in BOOLEAN  BY <2>2
    <3>2. retryAfter' = 0 /\ shown' \in 0..image  BY <2>1, <2>2 DEF TimeTypeOK
    <3> QED  BY <2>1, <2>2, <3>1, <3>2
  <2>3. CASE /\ display' = FALSE /\ retryAfter' = raw + Delay /\ shown' = shown
            /\ faulty' = TRUE
    <3>1. retryAfter' \in Nat /\ raw < retryAfter'  BY <2>3, TimeAssumption DEF TimeTypeOK
    <3>2. display' \in BOOLEAN /\ ~display' /\ faulty' \in BOOLEAN /\ faulty'  BY <2>3
    <3>3. shown' \in 0..image  BY <2>3 DEF TimeTypeOK
    <3> QED  BY <2>1, <3>1, <3>2, <3>3
  <2> QED  BY <2>1, <2>2, <2>3
<1> QED  BY <1>1, <1>2

\* What the display and the timer keep, whoever acts on them.
PanelTyped ==
    /\ display \in BOOLEAN /\ retryAfter \in Nat /\ off \in BOOLEAN
    /\ requested \in 0..image /\ shown \in 0..image /\ faulty \in BOOLEAN
TimerTyped == timer \in [at : Nat, total : Nat, suspended : BOOLEAN] /\ asleep \in BOOLEAN
Devices == TimerTyped /\ PanelTyped /\ TimeInv /\ PanelFollows /\ PanelInv

\* They are part of the types.
LEMMA TypedDevices == TimeTypeOK => TimerTyped /\ PanelTyped
  BY DEF TimeTypeOK, TimerTyped, PanelTyped

\* A control record keeps the display and the timer in step.
LEMMA Handled ==
    ASSUME TimeTypeOK, Devices, NEW kind \in RecordKind, Handle(kind), UNCHANGED <<clockVars, image>>
    PROVE  Devices'
<1>1. CASE kind = "none"
  <2>1. UNCHANGED <<timer, asleep, display, retryAfter, off, requested, shown, faulty, raw, awake, image>>
    BY <1>1 DEF Handle, panelVars, clockVars, timerVars
  <2> QED
    BY <2>1 DEF Devices, TimerTyped, PanelTyped, TimeInv, SuspensionInv, AwakeTimeOnly, TimerValue,
                PanelFollows, PanelInv
<1>2. CASE kind = "suspend"
  <2>1. /\ timer' = TimerSuspend /\ DisplaySuspend /\ asleep' = TRUE
        /\ UNCHANGED <<raw, awake, image>>
    BY <1>2 DEF Handle, clockVars
  <2>2. asleep' \in BOOLEAN /\ asleep'  BY <2>1
  <2>3. timer'.suspended  BY <2>1, TimerKept DEF Devices, TimeInv
  <2>4. TimerTyped' /\ TimeInv'
    <3>1. timer' \in [at : Nat, total : Nat, suspended : BOOLEAN]
      BY <2>1, TimerKept DEF Devices, TimeInv
    <3>2. timer'.at <= raw' /\ AwakeTimeOnly'
      BY <2>1, <2>3, TimerKept DEF Devices, TimeInv, AwakeTimeOnly, TimerValue
    <3>3. timer'.suspended = asleep'  BY <2>2, <2>3, <3>1
    <3> QED  BY <2>2, <3>1, <3>2, <3>3 DEF TimerTyped, TimeInv, SuspensionInv
  <2>5. /\ off' = TRUE /\ retryAfter' = retryAfter /\ requested' = requested
        /\ \/ (off \/ ~display) /\ display' = display /\ shown' = shown /\ faulty' = faulty
           \/ display' = FALSE /\ shown' = 0 /\ faulty' = FALSE
           \/ display' = FALSE /\ shown' = shown /\ faulty' = TRUE
    BY <2>1 DEF DisplaySuspend
  <2>6. /\ off \in BOOLEAN /\ display \in BOOLEAN /\ faulty \in BOOLEAN /\ shown \in 0..image
        /\ (display => ~off) /\ (~display /\ ~faulty => shown = 0)
    BY DEF TimeTypeOK, Devices, PanelFollows, PanelInv
  <2>7. off' \in BOOLEAN /\ off'  BY <2>5
  <2>8. /\ display' \in BOOLEAN /\ faulty' \in BOOLEAN /\ ~display'
        /\ shown' \in 0..image /\ (~faulty' => shown' = 0)
    <3>1. CASE (off \/ ~display) /\ display' = display /\ shown' = shown /\ faulty' = faulty
      BY <2>6, <3>1
    <3>2. CASE display' = FALSE /\ shown' = 0 /\ faulty' = FALSE
      <4>1. display' \in BOOLEAN /\ faulty' \in BOOLEAN /\ ~display'  BY <3>2
      <4>2. shown' \in 0..image  BY <3>2 DEF TimeTypeOK
      <4> QED  BY <3>2, <4>1, <4>2
    <3>3. CASE display' = FALSE /\ shown' = shown /\ faulty' = TRUE
      <4>1. display' \in BOOLEAN /\ faulty' \in BOOLEAN /\ ~display' /\ faulty'  BY <3>3
      <4> QED  BY <2>6, <3>3, <4>1
    <3> QED  BY <2>5, <3>1, <3>2, <3>3
  <2>9. PanelTyped' /\ PanelInv'
    BY <2>1, <2>5, <2>7, <2>8 DEF PanelTyped, PanelInv, TimeTypeOK, Devices
  <2>10. PanelFollows'
    <3>1. off' = asleep'  BY <2>1, <2>5
    <3> QED  BY <2>8, <3>1 DEF PanelFollows
  <2> QED  BY <2>4, <2>9, <2>10 DEF Devices
<1>3. CASE kind = "resume"
  <2>1. /\ timer' = TimerResume /\ DisplayResume /\ asleep' = FALSE
        /\ UNCHANGED <<raw, awake, image>>
    BY <1>3 DEF Handle, clockVars
  <2>2. asleep' \in BOOLEAN /\ ~asleep'  BY <2>1
  <2>3. ~timer'.suspended  BY <2>1, TimerKept DEF Devices, TimeInv
  <2>4. TimerTyped' /\ TimeInv'
    <3>1. timer' \in [at : Nat, total : Nat, suspended : BOOLEAN]
      BY <2>1, TimerKept DEF Devices, TimeInv
    <3>2. AwakeTimeOnly'
      BY <2>1, <2>3, TimerKept DEF Devices, TimeInv, AwakeTimeOnly, TimerValue
    <3>3. timer'.suspended = asleep'  BY <2>2, <2>3, <3>1
    <3> QED  BY <2>2, <2>3, <3>1, <3>2, <3>3 DEF TimerTyped, TimeInv, SuspensionInv
  <2>5. CASE off
    <3>1. off' = FALSE /\ WriteLastFrame(FALSE, requested # 0, 0) /\ requested' = requested
      BY <2>1, <2>5 DEF DisplayResume
    <3>2. requested \in Nat /\ ~display /\ (~display /\ ~faulty => shown = 0)
      BY <2>5 DEF TimeTypeOK, Devices, PanelFollows, PanelInv
    <3>3. /\ display' \in BOOLEAN /\ retryAfter' \in Nat /\ shown' \in 0..image
          /\ faulty' \in BOOLEAN /\ (~display' /\ ~faulty' => shown' = 0)
          /\ display' => retryAfter' = 0 /\ requested # 0 /\ shown' = image
          /\ retryAfter' # 0 => requested # 0
      BY <3>1, <3>2, FrameWritten, Zenon
    <3>4. requested' \in 0..image' /\ shown' \in 0..image' /\ PanelInv'
      BY <2>1, <3>1, <3>3 DEF TimeTypeOK, PanelInv
    <3>5. display' => 0 < requested' /\ requested' <= shown'
      BY <3>1, <3>3 DEF TimeTypeOK
    <3>6. off' \in BOOLEAN /\ off' = asleep' /\ ~off'  BY <2>1, <3>1
    <3>7. PanelTyped'  BY <3>3, <3>4, <3>6 DEF PanelTyped
    <3>8. PanelFollows'  BY <2>2, <3>3, <3>5, <3>6 DEF PanelFollows
    <3> QED  BY <2>4, <3>4, <3>7, <3>8 DEF Devices
  <2>6. CASE ~off
    <3>1. UNCHANGED <<display, retryAfter, off, requested, shown, faulty>>
      BY <2>1, <2>6 DEF DisplayResume, panelVars
    <3>2. PanelTyped' /\ PanelInv'
      BY <2>1, <3>1 DEF Devices, PanelTyped, PanelInv
    <3>3. off' = asleep' /\ ~asleep'
      BY <2>2, <2>6, <3>1 DEF Devices, PanelFollows, PanelTyped
    <3> QED
      BY <2>4, <2>6, <3>1, <3>2, <3>3 DEF Devices, PanelFollows
  <2> QED  BY <2>5, <2>6
<1> QED  BY <1>1, <1>2, <1>3 DEF RecordKind

\* The wait or flush that may be in progress.
Calls == [flush : BOOLEAN, start : Nat, millis : Nat, left : Nat, began : Nat]

\* No wait is in progress while the firmware runs.
LEMMA NoCallTyped == NoCall \in Calls
  BY DEF NoCall, Calls

\* The rest of the types: clocks, framebuffer, and the wait in progress.
LEMMA TypedRest ==
    ASSUME TimeTypeOK, Devices', raw' \in Nat \ {0}, awake' \in Nat, image' \in 1..Frames,
           wpc' \in {"firmware", "flush", "check", "service", "polling"},
           wait' \in Calls,
           timeout' \in [entered : Nat, length : Nat]
    PROVE  TimeTypeOK'
  BY DEF TimeTypeOK, Devices, TimerTyped, PanelTyped, Calls

\* poll's timeout is a number, is no longer than the firmware asked for and ends
\* when the retry of the display is due; unless that is due already, it is not 0.
LEMMA TimeoutBounded ==
    ASSUME TimeTypeOK, NEW millis \in Nat
    PROVE  /\ PollTimeout(millis) \in Nat
           /\ ~timer.suspended =>
                 /\ PollTimeout(millis) <= millis
                 /\ retryAfter # 0 => PollTimeout(millis) = 0 \/ raw + PollTimeout(millis) <= retryAfter
                 /\ millis > 0 /\ (retryAfter = 0 \/ raw < retryAfter) => PollTimeout(millis) > 0
<1> DEFINE firmware == IF millis > IntMax THEN IntMax ELSE millis
<1>1. firmware \in Nat /\ firmware <= millis /\ (millis > 0 => firmware > 0)
  BY TimeAssumption
<1>2. /\ RetryTimeout \in Nat
      /\ retryAfter # 0 => RetryTimeout = 0 \/ raw + RetryTimeout <= retryAfter
      /\ retryAfter = 0 \/ raw < retryAfter => RetryTimeout > 0
  BY TimeAssumption DEF RetryTimeout, Forever, TimeTypeOK
<1>3. CASE timer.suspended
  BY <1>3, TimeAssumption DEF PollTimeout, Forever
<1>4. CASE ~timer.suspended
  <2>1. PollTimeout(millis) = IF RetryTimeout < firmware THEN RetryTimeout ELSE firmware
    BY <1>4 DEF PollTimeout
  <2>2. PollTimeout(millis) \in Nat /\ PollTimeout(millis) <= firmware /\ PollTimeout(millis) <= RetryTimeout
    BY <2>1, <1>1, <1>2
  <2>3. PollTimeout(millis) <= millis  BY <1>1, <2>2
  <2>4. retryAfter # 0 => PollTimeout(millis) = 0 \/ raw + PollTimeout(millis) <= retryAfter
    BY <1>2, <2>2 DEF TimeTypeOK
  <2>5. millis > 0 /\ (retryAfter = 0 \/ raw < retryAfter) => PollTimeout(millis) > 0
    BY <1>1, <1>2, <2>1
  <2> QED  BY <2>2, <2>3, <2>4, <2>5
<1> QED  BY <1>3, <1>4

\* A step that leaves the clock, the timer and the display alone.
LEMMA DevicesKept ==
    ASSUME Devices, UNCHANGED <<clockVars, timerVars, image, panelVars>>
    PROVE  Devices'
<1>1. UNCHANGED <<raw, awake, timer, asleep, image, display, retryAfter, off, requested, shown, faulty>>
  BY DEF clockVars, timerVars, panelVars
<1> QED
  BY <1>1 DEF Devices, TimerTyped, PanelTyped, TimeInv, SuspensionInv, AwakeTimeOnly, TimerValue,
              PanelFollows, PanelInv

\* The firmware draws, or shows what it drew.
LEMMA DrawSafe ==
    ASSUME IInv, Devices, FirmwareDraws \/ OledRefresh
    PROVE  IInv'
<1>1. TimeInv' /\ TimerTyped'
  BY DEF FirmwareDraws, OledRefresh, IInv, TimeInv, SuspensionInv, AwakeTimeOnly, TimerValue,
         clockVars, timerVars, Devices, TimerTyped
<1>2. image' \in 1..Frames /\ TimeTypeOK /\ UNCHANGED <<raw, awake, wpc, wait, timeout, off, timer, asleep>>
  <2>1. TimeTypeOK  BY DEF IInv
  <2>2. image' = image \/ (image' = image + 1 /\ image < Frames)  BY DEF FirmwareDraws, OledRefresh
  <2>3. image' \in 1..Frames  BY <2>1, <2>2, TimeAssumption DEF TimeTypeOK
  <2>4. UNCHANGED <<raw, awake, wpc, wait, timeout, off, timer, asleep>>
    BY DEF FirmwareDraws, OledRefresh, clockVars, timerVars, waitVars, panelVars
  <2> QED  BY <2>1, <2>3, <2>4
<1>3. PanelTyped' /\ PanelFollows' /\ PanelInv'
  <2>1. CASE FirmwareDraws
    <3>1. UNCHANGED <<display, retryAfter, off, requested, shown, faulty, asleep>> /\ image' = image + 1
      BY <2>1 DEF FirmwareDraws, panelVars, timerVars
    <3>2. requested \in 0..image' /\ shown \in 0..image'  BY <1>2, <3>1, TimeAssumption DEF TimeTypeOK
    <3> QED  BY <3>1, <3>2 DEF Devices, PanelTyped, PanelFollows, PanelInv
  <2>2. CASE OledRefresh
    <3>1. /\ requested' = image /\ image' = image /\ WriteLastFrame(off, TRUE, retryAfter)
          /\ UNCHANGED <<off, timer, asleep>>
      BY <2>2 DEF OledRefresh, timerVars
    <3>2. image \in Nat /\ image # 0  BY <1>2, TimeAssumption DEF TimeTypeOK
    <3>3. WriteLastFrame(off, image # 0, retryAfter)
      BY <3>1, <3>2 DEF WriteLastFrame
    <3>4. /\ off \in BOOLEAN /\ retryAfter \in Nat /\ (display => ~off /\ retryAfter = 0)
          /\ (~display /\ ~faulty => shown = 0) /\ off = asleep
      BY <1>2 DEF TimeTypeOK, IInv, PanelFollows, PanelInv
    <3>5. /\ display' \in BOOLEAN /\ retryAfter' \in Nat /\ shown' \in 0..image
          /\ faulty' \in BOOLEAN /\ (~display' /\ ~faulty' => shown' = 0)
          /\ display' => ~off /\ retryAfter' = 0 /\ shown' = image
      BY <1>2, <3>2, <3>3, <3>4, FrameWritten, Zenon
    <3>6. requested' = image' /\ image' \in Nat /\ image' # 0 /\ requested' \in 0..image'
      BY <3>1, <3>2
    <3>7. PanelTyped' /\ PanelInv'
      <4>1. off' \in BOOLEAN /\ shown' \in 0..image'  BY <3>1, <3>4, <3>5
      <4> QED  BY <3>5, <3>6, <4>1 DEF PanelTyped, PanelInv
    <3>8. PanelFollows'
      <4>1. display' => ~off' /\ retryAfter' = 0 /\ 0 < requested' /\ requested' <= shown'
        BY <3>1, <3>2, <3>5, <3>6
      <4>2. off' = asleep'  BY <3>1, <3>4
      <4>3. off' => ~display'  BY <4>1
      <4> QED  BY <3>5, <4>1, <4>2, <4>3 DEF PanelFollows
    <3> QED  BY <3>7, <3>8
  <2> QED  BY <2>1, <2>2
<1>4. TimeTypeOK'
  BY <1>1, <1>2, <1>3, TypedRest DEF Devices, IInv, TimeTypeOK, Calls
<1>5. wpc = "firmware" /\ wpc' = "firmware"
  BY <1>2 DEF FirmwareDraws, OledRefresh
<1>6. CallInv' /\ ServiceInv' /\ PollInv' /\ WaitBlocks'
  BY <1>5 DEF CallInv, ServiceInv, PollInv, WaitBlocks
<1> QED  BY <1>1, <1>3, <1>4, <1>6 DEF IInv

\* A wait begins by trying a display whose retry is due.
LEMMA WaitSafe ==
    ASSUME IInv, Devices, NEW millis \in Nat, Wait(millis)
    PROVE  IInv'
<1>1. TimeInv' /\ TimerTyped'
  BY DEF Wait, IInv, TimeInv, SuspensionInv, AwakeTimeOnly, TimerValue,
         clockVars, timerVars, Devices, TimerTyped
<1>2. /\ TimeTypeOK /\ UNCHANGED <<raw, awake, image, timeout, timer, asleep>> /\ wpc' = "service"
      /\ wait' = [flush |-> FALSE, start |-> 0, millis |-> millis, left |-> millis, began |-> awake]
  BY DEF Wait, IInv, clockVars, timerVars
<1>3. PanelTyped' /\ PanelFollows' /\ PanelInv' /\ (~off => retryAfter' = 0 \/ raw < retryAfter')
  <2>1. CASE display \/ retryAfter = 0
    <3>1. UNCHANGED <<display, retryAfter, off, requested, shown, faulty>>
      BY <2>1 DEF Wait, EmulatorPoll, panelVars
    <3> QED
      BY <1>2, <2>1, <3>1 DEF Devices, PanelTyped, PanelFollows, PanelInv
  <2>2. CASE ~(display \/ retryAfter = 0)
    <3>1. WriteLastFrame(off, requested # 0, retryAfter) /\ UNCHANGED <<off, requested>>
      BY <2>2 DEF Wait, EmulatorPoll
    <3>2. off \in BOOLEAN /\ requested \in Nat /\ retryAfter \in Nat /\ ~display
          /\ (retryAfter # 0 => requested # 0) /\ (~display /\ ~faulty => shown = 0) /\ off = asleep
      BY <1>2, <2>2 DEF TimeTypeOK, IInv, PanelInv, PanelFollows
    <3>3. /\ display' \in BOOLEAN /\ retryAfter' \in Nat /\ shown' \in 0..image
          /\ faulty' \in BOOLEAN /\ (~display' /\ ~faulty' => shown' = 0)
          /\ display' => ~off /\ retryAfter' = 0 /\ requested # 0 /\ shown' = image
          /\ retryAfter' # 0 => requested # 0
          /\ ~off => retryAfter' = 0 \/ raw < retryAfter'
      BY <1>2, <3>1, <3>2, FrameWritten, Zenon
    <3>4. PanelTyped' /\ PanelInv'
      <4>1. off' \in BOOLEAN /\ shown' \in 0..image' /\ requested' \in 0..image'
        BY <1>2, <3>1, <3>2, <3>3 DEF TimeTypeOK
      <4> QED  BY <3>1, <3>3, <4>1 DEF PanelTyped, PanelInv
    <3>5. display' => 0 < requested' /\ requested' <= shown'
      BY <1>2, <3>1, <3>3 DEF TimeTypeOK
    <3>6. PanelFollows'
      <4>1. off' = asleep' /\ (off' => ~display') /\ (display' => ~off' /\ retryAfter' = 0)
        BY <1>2, <3>1, <3>2, <3>3
      <4> QED  BY <3>3, <3>5, <4>1 DEF PanelFollows
    <3> QED  BY <3>3, <3>4, <3>6
  <2> QED  BY <2>1, <2>2
<1>4. TimeTypeOK'
  BY <1>1, <1>2, <1>3, TypedRest DEF Devices, IInv, TimeTypeOK, Calls
<1>5. timer.suspended = off
  BY DEF IInv, TimeInv, SuspensionInv, PanelFollows
<1>6. CallInv' /\ ServiceInv' /\ PollInv' /\ WaitBlocks'
  BY <1>2, <1>3, <1>5 DEF CallInv, ServiceInv, PollInv, WaitBlocks
<1> QED  BY <1>1, <1>3, <1>4, <1>6 DEF IInv

\* usbFlush and a poll: what begins, goes on or ends a wait, apart from records.
LEMMA FlushSafe ==
    ASSUME IInv, Devices, NEW millis \in Nat, Flush(millis) \/ FlushCheck
    PROVE  IInv'
<1>1. /\ Devices' /\ TimeTypeOK
      /\ UNCHANGED <<raw, awake, image, timer, asleep, timeout, retryAfter, display, off, requested, shown, faulty>>
  BY DevicesKept DEF Flush, FlushCheck, IInv, clockVars, timerVars, panelVars
<1>2. TimerMs \in Nat
  <2>1. TimerValue = awake  BY DEF IInv, TimeInv, AwakeTimeOnly
  <2>2. TimerValue \in Int /\ Width \in Nat \ {0}
    BY <1>1, <2>1, TimeAssumption DEF TimeTypeOK
  <2> QED  BY <2>2, Remainder DEF TimerMs
<1>3. /\ wpc' \in {"flush", "firmware", "service"}
      /\ wpc' # "firmware" => wait'.flush
      /\ wait' \in Calls
  <2>1. CASE Flush(millis)
    BY <1>1, <1>2, <2>1 DEF Flush, TimeTypeOK, Calls
  <2>2. CASE FlushCheck
    <3> DEFINE elapsed == Elapsed(wait.start)
    <3>1. wait.flush /\ wait.start \in Nat /\ wait.millis \in Nat
      BY <1>1, <2>2 DEF FlushCheck, IInv, CallInv, TimeTypeOK
    <3>2. TimerMs + Width - wait.start \in Int /\ Width \in Nat \ {0}
      BY <1>2, <3>1, TimeAssumption
    <3>3. elapsed \in Nat
      <4>1. (TimerMs + Width - wait.start) % Width \in 0..(Width - 1)  BY <3>2, Remainder
      <4> QED  BY <4>1 DEF Elapsed
    <3>4. CASE elapsed >= wait.millis
      <4>1. wpc' = "firmware" /\ wait' = NoCall  BY <2>2, <3>4 DEF FlushCheck
      <4> QED  BY <4>1, NoCallTyped
    <3>5. CASE ~(elapsed >= wait.millis)
      <4>1. wpc' = "service" /\ wait' = [wait EXCEPT !.left = wait.millis - elapsed]
        BY <2>2, <3>5 DEF FlushCheck
      <4>2. wait.millis - elapsed \in Nat  BY <3>1, <3>3, <3>5
      <4> HIDE DEF elapsed
      <4> QED  BY <1>1, <3>1, <4>1, <4>2 DEF TimeTypeOK, Calls
    <3> QED  BY <3>4, <3>5
  <2> QED  BY <2>1, <2>2
<1>4. TimeTypeOK'  BY <1>1, <1>3, TypedRest DEF TimeTypeOK, Calls
<1>5. CallInv' /\ ServiceInv' /\ PollInv' /\ WaitBlocks'
  BY <1>3 DEF CallInv, ServiceInv, PollInv, WaitBlocks
<1> QED  BY <1>1, <1>4, <1>5 DEF IInv, Devices

\* A poll that begins is bounded by the timeout computed for it.
LEMMA PollSafe ==
    ASSUME IInv, Devices, PollBegins
    PROVE  IInv'
<1>1. /\ Devices' /\ TimeTypeOK
      /\ UNCHANGED <<raw, awake, image, timer, asleep, wait, retryAfter, display, off, requested, shown, faulty>>
      /\ wpc = "service" /\ wpc' = "polling"
      /\ timeout' = [entered |-> raw, length |-> PollTimeout(wait.left)]
  BY DevicesKept DEF PollBegins, IInv, clockVars, timerVars, panelVars
<1>2. wait.left \in Nat /\ raw \in Nat  BY <1>1 DEF TimeTypeOK
<1>3. PollTimeout(wait.left) \in Nat  BY <1>1, <1>2, TimeoutBounded
<1>4. TimeTypeOK'  BY <1>1, <1>2, <1>3, TypedRest DEF TimeTypeOK, Calls
<1>5. PollInv'
  BY <1>1, <1>2, <1>3, TimeoutBounded DEF PollInv
<1>6. WaitBlocks'
  <2>1. CASE timer.suspended
    BY <1>1, <1>2, <1>3, <2>1, TimeAssumption DEF WaitBlocks, PollTimeout, Forever
  <2>2. CASE ~timer.suspended
    BY <1>1, <1>2, <2>2, TimeoutBounded DEF WaitBlocks, IInv, ServiceInv
  <2> QED  BY <2>1, <2>2
<1>7. CallInv' /\ ServiceInv'  BY <1>1 DEF CallInv, ServiceInv
<1> QED  BY <1>1, <1>4, <1>5, <1>6, <1>7 DEF IInv, Devices

\* A service of a record, without a wait or at the end of one.
LEMMA ServiceSafe ==
    ASSUME IInv, Devices, NEW kind \in RecordKind, UsbPoll(kind) \/ PollReturns(kind)
    PROVE  IInv'
<1>1. TimeTypeOK /\ Handle(kind) /\ UNCHANGED <<clockVars, image, timeout>>
  BY DEF UsbPoll, PollReturns, IInv
<1>2. Devices'  BY <1>1, Handled
<1>3. /\ wpc' \in {"firmware", "flush", "check", "service"}
      /\ wpc' = "service" => timer'.suspended
      /\ wpc' \in {"flush", "check"} => wait'.flush
      /\ wait' \in Calls
  <2>1. CASE UsbPoll(kind)
    BY <1>1, <2>1 DEF UsbPoll, TimeTypeOK, IInv, CallInv, Calls
  <2>2. CASE PollReturns(kind)
    <3>1. wait \in Calls /\ wait.flush \in BOOLEAN  BY <1>1 DEF TimeTypeOK, Calls
    <3>2. CASE timer'.suspended
      <4>1. wpc' = "service" /\ wait' = wait  BY <2>2, <3>2 DEF PollReturns
      <4> QED  BY <3>1, <3>2, <4>1
    <3>3. CASE ~timer'.suspended
      <4>1. CASE wait.flush
        BY <2>2, <3>1, <3>3, <4>1 DEF PollReturns
      <4>2. CASE ~wait.flush
        <5>1. wpc' = "firmware" /\ wait' = NoCall  BY <2>2, <3>3, <4>2 DEF PollReturns
        <5> QED  BY <5>1, NoCallTyped
      <4> QED  BY <4>1, <4>2
    <3> QED  BY <3>2, <3>3
  <2> QED  BY <2>1, <2>2
<1>4. TimeTypeOK'  BY <1>1, <1>2, <1>3, TypedRest DEF TimeTypeOK, clockVars, timerVars, Calls
<1>5. CallInv' /\ ServiceInv' /\ PollInv' /\ WaitBlocks'
  BY <1>3 DEF CallInv, ServiceInv, PollInv, WaitBlocks
<1> QED  BY <1>2, <1>4, <1>5 DEF IInv, Devices

\* A millisecond passes.
LEMMA TickSafe ==
    ASSUME IInv, Devices, Tick
    PROVE  IInv'
<1>1. /\ TimeTypeOK /\ UNCHANGED <<timer, asleep, image, display, retryAfter, off, requested, shown,
                                  faulty, wpc, wait, timeout>>
      /\ raw' = raw + 1 /\ awake' = (IF timer.suspended THEN awake ELSE awake + 1)
      /\ wpc = "firmware" \/ (wpc = "polling" /\ raw < timeout.entered + timeout.length)
  <2>1. timer.suspended = asleep  BY DEF IInv, TimeInv, SuspensionInv
  <2> QED  BY <2>1 DEF Tick, IInv, panelVars, waitVars, timerVars
<1>2. TimeInv'
  BY <1>1 DEF IInv, TimeTypeOK, TimeInv, SuspensionInv, AwakeTimeOnly, TimerValue
<1>3. TimerTyped' /\ PanelTyped' /\ PanelFollows' /\ PanelInv'
  BY <1>1 DEF Devices, TimerTyped, PanelTyped, PanelFollows, PanelInv
<1>4. raw' \in Nat \ {0} /\ awake' \in Nat  BY <1>1 DEF TimeTypeOK
<1>5. TimeTypeOK'  BY <1>1, <1>2, <1>3, <1>4, TypedRest DEF Devices, TimeTypeOK, Calls
<1>6. CallInv' /\ ServiceInv' /\ WaitBlocks'
  BY <1>1 DEF IInv, CallInv, ServiceInv, WaitBlocks
<1>7. PollInv'
  BY <1>1 DEF IInv, PollInv, TimeTypeOK
<1> QED  BY <1>2, <1>3, <1>5, <1>6, <1>7 DEF IInv

\* Every step keeps the invariant.
LEMMA StepSafe == IInv /\ [TimeNext]_timeVars => IInv'
<1> SUFFICES ASSUME IInv, [TimeNext]_timeVars PROVE IInv'  OBVIOUS
<1>1. Devices  BY TypedDevices DEF IInv, Devices
<1>2. ASSUME NEW millis \in 0..(Width - 1), Wait(millis) \/ Flush(millis) PROVE IInv'
  <2>1. millis \in Nat  BY TimeAssumption
  <2> QED  BY <1>1, <1>2, <2>1, WaitSafe, FlushSafe
<1>3. ASSUME NEW kind \in RecordKind, UsbPoll(kind) \/ PollReturns(kind) PROVE IInv'
  BY <1>1, <1>3, ServiceSafe
<1>4. CASE FirmwareDraws \/ OledRefresh  BY <1>1, <1>4, DrawSafe
<1>5. CASE FlushCheck  BY <1>1, <1>5, FlushSafe
<1>6. CASE PollBegins  BY <1>1, <1>6, PollSafe
<1>7. CASE Tick  BY <1>1, <1>7, TickSafe
<1>8. CASE UNCHANGED timeVars
  <2>1. Devices'  BY <1>1, <1>8, DevicesKept DEF timeVars
  <2>2. UNCHANGED <<raw, awake, timer, asleep, image, display, retryAfter, off, requested, shown, faulty, wpc, wait, timeout>>
    BY <1>8 DEF timeVars, clockVars, timerVars, panelVars, waitVars
  <2>3. TimeTypeOK'  BY <2>2 DEF IInv, TimeTypeOK
  <2>4. CallInv' /\ ServiceInv' /\ PollInv' /\ WaitBlocks'
    BY <2>2 DEF IInv, CallInv, ServiceInv, PollInv, WaitBlocks
  <2> QED  BY <2>1, <2>3, <2>4 DEF IInv, Devices
<1> QED  BY <1>2, <1>3, <1>4, <1>5, <1>6, <1>7, <1>8 DEF TimeNext

\* The worker starts with the invariant.
LEMMA InitSafe == TimeInit => IInv
<1> SUFFICES ASSUME TimeInit PROVE IInv  OBVIOUS
<1>1. TimeTypeOK
  <2>1. wait \in Calls  BY NoCallTyped DEF TimeInit
  <2>2. timer \in [at : Nat, total : Nat, suspended : BOOLEAN]  BY DEF TimeInit
  <2>3. timeout \in [entered : Nat, length : Nat]  BY DEF TimeInit
  <2>4. image \in 1..Frames /\ requested \in 0..image /\ shown \in 0..image
    BY TimeAssumption DEF TimeInit
  <2>5. display \in BOOLEAN /\ off \in BOOLEAN /\ asleep \in BOOLEAN /\ faulty \in BOOLEAN
    BY DEF TimeInit
  <2>6. raw \in Nat \ {0} /\ awake \in Nat /\ retryAfter \in Nat  BY DEF TimeInit
  <2>7. wpc \in {"firmware", "flush", "check", "service", "polling"}  BY DEF TimeInit
  <2> QED  BY <2>1, <2>2, <2>3, <2>4, <2>5, <2>6, <2>7 DEF TimeTypeOK, Calls
<1>2. TimeInv
  <2>1. timer.suspended = FALSE /\ asleep = FALSE  BY DEF TimeInit
  <2>2. AwakeTimeOnly  BY <2>1 DEF TimeInit, AwakeTimeOnly, TimerValue
  <2> QED  BY <2>1, <2>2 DEF TimeInv, SuspensionInv
<1> QED
  BY <1>1, <1>2
     DEF TimeInit, IInv, PanelFollows, PanelInv, CallInv, ServiceInv, PollInv, WaitBlocks

\* The invariant gives the bound on how long a poll sleeps.
LEMMA SleepBounded == IInv => NeverOversleeps
  BY DEF IInv, PollInv, NeverOversleeps, TimeTypeOK

\* It is an invariant.
LEMMA Invariance == TimeSpec => []IInv
  BY InitSafe, StepSafe, PTL DEF TimeSpec
-----------------------------------------------------------------------------
(* usbFlush.                                                               *)

\* A flush began in the past, by the firmware's time, and not longer ago than it is to
\* last; what is left when it services, and the poll it is in, end with it. While
\* suspended both may be stale: the time is looked at again after the RESUME.
FlushTime ==
    /\ wait.millis < Width /\ wait.start = wait.began % Width
    /\ wait.began <= awake /\ awake <= wait.began + wait.millis
    /\ wpc = "service" /\ ~timer.suspended => awake + wait.left <= wait.began + wait.millis
    /\ wpc = "polling" /\ ~timer.suspended =>
           awake + timeout.entered + timeout.length <= wait.began + wait.millis + raw
FlushInv ==
    /\ wpc = "firmware" => ~wait.flush
    /\ wait.flush => FlushTime

\* Division by the width, and the unsigned difference of two readings of timer_ms: the
\* time between them, if it is less than the width, although they wrapped.
LEMMA Quotient ==
    ASSUME NEW a \in Int, NEW b \in Nat \ {0}
    PROVE a \div b \in Int /\ a % b \in 0..(b-1) /\ a = (a \div b) * b + (a % b)
OBVIOUS

LEMMA RemainderIs ==
    ASSUME NEW b \in Nat \ {0}, NEW q \in Int, NEW r \in 0..(b - 1)
    PROVE  (q * b + r) % b = r
OBVIOUS

LEMMA NoRemainder ==
    ASSUME NEW b \in Nat \ {0}, NEW r \in 0..(b - 1)
    PROVE  r % b = r /\ (r + b) % b = r
OBVIOUS

LEMMA Difference ==
    ASSUME NEW b \in Nat \ {0}, NEW a \in Nat, NEW e \in 0..(b - 1)
    PROVE  (((a + e) % b) + b - (a % b)) % b = e
<1> DEFINE q == a \div b
           r == a % b
<1>1. q \in Int /\ r \in 0..(b - 1) /\ a = q * b + r
    BY Quotient
<1> HIDE DEF q, r
<1>2. CASE r + e < b
    <2>1. a + e = q * b + (r + e) /\ r + e \in 0..(b - 1)
        BY <1>1, <1>2
    <2>2. (a + e) % b = r + e
        BY <2>1, <1>1, RemainderIs
    <2>3. ((a + e) % b) + b - r = e + b
        BY <1>1, <2>2
    <2> QED
        BY <2>3, NoRemainder DEF r
<1>3. CASE ~(r + e < b)
    <2>1. a + e = (q + 1) * b + (r + e - b) /\ r + e - b \in 0..(b - 1) /\ q + 1 \in Int
        BY <1>1, <1>3
    <2>2. (a + e) % b = r + e - b
        BY <2>1, RemainderIs
    <2>3. ((a + e) % b) + b - r = e
        BY <1>1, <2>2
    <2> QED
        BY <2>3, NoRemainder DEF r
<1> QED
    BY <1>2, <1>3

\* What timer_ms measures from the start of a flush: its age.
LEMMA AgeMeasured ==
    ASSUME IInv, FlushInv, wait.flush
    PROVE  Elapsed(wait.start) = awake - wait.began /\ awake - wait.began \in Nat
<1>1. /\ Width \in Nat \ {0} /\ awake \in Nat /\ wait.began \in Nat /\ wait.millis \in Nat
      /\ wait.start = wait.began % Width /\ TimerMs = awake % Width
  BY TimeAssumption DEF IInv, TimeTypeOK, TimeInv, AwakeTimeOnly, TimerMs, FlushInv, FlushTime
<1> DEFINE age == awake - wait.began
<1>2. age \in 0..(Width - 1) /\ awake = wait.began + age
  BY <1>1 DEF FlushInv, FlushTime
<1> HIDE DEF age
<1>3. (((wait.began + age) % Width) + Width - (wait.began % Width)) % Width = age
  BY <1>1, <1>2, Difference
<1>4. Elapsed(wait.start) = age
  BY <1>1, <1>2, <1>3 DEF Elapsed
<1> QED  BY <1>2, <1>4 DEF age

\* It begins with age 0 ...
LEMMA FlushBegins ==
    ASSUME IInv, NEW millis \in 0..(Width - 1), Flush(millis)
    PROVE  FlushInv'
<1>1. /\ wpc' = "flush" /\ awake' = awake
      /\ wait' = [flush |-> TRUE, start |-> TimerMs, millis |-> millis, left |-> millis, began |-> awake]
  BY DEF Flush, clockVars, timerVars
<1>2. awake \in Nat /\ millis \in Nat /\ millis < Width /\ TimerMs = awake % Width
  BY TimeAssumption DEF IInv, TimeTypeOK, TimeInv, AwakeTimeOnly, TimerMs
<1> QED  BY <1>1, <1>2 DEF FlushInv, FlushTime

\* ... and at each check is over, or goes on for the rest.
LEMMA FlushChecked ==
    ASSUME IInv, FlushInv, FlushCheck
    PROVE  FlushInv' /\ (wpc' = "firmware" => awake - wait.began >= wait.millis)
<1> DEFINE age == awake - wait.began
<1>1. /\ wpc = "check" /\ wait.flush /\ Elapsed(wait.start) = age /\ age \in Nat
      /\ UNCHANGED <<raw, awake, timer, asleep, timeout>> /\ FlushTime
      /\ wait \in [flush : BOOLEAN, start : Nat, millis : Nat, left : Nat, began : Nat]
  BY AgeMeasured DEF FlushCheck, IInv, CallInv, clockVars, timerVars, FlushInv, TimeTypeOK
<1>2. CASE age >= wait.millis
  <2>1. wpc' = "firmware" /\ wait' = NoCall  BY <1>1, <1>2 DEF FlushCheck
  <2> QED  BY <1>2, <2>1 DEF FlushInv, NoCall
<1>3. CASE ~(age >= wait.millis)
  <2>1. wpc' = "service" /\ wait' = [wait EXCEPT !.left = wait.millis - age]
    BY <1>1, <1>3 DEF FlushCheck
  <2>2. /\ wait'.flush = wait.flush /\ wait'.start = wait.start /\ wait'.millis = wait.millis
        /\ wait'.began = wait.began /\ wait'.left = wait.millis - age
    BY <1>1, <2>1
  <2>3. awake \in Nat /\ wait.began \in Nat /\ wait.millis \in Nat
    BY <1>1 DEF IInv, TimeTypeOK
  <2> QED  BY <1>1, <2>1, <2>2, <2>3 DEF FlushInv, FlushTime
<1> QED  BY <1>2, <1>3

\* Steps in which no time passes and the call goes on, but for the polls.
LEMMA FlushUntouched ==
    ASSUME FlushInv, UNCHANGED <<awake, wait>>,
           wpc' = "firmware" => wpc = "firmware" \/ ~wait.flush,
           wpc' # "polling",
           wpc' = "service" => timer'.suspended
    PROVE  FlushInv'
  BY DEF FlushInv, FlushTime

LEMMA FlushKept == IInv /\ FlushInv /\ [TimeNext]_timeVars => FlushInv'
<1> SUFFICES ASSUME IInv, FlushInv, [TimeNext]_timeVars PROVE FlushInv'  OBVIOUS
<1>1. /\ raw \in Nat /\ awake \in Nat
      /\ wait \in [flush : BOOLEAN, start : Nat, millis : Nat, left : Nat, began : Nat]
      /\ timeout \in [entered : Nat, length : Nat] /\ TimeTypeOK
  BY DEF IInv, TimeTypeOK
<1>2. ASSUME NEW millis \in 0..(Width - 1), Wait(millis) PROVE FlushInv'
  <2>1. wpc' = "service" /\ ~wait'.flush  BY <1>2 DEF Wait
  <2> QED  BY <2>1 DEF FlushInv
<1>3. ASSUME NEW millis \in 0..(Width - 1), Flush(millis) PROVE FlushInv'
  BY <1>3, FlushBegins
<1>4. CASE FlushCheck  BY <1>4, FlushChecked
<1>5. ASSUME NEW kind \in RecordKind, UsbPoll(kind) PROVE FlushInv'
  <2>1. /\ UNCHANGED <<awake, wait>> /\ wpc' \in {"check", "firmware"}
        /\ wpc' = "firmware" => wpc = "firmware"
    BY <1>5 DEF UsbPoll, clockVars, timerVars
  <2> QED  BY <2>1, FlushUntouched
<1>6. ASSUME NEW kind \in RecordKind, PollReturns(kind) PROVE FlushInv'
  <2>1. awake' = awake /\ wpc' \in {"service", "flush", "firmware"}
    BY <1>6 DEF PollReturns, clockVars, timerVars
  <2>2. CASE timer'.suspended
    <3>1. wpc' = "service" /\ wait' = wait  BY <1>6, <2>2 DEF PollReturns
    <3> QED  BY <2>1, <2>2, <3>1, FlushUntouched
  <2>3. CASE ~timer'.suspended /\ wait.flush
    <3>1. wpc' = "flush" /\ wait' = wait  BY <1>6, <2>3 DEF PollReturns
    <3> QED  BY <2>1, <3>1, FlushUntouched
  <2>4. CASE ~timer'.suspended /\ ~wait.flush
    <3>1. ~wait'.flush  BY <1>6, <2>4 DEF PollReturns, NoCall
    <3> QED  BY <3>1 DEF FlushInv
  <2> QED  BY <2>2, <2>3, <2>4
<1>7. CASE PollBegins
  <2>1. /\ wpc = "service" /\ wpc' = "polling" /\ UNCHANGED <<raw, awake, timer, asleep, wait>>
        /\ timeout' = [entered |-> raw, length |-> PollTimeout(wait.left)]
    BY <1>7 DEF PollBegins, clockVars, timerVars
  <2>2. /\ PollTimeout(wait.left) \in Nat
        /\ ~timer.suspended => PollTimeout(wait.left) <= wait.left
    BY <1>1, TimeoutBounded
  <2> QED  BY <1>1, <2>1, <2>2 DEF FlushInv, FlushTime
<1>8. CASE Tick
  <2>1. /\ UNCHANGED <<timer, asleep, wpc, wait, timeout>> /\ raw' = raw + 1
        /\ awake' = (IF timer.suspended THEN awake ELSE awake + 1)
        /\ wpc = "firmware" \/ (wpc = "polling" /\ raw < timeout.entered + timeout.length)
    <3>1. timer.suspended = asleep  BY DEF IInv, TimeInv, SuspensionInv
    <3> QED  BY <1>8, <3>1 DEF Tick, waitVars, timerVars
  <2> QED  BY <1>1, <2>1 DEF FlushInv, FlushTime
<1>9. CASE FirmwareDraws \/ OledRefresh
  <2>1. UNCHANGED <<awake, wait>> /\ wpc = "firmware" /\ wpc' = "firmware"
    BY <1>9 DEF FirmwareDraws, OledRefresh, clockVars, timerVars, waitVars
  <2> QED  BY <2>1, FlushUntouched
<1>10. CASE UNCHANGED timeVars
  BY <1>10 DEF timeVars, clockVars, timerVars, waitVars, FlushInv, FlushTime
<1> QED
  BY <1>2, <1>3, <1>4, <1>5, <1>6, <1>7, <1>8, <1>9, <1>10 DEF TimeNext

LEMMA FlushInvariance == TimeSpec => []FlushInv
<1>1. TimeInit => FlushInv  BY DEF TimeInit, FlushInv, NoCall
<1> QED  BY <1>1, Invariance, FlushKept, PTL DEF TimeSpec

\* Only a check ends a flush.
LEMMA FlushEnds ==
    IInv /\ FlushInv /\ [TimeNext]_timeVars =>
        [wpc = "check" /\ wpc' = "firmware" => awake - wait.began >= wait.millis]_timeVars
<1> SUFFICES ASSUME IInv, FlushInv, [TimeNext]_timeVars, wpc = "check", wpc' = "firmware"
             PROVE  awake - wait.began >= wait.millis
  OBVIOUS
<1>1. FlushCheck
  BY DEF TimeNext, Wait, Flush, UsbPoll, PollReturns, PollBegins, Tick, FirmwareDraws, OledRefresh, timeVars, waitVars
<1> QED  BY <1>1, FlushChecked

-----------------------------------------------------------------------------
(* The theorems.                                                           *)

\* Every variable keeps to the values its C counterpart can have.
THEOREM TypeCorrect == TimeSpec => []TimeTypeOK
<1>1. IInv => TimeTypeOK  BY DEF IInv
<1> QED  BY Invariance, <1>1, PTL

\* The firmware's time is the time it was awake, over any suspensions.
THEOREM TimeIsAwakeTime == TimeSpec => []AwakeTimeOnly
<1>1. IInv => AwakeTimeOnly  BY DEF IInv, TimeInv
<1> QED  BY Invariance, <1>1, PTL

\* A panel with a handle shows the firmware's frame; while suspended there is no
\* handle, and the panel is dark unless display-backends failed when last called.
THEOREM PanelShowsFrame == TimeSpec => []PanelFollows
<1>1. IInv => PanelFollows  BY DEF IInv
<1> QED  BY Invariance, <1>1, PTL

\* No wait sleeps past the firmware's deadline or the display's retry.
THEOREM WaitIsBounded == TimeSpec => []NeverOversleeps
  BY Invariance, SleepBounded, PTL

\* The firmware's regular wait never degenerates to a poll that returns at once.
THEOREM WaitReallyBlocks == TimeSpec => []WaitBlocks
<1>1. IInv => WaitBlocks  BY DEF IInv
<1> QED  BY Invariance, <1>1, PTL

\* usbFlush ends when the firmware was awake for as long as it was told, neither
\* before nor after, whatever suspensions and wraps of timer_ms come in between.
THEOREM FlushLastsItsTime == TimeSpec => FlushLasts
<1>1. IInv /\ FlushInv => (wait.flush => awake - wait.began <= wait.millis)
  BY DEF IInv, TimeTypeOK, FlushInv, FlushTime
<1> QED  BY Invariance, FlushInvariance, FlushEnds, <1>1, PTL DEF TimeSpec, FlushLasts
=============================================================================
