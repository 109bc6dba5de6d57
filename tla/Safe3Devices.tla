----------------------------- MODULE Safe3Devices -----------------------------
(***************************************************************************)
(* The display and button drivers that Safe 3's Core calls (display_core.c,*)
(* display_resources.c, button_gpio.c, button_resources.c) from the start  *)
(* of the process to its end. In the supervised build their descriptors    *)
(* come from the record of initial resources (WorkerStart); other builds   *)
(* inherit them by number from the environment, or open them by path, and  *)
(* must then close them.                                                   *)
(*                                                                         *)
(* The library behind the display (display-backends) is external: it       *)
(* duplicates the descriptors it is given, as the caller closes its own    *)
(* right after.                                                            *)
(***************************************************************************)
EXTENDS WorkerStart, Integers

CONSTANTS
    Source,        \* of the descriptors, within {"supervisor", "inherited", "opened"}
    Content,       \* contents of a frame
    Blank,         \* the content after a reset
    Level,         \* backlight levels Core sets
    UseBacklight   \* USE_BACKLIGHT of the board

ASSUME SourceAssumption == Source \subseteq {"supervisor", "inherited", "opened"}
ASSUME ContentAssumption ==
    Blank \in Content /\ "dark" \notin Content /\ Level \subseteq Nat /\ UseBacklight \in BOOLEAN

VARIABLES
    source,       \* where this build takes its descriptors from
    call,         \* where the main thread is: "core" between calls
    held,         \* the open descriptors of the process, as <<owner, role>>
    selected,     \* display_backend once selected, or "none"
    registered,   \* shutdown_registered
    handler,      \* the C library runs display_shutdown_at_exit
    handle,       \* the backend of g_display.display, or "none"
    gfx,          \* gfx_bitblt_init calls without a gfx_bitblt_deinit
    frame,        \* g_display.framebuffer
    backlight,    \* g_display.backlight_level
    panel,        \* what the panel shows, or "dark"
    darkened,     \* the last display_backends_shutdown succeeded
    buttons       \* button driver: "off", "ready", or where button_init is

displayVars == <<selected, registered, handler, handle, gfx, frame, backlight, panel, darkened>>
deviceVars == <<startVars, source, call, held, displayVars, buttons>>

\* The descriptors that exist before any call of Core.
Given(src) ==
    CASE src = "supervisor" -> {<<"supervisor", r>> : r \in Role}
      [] src = "inherited" -> {<<"parent", r>> : r \in Role \ {"reconnect"}}
      [] OTHER -> {}
Duplicates == {<<"library", "bus">>, <<"library", "control">>}
Own(r) == <<"driver", r>>

displayUp == handle # "none"

DevicesInit ==
    /\ StartInit
    /\ source = "supervisor" /\ call = "begin"
    /\ held = {} /\ selected = "none" /\ registered = FALSE /\ handler = FALSE
    /\ handle = "none"
    /\ gfx = 0 /\ frame = Blank /\ backlight = 0
    /\ panel = "dark" /\ darkened = TRUE
    /\ buttons = "off"

\* Core begins: in the supervised build with what the record assigned,
\* elsewhere with what the environment says.
CoreBegins(src) ==
    /\ call = "begin"
    /\ IF src = "supervisor" THEN phase = "running" /\ worker = "safe3"
                             ELSE phase = "begin"
    /\ source' = src /\ call' = "core"
    /\ held' = Given(src)
    /\ selected' = (IF src = "supervisor" THEN backend ELSE "none")
    /\ UNCHANGED <<startVars, registered, handler, handle, gfx, frame, backlight, panel, darkened, buttons>>
-----------------------------------------------------------------------------
(* display_init and display_deinit.                                        *)

\* Mutant of DisplayInit: the flag is set before the result of atexit is known.
DisplayInit_FlagFirst(reset, atexitOk) ==
    /\ call = "core" /\ ~displayUp
    /\ registered' = TRUE /\ handler' = (handler \/ (~registered /\ atexitOk))
    /\ IF ~registered /\ ~atexitOk
       THEN UNCHANGED <<call, selected, gfx, frame, backlight>>
       ELSE /\ frame' = (IF reset THEN Blank ELSE frame)
            /\ backlight' = (IF UseBacklight THEN 0 ELSE 255)
            /\ gfx' = gfx + 1
            /\ selected' = (IF selected = "none" THEN "st7789-spi" ELSE selected)
            /\ call' = "bus"
    /\ UNCHANGED <<startVars, source, held, handle, panel, darkened, buttons>>

\* Register the shutdown once, prepare the frame, select a backend if none is.
\* The call fails at once when atexit does.
DisplayInit(reset, atexitOk) ==
    /\ call = "core" /\ ~displayUp
    /\ IF ~registered /\ ~atexitOk
       THEN UNCHANGED <<call, selected, registered, handler, gfx, frame, backlight>>
       ELSE /\ registered' = TRUE /\ handler' = (handler \/ ~registered)
            /\ frame' = (IF reset THEN Blank ELSE frame)
            /\ backlight' = (IF UseBacklight THEN 0 ELSE 255)
            /\ gfx' = gfx + 1
            /\ selected' = (IF selected = "none" THEN "st7789-spi" ELSE selected)
            /\ call' = "bus"
    /\ UNCHANGED <<startVars, source, held, handle, panel, darkened, buttons>>

\* Mutant of Released: the descriptors are closed whoever owns them.
Released_Any(fds) == {fd \in fds : fd[1] = "library" \/ fd[2] \notin {"bus", "control"}}

\* safe3_display_resources_release: what this driver opened itself.
Released(fds) == fds \ {Own("bus"), Own("control")}

\* display_init gives up: gfx_bitblt_deinit, and the descriptors released.
InitFails ==
    /\ held' = Released(held) /\ gfx' = gfx - 1 /\ call' = "core"
    /\ UNCHANGED <<startVars, source, selected, registered, handler, handle, frame, backlight,
                   panel, darkened, buttons>>

\* safe3_display_resources_acquire. What the supervisor sent is there; the
\* numbers in the environment parse, both, or the call fails; the bus is opened.
AcquireBus ==
    /\ call = "bus"
    /\ held' = held \cup (IF source = "opened" THEN {Own("bus")} ELSE {})
    /\ call' = (IF source = "opened" THEN "lines" ELSE "create")
    /\ UNCHANGED <<startVars, source, displayVars, buttons>>

\* Then the control lines are requested through the GPIO chip, which is closed.
AcquireLines ==
    /\ call = "lines"
    /\ held' = held \cup {Own("control")}
    /\ call' = "create"
    /\ UNCHANGED <<startVars, source, displayVars, buttons>>

AcquireFails ==
    /\ call \in {"bus", "lines"} /\ source # "supervisor"
    /\ InitFails

\* display_backends_create fails, and the descriptors are released ...
CreateFails == call = "create" /\ InitFails

\* ... or it succeeds, and they are released as well.
Create ==
    /\ call = "create"
    /\ held' = Released(held) \cup Duplicates
    /\ handle' = selected /\ panel' = Blank
    /\ call' = "core"
    /\ UNCHANGED <<startVars, source, selected, registered, handler, gfx, frame, backlight,
                   darkened, buttons>>

\* display_deinit of an initialized display. The handle goes even when the
\* panel could not be turned off.
Shutdown(reset, ok) ==
    /\ darkened' = ok
    /\ panel' = (IF ok THEN "dark" ELSE panel)
    /\ handle' = "none" /\ gfx' = gfx - 1
    /\ frame' = (IF reset THEN Blank ELSE frame)

DisplayDeinit(reset, ok) ==
    /\ call = "core" /\ displayUp
    /\ Shutdown(reset, ok)
    /\ held' = held \ Duplicates
    /\ UNCHANGED <<startVars, source, call, selected, registered, handler, backlight, buttons>>
-----------------------------------------------------------------------------
(* Drawing.                                                                *)

\* display_refresh: a frame that cannot be written is lost.
Refresh(ok) ==
    /\ call = "core" /\ displayUp
    /\ panel' = (IF ok THEN frame ELSE panel)
    /\ UNCHANGED <<startVars, source, call, held, selected, registered, handler, handle, gfx, frame,
                   backlight, darkened, buttons>>

\* display_set_backlight: where there is none, the level stays 255.
SetBacklight(level, ok) ==
    LET next == IF UseBacklight THEN level ELSE 255
    IN  /\ call = "core" /\ displayUp
        /\ backlight' = next
        /\ panel' = (IF next # backlight /\ ok THEN frame ELSE panel)
        /\ UNCHANGED <<startVars, source, call, held, selected, registered, handler, handle, gfx,
                       frame, darkened, buttons>>

\* display_fill and display_copy_mono1p, and Core writing the frame buffer.
Draw(content) ==
    /\ call = "core" /\ displayUp
    /\ frame' = content
    /\ UNCHANGED <<startVars, source, call, held, selected, registered, handler, handle, gfx,
                   backlight, panel, darkened, buttons>>
-----------------------------------------------------------------------------
(* Buttons.                                                                *)

\* button_init: safe3_button_resources_acquire ...
ButtonsAcquire(ok) ==
    /\ call = "core" /\ buttons = "off"
    /\ ok \/ source # "supervisor"
    /\ IF ok
       THEN /\ held' = held \cup (IF source = "opened" THEN {Own("buttons")} ELSE {})
            /\ buttons' = "acquired" /\ call' = "buttons"
       ELSE UNCHANGED <<held, buttons, call>>
    /\ UNCHANGED <<startVars, source, displayVars>>

\* ... then Core's button_poll_init; the lines are released when it fails.
ButtonsPolled(ok) ==
    /\ call = "buttons"
    /\ held' = (IF ok THEN held ELSE held \ {Own("buttons")})
    /\ buttons' = (IF ok THEN "ready" ELSE "off")
    /\ call' = "core"
    /\ UNCHANGED <<startVars, source, displayVars>>

ButtonsDeinit ==
    /\ call = "core" /\ buttons = "ready"
    /\ held' = held \ {Own("buttons")}
    /\ buttons' = "off"
    /\ UNCHANGED <<startVars, source, call, displayVars>>
-----------------------------------------------------------------------------
(* The end of the process.                                                 *)

\* exit() in the main thread runs display_shutdown_at_exit, when registered.
OrderlyExit(ok) ==
    /\ call = "core" /\ call' = "exited"
    /\ IF handler /\ displayUp
       THEN Shutdown(TRUE, ok)
       ELSE UNCHANGED <<handle, gfx, frame, panel, darkened>>
    /\ held' = {} /\ buttons' = "off"
    /\ UNCHANGED <<startVars, source, selected, registered, handler, backlight>>

DisplayCalls ==
    \/ \E reset, ok \in BOOLEAN : DisplayInit(reset, ok) \/ DisplayDeinit(reset, ok)
    \/ AcquireBus \/ AcquireLines \/ AcquireFails \/ Create \/ CreateFails
    \/ \E ok \in BOOLEAN : Refresh(ok)
    \/ \E level \in Level, ok \in BOOLEAN : SetBacklight(level, ok)
    \/ \E content \in Content : Draw(content)

ButtonCalls ==
    \/ \E ok \in BOOLEAN : ButtonsAcquire(ok) \/ ButtonsPolled(ok)
    \/ ButtonsDeinit

DevicesNext ==
    \/ call = "begin" /\ StartNext /\ UNCHANGED <<source, call, held, displayVars, buttons>>
    \/ \E src \in Source : CoreBegins(src)
    \/ DisplayCalls \/ ButtonCalls
    \/ \E ok \in BOOLEAN : OrderlyExit(ok)

\* The process has ended, or it is the other worker's.
DevicesDone ==
    /\ \/ phase \in {"usage", "refused", "exited"} \/ call = "exited"
       \/ phase = "running" /\ worker = "legacy"
    /\ UNCHANGED deviceVars

DevicesSpec == DevicesInit /\ [][DevicesNext \/ DevicesDone]_deviceVars
-----------------------------------------------------------------------------
(* Properties.                                                             *)

\* Every variable stays within the values its C counterpart can have.
DevicesTypeOK ==
    /\ source \in {"supervisor", "inherited", "opened"}
    /\ call \in {"begin", "core", "bus", "lines", "create", "buttons", "exited"}
    /\ held \subseteq {"supervisor", "parent", "driver", "library"} \X Role
    /\ selected \in Backend \cup {"none"} /\ handle \in Backend \cup {"none"}
    /\ registered \in BOOLEAN /\ handler \in BOOLEAN /\ darkened \in BOOLEAN
    /\ gfx \in Int
    /\ frame \in Content /\ panel \in Content \cup {"dark"}
    /\ backlight \in Level \cup {0, 255}
    /\ buttons \in {"off", "acquired", "ready"}

\* Whatever failed before, between two calls of Core the process holds the
\* descriptors it was given, the library's while the display is up and its own
\* button lines while they are in use: nothing leaks from a display_init or a
\* button_init that failed halfway, and what the supervisor sent survives, so
\* that another init can succeed, with the backend of the bus that was sent. The
\* library's canvas is balanced likewise.
DevicesBalanced ==
    call = "core" =>
        /\ source = "supervisor" /\ displayUp => handle = backend
        /\ held = Given(source)
                  \cup (IF displayUp THEN Duplicates ELSE {})
                  \cup (IF source = "opened" /\ buttons = "ready" THEN {Own("buttons")} ELSE {})
        /\ gfx = (IF displayUp THEN 1 ELSE 0)

\* docs/trezor-safe3.md: a clean shutdown turns the display off. Unless the
\* library failed to, the panel is dark after an orderly exit, however often
\* the display was initialized, failed to, or was shut down before.
PanelDarkAtExit == call = "exited" /\ darkened => panel = "dark"
=============================================================================
