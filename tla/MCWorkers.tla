------------------------------ MODULE MCWorkers ------------------------------
(***************************************************************************)
(* Instances for TLC of the parts of the workers that share no state: a    *)
(* behaviour is one of a single part, and the others stay at their start,  *)
(* so that the states of the parts add up instead of multiplying.          *)
(***************************************************************************)
EXTENDS WorkerButtons, Safe3Devices, Safe3Facade, Safe3Control, LegacyControl, LegacyTime,
        SequencesExt

VARIABLE part
workerVars == <<part, deviceVars, buttonVars, facadeVars, controlVars, ep0Vars, timeVars>>

Init ==
    /\ part \in {"devices", "buttons", "facade", "control", "ep0", "time"}
    /\ DevicesInit /\ ButtonsInit /\ FacadeInit /\ ControlInit /\ Ep0Init /\ TimeInit

Devices ==
    /\ part = "devices" /\ DevicesNext
    /\ UNCHANGED <<part, buttonVars, facadeVars, controlVars, ep0Vars, timeVars>>
Buttons ==
    /\ part = "buttons" /\ ButtonsNext
    /\ UNCHANGED <<part, deviceVars, facadeVars, controlVars, ep0Vars, timeVars>>
Facade ==
    /\ part = "facade" /\ FacadeNext
    /\ UNCHANGED <<part, deviceVars, buttonVars, controlVars, ep0Vars, timeVars>>
Control ==
    /\ part = "control" /\ ControlNext
    /\ UNCHANGED <<part, deviceVars, buttonVars, facadeVars, ep0Vars, timeVars>>
Ep0 ==
    /\ part = "ep0" /\ Ep0Next
    /\ UNCHANGED <<part, deviceVars, buttonVars, facadeVars, controlVars, timeVars>>
Time ==
    /\ part = "time" /\ TimeNext
    /\ UNCHANGED <<part, deviceVars, buttonVars, facadeVars, controlVars, ep0Vars>>

Next == Devices \/ Buttons \/ Facade \/ Control \/ Ep0 \/ Time

\* A process that has ended.
Terminated ==
    /\ \/ part = "devices" /\ DevicesDone
       \/ part = "buttons" /\ bpc = "ended"
       \/ part = "ep0" /\ step = "ended"
    /\ UNCHANGED workerVars

Spec == Init /\ [][Next \/ Terminated]_workerVars
-----------------------------------------------------------------------------
\* Option lists of up to three words: both options, alone and joined, with
\* values of either, of both and of none.
Word == {Alone("--display"), Alone("--i2c-display"),
         Joined("--display", "sh1106-spi"), Joined("--display", "ssd1306"),
         Joined("--i2c-display", "ssd1306"),
         Text("st7789-spi"), Text("sh1106"), Text("other")}
Lists(S, n) == UNION {[1..m -> S] : m \in 0..n}
AllArgv == Lists(Word, 3)

\* Records of up to three entries, with names of both workers and of none; and
\* for each worker those that have what it needs, in every order, and what they
\* become with another entry.
Name == {"display-sh1106-spi", "display-ssd1306-i2c", "display-spi", "display-control",
         "buttons", "reconnect-button", "other"}
Safe3Names == {"display-sh1106-spi", "display-control", "buttons", "reconnect-button"}
LegacyNames == {"display-spi", "display-control", "buttons"}
Complete == SetToSeqs(Safe3Names) \cup SetToSeqs(LegacyNames)
AllRecords ==
    [names : Lists(Name, 3), defect : {"none"}]
        \cup [names : Complete \cup {Append(s, n) : s \in Complete, n \in Name}, defect : {"none"}]
        \cup [names : Lists(Safe3Names, 2) \cup {<<"display-spi", "display-control", "buttons">>},
              defect : Defect]

\* A WebUSB and a HID interface, and requests that come close to those they
\* answer: of each type, recipient and direction, with each number that some
\* type uses, and with indexes of present, absent and truncated interfaces.
TwoKinds == [i \in {0, 1} |-> IF i = 0 THEN "webusb" ELSE "hid"]
AllSetups ==
    [type : {"standard", "class", "vendor", "reserved"}, recipient : {"device", "interface"},
     in : BOOLEAN, request : {0, 1, 2, 3, 6, 8, 9, 10, 11}, high : {0, 1}, low : {0, 1},
     index : {0, 1, 2, 257}, length : {0, 1}]
    \cup [type : {"standard"}, recipient : {"device", "interface"}, in : {TRUE},
          request : {6}, high : {3, 34}, low : {0, 238}, index : {0, 1}, length : {2, 64}]

AllSources == {"supervisor", "inherited", "opened"}
=============================================================================
