---------------------------- MODULE UsbGenerations ----------------------------
(***************************************************************************)
(* What the worker and usb-gadget-supervisor promise each other about USB  *)
(* generations, whatever crosses in the socket between them: there is one  *)
(* at a time and its number is never used again; its descriptors are       *)
(* offered once, and opened, if at all, while the host does not see it;    *)
(* the host sees it only after they were opened; and it is removed, or     *)
(* replaced, only when the host does not see it and they are closed. The   *)
(* worker may also lose them: they stay open, out of its reach, until its  *)
(* process ends, and the generation is then removed with its files open.   *)
(***************************************************************************)
EXTENDS Naturals

VARIABLES
    active,     \* the generation there is, 0 for none
    newest,     \* the last that was created
    offered,    \* its descriptors are on their way to the worker
    open,       \* the generation whose descriptors the worker has open, 0 for none
    lost,       \* generations whose descriptors it has open and does not know of
    shown       \* the host sees the generation

generations == <<active, newest, offered, open, lost, shown>>

Init == active = 0 /\ newest = 0 /\ ~offered /\ open = 0 /\ lost = {} /\ ~shown

Create ==
    /\ open = 0 /\ ~shown /\ ~offered
    /\ newest' = newest + 1 /\ active' = newest' /\ offered'
    /\ UNCHANGED <<open, lost, shown>>

Open ==
    /\ offered /\ ~shown /\ open = 0 /\ active \notin lost
    /\ ~offered' /\ open' = active
    /\ UNCHANGED <<active, newest, lost, shown>>

Show ==
    /\ active # 0 /\ active \in {open} \cup lost /\ ~shown
    /\ shown'
    /\ UNCHANGED <<active, newest, offered, open, lost>>

Hide == shown /\ ~shown' /\ UNCHANGED <<active, newest, offered, open, lost>>

\* The worker closes them when asked to.
Close == open # 0 /\ open' = 0 /\ UNCHANGED <<active, newest, offered, lost, shown>>

\* It starts anew, without closing them.
Lose ==
    /\ open # 0
    /\ open' = 0 /\ lost' = lost \cup {open}
    /\ UNCHANGED <<active, newest, offered, shown>>

\* Its process ends, with or without the descriptors that were on their way.
End ==
    /\ open' = 0 /\ lost' = {} /\ (offered' => offered)
    /\ UNCHANGED <<active, newest, shown>>

Remove ==
    /\ active # 0 /\ open = 0 /\ ~shown /\ ~offered
    /\ active' = 0
    /\ UNCHANGED <<newest, offered, open, lost, shown>>

Next == Create \/ Open \/ Show \/ Hide \/ Close \/ Lose \/ End \/ Remove

Spec == Init /\ [][Next]_generations
=============================================================================
