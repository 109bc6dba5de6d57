------------------------------ MODULE Safe3Control ------------------------------
(***************************************************************************)
(* Control requests of the host that the supervisor forwards to Safe 3     *)
(* (answer_control_request in usb_supervisor.c): one record in, one        *)
(* response out, and the HID class state of the interfaces in between. The *)
(* numbers of standard and class requests coincide, as do the low bytes of *)
(* indexes; bytes are reduced to lengths, but for the octets of the state. *)
(***************************************************************************)
EXTENDS Naturals

CONSTANTS
    Kind,     \* the types of the interfaces Core added, by number
    ReportLength,    \* report_descriptor_len
    Setup     \* the setup packets the host may send

ASSUME KindAssumption == \A i \in DOMAIN Kind : i \in Nat /\ Kind[i] \in {"webusb", "hid"}

\* uint8_t and uint16_t; bmRequestType, bRequest, the bytes of wValue, wIndex and
\* wLength.
Octet == 0..255
Short == 0..65535
SetupPacket ==
    [type : {"standard", "class", "vendor", "reserved"},
     recipient : {"device", "interface", "endpoint", "other"}, in : BOOLEAN,
     request : Octet, high : Octet, low : Octet, index : Short, length : Short]

ASSUME ReportLengthAssumption == ReportLength \in Octet
ASSUME SetupAssumption == Setup \subseteq SetupPacket

VARIABLES
    class,        \* hid_idle and hid_protocol of each interface
    configured,   \* g_usb.enabled
    asked,        \* the request, once it was answered
    response,     \* the response to it
    host          \* what the host last set, as it was acknowledged

controlVars == <<class, configured, asked, response, host>>

Zero == [idle |-> 0, protocol |-> 0]
NoRequest == [type |-> "none"]
Stall == [kind |-> "stall", length |-> 0, octet |-> 0]
Ack == [kind |-> "ack", length |-> 0, octet |-> 0]
Data(length, octet) == [kind |-> "data", length |-> length, octet |-> octet]

ControlInit ==
    /\ class = [i \in DOMAIN Kind |-> Zero] /\ host = class
    /\ configured = FALSE /\ asked = NoRequest /\ response = Stall
-----------------------------------------------------------------------------
\* interface_for_number((uint8_t)index).
Target(s) == s.index % 256
Present(s) == Target(s) \in DOMAIN Kind
Hid(s) == Present(s) /\ Kind[Target(s)] = "hid"

\* Standard requests. A SET_CONFIGURATION and its like are acknowledged: the
\* kernel acts on them.
Standard(s) ==
    CASE s.in /\ s.request = 6 /\ s.high = 34 /\ Hid(s) -> Data(ReportLength, 0)
      [] s.in /\ s.request = 6 /\ s.high = 3 /\ s.low = 238 -> Data(18, 0)
      [] s.in /\ s.request = 0 -> Data(2, 0)
      [] s.in /\ s.request = 8 -> Data(1, IF configured THEN 1 ELSE 0)
      [] s.in /\ s.request = 10 /\ s.recipient = "interface" /\ Present(s) -> Data(1, 0)
      [] ~s.in /\ s.request \in {1, 3, 9, 11} -> Ack
      [] OTHER -> Stall

\* HID requests of an interface.
Class(s) ==
    IF s.recipient # "interface" \/ ~Hid(s) THEN Stall
    ELSE CASE s.in /\ s.request = 2 -> Data(1, class[Target(s)].idle)
           [] s.in /\ s.request = 3 -> Data(1, class[Target(s)].protocol)
           [] s.in /\ s.request = 1 -> Data(0, 0)
           [] ~s.in /\ s.request \in {9, 10, 11} -> Ack
           [] OTHER -> Stall

\* The WebUSB landing page.
Vendor(s) ==
    IF /\ s.type = "vendor" /\ s.recipient = "device" /\ s.in
       /\ s.request = 1 /\ s.index = 2 /\ s.high = 0 /\ s.low = 1
    THEN Data(18, 0) ELSE Stall

\* Mutant of ClassAfter: the direction is not looked at.
ClassAfter_AnyDirection(s) ==
    IF s.type # "class" \/ s.recipient # "interface" \/ ~Hid(s) THEN class
    ELSE CASE s.request = 10 -> [class EXCEPT ![Target(s)].idle = s.high]
           [] s.request = 11 -> [class EXCEPT ![Target(s)].protocol = s.low]
           [] OTHER -> class

\* SET_IDLE and SET_PROTOCOL.
ClassAfter(s) ==
    IF s.type # "class" \/ s.recipient # "interface" \/ ~Hid(s) \/ s.in THEN class
    ELSE CASE s.request = 10 -> [class EXCEPT ![Target(s)].idle = s.high]
           [] s.request = 11 -> [class EXCEPT ![Target(s)].protocol = s.low]
           [] OTHER -> class

\* A response is cut to what the host asked for.
Cut(r, length) ==
    IF r.length <= length THEN r
    ELSE [r EXCEPT !.length = length, !.octet = IF length = 0 THEN 0 ELSE @]

\* What the host takes for set: the class requests it made of a HID interface
\* that were acknowledged.
HostSees(s, r) ==
    LET i == s.index % 256
    IN  IF r # Ack \/ s.type # "class" \/ i \notin DOMAIN Kind THEN host
        ELSE CASE s.request = 10 -> [host EXCEPT ![i].idle = s.high]
               [] s.request = 11 -> [host EXCEPT ![i].protocol = s.low]
               [] OTHER -> host

\* answer_control_request. Data that does not match the setup packet ends the
\* process; the supervisor sends the data of the packet it forwards.
AnswerControlRequest(s) ==
    LET r == CASE s.type = "standard" -> Standard(s)
               [] s.type = "class" -> Class(s)
               [] OTHER -> Vendor(s)
    IN  /\ asked = NoRequest /\ asked' = s
        /\ class' = ClassAfter(s)
        /\ response' = Cut(r, s.length)
        /\ host' = HostSees(s, r)
        /\ UNCHANGED configured

\* The host goes on, or configures or deconfigures the device.
NextRequest(now) ==
    /\ asked # NoRequest /\ asked' = NoRequest /\ response' = Stall
    /\ configured' = now
    /\ UNCHANGED <<class, host>>

ControlNext ==
    \/ \E s \in Setup : AnswerControlRequest(s)
    \/ \E now \in BOOLEAN : NextRequest(now)

ControlSpec == ControlInit /\ [][ControlNext]_controlVars
-----------------------------------------------------------------------------
(* Properties.                                                             *)

\* Every variable stays within the values its C counterpart can have.
ControlTypeOK ==
    /\ class \in [DOMAIN Kind -> [idle : Octet, protocol : Octet]]
    /\ host \in [DOMAIN Kind -> [idle : Octet, protocol : Octet]]
    /\ configured \in BOOLEAN /\ asked \in Setup \cup {NoRequest}
    /\ response \in [kind : {"stall", "ack", "data"}, length : Nat, octet : Octet]

\* Whatever sequence of requests the host makes: data only ever answers a
\* request for data, and no more of it than asked for; only a request with data
\* out, or none, is acknowledged; and the idle rate and protocol that an
\* interface has and reports are those of the last SET_IDLE and SET_PROTOCOL
\* acknowledged for it, though standard requests, other interfaces and the other
\* direction use the same numbers.
ControlAnswered ==
    /\ response.kind = "data" => asked.in /\ response.length <= asked.length
    /\ response.kind = "ack" => ~asked.in
    /\ class = host
    /\ response.kind = "data" /\ response.length = 1 /\ asked.type = "class" =>
          LET set == host[asked.index % 256]
          IN  response.octet = (IF asked.request = 2 THEN set.idle ELSE set.protocol)
=============================================================================
