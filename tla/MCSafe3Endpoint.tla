--------------------------- MODULE MCSafe3Endpoint ---------------------------
(* Instances of Safe3Endpoint for TLC: the endpoints of one interface, or  *)
(* the OUT endpoints of two.                                               *)
EXTENDS Safe3Endpoint

CONSTANTS webusb, debug

OutOnly == {<<webusb, "out">>}
InOnly  == {<<webusb, "in">>}
AllRecords == {"enable", "disable", "suspend", "resume", "quiesce", "shutdown"}
LiveRecords == AllRecords \ {"shutdown"}
BusRecords == {"enable", "disable"}
OutAndIn == {<<webusb, "out">>, <<debug, "in">>}
=============================================================================
