------------------------- MODULE MCLegacyController -------------------------
(* Instances of LegacyController for TLC: the OUT endpoint of the main     *)
(* interface, and that of U2F.                                             *)
EXTENDS LegacyController

AllRecords == {"bind", "unbind", "enable", "disable", "suspend", "resume", "quiesce", "end"}
=============================================================================
