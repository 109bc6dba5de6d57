-------------------------- MODULE MCSafe3Lifecycle --------------------------
(* Instances of Safe3Lifecycle for TLC.                                    *)
EXTENDS Safe3Lifecycle
=============================================================================
