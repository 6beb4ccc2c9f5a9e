---------------------------- MODULE MCSdWanNode ----------------------------
(* Small instances of SdWanNode for TLC. *)
EXTENDS SdWanNode
=============================================================================
