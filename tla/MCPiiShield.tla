---------------------------- MODULE MCPiiShield ----------------------------
(* Small instances of PiiShield for TLC. *)
EXTENDS PiiShield

=============================================================================
