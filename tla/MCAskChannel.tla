---------------------------- MODULE MCAskChannel ----------------------------
(* AskChannel for TLC. *)
EXTENDS AskChannel
=============================================================================
