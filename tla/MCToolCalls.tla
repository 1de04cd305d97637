---------------------------- MODULE MCToolCalls ----------------------------
(* The small instances of ToolCalls; their constants are in the            *)
(* configurations.                                                         *)
EXTENDS ToolCalls, TLC

=============================================================================
