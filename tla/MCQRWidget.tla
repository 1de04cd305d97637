----------------------------- MODULE MCQRWidget -----------------------------
(* The small instances of QRWidget; their constants are in the             *)
(* configurations.                                                         *)
EXTENDS QRWidget, TLC

=============================================================================
