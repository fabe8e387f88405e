----------------------------- MODULE MCInterrupt ------------------------------
(* Small instances of Interrupt for TLC.                                       *)
EXTENDS Interrupt

CONSTANTS m1, e1, w1
===============================================================================
