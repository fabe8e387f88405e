---------------------------- MODULE MCPromptQueue -----------------------------
(* Small instances of PromptQueue for TLC.                                     *)
EXTENDS PromptQueue, TLC

CONSTANTS m1, m2, e1, w1, w2

Symmetry == Permutations(Msgs) \cup Permutations(Workers)
===============================================================================
