------------------------ MODULE MCServeReplacement ------------------------
(* ServeReplacement for TLC: one original delivery and a few switches.       *)
EXTENDS ServeReplacement, TLC

HandlerSymmetry == Permutations(Handler)
=============================================================================
