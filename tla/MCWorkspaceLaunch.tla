------------------------- MODULE MCWorkspaceLaunch -------------------------
(* WorkspaceLaunch for TLC: interchangeable workers as model values.        *)
EXTENDS WorkspaceLaunch, TLC

Symmetry == Permutations(Worker)
=============================================================================
