------------------------ MODULE MCWorkspaceLifecycle ------------------------
EXTENDS WorkspaceLifecycle, TLC

WorkerSymmetry == Permutations(Worker)
=============================================================================
