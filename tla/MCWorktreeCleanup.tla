-------------------------- MODULE MCWorktreeCleanup --------------------------
(* A chat with the worktree, and one that is its fork or moves to it.         *)
EXTENDS WorktreeCleanup

CONSTANTS t1, t2
TwoThreads == {t1, t2}
=============================================================================
