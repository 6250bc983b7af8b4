-------------------------- MODULE MCTaskCheckpoint --------------------------
(* One session, two processes, bounded invocations and failures.           *)
EXTENDS TaskCheckpoint, TLC

Interchangeable == Permutations(Procs)

InputOps == {"submit", "replay", "interrupt", "resume", "bind", "lift", "pause", "reconcile",
             "sessionEnd"}
RetireOps == {"submit", "replay", "retire", "cancel", "recoverState", "recoverInput"}
=============================================================================
