------------------------------ MODULE MCWriterLock -----------------------------
(* Small instances of WriterLock for TLC.                                  *)
EXTENDS WriterLock, TLC

CONSTANTS w1, w2, w3, l1, l2   \* process instances

\* Two pids for five processes: every pid is used again.
RecycledPids == w1 :> 1 @@ w2 :> 2 @@ w3 :> 1 @@ l1 :> 2 @@ l2 :> 1
================================================================================
