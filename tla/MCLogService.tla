----------------------------- MODULE MCLogService -----------------------------
(* One client with one thread, one that two threads share.                 *)
EXTENDS LogService, TLC

CONSTANTS solo, shared, t1, t2, t3

MCOrder == <<solo, shared>>

MCOwner == (t1 :> solo) @@ (t2 :> shared) @@ (t3 :> shared)

MCLogsAt == [t \in Thread |-> 1]
=============================================================================
