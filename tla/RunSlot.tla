------------------------------ MODULE RunSlot ------------------------------
(***************************************************************************)
(* What the runs table promises the rest of the agent: one slot, held by   *)
(* at most one run.  The slot is taken when it is free and given back      *)
(* before another run takes it; it never passes from one run to another in *)
(* one step.  This is the promise of the unique index on runs(active)      *)
(* (internal/db/migrations/0001_init.sql:94-96) and of the comments on     *)
(* parkRun and resumeRun, without the status a run has while it holds the  *)
(* slot, without goroutines and without requests.                          *)
(***************************************************************************)

CONSTANT RunIds    \* the ids a run can have

VARIABLE holders   \* the runs whose row has active = 1

Init == holders = {}

(* startRun, or resumeRun of a run that had lost the slot.                 *)
Take(r) == /\ holders = {}
           /\ holders' = {r}

(* finishRun, or the boot's reconciliation of a run that was running.      *)
GiveBack == /\ holders # {}
            /\ holders' = {}

Next == GiveBack \/ \E r \in RunIds : Take(r)

Spec == Init /\ [][Next]_holders
=============================================================================
