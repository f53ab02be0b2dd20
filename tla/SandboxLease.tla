---------------------------- MODULE SandboxLease ----------------------------
(***************************************************************************)
(* What the operations on the project promise whoever pays for sandboxes:  *)
(* one at a time.  A sandbox is created only when the one before it has    *)
(* been destroyed, or has been lost in a way the code reports, and one     *)
(* that is gone never comes back.  It is what the busy flag is there for,  *)
(* "one project, one sandbox, one operator"                                *)
(* (internal/project/service.go:35-36), without the row, its states, the   *)
(* requests and their contexts.                                            *)
(***************************************************************************)

CONSTANT Sandboxes   \* the ids the provider can give

VARIABLES
  made,    \* the sandboxes the provider has created
  alive    \* those that exist and that the project accounts for

Init == made = {} /\ alive = {}

(* Provision: it is created, and somebody knows of it ...                  *)
Create(b) == /\ alive = {} /\ b \notin made
             /\ made' = made \cup {b} /\ alive' = {b}

(* ... or it is created, and nobody comes to know of it.                   *)
CreateUnseen(b) == /\ alive = {} /\ b \notin made
                   /\ made' = made \cup {b} /\ UNCHANGED alive

(* It is destroyed, or given up.                                           *)
GiveUp == /\ alive # {} /\ alive' = {}
          /\ UNCHANGED made

Next == GiveUp \/ \E b \in Sandboxes : Create(b) \/ CreateUnseen(b)

Spec == Init /\ [][Next]_<<made, alive>>
=============================================================================
