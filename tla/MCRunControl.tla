---------------------------- MODULE MCRunControl ----------------------------
(* RunControl for TLC: model values for the goroutines and the requests.   *)
EXTENDS RunControl, FiniteSets, TLC

CONSTANTS l1, l2, q1, q2

OneLoop  == {l1}
TwoLoops == {l1, l2}
OneRequest  == {q1}
TwoRequests == {q1, q2}

(* Neither goroutines nor requests differ in anything but their state.     *)
Interchangeable == Permutations(Loops) \cup Permutations(Requests)

(* The bound of the run that checks safety: what complicates a run does    *)
(* not come all at once.  Beside a second goroutine there is no second run,*)
(* no failed statement and no plan to approve (a request that approves one *)
(* has read it before), and beside a second run no failed statement.  The  *)
(* states one step beyond are checked, and not explored further.           *)
SecondLoop == Cardinality({l \in Loops : loops[l] # Gone}) > 1
SecondRun  == \E r \in RunIds \ {1} : runs[r] # Absent

OneComplication ==
  /\ SecondLoop => ~SecondRun /\ faults = 0 /\ ~planPending
  /\ SecondRun => faults = 0
=============================================================================
