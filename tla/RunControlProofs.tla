-------------------------- MODULE RunControlProofs --------------------------
(***************************************************************************)
(* RunControl for any number of runs, loops, requests and faults.          *)
(*                                                                         *)
(* The inductive invariant adds to the properties what they silently rely  *)
(* on: a request that is about to write a row knows which, a goroutine     *)
(* that exists executes a run, and one that is about to record its outcome *)
(* has one.  That running runs are executed is added to it later, because  *)
(* it needs to know whose context an entry of the map of cancel functions  *)
(* ends.                                                                   *)
(***************************************************************************)
EXTENDS RunControl, TLAPS

RequestKnowsItsRun ==
  \A q \in Requests :
    requests[q].pc \in {"resume", "launch", "park", "stop", "finish"}
      => requests[q].run \in RunIds

LoopKnowsItsRun ==
  \A l \in Loops : /\ loops[l].pc # "gone" => loops[l].run \in RunIds
                   /\ loops[l].pc = "finish" => loops[l].out # "none"

-----------------------------------------------------------------------------
Row == [status: Status, active: BOOLEAN]
Loop == [pc: LoopPC, run: RunIds \cup {None}, live: BOOLEAN, out: Outcome]
Request == [pc: RequestPC, run: RunIds \cup {None}]

(* The inductive invariant, by the part of the state it speaks of.         *)
TableOK == /\ runs \in [RunIds -> Row]
           /\ SlotUnique
           /\ SlotMatchesStatus

PoolOK == /\ loops \in [Loops -> Loop]
          /\ cancels \in [RunIds -> Loops \cup {None}]
          /\ LoopKnowsItsRun
          /\ CancelEntryIsLive

RequestsOK == /\ requests \in [Requests -> Request]
              /\ RequestKnowsItsRun

RestOK == /\ planPending \in BOOLEAN
          /\ process \in {"up", "closing", "down"}
          /\ faults \in 0..MaxFaults

IInv == TableOK /\ PoolOK /\ RequestsOK /\ RestOK

(* The history: only goroutines that exist are in it.                      *)
HistoryOK == /\ stopped \subseteq {l \in Loops : loops[l].pc # "gone"}
             /\ lost \subseteq Loops

LEMMA TypeFromIInv == IInv /\ HistoryOK => TypeOK
  BY DEF HistoryOK, IInv, TableOK, PoolOK, RequestsOK, RestOK, TypeOK, Row, Loop, Request

LEMMA NoneApart == None \notin RunIds /\ None \notin Loops
  BY NoneAssumption

(* What activeRun answers: None, or a run whose row holds the slot.        *)
LEMMA ActiveRunIsActive ==
  /\ ActiveRun \in RunIds \cup {None}
  /\ ActiveRun \in RunIds => runs[ActiveRun].active
  /\ ActiveRun = None => \A r \in RunIds : ~runs[r].active
  BY NoneApart DEF ActiveRun

(* With at most one active row, activeRun answers with it.                 *)
LEMMA ActiveRunIsTheActive ==
  ASSUME SlotUnique, NEW r \in RunIds, runs[r].active
  PROVE  ActiveRun = r
  BY ActiveRunIsActive, NoneApart DEF SlotUnique

LEMMA InitEstablishes == Init => IInv
  <1> SUFFICES ASSUME Init PROVE IInv
    OBVIOUS
  <1>1. TableOK
    BY DEF Init, TableOK, SlotUnique, SlotMatchesStatus, Absent, Row, Status
  <1>2. PoolOK
    <2>1. loops \in [Loops -> Loop]
      BY DEF Init, Gone, Loop, LoopPC, Outcome
    <2>2. QED
      BY <2>1 DEF Init, PoolOK, LoopKnowsItsRun, CancelEntryIsLive, Gone
  <1>3. RequestsOK
    <2>1. requests \in [Requests -> Request]
      BY DEF Init, Idle, Request, RequestPC
    <2>2. QED
      BY <2>1 DEF Init, RequestsOK, RequestKnowsItsRun, Idle
  <1>4. RestOK
    <2>1. faults \in 0..MaxFaults
      BY BoundsAssumption DEF Init
    <2>2. QED
      BY <2>1 DEF Init, RestOK
  <1>5. QED
    BY <1>1, <1>2, <1>3, <1>4 DEF IInv

-----------------------------------------------------------------------------
(* The statements on the table.  Each keeps the slot with at most one run  *)
(* and the status in agreement with it.                                    *)
LEMMA ParkRunKeeps ==
  ASSUME TableOK, NEW r \in RunIds, NEW s \in Parked, ParkRun(r, s)
  PROVE  TableOK'
  BY DEF TableOK, SlotUnique, SlotMatchesStatus, ParkRun, Row, Status, Parked, Finished

LEMMA FinishRunKeeps ==
  ASSUME TableOK, NEW r \in RunIds, NEW s \in Finished \cup {"interrupted"},
         FinishRun(r, s)
  PROVE  TableOK'
  BY DEF TableOK, SlotUnique, SlotMatchesStatus, FinishRun, Row, Status, Parked, Finished

LEMMA ResumeRunKeeps ==
  ASSUME TableOK, NEW r \in RunIds, SlotFreeFor(r), ResumeRun(r)
  PROVE  TableOK'
  BY DEF TableOK, SlotUnique, SlotMatchesStatus, SlotFreeFor, ResumeRun, Row,
     Status, Parked, Finished

LEMMA InsertRunKeeps ==
  ASSUME TableOK, NEW r \in RunIds, SlotFreeFor(None), InsertRun(r)
  PROVE  TableOK'
  BY NoneApart DEF TableOK, SlotUnique, SlotMatchesStatus, SlotFreeFor, InsertRun,
     Row, Status, Parked, Finished

LEMMA ReconcileKeeps ==
  ASSUME TableOK, ReconcileInterruptedRuns
  PROVE  TableOK'
  BY DEF TableOK, SlotUnique, SlotMatchesStatus, ReconcileInterruptedRuns, Row,
     Status, Parked, Finished

LEMMA EndRowKeeps ==
  ASSUME TableOK, NEW r \in RunIds, NEW o \in Outcome, o # "none", EndRow(r, o)
  PROVE  TableOK'
  <1>1. CASE o \in Parked
    BY <1>1, ParkRunKeeps DEF EndRow
  <1>2. CASE o \notin Parked
    <2>1. o \in Finished \cup {"interrupted"}
      BY <1>2 DEF Outcome, Parked, Finished
    <2>2. FinishRun(r, o)
      BY <1>2 DEF EndRow
    <2>3. QED
      BY <2>1, <2>2, FinishRunKeeps
  <1>3. QED
    BY <1>1, <1>2

LEMMA TableUnchanged == TableOK /\ UNCHANGED runs => TableOK'
  BY DEF TableOK, SlotUnique, SlotMatchesStatus

-----------------------------------------------------------------------------
(* The goroutines and the map.                                             *)

(* A loop that goes on with the same run under the same context.           *)
LEMMA LoopMovesOn ==
  ASSUME PoolOK, NEW l \in Loops, loops[l].pc # "gone",
         NEW pc \in LoopPC \ {"gone"}, NEW out \in Outcome,
         pc = "finish" => out # "none",
         loops' = [loops EXCEPT ![l].pc = pc, ![l].out = out],
         UNCHANGED cancels
  PROVE  PoolOK'
  <1>1. loops' \in [Loops -> Loop]
    BY DEF PoolOK, Loop
  <1>2. /\ loops'[l].pc = pc /\ loops'[l].out = out
        /\ loops'[l].run = loops[l].run /\ loops'[l].live = loops[l].live
        /\ \A other \in Loops \ {l} : loops'[other] = loops[other]
    BY DEF PoolOK, Loop
  <1>3. LoopKnowsItsRun'
    BY <1>2 DEF PoolOK, LoopKnowsItsRun
  <1>4. CancelEntryIsLive'
    <2> SUFFICES ASSUME NEW r \in RunIds, cancels[r] # None
                 PROVE  LET k == loops'[cancels[r]]
                        IN  k.pc # "gone" /\ k.run = r /\ k.live
      BY DEF CancelEntryIsLive
    <2>1. cancels[r] \in Loops
      BY DEF PoolOK
    <2>2. LET k == loops[cancels[r]] IN k.pc # "gone" /\ k.run = r /\ k.live
      BY DEF PoolOK, CancelEntryIsLive
    <2>3. QED
      BY <1>2, <2>1, <2>2
  <1>5. QED
    BY <1>1, <1>3, <1>4 DEF PoolOK

LEMMA LoopGoesOn ==
  ASSUME PoolOK, NEW l \in Loops, loops[l].pc # "gone",
         NEW pc \in LoopPC \ {"gone", "finish"},
         loops' = [loops EXCEPT ![l].pc = pc], UNCHANGED cancels
  PROVE  PoolOK'
  <1>1. loops[l].out \in Outcome
    BY DEF PoolOK, Loop
  <1>2. loops' = [loops EXCEPT ![l].pc = pc, ![l].out = loops[l].out]
    BY DEF PoolOK, Loop
  <1>3. QED
    BY <1>1, <1>2, LoopMovesOn

LEMMA UnwindKeeps ==
  ASSUME PoolOK, NEW l \in Loops, loops[l].pc # "gone",
         NEW out \in Outcome \ {"none"}, Unwind(l, out), UNCHANGED cancels
  PROVE  PoolOK'
  BY LoopMovesOn DEF Unwind, LoopPC

(* Cancelling a context touches nothing of the loop but its live.          *)
LEMMA CancelLoopOnlyCancels ==
  ASSUME loops \in [Loops -> Loop], NEW e \in Loops \cup {None}
  PROVE  /\ CancelLoop(loops, e) \in [Loops -> Loop]
         /\ \A l \in Loops \ {e} : CancelLoop(loops, e)[l] = loops[l]
         /\ \A l \in Loops : /\ CancelLoop(loops, e)[l].pc = loops[l].pc
                             /\ CancelLoop(loops, e)[l].run = loops[l].run
                             /\ CancelLoop(loops, e)[l].out = loops[l].out
  <1>1. CASE e \in Loops
    BY <1>1 DEF CancelLoop, Loop
  <1>2. CASE e \notin Loops
    BY <1>2 DEF CancelLoop
  <1>3. QED
    BY <1>1, <1>2

(* Two entries of the map are never the same loop.                         *)
LEMMA EntriesApart ==
  ASSUME PoolOK, NEW r \in RunIds, NEW s \in RunIds, r # s, cancels[s] # None
  PROVE  cancels[s] \in Loops /\ cancels[s] # cancels[r]
  BY DEF PoolOK, CancelEntryIsLive

LEMMA StopRunKeeps ==
  ASSUME PoolOK, NEW r \in RunIds, StopRun(r)
  PROVE  PoolOK'
  <1>1. cancels[r] \in Loops \cup {None} /\ loops \in [Loops -> Loop]
    BY DEF PoolOK
  <1>2. loops' = CancelLoop(loops, cancels[r])
    BY DEF StopRun
  <1>3. /\ loops' \in [Loops -> Loop]
        /\ \A l \in Loops \ {cancels[r]} : loops'[l] = loops[l]
        /\ \A l \in Loops : /\ loops'[l].pc = loops[l].pc
                            /\ loops'[l].run = loops[l].run
                            /\ loops'[l].out = loops[l].out
    BY <1>1, <1>2, CancelLoopOnlyCancels
  <1>4. LoopKnowsItsRun'
    BY <1>3 DEF PoolOK, LoopKnowsItsRun
  <1>5. /\ cancels' \in [RunIds -> Loops \cup {None}]
        /\ cancels'[r] = None
        /\ \A s \in RunIds \ {r} : cancels'[s] = cancels[s]
    BY DEF PoolOK, StopRun
  <1>6. CancelEntryIsLive'
    <2> SUFFICES ASSUME NEW s \in RunIds, cancels'[s] # None
                 PROVE  LET k == loops'[cancels'[s]]
                        IN  k.pc # "gone" /\ k.run = s /\ k.live
      BY DEF CancelEntryIsLive
    <2>1. s # r /\ cancels'[s] = cancels[s]
      BY <1>5
    <2>2. cancels[s] \in Loops /\ cancels[s] # cancels[r]
      BY <2>1, EntriesApart
    <2>3. QED
      BY <1>3, <2>1, <2>2 DEF PoolOK, CancelEntryIsLive
  <1>7. QED
    BY <1>3, <1>4, <1>5, <1>6 DEF PoolOK

LEMMA LaunchKeeps ==
  ASSUME PoolOK, NEW l \in Loops, NEW r \in RunIds, Launch(l, r)
  PROVE  PoolOK'
  <1> DEFINE fresh == [pc |-> "turn", run |-> r, live |-> TRUE, out |-> "none"]
             halted == CancelLoop(loops, cancels[r])
  <1>1. cancels[r] \in Loops \cup {None} /\ loops \in [Loops -> Loop]
    BY DEF PoolOK
  <1>2. /\ halted \in [Loops -> Loop]
        /\ \A k \in Loops \ {cancels[r]} : halted[k] = loops[k]
        /\ \A k \in Loops : /\ halted[k].pc = loops[k].pc
                            /\ halted[k].run = loops[k].run
                            /\ halted[k].out = loops[k].out
    BY <1>1, CancelLoopOnlyCancels
  <1>3. loops' = [halted EXCEPT ![l] = fresh]
    BY DEF Launch
  <1>4. fresh \in Loop
    BY DEF Loop, LoopPC, Outcome
  <1> HIDE DEF fresh, halted
  <1>5. /\ loops' \in [Loops -> Loop]
        /\ loops'[l] = fresh
        /\ \A k \in Loops \ {l} : loops'[k] = halted[k]
    BY <1>2, <1>3, <1>4
  <1>6. LoopKnowsItsRun'
    BY <1>2, <1>5 DEF PoolOK, LoopKnowsItsRun, fresh
  <1>7. /\ cancels' \in [RunIds -> Loops \cup {None}]
        /\ cancels'[r] = l
        /\ \A s \in RunIds \ {r} : cancels'[s] = cancels[s]
    BY DEF PoolOK, Launch
  <1>8. CancelEntryIsLive'
    <2> SUFFICES ASSUME NEW s \in RunIds, cancels'[s] # None
                 PROVE  LET k == loops'[cancels'[s]]
                        IN  k.pc # "gone" /\ k.run = s /\ k.live
      BY DEF CancelEntryIsLive
    <2>1. CASE s = r
      BY <1>5, <1>7, <2>1 DEF fresh
    <2>2. CASE s # r
      <3>1. cancels'[s] = cancels[s]
        BY <1>7, <2>2
      <3>2. cancels[s] \in Loops /\ cancels[s] # cancels[r]
        BY <2>2, <3>1, EntriesApart
      <3>3. LET k == loops[cancels[s]] IN k.pc # "gone" /\ k.run = s /\ k.live
        BY <3>1 DEF PoolOK, CancelEntryIsLive
      <3>4. cancels[s] # l
        BY <3>3 DEF Launch, Gone
      <3>5. QED
        BY <1>2, <1>5, <3>1, <3>2, <3>3, <3>4
    <2>3. QED
      BY <2>1, <2>2
  <1>9. QED
    BY <1>5, <1>6, <1>7, <1>8 DEF PoolOK

(* The goroutine ends, and takes the entry of its run with it, whichever   *)
(* loop that entry belonged to.                                            *)
LEMMA ExitKeeps ==
  ASSUME PoolOK, NEW l \in Loops, Exit(l)
  PROVE  PoolOK'
  <1> DEFINE r == loops[l].run
  <1>1. r \in RunIds
    BY DEF PoolOK, LoopKnowsItsRun, Exit
  <1>2. /\ cancels' \in [RunIds -> Loops \cup {None}]
        /\ cancels'[r] = None
        /\ \A s \in RunIds \ {r} : cancels'[s] = cancels[s]
    BY <1>1 DEF PoolOK, Exit, ClearCancel
  <1>3. /\ loops'[l] = Gone
        /\ \A k \in Loops \ {l} : loops'[k] = loops[k]
    BY DEF PoolOK, Exit
  <1>4. loops' \in [Loops -> Loop]
    BY DEF PoolOK, Exit, Gone, Loop, LoopPC, Outcome
  <1>5. LoopKnowsItsRun'
    BY <1>3 DEF PoolOK, LoopKnowsItsRun, Gone
  <1>6. CancelEntryIsLive'
    BY <1>2, <1>3 DEF PoolOK, CancelEntryIsLive
  <1>7. QED
    BY <1>2, <1>4, <1>5, <1>6 DEF PoolOK

LEMMA CloseKeeps == PoolOK /\ Close => PoolOK'
  <1> SUFFICES ASSUME PoolOK, Close PROVE PoolOK'
    OBVIOUS
  <1>1. loops' \in [Loops -> Loop]
    BY DEF PoolOK, Close, Loop
  <1>2. \A l \in Loops : /\ loops'[l].pc = loops[l].pc
                        /\ loops'[l].run = loops[l].run
                        /\ loops'[l].out = loops[l].out
    BY DEF PoolOK, Close, Loop
  <1>3. LoopKnowsItsRun'
    BY <1>2 DEF PoolOK, LoopKnowsItsRun
  <1>4. QED
    BY <1>1, <1>3 DEF PoolOK, Close, CancelEntryIsLive

LEMMA CrashKeepsPool == Crash => PoolOK'
  <1> SUFFICES ASSUME Crash PROVE PoolOK'
    OBVIOUS
  <1>1. loops' \in [Loops -> Loop]
    BY DEF Crash, Gone, Loop, LoopPC, Outcome
  <1>2. QED
    BY <1>1 DEF PoolOK, Crash, LoopKnowsItsRun, CancelEntryIsLive, Gone

LEMMA PoolUnchanged == PoolOK /\ UNCHANGED <<loops, cancels>> => PoolOK'
  BY DEF PoolOK, LoopKnowsItsRun, CancelEntryIsLive

-----------------------------------------------------------------------------
(* The requests.                                                           *)

LEMMA ReplyKeeps ==
  ASSUME RequestsOK, NEW q \in Requests, Reply(q)
  PROVE  RequestsOK'
  BY DEF RequestsOK, RequestKnowsItsRun, Reply, Idle, Request, RequestPC

LEMMA GotoKeeps ==
  ASSUME RequestsOK, NEW q \in Requests, NEW pc \in RequestPC, Goto(q, pc),
         pc \notin {"approve", "lookup"} => requests[q].run \in RunIds
  PROVE  RequestsOK'
  BY DEF RequestsOK, RequestKnowsItsRun, Goto, Request

LEMMA DecideKeeps ==
  ASSUME RequestsOK, NEW q \in Requests, NEW op \in Ops \cup {"approve"},
         Decide(q, op)
  PROVE  RequestsOK'
  <1> DEFINE r  == ActiveRun
             pc == IF r = None THEN AfterNoRun(op)
                   ELSE AfterLookup(op, runs[r].status)
             next == IF pc = "idle" THEN Idle ELSE [pc |-> pc, run |-> r]
  <1>1. requests' = [requests EXCEPT ![q] = next]
    BY DEF Decide
  <1>2. r \in RunIds \cup {None}
    BY ActiveRunIsActive
  <1>3. pc \in {"idle", "start", "resume", "stop", "park"}
    BY DEF AfterNoRun, AfterLookup
  <1>4. r = None => pc \in {"idle", "start"}
    BY DEF AfterNoRun
  <1> HIDE DEF r, pc
  <1>5. next \in Request
    BY <1>2, <1>3 DEF Request, RequestPC, Idle
  <1>6. next.pc \in {"resume", "launch", "park", "stop", "finish"}
          => next.run \in RunIds
    BY <1>2, <1>3, <1>4 DEF Idle
  <1> HIDE DEF next
  <1>7. QED
    BY <1>1, <1>5, <1>6 DEF RequestsOK, RequestKnowsItsRun

LEMMA RequestsUnchanged == RequestsOK /\ UNCHANGED requests => RequestsOK'
  BY DEF RequestsOK, RequestKnowsItsRun

LEMMA RestUnchanged == RestOK /\ UNCHANGED <<planPending, process, faults>> => RestOK'
  BY DEF RestOK

LEMMA OneMoreFault ==
  ASSUME RestOK, faults < MaxFaults, faults' = faults + 1,
         UNCHANGED <<planPending, process>>
  PROVE  RestOK'
  <1>1. faults' \in 0..MaxFaults
    BY BoundsAssumption DEF RestOK
  <1>2. QED
    BY <1>1 DEF RestOK

-----------------------------------------------------------------------------
(* The requests' steps.                                                    *)
LEMMA RequestKeeps ==
  ASSUME IInv, NEW q \in Requests,
         \/ \E op \in Ops : Ask(q, op)
         \/ ReadPlan(q) \/ RequestStep(q) \/ RequestFails(q) \/ LookupFails(q)
  PROVE  IInv'
  <1> USE DEF IInv
  <1>0. requests[q].pc \in {"resume", "launch", "park", "stop", "finish"}
          => requests[q].run \in RunIds
    BY DEF RequestsOK, RequestKnowsItsRun
  <1>1. CASE \E op \in Ops : Ask(q, op)
    BY <1>1, TableUnchanged, PoolUnchanged, DecideKeeps, RestUnchanged DEF Ask
  <1>2. CASE ReadPlan(q)
    <2>1. RequestsOK'
      BY <1>2, GotoKeeps DEF ReadPlan, RequestPC
    <2>2. QED
      BY <1>2, <2>1, TableUnchanged, PoolUnchanged, RestUnchanged DEF ReadPlan
  <1>3. CASE ApprovePlan(q)
    <2>1. RequestsOK'
      BY <1>3, GotoKeeps DEF ApprovePlan, RequestPC
    <2>2. RestOK'
      BY <1>3 DEF ApprovePlan, SetPlanStatus, RestOK
    <2>3. QED
      BY <1>3, <2>1, <2>2, TableUnchanged, PoolUnchanged DEF ApprovePlan
  <1>4. CASE LookUpRun(q)
    BY <1>4, TableUnchanged, PoolUnchanged, DecideKeeps, RestUnchanged DEF LookUpRun
  <1>5. CASE Resume(q)
    <2>1. requests[q].run \in RunIds
      BY <1>0, <1>5 DEF Resume
    <2>2. CASE SlotFreeFor(requests[q].run)
      <3>1. ResumeRun(requests[q].run) /\ Goto(q, "launch")
        BY <1>5, <2>2 DEF Resume
      <3>2. TableOK' /\ RequestsOK'
        BY <2>1, <2>2, <3>1, ResumeRunKeeps, GotoKeeps DEF RequestPC
      <3>3. QED
        BY <1>5, <3>2, PoolUnchanged, RestUnchanged DEF Resume
    <2>3. CASE ~SlotFreeFor(requests[q].run)
      <3>1. UNCHANGED runs /\ Reply(q)
        BY <1>5, <2>3 DEF Resume
      <3>2. QED
        BY <1>5, <3>1, TableUnchanged, ReplyKeeps, PoolUnchanged, RestUnchanged DEF Resume
    <2>4. QED
      BY <2>2, <2>3
  <1>6. CASE Start(q)
    <2>1. CASE SlotFreeFor(None)
      <3>1. PICK r \in RunIds :
              /\ InsertRun(r)
              /\ requests' = [requests EXCEPT ![q].run = r, ![q].pc = "launch"]
        BY <1>6, <2>1 DEF Start
      <3>2. TableOK'
        BY <2>1, <3>1, InsertRunKeeps
      <3>3. RequestsOK'
        BY <3>1 DEF RequestsOK, RequestKnowsItsRun, Request, RequestPC
      <3>4. QED
        BY <1>6, <3>2, <3>3, PoolUnchanged, RestUnchanged DEF Start
    <2>2. CASE ~SlotFreeFor(None)
      <3>1. UNCHANGED runs /\ Reply(q)
        BY <1>6, <2>2 DEF Start
      <3>2. QED
        BY <1>6, <3>1, TableUnchanged, ReplyKeeps, PoolUnchanged, RestUnchanged DEF Start
    <2>3. QED
      BY <2>1, <2>2
  <1>7. CASE LaunchLoop(q)
    <2>1. requests[q].run \in RunIds
      BY <1>0, <1>7 DEF LaunchLoop
    <2>2. PoolOK'
      BY <1>7, <2>1, LaunchKeeps DEF LaunchLoop
    <2>3. QED
      BY <1>7, <2>2, TableUnchanged, ReplyKeeps, RestUnchanged DEF LaunchLoop
  <1>8. CASE Pause(q)
    <2>1. requests[q].run \in RunIds
      BY <1>0, <1>8 DEF Pause
    <2>2. TableOK'
      BY <1>8, <2>1, ParkRunKeeps DEF Pause, Parked
    <2>3. QED
      BY <1>8, <2>2, PoolUnchanged, ReplyKeeps, RestUnchanged DEF Pause
  <1>9. CASE CancelContext(q)
    <2>1. requests[q].run \in RunIds
      BY <1>0, <1>9 DEF CancelContext
    <2>2. PoolOK' /\ RequestsOK'
      BY <1>9, <2>1, StopRunKeeps, GotoKeeps DEF CancelContext, RequestPC
    <2>3. QED
      BY <1>9, <2>2, TableUnchanged, RestUnchanged DEF CancelContext
  <1>10. CASE CancelRow(q)
    <2>1. requests[q].run \in RunIds
      BY <1>0, <1>10 DEF CancelRow
    <2>2. TableOK'
      BY <1>10, <2>1, FinishRunKeeps DEF CancelRow, Finished
    <2>3. QED
      BY <1>10, <2>2, PoolUnchanged, ReplyKeeps, RestUnchanged DEF CancelRow
  <1>11. CASE RequestFails(q)
    BY <1>11, TableUnchanged, PoolUnchanged, ReplyKeeps, OneMoreFault DEF RequestFails
  <1>12. CASE LookupFails(q)
    <2>1. RequestsOK'
      BY <1>12 DEF LookupFails, RequestsOK, RequestKnowsItsRun, Request, RequestPC
    <2>2. QED
      BY <1>12, <2>1, TableUnchanged, PoolUnchanged, OneMoreFault DEF LookupFails
  <1>13. QED
    BY <1>1, <1>2, <1>3, <1>4, <1>5, <1>6, <1>7, <1>8, <1>9, <1>10, <1>11, <1>12
       DEF RequestStep

-----------------------------------------------------------------------------
(* The goroutine's steps.                                                  *)

(* A checkpoint lets the loop go on, or unwinds it with an outcome.        *)
LEMMA CheckStopKeeps ==
  ASSUME PoolOK, NEW l \in Loops, loops[l].pc # "gone",
         NEW pc \in {"model", "call"}, CheckStop(l, pc), UNCHANGED cancels
  PROVE  PoolOK'
  <1>1. CASE \E out \in {"interrupted", "paused"} : Unwind(l, out)
    BY <1>1, UnwindKeeps DEF Outcome
  <1>2. CASE loops' = [loops EXCEPT ![l].pc = pc]
    <2>1. pc \in LoopPC \ {"gone", "finish"}
      BY DEF LoopPC
    <2>2. QED
      BY <1>2, <2>1, LoopGoesOn
  <1>3. QED
    BY <1>1, <1>2 DEF CheckStop

LEMMA EndBatchKeeps ==
  ASSUME PoolOK, NEW l \in Loops, loops[l].pc # "gone",
         NEW out \in Outcome, EndBatch(l, out), UNCHANGED cancels
  PROVE  PoolOK'
  <1>2. CASE \E o \in Outcome \ {"none"} : Unwind(l, o)
    BY <1>2, UnwindKeeps
  <1>3. CASE loops' = [loops EXCEPT ![l].pc = "turn"]
    <2>1. "turn" \in LoopPC \ {"gone", "finish"}
      BY DEF LoopPC
    <2>2. QED
      BY <1>3, <2>1, LoopGoesOn
  <1>4. QED
    BY <1>2, <1>3 DEF EndBatch, Outcome

LEMMA LoopKeeps ==
  ASSUME IInv, NEW l \in Loops, LoopStep(l) \/ LoopFails(l) \/ FinishFails(l)
  PROVE  IInv'
  <1> USE DEF IInv
  <1>1. CASE BeginTurn(l)
    <2>1. PoolOK'
      BY <1>1, CheckStopKeeps DEF BeginTurn
    <2>2. QED
      BY <1>1, <2>1, TableUnchanged, RequestsUnchanged, RestUnchanged DEF BeginTurn
  <1>2. CASE ModelTurn(l)
    <2>1. ASSUME NEW out \in Outcome \ {"none"}, Unwind(l, out) PROVE PoolOK'
      BY <1>2, <2>1, UnwindKeeps DEF ModelTurn
    <2>2. ASSUME loops' = [loops EXCEPT ![l].pc = "calls", ![l].out = "none"]
          PROVE  PoolOK'
      <3>1. "calls" \in LoopPC \ {"gone"} /\ "none" \in Outcome /\ loops[l].pc # "gone"
        BY <1>2 DEF LoopPC, Outcome, ModelTurn
      <3>2. QED
        BY <1>2, <2>2, <3>1, LoopMovesOn DEF ModelTurn
    <2>3. PoolOK'
      BY <1>2, <2>1, <2>2 DEF ModelTurn, Outcome
    <2>4. QED
      BY <1>2, <2>3, TableUnchanged, RequestsUnchanged, RestUnchanged DEF ModelTurn
  <1>3. CASE BeginCall(l)
    <2>1. PoolOK'
      BY <1>3, CheckStopKeeps DEF BeginCall
    <2>2. QED
      BY <1>3, <2>1, TableUnchanged, RequestsUnchanged, RestUnchanged DEF BeginCall
  <1>4. ASSUME NEW asked \in DOMAIN Rank, ToolCall(l, asked) PROVE IInv'
    <2> DEFINE out == Prior(loops[l].out, asked)
    <2>1. /\ loops[l].pc = "call"
          /\ UNCHANGED <<runs, cancels, requests, process, faults>>
      BY <1>4 DEF ToolCall
    <2>2. out \in Outcome
      <3>1. asked \in Outcome
        BY DEF Rank, Outcome
      <3>2. loops[l].out \in Outcome
        BY DEF PoolOK, Loop
      <3>3. QED
        BY <3>1, <3>2 DEF Prior
    <2>3. ASSUME Unwind(l, "interrupted") PROVE PoolOK'
      BY <2>1, <2>3, UnwindKeeps DEF Outcome
    <2>4. ASSUME loops' = [loops EXCEPT ![l].pc = "calls", ![l].out = out]
          PROVE  PoolOK'
      <3>1. "calls" \in LoopPC \ {"gone"} /\ "calls" # "finish"
        BY DEF LoopPC
      <3> HIDE DEF out
      <3>2. QED
        BY <2>1, <2>2, <2>4, <3>1, LoopMovesOn
    <2>5. ASSUME EndBatch(l, out) PROVE PoolOK'
      <3> HIDE DEF out
      <3>1. QED
        BY <2>1, <2>2, <2>5, EndBatchKeeps
    <2>6. \/ Unwind(l, "interrupted")
          \/ loops' = [loops EXCEPT ![l].pc = "calls", ![l].out = out]
          \/ EndBatch(l, out)
      BY <1>4 DEF ToolCall
    <2>7. PoolOK'
      BY <2>3, <2>4, <2>5, <2>6
    <2>8. planPending' \in BOOLEAN
      <3>1. planPending' \in {TRUE, FALSE, planPending}
        BY <1>4 DEF ToolCall, SetPlanStatus
      <3>2. QED
        BY <3>1 DEF RestOK
    <2>9. RestOK'
      BY <2>1, <2>8 DEF RestOK
    <2>10. QED
      BY <2>1, <2>7, <2>9, TableUnchanged, RequestsUnchanged
  <1>5. CASE LoopFails(l)
    <2>1. PoolOK'
      BY <1>5, UnwindKeeps DEF LoopFails, Outcome
    <2>2. QED
      BY <1>5, <2>1, TableUnchanged, RequestsUnchanged, OneMoreFault DEF LoopFails
  <1>6. CASE Finish(l) \/ FinishFails(l)
    <2>1. PoolOK'
      <3>1. "clear" \in LoopPC \ {"gone"} /\ "none" \in Outcome /\ loops[l].pc # "gone"
        BY <1>6 DEF LoopPC, Outcome, Finish, FinishFails
      <3>2. /\ loops' = [loops EXCEPT ![l].pc = "clear", ![l].out = "none"]
            /\ UNCHANGED cancels
        BY <1>6 DEF Finish, FinishFails
      <3>3. QED
        BY <3>1, <3>2, LoopMovesOn
    <2>2. TableOK'
      <3>1. CASE UNCHANGED runs
        BY <3>1, TableUnchanged
      <3>2. CASE Finish(l) /\ EndRow(loops[l].run, loops[l].out)
        <4>1. loops[l].run \in RunIds /\ loops[l].out \in Outcome \ {"none"}
          BY <3>2 DEF Finish, PoolOK, Loop, LoopKnowsItsRun
        <4>2. QED
          BY <3>2, <4>1, EndRowKeeps
      <3>3. QED
        BY <1>6, <3>1, <3>2 DEF Finish, FinishFails
    <2>3. RestOK'
      BY <1>6, RestUnchanged, OneMoreFault DEF Finish, FinishFails
    <2>4. QED
      BY <1>6, <2>1, <2>2, <2>3, RequestsUnchanged DEF Finish, FinishFails
  <1>7. CASE Exit(l)
    BY <1>7, ExitKeeps, TableUnchanged, RequestsUnchanged, RestUnchanged DEF Exit
  <1>8. QED
    BY <1>1, <1>2, <1>3, <1>4, <1>5, <1>6, <1>7 DEF LoopStep

-----------------------------------------------------------------------------
(* The process, and RejectPlan, which no run takes notice of.              *)
LEMMA ProcessKeeps ==
  ASSUME IInv, RejectPlan \/ Close \/ Crash \/ Boot
  PROVE  IInv'
  <1> USE DEF IInv
  <1>1. CASE RejectPlan
    <2>1. RestOK'
      BY <1>1 DEF RejectPlan, SetPlanStatus, RestOK
    <2>2. QED
      BY <1>1, <2>1, TableUnchanged, PoolUnchanged, RequestsUnchanged DEF RejectPlan
  <1>2. CASE Close
    <2>1. RestOK'
      BY <1>2 DEF Close, RestOK
    <2>2. QED
      BY <1>2, <2>1, CloseKeeps, TableUnchanged, RequestsUnchanged DEF Close
  <1>3. CASE Crash
    <2>1. requests' \in [Requests -> Request]
      BY <1>3 DEF Crash, Idle, Request, RequestPC
    <2>2. RequestsOK'
      BY <1>3, <2>1 DEF Crash, RequestsOK, RequestKnowsItsRun, Idle
    <2>3. RestOK'
      BY <1>3 DEF Crash, RestOK
    <2>4. QED
      BY <1>3, <2>2, <2>3, CrashKeepsPool, TableUnchanged DEF Crash
  <1>4. CASE Boot
    <2>1. RestOK'
      BY <1>4 DEF Boot, RestOK
    <2>2. QED
      BY <1>4, <2>1, ReconcileKeeps, PoolUnchanged, RequestsUnchanged DEF Boot
  <1>5. QED
    BY <1>1, <1>2, <1>3, <1>4

LEMMA NextKeeps == IInv /\ [Next]_vars => IInv'
  <1> SUFFICES ASSUME IInv, [Next]_vars PROVE IInv'
    OBVIOUS
  <1>1. CASE UNCHANGED vars
    BY <1>1, TableUnchanged, PoolUnchanged, RequestsUnchanged, RestUnchanged
       DEF vars, IInv
  <1>2. CASE Next
    BY <1>2, RequestKeeps, LoopKeeps, ProcessKeeps DEF Next
  <1>3. QED
    BY <1>1, <1>2

LEMMA Inductive == Spec => []IInv
  BY InitEstablishes, NextKeeps, PTL DEF Spec

-----------------------------------------------------------------------------
(* However many requests, loops, failures, crashes and boots there are,    *)
(* the runs table has at most one row with active = 1.                     *)
THEOREM OneSlot == Spec => []SlotUnique
  <1>1. IInv => SlotUnique
    BY DEF IInv, TableOK
  <1>2. QED
    BY <1>1, Inductive, PTL

(* ... and the status of a row agrees with whether it holds the slot,      *)
(* although parkRun, resumeRun and finishRun never look at the old status. *)
THEOREM StatusAgreesWithSlot == Spec => []SlotMatchesStatus
  <1>1. IInv => SlotMatchesStatus
    BY DEF IInv, TableOK
  <1>2. QED
    BY <1>1, Inductive, PTL

(* What the map of cancel functions holds for a run is always a goroutine  *)
(* that executes that run and has not been cancelled.                      *)
THEOREM EntriesAreLive == Spec => []CancelEntryIsLive
  <1>1. IInv => CancelEntryIsLive
    BY DEF IInv, PoolOK
  <1>2. QED
    BY <1>1, Inductive, PTL

-----------------------------------------------------------------------------
(* Why an outcome is not late.  A loop at work under a live context is the *)
(* one the map names for its run, unless another loop deleted its entry;   *)
(* so whatever takes the run from it (Cancel, a newer loop, shutdown) has  *)
(* ended its context.  Between a resume and the launch that follows it     *)
(* alone the old loop is still live.                                       *)
AtWork(l) == l \in Loops /\ loops[l].live /\ loops[l].pc \notin {"gone", "clear"}

Registered ==
  \A l \in Loops : AtWork(l) /\ l \notin lost => cancels[loops[l].run] = l

StoppedIsExplained ==
  \A l \in stopped : AtWork(l) => l \in lost \/ AboutToLaunch(loops[l].run)

LateInv == HistoryOK /\ Registered /\ StoppedIsExplained

LEMMA InitIsExplained == Init => LateInv
  <1> SUFFICES ASSUME Init PROVE LateInv
    OBVIOUS
  <1>1. HistoryOK /\ StoppedIsExplained
    BY DEF Init, HistoryOK, StoppedIsExplained
  <1>2. Registered
    BY DEF Init, Registered, AtWork, Gone
  <1>3. QED
    BY <1>1, <1>2 DEF LateInv

(* Steps that neither start a goroutine nor touch the map, and keep the    *)
(* requests that are about to launch.                                      *)
LEMMA QuietStep ==
  ASSUME LateInv, UNCHANGED <<cancels, history>>,
         \A l \in Loops : /\ loops'[l].run = loops[l].run
                          /\ loops[l].pc # "gone" => loops'[l].pc # "gone"
                          /\ AtWork(l)' => AtWork(l),
         \A q \in Requests : requests[q].pc = "launch" => UNCHANGED requests[q]
  PROVE  LateInv'
  <1>0. UNCHANGED <<stopped, lost>>
    BY DEF history
  <1>1. HistoryOK'
    BY <1>0 DEF LateInv, HistoryOK
  <1>2. Registered'
    BY <1>0 DEF LateInv, Registered
  <1>3. StoppedIsExplained'
    <2> SUFFICES ASSUME NEW l \in stopped', AtWork(l)', l \notin lost'
                 PROVE  AboutToLaunch(loops[l].run)'
      BY DEF StoppedIsExplained
    <2>1. l \in stopped /\ l \in Loops /\ l \notin lost /\ AtWork(l)
      BY <1>0 DEF AtWork
    <2>2. PICK q \in Requests : requests[q].pc = "launch" /\ requests[q].run = loops[l].run
      BY <2>1 DEF LateInv, StoppedIsExplained, AboutToLaunch
    <2>3. QED
      BY <2>1, <2>2 DEF AboutToLaunch
  <1>4. QED
    BY <1>1, <1>2, <1>3 DEF LateInv

(* The run is resumed; whoever worked on it is superseded, but a launch    *)
(* follows.                                                                *)
LEMMA ResumeIsExplained ==
  ASSUME IInv, LateInv, NEW q \in Requests, Resume(q)
  PROVE  LateInv'
  <1> DEFINE r == requests[q].run
  <1>1. CASE SlotFreeFor(r)
    <2>1. /\ stopped' = stopped \cup {l \in Loops : Executing(l, r)}
          /\ UNCHANGED <<lost, loops, cancels>>
          /\ requests' = [requests EXCEPT ![q].pc = "launch"]
      BY <1>1 DEF Resume, Supersede, Goto
    <2>2. /\ requests'[q].pc = "launch" /\ requests'[q].run = r
          /\ \A p \in Requests \ {q} : requests'[p] = requests[p]
          /\ requests[q].pc = "resume"
      BY <2>1 DEF Resume, IInv, RequestsOK, Request
    <2>3. HistoryOK'
      BY <2>1 DEF LateInv, HistoryOK, Executing
    <2>4. Registered'
      BY <2>1 DEF LateInv, Registered, AtWork
    <2>5. StoppedIsExplained'
      <3> SUFFICES ASSUME NEW l \in stopped', AtWork(l)', l \notin lost'
                   PROVE  AboutToLaunch(loops[l].run)'
        BY DEF StoppedIsExplained
      <3>1. CASE loops[l].run = r
        BY <2>1, <2>2, <3>1 DEF AboutToLaunch
      <3>2. CASE loops[l].run # r
        <4>1. l \in stopped /\ AtWork(l) /\ l \notin lost
          BY <2>1, <3>2 DEF Executing, AtWork
        <4>2. PICK p \in Requests : requests[p].pc = "launch" /\ requests[p].run = loops[l].run
          BY <4>1 DEF LateInv, StoppedIsExplained, AboutToLaunch
        <4>3. p # q
          BY <2>2, <4>2
        <4>4. QED
          BY <2>1, <2>2, <4>2, <4>3 DEF AboutToLaunch
      <3>3. QED
        BY <3>1, <3>2
    <2>6. QED
      BY <2>3, <2>4, <2>5 DEF LateInv
  <1>2. CASE ~SlotFreeFor(r)
    <2>1. /\ UNCHANGED <<loops, cancels, history>>
          /\ requests' = [requests EXCEPT ![q] = Idle]
          /\ requests[q].pc = "resume"
      BY <1>2 DEF Resume, Reply
    <2>2. QED
      BY <2>1, QuietStep DEF IInv, RequestsOK, AtWork
  <1>3. QED
    BY <1>1, <1>2

(* The new loop takes the entry, and the context of the one it names ends. *)
LEMMA LaunchIsExplained ==
  ASSUME IInv, LateInv, NEW q \in Requests, LaunchLoop(q)
  PROVE  LateInv'
  <1> DEFINE r == requests[q].run
             old == cancels[r]
  <1>1. PICK l \in Loops : Launch(l, r)
    BY DEF LaunchLoop
  <1>2. r \in RunIds /\ old \in Loops \cup {None} /\ loops \in [Loops -> Loop]
        /\ UNCHANGED <<stopped, lost>>
    BY DEF LaunchLoop, IInv, RequestsOK, RequestKnowsItsRun, PoolOK, history
  <1>3. /\ cancels'[r] = l
        /\ \A s \in RunIds \ {r} : cancels'[s] = cancels[s]
    BY <1>1, <1>2 DEF Launch, IInv, PoolOK
  <1>4. /\ loops'[l].run = r /\ loops'[l].pc = "turn"
        /\ \A k \in Loops \ {l} : /\ loops'[k].run = loops[k].run
                                  /\ loops'[k].pc = loops[k].pc
                                  /\ loops'[k].live => loops[k].live
                                  /\ k = old => ~loops'[k].live
    <2> DEFINE ls == CancelLoop(loops, old)
               fresh == [pc |-> "turn", run |-> r, live |-> TRUE, out |-> "none"]
    <2>1. /\ ls \in [Loops -> Loop]
          /\ \A k \in Loops : /\ ls[k].run = loops[k].run /\ ls[k].pc = loops[k].pc
                              /\ ls[k].live => loops[k].live
                              /\ k = old => ~ls[k].live
      <3>1. CASE old \in Loops
        BY <1>2, <3>1 DEF CancelLoop, Loop
      <3>2. CASE old \notin Loops
        BY <1>2, <3>2 DEF CancelLoop
      <3>3. QED
        BY <3>1, <3>2
    <2>2. loops' = [ls EXCEPT ![l] = fresh]
      BY <1>1 DEF Launch
    <2> HIDE DEF ls
    <2>3. QED
      BY <2>1, <2>2
  <1>5. loops[l].pc = "gone" /\ l \notin stopped
    BY <1>1 DEF Launch, Gone, LateInv, HistoryOK
  <1>6. \A k \in Loops \ {l} : AtWork(k)' /\ loops[k].run = r => k \in lost
    <2> SUFFICES ASSUME NEW k \in Loops \ {l}, AtWork(k)', loops[k].run = r, k \notin lost
                 PROVE  FALSE
      OBVIOUS
    <2>1. AtWork(k)
      BY <1>4 DEF AtWork
    <2>2. k = old
      BY <2>1 DEF LateInv, Registered
    <2>3. QED
      BY <1>4, <2>2 DEF AtWork
  <1>7. HistoryOK'
    BY <1>2, <1>4, <1>5 DEF LateInv, HistoryOK
  <1>8. Registered'
    <2> SUFFICES ASSUME NEW k \in Loops, AtWork(k)', k \notin lost
                 PROVE  cancels'[loops'[k].run] = k
      BY <1>2 DEF Registered
    <2>1. CASE k = l
      BY <1>3, <1>4, <2>1
    <2>2. CASE k # l
      <3>1. AtWork(k) /\ loops'[k].run = loops[k].run
        BY <1>4, <2>2 DEF AtWork
      <3>2. loops[k].run # r
        BY <1>6, <2>2
      <3>3. loops[k].run \in RunIds
        BY <3>1 DEF AtWork, IInv, PoolOK, LoopKnowsItsRun
      <3>4. QED
        BY <1>3, <3>1, <3>2, <3>3 DEF LateInv, Registered
    <2>3. QED
      BY <2>1, <2>2
  <1>9. StoppedIsExplained'
    <2> SUFFICES ASSUME NEW k \in stopped, AtWork(k)', k \notin lost
                 PROVE  \E p \in Requests : requests'[p].pc = "launch"
                                            /\ requests'[p].run = loops'[k].run
      BY <1>2 DEF StoppedIsExplained, AboutToLaunch
    <2>1. k \in Loops \ {l}
      BY <1>5 DEF AtWork
    <2>2. AtWork(k) /\ loops'[k].run = loops[k].run
      BY <1>4, <2>1 DEF AtWork
    <2>3. loops[k].run # r
      BY <1>6, <2>1
    <2>4. PICK p \in Requests : requests[p].pc = "launch" /\ requests[p].run = loops[k].run
      BY <2>2 DEF LateInv, StoppedIsExplained, AboutToLaunch
    <2>5. p # q
      BY <2>3, <2>4
    <2>6. requests'[p] = requests[p]
      BY <2>5 DEF LaunchLoop, Reply, IInv, RequestsOK
    <2>7. QED
      BY <2>2, <2>4, <2>6
  <1>10. QED
    BY <1>7, <1>8, <1>9 DEF LateInv

(* Cancel: the context that the map names for the run ends.                *)
LEMMA CancelIsExplained ==
  ASSUME IInv, LateInv, NEW q \in Requests, CancelContext(q)
  PROVE  LateInv'
  <1> DEFINE r == requests[q].run
             old == cancels[r]
  <1>1. /\ r \in RunIds /\ old \in Loops \cup {None} /\ loops \in [Loops -> Loop]
        /\ stopped' = stopped \cup {l \in Loops : Executing(l, r)}
        /\ lost' = lost
        /\ loops' = CancelLoop(loops, old)
        /\ requests[q].pc = "stop"
        /\ requests' = [requests EXCEPT ![q].pc = "finish"]
    BY DEF CancelContext, Supersede, StopRun, Goto, IInv, RequestsOK, RequestKnowsItsRun,
       PoolOK
  <1>2. \A k \in Loops : /\ loops'[k].run = loops[k].run /\ loops'[k].pc = loops[k].pc
                         /\ loops'[k].live => loops[k].live
                         /\ k = old => ~loops'[k].live
    <2>1. CASE old \in Loops
      BY <1>1, <2>1 DEF CancelLoop, Loop
    <2>2. CASE old \notin Loops
      BY <1>1, <2>2 DEF CancelLoop
    <2>3. QED
      BY <2>1, <2>2
  <1>3. \A s \in RunIds \ {r} : cancels'[s] = cancels[s]
    BY DEF CancelContext, StopRun, IInv, PoolOK
  <1>4. \A k \in Loops : AtWork(k)' => AtWork(k) /\ (loops[k].run = r => k \in lost)
    BY <1>2 DEF AtWork, LateInv, Registered
  <1>5. HistoryOK'
    BY <1>1, <1>2 DEF LateInv, HistoryOK, Executing
  <1>6. Registered'
    <2> SUFFICES ASSUME NEW k \in Loops, AtWork(k)', k \notin lost
                 PROVE  cancels'[loops'[k].run] = k
      BY <1>1 DEF Registered
    <2>1. AtWork(k) /\ loops[k].run # r /\ loops'[k].run = loops[k].run
      BY <1>2, <1>4
    <2>2. loops[k].run \in RunIds
      BY <2>1 DEF AtWork, IInv, PoolOK, LoopKnowsItsRun
    <2>3. QED
      BY <1>3, <2>1, <2>2 DEF LateInv, Registered
  <1>7. StoppedIsExplained'
    <2> SUFFICES ASSUME NEW k \in stopped', AtWork(k)', k \notin lost
                 PROVE  \E p \in Requests : requests'[p].pc = "launch"
                                            /\ requests'[p].run = loops'[k].run
      BY <1>1 DEF StoppedIsExplained, AboutToLaunch
    <2>1. k \in Loops /\ AtWork(k) /\ loops[k].run # r /\ loops'[k].run = loops[k].run
      BY <1>2, <1>4 DEF AtWork
    <2>2. k \in stopped
      BY <1>1, <2>1 DEF Executing
    <2>3. PICK p \in Requests : requests[p].pc = "launch" /\ requests[p].run = loops[k].run
      BY <2>1, <2>2 DEF LateInv, StoppedIsExplained, AboutToLaunch
    <2>4. requests'[p] = requests[p]
      BY <1>1, <2>3 DEF IInv, RequestsOK
    <2>5. QED
      BY <2>1, <2>3, <2>4
  <1>8. QED
    BY <1>5, <1>6, <1>7 DEF LateInv

(* A goroutine ends, and deletes whatever entry its run has.               *)
LEMMA ExitIsExplained ==
  ASSUME IInv, LateInv, NEW l \in Loops, Exit(l)
  PROVE  LateInv'
  <1> DEFINE r == loops[l].run
  <1>1. /\ r \in RunIds /\ cancels[r] \in Loops \cup {None}
        /\ loops'[l] = Gone
        /\ \A k \in Loops \ {l} : loops'[k] = loops[k]
        /\ \A s \in RunIds \ {r} : cancels'[s] = cancels[s]
        /\ stopped' = stopped \ {l}
        /\ lost' = (lost \cup {cancels[r]}) \ {l, None}
        /\ UNCHANGED requests
    BY DEF Exit, ClearCancel, IInv, PoolOK, LoopKnowsItsRun
  <1>2. HistoryOK'
    BY <1>1, NoneApart DEF LateInv, HistoryOK
  <1>3. \A k \in Loops : AtWork(k)' => k # l /\ AtWork(k)
    BY <1>1 DEF AtWork, Gone
  <1>4. Registered'
    <2> SUFFICES ASSUME NEW k \in Loops, AtWork(k)', k \notin lost'
                 PROVE  cancels'[loops'[k].run] = k
      BY DEF Registered
    <2>1. k # l /\ AtWork(k) /\ k # None /\ k \notin lost /\ k # cancels[r]
      BY <1>1, <1>3, NoneApart
    <2>2. cancels[loops[k].run] = k /\ loops[k].run # r
      BY <2>1 DEF LateInv, Registered
    <2>3. loops[k].run \in RunIds
      BY <2>1 DEF AtWork, IInv, PoolOK, LoopKnowsItsRun
    <2>4. QED
      BY <1>1, <2>1, <2>2, <2>3
  <1>5. StoppedIsExplained'
    <2> SUFFICES ASSUME NEW k \in stopped', AtWork(k)', k \notin lost'
                 PROVE  AboutToLaunch(loops[k].run)'
      BY DEF StoppedIsExplained
    <2>1. k \in Loops /\ k \in stopped /\ k # l
      BY <1>1 DEF AtWork
    <2>2. AtWork(k) /\ k \notin lost /\ loops'[k] = loops[k]
      BY <1>1, <1>3, <2>1, NoneApart
    <2>3. AboutToLaunch(loops[k].run)
      BY <2>1, <2>2 DEF LateInv, StoppedIsExplained
    <2>4. QED
      BY <1>1, <2>2, <2>3 DEF AboutToLaunch
  <1>6. QED
    BY <1>2, <1>4, <1>5 DEF LateInv

(* Shutdown ends every context the map names; a crash ends everything.     *)
LEMMA EndIsExplained ==
  ASSUME IInv, LateInv, Close \/ Crash
  PROVE  LateInv'
  <1>1. CASE Close
    <2>1. /\ stopped' = {l \in Loops : loops[l].pc # "gone"} /\ lost' = lost
          /\ \A l \in Loops : /\ loops'[l].run = loops[l].run /\ loops'[l].pc = loops[l].pc
                              /\ loops'[l].live =>
                                   loops[l].live /\ \A r \in RunIds : cancels[r] # l
      BY <1>1 DEF Close, IInv, PoolOK, Loop
    <2>2. \A l \in Loops : AtWork(l)' => l \in lost
      <3> SUFFICES ASSUME NEW l \in Loops, AtWork(l)', l \notin lost PROVE FALSE
        OBVIOUS
      <3>1. AtWork(l) /\ \A r \in RunIds : cancels[r] # l
        BY <2>1 DEF AtWork
      <3>2. loops[l].run \in RunIds
        BY <3>1 DEF AtWork, IInv, PoolOK, LoopKnowsItsRun
      <3>3. QED
        BY <3>1, <3>2 DEF LateInv, Registered
    <2>3. HistoryOK'
      BY <2>1 DEF LateInv, HistoryOK
    <2>4. Registered' /\ StoppedIsExplained'
      BY <2>1, <2>2 DEF Registered, StoppedIsExplained, AtWork
    <2>5. QED
      BY <2>3, <2>4 DEF LateInv
  <1>2. CASE Crash
    BY <1>2 DEF Crash, LateInv, HistoryOK, Registered, StoppedIsExplained, AtWork, Gone
  <1>3. QED
    BY <1>1, <1>2

(* Every other step of a goroutine changes its place and its outcome only. *)
LEMMA LoopIsQuiet ==
  ASSUME IInv, LateInv, NEW l \in Loops,
         \/ BeginTurn(l) \/ ModelTurn(l) \/ BeginCall(l)
         \/ \E asked \in DOMAIN Rank : ToolCall(l, asked)
         \/ Finish(l) \/ LoopFails(l) \/ FinishFails(l)
  PROVE  LateInv'
  <1>1. /\ loops[l].pc \notin {"gone", "clear"}
        /\ UNCHANGED <<cancels, history, requests>>
    BY DEF BeginTurn, ModelTurn, BeginCall, ToolCall, Finish, LoopFails, FinishFails
  <1>2. \E pc \in LoopPC \ {"gone"}, out \in Outcome :
          loops' = [loops EXCEPT ![l].pc = pc, ![l].out = out]
    <2>0. /\ loops[l].out \in Outcome
          /\ \A pc : [loops EXCEPT ![l].pc = pc]
                       = [loops EXCEPT ![l].pc = pc, ![l].out = loops[l].out]
      BY DEF IInv, PoolOK, Loop
    <2>1. ASSUME NEW out \in Outcome, Unwind(l, out) PROVE <1>2
      BY <2>1 DEF Unwind, LoopPC
    <2>2. ASSUME NEW pc \in {"turn", "model", "call"},
                 loops' = [loops EXCEPT ![l].pc = pc]
          PROVE  <1>2
      BY <2>0, <2>2 DEF LoopPC
    <2>3. ASSUME NEW pc \in {"calls", "clear"}, NEW out \in Outcome,
                 loops' = [loops EXCEPT ![l].pc = pc, ![l].out = out]
          PROVE  <1>2
      BY <2>3 DEF LoopPC
    <2>4. CASE BeginTurn(l) \/ BeginCall(l)
      BY <2>1, <2>2, <2>4 DEF BeginTurn, BeginCall, CheckStop, Outcome
    <2>5. CASE ModelTurn(l)
      BY <2>1, <2>3, <2>5 DEF ModelTurn, Outcome
    <2>6. CASE \E asked \in DOMAIN Rank : ToolCall(l, asked)
      <3>1. PICK asked \in DOMAIN Rank : ToolCall(l, asked)
        BY <2>6
      <3> DEFINE out == Prior(loops[l].out, asked)
      <3>2. out \in Outcome
        BY <2>0 DEF Prior, Rank, Outcome
      <3>3. CASE ~loops[l].live
        BY <2>1, <3>1, <3>3 DEF ToolCall, Outcome
      <3>4. CASE loops[l].live
        <4>1. \/ loops' = [loops EXCEPT ![l].pc = "calls", ![l].out = out]
              \/ EndBatch(l, out)
          BY <3>1, <3>4 DEF ToolCall
        <4>2. CASE EndBatch(l, out)
          BY <2>1, <2>2, <3>2, <4>2 DEF EndBatch, Outcome
        <4>3. QED
          BY <2>3, <3>2, <4>1, <4>2
      <3>5. QED
        BY <3>3, <3>4
    <2>7. CASE Finish(l) \/ FinishFails(l)
      BY <2>3, <2>7 DEF Finish, FinishFails, Outcome
    <2>8. CASE LoopFails(l)
      BY <2>1, <2>8 DEF LoopFails, Outcome
    <2>9. QED
      BY <2>4, <2>5, <2>6, <2>7, <2>8
  <1>3. PICK pc \in LoopPC \ {"gone"}, out \in Outcome :
          loops' = [loops EXCEPT ![l].pc = pc, ![l].out = out]
    BY <1>2
  <1>4. \A k \in Loops : /\ loops'[k].run = loops[k].run /\ loops'[k].live = loops[k].live
                         /\ k # l => loops'[k].pc = loops[k].pc
                         /\ loops[k].pc # "gone" => loops'[k].pc # "gone"
    BY <1>3 DEF IInv, PoolOK, Loop
  <1>5. QED
    BY <1>1, <1>4, QuietStep DEF AtWork

(* Every other step of a request leaves the goroutines alone.              *)
LEMMA RequestIsQuiet ==
  ASSUME IInv, LateInv, NEW q \in Requests,
         \/ \E op \in Ops : Ask(q, op)
         \/ ReadPlan(q) \/ ApprovePlan(q) \/ LookUpRun(q) \/ Start(q)
         \/ Pause(q) \/ CancelRow(q) \/ RequestFails(q) \/ LookupFails(q)
  PROVE  LateInv'
  <1>1. UNCHANGED <<cancels, history, loops>> /\ requests[q].pc # "launch"
    BY DEF Ask, ReadPlan, ApprovePlan, LookUpRun, Start, Pause, CancelRow,
       RequestFails, LookupFails
  <1>2. \A p \in Requests \ {q} : UNCHANGED requests[p]
    BY DEF Ask, ReadPlan, ApprovePlan, LookUpRun, Start, Pause, CancelRow,
       RequestFails, LookupFails, Decide, Goto, Reply, IInv, RequestsOK
  <1>3. QED
    BY <1>1, <1>2, QuietStep DEF AtWork

LEMMA LatePreserved == IInv /\ LateInv /\ [Next]_vars => LateInv'
  <1> SUFFICES ASSUME IInv, LateInv, [Next]_vars PROVE LateInv'
    OBVIOUS
  <1>1. CASE UNCHANGED vars
    BY <1>1, QuietStep DEF vars, AtWork
  <1>2. CASE \E q \in Requests :
               \/ \E op \in Ops : Ask(q, op)
               \/ ReadPlan(q) \/ RequestStep(q) \/ RequestFails(q) \/ LookupFails(q)
    BY <1>2, RequestIsQuiet, ResumeIsExplained, LaunchIsExplained, CancelIsExplained
       DEF RequestStep
  <1>3. CASE \E l \in Loops : LoopStep(l) \/ LoopFails(l) \/ FinishFails(l)
    BY <1>3, LoopIsQuiet, ExitIsExplained DEF LoopStep
  <1>4. CASE RejectPlan \/ Boot
    BY <1>4, QuietStep DEF RejectPlan, Boot, AtWork
  <1>5. CASE Close \/ Crash
    BY <1>5, EndIsExplained
  <1>6. QED
    BY <1>1, <1>2, <1>3, <1>4, <1>5 DEF Next

LEMMA LateInvariant == Spec => [](IInv /\ LateInv)
  BY InitEstablishes, InitIsExplained, NextKeeps, LatePreserved, PTL DEF Spec

(* Every variable keeps its type: no statement of store.go leaves a row    *)
(* with a status its readers do not know, and no request or goroutine      *)
(* works on a run that does not exist.                                     *)
THEOREM TypeCorrect == Spec => []TypeOK
  <1>1. LateInv => HistoryOK
    BY DEF LateInv
  <1>2. QED
    BY <1>1, LateInvariant, TypeFromIInv, PTL

(* The outcome of a goroutine whose run was resumed, cancelled or shut down*)
(* since its launch never reaches the row, but in the window before the    *)
(* resumed run is launched, and when another loop of the run had deleted   *)
(* its entry of the map; for any number of runs, loops and requests.       *)
THEOREM LateOutcomesAreExplained == Spec => LateOutcomeHasACause
  <1> DEFINE Explained ==
        \A l \in Loops :
          loops[l].pc = "finish" /\ loops'[l].pc = "clear" /\ runs' # runs
            => l \notin stopped \/ l \in lost \/ AboutToLaunch(loops[l].run)
  <1>1. ASSUME IInv, LateInv, [Next]_vars PROVE [Explained]_vars
    <2> SUFFICES ASSUME Next, NEW l \in Loops, loops[l].pc = "finish",
                        loops'[l].pc = "clear", runs' # runs,
                        l \in stopped, l \notin lost
                 PROVE  AboutToLaunch(loops[l].run)
      BY <1>1
    <2>1. loops[l].live
      <3>1. CASE \E k \in Loops : Finish(k)
        <4>1. PICK k \in Loops : Finish(k)
          BY <3>1
        <4>2. k = l
          BY <1>1, <4>1 DEF Finish, IInv, PoolOK
        <4>3. QED
          BY <4>1, <4>2 DEF Finish, WriteGoesThrough
      <3>2. CASE \E q \in Requests : Resume(q) \/ Start(q) \/ Pause(q) \/ CancelRow(q)
        BY <3>2 DEF Resume, Start, Pause, CancelRow
      <3>3. CASE Boot
        BY <3>3 DEF Boot
      <3>4. CASE \E q \in Requests :
                   \/ \E op \in Ops : Ask(q, op)
                   \/ ReadPlan(q) \/ ApprovePlan(q) \/ LookUpRun(q)
                   \/ LaunchLoop(q) \/ CancelContext(q)
                   \/ RequestFails(q) \/ LookupFails(q)
        BY <3>4 DEF Ask, ReadPlan, ApprovePlan, LookUpRun, LaunchLoop, CancelContext,
           RequestFails, LookupFails
      <3>5. CASE \E k \in Loops :
                   \/ BeginTurn(k) \/ ModelTurn(k) \/ BeginCall(k)
                   \/ \E asked \in DOMAIN Rank : ToolCall(k, asked)
                   \/ Exit(k) \/ LoopFails(k) \/ FinishFails(k)
        BY <3>5 DEF BeginTurn, ModelTurn, BeginCall, ToolCall, Exit, LoopFails, FinishFails
      <3>6. CASE RejectPlan \/ Close \/ Crash
        BY <3>6 DEF RejectPlan, Close, Crash
      <3>7. QED
        BY <3>1, <3>2, <3>3, <3>4, <3>5, <3>6 DEF Next, RequestStep, LoopStep
    <2>2. AtWork(l)
      BY <2>1 DEF AtWork
    <2>3. QED
      BY <1>1, <2>2 DEF LateInv, StoppedIsExplained
  <1>2. QED
    BY <1>1, LateInvariant, PTL DEF Spec, LateOutcomeHasACause

-----------------------------------------------------------------------------
(* Who executes a run: a loop under a live context, or a request that is to*)
(* launch one or to finish the row.                                        *)

Works(l, r) == loops[l].run = r /\ loops[l].live /\ loops[l].pc \notin {"gone", "clear"}
Serves(q, r) == requests[q].run = r /\ requests[q].pc \in {"launch", "finish"}

LEMMA StillExecuted ==
  ASSUME NEW r, BeingExecuted(r),
         \A l \in Loops : Works(l, r) => Works(l, r)',
         \A q \in Requests : Serves(q, r) => Serves(q, r)'
  PROVE  BeingExecuted(r)'
  BY DEF BeingExecuted, Works, Serves

LEMMA LoopsWork ==
  ASSUME UNCHANGED loops, NEW r
  PROVE  \A l \in Loops : Works(l, r) => Works(l, r)'
  BY DEF Works

LEMMA RequestsServe ==
  ASSUME UNCHANGED requests, NEW r
  PROVE  \A q \in Requests : Serves(q, r) => Serves(q, r)'
  BY DEF Serves

(* A request that neither launches nor finishes goes wherever it goes.     *)
LEMMA OtherRequestsServe ==
  ASSUME RequestsOK, NEW q \in Requests, requests[q].pc \notin {"launch", "finish"},
         \A k \in Requests \ {q} : requests'[k] = requests[k], NEW r
  PROVE  \A k \in Requests : Serves(k, r) => Serves(k, r)'
  BY DEF Serves

(* A loop that goes on under the same context.                             *)
LEMMA LoopWorksOn ==
  ASSUME PoolOK, NEW l \in Loops, NEW pc, pc \notin {"gone", "clear"}, NEW out, NEW r,
         \/ loops' = [loops EXCEPT ![l].pc = pc]
         \/ loops' = [loops EXCEPT ![l].pc = pc, ![l].out = out]
  PROVE  \A k \in Loops : Works(k, r) => Works(k, r)'
  <1>1. /\ \A k \in Loops \ {l} : loops'[k] = loops[k]
        /\ loops'[l].run = loops[l].run /\ loops'[l].live = loops[l].live
        /\ loops'[l].pc = pc
    BY DEF PoolOK, Loop
  <1>2. QED
    BY <1>1 DEF Works

LEMMA LoopStepWorks ==
  ASSUME PoolOK, NEW l \in Loops,
         \/ BeginTurn(l) \/ ModelTurn(l) \/ BeginCall(l)
         \/ \E asked \in DOMAIN Rank : ToolCall(l, asked),
         NEW r
  PROVE  \A k \in Loops : Works(k, r) => Works(k, r)'
  <1>1. ASSUME NEW out, Unwind(l, out) PROVE \A k \in Loops : Works(k, r) => Works(k, r)'
    BY <1>1, LoopWorksOn DEF Unwind
  <1>2. ASSUME NEW pc \in {"model", "call"}, CheckStop(l, pc)
        PROVE  \A k \in Loops : Works(k, r) => Works(k, r)'
    BY <1>1, <1>2, LoopWorksOn DEF CheckStop
  <1>3. CASE BeginTurn(l) \/ BeginCall(l)
    BY <1>2, <1>3 DEF BeginTurn, BeginCall
  <1>4. CASE ModelTurn(l)
    BY <1>1, <1>4, LoopWorksOn DEF ModelTurn
  <1>5. CASE \E asked \in DOMAIN Rank : ToolCall(l, asked)
    <2>1. PICK asked \in DOMAIN Rank : ToolCall(l, asked)
      BY <1>5
    <2> DEFINE out == Prior(loops[l].out, asked)
    <2>2. \/ Unwind(l, "interrupted")
          \/ loops' = [loops EXCEPT ![l].pc = "calls", ![l].out = out]
          \/ EndBatch(l, out)
      BY <2>1 DEF ToolCall
    <2> HIDE DEF out
    <2>3. \/ \E o : Unwind(l, o)
          \/ loops' = [loops EXCEPT ![l].pc = "calls", ![l].out = out]
          \/ loops' = [loops EXCEPT ![l].pc = "turn"]
      BY <2>2 DEF EndBatch
    <2>4. QED
      BY <1>1, <2>3, LoopWorksOn
  <1>6. QED
    BY <1>3, <1>4, <1>5

(* The context that is cancelled is one of the run that gets a new loop, or*)
(* that is to be cancelled; the others keep theirs.                        *)
LEMMA OthersWork ==
  ASSUME PoolOK, NEW r \in RunIds, NEW s \in RunIds, s # r, NEW ls,
         ls = CancelLoop(loops, cancels[r])
  PROVE  \A l \in Loops : Works(l, s) => ls[l] = loops[l]
  <1>1. cancels[r] \in Loops \cup {None} /\ loops \in [Loops -> Loop]
    BY DEF PoolOK
  <1>2. \A l \in Loops \ {cancels[r]} : ls[l] = loops[l]
    BY <1>1, CancelLoopOnlyCancels
  <1>3. cancels[r] \in Loops => loops[cancels[r]].run = r
    BY NoneApart DEF PoolOK, CancelEntryIsLive
  <1>4. QED
    BY <1>2, <1>3 DEF Works

ExecutedInv == IInv /\ RunningIsExecuted

LEMMA LaunchExecutes ==
  ASSUME ExecutedInv, NEW q \in Requests, LaunchLoop(q), NEW r \in RunIds,
         requests[q].run # r => BeingExecuted(r)
  PROVE  BeingExecuted(r)'
  <1> DEFINE run == requests[q].run
             fresh == [pc |-> "turn", run |-> run, live |-> TRUE, out |-> "none"]
             halted == CancelLoop(loops, cancels[run])
  <1>1. PICK l \in Loops : Launch(l, run)
    BY DEF LaunchLoop
  <1>2. run \in RunIds /\ PoolOK /\ RequestsOK
    BY DEF LaunchLoop, ExecutedInv, IInv, RequestsOK, RequestKnowsItsRun
  <1>3. loops' = [halted EXCEPT ![l] = fresh] /\ loops[l] = Gone
    BY <1>1 DEF Launch
  <1>4. halted \in [Loops -> Loop]
    <2>1. cancels[run] \in Loops \cup {None} /\ loops \in [Loops -> Loop]
      BY <1>2 DEF PoolOK
    <2>2. QED
      BY <2>1, CancelLoopOnlyCancels
  <1>5. loops'[l] = fresh /\ \A k \in Loops \ {l} : loops'[k] = halted[k]
    BY <1>3, <1>4
  <1>6. CASE r = run
    BY <1>5, <1>6 DEF BeingExecuted
  <1>7. CASE r # run
    <2>1. \A k \in Loops : Works(k, r) => halted[k] = loops[k]
      BY <1>2, <1>7, OthersWork
    <2> HIDE DEF run, halted, fresh
    <2>2. \A k \in Loops : Works(k, r) => Works(k, r)'
      BY <1>3, <1>5, <2>1 DEF Works, Gone
    <2>3. \A k \in Requests : Serves(k, r) => Serves(k, r)'
      <3>1. \A k \in Requests \ {q} : requests'[k] = requests[k]
        BY <1>2 DEF LaunchLoop, Reply, RequestsOK
      <3>2. QED
        BY <1>7, <3>1 DEF Serves, run
    <2>4. BeingExecuted(r)
      BY <1>7 DEF run
    <2>5. QED
      BY <2>2, <2>3, <2>4, StillExecuted
  <1>8. QED
    BY <1>6, <1>7

LEMMA CancelExecutes ==
  ASSUME ExecutedInv, NEW q \in Requests, CancelContext(q), NEW r \in RunIds, BeingExecuted(r)
  PROVE  BeingExecuted(r)'
  <1> DEFINE run == requests[q].run
  <1>1. run \in RunIds /\ PoolOK /\ RequestsOK
    BY DEF CancelContext, ExecutedInv, IInv, RequestsOK, RequestKnowsItsRun
  <1>2. /\ requests'[q].run = run /\ requests'[q].pc = "finish"
        /\ \A k \in Requests \ {q} : requests'[k] = requests[k]
    BY <1>1 DEF CancelContext, Goto, RequestsOK, Request
  <1>3. CASE r = run
    BY <1>2, <1>3 DEF BeingExecuted
  <1>4. CASE r # run
    <2>1. loops' = CancelLoop(loops, cancels[run])
      BY DEF CancelContext, StopRun
    <2>2. \A l \in Loops : Works(l, r) => loops'[l] = loops[l]
      BY <1>1, <1>4, <2>1, OthersWork
    <2>3. \A l \in Loops : Works(l, r) => Works(l, r)'
      BY <2>2 DEF Works
    <2>4. requests[q].pc \notin {"launch", "finish"}
      BY DEF CancelContext
    <2>5. QED
      BY <1>1, <1>2, <2>3, <2>4, OtherRequestsServe, StillExecuted
  <1>5. QED
    BY <1>3, <1>4

(* A step of a request: the run it takes the slot for is the one it is to  *)
(* launch, and the one whose row it ends does not run.                     *)
LEMMA RequestExecutes ==
  ASSUME ExecutedInv, NEW q \in Requests,
         \/ \E op \in Ops : Ask(q, op)
         \/ ReadPlan(q) \/ RequestStep(q),
         NEW r \in RunIds, runs'[r].status = "running",
         runs[r].status = "running" => BeingExecuted(r)
  PROVE  BeingExecuted(r)'
  <1>0. /\ RequestsOK /\ PoolOK /\ requests \in [Requests -> Request] /\ runs \in [RunIds -> Row]
    BY DEF ExecutedInv, IInv, RequestsOK, TableOK
  <1>1. ASSUME UNCHANGED <<runs, loops>>, requests[q].pc \notin {"launch", "finish"},
               NEW next, requests' = [requests EXCEPT ![q] = next]
        PROVE  BeingExecuted(r)'
    <2>1. \A k \in Requests \ {q} : requests'[k] = requests[k]
      BY <1>0, <1>1
    <2>2. BeingExecuted(r)
      BY <1>1
    <2>3. QED
      BY <1>0, <1>1, <2>1, <2>2, LoopsWork, OtherRequestsServe, StillExecuted
  <1>2. ASSUME NEW pc, Goto(q, pc)
        PROVE  requests' = [requests EXCEPT ![q] = [pc |-> pc, run |-> requests[q].run]]
    <2>1. requests[q] = [pc |-> requests[q].pc, run |-> requests[q].run]
      BY <1>0 DEF Request
    <2>2. [requests[q] EXCEPT !.pc = pc] = [pc |-> pc, run |-> requests[q].run]
      BY <2>1
    <2>3. requests' = [requests EXCEPT ![q] = [requests[q] EXCEPT !.pc = pc]]
      BY <1>0, <1>2 DEF Goto
    <2>4. QED
      BY <2>2, <2>3
  <1>3. CASE \/ \E op \in Ops : Ask(q, op)
             \/ ReadPlan(q) \/ ApprovePlan(q) \/ LookUpRun(q)
    <2>1. CASE \E op \in Ops \cup {"approve"} : Decide(q, op)
      <3>1. \E next : requests' = [requests EXCEPT ![q] = next]
        BY <2>1 DEF Decide
      <3>2. QED
        BY <1>1, <1>3, <3>1 DEF Ask, ReadPlan, ApprovePlan, LookUpRun
    <2>2. CASE \E pc : Goto(q, pc)
      BY <1>1, <1>2, <1>3, <2>2 DEF Ask, ReadPlan, ApprovePlan, LookUpRun
    <2>3. QED
      BY <1>3, <2>1, <2>2 DEF Ask, ReadPlan, ApprovePlan, LookUpRun
  <1>4. ASSUME NEW t \in RunIds, UNCHANGED loops, requests[q].pc \notin {"launch", "finish"},
               requests'[q].pc = "launch", requests'[q].run = t,
               \A k \in Requests \ {q} : requests'[k] = requests[k],
               \A s \in RunIds \ {t} : runs'[s] = runs[s]
        PROVE  BeingExecuted(r)'
    <2>1. CASE r = t
      BY <1>4, <2>1 DEF BeingExecuted
    <2>2. CASE r # t
      <3>1. BeingExecuted(r)
        BY <1>4, <2>2
      <3>2. QED
        BY <1>0, <1>4, <3>1, LoopsWork, OtherRequestsServe, StillExecuted
    <2>3. QED
      BY <2>1, <2>2
  <1>5. CASE Resume(q)
    <2>1. UNCHANGED loops /\ requests[q].pc = "resume" /\ requests[q].run \in RunIds
      BY <1>0, <1>5 DEF Resume, RequestsOK, RequestKnowsItsRun
    <2>2. CASE UNCHANGED runs /\ Reply(q)
      BY <1>1, <2>1, <2>2 DEF Reply
    <2>3. CASE ResumeRun(requests[q].run) /\ Goto(q, "launch")
      <3>1. /\ requests'[q].pc = "launch" /\ requests'[q].run = requests[q].run
            /\ \A k \in Requests \ {q} : requests'[k] = requests[k]
        BY <1>0, <2>3 DEF Goto, Request
      <3>2. \A s \in RunIds \ {requests[q].run} : runs'[s] = runs[s]
        BY <1>0, <2>3 DEF ResumeRun
      <3>3. QED
        BY <1>4, <2>1, <3>1, <3>2
    <2>4. QED
      BY <1>5, <2>2, <2>3 DEF Resume
  <1>6. CASE Start(q)
    <2>1. UNCHANGED loops /\ requests[q].pc = "start"
      BY <1>6 DEF Start
    <2>2. CASE UNCHANGED runs /\ Reply(q)
      BY <1>1, <2>1, <2>2 DEF Reply
    <2>3. ASSUME NEW t \in RunIds, InsertRun(t),
                 requests' = [requests EXCEPT ![q].run = t, ![q].pc = "launch"]
          PROVE  BeingExecuted(r)'
      <3>1. /\ requests'[q].pc = "launch" /\ requests'[q].run = t
            /\ \A k \in Requests \ {q} : requests'[k] = requests[k]
        BY <1>0, <2>3 DEF Request
      <3>2. \A s \in RunIds \ {t} : runs'[s] = runs[s]
        BY <1>0, <2>3 DEF InsertRun
      <3>3. QED
        BY <1>4, <2>1, <3>1, <3>2
    <2>4. QED
      BY <1>6, <2>2, <2>3 DEF Start
  <1>7. CASE LaunchLoop(q)
    <2>1. UNCHANGED runs
      BY <1>7 DEF LaunchLoop
    <2>2. BeingExecuted(r)
      BY <2>1
    <2>3. QED
      BY <1>7, <2>2, LaunchExecutes
  <1>8. ASSUME NEW s, UNCHANGED loops, s # "running", Reply(q), NEW t \in RunIds,
               t = requests[q].run,
               runs'[t].status = s, \A k \in RunIds \ {t} : runs'[k] = runs[k]
        PROVE  BeingExecuted(r)'
    <2>1. r # t /\ BeingExecuted(r)
      BY <1>8
    <2>2. \A k \in Requests \ {q} : requests'[k] = requests[k]
      BY <1>0, <1>8 DEF Reply
    <2>3. \A k \in Requests : Serves(k, r) => Serves(k, r)'
      BY <1>8, <2>1, <2>2 DEF Serves
    <2>4. QED
      BY <1>8, <2>1, <2>3, LoopsWork, StillExecuted
  <1>9. CASE Pause(q)
    <2> DEFINE t == requests[q].run
    <2>1. t \in RunIds /\ ParkRun(t, "paused") /\ Reply(q) /\ UNCHANGED loops
      BY <1>0, <1>9 DEF Pause, RequestsOK, RequestKnowsItsRun
    <2>2. runs'[t].status = "paused" /\ \A k \in RunIds \ {t} : runs'[k] = runs[k]
      BY <1>0, <2>1 DEF ParkRun, Row
    <2>3. QED
      BY <1>8, <2>1, <2>2
  <1>10. CASE CancelRow(q)
    <2> DEFINE t == requests[q].run
    <2>1. t \in RunIds /\ FinishRun(t, "cancelled") /\ Reply(q) /\ UNCHANGED loops
      BY <1>0, <1>10 DEF CancelRow, RequestsOK, RequestKnowsItsRun
    <2>2. runs'[t].status = "cancelled" /\ \A k \in RunIds \ {t} : runs'[k] = runs[k]
      BY <1>0, <2>1 DEF FinishRun
    <2>3. QED
      BY <1>8, <2>1, <2>2
  <1>11. CASE CancelContext(q)
    <2>1. UNCHANGED runs
      BY <1>11 DEF CancelContext
    <2>2. BeingExecuted(r)
      BY <2>1
    <2>3. QED
      BY <1>11, <2>2, CancelExecutes
  <1>12. QED
    BY <1>3, <1>5, <1>6, <1>7, <1>9, <1>10, <1>11 DEF RequestStep

LEMMA LoopExecutes ==
  ASSUME ExecutedInv, NEW l \in Loops, LoopStep(l),
         NEW r \in RunIds, runs'[r].status = "running",
         runs[r].status = "running" => BeingExecuted(r)
  PROVE  BeingExecuted(r)'
  <1>0. PoolOK /\ runs \in [RunIds -> Row] /\ loops \in [Loops -> Loop] /\ UNCHANGED requests
    BY DEF ExecutedInv, IInv, PoolOK, TableOK, LoopStep, BeginTurn, ModelTurn, BeginCall,
           ToolCall, Finish, Exit
  <1>1. CASE \/ BeginTurn(l) \/ ModelTurn(l) \/ BeginCall(l)
             \/ \E asked \in DOMAIN Rank : ToolCall(l, asked)
    <2>1. UNCHANGED runs
      BY <1>1 DEF BeginTurn, ModelTurn, BeginCall, ToolCall
    <2>2. QED
      BY <1>0, <1>1, <2>1, LoopStepWorks, RequestsServe, StillExecuted
  <1>2. ASSUME BeingExecuted(r), ~Works(l, r), \A k \in Loops \ {l} : loops'[k] = loops[k]
        PROVE  BeingExecuted(r)'
    <2>1. \A k \in Loops : Works(k, r) => Works(k, r)'
      BY <1>2 DEF Works
    <2>2. QED
      BY <1>0, <1>2, <2>1, RequestsServe, StillExecuted
  <1>3. CASE Finish(l)
    <2> DEFINE t == loops[l].run
               o == loops[l].out
    <2>1. t \in RunIds /\ o \in Outcome \ {"none"}
      BY <1>0, <1>3 DEF Finish, PoolOK, LoopKnowsItsRun, Loop
    <2>2. \A k \in Loops \ {l} : loops'[k] = loops[k]
      BY <1>0, <1>3 DEF Finish
    <2>3. CASE loops[l].live
      <3>1. EndRow(t, o)
        BY <1>3, <2>3 DEF Finish, WriteGoesThrough
      <3>2. runs'[t].status = o /\ \A k \in RunIds \ {t} : runs'[k] = runs[k]
        BY <1>0, <2>1, <3>1 DEF EndRow, ParkRun, FinishRun, Row
      <3>3. r # t
        BY <2>1, <3>2 DEF Outcome
      <3>4. QED
        BY <1>2, <2>2, <3>2, <3>3 DEF Works
    <2>4. CASE ~loops[l].live
      <3>1. UNCHANGED runs
        BY <1>3, <2>4 DEF Finish, WriteGoesThrough
      <3>2. QED
        BY <1>2, <2>2, <2>4, <3>1 DEF Works
    <2>5. QED
      BY <2>3, <2>4
  <1>4. CASE Exit(l)
    <2>1. UNCHANGED runs /\ ~Works(l, r) /\ \A k \in Loops \ {l} : loops'[k] = loops[k]
      BY <1>0, <1>4 DEF Exit, Works
    <2>2. QED
      BY <1>2, <2>1
  <1>5. QED
    BY <1>1, <1>3, <1>4 DEF LoopStep

LEMMA ExecutedPreserved ==
  ASSUME ExecutedInv, [Next]_vars
  PROVE  ExecutedInv'
  <1>1. IInv /\ IInv'
    BY NextKeeps DEF ExecutedInv
  <1>2. SUFFICES ASSUME process' = "up", faults' = 0, NEW r \in RunIds,
                        runs'[r].status = "running"
                 PROVE  BeingExecuted(r)'
    BY <1>1 DEF ExecutedInv, RunningIsExecuted
  <1>3. CASE Boot
    <2>1. runs \in [RunIds -> Row] /\ SlotMatchesStatus
      BY <1>1 DEF IInv, TableOK
    <2>2. runs'[r].status # "running"
      BY <1>3, <2>1 DEF Boot, ReconcileInterruptedRuns, SlotMatchesStatus
    <2>3. QED
      BY <1>2, <2>2
  <1>4. CASE process = "up" /\ faults = 0
    <2>0. runs[r].status = "running" => BeingExecuted(r)
      BY <1>4 DEF ExecutedInv, RunningIsExecuted
    <2>1. ASSUME NEW q \in Requests,
                 (\E op \in Ops : Ask(q, op)) \/ ReadPlan(q) \/ RequestStep(q)
          PROVE  BeingExecuted(r)'
      BY <1>2, <2>0, <2>1, RequestExecutes
    <2>2. ASSUME NEW l \in Loops, LoopStep(l) PROVE BeingExecuted(r)'
      BY <1>2, <2>0, <2>2, LoopExecutes
    <2>3. CASE RejectPlan \/ UNCHANGED vars
      <3>1. UNCHANGED <<runs, loops, requests>>
        BY <2>3 DEF RejectPlan, vars
      <3>2. QED
        BY <1>2, <2>0, <3>1, LoopsWork, RequestsServe, StillExecuted
    <2>4. CASE Close \/ Crash
      BY <1>2, <2>4 DEF Close, Crash
    <2>5. CASE \/ \E q \in Requests : RequestFails(q) \/ LookupFails(q)
               \/ \E l \in Loops : LoopFails(l) \/ FinishFails(l)
      BY <1>2, <1>4, <2>5 DEF RequestFails, LookupFails, LoopFails, FinishFails
    <2>6. QED
      BY <1>3, <2>1, <2>2, <2>3, <2>4, <2>5 DEF Next
  <1>5. CASE ~Boot /\ ~(process = "up" /\ faults = 0)
    <2>1. process' = process \/ process' \in {"closing", "down"}
      BY <1>5 DEF Next, vars, RequestStep, LoopStep, Ask, ReadPlan, ApprovePlan, LookUpRun,
         Resume, Start, LaunchLoop, Pause, CancelContext, CancelRow, RequestFails, LookupFails,
         BeginTurn, ModelTurn, BeginCall, ToolCall, Finish, Exit, LoopFails, FinishFails,
         RejectPlan, Close, Crash
    <2>2. faults' = faults \/ faults' = faults + 1
      BY <1>5 DEF Next, vars, RequestStep, LoopStep, Ask, ReadPlan, ApprovePlan, LookUpRun,
         Resume, Start, LaunchLoop, Pause, CancelContext, CancelRow, RequestFails, LookupFails,
         BeginTurn, ModelTurn, BeginCall, ToolCall, Finish, Exit, LoopFails, FinishFails,
         RejectPlan, Close, Crash
    <2>3. faults \in Nat
      BY <1>1, BoundsAssumption DEF IInv, RestOK
    <2>4. QED
      BY <1>2, <1>5, <2>1, <2>2, <2>3
  <1>6. QED
    BY <1>3, <1>4, <1>5

LEMMA ExecutedInvariant == Spec => []ExecutedInv
  <1>1. Init => ExecutedInv
    BY InitEstablishes DEF ExecutedInv, RunningIsExecuted, Init, Absent
  <1>2. QED
    BY <1>1, ExecutedPreserved, PTL DEF Spec

(* While the process serves and no statement has failed, a row that says   *)
(* running has a loop that executes the run under a live context, or a     *)
(* request about to launch one or to finish the row: launch, stopRun,      *)
(* clearCancel and the writes of s.run lose none in between.               *)
THEOREM RunsAreExecuted == Spec => []RunningIsExecuted
  <1>1. ExecutedInv => RunningIsExecuted
    BY DEF ExecutedInv
  <1>2. QED
    BY <1>1, ExecutedInvariant, PTL

-----------------------------------------------------------------------------
(* The table implements RunSlot.  Three ways of changing it matter: who    *)
(* holds the slot stays the same, the slot is taken, or it is given back.  *)

LEMMA SlotStays ==
  ASSUME \A r \in RunIds : runs'[r].active = runs[r].active
  PROVE  Holders' = Holders
  BY DEF Holders

LEMMA SlotGivenBack ==
  ASSUME NEW r \in RunIds, runs[r].active,
         \A s \in RunIds : ~runs'[s].active
  PROVE  Slot!GiveBack
  BY DEF Slot!GiveBack, Holders

LEMMA SlotTaken ==
  ASSUME SlotUnique', NEW r \in RunIds, runs'[r].active,
         \A s \in RunIds : ~runs[s].active
  PROVE  Slot!Take(r)
  <1>1. Holders = {}
    BY DEF Holders
  <1>2. \A s \in RunIds : runs'[s].active => s = r
    BY DEF SlotUnique
  <1>3. Holders' = {r}
    BY <1>2 DEF Holders
  <1>4. QED
    BY <1>1, <1>3 DEF Slot!Take

SlotStep == [Slot!Next]_Holders

LEMMA ParkRunIsStutter ==
  ASSUME TableOK, TableOK', NEW r \in RunIds, NEW s, ParkRun(r, s)
  PROVE  SlotStep
  <1>1. \A k \in RunIds : runs'[k].active = runs[k].active
    BY DEF TableOK, ParkRun, Row
  <1>2. QED
    BY <1>1, SlotStays DEF SlotStep

LEMMA FinishRunIsStep ==
  ASSUME TableOK, TableOK', NEW r \in RunIds, NEW s, FinishRun(r, s)
  PROVE  SlotStep
  <1>1. /\ ~runs'[r].active
        /\ \A k \in RunIds \ {r} : runs'[k].active = runs[k].active
    BY DEF TableOK, FinishRun, Row
  <1>2. CASE runs[r].active
    <2>1. \A k \in RunIds : ~runs'[k].active
      BY <1>1, <1>2 DEF TableOK, SlotUnique
    <2>2. QED
      BY <1>2, <2>1, SlotGivenBack DEF TableOK, SlotStep, Slot!Next
  <1>3. CASE ~runs[r].active
    <2>1. runs[r].active \in BOOLEAN /\ runs'[r].active \in BOOLEAN
      BY DEF TableOK, Row
    <2>2. \A k \in RunIds : runs'[k].active = runs[k].active
      BY <1>1, <1>3, <2>1
    <2>3. QED
      BY <2>2, SlotStays DEF SlotStep
  <1>4. QED
    BY <1>2, <1>3

LEMMA TakingIsStep ==
  ASSUME TableOK, TableOK', NEW r \in RunIds, SlotFreeFor(r),
         runs'[r].active, \A k \in RunIds \ {r} : runs'[k] = runs[k]
  PROVE  SlotStep
  <1>1. CASE runs[r].active
    <2>1. runs[r].active \in BOOLEAN /\ runs'[r].active \in BOOLEAN
      BY DEF TableOK, Row
    <2>2. \A k \in RunIds : runs'[k].active = runs[k].active
      BY <1>1, <2>1
    <2>3. QED
      BY <2>2, SlotStays DEF SlotStep
  <1>2. CASE ~runs[r].active
    <2>1. \A k \in RunIds : ~runs[k].active
      BY <1>2 DEF SlotFreeFor
    <2>2. QED
      BY <2>1, SlotTaken DEF TableOK, SlotStep, Slot!Next
  <1>3. QED
    BY <1>1, <1>2

LEMMA ReconcileIsStep ==
  ASSUME TableOK, TableOK', ReconcileInterruptedRuns
  PROVE  SlotStep
  <1>1. \A k \in RunIds :
          runs'[k].active = (runs[k].active /\ runs[k].status # "running")
    BY DEF TableOK, ReconcileInterruptedRuns, Row
  <1>2. CASE \E r \in RunIds : runs[r].active /\ runs[r].status = "running"
    <2>1. PICK r \in RunIds : runs[r].active /\ runs[r].status = "running"
      BY <1>2
    <2>2. \A k \in RunIds : ~runs'[k].active
      BY <1>1, <2>1 DEF TableOK, SlotUnique
    <2>3. QED
      BY <2>1, <2>2, SlotGivenBack DEF TableOK, SlotStep, Slot!Next
  <1>3. CASE \A r \in RunIds : ~(runs[r].active /\ runs[r].status = "running")
    <2>1. \A k \in RunIds : runs'[k].active = runs[k].active
      BY <1>3 DEF ReconcileInterruptedRuns
    <2>2. QED
      BY <2>1, SlotStays DEF SlotStep
  <1>4. QED
    BY <1>2, <1>3

LEMMA UntouchedIsStutter ==
  ASSUME UNCHANGED runs
  PROVE  SlotStep
  BY DEF SlotStep, Holders

LEMMA StepImplements == IInv /\ IInv' /\ [Next]_vars => SlotStep
  <1> SUFFICES ASSUME IInv, IInv', [Next]_vars PROVE SlotStep
    OBVIOUS
  <1>1. TableOK /\ TableOK'
    BY DEF IInv
  <1>2. CASE UNCHANGED runs
    BY <1>2, UntouchedIsStutter
  <1>3. ASSUME NEW q \in Requests, Resume(q), ~UNCHANGED runs PROVE SlotStep
    <2> DEFINE r == requests[q].run
    <2>1. r \in RunIds
      BY <1>3 DEF IInv, RequestsOK, RequestKnowsItsRun, Resume
    <2>2. SlotFreeFor(r) /\ ResumeRun(r)
      BY <1>3 DEF Resume
    <2>3. runs'[r].active /\ \A k \in RunIds \ {r} : runs'[k] = runs[k]
      BY <1>1, <2>1, <2>2 DEF TableOK, ResumeRun, Row
    <2>4. QED
      BY <1>1, <2>1, <2>2, <2>3, TakingIsStep
  <1>4. ASSUME NEW q \in Requests, Start(q), ~UNCHANGED runs PROVE SlotStep
    <2>1. PICK r \in RunIds : SlotFreeFor(None) /\ InsertRun(r)
      BY <1>4 DEF Start
    <2>2. SlotFreeFor(r)
      BY <2>1, NoneApart DEF SlotFreeFor
    <2>3. runs'[r].active /\ \A k \in RunIds \ {r} : runs'[k] = runs[k]
      BY <1>1, <2>1 DEF TableOK, InsertRun, Row
    <2>4. QED
      BY <1>1, <2>2, <2>3, TakingIsStep
  <1>5. ASSUME NEW q \in Requests, Pause(q) PROVE SlotStep
    <2>1. requests[q].run \in RunIds
      BY <1>5 DEF IInv, RequestsOK, RequestKnowsItsRun, Pause
    <2>2. QED
      BY <1>1, <1>5, <2>1, ParkRunIsStutter DEF Pause
  <1>6. ASSUME NEW q \in Requests, CancelRow(q) PROVE SlotStep
    <2>1. requests[q].run \in RunIds
      BY <1>6 DEF IInv, RequestsOK, RequestKnowsItsRun, CancelRow
    <2>2. QED
      BY <1>1, <1>6, <2>1, FinishRunIsStep DEF CancelRow
  <1>7. ASSUME NEW l \in Loops, Finish(l), ~UNCHANGED runs PROVE SlotStep
    <2>1. loops[l].run \in RunIds
      BY <1>7 DEF IInv, PoolOK, LoopKnowsItsRun, Finish
    <2>2. EndRow(loops[l].run, loops[l].out)
      BY <1>7 DEF Finish
    <2>3. QED
      BY <1>1, <2>1, <2>2, ParkRunIsStutter, FinishRunIsStep DEF EndRow
  <1>8. CASE Boot
    BY <1>1, <1>8, ReconcileIsStep DEF Boot
  <1>9. UNCHANGED runs \/ Boot \/ (\E l \in Loops : Finish(l))
          \/ \E q \in Requests : Resume(q) \/ Start(q) \/ Pause(q) \/ CancelRow(q)
    BY DEF Next, vars, RequestStep, LoopStep, Ask, ReadPlan, ApprovePlan, LookUpRun,
       LaunchLoop, CancelContext, RequestFails, LookupFails, BeginTurn, ModelTurn, BeginCall,
       ToolCall, Exit, LoopFails, FinishFails, RejectPlan, Close, Crash
  <1>10. QED
    BY <1>2, <1>3, <1>4, <1>5, <1>6, <1>7, <1>8, <1>9

(* Whatever requests, loops, failures, crashes and boots do, the slot of   *)
(* the runs table is taken only when it is free and given back before      *)
(* another run takes it: RunControl implements RunSlot.                    *)
THEOREM SlotImplemented == Spec => SlotIsHandedOver
  <1>1. Init => Slot!Init
    BY DEF Init, Slot!Init, Holders, Absent
  <1>2. IInv /\ IInv' /\ [Next]_vars => [Slot!Next]_Holders
    BY StepImplements DEF SlotStep
  <1>3. QED
    BY <1>1, <1>2, Inductive, PTL DEF Spec, SlotIsHandedOver, Slot!Spec
=============================================================================
