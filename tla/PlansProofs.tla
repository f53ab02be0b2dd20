---------------------------- MODULE PlansProofs ----------------------------
(***************************************************************************)
(* Plans for any number of plans, tasks, decisions and epochs.             *)
(*                                                                         *)
(* An approval is looked for at three places between the operator's and    *)
(* the task's: in the plan's status, in the tools the turn was offered,    *)
(* and in the status the call in hand has read.  The invariant follows it  *)
(* from one to the next.                                                   *)
(***************************************************************************)
EXTENDS Plans, FiniteSetTheorems, SequenceTheorems, TLAPS

Statuses == {"awaiting_approval", "approved", "in_progress", "completed", "rejected"}
TaskStatuses == {"pending", "in_progress", "done", "skipped"}
Tools == Work \cup {"none", "goal_complete"}
Readings == Statuses \cup {"none"}
Plan == [epoch: Nat, status: Statuses, tasks: [1..TaskCount -> TaskStatuses]]

PlansTypeOK ==
  /\ plans \in Seq(Plan) /\ planEpoch \in Nat
  /\ worker \in [pc: {"off", "tools", "calls", "found", "started"}, epoch: Nat, told: Nat,
                 offered: Nat, tool: Tools, task: Nat, plan: Nat, read: Readings]
  /\ deciders \in [Deciders -> [pc: {"idle", "approve"}, plan: Nat, read: Readings]]

StatusIsEarned == \A p \in Ids : Underway(plans[p].status) => p \in approvals

OfferIsEarned == worker.offered # 0 => worker.offered \in approvals

(* What the call in hand has read, of a plan that was active then.         *)
CallIsEarned ==
  worker.pc \in {"found", "started"} =>
    /\ worker.plan \in Ids /\ worker.read \in Awake
    /\ Underway(worker.read) => worker.plan \in approvals
    /\ worker.tool \in Work => worker.task \in 1..TaskCount
    /\ worker.pc = "started" => worker.read = "approved"

DecisionIsDue ==
  \A d \in Deciders :
    deciders[d].pc = "approve" =>
      deciders[d].plan \in Ids /\ deciders[d].read = "awaiting_approval"

IInv ==
  /\ PlansTypeOK /\ StatusIsEarned /\ OfferIsEarned /\ CallIsEarned /\ DecisionIsDue

-----------------------------------------------------------------------------
(* Of some numbers, one is the largest: of the intervals that begin with   *)
(* them and end alike, one is within all the others.                       *)
LEMMA LargestExists ==
  ASSUME NEW n \in Nat, NEW S \in SUBSET (1..n), S # {}
  PROVE  \E p \in S : \A q \in S : q <= p
  <1> DEFINE T == {p..n : p \in S}
  <1>1. T \subseteq FiniteSubsetsOf(1..n) /\ T # {}
    <2>1. IsFiniteSet(1..n)
      BY FS_Interval
    <2>2. ASSUME NEW p \in S PROVE p..n \in FiniteSubsetsOf(1..n)
      <3>1. p..n \subseteq 1..n
        OBVIOUS
      <3>2. QED
        BY <2>1, <3>1, FS_Subset DEF FiniteSubsetsOf
    <2>3. QED
      BY <2>2
  <1> HIDE DEF T
  <1>2. PICK x \in T : \A y \in T : ~ (<<y, x>> \in StrictSubsetOrdering(1..n))
    BY <1>1, FS_StrictSubsetOrderingWellFounded, WFMin
  <1>3. PICK p \in S : x = p..n
    BY <1>2 DEF T
  <1>4. ASSUME NEW q \in S, ~(q <= p) PROVE FALSE
    <2>1. /\ q..n \subseteq 1..n /\ p..n \subseteq 1..n
          /\ q..n \subseteq p..n /\ p \in p..n /\ p \notin q..n
      BY <1>4
    <2>2. <<q..n, p..n>> \in StrictSubsetOrdering(1..n)
      BY <2>1 DEF StrictSubsetOrdering
    <2>3. q..n \in T
      BY DEF T
    <2>4. QED
      BY <1>2, <1>3, <2>2, <2>3
  <1>5. QED
    BY <1>4

(* The active plan is a plan that is not over.                             *)
LEMMA ActiveIsAwake ==
  ASSUME PlansTypeOK, NEW e, ActivePlan(e) # 0
  PROVE  ActivePlan(e) \in Ids /\ plans[ActivePlan(e)].status \in Awake
  <1> DEFINE active == {p \in Ids : plans[p].epoch = e /\ plans[p].status \in Awake}
  <1>1. active # {} /\ ActivePlan(e) = CHOOSE p \in active : \A q \in active : q <= p
    BY DEF ActivePlan
  <1>2. Len(plans) \in Nat /\ active \in SUBSET (1..Len(plans))
    BY DEF PlansTypeOK, Ids
  <1> HIDE DEF active
  <1>3. \E p \in active : \A q \in active : q <= p
    BY <1>1, <1>2, LargestExists
  <1>4. ActivePlan(e) \in active
    BY <1>1, <1>3
  <1>5. QED
    BY <1>4 DEF active

(* A plan's status is set, and nothing else of the plans.                  *)
LEMMA StatusIsSet ==
  ASSUME PlansTypeOK, NEW p \in Ids, NEW s \in Statuses, NEW read, SetPlanStatus(p, read, s)
  PROVE  /\ plans' \in Seq(Plan) /\ DOMAIN plans' = DOMAIN plans
         /\ \A q \in Ids : /\ plans'[q].tasks = plans[q].tasks
                           /\ plans'[q].status = IF q = p THEN s ELSE plans[q].status
  <1>1. plans \in [1..Len(plans) -> Plan] /\ Len(plans) \in Nat /\ Ids = 1..Len(plans)
    BY DEF PlansTypeOK, Ids
  <1>2. plans' = [plans EXCEPT ![p] = [plans[p] EXCEPT !.status = s]]
    BY DEF SetPlanStatus
  <1>3. /\ [plans[p] EXCEPT !.status = s] \in Plan
        /\ [plans[p] EXCEPT !.status = s].status = s
        /\ [plans[p] EXCEPT !.status = s].tasks = plans[p].tasks
    BY <1>1 DEF Plan
  <1>4. plans' \in [1..Len(plans) -> Plan]
    BY <1>1, <1>2, <1>3
  <1>5. plans' \in Seq(Plan)
    BY <1>1, <1>4
  <1>6. DOMAIN plans' = DOMAIN plans
    BY <1>1, <1>4
  <1>7. \A q \in Ids : plans'[q] = IF q = p THEN [plans[p] EXCEPT !.status = s] ELSE plans[q]
    BY <1>1, <1>2
  <1>8. QED
    BY <1>3, <1>5, <1>6, <1>7

(* ... and approvals only grow: what was earned stays so, if the status    *)
(* that is set was.                                                        *)
LEMMA StatusKeeps ==
  ASSUME IInv, NEW p \in Ids, NEW s \in Statuses, NEW read, SetPlanStatus(p, read, s),
         Underway(s) => p \in approvals', approvals \subseteq approvals'
  PROVE  /\ plans' \in Seq(Plan) /\ Ids' = Ids
         /\ StatusIsEarned'
  <1>1. /\ plans' \in Seq(Plan) /\ DOMAIN plans' = DOMAIN plans
        /\ \A q \in Ids : /\ plans'[q].tasks = plans[q].tasks
                          /\ plans'[q].status = IF q = p THEN s ELSE plans[q].status
    BY StatusIsSet DEF IInv
  <1>2. Ids' = Ids
    BY <1>1 DEF Ids
  <1>3. StatusIsEarned'
    BY <1>1, <1>2 DEF IInv, StatusIsEarned, Underway
  <1>4. QED
    BY <1>1, <1>2, <1>3

-----------------------------------------------------------------------------
(* At the start nothing is planned and nobody decides.                     *)
LEMMA InitEstablishes == PlansInit => IInv
  BY DEF PlansInit, IInv, PlansTypeOK, NoWorker, NoDecider, StatusIsEarned, OfferIsEarned,
     CallIsEarned, DecisionIsDue, Ids, Tools, Readings

(* What leaves the plans and the decisions alone keeps the invariant if    *)
(* the loop is at rest.                                                    *)
LEMMA WorkerRests ==
  ASSUME IInv, UNCHANGED <<plans, deciders, approvals>>, planEpoch' \in Nat,
         worker' = NoWorker
  PROVE  IInv'
  BY DEF IInv, PlansTypeOK, NoWorker, StatusIsEarned, OfferIsEarned, CallIsEarned,
     DecisionIsDue, Ids, Tools, Readings

(* A turn's requests.                                                      *)
LEMMA TurnBegins == IInv /\ AssembleTurn => IInv'
  <1> SUFFICES ASSUME IInv, AssembleTurn PROVE IInv'
    OBVIOUS
  <1>1. \A e : ActivePlan(e) \in Nat
    BY ActiveIsAwake DEF IInv, PlansTypeOK, Ids
  <1> DEFINE told == IF Underway(StatusOf(ActivePlan(planEpoch))) THEN ActivePlan(planEpoch) ELSE 0
  <1>2. /\ worker' = [NoWorker EXCEPT !.pc = "tools", !.epoch = planEpoch, !.told = told]
        /\ told \in Nat /\ planEpoch \in Nat
        /\ UNCHANGED <<plans, planEpoch, deciders, approvals>>
    BY <1>1 DEF AssembleTurn, IInv, PlansTypeOK
  <1> HIDE DEF told
  <1>3. PlansTypeOK'
    BY <1>2 DEF IInv, PlansTypeOK, NoWorker, Tools, Readings
  <1>4. worker'.offered = 0 /\ worker'.pc = "tools"
    BY <1>2 DEF NoWorker
  <1>5. QED
    BY <1>2, <1>3, <1>4 DEF IInv, StatusIsEarned, OfferIsEarned, CallIsEarned,
       DecisionIsDue, Ids

(* The tools are offered for a plan that is underway.                      *)
LEMMA OfferKeeps == IInv /\ OfferTools => IInv'
  <1> SUFFICES ASSUME IInv, OfferTools PROVE IInv'
    OBVIOUS
  <1> DEFINE a == ActivePlan(worker.epoch)
             offered == IF Underway(StatusOf(a)) THEN a ELSE 0
  <1>1. offered \in Nat /\ (offered # 0 => offered \in approvals)
    <2>1. CASE Underway(StatusOf(a))
      <3>1. a # 0
        BY <2>1 DEF Underway, StatusOf
      <3>2. a \in Ids
        BY <3>1, ActiveIsAwake DEF IInv
      <3>3. Underway(plans[a].status)
        BY <2>1, <3>1 DEF StatusOf
      <3>4. QED
        BY <2>1, <3>2, <3>3 DEF IInv, StatusIsEarned, Ids, PlansTypeOK
    <2>2. CASE ~Underway(StatusOf(a))
      BY <2>2
    <2>3. QED
      BY <2>1, <2>2
  <1>2. /\ worker' = [worker EXCEPT !.pc = "calls", !.told = 0, !.offered = offered]
        /\ UNCHANGED <<plans, planEpoch, deciders, approvals>>
    BY DEF OfferTools
  <1> HIDE DEF offered
  <1>3. PlansTypeOK'
    BY <1>1, <1>2 DEF IInv, PlansTypeOK
  <1>4. worker'.offered = offered /\ worker'.pc = "calls"
    BY <1>2 DEF IInv, PlansTypeOK
  <1>5. QED
    BY <1>1, <1>2, <1>3, <1>4 DEF IInv, StatusIsEarned, OfferIsEarned, CallIsEarned,
       DecisionIsDue, Ids

(* A plan is proposed: nothing of it is worked on.                         *)
LEMMA ProposalKeeps == IInv /\ CreateGoalPlan => IInv'
  <1> SUFFICES ASSUME IInv, CreateGoalPlan PROVE IInv'
    OBVIOUS
  <1> DEFINE new == [epoch |-> worker.epoch, status |-> "awaiting_approval",
                     tasks |-> [t \in 1..TaskCount |-> "pending"]]
  <1>1. /\ plans' = Append(plans, new) /\ AtWorker("calls")
        /\ UNCHANGED <<planEpoch, worker, deciders, approvals>>
    BY DEF CreateGoalPlan
  <1>2. /\ new \in Plan /\ new.status = "awaiting_approval"
        /\ \A t \in 1..TaskCount : new.tasks[t] = "pending"
    BY DEF IInv, PlansTypeOK, Plan, Statuses, TaskStatuses
  <1> HIDE DEF new
  <1>3. /\ plans' \in Seq(Plan) /\ Len(plans) \in Nat /\ Len(plans') = Len(plans) + 1
        /\ \A p \in 1..Len(plans) : plans'[p] = plans[p]
        /\ plans'[Len(plans) + 1] = new
    BY <1>1, <1>2, AppendProperties DEF IInv, PlansTypeOK
  <1>4. Ids = 1..Len(plans) /\ Ids' = 1..(Len(plans) + 1)
    BY <1>3 DEF Ids, IInv, PlansTypeOK
  <1>5. \A p \in Ids' : p = Len(plans) + 1 \/ p \in Ids
    BY <1>3, <1>4
  <1>6. PlansTypeOK'
    BY <1>1, <1>3 DEF IInv, PlansTypeOK
  <1>7. StatusIsEarned'
    BY <1>1, <1>2, <1>3, <1>4, <1>5 DEF IInv, StatusIsEarned, Underway
  <1>8. OfferIsEarned' /\ CallIsEarned' /\ DecisionIsDue'
    <2>1. Ids \subseteq Ids'
      BY <1>3, <1>4
    <2>2. QED
      BY <1>1, <2>1 DEF IInv, OfferIsEarned, CallIsEarned, DecisionIsDue, AtWorker
  <1>9. QED
    BY <1>6, <1>7, <1>8 DEF IInv

(* A call finds the plan that is active by now.                            *)
LEMMA CallFinds ==
  ASSUME IInv, NEW tool \in Tools, NEW t \in Nat, tool \in Work => t \in 1..TaskCount,
         ActivePlan(worker.epoch) # 0, UNCHANGED <<plans, planEpoch, deciders, approvals>>,
         worker' = [worker EXCEPT !.pc = "found", !.tool = tool, !.task = t,
                      !.plan = ActivePlan(worker.epoch), !.read = StatusOf(ActivePlan(worker.epoch))]
  PROVE  IInv'
  <1> DEFINE a == ActivePlan(worker.epoch)
  <1>1. a \in Ids /\ plans[a].status \in Awake /\ StatusOf(a) = plans[a].status
    BY ActiveIsAwake DEF IInv, StatusOf
  <1>2. a \in Nat /\ StatusOf(a) \in Readings
    BY <1>1 DEF IInv, PlansTypeOK, Ids, Awake, Readings, Statuses
  <1>3. worker' = [worker EXCEPT !.pc = "found", !.tool = tool, !.task = t,
                     !.plan = a, !.read = StatusOf(a)]
    OBVIOUS
  <1>4. Underway(StatusOf(a)) => a \in approvals
    BY <1>1 DEF IInv, StatusIsEarned
  <1> HIDE DEF a
  <1>5. PlansTypeOK'
    BY <1>2, <1>3 DEF IInv, PlansTypeOK
  <1>6. /\ worker'.pc = "found" /\ worker'.tool = tool /\ worker'.task = t
        /\ worker'.plan = a /\ worker'.read = StatusOf(a) /\ worker'.offered = worker.offered
    BY <1>3 DEF IInv, PlansTypeOK
  <1>7. CallIsEarned'
    BY <1>1, <1>4, <1>6 DEF CallIsEarned, Ids
  <1>8. QED
    BY <1>5, <1>6, <1>7 DEF IInv, StatusIsEarned, OfferIsEarned, DecisionIsDue,
       Ids

(* The task is worked on, and the call goes on to its plan if it has read  *)
(* that the plan is approved.                                              *)
LEMMA TaskKeeps == IInv /\ SetTaskStatus => IInv'
  <1> SUFFICES ASSUME IInv, SetTaskStatus PROVE IInv'
    OBVIOUS
  <1> DEFINE p == worker.plan
             t == worker.task
             s == TaskStatus
             new == [plans[p] EXCEPT !.tasks = [plans[p].tasks EXCEPT ![t] = s]]
  <1>1. /\ worker.pc = "found" /\ worker.tool \in Work
        /\ p \in Ids /\ t \in 1..TaskCount /\ worker.read \in Awake
        /\ Underway(worker.read) => p \in approvals
    BY DEF SetTaskStatus, AtWorker, IInv, CallIsEarned
  <1>2. s \in TaskStatuses
    BY DEF TaskStatus, TaskStatuses
  <1>3. plans \in [1..Len(plans) -> Plan] /\ Len(plans) \in Nat /\ Ids = 1..Len(plans)
    BY DEF IInv, PlansTypeOK, Ids
  <1>4. new \in Plan /\ new.status = plans[p].status
    BY <1>1, <1>2, <1>3 DEF Plan
  <1>5. plans' = [plans EXCEPT ![p] = new]
    BY DEF SetTaskStatus
  <1>6. UNCHANGED <<planEpoch, deciders, approvals>>
    BY DEF SetTaskStatus
  <1> HIDE DEF new
  <1>7. plans' \in [1..Len(plans) -> Plan] /\ plans' \in Seq(Plan) /\ Ids' = Ids
    <2>1. plans' \in [1..Len(plans) -> Plan]
      BY <1>1, <1>3, <1>4, <1>5
    <2>2. plans' \in Seq(Plan)
      BY <1>3, <2>1
    <2>3. QED
      BY <1>3, <2>1, <2>2 DEF Ids
  <1>8. \A q \in Ids : plans'[q] = IF q = p THEN new ELSE plans[q]
    BY <1>1, <1>3, <1>5
  <1>9. StatusIsEarned'
    BY <1>4, <1>6, <1>7, <1>8 DEF IInv, StatusIsEarned
  <1>10. DecisionIsDue'
    BY <1>6, <1>7 DEF IInv, DecisionIsDue
  <1>11. CASE worker' = CallOver
    <2>1. /\ worker' \in [pc: {"off", "tools", "calls", "found", "started"}, epoch: Nat,
                          told: Nat, offered: Nat, tool: Tools, task: Nat, plan: Nat,
                          read: Readings]
          /\ worker'.pc = "calls" /\ worker'.offered = worker.offered
      BY <1>11 DEF IInv, PlansTypeOK, CallOver, Tools, Readings
    <2>2. QED
      BY <1>6, <1>7, <1>9, <1>10, <2>1
         DEF IInv, PlansTypeOK, OfferIsEarned, CallIsEarned
  <1>12. CASE worker.read = "approved" /\ worker' = [worker EXCEPT !.pc = "started"]
    <2>1. /\ worker' \in [pc: {"off", "tools", "calls", "found", "started"}, epoch: Nat,
                          told: Nat, offered: Nat, tool: Tools, task: Nat, plan: Nat,
                          read: Readings]
          /\ worker'.offered = worker.offered
          /\ worker'.plan = worker.plan /\ worker'.read = worker.read
          /\ worker'.tool = worker.tool /\ worker'.task = worker.task
      BY <1>12 DEF IInv, PlansTypeOK
    <2>2. QED
      BY <1>1, <1>6, <1>7, <1>9, <1>10, <1>12, <2>1
         DEF IInv, PlansTypeOK, OfferIsEarned, CallIsEarned
  <1>13. QED
    BY <1>11, <1>12 DEF SetTaskStatus, BeginsPlan

(* A call that sets the plan's status is over with it.                     *)
LEMMA StatusCallKeeps ==
  ASSUME IInv, NEW s \in Statuses, worker.pc \in {"found", "started"},
         SetPlanStatus(worker.plan, worker.read, s), worker' = CallOver,
         Underway(s) => worker.plan \in approvals,
         UNCHANGED <<planEpoch, deciders, approvals>>
  PROVE  IInv'
  <1>1. worker.plan \in Ids
    BY DEF IInv, CallIsEarned
  <1>2. plans' \in Seq(Plan) /\ Ids' = Ids /\ StatusIsEarned'
    BY <1>1, StatusKeeps
  <1>3. /\ worker' \in [pc: {"off", "tools", "calls", "found", "started"}, epoch: Nat,
                        told: Nat, offered: Nat, tool: Tools, task: Nat, plan: Nat,
                        read: Readings]
        /\ worker'.pc = "calls" /\ worker'.offered = worker.offered
    BY DEF IInv, PlansTypeOK, CallOver, Tools, Readings
  <1>4. QED
    BY <1>2, <1>3 DEF IInv, PlansTypeOK, OfferIsEarned, CallIsEarned, DecisionIsDue

(* The operator's decisions.                                               *)
LEMMA LoadKeeps ==
  ASSUME IInv, NEW d \in Deciders, NEW p \in Ids, LoadToApprove(d, p)
  PROVE  IInv'
  <1>1. /\ plans[p].status = "awaiting_approval" /\ p \in Nat
        /\ deciders' = [deciders EXCEPT ![d] = [pc |-> "approve", plan |-> p,
                                                read |-> plans[p].status]]
        /\ UNCHANGED <<plans, planEpoch, worker, approvals>>
    BY DEF LoadToApprove, AwaitsApproval, IInv, PlansTypeOK, Ids
  <1>2. PlansTypeOK'
    BY <1>1 DEF IInv, PlansTypeOK, Readings, Statuses
  <1>3. DecisionIsDue'
    BY <1>1 DEF IInv, PlansTypeOK, DecisionIsDue, Ids
  <1>4. QED
    BY <1>1, <1>2, <1>3 DEF IInv, StatusIsEarned, OfferIsEarned, CallIsEarned, Ids

LEMMA ApprovalKeeps ==
  ASSUME IInv, NEW d \in Deciders, ApprovePlan(d)
  PROVE  IInv'
  <1> DEFINE p == deciders[d].plan
  <1>1. /\ SetPlanStatus(p, deciders[d].read, "approved") /\ approvals' = approvals \cup {p}
        /\ deciders' = [deciders EXCEPT ![d] = NoDecider]
        /\ UNCHANGED <<planEpoch, worker>> /\ p \in Ids
    BY DEF ApprovePlan, IInv, DecisionIsDue
  <1>2. plans' \in Seq(Plan) /\ Ids' = Ids /\ StatusIsEarned'
    BY <1>1, StatusKeeps DEF Statuses
  <1>3. PlansTypeOK'
    BY <1>1, <1>2 DEF IInv, PlansTypeOK, NoDecider, Readings
  <1>4. DecisionIsDue'
    BY <1>1, <1>2 DEF IInv, PlansTypeOK, DecisionIsDue, NoDecider
  <1>5. OfferIsEarned' /\ CallIsEarned'
    BY <1>1, <1>2 DEF IInv, OfferIsEarned, CallIsEarned
  <1>6. QED
    BY <1>2, <1>3, <1>4, <1>5 DEF IInv

LEMMA RejectionKeeps ==
  ASSUME IInv, NEW p \in Ids, RejectPlan(p)
  PROVE  IInv'
  <1>1. /\ SetPlanStatus(p, plans[p].status, "rejected")
        /\ UNCHANGED <<planEpoch, worker, deciders, approvals>>
    BY DEF RejectPlan
  <1>2. plans' \in Seq(Plan) /\ Ids' = Ids /\ StatusIsEarned'
    BY <1>1, StatusKeeps DEF Statuses, Underway
  <1>3. QED
    BY <1>1, <1>2 DEF IInv, PlansTypeOK, OfferIsEarned, CallIsEarned, DecisionIsDue

LEMMA DropKeeps ==
  ASSUME IInv, NEW d \in Deciders, DecisionFails(d)
  PROVE  IInv'
  <1>1. /\ deciders' = [deciders EXCEPT ![d] = NoDecider]
        /\ UNCHANGED <<plans, planEpoch, worker, approvals>>
    BY DEF DecisionFails
  <1>2. PlansTypeOK' /\ DecisionIsDue'
    BY <1>1 DEF IInv, PlansTypeOK, DecisionIsDue, NoDecider, Ids, Readings
  <1>3. QED
    BY <1>1, <1>2 DEF IInv, StatusIsEarned, OfferIsEarned, CallIsEarned, Ids

(* One step per action.                                                    *)
LEMMA StepPreserves == IInv /\ [PlansNext]_plansVars => IInv'
  <1> SUFFICES ASSUME IInv, [PlansNext]_plansVars PROVE IInv'
    OBVIOUS
  <1>1. CASE AssembleTurn
    BY <1>1, TurnBegins
  <1>2. CASE OfferTools
    BY <1>2, OfferKeeps
  <1>3. CASE CreateGoalPlan
    BY <1>3, ProposalKeeps
  <1>4. CASE TurnEnds
    BY <1>4, WorkerRests DEF TurnEnds, IInv, PlansTypeOK
  <1>5. ASSUME NEW tool \in Work, NEW t \in 1..TaskCount, FindTask(tool, t) PROVE IInv'
    <2>1. tool \in Tools
      BY DEF Tools
    <2>2. t \in Nat
      OBVIOUS
    <2>3. QED
      BY <1>5, <2>1, <2>2, CallFinds DEF FindTask
  <1>6. CASE SetTaskStatus
    BY <1>6, TaskKeeps
  <1>7. CASE PlanInProgress
    <2>1. worker.pc = "started" /\ worker.plan \in approvals
      BY <1>7 DEF PlanInProgress, AtWorker, IInv, CallIsEarned, Underway
    <2>2. QED
      BY <1>7, <2>1, StatusCallKeeps DEF PlanInProgress, Statuses
  <1>8. CASE FindGoal
    <2>1. /\ ActivePlan(worker.epoch) # 0
          /\ UNCHANGED <<plans, planEpoch, deciders, approvals>>
          /\ worker' = [worker EXCEPT !.pc = "found", !.tool = "goal_complete",
                          !.plan = ActivePlan(worker.epoch),
                          !.read = StatusOf(ActivePlan(worker.epoch))]
      BY <1>8 DEF FindGoal
    <2>2. worker.task \in Nat
      BY DEF IInv, PlansTypeOK
    <2>3. worker' = [worker EXCEPT !.pc = "found", !.tool = "goal_complete", !.task = worker.task,
                       !.plan = ActivePlan(worker.epoch),
                       !.read = StatusOf(ActivePlan(worker.epoch))]
      BY <2>1 DEF IInv, PlansTypeOK
    <2>4. "goal_complete" \notin Work
      BY DEF Work
    <2>5. QED
      BY <2>1, <2>2, <2>3, <2>4, CallFinds DEF Tools
  <1>9. CASE GoalComplete
    BY <1>9, StatusCallKeeps DEF GoalComplete, AtWorker, Statuses, Underway
  <1>10. CASE CompactionRolls
    BY <1>10, WorkerRests DEF CompactionRolls, KeepPlans, IInv, PlansTypeOK
  <1>11. CASE ClearRolls
    BY <1>11, WorkerRests DEF ClearRolls, IInv, PlansTypeOK
  <1>12. ASSUME NEW d \in Deciders, ApprovePlan(d) \/ DecisionFails(d) PROVE IInv'
    BY <1>12, ApprovalKeeps, DropKeeps
  <1>13. ASSUME NEW d \in Deciders, NEW p \in Ids, LoadToApprove(d, p) PROVE IInv'
    BY <1>13, LoadKeeps
  <1>14. ASSUME NEW p \in Ids, RejectPlan(p) PROVE IInv'
    BY <1>14, RejectionKeeps
  <1>15. CASE UNCHANGED plansVars
    BY <1>15 DEF plansVars, IInv, PlansTypeOK, StatusIsEarned, OfferIsEarned, CallIsEarned,
       DecisionIsDue, Ids
  <1>16. QED
    BY <1>1, <1>2, <1>3, <1>4, <1>5, <1>6, <1>7, <1>8, <1>9, <1>10, <1>11, <1>12, <1>13, <1>14,
       <1>15 DEF PlansNext

(* What is underway, and what a turn was offered the tools for, the        *)
(* operator has approved.                                                  *)
THEOREM UnderwayWasApproved == PlansSpec => []UnderwayIsApproved
  <1>1. IInv => UnderwayIsApproved
    BY DEF IInv, StatusIsEarned, OfferIsEarned, UnderwayIsApproved, Underway
  <1>2. QED
    BY <1>1, InitEstablishes, StepPreserves, PTL DEF PlansSpec

-----------------------------------------------------------------------------
(* The status of a rejected plan is only set by who read another one.      *)
LEMMA RejectedStays ==
  ASSUME IInv, NEW p \in Ids, NEW s \in Statuses, NEW read, SetPlanStatus(p, read, s),
         s = "rejected" \/ read # "rejected",
         NEW q \in Ids, plans[q].status = "rejected"
  PROVE  plans'[q].status = "rejected" \/ q \in overtaken'
  <1>1. plans'[q].status = IF q = p THEN s ELSE plans[q].status
    BY StatusIsSet DEF IInv
  <1>2. QED
    BY <1>1 DEF SetPlanStatus

(* A rejection holds, except against what had read the plan before it.     *)
THEOREM RejectedPlansStay == PlansSpec => RejectionHolds
  <1> DEFINE Holds == \A p \in Ids : plans[p].status = "rejected"
                        => plans'[p].status = "rejected" \/ p \in overtaken'
  <1>1. IInv /\ [PlansNext]_plansVars => [Holds]_plansVars
    <2> SUFFICES ASSUME IInv, PlansNext, NEW q \in Ids, plans[q].status = "rejected"
                 PROVE  plans'[q].status = "rejected" \/ q \in overtaken'
      OBVIOUS
    <2>1. CASE UNCHANGED plans
      BY <2>1
    <2>2. CASE CreateGoalPlan
      <3>1. PICK new : plans' = Append(plans, new)
        BY <2>2 DEF CreateGoalPlan
      <3>2. plans \in Seq(Plan) /\ q \in 1..Len(plans)
        BY DEF IInv, PlansTypeOK, Ids
      <3>3. plans'[q] = plans[q]
        BY <3>1, <3>2
      <3>4. QED
        BY <3>3
    <2>3. CASE SetTaskStatus
      <3>1. worker.plan \in Ids /\ plans \in Seq(Plan)
        BY <2>3 DEF SetTaskStatus, AtWorker, IInv, CallIsEarned, PlansTypeOK
      <3>2. plans'[q].status = plans[q].status
        <4>1. plans \in [1..Len(plans) -> Plan] /\ Ids = 1..Len(plans)
          BY <3>1 DEF Ids
        <4>2. plans' = [plans EXCEPT ![worker.plan] = [plans[worker.plan] EXCEPT
                          !.tasks = [plans[worker.plan].tasks EXCEPT ![worker.task] = TaskStatus]]]
          BY <2>3 DEF SetTaskStatus
        <4>3. QED
          BY <3>1, <4>1, <4>2 DEF Plan
      <3>3. QED
        BY <3>2
    <2>4. CASE PlanInProgress
      <3>1. worker.plan \in Ids /\ worker.read = "approved"
        BY <2>4 DEF PlanInProgress, AtWorker, IInv, CallIsEarned
      <3>2. QED
        BY <2>4, <3>1, RejectedStays DEF PlanInProgress, Statuses
    <2>5. CASE GoalComplete
      <3>1. worker.plan \in Ids /\ worker.read # "rejected"
        BY <2>5 DEF GoalComplete, AtWorker, IInv, CallIsEarned, Awake
      <3>2. QED
        BY <2>5, <3>1, RejectedStays DEF GoalComplete, Statuses
    <2>6. ASSUME NEW d \in Deciders, ApprovePlan(d)
          PROVE  plans'[q].status = "rejected" \/ q \in overtaken'
      <3>1. deciders[d].plan \in Ids /\ deciders[d].read # "rejected"
        BY <2>6 DEF ApprovePlan, IInv, DecisionIsDue
      <3>2. QED
        BY <2>6, <3>1, RejectedStays DEF ApprovePlan, Statuses
    <2>7. ASSUME NEW p \in Ids, RejectPlan(p)
          PROVE  plans'[q].status = "rejected" \/ q \in overtaken'
      BY <2>7, RejectedStays DEF RejectPlan, Statuses
    <2>8. QED
      BY <2>1, <2>2, <2>3, <2>4, <2>5, <2>6, <2>7
         DEF PlansNext, AssembleTurn, OfferTools, TurnEnds, FindTask, FindGoal, CompactionRolls,
             KeepPlans, ClearRolls, DecisionFails, LoadToApprove
  <1>2. QED
    BY <1>1, InitEstablishes, StepPreserves, PTL DEF PlansSpec, RejectionHolds
=============================================================================
