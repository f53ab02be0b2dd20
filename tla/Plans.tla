------------------------------- MODULE Plans -------------------------------
(***************************************************************************)
(* Goal plans: the agent proposes one, the operator approves or rejects    *)
(* it, and the turn loop works on its tasks (internal/agent/plans.go,      *)
(* tools_plan.go, loop.go, and ApprovePlan and RejectPlan of service.go).  *)
(*                                                                         *)
(* One statement or transaction is one action.  A pause, a cancellation, a *)
(* failing statement or a restart takes the loop away between two of them, *)
(* and a decision is dropped the same way.  The tools of a plan's tasks    *)
(* are offered while a plan is underway, but nothing asks for that when    *)
(* the model calls one: the registry finds every tool by its name, and the *)
(* tool asks for no status of the plan.                                    *)
(***************************************************************************)
EXTENDS Naturals, Sequences

CONSTANTS
  Deciders,     \* requests that approve a plan
  MaxPlans,     \* bound: plans ever proposed
  TaskCount,    \* tasks of a plan
  MaxRolls      \* bound: epochs of the conversation

VARIABLES
  plans,        \* goal_plans and plan_tasks, in the order of the ids
  planEpoch,    \* project.current_epoch
  worker,       \* the turn loop: [pc, epoch, told, offered, tool, task, plan, read]
  deciders,     \* the approvals: [pc, plan, read]
  approvals,    \* history: plans that were approved
  uninvited,    \* history: plans worked on by a turn that was offered no such tools
  overtaken,    \* history: plans rejected since their status was read, and set again
  cleared       \* history: plans of a conversation the operator has cleared

plansVars == <<plans, planEpoch, worker, deciders, approvals, uninvited, overtaken, cleared>>

Awake == {"awaiting_approval", "approved", "in_progress"}
Work == {"start_task", "complete_task", "skip_task"}

NoWorker == [pc |-> "off", epoch |-> 0, told |-> 0, offered |-> 0,
             tool |-> "none", task |-> 0, plan |-> 0, read |-> "none"]
NoDecider == [pc |-> "idle", plan |-> 0, read |-> "none"]

PlansInit ==
  /\ plans = <<>> /\ planEpoch = 1 /\ worker = NoWorker
  /\ deciders = [d \in Deciders |-> NoDecider]
  /\ approvals = {} /\ uninvited = {} /\ overtaken = {} /\ cleared = {}

Ids == DOMAIN plans
AtWorker(pc) == worker.pc = pc

(* activePlan: the newest of an epoch that is not over, or none (0).  An   *)
(* older one stays, and surfaces again when the newer ones are over.       *)
ActivePlan(e) ==
  LET active == {p \in Ids : plans[p].epoch = e /\ plans[p].status \in Awake}
  IN IF active = {} THEN 0 ELSE CHOOSE p \in active : \A q \in active : q <= p

StatusOf(p) == IF p = 0 THEN "none" ELSE plans[p].status

(* setPlanStatus: it asks for no status to set out from.                   *)
SetPlanStatus(p, read, status) ==
  /\ plans' = [plans EXCEPT ![p].status = status]
  /\ overtaken' = IF plans[p].status = "rejected" /\ read # "rejected"
                  THEN overtaken \cup {p} ELSE overtaken

-----------------------------------------------------------------------------
(* The turn loop.                                                          *)

AnyPlan(status) == status # "none"

(* planInProgress.                                                         *)
Underway(status) == status \in {"approved", "in_progress"}

(* assembleMessages: the plan's state goes into the request, ...           *)
AssembleTurn ==
  /\ AtWorker("off")
  /\ worker' = [NoWorker EXCEPT !.pc = "tools", !.epoch = planEpoch,
                  !.told = IF Underway(StatusOf(ActivePlan(planEpoch)))
                           THEN ActivePlan(planEpoch) ELSE 0]
  /\ UNCHANGED <<plans, planEpoch, deciders, approvals, uninvited, overtaken, cleared>>

(* ... and the tools on offer are chosen by another look at it.            *)
OfferTools ==
  /\ AtWorker("tools")
  /\ worker' = [worker EXCEPT !.pc = "calls", !.told = 0,
                  !.offered = IF Underway(StatusOf(ActivePlan(worker.epoch)))
                              THEN ActivePlan(worker.epoch) ELSE 0]
  /\ UNCHANGED <<plans, planEpoch, deciders, approvals, uninvited, overtaken, cleared>>

(* create_goal_plan: always on offer.  An earlier plan is left as it is.   *)
CreateGoalPlan ==
  /\ AtWorker("calls") /\ Len(plans) < MaxPlans
  /\ plans' = Append(plans, [epoch |-> worker.epoch, status |-> "awaiting_approval",
                             tasks |-> [t \in 1..TaskCount |-> "pending"]])
  /\ UNCHANGED <<planEpoch, worker, deciders, approvals, uninvited, overtaken, cleared>>

(* findTask: a task's number is looked up in the plan active by now,       *)
(* whatever its status, and whatever the turn was offered.                 *)
FindTask(tool, t) ==
  /\ AtWorker("calls") /\ ActivePlan(worker.epoch) # 0
  /\ worker' = [worker EXCEPT !.pc = "found", !.tool = tool, !.task = t,
                  !.plan = ActivePlan(worker.epoch), !.read = StatusOf(ActivePlan(worker.epoch))]
  /\ UNCHANGED <<plans, planEpoch, deciders, approvals, uninvited, overtaken, cleared>>

TaskStatus == CASE worker.tool = "start_task" -> "in_progress"
                [] worker.tool = "complete_task" -> "done"
                [] OTHER -> "skipped"

CallOver == [worker EXCEPT !.pc = "calls", !.tool = "none", !.task = 0, !.plan = 0, !.read = "none"]

BeginsAny(status) == status # "in_progress"

BeginsPlan(status) == status = "approved"

(* setTaskStatus.  start_task goes on to the plan if it found it approved. *)
SetTaskStatus ==
  /\ AtWorker("found") /\ worker.tool \in Work
  /\ plans' = [plans EXCEPT ![worker.plan].tasks[worker.task] = TaskStatus]
  /\ uninvited' = IF worker.offered # 0 THEN uninvited ELSE uninvited \cup {worker.plan}
  /\ worker' = IF worker.tool = "start_task" /\ BeginsPlan(worker.read)
               THEN [worker EXCEPT !.pc = "started"] ELSE CallOver
  /\ UNCHANGED <<planEpoch, deciders, approvals, overtaken, cleared>>

PlanInProgress ==
  /\ AtWorker("started")
  /\ SetPlanStatus(worker.plan, worker.read, "in_progress") /\ worker' = CallOver
  /\ UNCHANGED <<planEpoch, deciders, approvals, uninvited, cleared>>

(* goal_complete: always on offer, and whatever plan is active is complete.*)
FindGoal ==
  /\ AtWorker("calls") /\ ActivePlan(worker.epoch) # 0
  /\ worker' = [worker EXCEPT !.pc = "found", !.tool = "goal_complete",
                  !.plan = ActivePlan(worker.epoch), !.read = StatusOf(ActivePlan(worker.epoch))]
  /\ UNCHANGED <<plans, planEpoch, deciders, approvals, uninvited, overtaken, cleared>>

GoalComplete ==
  /\ AtWorker("found") /\ worker.tool = "goal_complete"
  /\ SetPlanStatus(worker.plan, worker.read, "completed") /\ worker' = CallOver
  /\ UNCHANGED <<planEpoch, deciders, approvals, uninvited, cleared>>

(* The batch is over, or the loop is taken away.                           *)
TurnEnds ==
  /\ ~AtWorker("off") /\ worker' = NoWorker
  /\ UNCHANGED <<plans, planEpoch, deciders, approvals, uninvited, overtaken, cleared>>

KeepPlans == UNCHANGED plans

(* compact, between two turns: the plans stay behind in their epoch.       *)
CompactionRolls ==
  /\ AtWorker("calls") /\ planEpoch < MaxRolls
  /\ planEpoch' = planEpoch + 1 /\ KeepPlans /\ worker' = NoWorker
  /\ UNCHANGED <<deciders, approvals, uninvited, overtaken, cleared>>

(* ClearConversation, which cancels the run first.                         *)
ClearRolls ==
  /\ planEpoch < MaxRolls /\ planEpoch' = planEpoch + 1
  /\ worker' = NoWorker /\ cleared' = cleared \cup Ids
  /\ UNCHANGED <<plans, deciders, approvals, uninvited, overtaken>>

-----------------------------------------------------------------------------
(* The operator's decisions, on any plan a screen has shown.               *)

AwaitsApproval(status) == status = "awaiting_approval"

(* ApprovePlan: the plan is loaded and looked at, ...                      *)
LoadToApprove(d, p) ==
  /\ deciders[d].pc = "idle" /\ AwaitsApproval(plans[p].status)
  /\ deciders' = [deciders EXCEPT ![d] = [pc |-> "approve", plan |-> p, read |-> plans[p].status]]
  /\ UNCHANGED <<plans, planEpoch, worker, approvals, uninvited, overtaken, cleared>>

(* ... and approved by another statement.                                  *)
ApprovePlan(d) ==
  /\ deciders[d].pc = "approve"
  /\ SetPlanStatus(deciders[d].plan, deciders[d].read, "approved")
  /\ approvals' = approvals \cup {deciders[d].plan}
  /\ deciders' = [deciders EXCEPT ![d] = NoDecider]
  /\ UNCHANGED <<planEpoch, worker, uninvited, cleared>>

(* RejectPlan loads the plan as well, but any status will do.              *)
RejectPlan(p) ==
  /\ SetPlanStatus(p, plans[p].status, "rejected")
  /\ UNCHANGED <<planEpoch, worker, deciders, approvals, uninvited, cleared>>

(* The statement fails, or the process dies before it.                     *)
DecisionFails(d) ==
  /\ deciders[d].pc # "idle"
  /\ deciders' = [deciders EXCEPT ![d] = NoDecider]
  /\ UNCHANGED <<plans, planEpoch, worker, approvals, uninvited, overtaken, cleared>>

PlansNext ==
  \/ AssembleTurn \/ OfferTools \/ CreateGoalPlan \/ TurnEnds
  \/ \E tool \in Work, t \in 1..TaskCount : FindTask(tool, t)
  \/ SetTaskStatus \/ PlanInProgress \/ FindGoal \/ GoalComplete
  \/ CompactionRolls \/ ClearRolls
  \/ \E d \in Deciders : ApprovePlan(d) \/ DecisionFails(d) \/ (\E p \in Ids : LoadToApprove(d, p))
  \/ \E p \in Ids : RejectPlan(p)

PlansSpec == PlansInit /\ [][PlansNext]_plansVars

-----------------------------------------------------------------------------
(* Properties.                                                             *)

(* A plan that is approved or in progress, and one whose tools a turn was  *)
(* offered, is one the operator has approved: a turn may start the tasks of*)
(* a plan that nobody has looked at, but that does not move the plan on    *)
(* (tools_plan.go:106-118).                                                *)
UnderwayIsApproved ==
  /\ \A p \in Ids : plans[p].status \in {"approved", "in_progress"} => p \in approvals
  /\ worker.offered # 0 => worker.offered \in approvals

(* A plan once rejected stays so, except when an approval, the start of a  *)
(* task or the completion of the goal had read it before and writes after. *)
RejectionHolds ==
  [][\A p \in Ids : plans[p].status = "rejected"
       => plans'[p].status = "rejected" \/ p \in overtaken']_plansVars

-----------------------------------------------------------------------------
(* What the repository says, and the code does not do.                     *)

(* tools_plan.go:16: "The human must approve it before any work starts",   *)
(* and docs/01-decisions.md:172: "Nothing executes before approval": no    *)
(* turn that was offered the tools for tasks works on those of a plan that *)
(* was not approved.                                                       *)
WorkIsApproved ==
  \A p \in Ids :
    (\E t \in 1..TaskCount : plans[p].tasks[t] # "pending") => p \in approvals \cup uninvited

(* loop.go:367: "Plan state is injected fresh each turn rather than relying*)
(* on the transcript, so progress survives compaction and a restart": when *)
(* a plan is in progress, and no other awaits a decision, a request to the *)
(* model tells of it.                                                      *)
PlanSurvivesCompaction ==
  LET With(status) == {p \in Ids \ cleared : plans[p].status = status} IN
  AtWorker("tools") /\ With("in_progress") # {} /\ With("awaiting_approval") = {}
    => worker.told # 0
=============================================================================
