----------------------------- MODULE RunControl -----------------------------
(***************************************************************************)
(* How agent runs are started, parked, resumed, paused, cancelled and      *)
(* ended: the runs table (internal/agent/store.go), the in-memory map of   *)
(* cancel functions and the operator's requests (internal/agent/           *)
(* service.go), the goroutine that executes a run (internal/agent/         *)
(* loop.go), and the crash and boot of the process around them.            *)
(*                                                                         *)
(* Every SQL statement is one step, and a request is a sequence of such    *)
(* steps with nothing held between them: other requests, and the loops,    *)
(* act in between.  What the same code does to messages and epochs, to the *)
(* event log and to the sandbox heartbeat are other components, with       *)
(* variables of their own; none of them is read by a decision made here.   *)
(***************************************************************************)
EXTENDS Naturals

CONSTANTS
  MaxRuns,    \* bound: rows the runs table may come to hold
  Loops,      \* bound: goroutines executing s.run that may exist at once
  Requests,   \* HTTP requests being served at once
  MaxFaults,  \* bound: statements that fail (connection to the database or to
              \* the browser lost) while the process lives
  None        \* no run, no loop

RunIds == 1..MaxRuns

ASSUME BoundsAssumption == MaxRuns \in Nat \ {0} /\ MaxFaults \in Nat
ASSUME NoneAssumption == None \notin RunIds \cup Loops

VARIABLES
  runs,      \* the table: id -> [status, active]; "absent" before the INSERT
  cancels,   \* Service.cancels: id -> the loop whose context its entry cancels
  loops,     \* the goroutines: [pc, run, live, out]
  requests,  \* the requests: [pc, run]
  planPending,  \* some goal plan is awaiting approval
  process,   \* "up", "closing" (after Service.Close) or "down"
  faults,    \* how many statements have failed so far
  stopped,   \* history: goroutines whose run was resumed, cancelled or shut
             \* down after they were launched
  lost       \* history: goroutines whose entry of cancels another one deleted

history == <<stopped, lost>>
vars == <<runs, cancels, loops, requests, planPending, process, faults, history>>

-----------------------------------------------------------------------------
Parked    == {"paused", "awaiting_human", "awaiting_approval"}
Finished  == {"done", "error", "cancelled"}
Status    == Parked \cup Finished \cup {"absent", "running", "interrupted"}
Resumable == Parked \cup {"interrupted"}
Ops       == {"send", "pause", "resume", "cancel"}

RequestPC == {"idle", "approve", "lookup", "resume", "start", "launch",
              "park", "stop", "finish"}
LoopPC    == {"gone", "turn", "model", "calls", "call", "finish", "clear"}
(* What s.loop has come to: the error it unwinds with, or while a batch of *)
(* tool calls runs, what the batch has asked for so far.                   *)
Outcome   == {"none", "done", "awaiting_approval", "awaiting_human",
              "paused", "error", "interrupted"}

Gone   == [pc |-> "gone", run |-> None, live |-> FALSE, out |-> "none"]
Idle   == [pc |-> "idle", run |-> None]
Absent == [status |-> "absent", active |-> FALSE]

(* Every row, request and goroutine has a status, a place in the code and  *)
(* a run that its readers know; no statement writes anything else.         *)
TypeOK ==
  /\ runs \in [RunIds -> [status: Status, active: BOOLEAN]]
  /\ cancels \in [RunIds -> Loops \cup {None}]
  /\ loops \in [Loops -> [pc: LoopPC, run: RunIds \cup {None},
                          live: BOOLEAN, out: Outcome]]
  /\ requests \in [Requests -> [pc: RequestPC, run: RunIds \cup {None}]]
  /\ planPending \in BOOLEAN
  /\ process \in {"up", "closing", "down"}
  /\ faults \in 0..MaxFaults
  /\ stopped \subseteq Loops /\ lost \subseteq Loops

Init ==
  /\ runs = [r \in RunIds |-> Absent]
  /\ cancels = [r \in RunIds |-> None]
  /\ loops = [l \in Loops |-> Gone]
  /\ requests = [q \in Requests |-> Idle]
  /\ planPending = FALSE
  /\ process = "up"
  /\ faults = 0
  /\ stopped = {} /\ lost = {}

-----------------------------------------------------------------------------
(* The statements of store.go on the runs table, each atomic.              *)

(* activeRun: the row with active = 1, or None (ErrNoRun).                 *)
ActiveRun == IF \E r \in RunIds : runs[r].active
             THEN CHOOSE r \in RunIds : runs[r].active
             ELSE None

NoUniqueIndex(r) == TRUE

(* idx_runs_one_active refuses a second row with active = 1.               *)
SlotFreeFor(r) == \A other \in RunIds \ {r} : ~runs[other].active

(* startRun: ids are allocated in order.                                   *)
InsertRun(r) ==
  /\ runs[r] = Absent
  /\ \A earlier \in 1..(r - 1) : runs[earlier] # Absent
  /\ runs' = [runs EXCEPT ![r] = [status |-> "running", active |-> TRUE]]

(* parkRun sets the status, whatever it was, and leaves active alone.      *)
ParkRun(r, status) == runs' = [runs EXCEPT ![r].status = status]

(* resumeRun gives the row the slot (back), whatever its status was.       *)
ResumeRun(r) ==
  runs' = [runs EXCEPT ![r] = [status |-> "running", active |-> TRUE]]

FinishWithoutFreeing(r, status) == runs' = [runs EXCEPT ![r].status = status]

(* finishRun ends the row, whatever its status was, and frees the slot.    *)
FinishRun(r, status) ==
  runs' = [runs EXCEPT ![r] = [status |-> status, active |-> FALSE]]

(* ReconcileInterruptedRuns, at boot.                                      *)
ReconcileInterruptedRuns ==
  runs' = [r \in RunIds |->
             IF runs[r].active /\ runs[r].status = "running"
             THEN [status |-> "interrupted", active |-> FALSE]
             ELSE runs[r]]

-----------------------------------------------------------------------------
(* The map of cancel functions (service.go:468-501).  Cancelling the       *)
(* context of a loop is irrevocable: its live turns FALSE and stays so.    *)

CancelLoop(ls, entry) == IF entry \in Loops
                         THEN [ls EXCEPT ![entry].live = FALSE]
                         ELSE ls

LaunchBeside(l, r) ==
  /\ loops[l] = Gone
  /\ loops' = [loops EXCEPT
                 ![l] = [pc |-> "turn", run |-> r, live |-> TRUE, out |-> "none"]]
  /\ cancels' = [cancels EXCEPT ![r] = l]

(* launch: cancel the loop the map knows for r, if any, and start l.       *)
Launch(l, r) ==
  /\ loops[l] = Gone
  /\ loops' = [CancelLoop(loops, cancels[r]) EXCEPT
                 ![l] = [pc |-> "turn", run |-> r, live |-> TRUE, out |-> "none"]]
  /\ cancels' = [cancels EXCEPT ![r] = l]

StopWithoutDelete(r) == /\ loops' = CancelLoop(loops, cancels[r])
                        /\ UNCHANGED cancels

StopRun(r) == /\ loops' = CancelLoop(loops, cancels[r])
              /\ cancels' = [cancels EXCEPT ![r] = None]

(* clearCancel: the entry of the run, whichever loop it belongs to.        *)
ClearCancel(r) == cancels' = [cancels EXCEPT ![r] = None]

(* The goroutines at work on a run are to write nothing of it any more.    *)
Executing(l, r) == loops[l].run = r /\ loops[l].pc \notin {"gone", "clear"}

Supersede(r) == /\ stopped' = stopped \cup {l \in Loops : Executing(l, r)}
                /\ UNCHANGED lost

-----------------------------------------------------------------------------
(* The goal plans, as far as they decide what a request does.  A new plan  *)
(* replaces none: when one leaves awaiting_approval, another may remain.   *)

(* setPlanStatus, to a status other than awaiting_approval.                *)
SetPlanStatus == planPending' \in {FALSE, planPending}

-----------------------------------------------------------------------------
(* The operator's requests (service.go:187-418).                           *)

Goto(q, pc) == requests' = [requests EXCEPT ![q].pc = pc]
Reply(q) == requests' = [requests EXCEPT ![q] = Idle]

(* Where a request goes once activeRun has answered with a row in status s. *)
AfterLookup(op, s) ==
  CASE op = "approve"           -> "resume"
    [] op = "cancel"            -> "stop"
    [] op = "pause"             -> IF s = "running" THEN "park" ELSE "idle"
    [] OTHER                    -> IF s \in Resumable THEN "resume" ELSE "idle"

(* ... and when there is no active run: ErrNoRun, or a new run.            *)
AfterNoRun(op) == IF op \in {"send", "approve"} THEN "start" ELSE "idle"

(* Read activeRun and decide.                                              *)
Decide(q, op) ==
  LET r  == ActiveRun
      pc == IF r = None THEN AfterNoRun(op) ELSE AfterLookup(op, runs[r].status)
  IN requests' = [requests EXCEPT
       ![q] = IF pc = "idle" THEN Idle ELSE [pc |-> pc, run |-> r]]

(* A request other than ApprovePlan gets to its read of activeRun, and has *)
(* something to do.  Of what precedes the read nothing depends on the      *)
(* runs: SendMessage and CreatePlan check the project and the model and    *)
(* record their message.  CreatePlan treats the runs as SendMessage does,  *)
(* and ClearConversation as Cancel does.                                   *)
Ask(q, op) ==
  /\ process = "up"
  /\ requests[q].pc = "idle"
  /\ Decide(q, op)
  /\ requests'[q].pc # "idle"
  /\ UNCHANGED <<runs, cancels, loops, planPending, process, faults, history>>

(* ApprovePlan refuses a plan that is not awaiting approval, ...           *)
ReadPlan(q) ==
  /\ process = "up"
  /\ requests[q].pc = "idle"
  /\ planPending
  /\ Goto(q, "approve")
  /\ UNCHANGED <<runs, cancels, loops, planPending, process, faults, history>>

(* ... sets its status, whatever that has become meanwhile, ...            *)
ApprovePlan(q) ==
  /\ requests[q].pc = "approve"
  /\ SetPlanStatus
  /\ Goto(q, "lookup")
  /\ UNCHANGED <<runs, cancels, loops, process, faults, history>>

(* ... and only then, the note recorded, looks for the run to resume.      *)
LookUpRun(q) ==
  /\ requests[q].pc = "lookup"
  /\ Decide(q, "approve")
  /\ UNCHANGED <<runs, cancels, loops, planPending, process, faults, history>>

(* RejectPlan: any plan, and the plan only; the run stays as it is.        *)
RejectPlan ==
  /\ process = "up"
  /\ SetPlanStatus
  /\ UNCHANGED <<runs, cancels, loops, requests, process, faults, history>>

Resume(q) ==
  /\ requests[q].pc = "resume"
  /\ LET r == requests[q].run IN
     IF SlotFreeFor(r)
     THEN ResumeRun(r) /\ Supersede(r) /\ Goto(q, "launch")
     ELSE UNCHANGED <<runs, history>> /\ Reply(q)
  /\ UNCHANGED <<cancels, loops, planPending, process, faults>>

Start(q) ==
  /\ requests[q].pc = "start"
  /\ IF SlotFreeFor(None)
     THEN \E r \in RunIds :
            /\ InsertRun(r)
            /\ requests' = [requests EXCEPT ![q].run = r, ![q].pc = "launch"]
     ELSE UNCHANGED runs /\ Reply(q)
  /\ UNCHANGED <<cancels, loops, planPending, process, faults, history>>

LaunchLoop(q) ==
  /\ requests[q].pc = "launch"
  /\ \E l \in Loops : Launch(l, requests[q].run)
  /\ Reply(q)
  /\ UNCHANGED <<runs, planPending, process, faults, history>>

(* Pause is a write to the row; the loop sees it at its next checkpoint.   *)
Pause(q) ==
  /\ requests[q].pc = "park"
  /\ ParkRun(requests[q].run, "paused")
  /\ Reply(q)
  /\ UNCHANGED <<cancels, loops, planPending, process, faults, history>>

(* Cancel and ClearConversation: first the context, then the row.          *)
CancelContext(q) ==
  /\ requests[q].pc = "stop"
  /\ StopRun(requests[q].run)
  /\ Supersede(requests[q].run)
  /\ Goto(q, "finish")
  /\ UNCHANGED <<runs, planPending, process, faults>>

CancelRow(q) ==
  /\ requests[q].pc = "finish"
  /\ FinishRun(requests[q].run, "cancelled")
  /\ Reply(q)
  /\ UNCHANGED <<cancels, loops, planPending, process, faults, history>>

(* A statement of the request fails: the browser went away and took the    *)
(* request's context with it, or the database call failed.  The handler    *)
(* returns the error; launch and stopRun do not use the context.           *)
RequestFails(q) ==
  /\ requests[q].pc \in {"approve", "lookup", "resume", "start", "park", "finish"}
  /\ faults < MaxFaults
  /\ faults' = faults + 1
  /\ Reply(q)
  /\ UNCHANGED <<runs, cancels, loops, planPending, process, history>>

(* SendMessage and ApprovePlan take any error of activeRun for "no run is   *)
(* active" and try to start one; the unique index has the last word.       *)
LookupFails(q) ==
  /\ \/ requests[q].pc = "idle" /\ process = "up"
     \/ requests[q].pc = "lookup"
  /\ faults < MaxFaults
  /\ faults' = faults + 1
  /\ requests' = [requests EXCEPT ![q] = [pc |-> "start", run |-> None]]
  /\ UNCHANGED <<runs, cancels, loops, planPending, process, history>>

-----------------------------------------------------------------------------
(* The goroutine: s.run around s.loop (loop.go:33-301).                    *)

Unwind(l, out) == loops' = [loops EXCEPT ![l].pc = "finish", ![l].out = out]

IgnorePause(status) == status = "cancelled"

(* The statuses checkStop takes for a request to stop.                     *)
AskedToStop(status) == status \in {"paused", "cancelled"}

(* checkStop, then on to pc; before every turn and every tool call.        *)
CheckStop(l, pc) ==
  IF ~loops[l].live THEN Unwind(l, "interrupted")
  ELSE IF AskedToStop(runs[loops[l].run].status) THEN Unwind(l, "paused")
  ELSE loops' = [loops EXCEPT ![l].pc = pc]

BeginTurn(l) ==
  /\ loops[l].pc = "turn"
  /\ CheckStop(l, "model")
  /\ UNCHANGED <<runs, cancels, requests, planPending, process, faults, history>>

(* One model call, the assistant message recorded.  It fails, it ends the  *)
(* run by asking for no tool, or it asks for a batch of tool calls.  The   *)
(* statements and the model call all take the run's context.               *)
ModelTurn(l) ==
  /\ loops[l].pc = "model"
  /\ \/ ~loops[l].live /\ Unwind(l, "interrupted")
     \/ loops[l].live /\ \E out \in {"error", "done"} : Unwind(l, out)
     \/ loops[l].live /\ loops' = [loops EXCEPT ![l].pc = "calls", ![l].out = "none"]
  /\ UNCHANGED <<runs, cancels, requests, planPending, process, faults, history>>

BeginCall(l) ==
  /\ loops[l].pc = "calls"
  /\ CheckStop(l, "call")
  /\ UNCHANGED <<runs, cancels, requests, planPending, process, faults, history>>

(* What a batch asks for, when it has asked for two things: parking for    *)
(* the human comes first, then the plan's approval, then completion.       *)
Rank == [none |-> 0, done |-> 1, awaiting_approval |-> 2, awaiting_human |-> 3]
Prior(a, b) == IF Rank[a] > Rank[b] THEN a ELSE b

(* After the last call of a batch that asked for out: the run parks or     *)
(* ends; or the context may be compacted and the next turn begins, unless  *)
(* it was the last of max_turns.                                           *)
EndBatch(l, out) ==
  IF out # "none" THEN Unwind(l, out)
  ELSE \/ loops' = [loops EXCEPT ![l].pc = "turn"]
       \/ Unwind(l, "error")

(* One tool call and its reply.  Of the tools, ask_human parks the run,    *)
(* create_goal_plan leaves a plan awaiting approval and goal_complete ends *)
(* the run, and completes the plan of the epoch, approved or not.          *)
ToolCall(l, asked) ==
  /\ loops[l].pc = "call"
  /\ IF ~loops[l].live
     THEN Unwind(l, "interrupted") /\ UNCHANGED planPending
     ELSE LET out == Prior(loops[l].out, asked) IN
          /\ \/ loops' = [loops EXCEPT ![l].pc = "calls", ![l].out = out]
             \/ EndBatch(l, out)
          /\ \/ asked = "awaiting_approval" /\ planPending' = TRUE
             \/ asked = "done" /\ SetPlanStatus
             \/ asked \in {"none", "awaiting_human"} /\ UNCHANGED planPending
  /\ UNCHANGED <<runs, cancels, requests, process, faults, history>>

(* A statement of the loop fails, or there is no model configured any      *)
(* more when it begins, and the run fails with it.                         *)
LoopFails(l) ==
  /\ loops[l].pc \in {"turn", "calls", "call"}
  /\ loops[l].live
  /\ faults < MaxFaults
  /\ faults' = faults + 1
  /\ Unwind(l, "error")
  /\ UNCHANGED <<runs, cancels, requests, planPending, process, history>>

EndRowUnlessError(r, out) == IF out = "error" THEN UNCHANGED runs
                             ELSE IF out \in Parked THEN ParkRun(r, out)
                             ELSE FinishRun(r, out)

(* How s.run records the outcome on the row.                               *)
EndRow(r, out) == IF out \in Parked THEN ParkRun(r, out) ELSE FinishRun(r, out)

WriteDetached(l) == TRUE

(* database/sql refuses to begin a statement under a cancelled context,    *)
(* and s.run uses the context of the loop for this write too.              *)
WriteGoesThrough(l) == loops[l].live

Finish(l) ==
  /\ loops[l].pc = "finish"
  /\ IF WriteGoesThrough(l) THEN EndRow(loops[l].run, loops[l].out)
     ELSE UNCHANGED runs
  /\ loops' = [loops EXCEPT ![l].pc = "clear", ![l].out = "none"]
  /\ UNCHANGED <<cancels, requests, planPending, process, faults, history>>

(* The write fails; the error is logged and the goroutine goes on to end.  *)
FinishFails(l) ==
  /\ loops[l].pc = "finish"
  /\ faults < MaxFaults
  /\ faults' = faults + 1
  /\ loops' = [loops EXCEPT ![l].pc = "clear", ![l].out = "none"]
  /\ UNCHANGED <<runs, cancels, requests, planPending, process, history>>

(* The deferred clearCancel, and the goroutine is gone.                    *)
Exit(l) ==
  /\ loops[l].pc = "clear"
  /\ ClearCancel(loops[l].run)
  /\ loops' = [loops EXCEPT ![l] = Gone]
  /\ stopped' = stopped \ {l}
  /\ lost' = (lost \cup {cancels[loops[l].run]}) \ {l, None}
  /\ UNCHANGED <<runs, requests, planPending, process, faults>>

-----------------------------------------------------------------------------
(* The process (service.go:430-437, cmd/doot/main.go:66-183).              *)

(* Service.Close, when serve returns: every context is cancelled.  No new  *)
(* request is accepted any more; nobody waits for the loops to unwind.     *)
Close ==
  /\ process = "up"
  /\ process' = "closing"
  /\ loops' = [l \in Loops |->
                 IF \E r \in RunIds : cancels[r] = l
                 THEN [loops[l] EXCEPT !.live = FALSE] ELSE loops[l]]
  /\ cancels' = [r \in RunIds |-> None]
  /\ stopped' = {l \in Loops : loops[l].pc # "gone"}
  /\ UNCHANGED <<runs, requests, planPending, faults, lost>>

(* The process is gone, at the end of a shutdown or at any other moment;   *)
(* what is left is the database.                                           *)
Crash ==
  /\ process \in {"up", "closing"}
  /\ process' = "down"
  /\ loops' = [l \in Loops |-> Gone]
  /\ requests' = [q \in Requests |-> Idle]
  /\ cancels' = [r \in RunIds |-> None]
  /\ stopped' = {} /\ lost' = {}
  /\ UNCHANGED <<runs, planPending, faults>>

(* bootstrap.Run reconciles the runs before requests are served.           *)
Boot ==
  /\ process = "down"
  /\ process' = "up"
  /\ ReconcileInterruptedRuns
  /\ UNCHANGED <<cancels, loops, requests, planPending, faults, history>>

-----------------------------------------------------------------------------
RequestStep(q) ==
  \/ ApprovePlan(q) \/ LookUpRun(q) \/ Resume(q) \/ Start(q) \/ LaunchLoop(q)
  \/ Pause(q) \/ CancelContext(q) \/ CancelRow(q)

LoopStep(l) ==
  \/ BeginTurn(l) \/ ModelTurn(l) \/ BeginCall(l)
  \/ \E asked \in DOMAIN Rank : ToolCall(l, asked)
  \/ Finish(l) \/ Exit(l)

Next ==
  \/ \E q \in Requests : \/ \E op \in Ops : Ask(q, op)
                          \/ ReadPlan(q) \/ RequestStep(q)
                          \/ RequestFails(q) \/ LookupFails(q)
  \/ \E l \in Loops : LoopStep(l) \/ LoopFails(l) \/ FinishFails(l)
  \/ RejectPlan \/ Close \/ Crash \/ Boot

Spec == Init /\ [][Next]_vars

(* Goroutines are scheduled, and every call they make returns: the model   *)
(* and the sandbox calls carry timeouts.  The operator, failures, crashes  *)
(* and the restart of the machine are not fair.                            *)
Fairness == /\ \A q \in Requests : WF_vars(RequestStep(q))
            /\ \A l \in Loops : WF_vars(LoopStep(l))

FairSpec == Spec /\ Fairness

-----------------------------------------------------------------------------
(* At most one row holds the slot, whatever requests, loops, crashes and   *)
(* boots did: docs/01-decisions.md:204, idx_runs_one_active.               *)
SlotUnique == \A r, s \in RunIds : runs[r].active /\ runs[s].active => r = s

(* No row is running, or waits for the operator at boot, without the slot  *)
(* it needs to be found, and no finished row blocks it: parkRun and        *)
(* finishRun write blindly, so the two columns could part.                 *)
SlotMatchesStatus ==
  \A r \in RunIds :
    /\ runs[r].status = "running" => runs[r].active
    /\ runs[r].status \in Finished \cup {"interrupted", "absent"} => ~runs[r].active

(* An entry of the map of cancel functions belongs to a goroutine that is  *)
(* still there, executes that very run and has not been cancelled: no      *)
(* entry outlives its loop, though any loop of a run may delete it         *)
(* (service.go:468-501).                                                   *)
CancelEntryIsLive ==
  \A r \in RunIds : cancels[r] # None =>
    LET l == loops[cancels[r]] IN l.pc # "gone" /\ l.run = r /\ l.live

(* A run the table calls running is being executed, is about to be, or is  *)
(* being cancelled: the operator never waits for a run nobody executes     *)
(* (as long as the statements of this process succeed).                    *)
BeingExecuted(r) ==
  \/ \E l \in Loops : /\ loops[l].run = r /\ loops[l].live
                      /\ loops[l].pc \notin {"gone", "clear"}
  \/ \E q \in Requests : requests[q].run = r /\ requests[q].pc \in {"launch", "finish"}

RunningIsExecuted ==
  process = "up" /\ faults = 0 =>
    \A r \in RunIds : runs[r].status = "running" => BeingExecuted(r)

(* What a goroutine comes to reaches the row only as long as its run was   *)
(* not taken from it: one whose run was resumed, cancelled or shut down    *)
(* since it was launched ends or parks nothing any more.  Two causes are   *)
(* left: the run is resumed and its new loop not launched yet, or another  *)
(* loop of the run had deleted its entry of the map (service.go:370-373,   *)
(* 468-501, loop.go:68).                                                   *)
AboutToLaunch(r) == \E q \in Requests : requests[q].pc = "launch" /\ requests[q].run = r

LateOutcomeHasACause ==
  [][\A l \in Loops :
       loops[l].pc = "finish" /\ loops'[l].pc = "clear" /\ runs' # runs
         => l \notin stopped \/ l \in lost \/ AboutToLaunch(loops[l].run)]_vars

(* Pause and Cancel take effect: as long as the row says paused or         *)
(* cancelled, every goroutine that executes the run comes to its end,      *)
(* those the map of cancel functions has lost included                     *)
(* (docs/01-decisions.md:193-195).                                         *)
StopTakesEffect ==
  \A r \in RunIds :
    runs[r].status \in {"paused", "cancelled"}
      ~> \/ runs[r].status \notin {"paused", "cancelled"}
         \/ \A l \in Loops : ~Executing(l, r)

(* The table keeps the promise of the one slot: SlotUnique, and that it is *)
(* given back before another run takes it.                                 *)
Holders == {r \in RunIds : runs[r].active}

Slot == INSTANCE RunSlot WITH holders <- Holders

SlotIsHandedOver == Slot!Spec

-----------------------------------------------------------------------------
(* What the repository says, and the code does not do.                     *)

(* "On boot, any run still marked running is marked interrupted and        *)
(* offered for resume" (docs/01-decisions.md:207-208).  The newest run, if *)
(* interrupted, is one that Service.Resume and Service.Status find.        *)
Newest(r) == \A later \in RunIds : later > r => runs[later] = Absent

InterruptedIsOffered ==
  \A r \in RunIds :
    process = "up" /\ runs[r].status = "interrupted" /\ Newest(r)
      => ActiveRun = r /\ runs[r].status \in Resumable

(* "cancels holds the stop function for the in-flight run, so shutdown can *)
(* unwind it promptly" (service.go:62-63): the map has an entry for every  *)
(* loop that still executes under a live context.                          *)
StopReachesEveryLoop ==
  \A l \in Loops : loops[l].live /\ loops[l].pc \notin {"gone", "clear"}
                       => cancels[loops[l].run] = l
=============================================================================
