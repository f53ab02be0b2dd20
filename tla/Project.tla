------------------------------ MODULE Project ------------------------------
(***************************************************************************)
(* The project row, its sandbox and the operations on them                 *)
(* (internal/project/service.go), over a provider that creates, starts,    *)
(* stops and destroys sandboxes (internal/daytona/sandbox.go).             *)
(*                                                                         *)
(* A job is a request together with the goroutine it leaves behind.  One   *)
(* SQL statement, one call to the provider and one critical section of     *)
(* busyMu are one action each.  A call that waits for the sandbox (Ensure- *)
(* Running, StopWithTimeout) is the call and the end of the wait.  What    *)
(* the row says of desktop, preview and screen is left out, and so are the *)
(* events: no operation decides anything by them.                          *)
(***************************************************************************)
EXTENDS Naturals, FiniteSets

CONSTANTS
  Jobs,         \* requests and background goroutines that may be under way at once
  MaxBoxes,     \* bound: sandboxes ever created
  MaxMishaps    \* bound: mishaps in one behaviour

ASSUME ProjectAssumption == MaxBoxes \in Nat /\ MaxMishaps \in Nat

VARIABLES
  project,      \* the row: [exists, box, state], box 0 when sandbox_id is null
  boxes,        \* what the provider has under each sandbox id
  busy,         \* Service.busyOp
  jobs,         \* [op, pc, saw, box, expired]: saw the sandbox id it has read, box
                \* the sandbox it holds a handle of, expired once its context ended
  mishaps,      \* history: what went wrong since the row last said how it ended
  luck,         \* mishaps that may still happen
  forgotten     \* history: sandboxes lost in a way the code accepts

projectVars == <<project, boxes, busy, jobs, mishaps, luck, forgotten>>

Boxes == 1..MaxBoxes
BoxState == {"none", "starting", "started", "stopping", "stopped", "destroyed"}
RowState == {"", "provisioning", "error"} \cup (BoxState \ {"none"})
Operations == {"create", "reset", "delete", "start", "stop", "desktop", "refresh"}
Mishaps == {"call", "write", "ended", "crash", "skipped"}

NoProject == [exists |-> FALSE, box |-> 0, state |-> ""]
NoJob == [op |-> "none", pc |-> "idle", saw |-> 0, box |-> 0, expired |-> FALSE]

(* Where a job stands while it holds the busy flag, and where it does not. *)
Guarded == {"lookup", "destroy", "clear", "drop", "load", "make", "record",
            "attach", "wake", "clone", "halt", "halting", "desktop", "settle",
            "fail", "release"}
Unguarded == {"idle", "insert", "acquire", "info", "write"}

ProjectInit ==
  /\ project = NoProject
  /\ boxes = [b \in Boxes |-> "none"]
  /\ busy = ""
  /\ jobs = [j \in Jobs |-> NoJob]
  /\ mishaps = {} /\ luck = MaxMishaps /\ forgotten = {}

(* Project.HasSandbox and Project.SandboxBusy.                             *)
HasSandbox == project.exists /\ project.box # 0
Transient == {"creating", "starting", "stopping", "restoring", "archiving",
              "provisioning", "resetting", "deleting"}

(* Client.Attach: the provider still has the sandbox the row names.        *)
AttachedRunning == HasSandbox /\ boxes[project.box] = "started"

Attached == HasSandbox /\ boxes[project.box] # "destroyed"

At(j, pc) == jobs[j].pc = pc
Goto(j, pc) == jobs' = [jobs EXCEPT ![j].pc = pc]
Leave(j, pc) == jobs' = [jobs EXCEPT ![j] = [op |-> jobs[j].op, pc |-> pc, saw |-> 0,
                                             box |-> 0, expired |-> jobs[j].expired]]
EndJob(j) == jobs' = [jobs EXCEPT ![j] = NoJob]

-----------------------------------------------------------------------------
(* What can go wrong.                                                      *)

Mishap(kind) ==
  luck > 0 /\ luck' = luck - 1 /\ mishaps' = mishaps \cup {kind}

(* A statement or a call is refused when the context has ended, and may    *)
(* fail by itself.                                                         *)
Live(j) == ~jobs[j].expired /\ UNCHANGED luck
Quietly == UNCHANGED <<mishaps, luck>>
Works(j) == ~jobs[j].expired /\ Quietly
Fails(j, kind) == IF jobs[j].expired THEN Quietly ELSE Mishap(kind)

(* provisionTimeout, startTimeout or stopTimeout passes, or the browser    *)
(* that made the request goes away.                                        *)
ContextEnds(j) ==
  /\ jobs[j].pc \notin {"idle", "acquire", "release"}
  /\ ~jobs[j].expired /\ Mishap("ended")
  /\ jobs' = [jobs EXCEPT ![j].expired = TRUE]
  /\ UNCHANGED <<project, boxes, busy, forgotten>>

-----------------------------------------------------------------------------
(* The statements on the row; an UPDATE of a row that is gone does nothing.*)

SetSandboxState(s) ==
  /\ project' = IF project.exists THEN [project EXCEPT !.state = s] ELSE project
  /\ mishaps' = {}

ForgetSandboxID(b) == UNCHANGED project

SetSandboxID(b) ==
  project' = IF project.exists THEN [project EXCEPT !.box = b] ELSE project

ClearSandbox ==
  project' = IF project.exists
             THEN [project EXCEPT !.box = 0, !.state = "provisioning"] ELSE project

(* acquire and release: the flag is one field, and names no holder.        *)
AcquireAnyway(op) == busy' = op

Acquire(op) == busy = "" /\ busy' = op

Release(j) ==
  /\ At(j, "release") /\ busy' = "" /\ EndJob(j)
  /\ UNCHANGED <<project, boxes, mishaps, luck, forgotten>>

-----------------------------------------------------------------------------
(* Create, Reset, Delete, up to the point where they provision.            *)

CreateRead(j) ==
  /\ At(j, "idle") /\ ~project.exists
  /\ jobs' = [jobs EXCEPT ![j] = [NoJob EXCEPT !.op = "create", !.pc = "insert"]]
  /\ UNCHANGED <<project, boxes, busy, mishaps, luck, forgotten>>

(* The primary key refuses a second project.                               *)
CreateInsert(j) ==
  /\ At(j, "insert")
  /\ \/ /\ ~project.exists /\ Works(j)
        /\ project' = [exists |-> TRUE, box |-> 0, state |-> "provisioning"]
        /\ Goto(j, "acquire")
     \/ project.exists /\ Quietly /\ UNCHANGED project /\ EndJob(j)
     \/ ~project.exists /\ Fails(j, "write") /\ UNCHANGED project /\ EndJob(j)
  /\ UNCHANGED <<boxes, busy, forgotten>>

(* goProvision gives up without a word when the flag is taken.             *)
GoProvision(j) ==
  /\ At(j, "acquire") /\ jobs[j].op = "create"
  /\ \/ /\ Acquire("provision") /\ Quietly
        /\ jobs' = [jobs EXCEPT ![j].pc = "load", ![j].expired = FALSE]
     \/ /\ busy # "" /\ mishaps' = mishaps \cup {"skipped"}
        /\ EndJob(j) /\ UNCHANGED <<busy, luck>>
  /\ UNCHANGED <<project, boxes, forgotten>>

(* Reset reads the project before it takes the flag.                       *)
ResetRead(j) ==
  /\ At(j, "idle") /\ project.exists
  /\ jobs' = [jobs EXCEPT ![j] = [NoJob EXCEPT !.op = "reset", !.pc = "acquire",
                                                !.saw = project.box]]
  /\ UNCHANGED <<project, boxes, busy, mishaps, luck, forgotten>>

ResetAcquire(j) ==
  /\ At(j, "acquire") /\ jobs[j].op = "reset"
  /\ \/ /\ Acquire("reset")
        /\ jobs' = [jobs EXCEPT ![j].pc = IF jobs[j].saw = 0 THEN "clear" ELSE "destroy",
                                ![j].expired = FALSE]
     \/ busy # "" /\ EndJob(j) /\ UNCHANGED busy
  /\ UNCHANGED <<project, boxes, mishaps, luck, forgotten>>

(* Delete, Start, Stop and StartDesktop take the flag first.               *)
Begin(j, op, pc) ==
  /\ At(j, "idle") /\ Acquire(op)
  /\ jobs' = [jobs EXCEPT ![j] = [NoJob EXCEPT !.op = op, !.pc = pc]]
  /\ UNCHANGED <<project, boxes, mishaps, luck, forgotten>>

BeginDelete(j)  == Begin(j, "delete", "lookup")
BeginStart(j)   == Begin(j, "start", "attach")
BeginStop(j)    == Begin(j, "stop", "attach")
BeginDesktop(j) == Begin(j, "desktop", "attach")

DeleteLookup(j) ==
  /\ At(j, "lookup")
  /\ \/ /\ Works(j) /\ project.exists
        /\ jobs' = [jobs EXCEPT ![j].saw = project.box,
                                ![j].pc = IF project.box = 0 THEN "drop" ELSE "destroy"]
     \/ Works(j) /\ ~project.exists /\ Leave(j, "release")
     \/ Fails(j, "write") /\ Leave(j, "release")
  /\ UNCHANGED <<project, boxes, busy, forgotten>>

(* The sandbox that was read is destroyed.  A failure is logged, and the   *)
(* operation goes on: nothing names that sandbox any more.                 *)
Destroy(j) ==
  LET b == jobs[j].saw IN
  /\ At(j, "destroy")
  /\ \/ Works(j) /\ boxes' = [boxes EXCEPT ![b] = "destroyed"] /\ UNCHANGED forgotten
     \/ /\ Fails(j, "call") /\ UNCHANGED boxes
        /\ forgotten' = forgotten \cup {b}
  /\ Goto(j, IF jobs[j].op = "reset" THEN "clear" ELSE "drop")
  /\ UNCHANGED <<project, busy>>

(* Delete's transaction.                                                   *)
Drop(j) ==
  /\ At(j, "drop") /\ Leave(j, "release")
  /\ \/ Live(j) /\ project' = NoProject /\ mishaps' = {}
     \/ Fails(j, "write") /\ UNCHANGED project
  /\ UNCHANGED <<boxes, busy, forgotten>>

(* Reset clears whatever sandbox the row names by now, which need not be   *)
(* the one it has destroyed.                                               *)
Clear(j) ==
  /\ At(j, "clear")
  /\ jobs' = [jobs EXCEPT ![j].pc = "load", ![j].saw = 0]
  /\ \/ /\ Works(j) /\ ClearSandbox
        /\ forgotten' = forgotten \cup (IF project.box = jobs[j].saw THEN {}
                                        ELSE {project.box} \ {0})
     \/ Fails(j, "write") /\ UNCHANGED <<project, forgotten>>
  /\ UNCHANGED <<boxes, busy>>

-----------------------------------------------------------------------------
(* provision.                                                              *)

(* Load the row, and attach to the sandbox it names, if any.  When that    *)
(* cannot be reached, another one takes its place.                         *)
LoadProject(j) ==
  /\ At(j, "load")
  /\ \/ /\ Works(j) /\ Attached
        /\ jobs' = [jobs EXCEPT ![j].pc = "wake", ![j].box = project.box]
        /\ UNCHANGED forgotten
     \/ /\ Works(j) /\ project.exists /\ ~Attached
        /\ Goto(j, "make") /\ UNCHANGED forgotten
     \/ /\ HasSandbox /\ Fails(j, "call") /\ Goto(j, "make")
        /\ forgotten' = forgotten \cup {project.box}
     \/ Works(j) /\ ~project.exists /\ Leave(j, "fail") /\ UNCHANGED forgotten
     \/ Fails(j, "write") /\ Leave(j, "fail") /\ UNCHANGED forgotten
  /\ UNCHANGED <<project, boxes, busy>>

NextBox(b) == boxes[b] = "none" /\ \A c \in Boxes : c < b => boxes[c] # "none"

QuotaReached == \A b \in Boxes : boxes[b] # "none"

(* Client.Provision.  The call may fail before or after the provider has   *)
(* created the sandbox; it gives no more of them than MaxBoxes.            *)
Make(j) ==
  /\ At(j, "make")
  /\ \/ \E b \in Boxes : /\ NextBox(b) /\ Works(j)
                         /\ boxes' = [boxes EXCEPT ![b] = "started"]
                         /\ jobs' = [jobs EXCEPT ![j].pc = "record", ![j].box = b]
                         /\ UNCHANGED forgotten
     \/ /\ Fails(j, "call") \/ (QuotaReached /\ Works(j))
        /\ Leave(j, "fail") /\ UNCHANGED <<boxes, forgotten>>
     \/ \E b \in Boxes : /\ NextBox(b) /\ Fails(j, "call") /\ Leave(j, "fail")
                         /\ boxes' = [boxes EXCEPT ![b] = "started"]
                         /\ forgotten' = forgotten \cup {b}
  /\ UNCHANGED <<project, busy>>

(* The id is recorded at once: a later failure must not orphan the sandbox.*)
Record(j) ==
  /\ At(j, "record")
  /\ \/ /\ Works(j) /\ SetSandboxID(jobs[j].box)
        /\ Goto(j, "wake") /\ UNCHANGED forgotten
     \/ /\ Fails(j, "write") /\ UNCHANGED project /\ Leave(j, "fail")
        /\ forgotten' = forgotten \cup {jobs[j].box}
  /\ UNCHANGED <<boxes, busy>>

(* repoSetup, SetupRepo and the setup script.                              *)
Clone(j) ==
  /\ At(j, "clone")
  /\ \/ Works(j) /\ Leave(j, "settle")
     \/ Fails(j, "call") /\ Leave(j, "fail")
  /\ UNCHANGED <<project, boxes, busy, forgotten>>

EmitErrorOnly == UNCHANGED <<project, mishaps>>

RecordError == SetSandboxState("error")

KeepFlag(j) == EndJob(j)

AfterFailure(j) == Leave(j, "release")

(* The error state is written under the context that may be what failed.   *)
RecordFailure(j) ==
  /\ At(j, "fail") /\ AfterFailure(j)
  /\ \/ Live(j) /\ RecordError
     \/ Fails(j, "write") /\ UNCHANGED project
  /\ UNCHANGED <<boxes, busy, forgotten>>

(* The state an operation ends with.  A provisioning whose last write fails*)
(* goes the way of a failure; the other operations ignore it.              *)
SettledState(op) == IF op = "stop" THEN "stopped" ELSE "started"

Settle(j) ==
  LET op == jobs[j].op IN
  /\ At(j, "settle")
  /\ \/ Live(j) /\ SetSandboxState(SettledState(op)) /\ Leave(j, "release")
     \/ /\ Fails(j, "write") /\ UNCHANGED project
        /\ Leave(j, IF op \in {"create", "reset"} THEN "fail" ELSE "release")
  /\ UNCHANGED <<boxes, busy, forgotten>>

-----------------------------------------------------------------------------
(* EnsureRunning, Start, Stop and StartDesktop.                            *)

(* sandbox(): the handle of the sandbox the row names, or nothing.         *)
Attach(j) ==
  /\ At(j, "attach")
  /\ \/ /\ Works(j) /\ Attached
        /\ jobs' = [jobs EXCEPT ![j].box = project.box,
                                ![j].pc = IF jobs[j].op = "stop" THEN "halt" ELSE "wake"]
     \/ Works(j) /\ ~Attached /\ Leave(j, "release")
     \/ Fails(j, "call") /\ Leave(j, "release")
  /\ UNCHANGED <<project, boxes, busy, forgotten>>

AfterWake(op) == CASE op = "start"   -> "settle"
                   [] op = "desktop" -> "desktop"
                   [] OTHER          -> "clone"

(* EnsureRunning: a stopped sandbox is started, one in transition is waited*)
(* for.  Only Start and the provisioning record a failure.                 *)
Wake(j) ==
  LET b == jobs[j].box
      op == jobs[j].op
  IN
  /\ At(j, "wake")
  /\ \/ /\ boxes[b] = "stopped" /\ Works(j)
        /\ boxes' = [boxes EXCEPT ![b] = "starting"] /\ UNCHANGED jobs
     \/ /\ boxes[b] = "started" /\ Works(j)
        /\ Leave(j, AfterWake(op)) /\ UNCHANGED boxes
     \/ /\ boxes[b] = "destroyed" /\ Works(j) /\ UNCHANGED boxes
        /\ Leave(j, IF op = "desktop" THEN "release" ELSE "fail")
     \/ /\ Fails(j, "call") /\ UNCHANGED boxes
        /\ Leave(j, IF op = "desktop" THEN "release" ELSE "fail")
  /\ UNCHANGED <<project, busy, forgotten>>

(* EnsureDesktop and what follows it leave the row's state alone.          *)
Desktop(j) ==
  /\ At(j, "desktop") /\ Leave(j, "release")
  /\ UNCHANGED <<project, boxes, busy, mishaps, luck, forgotten>>

(* Stop: the call, and the end of its wait.  When something wakes the      *)
(* sandbox meanwhile the wait fails, and nothing is recorded.              *)
Halt(j) ==
  LET b == jobs[j].box IN
  /\ At(j, "halt")
  /\ \/ /\ Works(j) /\ Goto(j, "halting")
        /\ boxes' = IF boxes[b] = "started" THEN [boxes EXCEPT ![b] = "stopping"]
                    ELSE boxes
     \/ Fails(j, "call") /\ Leave(j, "release") /\ UNCHANGED boxes
  /\ UNCHANGED <<project, busy, forgotten>>

HaltEnds(j) ==
  LET b == jobs[j].box IN
  /\ At(j, "halting")
  /\ \/ boxes[b] = "stopped" /\ Works(j) /\ Leave(j, "settle")
     \/ boxes[b] \in {"started", "starting"} /\ Works(j) /\ Leave(j, "release")
     \/ Fails(j, "call") /\ Leave(j, "release")
  /\ UNCHANGED <<project, boxes, busy, forgotten>>

-----------------------------------------------------------------------------
(* The project screen refreshes the state without taking the flag.         *)

RefreshUnlessStopped ==
  HasSandbox /\ busy = "" /\ project.state \notin Transient \cup {"stopped"}

MayRefresh == HasSandbox /\ busy = "" /\ project.state \notin Transient

RefreshCheck(j) ==
  /\ At(j, "idle") /\ MayRefresh
  /\ jobs' = [jobs EXCEPT ![j] = [NoJob EXCEPT !.op = "refresh", !.pc = "info"]]
  /\ UNCHANGED <<project, boxes, busy, mishaps, luck, forgotten>>

(* Load, Attach and Info; the sandbox may be another one by now.           *)
RefreshInfo(j) ==
  /\ At(j, "info")
  /\ IF HasSandbox /\ boxes[project.box] \notin {"destroyed", project.state}
     THEN jobs' = [jobs EXCEPT ![j].pc = "write", ![j].op = boxes[project.box]]
     ELSE EndJob(j)
  /\ UNCHANGED <<project, boxes, busy, mishaps, luck, forgotten>>

RefreshWrite(j) ==
  /\ At(j, "write") /\ SetSandboxState(jobs[j].op) /\ EndJob(j)
  /\ UNCHANGED <<boxes, busy, luck, forgotten>>

-----------------------------------------------------------------------------
(* The provider, the agent that wakes a sandbox it needs, and the process. *)

(* The inactivity timer, which the calls of an operation reset.  What      *)
(* becomes of a sandbox that no row names is left open.                    *)
AutoStop(b) ==
  /\ boxes[b] = "started" /\ project.box = b /\ busy = ""
  /\ boxes' = [boxes EXCEPT ![b] = "stopping"]
  /\ UNCHANGED <<project, busy, jobs, mishaps, luck, forgotten>>

BoxSettles(b) ==
  /\ boxes[b] \in {"starting", "stopping"}
  /\ boxes' = [boxes EXCEPT ![b] = IF boxes[b] = "starting" THEN "started" ELSE "stopped"]
  /\ UNCHANGED <<project, busy, jobs, mishaps, luck, forgotten>>

(* Service.Sandbox, called by the agent's tools: no flag, no write.        *)
AgentWakes ==
  /\ HasSandbox /\ boxes[project.box] = "stopped"
  /\ boxes' = [boxes EXCEPT ![project.box] = "starting"]
  /\ UNCHANGED <<project, busy, jobs, mishaps, luck, forgotten>>

(* A restart: nothing of the row is reconciled.                            *)
RestartProcess ==
  /\ Mishap("crash") /\ busy' = "" /\ jobs' = [j \in Jobs |-> NoJob]
  /\ forgotten' = forgotten \cup {jobs[j].box : j \in {k \in Jobs : jobs[k].pc = "record"}}
  /\ UNCHANGED <<project, boxes>>

-----------------------------------------------------------------------------
Provision(j) == \/ LoadProject(j) \/ Make(j) \/ Record(j) \/ Clone(j)
                \/ RecordFailure(j)

JobStep(j) ==
  \/ CreateInsert(j) \/ GoProvision(j) \/ ResetAcquire(j)
  \/ DeleteLookup(j) \/ Destroy(j) \/ Drop(j) \/ Clear(j)
  \/ Provision(j) \/ Settle(j) \/ Release(j)
  \/ Attach(j) \/ Wake(j) \/ Desktop(j) \/ Halt(j) \/ HaltEnds(j)
  \/ RefreshInfo(j) \/ RefreshWrite(j)

Ask(j) == \/ CreateRead(j) \/ ResetRead(j) \/ RefreshCheck(j) \/ BeginDelete(j)
          \/ BeginStart(j) \/ BeginStop(j) \/ BeginDesktop(j)

ProjectNext ==
  \/ \E j \in Jobs : Ask(j) \/ JobStep(j) \/ ContextEnds(j)
  \/ \E b \in Boxes : AutoStop(b) \/ BoxSettles(b)
  \/ AgentWakes \/ RestartProcess

(* Jobs are goroutines whose calls return, and a sandbox in transition     *)
(* arrives; operator, agent, timer and mishaps owe nothing.                *)
ProjectFairness ==
  /\ \A j \in Jobs : WF_projectVars(JobStep(j))
  /\ \A b \in Boxes : WF_projectVars(BoxSettles(b))

ProjectSpec == ProjectInit /\ [][ProjectNext]_projectVars /\ ProjectFairness

(* ... and an operator who opens the project screen again and again.       *)
WatchedFairness ==
  ProjectFairness /\ \A j \in Jobs : WF_projectVars(RefreshCheck(j))

-----------------------------------------------------------------------------
(* Properties.                                                             *)

(* The row says one of the states the screens know, and a job is where its *)
(* operation can be.                                                       *)
ProjectTypeOK ==
  /\ project \in [exists: BOOLEAN, box: 0..MaxBoxes, state: RowState]
  /\ boxes \in [Boxes -> BoxState]
  /\ busy \in {"", "provision"} \cup Operations
  /\ jobs \in [Jobs -> [op: {"none"} \cup Operations \cup BoxState,
                        pc: Guarded \cup Unguarded, saw: 0..MaxBoxes,
                        box: 0..MaxBoxes, expired: BOOLEAN]]
  /\ mishaps \subseteq Mishaps /\ luck \in 0..MaxMishaps
  /\ forgotten \subseteq Boxes

(* Operations on the sandbox exclude one another, and the flag is up just  *)
(* when one of them is at work: none returns without giving it back, and a *)
(* release never gives back what another job holds.                        *)
OneAtATime ==
  /\ \A i, j \in Jobs : jobs[i].pc \in Guarded /\ jobs[j].pc \in Guarded => i = j
  /\ busy # "" <=> \E j \in Jobs : jobs[j].pc \in Guarded

(* A sandbox that exists is named by the row or is about to be, unless it  *)
(* was lost to a failed call or write, to a crash before it was recorded,  *)
(* or to a reset that had read the row before another operation changed it.*)
NoSandboxForgotten ==
  \A b \in Boxes :
    boxes[b] \notin {"none", "destroyed"} =>
      \/ project.box = b
      \/ \E j \in Jobs : jobs[j].pc = "record" /\ jobs[j].box = b
      \/ b \in forgotten

(* Sandboxes come one after the other: none is created while another one   *)
(* exists that the row names, or that was not lost in one of those ways,   *)
(* and none that is gone comes back, whatever the row said when an         *)
(* operation read it.                                                      *)
Lease == INSTANCE SandboxLease WITH
           Sandboxes <- Boxes,
           made  <- {b \in Boxes : boxes[b] # "none"},
           alive <- {b \in Boxes : boxes[b] \notin {"none", "destroyed"}} \ forgotten

OneSandboxAfterAnother == Lease!Spec

(* A row left in the state provisioning with nobody at work on it is the   *)
(* trace of a crash, of a context that ended, of a failed write, or of a   *)
(* creation that found the flag taken; a failing provider leaves an error. *)
ProvisioningHasACause ==
  project.state = "provisioning" =>
    \/ \E j \in Jobs : \/ jobs[j].op \in {"create", "reset"}
                          /\ jobs[j].pc \in Guarded \ {"release"}
                       \/ jobs[j].op = "create" /\ jobs[j].pc = "acquire"
    \/ mishaps \ {"call"} # {}

(* Every operation ends and gives the flag back, whatever fails in it.     *)
OperationEnds == busy # "" ~> busy = ""

(* For an operator who keeps opening the project screen, the row does not  *)
(* stay wrong about a sandbox that has settled: it comes to say what the   *)
(* provider says, unless what it says is a transition, which no refresh    *)
(* ever looks behind.                                                      *)
Lagging(state) ==
  /\ HasSandbox /\ busy = "" /\ boxes[project.box] = state
  /\ project.state \notin Transient \cup {state}

RowCatchesUp == \A state \in {"started", "stopped"} : []<>~Lagging(state)
=============================================================================
