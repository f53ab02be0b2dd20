----------------------------- MODULE Subagents -----------------------------
(***************************************************************************)
(* The reviewer and the verifier, which the agent calls as tools, and the  *)
(* frames a verification leaves for the screen (internal/agent/            *)
(* subagents.go, artifacts.go).  What either of them concludes is all that *)
(* the agent learns about its own work, so what matters is which answers   *)
(* of the model turn into which outcome.                                   *)
(*                                                                         *)
(* One call of the model, of the sandbox or of the store is one action.    *)
(***************************************************************************)
EXTENDS Naturals, Sequences, FiniteSets

CONSTANTS
  MostSteps,     \* the largest budget a call may ask for (30)
  Configured,    \* values of agent.e2e_max_steps
  Limit,         \* frames the artifact store holds (40)
  MaxFrames      \* bound: frames ever taken

ASSUME LimitAssumption == Limit \in Nat

VARIABLES
  job,           \* the subagent at work: [pc, step, budget]
  answer,        \* the verifier's last answer: [action, verdict]
  outcome,       \* what the agent was told last
  opinion,       \* the reviewer's last answer
  recorded,      \* review_verdict of the task under review
  order, items,  \* artifactStore: the frames from the oldest on, and those served
  frames,        \* history: frames ever stored, numbered from 1
  announced,     \* history: frames an event has told the screens of
  booted         \* history: frames stored before the process last started

subagentVars == <<job, answer, outcome, opinion, recorded, order, items, frames, announced, booted>>
frameVars == <<order, items, frames, announced, booted>>

(* A verdict may come with any action, and an answer may be no answer.     *)
Verdicts == {"pass", "fail", "none"}
Opinions == {"clean", "issues", "none", "garbage"}
Answers == [action : {"finish", "act", "look", "unknown"}, verdict : Verdicts]
Garbage == [action |-> "garbage", verdict |-> "none"]

NoSubagent == [pc |-> "off", step |-> 0, budget |-> 0]

SubagentsInit ==
  /\ job = NoSubagent /\ answer = Garbage /\ outcome = "none"
  /\ opinion = "none" /\ recorded = "none"
  /\ order = <<>> /\ items = {} /\ frames = 0 /\ announced = {} /\ booted = 0

Doing(pc) == job.pc = pc
JobTo(pc) == job' = [job EXCEPT !.pc = pc]
Report(result) == outcome' = result /\ job' = NoSubagent

-----------------------------------------------------------------------------
(* verify_e2e.                                                             *)

(* A budget that makes no sense is replaced by the configured one, which   *)
(* nobody has looked at.                                                   *)
Budget(asked, configured) == IF asked \in 1..MostSteps THEN asked ELSE configured

(* The desktop is brought up and the browser opened, or it cannot be.      *)
BeginVerify(asked, configured) ==
  /\ Doing("off")
  /\ \/ job' = [pc |-> "screen", step |-> 1, budget |-> Budget(asked, configured)]
        /\ answer' = Garbage /\ outcome' = "none"
     \/ UNCHANGED <<job, answer>> /\ outcome' = "unverified"
  /\ UNCHANGED <<opinion, recorded, frameVars>>

(* put: the oldest frames make room for the newest.                        *)
Keep(n, s) == SubSeq(s, IF Len(s) > n THEN Len(s) - n + 1 ELSE 1, Len(s))

KeepFewer(s) == Keep(Limit - 1, s)

Newest(s) == Keep(Limit, s)

Put(f) ==
  /\ frames' = f /\ order' = Newest(Append(order, f))
  /\ items' = {Newest(Append(order, f))[i] : i \in DOMAIN Newest(Append(order, f))}

(* The screen is looked at before every decision: an empty picture is not  *)
(* stored, and one that cannot be taken ends the verification.             *)
TakeScreenshot ==
  /\ Doing("screen") /\ job.step <= job.budget
  /\ \/ frames < MaxFrames /\ Put(frames + 1) /\ JobTo("announce") /\ UNCHANGED outcome
     \/ JobTo("decide") /\ UNCHANGED <<order, items, frames, outcome>>
     \/ Report("unverified") /\ UNCHANGED <<order, items, frames>>
  /\ UNCHANGED <<answer, opinion, recorded, announced, booted>>

(* The event that names the frame, which may fail to be stored.            *)
AnnounceFrame ==
  /\ Doing("announce") /\ JobTo("decide")
  /\ announced' \in {announced, announced \cup {frames}}
  /\ UNCHANGED <<answer, outcome, opinion, recorded, order, items, frames, booted>>

LastWord == IF answer.verdict = "none" THEN "fail" ELSE answer.verdict

(* What a verification ends with that nobody has finished.                 *)
Unfinished == "fail"

(* The model decides; finishing without a verdict is a failure, and so is  *)
(* an answer that makes no sense.                                          *)
Decide(a) ==
  /\ Doing("decide") /\ answer' = a
  /\ CASE a.action = "finish"  -> Report(IF a.verdict = "none" THEN "fail" ELSE a.verdict)
       [] a.action = "garbage" -> Report(Unfinished)
       [] OTHER                -> JobTo("act") /\ UNCHANGED outcome
  /\ UNCHANGED <<opinion, recorded, frameVars>>

(* The action is performed and the next step begins, or it fails.          *)
ApplyAction ==
  /\ Doing("act")
  /\ \/ answer.action # "unknown" /\ UNCHANGED outcome
        /\ job' = [job EXCEPT !.pc = "screen", !.step = @ + 1]
     \/ answer.action # "look" /\ Report(Unfinished)
  /\ UNCHANGED <<answer, opinion, recorded, frameVars>>

BudgetSpent ==
  /\ Doing("screen") /\ job.step > job.budget /\ Report(Unfinished)
  /\ UNCHANGED <<answer, opinion, recorded, frameVars>>

(* The model cannot be reached, or the run was cancelled.                  *)
VerifyFails ==
  /\ job.pc \in {"screen", "decide"} /\ Report("unverified")
  /\ UNCHANGED <<answer, opinion, recorded, frameVars>>

-----------------------------------------------------------------------------
(* review_code.                                                            *)

BeginReview ==
  /\ Doing("off") /\ job' = [NoSubagent EXCEPT !.pc = "review"]
  /\ opinion' = "none" /\ outcome' = "none" /\ recorded' = "none" /\ answer' = Garbage
  /\ UNCHANGED frameVars

(* An answer that is no JSON is taken for a list of issues; one without a  *)
(* verdict for a clean one.                                                *)
ReviewVerdict(o) == IF o \in {"garbage", "issues"} THEN "issues" ELSE "clean"

(* The verdict goes to the task and to the agent.  There may be nothing to *)
(* review and nobody to do it: then there is no verdict.                   *)
Review(o) ==
  /\ Doing("review") /\ opinion' = o
  /\ Report(ReviewVerdict(o)) /\ recorded' \in {recorded, ReviewVerdict(o)}
  /\ UNCHANGED <<answer, frameVars>>

ReviewFails ==
  /\ Doing("review") /\ Report("unreviewed")
  /\ UNCHANGED <<answer, opinion, recorded, frameVars>>

-----------------------------------------------------------------------------
(* A restart: the frames are gone.                                         *)
RestartSubagents ==
  /\ job' = NoSubagent /\ order' = <<>> /\ items' = {} /\ booted' = frames
  /\ UNCHANGED <<answer, outcome, opinion, recorded, frames, announced>>

SubagentsNext ==
  \/ \E asked \in 0..(MostSteps + 1), configured \in Configured : BeginVerify(asked, configured)
  \/ TakeScreenshot \/ AnnounceFrame \/ ApplyAction \/ BudgetSpent \/ VerifyFails
  \/ (\E a \in Answers \cup {Garbage} : Decide(a)) \/ (\E o \in Opinions : Review(o))
  \/ BeginReview \/ ReviewFails \/ RestartSubagents

SubagentsSpec == SubagentsInit /\ [][SubagentsNext]_subagentVars

-----------------------------------------------------------------------------
(* Properties.                                                             *)

(* The agent is told that a flow works only if the verifier has finished   *)
(* and said so: a verdict that comes with any other action, a budget that  *)
(* is spent or an answer that makes no sense never makes a pass.  A task is*)
(* recorded as clean only if the reviewer's answer said nothing else.      *)
NoFalsePass ==
  /\ outcome = "pass" => answer = [action |-> "finish", verdict |-> "pass"]
  /\ recorded = "clean" => opinion \in {"clean", "none"}

(* A frame that an event has announced can be fetched until as many newer  *)
(* ones as the store holds have taken its place, or the process restarts;  *)
(* and no more than that are held.                                         *)
FramesAreServed ==
  /\ \A f \in announced : f > booted /\ f + Limit > frames => f \in items
  /\ Cardinality(items) <= Limit
=============================================================================
