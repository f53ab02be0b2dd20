---------------------------- MODULE Conversation ---------------------------
(***************************************************************************)
(* The messages of a conversation: what requests record, what the turn     *)
(* loop sends to the model and records of its answers, and how compaction  *)
(* and clearing move on to another epoch (internal/agent/service.go,       *)
(* loop.go, compaction.go, store.go).                                      *)
(*                                                                         *)
(* One statement or one transaction is one action.  A cancelled loop has   *)
(* every write refused (RunControl: WriteGoesThrough), so here it just     *)
(* ends; who may start one is RunControl's matter too, and what a decision *)
(* does to its plan is that of Plans.  What a tool does is left out, and so*)
(* are the notes that ask_human and goal_complete record among the replies.*)
(***************************************************************************)
EXTENDS Naturals, Sequences

CONSTANTS
  Senders,      \* requests that record a message of the operator, or a note of a decision
  MaxEpochs,    \* bound: epochs of one conversation
  MaxMessages,  \* bound: the operator's messages and the turns ever recorded
  MaxCalls,     \* tool calls in one turn
  MaxSlips      \* bound: failing statements, failing model calls and restarts

ASSUME ConversationAssumption ==
  {MaxEpochs, MaxMessages, MaxCalls, MaxSlips} \subseteq Nat

VARIABLES
  epoch,        \* project.current_epoch
  messages,     \* the messages table, in the order of the ids
  loop,         \* [pc, epoch, turn, done, draft]: the turn loop, the epoch its tool
                \* context names, its turn, the calls done, the transcript it sums up
  senders,      \* [pc, op, epoch, msg]: the requests, the epoch each has read and the
                \* message it has recorded
  clearing,     \* ClearConversation has cancelled the run and is to roll the epoch
  paused,       \* the run row says paused
  said,         \* history: the operator's messages since the conversation was cleared
  seen,         \* history: those a request to the model has carried
  missed,       \* history: those that left the context, or never entered it
  cut,          \* history: turns whose batch was broken off
  due,          \* history: those there were when a turn last began
  late,         \* history: messages that came after the last request of the run that
                \* was to carry them, and those no run was started for
  slips

conversationVars ==
  <<epoch, messages, loop, senders, clearing, paused, said, seen, missed, cut, due, late, slips>>

NoLoop == [pc |-> "off", epoch |-> 0, turn |-> 0, done |-> 0, draft |-> {}]
NoSender == [pc |-> "idle", op |-> "none", epoch |-> 0, msg |-> 0]

(* of is the turn a reply answers, n the number of a call, or of the calls *)
(* of a turn, and covers what a summary sums up.                           *)
Message(e, kind) == [epoch |-> e, kind |-> kind, of |-> 0, n |-> 0, covers |-> {}]

ConversationInit ==
  /\ epoch = 1 /\ messages = <<>> /\ loop = NoLoop
  /\ senders = [s \in Senders |-> NoSender]
  /\ clearing = FALSE /\ paused = FALSE
  /\ said = {} /\ seen = {} /\ missed = {} /\ cut = {} /\ due = {} /\ late = {} /\ slips = 0

Slip == slips < MaxSlips /\ slips' = slips + 1

(* appendMessage allocates the number in the epoch inside the INSERT, so   *)
(* the order in an epoch is the order of the inserts.                      *)
AppendMessage(msg) == messages' = Append(messages, msg)

Numbers == DOMAIN messages
InEpoch(e) == {i \in Numbers : messages[i].epoch = e}
Users(e) == {i \in InEpoch(e) : messages[i].kind = "user"}
Summaries(e) == {i \in InEpoch(e) : messages[i].kind = "summary"}

(* What of the operator's words the context of an epoch carries.           *)
Known(e) == Users(e) \cup UNION {messages[i].covers : i \in Summaries(e)}

MoreMessages ==
  Len(SelectSeq(messages, LAMBDA m : m.kind \in {"user", "turn"})) < MaxMessages

AtLoop(pc) == loop.pc = pc
LoopTo(pc) == loop' = [loop EXCEPT !.pc = pc]

(* A turn whose batch ends here without its last replies.                  *)
BatchCut == IF loop.pc \in {"next", "reply"} THEN cut \cup {loop.turn} ELSE cut

(* A summary that its epoch lacks, as long as the loop has yet to write it.*)
Pending == IF AtLoop("summary") THEN loop.draft ELSE {}

BatchStops == cut' = BatchCut /\ missed' = missed \cup Pending

(* Recorded, and their requests are yet to ask for a run.                  *)
Held == {senders[s].msg : s \in {q \in Senders : senders[q].pc = "launch"}}

(* The loop is broken off, parks its run, or is done.                      *)
LoopEnds ==
  /\ loop' = NoLoop /\ BatchStops /\ UNCHANGED due
  /\ late' = IF AtLoop("off") THEN late ELSE late \cup ((said \ due) \ Held)

(* No run is started for message i; one that is under way may yet carry it.*)
LeftAlone(i) == late' = IF AtLoop("off") THEN late \cup {i} ELSE late

-----------------------------------------------------------------------------
(* SendMessage, CreatePlan, ApprovePlan and RejectPlan.                    *)

Asks(s, op, e) ==
  /\ senders[s].pc = "idle" /\ MoreMessages
  /\ senders' = [senders EXCEPT ![s] = [pc |-> "append", op |-> op, epoch |-> e, msg |-> 0]]
  /\ UNCHANGED <<epoch, messages, loop, clearing, paused, said, seen, missed, cut, due, late,
                 slips>>

(* A message goes to the current epoch, which is read first, ...           *)
ReadEpoch(s) == Asks(s, "say", epoch)

(* ... and the note of a decision to the epoch of its plan, whichever that *)
(* is: one that a turn has proposed a plan in.                             *)
DecidePlan(s, op) ==
  \E i \in Numbers :
    messages[i].kind = "turn" /\ messages[i].n > 0 /\ Asks(s, op, messages[i].epoch)

(* It is appended there, though the epoch may be closed by now.  The note  *)
(* of a rejection asks for no run.                                         *)
RecordMessage(s) ==
  LET i == Len(messages) + 1 IN
  /\ senders[s].pc = "append"
  /\ \/ /\ AppendMessage(Message(senders[s].epoch, "user"))
        /\ said' = said \cup {i}
        /\ missed' = IF senders[s].epoch = epoch THEN missed ELSE missed \cup {i}
        /\ \/ /\ senders[s].op = "reject" /\ LeftAlone(i)
              /\ senders' = [senders EXCEPT ![s] = NoSender]
           \/ /\ senders[s].op # "reject" /\ UNCHANGED late
              /\ senders' = [senders EXCEPT ![s].pc = "launch", ![s].msg = i]
        /\ UNCHANGED slips
     \/ /\ Slip /\ senders' = [senders EXCEPT ![s] = NoSender]
        /\ UNCHANGED <<messages, said, missed, late>>
  /\ UNCHANGED <<epoch, loop, clearing, paused, seen, cut, due>>

StartParkedOnly == paused

NeedsLoop == AtLoop("off") \/ paused

(* Then a run is started or resumed, over the loop of one that has yet to  *)
(* see its pause.  When a run is under way, the model is to see the message*)
(* on its next turn; only an approval resumes that one as well.  CreatePlan*)
(* has an error for it, after its message was recorded, and to find the    *)
(* run, to resume or to start it may fail just as late.                    *)
LaunchLoop(s) ==
  /\ senders[s].pc = "launch" /\ senders' = [senders EXCEPT ![s] = NoSender]
  /\ \/ /\ NeedsLoop \/ senders[s].op = "approve"
        /\ loop' = [NoLoop EXCEPT !.pc = "check"] /\ paused' = FALSE
        /\ BatchStops /\ UNCHANGED <<late, slips>>
     \/ /\ ~NeedsLoop /\ senders[s].op # "approve"
        /\ UNCHANGED <<loop, paused, missed, cut, late, slips>>
     \/ Slip /\ LeftAlone(senders[s].msg) /\ UNCHANGED <<loop, paused, missed, cut>>
  /\ UNCHANGED <<epoch, messages, clearing, said, seen, due>>

(* Pause and Cancel; the row is what a loop learns a pause from.           *)
PauseRun ==
  /\ ~AtLoop("off") /\ ~paused /\ paused' = TRUE
  /\ UNCHANGED <<epoch, messages, loop, senders, clearing, said, seen, missed, cut, due, late,
                 slips>>

CancelRun ==
  /\ ~AtLoop("off") /\ LoopEnds /\ paused' = FALSE
  /\ UNCHANGED <<epoch, messages, senders, clearing, said, seen, slips>>

-----------------------------------------------------------------------------
(* The turn loop.                                                          *)

(* A step fails: a failing statement ends the run.                         *)
LoopFails ==
  /\ loop.pc \in {"check", "model", "next", "reply", "turned"}
  /\ Slip /\ LoopEnds
  /\ UNCHANGED <<epoch, messages, senders, clearing, paused, said, seen>>

(* checkStop, then buildToolContext and assembleMessages: the turn works in*)
(* the epoch that is current now, and all of it goes into the request.     *)
BeginTurn ==
  /\ loop.pc \in {"check", "turned"}
  /\ \/ paused /\ LoopEnds /\ UNCHANGED seen
     \/ /\ ~paused /\ UNCHANGED <<missed, cut, late>>
        /\ loop' = [NoLoop EXCEPT !.pc = "model", !.epoch = epoch]
        /\ seen' = seen \cup Known(epoch) /\ due' = said
  /\ UNCHANGED <<epoch, messages, senders, clearing, paused, said, slips>>

(* The answer is recorded with its calls before any of them is executed.   *)
(* A turn without calls ends the run.                                      *)
RecordTurn(n) ==
  /\ AtLoop("model") /\ MoreMessages
  /\ AppendMessage([Message(loop.epoch, "turn") EXCEPT !.n = n])
  /\ loop' = [loop EXCEPT !.pc = IF n = 0 THEN "ending" ELSE "next",
                          !.turn = Len(messages) + 1]
  /\ UNCHANGED <<epoch, senders, clearing, paused, said, seen, missed, cut, due, late, slips>>

(* Another call, or none.                                                  *)
CallDone == LET done == loop.done + 1 IN
  [loop EXCEPT !.done = done, !.pc = IF done = messages[loop.turn].n THEN "turned" ELSE "next"]

SkipFailedCall == CallDone

(* The error of a tool goes back as its reply.                             *)
FailedCall == [loop EXCEPT !.pc = "reply"]

(* checkStop between two calls: a pause leaves the others unanswered.      *)
(* Otherwise the tool is executed, to a result or to an error.             *)
ExecuteOne ==
  /\ AtLoop("next")
  /\ \/ paused /\ LoopEnds
     \/ /\ ~paused /\ UNCHANGED <<missed, cut, due, late>>
        /\ LoopTo("reply") \/ loop' = FailedCall
  /\ UNCHANGED <<epoch, messages, senders, clearing, paused, said, seen, slips>>

ReplyToCurrent == epoch

(* The reply goes where its turn went, whatever the current epoch is.      *)
ReplyEpoch == loop.epoch

RecordReply ==
  /\ AtLoop("reply") /\ loop' = CallDone
  /\ AppendMessage([Message(ReplyEpoch, "reply") EXCEPT !.of = loop.turn, !.n = loop.done + 1])
  /\ UNCHANGED <<epoch, senders, clearing, paused, said, seen, missed, cut, due, late, slips>>

(* After the batch: the run parks, or the goal is complete; otherwise the  *)
(* next turn begins, or the context is compacted.                          *)
AfterBatch ==
  /\ AtLoop("turned")
  /\ LoopEnds \/ (LoopTo("ending") /\ UNCHANGED <<missed, cut, due, late>>)
  /\ UNCHANGED <<epoch, messages, senders, clearing, paused, said, seen, slips>>

(* The row says that the run is done.                                      *)
FinishLoop ==
  /\ AtLoop("ending") /\ LoopEnds /\ paused' = FALSE
  /\ UNCHANGED <<epoch, messages, senders, clearing, said, seen, slips>>

-----------------------------------------------------------------------------
(* compact.  Its failures are logged, and the loop goes on.                *)

CompactionFails ==
  /\ loop.pc \in {"roll", "summary"} /\ Slip
  /\ loop' = [NoLoop EXCEPT !.pc = "check"]
  /\ missed' = missed \cup Pending
  /\ UNCHANGED <<epoch, messages, senders, clearing, paused, said, seen, cut, due, late>>

TranscriptOfUsers(e) == Users(e)

(* loadTranscript: what the model gets to sum up, earlier summary included.*)
Transcript(e) == Known(e)

ReadTranscript ==
  /\ AtLoop("turned") /\ epoch < MaxEpochs
  /\ loop' = [loop EXCEPT !.pc = "roll", !.draft = Transcript(loop.epoch)]
  /\ UNCHANGED <<epoch, messages, senders, clearing, paused, said, seen, missed, cut, due, late,
                 slips>>

(* rollEpoch: one transaction, on whatever epoch is current.               *)
RollForCompaction ==
  /\ AtLoop("roll") /\ epoch < MaxEpochs
  /\ epoch' = epoch + 1
  /\ loop' = [loop EXCEPT !.pc = "summary", !.epoch = epoch + 1]
  /\ missed' = missed \cup (Users(epoch) \ loop.draft)
  /\ UNCHANGED <<messages, senders, clearing, paused, said, seen, cut, due, late, slips>>

(* The summary is appended to the new epoch, after whatever came first.    *)
RecordSummary ==
  /\ AtLoop("summary")
  /\ AppendMessage([Message(loop.epoch, "summary") EXCEPT !.covers = loop.draft])
  /\ loop' = [NoLoop EXCEPT !.pc = "check"]
  /\ UNCHANGED <<epoch, senders, clearing, paused, said, seen, missed, cut, due, late, slips>>

(* ClearConversation: the run is cancelled, then the epoch rolls.          *)
ClearCancels ==
  /\ ~clearing /\ epoch < MaxEpochs /\ clearing' = TRUE /\ paused' = FALSE
  /\ LoopEnds
  /\ UNCHANGED <<epoch, messages, senders, said, seen, slips>>

RollForClear ==
  /\ clearing /\ epoch < MaxEpochs
  /\ clearing' = FALSE /\ epoch' = epoch + 1
  /\ said' = {} /\ missed' = {} /\ due' = {} /\ late' = {}
  /\ UNCHANGED <<messages, loop, senders, paused, seen, cut, slips>>

(* The process dies; a boot leaves the messages as they are.               *)
RestartConversation ==
  /\ Slip /\ loop' = NoLoop /\ BatchStops /\ late' = late \cup (said \ due)
  /\ paused' = FALSE /\ clearing' = FALSE
  /\ senders' = [s \in Senders |-> NoSender]
  /\ UNCHANGED <<epoch, messages, said, seen, due>>

ConversationNext ==
  \/ \E s \in Senders : ReadEpoch(s) \/ RecordMessage(s) \/ LaunchLoop(s)
  \/ \E s \in Senders, op \in {"approve", "reject"} : DecidePlan(s, op)
  \/ PauseRun \/ CancelRun \/ ClearCancels \/ RollForClear \/ RestartConversation
  \/ BeginTurn \/ (\E n \in 0..MaxCalls : RecordTurn(n))
  \/ ExecuteOne \/ RecordReply \/ AfterBatch \/ FinishLoop \/ LoopFails
  \/ ReadTranscript \/ RollForCompaction \/ RecordSummary \/ CompactionFails

ConversationSpec == ConversationInit /\ [][ConversationNext]_conversationVars

-----------------------------------------------------------------------------
(* Properties.                                                             *)

Turns == {i \in Numbers : messages[i].kind = "turn"}
RepliesTo(t) == {i \in Numbers : messages[i].kind = "reply" /\ messages[i].of = t}
AnsweredCalls(t) == {messages[i].n : i \in RepliesTo(t)}
IsAnswered(t) == AnsweredCalls(t) = 1..messages[t].n

(* A reply stands behind the turn that asked for it, in the same epoch, and*)
(* no call has two: an epoch never starts with half a batch.               *)
RepliesFollowTheirTurn ==
  \A t \in Turns :
    /\ \A i \in RepliesTo(t) : t < i /\ messages[i].epoch = messages[t].epoch
    /\ \A i, j \in RepliesTo(t) : messages[i].n = messages[j].n => i = j

(* A call goes unanswered only in a turn that was broken off: by a pause,  *)
(* a cancellation, an approval that resumes a running run, or a restart, or*)
(* because a statement failed.  That a tool fails is no such reason.       *)
UnansweredWasCut ==
  \A t \in Turns : IsAnswered(t) \/ t \in cut
                      \/ (loop.turn = t /\ loop.pc \in {"next", "reply"})

(* A batch of calls stays with its turn, and is answered once and in full. *)
BatchIsKept == RepliesFollowTheirTurn /\ UnansweredWasCut

(* What the operator has said since the last clear is in the live context, *)
(* by itself or in a summary, except what was recorded in an epoch already *)
(* closed, or while the model was writing a summary that does not have it, *)
(* and what only a summary had that could not be stored.                   *)
NothingIsForgotten == said \subseteq Known(epoch) \cup missed \cup Pending

(* When nothing is under way any more, every message of the operator has   *)
(* been in a request to the model, except when it never was in the live    *)
(* context, when the run that was to carry it had made its last request    *)
(* before it came, and when none was to: a rejection, or a start that      *)
(* failed.  A message that finds a run under way is no exception as long as*)
(* the run makes another request.                                          *)
NobodyIsLeftWaiting ==
  AtLoop("off") /\ (\A s \in Senders : senders[s].pc = "idle")
    => said \subseteq seen \cup missed \cup late

-----------------------------------------------------------------------------
(* What the repository says, and the code does not do.                     *)

(* loop.go:249: "Every call gets a tool message back, including failures:  *)
(* the protocol requires one response per call, and an unanswered tool call*)
(* makes the next request invalid", and loop.go:421: "a pause never leaves *)
(* a tool half-run or a tool call unanswered".                             *)
RequestIsAnswered ==
  AtLoop("model") =>
    \A t \in Turns : messages[t].epoch = loop.epoch => IsAnswered(t)
=============================================================================
