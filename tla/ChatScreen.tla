----------------------------- MODULE ChatScreen -----------------------------
(***************************************************************************)
(* What the chat screen shows: handleChat and loadMessages                 *)
(* (internal/web/handlers_screens.go) read the epoch, the newest event id  *)
(* and the messages in three statements, and the page                      *)
(* (internal/web/static/js/app.js) goes on from there with the stream.     *)
(* Meanwhile the operator's messages, the answers of the loop with their   *)
(* deltas, compactions and clears are recorded in one statement and        *)
(* announced in another (internal/agent/service.go, loop.go,               *)
(* compaction.go).                                                         *)
(*                                                                         *)
(* The stream brings the events after the page's resume point in order and *)
(* once; what it may withhold is the subject of EventStream.  A message is *)
(* its place in rows, the messages with a text to show.  The loop is one   *)
(* goroutine; RunControl has who may start it.                             *)
(***************************************************************************)
EXTENDS Naturals, Sequences

CONSTANTS
  Speakers,     \* requests that record a message of the operator
  MaxRows,      \* bound: messages
  MaxLog,       \* bound: events
  MaxEpoch,     \* bound: epochs
  MaxHitches    \* bound: statements that fail, and crashes

ASSUME ChatAssumption ==
  MaxRows \in Nat /\ MaxLog \in Nat /\ MaxEpoch \in Nat \ {0} /\ MaxHitches \in Nat

VARIABLES
  liveEpoch,   \* project.current_epoch
  rows,        \* the messages: the epoch each is in
  log,         \* the events: [type, role, of]
  speakers,    \* [pc, epoch, row]: where each request is, and what it has read
  turn,        \* the loop: [pc, epoch, row, roll, text], text whether an answer
               \* has begun to show
  clearing,    \* the epoch a clear has begun and not announced yet, or 0
  view,        \* the page: [pc, epoch, from, asOf, resume, rendered, whole,
               \* appended, bubble, reload], from the newest id at the first read
  hushed,      \* history: epochs nobody will announce
  torn,        \* history: an answer or the end of a run was not announced
  hitches

chatVars == <<liveEpoch, rows, log, speakers, turn, clearing, view, hushed, torn, hitches>>

-----------------------------------------------------------------------------
(* Recording and announcing.                                               *)

Record(e) == Len(rows) < MaxRows /\ rows' = Append(rows, e)

Event(type, role, of) == [type |-> type, role |-> role, of |-> of]

Hitch == hitches < MaxHitches /\ hitches' = hitches + 1

(* Service.emit: an event that cannot be recorded is logged and forgotten. *)
Emit(event) == Len(log) < MaxLog /\ log' = Append(log, event) /\ UNCHANGED <<hushed, torn, hitches>>

AnnounceEpoch(e) ==
  \/ Emit(Event("epoch.changed", "none", e))
  \/ Hitch /\ hushed' = hushed \cup {e} /\ UNCHANGED <<log, torn>>

Announce(event) ==
  \/ Emit(event)
  \/ Hitch /\ torn' = TRUE /\ UNCHANGED <<log, hushed>>

Roll == liveEpoch < MaxEpoch /\ liveEpoch' = liveEpoch + 1

Silent == [pc |-> "idle", epoch |-> 0, row |-> 0]

unspoken == <<liveEpoch, turn, clearing, view>>

ReadTheEpoch(s) ==
  /\ speakers[s].pc = "idle"
  /\ speakers' = [speakers EXCEPT ![s] = [pc |-> "record", epoch |-> liveEpoch, row |-> 0]]
  /\ UNCHANGED <<unspoken, rows, log, hushed, torn, hitches>>

(* SendMessage, CreatePlan and the decisions on a plan.                    *)
RecordSaid(s) ==
  /\ speakers[s].pc = "record"
  /\ \/ /\ Record(speakers[s].epoch) /\ UNCHANGED hitches
        /\ speakers' = [speakers EXCEPT ![s].pc = "tell", ![s].row = Len(rows')]
     \/ /\ Hitch /\ UNCHANGED rows
        /\ speakers' = [speakers EXCEPT ![s] = Silent]
  /\ UNCHANGED <<unspoken, log, hushed, torn>>

TellSaid(s) ==
  /\ speakers[s].pc = "tell"
  /\ Announce(Event("message.append", "user", speakers[s].row))
  /\ speakers' = [speakers EXCEPT ![s] = Silent]
  /\ UNCHANGED <<unspoken, rows>>

-----------------------------------------------------------------------------
(* The loop.                                                               *)

NoLoop == [pc |-> "off", epoch |-> 0, row |-> 0, roll |-> 0, text |-> FALSE]

unturned == <<speakers, clearing, view>>

StartLoop ==
  /\ turn.pc = "off"
  /\ turn' = [NoLoop EXCEPT !.pc = "work", !.epoch = liveEpoch]
  /\ UNCHANGED <<unturned, liveEpoch, rows, log, hushed, torn, hitches>>

BeginStream ==
  /\ turn.pc = "work"
  /\ turn' = [turn EXCEPT !.pc = "stream", !.epoch = liveEpoch]
  /\ UNCHANGED <<unturned, liveEpoch, rows, log, hushed, torn, hitches>>

(* The text so far, in batches; the last one is sent before the call ends. *)
(* A text of blanks shows nothing, and is left out.                        *)
EmitDelta ==
  /\ turn.pc = "stream"
  /\ \/ Emit(Event("message.delta", "assistant", 0))
     \/ Hitch /\ UNCHANGED <<log, hushed, torn>>
  /\ turn' = [turn EXCEPT !.text = TRUE]
  /\ UNCHANGED <<unturned, liveEpoch, rows>>

(* The turn is recorded; one without a text has nothing to announce.       *)
RecordAnswer ==
  /\ turn.pc = "stream"
  /\ \/ /\ turn.text /\ Record(turn.epoch)
        /\ turn' = [turn EXCEPT !.pc = "tell", !.row = Len(rows')]
     \/ /\ ~turn.text /\ turn' = [turn EXCEPT !.pc = "work"]
        /\ UNCHANGED rows
  /\ UNCHANGED <<unturned, liveEpoch, log, hushed, torn, hitches>>

(* appendAssistantNote, by a tool that speaks, ...                         *)
RecordNote ==
  /\ turn.pc = "work" /\ Record(turn.epoch)
  /\ turn' = [turn EXCEPT !.pc = "tell", !.row = Len(rows')]
  /\ UNCHANGED <<unturned, liveEpoch, log, hushed, torn, hitches>>

TellAnswer ==
  /\ turn.pc = "tell"
  /\ Announce(Event("message.append", "assistant", turn.row))
  /\ turn' = [turn EXCEPT !.pc = "work", !.row = 0, !.text = FALSE]
  /\ UNCHANGED <<unturned, liveEpoch, rows>>

(* The loop ends: it is done, parked, cancelled, or a call failed, ...     *)
LeaveLoop ==
  /\ turn.pc \in {"stream", "work"}
  /\ turn' = [turn EXCEPT !.pc = "over"]
  /\ UNCHANGED <<unturned, liveEpoch, rows, log, hushed, torn, hitches>>

(* ... and what failed is told in a note, to the epoch of the run, ...     *)
RecordFailure ==
  /\ turn.pc = "over"
  /\ \E e \in 1..liveEpoch : Record(e)
  /\ turn' = [turn EXCEPT !.pc = "tell failure", !.row = Len(rows')]
  /\ UNCHANGED <<unturned, liveEpoch, log, hushed, torn, hitches>>

TellFailure ==
  /\ turn.pc = "tell failure"
  /\ Announce(Event("message.append", "assistant", turn.row))
  /\ turn' = [turn EXCEPT !.pc = "status"]
  /\ UNCHANGED <<unturned, liveEpoch, rows>>

(* ... before the status it ended with.                                    *)
TellStatus ==
  /\ turn.pc \in {"over", "status"}
  /\ Announce(Event("run.status", "none", 0))
  /\ turn' = NoLoop
  /\ UNCHANGED <<unturned, liveEpoch, rows>>

(* Pause and Cancel announce theirs while the loop still goes on.          *)
TellStop ==
  /\ turn.pc # "off"
  /\ Emit(Event("run.status", "none", 0))
  /\ UNCHANGED <<unturned, liveEpoch, rows, turn>>

-----------------------------------------------------------------------------
(* The epoch ends.                                                         *)

(* compact: the epoch is rolled, ...                                       *)
RollToCompact ==
  /\ turn.pc = "work" /\ Roll
  /\ turn' = [turn EXCEPT !.pc = "summary", !.roll = liveEpoch']
  /\ UNCHANGED <<unturned, rows, log, hushed, torn, hitches>>

(* ... the summary recorded as its first message, unannounced, ...         *)
RecordTheSummary ==
  /\ turn.pc = "summary"
  /\ \/ /\ Record(turn.roll)
        /\ turn' = [turn EXCEPT !.pc = "boundary"] /\ UNCHANGED <<hushed, hitches>>
     \/ /\ Hitch /\ hushed' = hushed \cup {turn.roll}
        /\ turn' = [turn EXCEPT !.pc = "work"] /\ UNCHANGED rows
  /\ UNCHANGED <<unturned, liveEpoch, log, torn>>

(* ... and the new epoch announced.                                        *)
TellCompacted ==
  /\ turn.pc = "boundary"
  /\ AnnounceEpoch(turn.roll)
  /\ turn' = [turn EXCEPT !.pc = "work"]
  /\ UNCHANGED <<unturned, liveEpoch, rows>>

RollToClear ==
  /\ clearing = 0 /\ Roll /\ clearing' = liveEpoch'
  /\ UNCHANGED <<rows, log, speakers, turn, view, hushed, torn, hitches>>

TellCleared ==
  /\ clearing # 0 /\ AnnounceEpoch(clearing) /\ clearing' = 0
  /\ UNCHANGED <<liveEpoch, rows, speakers, turn, view>>

-----------------------------------------------------------------------------
(* The page.                                                               *)

unseen == <<liveEpoch, rows, log, speakers, turn, clearing, hushed, torn>>

NoView == [pc |-> "load", epoch |-> 0, from |-> 0, asOf |-> 0, resume |-> 0, rendered |-> {},
           whole |-> TRUE, appended |-> {}, bubble |-> FALSE, reload |-> FALSE]

(* The operator comes to the screen, or the page reloads itself.           *)
OpenChat ==
  /\ view.pc = "live" /\ view' = NoView
  /\ UNCHANGED <<unseen, hitches>>

(* The order in which handleChat reads.                                    *)
MessagesFirst(pc) ==
  CASE pc = "load" -> "messages" [] pc = "messages" -> "latest" [] pc = "latest" -> "live"

ThenRead(pc) ==
  CASE pc = "load" -> "latest" [] pc = "latest" -> "messages" [] pc = "messages" -> "live"

(* A read that fails is logged, and the page is rendered without it.       *)
Read(place, seen, missed) ==
  /\ view.pc = place
  /\ \/ view' = [seen EXCEPT !.pc = ThenRead(place)] /\ UNCHANGED hitches
     \/ view' = [missed EXCEPT !.pc = ThenRead(place)] /\ Hitch
  /\ UNCHANGED unseen

LoadView == Read("load", [view EXCEPT !.epoch = liveEpoch, !.from = Len(log)],
                         [view EXCEPT !.from = Len(log)])

ReadLatest == Read("latest", [view EXCEPT !.asOf = Len(log), !.resume = Len(log)], view)

ReadMessages == Read("messages",
  [view EXCEPT !.rendered = {m \in DOMAIN rows : rows[m] = view.epoch}],
  [view EXCEPT !.whole = FALSE])

(* A settled status and a new epoch reload the page.  The answer itself    *)
(* takes the place of the one that was streaming, and a status lets go of  *)
(* it.                                                                     *)
ReloadsForStatus(event) == event.type = "run.status"

Reloads(event) == event.type \in {"run.status", "epoch.changed"}

RetiresAtTheEnd(event) == event.type = "run.status"

Retires(event) ==
  event.type = "run.status" \/ (event.type = "message.append" /\ event.role = "assistant")

Receive ==
  /\ view.pc = "live" /\ view.resume < Len(log)
  /\ LET event == log[view.resume + 1]
     IN view' = [view EXCEPT
          !.resume   = @ + 1,
          !.appended = IF event.type = "message.append" THEN @ \cup {event.of} ELSE @,
          !.bubble   = event.type = "message.delta" \/ (@ /\ ~Retires(event)),
          !.reload   = @ \/ Reloads(event)]
  /\ UNCHANGED <<unseen, hitches>>

-----------------------------------------------------------------------------
(* The process dies between any two steps; the page reconnects.            *)
Unannounced ==
  {e \in {clearing} \cup (IF turn.pc \in {"summary", "boundary"} THEN {turn.roll} ELSE {}) : e # 0}

KillServer ==
  /\ Hitch
  /\ hushed' = hushed \cup Unannounced
  /\ torn' = (torn \/ turn.text)
  /\ turn' = NoLoop /\ clearing' = 0
  /\ speakers' = [s \in Speakers |-> Silent]
  /\ view' = IF view.pc = "live" THEN view ELSE NoView
  /\ UNCHANGED <<liveEpoch, rows, log>>

ChatInit ==
  /\ liveEpoch = 1 /\ rows = <<>> /\ log = <<>> /\ clearing = 0
  /\ speakers = [s \in Speakers |-> Silent]
  /\ turn = NoLoop
  /\ view = NoView /\ hushed = {} /\ torn = FALSE /\ hitches = 0

ChatNext ==
  \/ \E s \in Speakers : ReadTheEpoch(s) \/ RecordSaid(s) \/ TellSaid(s)
  \/ StartLoop \/ BeginStream \/ EmitDelta \/ RecordAnswer \/ RecordNote \/ TellAnswer
  \/ LeaveLoop \/ RecordFailure \/ TellFailure \/ TellStatus \/ TellStop
  \/ RollToCompact \/ RecordTheSummary \/ TellCompacted \/ RollToClear \/ TellCleared
  \/ OpenChat \/ LoadView \/ ReadLatest \/ ReadMessages \/ Receive
  \/ KillServer

ChatSpec == ChatInit /\ [][ChatNext]_chatVars

-----------------------------------------------------------------------------
(* Properties.                                                             *)

(* Between what is rendered and what the stream brings, no message falls   *)
(* through: one of the page's epoch that was announced up to where the     *)
(* page is, it shows (handlers_screens.go:84-94).  That some are shown     *)
(* twice is the price.                                                     *)
NothingFallsBetween ==
  view.pc = "live" /\ view.whole =>
    \A i \in 1..view.resume :
      log[i].type = "message.append" /\ rows[log[i].of] = view.epoch
        => log[i].of \in view.rendered \cup view.appended

(* A page with an epoch that was closed, and that does not reload, has the *)
(* announcement ahead of it, or the announcement failed, or it came        *)
(* between the first two reads of the page.                                *)
BeingTold(e) == clearing = e \/ (turn.pc \in {"summary", "boundary"} /\ turn.roll = e)

OldEpochHasACause ==
  view.pc = "live" /\ view.epoch # 0 /\ ~view.reload =>
    \A e \in (view.epoch + 1)..liveEpoch :
      \/ e \in hushed \/ BeingTold(e)
      \/ \E i \in DOMAIN log :
           /\ log[i] = Event("epoch.changed", "none", e)
           /\ \/ view.from < i /\ i <= view.asOf
              \/ view.resume < i

(* Half an answer does not stay on a page that has all events: it goes     *)
(* when the whole one comes, or with the run that was to give it           *)
(* (app.js:201-229).                                                       *)
UpToDate == view.pc = "live" /\ ~view.reload /\ view.resume = Len(log)

HalfAnswerIsUnderWay == UpToDate /\ view.bubble => turn.text \/ torn

=============================================================================
