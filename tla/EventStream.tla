---------------------------- MODULE EventStream ----------------------------
(***************************************************************************)
(* The live event stream: the events table and the broker that fans out    *)
(* (internal/events/events.go), the SSE handler (internal/web/             *)
(* handlers_sse.go), the page that listens (internal/web/static/js/        *)
(* app.js), and the pruning of the table at boot (internal/bootstrap/      *)
(* bootstrap.go).                                                          *)
(*                                                                         *)
(* Events are their ids.  Publish never blocks, and clients share nothing  *)
(* but the table, so one client stands for all.  A frame the handler has   *)
(* written reaches the page unless the connection ends first, so writing   *)
(* and receiving are one step and Disconnect is possible before each.      *)
(***************************************************************************)
EXTENDS Naturals, Sequences, FiniteSets

CONSTANTS
  MaxEvents,    \* bound: events ever appended
  Publishers,   \* bound: calls of Log.Append under way at once
  BufferSize,   \* capacity of a subscriber's channel
  ReplayLimit,  \* events one reconnect replays at most
  Keep,         \* newest events that pruning never removes
  Reloaders,    \* ids of the events that make a page reload itself
  MaxFaults     \* bound: queries of the handler that fail

Ids == 1..MaxEvents

ASSUME StreamAssumption ==
  /\ MaxEvents \in Nat /\ BufferSize \in Nat /\ Publishers \in Nat
  /\ ReplayLimit \in Nat /\ Keep \in Nat \ {0} /\ MaxFaults \in Nat

VARIABLES
  last,         \* the newest id of the table, 0 when it is empty
  oldest,       \* the oldest id it retains
  unpublished,  \* ids inserted by an Append that has not published them yet
  conn,         \* the connection: [pc, lastID, upto], upto the end of the replay
  buffer,       \* the subscriber's channel
  page,         \* [screen, asOf, lastId, reload]: the page, the newest id when it
                \* was rendered, Stream.lastId, the event it will reload for or 0
  received,     \* the events this page got, in the order it got them
  excused,      \* history: events this page was not sent, for a reason of the design
  faults

vars == <<last, oldest, unpublished, conn, buffer, page, received, excused, faults>>

table  == <<last, oldest, unpublished>>
client == <<page, received, excused>>

Screens == {"chat", "other"}
Closed == [pc |-> "closed", lastID |-> 0, upto |-> 0]

(* The state the variables may be in: nothing is delivered that was never  *)
(* inserted, and no channel holds more than its capacity.                  *)
TypeOK ==
  /\ last \in 0..MaxEvents
  /\ oldest \in 1..(MaxEvents + 1)
  /\ unpublished \subseteq 1..last /\ Cardinality(unpublished) <= Publishers
  /\ conn \in [pc: {"closed", "check", "replay", "live"},
               lastID: 0..last, upto: 0..last]
  /\ buffer \in Seq(1..last) /\ Len(buffer) <= BufferSize
  /\ page \in [screen: Screens, asOf: 0..last, lastId: 0..last, reload: 0..last]
  /\ received \in Seq(1..last)
  /\ excused \subseteq 1..last
  /\ faults \in 0..MaxFaults

Shown == {received[i] : i \in DOMAIN received}

(* The chat screen carries the newest id in its header, and the stream     *)
(* starts there; every other screen starts at 0 (app.js:18-26).            *)
NewPage(screen) == [screen |-> screen, asOf |-> last, reload |-> 0,
                    lastId |-> IF screen = "chat" THEN last ELSE 0]

Init ==
  /\ last = 0 /\ oldest = 1 /\ unpublished = {}
  /\ conn = Closed /\ buffer = <<>>
  /\ \E screen \in Screens : page = NewPage(screen)
  /\ received = <<>> /\ excused = {} /\ faults = 0

-----------------------------------------------------------------------------
(* The log and the broker.                                                 *)

(* Log.Append, first half: the row is inserted.                            *)
AppendEvent ==
  /\ last < MaxEvents
  /\ Cardinality(unpublished) < Publishers
  /\ last' = last + 1
  /\ unpublished' = unpublished \cup {last + 1}
  /\ UNCHANGED <<oldest, conn, buffer, client, faults>>

HasRoom == Len(buffer) < BufferSize

SubscribedAfterReplay == conn.pc = "live" /\ conn.lastID >= conn.upto

(* handleSSE subscribes before it reads the table.                         *)
Subscribed == conn.pc # "closed"

(* Second half: offered to the subscriber, who is skipped when it is full. *)
(* An earlier event whose Append has not come to this yet is overtaken.    *)
Publish(e) ==
  /\ e \in unpublished
  /\ unpublished' = unpublished \ {e}
  /\ buffer' = IF Subscribed /\ HasRoom
               THEN Append(buffer, e) ELSE buffer
  /\ excused' = CASE conn.pc = "closed"          -> excused
                  [] Len(buffer) = BufferSize    -> excused \cup {e}
                  [] OTHER -> excused \cup {f \in unpublished : f < e}
  /\ UNCHANGED <<last, oldest, conn, page, received, faults>>

-----------------------------------------------------------------------------
(* One connection.                                                         *)

Connect ==
  /\ conn.pc = "closed"
  /\ conn' = [pc |-> "check", lastID |-> page.lastId, upto |-> 0]
  /\ buffer' = <<>>
  /\ UNCHANGED <<table, client, faults>>

(* Everything after id is retained, up to one event too many.              *)
CanReplayOneShort(id) == id = 0 \/ last = 0 \/ id + 2 >= oldest

CanReplay(id) == id = 0 \/ last = 0 \/ id + 1 >= oldest

LoadPage(screen) ==
  /\ conn' = Closed /\ buffer' = <<>>
  /\ page' = NewPage(screen)
  /\ received' = <<>> /\ excused' = {}

(* A resume point whose gap has been pruned is answered with reload, and   *)
(* the page fetches itself anew.                                           *)
CheckWindow ==
  /\ conn.pc = "check"
  /\ IF CanReplay(conn.lastID)
     THEN conn' = [conn EXCEPT !.pc = "replay"] /\ UNCHANGED <<buffer, client>>
     ELSE LoadPage(page.screen)
  /\ UNCHANGED <<table, faults>>

(* The check fails: the error is logged and the replay goes ahead.         *)
CheckFails ==
  /\ conn.pc = "check" /\ conn.lastID > 0
  /\ faults < MaxFaults /\ faults' = faults + 1
  /\ conn' = [conn EXCEPT !.pc = "replay"]
  /\ excused' = excused \cup {e \in 1..last : e < oldest}
  /\ UNCHANGED <<table, buffer, page, received>>

(* Log.Since: at most ReplayLimit rows after the resume point.  The rest   *)
(* of the gap is neither replayed nor announced.                           *)
Replay ==
  /\ conn.pc = "replay"
  /\ LET after == IF conn.lastID + 1 >= oldest THEN conn.lastID ELSE oldest - 1
         upto  == IF after + ReplayLimit < last THEN after + ReplayLimit ELSE last
     IN /\ conn' = [conn EXCEPT !.pc = "live", !.upto = upto]
        /\ excused' = excused \cup {e \in 1..last : e > upto}
  /\ UNCHANGED <<table, buffer, page, received, faults>>

(* The query fails: logged, and the handler goes live without it.          *)
ReplayFails ==
  /\ conn.pc = "replay"
  /\ faults < MaxFaults /\ faults' = faults + 1
  /\ conn' = [conn EXCEPT !.pc = "live"]
  /\ excused' = excused \cup {e \in 1..last : e > conn.lastID}
  /\ UNCHANGED <<table, buffer, page, received>>

(* A frame reaches the page, which remembers the id and may schedule a     *)
(* reload, unless it has one scheduled already (app.js:61-66, 210-213,     *)
(* 372-379).                                                               *)
Deliver(e) ==
  /\ conn' = [conn EXCEPT !.lastID = e]
  /\ received' = Append(received, e)
  /\ page' = [page EXCEPT
       !.lastId = IF e > @ THEN e ELSE @,
       !.reload = IF e \in Reloaders /\ @ = 0 THEN e ELSE @]

Replaying == conn.pc = "live" /\ conn.lastID < conn.upto

WriteReplayed ==
  /\ Replaying
  /\ Deliver(IF conn.lastID + 1 >= oldest THEN conn.lastID + 1 ELSE oldest)
  /\ UNCHANGED <<table, buffer, excused, faults>>

DeliverAnyway(e) == Deliver(e)

(* Skip what the replay has delivered, and with it what comes too late.    *)
DeliverIfNewer(e) ==
  IF e <= conn.lastID THEN UNCHANGED <<conn, page, received>> ELSE Deliver(e)

TakeLive ==
  /\ conn.pc = "live" /\ ~Replaying
  /\ buffer # <<>>
  /\ buffer' = Tail(buffer)
  /\ DeliverIfNewer(Head(buffer))
  /\ UNCHANGED <<table, excused, faults>>

(* The phone is locked, the network is gone, or the page, visible again,   *)
(* tears the stream down itself.                                           *)
Disconnect ==
  /\ conn.pc # "closed"
  /\ conn' = Closed /\ buffer' = <<>>
  /\ UNCHANGED <<table, client, faults>>

-----------------------------------------------------------------------------
(* The page and the process.                                               *)

Navigate(screen) ==
  /\ LoadPage(screen)
  /\ UNCHANGED <<table, faults>>

Reload ==
  /\ page.reload # 0
  /\ LoadPage(page.screen)
  /\ UNCHANGED <<table, faults>>

(* The process restarts; what was inserted and not published never will    *)
(* be.  Boot prunes: rows old enough, except the newest Keep.              *)
Restart(k) ==
  /\ k >= oldest /\ (k = oldest \/ k + Keep <= last + 1)
  /\ oldest' = k
  /\ unpublished' = {}
  /\ conn' = Closed /\ buffer' = <<>>
  /\ UNCHANGED <<last, client, faults>>

-----------------------------------------------------------------------------
StreamStep == CheckWindow \/ Replay \/ WriteReplayed \/ TakeLive

Next ==
  \/ AppendEvent
  \/ \E e \in Ids : Publish(e)
  \/ Connect \/ StreamStep \/ CheckFails \/ ReplayFails \/ Disconnect
  \/ \E screen \in Screens : Navigate(screen)
  \/ Reload
  \/ \E k \in Ids : Restart(k)

Spec == Init /\ [][Next]_vars

-----------------------------------------------------------------------------
(* No event reaches a page twice or out of order, across the seam between  *)
(* replay and live delivery and across reconnects                          *)
(* (handlers_sse.go:70-100).                                               *)
InOrderOnce ==
  \A i, j \in DOMAIN received : i < j => received[i] < received[j]

(* What a page has never seen of the events behind its resume point, it    *)
(* was denied by the design: the channel was full, the event was published *)
(* after a later one, the gap was longer than ReplayLimit, or a query      *)
(* failed.  Neither the seam between replay and live delivery nor a        *)
(* restart loses anything, and pruning only for a page that started        *)
(* without a resume point (handlers_sse.go:47-68).                         *)
StartedAtZero == page.screen = "other" \/ page.asOf = 0

GapHasACause ==
  \A e \in (page.asOf + 1)..page.lastId :
    e \in Shown \cup excused \/ (StartedAtZero /\ e < oldest)

(* An inserted event does not stay behind while the connection holds.      *)
NothingLingers ==
  \A e \in Ids :
    (e <= last /\ conn.pc # "closed")
      ~> \/ conn.pc = "closed"
         \/ e <= page.asOf \/ e < oldest
         \/ e \in Shown \cup excused

-----------------------------------------------------------------------------
(* What the repository says, and the code does not do.                     *)

(* "That is safe because the event is already in the database, so the      *)
(* client recovers it on reconnect via Last-Event-ID" (events.go:208-209): *)
(* an event in the table that the page has not seen is still ahead of the  *)
(* resume point it will reconnect with.                                    *)
ResumePointIsHonest ==
  \A e \in oldest..last : page.asOf < e /\ e <= page.lastId => e \in Shown

(* "Reaching a settled state reloads the screen once, because which        *)
(* controls apply is decided server-side" (app.js:191-193): a page reloads *)
(* for what happened after it was rendered.                                *)
ReloadIsNews == page.reload # 0 => page.reload > page.asOf
=============================================================================
