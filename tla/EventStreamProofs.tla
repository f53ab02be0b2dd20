-------------------------- MODULE EventStreamProofs --------------------------
(***************************************************************************)
(* EventStream for any numbers of events, of calls, of a channel and of a  *)
(* replay, and ChatScreen for any number of requests, messages and epochs. *)
(*                                                                         *)
(* Order rests on one fact about both ends of the connection: the page     *)
(* never remembers more than the handler has sent.  That every gap has a   *)
(* cause rests on following an event on its way to the page, through what  *)
(* is not published yet, the channel, and what is still to be replayed.    *)
(*                                                                         *)
(* What the chat screen shows rests on the log only growing, so that what  *)
(* a page read of it stays true, and on three facts about it: what is      *)
(* announced is recorded, every epoch is announced or accounted for, and   *)
(* every delta is followed by what retires it.                             *)
(***************************************************************************)
EXTENDS EventStream, ChatScreen, SequenceTheorems, TLAPS

StreamTypes ==
  /\ last \in Nat /\ oldest \in Nat
  /\ unpublished \subseteq Nat
  /\ conn \in [pc: {"closed", "check", "replay", "live"}, lastID: Nat, upto: Nat]
  /\ buffer \in Seq(Nat)
  /\ page \in [screen: Screens, asOf: Nat, lastId: Nat, reload: Nat]
  /\ received \in Seq(Nat)

(* What the page got is behind what it remembers, and that is not ahead of *)
(* what the handler has sent.                                              *)
ReceivedIsRemembered == \A i \in DOMAIN received : received[i] <= page.lastId

HandlerKeepsUp == conn.pc # "closed" => page.lastId <= conn.lastID

IInv == StreamTypes /\ InOrderOnce /\ ReceivedIsRemembered /\ HandlerKeepsUp

(* At the start nothing was sent and nothing received.                     *)
LEMMA InitEstablishes == Init => IInv
  <1> SUFFICES ASSUME Init PROVE IInv
    OBVIOUS
  <1>1. PICK screen \in Screens : page = NewPage(screen)
    BY DEF Init
  <1>2. page \in [screen: Screens, asOf: Nat, lastId: Nat, reload: Nat]
    BY <1>1 DEF Init, NewPage
  <1>3. QED
    BY <1>2 DEF Init, IInv, StreamTypes, Closed, InOrderOnce, ReceivedIsRemembered,
       HandlerKeepsUp

(* A fresh page has received nothing.                                      *)
LEMMA Fresh ==
  ASSUME IInv, NEW screen \in Screens, LoadPage(screen), UNCHANGED table
  PROVE  IInv'
  <1>1. page' \in [screen: Screens, asOf: Nat, lastId: Nat, reload: Nat]
    BY DEF LoadPage, NewPage, IInv, StreamTypes
  <1>2. QED
    BY <1>1 DEF LoadPage, table, Closed, IInv, StreamTypes, InOrderOnce, ReceivedIsRemembered,
       HandlerKeepsUp

(* A frame that is newer than what the handler has sent.                   *)
LEMMA Delivered ==
  ASSUME IInv, NEW e \in Nat, conn.pc = "live", e > conn.lastID, Deliver(e), UNCHANGED table,
         buffer' \in Seq(Nat)
  PROVE  IInv'
  <1>1. /\ conn' = [conn EXCEPT !.lastID = e] /\ received' = Append(received, e)
        /\ page'.lastId = e
        /\ page' \in [screen: Screens, asOf: Nat, lastId: Nat, reload: Nat]
    <2>1. page.lastId <= conn.lastID /\ page.lastId \in Nat /\ conn.lastID \in Nat
      BY DEF IInv, HandlerKeepsUp, StreamTypes
    <2>2. e > page.lastId
      BY <2>1
    <2>3. QED
      BY <2>2 DEF Deliver, IInv, StreamTypes
  <1>2. /\ \A i \in DOMAIN received : received[i] \in Nat /\ received[i] <= page.lastId
        /\ page.lastId \in Nat /\ page.lastId < e
    <2>1. page.lastId <= conn.lastID /\ page.lastId \in Nat /\ conn.lastID \in Nat
      BY DEF IInv, HandlerKeepsUp, StreamTypes
    <2>2. QED
      BY <2>1 DEF IInv, StreamTypes, ReceivedIsRemembered
  <1>3. StreamTypes'
    <2>1. conn' \in [pc: {"closed", "check", "replay", "live"}, lastID: Nat, upto: Nat]
      BY <1>1 DEF IInv, StreamTypes
    <2>2. received' \in Seq(Nat)
      BY <1>1 DEF IInv, StreamTypes
    <2>3. QED
      BY <1>1, <2>1, <2>2 DEF IInv, StreamTypes, table
  <1>4. /\ DOMAIN received = 1..Len(received) /\ DOMAIN received' = 1..(Len(received) + 1)
        /\ Len(received) \in Nat
        /\ \A i \in 1..Len(received) : received'[i] = received[i]
        /\ received'[Len(received) + 1] = e
    BY <1>1 DEF IInv, StreamTypes
  <1>5. InOrderOnce'
    <2> SUFFICES ASSUME NEW i \in DOMAIN received', NEW j \in DOMAIN received', i < j
                 PROVE  received'[i] < received'[j]
      BY DEF InOrderOnce
    <2>1. i \in 1..Len(received) /\ received'[i] = received[i]
      BY <1>4
    <2>2. CASE j = Len(received) + 1
      BY <1>2, <1>4, <2>1, <2>2
    <2>3. CASE j \in 1..Len(received)
      BY <1>4, <2>1, <2>3 DEF IInv, InOrderOnce
    <2>4. QED
      BY <1>4, <2>2, <2>3
  <1>6. ReceivedIsRemembered'
    BY <1>1, <1>2, <1>4 DEF ReceivedIsRemembered
  <1>7. HandlerKeepsUp'
    BY <1>1 DEF HandlerKeepsUp, IInv, StreamTypes
  <1>8. QED
    BY <1>3, <1>5, <1>6, <1>7 DEF IInv

(* Whatever leaves the page alone, and the handler no further back.        *)
LEMMA PageUntouched ==
  ASSUME IInv, UNCHANGED <<page, received>>, StreamTypes',
         conn'.pc # "closed"
           => conn'.lastID = page.lastId \/ (conn.pc # "closed" /\ conn'.lastID = conn.lastID)
  PROVE  IInv'
  BY DEF IInv, StreamTypes, InOrderOnce, ReceivedIsRemembered, HandlerKeepsUp

(* One step per action of the stream.                                      *)
LEMMA StepPreserves == IInv /\ [Next]_vars => IInv'
  <1> SUFFICES ASSUME IInv, [Next]_vars PROVE IInv'
    OBVIOUS
  <1> USE DEF client, table
  <1>1. CASE AppendEvent
    BY <1>1, PageUntouched DEF AppendEvent, IInv, StreamTypes
  <1>2. ASSUME NEW e \in Ids, Publish(e) PROVE IInv'
    <2>1. e \in Nat
      BY <1>2 DEF Publish, IInv, StreamTypes
    <2>2. StreamTypes'
      BY <1>2, <2>1 DEF Publish, IInv, StreamTypes
    <2>3. QED
      BY <1>2, <2>2, PageUntouched DEF Publish
  <1>3. CASE Connect
    BY <1>3, PageUntouched DEF Connect, IInv, StreamTypes
  <1>4. CASE CheckWindow
    <2>1. CASE conn' = [conn EXCEPT !.pc = "replay"] /\ UNCHANGED <<buffer, client>>
      BY <1>4, <2>1, PageUntouched DEF CheckWindow, IInv, StreamTypes
    <2>2. CASE LoadPage(page.screen)
      BY <1>4, <2>2, Fresh DEF CheckWindow, IInv, StreamTypes
    <2>3. QED
      BY <1>4, <2>1, <2>2 DEF CheckWindow
  <1>5. CASE CheckFails
    BY <1>5, PageUntouched DEF CheckFails, IInv, StreamTypes
  <1>6. CASE Replay
    <2> DEFINE after == IF conn.lastID + 1 >= oldest THEN conn.lastID ELSE oldest - 1
               upto == IF after + ReplayLimit < last THEN after + ReplayLimit ELSE last
    <2>1. /\ conn.pc = "replay" /\ conn' = [conn EXCEPT !.pc = "live", !.upto = upto]
          /\ UNCHANGED <<last, oldest, unpublished, buffer, page, received>>
      BY <1>6 DEF Replay
    <2>2. upto \in Nat
      <3>1. ReplayLimit \in Nat
        BY StreamAssumption
      <3>2. conn.lastID \in Nat /\ oldest \in Nat /\ last \in Nat
        BY DEF IInv, StreamTypes
      <3>3. after \in Nat
        BY <3>2
      <3>4. QED
        BY <3>1, <3>2, <3>3
    <2> HIDE DEF upto
    <2>3. QED
      BY <2>1, <2>2, PageUntouched DEF IInv, StreamTypes
  <1>7. CASE ReplayFails
    BY <1>7, PageUntouched DEF ReplayFails, IInv, StreamTypes
  <1>8. CASE WriteReplayed
    <2> DEFINE e == IF conn.lastID + 1 >= oldest THEN conn.lastID + 1 ELSE oldest
    <2>1. e \in Nat /\ e > conn.lastID
      <3>1. conn.lastID \in Nat /\ oldest \in Nat
        BY DEF IInv, StreamTypes
      <3>2. QED
        BY <3>1
    <2>2. conn.pc = "live" /\ Deliver(e) /\ UNCHANGED <<table, buffer>>
      BY <1>8 DEF WriteReplayed, Replaying
    <2> HIDE DEF e
    <2>3. QED
      BY <2>1, <2>2, Delivered DEF IInv, StreamTypes
  <1>9. CASE TakeLive
    <2>1. Head(buffer) \in Nat /\ buffer' \in Seq(Nat) /\ conn.pc = "live" /\ UNCHANGED table
      BY <1>9 DEF TakeLive, IInv, StreamTypes
    <2>2. CASE Head(buffer) <= conn.lastID
      <3>1. UNCHANGED <<conn, page, received>>
        BY <1>9, <2>2 DEF TakeLive, DeliverIfNewer
      <3>2. QED
        BY <2>1, <3>1, PageUntouched DEF IInv, StreamTypes
    <2>3. CASE ~(Head(buffer) <= conn.lastID)
      <3>1. Deliver(Head(buffer))
        BY <1>9, <2>3 DEF TakeLive, DeliverIfNewer
      <3>2. Head(buffer) > conn.lastID
        BY <2>1, <2>3 DEF IInv, StreamTypes
      <3>3. QED
        BY <2>1, <3>1, <3>2, Delivered
    <2>4. QED
      BY <2>2, <2>3
  <1>10. CASE Disconnect
    BY <1>10, PageUntouched DEF Disconnect, Closed, IInv, StreamTypes
  <1>11. ASSUME NEW screen \in Screens, Navigate(screen) PROVE IInv'
    BY <1>11, Fresh DEF Navigate
  <1>12. CASE Reload
    BY <1>12, Fresh DEF Reload, IInv, StreamTypes
  <1>13. ASSUME NEW k \in Ids, Restart(k) PROVE IInv'
    BY <1>13, PageUntouched, StreamAssumption DEF Restart, Ids, Closed, IInv, StreamTypes
  <1>14. CASE UNCHANGED vars
    BY <1>14, PageUntouched DEF vars, IInv, StreamTypes
  <1>15. QED
    BY <1>1, <1>2, <1>3, <1>4, <1>5, <1>6, <1>7, <1>8, <1>9, <1>10, <1>11, <1>12, <1>13, <1>14
       DEF Next, StreamStep

(* No event reaches a page twice or out of order: the seam between replay  *)
(* and live delivery, and reconnecting from what the page remembers.       *)
THEOREM EventsComeInOrder == Spec => []InOrderOnce
  <1>1. IInv => InOrderOnce
    BY DEF IInv
  <1>2. QED
    BY <1>1, InitEstablishes, StepPreserves, PTL DEF Spec

-----------------------------------------------------------------------------
(* Gaps.                                                                   *)

Within ==
  /\ oldest <= last + 1
  /\ unpublished \subseteq 1..last
  /\ buffer \in Seq(1..last) /\ Len(buffer) <= BufferSize

Connected == conn.pc # "closed"

(* Both ends remember the same event, and a chat page starts where it was  *)
(* rendered.                                                               *)
EndsAgree ==
  /\ Connected => conn.lastID = page.lastId
  /\ page.screen = "chat" => page.asOf <= page.lastId

(* In the channel, only what was excused comes after a later event, and so *)
(* it is with what has yet to be published.                                *)
ChannelInOrder ==
  Connected =>
    /\ \A i, j \in DOMAIN buffer : i < j /\ buffer[j] < buffer[i] => buffer[j] \in excused
    /\ \A i \in DOMAIN buffer, f \in unpublished : f < buffer[i] => f \in excused

(* What a live connection has ahead of it.                                 *)
OnItsWay ==
  conn.pc = "live" =>
    \A e \in 1..last : e > conn.lastID =>
      \/ e <= conn.upto \/ e \in excused \/ e \in unpublished
      \/ \E i \in DOMAIN buffer : buffer[i] = e

(* Past the check, what was pruned is behind, or excused, or the page had  *)
(* no resume point.                                                        *)
PrunedBehind ==
  conn.pc \in {"replay", "live"} =>
    \/ conn.lastID + 1 >= oldest
    \/ StartedAtZero
    \/ \A e \in 1..last : e < oldest => e \in excused

GapInv ==
  /\ StreamTypes /\ Within /\ EndsAgree /\ ChannelInOrder /\ OnItsWay /\ PrunedBehind
  /\ GapHasACause

(* At the start there is no gap.                                           *)
LEMMA GapInit == Init => GapInv
  <1> SUFFICES ASSUME Init PROVE GapInv
    OBVIOUS
  <1>1. PICK screen \in Screens : page = NewPage(screen)
    BY DEF Init
  <1>2. StreamTypes
    BY InitEstablishes DEF IInv
  <1>3. page.asOf = 0 /\ page.lastId = 0
    BY <1>1 DEF Init, NewPage
  <1>4. Within
    <2>1. BufferSize \in Nat
      BY StreamAssumption
    <2>2. QED
      BY <2>1 DEF Init, Within
  <1>5. QED
    BY <1>2, <1>3, <1>4 DEF Init, GapInv, Within, EndsAgree, Connected, ChannelInOrder, OnItsWay,
       PrunedBehind, GapHasACause, Closed

(* Once closed, only the page and the table matter; pruning goes on.       *)
LEMMA Closes ==
  ASSUME GapInv, conn' = Closed, buffer' = <<>>, UNCHANGED <<last, page, received, excused>>,
         oldest' \in Nat, oldest <= oldest', oldest' <= last + 1, unpublished' \subseteq unpublished
  PROVE  GapInv'
  <1>1. StreamTypes'
    BY DEF GapInv, StreamTypes, Closed
  <1>2. Within'
    <2>1. BufferSize \in Nat
      BY StreamAssumption
    <2>2. QED
      BY <2>1 DEF GapInv, Within
  <1>3. EndsAgree' /\ ChannelInOrder' /\ OnItsWay' /\ PrunedBehind'
    BY DEF GapInv, EndsAgree, ChannelInOrder, OnItsWay, PrunedBehind, Connected, Closed
  <1>4. GapHasACause'
    <2> SUFFICES ASSUME NEW e \in (page.asOf + 1)..page.lastId
                 PROVE  e \in Shown' \cup excused' \/ (StartedAtZero' /\ e < oldest')
      BY DEF GapHasACause
    <2>1. page.asOf \in Nat /\ page.lastId \in Nat /\ oldest \in Nat
      BY DEF GapInv, StreamTypes
    <2>2. e \in Shown \cup excused \/ (StartedAtZero /\ e < oldest)
      BY DEF GapInv, GapHasACause
    <2>3. QED
      BY <2>1, <2>2 DEF Shown, StartedAtZero
  <1>5. QED
    BY <1>1, <1>2, <1>3, <1>4 DEF GapInv

(* A fresh page has no gap.                                                *)
LEMMA FreshGap ==
  ASSUME GapInv, NEW screen \in Screens, LoadPage(screen), UNCHANGED table
  PROVE  GapInv'
  <1>1. /\ conn' = Closed /\ buffer' = <<>> /\ received' = <<>> /\ excused' = {}
        /\ page'.asOf = last /\ page'.lastId \in {0, last} /\ last \in Nat
        /\ page'.screen = "chat" => page'.lastId = last
        /\ page' \in [screen: Screens, asOf: Nat, lastId: Nat, reload: Nat]
        /\ UNCHANGED <<last, oldest, unpublished>>
    BY DEF LoadPage, NewPage, GapInv, StreamTypes, table
  <1>2. StreamTypes'
    BY <1>1 DEF GapInv, StreamTypes, Closed
  <1>3. Within'
    <2>1. BufferSize \in Nat
      BY StreamAssumption
    <2>2. QED
      BY <1>1, <2>1 DEF GapInv, Within
  <1>4. EndsAgree' /\ ChannelInOrder' /\ OnItsWay' /\ PrunedBehind' /\ GapHasACause'
    BY <1>1 DEF EndsAgree, ChannelInOrder, OnItsWay, PrunedBehind, Connected, Closed, GapHasACause
  <1>5. QED
    BY <1>2, <1>3, <1>4 DEF GapInv

(* The head of the channel is dealt with: it is behind the handler now.    *)
LEMMA Taken ==
  ASSUME GapInv, buffer # <<>>, buffer' = Tail(buffer), UNCHANGED <<last, unpublished, excused>>,
         conn.pc = "live", conn'.pc = "live", conn'.upto = conn.upto, conn'.lastID \in Nat,
         conn'.lastID >= conn.lastID, conn'.lastID >= Head(buffer)
  PROVE  ChannelInOrder' /\ OnItsWay'
  <1>0. conn.lastID \in Nat /\ last \in Nat /\ Head(buffer) \in Nat
    BY HeadTailProperties DEF GapInv, StreamTypes
  <1>1. /\ DOMAIN buffer = 1..Len(buffer) /\ DOMAIN buffer' = 1..(Len(buffer) - 1)
        /\ Len(buffer) \in Nat /\ Len(buffer) >= 1 /\ buffer[1] = Head(buffer)
        /\ \A i \in 1..(Len(buffer) - 1) : buffer'[i] = buffer[i + 1]
    <2>1. buffer \in Seq(Nat) /\ buffer # <<>>
      BY DEF GapInv, StreamTypes
    <2>2. Len(buffer) \in Nat /\ Len(buffer) >= 1
      <3>1. Len(buffer) \in Nat /\ Len(buffer) # 0
        BY <2>1, EmptySeq
      <3>2. QED
        BY <3>1
    <2>3. /\ Tail(buffer) \in Seq(Nat) /\ Len(Tail(buffer)) = Len(buffer) - 1
          /\ \A i \in 1..(Len(buffer) - 1) : Tail(buffer)[i] = buffer[i + 1]
      BY <2>1, HeadTailProperties
    <2>4. DOMAIN buffer = 1..Len(buffer) /\ buffer[1] = Head(buffer)
      BY <2>1
    <2>5. DOMAIN Tail(buffer) = 1..(Len(buffer) - 1)
      BY <2>3
    <2>6. QED
      BY <2>2, <2>3, <2>4, <2>5
  <1>2. ChannelInOrder'
    <2>1. \A i \in DOMAIN buffer' : i + 1 \in DOMAIN buffer /\ buffer'[i] = buffer[i + 1]
      BY <1>1
    <2>2. ASSUME NEW i \in DOMAIN buffer', NEW k \in DOMAIN buffer', i < k,
                 buffer'[k] < buffer'[i]
          PROVE  buffer'[k] \in excused
      <3>1. i + 1 < k + 1
        BY <1>1, <2>2
      <3>2. \A m, n \in DOMAIN buffer :
              m < n /\ buffer[n] < buffer[m] => buffer[n] \in excused
        BY DEF GapInv, ChannelInOrder, Connected
      <3>3. buffer[k + 1] < buffer[i + 1] /\ i + 1 \in DOMAIN buffer /\ k + 1 \in DOMAIN buffer
        BY <2>1, <2>2
      <3>4. buffer[k + 1] \in excused
        BY <3>1, <3>2, <3>3
      <3>5. QED
        BY <2>1, <3>4
    <2>3. ASSUME NEW i \in DOMAIN buffer', NEW f \in unpublished
          PROVE  f < buffer'[i] => f \in excused
      <3>1. \A m \in DOMAIN buffer : f < buffer[m] => f \in excused
        BY <2>3 DEF GapInv, ChannelInOrder, Connected
      <3>2. QED
        BY <2>1, <3>1
    <2>4. QED
      BY <2>2, <2>3 DEF ChannelInOrder
  <1>3. OnItsWay'
    <2> SUFFICES ASSUME NEW f \in 1..last, f > conn'.lastID
                 PROVE  \/ f <= conn.upto \/ f \in excused \/ f \in unpublished
                        \/ \E i \in DOMAIN buffer' : buffer'[i] = f
      BY DEF OnItsWay
    <2>0. f > conn.lastID /\ f \in Nat
      BY <1>0
    <2>1. \/ f <= conn.upto \/ f \in excused \/ f \in unpublished
          \/ \E i \in DOMAIN buffer : buffer[i] = f
      BY <1>0, <2>0 DEF GapInv, OnItsWay
    <2>2. ASSUME NEW i \in DOMAIN buffer, buffer[i] = f
          PROVE  \E k \in DOMAIN buffer' : buffer'[k] = f
      <3>1. i # 1 /\ i - 1 \in 1..(Len(buffer) - 1)
        BY <1>0, <1>1, <2>0, <2>2
      <3>2. buffer'[i - 1] = f
        BY <1>1, <2>2, <3>1
      <3>3. QED
        BY <1>1, <3>1, <3>2
    <2>3. QED
      BY <2>1, <2>2
  <1>4. QED
    BY <1>2, <1>3

(* A frame is delivered; what it jumps over has a cause.                   *)
LEMMA DeliveredGap ==
  ASSUME GapInv, NEW e \in Nat, conn.pc = "live", e > conn.lastID, Deliver(e),
         UNCHANGED <<table, excused>>, StreamTypes', Within',
         \/ UNCHANGED buffer
         \/ buffer # <<>> /\ buffer' = Tail(buffer) /\ e = Head(buffer),
         \A f \in Nat : conn.lastID < f /\ f < e
           => f \in excused \/ (StartedAtZero /\ f < oldest)
  PROVE  GapInv'
  <1>1. /\ conn'.lastID = e /\ conn'.pc = "live" /\ conn'.upto = conn.upto
        /\ page'.lastId = e /\ page'.asOf = page.asOf /\ page'.screen = page.screen
        /\ received' = Append(received, e)
        /\ page.lastId = conn.lastID /\ conn.lastID \in Nat /\ page.asOf \in Nat
        /\ UNCHANGED <<last, oldest, unpublished>> /\ last \in Nat /\ oldest \in Nat
    <2>1. page.lastId = conn.lastID /\ page.lastId \in Nat
      BY DEF GapInv, EndsAgree, Connected, StreamTypes
    <2>2. QED
      BY <2>1 DEF Deliver, GapInv, StreamTypes, table
  <1>2. /\ \A x \in Shown : x \in Shown' /\ e \in Shown'
        /\ e \in Shown'
    <2>1. received \in Seq(Nat)
      BY DEF GapInv, StreamTypes
    <2>2. /\ DOMAIN received' = 1..(Len(received) + 1) /\ DOMAIN received = 1..Len(received)
          /\ Len(received) \in Nat /\ received'[Len(received) + 1] = e
          /\ \A i \in 1..Len(received) : received'[i] = received[i]
      BY <1>1, <2>1
    <2>3. QED
      BY <2>2 DEF Shown
  <1>3. EndsAgree'
    BY <1>1 DEF EndsAgree, Connected, GapInv
  <1>4. GapHasACause'
    <2> SUFFICES ASSUME NEW f \in (page'.asOf + 1)..page'.lastId
                 PROVE  f \in Shown' \cup excused' \/ (StartedAtZero' /\ f < oldest')
      BY DEF GapHasACause
    <2>1. f \in Nat /\ page.asOf + 1 <= f /\ f <= e
      BY <1>1
    <2>2. CASE f <= conn.lastID
      <3>1. f \in Shown \cup excused \/ (StartedAtZero /\ f < oldest)
        BY <1>1, <2>1, <2>2 DEF GapInv, GapHasACause
      <3>2. QED
        BY <1>1, <1>2, <3>1 DEF StartedAtZero
    <2>3. CASE conn.lastID < f /\ f < e
      BY <1>1, <2>1, <2>3 DEF StartedAtZero
    <2>4. CASE f = e
      BY <1>2, <2>4
    <2>5. QED
      BY <1>1, <2>1, <2>2, <2>3, <2>4
  <1>5. PrunedBehind'
    <2>1. conn.lastID + 1 >= oldest => e + 1 >= oldest
      BY <1>1
    <2>2. QED
      BY <1>1, <2>1 DEF GapInv, PrunedBehind, StartedAtZero
  <1>6. ChannelInOrder' /\ OnItsWay'
    <2>1. CASE UNCHANGED buffer
      BY <1>1, <2>1 DEF GapInv, ChannelInOrder, OnItsWay, Connected
    <2>2. CASE buffer # <<>> /\ buffer' = Tail(buffer) /\ e = Head(buffer)
      BY <1>1, <2>2, Taken DEF table
    <2>3. QED
      BY <2>1, <2>2
  <1>7. QED
    BY <1>3, <1>4, <1>5, <1>6 DEF GapInv

(* A row that is inserted is on its way to every live connection.          *)
LEMMA AppendGap == GapInv /\ StreamTypes' /\ AppendEvent => GapInv'
  <1> SUFFICES ASSUME GapInv, StreamTypes', AppendEvent PROVE GapInv'
    OBVIOUS
  <1>1. /\ last' = last + 1 /\ unpublished' = unpublished \cup {last + 1}
        /\ UNCHANGED <<oldest, conn, buffer, page, received, excused>>
        /\ last \in Nat /\ oldest \in Nat
    BY DEF AppendEvent, client, GapInv, StreamTypes
  <1>2. Within'
    <2>1. oldest' <= last' + 1 /\ unpublished' \subseteq 1..last'
      BY <1>1 DEF GapInv, Within
    <2>2. buffer' \in Seq(1..last')
      <3>1. 1..last \subseteq 1..last'
        BY <1>1
      <3>2. QED
        BY <1>1, <3>1 DEF GapInv, Within
    <2>3. QED
      BY <1>1, <2>1, <2>2 DEF GapInv, Within
  <1>3. EndsAgree' /\ GapHasACause'
    BY <1>1 DEF GapInv, EndsAgree, Connected, GapHasACause, Shown, StartedAtZero
  <1>4. ChannelInOrder'
    <2>1. \A i \in DOMAIN buffer : buffer[i] \in 1..last
      <3>1. buffer \in Seq(1..last)
        BY DEF GapInv, Within
      <3>2. DOMAIN buffer = 1..Len(buffer)
        BY <3>1
      <3>3. QED
        BY <3>1, <3>2, ElementOfSeq
    <2>2. \A i \in DOMAIN buffer : ~(last + 1 < buffer[i])
      BY <1>1, <2>1
    <2>3. QED
      BY <1>1, <2>2 DEF GapInv, ChannelInOrder, Connected
  <1>5. OnItsWay' /\ PrunedBehind'
    <2>1. \A e \in 1..last' : e = last + 1 \/ e \in 1..last
      BY <1>1
    <2>2. ~(last + 1 < oldest)
      BY <1>1 DEF GapInv, Within
    <2>3. QED
      BY <1>1, <2>1, <2>2 DEF GapInv, OnItsWay, PrunedBehind, StartedAtZero
  <1>6. QED
    BY <1>2, <1>3, <1>4, <1>5 DEF GapInv

(* An event that is published goes into the channel, or is excused.        *)
LEMMA PublishGap ==
  ASSUME GapInv, StreamTypes', NEW e \in Ids, Publish(e)
  PROVE  GapInv'
  <1>1. /\ e \in unpublished /\ unpublished' = unpublished \ {e}
        /\ UNCHANGED <<last, oldest, conn, page, received>>
        /\ excused \subseteq excused'
        /\ last \in Nat /\ e \in 1..last
    BY DEF Publish, GapInv, StreamTypes, Within
  <1>2. EndsAgree' /\ GapHasACause' /\ PrunedBehind'
    BY <1>1 DEF GapInv, EndsAgree, Connected, GapHasACause, Shown, StartedAtZero, PrunedBehind
  <1>3. Within' /\ ChannelInOrder' /\ OnItsWay'
    <2>1. CASE ~(Subscribed /\ HasRoom)
      <3>1. buffer' = buffer
        BY <2>1 DEF Publish
      <3>2. conn.pc = "closed" \/ e \in excused'
        <4>1. Len(buffer) \in Nat /\ BufferSize \in Nat /\ Len(buffer) <= BufferSize
          BY StreamAssumption DEF GapInv, StreamTypes, Within
        <4>2. conn.pc # "closed" => Len(buffer) = BufferSize
          BY <2>1, <4>1 DEF Subscribed, HasRoom
        <4>3. QED
          BY <4>2 DEF Publish
      <3>3. QED
        BY <1>1, <3>1, <3>2 DEF GapInv, Within, ChannelInOrder, OnItsWay, Connected
    <2>2. CASE Subscribed /\ HasRoom
      <3>1. /\ buffer' = Append(buffer, e) /\ conn.pc # "closed"
            /\ buffer \in Seq(1..last) /\ Len(buffer) < BufferSize
            /\ Len(buffer) \in Nat /\ BufferSize \in Nat
        BY <2>2, StreamAssumption DEF Publish, Subscribed, HasRoom, GapInv, Within
      <3>2. excused' = excused \cup {f \in unpublished : f < e}
        BY <3>1 DEF Publish
      <3>3. /\ buffer' \in Seq(1..last) /\ Len(buffer') = Len(buffer) + 1
            /\ \A i \in 1..Len(buffer) : buffer'[i] = buffer[i]
            /\ buffer'[Len(buffer) + 1] = e
        BY <1>1, <3>1, AppendProperties
      <3>4. /\ DOMAIN buffer = 1..Len(buffer) /\ DOMAIN buffer' = 1..(Len(buffer) + 1)
        BY <3>1, <3>3
      <3>5. Within'
        BY <1>1, <3>1, <3>3 DEF GapInv, Within
      <3>6. ChannelInOrder'
        <4>0. /\ \A i, j \in DOMAIN buffer :
                    i < j /\ buffer[j] < buffer[i] => buffer[j] \in excused
              /\ \A i \in DOMAIN buffer, f \in unpublished : f < buffer[i] => f \in excused
          BY <3>1 DEF GapInv, ChannelInOrder, Connected
        <4>1. ASSUME NEW i \in DOMAIN buffer', NEW j \in DOMAIN buffer', i < j,
                     buffer'[j] < buffer'[i]
              PROVE  buffer'[j] \in excused'
          <5>1. i \in DOMAIN buffer /\ buffer'[i] = buffer[i]
            BY <3>1, <3>3, <3>4, <4>1
          <5>2. CASE j = Len(buffer) + 1
            <6>1. e < buffer[i]
              BY <3>3, <4>1, <5>1, <5>2
            <6>2. e \in excused
              BY <1>1, <4>0, <5>1, <6>1
            <6>3. QED
              BY <1>1, <3>3, <5>2, <6>2
          <5>3. CASE j \in DOMAIN buffer
            <6>1. buffer'[j] = buffer[j]
              BY <3>3, <3>4, <5>3
            <6>2. buffer[j] \in excused
              BY <4>0, <4>1, <5>1, <5>3, <6>1
            <6>3. QED
              BY <1>1, <6>1, <6>2
          <5>4. QED
            BY <3>1, <3>4, <5>2, <5>3
        <4>2. ASSUME NEW i \in DOMAIN buffer', NEW f \in unpublished', f < buffer'[i]
              PROVE  f \in excused'
          <5>1. f \in unpublished
            BY <1>1
          <5>2. CASE i = Len(buffer) + 1
            BY <3>2, <3>3, <4>2, <5>1, <5>2
          <5>3. CASE i \in DOMAIN buffer
            <6>1. buffer'[i] = buffer[i]
              BY <3>3, <3>4, <5>3
            <6>2. QED
              BY <1>1, <4>0, <4>2, <5>1, <5>3, <6>1
          <5>4. QED
            BY <3>1, <3>4, <5>2, <5>3
        <4>3. QED
          BY <4>1, <4>2 DEF ChannelInOrder
      <3>7. OnItsWay'
        <4> SUFFICES ASSUME conn.pc = "live", NEW f \in 1..last, f > conn.lastID
                     PROVE  \/ f <= conn.upto \/ f \in excused' \/ f \in unpublished'
                            \/ \E i \in DOMAIN buffer' : buffer'[i] = f
          BY <1>1 DEF OnItsWay
        <4>1. \/ f <= conn.upto \/ f \in excused \/ f \in unpublished
              \/ \E i \in DOMAIN buffer : buffer[i] = f
          BY DEF GapInv, OnItsWay
        <4>2. f = e => \E i \in DOMAIN buffer' : buffer'[i] = f
          BY <3>1, <3>3, <3>4
        <4>3. (\E i \in DOMAIN buffer : buffer[i] = f) => \E i \in DOMAIN buffer' : buffer'[i] = f
          BY <3>1, <3>3, <3>4
        <4>4. QED
          BY <1>1, <4>1, <4>2, <4>3
      <3>8. QED
        BY <3>5, <3>6, <3>7
    <2>3. QED
      BY <2>1, <2>2
  <1>4. QED
    BY <1>2, <1>3 DEF GapInv

(* The connection goes on to its next stage; more may be excused.          *)
LEMMA StageGap ==
  ASSUME GapInv, StreamTypes', UNCHANGED <<table, buffer, page, received>>,
         conn.pc # "closed", conn'.pc # "closed", conn'.lastID = conn.lastID,
         excused \subseteq excused', OnItsWay', PrunedBehind'
  PROVE  GapInv'
  <1>1. Within'
    BY DEF GapInv, Within, table
  <1>2. EndsAgree' /\ ChannelInOrder'
    BY DEF GapInv, EndsAgree, ChannelInOrder, Connected, table
  <1>3. GapHasACause'
    BY DEF GapInv, GapHasACause, Shown, StartedAtZero, table
  <1>4. QED
    BY <1>1, <1>2, <1>3 DEF GapInv

(* One step per action of the stream.                                      *)
LEMMA GapStepPreserves == IInv /\ GapInv /\ [Next]_vars => GapInv'
  <1> SUFFICES ASSUME IInv, GapInv, [Next]_vars PROVE GapInv'
    OBVIOUS
  <1>0. StreamTypes'
    BY StepPreserves DEF IInv
  <1>1. CASE AppendEvent
    BY <1>0, <1>1, AppendGap
  <1>2. ASSUME NEW e \in Ids, Publish(e) PROVE GapInv'
    BY <1>0, <1>2, PublishGap
  <1>3. CASE Connect
    <2>1. /\ conn.pc = "closed" /\ conn'.pc = "check" /\ conn'.lastID = page.lastId
          /\ buffer' = <<>> /\ UNCHANGED <<last, oldest, unpublished, page, received, excused>>
      BY <1>3 DEF Connect, table, client
    <2>2. Within'
      <3>1. BufferSize \in Nat
        BY StreamAssumption
      <3>2. QED
        BY <2>1, <3>1 DEF GapInv, Within
    <2>3. EndsAgree' /\ ChannelInOrder' /\ OnItsWay' /\ PrunedBehind' /\ GapHasACause'
      BY <2>1 DEF GapInv, EndsAgree, ChannelInOrder, OnItsWay, PrunedBehind, Connected,
         GapHasACause, Shown, StartedAtZero
    <2>4. QED
      BY <1>0, <2>2, <2>3 DEF GapInv
  <1>4. CASE CheckWindow
    <2>1. CASE CanReplay(conn.lastID)
      <3>1. /\ conn.pc = "check" /\ conn' = [conn EXCEPT !.pc = "replay"]
            /\ UNCHANGED <<table, buffer, client>>
        BY <1>4, <2>1 DEF CheckWindow
      <3>2. conn'.pc = "replay" /\ conn'.lastID = conn.lastID
        BY <3>1 DEF GapInv, StreamTypes
      <3>3. conn.lastID = 0 => StartedAtZero
        <4>1. /\ conn.lastID = page.lastId /\ page.asOf \in Nat
              /\ page.screen = "chat" => page.asOf <= page.lastId
              /\ page.screen \in Screens
          BY <3>1 DEF GapInv, EndsAgree, Connected, StreamTypes
        <4>2. QED
          BY <4>1 DEF StartedAtZero, Screens
      <3>4. last = 0 => conn.lastID + 1 >= oldest
        <4>1. oldest <= last + 1 /\ oldest \in Nat /\ conn.lastID \in Nat
          BY DEF GapInv, Within, StreamTypes
        <4>2. QED
          BY <4>1
      <3>5. PrunedBehind' /\ OnItsWay'
        BY <2>1, <3>1, <3>2, <3>3, <3>4
           DEF CanReplay, PrunedBehind, OnItsWay, StartedAtZero, table, client
      <3>6. QED
        BY <1>0, <3>1, <3>2, <3>5, StageGap DEF client
    <2>2. CASE ~CanReplay(conn.lastID)
      BY <1>4, <2>2, FreshGap DEF CheckWindow, GapInv, StreamTypes
    <2>3. QED
      BY <2>1, <2>2
  <1>5. CASE CheckFails
    <2>1. /\ conn.pc = "check" /\ conn'.pc = "replay" /\ conn'.lastID = conn.lastID
          /\ excused' = excused \cup {e \in 1..last : e < oldest}
          /\ UNCHANGED <<table, buffer, page, received>>
      BY <1>5 DEF CheckFails, GapInv, StreamTypes
    <2>2. PrunedBehind' /\ OnItsWay'
      BY <2>1 DEF PrunedBehind, OnItsWay, table
    <2>3. QED
      BY <1>0, <2>1, <2>2, StageGap
  <1>6. CASE Replay
    <2> DEFINE after == IF conn.lastID + 1 >= oldest THEN conn.lastID ELSE oldest - 1
               upto == IF after + ReplayLimit < last THEN after + ReplayLimit ELSE last
    <2>1. /\ conn.pc = "replay" /\ conn' = [conn EXCEPT !.pc = "live", !.upto = upto]
          /\ excused' = excused \cup {e \in 1..last : e > upto}
          /\ UNCHANGED <<table, buffer, page, received>>
      BY <1>6 DEF Replay
    <2>2. upto \in Nat
      <3>1. ReplayLimit \in Nat
        BY StreamAssumption
      <3>2. conn.lastID \in Nat /\ oldest \in Nat /\ last \in Nat
        BY DEF GapInv, StreamTypes
      <3>3. after \in Nat
        BY <3>2
      <3>4. QED
        BY <3>1, <3>2, <3>3
    <2> HIDE DEF upto
    <2>3. conn'.pc = "live" /\ conn'.lastID = conn.lastID /\ conn'.upto = upto
      BY <2>1 DEF GapInv, StreamTypes
    <2>4. OnItsWay'
      <3>1. \A e \in 1..last : e <= upto \/ e > upto
        BY <2>2
      <3>2. QED
        BY <2>1, <2>3, <3>1 DEF OnItsWay, table
    <2>5. PrunedBehind'
      BY <2>1, <2>3 DEF GapInv, PrunedBehind, StartedAtZero, table
    <2>6. QED
      BY <1>0, <2>1, <2>3, <2>4, <2>5, StageGap
  <1>7. CASE ReplayFails
    <2>1. /\ conn.pc = "replay" /\ conn'.pc = "live" /\ conn'.lastID = conn.lastID
          /\ excused' = excused \cup {e \in 1..last : e > conn.lastID}
          /\ UNCHANGED <<table, buffer, page, received>>
      BY <1>7 DEF ReplayFails, GapInv, StreamTypes
    <2>2. PrunedBehind' /\ OnItsWay'
      BY <2>1 DEF GapInv, PrunedBehind, OnItsWay, StartedAtZero, table
    <2>3. QED
      BY <1>0, <2>1, <2>2, StageGap
  <1>8. CASE WriteReplayed
    <2> DEFINE e == IF conn.lastID + 1 >= oldest THEN conn.lastID + 1 ELSE oldest
    <2>1. conn.lastID \in Nat /\ oldest \in Nat /\ last \in Nat /\ oldest <= last + 1
      BY DEF GapInv, StreamTypes, Within
    <2>2. e \in Nat /\ e > conn.lastID
      BY <2>1
    <2>3. conn.pc = "live" /\ Deliver(e) /\ UNCHANGED <<table, buffer, excused>>
      BY <1>8 DEF WriteReplayed, Replaying
    <2>4. ASSUME NEW f \in Nat, conn.lastID < f, f < e
          PROVE  f \in excused \/ (StartedAtZero /\ f < oldest)
      <3>1. ~(conn.lastID + 1 >= oldest) /\ f < oldest /\ f \in 1..last
        BY <2>1, <2>4
      <3>2. QED
        BY <2>3, <3>1 DEF GapInv, PrunedBehind
    <2> HIDE DEF e
    <2>5. Within'
      BY <2>3 DEF GapInv, Within, table
    <2>6. QED
      BY <1>0, <2>2, <2>3, <2>4, <2>5, DeliveredGap
  <1>9. CASE TakeLive
    <2> DEFINE h == Head(buffer)
    <2>1. /\ conn.pc = "live" /\ ~Replaying /\ buffer # <<>> /\ buffer' = Tail(buffer)
          /\ UNCHANGED <<last, oldest, unpublished, excused>> /\ DeliverIfNewer(h)
      BY <1>9 DEF TakeLive, table
    <2>2. /\ conn.lastID \in Nat /\ last \in Nat /\ conn.upto \in Nat
          /\ buffer \in Seq(1..last) /\ Len(buffer) <= BufferSize /\ BufferSize \in Nat
      BY StreamAssumption DEF GapInv, StreamTypes, Within
    <2>3. /\ h \in 1..last /\ Tail(buffer) \in Seq(1..last)
          /\ Len(Tail(buffer)) = Len(buffer) - 1 /\ Len(buffer) \in Nat
      BY <2>1, <2>2, HeadTailProperties
    <2>4. Within'
      BY <2>1, <2>2, <2>3 DEF GapInv, Within
    <2>5. CASE h <= conn.lastID
      <3>1. UNCHANGED <<conn, page, received>>
        BY <2>1, <2>5 DEF DeliverIfNewer
      <3>2. ChannelInOrder' /\ OnItsWay'
        BY <2>1, <2>2, <2>5, <3>1, Taken
      <3>3. EndsAgree' /\ PrunedBehind' /\ GapHasACause'
        BY <2>1, <3>1 DEF GapInv, EndsAgree, PrunedBehind, GapHasACause, Connected, Shown,
           StartedAtZero
      <3>4. QED
        BY <1>0, <2>4, <3>2, <3>3 DEF GapInv
    <2>6. CASE ~(h <= conn.lastID)
      <3>1. Deliver(h) /\ h > conn.lastID /\ h \in Nat
        BY <2>1, <2>2, <2>3, <2>6 DEF DeliverIfNewer
      <3>2. ASSUME NEW f \in Nat, conn.lastID < f, f < h
            PROVE  f \in excused
        <4>1. f \in 1..last /\ ~(f <= conn.upto)
          BY <2>1, <2>2, <2>3, <3>2 DEF Replaying
        <4>2. \/ f \in excused \/ f \in unpublished
              \/ \E i \in DOMAIN buffer : buffer[i] = f
          BY <2>1, <3>2, <4>1 DEF GapInv, OnItsWay
        <4>3. 1 \in DOMAIN buffer /\ buffer[1] = h /\ DOMAIN buffer = 1..Len(buffer)
          BY <2>1, <2>2
        <4>4. f \in unpublished => f \in excused
          BY <2>1, <3>2, <4>3 DEF GapInv, ChannelInOrder, Connected
        <4>5. ASSUME NEW i \in DOMAIN buffer, buffer[i] = f PROVE f \in excused
          <5>1. 1 < i /\ buffer[i] < buffer[1]
            BY <2>3, <3>2, <4>3, <4>5
          <5>2. QED
            BY <2>1, <4>3, <4>5, <5>1 DEF GapInv, ChannelInOrder, Connected
        <4>6. QED
          BY <4>2, <4>4, <4>5
      <3>3. QED
        BY <1>0, <2>1, <2>4, <3>1, <3>2, DeliveredGap DEF table
    <2>7. QED
      BY <2>5, <2>6
  <1>10. CASE Disconnect
    BY <1>10, Closes DEF Disconnect, table, client, GapInv, StreamTypes, Within
  <1>11. ASSUME NEW screen \in Screens, Navigate(screen) PROVE GapInv'
    BY <1>11, FreshGap DEF Navigate
  <1>12. CASE Reload
    BY <1>12, FreshGap DEF Reload, GapInv, StreamTypes
  <1>13. ASSUME NEW k \in Ids, Restart(k) PROVE GapInv'
    <2>1. Keep \in Nat /\ Keep >= 1 /\ k \in Nat
      BY StreamAssumption DEF Ids
    <2>2. last \in Nat /\ oldest \in Nat /\ oldest <= last + 1
      BY DEF GapInv, StreamTypes, Within
    <2>3. /\ oldest' = k /\ unpublished' = {} /\ conn' = Closed /\ buffer' = <<>>
          /\ UNCHANGED <<last, page, received, excused>>
          /\ k >= oldest /\ (k = oldest \/ k + Keep <= last + 1)
      BY <1>13 DEF Restart, client
    <2>4. oldest <= k /\ k <= last + 1
      BY <2>1, <2>2, <2>3
    <2>5. QED
      BY <2>1, <2>3, <2>4, Closes
  <1>14. CASE UNCHANGED vars
    BY <1>0, <1>14 DEF vars, GapInv, Within, EndsAgree, Connected, ChannelInOrder, OnItsWay,
       PrunedBehind, GapHasACause, Shown, StartedAtZero
  <1>15. QED
    BY <1>1, <1>2, <1>3, <1>4, <1>5, <1>6, <1>7, <1>8, <1>9, <1>10, <1>11, <1>12, <1>13, <1>14
       DEF Next, StreamStep

(* What a page missed of the events behind its resume point, it was denied *)
(* by the design: nothing is lost at the seam between replay and live      *)
(* delivery, and pruning costs a page nothing unless it had no resume      *)
(* point.                                                                  *)
THEOREM GapsHaveACause == Spec => []GapHasACause
  <1>1. IInv /\ GapInv /\ [Next]_vars => IInv' /\ GapInv'
    BY StepPreserves, GapStepPreserves
  <1>2. GapInv => GapHasACause
    BY DEF GapInv
  <1>3. QED
    BY <1>1, <1>2, InitEstablishes, GapInit, PTL DEF Spec

-----------------------------------------------------------------------------
(* The chat screen.                                                        *)

Requests == [pc: {"idle", "record", "tell"}, epoch: Nat, row: Nat]

Events == [type: {"message.append", "message.delta", "run.status", "epoch.changed"},
           role: {"user", "assistant", "none"}, of: Nat]

Turns == [pc: {"off", "work", "stream", "tell", "over", "tell failure", "status", "summary",
               "boundary"}, epoch: Nat, row: Nat, roll: Nat, text: BOOLEAN]

Views == [pc: {"load", "latest", "messages", "live"}, epoch: Nat, from: Nat, asOf: Nat,
          resume: Nat, rendered: SUBSET Nat, whole: BOOLEAN, appended: SUBSET Nat,
          bubble: BOOLEAN, reload: BOOLEAN]

ChatTypes ==
  /\ liveEpoch \in Nat \ {0} /\ clearing \in Nat
  /\ rows \in Seq(Nat) /\ log \in Seq(Events)
  /\ view \in Views /\ torn \in BOOLEAN

(* What is announced, or about to be, is recorded; a loop that is off has  *)
(* nothing to tell.                                                        *)
RequestsAreThere ==
  /\ speakers \in [Speakers -> Requests]
  /\ \A s \in Speakers : speakers[s].pc = "tell" => speakers[s].row \in DOMAIN rows

TurnIsThere ==
  /\ turn \in Turns
  /\ turn.pc \in {"tell", "tell failure"} => turn.row \in DOMAIN rows
  /\ turn.pc = "off" => ~turn.text

RowsAreThere ==
  /\ \A i \in DOMAIN log : log[i].type = "message.append" => log[i].of \in DOMAIN rows
  /\ RequestsAreThere /\ TurnIsThere

(* Every epoch after the first was announced, will be, or never will, and  *)
(* none before it began.                                                   *)
Told(e) == \E i \in DOMAIN log : log[i] = Event("epoch.changed", "none", e)

RollsAreTold ==
  /\ \A e \in 2..liveEpoch : e \in hushed \/ BeingTold(e) \/ Told(e)
  /\ clearing <= liveEpoch
  /\ turn.pc \in {"summary", "boundary"} => turn.roll <= liveEpoch /\ turn.roll # 0
  /\ \A i \in DOMAIN log : log[i].type = "epoch.changed" => log[i].of <= liveEpoch

(* What has begun to show ends, later in the log.                          *)
RetiredAfter(i) == \E j \in DOMAIN log : i < j /\ Retires(log[j])

DeltasAreRetired ==
  \A i \in DOMAIN log :
    log[i].type = "message.delta" => turn.text \/ torn \/ RetiredAfter(i)

(* What a page relies on: it is not ahead of the log, it has the epoch     *)
(* that was live when it began to read, and whatever would have made it    *)
(* reload is still to come.                                                *)
ViewOK ==
  /\ view.from <= Len(log) /\ view.asOf <= Len(log) /\ view.resume <= Len(log)
  /\ view.pc = "load" => view.epoch = 0
  /\ view.pc \in {"load", "latest"} => view.resume = 0 /\ view.asOf = 0
  /\ view.pc # "live" => view.resume = view.asOf /\ ~view.bubble /\ ~view.reload
  /\ view.pc \in {"latest", "messages", "live"} /\ view.epoch # 0 =>
       \A i \in 1..view.from : log[i].type = "epoch.changed" => log[i].of <= view.epoch
  /\ ~view.reload => \A i \in (view.asOf + 1)..view.resume : ~Reloads(log[i])
  /\ view.bubble => turn.text \/ torn \/ RetiredAfter(view.resume)

ChatInv ==
  ChatTypes /\ RowsAreThere /\ RollsAreTold /\ DeltasAreRetired /\ ViewOK /\ NothingFallsBetween

(* At the start there is nothing to tell, and no page.                     *)
LEMMA ChatBegins == ChatInit => ChatInv
  <1> SUFFICES ASSUME ChatInit PROVE ChatInv
    OBVIOUS
  <1>1. ChatTypes
    <2>2. NoView \in Views
      BY DEF NoView, Views
    <2>4. rows \in Seq(Nat) /\ log \in Seq(Events)
      BY EmptySeq DEF ChatInit
    <2>6. liveEpoch \in Nat \ {0} /\ clearing \in Nat
      BY DEF ChatInit
    <2>7. torn \in BOOLEAN
      BY DEF ChatInit
    <2>8. QED
      BY <2>2, <2>4, <2>6, <2>7 DEF ChatInit, ChatTypes
  <1>2. log = <<>> /\ DOMAIN log = {} /\ Len(log) = 0
    BY DEF ChatInit
  <1>3. RowsAreThere /\ RollsAreTold /\ DeltasAreRetired
    <2>1. Silent \in Requests /\ Silent.pc # "tell"
      BY DEF Silent, Requests
    <2>2. NoLoop \in Turns /\ NoLoop.pc = "off" /\ ~NoLoop.text
      BY DEF NoLoop, Turns
    <2>3. QED
      BY <1>2, <2>1, <2>2 DEF ChatInit, RowsAreThere, RequestsAreThere, TurnIsThere, RollsAreTold,
         DeltasAreRetired
  <1>4. ViewOK
    BY <1>2 DEF ChatInit, ViewOK, NoView
  <1>5. NothingFallsBetween
    BY DEF ChatInit, NothingFallsBetween, NoView
  <1>6. QED
    BY <1>1, <1>3, <1>4, <1>5 DEF ChatInv

(* A step of the requests, of the loop, of an end of the epoch, or of the  *)
(* page.                                                                   *)
Speaking == \E s \in Speakers : ReadTheEpoch(s) \/ RecordSaid(s) \/ TellSaid(s)

Turning ==
  \/ StartLoop \/ BeginStream \/ EmitDelta \/ RecordAnswer \/ RecordNote \/ TellAnswer
  \/ LeaveLoop \/ RecordFailure \/ TellFailure \/ TellStatus \/ TellStop

Rolling == RollToCompact \/ RecordTheSummary \/ TellCompacted \/ RollToClear \/ TellCleared

Looking == OpenChat \/ LoadView \/ ReadLatest \/ ReadMessages \/ Receive

LEMMA ChatSteps == ChatNext <=> Speaking \/ Turning \/ Rolling \/ Looking \/ KillServer
  BY DEF ChatNext, Speaking, Turning, Rolling, Looking

-----------------------------------------------------------------------------
(* What a step does to the tables.                                         *)

(* A new event is about what is there.                                     *)
Sound(event) ==
  /\ event.type = "message.append" => event.of \in DOMAIN rows
  /\ event.type = "epoch.changed" => event.of <= liveEpoch
  /\ event.type = "message.delta" => turn'.text

LogGoesOn == log' = log \/ \E event \in Events : Sound(event) /\ log' = Append(log, event)

RowsGoOn == rows' = rows \/ \E e \in Nat : rows' = Append(rows, e)

(* An answer that has begun to show still does, was torn, or ends now.     *)
AnswerGoesOn ==
  turn.text \/ torn =>
    turn'.text \/ torn' \/ \E event \in Events : log' = Append(log, event) /\ Retires(event)

GoesOn == LogGoesOn /\ RowsGoOn /\ AnswerGoesOn

(* The events there are.                                                   *)
LEMMA AnEvent ==
  ASSUME NEW type \in {"message.append", "message.delta", "run.status", "epoch.changed"},
         NEW role \in {"user", "assistant", "none"}, NEW of \in Nat
  PROVE  /\ Event(type, role, of) \in Events
         /\ Event(type, role, of).type = type /\ Event(type, role, of).role = role
         /\ Event(type, role, of).of = of
  BY DEF Event, Events

(* One is recorded, or nothing is.                                         *)
LEMMA Announced ==
  ASSUME NEW event, Announce(event), torn \in BOOLEAN
  PROVE  /\ hushed' = hushed /\ torn' \in BOOLEAN /\ (torn => torn')
         /\ \/ log' = Append(log, event)
            \/ log' = log /\ torn' = TRUE
  <1>1. CASE Emit(event)
    BY <1>1 DEF Emit
  <1>2. CASE Hitch /\ torn' = TRUE /\ UNCHANGED <<log, hushed>>
    BY <1>2
  <1>3. QED
    BY <1>1, <1>2 DEF Announce

LEMMA EpochAnnounced ==
  ASSUME NEW e, AnnounceEpoch(e)
  PROVE  /\ torn' = torn
         /\ \/ log' = Append(log, Event("epoch.changed", "none", e)) /\ hushed' = hushed
            \/ log' = log /\ hushed' = hushed \cup {e}
  BY DEF AnnounceEpoch, Emit

(* Sequences that grow at the end.                                         *)
LEMMA Grown ==
  ASSUME NEW S, NEW x \in Seq(S), NEW a \in S
  PROVE  /\ Append(x, a) \in Seq(S) /\ Len(Append(x, a)) = Len(x) + 1
         /\ Append(x, a)[Len(x) + 1] = a
         /\ \A i \in DOMAIN x : i \in DOMAIN Append(x, a) /\ Append(x, a)[i] = x[i]
         /\ DOMAIN x = 1..Len(x) /\ DOMAIN Append(x, a) = 1..(Len(x) + 1)
         /\ Len(x) \in Nat
  BY AppendProperties, LenProperties

LEMMA SpeakersStay ==
  ASSUME RequestsAreThere, rows \in Seq(Nat), RowsGoOn, speakers' = speakers
  PROVE  RequestsAreThere'
  <1>1. \A i \in DOMAIN rows : i \in DOMAIN rows'
    BY Grown DEF RowsGoOn
  <1>2. QED
    BY <1>1 DEF RequestsAreThere

LEMMA Speaks ==
  ASSUME ChatTypes, RowsAreThere, Speaking
  PROVE  /\ GoesOn /\ RequestsAreThere'
         /\ <<liveEpoch, turn, clearing, view, hushed>>' = <<liveEpoch, turn, clearing, view, hushed>>
         /\ torn' \in BOOLEAN
  <1> USE DEF unspoken
  <1>1. PICK s \in Speakers : ReadTheEpoch(s) \/ RecordSaid(s) \/ TellSaid(s)
    BY DEF Speaking
  <1>2. CASE ReadTheEpoch(s)
    <2>1. GoesOn /\ torn' = torn
      BY <1>2 DEF ReadTheEpoch, GoesOn, LogGoesOn, RowsGoOn, AnswerGoesOn
    <2>2. RequestsAreThere'
      BY <1>2 DEF ReadTheEpoch, ChatTypes, RowsAreThere, RequestsAreThere, Requests
    <2>3. QED
      BY <1>2, <2>1, <2>2 DEF ReadTheEpoch, ChatTypes
  <1>3. CASE RecordSaid(s)
    <2>1. GoesOn /\ torn' = torn
      BY <1>3 DEF RecordSaid, Record, Requests, RowsAreThere, RequestsAreThere, GoesOn, LogGoesOn, RowsGoOn, AnswerGoesOn, ChatTypes
    <2>2. Silent \in Requests /\ Silent.pc # "tell"
      BY DEF Silent, Requests
    <2>3. CASE Record(speakers[s].epoch) /\ speakers' = [speakers EXCEPT ![s].pc = "tell", ![s].row = Len(rows')]
      <3>1. speakers[s].epoch \in Nat
        BY DEF RowsAreThere, RequestsAreThere, Requests
      <3>2. Len(rows') \in DOMAIN rows' /\ Len(rows') \in Nat /\ \A i \in DOMAIN rows : i \in DOMAIN rows'
        BY <2>3, <3>1, Grown DEF Record, ChatTypes
      <3>3. RequestsAreThere'
        BY <2>3, <3>2 DEF ChatTypes, RowsAreThere, RequestsAreThere, Requests
      <3>4. QED
        BY <1>3, <2>1, <3>3 DEF RecordSaid, ChatTypes
    <2>4. CASE rows' = rows /\ speakers' = [speakers EXCEPT ![s] = Silent]
      <3>1. RequestsAreThere'
        BY <2>2, <2>4 DEF ChatTypes, RowsAreThere, RequestsAreThere, Requests
      <3>2. QED
        BY <1>3, <2>1, <3>1 DEF RecordSaid, ChatTypes
    <2>5. QED
      BY <1>3, <2>3, <2>4 DEF RecordSaid
  <1>4. CASE TellSaid(s)
    <2>1. speakers[s].row \in DOMAIN rows /\ speakers[s].row \in Nat
      BY <1>4 DEF TellSaid, RowsAreThere, RequestsAreThere, ChatTypes, Requests
    <2> DEFINE event == Event("message.append", "user", speakers[s].row)
    <2>2. event \in Events /\ Sound(event)
      BY <2>1, AnEvent DEF Sound
    <2>3. /\ hushed' = hushed /\ torn' \in BOOLEAN /\ (torn => torn')
          /\ \/ log' = Append(log, event)
             \/ log' = log /\ torn' = TRUE
      BY <1>4, Announced DEF TellSaid, ChatTypes
    <2>4. GoesOn
      BY <1>4, <2>2, <2>3 DEF TellSaid, GoesOn, LogGoesOn, RowsGoOn, AnswerGoesOn
    <2>5. RequestsAreThere'
      BY <1>4 DEF TellSaid, ChatTypes, RowsAreThere, RequestsAreThere, Requests, Silent
    <2>6. QED
      BY <1>4, <2>3, <2>4, <2>5 DEF TellSaid
  <1>5. QED
    BY <1>1, <1>2, <1>3, <1>4

LEMMA TurnStays ==
  ASSUME TurnIsThere, rows \in Seq(Nat), RowsGoOn, turn' = turn
  PROVE  TurnIsThere'
  <1>1. \A i \in DOMAIN rows : i \in DOMAIN rows'
    BY Grown DEF RowsGoOn
  <1>2. QED
    BY <1>1 DEF TurnIsThere

RollsNothing ==
  turn' = turn \/ (turn.pc \notin {"summary", "boundary"} /\ turn'.pc \notin {"summary", "boundary"})

LEMMA Recorded ==
  ASSUME rows \in Seq(Nat), NEW e \in Nat, Record(e)
  PROVE  RowsGoOn /\ Len(rows') \in DOMAIN rows' /\ Len(rows') \in Nat
  BY Grown DEF Record, RowsGoOn

LEMMA LoopTurns ==
  ASSUME ChatTypes, RowsAreThere, Turning
  PROVE  /\ GoesOn /\ TurnIsThere' /\ torn' \in BOOLEAN /\ RollsNothing
         /\ <<liveEpoch, speakers, clearing, view, hushed>>' = <<liveEpoch, speakers, clearing, view, hushed>>
  <1> USE DEF unturned
  <1>0. /\ TurnIsThere /\ liveEpoch \in Nat /\ rows \in Seq(Nat) /\ torn \in BOOLEAN
        /\ turn.epoch \in Nat /\ turn.text \in BOOLEAN /\ turn.row \in Nat
    BY DEF ChatTypes, RowsAreThere, TurnIsThere, Turns
  <1>1. CASE StartLoop
    <2>1. NoLoop \in Turns /\ ~turn.text
      BY <1>0, <1>1 DEF NoLoop, Turns, TurnIsThere, StartLoop
    <2>2. TurnIsThere' /\ RollsNothing
      BY <1>0, <1>1, <2>1 DEF StartLoop, TurnIsThere, RollsNothing, Turns
    <2>3. QED
      BY <1>0, <1>1, <2>1, <2>2 DEF StartLoop, GoesOn, LogGoesOn, RowsGoOn, AnswerGoesOn
  <1>2. CASE BeginStream
    <2>1. TurnIsThere' /\ RollsNothing /\ turn'.text = turn.text
      BY <1>0, <1>2 DEF BeginStream, TurnIsThere, RollsNothing, Turns
    <2>2. QED
      BY <1>0, <1>2, <2>1 DEF BeginStream, GoesOn, LogGoesOn, RowsGoOn, AnswerGoesOn
  <1>3. CASE EmitDelta
    <2>1. TurnIsThere' /\ RollsNothing /\ turn'.text
      BY <1>0, <1>3 DEF EmitDelta, TurnIsThere, RollsNothing, Turns
    <2> DEFINE event == Event("message.delta", "assistant", 0)
    <2>2. event \in Events /\ Sound(event)
      BY <2>1, AnEvent DEF Sound
    <2>3. (log' = log \/ log' = Append(log, event)) /\ torn' = torn /\ hushed' = hushed
      BY <1>3 DEF EmitDelta, Emit
    <2>4. QED
      BY <1>0, <1>3, <2>1, <2>2, <2>3 DEF EmitDelta, GoesOn, LogGoesOn, RowsGoOn, AnswerGoesOn
  <1>4. CASE RecordAnswer
    <2>1. CASE turn.text /\ Record(turn.epoch) /\ turn' = [turn EXCEPT !.pc = "tell", !.row = Len(rows')]
      <3>1. RowsGoOn /\ Len(rows') \in DOMAIN rows' /\ Len(rows') \in Nat
        BY <1>0, <2>1, Recorded
      <3>2. TurnIsThere' /\ RollsNothing /\ turn'.text = turn.text
        BY <1>0, <1>4, <2>1, <3>1 DEF RecordAnswer, TurnIsThere, RollsNothing, Turns
      <3>3. QED
        BY <1>0, <1>4, <3>1, <3>2 DEF RecordAnswer, GoesOn, LogGoesOn, AnswerGoesOn
    <2>2. CASE ~turn.text /\ turn' = [turn EXCEPT !.pc = "work"] /\ UNCHANGED rows
      <3>1. TurnIsThere' /\ RollsNothing /\ turn'.text = turn.text
        BY <1>0, <1>4, <2>2 DEF RecordAnswer, TurnIsThere, RollsNothing, Turns
      <3>2. QED
        BY <1>0, <1>4, <2>2, <3>1 DEF RecordAnswer, GoesOn, LogGoesOn, RowsGoOn, AnswerGoesOn
    <2>3. QED
      BY <1>4, <2>1, <2>2 DEF RecordAnswer
  <1>5. CASE RecordNote
    <2>1. RowsGoOn /\ Len(rows') \in DOMAIN rows' /\ Len(rows') \in Nat
      BY <1>0, <1>5, Recorded DEF RecordNote
    <2>2. TurnIsThere' /\ RollsNothing /\ turn'.text = turn.text
      BY <1>0, <1>5, <2>1 DEF RecordNote, TurnIsThere, RollsNothing, Turns
    <2>3. QED
      BY <1>0, <1>5, <2>1, <2>2 DEF RecordNote, GoesOn, LogGoesOn, AnswerGoesOn
  <1>6. CASE TellAnswer \/ TellFailure
    <2> DEFINE event == Event("message.append", "assistant", turn.row)
    <2>1. /\ turn.row \in DOMAIN rows /\ Announce(event)
          /\ UNCHANGED <<unturned, liveEpoch, rows>>
      BY <1>0, <1>6 DEF TellAnswer, TellFailure, TurnIsThere
    <2>2. event \in Events /\ Sound(event) /\ Retires(event)
      BY <1>0, <2>1, AnEvent DEF Sound, Retires
    <2>3. /\ hushed' = hushed /\ torn' \in BOOLEAN /\ (torn => torn')
          /\ \/ log' = Append(log, event)
             \/ log' = log /\ torn' = TRUE
      BY <1>0, <2>1, Announced
    <2>4. GoesOn
      BY <2>1, <2>2, <2>3 DEF GoesOn, LogGoesOn, RowsGoOn, AnswerGoesOn
    <2>5. TurnIsThere' /\ RollsNothing
      <3>1. CASE TellAnswer
        BY <1>0, <3>1 DEF TellAnswer, TurnIsThere, RollsNothing, Turns
      <3>2. CASE TellFailure
        BY <1>0, <3>2 DEF TellFailure, TurnIsThere, RollsNothing, Turns
      <3>3. QED
        BY <1>6, <3>1, <3>2
    <2>6. QED
      BY <2>1, <2>3, <2>4, <2>5
  <1>7. CASE LeaveLoop
    <2>1. TurnIsThere' /\ RollsNothing /\ turn'.text = turn.text
      BY <1>0, <1>7 DEF LeaveLoop, TurnIsThere, RollsNothing, Turns
    <2>2. QED
      BY <1>0, <1>7, <2>1 DEF LeaveLoop, GoesOn, LogGoesOn, RowsGoOn, AnswerGoesOn
  <1>8. CASE RecordFailure
    <2>1. RowsGoOn /\ Len(rows') \in DOMAIN rows' /\ Len(rows') \in Nat
      <3>1. PICK e \in 1..liveEpoch : Record(e)
        BY <1>8 DEF RecordFailure
      <3>2. e \in Nat
        BY <1>0
      <3>3. QED
        BY <1>0, <3>1, <3>2, Recorded
    <2>2. TurnIsThere' /\ RollsNothing /\ turn'.text = turn.text
      BY <1>0, <1>8, <2>1 DEF RecordFailure, TurnIsThere, RollsNothing, Turns
    <2>3. QED
      BY <1>0, <1>8, <2>1, <2>2 DEF RecordFailure, GoesOn, LogGoesOn, AnswerGoesOn
  <1>9. CASE TellStatus
    <2> DEFINE event == Event("run.status", "none", 0)
    <2>1. event \in Events /\ Sound(event) /\ Retires(event)
      BY AnEvent DEF Sound, Retires
    <2>2. /\ hushed' = hushed /\ torn' \in BOOLEAN /\ (torn => torn')
          /\ \/ log' = Append(log, event)
             \/ log' = log /\ torn' = TRUE
      BY <1>0, <1>9, Announced DEF TellStatus
    <2>3. GoesOn
      BY <1>9, <2>1, <2>2 DEF TellStatus, GoesOn, LogGoesOn, RowsGoOn, AnswerGoesOn
    <2>4. TurnIsThere' /\ RollsNothing
      <3>1. NoLoop \in Turns /\ NoLoop.pc = "off" /\ ~NoLoop.text
        BY DEF NoLoop, Turns
      <3>2. QED
        BY <1>0, <1>9, <3>1 DEF TellStatus, TurnIsThere, RollsNothing
    <2>5. QED
      BY <1>9, <2>2, <2>3, <2>4 DEF TellStatus
  <1>10. CASE TellStop
    <2> DEFINE event == Event("run.status", "none", 0)
    <2>1. event \in Events /\ Sound(event) /\ Retires(event)
      BY AnEvent DEF Sound, Retires
    <2>2. hushed' = hushed /\ torn' = torn /\ log' = Append(log, event) /\ turn' = turn
      BY <1>10 DEF TellStop, Emit
    <2>3. GoesOn
      BY <1>10, <2>1, <2>2 DEF TellStop, GoesOn, LogGoesOn, RowsGoOn, AnswerGoesOn
    <2>4. TurnIsThere' /\ RollsNothing
      BY <1>0, <1>10 DEF TellStop, TurnIsThere, RollsNothing
    <2>5. QED
      BY <1>0, <1>10, <2>2, <2>3, <2>4 DEF TellStop
  <1>11. QED
    BY <1>1, <1>2, <1>3, <1>4, <1>5, <1>6, <1>7, <1>8, <1>9, <1>10 DEF Turning

LEMMA EventsAreEvents ==
  ASSUME ChatTypes
  PROVE  \A i \in DOMAIN log : log[i] \in Events /\ log[i].of \in Nat
  <1> SUFFICES ASSUME NEW i \in DOMAIN log PROVE log[i] \in Events /\ log[i].of \in Nat
    OBVIOUS
  <1>1. log \in Seq(Events) /\ i \in 1..Len(log)
    BY LenProperties DEF ChatTypes
  <1>2. log[i] \in Events
    BY <1>1, ElementOfSeq
  <1>3. QED
    BY <1>2 DEF Events

(* What a growing log and growing rows keep.                               *)
LEMMA LogGrows ==
  ASSUME ChatTypes, GoesOn
  PROVE  /\ rows' \in Seq(Nat) /\ log' \in Seq(Events)
         /\ Len(log) \in Nat /\ Len(log) <= Len(log') /\ Len(log') \in Nat
         /\ DOMAIN log = 1..Len(log) /\ DOMAIN log' = 1..Len(log')
         /\ \A i \in DOMAIN rows : i \in DOMAIN rows' /\ rows'[i] = rows[i]
         /\ \A i \in DOMAIN log : i \in DOMAIN log' /\ log'[i] = log[i]
         /\ \A i \in DOMAIN log' : i \notin DOMAIN log => i = Len(log) + 1 /\ log' # log /\ Sound(log'[i])
  <1>1. rows' \in Seq(Nat) /\ \A i \in DOMAIN rows : i \in DOMAIN rows' /\ rows'[i] = rows[i]
    <2>1. CASE rows' = rows
      BY <2>1 DEF ChatTypes
    <2>2. CASE \E e \in Nat : rows' = Append(rows, e)
      BY <2>2, Grown DEF ChatTypes
    <2>3. QED
      BY <2>1, <2>2 DEF GoesOn, RowsGoOn
  <1>2. Len(log) \in Nat /\ DOMAIN log = 1..Len(log)
    BY LenProperties DEF ChatTypes
  <1>3. CASE log' = log
    BY <1>1, <1>2, <1>3 DEF ChatTypes
  <1>4. CASE \E event \in Events : Sound(event) /\ log' = Append(log, event)
    <2>1. PICK event \in Events : Sound(event) /\ log' = Append(log, event)
      BY <1>4
    <2>2. /\ log' \in Seq(Events) /\ Len(log') = Len(log) + 1 /\ log'[Len(log) + 1] = event
          /\ \A i \in DOMAIN log : i \in DOMAIN log' /\ log'[i] = log[i]
          /\ DOMAIN log' = 1..(Len(log) + 1)
      BY <2>1, Grown DEF ChatTypes
    <2>3. log' # log
      BY <1>2, <2>2
    <2>4. \A i \in 1..(Len(log) + 1) : i \notin 1..Len(log) => i = Len(log) + 1
      BY <1>2
    <2>5. Len(log') \in Nat /\ Len(log) <= Len(log') /\ DOMAIN log' = 1..Len(log')
      BY <1>2, <2>2
    <2>6. \A i \in DOMAIN log' : i \notin DOMAIN log => i = Len(log) + 1 /\ Sound(log'[i])
      BY <1>2, <2>1, <2>2, <2>4
    <2>7. QED
      BY <1>1, <1>2, <2>2, <2>3, <2>5, <2>6
  <1>5. QED
    BY <1>3, <1>4 DEF GoesOn, LogGoesOn

(* An answer that ends now ends after all that is in the log.              *)
LEMMA RetiredNow ==
  ASSUME ChatTypes, GoesOn, NEW event \in Events, log' = Append(log, event), Retires(event)
  PROVE  \A i \in 0..Len(log) : RetiredAfter(i)'
  <1>1. /\ Len(log) \in Nat /\ Len(log) + 1 \in DOMAIN log'
        /\ log'[Len(log) + 1] = event
    BY Grown DEF ChatTypes
  <1>2. QED
    BY <1>1 DEF RetiredAfter, Retires

LEMMA StillRetired ==
  ASSUME ChatTypes, GoesOn, NEW i \in Nat, RetiredAfter(i)
  PROVE  RetiredAfter(i)'
  BY LogGrows DEF RetiredAfter, Retires

(* Where it is retired, or goes on, it does so after the step.             *)
LEMMA AnswerEnds ==
  ASSUME ChatTypes, GoesOn, NEW i \in 0..Len(log), turn.text \/ torn \/ RetiredAfter(i)
  PROVE  (turn.text \/ torn \/ RetiredAfter(i))'
  <1>1. CASE RetiredAfter(i)
    BY <1>1, StillRetired, LenProperties DEF ChatTypes
  <1>2. CASE turn.text \/ torn
    <2>1. turn'.text \/ torn' \/ \E event \in Events : log' = Append(log, event) /\ Retires(event)
      BY <1>2 DEF GoesOn, AnswerGoesOn
    <2>2. QED
      BY <2>1, RetiredNow
  <1>3. QED
    BY <1>1, <1>2

LEMMA DeltasGoOn ==
  ASSUME ChatTypes, DeltasAreRetired, GoesOn
  PROVE  DeltasAreRetired'
  <1> SUFFICES ASSUME NEW i \in DOMAIN log', log'[i].type = "message.delta"
               PROVE  (turn.text \/ torn \/ RetiredAfter(i))'
    BY DEF DeltasAreRetired
  <1>1. CASE i \in DOMAIN log
    <2>1. i \in 0..Len(log) /\ log[i].type = "message.delta"
      BY <1>1, LogGrows
    <2>2. QED
      BY <1>1, <2>1, AnswerEnds DEF DeltasAreRetired
  <1>2. CASE i \notin DOMAIN log
    BY <1>2, LogGrows DEF Sound
  <1>3. QED
    BY <1>1, <1>2

LEMMA RowsGoOnBeing ==
  ASSUME ChatTypes, RowsAreThere, GoesOn, RequestsAreThere', TurnIsThere'
  PROVE  RowsAreThere'
  <1> SUFFICES ASSUME NEW i \in DOMAIN log', log'[i].type = "message.append"
               PROVE  log'[i].of \in DOMAIN rows'
    BY DEF RowsAreThere
  <1>1. CASE i \in DOMAIN log
    BY <1>1, LogGrows DEF RowsAreThere
  <1>2. CASE i \notin DOMAIN log
    BY <1>2, LogGrows DEF Sound
  <1>3. QED
    BY <1>1, <1>2

(* The page, while others step.                                            *)
LEMMA ViewStands ==
  ASSUME ChatTypes, ViewOK, GoesOn, view' = view
  PROVE  ViewOK'
  <1>1. /\ view.from \in Nat /\ view.asOf \in Nat /\ view.resume \in Nat
        /\ view.from <= Len(log) /\ view.asOf <= Len(log) /\ view.resume <= Len(log)
    BY DEF ChatTypes, Views, ViewOK
  <1>2. /\ Len(log) \in Nat /\ Len(log) <= Len(log') /\ Len(log') \in Nat /\ DOMAIN log = 1..Len(log)
        /\ \A i \in DOMAIN log : log'[i] = log[i]
    BY LogGrows
  <1>3. view'.from <= Len(log') /\ view'.asOf <= Len(log') /\ view'.resume <= Len(log')
    BY <1>1, <1>2
  <1>4. \A i \in 1..view.from : log'[i] = log[i]
    BY <1>1, <1>2
  <1>5. \A i \in (view.asOf + 1)..view.resume : log'[i] = log[i]
    BY <1>1, <1>2
  <1>6. view.bubble => (turn.text \/ torn \/ RetiredAfter(view.resume))'
    <2> SUFFICES ASSUME view.bubble PROVE (turn.text \/ torn \/ RetiredAfter(view.resume))'
      OBVIOUS
    <2> DEFINE i == view.resume
    <2>1. i \in 0..Len(log) /\ (turn.text \/ torn \/ RetiredAfter(i))
      BY <1>1, <1>2 DEF ViewOK
    <2> HIDE DEF i
    <2>2. (turn'.text \/ torn' \/ \E j \in DOMAIN log' : i < j /\ Retires(log'[j]))
      BY <2>1, AnswerEnds DEF RetiredAfter
    <2>3. QED
      BY <2>2 DEF i, RetiredAfter
  <1>7. QED
    BY <1>3, <1>4, <1>5, <1>6 DEF ViewOK, Reloads

LEMMA NothingStillFalls ==
  ASSUME ChatTypes, ViewOK, RowsAreThere, NothingFallsBetween, GoesOn, view' = view
  PROVE  NothingFallsBetween'
  <1> SUFFICES ASSUME view.pc = "live", view.whole, NEW i \in 1..view.resume,
                      log'[i].type = "message.append", rows'[log'[i].of] = view.epoch
               PROVE  log'[i].of \in view.rendered \cup view.appended
    BY DEF NothingFallsBetween
  <1>1. i \in DOMAIN log /\ log'[i] = log[i]
    BY LogGrows DEF ChatTypes, Views, ViewOK
  <1>2. rows'[log[i].of] = rows[log[i].of]
    BY <1>1, LogGrows DEF RowsAreThere
  <1>3. QED
    BY <1>1, <1>2 DEF NothingFallsBetween

-----------------------------------------------------------------------------
(* The epochs.                                                             *)

LEMMA ToldStays ==
  ASSUME ChatTypes, GoesOn, NEW e, Told(e)
  PROVE  Told(e)'
  BY LogGrows DEF Told, Event

(* Where nothing is rolled, what is told of the epochs stays.              *)
LEMMA RollsGoOn ==
  ASSUME ChatTypes, RollsAreTold, GoesOn, RollsNothing,
         liveEpoch' = liveEpoch, clearing' = clearing, hushed' = hushed
  PROVE  RollsAreTold'
  <1>1. \A e \in 2..liveEpoch : e \in hushed' \/ BeingTold(e)' \/ Told(e)'
    BY ToldStays DEF RollsAreTold, RollsNothing, BeingTold
  <1>2. \A i \in DOMAIN log' : log'[i].type = "epoch.changed" => log'[i].of <= liveEpoch
    BY LogGrows DEF RollsAreTold, Sound
  <1>3. QED
    BY <1>1, <1>2 DEF RollsAreTold, RollsNothing

(* One that is announced is told, or nobody will.                          *)
LEMMA ToldNow ==
  ASSUME ChatTypes, NEW e \in Nat, e <= liveEpoch, AnnounceEpoch(e), rows' = rows, turn'.text = turn.text
  PROVE  /\ GoesOn /\ torn' = torn
         /\ (Told(e)' /\ hushed' = hushed) \/ (e \in hushed' /\ hushed \subseteq hushed')
  <1> DEFINE event == Event("epoch.changed", "none", e)
  <1>1. event \in Events /\ Sound(event)
    BY AnEvent DEF Sound
  <1>2. /\ torn' = torn
        /\ \/ log' = Append(log, event) /\ hushed' = hushed
           \/ log' = log /\ hushed' = hushed \cup {e}
    BY EpochAnnounced
  <1>3. GoesOn
    BY <1>1, <1>2 DEF GoesOn, LogGoesOn, RowsGoOn, AnswerGoesOn
  <1>4. log' = Append(log, event) => Told(e)'
    <2> HAVE log' = Append(log, event)
    <2>1. Len(log) + 1 \in DOMAIN log' /\ log'[Len(log) + 1] = event
      BY <1>1, Grown DEF ChatTypes
    <2>2. QED
      BY <2>1 DEF Told, Event
  <1>5. QED
    BY <1>2, <1>3, <1>4

LEMMA EpochsRoll ==
  ASSUME ChatTypes, RowsAreThere, RollsAreTold, Rolling
  PROVE  /\ GoesOn /\ TurnIsThere' /\ torn' = torn /\ RollsAreTold'
         /\ liveEpoch' \in Nat \ {0} /\ clearing' \in Nat
         /\ <<speakers, view>>' = <<speakers, view>>
  <1> USE DEF unturned
  <1>0. /\ TurnIsThere /\ liveEpoch \in Nat \ {0} /\ rows \in Seq(Nat) /\ turn.roll \in Nat
        /\ clearing \in Nat
    BY DEF ChatTypes, RowsAreThere, TurnIsThere, Turns
  <1>1. CASE RollToCompact
    <2>1. /\ turn.pc = "work" /\ liveEpoch' = liveEpoch + 1 /\ liveEpoch + 1 \in Nat \ {0}
          /\ turn' = [turn EXCEPT !.pc = "summary", !.roll = liveEpoch + 1]
          /\ UNCHANGED <<rows, log, speakers, clearing, view, hushed, torn>>
      BY <1>0, <1>1 DEF RollToCompact, Roll
    <2>2. TurnIsThere' /\ turn'.text = turn.text /\ turn'.pc = "summary" /\ turn'.roll = liveEpoch + 1
      BY <1>0, <2>1 DEF TurnIsThere, Turns
    <2>3. GoesOn
      BY <2>1, <2>2 DEF GoesOn, LogGoesOn, RowsGoOn, AnswerGoesOn
    <2>4. \A e \in 2..liveEpoch' : e \in hushed' \/ BeingTold(e)' \/ Told(e)'
      <3> TAKE e \in 2..liveEpoch'
      <3>1. CASE e = liveEpoch + 1
        BY <2>2, <3>1 DEF BeingTold
      <3>2. CASE e # liveEpoch + 1
        <4>1. e \in 2..liveEpoch
          BY <1>0, <2>1, <3>2
        <4>2. QED
          BY <2>1, <4>1 DEF RollsAreTold, BeingTold, Told
      <3>3. QED
        BY <3>1, <3>2
    <2>5. \A i \in DOMAIN log : log[i].type = "epoch.changed" => log[i].of <= liveEpoch + 1
      <3>1. \A i \in DOMAIN log : log[i].of \in Nat
        BY EventsAreEvents
      <3>2. QED
        BY <1>0, <3>1 DEF RollsAreTold
    <2>6. RollsAreTold'
      BY <1>0, <2>1, <2>2, <2>4, <2>5 DEF RollsAreTold
    <2>7. QED
      BY <1>0, <2>1, <2>2, <2>3, <2>6
  <1>2. CASE RecordTheSummary
    <2>1. /\ turn.pc = "summary"
          /\ UNCHANGED <<unturned, liveEpoch, log, torn>>
      BY <1>2 DEF RecordTheSummary
    <2>2. CASE Record(turn.roll) /\ turn' = [turn EXCEPT !.pc = "boundary"] /\ hushed' = hushed
      <3>1. RowsGoOn
        BY <1>0, <2>2, Recorded
      <3>2. TurnIsThere' /\ turn'.text = turn.text /\ turn'.pc = "boundary" /\ turn'.roll = turn.roll
        BY <1>0, <2>2 DEF TurnIsThere, Turns
      <3>3. GoesOn
        BY <2>1, <3>1, <3>2 DEF GoesOn, LogGoesOn, AnswerGoesOn
      <3>4. RollsAreTold'
        BY <2>1, <2>2, <3>2 DEF RollsAreTold, BeingTold, Told
      <3>5. QED
        BY <1>0, <2>1, <3>2, <3>3, <3>4
    <2>3. CASE hushed' = hushed \cup {turn.roll} /\ turn' = [turn EXCEPT !.pc = "work"] /\ rows' = rows
      <3>1. TurnIsThere' /\ turn'.text = turn.text /\ turn'.pc = "work"
        BY <1>0, <2>3 DEF TurnIsThere, Turns
      <3>2. GoesOn
        BY <2>1, <2>3, <3>1 DEF GoesOn, LogGoesOn, RowsGoOn, AnswerGoesOn
      <3>3. RollsAreTold'
        BY <2>1, <2>3, <3>1 DEF RollsAreTold, BeingTold, Told
      <3>4. QED
        BY <1>0, <2>1, <3>1, <3>2, <3>3
    <2>4. QED
      BY <1>2, <2>2, <2>3 DEF RecordTheSummary
  <1>3. CASE TellCompacted
    <2>1. /\ turn.pc = "boundary" /\ turn.roll <= liveEpoch
          /\ AnnounceEpoch(turn.roll) /\ turn' = [turn EXCEPT !.pc = "work"]
          /\ UNCHANGED <<unturned, liveEpoch, rows>>
      BY <1>3 DEF TellCompacted, RollsAreTold
    <2>2. TurnIsThere' /\ turn'.text = turn.text /\ turn'.pc = "work"
      BY <1>0, <2>1 DEF TurnIsThere, Turns
    <2>0. PICK r \in Nat : r = turn.roll
      BY <1>0
    <2>3. /\ GoesOn /\ torn' = torn
          /\ (Told(r)' /\ hushed' = hushed) \/ (r \in hushed' /\ hushed \subseteq hushed')
      BY <1>0, <2>0, <2>1, <2>2, ToldNow
    <2>4. \A e \in 2..liveEpoch : e \in hushed' \/ BeingTold(e)' \/ Told(e)'
      <3> TAKE e \in 2..liveEpoch
      <3>1. CASE e \in hushed \/ Told(e) \/ clearing = e
        BY <2>1, <2>3, <3>1, ToldStays DEF BeingTold
      <3>2. CASE turn.roll = e
        BY <2>0, <2>3, <3>2
      <3>3. QED
        BY <3>1, <3>2 DEF RollsAreTold, BeingTold
    <2>5. \A i \in DOMAIN log' : log'[i].type = "epoch.changed" => log'[i].of <= liveEpoch
      BY <2>3, LogGrows DEF RollsAreTold, Sound
    <2>6. RollsAreTold'
      BY <2>1, <2>2, <2>4, <2>5 DEF RollsAreTold
    <2>7. QED
      BY <1>0, <2>1, <2>2, <2>3, <2>6
  <1>4. CASE RollToClear
    <2>1. /\ clearing = 0 /\ liveEpoch' = liveEpoch + 1 /\ liveEpoch + 1 \in Nat \ {0}
          /\ clearing' = liveEpoch + 1
          /\ UNCHANGED <<rows, log, speakers, turn, view, hushed, torn>>
      BY <1>0, <1>4 DEF RollToClear, Roll
    <2>2. GoesOn
      BY <2>1 DEF GoesOn, LogGoesOn, RowsGoOn, AnswerGoesOn
    <2>3. \A e \in 2..liveEpoch' : e \in hushed' \/ BeingTold(e)' \/ Told(e)'
      <3> TAKE e \in 2..liveEpoch'
      <3>1. CASE e = liveEpoch + 1
        BY <2>1, <3>1 DEF BeingTold
      <3>2. CASE e # liveEpoch + 1
        <4>1. e \in 2..liveEpoch /\ e # 0
          BY <1>0, <2>1, <3>2
        <4>2. QED
          BY <2>1, <4>1 DEF RollsAreTold, BeingTold, Told
      <3>3. QED
        BY <3>1, <3>2
    <2>4. \A i \in DOMAIN log : log[i].type = "epoch.changed" => log[i].of <= liveEpoch + 1
      <3>1. \A i \in DOMAIN log : log[i].of \in Nat
        BY EventsAreEvents
      <3>2. QED
        BY <1>0, <3>1 DEF RollsAreTold
    <2>5. RollsAreTold'
      BY <1>0, <2>1, <2>3, <2>4 DEF RollsAreTold
    <2>6. TurnIsThere'
      BY <1>0, <2>1 DEF TurnIsThere
    <2>7. QED
      BY <1>0, <2>1, <2>2, <2>5, <2>6
  <1>5. CASE TellCleared
    <2>1. /\ AnnounceEpoch(clearing) /\ clearing' = 0 /\ clearing <= liveEpoch
          /\ UNCHANGED <<liveEpoch, rows, speakers, turn, view>>
      BY <1>5 DEF TellCleared, RollsAreTold
    <2>0. PICK r \in Nat : r = clearing
      BY <1>0
    <2>2. /\ GoesOn /\ torn' = torn
          /\ (Told(r)' /\ hushed' = hushed) \/ (r \in hushed' /\ hushed \subseteq hushed')
      BY <1>0, <2>0, <2>1, ToldNow
    <2>3. \A e \in 2..liveEpoch : e \in hushed' \/ BeingTold(e)' \/ Told(e)'
      <3> TAKE e \in 2..liveEpoch
      <3>1. CASE e \in hushed \/ Told(e) \/ (turn.pc \in {"summary", "boundary"} /\ turn.roll = e)
        BY <2>1, <2>2, <3>1, ToldStays DEF BeingTold
      <3>2. CASE clearing = e
        BY <2>0, <2>2, <3>2
      <3>3. QED
        BY <3>1, <3>2 DEF RollsAreTold, BeingTold
    <2>4. \A i \in DOMAIN log' : log'[i].type = "epoch.changed" => log'[i].of <= liveEpoch
      BY <2>2, LogGrows DEF RollsAreTold, Sound
    <2>5. RollsAreTold'
      BY <1>0, <2>1, <2>3, <2>4 DEF RollsAreTold
    <2>6. TurnIsThere'
      BY <1>0, <2>1 DEF TurnIsThere
    <2>7. QED
      BY <1>0, <2>1, <2>2, <2>5, <2>6
  <1>6. QED
    BY <1>1, <1>2, <1>3, <1>4, <1>5 DEF Rolling

(* The process dies: what was being told of an epoch never will be.        *)
LEMMA ServerKilled ==
  ASSUME ChatTypes, RowsAreThere, RollsAreTold, KillServer
  PROVE  /\ GoesOn /\ TurnIsThere' /\ RequestsAreThere' /\ torn' \in BOOLEAN /\ RollsAreTold'
         /\ <<liveEpoch, rows, log>>' = <<liveEpoch, rows, log>> /\ clearing' \in Nat
         /\ view' = view \/ view' = NoView
  <1>1. NoLoop \in Turns /\ NoLoop.pc = "off" /\ ~NoLoop.text
    BY DEF NoLoop, Turns
  <1>2. Silent \in Requests /\ Silent.pc # "tell"
    BY DEF Silent, Requests
  <1>3. TurnIsThere' /\ RequestsAreThere' /\ clearing' = 0
    BY <1>1, <1>2 DEF KillServer, TurnIsThere, RequestsAreThere
  <1>4. turn.text \in BOOLEAN /\ torn \in BOOLEAN /\ torn' = (torn \/ turn.text)
    BY DEF KillServer, ChatTypes, RowsAreThere, TurnIsThere, Turns
  <1>5. GoesOn /\ torn' \in BOOLEAN
    BY <1>4 DEF KillServer, GoesOn, LogGoesOn, RowsGoOn, AnswerGoesOn
  <1>6. \A e \in 2..liveEpoch : e \in hushed' \/ BeingTold(e)' \/ Told(e)'
    <2> TAKE e \in 2..liveEpoch
    <2>1. CASE BeingTold(e)
      <3>1. e \in Unannounced
        BY <2>1 DEF BeingTold, Unannounced, ChatTypes
      <3>2. QED
        BY <3>1 DEF KillServer
    <2>2. CASE e \in hushed \/ Told(e)
      BY <2>2 DEF KillServer, Told
    <2>3. QED
      BY <2>1, <2>2 DEF RollsAreTold
  <1>7. RollsAreTold'
    BY <1>1, <1>3, <1>6 DEF KillServer, RollsAreTold, ChatTypes
  <1>8. QED
    BY <1>3, <1>5, <1>7 DEF KillServer

-----------------------------------------------------------------------------
(* The page.                                                               *)

(* A page that has read nothing yet.                                       *)
LEMMA NothingRead ==
  ASSUME view' = NoView, Len(log') \in Nat
  PROVE  ViewOK' /\ NothingFallsBetween' /\ view' \in Views
  <1>1. NoView \in Views /\ NoView.pc = "load"
    BY DEF NoView, Views
  <1>2. ViewOK'
    BY DEF ViewOK, NoView
  <1>3. QED
    BY <1>1, <1>2 DEF NothingFallsBetween

LEMMA PageReads ==
  ASSUME ChatTypes, RowsAreThere, RollsAreTold, DeltasAreRetired, ViewOK, NothingFallsBetween, Looking
  PROVE  /\ view' \in Views /\ ViewOK' /\ NothingFallsBetween'
         /\ <<liveEpoch, rows, log, speakers, turn, clearing, hushed, torn>>'
              = <<liveEpoch, rows, log, speakers, turn, clearing, hushed, torn>>
  <1>0. /\ UNCHANGED <<liveEpoch, rows, log, speakers, turn, clearing, hushed, torn>>
        /\ view \in Views /\ liveEpoch \in Nat /\ Len(log) \in Nat /\ DOMAIN log = 1..Len(log)
        /\ torn \in BOOLEAN /\ turn.text \in BOOLEAN
    BY LenProperties DEF Looking, OpenChat, LoadView, ReadLatest, ReadMessages, Read, Receive, unseen,
       ChatTypes, RowsAreThere, TurnIsThere, Turns
  <1>1. CASE OpenChat
    BY <1>0, <1>1, NothingRead DEF OpenChat
  <1>2. CASE LoadView
    <2>1. /\ view.pc = "load"
          /\ \/ view' = [view EXCEPT !.epoch = liveEpoch, !.from = Len(log), !.pc = "latest"]
             \/ view' = [view EXCEPT !.from = Len(log), !.pc = "latest"]
      BY <1>2 DEF LoadView, Read, ThenRead
    <2>2. /\ view' \in Views /\ view'.pc = "latest" /\ view'.from = Len(log)
          /\ view'.asOf = 0 /\ view'.resume = 0 /\ ~view'.bubble /\ ~view'.reload
          /\ view'.epoch = liveEpoch \/ view'.epoch = 0
      <3>1. view.asOf = 0 /\ view.resume = 0 /\ ~view.bubble /\ ~view.reload /\ view.epoch = 0
        BY <2>1 DEF ViewOK
      <3>2. CASE view' = [view EXCEPT !.epoch = liveEpoch, !.from = Len(log), !.pc = "latest"]
        BY <1>0, <3>1, <3>2 DEF Views
      <3>3. CASE view' = [view EXCEPT !.from = Len(log), !.pc = "latest"]
        BY <1>0, <3>1, <3>3 DEF Views
      <3>4. QED
        BY <2>1, <3>2, <3>3
    <2>3. \A i \in 1..Len(log) : log[i].type = "epoch.changed" => log[i].of <= liveEpoch
      BY <1>0 DEF RollsAreTold
    <2>4. \A i \in (0 + 1)..0 : FALSE
      OBVIOUS
    <2>5. ViewOK'
      BY <1>0, <2>2, <2>3, <2>4 DEF ViewOK
    <2>6. QED
      BY <1>0, <2>2, <2>5 DEF NothingFallsBetween
  <1>3. CASE ReadLatest
    <2>1. /\ view.pc = "latest"
          /\ \/ view' = [view EXCEPT !.asOf = Len(log), !.resume = Len(log), !.pc = "messages"]
             \/ view' = [view EXCEPT !.pc = "messages"]
      BY <1>3 DEF ReadLatest, Read, ThenRead
    <2>2. view.asOf = 0 /\ view.resume = 0 /\ ~view.bubble /\ ~view.reload /\ view.from <= Len(log)
      BY <2>1 DEF ViewOK
    <2>3. /\ view' \in Views /\ view'.pc = "messages" /\ view'.resume = view'.asOf
          /\ view'.asOf \in Nat /\ view'.asOf <= Len(log)
          /\ view'.from = view.from /\ view'.epoch = view.epoch
          /\ ~view'.bubble /\ ~view'.reload
      <3>1. CASE view' = [view EXCEPT !.asOf = Len(log), !.resume = Len(log), !.pc = "messages"]
        <4>1. Len(log) \in Nat /\ Len(log) <= Len(log)
          BY <1>0
        <4>2. view' \in Views
          BY <1>0, <3>1, <4>1 DEF Views
        <4>3. /\ view'.pc = "messages" /\ view'.asOf = Len(log) /\ view'.resume = Len(log)
              /\ view'.from = view.from /\ view'.epoch = view.epoch
              /\ view'.bubble = view.bubble /\ view'.reload = view.reload
          BY <1>0, <3>1 DEF Views
        <4>4. QED
          BY <2>2, <4>1, <4>2, <4>3
      <3>2. CASE view' = [view EXCEPT !.pc = "messages"]
        BY <1>0, <2>2, <3>2 DEF Views
      <3>3. QED
        BY <2>1, <3>1, <3>2
    <2>4. \A i \in (view'.asOf + 1)..view'.resume : FALSE
      BY <2>3
    <2>5. ViewOK'
      BY <1>0, <2>1, <2>2, <2>3, <2>4 DEF ViewOK
    <2>6. QED
      BY <1>0, <2>3, <2>5 DEF NothingFallsBetween
  <1>4. CASE ReadMessages
    <2>1. /\ view.pc = "messages"
          /\ \/ view' = [view EXCEPT !.rendered = {m \in DOMAIN rows : rows[m] = view.epoch}, !.pc = "live"]
             \/ view' = [view EXCEPT !.whole = FALSE, !.pc = "live"]
      BY <1>4 DEF ReadMessages, Read, ThenRead
    <2>2. {m \in DOMAIN rows : rows[m] = view.epoch} \in SUBSET Nat
      BY LenProperties DEF ChatTypes
    <2>3. /\ view' \in Views /\ view'.pc = "live"
          /\ <<view'.from, view'.asOf, view'.resume, view'.epoch, view'.bubble, view'.reload>>
               = <<view.from, view.asOf, view.resume, view.epoch, view.bubble, view.reload>>
          /\ view'.whole => view'.rendered = {m \in DOMAIN rows : rows[m] = view.epoch}
      BY <1>0, <2>1, <2>2 DEF Views
    <2>4. ~view.bubble /\ ~view.reload /\ view.resume <= Len(log) /\ view.resume \in Nat
      BY <1>0, <2>1 DEF ViewOK, Views
    <2>5. ViewOK'
      BY <1>0, <2>1, <2>3, <2>4 DEF ViewOK
    <2>6. NothingFallsBetween'
      <3> SUFFICES ASSUME view'.whole, NEW i \in 1..view.resume,
                          log[i].type = "message.append", rows[log[i].of] = view.epoch
                   PROVE  log[i].of \in view'.rendered
        BY <1>0, <2>3 DEF NothingFallsBetween
      <3>1. i \in DOMAIN log
        BY <1>0, <2>4
      <3>2. log[i].of \in DOMAIN rows
        BY <3>1 DEF RowsAreThere
      <3>3. QED
        BY <2>3, <3>2
    <2>7. QED
      BY <1>0, <2>3, <2>5, <2>6
  <1>5. CASE Receive
    <2> DEFINE i == view.resume + 1
               event == log[i]
    <2>1. /\ view.pc = "live" /\ view.resume \in Nat /\ view.asOf \in Nat /\ view.resume < Len(log)
          /\ i \in DOMAIN log /\ view.bubble \in BOOLEAN /\ view.reload \in BOOLEAN
      BY <1>0, <1>5 DEF Receive, Views
    <2>2. event.of \in Nat
      BY <2>1, EventsAreEvents
    <2>3. view' = [view EXCEPT
               !.resume   = @ + 1,
               !.appended = IF event.type = "message.append" THEN @ \cup {event.of} ELSE @,
               !.bubble   = event.type = "message.delta" \/ (@ /\ ~Retires(event)),
               !.reload   = @ \/ Reloads(event)]
      BY <1>5 DEF Receive
    <2>4. Retires(event) \in BOOLEAN /\ Reloads(event) \in BOOLEAN
      BY DEF Retires, Reloads
    <2> HIDE DEF i, event
    <2>5. /\ view' \in Views /\ view'.pc = "live" /\ view'.resume = i /\ i = view.resume + 1
          /\ <<view'.from, view'.asOf, view'.epoch, view'.rendered, view'.whole>>
               = <<view.from, view.asOf, view.epoch, view.rendered, view.whole>>
      <3> DEFINE shown == IF event.type = "message.append" THEN view.appended \cup {event.of}
                          ELSE view.appended
                 bubble == event.type = "message.delta" \/ (view.bubble /\ ~Retires(event))
                 reload == view.reload \/ Reloads(event)
      <3>1. shown \in SUBSET Nat
        BY <1>0, <2>2 DEF Views
      <3>2. bubble \in BOOLEAN /\ reload \in BOOLEAN
        BY <2>1, <2>4
      <3>3. view' = [view EXCEPT !.resume = @ + 1, !.appended = shown, !.bubble = bubble, !.reload = reload]
        BY <1>0, <2>3 DEF Views
      <3> HIDE DEF shown, bubble, reload
      <3>4. view' \in Views
        <4>1. view.resume + 1 \in Nat
          BY <2>1
        <4>2. [view EXCEPT !.resume = @ + 1, !.appended = shown] \in Views
          BY <1>0, <3>1, <4>1 DEF Views
        <4>3. \A v \in Views : [v EXCEPT !.bubble = bubble, !.reload = reload] \in Views
          BY <3>2 DEF Views
        <4>4. view' = [[view EXCEPT !.resume = @ + 1, !.appended = shown]
                         EXCEPT !.bubble = bubble, !.reload = reload]
          BY <1>0, <3>3 DEF Views
        <4>5. QED
          BY <4>2, <4>3, <4>4
      <3>5. /\ view'.pc = view.pc /\ view'.resume = view.resume + 1
            /\ view'.from = view.from /\ view'.asOf = view.asOf /\ view'.epoch = view.epoch
            /\ view'.rendered = view.rendered /\ view'.whole = view.whole
        BY <1>0, <3>3 DEF Views
      <3>6. QED
        BY <2>1, <3>4, <3>5 DEF i
    <2>6. /\ view'.bubble <=> event.type = "message.delta" \/ (view.bubble /\ ~Retires(event))
          /\ view'.reload <=> view.reload \/ Reloads(event)
      BY <1>0, <2>1, <2>3, <2>4 DEF Views
    <2>7. /\ view.appended \subseteq view'.appended
          /\ event.type = "message.append" => event.of \in view'.appended
      BY <1>0, <2>3 DEF Views
    <2>8. event = log[i] /\ i <= Len(log)
      BY <2>1, <1>0 DEF event, i
    <2>9. ~view'.reload => \A j \in (view.asOf + 1)..i : ~Reloads(log[j])
      <3> SUFFICES ASSUME ~view'.reload, NEW j \in (view.asOf + 1)..i PROVE ~Reloads(log[j])
        OBVIOUS
      <3>1. CASE j = i
        BY <2>6, <2>8, <3>1
      <3>2. CASE j # i
        <4>1. j \in (view.asOf + 1)..view.resume
          BY <2>1, <2>5, <3>2
        <4>2. QED
          BY <2>6, <4>1 DEF ViewOK
      <3>3. QED
        BY <3>1, <3>2
    <2>10. view'.bubble => turn.text \/ torn \/ RetiredAfter(i)
      <3>1. CASE event.type = "message.delta"
        BY <2>1, <2>8, <3>1 DEF DeltasAreRetired
      <3>2. CASE view.bubble /\ ~Retires(event)
        <4>1. CASE RetiredAfter(view.resume)
          <5>1. PICK j \in DOMAIN log : view.resume < j /\ Retires(log[j])
            BY <4>1 DEF RetiredAfter
          <5>2. j # i
            BY <2>8, <3>2, <5>1
          <5>3. i < j
            BY <1>0, <2>1, <2>5, <5>1, <5>2
          <5>4. QED
            BY <5>1, <5>3 DEF RetiredAfter
        <4>2. QED
          BY <3>2, <4>1 DEF ViewOK
      <3>3. QED
        BY <2>6, <3>1, <3>2
    <2>11. (turn.text \/ torn \/ RetiredAfter(i)) => turn'.text \/ torn' \/ \E j \in DOMAIN log' : i < j /\ Retires(log'[j])
      BY <1>0 DEF RetiredAfter
    <2>12. view'.bubble => turn'.text \/ torn' \/ \E j \in DOMAIN log' : view'.resume < j /\ Retires(log'[j])
      BY <2>5, <2>10, <2>11
    <2>13. ViewOK'
      BY <1>0, <2>1, <2>5, <2>8, <2>9, <2>12 DEF ViewOK, RetiredAfter, Reloads
    <2>14. NothingFallsBetween'
      <3> SUFFICES ASSUME view.whole, NEW j \in 1..i,
                          log[j].type = "message.append", rows[log[j].of] = view.epoch
                   PROVE  log[j].of \in view.rendered \cup view'.appended
        BY <1>0, <2>5 DEF NothingFallsBetween
      <3>1. CASE j = i
        BY <2>7, <2>8, <3>1
      <3>2. CASE j # i
        <4>1. j \in 1..view.resume
          BY <2>1, <2>5, <3>2
        <4>2. QED
          BY <2>1, <2>7, <4>1 DEF NothingFallsBetween
      <3>3. QED
        BY <3>1, <3>2
    <2>15. QED
      BY <1>0, <2>5, <2>13, <2>14
  <1>6. QED
    BY <1>1, <1>2, <1>3, <1>4, <1>5 DEF Looking

-----------------------------------------------------------------------------
LEMMA ChatGoesOn == ChatInv /\ [ChatNext]_chatVars => ChatInv'
  <1> SUFFICES ASSUME ChatInv, [ChatNext]_chatVars PROVE ChatInv'
    OBVIOUS
  <1>0. /\ ChatTypes /\ RowsAreThere /\ RollsAreTold /\ DeltasAreRetired /\ ViewOK
        /\ NothingFallsBetween /\ RequestsAreThere /\ TurnIsThere
        /\ rows \in Seq(Nat) /\ view \in Views /\ NoView \in Views /\ clearing \in Nat
    BY DEF ChatInv, RowsAreThere, ChatTypes, NoView, Views
  <1>1. CASE Speaking
    <2>1. /\ GoesOn /\ RequestsAreThere' /\ torn' \in BOOLEAN
          /\ <<liveEpoch, turn, clearing, view, hushed>>' = <<liveEpoch, turn, clearing, view, hushed>>
      BY <1>0, <1>1, Speaks
    <2>2. TurnIsThere' /\ RollsNothing
      BY <1>0, <2>1, TurnStays DEF GoesOn, RollsNothing
    <2>3. RowsAreThere' /\ RollsAreTold' /\ DeltasAreRetired' /\ ViewOK' /\ NothingFallsBetween'
      BY <1>0, <2>1, <2>2, RowsGoOnBeing, RollsGoOn, DeltasGoOn, ViewStands, NothingStillFalls
    <2>4. ChatTypes'
      BY <1>0, <2>1, LogGrows DEF ChatTypes
    <2>5. QED
      BY <2>3, <2>4 DEF ChatInv
  <1>2. CASE Turning
    <2>1. /\ GoesOn /\ TurnIsThere' /\ torn' \in BOOLEAN /\ RollsNothing
          /\ <<liveEpoch, speakers, clearing, view, hushed>>' = <<liveEpoch, speakers, clearing, view, hushed>>
      BY <1>0, <1>2, LoopTurns
    <2>2. RequestsAreThere'
      BY <1>0, <2>1, SpeakersStay DEF GoesOn
    <2>3. RowsAreThere' /\ RollsAreTold' /\ DeltasAreRetired' /\ ViewOK' /\ NothingFallsBetween'
      BY <1>0, <2>1, <2>2, RowsGoOnBeing, RollsGoOn, DeltasGoOn, ViewStands, NothingStillFalls
    <2>4. ChatTypes'
      BY <1>0, <2>1, LogGrows DEF ChatTypes
    <2>5. QED
      BY <2>3, <2>4 DEF ChatInv
  <1>3. CASE Rolling
    <2>1. /\ GoesOn /\ TurnIsThere' /\ torn' = torn /\ RollsAreTold'
          /\ liveEpoch' \in Nat \ {0} /\ clearing' \in Nat /\ <<speakers, view>>' = <<speakers, view>>
      BY <1>0, <1>3, EpochsRoll
    <2>2. RequestsAreThere'
      BY <1>0, <2>1, SpeakersStay DEF GoesOn
    <2>3. RowsAreThere' /\ DeltasAreRetired' /\ ViewOK' /\ NothingFallsBetween'
      BY <1>0, <2>1, <2>2, RowsGoOnBeing, DeltasGoOn, ViewStands, NothingStillFalls
    <2>4. ChatTypes'
      BY <1>0, <2>1, LogGrows DEF ChatTypes
    <2>5. QED
      BY <2>1, <2>3, <2>4 DEF ChatInv
  <1>4. CASE Looking
    <2>1. /\ view' \in Views /\ ViewOK' /\ NothingFallsBetween'
          /\ <<liveEpoch, rows, log, speakers, turn, clearing, hushed, torn>>'
               = <<liveEpoch, rows, log, speakers, turn, clearing, hushed, torn>>
      BY <1>0, <1>4, PageReads
    <2>2. ChatTypes' /\ RowsAreThere' /\ RollsAreTold' /\ DeltasAreRetired'
      <3>1. ChatTypes'
        BY <1>0, <2>1 DEF ChatTypes
      <3>2. RowsAreThere'
        BY <1>0, <2>1 DEF RowsAreThere, RequestsAreThere, TurnIsThere
      <3>3. RollsAreTold'
        BY <1>0, <2>1 DEF RollsAreTold, BeingTold, Told
      <3>4. DeltasAreRetired'
        BY <1>0, <2>1 DEF DeltasAreRetired, RetiredAfter
      <3>5. QED
        BY <3>1, <3>2, <3>3, <3>4
    <2>3. QED
      BY <2>1, <2>2 DEF ChatInv
  <1>5. CASE KillServer
    <2>1. /\ GoesOn /\ TurnIsThere' /\ RequestsAreThere' /\ torn' \in BOOLEAN /\ RollsAreTold'
          /\ <<liveEpoch, rows, log>>' = <<liveEpoch, rows, log>> /\ clearing' \in Nat
          /\ view' = view \/ view' = NoView
      BY <1>0, <1>5, ServerKilled
    <2>2. RowsAreThere' /\ DeltasAreRetired' /\ Len(log') \in Nat
      BY <1>0, <2>1, RowsGoOnBeing, DeltasGoOn, LogGrows
    <2>3. ViewOK' /\ NothingFallsBetween'
      BY <1>0, <2>1, <2>2, ViewStands, NothingStillFalls, NothingRead
    <2>4. ChatTypes'
      BY <1>0, <2>1 DEF ChatTypes
    <2>5. QED
      BY <2>1, <2>2, <2>3, <2>4 DEF ChatInv
  <1>6. CASE UNCHANGED chatVars
    BY <1>0, <1>6 DEF chatVars, ChatInv, ChatTypes, RowsAreThere, RequestsAreThere, TurnIsThere,
       RollsAreTold, BeingTold, Told, DeltasAreRetired, RetiredAfter, ViewOK, NothingFallsBetween
  <1>7. QED
    BY <1>1, <1>2, <1>3, <1>4, <1>5, <1>6, ChatSteps

LEMMA ChatHolds == ChatSpec => []ChatInv
  BY ChatBegins, ChatGoesOn, PTL DEF ChatSpec

(* No message of its epoch falls between what a page rendered and what the *)
(* stream brought it.                                                      *)
THEOREM MessagesAreShown == ChatSpec => []NothingFallsBetween
  <1>1. ChatInv => NothingFallsBetween
    BY DEF ChatInv
  <1>2. QED
    BY <1>1, ChatHolds, PTL

(* A page with a closed epoch, and no reload coming, is explained by the   *)
(* order of its reads or a failure.                                        *)
THEOREM OldEpochsAreExplained == ChatSpec => []OldEpochHasACause
  <1>1. ChatInv => OldEpochHasACause
    <2> SUFFICES ASSUME ChatInv, view.pc = "live", view.epoch # 0, ~view.reload,
                        NEW e \in (view.epoch + 1)..liveEpoch, e \notin hushed, ~BeingTold(e)
                 PROVE  \E i \in DOMAIN log :
                          /\ log[i] = Event("epoch.changed", "none", e)
                          /\ \/ view.from < i /\ i <= view.asOf
                             \/ view.resume < i
      BY DEF OldEpochHasACause
    <2>1. /\ view.epoch \in Nat /\ liveEpoch \in Nat /\ view.from \in Nat /\ view.asOf \in Nat
          /\ view.resume \in Nat /\ Len(log) \in Nat /\ DOMAIN log = 1..Len(log)
      BY LenProperties DEF ChatInv, ChatTypes, Views
    <2>2. e \in 2..liveEpoch /\ e > view.epoch
      BY <2>1
    <2>3. PICK i \in DOMAIN log : log[i] = Event("epoch.changed", "none", e)
      BY <2>2 DEF ChatInv, RollsAreTold, Told
    <2>4. log[i].type = "epoch.changed" /\ log[i].of = e /\ Reloads(log[i])
      BY <2>3 DEF Event, Reloads
    <2>5. ~(i <= view.from)
      <3>1. i \in 1..view.from => log[i].of <= view.epoch
        BY <2>4 DEF ChatInv, ViewOK
      <3>2. QED
        BY <2>1, <2>2, <2>4, <3>1
    <2>6. i \notin (view.asOf + 1)..view.resume
      BY <2>4 DEF ChatInv, ViewOK
    <2>7. QED
      BY <2>1, <2>3, <2>5, <2>6
  <1>2. QED
    BY <1>1, ChatHolds, PTL

(* Half an answer on a page that has all events is one that goes on, or    *)
(* one that was torn.                                                      *)
THEOREM HalfAnswersEnd == ChatSpec => []HalfAnswerIsUnderWay
  <1>1. ChatInv => HalfAnswerIsUnderWay
    <2> SUFFICES ASSUME ChatInv, UpToDate, view.bubble PROVE turn.text \/ torn
      BY DEF HalfAnswerIsUnderWay
    <2>1. turn.text \/ torn \/ RetiredAfter(Len(log))
      BY DEF ChatInv, ViewOK, UpToDate
    <2>2. ~RetiredAfter(Len(log))
      BY LenProperties DEF RetiredAfter, ChatInv, ChatTypes
    <2>3. QED
      BY <2>1, <2>2
  <1>2. QED
    BY <1>1, ChatHolds, PTL
=============================================================================
