------------------------- MODULE ConversationProofs -------------------------
(***************************************************************************)
(* Conversation for any number of senders, epochs, messages, calls and     *)
(* slips.                                                                  *)
(*                                                                         *)
(* Two invariants, of the replies in the table and of the operator's words *)
(* on their way to the model.  Both look at the table as a sequence, and   *)
(* the first lemmas say what one more message changes in it.               *)
(***************************************************************************)
EXTENDS Conversation, SequenceTheorems, TLAPS

Kinds == {"user", "turn", "reply", "summary"}
Entry == [epoch: Nat, kind: Kinds, of: Nat, n: Nat, covers: SUBSET Nat]
LoopPC == {"off", "check", "model", "next", "reply", "turned", "ending", "roll", "summary"}
LoopState == [pc: LoopPC, epoch: Nat, turn: Nat, done: Nat, draft: SUBSET Nat]
Ops == {"none", "say", "approve", "reject"}
SenderState == [pc: {"idle", "append", "launch"}, op: Ops, epoch: Nat, msg: Nat]

ConversationTypeOK ==
  /\ epoch \in Nat
  /\ messages \in Seq(Entry)
  /\ loop \in LoopState
  /\ senders \in [Senders -> SenderState]

(* The table with one more message.                                        *)
LEMMA AppendGrows ==
  ASSUME NEW ms \in Seq(Entry), NEW x \in Entry
  PROVE  /\ Append(ms, x) \in Seq(Entry) /\ Len(ms) \in Nat
         /\ DOMAIN ms = 1..Len(ms)
         /\ DOMAIN Append(ms, x) = 1..(Len(ms) + 1)
         /\ \A i \in 1..Len(ms) : Append(ms, x)[i] = ms[i]
         /\ Append(ms, x)[Len(ms) + 1] = x
  <1>1. /\ Append(ms, x) \in Seq(Entry) /\ Len(Append(ms, x)) = Len(ms) + 1
        /\ \A i \in 1..Len(ms) : Append(ms, x)[i] = ms[i]
        /\ Append(ms, x)[Len(ms) + 1] = x
    BY AppendProperties
  <1>2. Len(ms) \in Nat /\ DOMAIN ms = 1..Len(ms)
        /\ DOMAIN Append(ms, x) = 1..Len(Append(ms, x))
    BY <1>1, LenProperties
  <1>3. QED
    BY <1>1, <1>2

LEMMA MessageIsEntry ==
  ASSUME NEW e \in Nat, NEW kind \in Kinds
  PROVE  Message(e, kind) \in Entry /\ Message(e, kind).epoch = e /\ Message(e, kind).kind = kind
  BY DEF Message, Entry

LEMMA EntriesAreThere ==
  ASSUME ConversationTypeOK
  PROVE  /\ Len(messages) \in Nat /\ Numbers = 1..Len(messages)
         /\ \A i \in Numbers : messages[i] \in Entry
  BY LenProperties, ElementOfSeq DEF ConversationTypeOK, Numbers

-----------------------------------------------------------------------------
(* Replies.                                                                *)

(* The calls of turn t that have a reply in ms.                            *)
Answered(ms, t) == {ms[i].n : i \in {k \in DOMAIN ms : ms[k].kind = "reply" /\ ms[k].of = t}}

LEMMA AnsweredAppend ==
  ASSUME NEW ms \in Seq(Entry), NEW x \in Entry, NEW t
  PROVE  Answered(Append(ms, x), t)
           = IF x.kind = "reply" /\ x.of = t THEN Answered(ms, t) \cup {x.n} ELSE Answered(ms, t)
  <1> DEFINE mt == Append(ms, x)
  <1>1. /\ Len(ms) \in Nat /\ DOMAIN ms = 1..Len(ms) /\ DOMAIN mt = 1..(Len(ms) + 1)
        /\ \A i \in 1..Len(ms) : mt[i] = ms[i]
        /\ mt[Len(ms) + 1] = x
    BY AppendGrows
  <1> HIDE DEF mt
  <1>2. Answered(ms, t) \subseteq Answered(mt, t)
    BY <1>1 DEF Answered
  <1>3. x.kind = "reply" /\ x.of = t => x.n \in Answered(mt, t)
    BY <1>1 DEF Answered
  <1>4. ASSUME NEW c \in Answered(mt, t), ~(x.kind = "reply" /\ x.of = t /\ c = x.n)
        PROVE  c \in Answered(ms, t)
    <2>1. PICK i \in DOMAIN mt : mt[i].kind = "reply" /\ mt[i].of = t /\ c = mt[i].n
      BY DEF Answered
    <2>2. i # Len(ms) + 1
      BY <1>1, <1>4, <2>1
    <2>3. i \in DOMAIN ms /\ mt[i] = ms[i]
      BY <1>1, <2>2
    <2>4. QED
      BY <2>1, <2>3 DEF Answered
  <1>5. QED
    BY <1>2, <1>3, <1>4 DEF mt

(* A reply stands behind its turn, in its epoch, and is the only one to its*)
(* call.                                                                   *)
PlacedOK ==
  /\ \A i \in Numbers : messages[i].kind = "reply" =>
       /\ messages[i].of \in Numbers /\ messages[i].of < i
       /\ messages[messages[i].of].epoch = messages[i].epoch
  /\ \A i, j \in Numbers :
       /\ messages[i].kind = "reply" /\ messages[j].kind = "reply"
       /\ messages[i].of = messages[j].of /\ messages[i].n = messages[j].n
       => i = j

(* The loop answers the calls of its turn one after the other.             *)
BatchOK ==
  /\ AtLoop("model") => loop.done = 0
  /\ loop.pc \in {"next", "reply"} =>
       /\ loop.turn \in Numbers /\ messages[loop.turn].kind = "turn"
       /\ messages[loop.turn].epoch = loop.epoch
       /\ loop.done < messages[loop.turn].n
       /\ Answered(messages, loop.turn) = 1..loop.done

CutOK ==
  \A t \in Numbers : messages[t].kind = "turn" =>
    \/ Answered(messages, t) = 1..messages[t].n
    \/ t \in cut
    \/ loop.turn = t /\ loop.pc \in {"next", "reply"}

BatchInv == ConversationTypeOK /\ PlacedOK /\ BatchOK /\ CutOK

LEMMA BatchInit == ConversationInit => BatchInv
  BY DEF ConversationInit, BatchInv, ConversationTypeOK, PlacedOK, BatchOK, CutOK, Numbers,
     NoLoop, NoSender, LoopState, LoopPC, SenderState, Ops, AtLoop

(* The batch that is under way ends, and says so when it is cut.           *)
LEMMA BatchEnds ==
  ASSUME BatchInv, ConversationTypeOK', UNCHANGED messages,
         loop'.pc \notin {"next", "reply"}, loop'.pc = "model" => loop'.done = 0,
         BatchCut \subseteq cut'
  PROVE  BatchInv'
  <1>1. PlacedOK' /\ BatchOK'
    BY DEF BatchInv, PlacedOK, BatchOK, Numbers, AtLoop
  <1>2. CutOK'
    BY DEF BatchInv, CutOK, BatchCut, Numbers
  <1>3. QED
    BY <1>1, <1>2 DEF BatchInv

(* The batch stays at the same call.                                       *)
LEMMA BatchStays ==
  ASSUME BatchInv, ConversationTypeOK', UNCHANGED <<messages, cut>>,
         \/ UNCHANGED loop
         \/ /\ loop.pc \in {"next", "reply"} /\ loop'.pc \in {"next", "reply"}
            /\ loop'.turn = loop.turn /\ loop'.epoch = loop.epoch /\ loop'.done = loop.done
  PROVE  BatchInv'
  BY DEF BatchInv, PlacedOK, BatchOK, CutOK, Numbers, AtLoop

(* What is appended is no reply: the old turns keep their replies, and the *)
(* new message has none.                                                   *)
LEMMA PlacedAppend ==
  ASSUME BatchInv, NEW x \in Entry, messages' = Append(messages, x), x.kind # "reply"
  PROVE  /\ PlacedOK'
         /\ \A t : Answered(messages', t) = Answered(messages, t)
         /\ Answered(messages', Len(messages) + 1) = {}
  <1>1. /\ messages \in Seq(Entry) /\ Len(messages) \in Nat /\ Numbers = 1..Len(messages)
        /\ Numbers' = 1..(Len(messages) + 1)
        /\ \A i \in Numbers : messages'[i] = messages[i]
        /\ messages'[Len(messages) + 1] = x
    BY AppendGrows DEF BatchInv, ConversationTypeOK, Numbers
  <1>2. \A i \in Numbers' : messages'[i].kind = "reply" => i \in Numbers /\ messages'[i] = messages[i]
    BY <1>1
  <1>3. PlacedOK'
    <2>1. ASSUME NEW i \in Numbers', messages'[i].kind = "reply"
          PROVE  /\ messages'[i].of \in Numbers' /\ messages'[i].of < i
                 /\ messages'[messages'[i].of].epoch = messages'[i].epoch
      <3>1. i \in Numbers /\ messages'[i] = messages[i]
        BY <1>2, <2>1
      <3>2. /\ messages[i].of \in Numbers /\ messages[i].of < i
            /\ messages[messages[i].of].epoch = messages[i].epoch
        BY <2>1, <3>1 DEF BatchInv, PlacedOK
      <3>3. QED
        BY <1>1, <3>1, <3>2
    <2>2. ASSUME NEW i \in Numbers', NEW j \in Numbers',
                 messages'[i].kind = "reply", messages'[j].kind = "reply",
                 messages'[i].of = messages'[j].of, messages'[i].n = messages'[j].n
          PROVE  i = j
      BY <1>2, <2>2 DEF BatchInv, PlacedOK
    <2>3. QED
      BY <2>1, <2>2 DEF PlacedOK
  <1>4. \A t : Answered(messages', t) = Answered(messages, t)
    BY <1>1, AnsweredAppend
  <1>5. Answered(messages, Len(messages) + 1) = {}
    BY <1>1 DEF Answered, BatchInv, PlacedOK, Numbers
  <1>6. QED
    BY <1>3, <1>4, <1>5

LEMMA OtherAppended ==
  ASSUME BatchInv, ConversationTypeOK', UNCHANGED cut,
         NEW x \in Entry, messages' = Append(messages, x), x.kind \in {"user", "summary"},
         \/ UNCHANGED loop
         \/ loop.pc \notin {"next", "reply"} /\ loop'.pc \notin {"next", "reply", "model"}
  PROVE  BatchInv'
  <1>1. /\ PlacedOK' /\ \A t : Answered(messages', t) = Answered(messages, t)
    BY PlacedAppend
  <1>2. /\ Len(messages) \in Nat /\ Numbers = 1..Len(messages)
        /\ Numbers' = 1..(Len(messages) + 1)
        /\ \A i \in Numbers : messages'[i] = messages[i]
        /\ messages'[Len(messages) + 1] = x
    BY AppendGrows DEF BatchInv, ConversationTypeOK, Numbers
  <1>3. BatchOK'
    BY <1>1, <1>2 DEF BatchInv, BatchOK, AtLoop
  <1>4. CutOK'
    <2> SUFFICES ASSUME NEW t \in Numbers', messages'[t].kind = "turn"
                 PROVE  \/ Answered(messages', t) = 1..messages'[t].n
                        \/ t \in cut'
                        \/ loop'.turn = t /\ loop'.pc \in {"next", "reply"}
      BY DEF CutOK
    <2>1. t \in Numbers /\ messages'[t] = messages[t]
      BY <1>2
    <2>2. QED
      BY <1>1, <2>1 DEF BatchInv, CutOK
  <1>5. QED
    BY <1>1, <1>3, <1>4 DEF BatchInv

LEMMA TurnRecorded ==
  ASSUME BatchInv, ConversationTypeOK', NEW n \in 0..MaxCalls, RecordTurn(n)
  PROVE  BatchInv'
  <1> DEFINE x == [Message(loop.epoch, "turn") EXCEPT !.n = n]
             t0 == Len(messages) + 1
  <1>1. /\ x \in Entry /\ x.kind = "turn" /\ x.n = n /\ x.epoch = loop.epoch /\ n \in Nat
        /\ messages' = Append(messages, x)
    <2>1. loop.epoch \in Nat /\ n \in Nat
      BY ConversationAssumption DEF BatchInv, ConversationTypeOK, LoopState
    <2>2. x = [epoch |-> loop.epoch, kind |-> "turn", of |-> 0, n |-> n, covers |-> {}]
      BY DEF Message
    <2>3. messages' = Append(messages, x)
      BY DEF RecordTurn, AppendMessage
    <2> HIDE DEF x
    <2>4. QED
      BY <2>1, <2>2, <2>3 DEF Entry, Kinds
  <1> HIDE DEF x
  <1>2. /\ PlacedOK' /\ \A t : Answered(messages', t) = Answered(messages, t)
        /\ Answered(messages', t0) = {}
    BY <1>1, PlacedAppend
  <1>3. /\ Len(messages) \in Nat /\ Numbers = 1..Len(messages) /\ Numbers' = 1..t0
        /\ \A i \in Numbers : messages'[i] = messages[i]
        /\ messages'[t0] = x
    BY <1>1, AppendGrows DEF BatchInv, ConversationTypeOK, Numbers
  <1>4. /\ loop.pc = "model" /\ loop.done = 0
        /\ loop'.turn = t0 /\ loop'.epoch = loop.epoch /\ loop'.done = 0
        /\ loop'.pc = IF n = 0 THEN "ending" ELSE "next"
        /\ cut' = cut
    BY DEF RecordTurn, BatchInv, BatchOK, AtLoop, ConversationTypeOK, LoopState
  <1>5. BatchOK'
    <2>1. ASSUME loop'.pc \in {"next", "reply"}
          PROVE  /\ loop'.turn \in Numbers' /\ messages'[loop'.turn].kind = "turn"
                 /\ messages'[loop'.turn].epoch = loop'.epoch
                 /\ loop'.done < messages'[loop'.turn].n
                 /\ Answered(messages', loop'.turn) = 1..loop'.done
      <3>1. n > 0
        BY <1>1, <1>4, <2>1
      <3>2. 1..0 = {}
        OBVIOUS
      <3>3. QED
        BY <1>1, <1>2, <1>3, <1>4, <3>1, <3>2
    <2>2. QED
      BY <1>4, <2>1 DEF BatchOK, AtLoop
  <1>6. CutOK'
    <2> SUFFICES ASSUME NEW t \in Numbers', messages'[t].kind = "turn"
                 PROVE  \/ Answered(messages', t) = 1..messages'[t].n
                        \/ t \in cut'
                        \/ loop'.turn = t /\ loop'.pc \in {"next", "reply"}
      BY DEF CutOK
    <2>1. CASE t \in Numbers
      BY <1>2, <1>3, <1>4, <2>1 DEF BatchInv, CutOK
    <2>2. CASE t = t0 /\ n = 0
      <3>1. 1..0 = {}
        OBVIOUS
      <3>2. QED
        BY <1>1, <1>2, <1>3, <2>2, <3>1
    <2>3. CASE t = t0 /\ n # 0
      BY <1>4, <2>3
    <2>4. QED
      BY <1>3, <2>1, <2>2, <2>3
  <1>7. QED
    BY <1>2, <1>5, <1>6 DEF BatchInv

LEMMA ReplyRecorded ==
  ASSUME BatchInv, ConversationTypeOK', RecordReply
  PROVE  BatchInv'
  <1> DEFINE x == [Message(ReplyEpoch, "reply") EXCEPT !.of = loop.turn, !.n = loop.done + 1]
             i0 == Len(messages) + 1
             t0 == loop.turn
             d == loop.done + 1
  <1>1. /\ x \in Entry /\ x.kind = "reply" /\ x.of = t0 /\ x.n = d
        /\ x.epoch = loop.epoch /\ messages' = Append(messages, x)
    BY DEF RecordReply, AppendMessage, Message, ReplyEpoch, Entry, Kinds, BatchInv,
           ConversationTypeOK, LoopState
  <1> HIDE DEF x
  <1>2. /\ messages \in Seq(Entry) /\ Len(messages) \in Nat
        /\ Numbers = 1..Len(messages) /\ Numbers' = 1..i0
        /\ \A i \in Numbers : messages'[i] = messages[i]
        /\ messages'[i0] = x
    BY <1>1, AppendGrows DEF BatchInv, ConversationTypeOK, Numbers
  <1>3. /\ t0 \in Numbers /\ messages[t0].kind = "turn" /\ messages[t0].epoch = loop.epoch
        /\ loop.done \in Nat /\ loop.done < messages[t0].n
        /\ Answered(messages, t0) = 1..loop.done
        /\ messages[t0] \in Entry
    BY EntriesAreThere
       DEF RecordReply, AtLoop, BatchInv, BatchOK, ConversationTypeOK, LoopState
  <1>4. /\ loop'.turn = t0 /\ loop'.epoch = loop.epoch /\ loop'.done = d
        /\ loop'.pc = (IF d = messages[t0].n THEN "turned" ELSE "next")
        /\ cut' = cut
    BY DEF RecordReply, CallDone, BatchInv, ConversationTypeOK, LoopState
  <1>5. \A t : Answered(messages', t) = IF t = t0 THEN 1..d ELSE Answered(messages, t)
    <2>1. 1..d = (1..loop.done) \cup {d}
      BY <1>3
    <2>2. ASSUME NEW t
          PROVE  Answered(messages', t)
                   = IF t0 = t THEN Answered(messages, t) \cup {d} ELSE Answered(messages, t)
      BY <1>1, <1>2, AnsweredAppend
    <2>3. QED
      BY <1>3, <2>1, <2>2
  <1>6. PlacedOK'
    <2>1. ASSUME NEW i \in Numbers', messages'[i].kind = "reply"
          PROVE  /\ messages'[i].of \in Numbers' /\ messages'[i].of < i
                 /\ messages'[messages'[i].of].epoch = messages'[i].epoch
      <3>1. CASE i = i0
        BY <1>1, <1>2, <1>3, <3>1
      <3>2. CASE i \in Numbers
        <4>1. /\ messages[i].of \in Numbers /\ messages[i].of < i
              /\ messages[messages[i].of].epoch = messages[i].epoch
          BY <1>2, <2>1, <3>2 DEF BatchInv, PlacedOK
        <4>2. QED
          BY <1>2, <3>2, <4>1
      <3>3. QED
        BY <1>2, <3>1, <3>2
    <2>2. ASSUME NEW i \in Numbers, messages[i].kind = "reply", messages[i].of = t0
          PROVE  messages[i].n # d
      <3>1. messages[i].n \in 1..loop.done
        BY <1>3, <2>2 DEF Answered, Numbers
      <3>2. QED
        BY <1>3, <3>1
    <2>3. ASSUME NEW i \in Numbers', NEW j \in Numbers',
                 messages'[i].kind = "reply", messages'[j].kind = "reply",
                 messages'[i].of = messages'[j].of, messages'[i].n = messages'[j].n
          PROVE  i = j
      <3>1. CASE i \in Numbers /\ j \in Numbers
        BY <1>2, <2>3, <3>1 DEF BatchInv, PlacedOK
      <3>2. CASE i = i0 /\ j \in Numbers
        BY <1>1, <1>2, <2>2, <2>3, <3>2
      <3>3. CASE j = i0 /\ i \in Numbers
        BY <1>1, <1>2, <2>2, <2>3, <3>3
      <3>4. QED
        BY <1>2, <3>1, <3>2, <3>3
    <2>4. QED
      BY <2>1, <2>3 DEF PlacedOK
  <1>7. BatchOK'
    <2>1. ASSUME loop'.pc = "next"
          PROVE  /\ loop'.turn \in Numbers' /\ messages'[loop'.turn].kind = "turn"
                 /\ messages'[loop'.turn].epoch = loop'.epoch
                 /\ loop'.done < messages'[loop'.turn].n
                 /\ Answered(messages', loop'.turn) = 1..loop'.done
      <3>1. d # messages[t0].n /\ messages[t0].n \in Nat
        BY <1>3, <1>4, <2>1 DEF Entry
      <3>2. d < messages[t0].n
        BY <1>3, <3>1
      <3>3. t0 \in Numbers' /\ messages'[t0] = messages[t0]
        BY <1>2, <1>3
      <3>4. QED
        BY <1>3, <1>4, <1>5, <3>2, <3>3
    <2>2. QED
      BY <1>4, <2>1 DEF BatchOK, AtLoop
  <1>8. CutOK'
    <2> SUFFICES ASSUME NEW t \in Numbers', messages'[t].kind = "turn"
                 PROVE  \/ Answered(messages', t) = 1..messages'[t].n
                        \/ t \in cut'
                        \/ loop'.turn = t /\ loop'.pc \in {"next", "reply"}
      BY DEF CutOK
    <2>1. t \in Numbers /\ messages'[t] = messages[t]
      BY <1>1, <1>2
    <2>2. CASE t = t0
      BY <1>4, <1>5, <2>1, <2>2
    <2>3. CASE t # t0
      BY <1>4, <1>5, <2>1, <2>3 DEF BatchInv, CutOK
    <2>4. QED
      BY <2>2, <2>3
  <1>9. QED
    BY <1>6, <1>7, <1>8 DEF BatchInv

-----------------------------------------------------------------------------
(* A request begins with an epoch that is or was the current one.          *)
LEMMA RequestAsks ==
  ASSUME ConversationTypeOK, NEW s \in Senders, NEW op \in {"approve", "reject"},
         ReadEpoch(s) \/ DecidePlan(s, op)
  PROVE  \E o \in Ops, e \in Nat :
           Asks(s, o, e) /\ (e = epoch \/ \E i \in Numbers : e = messages[i].epoch)
  <1>1. CASE ReadEpoch(s)
    BY <1>1 DEF ReadEpoch, ConversationTypeOK, Ops
  <1>2. CASE DecidePlan(s, op)
    <2>1. PICK i \in Numbers : Asks(s, op, messages[i].epoch)
      BY <1>2 DEF DecidePlan
    <2>2. messages[i].epoch \in Nat
      BY EntriesAreThere DEF Entry
    <2>3. QED
      BY <2>1, <2>2 DEF Ops
  <1>3. QED
    BY <1>1, <1>2

(* Every action keeps the type.                                            *)

LEMMA UsersAreNumbers ==
  ASSUME ConversationTypeOK, NEW e
  PROVE  /\ Users(e) \in SUBSET Nat /\ Known(e) \in SUBSET Nat
  <1>1. Numbers \subseteq Nat /\ \A i \in Numbers : messages[i].covers \in SUBSET Nat
    BY EntriesAreThere DEF Entry
  <1>2. QED
    BY <1>1 DEF Users, Known, InEpoch, Summaries

LEMMA TypeOfBreaks ==
  ASSUME ConversationTypeOK, UNCHANGED <<epoch, messages>>,
         UNCHANGED senders \/ senders' = [s \in Senders |-> NoSender],
         loop' = NoLoop \/ loop' = [NoLoop EXCEPT !.pc = "check"] \/ UNCHANGED loop
  PROVE  ConversationTypeOK'
  <1>1. NoLoop \in LoopState /\ [NoLoop EXCEPT !.pc = "check"] \in LoopState
    BY DEF NoLoop, LoopState, LoopPC
  <1>2. NoSender \in SenderState
    BY DEF NoSender, SenderState, Ops
  <1>3. QED
    BY <1>1, <1>2 DEF ConversationTypeOK

LEMMA TypePreserved ==
  ASSUME ConversationTypeOK, [ConversationNext]_conversationVars
  PROVE  ConversationTypeOK'
  <1> USE DEF ConversationTypeOK
  <1>0. /\ loop \in LoopState /\ epoch \in Nat /\ messages \in Seq(Entry)
        /\ Len(messages) \in Nat
        /\ loop = [pc |-> loop.pc, epoch |-> loop.epoch, turn |-> loop.turn,
                   done |-> loop.done, draft |-> loop.draft]
    BY EntriesAreThere DEF LoopState
  <1>1. ASSUME NEW s \in Senders, NEW op \in {"approve", "reject"},
               ReadEpoch(s) \/ DecidePlan(s, op)
        PROVE  ConversationTypeOK'
    <2>1. PICK o \in Ops, e \in Nat : Asks(s, o, e)
      BY <1>1, RequestAsks
    <2>2. QED
      BY <2>1 DEF Asks, SenderState
  <1>2. ASSUME NEW s \in Senders, RecordMessage(s) PROVE ConversationTypeOK'
    <2>1. /\ senders[s] \in SenderState
          /\ senders[s] = [pc |-> senders[s].pc, op |-> senders[s].op, epoch |-> senders[s].epoch,
                           msg |-> senders[s].msg]
      BY DEF SenderState
    <2>2. Message(senders[s].epoch, "user") \in Entry
      BY <2>1, MessageIsEntry DEF SenderState, Kinds
    <2>3. messages' \in Seq(Entry)
      BY <1>0, <1>2, <2>2, AppendGrows DEF RecordMessage, AppendMessage
    <2>4. ASSUME senders' = [senders EXCEPT ![s].pc = "launch", ![s].msg = Len(messages) + 1]
          PROVE  senders' \in [Senders -> SenderState]
      <3>1. senders'[s] = [pc |-> "launch", op |-> senders[s].op, epoch |-> senders[s].epoch,
                           msg |-> Len(messages) + 1]
        BY <2>1, <2>4
      <3>2. senders'[s] \in SenderState
        BY <1>0, <2>1, <3>1 DEF SenderState
      <3>3. /\ senders' = [q \in Senders |-> senders'[q]]
            /\ \A q \in Senders \ {s} : senders'[q] = senders[q]
        BY <2>4
      <3>4. \A q \in Senders : senders'[q] \in SenderState
        BY <3>2, <3>3
      <3>5. QED
        BY <3>3, <3>4
    <2>5. senders' \in [Senders -> SenderState]
      <3>1. NoSender \in SenderState
        BY DEF NoSender, SenderState, Ops
      <3>2. QED
        BY <1>2, <2>4, <3>1 DEF RecordMessage
    <2>6. QED
      BY <1>2, <2>3, <2>5 DEF RecordMessage
  <1>3. ASSUME NEW s \in Senders, LaunchLoop(s) PROVE ConversationTypeOK'
    <2>1. senders' \in [Senders -> SenderState]
      BY <1>3 DEF LaunchLoop, NoSender, SenderState, Ops
    <2>2. loop' \in LoopState
      BY <1>3 DEF LaunchLoop, NoLoop, LoopState, LoopPC
    <2>3. QED
      BY <1>3, <2>1, <2>2 DEF LaunchLoop
  <1>4. CASE PauseRun \/ CancelRun \/ ClearCancels \/ RestartConversation \/ LoopFails
             \/ FinishLoop \/ CompactionFails
    BY <1>4, TypeOfBreaks
       DEF PauseRun, CancelRun, ClearCancels, RestartConversation, LoopFails, FinishLoop,
           CompactionFails, LoopEnds
  <1>5. CASE RollForClear
    BY <1>5 DEF RollForClear
  <1>6. CASE BeginTurn
    <2>1. NoLoop \in LoopState /\ [NoLoop EXCEPT !.pc = "model", !.epoch = epoch] \in LoopState
      BY <1>0 DEF NoLoop, LoopState, LoopPC
    <2>2. QED
      BY <1>6, <2>1 DEF BeginTurn, LoopEnds
  <1>7. ASSUME NEW n \in 0..MaxCalls, RecordTurn(n) PROVE ConversationTypeOK'
    <2>1. n \in Nat
      BY ConversationAssumption
    <2>2. [Message(loop.epoch, "turn") EXCEPT !.n = n] \in Entry
      BY <1>0, <2>1 DEF Message, Entry, Kinds, LoopState
    <2>3. messages' \in Seq(Entry)
      BY <1>0, <1>7, <2>2, AppendGrows DEF RecordTurn, AppendMessage
    <2>4. loop' \in LoopState
      <3>1. PICK p \in {"ending", "next"} :
              loop' = [loop EXCEPT !.pc = p, !.turn = Len(messages) + 1]
        BY <1>0, <1>7 DEF RecordTurn
      <3>2. loop' = [pc |-> p, epoch |-> loop.epoch, turn |-> Len(messages) + 1,
                    done |-> loop.done, draft |-> loop.draft]
        BY <1>0, <3>1
      <3>3. QED
        BY <1>0, <3>2 DEF LoopState, LoopPC
    <2>5. QED
      BY <1>7, <2>3, <2>4 DEF RecordTurn
  <1>8. CASE ExecuteOne
    BY <1>0, <1>8 DEF ExecuteOne, LoopTo, FailedCall, LoopEnds, NoLoop, LoopState, LoopPC
  <1>9. CASE RecordReply
    <2>1. [Message(ReplyEpoch, "reply") EXCEPT !.of = loop.turn, !.n = loop.done + 1] \in Entry
      <3>1. loop.epoch \in Nat /\ loop.turn \in Nat /\ loop.done + 1 \in Nat
        BY <1>0 DEF LoopState
      <3>2. QED
        BY <3>1 DEF Message, Entry, Kinds, ReplyEpoch
    <2>2. messages' \in Seq(Entry)
      BY <1>0, <1>9, <2>1, AppendGrows DEF RecordReply, AppendMessage
    <2>3. loop' \in LoopState
      <3>1. PICK p \in {"turned", "next"} :
              loop' = [loop EXCEPT !.done = loop.done + 1, !.pc = p]
        BY <1>0, <1>9 DEF RecordReply, CallDone
      <3>2. loop' = [pc |-> p, epoch |-> loop.epoch, turn |-> loop.turn,
                    done |-> loop.done + 1, draft |-> loop.draft]
        BY <1>0, <3>1
      <3>3. QED
        BY <1>0, <3>2 DEF LoopState, LoopPC
    <2>4. QED
      BY <1>9, <2>2, <2>3 DEF RecordReply
  <1>10. CASE AfterBatch
    BY <1>0, <1>10 DEF AfterBatch, LoopTo, LoopEnds, NoLoop, LoopState, LoopPC
  <1>11. CASE ReadTranscript
    <2>1. Transcript(loop.epoch) \in SUBSET Nat
      BY UsersAreNumbers DEF Transcript
    <2>2. QED
      BY <1>0, <1>11, <2>1 DEF ReadTranscript, LoopState, LoopPC
  <1>12. CASE RollForCompaction
    <2>1. epoch + 1 \in Nat
      BY <1>0
    <2>2. [loop EXCEPT !.pc = "summary", !.epoch = epoch + 1] \in LoopState
      BY <1>0, <2>1 DEF LoopState, LoopPC
    <2>3. QED
      BY <1>12, <2>1, <2>2 DEF RollForCompaction
  <1>13. CASE RecordSummary
    <2>1. [Message(loop.epoch, "summary") EXCEPT !.covers = loop.draft] \in Entry
      BY <1>0 DEF Message, Entry, Kinds, LoopState
    <2>2. messages' \in Seq(Entry)
      BY <1>0, <1>13, <2>1, AppendGrows DEF RecordSummary, AppendMessage
    <2>3. loop' \in LoopState
      BY <1>13 DEF RecordSummary, NoLoop, LoopState, LoopPC
    <2>4. QED
      BY <1>13, <2>2, <2>3 DEF RecordSummary
  <1>14. CASE UNCHANGED conversationVars
    BY <1>14 DEF conversationVars
  <1>15. QED
    BY <1>1, <1>2, <1>3, <1>4, <1>5, <1>6, <1>7, <1>8, <1>9, <1>10, <1>11, <1>12, <1>13, <1>14
       DEF ConversationNext

LEMMA BatchPreserved ==
  ASSUME BatchInv, [ConversationNext]_conversationVars
  PROVE  BatchInv'
  <1>0. ConversationTypeOK /\ ConversationTypeOK'
    BY TypePreserved DEF BatchInv
  <1>1. ASSUME NEW s \in Senders, NEW op \in {"approve", "reject"},
               ReadEpoch(s) \/ DecidePlan(s, op)
        PROVE  BatchInv'
    BY <1>0, <1>1, BatchStays DEF ReadEpoch, DecidePlan, Asks
  <1>2. ASSUME NEW s \in Senders, RecordMessage(s) PROVE BatchInv'
    <2>1. UNCHANGED <<loop, cut>>
      BY <1>2 DEF RecordMessage
    <2>2. CASE UNCHANGED messages
      BY <1>0, <2>1, <2>2, BatchStays
    <2>3. CASE AppendMessage(Message(senders[s].epoch, "user"))
      <3>1. senders[s].epoch \in Nat
        BY <1>0 DEF ConversationTypeOK, SenderState
      <3>2. QED
        BY <1>0, <2>1, <2>3, <3>1, MessageIsEntry, OtherAppended DEF AppendMessage, Kinds
    <2>4. QED
      BY <1>2, <2>2, <2>3 DEF RecordMessage
  <1>3. ASSUME NEW s \in Senders, LaunchLoop(s) PROVE BatchInv'
    <2>1. UNCHANGED messages
      BY <1>3 DEF LaunchLoop
    <2>2. CASE UNCHANGED <<loop, cut>>
      BY <1>0, <2>1, <2>2, BatchStays
    <2>3. CASE loop' = [NoLoop EXCEPT !.pc = "check"] /\ BatchStops
      BY <1>0, <2>1, <2>3, BatchEnds DEF NoLoop, BatchStops
    <2>4. QED
      BY <1>3, <2>2, <2>3 DEF LaunchLoop
  <1>4. CASE UNCHANGED messages /\ loop' = NoLoop /\ BatchStops
    BY <1>0, <1>4, BatchEnds DEF NoLoop, BatchStops
  <1>5. CASE CancelRun \/ ClearCancels \/ RestartConversation \/ LoopFails \/ FinishLoop
    BY <1>4, <1>5
       DEF CancelRun, ClearCancels, RestartConversation, LoopFails, FinishLoop, LoopEnds
  <1>6. CASE PauseRun \/ RollForClear \/ UNCHANGED conversationVars
    BY <1>0, <1>6, BatchStays DEF PauseRun, RollForClear, conversationVars
  <1>7. ASSUME UNCHANGED <<messages, cut>>, loop.pc \notin {"next", "reply"},
               loop'.pc \notin {"next", "reply"}, loop'.pc = "model" => loop'.done = 0
        PROVE  BatchInv'
    BY <1>0, <1>7, BatchEnds DEF BatchCut
  <1>8. CASE BeginTurn
    <2>1. CASE LoopEnds
      BY <1>4, <1>8, <2>1 DEF BeginTurn, LoopEnds
    <2>2. CASE loop' = [NoLoop EXCEPT !.pc = "model", !.epoch = epoch] /\ UNCHANGED cut
      <3>1. loop'.pc = "model" /\ loop'.done = 0
        BY <2>2 DEF NoLoop
      <3>2. QED
        BY <1>7, <1>8, <2>2, <3>1 DEF BeginTurn
    <2>3. QED
      BY <1>8, <2>1, <2>2 DEF BeginTurn
  <1>9. ASSUME NEW n \in 0..MaxCalls, RecordTurn(n) PROVE BatchInv'
    BY <1>0, <1>9, TurnRecorded
  <1>10. CASE ExecuteOne
    <2>1. CASE LoopEnds
      BY <1>4, <1>10, <2>1 DEF ExecuteOne, LoopEnds
    <2>2. CASE UNCHANGED cut /\ (LoopTo("reply") \/ loop' = FailedCall)
      <3>1. loop' = [loop EXCEPT !.pc = "reply"]
        BY <2>2 DEF LoopTo, FailedCall
      <3>2. loop.pc = "next" /\ UNCHANGED messages
        BY <1>10 DEF ExecuteOne, AtLoop
      <3>3. /\ loop'.pc = "reply" /\ loop'.turn = loop.turn /\ loop'.epoch = loop.epoch
            /\ loop'.done = loop.done
        BY <1>0, <3>1 DEF ConversationTypeOK, LoopState
      <3>4. QED
        BY <1>0, <2>2, <3>2, <3>3, BatchStays
    <2>3. QED
      BY <1>10, <2>1, <2>2 DEF ExecuteOne
  <1>11. CASE RecordReply
    BY <1>0, <1>11, ReplyRecorded
  <1>12. CASE AfterBatch
    <2>1. CASE LoopEnds
      BY <1>4, <1>12, <2>1 DEF AfterBatch, LoopEnds
    <2>2. CASE LoopTo("ending") /\ UNCHANGED cut
      <3>1. loop'.pc = "ending"
        BY <1>0, <2>2 DEF LoopTo, ConversationTypeOK, LoopState
      <3>2. QED
        BY <1>7, <1>12, <2>2, <3>1 DEF AfterBatch, AtLoop
    <2>3. QED
      BY <1>12, <2>1, <2>2 DEF AfterBatch
  <1>13. CASE ReadTranscript
    <2>1. loop'.pc = "roll"
      BY <1>0, <1>13 DEF ReadTranscript, ConversationTypeOK, LoopState
    <2>2. QED
      BY <1>7, <1>13, <2>1 DEF ReadTranscript, AtLoop
  <1>14. CASE RollForCompaction
    <2>1. loop'.pc = "summary"
      BY <1>0, <1>14 DEF RollForCompaction, ConversationTypeOK, LoopState
    <2>2. QED
      BY <1>7, <1>14, <2>1 DEF RollForCompaction, AtLoop
  <1>15. CASE RecordSummary
    <2> DEFINE x == [Message(loop.epoch, "summary") EXCEPT !.covers = loop.draft]
    <2>1. x \in Entry /\ x.kind = "summary"
      BY <1>0 DEF ConversationTypeOK, LoopState, Message, Entry, Kinds
    <2>2. messages' = Append(messages, x) /\ UNCHANGED cut /\ loop.pc = "summary" /\ loop'.pc = "check"
      BY <1>15 DEF RecordSummary, AppendMessage, AtLoop, NoLoop
    <2> HIDE DEF x
    <2>3. QED
      BY <1>0, <2>1, <2>2, OtherAppended
  <1>16. CASE CompactionFails
    BY <1>7, <1>16 DEF CompactionFails, NoLoop
  <1>17. QED
    BY <1>1, <1>2, <1>3, <1>5, <1>6, <1>8, <1>9, <1>10, <1>11, <1>12, <1>13, <1>14,
       <1>15, <1>16
       DEF ConversationNext

LEMMA BatchInvariant == ConversationSpec => []BatchInv
  <1>1. QED
    BY BatchInit, BatchPreserved, PTL DEF ConversationSpec

(* A reply stands in the epoch of its turn, behind it, whatever rolls the  *)
(* epoch and whoever else writes; and no call is answered twice.           *)
THEOREM RepliesStayWithTheirTurn == ConversationSpec => []RepliesFollowTheirTurn
  <1>1. BatchInv => RepliesFollowTheirTurn
    BY DEF BatchInv, PlacedOK, RepliesFollowTheirTurn, Turns, RepliesTo
  <1>2. QED
    BY <1>1, BatchInvariant, PTL

(* An unanswered call is one of a batch that was cut.                      *)
THEOREM UnansweredCallsWereCut == ConversationSpec => []UnansweredWasCut
  <1>1. ASSUME BatchInv PROVE UnansweredWasCut
    <2>1. \A t : AnsweredCalls(t) = Answered(messages, t)
      BY DEF AnsweredCalls, Answered, RepliesTo, Numbers
    <2>2. QED
      BY <1>1, <2>1 DEF BatchInv, CutOK, UnansweredWasCut, IsAnswered, Turns
  <1>2. QED
    BY <1>1, BatchInvariant, PTL

(* Both: what a turn asked for is answered behind it in its own epoch,     *)
(* once for each call, unless the batch was broken off.                    *)
THEOREM BatchesAreKept == ConversationSpec => []BatchIsKept
  <1>1. RepliesFollowTheirTurn /\ UnansweredWasCut => BatchIsKept
    BY DEF BatchIsKept
  <1>2. QED
    BY <1>1, RepliesStayWithTheirTurn, UnansweredCallsWereCut, PTL

-----------------------------------------------------------------------------
(* The operator's words.                                                   *)

(* What the messages ms of epoch e carry of them: Known of the table.      *)
KnownIn(ms, e) ==
  {i \in DOMAIN ms : ms[i].epoch = e /\ ms[i].kind = "user"}
    \cup UNION {ms[i].covers : i \in {k \in DOMAIN ms : ms[k].epoch = e /\ ms[k].kind = "summary"}}

(* Nobody is ahead of the epoch, and nobody refers to a message to come.   *)
EpochsOK ==
  /\ \A i \in Numbers : messages[i].epoch \leq epoch
  /\ \A s \in Senders : senders[s].epoch \leq epoch
  /\ loop.epoch \leq epoch

NumbersOK ==
  /\ \A i \in Numbers : messages[i].covers \subseteq Numbers
  /\ said \subseteq Numbers /\ due \subseteq Numbers
  /\ loop.draft \subseteq Numbers

(* A turn overtaken by another epoch finds no summary there, a draft has   *)
(* all that the summaries of the epoch to close cover, and a draft whose   *)
(* new epoch was closed in its turn has nothing said since.                *)
DraftOK ==
  /\ loop.pc \in {"model", "next", "reply", "turned"} /\ loop.epoch # epoch => Summaries(epoch) = {}
  /\ AtLoop("roll") => \A i \in Summaries(epoch) : messages[i].covers \subseteq loop.draft
  /\ AtLoop("summary") /\ loop.epoch # epoch => said \cap loop.draft = {}

(* What there was when a turn last began is accounted for, and while no    *)
(* loop is under way, so is the rest, unless a request is yet to start one.*)
WaitingOK ==
  /\ said \cap due \subseteq seen \cup missed
  /\ AtLoop("off") => said \ (seen \cup missed \cup late) \subseteq Held

TalkInv ==
  ConversationTypeOK /\ EpochsOK /\ NumbersOK /\ DraftOK /\ NothingIsForgotten /\ WaitingOK

LEMMA TalkInit == ConversationInit => TalkInv
  BY BatchInit
     DEF ConversationInit, BatchInv, TalkInv, EpochsOK, NumbersOK, DraftOK, NothingIsForgotten,
         WaitingOK, Held, Numbers, NoLoop, NoSender, AtLoop

LEMMA KnownIsKnownIn == \A e : Known(e) = KnownIn(messages, e)
  BY DEF Known, KnownIn, Users, Summaries, InEpoch, Numbers

LEMMA KnownAppend ==
  ASSUME NEW ms \in Seq(Entry), NEW x \in Entry, NEW e
  PROVE  /\ KnownIn(ms, e) \subseteq KnownIn(Append(ms, x), e)
         /\ x.epoch = e /\ x.kind = "user" => Len(ms) + 1 \in KnownIn(Append(ms, x), e)
         /\ x.epoch = e /\ x.kind = "summary" => x.covers \subseteq KnownIn(Append(ms, x), e)
  <1> DEFINE mt == Append(ms, x)
  <1>1. /\ Len(ms) \in Nat /\ DOMAIN ms = 1..Len(ms) /\ DOMAIN mt = 1..(Len(ms) + 1)
        /\ \A i \in 1..Len(ms) : mt[i] = ms[i]
        /\ mt[Len(ms) + 1] = x
    BY AppendGrows
  <1> HIDE DEF mt
  <1>2. DOMAIN ms \subseteq DOMAIN mt /\ Len(ms) + 1 \in DOMAIN mt
    BY <1>1
  <1>3. KnownIn(ms, e) \subseteq KnownIn(mt, e)
    BY <1>1, <1>2 DEF KnownIn
  <1>4. x.epoch = e /\ x.kind = "user" => Len(ms) + 1 \in KnownIn(mt, e)
    BY <1>1, <1>2 DEF KnownIn
  <1>5. x.epoch = e /\ x.kind = "summary" => x.covers \subseteq KnownIn(mt, e)
    BY <1>1, <1>2 DEF KnownIn
  <1>6. QED
    BY <1>3, <1>4, <1>5 DEF mt

(* One more message of an epoch that is open or was.                       *)
LEMMA TableGrows ==
  ASSUME TalkInv, NEW x \in Entry, messages' = Append(messages, x), UNCHANGED epoch,
         x.epoch \leq epoch, x.covers \subseteq Numbers
  PROVE  /\ Len(messages) \in Nat /\ Numbers = 1..Len(messages)
         /\ Numbers' = 1..(Len(messages) + 1) /\ Len(messages) + 1 \notin Numbers
         /\ \A i \in Numbers' : messages'[i].epoch \leq epoch'
         /\ \A i \in Numbers' : messages'[i].covers \subseteq Numbers
         /\ \A i \in Numbers : messages'[i] = messages[i]
         /\ x.kind # "summary" => Summaries(epoch)' = Summaries(epoch)
         /\ Known(epoch) \subseteq Known(epoch)'
         /\ x.epoch = epoch /\ x.kind = "user" => Len(messages) + 1 \in Known(epoch)'
         /\ x.epoch = epoch /\ x.kind = "summary" => x.covers \subseteq Known(epoch)'
  <1>1. /\ messages \in Seq(Entry) /\ Len(messages) \in Nat /\ Numbers = 1..Len(messages)
        /\ Numbers' = 1..(Len(messages) + 1)
        /\ \A i \in Numbers : messages'[i] = messages[i]
        /\ messages'[Len(messages) + 1] = x
    BY AppendGrows DEF TalkInv, ConversationTypeOK, Numbers
  <1>2. Len(messages) + 1 \notin Numbers
    BY <1>1
  <1>3. \A i \in Numbers' : messages'[i].epoch \leq epoch' /\ messages'[i].covers \subseteq Numbers
    BY <1>1 DEF TalkInv, EpochsOK, NumbersOK
  <1>4. x.kind # "summary" => Summaries(epoch)' = Summaries(epoch)
    BY <1>1 DEF Summaries, InEpoch
  <1>5. Known(epoch)' = KnownIn(messages', epoch) /\ Known(epoch) = KnownIn(messages, epoch)
    <2>1. Known(epoch)' = KnownIn(messages, epoch)'
      BY DEF Known, KnownIn, Users, Summaries, InEpoch, Numbers
    <2>2. KnownIn(messages, epoch)' = KnownIn(messages', epoch)
      BY DEF KnownIn
    <2>3. QED
      BY <2>1, <2>2, KnownIsKnownIn
  <1>6. QED
    BY <1>1, <1>2, <1>3, <1>4, <1>5, KnownAppend

(* A new epoch is empty.                                                   *)
LEMMA EpochOpens ==
  ASSUME TalkInv, UNCHANGED messages, epoch' = epoch + 1
  PROVE  /\ Summaries(epoch)' = {} /\ Numbers' = Numbers
         /\ \A i \in Numbers : messages[i].epoch \leq epoch'
         /\ \A s \in Senders : senders[s].epoch \leq epoch'
         /\ loop.epoch \leq epoch'
  <1>1. /\ epoch \in Nat /\ loop.epoch \in Nat
        /\ \A i \in Numbers : messages[i].epoch \in Nat
        /\ \A s \in Senders : senders[s].epoch \in Nat
    BY EntriesAreThere DEF TalkInv, ConversationTypeOK, Entry, LoopState, SenderState
  <1>2. /\ \A i \in Numbers : messages[i].epoch \leq epoch' /\ messages[i].epoch # epoch'
        /\ \A s \in Senders : senders[s].epoch \leq epoch'
        /\ loop.epoch \leq epoch'
    BY <1>1 DEF TalkInv, EpochsOK
  <1>3. QED
    BY <1>2 DEF Summaries, InEpoch, Numbers

(* The loop ends, or starts over.                                          *)
LEMMA TalkBreaks ==
  ASSUME TalkInv, ConversationTypeOK', UNCHANGED <<epoch, messages, said, due>>,
         loop' = NoLoop \/ loop' = [NoLoop EXCEPT !.pc = "check"],
         \A s \in Senders : senders'[s] = senders[s] \/ senders'[s] = NoSender,
         missed \cup Pending \subseteq missed', WaitingOK'
  PROVE  TalkInv'
  <1>1. /\ loop'.pc \in {"off", "check"} /\ loop'.epoch = 0 /\ loop'.draft = {}
    BY DEF NoLoop
  <1>2. epoch \in Nat
    BY DEF TalkInv, ConversationTypeOK
  <1>3. EpochsOK'
    BY <1>1, <1>2 DEF TalkInv, EpochsOK, Numbers, NoSender
  <1>4. NumbersOK' /\ DraftOK'
    BY <1>1 DEF TalkInv, NumbersOK, DraftOK, Numbers, AtLoop
  <1>5. NothingIsForgotten'
    <2>1. Known(epoch)' = Known(epoch)
      BY DEF Known, Users, Summaries, InEpoch, Numbers
    <2>2. QED
      BY <2>1 DEF TalkInv, NothingIsForgotten
  <1>6. QED
    BY <1>3, <1>4, <1>5 DEF TalkInv

LEMMA TalkEnds ==
  ASSUME TalkInv, ConversationTypeOK', UNCHANGED <<epoch, messages, said, seen, senders>>, LoopEnds
  PROVE  TalkInv'
  <1>1. /\ missed \cup Pending \subseteq missed' /\ loop' = NoLoop /\ UNCHANGED due
        /\ late' = IF AtLoop("off") THEN late ELSE late \cup ((said \ due) \ Held)
    BY DEF LoopEnds, BatchStops
  <1>2. WaitingOK'
    <2>1. Held' = Held
      BY DEF Held
    <2>2. said' \cap due' \subseteq seen' \cup missed'
      BY <1>1 DEF TalkInv, WaitingOK
    <2>3. CASE AtLoop("off")
      BY <1>1, <2>1, <2>2, <2>3 DEF TalkInv, WaitingOK
    <2>4. CASE ~AtLoop("off")
      BY <1>1, <2>1, <2>2, <2>4 DEF WaitingOK
    <2>5. QED
      BY <2>3, <2>4
  <1>3. QED
    BY <1>1, <1>2, TalkBreaks

(* The loop goes on in the same epoch.                                     *)
LEMMA TalkGoesOn ==
  ASSUME TalkInv, ConversationTypeOK',
         UNCHANGED <<epoch, messages, said, seen, missed, due, late, senders>>,
         loop.pc # "summary", loop'.pc \notin {"off", "summary"},
         loop'.epoch = loop.epoch, loop'.draft \subseteq Numbers, DraftOK'
  PROVE  TalkInv'
  <1>1. EpochsOK' /\ NumbersOK'
    BY DEF TalkInv, EpochsOK, NumbersOK, Numbers
  <1>2. NothingIsForgotten'
    <2>1. Known(epoch)' = Known(epoch)
      BY DEF Known, Users, Summaries, InEpoch, Numbers
    <2>2. QED
      BY <2>1 DEF TalkInv, NothingIsForgotten, Pending, AtLoop
  <1>3. WaitingOK'
    BY DEF TalkInv, WaitingOK, AtLoop
  <1>4. QED
    BY <1>1, <1>2, <1>3 DEF TalkInv

(* The loop records what is not of the operator's words.                   *)
LEMMA TalkRecords ==
  ASSUME TalkInv, ConversationTypeOK', NEW x \in Entry, messages' = Append(messages, x),
         UNCHANGED <<epoch, said, seen, missed, due, late, senders>>,
         x.kind \in {"turn", "reply"}, x.epoch = loop.epoch, x.covers = {},
         loop.pc \in {"model", "reply"}, loop'.pc \in {"next", "turned", "ending"},
         loop'.epoch = loop.epoch, loop'.draft = loop.draft
  PROVE  TalkInv'
  <1>1. x.epoch \leq epoch
    BY DEF TalkInv, EpochsOK
  <1>2. /\ Numbers \subseteq Numbers'
        /\ \A i \in Numbers' : messages'[i].epoch \leq epoch' /\ messages'[i].covers \subseteq Numbers
        /\ Summaries(epoch)' = Summaries(epoch)
        /\ Known(epoch) \subseteq Known(epoch)'
    BY <1>1, TableGrows
  <1>3. EpochsOK' /\ NumbersOK'
    BY <1>2 DEF TalkInv, EpochsOK, NumbersOK
  <1>4. DraftOK'
    BY <1>2 DEF TalkInv, DraftOK, AtLoop
  <1>5. NothingIsForgotten'
    BY <1>2 DEF TalkInv, NothingIsForgotten, Pending, AtLoop
  <1>6. WaitingOK'
    BY DEF TalkInv, WaitingOK, AtLoop
  <1>7. QED
    BY <1>3, <1>4, <1>5, <1>6 DEF TalkInv

LEMMA TalkMessage ==
  ASSUME TalkInv, ConversationTypeOK', NEW s \in Senders, RecordMessage(s)
  PROVE  TalkInv'
  <1> DEFINE x == Message(senders[s].epoch, "user")
             i0 == Len(messages) + 1
  <1>0. /\ senders \in [Senders -> SenderState] /\ senders[s] \in SenderState /\ epoch \in Nat
        /\ UNCHANGED <<epoch, loop, seen, due>>
    BY DEF RecordMessage, TalkInv, ConversationTypeOK
  <1>1. CASE UNCHANGED <<messages, said, missed, late>> /\ senders' = [senders EXCEPT ![s] = NoSender]
    <2>1. EpochsOK' /\ NumbersOK' /\ DraftOK'
      BY <1>0, <1>1 DEF TalkInv, EpochsOK, NumbersOK, DraftOK, Numbers, Summaries, InEpoch,
                        NoSender, AtLoop
    <2>2. NothingIsForgotten'
      BY <1>0, <1>1 DEF TalkInv, NothingIsForgotten, Known, Users, Summaries, InEpoch, Numbers,
                        Pending, AtLoop
    <2>3. WaitingOK'
      <3>1. senders[s].pc # "launch"
        BY DEF RecordMessage
      <3>2. \A q \in Senders : senders[q].pc = "launch" => senders'[q] = senders[q]
        BY <1>0, <1>1, <3>1
      <3>3. Held \subseteq Held'
        BY <3>2 DEF Held
      <3>4. QED
        BY <1>0, <1>1, <3>3 DEF TalkInv, WaitingOK, AtLoop
    <2>4. QED
      BY <2>1, <2>2, <2>3 DEF TalkInv
  <1>2. CASE /\ AppendMessage(x) /\ said' = said \cup {i0}
             /\ missed' = IF senders[s].epoch = epoch THEN missed ELSE missed \cup {i0}
             /\ \/ senders' = [senders EXCEPT ![s] = NoSender] /\ LeftAlone(i0)
                \/ senders' = [senders EXCEPT ![s].pc = "launch", ![s].msg = i0] /\ UNCHANGED late
    <2>1. /\ x \in Entry /\ x.epoch = senders[s].epoch /\ x.kind = "user" /\ x.covers = {}
          /\ messages' = Append(messages, x) /\ x.epoch \leq epoch
      BY <1>0, <1>2, MessageIsEntry
         DEF AppendMessage, Kinds, SenderState, Message, TalkInv, EpochsOK
    <2> HIDE DEF x
    <2>2. /\ Len(messages) \in Nat /\ Numbers = 1..Len(messages)
          /\ Numbers' = 1..i0 /\ i0 \notin Numbers
          /\ \A i \in Numbers' : messages'[i].epoch \leq epoch'
          /\ \A i \in Numbers' : messages'[i].covers \subseteq Numbers
          /\ \A i \in Numbers : messages'[i] = messages[i]
          /\ Summaries(epoch)' = Summaries(epoch)
          /\ Known(epoch) \subseteq Known(epoch)'
          /\ x.epoch = epoch => i0 \in Known(epoch)'
      BY <1>0, <2>1, TableGrows
    <2>3. /\ \/ senders'[s] = NoSender /\ LeftAlone(i0)
             \/ /\ senders'[s].pc = "launch" /\ senders'[s].msg = i0 /\ UNCHANGED late
                /\ senders'[s].epoch = senders[s].epoch
          /\ \A q \in Senders \ {s} : senders'[q] = senders[q]
      BY <1>0, <1>2 DEF SenderState
    <2>4. Numbers \subseteq Numbers'
      BY <2>2
    <2>5. EpochsOK' /\ NumbersOK'
      <3>1. \A q \in Senders : senders'[q].epoch \leq epoch
        BY <1>0, <2>3 DEF TalkInv, EpochsOK, NoSender
      <3>2. QED
        BY <1>0, <1>2, <2>2, <2>4, <3>1 DEF TalkInv, EpochsOK, NumbersOK
    <2>6. DraftOK'
      <3>1. loop.draft \subseteq Numbers /\ Summaries(epoch) \subseteq Numbers
        BY DEF TalkInv, NumbersOK, Summaries, InEpoch
      <3>2. QED
        BY <1>0, <1>2, <2>2, <3>1 DEF TalkInv, DraftOK, AtLoop
    <2>7. NothingIsForgotten'
      <3>1. Pending' = Pending
        BY <1>0 DEF Pending, AtLoop
      <3>2. i0 \in Known(epoch)' \/ i0 \in missed'
        BY <1>2, <2>1, <2>2
      <3>3. QED
        BY <1>2, <2>2, <3>1, <3>2 DEF TalkInv, NothingIsForgotten
    <2>8. WaitingOK'
      <3>1. senders[s].pc # "launch"
        BY DEF RecordMessage
      <3>2. \A q \in Senders : senders[q].pc = "launch" => senders'[q] = senders[q]
        BY <2>3, <3>1
      <3>3. Held \subseteq Held'
        BY <3>2 DEF Held
      <3>4. i0 \notin due /\ missed \subseteq missed' /\ late \subseteq late'
        BY <1>2, <2>2 DEF TalkInv, NumbersOK, LeftAlone
      <3>5. AtLoop("off") => i0 \in Held' \cup late'
        BY <2>3 DEF Held, LeftAlone
      <3>6. QED
        BY <1>0, <1>2, <3>3, <3>4, <3>5 DEF TalkInv, WaitingOK, AtLoop
    <2>9. QED
      BY <2>5, <2>6, <2>7, <2>8 DEF TalkInv
  <1>3. QED
    BY <1>1, <1>2 DEF RecordMessage

LEMMA TalkLaunch ==
  ASSUME TalkInv, ConversationTypeOK', NEW s \in Senders, LaunchLoop(s)
  PROVE  TalkInv'
  <1>1. /\ senders \in [Senders -> SenderState] /\ epoch \in Nat
        /\ senders' = [senders EXCEPT ![s] = NoSender]
        /\ UNCHANGED <<epoch, messages, said, seen, due>>
    BY DEF LaunchLoop, TalkInv, ConversationTypeOK
  <1>2. \A q \in Senders : senders'[q] = senders[q] \/ senders'[q] = NoSender
    BY <1>1
  <1>3. CASE loop' = [NoLoop EXCEPT !.pc = "check"] /\ BatchStops /\ UNCHANGED late
    <2>1. WaitingOK'
      <3>1. missed \subseteq missed' /\ loop'.pc = "check"
        BY <1>3 DEF BatchStops, NoLoop
      <3>2. QED
        BY <1>1, <3>1 DEF TalkInv, WaitingOK, AtLoop
    <2>2. QED
      BY <1>1, <1>2, <1>3, <2>1, TalkBreaks DEF BatchStops
  <1>4. ASSUME UNCHANGED <<loop, missed>>, WaitingOK' PROVE TalkInv'
    <2>1. EpochsOK' /\ NumbersOK' /\ DraftOK'
      BY <1>1, <1>2, <1>4 DEF TalkInv, EpochsOK, NumbersOK, DraftOK, Numbers, Summaries, InEpoch,
                        NoSender, AtLoop
    <2>2. NothingIsForgotten'
      BY <1>1, <1>4 DEF TalkInv, NothingIsForgotten, Known, Users, Summaries, InEpoch, Numbers,
                        Pending, AtLoop
    <2>3. QED
      BY <1>4, <2>1, <2>2 DEF TalkInv
  <1>5. CASE ~NeedsLoop /\ UNCHANGED <<loop, missed, late>>
    <2>1. WaitingOK'
      BY <1>1, <1>5 DEF TalkInv, WaitingOK, NeedsLoop, AtLoop
    <2>2. QED
      BY <1>4, <1>5, <2>1
  <1>6. CASE LeftAlone(senders[s].msg) /\ UNCHANGED <<loop, missed>>
    <2>1. Held \subseteq Held' \cup {senders[s].msg}
      <3>1. \A q \in Senders \ {s} : senders'[q] = senders[q]
        BY <1>1
      <3>2. QED
        BY <3>1 DEF Held
    <2>2. WaitingOK'
      BY <1>1, <1>6, <2>1 DEF TalkInv, WaitingOK, LeftAlone, AtLoop
    <2>3. QED
      BY <1>4, <1>6, <2>2
  <1>7. QED
    BY <1>3, <1>5, <1>6 DEF LaunchLoop

(* The request carries all that the live context knows.                    *)
LEMMA TalkTurn ==
  ASSUME TalkInv, ConversationTypeOK', BeginTurn
  PROVE  TalkInv'
  <1>1. CASE LoopEnds /\ UNCHANGED seen
    BY <1>1, TalkEnds DEF BeginTurn
  <1>2. CASE /\ UNCHANGED <<missed, late>> /\ seen' = seen \cup Known(epoch) /\ due' = said
             /\ loop' = [NoLoop EXCEPT !.pc = "model", !.epoch = epoch]
    <2>1. /\ loop'.pc = "model" /\ loop'.epoch = epoch /\ loop'.draft = {}
      BY <1>2 DEF NoLoop
    <2>2. /\ epoch \in Nat /\ UNCHANGED <<epoch, messages, senders, said>>
          /\ loop.pc # "summary"
      BY DEF BeginTurn, TalkInv, ConversationTypeOK
    <2>3. EpochsOK' /\ NumbersOK' /\ DraftOK'
      BY <1>2, <2>1, <2>2 DEF TalkInv, EpochsOK, NumbersOK, DraftOK, Numbers, AtLoop
    <2>4. said \subseteq Known(epoch) \cup missed
      BY <2>2 DEF TalkInv, NothingIsForgotten, Pending, AtLoop
    <2>5. NothingIsForgotten'
      <3>1. Known(epoch)' = Known(epoch)
        BY <2>2 DEF Known, Users, Summaries, InEpoch, Numbers
      <3>2. QED
        BY <1>2, <2>2, <2>4, <3>1 DEF NothingIsForgotten
    <2>6. WaitingOK'
      BY <1>2, <2>1, <2>2, <2>4 DEF WaitingOK, AtLoop
    <2>7. QED
      BY <2>3, <2>5, <2>6 DEF TalkInv
  <1>3. QED
    BY <1>1, <1>2 DEF BeginTurn

(* The transcript of the loop's epoch has all that its summaries cover, and*)
(* another epoch has no summary.                                           *)
LEMMA TalkTranscript ==
  ASSUME TalkInv, ConversationTypeOK', ReadTranscript
  PROVE  TalkInv'
  <1>1. /\ loop.pc = "turned" /\ loop'.pc = "roll" /\ loop'.epoch = loop.epoch
        /\ loop'.draft = Known(loop.epoch)
        /\ UNCHANGED <<epoch, messages, senders, said, seen, missed, due, late>>
    BY DEF ReadTranscript, AtLoop, Transcript, TalkInv, ConversationTypeOK, LoopState
  <1>2. loop'.draft \subseteq Numbers
    BY <1>1 DEF Known, Users, Summaries, InEpoch, TalkInv, NumbersOK
  <1>3. \A i \in Summaries(epoch) : messages[i].covers \subseteq loop'.draft
    <2>1. CASE loop.epoch = epoch
      BY <1>1, <2>1 DEF Known
    <2>2. CASE loop.epoch # epoch
      BY <1>1, <2>2 DEF TalkInv, DraftOK
    <2>3. QED
      BY <2>1, <2>2
  <1>4. DraftOK'
    BY <1>1, <1>3 DEF DraftOK, AtLoop, Summaries, InEpoch, Numbers
  <1>5. QED
    BY <1>1, <1>2, <1>4, TalkGoesOn

(* What was said since the transcript was read is missed, the rest is in   *)
(* the draft.                                                              *)
LEMMA TalkRolls ==
  ASSUME TalkInv, ConversationTypeOK', RollForCompaction
  PROVE  TalkInv'
  <1>1. /\ loop.pc = "roll" /\ loop'.pc = "summary" /\ loop'.epoch = epoch'
        /\ loop'.draft = loop.draft /\ epoch' = epoch + 1 /\ epoch \in Nat
        /\ missed' = missed \cup (Users(epoch) \ loop.draft)
        /\ UNCHANGED <<messages, senders, said, seen, due, late>>
    BY DEF RollForCompaction, AtLoop, TalkInv, ConversationTypeOK, LoopState
  <1>2. /\ Numbers' = Numbers
        /\ \A i \in Numbers : messages[i].epoch \leq epoch'
        /\ \A s \in Senders : senders[s].epoch \leq epoch'
    BY <1>1, EpochOpens
  <1>3. EpochsOK' /\ NumbersOK' /\ DraftOK'
    BY <1>1, <1>2 DEF TalkInv, EpochsOK, NumbersOK, DraftOK, AtLoop
  <1>4. NothingIsForgotten'
    <2>1. Known(epoch) \subseteq Users(epoch) \cup loop.draft
      BY <1>1 DEF Known, TalkInv, DraftOK, AtLoop
    <2>2. said \subseteq Known(epoch) \cup missed
      BY <1>1 DEF TalkInv, NothingIsForgotten, Pending, AtLoop
    <2>3. Pending' = loop.draft
      BY <1>1 DEF Pending, AtLoop
    <2>4. QED
      BY <1>1, <2>1, <2>2, <2>3 DEF NothingIsForgotten
  <1>5. WaitingOK'
    BY <1>1 DEF TalkInv, WaitingOK, AtLoop
  <1>6. QED
    BY <1>3, <1>4, <1>5 DEF TalkInv

LEMMA TalkSummary ==
  ASSUME TalkInv, ConversationTypeOK', RecordSummary
  PROVE  TalkInv'
  <1> DEFINE x == [Message(loop.epoch, "summary") EXCEPT !.covers = loop.draft]
  <1>1. /\ x \in Entry /\ x.kind = "summary" /\ x.epoch = loop.epoch /\ x.covers = loop.draft
        /\ messages' = Append(messages, x)
    BY DEF RecordSummary, AppendMessage, TalkInv, ConversationTypeOK, LoopState, Message, Entry, Kinds
  <1>2. /\ loop.pc = "summary" /\ loop'.pc = "check" /\ loop'.epoch = 0 /\ loop'.draft = {}
        /\ UNCHANGED <<epoch, senders, said, seen, missed, due, late>> /\ epoch \in Nat
        /\ loop.epoch \leq epoch /\ loop.draft \subseteq Numbers
    BY DEF RecordSummary, AtLoop, NoLoop, TalkInv, ConversationTypeOK, EpochsOK, NumbersOK
  <1> HIDE DEF x
  <1>3. /\ Len(messages) \in Nat /\ Numbers = 1..Len(messages)
        /\ Numbers' = 1..(Len(messages) + 1)
        /\ \A i \in Numbers' : messages'[i].epoch \leq epoch'
        /\ \A i \in Numbers' : messages'[i].covers \subseteq Numbers
        /\ Known(epoch) \subseteq Known(epoch)'
        /\ x.epoch = epoch => loop.draft \subseteq Known(epoch)'
    BY <1>1, <1>2, TableGrows
  <1>4. Numbers \subseteq Numbers'
    BY <1>3
  <1>5. EpochsOK' /\ NumbersOK' /\ DraftOK'
    BY <1>2, <1>3, <1>4 DEF TalkInv, EpochsOK, NumbersOK, DraftOK, AtLoop
  <1>6. NothingIsForgotten'
    <2>1. said \subseteq Known(epoch) \cup missed \cup loop.draft
      BY <1>2 DEF TalkInv, NothingIsForgotten, Pending, AtLoop
    <2>2. loop.epoch # epoch => said \cap loop.draft = {}
      BY <1>2 DEF TalkInv, DraftOK, AtLoop
    <2>3. QED
      BY <1>1, <1>2, <1>3, <2>1, <2>2 DEF NothingIsForgotten
  <1>7. WaitingOK'
    BY <1>2 DEF TalkInv, WaitingOK, AtLoop
  <1>8. QED
    BY <1>5, <1>6, <1>7 DEF TalkInv

LEMMA TalkCleared ==
  ASSUME TalkInv, ConversationTypeOK', RollForClear
  PROVE  TalkInv'
  <1>1. /\ epoch' = epoch + 1 /\ said' = {} /\ due' = {} /\ UNCHANGED <<messages, loop, senders>>
    BY DEF RollForClear
  <1>2. /\ Numbers' = Numbers /\ Summaries(epoch)' = {}
        /\ \A i \in Numbers : messages[i].epoch \leq epoch'
        /\ \A s \in Senders : senders[s].epoch \leq epoch'
        /\ loop.epoch \leq epoch'
    BY <1>1, EpochOpens
  <1>3. EpochsOK' /\ NumbersOK'
    BY <1>1, <1>2 DEF TalkInv, EpochsOK, NumbersOK
  <1>4. DraftOK' /\ NothingIsForgotten' /\ WaitingOK'
    BY <1>1, <1>2 DEF DraftOK, NothingIsForgotten, WaitingOK
  <1>5. QED
    BY <1>3, <1>4 DEF TalkInv

LEMMA TalkPreserved ==
  ASSUME TalkInv, [ConversationNext]_conversationVars
  PROVE  TalkInv'
  <1>0. /\ ConversationTypeOK /\ ConversationTypeOK'
        /\ loop \in LoopState /\ loop.draft \subseteq Numbers
    BY TypePreserved DEF TalkInv, ConversationTypeOK, NumbersOK
  <1>1. ASSUME NEW s \in Senders, NEW op \in {"approve", "reject"},
               ReadEpoch(s) \/ DecidePlan(s, op)
        PROVE  TalkInv'
    <2>1. PICK o \in Ops, e \in Nat :
            Asks(s, o, e) /\ (e = epoch \/ \E i \in Numbers : e = messages[i].epoch)
      BY <1>0, <1>1, RequestAsks
    <2>2. /\ UNCHANGED <<epoch, messages, loop, said, seen, missed, due, late>>
          /\ senders' = [senders EXCEPT ![s] = [pc |-> "append", op |-> o, epoch |-> e, msg |-> 0]]
          /\ senders \in [Senders -> SenderState] /\ epoch \in Nat /\ senders[s].pc = "idle"
      BY <1>0, <2>1 DEF Asks, ConversationTypeOK
    <2>3. e \leq epoch
      BY <2>1, <2>2 DEF TalkInv, EpochsOK
    <2>4. /\ senders'[s].epoch = e
          /\ \A q \in Senders \ {s} : senders'[q] = senders[q]
      BY <2>2
    <2>5. EpochsOK' /\ NumbersOK' /\ DraftOK'
      BY <2>2, <2>3, <2>4
         DEF TalkInv, EpochsOK, NumbersOK, DraftOK, Numbers, Summaries, InEpoch, AtLoop
    <2>6. NothingIsForgotten'
      BY <2>2 DEF TalkInv, NothingIsForgotten, Known, Users, Summaries, InEpoch, Numbers,
                  Pending, AtLoop
    <2>7. WaitingOK'
      <3>1. \A q \in Senders : senders[q].pc = "launch" => senders'[q] = senders[q]
        BY <2>2, <2>4
      <3>2. Held \subseteq Held'
        BY <3>1 DEF Held
      <3>3. QED
        BY <2>2, <3>2 DEF TalkInv, WaitingOK, AtLoop
    <2>8. QED
      BY <1>0, <2>5, <2>6, <2>7 DEF TalkInv
  <1>2. ASSUME NEW s \in Senders, RecordMessage(s) PROVE TalkInv'
    BY <1>0, <1>2, TalkMessage
  <1>3. ASSUME NEW s \in Senders, LaunchLoop(s) PROVE TalkInv'
    BY <1>0, <1>3, TalkLaunch
  <1>4. CASE PauseRun \/ UNCHANGED conversationVars
    BY <1>0, <1>4
       DEF PauseRun, conversationVars, TalkInv, EpochsOK, NumbersOK, DraftOK, NothingIsForgotten,
           WaitingOK, Held, Known, Users, Summaries, InEpoch, Numbers, Pending, AtLoop
  <1>5. CASE CancelRun \/ ClearCancels \/ LoopFails \/ FinishLoop
    BY <1>0, <1>5, TalkEnds DEF CancelRun, ClearCancels, LoopFails, FinishLoop
  <1>6. CASE RestartConversation
    <2>1. WaitingOK'
      <3>1. /\ UNCHANGED <<said, seen, due>> /\ missed \subseteq missed'
            /\ late' = late \cup (said \ due)
        BY <1>6 DEF RestartConversation, BatchStops
      <3>2. QED
        BY <3>1 DEF TalkInv, WaitingOK
    <2>2. QED
      BY <1>0, <1>6, <2>1, TalkBreaks DEF RestartConversation, BatchStops
  <1>7. CASE BeginTurn
    BY <1>0, <1>7, TalkTurn
  <1>8. ASSUME NEW n \in 0..MaxCalls, RecordTurn(n) PROVE TalkInv'
    <2> DEFINE x == [Message(loop.epoch, "turn") EXCEPT !.n = n]
    <2>1. n \in Nat /\ loop.epoch \in Nat
      BY <1>0, ConversationAssumption DEF LoopState
    <2>2. /\ x \in Entry /\ x.kind = "turn" /\ x.epoch = loop.epoch /\ x.covers = {}
          /\ messages' = Append(messages, x)
      BY <1>8, <2>1 DEF RecordTurn, AppendMessage, Message, Entry, Kinds
    <2>3. /\ loop.pc = "model" /\ loop'.pc \in {"next", "ending"}
          /\ loop'.epoch = loop.epoch /\ loop'.draft = loop.draft
          /\ UNCHANGED <<epoch, said, seen, missed, due, late, senders>>
      BY <1>0, <1>8 DEF RecordTurn, AtLoop, LoopState
    <2> HIDE DEF x
    <2>4. QED
      BY <1>0, <2>2, <2>3, TalkRecords
  <1>9. CASE ExecuteOne
    <2>1. CASE LoopEnds
      BY <1>0, <1>9, <2>1, TalkEnds DEF ExecuteOne
    <2>2. CASE UNCHANGED <<missed, due, late>> /\ (LoopTo("reply") \/ loop' = FailedCall)
      <3>1. loop' = [loop EXCEPT !.pc = "reply"]
        BY <2>2 DEF LoopTo, FailedCall
      <3>2. /\ loop.pc = "next" /\ loop'.pc = "reply"
            /\ loop'.epoch = loop.epoch /\ loop'.draft = loop.draft
            /\ UNCHANGED <<epoch, messages, said, seen, missed, due, late, senders>>
        BY <1>0, <1>9, <2>2, <3>1 DEF ExecuteOne, AtLoop, LoopState
      <3>3. DraftOK'
        BY <3>2 DEF TalkInv, DraftOK, AtLoop, Summaries, InEpoch, Numbers
      <3>4. QED
        BY <1>0, <3>2, <3>3, TalkGoesOn
    <2>3. QED
      BY <1>9, <2>1, <2>2 DEF ExecuteOne
  <1>10. CASE RecordReply
    <2> DEFINE x == [Message(ReplyEpoch, "reply") EXCEPT !.of = loop.turn, !.n = loop.done + 1]
    <2>1. loop.epoch \in Nat /\ loop.turn \in Nat /\ loop.done + 1 \in Nat
      BY <1>0 DEF LoopState
    <2>2. /\ x \in Entry /\ x.kind = "reply" /\ x.epoch = loop.epoch /\ x.covers = {}
          /\ messages' = Append(messages, x)
      BY <1>10, <2>1 DEF RecordReply, AppendMessage, Message, Entry, Kinds, ReplyEpoch
    <2>3. /\ loop.pc = "reply" /\ loop'.pc \in {"next", "turned"}
          /\ loop'.epoch = loop.epoch /\ loop'.draft = loop.draft
          /\ UNCHANGED <<epoch, said, seen, missed, due, late, senders>>
      BY <1>0, <1>10 DEF RecordReply, CallDone, AtLoop, LoopState
    <2> HIDE DEF x
    <2>4. QED
      BY <1>0, <2>2, <2>3, TalkRecords
  <1>11. CASE AfterBatch
    <2>1. CASE LoopEnds
      BY <1>0, <1>11, <2>1, TalkEnds DEF AfterBatch
    <2>2. CASE LoopTo("ending") /\ UNCHANGED <<missed, due, late>>
      <3>1. /\ loop.pc = "turned" /\ loop'.pc = "ending"
            /\ loop'.epoch = loop.epoch /\ loop'.draft = loop.draft
            /\ UNCHANGED <<epoch, messages, said, seen, missed, due, late, senders>>
        BY <1>0, <1>11, <2>2 DEF AfterBatch, LoopTo, AtLoop, LoopState
      <3>2. DraftOK'
        BY <3>1 DEF DraftOK, AtLoop
      <3>3. QED
        BY <1>0, <3>1, <3>2, TalkGoesOn
    <2>3. QED
      BY <1>11, <2>1, <2>2 DEF AfterBatch
  <1>12. CASE ReadTranscript
    BY <1>0, <1>12, TalkTranscript
  <1>13. CASE RollForCompaction
    BY <1>0, <1>13, TalkRolls
  <1>14. CASE RecordSummary
    BY <1>0, <1>14, TalkSummary
  <1>15. CASE CompactionFails
    <2>1. WaitingOK'
      BY <1>15 DEF CompactionFails, TalkInv, WaitingOK, AtLoop, NoLoop
    <2>2. QED
      BY <1>0, <1>15, <2>1, TalkBreaks DEF CompactionFails
  <1>16. CASE RollForClear
    BY <1>0, <1>16, TalkCleared
  <1>17. QED
    BY <1>1, <1>2, <1>3, <1>4, <1>5, <1>6, <1>7, <1>8, <1>9, <1>10, <1>11, <1>12, <1>13,
       <1>14, <1>15, <1>16
       DEF ConversationNext

LEMMA TalkInvariant == ConversationSpec => []TalkInv
  <1>1. QED
    BY TalkInit, TalkPreserved, PTL DEF ConversationSpec

(* What the operator said is in the live context, is about to get there, or*)
(* is accounted for, through every compaction and every clearing.          *)
THEOREM WordsAreKept == ConversationSpec => []NothingIsForgotten
  <1>1. TalkInv => NothingIsForgotten
    BY DEF TalkInv
  <1>2. QED
    BY <1>1, TalkInvariant, PTL

(* Once all is quiet, what no request carried is accounted for as well.    *)
THEOREM WordsAreCarried == ConversationSpec => []NobodyIsLeftWaiting
  <1>1. TalkInv => NobodyIsLeftWaiting
    BY DEF TalkInv, WaitingOK, Held, NobodyIsLeftWaiting, AtLoop
  <1>2. QED
    BY <1>1, TalkInvariant, PTL
=============================================================================
