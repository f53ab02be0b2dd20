----------------------------- MODULE ModelProofs ----------------------------
(***************************************************************************)
(* ModelCalls for any number of callers and of changes, and Subagents for  *)
(* any budget, any number of frames and any size of their store.           *)
(*                                                                         *)
(* A call relies on what its caller has read of the settings; a verdict on *)
(* the answer in hand; a frame on its place among those that are kept.     *)
(***************************************************************************)
EXTENDS ModelCalls, Subagents, FiniteSetTheorems, SequenceTheorems, TLAPS

Values == [key: Nat, tail: Nat, model: Nat, price: Nat]
Calls == [pc: {"idle", "model", "price", "client", "stream", "audit"}, cfg: Values,
          usage: {0, 1}, failed: BOOLEAN, cancelled: BOOLEAN]

CallsTypeOK ==
  /\ configured \in Values /\ client \in Values
  /\ calls \in [Callers -> Calls]
  /\ audit \in [Callers -> [usage: Nat, price: Nat]]

(* What a caller has read so far is what is configured, unless a setting   *)
(* was saved meanwhile.                                                    *)
ReadingIsCurrent ==
  \A c \in Callers \ unsettled :
    /\ calls[c].pc \in {"model", "price"} =>
         calls[c].cfg.key = configured.key /\ calls[c].cfg.tail = configured.tail
    /\ calls[c].pc = "price" => calls[c].cfg.model = configured.model
    /\ calls[c].pc = "client" => calls[c].cfg = configured

CallsInv == CallsTypeOK /\ ReadingIsCurrent /\ NoCallIsFree

LEMMA CallsInit == ModelInit => CallsInv
  BY DEF ModelInit, CallsInv, CallsTypeOK, ReadingIsCurrent, NoCallIsFree, Values, Calls,
     NoClient, NoRow, NoCall

(* A step of one caller leaves the others where they are.                  *)
LEMMA StepMoves ==
  ASSUME CallsTypeOK, NEW c \in Callers, NEW from, NEW new \in Calls, Step(c, from, new)
  PROVE  /\ calls[c].pc = from /\ calls[c] \in Calls
         /\ calls' \in [Callers -> Calls]
         /\ calls'[c] = new
         /\ \A d \in Callers \ {c} : calls'[d] = calls[d]
  BY DEF CallsTypeOK, Step

LEMMA ChangePreserves ==
  ASSUME CallsInv,
         \/ \E setting \in {"model", "price"} : ChangeSettings(setting)
         \/ \E tail \in Tails : RotateKey(tail)
  PROVE  CallsInv'
  <1>1. configured' \in Values
    <2>1. configured \in Values
      BY DEF CallsInv, CallsTypeOK
    <2>2. CASE configured' = [configured EXCEPT !.model = @ + 1]
      BY <2>1, <2>2 DEF Values
    <2>3. CASE configured' = [configured EXCEPT !.price = @ + 1]
      BY <2>1, <2>3 DEF Values
    <2>4. ASSUME NEW tail \in Tails, configured' = [configured EXCEPT !.key = @ + 1, !.tail = tail]
          PROVE  configured' \in Values
      <3>1. configured' = [key |-> configured.key + 1, tail |-> tail,
                           model |-> configured.model, price |-> configured.price]
        BY <2>1, <2>4 DEF Values
      <3>2. tail \in Nat
        BY DEF Tails
      <3>3. QED
        BY <2>1, <3>1, <3>2 DEF Values
    <2>5. QED
      BY <2>2, <2>3, <2>4 DEF ChangeSettings, RotateKey
  <1>2. SaveSplits /\ UNCHANGED <<client, calls, audit>>
    BY DEF ChangeSettings, RotateKey
  <1>3. CallsTypeOK' /\ NoCallIsFree'
    BY <1>1, <1>2 DEF CallsInv, CallsTypeOK, NoCallIsFree
  <1>4. ReadingIsCurrent'
    BY <1>2 DEF CallsInv, ReadingIsCurrent, SaveSplits
  <1>5. QED
    BY <1>3, <1>4 DEF CallsInv

LEMMA CallerPreserves ==
  ASSUME CallsInv, NEW c \in Callers,
         \/ ReadKey(c) \/ ReadModel(c) \/ ReadPrice(c) \/ TakeClient(c)
         \/ ReceiveUsage(c) \/ CancelCall(c) \/ EndStream(c) \/ RecordCall(c)
  PROVE  CallsInv'
  <1> DEFINE call == calls[c]
  <1>0. /\ call \in Calls /\ call.cfg \in Values
        /\ configured \in Values /\ client \in Values
    BY DEF CallsInv, CallsTypeOK, Calls
  <1>1. CASE ReadKey(c)
    <2> DEFINE new == [NoCall EXCEPT !.pc = "model", !.cfg.key = configured.key,
                                     !.cfg.tail = configured.tail]
    <2>1. /\ new \in Calls /\ new.pc = "model"
          /\ new.cfg.key = configured.key /\ new.cfg.tail = configured.tail
      BY <1>0 DEF NoCall, NoClient, Calls, Values
    <2>2. Step(c, "idle", new)
      BY <1>1 DEF ReadKey
    <2> HIDE DEF new
    <2>3. /\ calls' \in [Callers -> Calls] /\ calls'[c] = new
          /\ \A d \in Callers \ {c} : calls'[d] = calls[d]
      BY <2>1, <2>2, StepMoves DEF CallsInv
    <2>4. CallsTypeOK'
      BY <1>1, <2>3 DEF ReadKey, CallsInv, CallsTypeOK, NoRow
    <2>5. ReadingIsCurrent'
      BY <1>1, <2>1, <2>3 DEF ReadKey, CallsInv, ReadingIsCurrent
    <2>6. NoCallIsFree'
      BY <1>1, <2>1, <2>3 DEF ReadKey, CallsInv, CallsTypeOK, NoCallIsFree
    <2>7. QED
      BY <2>4, <2>5, <2>6 DEF CallsInv
  <1>2. ASSUME NEW new \in Calls, NEW from, Step(c, from, new), new.pc \in {"price", "client"},
               c \notin unsettled =>
                 /\ new.cfg.key = configured.key /\ new.cfg.tail = configured.tail
                 /\ new.cfg.model = configured.model
                 /\ new.pc = "client" => new.cfg.price = configured.price,
               UNCHANGED <<configured, client, audit, unsettled>>
        PROVE  CallsInv'
    <2>1. /\ calls' \in [Callers -> Calls] /\ calls'[c] = new
          /\ \A d \in Callers \ {c} : calls'[d] = calls[d]
      BY <1>2, StepMoves DEF CallsInv
    <2>2. CallsTypeOK'
      BY <1>2, <2>1 DEF CallsInv, CallsTypeOK
    <2>3. c \notin unsettled /\ new.pc = "client" => new.cfg = configured
      <3>1. new.cfg \in Values /\ configured \in Values
        BY <1>0 DEF Calls
      <3>2. QED
        BY <1>2, <3>1 DEF Values
    <2>4. ReadingIsCurrent'
      BY <1>2, <2>1, <2>3 DEF CallsInv, ReadingIsCurrent
    <2>5. NoCallIsFree'
      BY <1>2, <2>1 DEF CallsInv, NoCallIsFree
    <2>6. QED
      BY <2>2, <2>4, <2>5 DEF CallsInv
  <1>3. CASE ReadModel(c)
    <2> DEFINE new == [call EXCEPT !.pc = "price", !.cfg.model = configured.model]
    <2>1. /\ new \in Calls /\ new.pc = "price"
          /\ new.cfg = [key |-> call.cfg.key, tail |-> call.cfg.tail,
                        model |-> configured.model, price |-> call.cfg.price]
      BY <1>0 DEF Calls, Values
    <2>2. Step(c, "model", new) /\ UNCHANGED <<configured, client, audit, unsettled>>
      BY <1>3 DEF ReadModel
    <2> HIDE DEF new
    <2>3. c \notin unsettled =>
            call.cfg.key = configured.key /\ call.cfg.tail = configured.tail
      BY <2>2 DEF Step, CallsInv, ReadingIsCurrent
    <2>4. QED
      BY <1>2, <2>1, <2>2, <2>3
  <1>4. CASE ReadPrice(c)
    <2> DEFINE new == [call EXCEPT !.pc = "client", !.cfg.price = configured.price]
    <2>1. /\ new \in Calls /\ new.pc = "client"
          /\ new.cfg = [key |-> call.cfg.key, tail |-> call.cfg.tail,
                        model |-> call.cfg.model, price |-> configured.price]
      BY <1>0 DEF Calls, Values
    <2>2. Step(c, "price", new) /\ UNCHANGED <<configured, client, audit, unsettled>>
      BY <1>4 DEF ReadPrice
    <2> HIDE DEF new
    <2>3. c \notin unsettled =>
            /\ call.cfg.key = configured.key /\ call.cfg.tail = configured.tail
            /\ call.cfg.model = configured.model
      BY <2>2 DEF Step, CallsInv, ReadingIsCurrent
    <2>4. QED
      BY <1>2, <2>1, <2>2, <2>3
  <1>5. ASSUME NEW new \in Calls, NEW from, Step(c, from, new),
               new.pc \in {"stream", "audit"}, client' \in Values,
               UNCHANGED <<configured, audit, unsettled>>
        PROVE  CallsInv'
    <2>1. /\ calls' \in [Callers -> Calls] /\ calls'[c] = new
          /\ \A d \in Callers \ {c} : calls'[d] = calls[d]
      BY <1>5, StepMoves DEF CallsInv
    <2>2. CallsTypeOK'
      BY <1>5, <2>1 DEF CallsInv, CallsTypeOK
    <2>3. ReadingIsCurrent' /\ NoCallIsFree'
      BY <1>5, <2>1 DEF CallsInv, ReadingIsCurrent, NoCallIsFree
    <2>4. QED
      BY <2>2, <2>3 DEF CallsInv
  <1>6. CASE TakeClient(c)
    <2> DEFINE current == IF SamePrint(call.cfg) THEN client ELSE call.cfg
               new == [call EXCEPT !.pc = "stream", !.cfg = current]
    <2>1. current \in Values
      BY <1>0
    <2>2. new \in Calls /\ new.pc = "stream"
      BY <1>0, <2>1 DEF Calls
    <2>3. Step(c, "client", new) /\ client' = current /\ UNCHANGED <<configured, audit, unsettled>>
      BY <1>6 DEF TakeClient
    <2> HIDE DEF new, current
    <2>4. QED
      BY <1>5, <2>1, <2>2, <2>3
  <1>7. CASE ReceiveUsage(c)
    <2>1. [call EXCEPT !.usage = 1] \in Calls
      BY <1>0 DEF Calls
    <2>2. [call EXCEPT !.usage = 1].pc = "stream"
      BY <1>0, <1>7 DEF ReceiveUsage, Step, Calls
    <2>3. QED
      BY <1>0, <1>5, <1>7, <2>1, <2>2 DEF ReceiveUsage
  <1>8. CASE CancelCall(c)
    <2>1. [call EXCEPT !.cancelled = TRUE] \in Calls
      BY <1>0 DEF Calls
    <2>2. [call EXCEPT !.cancelled = TRUE].pc = "stream"
      BY <1>0, <1>8 DEF CancelCall, Step, Calls
    <2>3. QED
      BY <1>0, <1>5, <1>8, <2>1, <2>2 DEF CancelCall
  <1>9. CASE EndStream(c)
    <2>1. PICK failed \in BOOLEAN : Step(c, "stream", [call EXCEPT !.pc = "audit", !.failed = failed, !.cancelled = FALSE])
      BY <1>9 DEF EndStream
    <2>2. /\ [call EXCEPT !.pc = "audit", !.failed = failed, !.cancelled = FALSE] \in Calls
          /\ [call EXCEPT !.pc = "audit", !.failed = failed, !.cancelled = FALSE].pc = "audit"
      BY <1>0 DEF Calls
    <2>3. QED
      BY <1>0, <1>5, <1>9, <2>1, <2>2 DEF EndStream
  <1>10. CASE RecordCall(c)
    <2> DEFINE new == [call EXCEPT !.pc = "idle", !.failed = FALSE]
    <2>1. new \in Calls /\ new.pc = "idle" /\ new.usage = call.usage /\ new.cfg = call.cfg
      BY <1>0 DEF Calls
    <2>2. Step(c, "audit", new) /\ UNCHANGED <<configured, client, unsettled>>
      BY <1>10 DEF RecordCall
    <2>3. PICK row \in {Lost, [usage |-> call.usage, price |-> call.cfg.price]} :
            audit' = [audit EXCEPT ![c] = row]
      BY <1>10 DEF RecordCall, UsageFrom
    <2>4. row \in [usage: Nat, price: Nat]
      BY <1>0 DEF Lost, Calls, Values
    <2> HIDE DEF new
    <2>5. /\ calls' \in [Callers -> Calls] /\ calls'[c] = new
          /\ \A d \in Callers \ {c} : calls'[d] = calls[d]
      BY <2>1, <2>2, StepMoves DEF CallsInv
    <2>6. CallsTypeOK'
      BY <2>2, <2>3, <2>4, <2>5 DEF CallsInv, CallsTypeOK
    <2>7. ReadingIsCurrent'
      BY <2>1, <2>2, <2>5 DEF CallsInv, ReadingIsCurrent
    <2>8. NoCallIsFree'
      BY <2>1, <2>3, <2>5 DEF CallsInv, CallsTypeOK, NoCallIsFree
    <2>9. QED
      BY <2>6, <2>7, <2>8 DEF CallsInv
  <1>11. QED
    BY <1>1, <1>3, <1>4, <1>6, <1>7, <1>8, <1>9, <1>10

LEMMA CallsPreserved == CallsInv /\ [ModelNext]_modelVars => CallsInv'
  <1> SUFFICES ASSUME CallsInv, [ModelNext]_modelVars PROVE CallsInv'
    OBVIOUS
  <1>1. CASE ModelNext
    BY <1>1, ChangePreserves, CallerPreserves DEF ModelNext
  <1>2. CASE UNCHANGED modelVars
    BY <1>2 DEF modelVars, CallsInv, CallsTypeOK, ReadingIsCurrent, NoCallIsFree
  <1>3. QED
    BY <1>1, <1>2

(* The client a call is given is one for the settings it has read.         *)
LEMMA TakesWhatItRead ==
  ASSUME CallsInv, [ModelNext]_modelVars, NEW c \in Callers \ unsettled,
         calls[c].pc = "client", calls'[c].pc = "stream"
  PROVE  \/ calls'[c].cfg = configured
         \/ calls'[c].cfg = client /\ Fingerprint(client) = Fingerprint(configured)
  <1> DEFINE Follows == \/ calls'[c].cfg = configured
                        \/ calls'[c].cfg = client /\ Fingerprint(client) = Fingerprint(configured)
  <1>0. calls[c] \in Calls /\ calls[c].cfg = configured
    BY DEF CallsInv, CallsTypeOK, ReadingIsCurrent
  <1>1. ASSUME NEW d \in Callers, NEW from, NEW new, Step(d, from, new), from # "client"
        PROVE  calls'[c] = calls[c]
    BY <1>1 DEF Step, CallsInv, CallsTypeOK
  <1>2. ASSUME NEW d \in Callers, TakeClient(d)
        PROVE  Follows
    <2>1. CASE d = c
      BY <1>0, <1>2, <2>1 DEF TakeClient, Step, SamePrint, Calls, CallsInv, CallsTypeOK
    <2>2. CASE d # c
      <3>1. calls'[c] = calls[c]
        BY <1>2, <2>2 DEF TakeClient, Step, CallsInv, CallsTypeOK
      <3>2. QED
        BY <3>1
    <2>3. QED
      BY <2>1, <2>2
  <1>3. ASSUME calls'[c] = calls[c] PROVE FALSE
    BY <1>3
  <1>4. CASE UNCHANGED modelVars
    BY <1>3, <1>4 DEF modelVars
  <1>5. ASSUME NEW x, ChangeSettings(x) \/ RotateKey(x) PROVE FALSE
    BY <1>3, <1>5 DEF ChangeSettings, RotateKey
  <1>6. ASSUME NEW d \in Callers,
               \/ ReadKey(d) \/ ReadModel(d) \/ ReadPrice(d) \/ ReceiveUsage(d)
               \/ CancelCall(d) \/ EndStream(d) \/ RecordCall(d)
        PROVE  FALSE
    BY <1>1, <1>3, <1>6 DEF ReadKey, ReadModel, ReadPrice, ReceiveUsage, CancelCall, EndStream, RecordCall
  <1>7. QED
    BY <1>2, <1>4, <1>5, <1>6 DEF ModelNext

(* No call that used tokens is recorded as free, and each is charged at the*)
(* price it began with.                                                    *)
THEOREM CallsArePaidFor == ModelSpec => []NoCallIsFree
  <1>1. CallsInv => NoCallIsFree
    BY DEF CallsInv
  <1>2. QED
    BY CallsInit, CallsPreserved, <1>1, PTL DEF ModelSpec

(* A call starts with the settings as they are, unless one was saved while *)
(* the caller read them, or the key was replaced by one that looks alike.  *)
THEOREM ClientsFollowSettings == ModelSpec => ClientFollowsSettings
  <1>1. CallsInv /\ [ModelNext]_modelVars =>
          [\A c \in Callers \ unsettled :
             calls[c].pc = "client" /\ calls'[c].pc = "stream"
               => \/ calls'[c].cfg = configured
                  \/ calls'[c].cfg = client /\ Fingerprint(client) = Fingerprint(configured)]_modelVars
    BY TakesWhatItRead
  <1>2. QED
    BY CallsInit, CallsPreserved, <1>1, PTL DEF ModelSpec, ClientFollowsSettings

-----------------------------------------------------------------------------
(* A verdict is told only where it was given: while a subagent is at work, *)
(* the agent has been told of none.                                        *)
NothingToldYet ==
  /\ ~Doing("off") => outcome # "pass"
  /\ Doing("review") => recorded # "clean"

IsJob == job = [pc |-> job.pc, step |-> job.step, budget |-> job.budget]

VerdictInv == IsJob /\ NothingToldYet /\ NoFalsePass

LEMMA JobMoves ==
  ASSUME IsJob, NEW pc, JobTo(pc)
  PROVE  IsJob' /\ job'.pc = pc
  BY DEF IsJob, JobTo

LEMMA VerdictInit == SubagentsInit => VerdictInv
  BY DEF SubagentsInit, VerdictInv, IsJob, NothingToldYet, NoFalsePass, Doing, NoSubagent, Garbage

(* The verifier: every ending but one reports something else than a pass.  *)
LEMMA VerifierPreserves ==
  ASSUME VerdictInv,
         \/ \E asked, configured0 : BeginVerify(asked, configured0)
         \/ TakeScreenshot \/ AnnounceFrame \/ ApplyAction \/ BudgetSpent \/ VerifyFails
         \/ \E a \in Answers \cup {Garbage} : Decide(a)
  PROVE  VerdictInv'
  <1> USE DEF VerdictInv, NothingToldYet, NoFalsePass, Doing
  <1>0. ASSUME NEW result, Report(result) PROVE IsJob' /\ job'.pc = "off" /\ outcome' = result
    BY <1>0 DEF Report, IsJob, NoSubagent
  <1>1. ASSUME NEW asked, NEW configured0, BeginVerify(asked, configured0)
        PROVE  VerdictInv'
    BY <1>1 DEF BeginVerify, IsJob, Garbage
  <1>2. CASE TakeScreenshot
    <2>1. CASE JobTo("announce") /\ UNCHANGED outcome
      BY <1>2, <2>1, JobMoves DEF TakeScreenshot
    <2>2. CASE JobTo("decide") /\ UNCHANGED outcome
      BY <1>2, <2>2, JobMoves DEF TakeScreenshot
    <2>3. CASE Report("unverified")
      BY <1>0, <1>2, <2>3 DEF TakeScreenshot
    <2>4. QED
      BY <1>2, <2>1, <2>2, <2>3 DEF TakeScreenshot
  <1>3. CASE AnnounceFrame
    BY <1>3, JobMoves DEF AnnounceFrame
  <1>4. CASE ApplyAction \/ BudgetSpent \/ VerifyFails
    <2>1. ASSUME NEW result \in {"fail", "unverified"}, Report(result),
                 UNCHANGED <<answer, opinion, recorded>>
          PROVE  VerdictInv'
      BY <1>0, <2>1
    <2>2. CASE job' = [job EXCEPT !.pc = "screen", !.step = @ + 1]
      <3>1. IsJob' /\ job'.pc = "screen"
        BY <2>2 DEF IsJob
      <3>2. QED
        BY <1>4, <2>1, <2>2, <3>1 DEF ApplyAction, BudgetSpent, VerifyFails, Unfinished
    <2>3. QED
      BY <1>4, <2>1, <2>2 DEF ApplyAction, BudgetSpent, VerifyFails, Unfinished
  <1>5. ASSUME NEW a \in Answers \cup {Garbage}, Decide(a)
        PROVE  VerdictInv'
    <2>1. Doing("decide") /\ answer' = a /\ UNCHANGED <<opinion, recorded>>
      BY <1>5 DEF Decide
    <2>2. CASE a.action = "finish"
      <3>1. a \in Answers
        BY <2>2 DEF Garbage
      <3>2. /\ outcome' = IF a.verdict = "none" THEN "fail" ELSE a.verdict
            /\ IsJob' /\ job'.pc = "off"
        BY <1>0, <1>5, <2>2 DEF Decide
      <3>3. outcome' = "pass" => a = [action |-> "finish", verdict |-> "pass"]
        BY <2>2, <3>1, <3>2 DEF Answers
      <3>4. QED
        BY <2>1, <3>2, <3>3
    <2>3. CASE a.action = "garbage"
      BY <1>0, <1>5, <2>1, <2>3 DEF Decide, Unfinished
    <2>4. CASE a.action \notin {"finish", "garbage"}
      <3>1. JobTo("act") /\ UNCHANGED outcome
        BY <1>5, <2>4 DEF Decide
      <3>2. QED
        BY <2>1, <3>1, JobMoves
    <2>5. QED
      BY <2>2, <2>3, <2>4
  <1>6. QED
    BY <1>1, <1>2, <1>3, <1>4, <1>5

LEMMA ReviewerPreserves ==
  ASSUME VerdictInv,
         BeginReview \/ ReviewFails \/ RestartSubagents \/ \E o \in Opinions : Review(o)
  PROVE  VerdictInv'
  <1> USE DEF VerdictInv, IsJob, NothingToldYet, NoFalsePass, Doing, NoSubagent, Report
  <1>1. CASE BeginReview
    BY <1>1 DEF BeginReview
  <1>2. CASE ReviewFails
    BY <1>2 DEF ReviewFails
  <1>3. CASE RestartSubagents
    BY <1>3 DEF RestartSubagents
  <1>4. ASSUME NEW o \in Opinions, Review(o)
        PROVE  VerdictInv'
    BY <1>4 DEF Review, ReviewVerdict, Opinions
  <1>5. QED
    BY <1>1, <1>2, <1>3, <1>4

LEMMA VerdictPreserved == VerdictInv /\ [SubagentsNext]_subagentVars => VerdictInv'
  <1> SUFFICES ASSUME VerdictInv, [SubagentsNext]_subagentVars PROVE VerdictInv'
    OBVIOUS
  <1>1. CASE SubagentsNext
    BY <1>1, VerifierPreserves, ReviewerPreserves DEF SubagentsNext
  <1>2. CASE UNCHANGED subagentVars
    BY <1>2 DEF subagentVars, VerdictInv, IsJob, NothingToldYet, NoFalsePass, Doing
  <1>3. QED
    BY <1>1, <1>2

(* No answer of a model but a finished pass makes the agent believe in one,*)
(* and no task is recorded as clean against what the reviewer said.        *)
THEOREM PassesAreEarned == SubagentsSpec => []NoFalsePass
  <1>1. VerdictInv => NoFalsePass
    BY DEF VerdictInv
  <1>2. QED
    BY VerdictInit, VerdictPreserved, <1>1, PTL DEF SubagentsSpec

-----------------------------------------------------------------------------
(* The store of frames holds the newest, in order, as many as were stored  *)
(* since the process started and as the limit allows.                      *)
FramesInv ==
  /\ frames \in Nat /\ booted \in Nat /\ booted <= frames
  /\ announced \subseteq 0..frames
  /\ order \in Seq(Nat)
  /\ Len(order) = IF frames - booted > Limit THEN Limit ELSE frames - booted
  /\ \A i \in 1..Len(order) : order[i] = frames - Len(order) + i
  /\ items = (frames - Len(order) + 1)..frames

(* What is kept of a sequence is its end.                                  *)
LEMMA NewestIsTheEnd ==
  ASSUME NEW s \in Seq(Nat)
  PROVE  /\ Newest(s) \in Seq(Nat)
         /\ Len(Newest(s)) = IF Len(s) > Limit THEN Limit ELSE Len(s)
         /\ \A i \in 1..Len(Newest(s)) : Newest(s)[i] = s[Len(s) - Len(Newest(s)) + i]
  <1> DEFINE m == IF Len(s) > Limit THEN Len(s) - Limit + 1 ELSE 1
             n == Len(s)
  <1>1. n \in Nat /\ m \in Int /\ n \in Int /\ m >= 1 /\ \A i \in m..n : s[i] \in Nat
    BY LimitAssumption, LenProperties, ElementOfSeq
  <1>2. Newest(s) = SubSeq(s, m, n)
    BY DEF Newest, Keep
  <1> HIDE DEF m
  <1>3. /\ SubSeq(s, m, n) \in Seq(Nat)
        /\ Len(SubSeq(s, m, n)) = IF m <= n THEN n - m + 1 ELSE 0
        /\ \A i \in 1..(n - m + 1) : SubSeq(s, m, n)[i] = s[m + i - 1]
    BY <1>1, SubSeqProperties
  <1>4. n - m + 1 = IF n > Limit THEN Limit ELSE n
    BY <1>1, LimitAssumption DEF m
  <1>5. Len(SubSeq(s, m, n)) = n - m + 1
    BY <1>1, <1>3, <1>4, LimitAssumption
  <1>6. ASSUME NEW i \in 1..Len(SubSeq(s, m, n))
        PROVE  SubSeq(s, m, n)[i] = s[n - Len(SubSeq(s, m, n)) + i]
    <2>1. m + i - 1 = n - Len(SubSeq(s, m, n)) + i
      BY <1>1, <1>5
    <2>2. i \in 1..(n - m + 1)
      BY <1>5
    <2>3. QED
      BY <1>3, <2>1, <2>2
  <1>7. QED
    BY <1>2, <1>3, <1>4, <1>5, <1>6

LEMMA FramesInit == SubagentsInit => FramesInv
  BY LimitAssumption DEF SubagentsInit, FramesInv

(* Storing a frame.                                                        *)
LEMMA PutPreserves ==
  ASSUME FramesInv, Put(frames + 1), UNCHANGED <<announced, booted>>
  PROVE  FramesInv'
  <1> DEFINE s == Append(order, frames + 1)
  <1>1. /\ s \in Seq(Nat) /\ Len(s) = Len(order) + 1 /\ Len(order) \in Nat
        /\ \A i \in 1..Len(order) : s[i] = order[i]
        /\ s[Len(order) + 1] = frames + 1
    BY AppendProperties, LenProperties DEF FramesInv
  <1> HIDE DEF s
  <1>2. \A i \in 1..Len(s) : s[i] = frames + 1 - Len(s) + i
    <2> SUFFICES ASSUME NEW i \in 1..Len(s) PROVE s[i] = frames + 1 - Len(s) + i
      OBVIOUS
    <2>1. CASE i \in 1..Len(order)
      <3>1. s[i] = frames - Len(order) + i
        BY <1>1, <2>1 DEF FramesInv
      <3>2. QED
        BY <1>1, <3>1 DEF FramesInv
    <2>2. CASE i = Len(order) + 1
      BY <1>1, <2>2 DEF FramesInv
    <2>3. QED
      BY <1>1, <2>1, <2>2
  <1>3. /\ order' = Newest(s) /\ frames' = frames + 1
        /\ items' = {order'[i] : i \in DOMAIN order'}
    BY DEF Put, s
  <1>4. /\ order' \in Seq(Nat)
        /\ Len(order') = IF Len(s) > Limit THEN Limit ELSE Len(s)
        /\ \A i \in 1..Len(order') : order'[i] = s[Len(s) - Len(order') + i]
    BY <1>1, <1>3, NewestIsTheEnd
  <1>5. /\ Len(order') \in Nat /\ Len(order') <= Len(s) /\ DOMAIN order' = 1..Len(order')
    BY <1>1, <1>4, LenProperties, LimitAssumption
  <1>6. \A i \in 1..Len(order') : order'[i] = frames' - Len(order') + i
    <2> SUFFICES ASSUME NEW i \in 1..Len(order') PROVE order'[i] = frames' - Len(order') + i
      OBVIOUS
    <2>1. Len(s) - Len(order') + i \in 1..Len(s)
      BY <1>1, <1>5
    <2>2. QED
      <3>1. order'[i] = frames + 1 - Len(s) + (Len(s) - Len(order') + i)
        BY <1>2, <1>4, <2>1
      <3>2. QED
        BY <1>1, <1>3, <1>5, <3>1 DEF FramesInv
  <1>7. Len(order') = IF frames' - booted' > Limit THEN Limit ELSE frames' - booted'
    BY <1>1, <1>3, <1>4, LimitAssumption DEF FramesInv
  <1>8. items' = (frames' - Len(order') + 1)..frames'
    <2>1. ASSUME NEW f \in items' PROVE f \in (frames' - Len(order') + 1)..frames'
      <3>1. PICK i \in 1..Len(order') : f = order'[i]
        BY <1>3, <1>5
      <3>2. QED
        BY <1>3, <1>5, <1>6, <3>1 DEF FramesInv
    <2>2. ASSUME NEW f \in (frames' - Len(order') + 1)..frames' PROVE f \in items'
      <3>1. f - (frames' - Len(order')) \in 1..Len(order')
        BY <1>3, <1>5 DEF FramesInv
      <3>2. order'[f - (frames' - Len(order'))]
              = frames' - Len(order') + (f - (frames' - Len(order')))
        BY <1>6, <3>1
      <3>3. order'[f - (frames' - Len(order'))] = f
        BY <1>3, <1>5, <3>2 DEF FramesInv
      <3>4. QED
        BY <1>3, <1>5, <3>1, <3>3
    <2>3. QED
      BY <2>1, <2>2
  <1>9. frames' \in Nat /\ booted' \in Nat /\ booted' <= frames' /\ announced' \subseteq 0..frames'
    BY <1>3 DEF FramesInv
  <1>10. QED
    BY <1>4, <1>6, <1>7, <1>8, <1>9 DEF FramesInv

LEMMA FramesPreserved == FramesInv /\ [SubagentsNext]_subagentVars => FramesInv'
  <1> SUFFICES ASSUME FramesInv, [SubagentsNext]_subagentVars PROVE FramesInv'
    OBVIOUS
  <1>1. ASSUME UNCHANGED frameVars PROVE FramesInv'
    BY <1>1 DEF frameVars, FramesInv
  <1>2. CASE TakeScreenshot
    <2>1. CASE Put(frames + 1) /\ UNCHANGED <<announced, booted>>
      BY <2>1, PutPreserves
    <2>2. CASE UNCHANGED <<order, items, frames, announced, booted>>
      BY <1>1, <2>2 DEF frameVars
    <2>3. QED
      BY <1>2, <2>1, <2>2 DEF TakeScreenshot
  <1>3. CASE AnnounceFrame
    <2>1. announced' \subseteq 0..frames
      BY <1>3 DEF AnnounceFrame, FramesInv
    <2>2. UNCHANGED <<order, items, frames, booted>>
      BY <1>3 DEF AnnounceFrame
    <2>3. QED
      BY <2>1, <2>2 DEF FramesInv
  <1>4. CASE RestartSubagents
    <2>1. order' = <<>> /\ items' = {} /\ booted' = frames /\ UNCHANGED <<frames, announced>>
      BY <1>4 DEF RestartSubagents
    <2>2. Len(order') = 0 /\ order' \in Seq(Nat)
      BY <2>1
    <2>3. (frames - 0 + 1)..frames = {}
      BY DEF FramesInv
    <2>4. QED
      BY <2>1, <2>2, <2>3, LimitAssumption DEF FramesInv
  <1>5. CASE \/ \E asked \in 0..(MostSteps + 1), c \in Configured : BeginVerify(asked, c)
             \/ ApplyAction \/ BudgetSpent \/ VerifyFails \/ BeginReview \/ ReviewFails
             \/ (\E a \in Answers \cup {Garbage} : Decide(a)) \/ (\E o \in Opinions : Review(o))
    BY <1>1, <1>5 DEF BeginVerify, ApplyAction, BudgetSpent, VerifyFails, BeginReview,
       ReviewFails, Decide, Review
  <1>6. CASE UNCHANGED subagentVars
    BY <1>1, <1>6 DEF subagentVars, frameVars
  <1>7. QED
    BY <1>2, <1>3, <1>4, <1>5, <1>6 DEF SubagentsNext

(* A frame that was announced is served until as many newer ones as the    *)
(* store holds have come, or the process restarts; no more are held.       *)
THEOREM AnnouncedFramesAreServed == SubagentsSpec => []FramesAreServed
  <1>1. FramesInv => FramesAreServed
    <2> SUFFICES ASSUME FramesInv PROVE FramesAreServed
      OBVIOUS
    <2>0. Len(order) \in Nat /\ Len(order) <= Limit
      BY LenProperties, LimitAssumption DEF FramesInv
    <2>1. ASSUME NEW f \in announced, f > booted, f + Limit > frames
          PROVE  f \in items
      <3>1. f \in Nat /\ f <= frames
        BY DEF FramesInv
      <3>2. f >= frames - Len(order) + 1
        BY <2>1, <3>1, LimitAssumption DEF FramesInv
      <3>3. QED
        BY <2>0, <3>1, <3>2 DEF FramesInv
    <2>2. Cardinality(items) = Len(order)
      <3>1. frames - Len(order) + 1 \in Int /\ frames \in Int
        BY <2>0 DEF FramesInv
      <3>2. Cardinality(items) = IF frames - Len(order) + 1 > frames THEN 0
                                 ELSE frames - (frames - Len(order) + 1) + 1
        BY <3>1, FS_Interval DEF FramesInv
      <3>3. QED
        BY <2>0, <3>2 DEF FramesInv
    <2>3. QED
      BY <2>0, <2>1, <2>2 DEF FramesAreServed
  <1>2. QED
    BY FramesInit, FramesPreserved, <1>1, PTL DEF SubagentsSpec
=============================================================================
