----------------------------- MODULE ModelCalls -----------------------------
(***************************************************************************)
(* Calls of the model: the client that is rebuilt when the settings change *)
(* (LLM in internal/agent/service.go), a streaming completion and its      *)
(* usage (internal/llm/llm.go), and its row in the audit (recordLLMCall).  *)
(*                                                                         *)
(* The key of the API, the model that is asked and the price of a token    *)
(* stand for the eight settings a client is built from.  Values only tell  *)
(* one save from another: prices alike to six decimals are one, as they are*)
(* to the fingerprint.  Usage arrives with the last chunk, so a call that  *)
(* fails has either none of it or all.                                     *)
(***************************************************************************)
EXTENDS Naturals

CONSTANTS
  Callers,       \* goroutines that call the model: a run, a compaction, a subagent
  MaxUpdates     \* bound: times each setting is changed

VARIABLES
  configured,    \* [key, tail, model, price], as the configuration serves them; tail
                 \* is the length of the key with its last four characters
  client,        \* Service.llm and llmPrint: what it was built from, or NoClient
  calls,         \* each caller: [pc, cfg, usage, failed, cancelled]
  audit,         \* what the row of each caller's last call says, or NoRow
  unsettled      \* history: callers whose reading of the settings a save has split

modelVars == <<configured, client, calls, audit, unsettled>>

Tails == {1, 2}

NoClient == [key |-> 0, tail |-> 0, model |-> 0, price |-> 0]
NoRow == [usage |-> 0, price |-> 0]
Lost == [usage |-> 0, price |-> 99]
NoCall == [pc |-> "idle", cfg |-> NoClient, usage |-> 0, failed |-> FALSE, cancelled |-> FALSE]

ModelInit ==
  /\ configured = [key |-> 1, tail |-> 1, model |-> 1, price |-> 1] /\ client = NoClient
  /\ calls = [c \in Callers |-> NoCall]
  /\ audit = [c \in Callers |-> NoRow]
  /\ unsettled = {}

Step(c, from, new) == calls[c].pc = from /\ calls' = [calls EXCEPT ![c] = new]

(* Saved while it reads, what a caller has of the settings may be split.   *)
SaveSplits ==
  unsettled' = unsettled \cup {c \in Callers : calls[c].pc \in {"model", "price", "client"}}

(* A section of the settings is saved at once.                             *)
ChangeSettings(setting) ==
  /\ configured[setting] <= MaxUpdates
  /\ configured' = [configured EXCEPT ![setting] = @ + 1]
  /\ SaveSplits /\ UNCHANGED <<client, calls, audit>>

(* Another key, that may look like the one before.                         *)
RotateKey(tail) ==
  /\ configured.key <= MaxUpdates
  /\ configured' = [configured EXCEPT !.key = @ + 1, !.tail = tail]
  /\ SaveSplits /\ UNCHANGED <<client, calls, audit>>

-----------------------------------------------------------------------------
(* LLM: the settings are read one by one, ...                              *)
ReadKey(c) ==
  /\ Step(c, "idle", [NoCall EXCEPT !.pc = "model", !.cfg.key = configured.key,
                                    !.cfg.tail = configured.tail])
  /\ audit' = [audit EXCEPT ![c] = NoRow] /\ unsettled' = unsettled \ {c}
  /\ UNCHANGED <<configured, client>>

ReadModel(c) ==
  /\ Step(c, "model", [calls[c] EXCEPT !.pc = "price", !.cfg.model = configured.model])
  /\ UNCHANGED <<configured, client, audit, unsettled>>

ReadPrice(c) ==
  /\ Step(c, "price", [calls[c] EXCEPT !.pc = "client", !.cfg.price = configured.price])
  /\ UNCHANGED <<configured, client, audit, unsettled>>

SameModel(cfg) == client # NoClient /\ client.model = cfg.model

(* The fingerprint has every setting, but of the key no more than its tail.*)
Fingerprint(cfg) == <<cfg.tail, cfg.model, cfg.price>>

SamePrint(cfg) == client # NoClient /\ Fingerprint(client) = Fingerprint(cfg)

(* ... and under the lock the client is taken as it is, or built anew.     *)
TakeClient(c) ==
  LET current == IF SamePrint(calls[c].cfg) THEN client ELSE calls[c].cfg IN
  /\ client' = current
  /\ Step(c, "client", [calls[c] EXCEPT !.pc = "stream", !.cfg = current])
  /\ UNCHANGED <<configured, audit, unsettled>>

-----------------------------------------------------------------------------
(* runStream.                                                              *)

ReceiveUsage(c) ==
  /\ calls[c].usage = 0 /\ Step(c, "stream", [calls[c] EXCEPT !.usage = 1])
  /\ UNCHANGED <<configured, client, audit, unsettled>>

(* The run is cancelled.                                                   *)
CancelCall(c) ==
  /\ ~calls[c].cancelled
  /\ Step(c, "stream", [calls[c] EXCEPT !.cancelled = TRUE])
  /\ UNCHANGED <<configured, client, audit, unsettled>>

(* The stream ends, or breaks, or the answer is empty.                     *)
EndStream(c) ==
  /\ \E failed \in BOOLEAN :
       /\ calls[c].cancelled => failed
       /\ Step(c, "stream", [calls[c] EXCEPT !.pc = "audit", !.failed = failed,
                                           !.cancelled = FALSE])
  /\ UNCHANGED <<configured, client, audit, unsettled>>

UsageIfItWorked(c) == IF calls[c].failed THEN 0 ELSE calls[c].usage

(* usageFrom: what has arrived counts, whatever became of the call.        *)
UsageFrom(c) == calls[c].usage

(* Complete hands the call to recordLLMCall, whose context outlives a      *)
(* cancellation; when its statement fails the row is missing.              *)
RecordCall(c) ==
  /\ Step(c, "audit", [calls[c] EXCEPT !.pc = "idle", !.failed = FALSE])
  /\ \E row \in {Lost, [usage |-> UsageFrom(c), price |-> calls[c].cfg.price]} :
       audit' = [audit EXCEPT ![c] = row]
  /\ UNCHANGED <<configured, client, unsettled>>

ModelNext ==
  \/ \E setting \in {"model", "price"} : ChangeSettings(setting)
  \/ \E tail \in Tails : RotateKey(tail)
  \/ \E c \in Callers : \/ ReadKey(c) \/ ReadModel(c) \/ ReadPrice(c) \/ TakeClient(c)
                        \/ ReceiveUsage(c) \/ CancelCall(c) \/ EndStream(c) \/ RecordCall(c)

ModelSpec == ModelInit /\ [][ModelNext]_modelVars

-----------------------------------------------------------------------------
(* Properties.                                                             *)

(* A call starts with the settings as they are, all of them, unless one was*)
(* saved while the caller read them: a client that another caller has just *)
(* built from older ones, or from some of each, is never kept.  What may be*)
(* kept is a client whose key has been replaced by one that looks like it: *)
(* the rest of it is as configured.                                        *)
ClientFollowsSettings ==
  [][\A c \in Callers \ unsettled :
       calls[c].pc = "client" /\ calls'[c].pc = "stream" =>
         \/ calls'[c].cfg = configured
         \/ calls'[c].cfg = client /\ Fingerprint(client) = Fingerprint(configured)]_modelVars

(* A call that has used tokens is never recorded as free, and it is charged*)
(* at the price it began with: a failed or cancelled one too, and one whose*)
(* price was changed meanwhile.                                            *)
NoCallIsFree ==
  \A c \in Callers : calls[c].pc = "idle" /\ calls[c].usage = 1
    => audit[c] \in {Lost, [usage |-> 1, price |-> calls[c].cfg.price]}
=============================================================================
