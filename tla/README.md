# Doot, verified: TLA+ beside the code

Doot is a single-operator coding agent: one Go process, one SQLite (Turso)
database, one sandbox, one conversation, and a web page that follows what
happens through server-sent events. This directory holds models of its parts, the
TLC runs that check them and the TLAPS proofs about them. Paths below are under
`src/`; `PROJECT.json` maps every definition to the lines it models, lists the
hazards the properties are for, and pairs each property with a faulty variant of
the code that breaks it.

## Inventory

| Part | State | Operations | Hard behaviour | What makes it correct | Modules |
|---|---|---|---|---|---|
| **Run control** `internal/agent/{service,loop,store}.go` | `runs` table; `cancels` map; loop goroutines | SendMessage, CreatePlan, ApprovePlan, RejectPlan, Pause, Resume, Cancel, ClearConversation; turns and tool calls; Close, boot | requests and loops are sequences of unlocked statements; blind writes by run id; contexts cancelled under a writer; crash | one slot; status and slot agree; a running run is executed; pause and cancel take effect; an outcome that comes late has a cause | `RunControl`, `RunSlot` |
| **Event stream** `internal/events/events.go`, `internal/web/handlers_sse.go`, `static/js/app.js` | `events` table; subscriber channels; resume points | Append, Publish, Subscribe, CanReplay, Since, live loop; reload, reconnect; PruneEvents | insert and publish are two steps; drop at a full channel; seam of replay and live; pruning; failing queries | in order, at most once; nothing lost but for a reason of the design; nothing left behind | `EventStream` |
| **Chat screen** `internal/web/handlers_screens.go`, `static/js/app.js` | what a page has rendered, what it was sent since, a streaming bubble | three reads, then the stream; delta, message, status, new epoch; reload | the reads are three statements; recording and announcing are two; half an answer when a run fails | nothing falls between page and stream; an old epoch has a cause; half an answer goes | `ChatScreen` |
| **Conversation** `internal/agent/{service,loop,store,compaction}.go` | messages, epochs | append, the note of a decision, turn, tool calls and replies, compact, clear | messages arriving during a compaction or at the end of a run; a start that fails after the message was recorded; stale epochs; pause in the middle of a batch | replies follow their turn; nothing said is forgotten; nobody is left waiting but for a named reason | `Conversation` |
| **Goal plans** `internal/agent/{plans,tools_plan}.go` | plans and tasks, by epoch | create, approve, reject, update task, goal_complete | check-then-set; tools called that were not offered; lookup by epoch across a compaction | no plan moves on unapproved; a rejection holds | `Plans` |
| **Model calls** `internal/llm/llm.go`, `agent/service.go`, `agent/store.go` | cached client and its fingerprint; audit rows | LLM, Complete, recordLLMCall | settings read one by one during a save; a fingerprint that drops most of the key; a stream that breaks off; cancellation | the client follows the settings but for a key that looks alike; no tokens go unrecorded | `ModelCalls` |
| **Subagents, artifacts** `internal/agent/{subagents,artifacts}.go` | the verifier's loop; a ring of frames | review, verify, screenshots | budget, malformed answers, ring at its limit, restart | no false pass; what is announced is served | `Subagents` |
| **Sandbox lifecycle** `internal/project/service.go`, `internal/daytona/sandbox.go` | project row, busy flag, sandboxes at the provider | Create, Reset, Delete, Start, Stop, StartDesktop, Refresh, wake-ups | provisioning in the background under a deadline; writers without the flag; restart half way | one operation at a time; no sandbox forgotten; no unexplained provisioning; one sandbox after another; operations end; the row catches up | `Project`, `SandboxLease` |
| **Desktop** `project/service.go`, `daytona/{computeruse,preview}.go`, `handlers_screens.go` | desktop status, signed link | StartDesktop, StopDesktop, the desktop screen, Reset | start, stop and reset crossing a screen that signs a link | the frame that is embedded can connect | `Desktop` |
| **Repository** `daytona/git.go`, `agent/service.go`, `internal/github` | working tree, work branch at the remote, pull request, `pushes` | write, commit, push, open or find a pull request | a reset between pushes; a lost answer | pushed work stays; the pull request is known | `Repository` |
| **Heartbeat** `daytona/heartbeat.go`, `project/service.go` | one goroutine, one stop function | StartHeartbeat, StopHeartbeat | old and new goroutine share a field; an ending loop stops the next one's beat | it can be stopped; it lives as long as the run | `Heartbeat` |
| **Authentication** `internal/auth`, `handlers_auth.go` | users, sessions, limiter | login, logout, change of password, sweep, reset | revocation in a statement of its own; attempts let in at the limit | a changed password revokes; failures are bounded | `Accounts` |
| **Configuration** `internal/config/store.go` | tables, a cache per process | Set, SetMany, secrets, Load, seeding | commit and cache are two steps; two processes at a deploy | a section is whole; cache and table agree; the operator's secret stays | `Settings` |
| **Migrations** `internal/db/migrate.go` | `schema_migrations`, the files | Migrate, confirmPeerApplied, splitStatements | two machines at a deploy; lost answers; two builds that disagree; a hand-written splitter | applied whole, once, in order; everybody serves its own schema; cut at the statements | `Migrations`, `SchemaLog`, `Statements` |
| **Boot** `cmd/doot/main.go`, `internal/bootstrap` | – | connect, migrate, seed, reconcile, prune, serve; shutdown | order; what a crash left | no request before reconciliation | in the modules above |
| Database connection, sealing, tools for development, rendering | – | I/O, cryptography, formatting | – | – | none, see below |

How they interact: a request handler calls the agent service, which writes
messages and the run's row, launches a loop, starts the heartbeat and appends
events. The loop talks to the model through the cached client, runs tools against
the sandbox, records messages, plans and tool calls, and ends by writing the run's
row. Pause goes through the row, Cancel through the context and the row.
Everything visible is an event: inserted, then offered to the connected pages.
Operations on the sandbox take a busy flag in memory, work in the background and
record what they find in the project row, which screens and the agent read (and
sometimes write) without the flag. At boot the schema is migrated, secrets are
seeded, runs left running are marked interrupted and the event log is pruned
before requests are served.

## Modules

In all of them one SQL statement, one transaction, one call to the outside, or one
critical section of a mutex is one action; a handler or goroutine passes from one
to the next through its `pc`, and others step in between. Failing statements,
lost answers, crashes and restarts are alternatives of the actions they hit, and
a bound limits how many there are. Variables marked *history* record why a
property may be excused, at the step where the code lets it go.

* `RunSlot` – the abstract specification of the runs table: a slot with one holder,
  taken when free and given back before another takes it. This is what
  `idx_runs_one_active` is there for.
* `RunControl` – the runs and everything that acts on them: `runs` (the table),
  `cancels`, `loops` (goroutines in `Service.run`, with the place they have
  reached, whether their context is `live`, and the outcome they unwind with),
  `requests`, `planPending`, `process`, `faults`, and two histories: the
  goroutines whose run was taken from them (`stopped`) and those whose entry of
  the map another one deleted (`lost`). `Resume`, `Start`,
  `LaunchLoop`, `Pause`, `CancelContext`, `CancelRow`, `ApprovePlan`, `LookUpRun`
  are the statements of the handlers, `Decide` what a handler does with its
  answer from `activeRun`; `BeginTurn`, `ModelTurn`, `BeginCall`, `ToolCall`,
  `Finish`, `Exit` the loop; `Close`, `Crash`, `Boot` the process. It is checked
  through `MCRunControl`, which names goroutines and requests and their symmetry,
  and implements `RunSlot`, with the rows that are active for its `holders`.
* `SandboxLease` – the abstract specification of what the operations on the project
  promise whoever pays for sandboxes: one is created only when none is alive, and
  one that is gone never comes back.
* `EventStream` – log, broker, handler and page. `AppendEvent` and `Publish` are
  the halves of `Log.Append`; `Connect`, `CheckWindow`, `Replay`, `WriteReplayed`,
  `TakeLive` the handler; `Deliver` also does what the page does with a frame;
  `Navigate`, `Reload`, `Disconnect` are the page and its network; `Restart` is
  boot with pruning. One client stands for all, since `Publish` never blocks and
  clients share nothing but the table.
* `ChatScreen` – what a page shows, taking the stream to bring events in order and
  once. `LoadView`, `ReadLatest`, `ReadMessages` are the three statements of
  `handleChat`, in the order of `ThenRead`; `Receive` is `dispatch` in the page;
  `OpenChat` a visit or a reload. `rows` and `log` are the messages and events.
  A request records (`RecordSaid`) and announces (`TellSaid`) what the operator
  says; the loop streams (`EmitDelta`), records and announces its answers and
  notes, and ends with a status (`LeaveLoop` ... `TellStatus`); `RollToCompact`,
  `RecordTheSummary`, `TellCompacted` are `compact`, `RollToClear`, `TellCleared`
  ClearConversation. Who may start the loop is left to `RunControl`.
* `Conversation` – `messages`, the `epoch`, one turn `loop`, the `senders` of
  messages, a compaction and a clear. `ReadEpoch`, `RecordMessage`, `LaunchLoop`
  are SendMessage and CreatePlan. ApprovePlan and RejectPlan record a note in the
  epoch of their plan (`DecidePlan`); an approval goes on to `LaunchLoop`, a
  rejection launches nothing. `LaunchLoop` may fail after the message is recorded,
  as `activeRun`, `resumeRun` and `startRun` may; what a decision does to its plan
  is that of `Plans`. `BeginTurn` sends the context to the model, `RecordTurn` its
  answer, `CallDone` and `RecordReply` a call; `ReadTranscript`,
  `RollForCompaction`, `RecordSummary` are `compact`; `ClearCancels`,
  `RollForClear` ClearConversation.
* `Plans` – `plans` with their tasks, by epoch, a `worker` that assembles a turn
  (`AssembleTurn`, `OfferTools`: two look-ups of the plan, with a batch of calls
  behind them) and calls the tools, also those it was not offered
  (`CreateGoalPlan`, `FindTask`, `SetTaskStatus`, `PlanInProgress`, `FindGoal`,
  `GoalComplete`), and `deciders` that approve (`LoadToApprove`, `ApprovePlan`)
  while `RejectPlan` and the rolls happen.
* `ModelCalls` – `configured` settings, the cached `client`, the `calls` in flight
  and the `audit`. `ChangeSettings` and `RotateKey` are saves, the latter to a key
  of which the fingerprint sees only the `tail`; `ReadKey`, `ReadModel`,
  `ReadPrice`, `TakeClient` are `LLM`, with `Fingerprint` and `SamePrint`;
  `ReceiveUsage`, `EndStream`, `CancelCall` the stream; `RecordCall` the row.
* `Subagents` – the verifier's loop with its budget (`BeginVerify`, `Decide`,
  `ApplyAction`, `BudgetSpent`), the reviewer, the store of frames (`Put`) and
  their announcement. A model's answer is one of the forms the code tells apart.
* `Project` – the `project` row, the `boxes` at the provider, the `busy` flag and
  `jobs`, a request together with the goroutine it leaves behind: `CreateRead`,
  `CreateInsert`, `LoadProject`, `Make`, `Record`, `Clone` provision, `ResetRead`,
  `Destroy`, `Clear` reset, `DeleteLookup`, `Drop` delete, `Attach`, `Wake`, `Halt`,
  `HaltEnds`, `Desktop`, `Settle`, `Release` the rest; `RefreshCheck`,
  `RefreshInfo`, `RefreshWrite` need no flag; `AutoStop`, `BoxSettles` are the
  provider, `AgentWakes` the tools, `ContextEnds` deadlines, `RestartProcess`.
  It implements `SandboxLease` with the sandboxes ever made for `made`, and those
  that exist and are not in `forgotten` for `alive`.
* `Desktop` – what the row says of the desktop, the stored link, and whether
  sandbox and desktop are really up; the operation in hand is one variable,
  because `Project` shows that they exclude one another. Viewers load, sign and
  store a link without the flag.
* `Repository` – working tree, `local` commits, the `remote` branch, the default
  branch (`base`), the open `pull` request, `push_branch` in its four steps
  (`Push`, `CreatePullRequest`, `FindPullRequest`, `RecordPush`) and the newest
  row of `pushes` (`told`). `SetupRepo` clones again after a reset.
* `Heartbeat` – the field `hbCancel`, the goroutines (`beats`, of which a
  stopped one lives on for the length of a touch), the loops (`drivers`) that
  start and stop them, and the operations that stop them.
* `Settings` – the table, a cache per process, savers in their transaction and
  on their way to the cache; secrets, the seeds a boot has found missing, and
  the process that it replaces still running.
* `SchemaLog` – the abstract specification of what the migrations promise: the
  schema grows by whole files in their order, each in one step with its record,
  and nothing recorded changes.
* `Migrations` – the recorded `schema`, what was `executed`, the `holder` of the
  write lock with its `draft`, and machines that read, claim, execute, commit,
  lose the answer, wait for a peer, or die. It implements `SchemaLog`.
* `Statements` – `splitStatements`: one step per character, which sees one
  character ahead, with an action for each thing the scan may be inside of. The
  file is a sequence of tokens (literals, quoted identifiers, comments, ends,
  single characters), chosen as far as the scan sees; `piece` and `pieces` are
  what the statements ought to be by what the tokens mean.
* `Accounts` – the password, the sessions with the password each was issued
  against, visitors signing in and changing the password, the limiter's record of
  one key.
* `Workbench`, `Services` and `Frontend` (`EventStream` and `ChatScreen`) put the
  modules above into one run each. A behaviour takes one `part` and leaves the
  others as they began, so that the state space is the sum of theirs, and what
  holds of the sum holds of every part.
* `RunControlProofs`, `EventStreamProofs`, `ProjectProofs`, `PlansProofs`,
  `ConversationProofs` – theorems about the module each is named for, the second
  also about `ChatScreen`;
  `ModelProofs` about `ModelCalls` and `Subagents`, `WorkspaceProofs` about
  `Heartbeat`, `Repository` and `Desktop`, `PlatformProofs` about `Settings`,
  `Accounts`, `Migrations` and `Statements`.

Where one module relies on another it says so in its head: `Conversation` and
`Plans` let a cancelled loop just end, since its last write is refused
(`WriteGoesThrough` of `RunControl`); `Desktop` has one operation at a time, which
is `OneAtATime` of `Project`; `Conversation` and `ChatScreen` have one turn loop
and leave to `RunControl` who may start it; `ChatScreen` gets its events in order
and once, which is `InOrderOnce` of `EventStream`, and what a connection may
withhold stays there.

Operators that no specification uses (`NoUniqueIndex`, `AcquireAnyway`,
`ForgetSandboxID`, `SkipCache`, `Forced`, `CancelOnly`, `ReplyToCurrent`, ...) are
faulty variants of the definition that follows each: put in its place, the
property paired with it in `PROJECT.json` fails, which shows that the property
depends on that line of code.

## Runs

| Run | Bounds | Shows | Time |
|---|---|---|---|
| `runs` | 2 runs, 2 goroutines, 2 requests, 1 failing statement, not all at once (`OneComplication`) | `SlotIsHandedOver`: the table implements `RunSlot`, and so has one holder at most; `SlotMatchesStatus`, `CancelEntryIsLive`, `RunningIsExecuted`; `LateOutcomeHasACause`, a goroutine whose run was resumed, cancelled or shut down writes its outcome for two reasons only | 125 s |
| `stop` | 1 run, 2 goroutines, 1 request, fair | `StopTakesEffect` | 70 s |
| `stream` | *stream*: 4 events, 2 publishers, channel of 1, replay of 2, 2 kept, 1 failing query, fair; *chat*: 1 request, 1 message, 2 events, 2 epochs, 1 failing statement or crash | `InOrderOnce`, `GapHasACause`, `NothingLingers`; `NothingFallsBetween`, `OldEpochHasACause`, `HalfAnswerIsUnderWay` | 120 s |
| `workbench` | see below | fifteen properties of the seven modules around the agent | 170 s |
| `services` | see below, fair | thirteen properties of the six modules around them | 60 s |
| `interrupted`, `lost_entry`, `resume_point`, `reload_once`, `unanswered`, `plan_lost`, `unapproved_work` | as small as the scenario allows | one statement of the repository each, violated | seconds |

`workbench`, by part:

* *project* (2 jobs, 2 sandboxes, 1 mishap): `OneAtATime`, the busy flag excludes
  and is always given back by the one who took it; `NoSandboxForgotten`, a
  sandbox that exists is named by the row but for named reasons;
  `ProvisioningHasACause`, a row left provisioning is the trace of a crash, an
  expired context, a failed write or a flag that was taken;
  `OneSandboxAfterAnother`, it implements `SandboxLease`.
* *desktop* (1 viewer, 2 rebuilds, 1 glitch): `FrameConnects`.
* *repository* (3 commits, 2 pull requests, 2 outages): `PushedWorkStays`,
  `PullRequestIsKnown`.
* *conversation* (1 sender, 3 epochs, 3 messages, 2 calls in a turn, 1 slip):
  `BatchIsKept`, the replies to a turn follow it in its epoch, once for each call,
  and none is missing but of a batch that was broken off; `NothingIsForgotten`;
  `NobodyIsLeftWaiting`, every message has been in a request to the model, but
  those never in the live context, those that came after the last request of the
  run that was to carry them, and those no run was started for.
* *plans* (1 approval under way, 2 plans of 1 task, 2 epochs):
  `UnderwayIsApproved`, a plan that has moved on, and one whose tools a turn was
  offered, was approved.
* *model* (2 callers, each setting changed once, two tails of the key):
  `ClientFollowsSettings`, a call starts with the settings as they are, or with a
  client that differs in a key that looks alike; `NoCallIsFree`.
* *subagents* (budgets to 2, 2 frames kept, 4 ever): `NoFalsePass`,
  `FramesAreServed`.

`services`, by part:

* *migrations* (2 machines, 2 files of 2 statements, 2 attempts at the lock, 2
  crashes): `SchemaGrowsByFiles`, it implements `SchemaLog`; `ServesItsOwnSchema`,
  `EveryMachineServes`.
* *statements* (every file of up to 4 of 11 tokens, which hide one another's
  marks): `SplitsAtStatements`.
* *settings* (2 keys, 1 secret, 2 processes, 2 savers, 2 saves, 2 rotations, 1
  restart): `SectionIsWhole`, `CacheFollowsTable`, `OperatorsSecretStays`.
* *accounts* (2 visitors, 2 failures, a window of 2, 2 changes, 2 sessions, 1
  lapse): `ChangeRevokes`, `FailuresAreBounded`.
* *heartbeat* (3 goroutines, 2 loops): `StoppableUnlessOverlapped`,
  `RunKeepsSandboxAwake`.
* *project* (1 job, 2 sandboxes, 2 mishaps, fair): `OperationEnds`,
  `RowCatchesUp`.

Why the bounds are enough. Two requests, jobs, savers or machines make every race
of a check with a write. Two goroutines of one run are what a resume during an
unwinding gives; three heartbeats are an old one on its way out, its successor and
the one that replaces it. Races about the slot need two rows, races about one
row's goroutines only one, and `OneComplication` of `MCRunControl` keeps `runs`
small by that: beside a second goroutine there is no second run, no failed
statement and no plan to approve, beside a second run no failed statement; the
states one step beyond are checked and not explored further. Two sandboxes are the
one that is replaced and the one that replaces it; three epochs are one that a
stale writer has read, the live one, and another after it. A channel of one and a
replay of two make both overflow. Four tokens hold a statement, its end, an
opening and a closing mark, and whatever may hide between them. One message, its
announcement, and a status or a delta are all that the properties of a page
relate, and a second epoch is one to miss; more of each is what the theorems are
for. `RunningIsExecuted` is a promise of a process whose statements succeed: a park
or finish that fails does leave a running row nobody executes until the next boot.
What `OneComplication` leaves out the theorems do not: they hold for any number
of runs, goroutines, requests and failures at once. All safety properties of these
runs, and the three refinements, are also proved for all values of the bounds.
Deadlock is checked in `RunControl` and `Frontend`. It is not where a bound ends
the behaviour for good (`CHECK_DEADLOCK FALSE` in `Workbench`, `Services`,
`Conversation` and `Plans`): a file of four tokens, a conversation of three
messages, machines that have all died.

Fairness. Weak fairness is assumed of goroutines and requests whose calls return,
and of nothing else: of each goroutine's and request's next step in `RunControl`
(model, sandbox and database calls carry time-outs); of the handler and the
publishers in `EventStream`, not of the network, the page or the restart, so that
`NothingLingers` promises delivery only as long as the connection holds; of each
machine's steps in `Migrations`; of the jobs and of a sandbox in transition in
`Project`. `RowCatchesUp` also assumes an operator who opens the project screen
again and again, because nothing else refreshes the row. No fairness is assumed of
operators otherwise, of failures, crashes, timers or the agent.

## Findings

* **Interrupted runs are not offered** (`interrupted`). Boot sets `active = 0`
  with the status, and all of Resume, Status and SendMessage look for
  `active = 1` (`internal/bootstrap/bootstrap.go:178`,
  `internal/agent/store.go:303`), against `docs/01-decisions.md:207-208`. The
  same row is not written at all at an orderly shutdown: `loop.go:68` uses the
  cancelled context.
* **The stop function of a live loop gets lost** (`lost_entry`). An ending
  goroutine deletes the entry of its successor (`service.go:499`), against
  `service.go:62-63`. Cancel then stops the loop at its next checkpoint only,
  which `StopTakesEffect` shows, and that loop's record of a pause overwrites
  the status cancelled.
* **A dropped event is not recovered** (`resume_point`). The connection stays open
  and later events move the resume point past the dropped one, against
  `events.go:207-209`.
* **Screens other than the chat reload for old events** (`reload_once`). They
  start at event 0 (`app.js:18-26`, `482`), against `app.js:191-193`.
* **A pause leaves calls unanswered** (`unanswered`). It is noticed between two
  calls of a batch, the rest gets no tool message, and the resumed run's request
  carries the unanswered calls (`loop.go:263`), against `loop.go:249-251`.
* **Work begins that nobody approved** (`unapproved_work`). A tool is looked up by
  name, whatever the turn was offered (`loop.go:342`), and `findTask` asks for no
  status of the plan (`tools_plan.go:326-337`). So a batch of calls that proposes
  a plan may start its tasks, against `tools_plan.go:16-17` and
  `docs/01-decisions.md:172`. The plan itself stays at its approval, which
  `UnderwayIsApproved` shows. `WorkIsApproved`, which the run refutes, still
  lets go of turns that were offered no tools for tasks (`uninvited`), so it takes
  a turn that has them for an approved plan.
* **A compaction hides the plan** (`plan_lost`). Plans are looked up by epoch and
  a compaction moves on to another one (`loop.go:366`, `plans.go:174-193`),
  against `loop.go:367-368`.

Met while modelling; the models follow the code, and these have no run:

* A second push with new commits is refused: `--force-with-lease` to a URL has no
  tracking branch to compare with (`daytona/git.go`), while `service.go:507-508`
  takes an existing pull request "on the second and later pushes" for the normal
  case. `LeaseHolds` of `Repository` is that refusal, and `PushedWorkStays` rests
  on it.
* A reset loses every unpushed commit and not one subtask
  (`project/service.go:389-391`, `docs/04-sandbox-and-git.md:311`): pushes are per
  goal, and the clone begins at the default branch. The rebase of
  `docs/04-sandbox-and-git.md:274-279` is implemented but called by nobody.
* A message sent while a run is under way may find that run past its last request,
  with no turn to come (`service.go:231-233` says the model sees it on its next
  turn). `NobodyIsLeftWaiting` excuses just those that came after the request,
  through `late`; one that came before it has to be carried.
* A message is recorded before the run is looked up, started or resumed
  (`service.go:217-239`), which may fail; nobody answers it then, although
  `service.go:206-207` checks the model first "so the operator is not left with a
  message that will never be answered". CreatePlan answers with an error when a
  run is under way, after it has recorded the message (`service.go:268-272`). The
  note of a rejection starts no run (`service.go:326-338`), so the model hears of
  it with the next message. `late` has them all when no run carries them.
* A rotated key that is as long as the old one and ends in the same four characters
  leaves the old client in use (`service.go:105-107`, `664-669`), while
  `service.go:56-57` says that editing settings takes effect without a restart.
  `ClientFollowsSettings` allows just this client.
* Between the write that resumes a run and the launch of its new loop, the old
  loop's park still reaches the row and undoes the resume; `LateOutcomeHasACause`
  names this window, and the lost entry above, as its two causes.
* During a deploy two processes run, so the cache of one goes stale behind its
  back (`config/store.go:51-52` says it cannot); `CacheFollowsTable` excuses it
  by name, through `stale`.
* A row in a transitional state is never refreshed (`handlers_screens.go:285`), so
  one that a crash left there stays; `RowCatchesUp` excludes these states.
* The event that announces a compaction has a `state` where the page looks for a
  `status` (`compaction.go:75-78`, `app.js:153`), so the run's pill shows its JSON.
* A page can miss that its epoch was closed. `handleChat` reads the epoch
  (`handlers_screens.go:79`) before the newest event id (line 86); a clear that is
  made and announced between the two is behind the resume point and not rendered,
  so the page shows the closed conversation and does not reload, while line 114
  says that the messages are those of the live one. `OldEpochHasACause` excuses
  this window by name; with the event id read first the model has no such state.
* A message recorded and announced between the page's second and third read is
  shown twice, the price of not missing it (`handlers_screens.go:84-94`).
* `LoginLimiter.Sweep` has no caller (`auth/ratelimit.go:81`), so the map grows.
* A reviewer's answer without a verdict counts as clean (`subagents.go:208`).
* `project.Service.Client` closes the previous client while others may use it
  (`project/service.go:113-117`).
* A gap too large to replay is silently cut to the oldest part that fits, and no
  reload is sent, against `docs/03-ui.md:185`.

## Proofs

Every theorem holds for all values of the constants that its module's ASSUME
allows. For most of them the property is not inductive as it stands, and the
strengthening is the point:

* `RunControlProofs`, from `BoundsAssumption` and `NoneAssumption`: `TypeCorrect`,
  `OneSlot`, `StatusAgreesWithSlot`, `EntriesAreLive`, `RunsAreExecuted`, the
  action property `LateOutcomesAreExplained`, and `SlotImplemented`, the refinement
  of `RunSlot`, which contains `OneSlot`. `TableOK` needs to know that a request
  or loop that writes by id names a row that exists (`RequestsOK`, `PoolOK`),
  since a blind park of a row that was never inserted would break
  `SlotMatchesStatus`. `CancelEntryIsLive` is in `PoolOK` with the typing of
  goroutines, and it is what `RunsAreExecuted` turns on: a context that is ended
  is that of the run which gets a new goroutine or whose row is about to be
  finished, never another's. `LateOutcomesAreExplained` needs that whoever executes
  a run under a live context is the one its entry names, or its entry was deleted by
  another (`lost`), or a request is about to launch: so whatever takes the run
  from a goroutine ends its context too. The refinement follows from the same
  invariant: a step that changes the holders either finds no active row and makes
  one, or ends the one there is.
* `EventStreamProofs`, from `StreamAssumption`: `EventsComeInOrder` rests on one
  fact about both ends of the connection, that the page never remembers more
  than the handler has sent (`HandlerKeepsUp`). `GapsHaveACause` follows an event
  on its way: what lies ahead of the page is unpublished, in the channel, to be
  replayed, or excused (`OnItsWay`), with the channel in the order of what is
  ahead (`ChannelInOrder`) and nothing pruned but behind (`PrunedBehind`). About
  `ChatScreen`, from `ChatAssumption`: `MessagesAreShown`, `OldEpochsAreExplained`,
  `HalfAnswersEnd`. Messages and events are only ever added (`GoesOn`), so what a
  page knows of them stays true. Every epoch after the first is announced, about
  to be, or accounted for (`RollsAreTold`); every delta is followed by what retires
  it, unless its answer goes on or was torn (`DeltasAreRetired`); and `ViewOK` has
  for each stage of the page's reading what it has seen and what is ahead of it.
* `ProjectProofs`, from `ProjectAssumption`: `OperationsExclude`,
  `SandboxesAreKept`, `ProvisioningIsExplained`, and `SandboxesSucceed`, the
  refinement of `SandboxLease`. A job that holds the flag may
  rely on what it has seen of the row, because all who write the row's sandbox
  hold the flag too; `Knows` says what a job at each place relies on, so
  exclusion has to come first in the invariant. The refinement rests on two
  consequences of it, that at most one sandbox is accounted for (`AliveIsOne`) and
  none while one is being made (`NoneAlive`): all steps but `Make` make none and
  revive none (`Traced`, `NoneMade`), and those of `Make` are the abstract ones.
* `PlansProofs`, from no assumption: `UnderwayWasApproved` follows an approval
  through the plan's status, the tools the turn was offered, and the status the
  call in hand has read, which a call that was not offered has read too
  (`StatusIsEarned`, `OfferIsEarned`, `CallIsEarned`, `DecisionIsDue`);
  `RejectedPlansStay` is an action property that no run repeats.
* `ConversationProofs`, from `ConversationAssumption`, in two invariants.
  `BatchInv` gives `BatchesAreKept`: the
  replies to the turn in hand are those to its first `done` calls, no more
  (`BatchOK`), and a turn without all of its replies is the one in hand or was
  cut (`CutOK`). `TalkInv` gives `WordsAreKept` and `WordsAreCarried`: nobody is
  ahead of the epoch (`EpochsOK`), a draft has all that the summaries of the epoch
  to close cover, and one whose new epoch was closed in its turn has nothing said
  since (`DraftOK`); every message there was when a turn last began has been sent
  or was never in the live context, and with no loop every other one has a request
  about to launch one for it, or is in `late` (`WaitingOK`). The draft is what
  makes it hard: without `DraftOK` a second compaction could drop what only a
  first one's summary had.
* `ModelProofs`, from `LimitAssumption` (of `Subagents`; `ModelCalls` needs none):
  `CallsArePaidFor` and the action property `ClientsFollowSettings`, because what
  a caller has read so far is what is configured unless a setting was saved
  meanwhile (`ReadingIsCurrent`), so that a client that is kept has the fingerprint
  of what is configured; `PassesAreEarned`, because no verdict is told
  while the verifier is at work (`NothingToldYet`); `AnnouncedFramesAreServed`,
  because the store holds just the newest frames, in order (`FramesInv`).
* `WorkspaceProofs`. *Heartbeat*, from `BeatsAssumption`: `BeatsCanBeStopped`,
  `RunsKeepSandboxAwake`; a goroutine that the field names while another is on its
  way out was started in that one's time (`NamedWasOverlapped`). *Repository*,
  from no assumption: `PushedWorkIsKept` (a branch that is not there has nothing,
  and git refuses to replace one that is) and `PullRequestsAreKnown` (push_branch
  has learnt of the pull request by the time it records it, unless something
  failed since it pushed). *Desktop*, from no assumption: `FramesConnect`; whoever
  takes the processes or the sandbox away has given a reason or is the operation
  that has yet to write the row (`StatusOK`, `LinkOK`), and the row of a reset
  names the sandbox that was destroyed, or none (`RebuildOK`).
* `PlatformProofs`. *Settings*, from `KeysAssumption`: `SectionsStayWhole`,
  `CacheAgrees`, `OperatorWins`; a cache that does not agree yet has one saver on
  its way to it, and the table holds what that saver wrote (`CachesFollow`).
  *Accounts*, from `AccountsAssumption`: `ChangesRevokeSessions`; `LimiterBounds`
  counts every attempt under way as if it were to fail. *Migrations*, from
  `MigrationAssumption`: `MigrationsAreApplied`, `MachinesServeTheirSchema`, and
  `SchemasGrow`, the refinement of `SchemaLog`. Whoever executes a body holds the
  lock, and its version is still free (`LockOK`); what is drafted is the beginning
  of that file (`DraftOK`); what a machine has read of the table, and the files
  before the one at hand, stay as it knows them (`ProgressOK`). A file is as long
  as `Body`, so that the place of a statement is found by dividing (`Places`,
  `Divides`). What is committed is then the whole of the next file
  (`DraftIsTheFile`, `CommitApplies`), and every other step leaves schema and
  records alone (`SchemaStep`). *Statements*, from `TokensAssumption`:
  `StatementsAreFound`, for files of any length over any tokens that are well
  formed; the place in the token determines what the scan is inside of and what it
  has kept of it (`StatementsInv`). Only at the end of a literal does the scan
  depend on what follows: another one, and it goes on inside, as after a doubled
  quote.

The assumptions say that bounds are natural numbers, that a file has at least one
statement and the lock is tried at least once, that what stands for nobody is none
of the values it is told from, and that tokens are formed by the rules of SQL (a
literal ends at its first closing mark, a comment at its first end). TLC evaluates
each in the runs above.

Only model-checked: the liveness properties (`StopTakesEffect`, `NothingLingers`,
`EveryMachineServes`, `OperationEnds`, `RowCatchesUp`), since fairness is outside
the prover. Every other property of a passing run is a theorem.

## Not modelled

* Rendering, routing, cookies, templates and the server's time-outs
  (`internal/web`, `cmd/doot`): no state of theirs outlives a request. Of the page,
  `ChatScreen` has messages and deltas; tool rows, usage, screenshots, previews and
  plan cards are drawn from one event each.
* Sealing of secrets and hashing of passwords: cryptography over bytes.
* The database connection and the HTTP plumbing of the clients: a call is one
  step that works, fails, or whose answer is lost, where it is made.
* The conversion of messages to and from the model's SDK, the wording of prompts,
  the limits on what a compaction renders and the extraction of JSON: formatting.
* Sandbox tools that only read, input events, process execution and file
  transfer: calls of the provider with formatting of the answers.
* The notes that `ask_human` and `goal_complete` record between a call and its
  reply (`tools_plan.go:262`); `Conversation` has calls and replies only.
* The form for the build settings, the rerun of the setup script and the
  geometry of the display: single statements without a condition.
* The icon generator and the stubs for tests.

What would come next: an abstract specification for `Conversation` (what the
operator said, and what the model has heard of it), which its invariants now come
close to.
