------------------------------ MODULE Desktop ------------------------------
(***************************************************************************)
(* What the project row says of the sandbox's desktop, and the link to it  *)
(* that the desktop screen embeds (internal/project/service.go,            *)
(* internal/daytona/computeruse.go and preview.go, handleDesktop of        *)
(* internal/web/handlers_screens.go).                                      *)
(*                                                                         *)
(* Start, stop, reset and the start of the desktop exclude one another     *)
(* (Project: OneAtATime), so one operation stands for them; a screen, a    *)
(* refresh, the stop of the desktop and the agent take no flag.  One       *)
(* statement or one call to the provider is one action.                    *)
(***************************************************************************)
EXTENDS Naturals

CONSTANTS
  Viewers,      \* requests for the desktop screen
  MaxRebuilds,  \* bound: sandboxes ever created
  MaxGlitches   \* bound: calls and statements that fail

VARIABLES
  row,          \* [box, state, status, link, fresh]: link is the sandbox the stored link
                \* leads to, 0 none; fresh is false when it is about to expire
  awake,        \* the sandbox runs
  up,           \* its computer-use processes run
  op,           \* [kind, pc, box]: the operation that holds the busy flag
  viewers,      \* [pc, box]: a request, and the sandbox it has a link to
  stopping,     \* a StopDesktop has stopped the processes and is to record it
  refreshing,   \* a Refresh has stored another state and is to clear the status
  doubts,       \* history: why the status may claim too much
  strays,       \* history: why the link may lead elsewhere
  glitches

desktopVars == <<row, awake, up, op, viewers, stopping, refreshing, doubts, strays, glitches>>

Idle == [kind |-> "none", pc |-> "idle", box |-> 0]
NoViewer == [pc |-> "idle", box |-> 0]

(* A sandbox has been provisioned.                                         *)
DesktopInit ==
  /\ row = [box |-> 1, state |-> "started", status |-> "", link |-> 0, fresh |-> FALSE]
  /\ awake = TRUE /\ up = FALSE /\ op = Idle
  /\ viewers = [v \in Viewers |-> NoViewer]
  /\ stopping = FALSE /\ refreshing = FALSE
  /\ doubts = {} /\ strays = {} /\ glitches = 0

Glitch == glitches < MaxGlitches /\ glitches' = glitches + 1

OpAt(kind, pc) == op.kind = kind /\ op.pc = pc
OpTo(pc) == op' = [op EXCEPT !.pc = pc]

(* The sandbox the row names is there, and not being destroyed (that this  *)
(* fails is Project's matter).                                             *)
Reachable == row.box # 0 /\ (op.kind = "reset" => row.box # op.box)

(* Project.DesktopReady.                                                   *)
DesktopReady == row.state = "started" /\ row.status = "running"

(* setDesktopStatus: a failure is logged, and that is all.                 *)
SetDesktopStatus(status) ==
  \/ row' = [row EXCEPT !.status = status] /\ doubts' = {} /\ UNCHANGED glitches
  \/ Glitch /\ doubts' = doubts \cup {"write"} /\ UNCHANGED row

(* The second statement of refreshVNCPreview writes to whatever sandbox the*)
(* row names by now.                                                       *)
StorePreview(box) ==
  /\ row' = [row EXCEPT !.link = box, !.fresh = TRUE]
  /\ strays' = IF Reachable /\ box = row.box THEN {} ELSE {"late"}

-----------------------------------------------------------------------------
(* StartDesktop: the sandbox is attached to and woken, ...                 *)
BeginStartDesktop ==
  /\ op = Idle /\ row.box # 0
  /\ op' = [kind |-> "desktop", pc |-> "ensure", box |-> row.box] /\ awake' = TRUE
  /\ UNCHANGED <<row, up, viewers, stopping, refreshing, doubts, strays, glitches>>

(* ... the processes are started, which are left as they are when they run,*)
EnsureDesktop ==
  /\ OpAt("desktop", "ensure")
  /\ \/ awake /\ up' = TRUE /\ OpTo("status") /\ UNCHANGED <<row, doubts, glitches>>
     \/ /\ op' = Idle /\ UNCHANGED up
        /\ \/ ~awake /\ SetDesktopStatus("error")
           \/ Glitch /\ row' = [row EXCEPT !.status = "error"] /\ doubts' = {}
  /\ UNCHANGED <<awake, viewers, stopping, refreshing, strays>>

(* ... and recorded, though they may have been stopped meanwhile, ...      *)
RecordRunning ==
  /\ OpAt("desktop", "status") /\ OpTo("sign")
  /\ \/ /\ row' = [row EXCEPT !.status = "running"] /\ UNCHANGED glitches
        /\ doubts' = IF up /\ ~stopping THEN {} ELSE {"crossed"}
     \/ Glitch /\ UNCHANGED <<row, doubts>>
  /\ UNCHANGED <<awake, up, viewers, stopping, refreshing, strays>>

(* ... and a link is issued.                                               *)
IssueLink ==
  /\ OpAt("desktop", "sign") /\ op' = Idle
  /\ \/ StorePreview(op.box) /\ UNCHANGED glitches
     \/ Glitch /\ UNCHANGED <<row, strays>>
  /\ UNCHANGED <<awake, up, viewers, stopping, refreshing, doubts>>

-----------------------------------------------------------------------------
(* Start, and Stop of the sandbox: the processes do not survive a stop, so *)
(* whatever the row says of them is taken back.                            *)
BeginSwitch(kind) ==
  /\ op = Idle /\ row.box # 0 /\ op' = [kind |-> kind, pc |-> "status", box |-> row.box]
  /\ awake' = (kind = "start") /\ up' = (up /\ kind = "start")
  /\ UNCHANGED <<row, viewers, stopping, refreshing, doubts, strays, glitches>>

SwitchStatus ==
  /\ op.kind \in {"start", "stop"} /\ op.pc = "status" /\ SetDesktopStatus("") /\ OpTo("state")
  /\ UNCHANGED <<awake, up, viewers, stopping, refreshing, strays>>

SwitchState ==
  /\ op.kind \in {"start", "stop"} /\ op.pc = "state" /\ op' = Idle
  /\ \/ row' = [row EXCEPT !.state = IF op.kind = "start" THEN "started" ELSE "stopped"]
        /\ UNCHANGED glitches
     \/ Glitch /\ UNCHANGED row
  /\ UNCHANGED <<awake, up, viewers, stopping, refreshing, doubts, strays>>

(* The wait for the stop fails when the agent wakes the sandbox meanwhile, *)
(* or by itself: nothing is recorded, and the processes are gone.          *)
StopFails ==
  /\ OpAt("stop", "status") /\ op' = Idle /\ doubts' = doubts \cup {"crossed"}
  /\ (awake /\ UNCHANGED glitches) \/ Glitch
  /\ UNCHANGED <<row, awake, up, viewers, stopping, refreshing, strays>>

(* Reset: the old sandbox is destroyed, ...                                *)
BeginRebuild ==
  /\ op = Idle /\ row.box \in 1..(MaxRebuilds - 1)
  /\ op' = [kind |-> "reset", pc |-> "clear", box |-> row.box]
  /\ awake' = FALSE /\ up' = FALSE
  /\ UNCHANGED <<row, viewers, stopping, refreshing, doubts, strays, glitches>>

KeepLink ==
  /\ row' = [row EXCEPT !.box = 0, !.state = "provisioning", !.status = ""]
  /\ doubts' = {} /\ UNCHANGED strays

(* clearSandbox.                                                           *)
ClearFields ==
  /\ row' = [box |-> 0, state |-> "provisioning", status |-> "", link |-> 0, fresh |-> FALSE]
  /\ doubts' = {} /\ strays' = {}

(* ... all that was known of it is cleared, or the failure is logged, ...  *)
ClearRow ==
  /\ OpAt("reset", "clear") /\ OpTo("record")
  /\ \/ ClearFields /\ UNCHANGED glitches
     \/ /\ Glitch /\ UNCHANGED row
        /\ doubts' = doubts \cup {"write"} /\ strays' = strays \cup {"write"}
  /\ UNCHANGED <<awake, up, viewers, stopping, refreshing>>

(* ... and another one takes its place, under its own id.                  *)
RecordRebuilt ==
  /\ OpAt("reset", "record") /\ op' = Idle
  /\ row' = [row EXCEPT !.box = op.box + 1, !.state = "started"] /\ awake' = TRUE
  /\ UNCHANGED <<up, viewers, stopping, refreshing, doubts, strays, glitches>>

-----------------------------------------------------------------------------
(* handleDesktop and VNCURL: a link that is stored and not about to expire *)
(* is served, ...                                                          *)
LoadDesktop(v) ==
  /\ viewers[v].pc = "idle" /\ DesktopReady /\ ~(row.link # 0 /\ row.fresh)
  /\ viewers' = [viewers EXCEPT ![v].pc = "sign"]
  /\ UNCHANGED <<row, awake, up, op, stopping, refreshing, doubts, strays, glitches>>

(* ... otherwise one is issued for the sandbox the row names now, ...      *)
SignLink(v) ==
  /\ viewers[v].pc = "sign"
  /\ \/ Reachable
        /\ viewers' = [viewers EXCEPT ![v] = [pc |-> "store", box |-> row.box]]
     \/ viewers' = [viewers EXCEPT ![v] = NoViewer]
  /\ UNCHANGED <<row, awake, up, op, stopping, refreshing, doubts, strays, glitches>>

(* ... and stored.                                                         *)
StoreLink(v) ==
  /\ viewers[v].pc = "store" /\ viewers' = [viewers EXCEPT ![v] = NoViewer]
  /\ \/ StorePreview(viewers[v].box) /\ UNCHANGED glitches
     \/ Glitch /\ UNCHANGED <<row, strays>>
  /\ UNCHANGED <<awake, up, op, stopping, refreshing, doubts>>

LinkAges ==
  /\ row.fresh /\ row' = [row EXCEPT !.fresh = FALSE]
  /\ UNCHANGED <<awake, up, op, viewers, stopping, refreshing, doubts, strays, glitches>>

(* StopDesktop: the processes are stopped, and then the status cleared.    *)
StopDesktop ==
  /\ ~stopping /\ awake /\ Reachable /\ stopping' = TRUE /\ up' = FALSE
  /\ UNCHANGED <<row, awake, op, viewers, refreshing, doubts, strays, glitches>>

RecordStopped ==
  /\ stopping /\ stopping' = FALSE /\ SetDesktopStatus("")
  /\ UNCHANGED <<awake, up, op, viewers, refreshing, strays>>

(* Refresh finds another state than the row's: it stores it, and clears the*)
(* status if the sandbox does not run (that it may come late is Project's  *)
(* matter).                                                                *)
RefreshState ==
  LET state == IF awake THEN "started" ELSE "stopped" IN
  /\ op = Idle /\ row.box # 0 /\ ~refreshing /\ row.state # state
  /\ row' = [row EXCEPT !.state = state] /\ refreshing' = ~awake
  /\ UNCHANGED <<awake, up, op, viewers, stopping, doubts, strays, glitches>>

RefreshStatus ==
  /\ refreshing /\ refreshing' = FALSE /\ SetDesktopStatus("")
  /\ UNCHANGED <<awake, up, op, viewers, stopping, strays>>

(* The inactivity timer.  Nobody tells the row.                            *)
FallAsleep ==
  /\ op = Idle /\ awake /\ awake' = FALSE /\ up' = FALSE
  /\ doubts' = doubts \cup {"slept"}
  /\ UNCHANGED <<row, op, viewers, stopping, refreshing, strays, glitches>>

(* The agent wakes the sandbox, and its verifier starts the processes.     *)
AgentNeedsSandbox ==
  /\ Reachable
  /\ awake' = TRUE /\ up' \in {up, TRUE}
  /\ UNCHANGED <<row, op, viewers, stopping, refreshing, doubts, strays, glitches>>

DesktopNext ==
  \/ BeginStartDesktop \/ EnsureDesktop \/ RecordRunning \/ IssueLink
  \/ (\E kind \in {"start", "stop"} : BeginSwitch(kind)) \/ SwitchStatus \/ SwitchState \/ StopFails
  \/ BeginRebuild \/ ClearRow \/ RecordRebuilt
  \/ \E v \in Viewers : LoadDesktop(v) \/ SignLink(v) \/ StoreLink(v)
  \/ LinkAges \/ StopDesktop \/ RecordStopped \/ RefreshState \/ RefreshStatus
  \/ FallAsleep \/ AgentNeedsSandbox

DesktopSpec == DesktopInit /\ [][DesktopNext]_desktopVars

-----------------------------------------------------------------------------
(* Properties.                                                             *)

(* When the row says that the desktop is ready the processes run, and the  *)
(* link it stores leads to the very sandbox it names, so that the frame the*)
(* screen embeds can connect.  The exceptions: an operation that is just   *)
(* at work, a sandbox that fell asleep unnoticed, a start and a stop of the*)
(* desktop that crossed, a link issued before a reset and stored after it, *)
(* and a statement that failed.                                            *)
FrameConnects ==
  DesktopReady =>
    /\ up \/ op # Idle \/ stopping \/ refreshing \/ doubts # {}
    /\ row.link \in {0, row.box} \/ op # Idle \/ strays # {}
=============================================================================
