-------------------------- MODULE WorkspaceProofs ---------------------------
(***************************************************************************)
(* Heartbeat, Repository and Desktop, each for any number of goroutines,   *)
(* commits, viewers, sandboxes and failures: what surrounds the sandbox of *)
(* the project.  Each has an inductive invariant of its own.               *)
(***************************************************************************)
EXTENDS Heartbeat, Repository, Desktop, TLAPS

-----------------------------------------------------------------------------
(***************************************************************************)
(* Heartbeat.                                                              *)
(*                                                                         *)
(* What makes the two properties inductive: a goroutine that the stop      *)
(* function names while another one is still on its way out was started    *)
(* after that one had been stopped, which is what overlapped records.      *)
(***************************************************************************)
NamedWasOverlapped ==
  hbCancel # NoBeat /\ (\E b \in Beats : beats[b] = "stopped") => hbCancel \in overlapped

HeartbeatInv == /\ HeartbeatTypeOK
        /\ StoppableUnlessOverlapped /\ NamedWasOverlapped
        /\ RunKeepsSandboxAwake

(* The stop function names a goroutine, or nothing.                        *)
LEMMA NamedBeats ==
  ASSUME HeartbeatTypeOK, hbCancel # NoBeat
  PROVE  hbCancel \in Beats /\ beats[hbCancel] = "beating"
  BY DEF HeartbeatTypeOK, Beating

LEMMA HeartbeatInitInv == HeartbeatInit => HeartbeatInv
  BY DEF HeartbeatInit, HeartbeatInv, HeartbeatTypeOK, StoppableUnlessOverlapped,
     NamedWasOverlapped, RunKeepsSandboxAwake, Beating, Running

-----------------------------------------------------------------------------
(* A loop moves on, and the goroutines that beat do not notice.            *)
LEMMA LoopMoves ==
  ASSUME HeartbeatInv, NEW d \in Drivers,
         LaunchDriver(d) \/ KeepBeat(d) \/ StartFails(d) \/ Unwind(d)
  PROVE  HeartbeatInv'
  <1>1. UNCHANGED <<hbCancel, beats, overlapped>>
    BY DEF LaunchDriver, KeepBeat, StartFails, Unwind
  <1>2. Beating' = Beating
    BY <1>1 DEF Beating
  <1>3. StoppableUnlessOverlapped' /\ NamedWasOverlapped'
    BY <1>1, <1>2 DEF HeartbeatInv, StoppableUnlessOverlapped, NamedWasOverlapped
  <1>4. drivers' \in [Drivers -> {"gone", "launched", "running", "leaving"}]
    BY DEF HeartbeatInv, HeartbeatTypeOK, LaunchDriver, KeepBeat, StartFails, Unwind, MoveDriver
  <1>5. unattended' \subseteq Running' /\ RunKeepsSandboxAwake'
    <2>1. CASE LaunchDriver(d)
      BY <2>1, <1>2 DEF HeartbeatInv, HeartbeatTypeOK, LaunchDriver, MoveDriver, Running,
         RunKeepsSandboxAwake
    <2>2. CASE KeepBeat(d)
      <3>1. Beating # {}
        BY <2>2, NamedBeats DEF HeartbeatInv, KeepBeat, AlreadyBeating, Beating
      <3>2. QED
        BY <2>2, <3>1, <1>2 DEF HeartbeatInv, HeartbeatTypeOK, KeepBeat, MoveDriver, Running,
           RunKeepsSandboxAwake
    <2>3. CASE StartFails(d)
      BY <2>3, <1>2 DEF HeartbeatInv, HeartbeatTypeOK, StartFails, MoveDriver, Running,
         RunKeepsSandboxAwake
    <2>4. CASE Unwind(d)
      BY <2>4, <1>2 DEF HeartbeatInv, HeartbeatTypeOK, Unwind, MoveDriver, Running,
         RunKeepsSandboxAwake
    <2>5. QED
      BY <2>1, <2>2, <2>3, <2>4
  <1>6. QED
    BY <1>1, <1>2, <1>3, <1>4, <1>5 DEF HeartbeatInv, HeartbeatTypeOK

(* StartHeartbeat: the new goroutine is the only one the field names, and  *)
(* the field was empty before.                                             *)
LEMMA BeatStarts ==
  ASSUME HeartbeatInv, NEW d \in Drivers, NEW b \in Beats, StartBeat(d, b)
  PROVE  HeartbeatInv'
  <1>1. /\ hbCancel = NoBeat /\ hbCancel' = b /\ beats[b] = "gone"
        /\ beats' = [beats EXCEPT ![b] = "beating"]
        /\ drivers' = [drivers EXCEPT ![d] = "running"]
        /\ unattended' = unattended
    BY DEF StartBeat, AlreadyBeating, MoveDriver
  <1>2. Beating' = Beating \cup {b}
    BY <1>1 DEF Beating, HeartbeatInv, HeartbeatTypeOK
  <1>3. overlapped \subseteq overlapped' /\ overlapped' \subseteq Beats
    BY DEF StartBeat, HeartbeatInv, HeartbeatTypeOK
  <1>4. HeartbeatTypeOK'
    BY <1>1, <1>2, <1>3 DEF HeartbeatInv, HeartbeatTypeOK, Running
  <1>5. StoppableUnlessOverlapped'
    <2>1. Beating \subseteq overlapped
      BY <1>1, BeatsAssumption DEF HeartbeatInv, StoppableUnlessOverlapped, Beating
    <2>2. QED
      BY <1>1, <1>2, <1>3, <2>1 DEF StoppableUnlessOverlapped
  <1>6. NamedWasOverlapped'
    <2>1. ASSUME NEW c \in Beats, beats'[c] = "stopped" PROVE b \in overlapped'
      <3>1. beats[c] = "stopped"
        BY <1>1, <2>1 DEF HeartbeatInv, HeartbeatTypeOK
      <3>2. QED
        BY <3>1 DEF StartBeat
    <2>2. QED
      BY <1>1, <2>1 DEF NamedWasOverlapped
  <1>7. RunKeepsSandboxAwake'
    BY <1>2 DEF RunKeepsSandboxAwake
  <1>8. QED
    BY <1>4, <1>5, <1>6, <1>7 DEF HeartbeatInv

-----------------------------------------------------------------------------
(* stopHeartbeat: whatever the field names is told to stop, and the field  *)
(* is empty.  What beats on is what nobody can stop.                       *)
LEMMA Stopped ==
  ASSUME HeartbeatInv, StopHeartbeat, UNCHANGED overlapped
  PROVE  /\ hbCancel' = NoBeat
         /\ beats' \in [Beats -> {"gone", "beating", "stopped"}]
         /\ StoppableUnlessOverlapped' /\ NamedWasOverlapped'
  <1>1. hbCancel' = NoBeat
    BY DEF StopHeartbeat
  <1>2. CASE hbCancel = NoBeat
    <2>1. UNCHANGED beats
      BY <1>2, BeatsAssumption DEF StopHeartbeat, CancelBeat
    <2>2. QED
      BY <1>1, <1>2, <2>1 DEF HeartbeatInv, HeartbeatTypeOK, StoppableUnlessOverlapped,
         NamedWasOverlapped, Beating
  <1>3. CASE hbCancel # NoBeat
    <2>1. hbCancel \in Beats /\ beats' = [beats EXCEPT ![hbCancel] = "stopped"]
      BY <1>3, NamedBeats DEF HeartbeatInv, StopHeartbeat, CancelBeat
    <2>2. Beating' = Beating \ {hbCancel}
      BY <2>1 DEF HeartbeatInv, HeartbeatTypeOK, Beating
    <2>3. QED
      BY <1>1, <2>1, <2>2 DEF HeartbeatInv, HeartbeatTypeOK, StoppableUnlessOverlapped,
         NamedWasOverlapped
  <1>4. QED
    BY <1>2, <1>3

LEMMA OperationStopsIt == HeartbeatInv /\ OperationStops => HeartbeatInv'
  <1> SUFFICES ASSUME HeartbeatInv, OperationStops PROVE HeartbeatInv'
    OBVIOUS
  <1>1. StopHeartbeat /\ UNCHANGED <<drivers, overlapped>>
        /\ unattended' = unattended \cup Running
    BY DEF OperationStops
  <1>2. Running' = Running
    BY <1>1 DEF Running
  <1>3. QED
    BY <1>1, <1>2, Stopped DEF HeartbeatInv, HeartbeatTypeOK, RunKeepsSandboxAwake

LEMMA DriverStopsIt ==
  ASSUME HeartbeatInv, NEW d \in Drivers, LeaveDriver(d)
  PROVE  HeartbeatInv'
  <1>1. /\ StopHeartbeat /\ UNCHANGED overlapped
        /\ unattended' = unattended \cup Running
        /\ drivers[d] = "leaving" /\ drivers' = [drivers EXCEPT ![d] = "gone"]
    BY DEF LeaveDriver, MoveDriver
  <1>2. Running' = Running
    BY <1>1 DEF HeartbeatInv, HeartbeatTypeOK, Running
  <1>3. drivers' \in [Drivers -> {"gone", "launched", "running", "leaving"}]
    BY <1>1 DEF HeartbeatInv, HeartbeatTypeOK
  <1>4. QED
    BY <1>1, <1>2, <1>3, Stopped DEF HeartbeatInv, HeartbeatTypeOK, RunKeepsSandboxAwake

(* The deferred function empties the field, even when it names another     *)
(* goroutine: that one is in overlapped, and stays there.                  *)
LEMMA OlderBeatReturns ==
  ASSUME HeartbeatInv, NEW b \in Beats, BeatReturns(b)
  PROVE  HeartbeatInv'
  <1>1. /\ beats[b] = "stopped" /\ beats' = [beats EXCEPT ![b] = "gone"]
        /\ hbCancel' = NoBeat /\ overlapped' = overlapped \ {b}
        /\ UNCHANGED <<drivers, unattended>>
    BY DEF BeatReturns
  <1>2. Beating' = Beating /\ b \notin Beating /\ Running' = Running
    BY <1>1 DEF HeartbeatInv, HeartbeatTypeOK, Beating, Running
  <1>3. Beating \subseteq overlapped
    BY <1>1, BeatsAssumption DEF HeartbeatInv, StoppableUnlessOverlapped, NamedWasOverlapped, Beating
  <1>4. StoppableUnlessOverlapped' /\ NamedWasOverlapped'
    BY <1>1, <1>2, <1>3 DEF StoppableUnlessOverlapped, NamedWasOverlapped
  <1>5. HeartbeatTypeOK' /\ RunKeepsSandboxAwake'
    BY <1>1, <1>2 DEF HeartbeatInv, HeartbeatTypeOK, RunKeepsSandboxAwake
  <1>6. QED
    BY <1>4, <1>5 DEF HeartbeatInv

LEMMA HeartbeatPreserved == HeartbeatInv /\ [HeartbeatNext]_heartbeatVars => HeartbeatInv'
  <1> SUFFICES ASSUME HeartbeatInv, [HeartbeatNext]_heartbeatVars PROVE HeartbeatInv'
    OBVIOUS
  <1>1. ASSUME NEW d \in Drivers, LaunchDriver(d) \/ KeepBeat(d) \/ StartFails(d) \/ Unwind(d)
        PROVE  HeartbeatInv'
    BY <1>1, LoopMoves
  <1>2. ASSUME NEW d \in Drivers, LeaveDriver(d) PROVE HeartbeatInv'
    BY <1>2, DriverStopsIt
  <1>3. ASSUME NEW d \in Drivers, NEW b \in Beats, StartBeat(d, b) PROVE HeartbeatInv'
    BY <1>3, BeatStarts
  <1>4. CASE OperationStops
    BY <1>4, OperationStopsIt
  <1>5. ASSUME NEW b \in Beats, BeatReturns(b) PROVE HeartbeatInv'
    BY <1>5, OlderBeatReturns
  <1>6. CASE UNCHANGED heartbeatVars
    BY <1>6 DEF heartbeatVars, HeartbeatInv, HeartbeatTypeOK, StoppableUnlessOverlapped,
       NamedWasOverlapped, RunKeepsSandboxAwake, Beating, Running
  <1>7. QED
    BY <1>1, <1>2, <1>3, <1>4, <1>5, <1>6 DEF HeartbeatNext

LEMMA HeartbeatInvariant == HeartbeatSpec => []HeartbeatInv
  BY HeartbeatInitInv, HeartbeatPreserved, PTL DEF HeartbeatSpec

-----------------------------------------------------------------------------
(* A goroutine that beats and that nobody can stop was started while an    *)
(* older one was on its way out (StartHeartbeat and its deferred function).*)
THEOREM BeatsCanBeStopped == HeartbeatSpec => []StoppableUnlessOverlapped
  <1>1. HeartbeatInv => StoppableUnlessOverlapped
    BY DEF HeartbeatInv
  <1>2. QED
    BY <1>1, HeartbeatInvariant, PTL

(* A run whose sandbox is not kept awake is one whose heartbeat failed to  *)
(* start or was stopped under it (launch, run and stopHeartbeat).          *)
THEOREM RunsKeepSandboxAwake == HeartbeatSpec => []RunKeepsSandboxAwake
  <1>1. HeartbeatInv => RunKeepsSandboxAwake
    BY DEF HeartbeatInv
  <1>2. QED
    BY <1>1, HeartbeatInvariant, PTL

-----------------------------------------------------------------------------
(***************************************************************************)
(* Repository.                                                             *)
(*                                                                         *)
(* Pushed work stays because a branch that is not there has nothing, and   *)
(* because git refuses to replace one that is there.  The pull request is  *)
(* known because push_branch has learnt of it by the time it records it,   *)
(* unless something failed since the branch was pushed.                    *)
(***************************************************************************)
RemoteOK == /\ ~remote.there => remote.has = {}
            /\ PushedWorkStays

PullOK == /\ DOMAIN pusher = {"pc", "found"}
          /\ pusher.pc \in {"idle", "ask", "find", "record"}
          /\ pull # 0 /\ ~hitch => /\ Pushing("idle") => told = pull
                                   /\ Pushing("record") => pusher.found = pull

RepositoryInv == RemoteOK /\ PullOK

LEMMA RepositoryInitInv == RepositoryInit => RepositoryInv
  BY DEF RepositoryInit, RepositoryInv, RemoteOK, PullOK, PushedWorkStays, Absent, NoPush, Pushing

-----------------------------------------------------------------------------
(* A push and a merge are all that touches the remote.                     *)
LEMMA RemotePreserved == RemoteOK /\ [RepositoryNext]_repositoryVars => RemoteOK'
  <1> SUFFICES ASSUME RemoteOK, [RepositoryNext]_repositoryVars PROVE RemoteOK'
    OBVIOUS
  <1>1. CASE Push
    BY <1>1 DEF RemoteOK, PushedWorkStays, Push, LeaseHolds, githubVars
  <1>2. CASE MergePull
    BY <1>2 DEF RemoteOK, PushedWorkStays, MergePull, Absent
  <1>3. CASE UNCHANGED <<remote, base, pushed>>
    BY <1>3 DEF RemoteOK, PushedWorkStays
  <1>4. QED
    BY <1>1, <1>2, <1>3 DEF RepositoryNext, repositoryVars, githubVars, EditFile, CommitAll,
       SetupRepo, SkipPull, CreatePullRequest, Open, FindPullRequest, RecordPush, PushCutOff

-----------------------------------------------------------------------------
(* From the branch that is pushed to the row that is written, one step     *)
(* after the other.                                                        *)
LEMMA PushKeeps == PullOK /\ Push => PullOK'
  <1> SUFFICES ASSUME PullOK, Push PROVE PullOK'
    OBVIOUS
  <1>1. CASE pusher' = [pc |-> "ask", found |-> 0]
    BY <1>1 DEF PullOK, Pushing
  <1>2. CASE Outage /\ UNCHANGED pusher
    BY <1>2 DEF Push, PullOK, Pushing, Outage, githubVars
  <1>3. QED
    BY <1>1, <1>2 DEF Push

LEMMA AskKeeps == PullOK /\ (SkipPull \/ CreatePullRequest) => PullOK'
  <1> SUFFICES ASSUME PullOK, SkipPull \/ CreatePullRequest PROVE PullOK'
    OBVIOUS
  <1>1. CASE SkipPull
    BY <1>1 DEF SkipPull, PullOK, Pushing, PusherTo
  <1>2. CASE CreatePullRequest
    <2>1. CASE pusher' = [pc |-> "record", found |-> pull']
      BY <2>1 DEF PullOK, Pushing
    <2>2. CASE Outage /\ PusherTo("record")
      BY <2>2 DEF PullOK, Pushing, PusherTo, Outage
    <2>3. CASE PusherTo("find")
      BY <2>3 DEF PullOK, Pushing, PusherTo
    <2>4. QED
      BY <1>2, <2>1, <2>2, <2>3 DEF CreatePullRequest
  <1>3. QED
    BY <1>1, <1>2

LEMMA FindKeeps == PullOK /\ FindPullRequest => PullOK'
  <1> SUFFICES ASSUME PullOK, FindPullRequest PROVE PullOK'
    OBVIOUS
  <1>1. CASE pusher' = [pc |-> "record", found |-> OpenPullRequest]
    BY <1>1 DEF PullOK, FindPullRequest, Pushing, OpenPullRequest, githubVars
  <1>2. CASE Outage /\ PusherTo("record")
    BY <1>2 DEF PullOK, Pushing, PusherTo, Outage
  <1>3. QED
    BY <1>1, <1>2 DEF FindPullRequest

LEMMA RecordKeeps == PullOK /\ (RecordPush \/ PushCutOff) => PullOK'
  <1> SUFFICES ASSUME PullOK, RecordPush \/ PushCutOff PROVE PullOK'
    OBVIOUS
  <1>1. pusher' = NoPush /\ pull' = pull
    BY DEF RecordPush, PushCutOff, githubVars
  <1>2. CASE Pushing("record") /\ told' = pusher.found /\ UNCHANGED hitch
    BY <1>1, <1>2 DEF PullOK, Pushing, NoPush
  <1>3. CASE Outage
    BY <1>1, <1>3 DEF PullOK, Pushing, NoPush, Outage
  <1>4. QED
    BY <1>2, <1>3 DEF RecordPush, PushCutOff

LEMMA PullPreserved == PullOK /\ [RepositoryNext]_repositoryVars => PullOK'
  <1> SUFFICES ASSUME PullOK, [RepositoryNext]_repositoryVars PROVE PullOK'
    OBVIOUS
  <1>1. CASE MergePull
    BY <1>1 DEF MergePull, PullOK, Pushing
  <1>2. CASE UNCHANGED <<pull, pusher, told, hitch>>
    BY <1>2 DEF PullOK, Pushing
  <1>3. QED
    BY <1>1, <1>2, PushKeeps, AskKeeps, FindKeeps, RecordKeeps
       DEF RepositoryNext, repositoryVars, githubVars, EditFile, CommitAll, SetupRepo

-----------------------------------------------------------------------------
(* Whatever is pushed from however many sandboxes, what the remote has had *)
(* is still on the work branch or on the default branch (Sandbox.Push).    *)
THEOREM PushedWorkIsKept == RepositorySpec => []PushedWorkStays
  <1>1. RepositoryInit => RemoteOK
    BY RepositoryInitInv DEF RepositoryInv
  <1>2. RemoteOK => PushedWorkStays
    BY DEF RemoteOK
  <1>3. QED
    BY <1>1, <1>2, RemotePreserved, PTL DEF RepositorySpec

(* Whichever of several pushes has opened the pull request, the newest row *)
(* names it when push_branch is over and nothing failed (pushAndOpenPR).   *)
THEOREM PullRequestsAreKnown == RepositorySpec => []PullRequestIsKnown
  <1>1. RepositoryInit => PullOK
    BY RepositoryInitInv DEF RepositoryInv
  <1>2. PullOK => PullRequestIsKnown
    BY DEF PullOK, PullRequestIsKnown
  <1>3. QED
    BY <1>1, <1>2, PullPreserved, PTL DEF RepositorySpec

-----------------------------------------------------------------------------
(***************************************************************************)
(* Desktop.                                                                *)
(*                                                                         *)
(* Whoever takes the processes or the sandbox away has either given a      *)
(* reason, or holds the busy flag until it has written what the row is to  *)
(* say; no write of another is taken for its own.                          *)
(***************************************************************************)
DesktopRow == [box: Nat, state: {"started", "stopped", "provisioning"},
               status: {"", "running", "error"}, link: Nat, fresh: BOOLEAN]

DesktopTypeOK ==
  /\ row \in DesktopRow
  /\ awake \in BOOLEAN /\ up \in BOOLEAN /\ stopping \in BOOLEAN
  /\ op \in [kind: {"none", "desktop", "start", "stop", "reset"},
             pc: {"idle", "ensure", "status", "sign", "state", "clear", "record"}, box: Nat]
  /\ viewers \in [Viewers -> [pc: {"idle", "sign", "store"}, box: Nat]]

(* A status that claims more than there is has a reason, or the operation  *)
(* that took the processes away has yet to write it.                       *)
StatusOK ==
  row.status = "running" /\ doubts = {} =>
    up \/ stopping \/ OpAt("stop", "status") \/ OpAt("reset", "clear")

(* A link that leads elsewhere has a reason.  A reset that has cleared the *)
(* row leaves none, and has yet to name the new sandbox.                   *)
LinkOK ==
  strays = {} =>
    IF OpAt("reset", "record") THEN row.link = 0 ELSE row.link \in {0, row.box}

(* The row of a reset names the sandbox that was destroyed, or none.       *)
RebuildOK == op.kind = "reset" => row.box \in {0, op.box}

DesktopInv == DesktopTypeOK /\ StatusOK /\ LinkOK /\ RebuildOK

LEMMA DesktopInitInv == DesktopInit => DesktopInv
  <1> SUFFICES ASSUME DesktopInit PROVE DesktopInv
    OBVIOUS
  <1>1. DesktopTypeOK
    BY DEF DesktopInit, DesktopTypeOK, DesktopRow, Idle, NoViewer
  <1>2. QED
    BY <1>1 DEF DesktopInit, DesktopInv, StatusOK, LinkOK, RebuildOK, Idle, OpAt

(* The fields of the row that a write of the status leaves.                *)
LEMMA StatusWritten ==
  ASSUME DesktopTypeOK, NEW s \in {"", "error"}, SetDesktopStatus(s)
  PROVE  /\ row' \in DesktopRow /\ row'.box = row.box /\ row'.link = row.link
         /\ row'.status = "running" => doubts' # {}
  BY DEF DesktopTypeOK, DesktopRow, SetDesktopStatus

LEMMA PreviewStored ==
  ASSUME DesktopTypeOK, RebuildOK, NEW box \in Nat, StorePreview(box)
  PROVE  /\ row' \in DesktopRow /\ row'.box = row.box /\ row'.status = row.status
         /\ strays' = {} => row'.link = row.box /\ ~OpAt("reset", "record")
  <1>1. /\ row' \in DesktopRow /\ row'.box = row.box /\ row'.status = row.status
        /\ row'.link = box
    BY DEF DesktopTypeOK, DesktopRow, StorePreview
  <1>2. strays' = {} => Reachable /\ box = row.box
    BY DEF StorePreview
  <1>3. Reachable => ~OpAt("reset", "record")
    BY DEF Reachable, RebuildOK, OpAt
  <1>4. QED
    BY <1>1, <1>2, <1>3

(* The operation moves on to pc.                                           *)
LEMMA OpMoves ==
  ASSUME DesktopTypeOK, NEW pc, OpTo(pc)
  PROVE  op' = [kind |-> op.kind, pc |-> pc, box |-> op.box]
  BY DEF DesktopTypeOK, OpTo

-----------------------------------------------------------------------------
(* The start of the desktop.                                               *)
LEMMA StartDesktopKeeps ==
  ASSUME DesktopInv, BeginStartDesktop \/ EnsureDesktop \/ RecordRunning \/ IssueLink
  PROVE  DesktopInv'
  <1>0. DesktopTypeOK /\ RebuildOK /\ row \in DesktopRow
    BY DEF DesktopInv, DesktopTypeOK
  <1>1. CASE BeginStartDesktop
    <2>1. DesktopTypeOK'
      BY <1>1 DEF BeginStartDesktop, DesktopInv, DesktopTypeOK, DesktopRow
    <2>2. QED
      BY <1>1, <2>1 DEF BeginStartDesktop, DesktopInv, StatusOK, LinkOK, RebuildOK, OpAt, Idle
  <1>2. CASE EnsureDesktop
    <2>1. CASE awake /\ up' = TRUE /\ OpTo("status") /\ UNCHANGED <<row, doubts>>
      <3>1. op' = [kind |-> "desktop", pc |-> "status", box |-> op.box]
        BY <1>0, <1>2, <2>1, OpMoves DEF EnsureDesktop, OpAt
      <3>2. DesktopTypeOK'
        BY <1>0, <1>2, <2>1, <3>1 DEF EnsureDesktop, DesktopTypeOK
      <3>3. QED
        BY <1>2, <2>1, <3>1, <3>2
           DEF EnsureDesktop, DesktopInv, StatusOK, LinkOK, RebuildOK, OpAt
    <2>2. ASSUME op' = Idle, UNCHANGED up, row' \in DesktopRow, row'.box = row.box,
                 row'.link = row.link, row'.status = "running" => doubts' # {}
          PROVE  DesktopInv'
      <3>1. DesktopTypeOK'
        BY <1>0, <1>2, <2>2 DEF EnsureDesktop, DesktopTypeOK, Idle
      <3>2. QED
        BY <1>2, <2>2, <3>1
           DEF EnsureDesktop, DesktopInv, StatusOK, LinkOK, RebuildOK, OpAt, Idle
    <2>3. CASE SetDesktopStatus("error") /\ op' = Idle /\ UNCHANGED up
      BY <1>0, <2>2, <2>3, StatusWritten
    <2>4. CASE row' = [row EXCEPT !.status = "error"] /\ op' = Idle /\ UNCHANGED up
      <3>1. row' \in DesktopRow /\ row'.box = row.box /\ row'.link = row.link /\ row'.status = "error"
        BY <1>0, <2>4 DEF DesktopRow
      <3>2. QED
        BY <2>2, <2>4, <3>1
    <2>5. QED
      BY <1>2, <2>1, <2>3, <2>4 DEF EnsureDesktop
  <1>3. CASE RecordRunning
    <2>1. op' = [kind |-> "desktop", pc |-> "sign", box |-> op.box] /\ OpAt("desktop", "status")
      BY <1>0, <1>3, OpMoves DEF RecordRunning, OpAt
    <2>2. /\ row' \in DesktopRow /\ row'.box = row.box /\ row'.link = row.link
          /\ doubts' = {} /\ row'.status = "running" => up \/ stopping
      BY <1>0, <1>3, <2>1 DEF RecordRunning, DesktopRow, DesktopInv, StatusOK, OpAt
    <2>3. DesktopTypeOK'
      BY <1>0, <1>3, <2>1, <2>2 DEF RecordRunning, DesktopTypeOK
    <2>4. QED
      BY <1>3, <2>1, <2>2, <2>3
         DEF RecordRunning, DesktopInv, StatusOK, LinkOK, RebuildOK, OpAt
  <1>4. CASE IssueLink
    <2>1. OpAt("desktop", "sign") /\ op' = Idle /\ op.box \in Nat
      BY <1>0, <1>4 DEF IssueLink, DesktopTypeOK
    <2>2. /\ row' \in DesktopRow /\ row'.box = row.box /\ row'.status = row.status
          /\ strays' = {} => row'.link \in {0, row'.box}
      <3>1. CASE StorePreview(op.box)
        BY <1>0, <2>1, <3>1, PreviewStored
      <3>2. CASE UNCHANGED <<row, strays>>
        BY <1>0, <2>1, <3>2 DEF DesktopInv, LinkOK, OpAt
      <3>3. QED
        BY <1>4, <3>1, <3>2 DEF IssueLink
    <2>3. DesktopTypeOK'
      BY <1>0, <1>4, <2>1, <2>2 DEF IssueLink, DesktopTypeOK, Idle
    <2>4. QED
      BY <1>4, <2>1, <2>2, <2>3
         DEF IssueLink, DesktopInv, StatusOK, LinkOK, RebuildOK, OpAt, Idle
  <1>5. QED
    BY <1>1, <1>2, <1>3, <1>4

(* Start, and stop.                                                        *)
LEMMA SwitchKeeps ==
  ASSUME DesktopInv,
         (\E kind \in {"start", "stop"} : BeginSwitch(kind)) \/ SwitchStatus \/ SwitchState \/ StopFails
  PROVE  DesktopInv'
  <1>0. DesktopTypeOK /\ row \in DesktopRow
    BY DEF DesktopInv, DesktopTypeOK
  <1>1. ASSUME NEW kind \in {"start", "stop"}, BeginSwitch(kind) PROVE DesktopInv'
    <2>1. DesktopTypeOK'
      BY <1>0, <1>1 DEF BeginSwitch, DesktopTypeOK, DesktopRow
    <2>2. StatusOK'
      BY <1>1 DEF BeginSwitch, DesktopInv, StatusOK, OpAt, Idle
    <2>3. QED
      BY <1>1, <2>1, <2>2 DEF BeginSwitch, DesktopInv, LinkOK, RebuildOK, OpAt, Idle
  <1>2. CASE SwitchStatus
    <2>1. op' = [kind |-> op.kind, pc |-> "state", box |-> op.box] /\ op.kind \in {"start", "stop"}
      BY <1>0, <1>2, OpMoves DEF SwitchStatus
    <2>2. /\ row' \in DesktopRow /\ row'.box = row.box /\ row'.link = row.link
          /\ row'.status = "running" => doubts' # {}
      BY <1>0, <1>2, StatusWritten DEF SwitchStatus
    <2>3. DesktopTypeOK'
      BY <1>0, <1>2, <2>1, <2>2 DEF SwitchStatus, DesktopTypeOK
    <2>4. QED
      BY <1>2, <2>1, <2>2, <2>3 DEF SwitchStatus, DesktopInv, StatusOK, LinkOK, RebuildOK, OpAt
  <1>3. CASE SwitchState
    <2>1. /\ row' \in DesktopRow /\ row'.box = row.box /\ row'.link = row.link
          /\ row'.status = row.status
      BY <1>0, <1>3 DEF SwitchState, DesktopRow
    <2>2. DesktopTypeOK'
      BY <1>0, <1>3, <2>1 DEF SwitchState, DesktopTypeOK, Idle
    <2>3. QED
      BY <1>3, <2>1, <2>2 DEF SwitchState, DesktopInv, StatusOK, LinkOK, RebuildOK, OpAt, Idle
  <1>4. CASE StopFails
    <2>1. DesktopTypeOK'
      BY <1>0, <1>4 DEF StopFails, DesktopTypeOK, Idle
    <2>2. QED
      BY <1>4, <2>1 DEF StopFails, DesktopInv, StatusOK, LinkOK, RebuildOK, OpAt, Idle
  <1>5. QED
    BY <1>1, <1>2, <1>3, <1>4

(* Reset.                                                                  *)
LEMMA RebuildKeeps ==
  ASSUME DesktopInv, BeginRebuild \/ ClearRow \/ RecordRebuilt
  PROVE  DesktopInv'
  <1>0. DesktopTypeOK /\ row \in DesktopRow
    BY DEF DesktopInv, DesktopTypeOK
  <1>1. CASE BeginRebuild
    <2>1. DesktopTypeOK'
      BY <1>0, <1>1 DEF BeginRebuild, DesktopTypeOK, DesktopRow
    <2>2. QED
      BY <1>1, <2>1 DEF BeginRebuild, DesktopInv, StatusOK, LinkOK, RebuildOK, OpAt, Idle
  <1>2. CASE ClearRow
    <2>1. op' = [kind |-> "reset", pc |-> "record", box |-> op.box] /\ OpAt("reset", "clear")
      BY <1>0, <1>2, OpMoves DEF ClearRow, OpAt
    <2>2. CASE ClearFields
      <3>1. DesktopTypeOK'
        BY <1>0, <1>2, <2>1, <2>2 DEF ClearRow, ClearFields, DesktopTypeOK, DesktopRow
      <3>2. QED
        BY <1>2, <2>1, <2>2, <3>1
           DEF ClearRow, ClearFields, DesktopInv, StatusOK, LinkOK, RebuildOK, OpAt
    <2>3. CASE UNCHANGED row /\ doubts' = doubts \cup {"write"} /\ strays' = strays \cup {"write"}
      <3>1. DesktopTypeOK'
        BY <1>0, <1>2, <2>1, <2>3 DEF ClearRow, DesktopTypeOK
      <3>2. row.box \in {0, op.box}
        BY <2>1 DEF DesktopInv, RebuildOK, OpAt
      <3>3. QED
        BY <1>2, <2>1, <2>3, <3>1, <3>2 DEF ClearRow, DesktopInv, StatusOK, LinkOK, RebuildOK, OpAt
    <2>4. QED
      BY <1>2, <2>2, <2>3 DEF ClearRow
  <1>3. CASE RecordRebuilt
    <2>1. op.box + 1 \in Nat
      BY <1>0 DEF DesktopTypeOK
    <2>2. /\ row' \in DesktopRow /\ row'.link = row.link /\ row'.status = row.status
      BY <1>0, <1>3, <2>1 DEF RecordRebuilt, DesktopRow
    <2>3. DesktopTypeOK'
      BY <1>0, <1>3, <2>2 DEF RecordRebuilt, DesktopTypeOK, Idle
    <2>4. QED
      BY <1>3, <2>2, <2>3 DEF RecordRebuilt, DesktopInv, StatusOK, LinkOK, RebuildOK, OpAt, Idle
  <1>4. QED
    BY <1>1, <1>2, <1>3

(* The screens.                                                            *)
LEMMA ViewerKeeps ==
  ASSUME DesktopInv, NEW v \in Viewers, LoadDesktop(v) \/ SignLink(v) \/ StoreLink(v)
  PROVE  DesktopInv'
  <1>0. DesktopTypeOK /\ RebuildOK /\ row \in DesktopRow
        /\ viewers \in [Viewers -> [pc: {"idle", "sign", "store"}, box: Nat]]
    BY DEF DesktopInv, DesktopTypeOK
  <1>1. viewers' \in [Viewers -> [pc: {"idle", "sign", "store"}, box: Nat]]
    <2> DEFINE Viewer == [pc: {"idle", "sign", "store"}, box: Nat]
    <2>1. /\ NoViewer \in Viewer /\ [pc |-> "store", box |-> row.box] \in Viewer
          /\ [viewers[v] EXCEPT !.pc = "sign"] \in Viewer
      BY <1>0 DEF NoViewer, DesktopRow
    <2> HIDE DEF Viewer
    <2>2. \E r \in Viewer : viewers' = [viewers EXCEPT ![v] = r]
      BY <1>0, <2>1 DEF LoadDesktop, SignLink, StoreLink, Viewer
    <2>3. QED
      BY <1>0, <2>2 DEF Viewer
  <1>2. CASE LoadDesktop(v) \/ SignLink(v)
    <2>1. DesktopTypeOK'
      BY <1>0, <1>1, <1>2 DEF LoadDesktop, SignLink, DesktopTypeOK
    <2>2. QED
      BY <1>2, <2>1 DEF LoadDesktop, SignLink, DesktopInv, StatusOK, LinkOK, RebuildOK, OpAt
  <1>3. CASE StoreLink(v)
    <2>1. viewers[v].box \in Nat
      BY <1>0
    <2>2. CASE UNCHANGED <<row, strays>>
      <3>1. DesktopTypeOK'
        BY <1>0, <1>1, <1>3, <2>2 DEF StoreLink, DesktopTypeOK
      <3>2. QED
        BY <1>3, <2>2, <3>1 DEF StoreLink, DesktopInv, StatusOK, LinkOK, RebuildOK, OpAt
    <2>3. CASE StorePreview(viewers[v].box)
      <3>1. /\ row' \in DesktopRow /\ row'.box = row.box /\ row'.status = row.status
            /\ strays' = {} => row'.link = row.box /\ ~OpAt("reset", "record")
        BY <1>0, <2>1, <2>3, PreviewStored
      <3>2. DesktopTypeOK'
        BY <1>0, <1>1, <1>3, <3>1 DEF StoreLink, DesktopTypeOK
      <3>3. QED
        BY <1>3, <3>1, <3>2 DEF StoreLink, DesktopInv, StatusOK, LinkOK, RebuildOK, OpAt
    <2>4. QED
      BY <1>3, <2>2, <2>3 DEF StoreLink
  <1>4. QED
    BY <1>2, <1>3

(* What takes no flag.                                                     *)
LEMMA OthersKeep ==
  ASSUME DesktopInv,
         \/ LinkAges \/ StopDesktop \/ RecordStopped \/ RefreshState \/ RefreshStatus
         \/ FallAsleep \/ AgentNeedsSandbox \/ UNCHANGED desktopVars
  PROVE  DesktopInv'
  <1>0. DesktopTypeOK /\ row \in DesktopRow
    BY DEF DesktopInv, DesktopTypeOK
  <1>1. CASE LinkAges
    <2>1. /\ row' \in DesktopRow /\ row'.box = row.box /\ row'.link = row.link
          /\ row'.status = row.status
      BY <1>0, <1>1 DEF LinkAges, DesktopRow
    <2>2. QED
      BY <1>0, <1>1, <2>1
         DEF LinkAges, DesktopInv, DesktopTypeOK, StatusOK, LinkOK, RebuildOK, OpAt
  <1>2. CASE StopDesktop \/ FallAsleep \/ AgentNeedsSandbox \/ UNCHANGED desktopVars
    BY <1>0, <1>2
       DEF StopDesktop, FallAsleep, AgentNeedsSandbox, desktopVars, DesktopInv, DesktopTypeOK,
           StatusOK, LinkOK, RebuildOK, OpAt
  <1>3. CASE RecordStopped \/ RefreshStatus
    <2>1. /\ row' \in DesktopRow /\ row'.box = row.box /\ row'.link = row.link
          /\ row'.status = "running" => doubts' # {}
      BY <1>0, <1>3, StatusWritten DEF RecordStopped, RefreshStatus
    <2>2. DesktopTypeOK'
      BY <1>0, <1>3, <2>1 DEF RecordStopped, RefreshStatus, DesktopTypeOK
    <2>3. QED
      BY <1>3, <2>1, <2>2
         DEF RecordStopped, RefreshStatus, DesktopInv, StatusOK, LinkOK, RebuildOK, OpAt
  <1>4. CASE RefreshState
    <2>1. /\ row' \in DesktopRow /\ row'.box = row.box /\ row'.link = row.link
          /\ row'.status = row.status
      BY <1>0, <1>4 DEF RefreshState, DesktopRow
    <2>2. QED
      BY <1>0, <1>4, <2>1
         DEF RefreshState, DesktopInv, DesktopTypeOK, StatusOK, LinkOK, RebuildOK, OpAt
  <1>5. QED
    BY <1>1, <1>2, <1>3, <1>4

LEMMA DesktopPreserved ==
  ASSUME DesktopInv, [DesktopNext]_desktopVars
  PROVE  DesktopInv'
  BY StartDesktopKeeps, SwitchKeeps, RebuildKeeps, ViewerKeeps, OthersKeep DEF DesktopNext

(* Whatever screens, operations, the agent and the inactivity timer do,    *)
(* a desktop that is said to be ready runs, and the stored link leads to   *)
(* it, unless one of the reasons named there holds.                        *)
THEOREM FramesConnect == DesktopSpec => []FrameConnects
  <1>1. ASSUME DesktopInv PROVE FrameConnects
    BY <1>1 DEF DesktopInv, StatusOK, LinkOK, FrameConnects, DesktopReady, OpAt, Idle
  <1>2. QED
    BY <1>1, DesktopInitInv, DesktopPreserved, PTL DEF DesktopSpec

=============================================================================
