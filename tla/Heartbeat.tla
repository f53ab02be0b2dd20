----------------------------- MODULE Heartbeat -----------------------------
(***************************************************************************)
(* The heartbeat that keeps the sandbox awake during a run: one field for  *)
(* its stop function (StartHeartbeat and stopHeartbeat in                  *)
(* internal/project/service.go), the goroutine that beats                  *)
(* (internal/daytona/heartbeat.go), and the loops that start and stop it   *)
(* (internal/agent/service.go, loop.go).                                   *)
(*                                                                         *)
(* A touch may take twenty seconds and ignores the cancellation, so a      *)
(* goroutine that was stopped lives on for a while.                        *)
(***************************************************************************)
EXTENDS Naturals

CONSTANTS
  Beats,        \* goroutines of StartHeartbeat alive at once
  Drivers       \* goroutines of agent.Service.run alive at once

VARIABLES
  hbCancel,     \* Service.hbCancel: the goroutine it stops, or NoBeat
  beats,        \* what each heartbeat goroutine is doing
  drivers,      \* where each loop is: launched, running or on its way out
  overlapped,   \* history: goroutines started before an older one had returned
  unattended    \* history: loops whose heartbeat failed to start or was stopped

heartbeatVars == <<hbCancel, beats, drivers, overlapped, unattended>>

NoBeat == "nil"

ASSUME BeatsAssumption == NoBeat \notin Beats

HeartbeatInit ==
  /\ hbCancel = NoBeat
  /\ beats = [b \in Beats |-> "gone"]
  /\ drivers = [d \in Drivers |-> "gone"]
  /\ overlapped = {} /\ unattended = {}

Beating == {b \in Beats : beats[b] = "beating"}
Running == {d \in Drivers : drivers[d] = "running"}

MoveDriver(d, from, to) == /\ drivers[d] = from
                           /\ drivers' = [drivers EXCEPT ![d] = to]

-----------------------------------------------------------------------------
(* launch: another run starts only when those before it have recorded how  *)
(* they ended, or were told to stop.                                       *)
LaunchDriver(d) ==
  /\ \A e \in Drivers \ {d} : drivers[e] \in {"gone", "leaving"}
  /\ MoveDriver(d, "gone", "launched")
  /\ UNCHANGED <<hbCancel, beats, overlapped, unattended>>

NeverBeating == FALSE

AlreadyBeating == hbCancel # NoBeat

(* StartHeartbeat, by the launch.  It fails when there is no sandbox.      *)
StartBeat(d, b) ==
  /\ MoveDriver(d, "launched", "running")
  /\ ~AlreadyBeating /\ beats[b] = "gone"
  /\ hbCancel' = b
  /\ beats' = [beats EXCEPT ![b] = "beating"]
  /\ overlapped' = IF \E c \in Beats : beats[c] = "stopped"
                   THEN overlapped \cup {b} ELSE overlapped
  /\ UNCHANGED unattended

KeepBeat(d) ==
  /\ MoveDriver(d, "launched", "running") /\ AlreadyBeating
  /\ UNCHANGED <<hbCancel, beats, overlapped, unattended>>

StartFails(d) ==
  /\ MoveDriver(d, "launched", "running")
  /\ unattended' = unattended \cup {d}
  /\ UNCHANGED <<hbCancel, beats, overlapped>>

-----------------------------------------------------------------------------
CancelBeat ==
  beats' = IF hbCancel \in Beats THEN [beats EXCEPT ![hbCancel] = "stopped"] ELSE beats

CancelOnly == CancelBeat /\ UNCHANGED hbCancel

(* stopHeartbeat: it stops what the field names, whoever started it.       *)
StopHeartbeat == CancelBeat /\ hbCancel' = NoBeat

(* The loop ends: it records the outcome, or sees that it was stopped ...  *)
Unwind(d) ==
  /\ MoveDriver(d, "running", "leaving")
  /\ unattended' = unattended \ {d}
  /\ UNCHANGED <<hbCancel, beats, overlapped>>

(* ... and only then stops the heartbeat, of the next run if there is one. *)
LeaveDriver(d) ==
  /\ MoveDriver(d, "leaving", "gone") /\ StopHeartbeat
  /\ unattended' = unattended \cup Running
  /\ UNCHANGED overlapped

(* Delete, Reset and Stop of the sandbox, and Close.                       *)
OperationStops ==
  /\ StopHeartbeat /\ unattended' = unattended \cup Running
  /\ UNCHANGED <<drivers, overlapped>>

(* The deferred function of a goroutine that was stopped: it empties the   *)
(* field, even when the field names another goroutine by now.              *)
BeatReturns(b) ==
  /\ beats[b] = "stopped"
  /\ beats' = [beats EXCEPT ![b] = "gone"]
  /\ hbCancel' = NoBeat
  /\ overlapped' = overlapped \ {b}
  /\ UNCHANGED <<drivers, unattended>>

HeartbeatNext ==
  \/ \E d \in Drivers : \/ LaunchDriver(d) \/ KeepBeat(d) \/ StartFails(d)
                        \/ Unwind(d) \/ LeaveDriver(d)
                        \/ \E b \in Beats : StartBeat(d, b)
  \/ OperationStops
  \/ \E b \in Beats : BeatReturns(b)

HeartbeatSpec == HeartbeatInit /\ [][HeartbeatNext]_heartbeatVars

-----------------------------------------------------------------------------
(* Properties.                                                             *)

(* The field names a goroutine that was started and not stopped since.     *)
HeartbeatTypeOK ==
  /\ hbCancel \in Beating \cup {NoBeat}
  /\ beats \in [Beats -> {"gone", "beating", "stopped"}]
  /\ drivers \in [Drivers -> {"gone", "launched", "running", "leaving"}]
  /\ overlapped \subseteq Beats
  /\ unattended \subseteq Running

(* A goroutine that keeps the sandbox awake can be stopped, so that it ends*)
(* with the run, unless it was started while an older one that had been    *)
(* stopped was still on its way out: that one takes its stop function away,*)
(* and it beats until the process ends.                                    *)
StoppableUnlessOverlapped == Beating \subseteq {hbCancel} \cup overlapped

(* While a run executes the sandbox is kept awake, unless the heartbeat    *)
(* could not be started, an operation on the sandbox stopped it, or a loop *)
(* on its way out did, which is the older one of a run resumed at once.    *)
RunKeepsSandboxAwake == Beating = {} => Running \subseteq unattended
=============================================================================
