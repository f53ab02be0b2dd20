---------------------------- MODULE ProjectProofs ----------------------------
(***************************************************************************)
(* Project for any number of jobs, of sandboxes and of mishaps.            *)
(*                                                                         *)
(* A job that holds the busy flag may rely on what it has seen of the row, *)
(* because the others that write the row's sandbox hold the flag as well:  *)
(* this is what Knows says, and why exclusion comes first.                 *)
(***************************************************************************)
EXTENDS Project, TLAPS

JobSet == [op: {"none"} \cup Operations \cup BoxState, pc: Guarded \cup Unguarded,
           saw: 0..MaxBoxes, box: 0..MaxBoxes, expired: BOOLEAN]

StateOK ==
  /\ project \in [exists: BOOLEAN, box: 0..MaxBoxes, state: RowState]
  /\ boxes \in [Boxes -> BoxState]
  /\ mishaps \subseteq Mishaps /\ luck \in 0..MaxMishaps
  /\ forgotten \subseteq Boxes

(* A row that is gone names nothing, and one that is there names sandboxes *)
(* the provider has made.                                                  *)
RowOK ==
  /\ ~project.exists => project = NoProject
  /\ project.box # 0 => boxes[project.box] # "none"

Holds(j) == jobs[j].pc \in Guarded
Provisions(j) == jobs[j].op \in {"create", "reset"}

(* Which operation is where.                                               *)
Place(j) ==
  /\ At(j, "destroy") => jobs[j].op \in {"reset", "delete"} /\ jobs[j].saw # 0
  /\ At(j, "drop") => jobs[j].op = "delete"
  /\ At(j, "lookup") => jobs[j].op = "delete"
  /\ At(j, "clear") => jobs[j].op = "reset"
  /\ jobs[j].pc \in {"attach", "halt", "halting", "desktop"} => ~Provisions(j)
  /\ At(j, "record") => jobs[j].box # 0 /\ boxes[jobs[j].box] # "none"
  /\ At(j, "write") => jobs[j].op \in BoxState \ {"none"}
  /\ At(j, "insert") => jobs[j].op = "create"

(* A sandbox nobody has to remember.                                       *)
Gone(b) == b = 0 \/ boxes[b] = "destroyed" \/ b \in forgotten

(* A provisioning that goes on after its context ended leaves a row in the *)
(* state provisioning only for a reason there is already.                  *)
AboutTo(i) == jobs[i].op = "create" /\ At(i, "acquire")

Late(j) ==
  Holds(j) /\ Provisions(j) /\ jobs[j].expired /\ project.state = "provisioning"
    => mishaps \ {"call"} # {} \/ \E i \in Jobs : AboutTo(i)

(* What a job that holds the flag knows of the row.                        *)
Knows(j) ==
  /\ jobs[j].pc \in {"destroy", "drop"} /\ jobs[j].op = "delete" => project.box = jobs[j].saw
  /\ jobs[j].pc \in {"drop", "clear"} => Gone(jobs[j].saw)
  /\ jobs[j].pc \in {"make", "record"} => project.exists /\ Gone(project.box)
  /\ Late(j)

(* A job that is provisioning, or is about to.                             *)
AtWorkOnIt(j) ==
  \/ jobs[j].op \in {"create", "reset"} /\ jobs[j].pc \in Guarded \ {"release"}
  \/ jobs[j].op = "create" /\ jobs[j].pc = "acquire"

IInv ==
  /\ ProjectTypeOK /\ RowOK /\ OneAtATime
  /\ \A j \in Jobs : Place(j) /\ Knows(j)
  /\ NoSandboxForgotten /\ ProvisioningHasACause

(* Sandboxes change state; none is made and none is destroyed.             *)
SameBoxes ==
  /\ boxes' \in [Boxes -> BoxState]
  /\ \A b \in Boxes : /\ boxes'[b] = "none" <=> boxes[b] = "none"
                      /\ boxes'[b] = "destroyed" <=> boxes[b] = "destroyed"

(* One job moves, and the others stay where they are.                      *)
MovesAlone(j) ==
  /\ jobs' \in [Jobs -> JobSet]
  /\ \A i \in Jobs \ {j} : jobs'[i] = jobs[i]

LEMMA TypeOKParts ==
  ProjectTypeOK <=> /\ StateOK /\ jobs \in [Jobs -> JobSet]
                    /\ busy \in {"", "provision"} \cup Operations
  BY DEF ProjectTypeOK, StateOK, JobSet

LEMMA InitEstablishes == ProjectInit => IInv
  <1> SUFFICES ASSUME ProjectInit PROVE IInv
    OBVIOUS
  <1>1. ProjectTypeOK
    <2>1. NoProject \in [exists: BOOLEAN, box: 0..MaxBoxes, state: RowState]
      BY ProjectAssumption DEF NoProject, RowState
    <2>2. NoJob \in JobSet
      BY ProjectAssumption DEF NoJob, JobSet, Unguarded
    <2>3. luck \in 0..MaxMishaps
      <3>1. MaxMishaps \in Nat
        BY ProjectAssumption
      <3>2. luck = MaxMishaps
        BY DEF ProjectInit
      <3>3. QED
        BY <3>1, <3>2
    <2>4. jobs \in [Jobs -> JobSet] /\ boxes \in [Boxes -> BoxState]
      BY <2>2 DEF ProjectInit, BoxState
    <2>5. project = NoProject /\ mishaps = {} /\ forgotten = {} /\ busy = ""
      BY DEF ProjectInit
    <2>6. StateOK
      BY <2>1, <2>3, <2>4, <2>5 DEF StateOK
    <2>7. QED
      BY <2>4, <2>5, <2>6, TypeOKParts
  <1>2. \A j \in Jobs : jobs[j].pc = "idle" /\ ~Holds(j)
    BY DEF ProjectInit, NoJob, Guarded, Holds
  <1>3. OneAtATime
    BY <1>2 DEF ProjectInit, OneAtATime, Holds
  <1>4. RowOK /\ NoSandboxForgotten /\ ProvisioningHasACause
    BY DEF ProjectInit, RowOK, NoSandboxForgotten, ProvisioningHasACause, NoProject
  <1>5. \A j \in Jobs : Place(j) /\ Knows(j)
    BY <1>2 DEF Place, Knows, Late, At
  <1>6. QED
    BY <1>1, <1>3, <1>4, <1>5 DEF IInv

-----------------------------------------------------------------------------
(* What can go wrong, and what does not.                                   *)

LEMMA FailsFacts ==
  ASSUME StateOK, NEW j \in Jobs, NEW kind \in Mishaps, Fails(j, kind)
  PROVE  /\ mishaps \subseteq mishaps' /\ mishaps' \subseteq Mishaps
         /\ luck' \in 0..MaxMishaps
         /\ ~jobs[j].expired => kind \in mishaps'
  BY ProjectAssumption DEF Fails, Quietly, Mishap, StateOK

(* Who was provisioning still is, and what went wrong still has.           *)
LEMMA SameCause ==
  ASSUME ProvisioningHasACause, project'.state = project.state, mishaps \subseteq mishaps',
         \A j \in Jobs : AtWorkOnIt(j) => AtWorkOnIt(j)'
  PROVE  ProvisioningHasACause'
  <1>1. CASE project.state = "provisioning" /\ mishaps \ {"call"} # {}
    BY <1>1 DEF ProvisioningHasACause
  <1>2. CASE project.state = "provisioning" /\ \E j \in Jobs : AtWorkOnIt(j)
    <2>1. PICK j \in Jobs : AtWorkOnIt(j)'
      BY <1>2
    <2>2. QED
      BY <2>1 DEF ProvisioningHasACause, AtWorkOnIt
  <1>3. QED
    BY <1>1, <1>2 DEF ProvisioningHasACause, AtWorkOnIt

LEMMA BoxNamed ==
  ASSUME NEW b \in 0..MaxBoxes, b # 0
  PROVE  b \in Boxes
  <1>1. MaxBoxes \in Nat
    BY ProjectAssumption
  <1>2. QED
    BY <1>1 DEF Boxes

(* What becomes of a job that moves.                                       *)
LEMMA Leaves ==
  ASSUME IInv, NEW j \in Jobs, NEW pc \in Guarded \cup Unguarded, Leave(j, pc)
  PROVE  /\ MovesAlone(j) /\ jobs'[j].pc = pc /\ jobs'[j].op = jobs[j].op
         /\ jobs'[j].expired = jobs[j].expired
  <1> DEFINE r == [op |-> jobs[j].op, pc |-> pc, saw |-> 0, box |-> 0,
                   expired |-> jobs[j].expired]
  <1>1. jobs \in [Jobs -> JobSet]
    BY TypeOKParts DEF IInv
  <1>2. MaxBoxes \in Nat
    BY ProjectAssumption
  <1>3. r \in JobSet /\ r.pc = pc /\ r.op = jobs[j].op /\ r.expired = jobs[j].expired
    BY <1>1, <1>2 DEF JobSet
  <1>4. jobs' = [jobs EXCEPT ![j] = r]
    BY DEF Leave
  <1> HIDE DEF r
  <1>5. QED
    BY <1>1, <1>3, <1>4 DEF MovesAlone

LEMMA Goes ==
  ASSUME IInv, NEW j \in Jobs, NEW pc \in Guarded \cup Unguarded, Goto(j, pc)
  PROVE  /\ MovesAlone(j) /\ jobs'[j].pc = pc /\ jobs'[j].op = jobs[j].op
         /\ jobs'[j].expired = jobs[j].expired
         /\ jobs'[j].saw = jobs[j].saw /\ jobs'[j].box = jobs[j].box
  <1>1. jobs \in [Jobs -> JobSet]
    BY TypeOKParts DEF IInv
  <1>2. QED
    BY <1>1 DEF Goto, MovesAlone, JobSet

LEMMA Ends ==
  ASSUME IInv, NEW j \in Jobs, EndJob(j)
  PROVE  MovesAlone(j) /\ jobs'[j] = NoJob
  <1>1. jobs \in [Jobs -> JobSet]
    BY TypeOKParts DEF IInv
  <1>2. MaxBoxes \in Nat
    BY ProjectAssumption
  <1>3. NoJob \in JobSet
    BY <1>2 DEF NoJob, JobSet, Unguarded
  <1>4. QED
    BY <1>1, <1>3 DEF EndJob, MovesAlone

-----------------------------------------------------------------------------
(* How a step keeps the invariant, by what its job does with the flag.     *)

(* What was known of sandboxes is known of them still.                     *)
LEMMA StillGone ==
  ASSUME SameBoxes, forgotten \subseteq forgotten', NEW b \in 0..MaxBoxes, Gone(b)
  PROVE  Gone(b)'
  BY DEF SameBoxes, Gone, Boxes

(* Whose row is still being provisioned, and late, has its reason still.   *)
LEMMA StillLate ==
  ASSUME NEW j \in Jobs, Late(j), mishaps \subseteq mishaps',
         Holds(j)' /\ Provisions(j)' /\ jobs'[j].expired /\ project'.state = "provisioning"
           => Holds(j) /\ Provisions(j) /\ jobs[j].expired /\ project.state = "provisioning",
         \A i \in Jobs : AboutTo(i) => AboutTo(i)'
  PROVE  Late(j)'
  <1>1. CASE mishaps \ {"call"} # {}
    <2>1. mishaps' \ {"call"} # {}
      BY <1>1
    <2>2. QED
      BY <2>1 DEF Late
  <1>2. CASE mishaps \ {"call"} = {}
    BY <1>2 DEF Late
  <1>3. QED
    BY <1>1, <1>2

(* The holder of the flag goes on holding it.  No other job has anything   *)
(* to lose.                                                                *)
LEMMA HolderActs ==
  ASSUME IInv, NEW j \in Jobs, Holds(j), MovesAlone(j), Holds(j)', UNCHANGED busy,
         StateOK', RowOK', Place(j)', Knows(j)', NoSandboxForgotten', ProvisioningHasACause'
  PROVE  IInv'
  <1>1. ProjectTypeOK'
    BY DEF IInv, MovesAlone, ProjectTypeOK, StateOK, JobSet
  <1>2. \A i \in Jobs : i # j => ~Holds(i) /\ jobs'[i] = jobs[i]
    BY DEF IInv, OneAtATime, Holds, MovesAlone
  <1>3. OneAtATime'
    BY <1>2 DEF IInv, OneAtATime, Holds
  <1>4. ASSUME NEW i \in Jobs, i # j PROVE Place(i)' /\ Knows(i)'
    <2>1. Knows(i)'
      BY <1>2, <1>4 DEF Knows, Late, Holds, Guarded
    <2>2. Place(i)'
      BY <1>2, <1>4 DEF IInv, Place, Holds, At, Provisions, Guarded
    <2>3. QED
      BY <2>1, <2>2
  <1>5. QED
    BY <1>1, <1>3, <1>4 DEF IInv

(* It does so without a change of the row or of what was forgotten, and    *)
(* neither hides a new sandbox nor gives a provisioning up.                *)
LEMMA HolderMoves ==
  ASSUME IInv, NEW j \in Jobs, Holds(j), MovesAlone(j), Holds(j)', SameBoxes,
         UNCHANGED <<busy, project, forgotten>>,
         mishaps \subseteq mishaps', mishaps' \subseteq Mishaps, luck' \in 0..MaxMishaps,
         At(j, "record") => jobs'[j].pc = "record" /\ jobs'[j].box = jobs[j].box,
         Provisions(j) /\ jobs[j].pc # "release" => Provisions(j)' /\ jobs'[j].pc # "release",
         Place(j)', Knows(j)'
  PROVE  IInv'
  <1>1. StateOK'
    BY TypeOKParts DEF IInv, StateOK, SameBoxes
  <1>2. RowOK'
    <2>1. project.box # 0 => project.box \in Boxes
      BY BoxNamed, TypeOKParts DEF IInv, StateOK
    <2>2. QED
      BY <2>1 DEF IInv, RowOK, SameBoxes
  <1>3. NoSandboxForgotten'
    BY DEF IInv, NoSandboxForgotten, MovesAlone, At, SameBoxes
  <1>4. ProvisioningHasACause'
    <2>1. ASSUME NEW i \in Jobs, AtWorkOnIt(i) PROVE AtWorkOnIt(i)'
      BY <2>1 DEF Holds, MovesAlone, Provisions, Guarded, AtWorkOnIt
    <2>2. QED
      BY <2>1, SameCause DEF IInv
  <1>5. QED
    BY <1>1, <1>2, <1>3, <1>4, HolderActs

(* It lets go of the sandbox and of what it has read.                      *)
LEMMA HolderLeaves ==
  ASSUME IInv, NEW j \in Jobs, Holds(j), ~At(j, "record"), SameBoxes,
         NEW pc \in {"release", "fail", "settle", "clone", "desktop"}, Leave(j, pc),
         UNCHANGED <<busy, project, forgotten>>,
         mishaps \subseteq mishaps', mishaps' \subseteq Mishaps, luck' \in 0..MaxMishaps,
         pc \in {"release", "desktop"} => ~Provisions(j)
  PROVE  IInv'
  <1>1. /\ MovesAlone(j) /\ jobs'[j].pc = pc /\ jobs'[j].op = jobs[j].op
        /\ jobs'[j].expired = jobs[j].expired
    BY Leaves DEF Guarded
  <1>2. Holds(j)' /\ (Provisions(j)' <=> Provisions(j))
    BY <1>1 DEF Holds, Guarded, Provisions
  <1>3. Place(j)'
    BY <1>1, <1>2 DEF Place, At
  <1>4. \A i \in Jobs : AboutTo(i) => AboutTo(i)'
    BY <1>1 DEF AboutTo, At, MovesAlone, Holds, Guarded
  <1>5. Late(j)'
    BY <1>1, <1>2, <1>4, StillLate DEF IInv, Knows
  <1>6. Knows(j)'
    BY <1>1, <1>5 DEF Knows
  <1>7. QED
    BY <1>1, <1>2, <1>3, <1>6, HolderMoves DEF At

(* A job takes the flag.                                                   *)
LEMMA FlagTaken ==
  ASSUME IInv, NEW j \in Jobs, ~Holds(j), MovesAlone(j), Holds(j)', busy = "", busy' # "",
         busy' \in {"", "provision"} \cup Operations,
         UNCHANGED <<project, boxes, mishaps, luck, forgotten>>, jobs'[j].pc # "record",
         AboutTo(j) => jobs'[j].op = "create" /\ jobs'[j].pc # "release",
         Place(j)', Knows(j)'
  PROVE  IInv'
  <1>1. ProjectTypeOK' /\ RowOK'
    BY DEF IInv, MovesAlone, ProjectTypeOK, StateOK, JobSet, RowOK
  <1>2. \A i \in Jobs : ~Holds(i)
    BY DEF IInv, OneAtATime, Holds
  <1>3. OneAtATime'
    BY <1>2 DEF OneAtATime, Holds, MovesAlone
  <1>4. ASSUME NEW i \in Jobs, i # j PROVE Place(i)' /\ Knows(i)'
    <2>1. jobs'[i] = jobs[i]
      BY <1>4 DEF MovesAlone
    <2>2. Place(i)'
      BY <2>1 DEF IInv, Place, At, Provisions
    <2>3. Knows(i)'
      BY <1>2, <2>1 DEF Knows, Late, Holds, Guarded
    <2>4. QED
      BY <2>2, <2>3
  <1>5. NoSandboxForgotten'
    BY <1>2 DEF IInv, NoSandboxForgotten, Holds, Guarded
  <1>6. ProvisioningHasACause'
    <2>1. ASSUME NEW i \in Jobs, AtWorkOnIt(i) PROVE AtWorkOnIt(i)'
      BY <1>2, <2>1 DEF Holds, MovesAlone, AtWorkOnIt, AboutTo, At
    <2>2. QED
      BY <2>1, SameCause DEF IInv
  <1>7. QED
    BY <1>1, <1>3, <1>4, <1>5, <1>6 DEF IInv

(* A job that does not hold the flag moves, and has no part in what the    *)
(* holder knows.                                                           *)
LEMMA OutsiderMoves ==
  ASSUME IInv, NEW j \in Jobs, ~Holds(j), MovesAlone(j), ~Holds(j)',
         UNCHANGED <<busy, boxes, forgotten>>, StateOK', RowOK', Place(j)',
         \A i \in Jobs : Holds(i) => Knows(i)', project.box = project'.box,
         ProvisioningHasACause'
  PROVE  IInv'
  <1>1. ProjectTypeOK'
    BY DEF IInv, MovesAlone, ProjectTypeOK, StateOK, JobSet
  <1>2. OneAtATime'
    BY DEF IInv, OneAtATime, Holds, MovesAlone
  <1>3. \A i \in Jobs : Place(i)' /\ Knows(i)'
    <2>1. ASSUME NEW i \in Jobs, ~Holds(i) PROVE Knows(i)'
      BY <2>1 DEF Knows, Late, Holds, MovesAlone, Guarded
    <2>2. ASSUME NEW i \in Jobs, i # j PROVE Place(i)'
      BY <2>2 DEF IInv, MovesAlone, Place, At, Provisions
    <2>3. QED
      BY <2>1, <2>2
  <1>4. NoSandboxForgotten'
    BY DEF IInv, NoSandboxForgotten, MovesAlone, Holds, Guarded
  <1>5. QED
    BY <1>1, <1>2, <1>3, <1>4 DEF IInv

(* ... and if nothing but the job changes, it is enough that it was not    *)
(* the one that is about to provision, or that it leaves a trace.          *)
LEMMA OutsiderIdles ==
  ASSUME IInv, NEW j \in Jobs, ~Holds(j), MovesAlone(j), ~Holds(j)',
         UNCHANGED <<busy, boxes, forgotten, project>>,
         mishaps \subseteq mishaps', mishaps' \subseteq Mishaps, luck' \in 0..MaxMishaps,
         AboutTo(j) => "skipped" \in mishaps', Place(j)'
  PROVE  IInv'
  <1>1. StateOK' /\ RowOK'
    BY TypeOKParts DEF IInv, StateOK, RowOK
  <1>2. "skipped" \in mishaps' \/ \A i \in Jobs : AboutTo(i) => AboutTo(i)'
    BY DEF AboutTo, MovesAlone, At
  <1>3. ASSUME NEW i \in Jobs, Holds(i) PROVE Knows(i)'
    <2>1. jobs'[i] = jobs[i]
      BY <1>3 DEF MovesAlone
    <2>2. Late(i)'
      <3>1. CASE "skipped" \in mishaps'
        BY <3>1 DEF Late
      <3>2. CASE \A k \in Jobs : AboutTo(k) => AboutTo(k)'
        BY <2>1, <3>2, StillLate DEF IInv, Knows, Holds, Provisions
      <3>3. QED
        BY <1>2, <3>1, <3>2
    <2>3. QED
      BY <2>1, <2>2 DEF IInv, Knows, Gone
  <1>4. ProvisioningHasACause'
    <2>1. CASE "skipped" \in mishaps'
      BY <2>1 DEF ProvisioningHasACause
    <2>2. CASE ~AboutTo(j)
      <3>1. ASSUME NEW i \in Jobs, AtWorkOnIt(i) PROVE AtWorkOnIt(i)'
        BY <2>2, <3>1 DEF MovesAlone, AtWorkOnIt, AboutTo, Holds, At
      <3>2. QED
        BY <3>1, SameCause DEF IInv
    <2>3. QED
      BY <2>1, <2>2
  <1>5. QED
    BY <1>1, <1>3, <1>4, OutsiderMoves

-----------------------------------------------------------------------------
(* What holds of the variables a step leaves alone, or counts.             *)

LEMMA Facts ==
  ASSUME IInv
  PROVE  /\ StateOK /\ jobs \in [Jobs -> JobSet]
         /\ mishaps \subseteq Mishaps /\ luck \in 0..MaxMishaps
         /\ project.box \in 0..MaxBoxes /\ project.exists \in BOOLEAN
         /\ boxes \in [Boxes -> BoxState] /\ forgotten \subseteq Boxes
         /\ UNCHANGED boxes => SameBoxes
  BY TypeOKParts DEF IInv, StateOK, SameBoxes

LEMMA Undisturbed ==
  ASSUME IInv, NEW j \in Jobs, Works(j) \/ Fails(j, "call") \/ Fails(j, "write")
  PROVE  mishaps \subseteq mishaps' /\ mishaps' \subseteq Mishaps /\ luck' \in 0..MaxMishaps
  BY Facts, FailsFacts DEF Works, Quietly, Mishaps

-----------------------------------------------------------------------------
(* The steps of a job that holds the flag.                                 *)

(* Those that let go of the sandbox, whatever the call came to.            *)
LEMMA HolderEnds ==
  ASSUME IInv, NEW j \in Jobs, Clone(j) \/ Desktop(j) \/ HaltEnds(j)
  PROVE  IInv'
  <1>1. Holds(j) /\ ~At(j, "record")
    BY DEF Clone, Desktop, HaltEnds, Holds, At, Guarded
  <1>2. SameBoxes /\ UNCHANGED <<busy, project, forgotten>>
    BY Facts DEF Clone, Desktop, HaltEnds
  <1>3. mishaps \subseteq mishaps' /\ mishaps' \subseteq Mishaps /\ luck' \in 0..MaxMishaps
    BY Facts, Undisturbed DEF Clone, Desktop, HaltEnds
  <1>4. CASE Clone(j)
    <2>1. Leave(j, "settle") \/ Leave(j, "fail")
      BY <1>4 DEF Clone
    <2>2. QED
      BY <1>1, <1>2, <1>3, <2>1, HolderLeaves
  <1>5. CASE Desktop(j) \/ HaltEnds(j)
    <2>1. ~Provisions(j)
      BY <1>5 DEF IInv, Place, Desktop, HaltEnds, At
    <2>2. Leave(j, "release") \/ Leave(j, "settle")
      BY <1>5 DEF Desktop, HaltEnds
    <2>3. QED
      BY <1>1, <1>2, <1>3, <2>1, <2>2, HolderLeaves
  <1>6. QED
    BY <1>4, <1>5

LEMMA Attaches ==
  ASSUME IInv, NEW j \in Jobs, Attach(j)
  PROVE  IInv'
  <1>1. Holds(j) /\ At(j, "attach") /\ ~At(j, "record") /\ ~Provisions(j)
    BY DEF Attach, Holds, At, Guarded, IInv, Place
  <1>2. SameBoxes /\ UNCHANGED <<busy, project, forgotten>>
    BY Facts DEF Attach, Attached
  <1>3. mishaps \subseteq mishaps' /\ mishaps' \subseteq Mishaps /\ luck' \in 0..MaxMishaps
    BY Undisturbed DEF Attach
  <1>4. CASE Leave(j, "release")
    BY <1>1, <1>2, <1>3, <1>4, HolderLeaves
  <1>5. CASE jobs' = [jobs EXCEPT ![j].box = project.box,
                                  ![j].pc = IF jobs[j].op = "stop" THEN "halt" ELSE "wake"]
    <2>1. MovesAlone(j) /\ jobs'[j].op = jobs[j].op /\ jobs'[j].pc \in {"halt", "wake"}
      BY <1>5, Facts DEF MovesAlone, JobSet, Guarded
    <2>2. Holds(j)' /\ ~Provisions(j)' /\ Place(j)' /\ Knows(j)'
      BY <1>1, <2>1 DEF Holds, Guarded, Provisions, Place, Knows, Late, At
    <2>3. QED
      BY <1>1, <1>2, <1>3, <2>1, <2>2, HolderMoves DEF At
  <1>6. QED
    BY <1>4, <1>5 DEF Attach, Attached

LEMMA Wakes ==
  ASSUME IInv, NEW j \in Jobs, Wake(j)
  PROVE  IInv'
  <1> DEFINE b == jobs[j].box
  <1>1. Holds(j) /\ At(j, "wake") /\ ~At(j, "record")
    BY DEF Wake, Holds, At, Guarded
  <1>2. UNCHANGED <<busy, project, forgotten>>
    BY DEF Wake
  <1>3. mishaps \subseteq mishaps' /\ mishaps' \subseteq Mishaps /\ luck' \in 0..MaxMishaps
    BY Undisturbed DEF Wake
  <1>4. CASE /\ boxes[b] = "stopped" /\ Works(j)
             /\ boxes' = [boxes EXCEPT ![b] = "starting"] /\ UNCHANGED jobs
    <2>1. SameBoxes
      BY <1>4, Facts DEF SameBoxes, BoxState
    <2>2. MovesAlone(j) /\ jobs'[j] = jobs[j]
      BY <1>4, Facts DEF MovesAlone
    <2>3. Holds(j)' /\ Place(j)'
      BY <1>1, <2>2 DEF Holds, Place, At
    <2>4. Late(j)'
      BY <1>2, <1>3, <1>4, <2>2, StillLate DEF IInv, Knows, Holds, Provisions, AboutTo, At
    <2>5. Knows(j)'
      BY <1>1, <2>2, <2>4 DEF Knows, At
    <2>6. QED
      BY <1>1, <1>2, <1>3, <2>1, <2>2, <2>3, <2>5, HolderMoves DEF Provisions
  <1>5. ASSUME UNCHANGED boxes, NEW pc \in {"release", "fail", "settle", "clone", "desktop"},
               Leave(j, pc), pc \in {"release", "desktop"} => jobs[j].op \in {"desktop"}
        PROVE  IInv'
    <2>1. pc \in {"release", "desktop"} => ~Provisions(j)
      BY <1>5 DEF Provisions
    <2>2. SameBoxes
      BY <1>5, Facts
    <2>3. QED
      BY <1>1, <1>2, <1>3, <1>5, <2>1, <2>2, HolderLeaves
  <1>6. CASE UNCHANGED boxes /\ Leave(j, AfterWake(jobs[j].op))
    <2>1. /\ AfterWake(jobs[j].op) \in {"settle", "desktop", "clone"}
          /\ AfterWake(jobs[j].op) = "desktop" => jobs[j].op = "desktop"
      BY DEF AfterWake
    <2>2. QED
      BY <1>5, <1>6, <2>1
  <1>7. CASE UNCHANGED boxes /\ Leave(j, IF jobs[j].op = "desktop" THEN "release" ELSE "fail")
    BY <1>5, <1>7
  <1>8. QED
    BY <1>4, <1>6, <1>7 DEF Wake

LEMMA Halts ==
  ASSUME IInv, NEW j \in Jobs, Halt(j)
  PROVE  IInv'
  <1>1. Holds(j) /\ At(j, "halt") /\ ~At(j, "record") /\ ~Provisions(j)
    BY DEF Halt, Holds, At, Guarded, IInv, Place
  <1>2. SameBoxes /\ UNCHANGED <<busy, project, forgotten>>
    BY Facts DEF Halt, SameBoxes, BoxState
  <1>3. mishaps \subseteq mishaps' /\ mishaps' \subseteq Mishaps /\ luck' \in 0..MaxMishaps
    BY Undisturbed DEF Halt
  <1>4. CASE Leave(j, "release")
    BY <1>1, <1>2, <1>3, <1>4, HolderLeaves
  <1>5. CASE Goto(j, "halting")
    <2>1. MovesAlone(j) /\ jobs'[j].op = jobs[j].op /\ jobs'[j].pc = "halting"
      BY <1>5, Goes DEF Guarded
    <2>2. Holds(j)' /\ ~Provisions(j)' /\ Place(j)' /\ Knows(j)'
      BY <1>1, <2>1 DEF Holds, Guarded, Provisions, Place, Knows, Late, At
    <2>3. QED
      BY <1>1, <1>2, <1>3, <2>1, <2>2, HolderMoves DEF At
  <1>6. QED
    BY <1>4, <1>5 DEF Halt

(* What the sandboxes' property asks when the holder makes no record of    *)
(* one: what it says of the others, the row and the forgotten must say.    *)
LEMMA NobodyRecords ==
  ASSUME IInv, NEW j \in Jobs, Holds(j), ~At(j, "record"),
         NEW b \in Boxes, boxes[b] \notin {"none", "destroyed"}
  PROVE  project.box = b \/ b \in forgotten
  <1>1. \A i \in Jobs : jobs[i].pc # "record"
    BY DEF IInv, OneAtATime, Holds, At, Guarded
  <1>2. QED
    BY <1>1 DEF IInv, NoSandboxForgotten

(* While the holder goes on, whoever is provisioning goes on.              *)
LEMMA CauseKept ==
  ASSUME IInv, NEW j \in Jobs, Holds(j), MovesAlone(j), Holds(j)',
         project'.state = project.state, mishaps \subseteq mishaps',
         Provisions(j) /\ jobs[j].pc # "release" => Provisions(j)' /\ jobs'[j].pc # "release"
  PROVE  ProvisioningHasACause'
  <1>1. ASSUME NEW i \in Jobs, AtWorkOnIt(i) PROVE AtWorkOnIt(i)'
    BY <1>1 DEF Holds, MovesAlone, Provisions, Guarded, AtWorkOnIt
  <1>2. QED
    BY <1>1, SameCause DEF IInv

LEMMA LateKept ==
  ASSUME IInv, NEW j \in Jobs, Holds(j), MovesAlone(j), mishaps \subseteq mishaps',
         project'.state = project.state, jobs'[j].op = jobs[j].op,
         jobs'[j].expired = jobs[j].expired
  PROVE  Late(j)'
  <1>1. \A i \in Jobs : AboutTo(i) => AboutTo(i)'
    BY DEF AboutTo, At, MovesAlone, Holds, Guarded
  <1>2. QED
    BY <1>1, StillLate DEF IInv, Knows, Provisions

(* The state is written, and with it the end of the provisioning, if the   *)
(* row is still there.                                                     *)
LEMMA StateWritten ==
  ASSUME IInv, NEW j \in Jobs, Holds(j), ~At(j, "record"), Leave(j, "release"),
         NEW s \in RowState, s # "provisioning", SetSandboxState(s),
         UNCHANGED <<boxes, busy, luck, forgotten>>
  PROVE  IInv'
  <1>1. /\ MovesAlone(j) /\ jobs'[j].pc = "release"
    BY Leaves DEF Guarded
  <1>2. Holds(j)' /\ Place(j)'
    BY <1>1 DEF Holds, Guarded, Place, At
  <1>3. /\ project' \in [exists: BOOLEAN, box: 0..MaxBoxes, state: RowState]
        /\ project'.box = project.box /\ project'.exists = project.exists
        /\ project.exists => project'.state = s
        /\ ~project.exists => project' = project
    BY Facts DEF SetSandboxState, StateOK
  <1>4. project'.state # "provisioning"
    <2>1. NoProject.state = ""
      BY DEF NoProject
    <2>2. ~project.exists => project'.state = ""
      BY <1>3, <2>1 DEF IInv, RowOK
    <2>3. QED
      BY <1>3, <2>2, Facts
  <1>5. StateOK' /\ RowOK'
    BY <1>3, Facts DEF StateOK, SetSandboxState, IInv, RowOK
  <1>6. Knows(j)' /\ ProvisioningHasACause'
    BY <1>1, <1>4 DEF Knows, Late, ProvisioningHasACause
  <1>7. NoSandboxForgotten'
    BY <1>3, NobodyRecords DEF NoSandboxForgotten
  <1>8. QED
    BY <1>1, <1>2, <1>5, <1>6, <1>7, HolderActs

LEMMA Settles ==
  ASSUME IInv, NEW j \in Jobs, Settle(j)
  PROVE  IInv'
  <1>1. Holds(j) /\ ~At(j, "record")
    BY DEF Settle, Holds, At, Guarded
  <1>2. CASE Live(j) /\ SetSandboxState(SettledState(jobs[j].op)) /\ Leave(j, "release")
    <2>1. SettledState(jobs[j].op) \in RowState /\ SettledState(jobs[j].op) # "provisioning"
      BY DEF SettledState, RowState, BoxState
    <2>2. UNCHANGED <<boxes, busy, luck, forgotten>>
      BY <1>2 DEF Settle, Live
    <2>3. QED
      BY <1>1, <1>2, <2>1, <2>2, StateWritten
  <1>3. CASE /\ Fails(j, "write") /\ UNCHANGED project
             /\ Leave(j, IF Provisions(j) THEN "fail" ELSE "release")
    <2>1. SameBoxes /\ UNCHANGED <<busy, project, forgotten>>
      BY <1>3, Facts DEF Settle
    <2>2. mishaps \subseteq mishaps' /\ mishaps' \subseteq Mishaps /\ luck' \in 0..MaxMishaps
      BY <1>3, Undisturbed
    <2>3. QED
      BY <1>1, <1>3, <2>1, <2>2, HolderLeaves
  <1>4. QED
    BY <1>2, <1>3 DEF Settle, Provisions

LEMMA FailureRecorded ==
  ASSUME IInv, NEW j \in Jobs, RecordFailure(j)
  PROVE  IInv'
  <1>1. Holds(j) /\ ~At(j, "record") /\ Leave(j, "release")
    BY DEF RecordFailure, AfterFailure, Holds, At, Guarded
  <1>2. CASE Live(j) /\ RecordError
    BY <1>1, <1>2, StateWritten DEF RecordFailure, RecordError, Live, RowState
  <1>3. CASE Fails(j, "write") /\ UNCHANGED project
    <2>1. mishaps \subseteq mishaps' /\ mishaps' \subseteq Mishaps /\ luck' \in 0..MaxMishaps
      BY <1>3, Undisturbed
    <2>2. /\ MovesAlone(j) /\ jobs'[j].pc = "release" /\ jobs'[j].op = jobs[j].op
          /\ jobs'[j].expired = jobs[j].expired
      BY <1>1, Leaves DEF Guarded
    <2>3. Holds(j)' /\ Place(j)'
      BY <2>2 DEF Holds, Guarded, Place, At
    <2>4. StateOK' /\ RowOK'
      BY <1>3, <2>1, Facts DEF RecordFailure, StateOK, IInv, RowOK
    <2>5. Late(j)'
      BY <1>1, <1>3, <2>1, <2>2, LateKept
    <2>6. Knows(j)'
      BY <2>2, <2>5 DEF Knows
    <2>7. NoSandboxForgotten'
      BY <1>1, <1>3, NobodyRecords DEF NoSandboxForgotten, RecordFailure
    <2>8. ProvisioningHasACause'
      <3>1. CASE ~Provisions(j)
        BY <1>1, <1>3, <2>1, <2>2, <2>3, <3>1, CauseKept
      <3>2. CASE Provisions(j) /\ jobs[j].expired
        <4>1. project'.state = "provisioning"
                => mishaps' \ {"call"} # {} \/ \E i \in Jobs : AboutTo(i)'
          BY <2>2, <2>3, <2>5, <3>2 DEF Late, Provisions
        <4>2. QED
          BY <4>1 DEF ProvisioningHasACause, AboutTo, At
      <3>3. CASE ~jobs[j].expired
        <4>1. "write" \in mishaps'
          BY <1>3, <3>3, Facts, FailsFacts DEF Mishaps
        <4>2. QED
          BY <4>1 DEF ProvisioningHasACause
      <3>4. QED
        BY <3>1, <3>2, <3>3
    <2>9. QED
      BY <1>1, <2>2, <2>3, <2>4, <2>6, <2>7, <2>8, HolderActs DEF RecordFailure
  <1>4. QED
    BY <1>2, <1>3 DEF RecordFailure

-----------------------------------------------------------------------------
(* Destroying, clearing and making sandboxes.                              *)

LEMMA LooksUp ==
  ASSUME IInv, NEW j \in Jobs, DeleteLookup(j)
  PROVE  IInv'
  <1>1. Holds(j) /\ At(j, "lookup") /\ ~At(j, "record") /\ ~Provisions(j)
        /\ jobs[j].op = "delete"
    BY DEF DeleteLookup, Holds, At, Guarded, IInv, Place, Provisions
  <1>2. SameBoxes /\ UNCHANGED <<busy, project, forgotten>>
    <2>1. UNCHANGED project
      BY DEF DeleteLookup
    <2>2. QED
      BY <2>1, Facts DEF DeleteLookup
  <1>3. mishaps \subseteq mishaps' /\ mishaps' \subseteq Mishaps /\ luck' \in 0..MaxMishaps
    BY Undisturbed DEF DeleteLookup
  <1>4. CASE Leave(j, "release")
    BY <1>1, <1>2, <1>3, <1>4, HolderLeaves
  <1>5. CASE jobs' = [jobs EXCEPT ![j].saw = project.box,
                                  ![j].pc = IF project.box = 0 THEN "drop" ELSE "destroy"]
    <2>1. /\ MovesAlone(j) /\ jobs'[j].op = jobs[j].op /\ jobs'[j].saw = project.box
          /\ jobs'[j].pc = IF project.box = 0 THEN "drop" ELSE "destroy"
      BY <1>5, Facts DEF MovesAlone, JobSet, Guarded
    <2>2. Holds(j)' /\ ~Provisions(j)' /\ Place(j)'
      BY <1>1, <2>1 DEF Holds, Guarded, Provisions, Place, At
    <2>3. Knows(j)'
      BY <1>2, <2>1, <2>2 DEF Knows, Late, Gone
    <2>4. QED
      BY <1>1, <1>2, <1>3, <2>1, <2>2, <2>3, HolderMoves DEF At
  <1>6. QED
    BY <1>4, <1>5 DEF DeleteLookup

LEMMA Destroys ==
  ASSUME IInv, NEW j \in Jobs, Destroy(j)
  PROVE  IInv'
  <1> DEFINE b == jobs[j].saw
  <1>1. /\ Holds(j) /\ At(j, "destroy") /\ ~At(j, "record")
        /\ jobs[j].op \in {"reset", "delete"} /\ b # 0
    BY DEF Destroy, Holds, At, Guarded, IInv, Place
  <1>2. b \in Boxes
    BY <1>1, Facts, BoxNamed DEF JobSet
  <1>3. mishaps \subseteq mishaps' /\ mishaps' \subseteq Mishaps /\ luck' \in 0..MaxMishaps
    BY Undisturbed DEF Destroy
  <1>4. /\ MovesAlone(j) /\ jobs'[j].op = jobs[j].op /\ jobs'[j].saw = b
        /\ jobs'[j].pc = (IF jobs[j].op = "reset" THEN "clear" ELSE "drop")
        /\ jobs'[j].expired = jobs[j].expired
    BY Goes DEF Destroy, Guarded
  <1>5. Holds(j)' /\ Place(j)'
    BY <1>1, <1>4 DEF Holds, Guarded, Place, At
  <1>6. /\ boxes' \in [Boxes -> BoxState] /\ forgotten' \subseteq Boxes
        /\ forgotten \subseteq forgotten'
        /\ \A c \in Boxes : boxes'[c] = boxes[c] \/ (c = b /\ boxes'[c] = "destroyed")
        /\ boxes'[b] = "destroyed" \/ b \in forgotten'
    BY <1>2, Facts DEF Destroy, BoxState
  <1>7. UNCHANGED <<project, busy>>
    BY DEF Destroy
  <1>8. StateOK'
    BY <1>3, <1>6, <1>7, Facts DEF StateOK
  <1>9. RowOK'
    <2>1. project.box # 0 => project.box \in Boxes
      BY Facts, BoxNamed
    <2>2. QED
      BY <1>6, <1>7, <2>1 DEF IInv, RowOK
  <1>10. Knows(j)'
    <2>1. Late(j)'
      BY <1>1, <1>3, <1>4, <1>7, LateKept
    <2>2. jobs[j].op = "delete" => project.box = b
      BY <1>1 DEF IInv, Knows, At
    <2>3. QED
      BY <1>4, <1>6, <1>7, <2>1, <2>2 DEF Knows, Gone
  <1>11. NoSandboxForgotten'
    BY <1>1, <1>6, <1>7, NobodyRecords DEF NoSandboxForgotten
  <1>12. ProvisioningHasACause'
    BY <1>1, <1>3, <1>4, <1>5, <1>7, CauseKept DEF Provisions
  <1>13. QED
    BY <1>1, <1>4, <1>5, <1>7, <1>8, <1>9, <1>10, <1>11, <1>12, HolderActs

LEMMA Drops ==
  ASSUME IInv, NEW j \in Jobs, Drop(j)
  PROVE  IInv'
  <1>1. /\ Holds(j) /\ At(j, "drop") /\ ~At(j, "record") /\ ~Provisions(j)
        /\ Leave(j, "release") /\ UNCHANGED <<boxes, busy, forgotten>>
        /\ project.box = jobs[j].saw /\ Gone(jobs[j].saw)
    BY DEF Drop, Holds, At, Guarded, IInv, Place, Knows, Provisions
  <1>2. CASE Fails(j, "write") /\ UNCHANGED project
    BY <1>1, <1>2, Facts, Undisturbed, HolderLeaves
  <1>3. CASE Live(j) /\ project' = NoProject /\ mishaps' = {}
    <2>1. /\ MovesAlone(j) /\ jobs'[j].pc = "release"
      BY <1>1, Leaves DEF Guarded
    <2>2. Holds(j)' /\ Place(j)'
      BY <2>1 DEF Holds, Guarded, Place, At
    <2>3. project'.exists = FALSE /\ project'.box = 0 /\ project'.state = ""
      BY <1>3 DEF NoProject
    <2>4. NoProject \in [exists: BOOLEAN, box: 0..MaxBoxes, state: RowState]
      BY ProjectAssumption DEF NoProject, RowState
    <2>5. StateOK'
      BY <1>1, <1>3, <2>4, Facts DEF StateOK, Live
    <2>6. RowOK'
      BY <1>3, <2>3 DEF RowOK
    <2>7. Knows(j)' /\ ProvisioningHasACause'
      BY <2>1, <2>3 DEF Knows, Late, ProvisioningHasACause
    <2>8. NoSandboxForgotten'
      <3>1. ASSUME NEW c \in Boxes, boxes[c] \notin {"none", "destroyed"} PROVE c \in forgotten
        <4>1. c = project.box => c \in forgotten
          BY <1>1, <3>1 DEF Gone, Boxes
        <4>2. QED
          BY <1>1, <3>1, <4>1, NobodyRecords
      <3>2. QED
        BY <1>1, <3>1 DEF NoSandboxForgotten
    <2>9. QED
      BY <1>1, <2>1, <2>2, <2>5, <2>6, <2>7, <2>8, HolderActs
  <1>4. QED
    BY <1>2, <1>3 DEF Drop

LEMMA Clears ==
  ASSUME IInv, NEW j \in Jobs, Clear(j)
  PROVE  IInv'
  <1>1. /\ Holds(j) /\ At(j, "clear") /\ ~At(j, "record") /\ jobs[j].op = "reset"
        /\ Provisions(j) /\ UNCHANGED <<boxes, busy>> /\ Gone(jobs[j].saw)
    BY DEF Clear, Holds, At, Guarded, IInv, Place, Knows, Provisions
  <1>2. mishaps \subseteq mishaps' /\ mishaps' \subseteq Mishaps /\ luck' \in 0..MaxMishaps
    BY Undisturbed DEF Clear
  <1>3. /\ MovesAlone(j) /\ jobs'[j].pc = "load" /\ jobs'[j].op = jobs[j].op
        /\ jobs'[j].expired = jobs[j].expired
    <2>1. 0 \in 0..MaxBoxes
      BY ProjectAssumption
    <2>2. jobs' = [jobs EXCEPT ![j].pc = "load", ![j].saw = 0]
      BY DEF Clear
    <2>3. QED
      BY <2>1, <2>2, Facts DEF MovesAlone, JobSet, Guarded
  <1>4. Holds(j)' /\ Provisions(j)' /\ Place(j)' /\ jobs'[j].pc # "release"
    BY <1>1, <1>3 DEF Holds, Provisions, Guarded, Place, At
  <1>5. CASE Fails(j, "write") /\ UNCHANGED <<project, forgotten>>
    <2>1. Late(j)'
      BY <1>1, <1>2, <1>3, <1>5, LateKept
    <2>2. Knows(j)'
      BY <1>3, <2>1 DEF Knows
    <2>3. QED
      BY <1>1, <1>2, <1>3, <1>4, <1>5, <2>2, Facts, HolderMoves
  <1>6. CASE /\ Works(j) /\ ClearSandbox
             /\ forgotten' = forgotten \cup (IF project.box = jobs[j].saw THEN {}
                                             ELSE {project.box} \ {0})
    <2>1. /\ project' \in [exists: BOOLEAN, box: 0..MaxBoxes, state: RowState]
          /\ project'.exists = project.exists
          /\ project.exists => project'.box = 0
          /\ ~project.exists => project' = project
      <3>1. 0 \in 0..MaxBoxes /\ "provisioning" \in RowState
        BY ProjectAssumption DEF RowState
      <3>2. project \in [exists: BOOLEAN, box: 0..MaxBoxes, state: RowState]
        BY Facts DEF StateOK
      <3>3. QED
        BY <1>6, <3>1, <3>2 DEF ClearSandbox
    <2>2. project.box # 0 => project.box \in Boxes
      BY Facts, BoxNamed
    <2>3. StateOK'
      BY <1>1, <1>2, <1>6, <2>1, <2>2, Facts DEF StateOK
    <2>4. RowOK'
      BY <1>1, <2>1 DEF IInv, RowOK
    <2>5. Knows(j)'
      BY <1>3, <1>6 DEF Knows, Late, Works
    <2>6. ProvisioningHasACause'
      BY <1>3, <1>4 DEF ProvisioningHasACause, Provisions, Holds
    <2>7. NoSandboxForgotten'
      <3>1. ASSUME NEW c \in Boxes, boxes[c] \notin {"none", "destroyed"}, c # project'.box
            PROVE  c \in forgotten'
        <4>1. c # 0
          BY DEF Boxes
        <4>2. c = project.box => c \in forgotten'
          BY <1>1, <1>6, <3>1, <4>1 DEF Gone
        <4>3. QED
          BY <1>1, <1>6, <3>1, <4>2, NobodyRecords
      <3>2. QED
        BY <1>1, <3>1 DEF NoSandboxForgotten
    <2>8. QED
      BY <1>1, <1>3, <1>4, <2>3, <2>4, <2>5, <2>6, <2>7, HolderActs
  <1>7. QED
    BY <1>5, <1>6 DEF Clear

LEMMA Loads ==
  ASSUME IInv, NEW j \in Jobs, LoadProject(j)
  PROVE  IInv'
  <1>1. Holds(j) /\ At(j, "load") /\ ~At(j, "record") /\ UNCHANGED <<project, boxes, busy>>
    BY DEF LoadProject, Holds, At, Guarded
  <1>2. mishaps \subseteq mishaps' /\ mishaps' \subseteq Mishaps /\ luck' \in 0..MaxMishaps
    BY Undisturbed DEF LoadProject
  <1>3. SameBoxes
    BY <1>1, Facts
  <1>4. CASE Leave(j, "fail") /\ UNCHANGED forgotten
    BY <1>1, <1>2, <1>3, <1>4, HolderLeaves
  <1>5. CASE jobs' = [jobs EXCEPT ![j].pc = "wake", ![j].box = project.box] /\ UNCHANGED forgotten
    <2>1. /\ MovesAlone(j) /\ jobs'[j].pc = "wake" /\ jobs'[j].op = jobs[j].op
          /\ jobs'[j].expired = jobs[j].expired
      BY <1>5, Facts DEF MovesAlone, JobSet, Guarded
    <2>2. Holds(j)' /\ Place(j)' /\ (Provisions(j) <=> Provisions(j)')
      BY <2>1 DEF Holds, Guarded, Place, At, Provisions
    <2>3. Late(j)'
      BY <1>1, <1>2, <2>1, LateKept
    <2>4. Knows(j)'
      BY <2>1, <2>3 DEF Knows
    <2>5. QED
      BY <1>1, <1>2, <1>3, <1>5, <2>1, <2>2, <2>4, HolderMoves
  <1>6. CASE /\ Goto(j, "make") /\ project.exists /\ Gone(project.box)'
             /\ forgotten \subseteq forgotten' /\ forgotten' \subseteq Boxes
    <2>1. /\ MovesAlone(j) /\ jobs'[j].pc = "make" /\ jobs'[j].op = jobs[j].op
          /\ jobs'[j].expired = jobs[j].expired
      BY <1>6, Goes DEF Guarded
    <2>2. Holds(j)' /\ Place(j)'
      BY <2>1 DEF Holds, Guarded, Place, At
    <2>3. Late(j)'
      BY <1>1, <1>2, <2>1, LateKept
    <2>4. Knows(j)'
      BY <1>1, <1>6, <2>1, <2>3 DEF Knows
    <2>5. StateOK' /\ RowOK'
      BY <1>1, <1>2, <1>6, Facts DEF StateOK, IInv, RowOK
    <2>6. NoSandboxForgotten'
      BY <1>1, <1>6, NobodyRecords DEF NoSandboxForgotten
    <2>7. ProvisioningHasACause'
      BY <1>1, <1>2, <2>1, <2>2, CauseKept DEF Provisions
    <2>8. QED
      BY <1>1, <2>1, <2>2, <2>4, <2>5, <2>6, <2>7, HolderActs
  <1>7. HasSandbox => project.exists /\ project.box # 0 /\ project.box \in Boxes
    BY Facts, BoxNamed DEF HasSandbox
  <1>8. CASE /\ project.exists /\ (HasSandbox => boxes[project.box] = "destroyed")
             /\ Goto(j, "make") /\ UNCHANGED forgotten
    BY <1>1, <1>6, <1>8, Facts DEF HasSandbox, Gone
  <1>9. CASE HasSandbox /\ Goto(j, "make") /\ forgotten' = forgotten \cup {project.box}
    BY <1>1, <1>6, <1>7, <1>9, Facts DEF Gone
  <1>10. QED
    BY <1>4, <1>5, <1>8, <1>9 DEF LoadProject, Attached

(* A sandbox has come to be, and only the job that asked for it knows, or  *)
(* not even that one.                                                      *)
LEMMA Makes ==
  ASSUME IInv, NEW j \in Jobs, Make(j)
  PROVE  IInv'
  <1>1. /\ Holds(j) /\ At(j, "make") /\ ~At(j, "record") /\ UNCHANGED <<project, busy>>
        /\ project.exists /\ Gone(project.box)
    BY DEF Make, Holds, At, Guarded, IInv, Knows
  <1>2. mishaps \subseteq mishaps' /\ mishaps' \subseteq Mishaps /\ luck' \in 0..MaxMishaps
    BY Undisturbed DEF Make
  <1>3. CASE Leave(j, "fail") /\ UNCHANGED <<boxes, forgotten>>
    BY <1>1, <1>2, <1>3, Facts, HolderLeaves
  <1>4. ASSUME NEW b \in Boxes, boxes[b] = "none", boxes' = [boxes EXCEPT ![b] = "started"],
               MovesAlone(j), Holds(j)', Place(j)', Late(j)', Provisions(j) => Provisions(j)',
               jobs'[j].pc \in {"record", "fail"},
               \/ jobs'[j].pc = "record" /\ jobs'[j].box = b /\ UNCHANGED forgotten
               \/ jobs'[j].pc = "fail" /\ forgotten' = forgotten \cup {b}
        PROVE  IInv'
    <2>1. /\ boxes' \in [Boxes -> BoxState] /\ boxes'[b] = "started"
          /\ \A c \in Boxes : c # b => boxes'[c] = boxes[c]
      BY <1>4, Facts DEF BoxState
    <2>2. StateOK'
      BY <1>1, <1>2, <1>4, <2>1, Facts DEF StateOK
    <2>3. RowOK'
      <3>1. project.box # 0 => project.box \in Boxes
        BY Facts, BoxNamed
      <3>2. QED
        BY <1>1, <2>1, <3>1 DEF IInv, RowOK
    <2>4. Knows(j)'
      <3>1. project.box # b \/ b \in forgotten
        BY <1>1, <1>4 DEF Gone, Boxes
      <3>2. project.box # 0 => project.box \in Boxes
        BY Facts, BoxNamed
      <3>3. Gone(project.box)'
        BY <1>1, <1>4, <2>1, <3>1, <3>2 DEF Gone
      <3>4. QED
        BY <1>1, <1>4, <3>3 DEF Knows, Gone
    <2>5. NoSandboxForgotten'
      <3>1. ASSUME NEW c \in Boxes, c # b, boxes'[c] \notin {"none", "destroyed"}
            PROVE  project'.box = c \/ c \in forgotten'
        <4>1. project.box = c \/ c \in forgotten
          BY <1>1, <2>1, <3>1, NobodyRecords
        <4>2. QED
          BY <1>1, <1>4, <4>1
      <3>2. ASSUME (jobs'[j].pc = "record" /\ jobs'[j].box = b) \/ b \in forgotten'
            PROVE  NoSandboxForgotten'
        BY <3>1, <3>2 DEF NoSandboxForgotten
      <3>3. QED
        BY <1>4, <3>2
    <2>6. ProvisioningHasACause'
      BY <1>1, <1>2, <1>4, CauseKept
    <2>7. QED
      BY <1>1, <1>4, <2>2, <2>3, <2>4, <2>5, <2>6, HolderActs
  <1>5. ASSUME NEW b \in Boxes, NextBox(b), Fails(j, "call"), Leave(j, "fail"),
               boxes' = [boxes EXCEPT ![b] = "started"], forgotten' = forgotten \cup {b}
        PROVE  IInv'
    <2>1. /\ MovesAlone(j) /\ jobs'[j].pc = "fail" /\ jobs'[j].op = jobs[j].op
          /\ jobs'[j].expired = jobs[j].expired
      BY <1>5, Leaves DEF Guarded
    <2>2. Holds(j)' /\ Place(j)' /\ (Provisions(j) => Provisions(j)')
      BY <2>1 DEF Holds, Guarded, Place, At, Provisions
    <2>3. Late(j)'
      BY <1>1, <1>2, <2>1, LateKept
    <2>4. QED
      BY <1>4, <1>5, <2>1, <2>2, <2>3 DEF NextBox
  <1>6. ASSUME NEW b \in Boxes, NextBox(b), Works(j), UNCHANGED forgotten,
               boxes' = [boxes EXCEPT ![b] = "started"],
               jobs' = [jobs EXCEPT ![j].pc = "record", ![j].box = b]
        PROVE  IInv'
    <2>1. b \in 0..MaxBoxes /\ b # 0
      BY DEF Boxes
    <2>2. /\ MovesAlone(j) /\ jobs'[j].pc = "record" /\ jobs'[j].op = jobs[j].op
          /\ jobs'[j].expired = jobs[j].expired /\ jobs'[j].box = b
      BY <1>6, <2>1, Facts DEF MovesAlone, JobSet, Guarded
    <2>3. boxes'[b] = "started"
      BY <1>6, Facts
    <2>4. Holds(j)' /\ Place(j)' /\ (Provisions(j) => Provisions(j)')
      BY <2>1, <2>2, <2>3 DEF Holds, Guarded, Place, At, Provisions
    <2>5. Late(j)'
      BY <1>1, <1>2, <2>2, LateKept
    <2>6. QED
      BY <1>4, <1>6, <2>2, <2>4, <2>5 DEF NextBox
  <1>7. QED
    BY <1>3, <1>5, <1>6 DEF Make

LEMMA Records ==
  ASSUME IInv, NEW j \in Jobs, Record(j)
  PROVE  IInv'
  <1> DEFINE b == jobs[j].box
  <1>1. /\ Holds(j) /\ At(j, "record") /\ UNCHANGED <<boxes, busy>>
        /\ project.exists /\ Gone(project.box) /\ b # 0 /\ boxes[b] # "none"
    BY DEF Record, Holds, At, Guarded, IInv, Knows, Place
  <1>2. mishaps \subseteq mishaps' /\ mishaps' \subseteq Mishaps /\ luck' \in 0..MaxMishaps
    BY Undisturbed DEF Record
  <1>3. b \in Boxes /\ b \in 0..MaxBoxes
    BY <1>1, Facts, BoxNamed DEF JobSet
  <1>4. /\ MovesAlone(j) /\ jobs'[j].pc \in {"wake", "fail"} /\ jobs'[j].op = jobs[j].op
        /\ jobs'[j].expired = jobs[j].expired
    <2>1. CASE Goto(j, "wake")
      BY <2>1, Goes DEF Guarded
    <2>2. CASE Leave(j, "fail")
      BY <2>2, Leaves DEF Guarded
    <2>3. QED
      BY <2>1, <2>2 DEF Record
  <1>5. /\ project' \in [exists: BOOLEAN, box: 0..MaxBoxes, state: RowState]
        /\ project'.exists /\ project'.state = project.state
        /\ forgotten \subseteq forgotten' /\ forgotten' \subseteq Boxes
        /\ \/ project'.box = b
           \/ project'.box = project.box /\ b \in forgotten'
    <2>1. project \in [exists: BOOLEAN, box: 0..MaxBoxes, state: RowState]
      BY Facts DEF StateOK
    <2>2. QED
      BY <1>1, <1>3, <2>1, Facts DEF Record, SetSandboxID
  <1>6. Holds(j)' /\ Place(j)'
    BY <1>4 DEF Holds, Guarded, Place, At
  <1>7. StateOK' /\ RowOK'
    BY <1>1, <1>2, <1>5, Facts DEF StateOK, IInv, RowOK
  <1>8. Late(j)'
    BY <1>1, <1>2, <1>4, <1>5, LateKept
  <1>9. Knows(j)'
    BY <1>4, <1>8 DEF Knows
  <1>10. NoSandboxForgotten'
    <2>1. ASSUME NEW c \in Boxes, boxes[c] \notin {"none", "destroyed"}, c # b
          PROVE  c \in forgotten \/ (c = project.box /\ c = project'.box)
      <3>1. \A i \in Jobs : jobs[i].pc = "record" => i = j
        BY <1>1 DEF IInv, OneAtATime, Holds, Guarded
      <3>2. c = project.box => c \in forgotten
        BY <1>1, <2>1 DEF Gone, Boxes
      <3>3. QED
        BY <2>1, <3>1, <3>2 DEF IInv, NoSandboxForgotten
    <2>2. QED
      BY <1>1, <1>5, <2>1 DEF NoSandboxForgotten
  <1>11. ProvisioningHasACause'
    BY <1>1, <1>2, <1>4, <1>5, <1>6, CauseKept DEF Provisions
  <1>12. QED
    BY <1>1, <1>4, <1>6, <1>7, <1>9, <1>10, <1>11, HolderActs

-----------------------------------------------------------------------------
(* Taking the flag and giving it back.                                     *)

LEMMA Takes ==
  ASSUME IInv, NEW j \in Jobs, NEW op \in {"delete", "start", "stop", "desktop"},
         NEW pc \in {"lookup", "attach"}, Begin(j, op, pc), pc = "lookup" <=> op = "delete"
  PROVE  IInv'
  <1> DEFINE r == [NoJob EXCEPT !.op = op, !.pc = pc]
  <1>1. r \in JobSet /\ r.op = op /\ r.pc = pc /\ r.expired = FALSE
    <2>1. 0 \in 0..MaxBoxes
      BY ProjectAssumption
    <2>2. QED
      BY <2>1 DEF NoJob, JobSet, Operations, Guarded
  <1>2. jobs' = [jobs EXCEPT ![j] = r]
    BY DEF Begin
  <1> HIDE DEF r
  <1>3. MovesAlone(j) /\ jobs'[j] = r
    BY <1>1, <1>2, Facts DEF MovesAlone
  <1>4. /\ ~Holds(j) /\ ~AboutTo(j) /\ busy = "" /\ busy' = op /\ op # ""
        /\ UNCHANGED <<project, boxes, mishaps, luck, forgotten>>
    BY DEF Begin, Acquire, At, AboutTo, Holds, Guarded
  <1>5. Holds(j)' /\ Place(j)' /\ Knows(j)' /\ jobs'[j].pc # "record"
    BY <1>1, <1>3 DEF Holds, Guarded, Place, Knows, Late, At, Provisions
  <1>6. QED
    BY <1>3, <1>4, <1>5, FlagTaken DEF Operations

(* goProvision: it takes the flag, or gives up and leaves a trace.         *)
LEMMA Provisioned ==
  ASSUME IInv, NEW j \in Jobs, GoProvision(j)
  PROVE  IInv'
  <1>1. /\ ~Holds(j) /\ jobs[j].op = "create" /\ UNCHANGED <<project, boxes, forgotten>>
    BY DEF GoProvision, At, Holds, Guarded
  <1>2. CASE /\ Acquire("provision") /\ Quietly
             /\ jobs' = [jobs EXCEPT ![j].pc = "load", ![j].expired = FALSE]
    <2>1. /\ MovesAlone(j) /\ jobs'[j].pc = "load" /\ jobs'[j].op = "create"
          /\ jobs'[j].expired = FALSE
      BY <1>1, <1>2, Facts DEF MovesAlone, JobSet, Guarded
    <2>2. Holds(j)' /\ Place(j)' /\ Knows(j)'
      BY <2>1 DEF Holds, Guarded, Place, Knows, Late, At
    <2>3. QED
      BY <1>1, <1>2, <2>1, <2>2, FlagTaken DEF Acquire, Quietly
  <1>3. CASE mishaps' = mishaps \cup {"skipped"} /\ EndJob(j) /\ UNCHANGED <<busy, luck>>
    <2>1. MovesAlone(j) /\ jobs'[j] = NoJob
      BY <1>3, Ends
    <2>2. ~Holds(j)' /\ Place(j)'
      BY <2>1 DEF NoJob, Holds, Guarded, Place, At
    <2>3. mishaps' \subseteq Mishaps
      BY <1>3, Facts DEF Mishaps
    <2>4. QED
      BY <1>1, <1>3, <2>1, <2>2, <2>3, Facts, OutsiderIdles
  <1>4. QED
    BY <1>2, <1>3 DEF GoProvision

LEMMA ResetTakes ==
  ASSUME IInv, NEW j \in Jobs, ResetAcquire(j)
  PROVE  IInv'
  <1>1. /\ ~Holds(j) /\ jobs[j].op = "reset" /\ ~AboutTo(j)
        /\ UNCHANGED <<project, boxes, mishaps, luck, forgotten>>
    BY DEF ResetAcquire, At, Holds, Guarded, AboutTo
  <1>2. CASE /\ Acquire("reset")
             /\ jobs' = [jobs EXCEPT ![j].pc = IF jobs[j].saw = 0 THEN "clear" ELSE "destroy",
                                     ![j].expired = FALSE]
    <2>1. /\ MovesAlone(j) /\ jobs'[j].op = "reset" /\ jobs'[j].saw = jobs[j].saw
          /\ jobs'[j].pc = (IF jobs[j].saw = 0 THEN "clear" ELSE "destroy")
          /\ jobs'[j].expired = FALSE
      BY <1>1, <1>2, Facts DEF MovesAlone, JobSet, Guarded
    <2>2. Holds(j)' /\ Place(j)' /\ jobs'[j].pc # "record"
      BY <2>1 DEF Holds, Guarded, Place, At
    <2>3. Knows(j)'
      BY <2>1 DEF Knows, Late, Gone
    <2>4. QED
      BY <1>1, <1>2, <2>1, <2>2, <2>3, FlagTaken DEF Acquire, Operations
  <1>3. CASE EndJob(j) /\ UNCHANGED busy
    <2>1. MovesAlone(j) /\ jobs'[j] = NoJob
      BY <1>3, Ends
    <2>2. ~Holds(j)' /\ Place(j)'
      BY <2>1 DEF NoJob, Holds, Guarded, Place, At
    <2>3. QED
      BY <1>1, <1>3, <2>1, <2>2, Facts, OutsiderIdles
  <1>4. QED
    BY <1>2, <1>3 DEF ResetAcquire

(* Only the holder releases.                                               *)
LEMMA Releases ==
  ASSUME IInv, NEW j \in Jobs, Release(j)
  PROVE  IInv'
  <1>1. /\ Holds(j) /\ jobs[j].pc = "release" /\ busy' = ""
        /\ UNCHANGED <<project, boxes, mishaps, luck, forgotten>>
    BY DEF Release, At, Holds, Guarded
  <1>2. MovesAlone(j) /\ jobs'[j] = NoJob
    BY Ends DEF Release
  <1>3. \A i \in Jobs : ~Holds(i)'
    <2>1. ~Holds(j)'
      BY <1>2 DEF Holds, NoJob, Guarded
    <2>2. \A i \in Jobs : i # j => ~Holds(i) /\ jobs'[i] = jobs[i]
      BY <1>1, <1>2 DEF IInv, OneAtATime, Holds, MovesAlone
    <2>3. QED
      BY <2>1, <2>2 DEF Holds
  <1>4. OneAtATime'
    BY <1>1, <1>3 DEF OneAtATime, Holds
  <1>5. ProjectTypeOK' /\ RowOK'
    BY <1>1, <1>2 DEF IInv, MovesAlone, ProjectTypeOK, StateOK, JobSet, RowOK
  <1>6. ASSUME NEW i \in Jobs PROVE Place(i)' /\ Knows(i)'
    <2>1. Knows(i)'
      BY <1>3 DEF Knows, Late, Holds, Guarded
    <2>2. CASE i = j
      BY <1>2, <2>1, <2>2 DEF Place, At, NoJob
    <2>3. CASE i # j
      BY <1>1, <1>2, <2>1, <2>3 DEF MovesAlone, IInv, Place, At, Provisions
    <2>4. QED
      BY <2>2, <2>3
  <1>7. NoSandboxForgotten'
    BY <1>1, <1>2 DEF IInv, NoSandboxForgotten, MovesAlone
  <1>8. ProvisioningHasACause'
    <2>1. ASSUME NEW i \in Jobs, AtWorkOnIt(i) PROVE AtWorkOnIt(i)'
      BY <1>1, <1>2, <2>1 DEF MovesAlone, AtWorkOnIt, Guarded
    <2>2. QED
      BY <1>1, <2>1, SameCause DEF IInv
  <1>9. QED
    BY <1>4, <1>5, <1>6, <1>7, <1>8 DEF IInv

-----------------------------------------------------------------------------
(* Steps without the flag.                                                 *)

LEMMA Asks ==
  ASSUME IInv, NEW j \in Jobs, CreateRead(j) \/ ResetRead(j) \/ RefreshCheck(j)
  PROVE  IInv'
  <1>1. /\ ~Holds(j) /\ ~AboutTo(j)
        /\ UNCHANGED <<project, boxes, busy, mishaps, luck, forgotten>>
    BY DEF CreateRead, ResetRead, RefreshCheck, At, Holds, Guarded, AboutTo
  <1>2. ASSUME NEW r \in JobSet, r.pc \in {"insert", "acquire", "info"},
               r.pc = "insert" => r.op = "create",
               jobs' = [jobs EXCEPT ![j] = r]
        PROVE  IInv'
    <2>1. MovesAlone(j) /\ jobs'[j] = r
      BY <1>2, Facts DEF MovesAlone
    <2>2. ~Holds(j)' /\ Place(j)'
      BY <1>2, <2>1 DEF Holds, Guarded, Place, At
    <2>3. QED
      BY <1>1, <2>1, <2>2, Facts, OutsiderIdles
  <1>3. 0 \in 0..MaxBoxes
    BY ProjectAssumption
  <1>4. CASE CreateRead(j)
    <2> DEFINE r == [NoJob EXCEPT !.op = "create", !.pc = "insert"]
    <2>1. r \in JobSet /\ r.pc = "insert" /\ r.op = "create"
      BY <1>3 DEF NoJob, JobSet, Operations, Unguarded
    <2>2. jobs' = [jobs EXCEPT ![j] = r]
      BY <1>4 DEF CreateRead
    <2> HIDE DEF r
    <2>3. QED
      BY <1>2, <2>1, <2>2
  <1>5. CASE RefreshCheck(j)
    <2> DEFINE r == [NoJob EXCEPT !.op = "refresh", !.pc = "info"]
    <2>1. r \in JobSet /\ r.pc = "info"
      BY <1>3 DEF NoJob, JobSet, Operations, Unguarded
    <2>2. jobs' = [jobs EXCEPT ![j] = r]
      BY <1>5 DEF RefreshCheck
    <2> HIDE DEF r
    <2>3. QED
      BY <1>2, <2>1, <2>2
  <1>6. CASE ResetRead(j)
    <2> DEFINE r == [NoJob EXCEPT !.op = "reset", !.pc = "acquire", !.saw = project.box]
    <2>1. r \in JobSet /\ r.pc = "acquire"
      BY <1>3, Facts DEF NoJob, JobSet, Operations, Unguarded
    <2>2. jobs' = [jobs EXCEPT ![j] = r]
      BY <1>6 DEF ResetRead
    <2> HIDE DEF r
    <2>3. QED
      BY <1>2, <2>1, <2>2
  <1>7. QED
    BY <1>4, <1>5, <1>6

(* Create's row: it names no sandbox, and what is late elsewhere has the   *)
(* new creation for its reason.                                            *)
LEMMA Inserts ==
  ASSUME IInv, NEW j \in Jobs, CreateInsert(j)
  PROVE  IInv'
  <1>1. /\ ~Holds(j) /\ ~AboutTo(j) /\ At(j, "insert")
        /\ UNCHANGED <<boxes, busy, forgotten>>
    BY DEF CreateInsert, At, Holds, Guarded, AboutTo
  <1>2. mishaps \subseteq mishaps' /\ mishaps' \subseteq Mishaps /\ luck' \in 0..MaxMishaps
    <2>1. CASE Quietly
      BY <2>1, Facts DEF Quietly
    <2>2. QED
      BY <2>1, Undisturbed DEF CreateInsert
  <1>3. CASE UNCHANGED project /\ EndJob(j)
    <2>1. MovesAlone(j) /\ jobs'[j] = NoJob
      BY <1>3, Ends
    <2>2. ~Holds(j)' /\ Place(j)'
      BY <2>1 DEF NoJob, Holds, Guarded, Place, At
    <2>3. QED
      BY <1>1, <1>2, <1>3, <2>1, <2>2, OutsiderIdles
  <1>4. CASE /\ ~project.exists /\ Goto(j, "acquire") /\ jobs[j].op = "create"
             /\ project' = [exists |-> TRUE, box |-> 0, state |-> "provisioning"]
    <2>1. MovesAlone(j) /\ jobs'[j].pc = "acquire" /\ jobs'[j].op = "create"
      BY <1>4, Goes DEF Unguarded
    <2>2. ~Holds(j)' /\ Place(j)' /\ AboutTo(j)'
      BY <2>1 DEF Holds, Guarded, Place, At, AboutTo
    <2>3. project.box = 0
      <3>1. NoProject.box = 0
        BY DEF NoProject
      <3>2. QED
        BY <1>4, <3>1 DEF IInv, RowOK
    <2>4. StateOK' /\ RowOK'
      <3>1. 0 \in 0..MaxBoxes /\ "provisioning" \in RowState
        BY ProjectAssumption DEF RowState
      <3>2. project' \in [exists: BOOLEAN, box: 0..MaxBoxes, state: RowState]
        BY <1>4, <3>1
      <3>3. QED
        BY <1>1, <1>2, <1>4, <3>2, Facts DEF StateOK, RowOK
    <2>5. ASSUME NEW i \in Jobs, Holds(i) PROVE Knows(i)'
      <3>1. jobs'[i] = jobs[i]
        BY <1>1, <2>1, <2>5 DEF MovesAlone
      <3>2. Late(i)'
        BY <2>2 DEF Late
      <3>3. jobs[i].pc \in {"destroy", "drop"} /\ jobs[i].op = "delete" => jobs[i].saw = 0
        BY <2>3 DEF IInv, Knows
      <3>4. QED
        BY <1>1, <1>4, <3>1, <3>2, <3>3 DEF IInv, Knows, Gone
    <2>6. ProvisioningHasACause'
      BY <2>1 DEF ProvisioningHasACause
    <2>7. project.box = project'.box
      BY <1>4, <2>3
    <2>8. QED
      BY <1>1, <2>1, <2>2, <2>4, <2>5, <2>6, <2>7, OutsiderMoves
  <1>5. jobs[j].op = "create"
    BY <1>1 DEF IInv, Place
  <1>6. QED
    BY <1>3, <1>4, <1>5 DEF CreateInsert

LEMMA RefreshLooks ==
  ASSUME IInv, NEW j \in Jobs, RefreshInfo(j)
  PROVE  IInv'
  <1>1. /\ ~Holds(j) /\ ~AboutTo(j) /\ UNCHANGED <<project, boxes, busy, mishaps, luck, forgotten>>
    BY DEF RefreshInfo, At, Holds, Guarded, AboutTo
  <1>2. CASE EndJob(j)
    <2>1. MovesAlone(j) /\ jobs'[j] = NoJob
      BY <1>2, Ends
    <2>2. ~Holds(j)' /\ Place(j)'
      BY <2>1 DEF NoJob, Holds, Guarded, Place, At
    <2>3. QED
      BY <1>1, <2>1, <2>2, Facts, OutsiderIdles
  <1>3. CASE HasSandbox /\ jobs' = [jobs EXCEPT ![j].pc = "write", ![j].op = boxes[project.box]]
    <2>1. project.box \in Boxes /\ boxes[project.box] \in BoxState \ {"none"}
      BY <1>3, Facts, BoxNamed DEF HasSandbox, IInv, RowOK
    <2>2. MovesAlone(j) /\ jobs'[j].pc = "write" /\ jobs'[j].op = boxes[project.box]
      BY <1>3, <2>1, Facts DEF MovesAlone, JobSet, Unguarded
    <2>3. ~Holds(j)' /\ Place(j)'
      BY <2>1, <2>2 DEF Holds, Guarded, Place, At
    <2>4. QED
      BY <1>1, <2>2, <2>3, Facts, OutsiderIdles
  <1>4. QED
    BY <1>2, <1>3 DEF RefreshInfo

(* The refresh writes a state of the provider, and none of them is         *)
(* provisioning.                                                           *)
LEMMA RefreshWrites ==
  ASSUME IInv, NEW j \in Jobs, RefreshWrite(j)
  PROVE  IInv'
  <1>1. /\ ~Holds(j) /\ UNCHANGED <<boxes, busy, luck, forgotten>> /\ mishaps' = {}
        /\ jobs[j].op \in BoxState \ {"none"}
    BY DEF RefreshWrite, SetSandboxState, At, Holds, Guarded, IInv, Place
  <1>2. MovesAlone(j) /\ jobs'[j] = NoJob
    BY Ends DEF RefreshWrite
  <1>3. ~Holds(j)' /\ Place(j)'
    BY <1>2 DEF NoJob, Holds, Guarded, Place, At
  <1>4. jobs[j].op \in RowState /\ jobs[j].op # "provisioning"
    BY <1>1 DEF RowState, BoxState
  <1>5. /\ project' \in [exists: BOOLEAN, box: 0..MaxBoxes, state: RowState]
        /\ project'.box = project.box /\ project'.exists = project.exists
        /\ project.exists => project'.state = jobs[j].op
        /\ ~project.exists => project' = project
    BY <1>4, Facts DEF RefreshWrite, SetSandboxState, StateOK
  <1>6. project'.state # "provisioning"
    <2>1. NoProject.state = ""
      BY DEF NoProject
    <2>2. ~project.exists => project'.state = ""
      BY <1>5, <2>1 DEF IInv, RowOK
    <2>3. QED
      BY <1>4, <1>5, <2>2, Facts
  <1>7. StateOK' /\ RowOK'
    BY <1>1, <1>5, Facts DEF StateOK, IInv, RowOK
  <1>8. ASSUME NEW i \in Jobs, Holds(i) PROVE Knows(i)'
    <2>1. jobs'[i] = jobs[i]
      BY <1>1, <1>2, <1>8 DEF MovesAlone
    <2>2. Late(i)'
      BY <1>6 DEF Late
    <2>3. QED
      BY <1>1, <1>5, <2>1, <2>2 DEF IInv, Knows, Gone
  <1>9. ProvisioningHasACause'
    BY <1>6 DEF ProvisioningHasACause
  <1>10. QED
    BY <1>1, <1>2, <1>3, <1>5, <1>7, <1>8, <1>9, OutsiderMoves

(* A context ends, which is a mishap of its own.                           *)
LEMMA Expires ==
  ASSUME IInv, NEW j \in Jobs, ContextEnds(j)
  PROVE  IInv'
  <1>1. /\ UNCHANGED <<project, boxes, busy, forgotten>> /\ ~AboutTo(j)
        /\ jobs' = [jobs EXCEPT ![j].expired = TRUE]
    BY DEF ContextEnds, AboutTo, At
  <1>2. mishaps' = mishaps \cup {"ended"} /\ mishaps' \subseteq Mishaps /\ luck' \in 0..MaxMishaps
    <2>1. mishaps' = mishaps \cup {"ended"} /\ luck > 0 /\ luck' = luck - 1
      BY DEF ContextEnds, Mishap
    <2>2. luck' \in 0..MaxMishaps
      BY <2>1, Facts, ProjectAssumption
    <2>3. QED
      BY <2>1, <2>2, Facts DEF Mishaps
  <1>3. /\ MovesAlone(j) /\ jobs'[j].pc = jobs[j].pc /\ jobs'[j].op = jobs[j].op
        /\ jobs'[j].saw = jobs[j].saw /\ jobs'[j].box = jobs[j].box
    BY <1>1, Facts DEF MovesAlone, JobSet
  <1>4. Place(j)' /\ (Holds(j)' <=> Holds(j))
    BY <1>1, <1>3 DEF IInv, Place, At, Provisions, Holds
  <1>5. CASE ~Holds(j)
    BY <1>1, <1>2, <1>3, <1>4, <1>5, OutsiderIdles
  <1>6. CASE Holds(j)
    <2>1. Late(j)'
      BY <1>2 DEF Late
    <2>2. Knows(j)'
      BY <1>1, <1>3, <2>1 DEF IInv, Knows, Gone
    <2>3. QED
      BY <1>1, <1>2, <1>3, <1>4, <1>6, <2>2, Facts, HolderMoves DEF At, Provisions
  <1>7. QED
    BY <1>5, <1>6

-----------------------------------------------------------------------------
(* The provider, the agent, and the process.                               *)

LEMMA BoxChanges ==
  ASSUME IInv, \/ \E b \in Boxes : AutoStop(b) \/ BoxSettles(b)
               \/ AgentWakes \/ UNCHANGED projectVars
  PROVE  IInv'
  <1>1. UNCHANGED <<project, busy, jobs, mishaps, luck, forgotten>>
    BY DEF AutoStop, BoxSettles, AgentWakes, projectVars
  <1>2. SameBoxes
    BY Facts DEF AutoStop, BoxSettles, AgentWakes, projectVars, SameBoxes, BoxState
  <1>3. ProjectTypeOK'
    BY <1>1, <1>2 DEF IInv, ProjectTypeOK, SameBoxes
  <1>4. RowOK'
    <2>1. project.box # 0 => project.box \in Boxes
      BY Facts, BoxNamed
    <2>2. QED
      BY <1>1, <1>2, <2>1 DEF IInv, RowOK, SameBoxes
  <1>5. OneAtATime' /\ ProvisioningHasACause'
    BY <1>1 DEF IInv, OneAtATime, ProvisioningHasACause
  <1>6. NoSandboxForgotten'
    BY <1>1, <1>2 DEF IInv, NoSandboxForgotten, SameBoxes
  <1>7. ASSUME NEW j \in Jobs PROVE Place(j)' /\ Knows(j)'
    <2>1. /\ jobs[j].box # 0 => jobs[j].box \in Boxes
          /\ jobs[j].saw \in 0..MaxBoxes /\ project.box \in 0..MaxBoxes
      BY Facts, BoxNamed DEF JobSet
    <2>2. Place(j)'
      BY <1>1, <1>2, <2>1 DEF IInv, Place, At, Provisions, SameBoxes
    <2>3. Late(j)'
      BY <1>1 DEF IInv, Knows, Late, Holds, Provisions, AboutTo, At
    <2>4. Gone(jobs[j].saw) => Gone(jobs[j].saw)'
      BY <1>1, <1>2, <2>1, BoxNamed DEF Gone, SameBoxes
    <2>5. Gone(project.box) => Gone(project.box)'
      BY <1>1, <1>2, <2>1, BoxNamed DEF Gone, SameBoxes
    <2>6. QED
      BY <1>1, <2>2, <2>3, <2>4, <2>5 DEF IInv, Knows
  <1>8. QED
    BY <1>3, <1>4, <1>5, <1>6, <1>7 DEF IInv

(* After a crash nobody holds the flag, and what was about to be recorded  *)
(* is lost.                                                                *)
LEMMA Restarts ==
  ASSUME IInv, RestartProcess
  PROVE  IInv'
  <1>1. /\ busy' = "" /\ jobs' = [j \in Jobs |-> NoJob] /\ UNCHANGED <<project, boxes>>
        /\ forgotten' = forgotten \cup {jobs[j].box : j \in {k \in Jobs : jobs[k].pc = "record"}}
        /\ mishaps' = mishaps \cup {"crash"} /\ luck > 0 /\ luck' = luck - 1
    BY DEF RestartProcess, Mishap
  <1>2. \A j \in Jobs : jobs'[j] = NoJob /\ ~Holds(j)'
    BY <1>1 DEF NoJob, Holds, Guarded
  <1>3. StateOK' /\ RowOK'
    <2>1. luck' \in 0..MaxMishaps
      <3>1. luck \in 0..MaxMishaps /\ MaxMishaps \in Nat
        BY Facts, ProjectAssumption
      <3>2. luck > 0 /\ luck' = luck - 1
        BY <1>1
      <3>3. QED
        BY <3>1, <3>2
    <2>2. mishaps' \subseteq Mishaps
      BY <1>1, Facts DEF Mishaps
    <2>3. ASSUME NEW j \in Jobs, jobs[j].pc = "record" PROVE jobs[j].box \in Boxes
      <3>1. jobs[j].box # 0
        BY <2>3 DEF IInv, Place, At
      <3>2. jobs[j].box \in 0..MaxBoxes
        BY Facts DEF JobSet
      <3>3. QED
        BY <3>1, <3>2, BoxNamed
    <2>4. forgotten' \subseteq Boxes
      BY <1>1, <2>3, Facts
    <2>5. QED
      BY <1>1, <2>1, <2>2, <2>4, Facts DEF StateOK, IInv, RowOK
  <1>4. jobs' \in [Jobs -> JobSet]
    <2>1. 0 \in 0..MaxBoxes
      BY ProjectAssumption
    <2>2. NoJob \in JobSet
      BY <2>1 DEF NoJob, JobSet, Unguarded
    <2>3. QED
      BY <1>1, <2>2
  <1>5. ProjectTypeOK'
    BY <1>1, <1>3, <1>4 DEF ProjectTypeOK, StateOK, JobSet
  <1>6. OneAtATime'
    BY <1>1, <1>2 DEF OneAtATime, Holds
  <1>7. \A j \in Jobs : Place(j)' /\ Knows(j)'
    BY <1>2 DEF Place, Knows, Late, At, NoJob, Holds
  <1>8. NoSandboxForgotten'
    BY <1>1 DEF IInv, NoSandboxForgotten
  <1>9. ProvisioningHasACause'
    <2>1. "crash" \in mishaps'
      BY <1>1
    <2>2. QED
      BY <2>1 DEF ProvisioningHasACause
  <1>10. QED
    BY <1>3, <1>5, <1>6, <1>7, <1>8, <1>9 DEF IInv

-----------------------------------------------------------------------------
(* The theorems.                                                           *)

LEMMA StepPreserves == IInv /\ [ProjectNext]_projectVars => IInv'
  <1> SUFFICES ASSUME IInv, [ProjectNext]_projectVars PROVE IInv'
    OBVIOUS
  <1>1. ASSUME NEW j \in Jobs, Ask(j) PROVE IInv'
    <2>1. CASE CreateRead(j) \/ ResetRead(j) \/ RefreshCheck(j)
      BY <2>1, Asks
    <2>2. CASE BeginDelete(j)
      BY <2>2, Takes DEF BeginDelete
    <2>3. CASE BeginStart(j) \/ BeginStop(j) \/ BeginDesktop(j)
      BY <2>3, Takes DEF BeginStart, BeginStop, BeginDesktop
    <2>4. QED
      BY <1>1, <2>1, <2>2, <2>3 DEF Ask
  <1>2. ASSUME NEW j \in Jobs, JobStep(j) PROVE IInv'
    <2>1. CASE CreateInsert(j) \/ GoProvision(j) \/ ResetAcquire(j) \/ Release(j)
      BY <2>1, Inserts, Provisioned, ResetTakes, Releases
    <2>2. CASE DeleteLookup(j) \/ Destroy(j) \/ Drop(j) \/ Clear(j)
      BY <2>2, LooksUp, Destroys, Drops, Clears
    <2>3. CASE Provision(j)
      BY <2>3, Loads, Makes, Records, HolderEnds, FailureRecorded DEF Provision
    <2>4. CASE Settle(j) \/ Attach(j) \/ Wake(j) \/ Desktop(j) \/ Halt(j) \/ HaltEnds(j)
      BY <2>4, Settles, Attaches, Wakes, HolderEnds, Halts
    <2>5. CASE RefreshInfo(j) \/ RefreshWrite(j)
      BY <2>5, RefreshLooks, RefreshWrites
    <2>6. QED
      BY <1>2, <2>1, <2>2, <2>3, <2>4, <2>5 DEF JobStep
  <1>3. ASSUME NEW j \in Jobs, ContextEnds(j) PROVE IInv'
    BY <1>3, Expires
  <1>4. CASE (\E b \in Boxes : AutoStop(b) \/ BoxSettles(b)) \/ AgentWakes \/ UNCHANGED projectVars
    BY <1>4, BoxChanges
  <1>5. CASE RestartProcess
    BY <1>5, Restarts
  <1>6. QED
    BY <1>1, <1>2, <1>3, <1>4, <1>5 DEF ProjectNext

LEMMA Invariance == ProjectSpec => []IInv
  BY InitEstablishes, StepPreserves, PTL DEF ProjectSpec

(* The busy flag excludes: at most one operation on the sandbox is at work,*)
(* the flag is up just while one is, and none gives back another's.        *)
THEOREM OperationsExclude == ProjectSpec => []OneAtATime
  <1>1. IInv => OneAtATime
    BY DEF IInv
  <1>2. QED
    BY <1>1, Invariance, PTL

(* A sandbox is not forgotten except in the ways the code accepts: create, *)
(* reset, delete and what fails in them never lose one otherwise.          *)
THEOREM SandboxesAreKept == ProjectSpec => []NoSandboxForgotten
  <1>1. IInv => NoSandboxForgotten
    BY DEF IInv
  <1>2. QED
    BY <1>1, Invariance, PTL

(* A row says provisioning because somebody provisions, or because of      *)
(* something other than a failing provider.                                *)
THEOREM ProvisioningIsExplained == ProjectSpec => []ProvisioningHasACause
  <1>1. IInv => ProvisioningHasACause
    BY DEF IInv
  <1>2. QED
    BY <1>1, Invariance, PTL

-----------------------------------------------------------------------------
(* Project implements SandboxLease.                                        *)

Existing(b) == boxes[b] \notin {"none", "destroyed"}
Made == {b \in Boxes : boxes[b] # "none"}
Alive == {b \in Boxes : Existing(b)} \ forgotten
LeaseStep == [Lease!Next]_<<Made, Alive>>

(* Only what the provider has made is read or forgotten.                   *)
MadeOK == /\ \A b \in forgotten : boxes[b] # "none"
          /\ \A j \in Jobs : jobs[j].saw # 0 => boxes[jobs[j].saw] # "none"

LeaseInv == IInv /\ MadeOK

(* What a job reads is in the row, and what is forgotten was in the row or *)
(* is what a job has read or made.                                         *)
Traced ==
  /\ \A i \in Jobs : jobs'[i].saw \in {0, jobs[i].saw, project.box}
  /\ forgotten \subseteq forgotten'
  /\ \A b \in forgotten' \ forgotten :
       b = project.box \/ \E i \in Jobs : b = jobs[i].saw \/ (At(i, "record") /\ b = jobs[i].box)

(* No sandbox is made, and none that is gone comes back.                   *)
NoneMade ==
  \A b \in Boxes : /\ boxes'[b] = "none" <=> boxes[b] = "none"
                   /\ boxes[b] = "destroyed" => boxes'[b] = "destroyed"

(* One is made, by a job that has the flag.                                *)
OneMade(b) ==
  /\ boxes[b] = "none" /\ boxes' = [boxes EXCEPT ![b] = "started"]
  /\ \A i \in Jobs : jobs'[i].saw \in {0, jobs[i].saw}
  /\ forgotten' \in {forgotten, forgotten \cup {b}}
  /\ \E j \in Jobs : At(j, "make")

(* At most one sandbox is accounted for: the one that is about to be       *)
(* recorded comes after the one in the row.                                *)
LEMMA AliveIsOne ==
  ASSUME IInv, NEW b \in Alive, NEW c \in Alive
  PROVE  b = c
  <1>1. /\ b \in Boxes /\ Existing(b) /\ b \notin forgotten /\ b # 0
        /\ c \in Boxes /\ Existing(c) /\ c \notin forgotten /\ c # 0
    BY DEF Alive, Boxes
  <1>2. ASSUME NEW j \in Jobs, jobs[j].pc = "record" PROVE project.box # b /\ project.box # c
    BY <1>1, <1>2 DEF IInv, Knows, Gone, Existing
  <1>3. ASSUME NEW i \in Jobs, NEW j \in Jobs, jobs[i].pc = "record", jobs[j].pc = "record"
        PROVE  i = j
    BY <1>3 DEF IInv, OneAtATime, Guarded
  <1>4. /\ project.box = b \/ \E j \in Jobs : jobs[j].pc = "record" /\ jobs[j].box = b
        /\ project.box = c \/ \E j \in Jobs : jobs[j].pc = "record" /\ jobs[j].box = c
    BY <1>1 DEF IInv, NoSandboxForgotten, Existing
  <1>5. QED
    BY <1>2, <1>3, <1>4

(* While a sandbox is being made, none is.                                 *)
LEMMA NoneAlive ==
  ASSUME IInv, NEW j \in Jobs, At(j, "make")
  PROVE  Alive = {}
  <1> SUFFICES ASSUME NEW b \in Alive PROVE FALSE
    OBVIOUS
  <1>1. b \in Boxes /\ Existing(b) /\ b \notin forgotten /\ b # 0
    BY DEF Alive, Boxes
  <1>2. project.box # b
    BY <1>1 DEF IInv, Knows, Gone, Existing, At
  <1>3. \A i \in Jobs : jobs[i].pc # "record"
    BY DEF IInv, OneAtATime, Guarded, At
  <1>4. QED
    BY <1>1, <1>2, <1>3 DEF IInv, NoSandboxForgotten, Existing

LEMMA TracedMade ==
  ASSUME LeaseInv, IInv', Traced, NoneMade
  PROVE  LeaseInv'
  <1>1. /\ project.box # 0 => project.box \in Boxes /\ boxes[project.box] # "none"
        /\ \A i \in Jobs : /\ jobs[i].saw # 0 => jobs[i].saw \in Boxes /\ boxes[jobs[i].saw] # "none"
                           /\ At(i, "record") => jobs[i].box \in Boxes /\ boxes[jobs[i].box] # "none"
    BY Facts, BoxNamed DEF LeaseInv, IInv, RowOK, Place, MadeOK, JobSet
  <1>2. forgotten \subseteq Boxes /\ forgotten' \subseteq Boxes
    BY DEF LeaseInv, IInv, ProjectTypeOK
  <1>3. ASSUME NEW b \in forgotten' PROVE boxes'[b] # "none"
    <2>1. b \in Boxes /\ b # 0
      BY <1>2, <1>3 DEF Boxes
    <2>2. boxes[b] # "none"
      BY <1>1, <1>3, <2>1 DEF Traced, LeaseInv, MadeOK
    <2>3. QED
      BY <2>1, <2>2 DEF NoneMade
  <1>4. ASSUME NEW i \in Jobs, jobs'[i].saw # 0 PROVE boxes'[jobs'[i].saw] # "none"
    <2>1. jobs'[i].saw \in Boxes /\ boxes[jobs'[i].saw] # "none"
      BY <1>1, <1>4 DEF Traced
    <2>2. QED
      BY <2>1 DEF NoneMade
  <1>5. QED
    BY <1>3, <1>4 DEF LeaseInv, MadeOK

LEMMA TracedStep ==
  ASSUME LeaseInv, Traced, NoneMade
  PROVE  LeaseStep
  <1>1. Made' = Made
    BY DEF NoneMade, Made
  <1>2. Alive' \subseteq Alive
    BY DEF NoneMade, Traced, Alive, Existing
  <1>3. Alive' = Alive \/ (Alive' = {} /\ Alive # {})
    BY <1>2, AliveIsOne DEF LeaseInv
  <1>4. QED
    BY <1>1, <1>3 DEF LeaseStep, Lease!Next, Lease!GiveUp, Made, Alive, Existing

LEMMA OneMadeStep ==
  ASSUME LeaseInv, IInv', NEW b \in Boxes, OneMade(b)
  PROVE  LeaseInv' /\ LeaseStep
  <1>1. boxes \in [Boxes -> BoxState] /\ forgotten \subseteq Boxes /\ forgotten' \subseteq Boxes
    BY DEF LeaseInv, IInv, ProjectTypeOK
  <1>2. boxes'[b] = "started" /\ \A c \in Boxes : c # b => boxes'[c] = boxes[c]
    BY <1>1 DEF OneMade
  <1>3. b \notin Made /\ Made' = Made \cup {b} /\ b \notin forgotten
    BY <1>1, <1>2 DEF OneMade, Made, LeaseInv, MadeOK
  <1>4. Alive = {}
    BY NoneAlive DEF OneMade, LeaseInv
  <1>5. Alive' = IF b \in forgotten' THEN {} ELSE {b}
    <2>1. ASSUME NEW c \in Alive' PROVE c = b /\ b \notin forgotten'
      BY <1>1, <1>2, <1>4, <2>1 DEF OneMade, Alive, Existing
    <2>2. b \notin forgotten' => b \in Alive'
      BY <1>1, <1>2 DEF Alive, Existing
    <2>3. QED
      BY <2>1, <2>2
  <1>6. Lease!Create(b) \/ Lease!CreateUnseen(b)
    BY <1>3, <1>4, <1>5 DEF Lease!Create, Lease!CreateUnseen, Made, Alive, Existing
  <1>7. LeaseStep
    BY <1>6 DEF LeaseStep, Lease!Next
  <1>8. ASSUME NEW i \in Jobs, jobs'[i].saw # 0 PROVE boxes'[jobs'[i].saw] # "none"
    <2>1. jobs'[i].saw = jobs[i].saw /\ boxes[jobs[i].saw] # "none" /\ jobs[i].saw \in Boxes
      BY <1>8, Facts, BoxNamed DEF OneMade, LeaseInv, MadeOK, JobSet
    <2>2. QED
      BY <1>2, <2>1
  <1>9. \A c \in forgotten' : boxes'[c] # "none"
    BY <1>1, <1>2 DEF OneMade, LeaseInv, MadeOK
  <1>10. QED
    BY <1>7, <1>8, <1>9 DEF LeaseInv, MadeOK

(* What the steps of a job do with the jobs' reading: it is dropped, kept,  *)
(* or taken from the row.                                                  *)
LEMMA SawLeft ==
  ASSUME IInv, NEW j \in Jobs, NEW pc, Leave(j, pc) \/ Goto(j, pc) \/ EndJob(j)
  PROVE  \A i \in Jobs : jobs'[i].saw \in {0, jobs[i].saw}
  <1>1. jobs \in [Jobs -> JobSet]
    BY Facts
  <1>2. CASE Leave(j, pc)
    BY <1>1, <1>2 DEF Leave
  <1>3. CASE Goto(j, pc)
    BY <1>1, <1>3 DEF Goto, JobSet
  <1>4. CASE EndJob(j)
    BY <1>1, <1>4 DEF EndJob, NoJob
  <1>5. QED
    BY <1>2, <1>3, <1>4

LEMMA Asking ==
  ASSUME LeaseInv, NEW j \in Jobs, Ask(j) \/ ContextEnds(j)
  PROVE  Traced /\ NoneMade
  <1>1. jobs \in [Jobs -> JobSet] /\ UNCHANGED <<boxes, forgotten>>
    BY Facts DEF LeaseInv, Ask, CreateRead, ResetRead, RefreshCheck, ContextEnds, Begin,
                 BeginDelete, BeginStart, BeginStop, BeginDesktop
  <1>2. \A i \in Jobs : jobs'[i].saw \in {0, jobs[i].saw, project.box}
    <2>1. CASE CreateRead(j) \/ RefreshCheck(j)
      BY <1>1, <2>1 DEF CreateRead, RefreshCheck, NoJob
    <2>2. CASE ResetRead(j)
      BY <1>1, <2>2 DEF ResetRead, NoJob
    <2>3. CASE BeginDelete(j) \/ BeginStart(j) \/ BeginStop(j) \/ BeginDesktop(j)
      BY <1>1, <2>3 DEF Begin, BeginDelete, BeginStart, BeginStop, BeginDesktop, NoJob
    <2>4. CASE ContextEnds(j)
      BY <1>1, <2>4 DEF ContextEnds, JobSet
    <2>5. QED
      BY <2>1, <2>2, <2>3, <2>4 DEF Ask
  <1>3. QED
    BY <1>1, <1>2 DEF Traced, NoneMade

(* The steps that touch neither sandboxes nor what is forgotten.           *)
LEMMA Plain ==
  ASSUME LeaseInv, NEW j \in Jobs,
         \/ CreateInsert(j) \/ GoProvision(j) \/ ResetAcquire(j) \/ DeleteLookup(j)
         \/ Drop(j) \/ Settle(j) \/ Release(j) \/ Attach(j) \/ Desktop(j) \/ HaltEnds(j)
         \/ Clone(j) \/ RecordFailure(j) \/ RefreshInfo(j) \/ RefreshWrite(j)
  PROVE  Traced /\ NoneMade
  <1>1. UNCHANGED <<boxes, forgotten>>
    BY DEF CreateInsert, GoProvision, ResetAcquire, DeleteLookup, Drop, Settle, Release,
           Attach, Desktop, HaltEnds, Clone, RecordFailure, RefreshInfo, RefreshWrite
  <1>2. IInv /\ jobs \in [Jobs -> JobSet]
    BY Facts DEF LeaseInv
  <1>3. \A i \in Jobs : jobs'[i].saw \in {0, jobs[i].saw, project.box}
    <2>1. CASE \E pc : Leave(j, pc) \/ Goto(j, pc) \/ EndJob(j)
      BY <1>2, <2>1, SawLeft
    <2>2. CASE CreateInsert(j) \/ Drop(j) \/ Settle(j) \/ Release(j) \/ Desktop(j)
      BY <2>1, <2>2 DEF CreateInsert, Drop, Settle, Release, Desktop
    <2>3. CASE HaltEnds(j) \/ Clone(j) \/ RecordFailure(j) \/ RefreshWrite(j)
      BY <2>1, <2>3 DEF HaltEnds, Clone, RecordFailure, AfterFailure, RefreshWrite
    <2>4. CASE GoProvision(j)
      <3>1. CASE jobs' = [jobs EXCEPT ![j].pc = "load", ![j].expired = FALSE]
        BY <1>2, <3>1 DEF JobSet
      <3>2. QED
        BY <2>1, <2>4, <3>1 DEF GoProvision
    <2>5. CASE ResetAcquire(j)
      <3>1. CASE busy = ""
        <4>1. jobs' = [jobs EXCEPT ![j].pc = IF jobs[j].saw = 0 THEN "clear" ELSE "destroy",
                                   ![j].expired = FALSE]
          BY <2>5, <3>1 DEF ResetAcquire
        <4>2. QED
          BY <1>2, <4>1 DEF JobSet
      <3>2. QED
        BY <2>1, <2>5, <3>1 DEF ResetAcquire, Acquire
    <2>6. CASE DeleteLookup(j)
      <3>1. CASE jobs' = [jobs EXCEPT ![j].saw = project.box,
                                      ![j].pc = IF project.box = 0 THEN "drop" ELSE "destroy"]
        BY <1>2, <3>1 DEF JobSet
      <3>2. QED
        BY <2>1, <2>6, <3>1 DEF DeleteLookup
    <2>7. CASE Attach(j)
      <3>1. CASE jobs' = [jobs EXCEPT ![j].box = project.box,
                                      ![j].pc = IF jobs[j].op = "stop" THEN "halt" ELSE "wake"]
        BY <1>2, <3>1 DEF JobSet
      <3>2. QED
        BY <2>1, <2>7, <3>1 DEF Attach
    <2>8. CASE RefreshInfo(j)
      <3>1. CASE jobs' = [jobs EXCEPT ![j].pc = "write", ![j].op = boxes[project.box]]
        BY <1>2, <3>1 DEF JobSet
      <3>2. QED
        BY <2>1, <2>8, <3>1 DEF RefreshInfo
    <2>9. QED
      BY <2>2, <2>3, <2>4, <2>5, <2>6, <2>7, <2>8
  <1>4. QED
    BY <1>1, <1>3 DEF Traced, NoneMade

(* Reset and Delete: what they lose is what they have read, or what the    *)
(* row names.                                                              *)
LEMMA Destroying ==
  ASSUME LeaseInv, NEW j \in Jobs, Destroy(j) \/ Clear(j)
  PROVE  Traced /\ NoneMade
  <1>1. /\ jobs \in [Jobs -> JobSet] /\ boxes \in [Boxes -> BoxState] /\ IInv
        /\ At(j, "destroy") => jobs[j].saw \in Boxes /\ boxes[jobs[j].saw] # "none"
    BY Facts, BoxNamed DEF LeaseInv, MadeOK, IInv, StateOK, Place, JobSet
  <1>2. CASE Destroy(j)
    <2>1. \A i \in Jobs : jobs'[i].saw \in {0, jobs[i].saw}
      BY <1>1, <1>2, SawLeft DEF Destroy
    <2>2. forgotten' \in {forgotten, forgotten \cup {jobs[j].saw}}
      BY <1>2 DEF Destroy
    <2>3. NoneMade
      BY <1>1, <1>2 DEF Destroy, NoneMade
    <2>4. QED
      BY <2>1, <2>2, <2>3 DEF Traced
  <1>3. CASE Clear(j)
    <2>1. \A i \in Jobs : jobs'[i].saw \in {0, jobs[i].saw}
      BY <1>1, <1>3 DEF Clear, JobSet
    <2>2. /\ forgotten' \in {forgotten, forgotten \cup {project.box}, forgotten \cup ({project.box} \ {0})}
          /\ boxes' = boxes
      BY <1>3 DEF Clear
    <2>3. QED
      BY <2>1, <2>2 DEF Traced, NoneMade
  <1>4. QED
    BY <1>2, <1>3

(* The provisioning, and what wakes or halts a sandbox.                    *)
LEMMA Provisioning ==
  ASSUME LeaseInv, NEW j \in Jobs, LoadProject(j) \/ Record(j) \/ Wake(j) \/ Halt(j)
  PROVE  Traced /\ NoneMade
  <1>1. jobs \in [Jobs -> JobSet] /\ boxes \in [Boxes -> BoxState] /\ IInv
    BY Facts DEF LeaseInv, StateOK
  <1>2. \A i \in Jobs : jobs'[i].saw \in {0, jobs[i].saw}
    <2>1. CASE \E pc : Leave(j, pc) \/ Goto(j, pc)
      BY <1>1, <2>1, SawLeft
    <2>2. CASE LoadProject(j)
      <3>1. CASE jobs' = [jobs EXCEPT ![j].pc = "wake", ![j].box = project.box]
        BY <1>1, <3>1 DEF JobSet
      <3>2. QED
        BY <2>1, <2>2, <3>1 DEF LoadProject
    <2>3. CASE Record(j) \/ Wake(j) \/ Halt(j)
      BY <2>1, <2>3 DEF Record, Wake, Halt
    <2>4. QED
      BY <2>2, <2>3
  <1>3. /\ forgotten \subseteq forgotten'
        /\ \A b \in forgotten' \ forgotten :
             b = project.box \/ (At(j, "record") /\ b = jobs[j].box)
    BY DEF LoadProject, Record, Wake, Halt
  <1>4. NoneMade
    <2>1. CASE LoadProject(j) \/ Record(j)
      BY <2>1 DEF LoadProject, Record, NoneMade
    <2>2. CASE Wake(j)
      BY <1>1, <2>2 DEF Wake, NoneMade
    <2>3. CASE Halt(j)
      BY <1>1, <2>3 DEF Halt, NoneMade
    <2>4. QED
      BY <2>1, <2>2, <2>3
  <1>5. QED
    BY <1>2, <1>3, <1>4 DEF Traced

LEMMA Making ==
  ASSUME LeaseInv, NEW j \in Jobs, Make(j)
  PROVE  (Traced /\ NoneMade) \/ \E b \in Boxes : OneMade(b)
  <1>1. jobs \in [Jobs -> JobSet] /\ IInv
    BY Facts DEF LeaseInv
  <1>2. ASSUME NEW b \in Boxes, NextBox(b), boxes' = [boxes EXCEPT ![b] = "started"],
               jobs' = [jobs EXCEPT ![j].pc = "record", ![j].box = b], UNCHANGED forgotten
        PROVE  OneMade(b)
    BY <1>1, <1>2 DEF OneMade, NextBox, JobSet, Make
  <1>3. ASSUME NEW b \in Boxes, NextBox(b), boxes' = [boxes EXCEPT ![b] = "started"],
               Leave(j, "fail"), forgotten' = forgotten \cup {b}
        PROVE  OneMade(b)
    BY <1>1, <1>3, SawLeft DEF OneMade, NextBox, Make
  <1>4. CASE Leave(j, "fail") /\ UNCHANGED <<boxes, forgotten>>
    BY <1>1, <1>4, SawLeft DEF Traced, NoneMade
  <1>5. QED
    BY <1>2, <1>3, <1>4 DEF Make

(* The provider, the agent, and the process.                               *)
LEMMA Surroundings ==
  ASSUME LeaseInv, \/ \E b \in Boxes : AutoStop(b) \/ BoxSettles(b)
                   \/ AgentWakes \/ RestartProcess \/ UNCHANGED projectVars
  PROVE  Traced /\ NoneMade
  <1>1. boxes \in [Boxes -> BoxState]
    BY Facts DEF LeaseInv, StateOK
  <1>2. CASE \/ \E b \in Boxes : AutoStop(b) \/ BoxSettles(b)
             \/ AgentWakes \/ UNCHANGED projectVars
    <2>1. UNCHANGED <<jobs, forgotten>>
      BY <1>2 DEF AutoStop, BoxSettles, AgentWakes, projectVars
    <2>2. NoneMade
      BY <1>1, <1>2 DEF AutoStop, BoxSettles, AgentWakes, projectVars, NoneMade
    <2>3. QED
      BY <2>1, <2>2 DEF Traced
  <1>3. CASE RestartProcess
    BY <1>3 DEF RestartProcess, Traced, NoneMade, NoJob, At
  <1>4. QED
    BY <1>2, <1>3

LEMMA LeaseStepPreserves == LeaseInv /\ [ProjectNext]_projectVars => LeaseInv' /\ LeaseStep
  <1> SUFFICES ASSUME LeaseInv, [ProjectNext]_projectVars PROVE LeaseInv' /\ LeaseStep
    OBVIOUS
  <1>1. IInv'
    BY StepPreserves DEF LeaseInv
  <1>2. (Traced /\ NoneMade) \/ \E b \in Boxes : OneMade(b)
    <2>1. ASSUME NEW j \in Jobs, JobStep(j)
          PROVE  (Traced /\ NoneMade) \/ \E b \in Boxes : OneMade(b)
      BY <2>1, Plain, Destroying, Provisioning, Making DEF JobStep, Provision
    <2>2. QED
      BY <2>1, Asking, Surroundings DEF ProjectNext
  <1>3. QED
    BY <1>1, <1>2, TracedMade, TracedStep, OneMadeStep

(* One sandbox after another: Project implements SandboxLease.             *)
THEOREM SandboxesSucceed == ProjectSpec => OneSandboxAfterAnother
  <1>1. ProjectInit => LeaseInv /\ Lease!Init
    <2>1. ProjectInit => MadeOK
      <3>1. NoJob.saw = 0
        BY DEF NoJob
      <3>2. QED
        BY <3>1 DEF MadeOK, ProjectInit
    <2>2. ProjectInit => Lease!Init
      BY DEF ProjectInit, Lease!Init
    <2>3. QED
      BY <2>1, <2>2, InitEstablishes DEF LeaseInv
  <1>2. LeaseInv /\ [ProjectNext]_projectVars => [Lease!Next]_<<Made, Alive>>
    BY LeaseStepPreserves DEF LeaseStep
  <1>3. QED
    BY <1>1, <1>2, LeaseStepPreserves, PTL
       DEF ProjectSpec, OneSandboxAfterAnother, Lease!Spec, Made, Alive, Existing

=============================================================================
