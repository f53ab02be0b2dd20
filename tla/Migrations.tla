---------------------------- MODULE Migrations -----------------------------
(***************************************************************************)
(* Migrating the schema at boot (internal/db/migrate.go), by machines that *)
(* overlap during a deploy.  A machine carries the files of its build; two *)
(* builds may disagree about the text of one file, and so on its checksum. *)
(*                                                                         *)
(* Reading schema_migrations, the claim, each statement of a body and the  *)
(* commit are one action each.  The claim takes the write lock of the      *)
(* database, so no two transactions meet in their commits.                 *)
(***************************************************************************)
EXTENDS Naturals, Sequences

CONSTANTS
  Machines,     \* processes that boot
  Versions,     \* number of migration files; they are numbered from 1
  Body,         \* number of statements in a file
  LockAttempts, \* migrationLockAttempts
  MaxCrashes    \* bound: crashes, failing statements and lost answers

VARIABLES
  schema,       \* schema_migrations: the checksum recorded for each version, or 0
  executed,     \* what has been committed: [version, statement], in order
  holder,       \* the machine whose transaction holds the write lock
  draft,        \* what that transaction has executed
  machines,     \* [pc, version, known, attempt]: known is what it has read
  edited,       \* the machines whose build has another text of version 1
  crashes

migrationVars == <<schema, executed, holder, draft, machines, edited, crashes>>

NoHolder == "nobody"

(* A file has at least one statement.                                      *)
ASSUME MigrationAssumption ==
  /\ Versions \in Nat /\ Body \in Nat \ {0}
  /\ LockAttempts \in Nat \ {0} /\ MaxCrashes \in Nat
  /\ NoHolder \notin Machines

Unread == [v \in 1..Versions |-> 0]
Down == [pc |-> "down", version |-> 1, known |-> Unread, attempt |-> 1]

(* The checksum of the embedded file.                                      *)
Checksum(m, v) == IF m \in edited /\ v = 1 THEN 2 ELSE 1

MigrationsInit ==
  /\ schema = Unread /\ executed = <<>>
  /\ holder = NoHolder /\ draft = <<>>
  /\ machines = [m \in Machines |-> Down]
  /\ edited \in SUBSET Machines
  /\ crashes = 0

Version(m) == machines[m].version
Move(m, pc) == machines' = [machines EXCEPT ![m].pc = pc]
ExitMachine(m) == machines' = [machines EXCEPT ![m] = Down]

(* The version at hand is done with; attempts count anew for the next one. *)
Advance(m) ==
  machines' = [machines EXCEPT ![m].pc = "next", ![m].version = @ + 1, ![m].attempt = 1]

Rollback == holder' = NoHolder /\ draft' = <<>>

LeaveOpen(m) == UNCHANGED <<holder, draft>>

(* defer tx.Rollback(), or the database when the machine is gone.          *)
Abandon(m) == IF holder = m THEN Rollback ELSE UNCHANGED <<holder, draft>>

AnyText(m, v) == schema[v] # 0

(* The recorded checksum is the one of the embedded file.                  *)
SameText(m, v) == schema[v] = Checksum(m, v)

-----------------------------------------------------------------------------
(* appliedMigrations, once, before the files are gone through.             *)
ReadApplied(m) ==
  /\ machines[m].pc = "down"
  /\ machines' = [machines EXCEPT ![m].pc = "next", ![m].known = schema]
  /\ UNCHANGED <<schema, executed, holder, draft, edited, crashes>>

(* A file that was applied is skipped, and one that was edited since stops *)
(* the boot.                                                               *)
NextFile(m) ==
  LET v == Version(m) IN
  /\ machines[m].pc = "next" /\ v <= Versions
  /\ IF machines[m].known[v] = 0 THEN Move(m, "claim")
     ELSE IF machines[m].known[v] = Checksum(m, v) THEN Advance(m) ELSE ExitMachine(m)
  /\ UNCHANGED <<schema, executed, holder, draft, edited, crashes>>

Serve(m) ==
  /\ machines[m].pc = "next" /\ Version(m) > Versions
  /\ machines' = [machines EXCEPT ![m].pc = "serving", ![m].known = Unread]
  /\ UNCHANGED <<schema, executed, holder, draft, edited, crashes>>

(* INSERT OR REPLACE.                                                      *)
ClaimAgain(m) == TRUE

(* The primary key lets a version be claimed once.                         *)
Unclaimed(m) == schema[Version(m)] = 0

(* The INSERT that claims the version: it takes the lock, or finds the     *)
(* version taken, or the lock held by a peer.                              *)
ClaimVersion(m) ==
  /\ machines[m].pc = "claim"
  /\ \/ /\ holder = NoHolder /\ Unclaimed(m)
        /\ holder' = m /\ draft' = <<>> /\ Move(m, "body")
     \/ /\ holder = NoHolder /\ ~Unclaimed(m)
        /\ Move(m, "confirm") /\ UNCHANGED <<holder, draft>>
     \/ /\ holder # NoHolder
        /\ Move(m, "locked") /\ UNCHANGED <<holder, draft>>
  /\ UNCHANGED <<schema, executed, edited, crashes>>

AutoCommit(m, s) == executed' = Append(executed, s)

InTransaction(m, s) == UNCHANGED executed

(* A statement of the body, inside the transaction.                        *)
ExecuteStatement(m) ==
  LET s == [version |-> Version(m), statement |-> Len(draft) + 1] IN
  /\ machines[m].pc = "body" /\ Len(draft) < Body
  /\ draft' = Append(draft, s) /\ InTransaction(m, s)
  /\ UNCHANGED <<schema, holder, machines, edited, crashes>>

Committable(m) == machines[m].pc = "body" /\ Len(draft) = Body

CommitEffect(m) ==
  /\ schema' = [schema EXCEPT ![Version(m)] = Checksum(m, Version(m))]
  /\ executed' = executed \o draft
  /\ Rollback

CommitMigration(m) ==
  /\ Committable(m) /\ CommitEffect(m) /\ Advance(m)
  /\ UNCHANGED <<edited, crashes>>

(* The commit takes place and its answer is lost: Migrate fails, and the   *)
(* next boot finds the version applied.                                    *)
CommitAnswerLost(m) ==
  /\ Committable(m) /\ CommitEffect(m) /\ ExitMachine(m)
  /\ crashes < MaxCrashes /\ crashes' = crashes + 1
  /\ UNCHANGED edited

(* confirmPeerApplied: the version is taken, by the same file or another.  *)
ConfirmPeerApplied(m) ==
  /\ machines[m].pc = "confirm"
  /\ IF SameText(m, Version(m)) THEN Advance(m) ELSE ExitMachine(m)
  /\ UNCHANGED <<schema, executed, holder, draft, edited, crashes>>

(* The peer may have finished meanwhile (alreadyApplied); otherwise wait   *)
(* and claim again, a few times.                                           *)
AfterLocked(m) ==
  /\ machines[m].pc = "locked"
  /\ IF SameText(m, Version(m)) THEN Advance(m)
     ELSE IF machines[m].attempt < LockAttempts
     THEN machines' = [machines EXCEPT ![m].pc = "claim", ![m].attempt = @ + 1]
     ELSE ExitMachine(m)
  /\ UNCHANGED <<schema, executed, holder, draft, edited, crashes>>

(* A crash at any point, or a statement that fails.                        *)
MachineDies(m) ==
  /\ machines[m].pc # "down" /\ crashes < MaxCrashes /\ crashes' = crashes + 1
  /\ ExitMachine(m)
  /\ Abandon(m)
  /\ UNCHANGED <<schema, executed, edited>>

MachineStep(m) ==
  \/ ReadApplied(m) \/ NextFile(m) \/ Serve(m) \/ ClaimVersion(m)
  \/ ExecuteStatement(m) \/ CommitMigration(m) \/ ConfirmPeerApplied(m) \/ AfterLocked(m)

MigrationsNext ==
  \E m \in Machines : MachineStep(m) \/ CommitAnswerLost(m) \/ MachineDies(m)

(* A machine that exits is started again, and its calls return.            *)
MigrationsFairness == \A m \in Machines : WF_migrationVars(MachineStep(m))

MigrationsSpec ==
  MigrationsInit /\ [][MigrationsNext]_migrationVars /\ MigrationsFairness

-----------------------------------------------------------------------------
(* Properties.                                                             *)

(* Each statement of each file takes effect at most once, in the order of  *)
(* the files and of the statements in them, and no file in part: what has  *)
(* been executed is just what the recorded versions consist of.            *)
Recorded == {v \in 1..Versions : schema[v] # 0}

AppliedInOrderOnce ==
  /\ Len(executed) % Body = 0
  /\ Recorded = 1..(Len(executed) \div Body)
  /\ \A i \in DOMAIN executed :
       executed[i] = [version |-> ((i - 1) \div Body) + 1,
                      statement |-> ((i - 1) % Body) + 1]

(* The schema grows by whole files, each recorded in the step that it takes*)
(* effect in, and a record, once there, stays: the promise of SchemaLog.   *)
Log == INSTANCE SchemaLog WITH Files <- Versions, Length <- Body, Texts <- {1, 2},
                               texts <- schema, effects <- executed

SchemaGrowsByFiles == Log!Spec

(* A machine that serves does so on a schema made by the very files it     *)
(* carries.                                                                *)
ServesItsOwnSchema ==
  \A m \in Machines : machines[m].pc = "serving" =>
    \A v \in 1..Versions : schema[v] = Checksum(m, v)

(* A machine that begins to boot comes to serve, whatever died while it    *)
(* held the lock, unless a peer has applied another text of a file it      *)
(* carries.                                                                *)
EveryMachineServes ==
  \A m \in Machines :
    machines[m].pc # "down"
      ~> machines[m].pc = "serving" \/ \E v \in 1..Versions : schema[v] \notin {0, Checksum(m, v)}
=============================================================================
