----------------------------- MODULE Settings ------------------------------
(***************************************************************************)
(* The settings, their cache in each process, and the secrets              *)
(* (internal/config/store.go).  Two processes run side by side while a     *)
(* deploy rolls over (internal/db/migrate.go:120).                         *)
(*                                                                         *)
(* One save writes a section, all its keys in one transaction, and then    *)
(* the cache.  Values are numbered by the saves that write them.  A secret *)
(* is what put it there: an operator, or the environment at a boot.        *)
(***************************************************************************)
EXTENDS Naturals, FiniteSets

CONSTANTS
  Keys,         \* the keys of the section the savers write
  Names,        \* names of secrets the environment has seeds for
  Servers,      \* processes
  Savers,       \* requests that save at once
  MaxSaves,     \* bound: saves ever begun
  MaxRotations, \* bound: secrets set or deleted by the operator
  MaxRestarts   \* bound: restarts of a process

(* A section has a key.                                                    *)
ASSUME KeysAssumption == Keys # {}

VARIABLES
  settings,     \* the table
  caches,       \* Store.cache of each process, NoCache before it is loaded
  savers,       \* [pc, server, value, draft]: a SetMany, and what its transaction wrote
  writer,       \* the saver that holds the write lock
  saves,        \* number of saves so far
  stale,        \* history: processes whose cache may lag behind, and why not yet healed
  secrets,      \* what each secret holds
  seeding,      \* [Servers -> SUBSET Names]: seeds a boot has found missing
  kept,         \* history: secrets stored while no boot was about to seed them
  rotations, restarts

settingsTable == <<settings, caches, savers, writer, saves, stale>>
secretsTable  == <<secrets, seeding, kept>>
settingsVars  == <<settings, caches, savers, writer, saves, stale,
                   secrets, seeding, kept, rotations, restarts>>

NoCache == [k \in {} |-> 0]
NoWriter == "nobody"
NoSave == [pc |-> "idle", server |-> "none", value |-> 0, draft |-> {}]

SettingsInit ==
  /\ settings = [k \in Keys |-> 0]
  /\ caches = [s \in Servers |-> NoCache]
  /\ savers = [w \in Savers |-> NoSave]
  /\ writer = NoWriter /\ saves = 0 /\ stale = {}
  /\ secrets = [n \in Names |-> "none"]
  /\ seeding = [s \in Servers |-> {}]
  /\ kept = {} /\ rotations = 0 /\ restarts = 0

Loaded == {s \in Servers : caches[s] # NoCache}
Serving == {s \in Loaded : seeding[s] = {}}

(* Savers of a process that have committed and not reached the cache.      *)
Committed(s) == {w \in Savers : savers[w].pc = "cache" /\ savers[w].server = s}

-----------------------------------------------------------------------------
SeedEverything == Names

(* SeedSecretsFromEnv asks once which secrets are present ...              *)
MissingSecrets == {n \in Names : secrets[n] = "none"}

(* Boot: NewStore loads the cache, then the seeds are looked at.           *)
LoadStore(s) ==
  /\ s \notin Loaded
  /\ caches' = [caches EXCEPT ![s] = settings]
  /\ stale' = stale \ {s}
  /\ seeding' = [seeding EXCEPT ![s] = MissingSecrets]
  /\ UNCHANGED <<settings, savers, writer, saves, secrets, kept, rotations, restarts>>

(* ... and then stores a seed for each of the missing.                     *)
SeedSecret(s, n) ==
  /\ n \in seeding[s]
  /\ secrets' = [secrets EXCEPT ![n] = "seed"]
  /\ seeding' = [seeding EXCEPT ![s] = @ \ {n}]
  /\ UNCHANGED <<settingsTable, kept, rotations, restarts>>

(* SetSecret and DeleteSecret, from the settings screen of a process that  *)
(* serves.                                                                 *)
RotateSecret(n) ==
  /\ Serving # {} /\ rotations < MaxRotations
  /\ \/ /\ secrets' = [secrets EXCEPT ![n] = "operator"]
        /\ kept' = IF \E s \in Servers : n \in seeding[s] THEN kept ELSE kept \cup {n}
     \/ secrets' = [secrets EXCEPT ![n] = "none"] /\ kept' = kept \ {n}
  /\ rotations' = rotations + 1
  /\ UNCHANGED <<settingsTable, seeding, restarts>>

-----------------------------------------------------------------------------
(* SetMany.  The first write takes the lock of the database.               *)
BeginSave(w, s) ==
  /\ savers[w].pc = "idle" /\ s \in Serving /\ writer = NoWriter /\ saves < MaxSaves
  /\ savers' = [savers EXCEPT ![w] = [pc |-> "write", server |-> s,
                                      value |-> saves + 1, draft |-> {}]]
  /\ writer' = w /\ saves' = saves + 1
  /\ UNCHANGED <<settings, caches, stale, secretsTable, rotations, restarts>>

WriteThrough(k, v) == settings' = [settings EXCEPT ![k] = v]

(* A write is seen by nobody before the commit.                            *)
WriteDraft(k, v) == UNCHANGED settings

WriteSetting(w, k) ==
  /\ savers[w].pc = "write" /\ k \notin savers[w].draft
  /\ WriteDraft(k, savers[w].value)
  /\ savers' = [savers EXCEPT ![w].draft = @ \cup {k}]
  /\ UNCHANGED <<caches, writer, saves, stale, secretsTable, rotations, restarts>>

Apply(w, store) ==
  [k \in Keys |-> IF k \in savers[w].draft THEN savers[w].value ELSE store[k]]

(* The commit goes through, for the table; the caches of other processes,  *)
(* and of another saver of this one that has yet to write its values, lag. *)
Committing(w) ==
  /\ savers[w].pc = "write" /\ savers[w].draft = Keys
  /\ settings' = Apply(w, settings) /\ writer' = NoWriter

CommitSave(w) ==
  LET s == savers[w].server IN
  /\ Committing(w)
  /\ savers' = [savers EXCEPT ![w].pc = "cache"]
  /\ stale' = stale \cup (Loaded \ {s}) \cup (IF Committed(s) = {} THEN {} ELSE {s})
  /\ UNCHANGED <<caches, saves, secretsTable, rotations, restarts>>

(* ... but its answer is lost, and the cache is left as it was.            *)
CommitLost(w) ==
  /\ Committing(w)
  /\ savers' = [savers EXCEPT ![w] = NoSave] /\ stale' = stale \cup Loaded
  /\ UNCHANGED <<caches, saves, secretsTable, rotations, restarts>>

(* Any statement fails: the transaction is rolled back.                    *)
SaveFails(w) ==
  /\ savers[w].pc = "write"
  /\ savers' = [savers EXCEPT ![w] = NoSave] /\ writer' = NoWriter
  /\ UNCHANGED <<settings, caches, saves, stale, secretsTable, rotations, restarts>>

SkipCache(w, store) == store

UpdateCache(w, store) == Apply(w, store)

(* The cache is written under its own mutex, after the commit.  A save     *)
(* that comes last in both places heals what earlier ones left.            *)
CacheSave(w) ==
  LET s == savers[w].server IN
  /\ savers[w].pc = "cache"
  /\ caches' = [caches EXCEPT ![s] = UpdateCache(w, @)]
  /\ savers' = [savers EXCEPT ![w] = NoSave]
  /\ stale' = IF Committed(s) = {w} /\ Apply(w, settings) = settings
              THEN stale \ {s} ELSE stale
  /\ UNCHANGED <<settings, writer, saves, secretsTable, rotations, restarts>>

(* The process ends, at a deploy or by a crash; its transaction is undone. *)
StopServer(s) ==
  /\ s \in Loaded /\ restarts < MaxRestarts /\ restarts' = restarts + 1
  /\ caches' = [caches EXCEPT ![s] = NoCache]
  /\ seeding' = [seeding EXCEPT ![s] = {}]
  /\ savers' = [w \in Savers |-> IF savers[w].server = s THEN NoSave ELSE savers[w]]
  /\ writer' = IF writer \in Savers /\ savers[writer].server = s THEN NoWriter ELSE writer
  /\ stale' = stale \ {s}
  /\ UNCHANGED <<settings, saves, secrets, kept, rotations>>

SettingsNext ==
  \/ \E s \in Servers : \/ LoadStore(s) \/ StopServer(s)
                        \/ \E n \in Names : SeedSecret(s, n)
                        \/ \E w \in Savers : BeginSave(w, s)
  \/ \E n \in Names : RotateSecret(n)
  \/ \E w \in Savers : \/ CommitSave(w) \/ CommitLost(w) \/ SaveFails(w) \/ CacheSave(w)
                       \/ \E k \in Keys : WriteSetting(w, k)

SettingsSpec == SettingsInit /\ [][SettingsNext]_settingsVars

-----------------------------------------------------------------------------
(* Properties.                                                             *)

(* A section is in the table, and in each cache, as one save wrote it.     *)
SectionIsWhole ==
  \A j, k \in Keys : /\ settings[j] = settings[k]
                     /\ \A s \in Loaded : caches[s][j] = caches[s][k]

(* The cache of a process agrees with the table whenever none of its own   *)
(* saves is between the two, unless another process saved, two of its own  *)
(* overlapped, or the answer to a commit was lost; and a later save of the *)
(* same section heals it.                                                  *)
CacheFollowsTable ==
  \A s \in Loaded : s \notin stale /\ Committed(s) = {} => caches[s] = settings

(* What the operator has stored stays until the operator deletes it,       *)
(* however often a process restarts with a seed for it, unless it was      *)
(* stored while a boot was about to seed what it had found missing.        *)
OperatorsSecretStays == \A n \in kept : secrets[n] = "operator"
=============================================================================
