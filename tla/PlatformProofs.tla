--------------------------- MODULE PlatformProofs ---------------------------
(***************************************************************************)
(* Settings, Accounts, Migrations and Statements, each for any keys,       *)
(* secrets, visitors, machines, files and tokens: what the agent is        *)
(* installed on.  Each has inductive invariants of its own.                *)
(***************************************************************************)
EXTENDS Settings, Accounts, Migrations, Statements, FiniteSetTheorems, SequenceTheorems, TLAPS

-----------------------------------------------------------------------------
(***************************************************************************)
(* Settings.                                                               *)
(*                                                                         *)
(* A section stays whole because a commit, and the cache after it, bring   *)
(* all the keys of a save.  The cache follows the table because a process  *)
(* whose cache does not yet has one saver on its way to the cache, and the *)
(* table already holds what that saver wrote.                              *)
(***************************************************************************)
Sections == [Keys -> Nat]

SettingsTypeOK ==
  /\ settings \in Sections
  /\ caches \in [Servers -> Sections \cup {NoCache}]
  /\ savers \in [Savers -> [pc : {"idle", "write", "cache"}, server : Servers \cup {"none"},
                            value : Nat, draft : SUBSET Keys]]
  /\ saves \in Nat
  /\ stale \subseteq Servers

(* A save that has committed has written every key.                        *)
CommittedWhole == \A w \in Savers : savers[w].pc = "cache" => savers[w].draft = Keys

(* A save runs in a process that has loaded its cache.                     *)
SaversAreServed == \A w \in Savers : savers[w].pc # "idle" => savers[w].server \in Loaded

(* A cache that is not up to date is about to be brought there, by one     *)
(* saver, whose values are those of the table.                             *)
Follows(s) ==
  IF Committed(s) = {} THEN caches[s] = settings
  ELSE \E w \in Savers : Committed(s) = {w} /\ Apply(w, settings) = settings

CachesFollow == \A s \in Loaded : s \notin stale => Follows(s)

SettingsInv == SettingsTypeOK /\ CommittedWhole /\ SaversAreServed /\ SectionIsWhole /\ CachesFollow

(* The secrets have an invariant of their own.                             *)
SecretsInv ==
  /\ secrets \in [Names -> {"none", "seed", "operator"}]
  /\ seeding \in [Servers -> SUBSET Names]
  /\ kept \subseteq Names
  /\ \A n \in kept : secrets[n] = "operator" /\ \A s \in Servers : n \notin seeding[s]

LEMMA LoadedCache ==
  ASSUME SettingsTypeOK, NEW s \in Loaded
  PROVE  s \in Servers /\ caches[s] \in Sections
  BY DEF Loaded, SettingsTypeOK

LEMMA CacheIsSomething ==
  ASSUME NEW f \in Sections
  PROVE  f # NoCache
  BY KeysAssumption DEF Sections, NoCache

(* What a saver that wrote every key makes of any section.                 *)
LEMMA WholeApply ==
  ASSUME SettingsTypeOK, NEW w \in Savers, savers[w].draft = Keys, NEW store
  PROVE  /\ Apply(w, store) \in Sections
         /\ \A j, k \in Keys : Apply(w, store)[j] = Apply(w, store)[k]
         /\ Apply(w, store) = [k \in Keys |-> savers[w].value]
  BY DEF SettingsTypeOK, Apply, Sections

LEMMA SettingsInitInv == SettingsInit => SettingsInv /\ SecretsInv
  <1>1. ASSUME SettingsInit PROVE SettingsInv
    <2>1. Loaded = {}
      BY <1>1 DEF SettingsInit, Loaded
    <2>2. QED
      BY <1>1, <2>1 DEF SettingsInit, SettingsInv, SettingsTypeOK, Sections, CommittedWhole,
         SaversAreServed, SectionIsWhole, CachesFollow, NoSave
  <1>2. QED
    BY <1>1 DEF SettingsInit, SecretsInv

-----------------------------------------------------------------------------
(* The settings.                                                           *)

(* A step that leaves the settings, their caches and the savers alone.     *)
LEMMA SettingsUntouched ==
  ASSUME SettingsInv, UNCHANGED <<settings, caches, savers, saves, stale>>
  PROVE  SettingsInv'
  BY DEF SettingsInv, SettingsTypeOK, CommittedWhole, SaversAreServed, SectionIsWhole, CachesFollow,
     Follows, Loaded, Committed, Apply

LEMMA StoreLoads ==
  ASSUME SettingsInv, NEW s \in Servers, LoadStore(s)
  PROVE  SettingsInv'
  <1>1. /\ s \notin Loaded /\ caches' = [caches EXCEPT ![s] = settings]
        /\ UNCHANGED <<settings, savers, saves>> /\ stale' = stale \ {s}
    BY DEF LoadStore
  <1>2. Loaded' = Loaded \cup {s}
    BY <1>1, CacheIsSomething DEF Loaded, SettingsInv, SettingsTypeOK
  <1>3. SettingsTypeOK' /\ CommittedWhole'
    BY <1>1 DEF SettingsInv, SettingsTypeOK, CommittedWhole
  <1>4. SaversAreServed'
    BY <1>1, <1>2 DEF SettingsInv, SaversAreServed
  <1>5. SectionIsWhole'
    BY <1>1, <1>2, LoadedCache DEF SettingsInv, SettingsTypeOK, SectionIsWhole
  <1>6. CachesFollow'
    <2>1. ASSUME NEW t \in Servers PROVE Committed(t)' = Committed(t)
      BY <1>1 DEF Committed
    <2>2. Committed(s) = {}
      BY <1>1 DEF Committed, SettingsInv, SaversAreServed
    <2>3. Follows(s)'
      BY <1>1, <2>1, <2>2 DEF Follows, SettingsInv, SettingsTypeOK
    <2>4. ASSUME NEW t \in Loaded, t # s, t \notin stale PROVE Follows(t)'
      BY <1>1, <2>1, <2>4, LoadedCache DEF Follows, SettingsInv, CachesFollow, SettingsTypeOK, Apply
    <2>5. QED
      BY <1>1, <1>2, <2>3, <2>4 DEF CachesFollow
  <1>7. QED
    BY <1>3, <1>4, <1>5, <1>6 DEF SettingsInv

(* A save that has not come to its commit concerns nobody but its saver.   *)
LEMMA SaverMoves ==
  ASSUME SettingsInv, NEW w \in Savers, savers[w].pc # "cache", UNCHANGED <<settings, caches, stale>>,
         NEW r, savers' = [savers EXCEPT ![w] = r], r.pc # "cache",
         r \in [pc : {"idle", "write", "cache"}, server : Servers \cup {"none"},
                value : Nat, draft : SUBSET Keys],
         r.pc = "idle" \/ r.server \in Loaded, saves' \in Nat
  PROVE  SettingsInv'
  <1>1. Loaded' = Loaded /\ \A s \in Servers : Committed(s)' = Committed(s)
    BY DEF Loaded, Committed, SettingsInv, SettingsTypeOK
  <1>2. SettingsTypeOK' /\ CommittedWhole' /\ SaversAreServed' /\ SectionIsWhole'
    BY <1>1 DEF SettingsInv, SettingsTypeOK, CommittedWhole, SaversAreServed, SectionIsWhole
  <1>3. ASSUME NEW s \in Loaded, s \notin stale PROVE Follows(s)'
    <2>1. Follows(s) /\ s \in Servers
      BY <1>3 DEF SettingsInv, CachesFollow, Loaded
    <2>2. CASE Committed(s) = {}
      BY <1>1, <2>1, <2>2 DEF Follows
    <2>3. CASE Committed(s) # {}
      <3>1. PICK v \in Savers : Committed(s) = {v} /\ Apply(v, settings) = settings
        BY <2>1, <2>3 DEF Follows
      <3>2. savers'[v] = savers[v]
        BY <3>1 DEF Committed, SettingsInv, SettingsTypeOK
      <3>3. Apply(v, settings)' = settings'
        BY <3>1, <3>2 DEF Apply
      <3>4. QED
        BY <1>1, <2>1, <2>3, <3>1, <3>3 DEF Follows
    <2>4. QED
      BY <2>2, <2>3
  <1>4. QED
    BY <1>1, <1>2, <1>3 DEF SettingsInv, CachesFollow

LEMMA SaveBegins ==
  ASSUME SettingsInv, NEW w \in Savers, NEW s \in Servers, BeginSave(w, s)
  PROVE  SettingsInv'
  <1>1. s \in Loaded
    BY DEF BeginSave, Serving
  <1>2. saves' \in Nat
    BY DEF BeginSave, SettingsInv, SettingsTypeOK
  <1> DEFINE r == [pc |-> "write", server |-> s, value |-> saves + 1, draft |-> {}]
  <1>3. /\ savers[w].pc # "cache" /\ UNCHANGED <<settings, caches, stale>>
        /\ savers' = [savers EXCEPT ![w] = r] /\ r.pc = "write" /\ r.server \in Loaded
        /\ r \in [pc : {"idle", "write", "cache"}, server : Servers \cup {"none"},
                  value : Nat, draft : SUBSET Keys]
    BY <1>1 DEF BeginSave, SettingsInv, SettingsTypeOK
  <1> HIDE DEF r
  <1>4. QED
    BY <1>2, <1>3, SaverMoves

LEMMA SettingWritten ==
  ASSUME SettingsInv, NEW w \in Savers, NEW k \in Keys, WriteSetting(w, k)
  PROVE  SettingsInv'
  <1> DEFINE r == [savers[w] EXCEPT !.draft = @ \cup {k}]
  <1>1. savers' = [savers EXCEPT ![w] = r] /\ savers[w].pc = "write"
    BY DEF WriteSetting, SettingsInv, SettingsTypeOK
  <1>2. /\ r \in [pc : {"idle", "write", "cache"}, server : Servers \cup {"none"},
                  value : Nat, draft : SUBSET Keys]
        /\ r.pc = "write" /\ r.server \in Loaded
    BY <1>1 DEF SettingsInv, SettingsTypeOK, SaversAreServed
  <1>3. UNCHANGED <<settings, caches, stale>> /\ saves' \in Nat
    BY DEF WriteSetting, WriteDraft, SettingsInv, SettingsTypeOK
  <1> HIDE DEF r
  <1>4. QED
    BY <1>1, <1>2, <1>3, SaverMoves

LEMMA SaveRolledBack ==
  ASSUME SettingsInv, NEW w \in Savers, SaveFails(w)
  PROVE  SettingsInv'
  <1>1. /\ savers[w].pc # "cache" /\ UNCHANGED <<settings, caches, stale>>
        /\ savers' = [savers EXCEPT ![w] = NoSave] /\ NoSave.pc = "idle" /\ saves' \in Nat
        /\ NoSave \in [pc : {"idle", "write", "cache"}, server : Servers \cup {"none"},
                       value : Nat, draft : SUBSET Keys]
    BY DEF SaveFails, NoSave, SettingsInv, SettingsTypeOK
  <1>2. QED
    BY <1>1, SaverMoves

(* A commit brings every key, and leaves the caches of others behind.      *)
LEMMA SaveCommits ==
  ASSUME SettingsInv, NEW w \in Savers, CommitSave(w)
  PROVE  SettingsInv'
  <1> DEFINE s == savers[w].server
  <1>1. /\ savers[w].pc = "write" /\ savers[w].draft = Keys
        /\ settings' = Apply(w, settings) /\ UNCHANGED <<caches, saves>>
        /\ savers' = [savers EXCEPT ![w].pc = "cache"]
        /\ stale' = stale \cup (Loaded \ {s}) \cup (IF Committed(s) = {} THEN {} ELSE {s})
    BY DEF CommitSave, Committing
  <1>2. s \in Loaded /\ s \in Servers
    BY <1>1 DEF SettingsInv, SaversAreServed, Loaded
  <1>3. Loaded' = Loaded
    BY <1>1 DEF Loaded
  <1>4. /\ savers'[w] = [savers[w] EXCEPT !.pc = "cache"]
        /\ \A v \in Savers : v # w => savers'[v] = savers[v]
    BY <1>1 DEF SettingsInv, SettingsTypeOK
  <1>5. SettingsTypeOK' /\ CommittedWhole' /\ SaversAreServed'
    <2>1. settings' \in Sections
      BY <1>1, WholeApply DEF SettingsInv
    <2>2. stale' \subseteq Servers
      BY <1>1, <1>2 DEF SettingsInv, SettingsTypeOK, Loaded
    <2>3. QED
      BY <1>1, <1>2, <1>3, <1>4, <2>1, <2>2 DEF SettingsInv, SettingsTypeOK, CommittedWhole,
         SaversAreServed
  <1>6. SectionIsWhole'
    BY <1>1, <1>3, WholeApply DEF SettingsInv, SectionIsWhole
  <1>7. ASSUME NEW t \in Loaded, t \notin stale' PROVE Follows(t)'
    <2>1. t = s /\ Committed(s) = {}
      BY <1>1, <1>7
    <2>2. Committed(t)' = {w}
      BY <1>4, <2>1 DEF Committed, SettingsInv, SettingsTypeOK
    <2>3. Apply(w, settings)' = settings'
      BY <1>1, <1>4 DEF Apply, SettingsInv, SettingsTypeOK
    <2>4. QED
      BY <2>2, <2>3 DEF Follows
  <1>8. QED
    BY <1>3, <1>5, <1>6, <1>7 DEF SettingsInv, CachesFollow

(* ... and without its answer, every cache.                                *)
LEMMA AnswerLost ==
  ASSUME SettingsInv, NEW w \in Savers, CommitLost(w)
  PROVE  SettingsInv'
  <1>1. /\ savers[w].draft = Keys /\ settings' = Apply(w, settings)
        /\ UNCHANGED <<caches, saves>>
        /\ savers' = [savers EXCEPT ![w] = NoSave] /\ stale' = stale \cup Loaded
    BY DEF CommitLost, Committing
  <1>2. Loaded' = Loaded
    BY <1>1 DEF Loaded
  <1>3. settings' \in Sections /\ SectionIsWhole'
    BY <1>1, <1>2, WholeApply DEF SettingsInv, SectionIsWhole
  <1>4. SettingsTypeOK' /\ CommittedWhole' /\ SaversAreServed'
    BY <1>1, <1>2, <1>3 DEF SettingsInv, SettingsTypeOK, CommittedWhole, SaversAreServed, NoSave, Loaded
  <1>5. QED
    BY <1>1, <1>2, <1>3, <1>4 DEF SettingsInv, CachesFollow

(* The cache takes what its saver has written.                             *)
LEMMA CacheSaved ==
  ASSUME SettingsInv, NEW w \in Savers, CacheSave(w)
  PROVE  SettingsInv'
  <1> DEFINE s == savers[w].server
  <1>1. /\ savers[w].pc = "cache" /\ UNCHANGED <<settings, saves>>
        /\ caches' = [caches EXCEPT ![s] = Apply(w, caches[s])]
        /\ savers' = [savers EXCEPT ![w] = NoSave]
        /\ stale' = IF Committed(s) = {w} /\ Apply(w, settings) = settings
                    THEN stale \ {s} ELSE stale
    BY DEF CacheSave, UpdateCache
  <1>2. savers[w].draft = Keys /\ s \in Loaded /\ s \in Servers
    BY <1>1 DEF SettingsInv, CommittedWhole, SaversAreServed, Loaded
  <1>3. Apply(w, caches[s]) \in Sections
    BY <1>2, WholeApply DEF SettingsInv
  <1>4. /\ caches'[s] = Apply(w, caches[s])
        /\ \A t \in Servers : t # s => caches'[t] = caches[t]
    BY <1>1, <1>2 DEF SettingsInv, SettingsTypeOK
  <1>5. Loaded' = Loaded
    BY <1>2, <1>3, <1>4, CacheIsSomething DEF Loaded
  <1>6. SettingsTypeOK' /\ CommittedWhole' /\ SaversAreServed'
    BY <1>1, <1>2, <1>3, <1>5 DEF SettingsInv, SettingsTypeOK, CommittedWhole, SaversAreServed, NoSave
  <1>7. SectionIsWhole'
    <2>1. \A j, k \in Keys : caches'[s][j] = caches'[s][k]
      BY <1>2, <1>4, WholeApply DEF SettingsInv
    <2>2. QED
      BY <1>1, <1>4, <1>5, <2>1 DEF SettingsInv, SectionIsWhole, Loaded
  <1>8. ASSUME NEW t \in Loaded, t \notin stale' PROVE Follows(t)'
    <2>1. Committed(t)' = Committed(t) \ {w}
      BY <1>1 DEF Committed, SettingsInv, SettingsTypeOK, NoSave
    <2>2. CASE t = s
      <3>1. Committed(s) = {w} /\ Apply(w, settings) = settings
        <4>1. CASE t \in stale
          BY <1>1, <1>8, <2>2, <4>1
        <4>2. CASE t \notin stale
          <5>1. w \in Committed(s)
            BY <1>1 DEF Committed
          <5>2. QED
            BY <2>2, <4>2, <5>1 DEF SettingsInv, CachesFollow, Follows
        <4>3. QED
          BY <4>1, <4>2
      <3>2. Apply(w, caches[s]) = Apply(w, settings)
        BY <1>2, WholeApply DEF SettingsInv
      <3>3. QED
        BY <1>1, <1>4, <2>1, <2>2, <3>1, <3>2 DEF Follows
    <2>3. CASE t # s
      <3>1. /\ t \in Servers /\ t \notin stale /\ caches'[t] = caches[t]
            /\ Committed(t)' = Committed(t)
        BY <1>1, <1>4, <1>8, <2>1, <2>3 DEF Committed, Loaded
      <3>2. CASE Committed(t) = {}
        BY <1>1, <3>1, <3>2 DEF SettingsInv, CachesFollow, Follows
      <3>3. CASE Committed(t) # {}
        <4>1. PICK v \in Savers : Committed(t) = {v} /\ Apply(v, settings) = settings
          BY <3>1, <3>3 DEF SettingsInv, CachesFollow, Follows
        <4>2. savers'[v] = savers[v]
          BY <1>1, <2>3, <4>1 DEF Committed, SettingsInv, SettingsTypeOK
        <4>3. Apply(v, settings)' = settings'
          BY <1>1, <4>1, <4>2 DEF Apply
        <4>4. QED
          BY <3>1, <3>3, <4>1, <4>3 DEF Follows
      <3>4. QED
        BY <3>2, <3>3
    <2>4. QED
      BY <2>2, <2>3
  <1>9. QED
    BY <1>5, <1>6, <1>7, <1>8 DEF SettingsInv, CachesFollow

LEMMA ServerStops ==
  ASSUME SettingsInv, NEW s \in Servers, StopServer(s)
  PROVE  SettingsInv'
  <1>1. /\ UNCHANGED <<settings, saves>> /\ caches' = [caches EXCEPT ![s] = NoCache]
        /\ savers' = [w \in Savers |-> IF savers[w].server = s THEN NoSave ELSE savers[w]]
        /\ stale' = stale \ {s}
    BY DEF StopServer
  <1>2. Loaded' = Loaded \ {s}
    BY <1>1 DEF Loaded, SettingsInv, SettingsTypeOK
  <1>3. SettingsTypeOK' /\ CommittedWhole' /\ SaversAreServed'
    BY <1>1, <1>2 DEF SettingsInv, SettingsTypeOK, CommittedWhole, SaversAreServed, NoSave
  <1>4. SectionIsWhole'
    BY <1>1, <1>2 DEF SettingsInv, SectionIsWhole, SettingsTypeOK, Loaded
  <1>5. ASSUME NEW t \in Loaded, t # s, t \notin stale PROVE Follows(t)'
    <2>1. t \in Servers /\ caches'[t] = caches[t] /\ Follows(t)
      BY <1>1, <1>5 DEF SettingsInv, SettingsTypeOK, CachesFollow, Loaded
    <2>2. Committed(t)' = Committed(t)
      BY <1>1, <1>5 DEF Committed, NoSave
    <2>3. CASE Committed(t) = {}
      BY <1>1, <2>1, <2>2, <2>3 DEF Follows
    <2>4. CASE Committed(t) # {}
      <3>1. PICK v \in Savers : Committed(t) = {v} /\ Apply(v, settings) = settings
        BY <2>1, <2>4 DEF Follows
      <3>2. savers'[v] = savers[v]
        BY <1>1, <1>5, <3>1 DEF Committed
      <3>3. Apply(v, settings)' = settings'
        BY <1>1, <3>1, <3>2 DEF Apply
      <3>4. QED
        BY <2>2, <2>4, <3>1, <3>3 DEF Follows
    <2>5. QED
      BY <2>3, <2>4
  <1>6. QED
    BY <1>1, <1>2, <1>3, <1>4, <1>5 DEF SettingsInv, CachesFollow

LEMMA SettingsPreserved == SettingsInv /\ [SettingsNext]_settingsVars => SettingsInv'
  <1> SUFFICES ASSUME SettingsInv, [SettingsNext]_settingsVars PROVE SettingsInv'
    OBVIOUS
  <1>1. ASSUME NEW s \in Servers, LoadStore(s) PROVE SettingsInv'
    BY <1>1, StoreLoads
  <1>2. ASSUME NEW s \in Servers, StopServer(s) PROVE SettingsInv'
    BY <1>2, ServerStops
  <1>3. ASSUME NEW s \in Servers, NEW n \in Names, SeedSecret(s, n) PROVE SettingsInv'
    BY <1>3, SettingsUntouched DEF SeedSecret, settingsTable
  <1>4. ASSUME NEW s \in Servers, NEW w \in Savers, BeginSave(w, s) PROVE SettingsInv'
    BY <1>4, SaveBegins
  <1>5. ASSUME NEW n \in Names, RotateSecret(n) PROVE SettingsInv'
    BY <1>5, SettingsUntouched DEF RotateSecret, settingsTable
  <1>6. ASSUME NEW w \in Savers, CommitSave(w) \/ CommitLost(w) \/ SaveFails(w) \/ CacheSave(w)
        PROVE  SettingsInv'
    BY <1>6, SaveCommits, AnswerLost, SaveRolledBack, CacheSaved
  <1>7. ASSUME NEW w \in Savers, NEW k \in Keys, WriteSetting(w, k) PROVE SettingsInv'
    BY <1>7, SettingWritten
  <1>8. CASE UNCHANGED settingsVars
    BY <1>8, SettingsUntouched DEF settingsVars
  <1>9. QED
    BY <1>1, <1>2, <1>3, <1>4, <1>5, <1>6, <1>7, <1>8 DEF SettingsNext

-----------------------------------------------------------------------------
(* The secrets.                                                            *)

LEMMA SecretsPreserved == SecretsInv /\ [SettingsNext]_settingsVars => SecretsInv'
  <1> SUFFICES ASSUME SecretsInv, [SettingsNext]_settingsVars PROVE SecretsInv'
    OBVIOUS
  <1>1. ASSUME NEW s \in Servers, LoadStore(s) PROVE SecretsInv'
    <2>1. MissingSecrets \subseteq Names \ kept
      BY DEF MissingSecrets, SecretsInv
    <2>2. QED
      BY <1>1, <2>1 DEF LoadStore, SecretsInv
  <1>2. ASSUME NEW s \in Servers, StopServer(s) PROVE SecretsInv'
    BY <1>2 DEF StopServer, SecretsInv
  <1>3. ASSUME NEW s \in Servers, NEW n \in Names, SeedSecret(s, n) PROVE SecretsInv'
    <2>1. n \notin kept
      BY <1>3 DEF SeedSecret, SecretsInv
    <2>2. QED
      BY <1>3, <2>1 DEF SeedSecret, SecretsInv
  <1>4. ASSUME NEW n \in Names, RotateSecret(n) PROVE SecretsInv'
    BY <1>4 DEF RotateSecret, SecretsInv
  <1>5. CASE UNCHANGED secretsTable
    BY <1>5 DEF secretsTable, SecretsInv
  <1>6. ASSUME NEW w \in Savers, NEW s \in Servers, BeginSave(w, s) PROVE SecretsInv'
    BY <1>5, <1>6 DEF BeginSave
  <1>7. ASSUME NEW w \in Savers, CommitSave(w) \/ CommitLost(w) \/ SaveFails(w) \/ CacheSave(w)
        PROVE  SecretsInv'
    BY <1>5, <1>7 DEF CommitSave, CommitLost, SaveFails, CacheSave
  <1>8. ASSUME NEW w \in Savers, NEW k \in Keys, WriteSetting(w, k) PROVE SecretsInv'
    BY <1>5, <1>8 DEF WriteSetting
  <1>9. CASE UNCHANGED settingsVars
    BY <1>5, <1>9 DEF settingsVars, secretsTable
  <1>10. QED
    BY <1>1, <1>2, <1>3, <1>4, <1>6, <1>7, <1>8, <1>9 DEF SettingsNext

-----------------------------------------------------------------------------
(* The theorems.                                                           *)

(* A section is always in the table, and in each cache, as one save wrote  *)
(* it: SetMany's transaction, and the cache it writes afterwards.          *)
THEOREM SectionsStayWhole == SettingsSpec => []SectionIsWhole
  <1>1. SettingsInv => SectionIsWhole
    BY DEF SettingsInv
  <1>2. QED
    BY <1>1, SettingsInitInv, SettingsPreserved, PTL DEF SettingsSpec

(* The cache of a process agrees with the table whenever none of its own   *)
(* saves is between the two, except where stale says why it may not.       *)
THEOREM CacheAgrees == SettingsSpec => []CacheFollowsTable
  <1>1. SettingsInv => CacheFollowsTable
    BY DEF SettingsInv, CachesFollow, Follows, CacheFollowsTable
  <1>2. QED
    BY <1>1, SettingsInitInv, SettingsPreserved, PTL DEF SettingsSpec

(* A secret the operator has stored survives every boot with a seed for it.*)
THEOREM OperatorWins == SettingsSpec => []OperatorsSecretStays
  <1>1. SecretsInv => OperatorsSecretStays
    BY DEF SecretsInv, OperatorsSecretStays
  <1>2. QED
    BY <1>1, SettingsInitInv, SecretsPreserved, PTL DEF SettingsSpec

-----------------------------------------------------------------------------
(***************************************************************************)
(* Accounts.                                                               *)
(*                                                                         *)
(* That a change revokes needs no more than the types.  For the limiter,   *)
(* every attempt under way is counted as if it were to fail: it was let in *)
(* when the counter was below the maximum, and the others with it are no   *)
(* more than the visitors.                                                 *)
(***************************************************************************)
VisitorPC == {"idle", "verify", "verified", "failed", "reset", "update", "revoke"}

AccountsTypeOK ==
  /\ visitors \in [Visitors -> [pc: VisitorPC, password: Nat]]
  /\ password \in [now: Nat, made: Nat]
  /\ issued \in Nat
  /\ limiter \in [count: Nat, age: Nat]

RevokeInv == AccountsTypeOK /\ ChangeRevokes

(* Attempts that have yet to be counted.                                   *)
Attempts == {v \in Visitors : visitors[v].pc \in {"verify", "failed"}}

AttemptsAreBounded ==
  ~WindowOver => limiter.count + Cardinality(Attempts) <= MaxFailures + Cardinality(Visitors) - 1

LimitInv == AccountsTypeOK /\ AttemptsAreBounded

-----------------------------------------------------------------------------
(* A visitor moves on, or departs.                                         *)
LEMMA VisitMoves ==
  ASSUME AccountsTypeOK, NEW v \in Visitors, NEW pc \in VisitorPC, Visit(v, pc)
  PROVE  /\ visitors' \in [Visitors -> [pc: VisitorPC, password: Nat]]
         /\ visitors'[v].pc = pc
         /\ \A w \in Visitors : w # v => visitors'[w] = visitors[w]
  BY DEF Visit, AccountsTypeOK

LEMMA DepartMoves ==
  ASSUME AccountsTypeOK, NEW v \in Visitors, Depart(v)
  PROVE  /\ visitors' \in [Visitors -> [pc: VisitorPC, password: Nat]]
         /\ visitors'[v].pc = "idle"
         /\ \A w \in Visitors : w # v => visitors'[w] = visitors[w]
  BY DEF Depart, NoVisitor, AccountsTypeOK, VisitorPC

LEMMA ServesMoves ==
  ASSUME AccountsTypeOK, NEW v \in Visitors, NEW pc \in VisitorPC,
         visitors' = [visitors EXCEPT ![v] = [pc |-> pc, password |-> password.now]]
  PROVE  /\ visitors' \in [Visitors -> [pc: VisitorPC, password: Nat]]
         /\ visitors'[v].pc = pc
         /\ \A w \in Visitors : w # v => visitors'[w] = visitors[w]
  BY DEF AccountsTypeOK

(* The types hold after every step.                                        *)
LEMMA TypesKept == AccountsTypeOK /\ [AccountsNext]_accountVars => AccountsTypeOK'
  <1> SUFFICES ASSUME AccountsTypeOK, [AccountsNext]_accountVars PROVE AccountsTypeOK'
    OBVIOUS
  <1> USE DEF VisitorPC
  <1>0. /\ Window \in Nat /\ NoRecord \in [count: Nat, age: Nat]
        /\ NoVisitor \in [pc: VisitorPC, password: Nat]
    BY AccountsAssumption DEF NoRecord, NoVisitor
  <1>1. ASSUME NEW v \in Visitors, Allow(v) PROVE AccountsTypeOK'
    BY <1>0, <1>1, VisitMoves DEF Allow, AccountsTypeOK
  <1>2. ASSUME NEW v \in Visitors, Verify(v) PROVE AccountsTypeOK'
    BY <1>2, VisitMoves, ServesMoves DEF Verify, AccountsTypeOK
  <1>3. ASSUME NEW v \in Visitors, CountFailure(v) PROVE AccountsTypeOK'
    <2>1. limiter' \in [count: Nat, age: Nat]
      BY <1>3 DEF CountFailure, AccountsTypeOK
    <2>2. QED
      BY <1>3, <2>1, DepartMoves DEF CountFailure, AccountsTypeOK
  <1>4. ASSUME NEW v \in Visitors, CreateSession(v) PROVE AccountsTypeOK'
    <2>1. visitors' \in [Visitors -> [pc: VisitorPC, password: Nat]]
      BY <1>4, VisitMoves, DepartMoves DEF CreateSession
    <2>2. issued' \in Nat /\ UNCHANGED <<password, limiter>>
      BY <1>4 DEF CreateSession, AccountsTypeOK
    <2>3. QED
      BY <2>1, <2>2 DEF AccountsTypeOK
  <1>5. ASSUME NEW v \in Visitors, ResetLimiter(v) PROVE AccountsTypeOK'
    BY <1>0, <1>5, DepartMoves DEF ResetLimiter, AccountsTypeOK
  <1>6. ASSUME NEW v \in Visitors, BeginChange(v) PROVE AccountsTypeOK'
    BY <1>6, ServesMoves DEF BeginChange, AccountsTypeOK
  <1>7. ASSUME NEW v \in Visitors, UpdatePassword(v) PROVE AccountsTypeOK'
    <2>1. visitors' \in [Visitors -> [pc: VisitorPC, password: Nat]]
      BY <1>7, VisitMoves, DepartMoves DEF UpdatePassword
    <2>2. password' \in [now: Nat, made: Nat] /\ UNCHANGED <<issued, limiter>>
      BY <1>7 DEF UpdatePassword, AccountsTypeOK
    <2>3. QED
      BY <2>1, <2>2 DEF AccountsTypeOK
  <1>8. ASSUME NEW v \in Visitors, Revoke(v) PROVE AccountsTypeOK'
    BY <1>8, DepartMoves DEF Revoke, AccountsTypeOK
  <1>9. ASSUME NEW s \in sessions, DeleteSession(s) PROVE AccountsTypeOK'
    BY <1>9 DEF DeleteSession, AccountsTypeOK
  <1>10. CASE Tick
    <2>1. limiter' \in [count: Nat, age: Nat]
      BY <1>10 DEF Tick, AccountsTypeOK
    <2>2. QED
      BY <1>10, <2>1 DEF Tick, AccountsTypeOK
  <1>11. CASE RestartPlain
    BY <1>0, <1>11 DEF RestartPlain, ForgetRequests, AccountsTypeOK
  <1>12. CASE ResetDefaultUser
    <2>1. password' \in [now: Nat, made: Nat]
      BY <1>12 DEF ResetDefaultUser, AccountsTypeOK
    <2>2. QED
      BY <1>0, <1>12, <2>1 DEF ResetDefaultUser, ForgetRequests, AccountsTypeOK
  <1>13. CASE UNCHANGED accountVars
    BY <1>13 DEF accountVars, AccountsTypeOK
  <1>14. QED
    BY <1>1, <1>2, <1>3, <1>4, <1>5, <1>6, <1>7, <1>8, <1>9, <1>10, <1>11, <1>12, <1>13
       DEF AccountsNext

(* At the start the default password holds and nobody is signed in.        *)
LEMMA AccountsInitInv == AccountsInit => RevokeInv /\ LimitInv
  <1> SUFFICES ASSUME AccountsInit PROVE RevokeInv /\ LimitInv
    OBVIOUS
  <1>1. AccountsTypeOK
    BY AccountsAssumption DEF AccountsInit, AccountsTypeOK, NoVisitor, NoRecord, VisitorPC
  <1>2. WindowOver
    BY AccountsAssumption DEF AccountsInit, WindowOver, NoRecord
  <1>3. QED
    BY <1>1, <1>2 DEF AccountsInit, RevokeInv, LimitInv, ChangeRevokes, AttemptsAreBounded

-----------------------------------------------------------------------------
(* Passwords and sessions stay, and nobody is done revoking.               *)
LEMMA NothingRevoked ==
  ASSUME RevokeInv, UNCHANGED <<password, spared>>, sessions' \subseteq sessions,
         \A v \in Visitors : visitors[v].pc = "revoke" => visitors'[v].pc = "revoke"
  PROVE  ChangeRevokes'
  BY DEF RevokeInv, ChangeRevokes

(* One step per action.                                                    *)
LEMMA RevokePreserved == RevokeInv /\ [AccountsNext]_accountVars => RevokeInv'
  <1> SUFFICES ASSUME RevokeInv, [AccountsNext]_accountVars PROVE ChangeRevokes'
    BY TypesKept DEF RevokeInv
  <1> USE DEF VisitorPC
  <1>0. AccountsTypeOK
    BY DEF RevokeInv
  <1>1. ASSUME NEW v \in Visitors,
               Allow(v) \/ Verify(v) \/ CountFailure(v) \/ ResetLimiter(v) \/ BeginChange(v)
        PROVE  ChangeRevokes'
    <2>1. UNCHANGED <<password, spared, sessions>> /\ visitors[v].pc # "revoke"
      BY <1>1 DEF Allow, Verify, CountFailure, ResetLimiter, BeginChange
    <2>2. \A w \in Visitors : w # v => visitors'[w] = visitors[w]
      BY <1>0, <1>1, VisitMoves, DepartMoves, ServesMoves
         DEF Allow, Verify, CountFailure, ResetLimiter, BeginChange
    <2>3. QED
      BY <2>1, <2>2, NothingRevoked
  <1>2. ASSUME NEW v \in Visitors, CreateSession(v) PROVE ChangeRevokes'
    <2>1. visitors[v].pc # "revoke" /\ UNCHANGED password
      BY <1>2 DEF CreateSession
    <2>2. \A w \in Visitors : w # v => visitors'[w] = visitors[w]
      BY <1>0, <1>2, VisitMoves, DepartMoves DEF CreateSession
    <2>3. CASE UNCHANGED <<issued, sessions, spared>>
      BY <2>1, <2>2, <2>3, NothingRevoked
    <2>4. CASE /\ sessions' = sessions
                    \cup {[id |-> issued + 1, password |-> visitors[v].password]}
               /\ spared' = IF visitors[v].password = password.now THEN spared
                            ELSE spared \cup {issued + 1}
      BY <2>1, <2>2, <2>4 DEF RevokeInv, ChangeRevokes
    <2>5. QED
      BY <1>2, <2>3, <2>4 DEF CreateSession
  <1>3. ASSUME NEW v \in Visitors, UpdatePassword(v) PROVE ChangeRevokes'
    <2>1. CASE Visit(v, "revoke")
      BY <1>0, <2>1, VisitMoves DEF ChangeRevokes
    <2>2. CASE Depart(v) /\ UNCHANGED password
      <3>1. \A w \in Visitors : w # v => visitors'[w] = visitors[w]
        BY <1>0, <2>2, DepartMoves
      <3>2. visitors[v].pc # "revoke" /\ UNCHANGED <<sessions, spared>>
        BY <1>3 DEF UpdatePassword
      <3>3. QED
        BY <2>2, <3>1, <3>2, NothingRevoked
    <2>3. QED
      BY <1>3, <2>1, <2>2 DEF UpdatePassword
  <1>4. ASSUME NEW v \in Visitors, Revoke(v) PROVE ChangeRevokes'
    BY <1>4 DEF Revoke, DeleteAllSessions, ChangeRevokes
  <1>5. ASSUME NEW s \in sessions, DeleteSession(s) PROVE ChangeRevokes'
    BY <1>5, NothingRevoked DEF DeleteSession
  <1>6. CASE Tick
    BY <1>6, NothingRevoked DEF Tick
  <1>7. CASE RestartPlain
    BY <1>7 DEF RestartPlain, RevokeInv, ChangeRevokes
  <1>8. CASE ResetDefaultUser
    BY <1>8 DEF ResetDefaultUser, DeleteAllSessions, ChangeRevokes
  <1>9. CASE UNCHANGED accountVars
    BY <1>9, NothingRevoked DEF accountVars
  <1>10. QED
    BY <1>1, <1>2, <1>3, <1>4, <1>5, <1>6, <1>7, <1>8, <1>9 DEF AccountsNext

(* No session outlives the password it was issued against, except for the  *)
(* reasons that ChangeRevokes names.                                       *)
THEOREM ChangesRevokeSessions == AccountsSpec => []ChangeRevokes
  <1>1. RevokeInv => ChangeRevokes
    BY DEF RevokeInv
  <1>2. QED
    BY <1>1, AccountsInitInv, RevokePreserved, PTL DEF AccountsSpec

-----------------------------------------------------------------------------
(* Attempts are some of the visitors.                                      *)
LEMMA AttemptsCounted ==
  /\ IsFiniteSet(Attempts) /\ Cardinality(Attempts) \in Nat
  /\ Cardinality(Visitors) \in Nat /\ Cardinality(Attempts) <= Cardinality(Visitors)
  <1>1. Attempts \subseteq Visitors /\ IsFiniteSet(Visitors)
    BY AccountsAssumption DEF Attempts
  <1>2. QED
    BY <1>1, FS_Subset, FS_CardinalityType

(* No more attempts, and the record as it was, or none that counts.        *)
LEMMA FewerAttempts ==
  ASSUME LimitInv, AccountsTypeOK', Attempts' \subseteq Attempts,
         WindowOver' \/ (limiter'.count = limiter.count /\ ~WindowOver)
  PROVE  AttemptsAreBounded'
  <1>1. Cardinality(Attempts') <= Cardinality(Attempts) /\ Cardinality(Attempts') \in Nat
    BY AttemptsCounted, FS_Subset, FS_CardinalityType
  <1>2. Cardinality(Attempts)' = Cardinality(Attempts')
    OBVIOUS
  <1>3. /\ limiter.count \in Nat /\ MaxFailures \in Nat /\ Cardinality(Visitors) \in Nat
        /\ Cardinality(Attempts) \in Nat
    BY AccountsAssumption, AttemptsCounted DEF LimitInv, AccountsTypeOK
  <1>4. QED
    BY <1>1, <1>2, <1>3 DEF LimitInv, AttemptsAreBounded

(* A counted failure leaves the attempts.                                  *)
LEMMA FailureCounted ==
  ASSUME LimitInv, NEW v \in Visitors, CountFailure(v)
  PROVE  AttemptsAreBounded'
  <1>1. /\ visitors'[v].pc = "idle" /\ visitors[v].pc = "failed"
        /\ \A w \in Visitors : w # v => visitors'[w] = visitors[w]
    BY DepartMoves DEF CountFailure, LimitInv
  <1>2. v \in Attempts /\ Attempts' = Attempts \ {v}
    BY <1>1 DEF Attempts
  <1>3. Cardinality(Attempts') = Cardinality(Attempts) - 1
    BY <1>2, AttemptsCounted, FS_RemoveElement
  <1>4. /\ limiter.count \in Nat /\ MaxFailures \in Nat /\ MaxFailures >= 1
        /\ Cardinality(Visitors) \in Nat /\ Cardinality(Attempts) \in Nat
        /\ Cardinality(Attempts) <= Cardinality(Visitors)
    BY AccountsAssumption, AttemptsCounted DEF LimitInv, AccountsTypeOK
  <1>5. CASE WindowOver
    <2>1. limiter'.count = 1
      BY <1>5 DEF CountFailure
    <2>2. QED
      BY <1>3, <1>4, <2>1 DEF AttemptsAreBounded
  <1>6. CASE ~WindowOver
    <2>1. limiter'.count = limiter.count + 1
      BY <1>6 DEF CountFailure, LimitInv, AccountsTypeOK
    <2>2. limiter.count + Cardinality(Attempts) <= MaxFailures + Cardinality(Visitors) - 1
      BY <1>6 DEF LimitInv, AttemptsAreBounded
    <2>3. QED
      BY <1>3, <1>4, <2>1, <2>2 DEF AttemptsAreBounded
  <1>7. QED
    BY <1>5, <1>6

(* An attempt is let in below the maximum.                                 *)
LEMMA AttemptAllowed ==
  ASSUME LimitInv, NEW v \in Visitors, Allow(v)
  PROVE  AttemptsAreBounded'
  <1>1. CASE WindowOver
    <2>1. limiter' = NoRecord
      BY <1>1 DEF Allow
    <2>2. WindowOver'
      BY <2>1, AccountsAssumption DEF WindowOver, NoRecord
    <2>3. QED
      BY <2>2 DEF AttemptsAreBounded
  <1>2. CASE ~WindowOver
    <2>1. limiter' = limiter /\ limiter.count < MaxFailures
      BY <1>2 DEF Allow, UnderLimit
    <2>2. /\ limiter.count \in Nat /\ MaxFailures \in Nat /\ Cardinality(Visitors) \in Nat
      BY AccountsAssumption, AttemptsCounted DEF LimitInv, AccountsTypeOK
    <2>3. /\ Cardinality(Attempts') \in Nat /\ Cardinality(Attempts') <= Cardinality(Visitors)
      <3>1. Attempts' \subseteq Visitors
        BY DEF Attempts
      <3>2. QED
        BY <3>1, AccountsAssumption, FS_Subset, FS_CardinalityType
    <2>4. QED
      BY <2>1, <2>2, <2>3 DEF AttemptsAreBounded
  <1>3. QED
    BY <1>1, <1>2

(* One step per action.                                                    *)
LEMMA LimitPreserved == LimitInv /\ [AccountsNext]_accountVars => LimitInv'
  <1> SUFFICES ASSUME LimitInv, [AccountsNext]_accountVars PROVE AttemptsAreBounded'
    BY TypesKept DEF LimitInv
  <1> USE DEF VisitorPC
  <1>0. AccountsTypeOK /\ AccountsTypeOK' /\ Window \in Nat
    BY TypesKept, AccountsAssumption DEF LimitInv
  <1>1. ASSUME UNCHANGED limiter, Attempts' \subseteq Attempts PROVE AttemptsAreBounded'
    BY <1>0, <1>1, FewerAttempts DEF WindowOver
  <1>2. ASSUME limiter' = NoRecord PROVE AttemptsAreBounded'
    <2>1. WindowOver'
      BY <1>0, <1>2 DEF WindowOver, NoRecord
    <2>2. QED
      BY <2>1 DEF AttemptsAreBounded
  <1>3. ASSUME NEW v \in Visitors, Verify(v) \/ CreateSession(v) \/ UpdatePassword(v) \/ Revoke(v)
        PROVE  AttemptsAreBounded'
    <2>1. UNCHANGED limiter
      BY <1>3 DEF Verify, CreateSession, UpdatePassword, Revoke
    <2>2. \A w \in Visitors : w # v => visitors'[w] = visitors[w]
      BY <1>0, <1>3, VisitMoves, DepartMoves, ServesMoves
         DEF Verify, CreateSession, UpdatePassword, Revoke
    <2>3. visitors'[v].pc \in {"verify", "failed"} => visitors[v].pc \in {"verify", "failed"}
      BY <1>0, <1>3, VisitMoves, DepartMoves, ServesMoves
         DEF Verify, CreateSession, UpdatePassword, Revoke
    <2>4. QED
      BY <1>1, <2>1, <2>2, <2>3 DEF Attempts
  <1>4. ASSUME NEW v \in Visitors, BeginChange(v) PROVE AttemptsAreBounded'
    <2>1. /\ visitors'[v].pc = "update" /\ UNCHANGED limiter
          /\ \A w \in Visitors : w # v => visitors'[w] = visitors[w]
      BY <1>0, <1>4, ServesMoves DEF BeginChange
    <2>2. QED
      BY <1>1, <2>1 DEF Attempts
  <1>5. ASSUME NEW v \in Visitors, Allow(v) \/ CountFailure(v) \/ ResetLimiter(v)
        PROVE  AttemptsAreBounded'
    BY <1>2, <1>5, AttemptAllowed, FailureCounted DEF ResetLimiter
  <1>6. ASSUME NEW s \in sessions, DeleteSession(s) PROVE AttemptsAreBounded'
    BY <1>1, <1>6 DEF DeleteSession, Attempts
  <1>7. CASE Tick
    <2>1. limiter.age < Window /\ limiter'.count = limiter.count /\ UNCHANGED visitors
      BY <1>7 DEF Tick, LimitInv, AccountsTypeOK
    <2>2. ~WindowOver
      BY <1>0, <2>1 DEF WindowOver, AccountsTypeOK
    <2>3. QED
      BY <1>0, <2>1, <2>2, FewerAttempts DEF Attempts
  <1>8. CASE RestartPlain \/ ResetDefaultUser
    BY <1>2, <1>8 DEF RestartPlain, ResetDefaultUser, ForgetRequests
  <1>9. CASE UNCHANGED accountVars
    BY <1>1, <1>9 DEF accountVars, Attempts
  <1>10. QED
    BY <1>3, <1>4, <1>5, <1>6, <1>7, <1>8, <1>9 DEF AccountsNext

(* Within a window the counter passes the maximum by no more than the      *)
(* attempts that were let in before it got there.                          *)
THEOREM LimiterBounds == AccountsSpec => []FailuresAreBounded
  <1>1. LimitInv => FailuresAreBounded
    <2> SUFFICES ASSUME LimitInv, ~WindowOver
                 PROVE  limiter.count + Cardinality({v \in Visitors : visitors[v].pc = "failed"})
                          <= MaxFailures + Cardinality(Visitors) - 1
      BY DEF FailuresAreBounded
    <2> DEFINE F == {v \in Visitors : visitors[v].pc = "failed"}
    <2>1. F \subseteq Attempts
      BY DEF Attempts
    <2> HIDE DEF F
    <2>2. Cardinality(F) \in Nat /\ Cardinality(F) <= Cardinality(Attempts)
      BY <2>1, AttemptsCounted, FS_Subset, FS_CardinalityType
    <2>3. /\ limiter.count \in Nat /\ MaxFailures \in Nat /\ Cardinality(Visitors) \in Nat
          /\ Cardinality(Attempts) \in Nat
      BY AccountsAssumption, AttemptsCounted DEF LimitInv, AccountsTypeOK
    <2>4. limiter.count + Cardinality(Attempts) <= MaxFailures + Cardinality(Visitors) - 1
      BY DEF LimitInv, AttemptsAreBounded
    <2>5. limiter.count + Cardinality(F) <= MaxFailures + Cardinality(Visitors) - 1
      BY <2>2, <2>3, <2>4
    <2>6. QED
      BY <2>5 DEF F
  <1>2. QED
    BY <1>1, AccountsInitInv, LimitPreserved, PTL DEF AccountsSpec

-----------------------------------------------------------------------------
(***************************************************************************)
(* Migrations.                                                             *)
(*                                                                         *)
(* The order of the files rests on the lock (whoever executes a body has   *)
(* it, and the version is free until the commit), on what is drafted being *)
(* the beginning of the file at hand, and on what a machine has read of the*)
(* table: a checksum, once there, stays.                                   *)
(***************************************************************************)
Machine == [pc: {"down", "next", "claim", "body", "confirm", "locked", "serving"},
            version: Nat \ {0}, known: [1..Versions -> Nat], attempt: Nat]
Executed == [version: Nat, statement: Nat]

MigrationsTypeOK ==
  /\ schema \in [1..Versions -> Nat]
  /\ executed \in Seq(Executed) /\ draft \in Seq(Executed)
  /\ machines \in [Machines -> Machine]

(* The files applied so far.                                               *)
Applied == Len(executed) \div Body

(* Whoever executes a body holds the lock, and nobody else has it; and the *)
(* version is still free, because nobody else can have committed it.       *)
LockOK ==
  /\ holder = NoHolder => \A m \in Machines : machines[m].pc # "body"
  /\ holder # NoHolder => holder \in Machines /\ machines[holder].pc = "body"
  /\ \A m \in Machines : machines[m].pc = "body" => m = holder /\ schema[Version(m)] = 0

(* What is drafted is the beginning of the file at hand.                   *)
DraftOK ==
  holder # NoHolder =>
    /\ Len(draft) <= Body
    /\ \A i \in 1..Len(draft) : draft[i] = [version |-> Version(holder), statement |-> i]

(* A machine has the files before the one at hand applied as it knows them;*)
(* what it has read is still so.                                           *)
ProgressOK ==
  \A m \in Machines :
    /\ \A v \in 1..Versions :
         /\ machines[m].pc # "down" /\ v < Version(m) => schema[v] = Checksum(m, v)
         /\ machines[m].known[v] # 0 => schema[v] = machines[m].known[v]
    /\ machines[m].pc \in {"claim", "body", "confirm", "locked"} => Version(m) <= Versions
    /\ machines[m].pc = "serving" => Version(m) > Versions
    /\ machines[m].pc = "down" => Version(m) = 1

MigrationsInv == MigrationsTypeOK /\ LockOK /\ DraftOK /\ ProgressOK /\ AppliedInOrderOnce

(* The statement at a place is found by dividing by the length of a body.  *)
LEMMA Places ==
  ASSUME NEW n \in Nat, NEW r \in 0..(Body - 1)
  PROVE  (n * Body + r) \div Body = n /\ (n * Body + r) % Body = r
  BY MigrationAssumption

LEMMA Divides ==
  ASSUME NEW k \in Nat
  PROVE  k = (k \div Body) * Body + (k % Body) /\ k \div Body \in Nat
  BY MigrationAssumption

LEMMA MigrationsInitInv == MigrationsInit => MigrationsInv
  <1> SUFFICES ASSUME MigrationsInit PROVE MigrationsInv
    OBVIOUS
  <1>1. MigrationsTypeOK
    BY DEF MigrationsInit, MigrationsTypeOK, Machine, Down, Unread
  <1>2. LockOK /\ DraftOK /\ ProgressOK
    BY DEF MigrationsInit, LockOK, DraftOK, ProgressOK, Down, Unread, Version, NoHolder
  <1>3. AppliedInOrderOnce
    <2>1. executed = <<>> /\ Len(executed) = 0 /\ DOMAIN executed = {}
      BY DEF MigrationsInit
    <2>2. 0 % Body = 0 /\ 0 \div Body = 0
      BY MigrationAssumption
    <2>3. Recorded = {} /\ 1..0 = {}
      BY DEF MigrationsInit, Recorded, Unread
    <2>4. QED
      BY <2>1, <2>2, <2>3 DEF AppliedInOrderOnce
  <1>4. QED
    BY <1>1, <1>2, <1>3 DEF MigrationsInv

-----------------------------------------------------------------------------
(* A machine moves by itself; nothing is committed.                        *)
Moves(m) ==
  /\ machines' \in [Machines -> Machine]
  /\ \A q \in Machines \ {m} : machines'[q] = machines[q]
  /\ UNCHANGED <<schema, executed, edited>>

LEMMA MoveMoves ==
  ASSUME MigrationsTypeOK, NEW m \in Machines,
         NEW pc \in {"down", "next", "claim", "body", "confirm", "locked", "serving"}, Move(m, pc),
         UNCHANGED <<schema, executed, edited>>
  PROVE  /\ Moves(m) /\ machines'[m].pc = pc
         /\ machines'[m].version = machines[m].version
         /\ machines'[m].known = machines[m].known
  BY DEF MigrationsTypeOK, Move, Moves, Machine

LEMMA ExitMoves ==
  ASSUME MigrationsTypeOK, NEW m \in Machines, ExitMachine(m),
         UNCHANGED <<schema, executed, edited>>
  PROVE  /\ Moves(m) /\ machines'[m].pc = "down"
         /\ machines'[m].known = Unread /\ machines'[m].version = 1
  BY DEF MigrationsTypeOK, ExitMachine, Moves, Machine, Down, Unread

LEMMA AdvanceMoves ==
  ASSUME MigrationsTypeOK, NEW m \in Machines, Advance(m)
  PROVE  /\ machines' \in [Machines -> Machine]
         /\ \A q \in Machines \ {m} : machines'[q] = machines[q]
         /\ machines'[m].pc = "next"
         /\ machines'[m].version = machines[m].version + 1
         /\ machines'[m].known = machines[m].known
  <1> DEFINE one == [machines EXCEPT ![m].pc = "next"]
             two == [one EXCEPT ![m].version = @ + 1]
  <1>1. /\ one \in [Machines -> Machine] /\ one[m].pc = "next"
        /\ one[m].version = machines[m].version /\ one[m].known = machines[m].known
        /\ \A q \in Machines \ {m} : one[q] = machines[q]
    BY DEF MigrationsTypeOK, Machine
  <1> HIDE DEF one
  <1>2. /\ two \in [Machines -> Machine] /\ two[m].pc = "next"
        /\ two[m].version = machines[m].version + 1 /\ two[m].known = machines[m].known
        /\ \A q \in Machines \ {m} : two[q] = machines[q]
    BY <1>1 DEF Machine
  <1>3. machines' = [two EXCEPT ![m].attempt = 1]
    BY DEF Advance, one
  <1> HIDE DEF two
  <1>4. QED
    BY <1>2, <1>3 DEF Machine

(* Without a commit, the record of what was applied stays true.            *)
LEMMA NothingCommitted ==
  ASSUME AppliedInOrderOnce, UNCHANGED <<schema, executed>>
  PROVE  AppliedInOrderOnce'
  BY DEF AppliedInOrderOnce, Recorded

(* A machine outside of the lock moves on to a place where it is due.      *)
LEMMA MoverPreserves ==
  ASSUME MigrationsInv, NEW m \in Machines, Moves(m), UNCHANGED <<holder, draft>>,
         machines[m].pc # "body", machines'[m].pc # "body",
         machines'[m].known \in {machines[m].known, schema, Unread},
         \/ machines'[m].pc = "down" /\ machines'[m].version = 1
         \/ \A v \in 1..Versions : v < machines'[m].version => schema[v] = Checksum(m, v),
         machines'[m].pc \in {"claim", "confirm", "locked"} => machines'[m].version <= Versions,
         machines'[m].pc = "serving" => machines'[m].version > Versions,
         machines'[m].pc = "down" => machines'[m].version = 1
  PROVE  MigrationsInv'
  <1>1. MigrationsTypeOK'
    BY DEF MigrationsInv, MigrationsTypeOK, Moves
  <1>2. LockOK'
    BY DEF MigrationsInv, LockOK, Moves, Version
  <1>3. DraftOK'
    <2>1. holder # NoHolder => holder # m /\ holder \in Machines
      BY DEF MigrationsInv, LockOK
    <2>2. QED
      BY <2>1 DEF MigrationsInv, DraftOK, Moves, Version
  <1>4. ProgressOK'
    <2>1. ASSUME NEW q \in Machines, q # m
          PROVE  /\ \A v \in 1..Versions :
                      /\ machines'[q].pc # "down" /\ v < machines'[q].version
                           => schema[v] = Checksum(q, v)
                      /\ machines'[q].known[v] # 0 => schema[v] = machines'[q].known[v]
                 /\ machines'[q].pc \in {"claim", "body", "confirm", "locked"}
                      => machines'[q].version <= Versions
                 /\ machines'[q].pc = "serving" => machines'[q].version > Versions
                 /\ machines'[q].pc = "down" => machines'[q].version = 1
      BY <2>1 DEF MigrationsInv, ProgressOK, Moves, Version
    <2>2. \A v \in 1..Versions : machines'[m].known[v] # 0 => schema[v] = machines'[m].known[v]
      BY DEF MigrationsInv, ProgressOK, Unread
    <2>3. \A q \in Machines, v \in 1..Versions : Checksum(q, v)' = Checksum(q, v)
      BY DEF Checksum, Moves
    <2>4. QED
      BY <2>1, <2>2, <2>3 DEF ProgressOK, Moves, Version
  <1>5. AppliedInOrderOnce'
    BY NothingCommitted DEF MigrationsInv, Moves
  <1>6. QED
    BY <1>1, <1>2, <1>3, <1>4, <1>5 DEF MigrationsInv

(* The next file to be claimed is the one behind all that were applied.    *)
LEMMA ClaimIsNext ==
  ASSUME MigrationsInv, NEW m \in Machines, machines[m].pc \in {"claim", "body"}, schema[Version(m)] = 0
  PROVE  Version(m) = Applied + 1
  <1>1. Version(m) \in 1..Versions
    BY MigrationAssumption DEF MigrationsInv, ProgressOK, MigrationsTypeOK, Machine, Version
  <1>2. Version(m) \notin Recorded
    BY <1>1 DEF Recorded
  <1>3. \A v \in 1..Versions : v < Version(m) => v \in Recorded
    BY DEF MigrationsInv, ProgressOK, Recorded, Checksum
  <1>4. Recorded = 1..Applied /\ Applied \in Nat
    BY Divides, LenProperties DEF MigrationsInv, AppliedInOrderOnce, Applied, MigrationsTypeOK
  <1>5. CASE Version(m) = 1
    BY <1>1, <1>2, <1>4, <1>5
  <1>6. CASE Version(m) # 1
    <2>1. Version(m) - 1 \in Recorded
      BY <1>1, <1>3, <1>6, MigrationAssumption
    <2>2. QED
      BY <1>1, <1>2, <1>4, <2>1
  <1>7. QED
    BY <1>5, <1>6

(* The body of the next file is behind those that were applied.            *)
LEMMA CommitAppends ==
  ASSUME MigrationsInv, NEW m \in Machines, Committable(m), CommitEffect(m)
  PROVE  AppliedInOrderOnce' /\ executed' \in Seq(Executed)
  <1> DEFINE n == Applied
  <1>1. /\ holder = m /\ schema[Version(m)] = 0
        /\ Version(m) = n + 1 /\ n + 1 \in 1..Versions
        /\ Len(draft) = Body
    <2>1. holder = m /\ schema[Version(m)] = 0 /\ machines[m].pc = "body" /\ Len(draft) = Body
      BY DEF MigrationsInv, LockOK, Committable
    <2>2. Version(m) \in 1..Versions
      BY <2>1, MigrationAssumption DEF MigrationsInv, ProgressOK, MigrationsTypeOK, Machine, Version
    <2>3. Version(m) = n + 1
      BY <2>1, ClaimIsNext
    <2>4. QED
      BY <2>1, <2>2, <2>3
  <1>2. /\ n \in Nat /\ Len(executed) = n * Body
        /\ Recorded = 1..n
    <2>1. Len(executed) \in Nat
      BY LenProperties DEF MigrationsInv, MigrationsTypeOK
    <2>2. Len(executed) % Body = 0 /\ Recorded = 1..n
      BY DEF MigrationsInv, AppliedInOrderOnce, Applied
    <2>3. Len(executed) = n * Body + (Len(executed) % Body) /\ n \in Nat
      BY <2>1, Divides DEF Applied
    <2> HIDE DEF n
    <2>4. n * Body \in Nat
      BY <2>3, MigrationAssumption
    <2>5. n * Body + 0 = n * Body
      BY <2>4
    <2>6. QED
      BY <2>2, <2>3, <2>5
  <1> HIDE DEF n
  <1>3. /\ executed' = executed \o draft /\ executed' \in Seq(Executed)
        /\ Len(executed') = Len(executed) + Body
        /\ \A i \in 1..Len(executed) : executed'[i] = executed[i]
        /\ \A i \in 1..Body : executed'[Len(executed) + i] = draft[i]
    <2>1. executed' = executed \o draft
      BY DEF CommitEffect
    <2>2. executed \in Seq(Executed) /\ draft \in Seq(Executed)
      BY DEF MigrationsInv, MigrationsTypeOK
    <2>3. /\ executed \o draft \in Seq(Executed)
          /\ Len(executed \o draft) = Len(executed) + Len(draft)
          /\ \A i \in 1..(Len(executed) + Len(draft)) : (executed \o draft)[i] =
               IF i <= Len(executed) THEN executed[i] ELSE draft[i - Len(executed)]
      BY <2>2, ConcatProperties
    <2>4. Len(executed) \in Nat /\ Body \in Nat
      BY <2>2, LenProperties, MigrationAssumption
    <2>5. \A i \in 1..Body : Len(executed) + i \in 1..(Len(executed) + Body)
                              /\ ~(Len(executed) + i <= Len(executed))
                              /\ (Len(executed) + i) - Len(executed) = i
      BY <2>4
    <2>6. QED
      BY <1>1, <2>1, <2>3, <2>4, <2>5
  <1>4. Len(executed') = (n + 1) * Body
    BY <1>2, <1>3, MigrationAssumption
  <1>5. Len(executed') % Body = 0 /\ Len(executed') \div Body = n + 1
    BY <1>2, <1>4, Places, MigrationAssumption
  <1>6. Recorded' = 1..(n + 1)
    <2>1. Checksum(m, n + 1) # 0
      BY DEF Checksum
    <2>2. \A v \in 1..Versions : schema'[v] = IF v = n + 1 THEN Checksum(m, n + 1) ELSE schema[v]
      BY <1>1 DEF MigrationsInv, MigrationsTypeOK, CommitEffect
    <2>3. \A v \in 1..Versions : v \in Recorded <=> v \in 1..n
      BY <1>2
    <2>4. \A v \in 1..Versions : v \in Recorded' <=> v \in 1..(n + 1)
      BY <1>2, <2>1, <2>2, <2>3 DEF Recorded
    <2>5. Recorded' \subseteq 1..Versions /\ 1..(n + 1) \subseteq 1..Versions
      BY <1>1, <1>2, MigrationAssumption DEF Recorded
    <2>6. QED
      BY <2>4, <2>5
  <1>7. ASSUME NEW i \in DOMAIN executed'
        PROVE  executed'[i] = [version |-> ((i - 1) \div Body) + 1,
                               statement |-> ((i - 1) % Body) + 1]
    <2>1. i \in 1..(Len(executed) + Body) /\ Len(executed) \in Nat
      BY <1>2, <1>3, <1>7, LenProperties DEF MigrationsInv, MigrationsTypeOK
    <2>2. CASE i \in 1..Len(executed)
      BY <1>3, <2>2 DEF MigrationsInv, AppliedInOrderOnce, MigrationsTypeOK
    <2>3. CASE i \notin 1..Len(executed)
      <3>1. PICK r \in 0..(Body - 1) : i = Len(executed) + (r + 1)
        <4>1. i - Len(executed) - 1 \in 0..(Body - 1)
          BY <2>1, <2>3, MigrationAssumption
        <4>2. i = Len(executed) + ((i - Len(executed) - 1) + 1)
          BY <2>1
        <4>3. QED
          BY <4>1, <4>2
      <3>2. r + 1 \in 1..Body
        BY <3>1, MigrationAssumption
      <3>3. executed'[i] = [version |-> n + 1, statement |-> r + 1]
        <4>1. holder # NoHolder
          BY <1>1, MigrationAssumption
        <4>2. draft[r + 1] = [version |-> n + 1, statement |-> r + 1]
          BY <1>1, <3>2, <4>1 DEF MigrationsInv, DraftOK
        <4>3. QED
          BY <1>3, <3>1, <3>2, <4>2
      <3>4. i - 1 = n * Body + r
        BY <1>2, <2>1, <3>1
      <3>5. (i - 1) \div Body = n /\ (i - 1) % Body = r
        BY <1>2, <3>4, Places
      <3>6. QED
        BY <3>3, <3>5
    <2>4. QED
      BY <2>2, <2>3
  <1>8. QED
    BY <1>3, <1>5, <1>6, <1>7 DEF AppliedInOrderOnce

(* A commit, whether or not its answer arrives.                            *)
LEMMA CommitPreserves ==
  ASSUME MigrationsInv, NEW m \in Machines, Committable(m), CommitEffect(m), UNCHANGED edited,
         Advance(m) \/ ExitMachine(m)
  PROVE  MigrationsInv'
  <1>1. /\ holder = m /\ schema[Version(m)] = 0 /\ Version(m) \in 1..Versions
        /\ \A q \in Machines : machines[q].pc = "body" => q = m
    BY MigrationAssumption
       DEF MigrationsInv, LockOK, ProgressOK, Committable, MigrationsTypeOK, Machine, Version
  <1>2. holder' = NoHolder /\ draft' = <<>> /\ m # NoHolder
    BY MigrationAssumption DEF CommitEffect, Rollback
  <1>3. /\ machines' \in [Machines -> Machine]
        /\ \A q \in Machines \ {m} : machines'[q] = machines[q]
        /\ machines'[m].pc \in {"next", "down"}
        /\ machines'[m].pc = "next" => /\ machines'[m].version = Version(m) + 1
                                       /\ machines'[m].known = machines[m].known
        /\ machines'[m].pc = "down" => /\ machines'[m].version = 1
                                       /\ machines'[m].known = Unread
    <2>1. CASE Advance(m)
      BY <2>1, AdvanceMoves DEF MigrationsInv, Version
    <2>2. CASE ExitMachine(m)
      BY <2>2 DEF MigrationsInv, MigrationsTypeOK, ExitMachine, Machine, Down, Unread
    <2>3. QED
      BY <2>1, <2>2
  <1>4. /\ schema' \in [1..Versions -> Nat]
        /\ schema'[Version(m)] = Checksum(m, Version(m))
        /\ \A v \in 1..Versions : v # Version(m) => schema'[v] = schema[v]
    BY <1>1 DEF MigrationsInv, MigrationsTypeOK, CommitEffect, Checksum
  <1>5. AppliedInOrderOnce' /\ executed' \in Seq(Executed)
    BY CommitAppends
  <1>6. MigrationsTypeOK'
    BY <1>2, <1>3, <1>4, <1>5 DEF MigrationsTypeOK
  <1>7. LockOK'
    BY <1>1, <1>2, <1>3 DEF MigrationsInv, LockOK
  <1>8. DraftOK'
    BY <1>2 DEF DraftOK
  <1>9. ProgressOK'
    <2>1. ASSUME NEW q \in Machines, NEW v \in 1..Versions
          PROVE  /\ machines'[q].pc # "down" /\ v < machines'[q].version
                      => schema'[v] = Checksum(q, v)'
                 /\ machines'[q].known[v] # 0 => schema'[v] = machines'[q].known[v]
      <3>1. Checksum(q, v)' = Checksum(q, v) /\ Checksum(q, v) # 0
        BY DEF Checksum
      <3>2. CASE q # m
        BY <1>1, <1>3, <1>4, <3>1, <3>2 DEF MigrationsInv, ProgressOK, Version
      <3>3. CASE q = m /\ machines'[q].pc = "down"
        BY <1>3, <3>3 DEF Unread
      <3>4. CASE q = m /\ machines'[q].pc = "next"
        <4>1. machines[m].pc = "body" /\ Version(m) \in Nat /\ v \in Nat
          BY <1>1 DEF MigrationsInv, LockOK, Committable
        <4>2. v < machines'[q].version => schema'[v] = Checksum(q, v)
          BY <1>1, <1>3, <1>4, <3>4, <4>1 DEF MigrationsInv, ProgressOK
        <4>3. machines'[q].known[v] # 0 => schema'[v] = machines'[q].known[v]
          BY <1>1, <1>3, <1>4, <3>4 DEF MigrationsInv, ProgressOK
        <4>4. QED
          BY <3>1, <4>2, <4>3
      <3>5. QED
        BY <1>3, <3>2, <3>3, <3>4
    <2>2. ASSUME NEW q \in Machines
          PROVE  /\ machines'[q].pc \in {"claim", "body", "confirm", "locked"}
                      => machines'[q].version <= Versions
                 /\ machines'[q].pc = "serving" => machines'[q].version > Versions
                 /\ machines'[q].pc = "down" => machines'[q].version = 1
      BY <1>3 DEF MigrationsInv, ProgressOK, Version
    <2>3. QED
      BY <2>1, <2>2 DEF ProgressOK, Version
  <1>10. QED
    BY <1>5, <1>6, <1>7, <1>8, <1>9 DEF MigrationsInv

(* The claim takes the lock, and a statement is drafted under it.          *)
LEMMA ClaimPreserves ==
  ASSUME MigrationsInv, NEW m \in Machines, ClaimVersion(m)
  PROVE  MigrationsInv'
  <1>1. /\ Version(m) \in 1..Versions /\ machines[m].pc = "claim"
        /\ \A v \in 1..Versions : v < Version(m) => schema[v] = Checksum(m, v)
        /\ UNCHANGED <<schema, executed, edited>>
    BY MigrationAssumption
       DEF ClaimVersion, MigrationsInv, ProgressOK, MigrationsTypeOK, Machine, Version
  <1>2. ASSUME NEW pc \in {"confirm", "locked"}, Move(m, pc), UNCHANGED <<holder, draft>>
        PROVE  MigrationsInv'
    <2>1. /\ Moves(m) /\ machines'[m].pc = pc
          /\ machines'[m].version = Version(m) /\ machines'[m].known = machines[m].known
      BY <1>1, <1>2, MoveMoves DEF MigrationsInv, Version
    <2>2. QED
      BY <1>1, <1>2, <2>1, MoverPreserves
  <1>3. ASSUME holder = NoHolder, Unclaimed(m), holder' = m, draft' = <<>>, Move(m, "body")
        PROVE  MigrationsInv'
    <2>1. /\ Moves(m) /\ machines'[m].pc = "body"
          /\ machines'[m].version = Version(m) /\ machines'[m].known = machines[m].known
      BY <1>1, <1>3, MoveMoves DEF MigrationsInv, Version
    <2>2. MigrationsTypeOK'
      BY <1>1, <1>3, <2>1 DEF MigrationsInv, MigrationsTypeOK, Moves
    <2>3. LockOK'
      BY <1>1, <1>3, <2>1, MigrationAssumption DEF MigrationsInv, LockOK, Moves, Version, Unclaimed
    <2>4. DraftOK'
      BY <1>3, MigrationAssumption DEF DraftOK
    <2>5. ProgressOK'
      <3>1. \A q \in Machines, v \in 1..Versions : Checksum(q, v)' = Checksum(q, v)
        BY <1>1 DEF Checksum
      <3>2. ASSUME NEW q \in Machines \ {m} PROVE machines'[q] = machines[q]
        BY <2>1 DEF Moves
      <3>3. QED
        BY <1>1, <2>1, <3>1, <3>2 DEF MigrationsInv, ProgressOK, Version
    <2>6. AppliedInOrderOnce'
      BY <1>1, NothingCommitted DEF MigrationsInv
    <2>7. QED
      BY <2>2, <2>3, <2>4, <2>5, <2>6 DEF MigrationsInv
  <1>4. QED
    BY <1>2, <1>3 DEF ClaimVersion

LEMMA StatementPreserves ==
  ASSUME MigrationsInv, NEW m \in Machines, ExecuteStatement(m)
  PROVE  MigrationsInv'
  <1> DEFINE s == [version |-> Version(m), statement |-> Len(draft) + 1]
  <1>1. /\ holder = m /\ Len(draft) < Body /\ draft' = Append(draft, s)
        /\ UNCHANGED <<schema, executed, holder, machines, edited>>
    BY DEF MigrationsInv, LockOK, ExecuteStatement, InTransaction
  <1>2. draft \in Seq(Executed) /\ Len(draft) \in Nat /\ s \in Executed
    BY LenProperties DEF MigrationsInv, MigrationsTypeOK, Machine, Version, Executed
  <1>3. /\ draft' \in Seq(Executed) /\ Len(draft') = Len(draft) + 1
        /\ \A i \in 1..Len(draft) : draft'[i] = draft[i]
        /\ draft'[Len(draft) + 1] = s
    BY <1>1, <1>2, AppendProperties
  <1>4. MigrationsTypeOK'
    BY <1>1, <1>3 DEF MigrationsInv, MigrationsTypeOK
  <1>5. DraftOK'
    <2>1. Len(draft') <= Body
      BY <1>1, <1>2, <1>3, MigrationAssumption
    <2>2. ASSUME NEW i \in 1..Len(draft')
          PROVE  draft'[i] = [version |-> Version(m), statement |-> i]
      <3>1. CASE i \in 1..Len(draft)
        BY <1>1, <1>3, <3>1, MigrationAssumption DEF MigrationsInv, DraftOK
      <3>2. CASE i = Len(draft) + 1
        BY <1>3, <3>2
      <3>3. QED
        BY <1>2, <1>3, <3>1, <3>2
    <2>3. QED
      BY <1>1, <2>1, <2>2 DEF DraftOK, Version
  <1>6. LockOK' /\ ProgressOK'
    BY <1>1 DEF MigrationsInv, LockOK, ProgressOK, Version, Checksum
  <1>7. AppliedInOrderOnce'
    BY <1>1, NothingCommitted DEF MigrationsInv
  <1>8. QED
    BY <1>4, <1>5, <1>6, <1>7 DEF MigrationsInv

(* A machine that dies rolls back what it held.                            *)
LEMMA DeathPreserves ==
  ASSUME MigrationsInv, NEW m \in Machines, MachineDies(m)
  PROVE  MigrationsInv'
  <1>1. /\ Moves(m) /\ machines'[m].pc = "down"
        /\ machines'[m].known = Unread /\ machines'[m].version = 1
    BY ExitMoves DEF MigrationsInv, MachineDies
  <1>2. CASE holder # m
    <2>1. UNCHANGED <<holder, draft>> /\ machines[m].pc # "body"
      BY <1>2 DEF MachineDies, Abandon, MigrationsInv, LockOK
    <2>2. QED
      BY <1>1, <2>1, MoverPreserves
  <1>3. CASE holder = m
    <2>1. holder' = NoHolder /\ draft' = <<>>
      BY <1>3 DEF MachineDies, Abandon, Rollback
    <2>2. MigrationsTypeOK'
      BY <1>1, <2>1 DEF MigrationsInv, MigrationsTypeOK, Moves
    <2>3. LockOK' /\ DraftOK'
      BY <1>1, <1>3, <2>1 DEF MigrationsInv, LockOK, DraftOK, Moves
    <2>4. ProgressOK'
      <3>1. \A q \in Machines, v \in 1..Versions : Checksum(q, v)' = Checksum(q, v)
        BY <1>1 DEF Checksum, Moves
      <3>2. ASSUME NEW q \in Machines \ {m} PROVE machines'[q] = machines[q]
        BY <1>1 DEF Moves
      <3>3. UNCHANGED schema /\ \A v \in 1..Versions : machines'[m].known[v] = 0
        BY <1>1 DEF Moves, Unread
      <3>4. QED
        BY <1>1, <3>1, <3>2, <3>3 DEF MigrationsInv, ProgressOK, Version
    <2>5. AppliedInOrderOnce'
      BY <1>1, NothingCommitted DEF MigrationsInv, Moves
    <2>6. QED
      BY <2>2, <2>3, <2>4, <2>5 DEF MigrationsInv
  <1>4. QED
    BY <1>2, <1>3

(* The steps of a machine that does not hold the lock.                     *)
LEMMA OutsideLockPreserves ==
  ASSUME MigrationsInv, NEW m \in Machines,
         ReadApplied(m) \/ NextFile(m) \/ Serve(m) \/ ConfirmPeerApplied(m) \/ AfterLocked(m)
  PROVE  MigrationsInv'
  <1>1. /\ MigrationsTypeOK /\ machines[m].pc # "body" /\ machines[m] \in Machine
        /\ UNCHANGED <<schema, executed, holder, draft, edited>>
    BY DEF MigrationsInv, MigrationsTypeOK, ReadApplied, NextFile, Serve, ConfirmPeerApplied, AfterLocked
  <1>2. machines[m].pc # "down" =>
          \A v \in 1..Versions : v < Version(m) => schema[v] = Checksum(m, v)
    BY DEF MigrationsInv, ProgressOK
  <1>3. ASSUME ExitMachine(m) PROVE MigrationsInv'
    BY <1>1, <1>3, ExitMoves, MoverPreserves
  <1>4. ASSUME Advance(m), machines[m].pc # "down",
               Version(m) \in 1..Versions => schema[Version(m)] = Checksum(m, Version(m))
        PROVE  MigrationsInv'
    <2>1. /\ Moves(m) /\ machines'[m].pc = "next"
          /\ machines'[m].version = Version(m) + 1 /\ machines'[m].known = machines[m].known
      BY <1>1, <1>4, AdvanceMoves DEF Moves, Version
    <2>2. ASSUME NEW v \in 1..Versions, v < Version(m) + 1 PROVE schema[v] = Checksum(m, v)
      <3>1. Version(m) \in Nat
        BY <1>1 DEF Machine, Version
      <3>2. v < Version(m) \/ v = Version(m)
        BY <2>2, <3>1
      <3>3. QED
        BY <1>2, <1>4, <3>2
    <2>3. QED
      BY <1>1, <2>1, <2>2, MoverPreserves
  <1>5. CASE ReadApplied(m)
    <2>1. machines' = [machines EXCEPT ![m] = [machines[m] EXCEPT !.pc = "next", !.known = schema]]
      BY <1>1, <1>5 DEF ReadApplied, MigrationsTypeOK, Machine
    <2>2. /\ [machines[m] EXCEPT !.pc = "next", !.known = schema] \in Machine
          /\ [machines[m] EXCEPT !.pc = "next", !.known = schema].pc = "next"
          /\ [machines[m] EXCEPT !.pc = "next", !.known = schema].known = schema
          /\ [machines[m] EXCEPT !.pc = "next", !.known = schema].version = Version(m)
      BY <1>1 DEF MigrationsTypeOK, Machine, Version
    <2>3. Version(m) = 1 /\ ~\E v \in 1..Versions : v < 1
      BY <1>5, MigrationAssumption DEF ReadApplied, MigrationsInv, ProgressOK
    <2>4. Moves(m) /\ machines'[m] = [machines[m] EXCEPT !.pc = "next", !.known = schema]
      BY <1>1, <2>1, <2>2 DEF MigrationsTypeOK, Moves
    <2>5. QED
      BY <1>1, <2>2, <2>3, <2>4, MoverPreserves
  <1>6. CASE NextFile(m)
    <2>1. CASE Move(m, "claim")
      BY <1>1, <1>2, <1>6, <2>1, MoveMoves, MoverPreserves DEF NextFile, Version
    <2>2. CASE machines[m].known[Version(m)] = Checksum(m, Version(m)) /\ Advance(m)
      <3>1. Checksum(m, Version(m)) # 0
        BY DEF Checksum
      <3>2. QED
        BY <1>4, <1>6, <2>2, <3>1 DEF NextFile, MigrationsInv, ProgressOK
    <2>3. QED
      BY <1>3, <1>6, <2>1, <2>2 DEF NextFile
  <1>7. CASE Serve(m)
    <2>1. machines' = [machines EXCEPT ![m] = [machines[m] EXCEPT !.pc = "serving", !.known = Unread]]
      BY <1>1, <1>7 DEF Serve, MigrationsTypeOK, Machine
    <2>2. /\ [machines[m] EXCEPT !.pc = "serving", !.known = Unread] \in Machine
          /\ [machines[m] EXCEPT !.pc = "serving", !.known = Unread].pc = "serving"
          /\ [machines[m] EXCEPT !.pc = "serving", !.known = Unread].known = Unread
          /\ [machines[m] EXCEPT !.pc = "serving", !.known = Unread].version = Version(m)
      BY <1>1 DEF MigrationsTypeOK, Machine, Version, Unread
    <2>3. QED
      BY <1>1, <1>2, <1>7, <2>1, <2>2, MoverPreserves DEF MigrationsTypeOK, Moves, Serve
  <1>8. CASE ConfirmPeerApplied(m)
    BY <1>3, <1>4, <1>8 DEF ConfirmPeerApplied, SameText
  <1>9. CASE AfterLocked(m)
    <2>1. CASE machines' = [machines EXCEPT ![m].pc = "claim", ![m].attempt = @ + 1]
      <3> DEFINE new == [pc |-> "claim", version |-> Version(m), known |-> machines[m].known,
                        attempt |-> machines[m].attempt + 1]
      <3>1. machines' = [machines EXCEPT ![m] = new]
        BY <1>1, <2>1 DEF MigrationsTypeOK, Machine, Version
      <3>2. /\ new \in Machine /\ new.pc = "claim"
            /\ new.known = machines[m].known /\ new.version = Version(m)
        BY <1>1 DEF Machine, Version
      <3> HIDE DEF new
      <3>3. Version(m) <= Versions /\ machines[m].pc = "locked"
        BY <1>9 DEF AfterLocked, MigrationsInv, ProgressOK
      <3>4. QED
        BY <1>1, <1>2, <3>1, <3>2, <3>3, MoverPreserves DEF MigrationsTypeOK, Moves
    <2>2. QED
      BY <1>3, <1>4, <1>9, <2>1 DEF AfterLocked, SameText
  <1>10. QED
    BY <1>5, <1>6, <1>7, <1>8, <1>9

LEMMA MigrationsPreserved == MigrationsInv /\ [MigrationsNext]_migrationVars => MigrationsInv'
  <1> SUFFICES ASSUME MigrationsInv, [MigrationsNext]_migrationVars PROVE MigrationsInv'
    OBVIOUS
  <1>1. ASSUME NEW m \in Machines, CommitMigration(m) \/ CommitAnswerLost(m) PROVE MigrationsInv'
    BY <1>1, CommitPreserves DEF CommitMigration, CommitAnswerLost
  <1>2. CASE MigrationsNext
    BY <1>1, <1>2, ClaimPreserves, StatementPreserves, DeathPreserves, OutsideLockPreserves
       DEF MigrationsNext, MachineStep
  <1>3. CASE UNCHANGED migrationVars
    BY <1>3 DEF migrationVars, MigrationsInv, MigrationsTypeOK, LockOK, DraftOK, ProgressOK,
       AppliedInOrderOnce, Recorded, Version, Checksum
  <1>4. QED
    BY <1>2, <1>3

(* Every statement takes effect at most once, in order, and no file does so*)
(* in part, whatever machines overlap, die, or lose the answer to a commit.*)
THEOREM MigrationsAreApplied == MigrationsSpec => []AppliedInOrderOnce
  <1>1. MigrationsInv => AppliedInOrderOnce
    BY DEF MigrationsInv
  <1>2. QED
    BY MigrationsInitInv, MigrationsPreserved, <1>1, PTL DEF MigrationsSpec

(* What a machine commits is the whole file at hand, ...                   *)
LEMMA DraftIsTheFile ==
  ASSUME MigrationsInv, NEW m \in Machines, Committable(m)
  PROVE  draft = Log!Statements(Version(m))
  <1>1. holder = m /\ m # NoHolder /\ Len(draft) = Body
    BY MigrationAssumption DEF MigrationsInv, LockOK, Committable
  <1>2. draft \in Seq(Executed)
    BY DEF MigrationsInv, MigrationsTypeOK
  <1>3. draft = [i \in 1..Body |-> draft[i]]
    BY <1>1, <1>2
  <1>4. \A i \in 1..Body : draft[i] = [version |-> Version(m), statement |-> i]
    BY <1>1 DEF MigrationsInv, DraftOK
  <1>5. QED
    BY <1>3, <1>4 DEF Log!Statements

(* ... the next one, and its record comes with it: SchemaLog's Apply.      *)
LEMMA CommitApplies ==
  ASSUME MigrationsInv, NEW m \in Machines, Committable(m), CommitEffect(m)
  PROVE  Log!Next
  <1>1. /\ schema[Version(m)] = 0 /\ Version(m) \in 1..Versions
        /\ machines[m].pc = "body"
    BY MigrationAssumption
       DEF MigrationsInv, LockOK, ProgressOK, Committable, MigrationsTypeOK, Machine, Version
  <1>2. \A w \in 1..(Version(m) - 1) : schema[w] # 0
    <2>1. SUFFICES ASSUME NEW w \in 1..(Version(m) - 1) PROVE schema[w] # 0
      OBVIOUS
    <2>2. w \in 1..Versions /\ w < Version(m)
      BY <1>1, MigrationAssumption
    <2>3. schema[w] = Checksum(m, w)
      BY <1>1, <2>2 DEF MigrationsInv, ProgressOK
    <2>4. QED
      BY <2>3 DEF Checksum
  <1>3. Checksum(m, Version(m)) \in {1, 2}
    BY DEF Checksum
  <1>4. /\ schema' = [schema EXCEPT ![Version(m)] = Checksum(m, Version(m))]
        /\ executed' = executed \o Log!Statements(Version(m))
    BY DraftIsTheFile DEF CommitEffect
  <1>5. Log!Apply(Version(m), Checksum(m, Version(m)))
    BY <1>1, <1>2, <1>4 DEF Log!Apply
  <1>6. QED
    BY <1>1, <1>3, <1>5 DEF Log!Next

LEMMA SchemaStep ==
  MigrationsInv /\ [MigrationsNext]_migrationVars => [Log!Next]_<<schema, executed>>
  <1> SUFFICES ASSUME MigrationsInv, MigrationsNext \/ UNCHANGED migrationVars
               PROVE  Log!Next \/ UNCHANGED <<schema, executed>>
    OBVIOUS
  <1>1. CASE \E m \in Machines : CommitMigration(m) \/ CommitAnswerLost(m)
    BY <1>1, CommitApplies DEF CommitMigration, CommitAnswerLost
  <1>2. CASE ~\E m \in Machines : CommitMigration(m) \/ CommitAnswerLost(m)
    BY <1>2 DEF MigrationsNext, MachineStep, migrationVars, ReadApplied, NextFile, Serve,
       ClaimVersion, ExecuteStatement, InTransaction, ConfirmPeerApplied, AfterLocked, MachineDies
  <1>3. QED
    BY <1>1, <1>2

(* Whatever machines overlap, wait for the lock, die, or lose the answer to*)
(* a commit, the schema grows by whole files in their order, each with its *)
(* record, and no record changes: Migrations implements SchemaLog.         *)
THEOREM SchemasGrow == MigrationsSpec => SchemaGrowsByFiles
  <1>1. MigrationsInit => Log!Init
    BY DEF MigrationsInit, Unread, Log!Init
  <1>2. QED
    BY MigrationsInitInv, MigrationsPreserved, SchemaStep, <1>1, PTL
       DEF MigrationsSpec, SchemaGrowsByFiles, Log!Spec

(* A machine serves on a schema made by the very files it carries.         *)
THEOREM MachinesServeTheirSchema == MigrationsSpec => []ServesItsOwnSchema
  <1>1. MigrationsInv => ServesItsOwnSchema
    <2> SUFFICES ASSUME MigrationsInv, NEW m \in Machines, machines[m].pc = "serving",
                        NEW v \in 1..Versions
                 PROVE  schema[v] = Checksum(m, v)
      BY DEF ServesItsOwnSchema
    <2>1. Version(m) > Versions /\ Version(m) \in Nat
      BY DEF MigrationsInv, ProgressOK, MigrationsTypeOK, Machine, Version
    <2>2. v < Version(m)
      BY <2>1, MigrationAssumption
    <2>3. QED
      BY <2>2 DEF MigrationsInv, ProgressOK
  <1>2. QED
    BY MigrationsInitInv, MigrationsPreserved, <1>1, PTL DEF MigrationsSpec

-----------------------------------------------------------------------------
(***************************************************************************)
(* Statements.                                                             *)
(*                                                                         *)
(* Where the scan is in a token determines what it is inside of and what   *)
(* it has kept: the text so far, or nothing of a comment.  A token begins  *)
(* in plain text, but for a literal right after another one: its opening   *)
(* quote may have been kept already, as the second half of a doubled one.  *)
(***************************************************************************)
(* What has been read of a token.                                          *)
Held == SubSeq(token.text, 1, place - 1)

FileOK ==
  /\ token \in Tokens \cup {Eof} /\ coming \in Tokens \cup {Eof}
  /\ coming # Eof => token # Eof /\ MayFollow(token, coming)
  /\ token # Eof => place \in 1..Len(token.text)
  /\ length \in Nat

TextOK == cur \in Seq(STRING) /\ piece \in Seq(STRING) /\ skip \in BOOLEAN

(* Where a token begins: in plain text, unless its opening quote was taken *)
(* for the second half of a doubled one.                                   *)
AtToken ==
  \/ mode = "plain" /\ skip = FALSE /\ cur = piece
  \/ /\ token.kind = "single" /\ mode = "single" /\ skip = TRUE
     /\ cur = Append(piece, Quote)

InDelimited == mode = token.kind /\ skip = FALSE /\ cur = piece \o Held

InLineComment == mode = "line" /\ (skip <=> place = 2) /\ cur = piece

InBlockComment ==
  /\ cur = piece
  /\ IF place = Len(token.text) THEN mode = "plain" /\ skip = TRUE
     ELSE mode = "block" /\ (skip <=> place = 2)

(* Where the scan is in a token, and what it has kept.                     *)
InToken ==
  /\ token.kind \in {"single", "double", "bracket"} => InDelimited
  /\ token.kind = "line" => InLineComment
  /\ token.kind = "block" => InBlockComment

PlaceOK ==
  IF token = Eof THEN cur = piece ELSE IF place = 1 THEN AtToken ELSE InToken

StatementsInv == FileOK /\ TextOK /\ PlaceOK /\ SplitsAtStatements

LEMMA TokenFacts ==
  ASSUME NEW t \in Tokens
  PROVE  /\ t.text \in Seq(STRING) /\ Len(t.text) \in Nat \ {0} /\ t # Eof
         /\ t.text[1] = Quote <=> t.kind = "single"
         /\ t.kind \in {"word", "end", "single", "double", "bracket", "line", "block"}
  <1>1. WellFormed(t)
    BY TokensAssumption
  <1>2. t.kind \in {"word", "end", "single", "double", "bracket", "line", "block"}
    BY <1>1 DEF WellFormed
  <1>3. t # Eof
    BY <1>2 DEF Eof
  <1>4. t.text \in Seq(STRING) /\ Len(t.text) \in Nat
    BY <1>1 DEF WellFormed
  <1>5. Len(t.text) # 0
    BY <1>1, <1>4 DEF WellFormed, Delimited, IsLine, IsBlock
  <1>6. t.text[1] = Quote <=> t.kind = "single"
    BY <1>1, <1>2 DEF WellFormed, Delimited, IsLine, IsBlock, Quote, DoubleQuote, Open, Semicolon,
                  Dash, Slash
  <1>7. QED
    BY <1>2, <1>3, <1>4, <1>5, <1>6

LEMMA NotSoShort ==
  \A n \in Nat : (n >= 2 => n # 1) /\ (n >= 4 => n # 1 /\ n # 2)
  OBVIOUS

LEMMA NoCharacters ==
  ASSUME NEW S
  PROVE  <<>> \in Seq(S)
  OBVIOUS

LEMMA OneCharacter ==
  ASSUME NEW S, NEW c \in S
  PROVE  <<c>> \in Seq(S)
  OBVIOUS

LEMMA AppendToConcat ==
  ASSUME NEW S, NEW s \in Seq(S), NEW x \in Seq(S), NEW c \in S
  PROVE  Append(s \o x, c) = s \o (x \o <<c>>)
  <1>1. \A y \in Seq(S) : (s \o x) \o y = s \o (x \o y)
    BY ConcatAssociative
  <1>2. (s \o x) \o <<c>> = s \o (x \o <<c>>)
    BY <1>1, OneCharacter, Zenon
  <1>3. Append(s \o x, c) = (s \o x) \o <<c>>
    BY ConcatProperties, AppendIsConcat
  <1>4. QED
    BY <1>2, <1>3

LEMMA Snoc ==
  ASSUME NEW S, NEW s \in Seq(S), NEW x \in Seq(S), NEW i \in 1..Len(x)
  PROVE  Append(s \o SubSeq(x, 1, i - 1), x[i]) = s \o SubSeq(x, 1, i)
  <1>1. x[i] \in S /\ Len(x) \in Nat
    OBVIOUS
  <1>2. SubSeq(x, 1, i - 1) \in Seq(S)
    BY <1>1, SubSeqProperties
  <1>3. SubSeq(x, 1, i) = SubSeq(x, 1, i - 1) \o <<x[i]>>
    BY <1>1, SubSeqRecursiveSecond
  <1>4. \A h \in Seq(S) : Append(s \o h, x[i]) = s \o (h \o <<x[i]>>)
    BY <1>1, AppendToConcat
  <1>5. QED
    BY <1>2, <1>3, <1>4, Zenon

LEMMA SnocFirst ==
  ASSUME NEW S, NEW s \in Seq(S), NEW x \in Seq(S), Len(x) >= 1
  PROVE  Append(s, x[1]) = s \o SubSeq(x, 1, 1)
  <1>1. SubSeq(x, 1, 0) = <<>> /\ Len(x) \in Nat /\ 1 \in 1..Len(x)
    BY SubSeqEmpty
  <1>2. s \o <<>> = s
    BY ConcatEmptySeq
  <1>3. QED
    BY <1>1, <1>2, Snoc

Going ==
  /\ place < Len(token.text) /\ place' = place + 1
  /\ UNCHANGED <<token, coming, piece, pieces>>

Turning == place = Len(token.text) /\ place' = 1 /\ token' = coming /\ Understand(token)

(* What is left to be shown of a step of the scan.                         *)
LEMMA Onward ==
  ASSUME StatementsInv, token # Eof, StepOn, cur' \in Seq(STRING), skip' \in BOOLEAN,
         Going => InToken' /\ out' = out,
         Turning => (AtToken' \/ (coming = Eof /\ cur' = piece')) /\ out' = pieces'
  PROVE  StatementsInv'
  <1>1. token \in Tokens /\ place \in 1..Len(token.text) /\ Len(token.text) \in Nat \ {0}
        /\ token.text \in Seq(STRING) /\ piece \in Seq(STRING) /\ out = pieces /\ length \in Nat
    BY TokenFacts DEF StatementsInv, FileOK, TextOK, SplitsAtStatements
  <1>2. CASE /\ place < Len(token.text) /\ place' = place + 1
             /\ UNCHANGED <<token, coming, length, piece, pieces>>
    <2>1. FileOK'
      BY <1>1, <1>2 DEF StatementsInv, FileOK, MayFollow
    <2>2. TextOK'
      BY <1>1, <1>2 DEF TextOK
    <2>3. InToken' /\ out' = pieces'
      BY <1>1, <1>2 DEF Going
    <2>4. place' # 1 /\ token' # Eof
      BY <1>1, <1>2
    <2>5. QED
      BY <2>1, <2>2, <2>3, <2>4 DEF StatementsInv, PlaceOK, SplitsAtStatements
  <1>3. CASE /\ place = Len(token.text) /\ place' = 1 /\ token' = coming /\ Understand(token)
             /\ Choose
    <2>1. FileOK'
      <3>1. coming \in Tokens \cup {Eof}
        BY DEF StatementsInv, FileOK
      <3>2. coming # Eof => 1 \in 1..Len(coming.text)
        BY <3>1, TokenFacts
      <3>3. coming' \in Tokens \cup {Eof} /\ length' \in Nat
        BY <1>1, <1>3 DEF Choose
      <3>4. coming' # Eof => coming # Eof /\ MayFollow(coming, coming')
        BY <1>3 DEF Choose
      <3>5. QED
        BY <1>3, <3>1, <3>2, <3>3, <3>4 DEF FileOK, MayFollow
    <2>2. piece' \in Seq(STRING)
      <3>1. Meaning(token) \in Seq(STRING)
        <4>1. token.text[Len(token.text)] \in STRING
          BY <1>1
        <4>2. <<token.text[Len(token.text)]>> \in Seq(STRING)
          BY <4>1, OneCharacter
        <4>3. <<>> \in Seq(STRING)
          OBVIOUS
        <4>4. Meaning(token) \in {<<>>, token.text, <<token.text[Len(token.text)]>>}
          BY DEF Meaning
        <4>5. QED
          BY <1>1, <4>2, <4>3, <4>4
      <3>2. <<>> \in Seq(STRING)
        OBVIOUS
      <3>3. piece \o Meaning(token) \in Seq(STRING)
        BY <1>1, <3>1, ConcatProperties
      <3>4. QED
        BY <1>3, <3>2, <3>3 DEF Understand
    <2>3. TextOK'
      BY <2>2 DEF TextOK
    <2>4. (AtToken' \/ (token' = Eof /\ cur' = piece')) /\ out' = pieces'
      BY <1>3 DEF Turning
    <2>5. PlaceOK'
      BY <1>3, <2>4 DEF PlaceOK, AtToken, Eof
    <2>6. QED
      BY <2>1, <2>3, <2>4, <2>5 DEF StatementsInv, SplitsAtStatements
  <1>4. QED
    BY <1>2, <1>3 DEF StepOn

LEMMA Words ==
  ASSUME StatementsInv, token \in Tokens, token.kind \in {"word", "end"}, ScanCharacter
  PROVE  StatementsInv'
  <1>1. /\ token.text \in Seq(STRING) /\ Len(token.text) = 1 /\ place = 1
        /\ token.kind = "end" => Here = Semicolon
        /\ token.kind = "word" => Here \notin {Quote, DoubleQuote, Open, Semicolon}
    <2>1. WellFormed(token) /\ token # Eof
      BY TokensAssumption, TokenFacts
    <2>2. token.text \in Seq(STRING) /\ Len(token.text) = 1
      BY <2>1 DEF WellFormed
    <2>3. place = 1
      BY <2>1, <2>2 DEF StatementsInv, FileOK
    <2>4. QED
      BY <2>1, <2>2, <2>3 DEF WellFormed, Here
  <1>2. mode = "plain" /\ skip = FALSE /\ cur = piece /\ token # Eof /\ piece \in Seq(STRING)
    BY <1>1, TokenFacts DEF StatementsInv, PlaceOK, AtToken, TextOK
  <1>3. Here \in STRING /\ token.text = <<Here>> /\ Here = token.text[1]
    BY <1>1 DEF Here
  <1>4. StepOn /\ InPlain(Here, Ahead)
    BY <1>2 DEF ScanCharacter, Scan, InLine, InBlock, InSingle, InQuoted
  <1>5. CASE token.kind = "end"
    <2>1. out' = Flush(cur, out) /\ cur' = <<>> /\ UNCHANGED <<mode, skip>>
      BY <1>1, <1>4, <1>5 DEF InPlain, Quote, DoubleQuote, Open, Semicolon, Dash, Slash
    <2>2. cur' \in Seq(STRING) /\ skip' \in BOOLEAN
      BY <1>2, <2>1, NoCharacters
    <2>3. Understand(token) => out' = pieces' /\ cur' = piece'
      BY <1>2, <1>5, <2>1 DEF Understand, StatementsInv, SplitsAtStatements
    <2>4. Turning => AtToken' /\ out' = pieces'
      BY <1>2, <2>1, <2>3 DEF Turning, AtToken
    <2>5. ~Going
      BY <1>1 DEF Going
    <2>6. QED
      BY <1>2, <1>4, <2>2, <2>4, <2>5, Onward
  <1>6. CASE token.kind = "word"
    <2>1. ~(Here = Dash /\ Ahead = Dash) /\ ~(Here = Slash /\ Ahead = Star)
      <3>1. CASE coming = Eof
        BY <1>1, <3>1 DEF Ahead, Nothing, Dash, Star
      <3>2. CASE coming # Eof
        BY <1>1, <1>3, <1>6, <3>2 DEF Ahead, StatementsInv, FileOK, MayFollow
      <3>3. QED
        BY <3>1, <3>2
    <2>2. Keep(Here, "plain")
      BY <1>1, <1>4, <1>6, <2>1 DEF InPlain
    <2>3. cur' = Append(cur, Here) /\ mode' = "plain" /\ UNCHANGED <<skip, out>>
      BY <2>2 DEF Keep
    <2>4. cur' \in Seq(STRING) /\ skip' \in BOOLEAN
      BY <1>2, <1>3, <2>3, AppendProperties
    <2>5. Append(piece, Here) = piece \o <<Here>>
      BY <1>2, <1>3, AppendIsConcat
    <2>6. Understand(token) => out' = pieces' /\ cur' = piece'
      BY <1>2, <1>3, <1>6, <2>3, <2>5 DEF Understand, Meaning, StatementsInv, SplitsAtStatements
    <2>7. Turning => AtToken' /\ out' = pieces'
      BY <1>2, <2>3, <2>6 DEF Turning, AtToken
    <2>8. ~Going
      BY <1>1 DEF Going
    <2>9. QED
      BY <1>2, <1>4, <2>4, <2>7, <2>8, Onward
  <1>7. QED
    BY <1>5, <1>6

LEMMA DelimitedFacts ==
  ASSUME StatementsInv, token \in Tokens, token.kind \in {"single", "double", "bracket"}
  PROVE  /\ token.text \in Seq(STRING) /\ Len(token.text) \in Nat /\ Len(token.text) >= 2
         /\ place \in 1..Len(token.text) /\ Here \in STRING /\ token # Eof
         /\ token.kind = "single" => Delimited(token.text, Quote, Quote)
         /\ token.kind = "double" => Delimited(token.text, DoubleQuote, DoubleQuote)
         /\ token.kind = "bracket" => Delimited(token.text, Open, Close)
         /\ piece \in Seq(STRING) /\ cur \in Seq(STRING) /\ out = pieces
  <1>1. WellFormed(token) /\ token # Eof
    BY TokensAssumption, TokenFacts
  <1>2. token.text \in Seq(STRING) /\ Len(token.text) \in Nat /\ Len(token.text) >= 2
    BY <1>1 DEF WellFormed, Delimited
  <1>3. place \in 1..Len(token.text)
    BY <1>1 DEF StatementsInv, FileOK
  <1>4. Here \in STRING
    BY <1>2, <1>3 DEF Here
  <1>5. QED
    BY <1>1, <1>2, <1>3, <1>4 DEF WellFormed, StatementsInv, TextOK, SplitsAtStatements

(* The first character of a literal or an identifier.                      *)
LEMMA Opens ==
  ASSUME StatementsInv, token \in Tokens, token.kind \in {"single", "double", "bracket"},
         place = 1, ScanCharacter
  PROVE  StatementsInv'
  <1>1. /\ token.text \in Seq(STRING) /\ Len(token.text) >= 2 /\ Here \in STRING /\ token # Eof
        /\ piece \in Seq(STRING) /\ cur \in Seq(STRING) /\ Here = token.text[1]
        /\ token.kind = "single" => Here = Quote
        /\ token.kind = "double" => Here = DoubleQuote
        /\ token.kind = "bracket" => Here = Open
    BY DelimitedFacts DEF Here, Delimited
  <1>2. AtToken /\ StepOn /\ ~Turning
    <2>1. AtToken
      BY <1>1 DEF StatementsInv, PlaceOK
    <2>2. place # Len(token.text)
      BY DelimitedFacts, NotSoShort, Zenon
    <2>3. QED
      BY <2>1, <2>2 DEF ScanCharacter, Turning
  <1>3. Append(piece, Here) = piece \o SubSeq(token.text, 1, 1)
    BY <1>1, SnocFirst
  <1>4. cur' = Append(piece, Here) /\ mode' = token.kind /\ skip' = FALSE /\ out' = out
    <2>1. CASE skip = FALSE
      <3>1. mode = "plain" /\ cur = piece
        BY <1>2, <2>1 DEF AtToken
      <3>2. InPlain(Here, Ahead)
        BY <2>1, <3>1 DEF ScanCharacter, Scan, InLine, InBlock, InSingle, InQuoted
      <3>3. Keep(Here, token.kind)
        BY <1>1, <3>2 DEF InPlain, Quote, DoubleQuote, Open, Semicolon, Dash, Slash
      <3>4. QED
        BY <2>1, <3>1, <3>3 DEF Keep
    <2>2. CASE skip = TRUE
      <3>1. mode = "single" /\ token.kind = "single" /\ cur = Append(piece, Quote)
        BY <1>2, <2>2 DEF AtToken
      <3>2. QED
        BY <1>1, <2>2, <3>1 DEF ScanCharacter, Scan
    <2>3. QED
      BY <2>1, <2>2 DEF StatementsInv, TextOK
  <1>5. cur' \in Seq(STRING)
    BY <1>1, <1>4, AppendProperties
  <1>6. Going => InToken'
    <2>1. Going => Held' = SubSeq(token.text, 1, 1)
      BY DEF Going, Held
    <2>2. QED
      BY <1>3, <1>4, <2>1 DEF Going, InToken, InDelimited
  <1>7. QED
    BY <1>1, <1>2, <1>4, <1>5, <1>6, Onward

(* Those that come after it, and the last.                                 *)
LEMMA Reads ==
  ASSUME StatementsInv, token \in Tokens, token.kind \in {"single", "double", "bracket"},
         place # 1, ScanCharacter
  PROVE  StatementsInv'
  <1>1. /\ token.text \in Seq(STRING) /\ Len(token.text) \in Nat /\ Len(token.text) >= 2
        /\ place \in 1..Len(token.text) /\ Here \in STRING /\ token # Eof
        /\ piece \in Seq(STRING) /\ cur \in Seq(STRING) /\ Here = token.text[place]
        /\ out = pieces
    BY DelimitedFacts DEF Here
  <1>2. mode = token.kind /\ skip = FALSE /\ cur = piece \o Held
    BY <1>1 DEF StatementsInv, PlaceOK, InToken, InDelimited
  <1>3. StepOn
    BY DEF ScanCharacter
  <1>4. Append(cur, Here) = piece \o SubSeq(token.text, 1, place)
    BY <1>1, <1>2, Snoc DEF Held
  <1>5. Append(cur, Here) \in Seq(STRING)
    BY <1>1, AppendProperties
  <1>6. CASE place < Len(token.text)
    <2>1. /\ token.kind = "single" => Here # Quote
          /\ token.kind = "double" => Here # DoubleQuote
          /\ token.kind = "bracket" => Here # Close
      BY <1>1, <1>6, DelimitedFacts DEF Delimited
    <2>2. cur' = Append(cur, Here) /\ mode' = mode /\ skip' = FALSE /\ out' = out
      BY <1>2, <2>1 DEF ScanCharacter, Scan, InLine, InBlock, InSingle, InQuoted, InPlain
    <2>3. Going => InToken'
      <3>1. Going => Held' = SubSeq(token.text, 1, place)
        BY <1>1 DEF Going, Held
      <3>2. QED
        BY <1>2, <1>4, <2>2, <3>1 DEF Going, InToken, InDelimited
    <2>4. ~Turning
      BY <1>6 DEF Turning
    <2>5. QED
      BY <1>1, <1>3, <1>5, <2>2, <2>3, <2>4, Onward
  <1>7. CASE place = Len(token.text)
    <2>1. /\ token.kind = "single" => Here = Quote
          /\ token.kind = "double" => Here = DoubleQuote
          /\ token.kind = "bracket" => Here = Close
      BY <1>1, <1>7, DelimitedFacts DEF Delimited
    <2>2. Append(cur, Here) = piece \o token.text
      BY <1>1, <1>4, <1>7, SubSeqFull
    <2>3. Turning => piece' = piece \o token.text /\ pieces' = pieces
      BY <1>2 DEF Turning, Understand, Meaning
    <2>4. ~Going
      BY <1>7 DEF Going
    <2>5. CASE token.kind = "single" /\ Ahead = Quote
      <3>1. cur' = Append(Append(cur, Here), Quote) /\ mode' = "single" /\ skip' = TRUE /\ out' = out
        BY <1>2, <2>1, <2>5 DEF ScanCharacter, Scan, InLine, InBlock, InSingle, InQuoted, InPlain
      <3>2. coming # Eof /\ coming.text[1] = Quote
        BY <1>1, <1>7, <2>5 DEF Ahead, Nothing, Quote
      <3>3. coming.kind = "single"
        BY <3>2, TokenFacts DEF StatementsInv, FileOK
      <3>4. Quote \in STRING
        BY <1>1, <2>1, <2>5
      <3>5. cur' \in Seq(STRING)
        BY <1>5, <3>1, <3>4, AppendProperties
      <3>6. Turning => AtToken' /\ out' = pieces'
        BY <1>1, <2>2, <2>3, <3>1, <3>3 DEF AtToken, Turning
      <3>7. QED
        BY <1>1, <1>3, <2>4, <3>1, <3>5, <3>6, Onward
    <2>6. CASE ~(token.kind = "single" /\ Ahead = Quote)
      <3>1. cur' = Append(cur, Here) /\ mode' = "plain" /\ skip' = FALSE /\ out' = out
        BY <1>2, <2>1, <2>6 DEF ScanCharacter, Scan, InLine, InBlock, InSingle, InQuoted, InPlain
      <3>2. Turning => AtToken' /\ out' = pieces'
        BY <1>1, <2>2, <2>3, <3>1 DEF AtToken
      <3>3. QED
        BY <1>1, <1>3, <1>5, <2>4, <3>1, <3>2, Onward
    <2>7. QED
      BY <2>5, <2>6
  <1>8. QED
    BY <1>1, <1>6, <1>7

(* A line comment: nothing is kept of it but its newline.                  *)
LEMMA Remarks ==
  ASSUME StatementsInv, token \in Tokens, token.kind = "line", ScanCharacter
  PROVE  StatementsInv'
  <1>1. /\ token.text \in Seq(STRING) /\ Len(token.text) \in Nat /\ IsLine(token.text)
        /\ place \in 1..Len(token.text) /\ Here \in STRING /\ token # Eof
        /\ piece \in Seq(STRING) /\ cur \in Seq(STRING) /\ Here = token.text[place]
        /\ out = pieces
    <2>1. WellFormed(token) /\ token # Eof
      BY TokensAssumption, TokenFacts
    <2>2. token.text \in Seq(STRING) /\ IsLine(token.text) /\ Len(token.text) \in Nat
      BY <2>1 DEF WellFormed
    <2>3. place \in 1..Len(token.text)
      BY <2>1 DEF StatementsInv, FileOK
    <2>4. QED
      BY <2>1, <2>2, <2>3 DEF Here, StatementsInv, TextOK, SplitsAtStatements
  <1>2. StepOn /\ Len(token.text) >= 2
    BY <1>1 DEF ScanCharacter, IsLine
  <1>3. token.text[Len(token.text)] # Newline => coming = Eof
    BY DEF StatementsInv, FileOK, MayFollow
  <1>4. Turning => pieces' = pieces /\ piece' = piece \o Meaning(token)
    BY DEF Turning, Understand
  <1>5. piece \o <<>> = piece
    BY <1>1, ConcatEmptySeq
  <1>6. CASE place = 1
    <2>1. mode = "plain" /\ skip = FALSE /\ cur = piece
      BY <1>1, <1>6 DEF StatementsInv, PlaceOK, AtToken
    <2>2. Here = Dash /\ Ahead = Dash
      BY <1>1, <1>2, <1>6 DEF IsLine, Ahead
    <2>3. Comment("line")
      BY <2>1, <2>2 DEF ScanCharacter, Scan, InLine, InBlock, InSingle, InQuoted, InPlain,
                        Quote, DoubleQuote, Open, Semicolon, Dash, Slash
    <2>4. mode' = "line" /\ skip' = TRUE /\ cur' = cur /\ out' = out
      BY <2>3 DEF Comment
    <2>5. Going => InToken'
      BY <1>1, <1>6, <2>1, <2>4 DEF Going, InToken, InLineComment
    <2>6. place # Len(token.text)
      BY <1>1, <1>2, <1>6, NotSoShort, Zenon
    <2>7. ~Turning
      BY <2>6 DEF Turning
    <2>8. QED
      BY <1>1, <1>2, <2>4, <2>5, <2>7, Onward
  <1>7. CASE place # 1
    <2>1. mode = "line" /\ (skip <=> place = 2) /\ cur = piece /\ skip \in BOOLEAN
      BY <1>1, <1>7 DEF StatementsInv, PlaceOK, InToken, InLineComment, TextOK
    <2>2. CASE place < Len(token.text)
      <3>1. place # 2 => Here # Newline
        BY <1>1, <1>7, <2>2 DEF IsLine
      <3>2. mode' = "line" /\ skip' = FALSE /\ cur' = cur /\ out' = out
        BY <2>1, <3>1 DEF ScanCharacter, Scan, InLine, InBlock, InSingle, InQuoted, InPlain
      <3>3. Going => InToken'
        BY <1>1, <1>7, <2>1, <3>2 DEF Going, InToken, InLineComment
      <3>4. ~Turning
        BY <2>2 DEF Turning
      <3>5. QED
        BY <1>1, <1>2, <3>2, <3>3, <3>4, Onward
    <2>3. CASE place = Len(token.text) /\ Here = Newline
      <3>1. place # 2
        BY <1>1, <2>3 DEF IsLine, Dash, Newline
      <3>2. mode' = "plain" /\ skip' = FALSE /\ cur' = Append(cur, Newline) /\ out' = out
        BY <2>1, <2>3, <3>1 DEF ScanCharacter, Scan, InLine, InBlock, InSingle, InQuoted, InPlain
      <3>3. cur' \in Seq(STRING) /\ Append(piece, Newline) = piece \o <<Newline>>
        BY <1>1, <2>3, <3>2, AppendProperties, AppendIsConcat
      <3>4. Turning => piece' = piece \o <<Newline>>
        BY <1>1, <1>4, <2>3 DEF Meaning
      <3>5. Turning => AtToken' /\ out' = pieces'
        BY <1>1, <1>4, <2>1, <3>2, <3>3, <3>4 DEF AtToken
      <3>6. ~Going
        BY <2>3 DEF Going
      <3>7. QED
        BY <1>1, <1>2, <3>2, <3>3, <3>5, <3>6, Onward
    <2>4. CASE place = Len(token.text) /\ Here # Newline
      <3>1. skip' = FALSE /\ cur' = cur /\ out' = out
        BY <2>1, <2>4 DEF ScanCharacter, Scan, InLine, InBlock, InSingle, InQuoted, InPlain
      <3>2. coming = Eof
        BY <1>1, <1>3, <2>4
      <3>3. Turning => cur' = piece' /\ out' = pieces'
        BY <1>1, <1>4, <1>5, <2>1, <2>4, <3>1 DEF Meaning
      <3>4. ~Going
        BY <2>4 DEF Going
      <3>5. QED
        BY <1>1, <1>2, <3>1, <3>2, <3>3, <3>4, Onward
    <2>5. QED
      BY <1>1, <2>2, <2>3, <2>4
  <1>8. QED
    BY <1>6, <1>7

(* A block comment: nothing is kept of it.                                 *)
LEMMA Asides ==
  ASSUME StatementsInv, token \in Tokens, token.kind = "block", ScanCharacter
  PROVE  StatementsInv'
  <1>1. /\ token.text \in Seq(STRING) /\ Len(token.text) \in Nat /\ IsBlock(token.text)
        /\ place \in 1..Len(token.text) /\ token # Eof
        /\ piece \in Seq(STRING) /\ cur \in Seq(STRING) /\ Here = token.text[place]
        /\ out = pieces
    <2>1. WellFormed(token) /\ token # Eof
      BY TokensAssumption, TokenFacts
    <2>2. token.text \in Seq(STRING) /\ IsBlock(token.text) /\ Len(token.text) \in Nat
      BY <2>1 DEF WellFormed
    <2>3. place \in 1..Len(token.text)
      BY <2>1 DEF StatementsInv, FileOK
    <2>4. QED
      BY <2>1, <2>2, <2>3 DEF Here, StatementsInv, TextOK, SplitsAtStatements
  <1>2. StepOn /\ Len(token.text) >= 4
    BY <1>1 DEF ScanCharacter, IsBlock
  <1>3. place < Len(token.text) => Ahead = token.text[place + 1]
    BY DEF Ahead
  <1>4. CASE place = 1
    <2>1. mode = "plain" /\ skip = FALSE /\ cur = piece
      BY <1>1, <1>4 DEF StatementsInv, PlaceOK, AtToken
    <2>2. Here = Slash /\ Ahead = Star
      BY <1>1, <1>2, <1>3, <1>4 DEF IsBlock
    <2>3. Comment("block")
      BY <2>1, <2>2 DEF ScanCharacter, Scan, InLine, InBlock, InSingle, InQuoted, InPlain,
                        Quote, DoubleQuote, Open, Semicolon, Dash, Slash
    <2>4. mode' = "block" /\ skip' = TRUE /\ cur' = cur /\ out' = out
      BY <2>3 DEF Comment
    <2>5. Going => InToken'
      <3>1. Going => /\ place' = 2 /\ place' # Len(token'.text) /\ token'.kind = "block"
                     /\ cur' = piece' /\ mode' = "block" /\ skip' = TRUE
        <4>1. Len(token.text) # 2
          BY <1>1, <1>2, NotSoShort, Zenon
        <4>2. QED
          BY <1>4, <2>1, <2>4, <4>1 DEF Going
      <3>2. QED
        BY <3>1 DEF InToken, InBlockComment
    <2>6. place # Len(token.text)
      BY <1>1, <1>2, <1>4, NotSoShort, Zenon
    <2>7. ~Turning
      BY <2>6 DEF Turning
    <2>8. QED
      BY <1>1, <1>2, <2>4, <2>5, <2>7, Onward
  <1>5. CASE place = Len(token.text)
    <2>1. mode = "plain" /\ skip = TRUE /\ cur = piece
      BY <1>1, <1>2, <1>5 DEF StatementsInv, PlaceOK, InToken, InBlockComment
    <2>2. mode' = "plain" /\ skip' = FALSE /\ cur' = cur /\ out' = out
      BY <2>1 DEF ScanCharacter, Scan
    <2>3. Turning => piece' = piece /\ pieces' = pieces
      BY <1>1, ConcatEmptySeq DEF Turning, Understand, Meaning
    <2>4. Turning => AtToken' /\ out' = pieces'
      BY <1>1, <2>1, <2>2, <2>3 DEF AtToken
    <2>5. ~Going
      BY <1>5 DEF Going
    <2>6. QED
      BY <1>1, <1>2, <2>2, <2>4, <2>5, Onward
  <1>6. CASE place # 1 /\ place # Len(token.text)
    <2>1. mode = "block" /\ (skip <=> place = 2) /\ cur = piece /\ skip \in BOOLEAN
      BY <1>1, <1>6 DEF StatementsInv, PlaceOK, InToken, InBlockComment, TextOK
    <2>2. place < Len(token.text) /\ ~Turning
      BY <1>1, <1>6 DEF Turning
    <2>3. Here = Star /\ Ahead = Slash /\ place # 2 <=> place = Len(token.text) - 1
      BY <1>1, <1>2, <1>3, <1>6, <2>2 DEF IsBlock
    <2>4. cur' = cur /\ out' = out
          /\ IF place = Len(token.text) - 1 THEN mode' = "plain" /\ skip' = TRUE
             ELSE mode' = "block" /\ skip' = FALSE
      BY <1>1, <1>2, <2>1, <2>3 DEF ScanCharacter, Scan, InLine, InBlock, InSingle, InQuoted, InPlain
    <2>5. Going => InToken'
      BY <1>1, <1>2, <1>6, <2>1, <2>4 DEF Going, InToken, InBlockComment
    <2>6. skip' \in BOOLEAN
      BY <2>4
    <2>7. QED
      BY <1>1, <1>2, <2>2, <2>4, <2>5, <2>6, Onward
  <1>7. QED
    BY <1>4, <1>5, <1>6

LEMMA StatementsStart == StatementsInit => StatementsInv
  <1> SUFFICES ASSUME StatementsInit PROVE StatementsInv
    OBVIOUS
  <1>1. FileOK
    <2>1. token # Eof => 1 \in 1..Len(token.text)
      BY TokenFacts DEF StatementsInit
    <2>2. QED
      BY <2>1 DEF StatementsInit, FileOK
  <1>2. TextOK
    BY NoCharacters DEF StatementsInit, TextOK
  <1>3. PlaceOK
    BY DEF StatementsInit, PlaceOK, AtToken
  <1>4. SplitsAtStatements
    BY DEF StatementsInit, SplitsAtStatements
  <1>5. QED
    BY <1>1, <1>2, <1>3, <1>4 DEF StatementsInv

LEMMA StatementsKept ==
  StatementsInv /\ [StatementsNext]_statementsVars => StatementsInv'
  <1> SUFFICES ASSUME StatementsInv, [StatementsNext]_statementsVars PROVE StatementsInv'
    OBVIOUS
  <1>1. CASE ScanCharacter
    <2>1. token \in Tokens
      BY <1>1 DEF ScanCharacter, StatementsInv, FileOK
    <2>2. QED
      BY <1>1, <2>1, TokenFacts, Words, Opens, Reads, Remarks, Asides
  <1>2. CASE EndOfFile
    <2>1. UNCHANGED <<skip, cur, token, coming, place, length, piece>> /\ token = Eof
      BY <1>2 DEF EndOfFile
    <2>2. FileOK' /\ TextOK'
      BY <2>1 DEF StatementsInv, FileOK, TextOK, MayFollow
    <2>3. cur = piece /\ out = pieces
      BY <2>1 DEF StatementsInv, PlaceOK, SplitsAtStatements
    <2>4. PlaceOK' /\ SplitsAtStatements'
      BY <1>2, <2>1, <2>3 DEF EndOfFile, PlaceOK, SplitsAtStatements
    <2>5. QED
      BY <2>2, <2>4 DEF StatementsInv
  <1>3. CASE UNCHANGED statementsVars
    BY <1>3 DEF statementsVars, scanVars, StatementsInv, FileOK, TextOK, PlaceOK, AtToken, InToken,
                InDelimited, InLineComment, InBlockComment, Held, SplitsAtStatements, MayFollow
  <1>4. QED
    BY <1>1, <1>2, <1>3 DEF StatementsNext

(* A migration file is cut just at its statements, whatever literals,      *)
(* identifiers and comments it holds, in any order and any number.         *)
THEOREM StatementsAreFound == StatementsSpec => []SplitsAtStatements
  <1>1. StatementsInv => SplitsAtStatements
    BY DEF StatementsInv
  <1>2. QED
    BY <1>1, StatementsStart, StatementsKept, PTL DEF StatementsSpec
=============================================================================
