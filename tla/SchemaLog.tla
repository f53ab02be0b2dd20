----------------------------- MODULE SchemaLog -----------------------------
(***************************************************************************)
(* What the migrations promise whoever reads the database: its schema is   *)
(* made by the files in their order, each in one step with the record that *)
(* it was applied, and neither is ever changed afterwards.  It is the      *)
(* promise of the one transaction of applyMigration and of the primary key *)
(* of schema_migrations (internal/db/migrate.go:194-207), without machines,*)
(* locks, retries and lost answers.                                        *)
(***************************************************************************)
EXTENDS Naturals, Sequences

CONSTANTS
  Files,    \* number of files
  Length,   \* number of statements in a file
  Texts     \* the texts a file can have, by their checksums

VARIABLES
  texts,    \* the text of each file that was applied, or 0
  effects   \* the statements that took effect: [version, statement], in order

Init == texts = [v \in 1..Files |-> 0] /\ effects = <<>>

Statements(v) == [i \in 1..Length |-> [version |-> v, statement |-> i]]

(* The next file, all of it.                                               *)
Apply(v, text) ==
  /\ texts[v] = 0 /\ \A w \in 1..(v - 1) : texts[w] # 0
  /\ texts' = [texts EXCEPT ![v] = text]
  /\ effects' = effects \o Statements(v)

Next == \E v \in 1..Files, text \in Texts : Apply(v, text)

Spec == Init /\ [][Next]_<<texts, effects>>
=============================================================================
