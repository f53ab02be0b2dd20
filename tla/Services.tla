------------------------------ MODULE Services ------------------------------
(***************************************************************************)
(* What surrounds the agent, for one run of TLC: a boot that migrates      *)
(* (Migrations, Statements), the settings (Settings), signing in           *)
(* (Accounts), the heartbeat (Heartbeat), and what must come to pass of    *)
(* the sandbox (Project).                                                  *)
(*                                                                         *)
(* As in Workbench, a behaviour takes one part and the others stay as they *)
(* began.  A part that is not taken owes no step.                          *)
(***************************************************************************)
EXTENDS Migrations, Statements, Settings, Accounts, Heartbeat, Project

(* Tokens that hide what another one is made of, for Statements.           *)
Hiding ==
  {[kind |-> "word", text |-> <<c>>] : c \in {"a", Space, Dash, Slash}} \cup
  {[kind |-> "end",     text |-> <<Semicolon>>],
   [kind |-> "single",  text |-> <<Quote, Semicolon, Quote>>],
   [kind |-> "double",  text |-> <<DoubleQuote, Semicolon, Quote, DoubleQuote>>],
   [kind |-> "bracket", text |-> <<Open, Dash, Dash, Semicolon, Close>>],
   [kind |-> "line",    text |-> <<Dash, Dash, Quote, Semicolon, Newline>>],
   [kind |-> "line",    text |-> <<Dash, Dash, Semicolon>>],
   [kind |-> "block",   text |-> <<Slash, Star, Dash, Dash, Semicolon, Star, Slash>>]}

VARIABLE part      \* the module this behaviour is about

vars == <<part, migrationVars, statementsVars, settingsVars, accountVars, heartbeatVars, projectVars>>

Init ==
  /\ part \in {"migrations", "statements", "settings", "accounts", "heartbeat", "project"}
  /\ MigrationsInit /\ (part # "migrations" => edited = {})
  /\ StatementsInit /\ (part # "statements" => token = Eof)
  /\ SettingsInit /\ AccountsInit /\ HeartbeatInit /\ ProjectInit

Next ==
  /\ UNCHANGED part
  /\ \/ /\ part = "migrations" /\ MigrationsNext
        /\ UNCHANGED <<statementsVars, settingsVars, accountVars, heartbeatVars, projectVars>>
     \/ /\ part = "statements" /\ StatementsNext
        /\ UNCHANGED <<migrationVars, settingsVars, accountVars, heartbeatVars, projectVars>>
     \/ /\ part = "settings" /\ SettingsNext
        /\ UNCHANGED <<migrationVars, statementsVars, accountVars, heartbeatVars, projectVars>>
     \/ /\ part = "accounts" /\ AccountsNext
        /\ UNCHANGED <<migrationVars, statementsVars, settingsVars, heartbeatVars, projectVars>>
     \/ /\ part = "heartbeat" /\ HeartbeatNext
        /\ UNCHANGED <<migrationVars, statementsVars, settingsVars, accountVars, projectVars>>
     \/ /\ part = "project" /\ ProjectNext
        /\ UNCHANGED <<migrationVars, statementsVars, settingsVars, accountVars, heartbeatVars>>

Fairness ==
  /\ \A m \in Machines : WF_migrationVars(part = "migrations" /\ MachineStep(m))
  /\ WatchedFairness

Spec == Init /\ [][Next]_vars /\ Fairness
=============================================================================
