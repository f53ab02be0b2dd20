----------------------------- MODULE Workbench ------------------------------
(***************************************************************************)
(* What the agent works with, for one run of TLC: the sandbox (Project),   *)
(* its desktop (Desktop) and repository (Repository), the conversation     *)
(* (Conversation), the plans (Plans), the model (ModelCalls) and the       *)
(* subagents it asks (Subagents).                                          *)
(*                                                                         *)
(* Each of them is explored by itself: a behaviour takes one part, and the *)
(* others stay as they began.  What holds here holds of each module, and   *)
(* the state space is the sum of theirs.                                   *)
(***************************************************************************)
EXTENDS Project, Desktop, Repository, Conversation, Plans, ModelCalls, Subagents

VARIABLE part      \* the module this behaviour is about

vars == <<part, projectVars, desktopVars, repositoryVars, conversationVars, plansVars,
          modelVars, subagentVars>>

Init ==
  /\ part \in {"project", "desktop", "repository", "conversation", "plans", "model", "subagents"}
  /\ ProjectInit /\ DesktopInit /\ RepositoryInit
  /\ ConversationInit /\ PlansInit /\ ModelInit /\ SubagentsInit

Next ==
  /\ UNCHANGED part
  /\ \/ /\ part = "project" /\ ProjectNext
        /\ UNCHANGED <<desktopVars, repositoryVars, conversationVars,
                       plansVars, modelVars, subagentVars>>
     \/ /\ part = "desktop" /\ DesktopNext
        /\ UNCHANGED <<projectVars, repositoryVars, conversationVars,
                       plansVars, modelVars, subagentVars>>
     \/ /\ part = "repository" /\ RepositoryNext
        /\ UNCHANGED <<projectVars, desktopVars, conversationVars,
                       plansVars, modelVars, subagentVars>>
     \/ /\ part = "conversation" /\ ConversationNext
        /\ UNCHANGED <<projectVars, desktopVars, repositoryVars,
                       plansVars, modelVars, subagentVars>>
     \/ /\ part = "plans" /\ PlansNext
        /\ UNCHANGED <<projectVars, desktopVars, repositoryVars,
                       conversationVars, modelVars, subagentVars>>
     \/ /\ part = "model" /\ ModelNext
        /\ UNCHANGED <<projectVars, desktopVars, repositoryVars,
                       conversationVars, plansVars, subagentVars>>
     \/ /\ part = "subagents" /\ SubagentsNext
        /\ UNCHANGED <<projectVars, desktopVars, repositoryVars,
                       conversationVars, plansVars, modelVars>>

Spec == Init /\ [][Next]_vars
=============================================================================
