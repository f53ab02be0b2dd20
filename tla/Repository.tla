---------------------------- MODULE Repository -----------------------------
(***************************************************************************)
(* The repository in the sandbox, its work branch at the remote and the    *)
(* pull request (internal/daytona/git.go, pushAndOpenPR of                 *)
(* internal/agent/service.go, internal/github/github.go).                  *)
(*                                                                         *)
(* A history is the set of its commits, which are numbered as they are     *)
(* made.  A script in the sandbox, a call of GitHub and a statement are    *)
(* one action each; the operator merges on GitHub, and resets the sandbox  *)
(* whether or not a run is pushing.                                        *)
(***************************************************************************)
EXTENDS Naturals, FiniteSets

CONSTANTS
  MaxCommits,   \* bound: commits ever made
  MaxPulls,     \* bound: pull requests ever opened
  MaxOutages    \* bound: calls and statements that fail, and runs that are cut off

VARIABLES
  dirty,        \* the working tree has changes
  local,        \* the commits of HEAD that the repository did not begin with
  remote,       \* [there, has]: the work branch at the remote
  base,         \* what of them the default branch has
  pull,         \* the open pull request, or 0
  pulls,        \* number of pull requests so far
  pusher,       \* [pc, found]: push_branch, and the pull request it has learnt of
  told,         \* the newest row of pushes: its pull request, 0 none
  made,         \* number of commits so far
  pushed,       \* history: commits that have been at the remote
  hitch,        \* history: something failed since the last push reached GitHub, or it
                \* never was asked
  outages

repositoryVars == <<dirty, local, remote, base, pull, pulls, pusher, told, made, pushed,
                    hitch, outages>>
sandboxVars == <<dirty, local, made>>
githubVars  == <<base, pull, pulls>>

Absent == [there |-> FALSE, has |-> {}]
NoPush == [pc |-> "idle", found |-> 0]

RepositoryInit ==
  /\ dirty = FALSE /\ local = {} /\ made = 0
  /\ remote = Absent /\ base = {} /\ pull = 0 /\ pulls = 0
  /\ pusher = NoPush /\ told = 0
  /\ pushed = {} /\ hitch = FALSE /\ outages = 0

Outage == outages < MaxOutages /\ outages' = outages + 1 /\ hitch' = TRUE

Pushing(pc) == pusher.pc = pc
PusherTo(pc) == pusher' = [pusher EXCEPT !.pc = pc]

-----------------------------------------------------------------------------
(* The sandbox.                                                            *)

EditFile ==
  /\ ~dirty /\ dirty' = TRUE
  /\ UNCHANGED <<local, made, remote, githubVars, pusher, told, pushed, hitch, outages>>

(* CommitAll: everything, or nothing when the tree is clean.               *)
CommitAll ==
  /\ dirty /\ made < MaxCommits
  /\ dirty' = FALSE /\ made' = made + 1 /\ local' = local \cup {made + 1}
  /\ UNCHANGED <<remote, githubVars, pusher, told, pushed, hitch, outages>>

(* SetupRepo, in the sandbox that a reset has made: the default branch is  *)
(* cloned, and the work branch begins where that one is, whatever the      *)
(* remote has under the name of the work branch.                           *)
SetupRepo ==
  /\ dirty' = FALSE /\ local' = base
  /\ UNCHANGED <<made, remote, githubVars, pusher, told, pushed, hitch, outages>>

-----------------------------------------------------------------------------
(* push_branch.                                                            *)

Forced == TRUE

(* git push --force-with-lease, to a URL: git has no tracking branch for   *)
(* it, so it refuses to replace any branch it finds there, and has nothing *)
(* to do when that is the same already.                                    *)
LeaseHolds == ~remote.there \/ remote.has = local

Push ==
  /\ Pushing("idle") /\ LeaseHolds
  /\ remote' = [there |-> TRUE, has |-> local] /\ pushed' = pushed \cup local
  /\ \/ pusher' = [pc |-> "ask", found |-> 0] /\ hitch' = FALSE /\ UNCHANGED outages
     \/ Outage /\ UNCHANGED pusher
  /\ UNCHANGED <<sandboxVars, githubVars, told>>

(* Without a token, or when the settings say so, no pull request is asked  *)
(* for.                                                                    *)
SkipPull ==
  /\ Pushing("ask") /\ PusherTo("record") /\ hitch' = TRUE
  /\ UNCHANGED <<sandboxVars, remote, githubVars, told, pushed, outages>>

(* GitHub opens one for a branch that is ahead, unless there is one.       *)
Acceptable == pull = 0 /\ remote.there /\ ~(remote.has \subseteq base)

Open == pulls < MaxPulls /\ pull' = pulls + 1 /\ pulls' = pulls + 1 /\ UNCHANGED base

CreatePullRequest ==
  /\ Pushing("ask")
  /\ \/ /\ Acceptable /\ Open
        /\ \/ /\ pusher' = [pc |-> "record", found |-> pull'] /\ UNCHANGED <<hitch, outages>>
           \/ Outage /\ PusherTo("record")
     \/ /\ ~Acceptable /\ UNCHANGED <<githubVars, hitch, outages>>
        /\ PusherTo("find")
     \/ Outage /\ UNCHANGED githubVars /\ PusherTo("record")
  /\ UNCHANGED <<sandboxVars, remote, told, pushed>>

GiveUp == 0

(* findOpenPullRequest: the first of those that are open, if any.          *)
OpenPullRequest == pull

FindPullRequest ==
  /\ Pushing("find")
  /\ \/ pusher' = [pc |-> "record", found |-> OpenPullRequest] /\ UNCHANGED <<hitch, outages>>
     \/ Outage /\ PusherTo("record")
  /\ UNCHANGED <<sandboxVars, remote, githubVars, told, pushed>>

(* recordPush, whose failure is ignored.                                   *)
RecordPush ==
  /\ Pushing("record") /\ pusher' = NoPush
  /\ \/ told' = pusher.found /\ UNCHANGED <<hitch, outages>>
     \/ Outage /\ UNCHANGED told
  /\ UNCHANGED <<sandboxVars, remote, githubVars, pushed>>

(* The run is cancelled, or the process dies.                              *)
PushCutOff ==
  /\ ~Pushing("idle") /\ Outage /\ pusher' = NoPush
  /\ UNCHANGED <<sandboxVars, remote, githubVars, told, pushed>>

-----------------------------------------------------------------------------
(* The operator merges, and may have GitHub delete the branch.             *)
MergePull ==
  /\ pull # 0 /\ remote.there
  /\ base' = base \cup remote.has /\ pull' = 0
  /\ remote' \in {remote, Absent}
  /\ UNCHANGED <<sandboxVars, pulls, pusher, told, pushed, hitch, outages>>

RepositoryNext ==
  \/ EditFile \/ CommitAll \/ SetupRepo
  \/ Push \/ SkipPull \/ CreatePullRequest \/ FindPullRequest \/ RecordPush \/ PushCutOff
  \/ MergePull

RepositorySpec == RepositoryInit /\ [][RepositoryNext]_repositoryVars

-----------------------------------------------------------------------------
(* Properties.                                                             *)

(* What has been pushed is never lost again: it stays on the work branch of*)
(* the remote, or is on the default branch, however often the sandbox is   *)
(* reset to a branch that does not have it.                                *)
PushedWorkStays == pushed \subseteq remote.has \cup base

(* An open pull request is named by the newest row of pushes, whichever of *)
(* several pushes has opened it, unless one of the calls or statements that*)
(* tell of it failed, or it was not asked for.                             *)
PullRequestIsKnown == Pushing("idle") /\ pull # 0 => told = pull \/ hitch
=============================================================================
