----------------------------- MODULE Accounts ------------------------------
(***************************************************************************)
(* Signing in: the operator's password and the sessions                    *)
(* (internal/auth/auth.go, handlers_auth.go), the limiter of failed        *)
(* attempts (internal/auth/ratelimit.go), and what a boot does with them   *)
(* (internal/bootstrap/bootstrap.go).                                      *)
(*                                                                         *)
(* Passwords are numbered by the changes that set them, 0 the default one. *)
(* One key of the limiter stands for all, and time is the age of its       *)
(* window.                                                                 *)
(***************************************************************************)
EXTENDS Naturals, FiniteSets

CONSTANTS
  Visitors,     \* sign-ins and password changes under way at once
  MaxFailures,  \* NewLoginLimiter's max
  Window,       \* ... and its window, in ticks
  MaxChanges,   \* bound: password changes and break-glass resets
  MaxSessions,  \* bound: sessions ever created
  MaxLapses     \* bound: failing statements and crashes

ASSUME AccountsAssumption ==
  IsFiniteSet(Visitors) /\ MaxFailures \in Nat \ {0} /\ Window \in Nat

VARIABLES
  password,     \* the current password of the users table, and their number so far
  sessions,     \* the sessions table: [id, password] it was issued against
  visitors,     \* [pc, password]: a request, and the password it was verified against
  limiter,      \* the record of the key, [count, age], or NoRecord
  issued,       \* number of sessions created
  spared,       \* history: sessions that outlived a password change, for a reason
  lapses

accountVars == <<password, sessions, visitors, limiter, issued, spared, lapses>>

NoRecord == [count |-> 0, age |-> Window]
NoVisitor == [pc |-> "idle", password |-> 0]

(* EnsureDefaultUser has run: there is one user, with the default password.*)
AccountsInit ==
  /\ password = [now |-> 0, made |-> 0]
  /\ sessions = {} /\ issued = 0 /\ spared = {}
  /\ visitors = [v \in Visitors |-> NoVisitor]
  /\ limiter = NoRecord /\ lapses = 0

Visit(v, pc) == visitors' = [visitors EXCEPT ![v].pc = pc]
Depart(v) == visitors' = [visitors EXCEPT ![v] = NoVisitor]
Lapse == lapses < MaxLapses /\ lapses' = lapses + 1

-----------------------------------------------------------------------------
(* The limiter; each of its methods is one critical section.               *)

WindowOver == limiter.age >= Window

AllowOneMore == limiter.count <= MaxFailures

UnderLimit == limiter.count < MaxFailures

(* Allow drops a record whose window has passed.                           *)
Allow(v) ==
  /\ visitors[v].pc = "idle"
  /\ WindowOver \/ UnderLimit
  /\ limiter' = IF WindowOver THEN NoRecord ELSE limiter
  /\ Visit(v, "verify")
  /\ UNCHANGED <<password, sessions, issued, spared, lapses>>

CountFailure(v) ==
  /\ visitors[v].pc = "failed"
  /\ limiter' = IF WindowOver THEN [count |-> 1, age |-> 0]
                ELSE [limiter EXCEPT !.count = @ + 1]
  /\ Depart(v)
  /\ UNCHANGED <<password, sessions, issued, spared, lapses>>

Tick ==
  /\ limiter.age < Window
  /\ limiter' = [limiter EXCEPT !.age = @ + 1]
  /\ UNCHANGED <<password, sessions, visitors, issued, spared, lapses>>

-----------------------------------------------------------------------------
(* Login: the password that was typed is right, or it is not (or the look- *)
(* up fails, which counts as a failure too).                               *)
Verify(v) ==
  /\ visitors[v].pc = "verify"
  /\ \/ visitors' = [visitors EXCEPT ![v] = [pc |-> "verified", password |-> password.now]]
     \/ Visit(v, "failed")
  /\ UNCHANGED <<password, sessions, limiter, issued, spared, lapses>>

CreateSession(v) ==
  /\ visitors[v].pc = "verified"
  /\ \/ /\ issued < MaxSessions /\ issued' = issued + 1
        /\ sessions' = sessions \cup {[id |-> issued + 1, password |-> visitors[v].password]}
        /\ spared' = IF visitors[v].password = password.now THEN spared
                     ELSE spared \cup {issued + 1}
        /\ Visit(v, "reset") /\ UNCHANGED lapses
     \/ Lapse /\ Depart(v) /\ UNCHANGED <<issued, sessions, spared>>
  /\ UNCHANGED <<password, limiter>>

ResetLimiter(v) ==
  /\ visitors[v].pc = "reset" /\ limiter' = NoRecord /\ Depart(v)
  /\ UNCHANGED <<password, sessions, issued, spared, lapses>>

(* Logout, and a session that Authenticate or a boot finds expired.        *)
DeleteSession(s) ==
  /\ s \in sessions /\ sessions' = sessions \ {s}
  /\ UNCHANGED <<password, visitors, limiter, issued, spared, lapses>>

-----------------------------------------------------------------------------
(* ChangePassword, by a session: the current password is verified, ...     *)
BeginChange(v) ==
  /\ visitors[v].pc = "idle" /\ sessions # {}
  /\ visitors' = [visitors EXCEPT ![v] = [pc |-> "update", password |-> password.now]]
  /\ UNCHANGED <<password, sessions, limiter, issued, spared, lapses>>

(* ... the new one stored, whatever the current one is by now, ...         *)
UpdatePassword(v) ==
  /\ visitors[v].pc = "update"
  /\ \/ /\ password.made < MaxChanges
        /\ password' = [now |-> password.made + 1, made |-> password.made + 1]
        /\ Visit(v, "revoke") /\ UNCHANGED lapses
     \/ Lapse /\ Depart(v) /\ UNCHANGED password
  /\ UNCHANGED <<sessions, limiter, issued, spared>>

RevokeOthers == \E s \in sessions : sessions' = {s}

DeleteAllSessions == sessions' = {}

(* ... and every session revoked, in a statement of its own.               *)
Revoke(v) ==
  /\ visitors[v].pc = "revoke" /\ Depart(v)
  /\ \/ DeleteAllSessions /\ UNCHANGED <<spared, lapses>>
     \/ /\ Lapse /\ UNCHANGED sessions
        /\ spared' = spared \cup {s.id : s \in sessions}
  /\ UNCHANGED <<password, limiter, issued>>

(* A restart forgets the requests and the limiter.  With DOOT_RESET_ADMIN  *)
(* it restores the default password and drops the sessions, in one         *)
(* transaction.                                                            *)
ForgetRequests ==
  /\ visitors' = [v \in Visitors |-> NoVisitor] /\ limiter' = NoRecord
  /\ UNCHANGED issued

RestartPlain ==
  /\ Lapse /\ ForgetRequests
  /\ spared' = IF \E v \in Visitors : visitors[v].pc = "revoke"
               THEN spared \cup {s.id : s \in sessions} ELSE spared
  /\ UNCHANGED <<password, sessions>>

ResetDefaultUser ==
  /\ Lapse /\ ForgetRequests
  /\ password' = [password EXCEPT !.now = 0] /\ DeleteAllSessions
  /\ UNCHANGED spared

AccountsNext ==
  \/ \E v \in Visitors : \/ Allow(v) \/ Verify(v) \/ CountFailure(v)
                         \/ CreateSession(v) \/ ResetLimiter(v)
                         \/ BeginChange(v) \/ UpdatePassword(v) \/ Revoke(v)
  \/ \E s \in sessions : DeleteSession(s)
  \/ Tick \/ RestartPlain \/ ResetDefaultUser

AccountsSpec == AccountsInit /\ [][AccountsNext]_accountVars

-----------------------------------------------------------------------------
(* Properties.                                                             *)

(* No session outlives the password it was issued against, except while    *)
(* the change is still to revoke, after a revocation that failed or died,  *)
(* or when a sign-in had verified the old password and had yet to create   *)
(* its session.                                                            *)
ChangeRevokes ==
  \/ \E v \in Visitors : visitors[v].pc = "revoke"
  \/ \A s \in sessions : s.password = password.now \/ s.id \in spared

(* Within a window the counter passes the maximum by no more than the      *)
(* attempts that were allowed before it got there.                         *)
FailuresAreBounded ==
  ~WindowOver => limiter.count + Cardinality({v \in Visitors : visitors[v].pc = "failed"})
                <= MaxFailures + Cardinality(Visitors) - 1
=============================================================================
