------------------------------- MODULE Accounts -------------------------------
(***************************************************************************)
(* The consultants' accounts and sessions: AuthService                     *)
(* (internal/service/auth.go), its tables (internal/repository/admin.go),  *)
(* the middleware in front of every request (handler/admin/admin.go) and   *)
(* the administrator's requests (handler/admin/crm.go).                    *)
(*                                                                         *)
(* Every request is a sequence of statements, and the statements of        *)
(* different requests interleave. A password is the number of the change   *)
(* that set it, 0 none that ever was right. Time passes by itself: a       *)
(* session runs out, a lock and the window of the attempts lapse. All      *)
(* requests come from one address, and any of them may carry the cookie of *)
(* any session. Names and roles, which no other statement depends on, do   *)
(* not change; the CSRF token and the cookies' attributes are left out.    *)
(***************************************************************************)
EXTENDS Naturals, FiniteSets

CONSTANTS Requests,      \* the requests that may be under way at once
          Accounts,
          Admins,        \* the accounts with the administrator's role
          Root,          \* the account EnsureBootstrapAdmin creates
          MaxAttempts,   \* logins of one address in a window; 10 in the code
          Threshold,     \* failures that lock an account; 8 in the code
          Careless,      \* bound: whose password is mistyped and changed
          MaxSessions,   \* bound: sessions ever issued
          MaxPasswords,  \* bound: passwords of an account
          MaxFaults      \* bound: failed statements

ASSUME AccountsAssumption ==
  /\ IsFiniteSet(Requests) /\ Requests # {}
  /\ Root \in Admins /\ Admins \subseteq Accounts /\ Careless \subseteq Accounts
  /\ MaxAttempts \in Nat \ {0} /\ Threshold \in Nat \ {0}
  /\ MaxSessions \in Nat /\ MaxPasswords \in Nat \ {0} /\ MaxFaults \in Nat
  /\ Requests \cap (1 .. MaxSessions) = {}

VARIABLES
  account,   \* admin_users
  sessions,  \* admin_sessions, by the order in which they were issued
  issued,    \* how many sessions there have been
  attempts,  \* login_attempts of the address within the window
  req,       \* each request
  faults,
  \* history
  guesses,   \* wrong passwords tried since the account was last open again
  stale      \* logins and sessions that were under way when sessions were dropped

vars == <<account, sessions, issued, attempts, req, faults, guesses, stale>>
history == <<guesses, stale>>

Ids == 1 .. MaxSessions
Passwords == 0 .. MaxPasswords

NoSession == [owner |-> Root, password |-> 0, expired |-> FALSE, live |-> FALSE]

\* off, history: the account has been disabled ever since the request began.
Request(step, a, p, id) ==
  [pc |-> step, account |-> a, password |-> p, session |-> id, target |-> Root,
   off |-> FALSE]
NoRequest == Request("idle", Root, 0, 0)

\* An account nobody created has password 0; RecordLoginFailure counts on, and
\* only whether the count has reached the threshold matters.
NewAccount == [password |-> 1, active |-> TRUE, failed |-> 0, locked |-> FALSE]
NoAccount == [NewAccount EXCEPT !.password = 0, !.active = FALSE]

TypeOK ==
  /\ account \in [Accounts -> [password: Passwords, active: BOOLEAN,
                               failed: 0 .. Threshold, locked: BOOLEAN]]
  /\ sessions \in [Ids -> [owner: Accounts, password: Passwords,
                           expired: BOOLEAN, live: BOOLEAN]]
  /\ issued \in 0 .. MaxSessions
  /\ attempts \in Nat
  /\ req \in [Requests ->
       [pc: {"idle", "note", "account", "verify", "fail", "success", "clear", "issue",
             "owner", "expired", "touch", "serve", "set", "drop"},
        account: Accounts, password: Passwords, session: 0 .. MaxSessions,
        target: Accounts, off: BOOLEAN]]
  /\ faults \in 0 .. MaxFaults
  /\ guesses \in [Accounts -> Nat]
  /\ stale \in SUBSET (Requests \cup Ids)

Init ==
  /\ account = [a \in Accounts |-> IF a = Root THEN NewAccount ELSE NoAccount]
  /\ sessions = [id \in Ids |-> NoSession]
  /\ issued = 0 /\ attempts = 0
  /\ req = [b \in Requests |-> NoRequest]
  /\ faults = 0
  /\ guesses = [a \in Accounts |-> 0]
  /\ stale = {}

-----------------------------------------------------------------------------

Goto(b, step) == req' = [req EXCEPT ![b].pc = step]
Return(b) == req' = [req EXCEPT ![b] = NoRequest]

Fault == faults < MaxFaults /\ faults' = faults + 1

-----------------------------------------------------------------------------
(* Login *)

Exists(a) == account[a].password # 0

\* Seeded fault: the attempt that reaches the limit is let through.
MayTryOnceMore == attempts <= MaxAttempts

MayTry == attempts < MaxAttempts

\* CountLoginAttempts; a request over the limit is turned away. The password is right,
\* for now, or is not: one that was right before is as good as one that never was.
Login(b, a, p) ==
  /\ req[b].pc = "idle"
  /\ MayTry
  /\ p = account[a].password \/ (p = 0 /\ a \in Careless)
  /\ req' = [req EXCEPT ![b] = Request("note", a, p, 0)]
  /\ UNCHANGED <<account, sessions, issued, attempts, faults, history>>

\* The attempt is noted; when that fails the login goes on.
Note(b) ==
  /\ req[b].pc = "note"
  /\ \/ attempts' = attempts + 1 /\ UNCHANGED faults
     \/ Fault /\ UNCHANGED attempts
  /\ Goto(b, "account")
  /\ UNCHANGED <<account, sessions, issued, history>>

\* GetAdminByEmail: an unknown, a disabled and a locked account end the login.
LoadAccount(b) ==
  LET a == req[b].account IN
  /\ req[b].pc = "account"
  /\ IF Exists(a) /\ account[a].active /\ ~account[a].locked
       THEN Goto(b, "verify")
       ELSE Return(b)
  /\ UNCHANGED <<account, sessions, issued, attempts, faults, history>>

\* Credentials, and the comparison with what was loaded.
Verify(b) ==
  LET a == req[b].account IN
  /\ req[b].pc = "verify"
  /\ IF req[b].password = account[a].password
       THEN Goto(b, "success") /\ UNCHANGED guesses
       ELSE Goto(b, "fail") /\ guesses' = [guesses EXCEPT ![a] = @ + 1]
  /\ UNCHANGED <<account, sessions, issued, attempts, faults, stale>>

\* RecordLoginFailure.
Failed(r) ==
  [r EXCEPT !.failed = IF @ < Threshold THEN @ + 1 ELSE @,
            !.locked = @ \/ r.failed + 1 >= Threshold]

NoteFailure(b) ==
  /\ req[b].pc = "fail"
  /\ \/ account' = [account EXCEPT ![req[b].account] = Failed(@)] /\ UNCHANGED faults
     \/ Fault /\ UNCHANGED account
  /\ Return(b)
  /\ UNCHANGED <<sessions, issued, attempts, history>>

\* RecordLoginSuccess opens the account, whoever locked it meanwhile.
Open(r) == [r EXCEPT !.failed = 0, !.locked = FALSE]

NoteSuccess(b) ==
  LET a == req[b].account IN
  /\ req[b].pc = "success"
  /\ \/ /\ account' = [account EXCEPT ![a] = Open(@)]
        /\ guesses' = [guesses EXCEPT ![a] = 0]
        /\ UNCHANGED faults
     \/ Fault /\ UNCHANGED <<account, guesses>>
  /\ Goto(b, "clear")
  /\ UNCHANGED <<sessions, issued, attempts, stale>>

ClearAttempts(b) ==
  /\ req[b].pc = "clear"
  /\ \/ attempts' = 0 /\ UNCHANGED faults
     \/ Fault /\ UNCHANGED attempts
  /\ Goto(b, "issue")
  /\ UNCHANGED <<account, sessions, issued, history>>

\* CreateSession.
Issue(b) ==
  LET id == issued + 1 IN
  /\ req[b].pc = "issue"
  /\ issued < MaxSessions
  /\ issued' = id
  /\ sessions' = [sessions EXCEPT ![id] =
                    [owner |-> req[b].account, password |-> req[b].password,
                     expired |-> FALSE, live |-> TRUE]]
  /\ stale' = IF b \in stale THEN (stale \ {b}) \cup {id} ELSE stale
  /\ Return(b)
  /\ UNCHANGED <<account, attempts, faults, guesses>>

-----------------------------------------------------------------------------
(* Every other request: Authenticate, then the handler *)

\* GetSession: a session that is not there ends the request at once. What the
\* request is for is chosen once it is served, nothing before depends on it.
Begin(b, id) ==
  /\ req[b].pc = "idle"
  /\ sessions[id].live
  /\ req' = [req EXCEPT ![b] =
               [Request(IF sessions[id].expired THEN "expired" ELSE "owner",
                        sessions[id].owner, 0, id)
                EXCEPT !.off = ~account[sessions[id].owner].active]]
  /\ UNCHANGED <<account, sessions, issued, attempts, faults, history>>

Without(ids) == [id \in Ids |-> IF id \in ids THEN NoSession ELSE sessions[id]]

DropExpired(b) ==
  /\ req[b].pc = "expired"
  /\ \/ sessions' = Without({req[b].session}) /\ UNCHANGED faults
     \/ Fault /\ UNCHANGED sessions
  /\ Return(b)
  /\ UNCHANGED <<account, issued, attempts, history>>

\* Seeded fault: the middleware trusts the session.
MayActAlways(a) == TRUE

MayAct(a) == account[a].active

CheckOwner(b) ==
  /\ req[b].pc = "owner"
  /\ IF MayAct(req[b].account)
       THEN Goto(b, "touch")
       ELSE Return(b)
  /\ UNCHANGED <<account, sessions, issued, attempts, faults, history>>

\* The expiry slides when the last request was a minute ago, on a session that
\* is still there.
Touch(b) ==
  LET id == req[b].session IN
  /\ req[b].pc = "touch"
  /\ sessions' \in {sessions, [sessions EXCEPT ![id].expired = FALSE]}
  /\ Goto(b, "serve")
  /\ UNCHANGED <<account, issued, attempts, faults, history>>

Serving(b) == req[b].pc = "serve"

\* A handler that changes none of this, or that says no: a password that is wrong
\* or too weak, a role that may not.
Visit(b) ==
  /\ Serving(b)
  /\ Return(b)
  /\ UNCHANGED <<account, sessions, issued, attempts, faults, history>>

Logout(b) ==
  /\ Serving(b)
  /\ \/ sessions' = Without({req[b].session}) /\ UNCHANGED faults
     \/ Fault /\ UNCHANGED sessions
  /\ Return(b)
  /\ UNCHANGED <<account, issued, attempts, history>>

\* The next statement is SetPassword.
ThenSet(b, a) ==
  /\ req' = [req EXCEPT ![b].pc = "set", ![b].target = a]
  /\ UNCHANGED <<account, sessions, issued, attempts, faults, history>>

\* ChangePassword of somebody who knew the current one when it was loaded.
ChangePassword(b) == Serving(b) /\ ThenSet(b, req[b].account)

Administers(b) == Serving(b) /\ req[b].account \in Admins

\* ResetPassword by an administrator.
ResetPassword(b, a) == Administers(b) /\ Exists(a) /\ ThenSet(b, a)

CreateAccount(b, a) ==
  /\ Administers(b) /\ ~Exists(a)
  /\ account' = [account EXCEPT ![a] = NewAccount]
  /\ Return(b)
  /\ UNCHANGED <<sessions, issued, attempts, faults, history>>

\* SetAdminActive.
Enable(b, a) ==
  /\ Administers(b) /\ Exists(a)
  /\ account' = [account EXCEPT ![a].active = TRUE]
  /\ req' = [x \in Requests |->
               IF x = b THEN NoRequest ELSE [req[x] EXCEPT !.off = @ /\ req[x].account # a]]
  /\ UNCHANGED <<sessions, issued, attempts, faults, history>>

Disable(b, a) ==
  /\ Administers(b) /\ Exists(a)
  /\ account' = [account EXCEPT ![a].active = FALSE]
  /\ req' = [req EXCEPT ![b].pc = "drop", ![b].target = a]
  /\ UNCHANGED <<sessions, issued, attempts, faults, history>>

\* SetPassword opens the account as well.
SetPassword(b) ==
  LET a == req[b].target IN
  /\ req[b].pc = "set"
  /\ a \in Careless /\ account[a].password < MaxPasswords
  /\ account' = [account EXCEPT ![a] =
                    [Open(account[a]) EXCEPT !.password = account[a].password + 1]]
  /\ guesses' = [guesses EXCEPT ![a] = 0]
  /\ Goto(b, "drop")
  /\ UNCHANGED <<sessions, issued, attempts, faults, stale>>

SessionsOf(a) == {id \in Ids : sessions[id].live /\ sessions[id].owner = a}

\* Logins that have verified the password and will still get their session.
Entering(a) ==
  {b \in Requests : req[b].account = a /\ req[b].pc \in {"success", "clear", "issue"}}

\* Seeded fault: only the session of the request itself is dropped.
OwnSession(b) == {req[b].session}

\* DeleteSessionsForAdmin.
Dropped(b) == SessionsOf(req[b].target)

DropSessions(b) ==
  /\ req[b].pc = "drop"
  /\ sessions' = Without(Dropped(b))
  /\ stale' = stale \cup Entering(req[b].target)
  /\ Return(b)
  /\ UNCHANGED <<account, issued, attempts, faults, guesses>>

\* A statement fails, or the browser hangs up: the request ends where it is.
Cut(b) ==
  /\ req[b].pc \notin {"idle", "note", "fail", "success", "clear", "expired"}
  /\ Fault
  /\ stale' = IF req[b].pc = "drop"
                THEN stale \cup SessionsOf(req[b].target) \cup Entering(req[b].target)
                ELSE stale \ {b}
  /\ Return(b)
  /\ UNCHANGED <<account, sessions, issued, attempts, guesses>>

-----------------------------------------------------------------------------
(* Time, and the janitor *)

Expire(id) ==
  /\ sessions[id].live /\ ~sessions[id].expired
  /\ sessions' = [sessions EXCEPT ![id].expired = TRUE]
  /\ UNCHANGED <<account, issued, attempts, req, faults, history>>

LockLapses(a) ==
  /\ account[a].locked
  /\ account' = [account EXCEPT ![a].locked = FALSE]
  /\ guesses' = [guesses EXCEPT ![a] = 0]
  /\ UNCHANGED <<sessions, issued, attempts, req, faults, stale>>

AttemptLapses ==
  /\ attempts > 0
  /\ attempts' = attempts - 1
  /\ UNCHANGED <<account, sessions, issued, req, faults, history>>

Prune ==
  /\ sessions' = Without({id \in Ids : sessions[id].expired})
  /\ UNCHANGED <<account, issued, attempts, req, faults, history>>

-----------------------------------------------------------------------------

LoginStep(b) ==
  \/ \E a \in Accounts, p \in Passwords : Login(b, a, p)
  \/ Note(b) \/ LoadAccount(b) \/ Verify(b) \/ NoteFailure(b)
  \/ NoteSuccess(b) \/ ClearAttempts(b) \/ Issue(b)

RequestStep(b) ==
  \/ \E id \in Ids : Begin(b, id)
  \/ DropExpired(b) \/ CheckOwner(b) \/ Touch(b)
  \/ Visit(b) \/ Logout(b) \/ ChangePassword(b)
  \/ \E a \in Accounts :
       CreateAccount(b, a) \/ Enable(b, a) \/ Disable(b, a) \/ ResetPassword(b, a)
  \/ SetPassword(b) \/ DropSessions(b) \/ Cut(b)

Next ==
  \/ \E b \in Requests : LoginStep(b) \/ RequestStep(b)
  \/ \E id \in Ids : Expire(id)
  \/ \E a \in Accounts : LockLapses(a)
  \/ AttemptLapses
  \/ Prune

Spec == Init /\ [][Next]_vars

-----------------------------------------------------------------------------
(* Properties *)

\* Once a changed password is in force and the sessions were dropped, a session
\* that goes back to an older one belongs to a login that had already verified it
\* at that moment, or the dropping failed (ChangePassword: "a password change must
\* log out any stolen session immediately").
OldPasswordEndsSessions ==
  \A id \in Ids :
    sessions[id].live /\ sessions[id].password < account[sessions[id].owner].password =>
      \/ id \in stale
      \/ \E b \in Requests : req[b].pc = "drop" /\ req[b].target = sessions[id].owner

\* No request is served for an account that was disabled before the request began
\* and not enabled since, whatever sessions survived (Authenticate).
DisabledIsRefused == \A b \in Requests : req[b].pc = "serve" => ~req[b].off

\* What parallel logins add to the two limits is at most one attempt each: the
\* counts are read before and written after, by every login that is under way
\* (Login, RecordLoginFailure).
LimitsHold ==
  /\ attempts <= MaxAttempts + Cardinality(Requests) - 1
  /\ \A a \in Accounts :
       guesses[a] <= Threshold + Cardinality(Requests) - 1 + faults

=============================================================================
