--------------------------- MODULE Accounts_proofs ---------------------------
(***************************************************************************)
(* What Accounts guarantees for any number of requests and accounts, any   *)
(* limits, and however many statements fail.                               *)
(***************************************************************************)
EXTENDS Accounts, FiniteSetTheorems, TLAPS

Steps == {"idle", "note", "account", "verify", "fail", "success", "clear", "issue",
          "owner", "expired", "touch", "serve", "set", "drop"}

AccountType == [password: Passwords, active: BOOLEAN, failed: 0 .. Threshold,
                locked: BOOLEAN]
SessionType == [owner: Accounts, password: Passwords, expired: BOOLEAN, live: BOOLEAN]
RequestType == [pc: Steps, account: Accounts, password: Passwords,
                session: 0 .. MaxSessions, target: Accounts, off: BOOLEAN]

AccountInv == account \in [Accounts -> AccountType]
SessionInv == sessions \in [Ids -> SessionType]
RequestInv == req \in [Requests -> RequestType]

CountInv ==
  /\ issued \in 0 .. MaxSessions
  /\ attempts \in Nat
  /\ faults \in 0 .. MaxFaults
  /\ guesses \in [Accounts -> Nat]
  /\ stale \in SUBSET (Requests \cup Ids)

TypeInv == AccountInv /\ SessionInv /\ RequestInv /\ CountInv

LEMMA Bounds ==
  /\ MaxSessions \in Nat /\ MaxPasswords \in Nat \ {0} /\ MaxFaults \in Nat
  /\ Threshold \in Nat \ {0} /\ MaxAttempts \in Nat \ {0}
  /\ Root \in Accounts
  /\ IsFiniteSet(Requests)
  /\ \A b \in Requests : b \notin Ids
  BY AccountsAssumption DEF AccountsAssumption, Ids

LEMMA NoRequestType == NoRequest \in RequestType
  BY Bounds DEF NoRequest, Request, RequestType, Steps, Passwords

LEMMA NewAccountType == NewAccount \in AccountType /\ NoAccount \in AccountType
<1>1. NewAccount \in AccountType
  BY Bounds DEF NewAccount, AccountType, Passwords
<1>2. 0 \in Passwords
  BY Bounds DEF Passwords
<1>3. NoAccount \in AccountType
  BY <1>1, <1>2, Zenon DEF NoAccount, AccountType
<1> QED
  BY <1>1, <1>3

LEMMA NoSessionType == NoSession \in SessionType
  BY Bounds DEF NoSession, SessionType, Passwords

LEMMA TypeInit == Init => TypeInv
<1> SUFFICES ASSUME Init PROVE TypeInv
  OBVIOUS
<1> QED
  BY Bounds, NoRequestType, NewAccountType, NoSessionType
     DEF Init, TypeInv, AccountInv, SessionInv, RequestInv, CountInv

-----------------------------------------------------------------------------
(* What the small steps do to the requests *)

\* Whoever is not b is left alone.
Others(b) == \A x \in Requests : x # b => req'[x] = req[x]

\* b goes on to a step, with what it knew.
Moved(b, step) ==
  /\ RequestInv'
  /\ Others(b)
  /\ req'[b].pc = step
  /\ req'[b].account = req[b].account
  /\ req'[b].password = req[b].password
  /\ req'[b].session = req[b].session
  /\ req'[b].off = req[b].off

\* b has returned.
Returned(b) ==
  /\ RequestInv'
  /\ Others(b)
  /\ req'[b].pc = "idle"
  /\ req'[b].off = FALSE

LEMMA GotoMoves ==
  ASSUME RequestInv, NEW b \in Requests, NEW step \in Steps, Goto(b, step)
  PROVE  Moved(b, step) /\ req'[b].target = req[b].target
<1> DEFINE r == [req[b] EXCEPT !.pc = step]
<1>1. req[b] \in RequestType
  BY DEF RequestInv
<1>2. r \in RequestType
  BY <1>1, Zenon DEF RequestType
<1>3. /\ r.pc = step /\ r.account = req[b].account /\ r.password = req[b].password
      /\ r.session = req[b].session /\ r.target = req[b].target
  BY <1>1 DEF RequestType
<1>4. r.off = req[b].off
  BY <1>1, Zenon DEF RequestType
<1>5. req' = [req EXCEPT ![b] = r]
  BY DEF Goto
<1> HIDE DEF r
<1>6. RequestInv' /\ Others(b) /\ req'[b] = r
  BY <1>2, <1>5 DEF RequestInv, Others
<1> QED
  BY <1>3, <1>4, <1>6 DEF Moved

LEMMA ReturnReturns ==
  ASSUME RequestInv, NEW b \in Requests, Return(b)
  PROVE  Returned(b)
<1>1. req' = [req EXCEPT ![b] = NoRequest]
  BY DEF Return
<1>2. RequestInv' /\ Others(b) /\ req'[b] = NoRequest
  BY <1>1, NoRequestType DEF RequestInv, Others
<1> QED
  BY <1>2 DEF Returned, NoRequest, Request

\* A step to "set" or "drop" on an account.
LEMMA TargetMoves ==
  ASSUME RequestInv, NEW b \in Requests, NEW step \in Steps, NEW a \in Accounts,
         req' = [req EXCEPT ![b].pc = step, ![b].target = a]
  PROVE  Moved(b, step) /\ req'[b].target = a
<1> DEFINE r == [req[b] EXCEPT !.pc = step, !.target = a]
<1>1. req[b] \in RequestType
  BY DEF RequestInv
<1>2. r \in RequestType
  BY <1>1, Zenon DEF RequestType
<1>3. /\ r.pc = step /\ r.account = req[b].account /\ r.password = req[b].password
      /\ r.session = req[b].session /\ r.target = a
  BY <1>1, Zenon DEF RequestType
<1>4. r.off = req[b].off
  BY <1>1, Zenon DEF RequestType
<1>5. req' = [req EXCEPT ![b] = r]
  BY DEF RequestInv
<1> HIDE DEF r
<1>6. RequestInv' /\ Others(b) /\ req'[b] = r
  BY <1>2, <1>5 DEF RequestInv, Others
<1> QED
  BY <1>3, <1>4, <1>6 DEF Moved

\* A login begins.
LEMMA LoginBegins ==
  ASSUME RequestInv, NEW b \in Requests, NEW a \in Accounts, NEW p \in Passwords, Login(b, a, p)
  PROVE  /\ RequestInv' /\ Others(b)
         /\ req'[b].pc = "note" /\ req'[b].off = FALSE
<1> DEFINE r == Request("note", a, p, 0)
<1>1. r \in RequestType
  BY Bounds DEF Request, RequestType, Steps
<1>2. r.pc = "note" /\ r.off = FALSE
  BY DEF Request
<1>3. req' = [req EXCEPT ![b] = r]
  BY DEF Login
<1> HIDE DEF r
<1>4. RequestInv' /\ Others(b) /\ req'[b] = r
  BY <1>1, <1>3 DEF RequestInv, Others
<1> QED
  BY <1>2, <1>4

\* A request with a session begins.
LEMMA RequestBegins ==
  ASSUME TypeInv, NEW b \in Requests, NEW id \in Ids, Begin(b, id)
  PROVE  /\ RequestInv' /\ Others(b)
         /\ req'[b].pc \in {"expired", "owner"}
         /\ req'[b].account = sessions[id].owner
         /\ req'[b].off = ~account[sessions[id].owner].active
<1> DEFINE step == IF sessions[id].expired THEN "expired" ELSE "owner"
<1> DEFINE o == sessions[id].owner
<1> DEFINE r == [Request(step, o, 0, id) EXCEPT !.off = ~account[o].active]
<1>1. o \in Accounts
  BY DEF TypeInv, SessionInv, SessionType
<1>2. step \in {"expired", "owner"}
  OBVIOUS
<1>3. req' = [req EXCEPT ![b] = r]
  BY DEF Begin
<1> HIDE DEF step, o
<1>4. r = [pc |-> step, account |-> o, password |-> 0, session |-> id, target |-> Root,
           off |-> ~account[o].active]
  BY DEF Request
<1>5. 0 \in Passwords /\ id \in 0 .. MaxSessions /\ step \in Steps
  BY <1>2, Bounds DEF Passwords, Ids, Steps
<1>6. r \in RequestType
  BY <1>1, <1>4, <1>5, Bounds, Zenon DEF RequestType
<1>7. r.pc = step /\ r.account = o
  BY <1>4
<1>8. r.off = ~account[o].active
  BY <1>4, Zenon
<1> HIDE DEF r
<1>9. RequestInv' /\ Others(b) /\ req'[b] = r
  BY <1>3, <1>6 DEF TypeInv, RequestInv, Others
<1> QED
  BY <1>2, <1>7, <1>8, <1>9 DEF o

\* Sessions that go leave the others as they were.
LEMMA WithoutType ==
  ASSUME SessionInv, NEW ids, sessions' = Without(ids)
  PROVE  /\ SessionInv'
         /\ \A id \in Ids : sessions'[id] = IF id \in ids THEN NoSession ELSE sessions[id]
  BY NoSessionType DEF SessionInv, Without

LEMMA TouchType ==
  ASSUME SessionInv, NEW b \in Requests, Touch(b)
  PROVE  /\ SessionInv'
         /\ \A id \in Ids : /\ sessions'[id].live = sessions[id].live
                            /\ sessions'[id].owner = sessions[id].owner
                            /\ sessions'[id].password = sessions[id].password
<1> DEFINE id == req[b].session
<1>1. CASE sessions' = sessions
  BY <1>1 DEF SessionInv
<1>2. CASE sessions' = [sessions EXCEPT ![id].expired = FALSE]
  <2> DEFINE s == [sessions[id] EXCEPT !.expired = FALSE]
  <2>1. CASE id \notin Ids
    BY <1>2, <2>1 DEF SessionInv
  <2>2. CASE id \in Ids
    <3>1. sessions[id] \in SessionType
      BY <2>2 DEF SessionInv
    <3>2. s \in SessionType
      BY <3>1, Zenon DEF SessionType
    <3>3. /\ s.live = sessions[id].live /\ s.owner = sessions[id].owner
          /\ s.password = sessions[id].password
      BY <3>1, Zenon DEF SessionType
    <3>4. sessions' = [sessions EXCEPT ![id] = s]
      BY <1>2
    <3> HIDE DEF s, id
    <3> QED
      BY <2>2, <3>2, <3>3, <3>4 DEF SessionInv
  <2> QED
    BY <2>1, <2>2
<1> QED
  BY <1>1, <1>2 DEF Touch

\* What happens to an account leaves it well formed.
LEMMA FailedType ==
  ASSUME NEW r \in AccountType
  PROVE  /\ Failed(r) \in AccountType
         /\ Failed(r).password = r.password /\ Failed(r).active = r.active
         /\ Failed(r).failed = IF r.failed < Threshold THEN r.failed + 1 ELSE r.failed
         /\ Failed(r).locked = FALSE => r.locked = FALSE /\ r.failed + 1 < Threshold
<1> DEFINE f == IF r.failed < Threshold THEN r.failed + 1 ELSE r.failed
<1> DEFINE l == r.locked \/ r.failed + 1 >= Threshold
<1>1. f \in 0 .. Threshold /\ l \in BOOLEAN
  BY Bounds DEF AccountType
<1>2. Failed(r) = [r EXCEPT !.failed = f, !.locked = l]
  BY DEF Failed
<1>3. l = FALSE => r.locked = FALSE /\ r.failed + 1 < Threshold
  <2>1. r.locked \in BOOLEAN /\ r.failed + 1 \in Nat
    BY Bounds DEF AccountType
  <2>2. ~(r.failed + 1 >= Threshold) => r.failed + 1 < Threshold
    BY <2>1, Bounds
  <2> QED
    BY <2>1, <2>2, Zenon
<1> HIDE DEF f, l
<1>4. Failed(r) \in AccountType
  BY <1>1, <1>2, Zenon DEF AccountType
<1>5. /\ Failed(r).password = r.password /\ Failed(r).active = r.active
      /\ Failed(r).failed = f /\ Failed(r).locked = l
  BY <1>1, <1>2, Zenon DEF AccountType
<1> QED
  BY <1>3, <1>4, <1>5 DEF f

LEMMA OpenType ==
  ASSUME NEW r \in AccountType
  PROVE  /\ Open(r) \in AccountType
         /\ Open(r).password = r.password /\ Open(r).active = r.active
         /\ Open(r).failed = 0 /\ Open(r).locked = FALSE
<1>1. 0 \in 0 .. Threshold
  BY Bounds
<1>2. Open(r) \in AccountType
  BY <1>1, Zenon DEF Open, AccountType
<1>3. /\ Open(r).password = r.password /\ Open(r).active = r.active
      /\ Open(r).failed = 0 /\ Open(r).locked = FALSE
  BY Zenon DEF Open, AccountType
<1> QED
  BY <1>2, <1>3

-----------------------------------------------------------------------------
\* Enabling, disabling, changing the password of, and the lapsing lock of one account
\* leave the rest of it, and the other accounts, alone.
OtherAccounts(a) == \A x \in Accounts : x # a => account'[x] = account[x]

LEMMA SetActive ==
  ASSUME AccountInv, NEW a \in Accounts, NEW v \in BOOLEAN,
         account' = [account EXCEPT ![a].active = v]
  PROVE  /\ AccountInv' /\ OtherAccounts(a)
         /\ account'[a].password = account[a].password
         /\ account'[a].active = v
         /\ account'[a].failed = account[a].failed
         /\ account'[a].locked = account[a].locked
<1> DEFINE r == [account[a] EXCEPT !.active = v]
<1>1. account[a] \in AccountType
  BY DEF AccountInv
<1>2. /\ r \in AccountType /\ r.password = account[a].password /\ r.active = v
      /\ r.failed = account[a].failed /\ r.locked = account[a].locked
  BY <1>1, Zenon DEF AccountType
<1>3. account' = [account EXCEPT ![a] = r]
  OBVIOUS
<1> HIDE DEF r
<1>4. AccountInv' /\ OtherAccounts(a) /\ account'[a] = r
  BY <1>2, <1>3 DEF AccountInv, OtherAccounts
<1> QED
  BY <1>2, <1>4

LEMMA PasswordSet ==
  ASSUME AccountInv, RequestInv, NEW b \in Requests, SetPassword(b)
  PROVE  /\ AccountInv' /\ OtherAccounts(req[b].target)
         /\ account'[req[b].target].password = account[req[b].target].password + 1
         /\ account'[req[b].target].active = account[req[b].target].active
         /\ account'[req[b].target].failed = 0
         /\ account'[req[b].target].locked = FALSE
<1> DEFINE a == req[b].target
<1>1. a \in Accounts
  BY DEF RequestInv, RequestType
<1>2. account[a] \in AccountType
  BY <1>1 DEF AccountInv
<1> DEFINE p == account[a].password + 1
<1> DEFINE o == Open(account[a])
<1> DEFINE r == [o EXCEPT !.password = p]
<1>3. account[a].password < MaxPasswords
  BY DEF SetPassword
<1>4. p \in Passwords
  BY <1>2, <1>3, Bounds DEF AccountType, Passwords
<1>5. /\ o \in AccountType /\ o.password = account[a].password
      /\ o.active = account[a].active /\ o.failed = 0 /\ o.locked = FALSE
  BY <1>2, OpenType
<1>6. account' = [account EXCEPT ![a] = [o EXCEPT !.password = p]]
  BY DEF SetPassword
<1> HIDE DEF a, o, p
<1>7. /\ r \in AccountType /\ r.password = p /\ r.active = o.active
      /\ r.failed = o.failed /\ r.locked = o.locked
  BY <1>4, <1>5, Zenon DEF AccountType
<1>8. account' = [account EXCEPT ![a] = r]
  BY <1>6
<1> HIDE DEF r
<1>9. AccountInv' /\ OtherAccounts(a) /\ account'[a] = r
  BY <1>1, <1>7, <1>8 DEF AccountInv, OtherAccounts
<1> QED
  BY <1>5, <1>7, <1>9 DEF a, p

LEMMA LapseType ==
  ASSUME AccountInv, NEW a \in Accounts, LockLapses(a)
  PROVE  /\ AccountInv' /\ OtherAccounts(a)
         /\ account'[a].password = account[a].password
         /\ account'[a].active = account[a].active
<1> DEFINE r == [account[a] EXCEPT !.locked = FALSE]
<1>1. account[a] \in AccountType
  BY DEF AccountInv
<1>2. /\ r \in AccountType /\ r.password = account[a].password
      /\ r.active = account[a].active
  BY <1>1, Zenon DEF AccountType
<1>3. account' = [account EXCEPT ![a] = r]
  BY DEF LockLapses
<1> HIDE DEF r
<1>4. AccountInv' /\ OtherAccounts(a) /\ account'[a] = r
  BY <1>2, <1>3 DEF AccountInv, OtherAccounts
<1> QED
  BY <1>2, <1>4

LEMMA ExpireType ==
  ASSUME SessionInv, NEW id \in Ids, Expire(id)
  PROVE  /\ SessionInv'
         /\ \A x \in Ids : /\ sessions'[x].live = sessions[x].live
                           /\ sessions'[x].owner = sessions[x].owner
                           /\ sessions'[x].password = sessions[x].password
<1> DEFINE s == [sessions[id] EXCEPT !.expired = TRUE]
<1>1. sessions[id] \in SessionType
  BY DEF SessionInv
<1>2. /\ s \in SessionType /\ s.live = sessions[id].live /\ s.owner = sessions[id].owner
      /\ s.password = sessions[id].password
  BY <1>1, Zenon DEF SessionType
<1>3. sessions' = [sessions EXCEPT ![id] = s]
  BY DEF Expire
<1> HIDE DEF s
<1> QED
  BY <1>2, <1>3 DEF SessionInv

-----------------------------------------------------------------------------
(* Type correctness *)

LEMMA FaultType == CountInv /\ Fault => faults' \in 0 .. MaxFaults
  BY Bounds DEF CountInv, Fault

\* A step of a login.
LEMMA LoginType ==
  ASSUME TypeInv, NEW b \in Requests, LoginStep(b)
  PROVE  TypeInv'
<1>0. AccountInv /\ SessionInv /\ RequestInv /\ CountInv
  BY DEF TypeInv
<1> USE FaultType DEF history
<1>1. ASSUME NEW a \in Accounts, NEW p \in Passwords, Login(b, a, p) PROVE TypeInv'
  <2>1. RequestInv'
    BY <1>0, <1>1, LoginBegins
  <2> QED
    BY <1>0, <1>1, <2>1 DEF Login, TypeInv, AccountInv, SessionInv, CountInv
<1>2. CASE Note(b)
  <2>1. RequestInv'
    BY <1>0, <1>2, GotoMoves DEF Note, Steps, Moved
  <2>2. CountInv'
    BY <1>0, <1>2 DEF Note, CountInv
  <2> QED
    BY <1>0, <1>2, <2>1, <2>2 DEF Note, TypeInv, AccountInv, SessionInv
<1>3. CASE LoadAccount(b)
  <2>1. RequestInv'
    BY <1>0, <1>3, GotoMoves, ReturnReturns DEF LoadAccount, Steps, Moved, Returned
  <2> QED
    BY <1>0, <1>3, <2>1 DEF LoadAccount, TypeInv, AccountInv, SessionInv, CountInv
<1>4. CASE Verify(b)
  <2>1. RequestInv'
    BY <1>0, <1>4, GotoMoves DEF Verify, Steps, Moved
  <2>2. req[b].account \in Accounts
    BY <1>0 DEF RequestInv, RequestType
  <2>3. CountInv'
    BY <1>0, <1>4, <2>2 DEF Verify, CountInv
  <2> QED
    BY <1>0, <1>4, <2>1, <2>3 DEF Verify, TypeInv, AccountInv, SessionInv
<1>5. CASE NoteFailure(b)
  <2>1. RequestInv'
    BY <1>0, <1>5, ReturnReturns DEF NoteFailure, Returned
  <2>2. req[b].account \in Accounts
    BY <1>0 DEF RequestInv, RequestType
  <2> DEFINE f == Failed(account[req[b].account])
  <2>6. account' = account \/ account' = [account EXCEPT ![req[b].account] = f]
    BY <1>5 DEF NoteFailure
  <2>7. f \in AccountType
    BY <1>0, <2>2, FailedType DEF AccountInv
  <2> HIDE DEF f
  <2>3. AccountInv'
    BY <1>0, <2>2, <2>6, <2>7 DEF AccountInv
  <2>4. CountInv'
    BY <1>0, <1>5 DEF NoteFailure, CountInv
  <2> QED
    BY <1>0, <1>5, <2>1, <2>3, <2>4 DEF NoteFailure, TypeInv, SessionInv
<1>6. CASE NoteSuccess(b)
  <2>1. RequestInv'
    BY <1>0, <1>6, GotoMoves DEF NoteSuccess, Steps, Moved
  <2>2. req[b].account \in Accounts
    BY <1>0 DEF RequestInv, RequestType
  <2> DEFINE f == Open(account[req[b].account])
  <2>6. account' = account \/ account' = [account EXCEPT ![req[b].account] = f]
    BY <1>6 DEF NoteSuccess
  <2>7. f \in AccountType
    BY <1>0, <2>2, OpenType DEF AccountInv
  <2> HIDE DEF f
  <2>3. AccountInv'
    BY <1>0, <2>2, <2>6, <2>7 DEF AccountInv
  <2>4. CountInv'
    BY <1>0, <1>6, <2>2 DEF NoteSuccess, CountInv
  <2> QED
    BY <1>0, <1>6, <2>1, <2>3, <2>4 DEF NoteSuccess, TypeInv, SessionInv
<1>7. CASE ClearAttempts(b)
  <2>1. RequestInv'
    BY <1>0, <1>7, GotoMoves DEF ClearAttempts, Steps, Moved
  <2>2. CountInv'
    BY <1>0, <1>7 DEF ClearAttempts, CountInv
  <2> QED
    BY <1>0, <1>7, <2>1, <2>2 DEF ClearAttempts, TypeInv, AccountInv, SessionInv
<1>8. CASE Issue(b)
  <2> DEFINE s == [owner |-> req[b].account, password |-> req[b].password,
                   expired |-> FALSE, live |-> TRUE]
  <2>1. RequestInv'
    BY <1>0, <1>8, ReturnReturns DEF Issue, Returned
  <2>2. issued + 1 \in Ids
    BY <1>0, <1>8, Bounds DEF Issue, CountInv, Ids
  <2>3. s \in SessionType
    BY <1>0 DEF RequestInv, RequestType, SessionType
  <2>4. sessions' = [sessions EXCEPT ![issued + 1] = s]
    BY <1>8 DEF Issue
  <2> HIDE DEF s
  <2>5. SessionInv'
    BY <1>0, <2>3, <2>4 DEF SessionInv
  <2>6. stale' \in SUBSET (Requests \cup Ids) /\ issued' \in 0 .. MaxSessions
    BY <1>0, <1>8, <2>2 DEF Issue, CountInv, Ids
  <2>7. CountInv'
    BY <1>0, <1>8, <2>6 DEF Issue, CountInv
  <2> QED
    BY <1>0, <1>8, <2>1, <2>5, <2>7 DEF Issue, TypeInv, AccountInv
<1> QED
  BY <1>1, <1>2, <1>3, <1>4, <1>5, <1>6, <1>7, <1>8 DEF LoginStep

\* b, which enabled a, has returned; the others go on, with a enabled.
Enabled(b, a) ==
  /\ req'[b].pc = "idle" /\ req'[b].off = FALSE
  /\ \A x \in Requests : x # b =>
       /\ req'[x].pc = req[x].pc /\ req'[x].account = req[x].account
       /\ req'[x].password = req[x].password /\ req'[x].target = req[x].target
       /\ req'[x].off = TRUE => req[x].off = TRUE /\ req[x].account # a

LEMMA EnableMoves ==
  ASSUME RequestInv, NEW b \in Requests, NEW a \in Accounts, Enable(b, a)
  PROVE  RequestInv' /\ Enabled(b, a)
<1> DEFINE r(x) == [req[x] EXCEPT !.off = @ /\ req[x].account # a]
<1>1. ASSUME NEW x \in Requests
      PROVE  /\ r(x) \in RequestType
             /\ r(x).pc = req[x].pc /\ r(x).account = req[x].account
             /\ r(x).password = req[x].password /\ r(x).target = req[x].target
             /\ r(x).off = TRUE => req[x].off = TRUE /\ req[x].account # a
  <2> DEFINE o == req[x].off /\ req[x].account # a
  <2>1. req[x] \in RequestType
    BY DEF RequestInv
  <2>2. o \in BOOLEAN
    OBVIOUS
  <2>3. o = TRUE => req[x].off = TRUE /\ req[x].account # a
    BY <2>1, Zenon DEF RequestType
  <2>4. r(x) = [req[x] EXCEPT !.off = o]
    OBVIOUS
  <2> HIDE DEF o, r
  <2>5. r(x) \in RequestType
    BY <2>1, <2>2, <2>4, Zenon DEF RequestType
  <2>6. /\ r(x).pc = req[x].pc /\ r(x).account = req[x].account
        /\ r(x).password = req[x].password /\ r(x).target = req[x].target
        /\ r(x).off = o
    BY <2>1, <2>4, Zenon DEF RequestType
  <2> QED
    BY <2>3, <2>5, <2>6
<1>2. req' = [x \in Requests |-> IF x = b THEN NoRequest ELSE r(x)]
  BY DEF Enable
<1>3. NoRequest.pc = "idle" /\ NoRequest.off = FALSE
  BY DEF NoRequest, Request
<1> HIDE DEF r
<1> QED
  BY <1>1, <1>2, <1>3, NoRequestType DEF RequestInv, Enabled

\* A step of another request.
LEMMA RequestTypeKept ==
  ASSUME TypeInv, NEW b \in Requests, RequestStep(b)
  PROVE  TypeInv'
<1>0. AccountInv /\ SessionInv /\ RequestInv /\ CountInv
  BY DEF TypeInv
<1> USE FaultType DEF history
<1>1. ASSUME NEW id \in Ids, Begin(b, id) PROVE TypeInv'
  <2>1. RequestInv'
    BY <1>1, RequestBegins
  <2> QED
    BY <1>0, <1>1, <2>1 DEF Begin, TypeInv, AccountInv, SessionInv, CountInv
<1>2. CASE DropExpired(b) \/ Logout(b)
  <2>1. RequestInv'
    BY <1>0, <1>2, ReturnReturns DEF DropExpired, Logout, Returned
  <2>2. SessionInv'
    <3>1. sessions' = sessions \/ sessions' = Without({req[b].session})
      BY <1>2 DEF DropExpired, Logout
    <3> QED
      BY <1>0, <3>1, WithoutType DEF SessionInv
  <2>3. CountInv'
    BY <1>0, <1>2 DEF DropExpired, Logout, CountInv
  <2> QED
    BY <1>0, <1>2, <2>1, <2>2, <2>3 DEF DropExpired, Logout, TypeInv, AccountInv
<1>3. CASE CheckOwner(b)
  <2>1. RequestInv'
    BY <1>0, <1>3, GotoMoves, ReturnReturns DEF CheckOwner, Steps, Moved, Returned
  <2> QED
    BY <1>0, <1>3, <2>1 DEF CheckOwner, TypeInv, AccountInv, SessionInv, CountInv
<1>4. CASE Touch(b)
  <2>1. RequestInv'
    BY <1>0, <1>4, GotoMoves DEF Touch, Steps, Moved
  <2>2. SessionInv'
    BY <1>0, <1>4, TouchType
  <2> QED
    BY <1>0, <1>4, <2>1, <2>2 DEF Touch, TypeInv, AccountInv, CountInv
<1>5. CASE Visit(b)
  <2>1. RequestInv'
    BY <1>0, <1>5, ReturnReturns DEF Visit, Returned
  <2> QED
    BY <1>0, <1>5, <2>1 DEF Visit, TypeInv, AccountInv, SessionInv, CountInv
<1>6. ASSUME NEW a \in Accounts, ThenSet(b, a) PROVE TypeInv'
  <2>1. RequestInv'
    BY <1>0, <1>6, TargetMoves DEF ThenSet, Steps, Moved
  <2> QED
    BY <1>0, <1>6, <2>1 DEF ThenSet, TypeInv, AccountInv, SessionInv, CountInv
<1>7. ASSUME NEW a \in Accounts, CreateAccount(b, a) PROVE TypeInv'
  <2>1. RequestInv'
    BY <1>0, <1>7, ReturnReturns DEF CreateAccount, Returned
  <2>2. AccountInv'
    BY <1>0, <1>7, NewAccountType DEF CreateAccount, AccountInv
  <2> QED
    BY <1>0, <1>7, <2>1, <2>2 DEF CreateAccount, TypeInv, SessionInv, CountInv
<1>8. ASSUME NEW a \in Accounts, Enable(b, a) PROVE TypeInv'
  <2>1. RequestInv'
    BY <1>0, <1>8, EnableMoves
  <2>2. AccountInv'
    BY <1>0, <1>8, SetActive DEF Enable
  <2> QED
    BY <1>0, <1>8, <2>1, <2>2 DEF Enable, TypeInv, SessionInv, CountInv
<1>9. ASSUME NEW a \in Accounts, Disable(b, a) PROVE TypeInv'
  <2>1. RequestInv'
    BY <1>0, <1>9, TargetMoves DEF Disable, Steps, Moved
  <2>2. AccountInv'
    BY <1>0, <1>9, SetActive DEF Disable
  <2> QED
    BY <1>0, <1>9, <2>1, <2>2 DEF Disable, TypeInv, SessionInv, CountInv
<1>10. CASE SetPassword(b)
  <2>1. RequestInv'
    BY <1>0, <1>10, GotoMoves DEF SetPassword, Steps, Moved
  <2>2. req[b].target \in Accounts
    BY <1>0 DEF RequestInv, RequestType
  <2>3. AccountInv'
    BY <1>0, <1>10, PasswordSet
  <2>4. CountInv'
    BY <1>0, <1>10, <2>2 DEF SetPassword, CountInv
  <2> QED
    BY <1>0, <1>10, <2>1, <2>3, <2>4 DEF SetPassword, TypeInv, SessionInv
<1>11. CASE DropSessions(b)
  <2>1. RequestInv'
    BY <1>0, <1>11, ReturnReturns DEF DropSessions, Returned
  <2>2. SessionInv'
    BY <1>0, <1>11, WithoutType DEF DropSessions
  <2>3. CountInv'
    BY <1>0, <1>11 DEF DropSessions, CountInv, Entering
  <2> QED
    BY <1>0, <1>11, <2>1, <2>2, <2>3 DEF DropSessions, TypeInv, AccountInv
<1>12. CASE Cut(b)
  <2>1. RequestInv'
    BY <1>0, <1>12, ReturnReturns DEF Cut, Returned
  <2>2. stale' \in SUBSET (Requests \cup Ids)
    BY <1>0, <1>12 DEF Cut, CountInv, Entering, SessionsOf
  <2>3. CountInv'
    BY <1>0, <1>12, <2>2 DEF Cut, CountInv
  <2> QED
    BY <1>0, <1>12, <2>1, <2>3 DEF Cut, TypeInv, AccountInv, SessionInv
<1>13. req[b].account \in Accounts
  BY <1>0 DEF RequestInv, RequestType
<1> QED
  BY <1>1, <1>2, <1>3, <1>4, <1>5, <1>6, <1>7, <1>8, <1>9, <1>10, <1>11, <1>12, <1>13
     DEF RequestStep, ChangePassword, ResetPassword

LEMMA TypeStep == TypeInv /\ [Next]_vars => TypeInv'
<1> SUFFICES ASSUME TypeInv, [Next]_vars PROVE TypeInv'
  OBVIOUS
<1>0. AccountInv /\ SessionInv /\ RequestInv /\ CountInv
  BY DEF TypeInv
<1> USE DEF history
<1>1. ASSUME NEW id \in Ids, Expire(id) PROVE TypeInv'
  <2>1. SessionInv'
    BY <1>0, <1>1, ExpireType
  <2> QED
    BY <1>0, <1>1, <2>1 DEF Expire, TypeInv, AccountInv, RequestInv, CountInv
<1>2. ASSUME NEW a \in Accounts, LockLapses(a) PROVE TypeInv'
  <2>1. AccountInv'
    BY <1>0, <1>2, LapseType
  <2>2. CountInv'
    BY <1>0, <1>2 DEF LockLapses, CountInv
  <2> QED
    BY <1>0, <1>2, <2>1, <2>2 DEF LockLapses, TypeInv, SessionInv, RequestInv
<1>3. CASE AttemptLapses
  BY <1>0, <1>3 DEF AttemptLapses, TypeInv, AccountInv, SessionInv, RequestInv, CountInv
<1>4. CASE Prune
  <2>1. SessionInv'
    BY <1>0, <1>4, WithoutType DEF Prune
  <2> QED
    BY <1>0, <1>4, <2>1 DEF Prune, TypeInv, AccountInv, RequestInv, CountInv
<1>5. CASE UNCHANGED vars
  BY <1>0, <1>5 DEF vars, TypeInv, AccountInv, SessionInv, RequestInv, CountInv
<1> QED
  BY <1>1, <1>2, <1>3, <1>4, <1>5, LoginType, RequestTypeKept DEF Next

LEMMA TypeAlways == Spec => []TypeInv
  BY TypeInit, TypeStep, PTL DEF Spec

\* Every state of the accounts is well formed.
THEOREM TypeCorrect == Spec => []TypeOK
<1>1. TypeInv => TypeOK
  BY DEF TypeInv, TypeOK, AccountInv, SessionInv, RequestInv, CountInv, AccountType,
         SessionType, RequestType, Steps
<1> QED
  BY <1>1, TypeAlways, PTL

-----------------------------------------------------------------------------
(* Who is disabled is refused *)

\* Where a request knows that its account exists.
Known == {"verify", "fail", "success", "clear", "issue", "owner", "expired", "touch", "serve"}

EnterInv == \A b \in Requests : req[b].pc \in Known => account[req[b].account].password # 0

\* Sessions belong to somebody.
LiveInv == \A id \in Ids :
             sessions[id].live = TRUE => account[sessions[id].owner].password # 0

\* A request that began with a disabled account has not passed the check, and the
\* account is still disabled.
OffInv == \A b \in Requests :
            req[b].off = TRUE =>
              req[b].pc \in {"owner", "expired"} /\ account[req[b].account].active = FALSE

KnownInv == EnterInv /\ LiveInv /\ OffInv

\* No session appears, and none changes hands.
SessionsKept ==
  \A id \in Ids :
    sessions'[id].live = TRUE =>
      /\ sessions[id].live = TRUE
      /\ sessions'[id].owner = sessions[id].owner
      /\ sessions'[id].password = sessions[id].password

PasswordsKept == \A a \in Accounts : account'[a].password = account[a].password

ActiveKept == \A a \in Accounts : account'[a].active = account[a].active

\* What holds when an account that exists stays, a disabled one that exists stays
\* disabled, and b learns of accounts that exist only.
LEMMA KnownKept ==
  ASSUME TypeInv, KnownInv, SessionsKept, NEW b \in Requests, Others(b),
         \A a \in Accounts : account[a].password # 0 =>
            account'[a].password # 0 /\ account'[a].active = account[a].active,
         req'[b].pc \in Known => /\ req'[b].account \in Accounts
                                 /\ account[req'[b].account].password # 0,
         req'[b].off = TRUE => /\ req'[b].pc \in {"owner", "expired"}
                               /\ account[req'[b].account].active = FALSE
  PROVE  KnownInv'
<1>0. /\ \A x \in Requests : req[x].account \in Accounts
      /\ \A id \in Ids : sessions[id].owner \in Accounts
  BY DEF TypeInv, RequestInv, RequestType, SessionInv, SessionType
<1>1. EnterInv'
  <2> SUFFICES ASSUME NEW x \in Requests, req'[x].pc \in Known
               PROVE  account'[req'[x].account].password # 0
    BY DEF EnterInv
  <2>1. CASE x = b
    BY <2>1
  <2>2. CASE x # b
    BY <1>0, <2>2 DEF KnownInv, EnterInv, Others
  <2> QED
    BY <2>1, <2>2
<1>2. LiveInv'
  BY <1>0 DEF KnownInv, LiveInv, SessionsKept
<1>3. OffInv'
  <2> SUFFICES ASSUME NEW x \in Requests, req'[x].off = TRUE
               PROVE  /\ req'[x].pc \in {"owner", "expired"}
                      /\ account'[req'[x].account].active = FALSE
    BY DEF OffInv
  <2>1. CASE x = b
    BY <2>1 DEF Known
  <2>2. CASE x # b
    <3>1. req'[x] = req[x]
      BY <2>2 DEF Others
    <3>2. /\ req[x].pc \in {"owner", "expired"}
          /\ account[req[x].account].active = FALSE
      BY <3>1 DEF KnownInv, OffInv
    <3>3. account[req[x].account].password # 0
      BY <3>2 DEF KnownInv, EnterInv, Known
    <3> QED
      BY <1>0, <3>1, <3>2, <3>3
  <2> QED
    BY <2>1, <2>2
<1> QED
  BY <1>1, <1>2, <1>3 DEF KnownInv

LEMMA SameAccounts ==
  ASSUME UNCHANGED account
  PROVE  PasswordsKept /\ ActiveKept
  BY DEF PasswordsKept, ActiveKept

\* The same when nobody's password or activity changes.
LEMMA KnownQuiet ==
  ASSUME TypeInv, KnownInv, SessionsKept, PasswordsKept, ActiveKept,
         NEW b \in Requests, Others(b),
         req'[b].pc \in Known => /\ req'[b].account \in Accounts
                                 /\ account[req'[b].account].password # 0,
         req'[b].off = TRUE => /\ req'[b].pc \in {"owner", "expired"}
                               /\ account[req'[b].account].active = FALSE
  PROVE  KnownInv'
<1>1. \A a \in Accounts : account[a].password # 0 =>
        account'[a].password # 0 /\ account'[a].active = account[a].active
  BY DEF PasswordsKept, ActiveKept
<1> QED
  BY <1>1, KnownKept

\* Steps that move nobody.
LEMMA KnownIdle ==
  ASSUME TypeInv, KnownInv, SessionsKept, PasswordsKept, ActiveKept, UNCHANGED req
  PROVE  KnownInv'
<1>0. /\ \A x \in Requests : req[x].account \in Accounts
      /\ \A id \in Ids : sessions[id].owner \in Accounts
  BY DEF TypeInv, RequestInv, RequestType, SessionInv, SessionType
<1> QED
  BY <1>0 DEF KnownInv, EnterInv, LiveInv, OffInv, SessionsKept, PasswordsKept, ActiveKept

LEMMA WithoutKeeps ==
  ASSUME SessionInv, NEW ids, sessions' = Without(ids)
  PROVE  SessionsKept
  BY WithoutType DEF SessionsKept, NoSession

\* What each step does to the sessions.
LEMMA SessionsStep ==
  ASSUME TypeInv,
         \/ UNCHANGED sessions
         \/ \E b \in Requests : DropExpired(b) \/ Logout(b) \/ Touch(b) \/ DropSessions(b)
         \/ \E id \in Ids : Expire(id)
         \/ Prune
  PROVE  SessionsKept
<1>0. SessionInv
  BY DEF TypeInv
<1>1. CASE UNCHANGED sessions
  BY <1>1 DEF SessionsKept
<1>2. ASSUME NEW ids, sessions' = Without(ids) PROVE SessionsKept
  BY <1>0, <1>2, WithoutKeeps
<1>3. ASSUME NEW b \in Requests, DropExpired(b) \/ Logout(b) PROVE SessionsKept
  BY <1>1, <1>2, <1>3 DEF DropExpired, Logout
<1>4. ASSUME NEW b \in Requests, Touch(b) PROVE SessionsKept
  BY <1>0, <1>4, TouchType DEF SessionsKept
<1>5. ASSUME NEW b \in Requests, DropSessions(b) PROVE SessionsKept
  BY <1>2, <1>5 DEF DropSessions
<1>6. ASSUME NEW id \in Ids, Expire(id) PROVE SessionsKept
  BY <1>0, <1>6, ExpireType DEF SessionsKept
<1>7. CASE Prune
  BY <1>2, <1>7 DEF Prune
<1> QED
  BY <1>1, <1>3, <1>4, <1>5, <1>6, <1>7

\* What a failed or a succeeded login notes concerns neither password nor activity.
LEMMA NotesKeep ==
  ASSUME TypeInv, NEW b \in Requests, NoteFailure(b) \/ NoteSuccess(b)
  PROVE  PasswordsKept /\ ActiveKept
<1> DEFINE a == req[b].account
<1>1. a \in Accounts /\ account[a] \in AccountType /\ AccountInv
  BY DEF TypeInv, RequestInv, RequestType, AccountInv
<1>2. ASSUME NEW r \in AccountType, r.password = account[a].password,
             r.active = account[a].active, account' = [account EXCEPT ![a] = r]
      PROVE  PasswordsKept /\ ActiveKept
  BY <1>1, <1>2 DEF PasswordsKept, ActiveKept, AccountInv
<1> DEFINE f == Failed(account[a])
<1> DEFINE o == Open(account[a])
<1>3. \/ UNCHANGED account
      \/ account' = [account EXCEPT ![a] = f]
      \/ account' = [account EXCEPT ![a] = o]
  BY DEF NoteFailure, NoteSuccess
<1>4. f \in AccountType /\ f.password = account[a].password /\ f.active = account[a].active
  BY <1>1, FailedType
<1>5. o \in AccountType /\ o.password = account[a].password /\ o.active = account[a].active
  BY <1>1, OpenType
<1> HIDE DEF f, o, a
<1> QED
  BY <1>2, <1>3, <1>4, <1>5, SameAccounts

LEMMA LapseKeeps ==
  ASSUME AccountInv, NEW a \in Accounts, LockLapses(a)
  PROVE  PasswordsKept /\ ActiveKept
  BY LapseType DEF PasswordsKept, ActiveKept, OtherAccounts

\* A step of a login.
LEMMA KnownLogin ==
  ASSUME TypeInv, KnownInv, NEW b \in Requests, LoginStep(b)
  PROVE  KnownInv'
<1>0. AccountInv /\ SessionInv /\ RequestInv
  BY DEF TypeInv
<1>1. req[b].account \in Accounts
  BY DEF TypeInv, RequestInv, RequestType
<1>2. \* what holds of b before the step
      /\ req[b].pc \in Known => account[req[b].account].password # 0
      /\ req[b].off = TRUE => /\ req[b].pc \in {"owner", "expired"}
                              /\ account[req[b].account].active = FALSE
  BY DEF KnownInv, EnterInv, OffInv
<1>3. ASSUME NEW a \in Accounts, NEW p \in Passwords, Login(b, a, p) PROVE KnownInv'
  <2>1. UNCHANGED account /\ SessionsKept
    BY <1>3, SessionsStep DEF Login
  <2>2. Others(b) /\ req'[b].pc = "note" /\ req'[b].off = FALSE
    BY <1>0, <1>3, LoginBegins
  <2> QED
    BY <2>1, <2>2, KnownQuiet, SameAccounts DEF Known
<1>4. CASE Note(b)
  <2>1. UNCHANGED account /\ SessionsKept
    BY <1>4, SessionsStep DEF Note
  <2>2. Moved(b, "account") /\ req[b].pc = "note"
    BY <1>0, <1>4, GotoMoves DEF Note, Steps
  <2> QED
    BY <1>2, <2>1, <2>2, KnownQuiet, SameAccounts DEF Known, Moved
<1>5. CASE LoadAccount(b)
  <2>1. UNCHANGED account /\ SessionsKept
    BY <1>5, SessionsStep DEF LoadAccount
  <2>2. req[b].pc = "account"
    BY <1>5 DEF LoadAccount
  <2>3. \/ Returned(b)
        \/ Moved(b, "verify") /\ account[req[b].account].password # 0
    BY <1>0, <1>5, GotoMoves, ReturnReturns DEF LoadAccount, Steps, Exists
  <2> QED
    BY <1>1, <1>2, <2>1, <2>2, <2>3, KnownQuiet, SameAccounts DEF Known, Moved, Returned
<1>6. CASE Verify(b)
  <2>1. UNCHANGED account /\ SessionsKept
    BY <1>6, SessionsStep DEF Verify
  <2>2. req[b].pc = "verify"
    BY <1>6 DEF Verify
  <2>3. Moved(b, "success") \/ Moved(b, "fail")
    BY <1>0, <1>6, GotoMoves DEF Verify, Steps
  <2> QED
    BY <1>1, <1>2, <2>1, <2>2, <2>3, KnownQuiet, SameAccounts DEF Known, Moved
<1>7. CASE NoteFailure(b)
  <2>1. SessionsKept
    BY <1>7, SessionsStep DEF NoteFailure
  <2>2. Returned(b)
    BY <1>0, <1>7, ReturnReturns DEF NoteFailure
  <2> QED
    BY <1>7, <2>1, <2>2, KnownQuiet, NotesKeep DEF Known, Returned
<1>8. CASE NoteSuccess(b)
  <2>1. SessionsKept
    BY <1>8, SessionsStep DEF NoteSuccess
  <2>2. Moved(b, "clear") /\ req[b].pc = "success"
    BY <1>0, <1>8, GotoMoves DEF NoteSuccess, Steps
  <2> QED
    BY <1>1, <1>2, <1>8, <2>1, <2>2, KnownQuiet, NotesKeep DEF Known, Moved
<1>9. CASE ClearAttempts(b)
  <2>1. UNCHANGED account /\ SessionsKept
    BY <1>9, SessionsStep DEF ClearAttempts
  <2>2. Moved(b, "issue") /\ req[b].pc = "clear"
    BY <1>0, <1>9, GotoMoves DEF ClearAttempts, Steps
  <2> QED
    BY <1>1, <1>2, <2>1, <2>2, KnownQuiet, SameAccounts DEF Known, Moved
<1>10. CASE Issue(b)
  <2> DEFINE s == [owner |-> req[b].account, password |-> req[b].password,
                   expired |-> FALSE, live |-> TRUE]
  <2>1. UNCHANGED account /\ req[b].pc = "issue"
    BY <1>10 DEF Issue
  <2>2. Returned(b)
    BY <1>0, <1>10, ReturnReturns DEF Issue
  <2>3. sessions' = [sessions EXCEPT ![issued + 1] = s] /\ s.owner = req[b].account
    BY <1>10 DEF Issue
  <2> HIDE DEF s
  <2>4. LiveInv'
    BY <1>0, <1>1, <1>2, <2>1, <2>3 DEF SessionInv, KnownInv, LiveInv, Known
  <2>5. EnterInv' /\ OffInv'
    BY <2>1, <2>2 DEF Returned, Others, KnownInv, EnterInv, OffInv, Known
  <2> QED
    BY <2>4, <2>5 DEF KnownInv
<1> QED
  BY <1>3, <1>4, <1>5, <1>6, <1>7, <1>8, <1>9, <1>10 DEF LoginStep

\* A step of another request.
LEMMA KnownRequest ==
  ASSUME TypeInv, KnownInv, NEW b \in Requests, RequestStep(b)
  PROVE  KnownInv'
<1>0. AccountInv /\ SessionInv /\ RequestInv
  BY DEF TypeInv
<1>1. req[b].account \in Accounts
  BY DEF TypeInv, RequestInv, RequestType
<1>2. \* what holds of b before the step
      /\ req[b].pc \in Known => account[req[b].account].password # 0
      /\ req[b].off = TRUE => /\ req[b].pc \in {"owner", "expired"}
                              /\ account[req[b].account].active = FALSE
  BY DEF KnownInv, EnterInv, OffInv
<1>3. ASSUME NEW id \in Ids, Begin(b, id) PROVE KnownInv'
  <2> DEFINE o == sessions[id].owner
  <2>1. UNCHANGED account /\ SessionsKept
    BY <1>3, SessionsStep DEF Begin
  <2>2. /\ Others(b) /\ req'[b].pc \in {"expired", "owner"} /\ req'[b].account = o
        /\ req'[b].off = ~account[o].active
    BY <1>3, RequestBegins
  <2>3. sessions[id].live = TRUE
    BY <1>0, <1>3, Zenon DEF Begin, SessionInv, SessionType
  <2>4. o \in Accounts /\ account[o].active \in BOOLEAN /\ account[o].password # 0
    BY <1>0, <2>3 DEF SessionInv, SessionType, AccountInv, AccountType, KnownInv, LiveInv
  <2>5. req'[b].off = TRUE => account[o].active = FALSE
    BY <2>2, <2>4, Zenon
  <2> HIDE DEF o
  <2> QED
    BY <2>1, <2>2, <2>4, <2>5, KnownQuiet, SameAccounts
<1>4. CASE DropExpired(b) \/ Logout(b) \/ Visit(b) \/ DropSessions(b) \/ Cut(b)
  <2>1. UNCHANGED account
    BY <1>4 DEF DropExpired, Logout, Visit, DropSessions, Cut
  <2>2. SessionsKept
    <3>1. CASE Visit(b) \/ Cut(b)
      BY <3>1, SessionsStep DEF Visit, Cut
    <3> QED
      BY <1>4, <3>1, SessionsStep
  <2>3. Returned(b)
    BY <1>0, <1>4, ReturnReturns DEF DropExpired, Logout, Visit, DropSessions, Cut
  <2> QED
    BY <2>1, <2>2, <2>3, KnownQuiet, SameAccounts DEF Known, Returned
<1>5. CASE CheckOwner(b)
  <2>1. UNCHANGED account /\ SessionsKept /\ req[b].pc = "owner"
    BY <1>5, SessionsStep DEF CheckOwner
  <2>2. Returned(b) \/ (Moved(b, "touch") /\ account[req[b].account].active)
    BY <1>0, <1>5, GotoMoves, ReturnReturns DEF CheckOwner, MayAct, Steps
  <2>3. CASE Moved(b, "touch") /\ account[req[b].account].active
    <3>1. req'[b].off # TRUE
      BY <1>2, <2>3, Zenon DEF Moved
    <3> QED
      BY <1>1, <1>2, <2>1, <2>3, <3>1, KnownQuiet, SameAccounts DEF Known, Moved
  <2>4. CASE Returned(b)
    BY <2>1, <2>4, KnownQuiet, SameAccounts DEF Known, Returned
  <2> QED
    BY <2>2, <2>3, <2>4
<1>6. CASE Touch(b)
  <2>1. UNCHANGED account /\ SessionsKept /\ req[b].pc = "touch"
    BY <1>6, SessionsStep DEF Touch
  <2>2. Moved(b, "serve")
    BY <1>0, <1>6, GotoMoves DEF Touch, Steps
  <2> QED
    BY <1>1, <1>2, <2>1, <2>2, KnownQuiet, SameAccounts DEF Known, Moved
<1>7. ASSUME NEW a \in Accounts, ThenSet(b, a), req[b].pc = "serve" PROVE KnownInv'
  <2>1. UNCHANGED account /\ SessionsKept
    BY <1>7, SessionsStep DEF ThenSet
  <2>2. Moved(b, "set")
    BY <1>0, <1>7, TargetMoves DEF ThenSet, Steps
  <2> QED
    BY <1>1, <1>2, <1>7, <2>1, <2>2, KnownQuiet, SameAccounts DEF Known, Moved
<1>8. ASSUME NEW a \in Accounts, CreateAccount(b, a) PROVE KnownInv'
  <2>1. SessionsKept
    BY <1>8, SessionsStep DEF CreateAccount
  <2>2. Returned(b)
    BY <1>0, <1>8, ReturnReturns DEF CreateAccount
  <2>3. account[a].password = 0 /\ account' = [account EXCEPT ![a] = NewAccount]
    BY <1>8 DEF CreateAccount, Exists
  <2>4. \A x \in Accounts : account[x].password # 0 => account'[x] = account[x]
    BY <1>0, <2>3 DEF AccountInv
  <2> QED
    BY <2>1, <2>2, <2>4, KnownKept DEF Known, Returned
<1>9. ASSUME NEW a \in Accounts, Enable(b, a) PROVE KnownInv'
  <2>1. SessionsKept
    BY <1>9, SessionsStep DEF Enable
  <2>2. Enabled(b, a)
    BY <1>0, <1>9, EnableMoves
  <2>3. /\ \A x \in Accounts : account'[x].password = account[x].password
        /\ \A x \in Accounts : x # a => account'[x] = account[x]
    BY <1>0, <1>9, SetActive DEF Enable, OtherAccounts
  <2>4. /\ \A x \in Requests : req[x].account \in Accounts
        /\ \A id \in Ids : sessions[id].owner \in Accounts
    BY <1>0 DEF RequestInv, RequestType, SessionInv, SessionType
  <2>5. EnterInv'
    BY <2>2, <2>3, <2>4 DEF KnownInv, EnterInv, Known, Enabled
  <2>6. LiveInv'
    BY <2>1, <2>3, <2>4 DEF KnownInv, LiveInv, SessionsKept
  <2>7. OffInv'
    BY <2>2, <2>3, <2>4 DEF KnownInv, OffInv, Enabled
  <2> QED
    BY <2>5, <2>6, <2>7 DEF KnownInv
<1>10. ASSUME NEW a \in Accounts, Disable(b, a) PROVE KnownInv'
  <2>1. SessionsKept
    BY <1>10, SessionsStep DEF Disable
  <2>2. Moved(b, "drop") /\ req[b].pc = "serve"
    BY <1>0, <1>10, TargetMoves DEF Disable, Administers, Serving, Steps
  <2>3. /\ \A x \in Accounts : account'[x].password = account[x].password
        /\ \A x \in Accounts : x # a => account'[x] = account[x]
        /\ account'[a].active = FALSE
    BY <1>0, <1>10, SetActive DEF Disable, OtherAccounts
  <2>4. /\ \A x \in Requests : req[x].account \in Accounts
        /\ \A id \in Ids : sessions[id].owner \in Accounts
    BY <1>0 DEF RequestInv, RequestType, SessionInv, SessionType
  <2>5. EnterInv'
    BY <2>2, <2>3, <2>4 DEF KnownInv, EnterInv, Known, Moved, Others
  <2>6. LiveInv'
    BY <2>1, <2>3, <2>4 DEF KnownInv, LiveInv, SessionsKept
  <2>7. \A x \in Accounts : account[x].active = FALSE => account'[x].active = FALSE
    BY <2>3
  <2>8. OffInv'
    BY <1>2, <2>2, <2>4, <2>7 DEF KnownInv, OffInv, Moved, Others
  <2> QED
    BY <2>5, <2>6, <2>8 DEF KnownInv
<1>11. CASE SetPassword(b)
  <2> DEFINE a == req[b].target
  <2>1. SessionsKept
    BY <1>11, SessionsStep DEF SetPassword
  <2>2. Moved(b, "drop") /\ req[b].pc = "set"
    BY <1>0, <1>11, GotoMoves DEF SetPassword, Steps
  <2>3. /\ \A x \in Accounts : x # a => account'[x] = account[x]
        /\ account'[a].password = account[a].password + 1
        /\ account'[a].active = account[a].active
    BY <1>0, <1>11, PasswordSet DEF OtherAccounts
  <2>4. \A x \in Accounts : account[x].password \in Nat
    BY <1>0, Bounds DEF AccountInv, AccountType, Passwords
  <2> HIDE DEF a
  <2>5. \A x \in Accounts : account[x].password # 0 =>
          account'[x].password # 0 /\ account'[x].active = account[x].active
    BY <2>3, <2>4
  <2> QED
    BY <1>2, <2>1, <2>2, <2>5, KnownKept DEF Known, Moved
<1> QED
  BY <1>1, <1>3, <1>4, <1>5, <1>6, <1>7, <1>8, <1>9, <1>10, <1>11
     DEF RequestStep, ChangePassword, ResetPassword, Administers, Serving

LEMMA KnownInit == Init => KnownInv
<1> SUFFICES ASSUME Init PROVE KnownInv
  OBVIOUS
<1>1. \A b \in Requests : req[b].pc = "idle" /\ req[b].off = FALSE
  BY DEF Init, NoRequest, Request
<1>2. \A id \in Ids : sessions[id].live = FALSE
  BY DEF Init, NoSession
<1> QED
  BY <1>1, <1>2 DEF KnownInv, EnterInv, LiveInv, OffInv, Known

LEMMA KnownStep == TypeInv /\ KnownInv /\ [Next]_vars => KnownInv'
<1> SUFFICES ASSUME TypeInv, KnownInv, [Next]_vars PROVE KnownInv'
  OBVIOUS
<1>1. ASSUME NEW id \in Ids, Expire(id) PROVE KnownInv'
  BY <1>1, SessionsStep, SameAccounts, KnownIdle DEF Expire
<1>2. ASSUME NEW a \in Accounts, LockLapses(a) PROVE KnownInv'
  BY <1>2, SessionsStep, LapseKeeps, KnownIdle DEF LockLapses, TypeInv
<1>3. CASE AttemptLapses
  BY <1>3, SessionsStep, SameAccounts, KnownIdle DEF AttemptLapses
<1>4. CASE Prune
  BY <1>4, SessionsStep, SameAccounts, KnownIdle DEF Prune
<1>5. CASE UNCHANGED vars
  BY <1>5, SessionsStep, SameAccounts, KnownIdle DEF vars
<1> QED
  BY <1>1, <1>2, <1>3, <1>4, <1>5, KnownLogin, KnownRequest DEF Next

LEMMA KnownAlways == Spec => []KnownInv
  BY TypeAlways, KnownInit, KnownStep, PTL DEF Spec

\* No request is served for an account that was disabled before the request began and
\* not enabled since, whatever sessions survived (Authenticate).
THEOREM TheDisabledAreRefused == Spec => []DisabledIsRefused
<1>1. TypeInv /\ KnownInv => DisabledIsRefused
  <2> SUFFICES ASSUME TypeInv, KnownInv, NEW b \in Requests, req[b].pc = "serve", req[b].off
               PROVE  FALSE
    BY DEF DisabledIsRefused
  <2>1. req[b].off = TRUE
    BY Zenon DEF TypeInv, RequestInv, RequestType
  <2> QED
    BY <2>1 DEF KnownInv, OffInv
<1> QED
  BY <1>1, TypeAlways, KnownAlways, PTL

-----------------------------------------------------------------------------
(* A changed password ends the sessions *)

\* Where a login has verified the password and has no session yet.
Late == {"success", "clear", "issue"}

\* Somebody is about to drop the sessions of o.
Dropping(o) == \E b \in Requests : req[b].pc = "drop" /\ req[b].target = o

OldSessionInv ==
  \A id \in Ids, o \in Accounts :
    sessions[id].live = TRUE /\ sessions[id].owner = o
      /\ sessions[id].password < account[o].password =>
        id \in stale \/ Dropping(o)

OldLoginInv ==
  \A b \in Requests, o \in Accounts :
    req[b].pc \in Late /\ req[b].account = o /\ req[b].password < account[o].password =>
      b \in stale \/ Dropping(o)

OldInv == OldSessionInv /\ OldLoginInv

\* A login that will have a session goes on with the password that is in force, or
\* with what it had.
LoginKept(b) ==
  req'[b].pc \in Late =>
    \/ req[b].pc \in Late /\ req'[b].account = req[b].account
         /\ req'[b].password = req[b].password
    \/ \E o \in Accounts : req'[b].account = o /\ req'[b].password = account[o].password

LEMMA DropStays ==
  ASSUME NEW b \in Requests, Others(b), req[b].pc # "drop", NEW o, Dropping(o)
  PROVE  Dropping(o)'
<1>1. PICK c \in Requests : req[c].pc = "drop" /\ req[c].target = o
  BY DEF Dropping
<1>2. req'[c] = req[c]
  BY <1>1 DEF Others
<1> QED
  BY <1>1, <1>2 DEF Dropping

\* What holds when b neither drops sessions nor changes a password.
LEMMA OldKept ==
  ASSUME TypeInv, OldInv, SessionsKept, PasswordsKept, UNCHANGED stale,
         NEW b \in Requests, Others(b), req[b].pc # "drop", LoginKept(b)
  PROVE  OldInv'
<1>1. OldSessionInv'
  <2> SUFFICES ASSUME NEW id \in Ids, NEW o \in Accounts, sessions'[id].live = TRUE,
                      sessions'[id].owner = o, sessions'[id].password < account'[o].password
               PROVE  id \in stale' \/ Dropping(o)'
    BY DEF OldSessionInv
  <2>1. id \in stale \/ Dropping(o)
    BY DEF OldInv, OldSessionInv, SessionsKept, PasswordsKept
  <2> QED
    BY <2>1, DropStays
<1>2. OldLoginInv'
  <2> SUFFICES ASSUME NEW x \in Requests, NEW o \in Accounts, req'[x].pc \in Late,
                      req'[x].account = o, req'[x].password < account'[o].password
               PROVE  x \in stale' \/ Dropping(o)'
    BY DEF OldLoginInv
  <2>1. account[o].password \in Nat /\ account'[o].password = account[o].password
    BY Bounds DEF TypeInv, AccountInv, AccountType, Passwords, PasswordsKept
  <2>2. /\ req[x].pc \in Late /\ req[x].account = o
        /\ req[x].password < account[o].password
    <3>1. CASE x = b
      BY <2>1, <3>1 DEF LoginKept
    <3>2. CASE x # b
      BY <2>1, <3>2 DEF Others
    <3> QED
      BY <3>1, <3>2
  <2>3. x \in stale \/ Dropping(o)
    BY <2>2 DEF OldInv, OldLoginInv
  <2> QED
    BY <2>3, DropStays
<1> QED
  BY <1>1, <1>2 DEF OldInv

\* Steps that move nobody.
LEMMA OldIdle ==
  ASSUME OldInv, SessionsKept, PasswordsKept, UNCHANGED <<req, stale>>
  PROVE  OldInv'
<1>1. \A o : Dropping(o) => Dropping(o)'
  BY DEF Dropping
<1> QED
  BY <1>1 DEF OldInv, OldSessionInv, OldLoginInv, SessionsKept, PasswordsKept

\* A step of a login.
LEMMA OldLogin ==
  ASSUME TypeInv, OldInv, NEW b \in Requests, LoginStep(b)
  PROVE  OldInv'
<1>0. AccountInv /\ SessionInv /\ RequestInv /\ CountInv
  BY DEF TypeInv
<1>1. req[b].account \in Accounts
  BY DEF TypeInv, RequestInv, RequestType
<1> USE DEF history
<1>3. ASSUME NEW a \in Accounts, NEW p \in Passwords, Login(b, a, p) PROVE OldInv'
  <2>1. UNCHANGED <<account, stale>> /\ SessionsKept /\ req[b].pc = "idle"
    BY <1>3, SessionsStep DEF Login
  <2>2. Others(b) /\ req'[b].pc = "note"
    BY <1>0, <1>3, LoginBegins
  <2> QED
    BY <2>1, <2>2, OldKept, SameAccounts DEF LoginKept, Late
<1>4. CASE Note(b)
  <2>1. UNCHANGED <<account, stale>> /\ SessionsKept /\ req[b].pc = "note"
    BY <1>4, SessionsStep DEF Note
  <2>2. Moved(b, "account")
    BY <1>0, <1>4, GotoMoves DEF Note, Steps
  <2> QED
    BY <2>1, <2>2, OldKept, SameAccounts DEF LoginKept, Late, Moved
<1>5. CASE LoadAccount(b)
  <2>1. UNCHANGED <<account, stale>> /\ SessionsKept /\ req[b].pc = "account"
    BY <1>5, SessionsStep DEF LoadAccount
  <2>2. Returned(b) \/ Moved(b, "verify")
    BY <1>0, <1>5, GotoMoves, ReturnReturns DEF LoadAccount, Steps
  <2> QED
    BY <2>1, <2>2, OldKept, SameAccounts DEF LoginKept, Late, Moved, Returned
<1>6. CASE Verify(b)
  <2>1. UNCHANGED <<account, stale>> /\ SessionsKept /\ req[b].pc = "verify"
    BY <1>6, SessionsStep DEF Verify
  <2>2. \/ Moved(b, "fail")
        \/ Moved(b, "success") /\ req[b].password = account[req[b].account].password
    BY <1>0, <1>6, GotoMoves DEF Verify, Steps
  <2>3. LoginKept(b)
    BY <1>1, <2>2 DEF LoginKept, Late, Moved
  <2> QED
    BY <2>1, <2>2, <2>3, OldKept, SameAccounts DEF Moved
<1>7. CASE NoteFailure(b)
  <2>1. UNCHANGED stale /\ SessionsKept /\ req[b].pc = "fail"
    BY <1>7, SessionsStep DEF NoteFailure
  <2>2. Returned(b)
    BY <1>0, <1>7, ReturnReturns DEF NoteFailure
  <2> QED
    BY <1>7, <2>1, <2>2, OldKept, NotesKeep DEF LoginKept, Late, Returned
<1>8. CASE NoteSuccess(b)
  <2>1. UNCHANGED stale /\ SessionsKept /\ req[b].pc = "success"
    BY <1>8, SessionsStep DEF NoteSuccess
  <2>2. Moved(b, "clear")
    BY <1>0, <1>8, GotoMoves DEF NoteSuccess, Steps
  <2> QED
    BY <1>8, <2>1, <2>2, OldKept, NotesKeep DEF LoginKept, Late, Moved
<1>9. CASE ClearAttempts(b)
  <2>1. UNCHANGED <<account, stale>> /\ SessionsKept /\ req[b].pc = "clear"
    BY <1>9, SessionsStep DEF ClearAttempts
  <2>2. Moved(b, "issue")
    BY <1>0, <1>9, GotoMoves DEF ClearAttempts, Steps
  <2> QED
    BY <2>1, <2>2, OldKept, SameAccounts DEF LoginKept, Late, Moved
<1>10. CASE Issue(b)
  <2> DEFINE s == [owner |-> req[b].account, password |-> req[b].password,
                   expired |-> FALSE, live |-> TRUE]
  <2> DEFINE n == issued + 1
  <2>1. UNCHANGED account /\ req[b].pc = "issue"
    BY <1>10 DEF Issue
  <2>2. Returned(b)
    BY <1>0, <1>10, ReturnReturns DEF Issue
  <2>3. /\ sessions' = [sessions EXCEPT ![n] = s]
        /\ s.owner = req[b].account /\ s.password = req[b].password
    BY <1>10 DEF Issue
  <2>4. stale' = IF b \in stale THEN (stale \ {b}) \cup {n} ELSE stale
    BY <1>10 DEF Issue
  <2>5. \A o : Dropping(o) => Dropping(o)'
    BY <2>1, <2>2, DropStays DEF Returned
  <2> HIDE DEF s, n
  <2>6. OldSessionInv'
    <3> SUFFICES ASSUME NEW id \in Ids, NEW o \in Accounts, sessions'[id].live = TRUE,
                        sessions'[id].owner = o, sessions'[id].password < account'[o].password
                 PROVE  id \in stale' \/ Dropping(o)'
      BY DEF OldSessionInv
    <3>1. CASE id = n
      <4>1. sessions'[id] = s
        BY <1>0, <2>3, <3>1 DEF SessionInv
      <4>2. b \in stale \/ Dropping(o)
        BY <2>1, <2>3, <4>1 DEF OldInv, OldLoginInv, Late
      <4> QED
        BY <2>4, <2>5, <3>1, <4>2
    <3>2. CASE id # n
      <4>1. sessions'[id] = sessions[id]
        BY <1>0, <2>3, <3>2 DEF SessionInv
      <4>2. id \in stale \/ Dropping(o)
        BY <2>1, <4>1 DEF OldInv, OldSessionInv
      <4> QED
        BY <2>4, <2>5, <4>2, Bounds
    <3> QED
      BY <3>1, <3>2
  <2>7. OldLoginInv'
    <3> SUFFICES ASSUME NEW x \in Requests, NEW o \in Accounts, req'[x].pc \in Late,
                        req'[x].account = o, req'[x].password < account'[o].password
                 PROVE  x \in stale' \/ Dropping(o)'
      BY DEF OldLoginInv
    <3>1. x # b /\ req'[x] = req[x]
      BY <2>2 DEF Returned, Others, Late
    <3>2. x \in stale \/ Dropping(o)
      BY <2>1, <3>1 DEF OldInv, OldLoginInv
    <3> QED
      BY <2>4, <2>5, <3>1, <3>2
  <2> QED
    BY <2>6, <2>7 DEF OldInv
<1> QED
  BY <1>3, <1>4, <1>5, <1>6, <1>7, <1>8, <1>9, <1>10 DEF LoginStep

\* The sessions and logins of the target that are dropped are gone or on record, and
\* those of everybody else are still going to be dropped, if they were.
LEMMA OldDropped ==
  ASSUME TypeInv, OldInv, NEW b \in Requests, UNCHANGED account, Returned(b), SessionsKept,
         \A x \in Requests \cup Ids : x # b /\ x \in stale => x \in stale',
         req[b].pc = "drop" =>
           \A o \in Accounts : req[b].target = o =>
             /\ \A id \in Ids : sessions'[id].live = TRUE /\ sessions'[id].owner = o =>
                                  id \in stale'
             /\ \A x \in Requests : req[x].pc \in Late /\ req[x].account = o => x \in stale'
  PROVE  OldInv'
<1>1. ASSUME NEW o \in Accounts, Dropping(o), ~(req[b].pc = "drop" /\ req[b].target = o)
      PROVE  Dropping(o)'
  <2>1. PICK c \in Requests : req[c].pc = "drop" /\ req[c].target = o
    BY <1>1 DEF Dropping
  <2>2. req'[c] = req[c]
    BY <1>1, <2>1 DEF Returned, Others
  <2> QED
    BY <2>1, <2>2 DEF Dropping
<1>2. OldSessionInv'
  <2> SUFFICES ASSUME NEW id \in Ids, NEW o \in Accounts, sessions'[id].live = TRUE,
                      sessions'[id].owner = o, sessions'[id].password < account'[o].password
               PROVE  id \in stale' \/ Dropping(o)'
    BY DEF OldSessionInv
  <2>1. id \in stale \/ Dropping(o)
    BY DEF OldInv, OldSessionInv, SessionsKept
  <2>2. id # b
    BY Bounds
  <2> QED
    BY <1>1, <2>1, <2>2
<1>3. OldLoginInv'
  <2> SUFFICES ASSUME NEW x \in Requests, NEW o \in Accounts, req'[x].pc \in Late,
                      req'[x].account = o, req'[x].password < account'[o].password
               PROVE  x \in stale' \/ Dropping(o)'
    BY DEF OldLoginInv
  <2>1. x # b /\ req'[x] = req[x]
    BY DEF Returned, Others, Late
  <2>2. x \in stale \/ Dropping(o)
    BY <2>1 DEF OldInv, OldLoginInv
  <2> QED
    BY <1>1, <2>1, <2>2
<1> QED
  BY <1>2, <1>3 DEF OldInv

\* A step of another request.
LEMMA OldRequest ==
  ASSUME TypeInv, KnownInv, OldInv, NEW b \in Requests, RequestStep(b)
  PROVE  OldInv'
<1>0. AccountInv /\ SessionInv /\ RequestInv /\ CountInv
  BY DEF TypeInv
<1>1. req[b].account \in Accounts
  BY DEF TypeInv, RequestInv, RequestType
<1> USE DEF history
<1>3. ASSUME NEW id \in Ids, Begin(b, id) PROVE OldInv'
  <2>1. UNCHANGED <<account, stale>> /\ SessionsKept /\ req[b].pc = "idle"
    BY <1>3, SessionsStep DEF Begin
  <2>2. Others(b) /\ req'[b].pc \in {"expired", "owner"}
    BY <1>3, RequestBegins
  <2> QED
    BY <2>1, <2>2, OldKept, SameAccounts DEF LoginKept, Late
<1>4. CASE DropExpired(b) \/ Logout(b) \/ Visit(b)
  <2>1. UNCHANGED <<account, stale>> /\ req[b].pc # "drop"
    BY <1>4 DEF DropExpired, Logout, Visit, Serving
  <2>2. SessionsKept
    BY <1>4, SessionsStep DEF Visit
  <2>3. Returned(b)
    BY <1>0, <1>4, ReturnReturns DEF DropExpired, Logout, Visit
  <2> QED
    BY <2>1, <2>2, <2>3, OldKept, SameAccounts DEF LoginKept, Late, Returned
<1>5. CASE CheckOwner(b)
  <2>1. UNCHANGED <<account, stale>> /\ SessionsKept /\ req[b].pc = "owner"
    BY <1>5, SessionsStep DEF CheckOwner
  <2>2. Returned(b) \/ Moved(b, "touch")
    BY <1>0, <1>5, GotoMoves, ReturnReturns DEF CheckOwner, Steps
  <2> QED
    BY <2>1, <2>2, OldKept, SameAccounts DEF LoginKept, Late, Moved, Returned
<1>6. CASE Touch(b)
  <2>1. UNCHANGED <<account, stale>> /\ SessionsKept /\ req[b].pc = "touch"
    BY <1>6, SessionsStep DEF Touch
  <2>2. Moved(b, "serve")
    BY <1>0, <1>6, GotoMoves DEF Touch, Steps
  <2> QED
    BY <2>1, <2>2, OldKept, SameAccounts DEF LoginKept, Late, Moved
<1>7. ASSUME NEW a \in Accounts, ThenSet(b, a), req[b].pc = "serve" PROVE OldInv'
  <2>1. UNCHANGED <<account, stale>> /\ SessionsKept
    BY <1>7, SessionsStep DEF ThenSet
  <2>2. Moved(b, "set")
    BY <1>0, <1>7, TargetMoves DEF ThenSet, Steps
  <2> QED
    BY <1>7, <2>1, <2>2, OldKept, SameAccounts DEF LoginKept, Late, Moved
<1>8. ASSUME NEW a \in Accounts, CreateAccount(b, a) PROVE OldInv'
  <2>1. UNCHANGED <<sessions, stale>> /\ req[b].pc = "serve"
    BY <1>8 DEF CreateAccount, Administers, Serving
  <2>2. Returned(b)
    BY <1>0, <1>8, ReturnReturns DEF CreateAccount
  <2>3. account[a].password = 0 /\ account' = [account EXCEPT ![a] = NewAccount]
    BY <1>8 DEF CreateAccount, Exists
  <2>4. \A x \in Accounts : x # a => account'[x] = account[x]
    BY <1>0, <2>3 DEF AccountInv
  <2>5. \A o : Dropping(o) => Dropping(o)'
    BY <2>1, <2>2, DropStays DEF Returned
  <2>6. OldSessionInv'
    <3> SUFFICES ASSUME NEW id \in Ids, NEW o \in Accounts, sessions'[id].live = TRUE,
                        sessions'[id].owner = o, sessions'[id].password < account'[o].password
                 PROVE  id \in stale' \/ Dropping(o)'
      BY DEF OldSessionInv
    <3>1. account[o].password # 0
      BY <2>1 DEF KnownInv, LiveInv
    <3>2. o # a
      BY <2>3, <3>1
    <3> QED
      BY <2>1, <2>4, <2>5, <3>2 DEF OldInv, OldSessionInv
  <2>7. OldLoginInv'
    <3> SUFFICES ASSUME NEW x \in Requests, NEW o \in Accounts, req'[x].pc \in Late,
                        req'[x].account = o, req'[x].password < account'[o].password
                 PROVE  x \in stale' \/ Dropping(o)'
      BY DEF OldLoginInv
    <3>1. x # b /\ req'[x] = req[x]
      BY <2>2 DEF Returned, Others, Late
    <3>2. account[o].password # 0
      BY <3>1 DEF KnownInv, EnterInv, Known, Late
    <3>3. o # a
      BY <2>3, <3>2
    <3> QED
      BY <2>1, <2>4, <2>5, <3>1, <3>3 DEF OldInv, OldLoginInv
  <2> QED
    BY <2>6, <2>7 DEF OldInv
<1>9. ASSUME NEW a \in Accounts, Enable(b, a) PROVE OldInv'
  <2>1. UNCHANGED <<sessions, stale>> /\ req[b].pc = "serve"
    BY <1>9 DEF Enable, Administers, Serving
  <2>2. Enabled(b, a)
    BY <1>0, <1>9, EnableMoves
  <2>3. PasswordsKept
    BY <1>0, <1>9, SetActive DEF Enable, OtherAccounts, PasswordsKept
  <2>4. ASSUME NEW o, Dropping(o) PROVE Dropping(o)'
    BY <2>1, <2>2, <2>4 DEF Dropping, Enabled
  <2>5. OldSessionInv'
    BY <2>1, <2>3, <2>4 DEF OldInv, OldSessionInv, PasswordsKept
  <2>6. OldLoginInv'
    BY <2>1, <2>2, <2>3, <2>4 DEF OldInv, OldLoginInv, PasswordsKept, Enabled, Late
  <2> QED
    BY <2>5, <2>6 DEF OldInv
<1>10. ASSUME NEW a \in Accounts, Disable(b, a) PROVE OldInv'
  <2>1. UNCHANGED stale /\ SessionsKept /\ req[b].pc = "serve"
    BY <1>10, SessionsStep DEF Disable, Administers, Serving
  <2>2. Moved(b, "drop")
    BY <1>0, <1>10, TargetMoves DEF Disable, Steps
  <2>3. PasswordsKept
    BY <1>0, <1>10, SetActive DEF Disable, OtherAccounts, PasswordsKept
  <2> QED
    BY <2>1, <2>2, <2>3, OldKept DEF LoginKept, Late, Moved
<1>11. CASE SetPassword(b)
  <2>1. UNCHANGED <<sessions, stale>> /\ req[b].pc = "set"
    BY <1>11 DEF SetPassword
  <2>2. Moved(b, "drop") /\ req'[b].target = req[b].target
    BY <1>0, <1>11, GotoMoves DEF SetPassword, Steps
  <2>3. \A x \in Accounts : x # req[b].target => account'[x] = account[x]
    BY <1>0, <1>11, PasswordSet DEF OtherAccounts
  <2>4. \A o : Dropping(o) => Dropping(o)'
    BY <2>1, <2>2, DropStays DEF Moved
  <2>5. \A o : req[b].target = o => Dropping(o)'
    BY <2>2 DEF Moved, Dropping
  <2>6. OldSessionInv'
    BY <2>1, <2>3, <2>4, <2>5 DEF OldInv, OldSessionInv
  <2>7. OldLoginInv'
    BY <2>1, <2>2, <2>3, <2>4, <2>5 DEF OldInv, OldLoginInv, Moved, Others, Late
  <2> QED
    BY <2>6, <2>7 DEF OldInv
<1>12. CASE DropSessions(b)
  <2> DEFINE gone == SessionsOf(req[b].target)
  <2>1. UNCHANGED account /\ SessionsKept
    BY <1>12, SessionsStep DEF DropSessions
  <2>2. Returned(b)
    BY <1>0, <1>12, ReturnReturns DEF DropSessions
  <2>3. sessions' = Without(gone)
    BY <1>12 DEF DropSessions, Dropped
  <2>4. \A id \in Ids : sessions'[id] = IF id \in gone THEN NoSession ELSE sessions[id]
    BY <1>0, <2>3, WithoutType
  <2>5. NoSession.live = FALSE
    BY DEF NoSession
  <2>6. \A id \in Ids : ~(sessions'[id].live = TRUE /\ sessions'[id].owner = req[b].target)
    BY <2>4, <2>5 DEF SessionsOf
  <2>7. stale' = stale \cup Entering(req[b].target)
    BY <1>12 DEF DropSessions
  <2> QED
    BY <2>1, <2>2, <2>6, <2>7, OldDropped DEF Entering, Late
<1>13. CASE Cut(b)
  <2>1. UNCHANGED <<account, sessions>> /\ SessionsKept
    BY <1>13, SessionsStep DEF Cut
  <2>2. Returned(b)
    BY <1>0, <1>13, ReturnReturns DEF Cut
  <2>3. stale' = IF req[b].pc = "drop"
                   THEN stale \cup SessionsOf(req[b].target) \cup Entering(req[b].target)
                   ELSE stale \ {b}
    BY <1>13 DEF Cut
  <2> QED
    BY <2>1, <2>2, <2>3, OldDropped DEF Entering, SessionsOf, Late
<1> QED
  BY <1>1, <1>3, <1>4, <1>5, <1>6, <1>7, <1>8, <1>9, <1>10, <1>11, <1>12, <1>13
     DEF RequestStep, ChangePassword, ResetPassword, Administers, Serving

LEMMA OldInit == Init => OldInv
<1> SUFFICES ASSUME Init PROVE OldInv
  OBVIOUS
<1>1. \A b \in Requests : req[b].pc = "idle"
  BY DEF Init, NoRequest, Request
<1>2. \A id \in Ids : sessions[id].live = FALSE
  BY DEF Init, NoSession
<1> QED
  BY <1>1, <1>2 DEF OldInv, OldSessionInv, OldLoginInv, Late

LEMMA OldStep == TypeInv /\ KnownInv /\ OldInv /\ [Next]_vars => OldInv'
<1> SUFFICES ASSUME TypeInv, KnownInv, OldInv, [Next]_vars PROVE OldInv'
  OBVIOUS
<1>1. ASSUME NEW id \in Ids, Expire(id) PROVE OldInv'
  BY <1>1, SessionsStep, SameAccounts, OldIdle DEF Expire, history
<1>2. ASSUME NEW a \in Accounts, LockLapses(a) PROVE OldInv'
  BY <1>2, SessionsStep, LapseKeeps, OldIdle DEF LockLapses, TypeInv
<1>3. CASE AttemptLapses
  BY <1>3, SessionsStep, SameAccounts, OldIdle DEF AttemptLapses, history
<1>4. CASE Prune
  BY <1>4, SessionsStep, SameAccounts, OldIdle DEF Prune, history
<1>5. CASE UNCHANGED vars
  BY <1>5, SessionsStep, SameAccounts, OldIdle DEF vars
<1> QED
  BY <1>1, <1>2, <1>3, <1>4, <1>5, OldLogin, OldRequest DEF Next

LEMMA OldAlways == Spec => []OldInv
  BY TypeAlways, KnownAlways, OldInit, OldStep, PTL DEF Spec

\* Once a changed password is in force and the sessions were dropped, a session that
\* goes back to an older one belongs to a login that had already verified it at that
\* moment, or the dropping failed (ChangePassword).
THEOREM AChangedPasswordEndsSessions == Spec => []OldPasswordEndsSessions
<1>1. TypeInv /\ OldInv => OldPasswordEndsSessions
  <2> SUFFICES ASSUME TypeInv, OldInv, NEW id \in Ids, sessions[id].live,
                      sessions[id].password < account[sessions[id].owner].password
               PROVE  id \in stale \/ Dropping(sessions[id].owner)
    BY DEF OldPasswordEndsSessions, Dropping
  <2>1. sessions[id].live = TRUE
    BY Zenon DEF TypeInv, SessionInv, SessionType
  <2>2. sessions[id].owner \in Accounts
    BY DEF TypeInv, SessionInv, SessionType
  <2> QED
    BY <2>1, <2>2 DEF OldInv, OldSessionInv
<1> QED
  BY <1>1, TypeAlways, OldAlways, PTL

-----------------------------------------------------------------------------
(* The limits, and what parallel logins add to them *)

Noting == {b \in Requests : req[b].pc = "note"}
Trying(a) == {b \in Requests : req[b].pc = "verify" /\ req[b].account = a}
Wrong(a) == {b \in Requests : req[b].pc = "fail" /\ req[b].account = a}

\* Every attempt that was let through is counted or about to be.
AttemptInv == attempts + Cardinality(Noting) <= MaxAttempts + Cardinality(Requests) - 1

\* A counter that has reached the threshold, under a lock that lapsed, counts nothing.
Counted(a) == IF account[a].failed < Threshold THEN account[a].failed ELSE 0

\* Every wrong password of an open account is counted, or about to be, or its count
\* failed; and no more are tried than were tried when the account was open, and by
\* every request at once.
OpenInv ==
  \A a \in Accounts :
    account[a].locked = FALSE =>
      guesses[a] <= Cardinality(Wrong(a)) + Counted(a) + faults

TriedInv ==
  \A a \in Accounts :
    guesses[a] + Cardinality(Trying(a)) <= Threshold + Cardinality(Requests) - 1 + faults

NobodyInv == \A a \in Accounts : account[a].password = 0 => guesses[a] = 0

GuessInv == OpenInv /\ TriedInv /\ NobodyInv

LEMMA Cardinals ==
  /\ Cardinality(Requests) \in Nat \ {0}
  /\ \A S \in SUBSET Requests :
       /\ IsFiniteSet(S) /\ Cardinality(S) \in Nat
       /\ Cardinality(S) <= Cardinality(Requests)
<1>1. IsFiniteSet(Requests) /\ Requests # {}
  BY AccountsAssumption DEF AccountsAssumption
<1>2. Cardinality(Requests) \in Nat
  BY <1>1, FS_CardinalityType
<1>3. Cardinality(Requests) # 0
  BY <1>1, FS_EmptySet
<1>4. ASSUME NEW S \in SUBSET Requests
      PROVE  /\ IsFiniteSet(S) /\ Cardinality(S) \in Nat
             /\ Cardinality(S) <= Cardinality(Requests)
  <2>1. IsFiniteSet(S) /\ Cardinality(S) <= Cardinality(Requests)
    BY <1>1, FS_Subset
  <2> QED
    BY <2>1, FS_CardinalityType
<1> QED
  BY <1>2, <1>3, <1>4

\* A set that gains or loses at most b.
LEMMA Grows ==
  ASSUME NEW S \in SUBSET Requests, NEW T \in SUBSET Requests, S \subseteq T
  PROVE  Cardinality(S) <= Cardinality(T)
  BY Cardinals, FS_Subset

LEMMA GainsOne ==
  ASSUME NEW S \in SUBSET Requests, NEW b \in Requests, b \notin S
  PROVE  Cardinality(S \cup {b}) = Cardinality(S) + 1
  BY Cardinals, FS_AddElement

LEMMA LosesOne ==
  ASSUME NEW S \in SUBSET Requests, NEW b \in S
  PROVE  Cardinality(S \ {b}) = Cardinality(S) - 1
  BY Cardinals, FS_RemoveElement

\* Whoever is not b stays where it is.
Same(b) == \A x \in Requests : x # b => req'[x].pc = req[x].pc /\ req'[x].account = req[x].account

LEMMA OthersSame ==
  ASSUME NEW b \in Requests, Others(b)
  PROVE  Same(b)
  BY DEF Others, Same

\* No attempt is let through or noted.
LEMMA AttemptQuiet ==
  ASSUME TypeInv, TypeInv', AttemptInv, NEW b \in Requests, Same(b), attempts' <= attempts,
         req'[b].pc = "note" => req[b].pc = "note"
  PROVE  AttemptInv'
<1>1. Noting' \subseteq Noting
  BY DEF Noting, Same
<1>2. Noting \in SUBSET Requests /\ Noting' \in SUBSET Requests
  BY DEF Noting
<1>3. Cardinality(Noting') <= Cardinality(Noting)
  BY <1>1, <1>2, Grows
<1>4. /\ Cardinality(Noting) \in Nat /\ Cardinality(Noting') \in Nat
      /\ attempts \in Nat /\ attempts' \in Nat
  BY <1>2, Cardinals DEF TypeInv, CountInv
<1> QED
  BY <1>3, <1>4, Cardinals, Bounds DEF AttemptInv

LEMMA CardinalsOf ==
  ASSUME NEW a \in Accounts
  PROVE  /\ Trying(a) \in SUBSET Requests /\ Wrong(a) \in SUBSET Requests
         /\ Cardinality(Trying(a)) \in Nat /\ Cardinality(Wrong(a)) \in Nat
         /\ Cardinality(Trying(a)) + Cardinality(Wrong(a)) <= Cardinality(Requests)
<1>1. Trying(a) \in SUBSET Requests /\ Wrong(a) \in SUBSET Requests
  BY DEF Trying, Wrong
<1>2. Trying(a) \cap Wrong(a) = {}
  BY DEF Trying, Wrong
<1>3. Cardinality(Trying(a) \cup Wrong(a)) =
        Cardinality(Trying(a)) + Cardinality(Wrong(a)) - Cardinality(Trying(a) \cap Wrong(a))
  BY <1>1, Cardinals, FS_Union
<1>4. Cardinality(Trying(a) \cap Wrong(a)) = 0
  BY <1>2, FS_EmptySet
<1>5. Cardinality(Trying(a) \cup Wrong(a)) <= Cardinality(Requests)
  BY <1>1, Cardinals
<1>6. Cardinality(Trying(a)) \in Nat /\ Cardinality(Wrong(a)) \in Nat
  BY <1>1, Cardinals
<1> QED
  BY <1>1, <1>3, <1>4, <1>5, <1>6

\* No password is tried; a wrong one that was is forgotten with the others, or stays
\* where it was.
LEMMA GuessQuiet ==
  ASSUME TypeInv, TypeInv', GuessInv, NEW b \in Requests, Same(b), faults <= faults',
         req'[b].pc = "verify" => req[b].pc = "verify" /\ req'[b].account = req[b].account,
         req[b].pc = "fail" => req'[b].pc = "fail" /\ req'[b].account = req[b].account,
         \A a \in Accounts :
            \/ guesses'[a] = 0
            \/ /\ guesses'[a] = guesses[a]
               /\ account'[a].failed = account[a].failed
               /\ account'[a].locked = account[a].locked
               /\ account'[a].password = 0 => account[a].password = 0
  PROVE  GuessInv'
<1> SUFFICES ASSUME NEW a \in Accounts
             PROVE  /\ account'[a].locked = FALSE =>
                         guesses'[a] <= Cardinality(Wrong(a)') + Counted(a)' + faults'
                    /\ guesses'[a] + Cardinality(Trying(a)')
                         <= Threshold + Cardinality(Requests) - 1 + faults'
                    /\ account'[a].password = 0 => guesses'[a] = 0
  BY DEF GuessInv, OpenInv, TriedInv, NobodyInv
<1>1. /\ guesses[a] \in Nat /\ guesses'[a] \in Nat /\ faults \in Nat /\ faults' \in Nat
      /\ account[a].failed \in Nat /\ account'[a].failed \in Nat
  BY Bounds DEF TypeInv, CountInv, AccountInv, AccountType
<1>2. Counted(a) \in Nat /\ Counted(a)' \in Nat
  BY <1>1 DEF Counted
<1>3. /\ Trying(a)' \in SUBSET Requests /\ Wrong(a)' \in SUBSET Requests
      /\ Trying(a)' \subseteq Trying(a) /\ Wrong(a) \subseteq Wrong(a)'
  BY DEF Trying, Wrong, Same
<1>4. Cardinality(Trying(a)') <= Cardinality(Trying(a))
  BY <1>3, CardinalsOf, Grows
<1>5. Cardinality(Wrong(a)) <= Cardinality(Wrong(a)')
  BY <1>3, CardinalsOf, Grows
<1>6. /\ Cardinality(Trying(a)') \in Nat /\ Cardinality(Wrong(a)') \in Nat
      /\ Cardinality(Trying(a)') <= Cardinality(Requests)
      /\ Cardinality(Requests) \in Nat
  BY <1>3, Cardinals
<1>7. Cardinality(Trying(a)) \in Nat /\ Cardinality(Wrong(a)) \in Nat
  BY CardinalsOf
<1>8. CASE guesses'[a] = 0
  BY <1>1, <1>2, <1>6, <1>8, Bounds
<1>9. CASE /\ guesses'[a] = guesses[a]
           /\ account'[a].failed = account[a].failed
           /\ account'[a].locked = account[a].locked
           /\ account'[a].password = 0 => account[a].password = 0
  <2>1. Counted(a)' = Counted(a)
    BY <1>9 DEF Counted
  <2>2. /\ guesses[a] + Cardinality(Trying(a)) <= Threshold + Cardinality(Requests) - 1 + faults
        /\ account[a].password = 0 => guesses[a] = 0
    BY DEF GuessInv, TriedInv, NobodyInv
  <2>3. guesses'[a] + Cardinality(Trying(a)') <= Threshold + Cardinality(Requests) - 1 + faults'
    BY <1>1, <1>4, <1>6, <1>7, <1>9, <2>2, Bounds
  <2>4. ASSUME account'[a].locked = FALSE
        PROVE  guesses'[a] <= Cardinality(Wrong(a)') + Counted(a)' + faults'
    <3>1. account[a].locked = FALSE
      BY <1>9, <2>4, Zenon
    <3>2. guesses[a] <= Cardinality(Wrong(a)) + Counted(a) + faults
      BY <3>1 DEF GuessInv, OpenInv
    <3> QED
      BY <1>1, <1>2, <1>5, <1>6, <1>7, <1>9, <2>1, <3>2
  <2> QED
    BY <1>9, <2>2, <2>3, <2>4
<1> QED
  BY <1>8, <1>9

LimitInv == AttemptInv /\ GuessInv

\* Nothing that counts happens to the accounts.
CountsKept ==
  \A a \in Accounts :
    \/ guesses'[a] = 0
    \/ /\ guesses'[a] = guesses[a]
       /\ account'[a].failed = account[a].failed
       /\ account'[a].locked = account[a].locked
       /\ account'[a].password = 0 => account[a].password = 0

\* Steps of b between two places where nothing counts.
LEMMA LimitQuiet ==
  ASSUME TypeInv, TypeInv', LimitInv, NEW b \in Requests, Same(b), CountsKept,
         attempts' <= attempts, faults <= faults',
         req[b].pc # "fail", req'[b].pc \notin {"note", "verify"}
  PROVE  LimitInv'
<1>1. AttemptInv'
  BY AttemptQuiet DEF LimitInv
<1>2. GuessInv'
  BY GuessQuiet DEF LimitInv, CountsKept
<1> QED
  BY <1>1, <1>2 DEF LimitInv

LEMMA FaultGrows == CountInv /\ (UNCHANGED faults \/ Fault) => faults <= faults'
  BY Bounds DEF CountInv, Fault

LEMMA AttemptsStay == CountInv /\ UNCHANGED attempts => attempts' <= attempts
  BY DEF CountInv

LEMMA CountsStay == UNCHANGED <<account, guesses>> => CountsKept
  BY DEF CountsKept

\* The password of a login is compared.
LEMMA VerifyLimits ==
  ASSUME TypeInv, TypeInv', KnownInv, LimitInv, NEW b \in Requests, Verify(b)
  PROVE  GuessInv'
<1> DEFINE o == req[b].account
<1>0. /\ AccountInv /\ RequestInv /\ CountInv /\ o \in Accounts
      /\ req[b].pc = "verify" /\ account[o].password # 0
  BY DEF TypeInv, RequestInv, RequestType, Verify, KnownInv, EnterInv, Known
<1>1. UNCHANGED <<account, faults>>
  BY DEF Verify
<1>2. CASE Goto(b, "success") /\ UNCHANGED guesses
  <2>1. Moved(b, "success")
    BY <1>0, <1>2, GotoMoves DEF Steps
  <2>2. faults <= faults'
    BY <1>0, <1>1, FaultGrows
  <2> QED
    BY <1>0, <1>1, <1>2, <2>1, <2>2, OthersSame, GuessQuiet DEF Moved, LimitInv
<1>3. CASE Goto(b, "fail") /\ guesses' = [guesses EXCEPT ![o] = @ + 1]
  <2>1. Moved(b, "fail")
    BY <1>0, <1>3, GotoMoves DEF Steps
  <2> SUFFICES ASSUME NEW a \in Accounts
               PROVE  /\ account'[a].locked = FALSE =>
                           guesses'[a] <= Cardinality(Wrong(a)') + Counted(a)' + faults'
                      /\ guesses'[a] + Cardinality(Trying(a)')
                           <= Threshold + Cardinality(Requests) - 1 + faults'
                      /\ account'[a].password = 0 => guesses'[a] = 0
    BY DEF GuessInv, OpenInv, TriedInv, NobodyInv
  <2>2. /\ account[a].locked = FALSE =>
             guesses[a] <= Cardinality(Wrong(a)) + Counted(a) + faults
        /\ guesses[a] + Cardinality(Trying(a)) <= Threshold + Cardinality(Requests) - 1 + faults
        /\ account[a].password = 0 => guesses[a] = 0
    BY DEF LimitInv, GuessInv, OpenInv, TriedInv, NobodyInv
  <2>3. Counted(a)' = Counted(a)
    BY <1>1 DEF Counted
  <2>4. CASE a # o
    <3>1. Trying(a)' = Trying(a) /\ Wrong(a)' = Wrong(a)
      BY <2>1, <2>4 DEF Moved, Others, Trying, Wrong
    <3>2. guesses'[a] = guesses[a]
      BY <1>0, <1>3, <2>4 DEF CountInv
    <3> QED
      BY <1>1, <2>2, <2>3, <3>1, <3>2
  <2>5. CASE a = o
    <3>1. /\ Trying(a)' = Trying(a) \ {b} /\ b \in Trying(a)
          /\ Wrong(a)' = Wrong(a) \cup {b} /\ b \notin Wrong(a)
      BY <1>0, <2>1, <2>5 DEF Moved, Others, Trying, Wrong
    <3>2. /\ Cardinality(Trying(a)') = Cardinality(Trying(a)) - 1
          /\ Cardinality(Wrong(a)') = Cardinality(Wrong(a)) + 1
      BY <3>1, CardinalsOf, GainsOne, LosesOne
    <3>3. guesses'[a] = guesses[a] + 1 /\ guesses[a] \in Nat /\ faults \in Nat
      BY <1>0, <1>3, <2>5, Bounds DEF CountInv
    <3>4. Counted(a) \in Nat
      BY <1>0, Bounds DEF Counted, AccountInv, AccountType
    <3>5. Cardinality(Trying(a)) \in Nat /\ Cardinality(Wrong(a)) \in Nat
      BY CardinalsOf
    <3>6. guesses'[a] + Cardinality(Trying(a)') <= Threshold + Cardinality(Requests) - 1 + faults'
      BY <1>1, <2>2, <3>2, <3>3, <3>5, Cardinals, Bounds
    <3>7. ASSUME account'[a].locked = FALSE
          PROVE  guesses'[a] <= Cardinality(Wrong(a)') + Counted(a)' + faults'
      <4>1. guesses[a] <= Cardinality(Wrong(a)) + Counted(a) + faults
        BY <1>1, <2>2, <3>7
      <4> QED
        BY <1>1, <2>3, <3>2, <3>3, <3>4, <3>5, <4>1
    <3> QED
      BY <1>0, <1>1, <2>5, <3>6, <3>7
  <2> QED
    BY <2>4, <2>5
<1> QED
  BY <1>2, <1>3 DEF Verify

\* A login gets to its account.
LEMMA LoadLimits ==
  ASSUME TypeInv, TypeInv', LimitInv, NEW b \in Requests, LoadAccount(b)
  PROVE  GuessInv'
<1> DEFINE o == req[b].account
<1>0. AccountInv /\ RequestInv /\ CountInv /\ o \in Accounts /\ req[b].pc = "account"
  BY DEF TypeInv, RequestInv, RequestType, LoadAccount
<1>1. UNCHANGED <<account, faults, guesses>>
  BY DEF LoadAccount, history
<1>2. CASE Return(b)
  <2>1. Returned(b)
    BY <1>0, <1>2, ReturnReturns
  <2>2. faults <= faults'
    BY <1>0, <1>1, FaultGrows
  <2> QED
    BY <1>0, <1>1, <2>1, <2>2, OthersSame, GuessQuiet DEF Returned, LimitInv
<1>3. CASE Goto(b, "verify") /\ ~account[o].locked
  <2>1. Moved(b, "verify")
    BY <1>0, <1>3, GotoMoves DEF Steps
  <2> SUFFICES ASSUME NEW a \in Accounts
               PROVE  /\ account'[a].locked = FALSE =>
                           guesses'[a] <= Cardinality(Wrong(a)') + Counted(a)' + faults'
                      /\ guesses'[a] + Cardinality(Trying(a)')
                           <= Threshold + Cardinality(Requests) - 1 + faults'
                      /\ account'[a].password = 0 => guesses'[a] = 0
    BY DEF GuessInv, OpenInv, TriedInv, NobodyInv
  <2>2. /\ account[a].locked = FALSE =>
             guesses[a] <= Cardinality(Wrong(a)) + Counted(a) + faults
        /\ guesses[a] + Cardinality(Trying(a)) <= Threshold + Cardinality(Requests) - 1 + faults
        /\ account[a].password = 0 => guesses[a] = 0
    BY DEF LimitInv, GuessInv, OpenInv, TriedInv, NobodyInv
  <2>3. Counted(a)' = Counted(a) /\ Wrong(a)' = Wrong(a)
    BY <1>0, <1>1, <2>1 DEF Counted, Wrong, Moved, Others
  <2>4. CASE a # o
    <3>1. Trying(a)' = Trying(a)
      BY <1>0, <2>1, <2>4 DEF Moved, Others, Trying
    <3> QED
      BY <1>1, <2>2, <2>3, <3>1
  <2>5. CASE a = o
    <3>1. account[a].locked = FALSE
      BY <1>0, <1>3, <2>5, Zenon DEF AccountInv, AccountType
    <3>2. guesses[a] <= Cardinality(Wrong(a)) + Counted(a) + faults
      BY <2>2, <3>1
    <3>3. Counted(a) \in Nat /\ Counted(a) <= Threshold - 1
      BY <1>0, Bounds DEF Counted, AccountInv, AccountType
    <3>4. /\ Trying(a)' \in SUBSET Requests /\ Wrong(a) \in SUBSET Requests
          /\ Trying(a)' \cap Wrong(a) = {}
      BY <2>3 DEF Trying, Wrong
    <3> DEFINE T == Trying(a)'
    <3> DEFINE W == Wrong(a)
    <3> HIDE DEF T, W
    <3>5. Cardinality(T) + Cardinality(W) <= Cardinality(Requests)
      <4>1. T \in SUBSET Requests /\ W \in SUBSET Requests /\ T \cap W = {}
        BY <3>4 DEF T, W
      <4>2. Cardinality(T \cup W) = Cardinality(T) + Cardinality(W) - Cardinality(T \cap W)
        BY <4>1, Cardinals, FS_Union
      <4>3. Cardinality(T \cap W) = 0
        BY <4>1, FS_EmptySet
      <4>4. Cardinality(T \cup W) <= Cardinality(Requests)
        BY <4>1, Cardinals
      <4>5. Cardinality(T) \in Nat /\ Cardinality(W) \in Nat
        BY <4>1, Cardinals
      <4> QED
        BY <4>2, <4>3, <4>4, <4>5
    <3>6. /\ Cardinality(T) \in Nat /\ Cardinality(W) \in Nat
          /\ guesses[a] \in Nat /\ faults \in Nat
      BY <1>0, <3>4, Cardinals, Bounds DEF CountInv, T, W
    <3>7. guesses[a] + Cardinality(T) <= Threshold + Cardinality(Requests) - 1 + faults
      BY <3>2, <3>3, <3>5, <3>6, Cardinals, Bounds DEF W
    <3> QED
      BY <1>1, <2>2, <2>3, <3>7 DEF T
  <2> QED
    BY <2>4, <2>5
<1> QED
  BY <1>2, <1>3 DEF LoadAccount

\* A wrong password is counted, or that fails.
LEMMA FailureLimits ==
  ASSUME TypeInv, TypeInv', LimitInv, NEW b \in Requests, NoteFailure(b)
  PROVE  GuessInv'
<1> DEFINE o == req[b].account
<1>0. /\ AccountInv /\ RequestInv /\ CountInv /\ o \in Accounts /\ req[b].pc = "fail"
      /\ account[o] \in AccountType
  BY DEF TypeInv, RequestInv, RequestType, NoteFailure, AccountInv
<1>1. UNCHANGED guesses
  BY DEF NoteFailure, history
<1>2. Returned(b)
  BY <1>0, ReturnReturns DEF NoteFailure
<1>3. PasswordsKept
  BY NotesKeep
<1> SUFFICES ASSUME NEW a \in Accounts
             PROVE  /\ account'[a].locked = FALSE =>
                         guesses'[a] <= Cardinality(Wrong(a)') + Counted(a)' + faults'
                    /\ guesses'[a] + Cardinality(Trying(a)')
                         <= Threshold + Cardinality(Requests) - 1 + faults'
                    /\ account'[a].password = 0 => guesses'[a] = 0
  BY DEF GuessInv, OpenInv, TriedInv, NobodyInv
<1>4. /\ account[a].locked = FALSE =>
           guesses[a] <= Cardinality(Wrong(a)) + Counted(a) + faults
      /\ guesses[a] + Cardinality(Trying(a)) <= Threshold + Cardinality(Requests) - 1 + faults
      /\ account[a].password = 0 => guesses[a] = 0
  BY DEF LimitInv, GuessInv, OpenInv, TriedInv, NobodyInv
<1>5. /\ faults \in Nat /\ faults' \in Nat /\ guesses[a] \in Nat
      /\ Counted(a) \in Nat /\ account[a].failed \in Nat
      /\ Cardinality(Trying(a)) \in Nat /\ Cardinality(Wrong(a)) \in Nat
  BY <1>0, Bounds, CardinalsOf DEF TypeInv, CountInv, Counted, AccountInv, AccountType
<1>6. Trying(a)' = Trying(a)
  BY <1>0, <1>2 DEF Returned, Others, Trying
<1>7. faults <= faults'
  BY <1>0, FaultGrows DEF NoteFailure
<1>8. ASSUME account'[a].locked = FALSE
      PROVE  guesses[a] <= Cardinality(Wrong(a)') + Counted(a)' + faults'
  <2>1. CASE a # o
    <3>1. Wrong(a)' = Wrong(a)
      BY <1>2, <2>1 DEF Returned, Others, Wrong
    <3>2. account'[a] = account[a]
      BY <1>0, <2>1 DEF NoteFailure, AccountInv
    <3>3. Counted(a)' = Counted(a)
      BY <3>2 DEF Counted
    <3> QED
      BY <1>4, <1>5, <1>7, <1>8, <3>1, <3>2, <3>3
  <2>2. CASE a = o
    <3>1. Wrong(a)' = Wrong(a) \ {b} /\ b \in Wrong(a)
      BY <1>0, <1>2, <2>2 DEF Returned, Others, Wrong
    <3>2. Cardinality(Wrong(a)') = Cardinality(Wrong(a)) - 1
      BY <3>1, CardinalsOf, LosesOne
    <3>3. CASE UNCHANGED account /\ Fault
      <4>1. faults' = faults + 1 /\ Counted(a)' = Counted(a)
        BY <3>3 DEF Fault, Counted
      <4>2. account[a].locked = FALSE
        BY <1>8, <3>3
      <4> QED
        BY <1>4, <1>5, <3>2, <4>1, <4>2
    <3>4. CASE account' = [account EXCEPT ![o] = Failed(account[o])] /\ UNCHANGED faults
      <4> DEFINE f == Failed(account[a])
      <4>1. account'[a] = f
        BY <1>0, <2>2, <3>4 DEF AccountInv
      <4>2. /\ f.failed = IF account[a].failed < Threshold THEN account[a].failed + 1
                          ELSE account[a].failed
            /\ f.locked = FALSE =>
                 account[a].locked = FALSE /\ account[a].failed + 1 < Threshold
        BY <1>0, <2>2, FailedType
      <4> HIDE DEF f
      <4>3. account[a].locked = FALSE /\ account[a].failed + 1 < Threshold
        BY <1>8, <4>1, <4>2
      <4>4. Counted(a) = account[a].failed /\ Counted(a)' = account[a].failed + 1
        BY <1>5, <4>1, <4>2, <4>3, Bounds DEF Counted
      <4>5. guesses[a] <= Cardinality(Wrong(a)) + Counted(a) + faults
        BY <1>4, <4>3
      <4> QED
        BY <1>5, <3>2, <3>4, <4>4, <4>5
    <3> QED
      BY <3>3, <3>4 DEF NoteFailure
  <2> QED
    BY <2>1, <2>2
<1>9. guesses[a] + Cardinality(Trying(a)') <= Threshold + Cardinality(Requests) - 1 + faults'
  BY <1>4, <1>5, <1>6, <1>7, Cardinals, Bounds
<1> QED
  BY <1>1, <1>3, <1>4, <1>8, <1>9 DEF PasswordsKept

\* A step of a login.
LEMMA LimitLogin ==
  ASSUME TypeInv, TypeInv', KnownInv, LimitInv, NEW b \in Requests, LoginStep(b)
  PROVE  LimitInv'
<1>0. RequestInv /\ CountInv
  BY DEF TypeInv
<1> USE DEF history
<1>1. ASSUME NEW a \in Accounts, NEW p \in Passwords, Login(b, a, p) PROVE LimitInv'
  <2>1. UNCHANGED <<account, guesses, attempts, faults>> /\ req[b].pc = "idle"
    BY <1>1 DEF Login
  <2>2. Others(b) /\ req'[b].pc = "note"
    BY <1>0, <1>1, LoginBegins
  <2>3. faults <= faults' /\ CountsKept
    BY <1>0, <2>1, FaultGrows, CountsStay
  <2>4. GuessInv'
    BY <2>1, <2>2, <2>3, OthersSame, GuessQuiet DEF LimitInv, CountsKept
  <2>5. attempts < MaxAttempts /\ attempts \in Nat
    BY <1>0, <1>1 DEF Login, MayTry, CountInv
  <2>6. Noting' \in SUBSET Requests
    BY DEF Noting
  <2>7. Cardinality(Noting') \in Nat /\ Cardinality(Noting') <= Cardinality(Requests)
    BY <2>6, Cardinals
  <2>8. AttemptInv'
    BY <2>1, <2>5, <2>7, Cardinals, Bounds DEF AttemptInv
  <2> QED
    BY <2>4, <2>8 DEF LimitInv
<1>2. CASE Note(b)
  <2>1. UNCHANGED <<account, guesses>> /\ req[b].pc = "note"
    BY <1>2 DEF Note
  <2>2. Moved(b, "account")
    BY <1>0, <1>2, GotoMoves DEF Note, Steps
  <2>3. faults <= faults' /\ CountsKept
    BY <1>0, <1>2, <2>1, FaultGrows, CountsStay DEF Note
  <2>4. GuessInv'
    BY <2>1, <2>2, <2>3, OthersSame, GuessQuiet DEF LimitInv, CountsKept, Moved
  <2>5. Noting' = Noting \ {b} /\ b \in Noting /\ Noting \in SUBSET Requests
    BY <2>1, <2>2 DEF Noting, Moved, Others
  <2>6. Cardinality(Noting') = Cardinality(Noting) - 1 /\ Cardinality(Noting) \in Nat
    BY <2>5, LosesOne, Cardinals
  <2>7. attempts' <= attempts + 1 /\ attempts \in Nat /\ attempts' \in Nat
    BY <1>0, <1>2 DEF Note, CountInv, TypeInv
  <2>8. AttemptInv'
    BY <2>6, <2>7, Cardinals, Bounds DEF LimitInv, AttemptInv
  <2> QED
    BY <2>4, <2>8 DEF LimitInv
<1>3. CASE LoadAccount(b)
  <2>1. UNCHANGED attempts /\ (Returned(b) \/ Moved(b, "verify"))
    BY <1>0, <1>3, GotoMoves, ReturnReturns DEF LoadAccount, Steps
  <2>2. AttemptInv'
    BY <1>0, <2>1, AttemptsStay, OthersSame, AttemptQuiet DEF LimitInv, Moved, Returned
  <2> QED
    BY <1>3, <2>2, LoadLimits DEF LimitInv
<1>4. CASE Verify(b)
  <2>1. UNCHANGED attempts /\ (Moved(b, "success") \/ Moved(b, "fail"))
    BY <1>0, <1>4, GotoMoves DEF Verify, Steps
  <2>2. AttemptInv'
    BY <1>0, <2>1, AttemptsStay, OthersSame, AttemptQuiet DEF LimitInv, Moved
  <2> QED
    BY <1>4, <2>2, VerifyLimits DEF LimitInv
<1>5. CASE NoteFailure(b)
  <2>1. UNCHANGED attempts /\ Returned(b)
    BY <1>0, <1>5, ReturnReturns DEF NoteFailure
  <2>2. AttemptInv'
    BY <1>0, <2>1, AttemptsStay, OthersSame, AttemptQuiet DEF LimitInv, Returned
  <2> QED
    BY <1>5, <2>2, FailureLimits DEF LimitInv
<1>6. CASE NoteSuccess(b)
  <2>1. UNCHANGED attempts /\ req[b].pc = "success"
    BY <1>6 DEF NoteSuccess
  <2>2. Moved(b, "clear")
    BY <1>0, <1>6, GotoMoves DEF NoteSuccess, Steps
  <2>3. req[b].account \in Accounts
    BY <1>0 DEF RequestInv, RequestType
  <2>4. CountsKept
    <3>1. CASE UNCHANGED <<account, guesses>>
      BY <3>1, CountsStay
    <3>2. CASE /\ account' = [account EXCEPT ![req[b].account] = Open(@)]
               /\ guesses' = [guesses EXCEPT ![req[b].account] = 0]
      BY <1>0, <2>3, <3>2 DEF CountsKept, CountInv, TypeInv, AccountInv
    <3> QED
      BY <1>6, <3>1, <3>2 DEF NoteSuccess
  <2>5. faults <= faults'
    BY <1>0, <1>6, FaultGrows DEF NoteSuccess
  <2> QED
    BY <1>0, <2>1, <2>2, <2>4, <2>5, AttemptsStay, OthersSame, LimitQuiet DEF Moved
<1>7. CASE ClearAttempts(b)
  <2>1. UNCHANGED <<account, guesses>> /\ req[b].pc = "clear"
    BY <1>7 DEF ClearAttempts
  <2>2. Moved(b, "issue")
    BY <1>0, <1>7, GotoMoves DEF ClearAttempts, Steps
  <2>3. faults <= faults' /\ attempts' <= attempts
    BY <1>0, <1>7, FaultGrows DEF ClearAttempts, CountInv
  <2> QED
    BY <2>1, <2>2, <2>3, CountsStay, OthersSame, LimitQuiet DEF Moved
<1>8. CASE Issue(b)
  <2>1. UNCHANGED <<account, guesses, attempts, faults>> /\ req[b].pc = "issue"
    BY <1>8 DEF Issue
  <2>2. Returned(b)
    BY <1>0, <1>8, ReturnReturns DEF Issue
  <2> QED
    BY <1>0, <2>1, <2>2, FaultGrows, AttemptsStay, CountsStay, OthersSame, LimitQuiet
       DEF Returned
<1> QED
  BY <1>1, <1>2, <1>3, <1>4, <1>5, <1>6, <1>7, <1>8 DEF LoginStep

\* What another request does to the requests.
LEMMA RequestMoves ==
  ASSUME TypeInv, NEW b \in Requests, RequestStep(b)
  PROVE  Same(b) /\ req[b].pc # "fail" /\ req'[b].pc \notin {"note", "verify"}
<1>0. RequestInv /\ req[b].account \in Accounts
  BY DEF TypeInv, RequestInv, RequestType
<1> USE OthersSame
<1>1. ASSUME NEW id \in Ids, Begin(b, id)
      PROVE  Same(b) /\ req[b].pc # "fail" /\ req'[b].pc \notin {"note", "verify"}
  BY <1>1, RequestBegins DEF Begin
<1>2. CASE DropExpired(b) \/ Visit(b) \/ Logout(b) \/ DropSessions(b) \/ Cut(b)
           \/ \E a \in Accounts : CreateAccount(b, a)
  <2>1. Returned(b)
    BY <1>0, <1>2, ReturnReturns
       DEF DropExpired, Visit, Logout, DropSessions, Cut, CreateAccount
  <2>2. req[b].pc # "fail"
    BY <1>2 DEF DropExpired, Visit, Logout, DropSessions, Cut, CreateAccount, Administers,
                Serving
  <2> QED
    BY <2>1, <2>2 DEF Returned
<1>3. CASE CheckOwner(b) \/ Touch(b) \/ SetPassword(b)
  <2>1. Returned(b) \/ Moved(b, "touch") \/ Moved(b, "serve") \/ Moved(b, "drop")
    BY <1>0, <1>3, GotoMoves, ReturnReturns DEF CheckOwner, Touch, SetPassword, Steps
  <2>2. req[b].pc # "fail"
    BY <1>3 DEF CheckOwner, Touch, SetPassword
  <2> QED
    BY <2>1, <2>2 DEF Returned, Moved
<1>4. ASSUME NEW a \in Accounts, ThenSet(b, a) \/ Disable(b, a), Serving(b)
      PROVE  Same(b) /\ req[b].pc # "fail" /\ req'[b].pc \notin {"note", "verify"}
  <2>1. Moved(b, "set") \/ Moved(b, "drop")
    BY <1>0, <1>4, TargetMoves DEF ThenSet, Disable, Steps
  <2> QED
    BY <1>4, <2>1 DEF Moved, Serving
<1>5. ASSUME NEW a \in Accounts, Enable(b, a)
      PROVE  Same(b) /\ req[b].pc # "fail" /\ req'[b].pc \notin {"note", "verify"}
  <2>1. Enabled(b, a)
    BY <1>0, <1>5, EnableMoves
  <2> QED
    BY <1>5, <2>1 DEF Enabled, Same, Enable, Administers, Serving
<1> QED
  BY <1>0, <1>1, <1>2, <1>3, <1>4, <1>5
     DEF RequestStep, ChangePassword, ResetPassword, Disable, Administers

\* Another request counts nothing.
LEMMA RequestCounts ==
  ASSUME TypeInv, LimitInv, NEW b \in Requests, RequestStep(b)
  PROVE  CountsKept /\ UNCHANGED attempts /\ (UNCHANGED faults \/ Fault)
<1>0. AccountInv /\ RequestInv /\ CountInv
  BY DEF TypeInv
<1> USE DEF history
<1>1. CASE UNCHANGED <<account, guesses, attempts>> /\ (UNCHANGED faults \/ Fault)
  BY <1>1, CountsStay
<1>2. ASSUME NEW a \in Accounts, CreateAccount(b, a) PROVE CountsKept
  <2>1. account' = [account EXCEPT ![a] = NewAccount] /\ account[a].password = 0
    BY <1>2 DEF CreateAccount, Exists
  <2>2. guesses' = guesses /\ guesses[a] = 0
    BY <1>2, <2>1 DEF CreateAccount, LimitInv, GuessInv, NobodyInv
  <2> QED
    BY <1>0, <2>1, <2>2 DEF CountsKept, AccountInv
<1>3. ASSUME NEW a \in Accounts, NEW v \in BOOLEAN,
             account' = [account EXCEPT ![a].active = v], UNCHANGED guesses
      PROVE  CountsKept
  BY <1>0, <1>3, SetActive DEF CountsKept, OtherAccounts
<1>4. ASSUME NEW a \in Accounts, Enable(b, a) \/ Disable(b, a) PROVE CountsKept
  BY <1>3, <1>4 DEF Enable, Disable
<1>5. ASSUME NEW a \in Accounts, CreateAccount(b, a) \/ Enable(b, a) \/ Disable(b, a)
      PROVE  UNCHANGED <<attempts, faults>>
  BY <1>5 DEF CreateAccount, Enable, Disable
<1>6. CASE SetPassword(b)
  <2>1. /\ guesses' = [guesses EXCEPT ![req[b].target] = 0]
        /\ UNCHANGED <<attempts, faults>>
    BY <1>6 DEF SetPassword
  <2>2. \A x \in Accounts : x # req[b].target => account'[x] = account[x]
    BY <1>0, <1>6, PasswordSet DEF OtherAccounts
  <2> QED
    BY <1>0, <2>1, <2>2 DEF CountsKept, CountInv
<1>7. CASE \/ \E id \in Ids : Begin(b, id)
           \/ DropExpired(b) \/ CheckOwner(b) \/ Touch(b) \/ Visit(b) \/ Logout(b)
           \/ \E a \in Accounts : ThenSet(b, a)
           \/ DropSessions(b) \/ Cut(b)
  BY <1>1, <1>7
     DEF Begin, DropExpired, CheckOwner, Touch, Visit, Logout, ThenSet, DropSessions, Cut
<1>8. req[b].account \in Accounts
  BY <1>0 DEF RequestInv, RequestType
<1> QED
  BY <1>2, <1>4, <1>5, <1>6, <1>7, <1>8 DEF RequestStep, ChangePassword, ResetPassword

LEMMA LimitInit == Init => LimitInv
<1> SUFFICES ASSUME Init PROVE LimitInv
  OBVIOUS
<1>1. \A b \in Requests : req[b].pc = "idle"
  BY DEF Init, NoRequest, Request
<1>2. attempts = 0 /\ faults = 0 /\ \A a \in Accounts : guesses[a] = 0
  BY DEF Init
<1>3. AttemptInv
  <2>1. Noting = {}
    BY <1>1 DEF Noting
  <2> QED
    BY <1>2, <2>1, Cardinals, Bounds, FS_EmptySet DEF AttemptInv
<1>4. ASSUME NEW a \in Accounts
      PROVE  /\ Cardinality(Trying(a)) = 0 /\ Cardinality(Wrong(a)) = 0 /\ Counted(a) = 0
  <2>1. Trying(a) = {} /\ Wrong(a) = {}
    BY <1>1 DEF Trying, Wrong
  <2>2. account[a].failed = 0
    BY DEF Init, NoAccount, NewAccount
  <2> QED
    BY <2>1, <2>2, FS_EmptySet DEF Counted
<1>5. GuessInv
  BY <1>2, <1>4, Cardinals, Bounds DEF GuessInv, OpenInv, TriedInv, NobodyInv
<1> QED
  BY <1>3, <1>5 DEF LimitInv

LEMMA LimitStep == TypeInv /\ KnownInv /\ LimitInv /\ [Next]_vars => LimitInv'
<1> SUFFICES ASSUME TypeInv, KnownInv, LimitInv, [Next]_vars PROVE LimitInv'
  OBVIOUS
<1>0. TypeInv' /\ CountInv /\ AccountInv
  BY TypeStep DEF TypeInv
<1>1. ASSUME NEW b \in Requests, LoginStep(b) PROVE LimitInv'
  BY <1>0, <1>1, LimitLogin
<1>2. ASSUME NEW b \in Requests, RequestStep(b) PROVE LimitInv'
  <2>1. Same(b) /\ req[b].pc # "fail" /\ req'[b].pc \notin {"note", "verify"}
    BY <1>2, RequestMoves
  <2>2. CountsKept /\ UNCHANGED attempts /\ (UNCHANGED faults \/ Fault)
    BY <1>2, RequestCounts
  <2>3. attempts' <= attempts /\ faults <= faults'
    BY <1>0, <2>2, AttemptsStay, FaultGrows
  <2> QED
    BY <1>0, <1>2, <2>1, <2>2, <2>3, LimitQuiet
<1>3. ASSUME UNCHANGED <<req, faults>>, attempts' <= attempts, CountsKept PROVE LimitInv'
  <2>1. PICK b \in Requests : TRUE
    BY AccountsAssumption DEF AccountsAssumption
  <2>2. Same(b)
    BY <1>3 DEF Same
  <2>3. faults <= faults'
    BY <1>0, <1>3, FaultGrows
  <2>4. AttemptInv'
    BY <1>0, <1>3, <2>2, AttemptQuiet DEF LimitInv
  <2>5. GuessInv'
    BY <1>0, <1>3, <2>2, <2>3, GuessQuiet DEF LimitInv, CountsKept
  <2> QED
    BY <2>4, <2>5 DEF LimitInv
<1>4. CASE Prune \/ (\E id \in Ids : Expire(id)) \/ UNCHANGED vars
  BY <1>0, <1>3, <1>4, AttemptsStay, CountsStay DEF Prune, Expire, vars, history
<1>5. CASE AttemptLapses
  BY <1>0, <1>3, <1>5, CountsStay DEF AttemptLapses, CountInv, history
<1>6. ASSUME NEW a \in Accounts, LockLapses(a) PROVE LimitInv'
  <2>1. guesses' = [guesses EXCEPT ![a] = 0] /\ UNCHANGED <<req, attempts, faults>>
    BY <1>6 DEF LockLapses
  <2>2. \A x \in Accounts : x # a => account'[x] = account[x]
    BY <1>0, <1>6, LapseType DEF OtherAccounts
  <2>3. CountsKept
    BY <1>0, <2>1, <2>2 DEF CountsKept, CountInv
  <2> QED
    BY <1>0, <1>3, <2>1, <2>3, AttemptsStay
<1> QED
  BY <1>1, <1>2, <1>4, <1>5, <1>6 DEF Next

LEMMA LimitAlways == Spec => []LimitInv
  BY TypeAlways, KnownAlways, LimitInit, LimitStep, PTL DEF Spec

\* What parallel logins add to the two limits is at most one attempt each (Login,
\* RecordLoginFailure).
THEOREM ParallelLoginsAddOneEach == Spec => []LimitsHold
<1>1. TypeInv /\ LimitInv => LimitsHold
  <2> SUFFICES ASSUME TypeInv, LimitInv PROVE LimitsHold
    OBVIOUS
  <2>0. CountInv
    BY DEF TypeInv
  <2>1. attempts <= MaxAttempts + Cardinality(Requests) - 1
    <3>1. Cardinality(Noting) \in Nat
      BY Cardinals DEF Noting
    <3> QED
      BY <2>0, <3>1, Cardinals, Bounds DEF LimitInv, AttemptInv, CountInv
  <2>2. ASSUME NEW a \in Accounts
        PROVE  guesses[a] <= Threshold + Cardinality(Requests) - 1 + faults
    <3>1. guesses[a] \in Nat /\ faults \in Nat
      BY <2>0, Bounds DEF CountInv
    <3>2. Cardinality(Trying(a)) \in Nat
      BY CardinalsOf
    <3> QED
      BY <3>1, <3>2, Cardinals, Bounds DEF LimitInv, GuessInv, TriedInv
  <2> QED
    BY <2>1, <2>2 DEF LimitsHold
<1> QED
  BY <1>1, TypeAlways, LimitAlways, PTL

=============================================================================
