---------------------------- MODULE FollowUps_proofs ----------------------------
(***************************************************************************)
(* What FollowUps guarantees for any number of workers, stages, messages,  *)
(* attempts and operations, and however many statements fail.              *)
(***************************************************************************)
EXTENDS FollowUps, FiniteSetTheorems, TLAPS

Results == {"none", "sent", "failed", "skipped"}

WorkerRows == [pc: Positions, token: Tokens \cup {0}, batch: SUBSET Claims,
               cur: Claims \cup {None}, snap: ClientRecords \cup {None}, outcome: Results]

Turns == [pc: {"idle", "cancel", "gate", "plan", "schedule"}, snap: ClientRecords \cup {None}]

ClientInv == client \in ClientRecords
JobsInv == jobs \in [Jobs -> JobRows]
WorkersInv == worker \in [Workers -> WorkerRows]
TurnInv == turn \in Turns
CountInv ==
  /\ newest \in 0 .. MaxMessages /\ desk \in {"idle", "cancel"}
  /\ ops \in 0 .. MaxOps /\ mishaps \in 0 .. MaxMishaps
HistoryInv ==
  /\ sends \in [Jobs -> Nat] /\ excused \in [Jobs -> BOOLEAN] /\ late \in [Workers -> Nat]

TypeInv == ClientInv /\ JobsInv /\ WorkersInv /\ TurnInv /\ CountInv /\ HistoryInv

LEMMA Bounds ==
  /\ LastStage \in Nat /\ MaxAttempts \in Nat /\ MaxAttempts > 0 /\ BatchSize \in Nat
  /\ MaxMessages \in Nat /\ MaxOps \in Nat /\ MaxMishaps \in Nat
  /\ IsFiniteSet(Workers) /\ None \notin ClientRecords
  BY FollowUpsAssumption DEF FollowUpsAssumption

-----------------------------------------------------------------------------
(* A run always finds a token *)

LEMMA JobsFinite == IsFiniteSet(Jobs)
<1> DEFINE P == (1 .. LastStage) \X (1 .. MaxMessages)
<1> DEFINE f == [p \in P |-> [stage |-> p[1], anchor |-> p[2]]]
<1>1. IsFiniteSet(1 .. LastStage) /\ IsFiniteSet(1 .. MaxMessages)
  BY FS_Interval, Bounds
<1>2. IsFiniteSet(P)
  BY <1>1, FS_Product
<1>3. f \in Surjection(P, Jobs)
  <2>1. f \in [P -> Jobs]
    BY DEF Jobs
  <2>2. ASSUME NEW j \in Jobs PROVE \E p \in P : f[p] = j
    <3>1. <<j.stage, j.anchor>> \in P /\ f[<<j.stage, j.anchor>>] = j
      BY DEF Jobs
    <3> QED
      BY <3>1
  <2> QED
    BY <2>1, <2>2 DEF Surjection
<1> QED
  BY <1>2, <1>3, FS_Surjection

\* The values of a function are at most as many as its arguments.
LEMMA FewValues ==
  ASSUME NEW S, IsFiniteSet(S), NEW f, f = [x \in S |-> f[x]]
  PROVE  /\ IsFiniteSet({f[x] : x \in S})
         /\ Cardinality({f[x] : x \in S}) <= Cardinality(S)
<1>1. f \in Surjection(S, {f[x] : x \in S})
  BY DEF Surjection
<1> QED
  BY <1>1, FS_Surjection

LEMMA TokensLeft == \E t \in Tokens : t \notin UsedTokens
<1> DEFINE J == {jobs[j].token : j \in Jobs}
<1> DEFINE W == {worker[w].token : w \in Workers}
<1> DEFINE f == [j \in Jobs |-> jobs[j].token]
<1> DEFINE g == [w \in Workers |-> worker[w].token]
<1> DEFINE nj == Cardinality(Jobs)
<1> DEFINE nw == Cardinality(Workers)
<1>1. IsFiniteSet(J) /\ Cardinality(J) <= nj
  <2>1. f = [x \in Jobs |-> f[x]] /\ J = {f[x] : x \in Jobs}
    OBVIOUS
  <2> HIDE DEF f, J
  <2> QED
    BY <2>1, JobsFinite, FewValues
<1>2. IsFiniteSet(W) /\ Cardinality(W) <= nw
  <2>1. g = [x \in Workers |-> g[x]] /\ W = {g[x] : x \in Workers}
    OBVIOUS
  <2> HIDE DEF g, W
  <2> QED
    BY <2>1, Bounds, FewValues
<1>3. nj \in Nat /\ nw \in Nat
  BY JobsFinite, Bounds, FS_CardinalityType
<1> HIDE DEF J, W, nj, nw
<1>4. /\ IsFiniteSet(J \cup W)
      /\ Cardinality(J \cup W) = Cardinality(J) + Cardinality(W) - Cardinality(J \cap W)
  BY <1>1, <1>2, FS_Union
<1>5. Cardinality(J) \in Nat /\ Cardinality(W) \in Nat /\ Cardinality(J \cap W) \in Nat
  BY <1>1, <1>2, FS_Intersection, FS_CardinalityType
<1>6. Cardinality(J \cup W) <= nj + nw
  BY <1>1, <1>2, <1>3, <1>4, <1>5
<1>7. IsFiniteSet(Tokens) /\ Cardinality(Tokens) = nj + nw + 1
  <2>1. Tokens = 1 .. (nj + nw + 1)
    BY DEF Tokens, nj, nw
  <2> QED
    BY <1>3, <2>1, FS_Interval
<1>8. ASSUME Tokens \subseteq J \cup W PROVE FALSE
  <2>1. Cardinality(Tokens) <= Cardinality(J \cup W)
    BY <1>4, <1>8, FS_Subset
  <2>2. Cardinality(J \cup W) \in Nat
    BY <1>4, FS_CardinalityType
  <2> QED
    BY <1>3, <1>6, <1>7, <2>1, <2>2
<1> QED
  BY <1>8 DEF UsedTokens, J, W

Fresh == CHOOSE t \in Tokens : t \notin UsedTokens

LEMMA FreshToken == Fresh \in Tokens /\ Fresh \notin UsedTokens
  BY TokensLeft DEF Fresh

-----------------------------------------------------------------------------
(* Rows and workers *)

LEMMA RowType ==
  ASSUME NEW s \in {"none"} \cup Live \cup Settled, NEW t \in Tokens \cup {0},
         NEW b \in BOOLEAN, NEW n \in Attempts
  PROVE  /\ Row(s, t, b, n) \in JobRows
         /\ Row(s, t, b, n).status = s /\ Row(s, t, b, n).token = t
         /\ Row(s, t, b, n).stale = b /\ Row(s, t, b, n).attempts = n
  BY DEF Row, JobRows

WithStatus(r, s) == [r EXCEPT !.status = s]

LEMMA StatusType ==
  ASSUME NEW r \in JobRows, NEW s \in {"none"} \cup Live \cup Settled
  PROVE  /\ WithStatus(r, s) \in JobRows
         /\ WithStatus(r, s).status = s /\ WithStatus(r, s).token = r.token
         /\ WithStatus(r, s).stale = r.stale
  BY Zenon DEF WithStatus, JobRows

LEMMA StatusAttempts ==
  ASSUME NEW r \in JobRows, NEW s
  PROVE  WithStatus(r, s).attempts = r.attempts
  BY Zenon DEF WithStatus, JobRows

WithStale(r) == [r EXCEPT !.stale = TRUE]

LEMMA StaleType ==
  ASSUME NEW r \in JobRows
  PROVE  /\ WithStale(r) \in JobRows
         /\ WithStale(r).status = r.status /\ WithStale(r).token = r.token
         /\ WithStale(r).attempts = r.attempts
  BY Zenon DEF WithStale, JobRows

LEMMA WorkerType ==
  ASSUME NEW p \in Positions, NEW t \in Tokens \cup {0}, NEW b \in SUBSET Claims,
         NEW c \in Claims \cup {None}, NEW s \in ClientRecords \cup {None}, NEW o \in Results
  PROVE  Worker(p, t, b, c, s, o) \in WorkerRows
  BY DEF Worker, WorkerRows

LEMMA WorkerFields ==
  ASSUME NEW p, NEW t, NEW b, NEW c, NEW s, NEW o
  PROVE  /\ Worker(p, t, b, c, s, o).pc = p /\ Worker(p, t, b, c, s, o).token = t
         /\ Worker(p, t, b, c, s, o).batch = b /\ Worker(p, t, b, c, s, o).cur = c
         /\ Worker(p, t, b, c, s, o).snap = s /\ Worker(p, t, b, c, s, o).outcome = o
  BY DEF Worker

LEMMA RowFields ==
  ASSUME NEW r \in WorkerRows
  PROVE  /\ r.pc \in Positions /\ r.token \in Tokens \cup {0} /\ r.batch \in SUBSET Claims
         /\ r.cur \in Claims \cup {None} /\ r.snap \in ClientRecords \cup {None}
         /\ r.outcome \in Results
  BY DEF WorkerRows

LEMMA IdleType ==
  /\ Idle \in WorkerRows /\ Idle.pc = "idle" /\ Idle.batch = {} /\ Idle.token = 0
<1>1. "idle" \in Positions /\ "none" \in Results
  BY DEF Positions, Results
<1> QED
  BY <1>1, WorkerType, WorkerFields DEF Idle

\* A worker's new row, the others' as they were.
Becomes(w, r) ==
  /\ WorkersInv'
  /\ worker'[w] = r
  /\ \A x \in Workers : x # w => worker'[x] = worker[x]

LEMMA BecomeBecomes ==
  ASSUME WorkersInv, NEW w \in Workers, NEW r \in WorkerRows, worker' = [worker EXCEPT ![w] = r]
  PROVE  Becomes(w, r)
  BY DEF WorkersInv, Becomes

\* The ways in which the actions write a row.
PcRow(r, p) == [r EXCEPT !.pc = p]
LoadedRow(r, b) == [r EXCEPT !.pc = "next", !.batch = b]
TakenRow(r, c) == [r EXCEPT !.pc = "lookup", !.cur = c, !.batch = @ \ {c}]
EndedRow(r, o) == [r EXCEPT !.pc = "finish", !.outcome = o, !.snap = None]
SnapRow(r, p, s) == [r EXCEPT !.pc = p, !.snap = s]
SentRow(r) == [r EXCEPT !.pc = "finish", !.outcome = "sent"]
NextRow(r) == [Idle EXCEPT !.pc = "next", !.token = r.token, !.batch = r.batch]
ClaimRow(n) == [Idle EXCEPT !.pc = "load", !.token = n]

LEMMA PcRowType ==
  ASSUME NEW r \in WorkerRows, NEW p \in Positions
  PROVE  /\ PcRow(r, p) \in WorkerRows
         /\ PcRow(r, p).pc = p /\ PcRow(r, p).token = r.token /\ PcRow(r, p).batch = r.batch
         /\ PcRow(r, p).cur = r.cur /\ PcRow(r, p).snap = r.snap
  BY Zenon DEF WorkerRows, PcRow

LEMMA LoadedRowType ==
  ASSUME NEW r \in WorkerRows, NEW b \in SUBSET Claims
  PROVE  /\ LoadedRow(r, b) \in WorkerRows
         /\ LoadedRow(r, b).pc = "next" /\ LoadedRow(r, b).token = r.token
         /\ LoadedRow(r, b).batch = b
<1>1. "next" \in Positions
  BY DEF Positions
<1> QED
  BY <1>1, Zenon DEF WorkerRows, LoadedRow

LEMMA TakenRowType ==
  ASSUME NEW r \in WorkerRows, NEW c \in r.batch
  PROVE  /\ TakenRow(r, c) \in WorkerRows
         /\ TakenRow(r, c).pc = "lookup" /\ TakenRow(r, c).token = r.token
         /\ TakenRow(r, c).batch = r.batch \ {c} /\ TakenRow(r, c).cur = c
<1>1. "lookup" \in Positions
  BY DEF Positions
<1>2. r.batch \in SUBSET Claims
  BY RowFields
<1>3. c \in Claims \cup {None} /\ r.batch \ {c} \in SUBSET Claims
  BY <1>2
<1>4. TakenRow(r, c) = [r EXCEPT !.pc = "lookup", !.cur = c, !.batch = r.batch \ {c}]
  BY Zenon DEF TakenRow, WorkerRows
<1> QED
  BY <1>1, <1>3, <1>4, Zenon DEF WorkerRows

LEMMA EndedRowType ==
  ASSUME NEW r \in WorkerRows, NEW o \in Results
  PROVE  /\ EndedRow(r, o) \in WorkerRows
         /\ EndedRow(r, o).pc = "finish" /\ EndedRow(r, o).token = r.token
         /\ EndedRow(r, o).batch = r.batch /\ EndedRow(r, o).cur = r.cur
         /\ EndedRow(r, o).outcome = o
<1>1. "finish" \in Positions /\ None \in ClientRecords \cup {None}
  BY DEF Positions
<1> QED
  BY <1>1, Zenon DEF WorkerRows, EndedRow

LEMMA SnapRowType ==
  ASSUME NEW r \in WorkerRows, NEW p \in Positions, NEW s \in ClientRecords \cup {None}
  PROVE  /\ SnapRow(r, p, s) \in WorkerRows
         /\ SnapRow(r, p, s).pc = p /\ SnapRow(r, p, s).token = r.token
         /\ SnapRow(r, p, s).batch = r.batch /\ SnapRow(r, p, s).cur = r.cur
         /\ SnapRow(r, p, s).snap = s
  BY Zenon DEF WorkerRows, SnapRow

LEMMA SentRowType ==
  ASSUME NEW r \in WorkerRows
  PROVE  /\ SentRow(r) \in WorkerRows
         /\ SentRow(r).pc = "finish" /\ SentRow(r).token = r.token
         /\ SentRow(r).batch = r.batch /\ SentRow(r).cur = r.cur
         /\ SentRow(r).outcome = "sent"
<1>1. "finish" \in Positions /\ "sent" \in Results
  BY DEF Positions, Results
<1> QED
  BY <1>1, Zenon DEF WorkerRows, SentRow

LEMMA NextRowType ==
  ASSUME NEW r \in WorkerRows
  PROVE  /\ NextRow(r) \in WorkerRows
         /\ NextRow(r).pc = "next" /\ NextRow(r).token = r.token /\ NextRow(r).batch = r.batch
<1>1. "next" \in Positions
  BY DEF Positions
<1>2. r.token \in Tokens \cup {0} /\ r.batch \in SUBSET Claims
  BY RowFields
<1> QED
  BY <1>1, <1>2, IdleType, Zenon DEF WorkerRows, NextRow

LEMMA ClaimRowType ==
  ASSUME NEW n \in Tokens
  PROVE  /\ ClaimRow(n) \in WorkerRows
         /\ ClaimRow(n).pc = "load" /\ ClaimRow(n).token = n /\ ClaimRow(n).batch = {}
<1>1. "load" \in Positions /\ n \in Tokens \cup {0}
  BY DEF Positions
<1> QED
  BY <1>1, IdleType, Zenon DEF WorkerRows, ClaimRow

-----------------------------------------------------------------------------
(* What a worker's steps make of its row *)

LEMMA GotoBecomes ==
  ASSUME WorkersInv, NEW w \in Workers, NEW p \in Positions, Goto(w, p)
  PROVE  Becomes(w, PcRow(worker[w], p))
<1>1. worker[w] \in WorkerRows
  BY DEF WorkersInv
<1>2. worker' = [worker EXCEPT ![w] = PcRow(worker[w], p)]
  BY Zenon DEF Goto, PcRow
<1> QED
  BY <1>1, <1>2, PcRowType, BecomeBecomes

LEMMA NextJobBecomes ==
  ASSUME WorkersInv, NEW w \in Workers, NextJob(w)
  PROVE  Becomes(w, NextRow(worker[w]))
<1>1. worker[w] \in WorkerRows
  BY DEF WorkersInv
<1>2. worker' = [worker EXCEPT ![w] = NextRow(worker[w])]
  BY Zenon DEF NextJob, Become, NextRow
<1> QED
  BY <1>1, <1>2, NextRowType, BecomeBecomes

LEMMA IdleBecomes ==
  ASSUME WorkersInv, NEW w \in Workers, Become(w, Idle)
  PROVE  Becomes(w, Idle)
  BY IdleType, BecomeBecomes DEF Become

LEMMA GiveUpBecomes ==
  ASSUME WorkersInv, NEW w \in Workers, NEW o \in Results, GiveUpAs(w, o)
  PROVE  Becomes(w, EndedRow(worker[w], o))
<1>1. worker[w] \in WorkerRows
  BY DEF WorkersInv
<1>2. worker' = [worker EXCEPT ![w] = EndedRow(worker[w], o)]
  BY Zenon DEF GiveUpAs, EndedRow, WorkersInv
<1> QED
  BY <1>1, <1>2, EndedRowType, BecomeBecomes

LEMMA SnapBecomes ==
  ASSUME WorkersInv, NEW w \in Workers, NEW p \in Positions,
         NEW s \in ClientRecords \cup {None},
         worker' = [worker EXCEPT ![w].pc = p, ![w].snap = s]
  PROVE  Becomes(w, SnapRow(worker[w], p, s))
<1>1. worker[w] \in WorkerRows
  BY DEF WorkersInv
<1>2. worker' = [worker EXCEPT ![w] = SnapRow(worker[w], p, s)]
  BY Zenon DEF SnapRow, WorkersInv
<1> QED
  BY <1>1, <1>2, SnapRowType, BecomeBecomes

Mine(w) == {j \in Jobs : jobs[j].token = worker[w].token /\ jobs[j].status = "claimed"}

ClaimsOf(S) == {[job |-> j, attempts |-> jobs[j].attempts] : j \in S}

LEMMA ClaimsOfType ==
  ASSUME JobsInv, NEW S \in SUBSET Jobs
  PROVE  ClaimsOf(S) \in SUBSET Claims
<1>1. ASSUME NEW j \in S PROVE [job |-> j, attempts |-> jobs[j].attempts] \in Claims
  <2>1. jobs[j].attempts \in Attempts
    BY DEF JobsInv, JobRows
  <2> QED
    BY <2>1 DEF Claims
<1> QED
  BY <1>1 DEF ClaimsOf

LEMMA ClaimBecomes ==
  ASSUME WorkersInv, NEW w \in Workers, NEW due, Claim(w, due)
  PROVE  Becomes(w, ClaimRow(Fresh))
<1>1. worker' = [worker EXCEPT ![w] = ClaimRow(Fresh)]
  BY Zenon DEF Claim, Become, ClaimRow, Fresh
<1> QED
  BY <1>1, FreshToken, ClaimRowType, BecomeBecomes

LEMMA LoadBecomes ==
  ASSUME WorkersInv, JobsInv, NEW w \in Workers, LoadClaimed(w)
  PROVE  \/ Becomes(w, LoadedRow(worker[w], ClaimsOf(Mine(w)))) /\ Works
         \/ Becomes(w, Idle) /\ Fails
<1>1. worker[w] \in WorkerRows
  BY DEF WorkersInv
<1>2. ASSUME worker' = [worker EXCEPT ![w].pc = "next", ![w].batch = ClaimsOf(Mine(w))]
      PROVE  Becomes(w, LoadedRow(worker[w], ClaimsOf(Mine(w))))
  <2>1. worker' = [worker EXCEPT ![w] = LoadedRow(worker[w], ClaimsOf(Mine(w)))]
    BY <1>2, Zenon DEF LoadedRow, WorkersInv
  <2>2. ClaimsOf(Mine(w)) \in SUBSET Claims
    BY ClaimsOfType DEF Mine
  <2>3. LoadedRow(worker[w], ClaimsOf(Mine(w))) \in WorkerRows
    BY <1>1, <2>2, LoadedRowType
  <2> QED
    BY <2>1, <2>3, BecomeBecomes
<1>3. \/ /\ worker' = [worker EXCEPT ![w].pc = "next", ![w].batch = ClaimsOf(Mine(w))]
         /\ Works
      \/ Fails /\ Become(w, Idle)
  BY Zenon DEF LoadClaimed, ClaimsOf, Mine
<1>4. CASE Fails /\ Become(w, Idle)
  BY <1>4, IdleBecomes
<1> QED
  BY <1>2, <1>3, <1>4

LEMMA TakeBecomes ==
  ASSUME WorkersInv, NEW w \in Workers, TakeNext(w)
  PROVE  \E c \in worker[w].batch : Becomes(w, TakenRow(worker[w], c))
<1>1. worker[w] \in WorkerRows
  BY DEF WorkersInv
<1>2. PICK c \in worker[w].batch :
        worker' = [worker EXCEPT ![w].pc = "lookup", ![w].cur = c, ![w].batch = @ \ {c}]
  BY Zenon DEF TakeNext
<1>3. worker' = [worker EXCEPT ![w] = TakenRow(worker[w], c)]
  BY <1>2, Zenon DEF TakenRow, WorkersInv, WorkerRows
<1> QED
  BY <1>1, <1>3, TakenRowType, BecomeBecomes

LEMMA LookupBecomes ==
  ASSUME WorkersInv, ClientInv, NEW w \in Workers, Lookup(w)
  PROVE  \/ Becomes(w, SnapRow(worker[w], "check", client))
         \/ Becomes(w, EndedRow(worker[w], "failed"))
<1>1. "check" \in Positions /\ "failed" \in Results /\ client \in ClientRecords \cup {None}
  BY DEF Positions, Results, ClientInv
<1> QED
  BY <1>1, SnapBecomes, GiveUpBecomes, Zenon DEF Lookup

LEMMA CheckBecomes ==
  ASSUME WorkersInv, NEW w \in Workers, CheckPasses(w) \/ CheckRefuses(w)
  PROVE  \/ /\ Becomes(w, PcRow(worker[w], "send")) /\ Allowed(w)
            /\ ~(Cur(w).attempts > MaxAttempts)
         \/ \E o \in {"failed", "skipped"} : Becomes(w, EndedRow(worker[w], o))
<1>1. "send" \in Positions /\ "failed" \in Results /\ "skipped" \in Results
  BY DEF Positions, Results
<1>2. \/ Goto(w, "send") /\ Allowed(w) /\ ~(Cur(w).attempts > MaxAttempts)
      \/ GiveUpAs(w, "failed") \/ GiveUpAs(w, "skipped")
  BY DEF CheckPasses, CheckRefuses
<1> QED
  BY <1>1, <1>2, GotoBecomes, GiveUpBecomes

LEMMA SendBecomes ==
  ASSUME WorkersInv, NEW w \in Workers
  PROVE  /\ SendSucceeds(w) => Becomes(w, SentRow(worker[w]))
         /\ SendFails(w) => Becomes(w, SnapRow(worker[w], "release", None))
<1>1. worker[w] \in WorkerRows
  BY DEF WorkersInv
<1>2. ASSUME SendSucceeds(w) PROVE Becomes(w, SentRow(worker[w]))
  <2>1. worker' = [worker EXCEPT ![w] = SentRow(worker[w])]
    BY <1>2, Zenon DEF SendSucceeds, SentRow, WorkersInv
  <2> QED
    BY <1>1, <2>1, SentRowType, BecomeBecomes
<1>3. ASSUME SendFails(w) PROVE Becomes(w, SnapRow(worker[w], "release", None))
  <2>1. "release" \in Positions /\ None \in ClientRecords \cup {None}
    BY DEF Positions
  <2> QED
    BY <1>3, <2>1, SnapBecomes, Zenon DEF SendFails
<1> QED
  BY <1>2, <1>3

\* After the send: to the next step, or to the next job.
LEMMA RestBecomes ==
  ASSUME WorkersInv, ClientInv, NEW w \in Workers,
         Finish(w) \/ Release(w) \/ SetWaiting(w) \/ Refresh(w) \/ Chain(w)
  PROVE  \/ Becomes(w, PcRow(worker[w], "status"))
         \/ Becomes(w, PcRow(worker[w], "refresh"))
         \/ Becomes(w, SnapRow(worker[w], "chain", client))
         \/ Becomes(w, NextRow(worker[w]))
<1>1. /\ "status" \in Positions /\ "refresh" \in Positions /\ "chain" \in Positions
      /\ client \in ClientRecords \cup {None}
  BY DEF Positions, ClientInv
<1>2. \/ Goto(w, "status") \/ Goto(w, "refresh") \/ NextJob(w)
      \/ worker' = [worker EXCEPT ![w].pc = "chain", ![w].snap = client]
  BY Zenon DEF Finish, Release, SetWaiting, Refresh, Chain
<1> QED
  BY <1>1, <1>2, GotoBecomes, NextJobBecomes, SnapBecomes

-----------------------------------------------------------------------------
(* Types *)

LEMMA Vocabulary ==
  /\ NoStage \in Stages /\ "ai" \in Modes /\ "human" \in Modes /\ "paused" \in Modes
  /\ {"new", "needs_qualification", "consultant_processing", "waiting_for_client",
      "blocked", "closed"} \subseteq Statuses
  BY DEF Stages, StageRank, NoStage, Modes, Statuses, AIStatuses, ConsultantOwned, Terminal

LEMMA NewClientType == NewClient \in ClientRecords
  BY Vocabulary DEF NewClient, ClientRecords, Modes

LEMMA NoRows == NoJob \in JobRows /\ NoTurn \in Turns
<1>1. 0 \in Attempts
  BY Bounds DEF Attempts
<1> QED
  BY <1>1, RowType DEF NoJob, NoTurn, Turns

LEMMA TypeInit == Init => TypeInv
<1> SUFFICES ASSUME Init PROVE TypeInv
  OBVIOUS
<1>1. ClientInv /\ TurnInv
  BY NewClientType, NoRows DEF Init, ClientInv, TurnInv
<1>2. JobsInv
  BY NoRows DEF Init, JobsInv
<1>3. WorkersInv
  BY IdleType DEF Init, WorkersInv
<1>4. CountInv
  BY Bounds DEF Init, CountInv
<1>5. HistoryInv
  BY DEF Init, HistoryInv, NoneLate
<1> QED
  BY <1>1, <1>2, <1>3, <1>4, <1>5 DEF TypeInv

\* What a consultant writes is a record.
LEMMA WrittenType ==
  ASSUME ClientInv, NEW what \in RecordOps
  PROVE  Written(what) \in ClientRecords
<1>1. client \in ClientRecords /\ client.status \in Statuses
  BY Zenon DEF ClientInv, ClientRecords
<1>2. ASSUME NEW m \in Modes PROVE WithMode(client, m) \in ClientRecords
  <2> DEFINE s == IF m = "human" /\ client.status \in AIStatuses THEN "consultant_processing"
                  ELSE client.status
  <2> DEFINE b == (m = "ai")
  <2>1. s \in Statuses /\ b \in BOOLEAN
    BY <1>1, Vocabulary
  <2>2. WithMode(client, m) = [client EXCEPT !.mode = m, !.aiEnabled = b, !.status = s]
    BY DEF WithMode
  <2> HIDE DEF s, b
  <2> QED
    BY <1>1, <2>1, <2>2, Zenon DEF ClientRecords
<1>3. WithBlock(client) \in ClientRecords
  <2>1. "blocked" \in Statuses /\ "paused" \in Modes /\ TRUE \in BOOLEAN /\ FALSE \in BOOLEAN
    BY Vocabulary
  <2> QED
    BY <1>1, <2>1, Zenon DEF WithBlock, ClientRecords
<1>4. WithoutBlock(client) \in ClientRecords
  <2> DEFINE s == IF client.status = "blocked" THEN "needs_qualification" ELSE client.status
  <2>1. s \in Statuses /\ "ai" \in Modes /\ TRUE \in BOOLEAN /\ FALSE \in BOOLEAN
    BY <1>1, Vocabulary
  <2>2. WithoutBlock(client) =
          [client EXCEPT !.blocked = FALSE, !.aiEnabled = TRUE, !.mode = "ai", !.status = s]
    BY DEF WithoutBlock
  <2> HIDE DEF s
  <2> QED
    BY <1>1, <2>1, <2>2, Zenon DEF ClientRecords
<1>5. [client EXCEPT !.status = "closed"] \in ClientRecords
  <2>1. "closed" \in Statuses
    BY Vocabulary
  <2> QED
    BY <1>1, <2>1, Zenon DEF ClientRecords
<1>6. CASE what \in {"take_over", "resume_ai", "pause_ai"}
  <2>1. \E m \in Modes : Written(what) = WithMode(client, m)
    BY <1>6, Vocabulary DEF Written
  <2> QED
    BY <1>2, <2>1
<1>7. CASE what = "block"
  BY <1>3, <1>7 DEF Written
<1>8. CASE what = "unblock"
  BY <1>4, <1>8 DEF Written
<1>9. CASE what = "close"
  BY <1>5, <1>9 DEF Written
<1> QED
  BY <1>6, <1>7, <1>8, <1>9 DEF RecordOps

LEMMA CancelledType == JobsInv => AllCancelled \in [Jobs -> JobRows]
<1> SUFFICES ASSUME JobsInv, NEW j \in Jobs
             PROVE  (IF jobs[j].status \in Live THEN WithStatus(jobs[j], "cancelled")
                     ELSE jobs[j]) \in JobRows
  BY Zenon DEF AllCancelled, WithStatus
<1>1. jobs[j] \in JobRows /\ "cancelled" \in {"none"} \cup Live \cup Settled
  BY DEF JobsInv, Settled
<1> QED
  BY <1>1, StatusType

LEMMA InsertType ==
  ASSUME JobsInv, NEW j, Insert(j)
  PROVE  JobsInv'
<1>1. Row("pending", 0, FALSE, 0) \in JobRows
  <2>1. 0 \in Attempts /\ "pending" \in Live
    BY Bounds DEF Attempts, Live
  <2> QED
    BY <2>1, RowType
<1> QED
  BY <1>1 DEF Insert, JobsInv

\* A row that is written over an old one.
LEMMA PutType ==
  ASSUME JobsInv, NEW j, NEW r, j \in Jobs => r \in JobRows, jobs' = [jobs EXCEPT ![j] = r]
  PROVE  JobsInv'
  BY DEF JobsInv

LEMMA BackType ==
  ASSUME JobsInv, NEW j \in Jobs
  PROVE  /\ Row("pending", 0, FALSE, jobs[j].attempts) \in JobRows
         /\ Row("pending", 0, FALSE, jobs[j].attempts).status = "pending"
<1>1. jobs[j].attempts \in Attempts
  BY DEF JobsInv, JobRows
<1>2. "pending" \in Live /\ FALSE \in BOOLEAN /\ 0 \in Tokens \cup {0}
  BY DEF Live
<1>3. Row("pending", 0, FALSE, jobs[j].attempts) \in JobRows
  BY <1>1, <1>2, RowType
<1>4. Row("pending", 0, FALSE, jobs[j].attempts).status = "pending"
  BY DEF Row
<1> QED
  BY <1>3, <1>4

LEMMA CountedType ==
  ASSUME JobsInv, NEW j \in Jobs
  PROVE  Counted(j) \in Attempts
<1>1. jobs[j].attempts \in Attempts
  BY DEF JobsInv, JobRows
<1> QED
  BY <1>1, Bounds DEF Counted, Attempts

LEMMA FailsType == CountInv /\ Fails => mishaps' \in 0 .. MaxMishaps
  BY Bounds DEF CountInv, Fails

\* The rows, as each step leaves them.
LEMMA JobsStep ==
  ASSUME TypeInv, Next
  PROVE  JobsInv'
<1>1. JobsInv /\ WorkersInv
  BY DEF TypeInv
<1>2. CASE UNCHANGED jobs
  BY <1>1, <1>2 DEF JobsInv
<1>3. CASE jobs' = AllCancelled
  BY <1>1, <1>3, CancelledType DEF JobsInv
<1>4. CASE TurnSchedules
  BY <1>1, <1>4, InsertType DEF TurnSchedules
<1>5. ASSUME NEW j \in Jobs, CancelJob(j) PROVE JobsInv'
  <2>1. WithStatus(jobs[j], "cancelled") \in JobRows
    BY <1>1, StatusType DEF JobsInv, Settled
  <2>2. jobs' = [jobs EXCEPT ![j] = WithStatus(jobs[j], "cancelled")]
    BY <1>5, Zenon DEF CancelJob, WithStatus
  <2> QED
    BY <1>1, <2>1, <2>2, PutType
<1>6. ASSUME NEW j \in Jobs, RescheduleJob(j) PROVE JobsInv'
  <2>1. jobs' = [jobs EXCEPT ![j] = Row("pending", 0, FALSE, jobs[j].attempts)]
    BY <1>6, Zenon DEF RescheduleJob, Rescheduled
  <2> QED
    BY <1>1, <2>1, BackType, PutType
<1>7. ASSUME NEW j \in Jobs, GrowsStale(j) PROVE JobsInv'
  <2>1. WithStale(jobs[j]) \in JobRows
    BY <1>1, StaleType DEF JobsInv
  <2>2. jobs' = [jobs EXCEPT ![j] = WithStale(jobs[j])]
    BY <1>7, Zenon DEF GrowsStale, WithStale
  <2> QED
    BY <1>1, <2>1, <2>2, PutType
<1>8. ASSUME NEW w \in Workers, NEW due \in SUBSET Jobs, Claim(w, due) PROVE JobsInv'
  <2>1. jobs' = [j \in Jobs |-> IF j \in due THEN Row("claimed", Fresh, FALSE, Counted(j))
                                               ELSE jobs[j]]
    BY <1>8, Zenon DEF Claim, Fresh
  <2>2. ASSUME NEW j \in Jobs PROVE Row("claimed", Fresh, FALSE, Counted(j)) \in JobRows
    <3>1. "claimed" \in Live /\ FALSE \in BOOLEAN /\ Fresh \in Tokens \cup {0}
      BY FreshToken DEF Live
    <3> QED
      BY <1>1, <3>1, CountedType, RowType
  <2>3. \A j \in Jobs : jobs[j] \in JobRows
    BY <1>1 DEF JobsInv
  <2> QED
    BY <2>1, <2>2, <2>3 DEF JobsInv
<1>9. ASSUME NEW w \in Workers, Finish(w) PROVE JobsInv'
  <2> DEFINE j == Job(w)
  <2> DEFINE s == IF Holds(w) THEN Verdict(w) ELSE jobs[j].status
  <2>1. worker[w].outcome \in Results
    BY <1>1, RowFields DEF WorkersInv
  <2>2. j \in Jobs => WithStatus(jobs[j], s) \in JobRows
    <3>1. ASSUME j \in Jobs PROVE s \in {"none"} \cup Live \cup Settled /\ jobs[j] \in JobRows
      BY <1>1, <2>1, <3>1 DEF JobsInv, JobRows, Verdict, Results, Settled
    <3> QED
      BY <3>1, StatusType
  <2>3. UNCHANGED jobs \/ jobs' = [jobs EXCEPT ![j] = WithStatus(jobs[j], s)]
    BY <1>9, Zenon DEF Finish, WithStatus
  <2> QED
    BY <1>1, <1>2, <2>2, <2>3, PutType
<1>10. ASSUME NEW w \in Workers, Release(w) PROVE JobsInv'
  <2> DEFINE j == Job(w)
  <2> DEFINE r == IF Holds(w) THEN Row("pending", 0, FALSE, jobs[j].attempts) ELSE jobs[j]
  <2>1. j \in Jobs => r \in JobRows
    BY <1>1, BackType DEF JobsInv
  <2>2. UNCHANGED jobs \/ jobs' = [jobs EXCEPT ![j] = r]
    BY <1>10, Zenon DEF Release
  <2> QED
    BY <1>1, <1>2, <2>1, <2>2, PutType
<1>11. ASSUME NEW w \in Workers, Chain(w) PROVE JobsInv'
  BY <1>1, <1>2, <1>11, InsertType DEF Chain
<1>12. ASSUME NEW w \in Workers, \/ LoadClaimed(w) \/ TakeNext(w) \/ EndRun(w) \/ Lookup(w)
                                 \/ CheckPasses(w) \/ CheckRefuses(w) \/ SendSucceeds(w)
                                 \/ SendFails(w) \/ SetWaiting(w) \/ Refresh(w)
       PROVE  UNCHANGED jobs
  BY <1>12 DEF LoadClaimed, TakeNext, EndRun, Lookup, CheckPasses, CheckRefuses,
     SendSucceeds, SendFails, SetWaiting, Refresh
<1>13. CASE Reply \/ TurnPasses \/ TurnEnds \/ TurnPlans \/ Crash
  BY <1>2, <1>13 DEF Reply, TurnPasses, TurnEnds, TurnPlans, Crash
<1>14. CASE TurnCancels \/ DeskCancels
  BY <1>2, <1>3, <1>14 DEF TurnCancels, DeskCancels
<1>15. ASSUME NEW what, Operate(what) PROVE UNCHANGED jobs
  BY <1>15 DEF Operate
<1> QED
  BY <1>2, <1>4, <1>5, <1>6, <1>7, <1>8, <1>9, <1>10, <1>11, <1>12, <1>13, <1>14, <1>15
     DEF Next, Turn, Process

LEMMA WorkersStep ==
  ASSUME TypeInv, Next
  PROVE  WorkersInv'
<1>1. JobsInv /\ WorkersInv /\ ClientInv
  BY DEF TypeInv
<1>2. CASE UNCHANGED worker
  BY <1>1, <1>2 DEF WorkersInv
<1>3. ASSUME NEW w \in Workers, NEW due, Claim(w, due) PROVE WorkersInv'
  BY <1>1, <1>3, ClaimBecomes DEF Becomes
<1>4. ASSUME NEW w \in Workers, Process(w) PROVE WorkersInv'
  <2>1. CASE LoadClaimed(w)
    BY <1>1, <2>1, LoadBecomes DEF Becomes
  <2>2. CASE TakeNext(w)
    BY <1>1, <2>2, TakeBecomes DEF Becomes
  <2>3. CASE EndRun(w)
    BY <1>1, <2>3, IdleBecomes DEF Becomes, EndRun
  <2>4. CASE Lookup(w)
    BY <1>1, <2>4, LookupBecomes DEF Becomes
  <2>5. CASE CheckPasses(w) \/ CheckRefuses(w)
    BY <1>1, <2>5, CheckBecomes DEF Becomes
  <2>6. CASE SendSucceeds(w) \/ SendFails(w)
    BY <1>1, <2>6, SendBecomes DEF Becomes
  <2>7. CASE Finish(w) \/ Release(w) \/ SetWaiting(w) \/ Refresh(w) \/ Chain(w)
    BY <1>1, <2>7, RestBecomes DEF Becomes
  <2> QED
    BY <1>4, <2>1, <2>2, <2>3, <2>4, <2>5, <2>6, <2>7 DEF Process
<1>5. CASE Crash
  BY <1>5, IdleType DEF Crash, WorkersInv
<1>6. CASE Reply \/ Turn \/ DeskCancels
  BY <1>2, <1>6 DEF Reply, Turn, TurnCancels, TurnPasses, TurnEnds, TurnPlans,
     TurnSchedules, DeskCancels
<1>7. ASSUME NEW what, Operate(what) PROVE UNCHANGED worker
  BY <1>7 DEF Operate
<1>8. ASSUME NEW j, CancelJob(j) \/ RescheduleJob(j) \/ GrowsStale(j) PROVE UNCHANGED worker
  BY <1>8 DEF CancelJob, RescheduleJob, GrowsStale
<1> QED
  BY <1>2, <1>3, <1>4, <1>5, <1>6, <1>7, <1>8 DEF Next

\* The chat: the record, the turn and the bounds.
LEMMA ChatStep ==
  ASSUME TypeInv, Next
  PROVE  ClientInv' /\ TurnInv' /\ CountInv'
<1>1. ClientInv /\ TurnInv /\ CountInv
  BY DEF TypeInv
<1>2. client \in ClientRecords
  BY <1>1 DEF ClientInv
<1>3. ASSUME UNCHANGED <<client, newest, turn, desk, ops>>, Works \/ Fails
      PROVE  ClientInv' /\ TurnInv' /\ CountInv'
  <2>1. mishaps' \in 0 .. MaxMishaps
    BY <1>1, <1>3, FailsType DEF Works, CountInv
  <2> QED
    BY <1>1, <1>3, <2>1 DEF ClientInv, TurnInv, CountInv
<1>4. CASE Reply
  <2>1. turn' = [turn EXCEPT !.pc = "cancel"]
    BY <1>4 DEF Reply
  <2>2. TurnInv'
    BY <1>1, <2>1 DEF TurnInv, Turns
  <2>3. CountInv' /\ ClientInv'
    BY <1>1, <1>4, Bounds DEF Reply, CountInv, ClientInv, bounds
  <2> QED
    BY <2>2, <2>3
<1>5. CASE TurnCancels
  <2>1. turn' = [turn EXCEPT !.pc = "gate"] /\ UNCHANGED <<client, newest, desk, ops>>
    BY <1>5 DEF TurnCancels
  <2>2. mishaps' \in 0 .. MaxMishaps
    BY <1>1, <1>5, FailsType DEF TurnCancels, Works, CountInv
  <2>3. TurnInv'
    BY <1>1, <2>1 DEF TurnInv, Turns
  <2> QED
    BY <1>1, <2>1, <2>2, <2>3 DEF ClientInv, CountInv
<1>6. CASE TurnPasses
  <2>1. /\ turn' = [turn EXCEPT !.pc = "plan"] /\ client' = [client EXCEPT !.session = TRUE]
        /\ UNCHANGED <<newest, desk, ops, mishaps>>
    BY <1>6 DEF TurnPasses, bounds
  <2>2. TurnInv'
    BY <1>1, <2>1 DEF TurnInv, Turns
  <2>3. ClientInv'
    BY <1>2, <2>1, Zenon DEF ClientInv, ClientRecords
  <2> QED
    BY <1>1, <2>1, <2>2, <2>3 DEF CountInv
<1>7. CASE TurnEnds \/ TurnSchedules
  <2>1. turn' = NoTurn /\ UNCHANGED <<client, newest, desk, ops, mishaps>>
    BY <1>7 DEF TurnEnds, TurnSchedules, bounds
  <2> QED
    BY <1>1, <2>1, NoRows DEF ClientInv, TurnInv, CountInv
<1>8. CASE TurnPlans
  <2>1. /\ turn' = [pc |-> "schedule", snap |-> client]
        /\ UNCHANGED <<client, newest, desk, ops, mishaps>>
    BY <1>8 DEF TurnPlans, bounds
  <2>2. TurnInv'
    BY <1>2, <2>1 DEF TurnInv, Turns
  <2> QED
    BY <1>1, <2>1, <2>2 DEF ClientInv, CountInv
<1>9. ASSUME NEW what \in RecordOps, Operate(what) PROVE ClientInv' /\ TurnInv' /\ CountInv'
  <2>1. client' \in ClientRecords
    BY <1>1, <1>9, WrittenType DEF Operate
  <2>2. /\ ops < MaxOps /\ ops' = ops + 1 /\ desk' \in {"idle", "cancel"}
        /\ UNCHANGED <<newest, turn, mishaps>>
    BY <1>9 DEF Operate
  <2> QED
    BY <1>1, <2>1, <2>2, Bounds DEF ClientInv, TurnInv, CountInv
<1>10. CASE DeskCancels
  <2>1. desk' = "idle" /\ UNCHANGED <<client, newest, turn, ops>>
    BY <1>10 DEF DeskCancels
  <2>2. mishaps' \in 0 .. MaxMishaps
    BY <1>1, <1>10, FailsType DEF DeskCancels, Works, CountInv
  <2> QED
    BY <1>1, <2>1, <2>2 DEF ClientInv, TurnInv, CountInv
<1>11. ASSUME NEW j, CancelJob(j) \/ RescheduleJob(j) PROVE ClientInv' /\ TurnInv' /\ CountInv'
  <2>1. ops < MaxOps /\ ops' = ops + 1 /\ UNCHANGED <<client, newest, turn, desk, mishaps>>
    BY <1>11 DEF CancelJob, RescheduleJob, chat
  <2> QED
    BY <1>1, <2>1, Bounds DEF ClientInv, TurnInv, CountInv
<1>12. ASSUME NEW j, GrowsStale(j) PROVE ClientInv' /\ TurnInv' /\ CountInv'
  <2>1. UNCHANGED <<client, newest, turn, desk, ops, mishaps>>
    BY <1>12 DEF GrowsStale, chat, bounds
  <2> QED
    BY <1>3, <2>1 DEF Works
<1>13. ASSUME NEW w, NEW due, Claim(w, due) PROVE ClientInv' /\ TurnInv' /\ CountInv'
  <2>1. UNCHANGED <<client, newest, turn, desk, ops, mishaps>>
    BY <1>13 DEF Claim, chat, bounds
  <2> QED
    BY <1>3, <2>1 DEF Works
<1>14. ASSUME NEW w \in Workers, SetWaiting(w) PROVE ClientInv' /\ TurnInv' /\ CountInv'
  <2>1. UNCHANGED <<newest, turn, desk, ops>>
    BY <1>14 DEF SetWaiting
  <2>2. mishaps' \in 0 .. MaxMishaps
    BY <1>1, <1>14, FailsType DEF SetWaiting, Works, CountInv
  <2>3. client' \in ClientRecords
    <3>1. "waiting_for_client" \in Statuses
      BY Vocabulary
    <3>2. [client EXCEPT !.status = "waiting_for_client"] \in ClientRecords
      BY <1>2, <3>1, Zenon DEF ClientRecords
    <3>3. client' = [client EXCEPT !.status = "waiting_for_client"] \/ UNCHANGED client
      BY <1>14, Zenon DEF SetWaiting
    <3> QED
      BY <1>2, <3>2, <3>3
  <2> QED
    BY <1>1, <2>1, <2>2, <2>3 DEF ClientInv, TurnInv, CountInv
<1>15. ASSUME NEW w \in Workers, \/ LoadClaimed(w) \/ TakeNext(w) \/ EndRun(w) \/ Lookup(w)
                                 \/ CheckPasses(w) \/ CheckRefuses(w) \/ SendSucceeds(w)
                                 \/ SendFails(w) \/ Finish(w) \/ Release(w) \/ Refresh(w)
                                 \/ Chain(w)
       PROVE  ClientInv' /\ TurnInv' /\ CountInv'
  <2>1. UNCHANGED <<client, newest, turn, desk, ops>>
    BY <1>15 DEF LoadClaimed, TakeNext, EndRun, Lookup, CheckPasses, CheckRefuses,
       SendSucceeds, SendFails, Finish, Release, Refresh, Chain, chat, bounds
  <2>2. Works \/ Fails
    BY <1>15, Zenon DEF LoadClaimed, TakeNext, EndRun, Lookup, CheckPasses, CheckRefuses,
       SendSucceeds, SendFails, Finish, Release, Refresh, Chain, bounds, Works
  <2> QED
    BY <1>3, <2>1, <2>2
<1>16. CASE Crash
  <2>1. /\ turn' = NoTurn /\ desk' = "idle" /\ Fails /\ UNCHANGED <<client, newest, ops>>
    BY <1>16 DEF Crash
  <2> QED
    BY <1>1, <2>1, NoRows, FailsType DEF ClientInv, TurnInv, CountInv
<1> QED
  BY <1>4, <1>5, <1>6, <1>7, <1>8, <1>9, <1>10, <1>11, <1>12, <1>13, <1>14, <1>15, <1>16
     DEF Next, Turn, Process

\* The history counts, row by row.
LEMMA HistoryStep ==
  ASSUME TypeInv, Next
  PROVE  HistoryInv'
<1>1. HistoryInv
  BY DEF TypeInv
<1>2. ASSUME UNCHANGED <<sends, excused>>, late' = late \/ late' = NoneLate
      PROVE  HistoryInv'
  BY <1>1, <1>2 DEF HistoryInv, NoneLate
<1>3. ASSUME NEW j, excused' = [excused EXCEPT ![j] = TRUE], UNCHANGED <<sends, late>>
      PROVE  HistoryInv'
  BY <1>1, <1>3 DEF HistoryInv
<1>4. ASSUME NEW w \in Workers, SendSucceeds(w) \/ SendFails(w)
      PROVE  HistoryInv'
  <2> DEFINE j == Job(w)
  <2> DEFINE n == IF Wanted(j) THEN late[w] ELSE late[w] + 1
  <2>1. \/ sends' = [sends EXCEPT ![j] = sends[j] + 1] /\ late' = [late EXCEPT ![w] = n]
        \/ UNCHANGED <<sends, late>>
    BY <1>4 DEF SendSucceeds, SendFails, Reaches
  <2>2. n \in Nat
    BY <1>1 DEF HistoryInv
  <2> HIDE DEF j, n
  <2>3. UNCHANGED excused \/ excused' = [excused EXCEPT ![j] = TRUE]
    BY <1>4 DEF SendSucceeds, SendFails, j
  <2>4. sends' \in [Jobs -> Nat]
    BY <1>1, <2>1 DEF HistoryInv
  <2>5. excused' \in [Jobs -> BOOLEAN]
    BY <1>1, <2>3 DEF HistoryInv
  <2>6. late' \in [Workers -> Nat]
    BY <1>1, <2>1, <2>2 DEF HistoryInv
  <2> QED
    BY <2>4, <2>5, <2>6 DEF HistoryInv
<1>5. CASE Reply \/ Turn \/ DeskCancels \/ Crash
  BY <1>2, <1>5 DEF Reply, Turn, TurnCancels, TurnPasses, TurnEnds, TurnPlans,
     TurnSchedules, DeskCancels, Crash, history
<1>6. ASSUME NEW what, Operate(what) PROVE HistoryInv'
  BY <1>2, <1>6 DEF Operate
<1>7. ASSUME NEW j, CancelJob(j) \/ RescheduleJob(j) \/ GrowsStale(j) PROVE HistoryInv'
  BY <1>2, <1>3, <1>7 DEF CancelJob, RescheduleJob, GrowsStale, history
<1>8. ASSUME NEW w, NEW due, Claim(w, due) PROVE HistoryInv'
  BY <1>2, <1>8 DEF Claim, history
<1>9. ASSUME NEW w \in Workers, \/ LoadClaimed(w) \/ TakeNext(w) \/ EndRun(w) \/ Lookup(w)
                                \/ CheckPasses(w) \/ CheckRefuses(w) \/ Finish(w)
                                \/ Release(w) \/ SetWaiting(w) \/ Refresh(w) \/ Chain(w)
       PROVE  HistoryInv'
  BY <1>2, <1>9 DEF LoadClaimed, TakeNext, EndRun, Lookup, CheckPasses, CheckRefuses,
     Finish, Release, SetWaiting, Refresh, Chain, history
<1> QED
  BY <1>4, <1>5, <1>6, <1>7, <1>8, <1>9 DEF Next, Process

LEMMA TypeStep == TypeInv /\ [Next]_vars => TypeInv'
<1>1. ASSUME TypeInv, Next PROVE TypeInv'
  BY <1>1, JobsStep, WorkersStep, ChatStep, HistoryStep DEF TypeInv
<1>2. ASSUME TypeInv, UNCHANGED vars PROVE TypeInv'
  <2>1. UNCHANGED <<client, newest, jobs, worker, turn, desk, ops, mishaps, sends, excused,
                    late>>
    BY <1>2 DEF vars
  <2> QED
    BY <1>2, <2>1 DEF TypeInv, ClientInv, JobsInv, WorkersInv, TurnInv, CountInv, HistoryInv
<1> QED
  BY <1>1, <1>2

LEMMA Typed == Spec => []TypeInv
  BY TypeInit, TypeStep, PTL DEF Spec

LEMMA TypeInvImplies == TypeInv => TypeOK
<1> SUFFICES ASSUME TypeInv PROVE TypeOK
  OBVIOUS
<1> QED
  BY Zenon DEF TypeInv, ClientInv, JobsInv, WorkersInv, TurnInv, CountInv, HistoryInv, TypeOK,
     WorkerRows, Turns, Results

\* However many workers, crashes and failed statements: every row of the table
\* has a status the schema knows, a worker's memory is a copy of rows that
\* exist, and a run always finds a token nobody uses.
THEOREM TypeCorrect == Spec => []TypeOK
<1>1. TypeInv => TypeOK
  BY TypeInvImplies
<1> QED
  BY <1>1, Typed, PTL

-----------------------------------------------------------------------------
(* Few late nudges *)

\* A worker that sent a late nudge is not about to send another: what passed its
\* check since, or still will, is wanted.
LateAt(w) ==
  /\ late[w] \in {0, 1}
  /\ late[w] = 1 /\ At(w, "check") /\ Allowed(w) => Wanted(Job(w))
  /\ late[w] = 1 /\ At(w, "send") => Wanted(Job(w))

LateInv == \A w \in Workers : LateAt(w)

\* What the bot may write to the record.
BotWrites ==
  /\ newest' = newest
  /\ \/ UNCHANGED client
     \/ client' = [client EXCEPT !.session = TRUE]
     \/ client' = [client EXCEPT !.status = "waiting_for_client"]

\* Neither the turn's nor the nudges' own writes make a nudge unwanted.
LEMMA WantedStays ==
  ASSUME ClientInv, BotWrites, NEW j, Wanted(j)
  PROVE  Wanted(j)'
<1>1. client \in ClientRecords
  BY DEF ClientInv
<1>2. newest' = newest
  BY DEF BotWrites
<1>3. CASE UNCHANGED client
  BY <1>2, <1>3 DEF Wanted
<1>4. CASE client' = [client EXCEPT !.session = TRUE]
  BY <1>1, <1>2, <1>4 DEF Wanted, ClientRecords
<1>5. CASE client' = [client EXCEPT !.status = "waiting_for_client"]
  BY <1>1, <1>2, <1>5 DEF Wanted, ClientRecords
<1> QED
  BY <1>3, <1>4, <1>5 DEF BotWrites

LEMMA LateKept ==
  ASSUME ClientInv, BotWrites, NEW w \in Workers, LateAt(w),
         worker'[w] = worker[w], late'[w] = late[w]
  PROVE  LateAt(w)'
<1>1. Wanted(Job(w)) => Wanted(Job(w))'
  <2>1. PICK k : k = Job(w)
    OBVIOUS
  <2>2. Job(w)' = k
    BY <2>1 DEF Job
  <2>3. Wanted(k) => Wanted(k)'
    BY WantedStays
  <2> QED
    BY <2>1, <2>2, <2>3 DEF Wanted
<1>2. /\ At(w, "check")' => At(w, "check")
      /\ At(w, "send")' => At(w, "send")
  BY DEF At
<1>3. Allowed(w)' = Allowed(w)
  BY DEF Allowed, Job, BotWrites
<1> QED
  BY <1>1, <1>2, <1>3 DEF LateAt

\* A worker that is not about to send.
LEMMA LateFar ==
  ASSUME NEW w \in Workers, late'[w] \in {0, 1}, worker'[w].pc \notin {"check", "send"}
  PROVE  LateAt(w)'
  BY DEF LateAt, At

LEMMA LateStep ==
  ASSUME TypeInv, LateInv, Next
  PROVE  LateInv'
<1>1. /\ ClientInv /\ JobsInv /\ WorkersInv /\ HistoryInv
      /\ \A w \in Workers : LateAt(w) /\ late[w] \in {0, 1} /\ worker[w] \in WorkerRows
  BY DEF TypeInv, LateInv, LateAt, WorkersInv
<1>2. CASE late' = NoneLate
  BY <1>2 DEF LateInv, LateAt, NoneLate
<1>3. ASSUME UNCHANGED <<worker, late>>, BotWrites PROVE LateInv'
  BY <1>1, <1>3, LateKept DEF LateInv
<1>4. CASE Reply
  BY <1>2, <1>4 DEF Reply
<1>5. ASSUME NEW what, Operate(what) PROVE LateInv'
  BY <1>2, <1>5 DEF Operate
<1>6. CASE Turn \/ DeskCancels
  <2>1. UNCHANGED <<worker, late>>
    BY <1>6 DEF Turn, TurnCancels, TurnPasses, TurnEnds, TurnPlans, TurnSchedules,
       DeskCancels, history
  <2>2. BotWrites
    BY <1>6, Zenon DEF Turn, TurnCancels, TurnPasses, TurnEnds, TurnPlans, TurnSchedules,
       DeskCancels, BotWrites
  <2> QED
    BY <1>3, <2>1, <2>2
<1>7. ASSUME NEW j, CancelJob(j) \/ RescheduleJob(j) \/ GrowsStale(j) PROVE LateInv'
  <2>1. UNCHANGED <<worker, late, client, newest>>
    BY <1>7 DEF CancelJob, RescheduleJob, GrowsStale, chat, history
  <2> QED
    BY <1>3, <2>1 DEF BotWrites
<1>8. CASE Crash
  <2>1. late' = late /\ \A w \in Workers : worker'[w] = Idle
    BY <1>8 DEF Crash, history
  <2> QED
    BY <1>1, <2>1, IdleType, LateFar DEF LateInv
<1>9. ASSUME NEW w \in Workers, NEW r, Becomes(w, r), BotWrites,
             \A x \in Workers : x # w => late'[x] = late[x], LateAt(w)'
      PROVE  LateInv'
  BY <1>1, <1>9, LateKept DEF LateInv, Becomes
<1>10. ASSUME NEW w \in Workers, NEW r \in WorkerRows, Becomes(w, r), BotWrites, late' = late,
              r.pc \notin {"check", "send"}
       PROVE  LateInv'
  <2>1. LateAt(w)'
    BY <1>1, <1>10, LateFar DEF Becomes
  <2> QED
    BY <1>9, <1>10, <2>1
<1>11. ASSUME NEW w \in Workers, NEW due, Claim(w, due) PROVE LateInv'
  <2>1. UNCHANGED <<late, client, newest>>
    BY <1>11 DEF Claim, chat, history
  <2>2. Becomes(w, ClaimRow(Fresh))
    BY <1>1, <1>11, ClaimBecomes
  <2> QED
    BY <1>10, <2>1, <2>2, FreshToken, ClaimRowType DEF BotWrites
<1>12. ASSUME NEW w \in Workers, Process(w) PROVE LateInv'
  <2>0. worker[w] \in WorkerRows
    BY <1>1
  <2>1. CASE LoadClaimed(w)
    <3>1. UNCHANGED <<late, client, newest>>
      BY <2>1 DEF LoadClaimed, chat, history
    <3>2. ClaimsOf(Mine(w)) \in SUBSET Claims
      BY <1>1, ClaimsOfType DEF Mine
    <3>3. \E r \in WorkerRows : Becomes(w, r) /\ r.pc \notin {"check", "send"}
      BY <1>1, <2>0, <2>1, <3>2, LoadBecomes, LoadedRowType, IdleType
    <3> QED
      BY <1>10, <3>1, <3>3 DEF BotWrites
  <2>2. CASE TakeNext(w)
    <3>1. UNCHANGED <<late, client, newest>>
      BY <2>2 DEF TakeNext, chat, history
    <3>2. \E r \in WorkerRows : Becomes(w, r) /\ r.pc \notin {"check", "send"}
      BY <1>1, <2>0, <2>2, TakeBecomes, TakenRowType
    <3> QED
      BY <1>10, <3>1, <3>2 DEF BotWrites
  <2>3. CASE EndRun(w)
    <3>1. UNCHANGED <<late, client, newest>> /\ Become(w, Idle)
      BY <2>3 DEF EndRun, chat, history
    <3> QED
      BY <1>1, <1>10, <3>1, IdleBecomes, IdleType DEF BotWrites
  <2>4. CASE Lookup(w)
    <3>1. UNCHANGED <<late, client, newest>>
      BY <2>4 DEF Lookup, chat, history
    <3>2. CASE Becomes(w, EndedRow(worker[w], "failed"))
      <4>1. "failed" \in Results
        BY DEF Results
      <4> QED
        BY <1>10, <2>0, <3>1, <3>2, <4>1, EndedRowType DEF BotWrites
    <3>3. CASE Becomes(w, SnapRow(worker[w], "check", client))
      <4>1. "check" \in Positions /\ client \in ClientRecords \cup {None}
        BY <1>1 DEF Positions, ClientInv
      <4>2. worker'[w].pc = "check" /\ worker'[w].snap = client
        BY <2>0, <3>3, <4>1, SnapRowType DEF Becomes
      <4>3. Allowed(w)' => Wanted(Job(w))'
        BY <3>1, <4>2, Zenon DEF Allowed, Wanted, AutomationAllowed
      <4>4. LateAt(w)'
        BY <1>1, <3>1, <4>2, <4>3 DEF LateAt, At
      <4> QED
        BY <1>9, <3>1, <3>3, <4>4 DEF BotWrites
    <3> QED
      BY <1>1, <2>4, <3>2, <3>3, LookupBecomes
  <2>5. CASE CheckPasses(w) \/ CheckRefuses(w)
    <3>1. UNCHANGED <<late, client, newest>> /\ At(w, "check")
      BY <2>5 DEF CheckPasses, CheckRefuses, chat, history
    <3>2. CASE \E o \in {"failed", "skipped"} : Becomes(w, EndedRow(worker[w], o))
      <4>1. {"failed", "skipped"} \subseteq Results
        BY DEF Results
      <4> QED
        BY <1>10, <2>0, <3>1, <3>2, <4>1, EndedRowType DEF BotWrites
    <3>3. CASE Becomes(w, PcRow(worker[w], "send")) /\ Allowed(w)
      <4>1. "send" \in Positions
        BY DEF Positions
      <4>2. worker'[w].pc = "send" /\ worker'[w].cur = worker[w].cur
        BY <2>0, <3>3, <4>1, PcRowType DEF Becomes
      <4>3. late[w] = 1 => Wanted(Job(w))
        BY <1>1, <3>1, <3>3 DEF LateAt
      <4>4. Wanted(Job(w))' = Wanted(Job(w))
        BY <3>1, <4>2 DEF Wanted, Job
      <4>5. LateAt(w)'
        BY <1>1, <3>1, <4>2, <4>3, <4>4 DEF LateAt, At
      <4> QED
        BY <1>9, <3>1, <3>3, <4>5 DEF BotWrites
    <3> QED
      BY <1>1, <2>5, <3>2, <3>3, CheckBecomes
  <2>6. CASE SendSucceeds(w) \/ SendFails(w)
    <3>1. /\ UNCHANGED <<client, newest>> /\ At(w, "send")
          /\ Reaches(w) \/ UNCHANGED late
      BY <2>6 DEF SendSucceeds, SendFails, chat
    <3>2. \E r \in WorkerRows : Becomes(w, r) /\ r.pc \notin {"check", "send"}
      <4>1. "release" \in Positions /\ None \in ClientRecords \cup {None}
        BY DEF Positions
      <4> QED
        BY <1>1, <2>0, <2>6, <4>1, SendBecomes, SentRowType, SnapRowType
    <3>3. late'[w] \in {0, 1} /\ \A x \in Workers : x # w => late'[x] = late[x]
      BY <1>1, <3>1 DEF Reaches, HistoryInv, LateAt
    <3>4. LateAt(w)'
      BY <3>2, <3>3, LateFar DEF Becomes
    <3> QED
      BY <1>9, <3>1, <3>2, <3>3, <3>4 DEF BotWrites
  <2>7. CASE Finish(w) \/ Release(w) \/ SetWaiting(w) \/ Refresh(w) \/ Chain(w)
    <3>1. UNCHANGED <<late, newest>>
      BY <2>7 DEF Finish, Release, SetWaiting, Refresh, Chain, chat, history
    <3>2. BotWrites
      BY <2>7, Zenon DEF Finish, Release, SetWaiting, Refresh, Chain, chat, BotWrites
    <3>3. /\ "status" \in Positions /\ "refresh" \in Positions /\ "chain" \in Positions
          /\ client \in ClientRecords \cup {None}
      BY <1>1 DEF Positions, ClientInv
    <3>4. /\ PcRow(worker[w], "status") \in WorkerRows
          /\ PcRow(worker[w], "status").pc = "status"
      BY <2>0, <3>3, PcRowType
    <3>6. /\ PcRow(worker[w], "refresh") \in WorkerRows
          /\ PcRow(worker[w], "refresh").pc = "refresh"
      BY <2>0, <3>3, PcRowType
    <3>7. /\ SnapRow(worker[w], "chain", client) \in WorkerRows
          /\ SnapRow(worker[w], "chain", client).pc = "chain"
      BY <2>0, <3>3, SnapRowType
    <3>8. NextRow(worker[w]) \in WorkerRows /\ NextRow(worker[w]).pc = "next"
      BY <2>0, NextRowType
    <3>5. \E r \in WorkerRows : Becomes(w, r) /\ r.pc \notin {"check", "send"}
      BY <1>1, <2>7, <3>4, <3>6, <3>7, <3>8, RestBecomes
    <3> QED
      BY <1>10, <3>1, <3>2, <3>5
  <2> QED
    BY <1>12, <2>1, <2>2, <2>3, <2>4, <2>5, <2>6, <2>7 DEF Process
<1> QED
  BY <1>4, <1>5, <1>6, <1>7, <1>8, <1>11, <1>12 DEF Next

\* Any number of workers, retries, stale claims and chained stages: after a
\* change of the chat each worker sends at most the one nudge that had passed its
\* check.
THEOREM OneLateNudgeEach == Spec => []FewLateNudges
<1>1. Init => LateInv
  BY DEF Init, LateInv, LateAt, NoneLate
<1>2. TypeInv /\ LateInv /\ [Next]_vars => LateInv'
  <2>1. ASSUME LateInv, UNCHANGED vars PROVE LateInv'
    BY <2>1 DEF vars, LateInv, LateAt, At, Allowed, Wanted, Job
  <2> QED
    BY <2>1, LateStep
<1>3. LateInv => FewLateNudges
  BY DEF LateInv, LateAt, FewLateNudges
<1> QED
  BY Typed, <1>1, <1>2, <1>3, PTL DEF Spec

-----------------------------------------------------------------------------
(* One send a nudge *)

\* The nudge in hand has not been sent yet.
Ahead == {"lookup", "check", "send"}

\* The job is in a worker's memory, and still to be sent.
InHand(r, j) ==
  \/ \E c \in r.batch : c.job = j
  \/ r.pc \in Ahead /\ r.cur.job = j

\* The worker will send this job, unless a check stops it.
InFlight(w, j) ==
  \/ InHand(worker[w], j)
  \/ /\ worker[w].pc = "load"
     /\ jobs[j].token = worker[w].token /\ jobs[j].status = "claimed"

Unclaimed == {"none", "pending"}

\* A job that nothing excuses is in flight with one worker at most, and no more
\* once it was sent; and what may be claimed is neither in flight nor sent.
OnceAt(j) ==
  /\ jobs[j].stale = FALSE
  /\ jobs[j].status \in Unclaimed => sends[j] = 0 /\ \A w \in Workers : ~InFlight(w, j)
  /\ \A w, x \in Workers : InFlight(w, j) /\ InFlight(x, j) => w = x
  /\ \A w \in Workers : InFlight(w, j) => sends[j] = 0
  /\ sends[j] <= 1

\* A worker holds a job once; what it gives back is excused.
HandRow(r) ==
  /\ \A c, d \in r.batch : c.job = d.job => c = d
  /\ r.pc \in Ahead => r.cur \in Claims /\ \A c \in r.batch : c.job # r.cur.job
  /\ r.pc = "release" => r.cur \in Claims
  /\ r.pc = "finish" => r.outcome \in {"sent", "failed", "skipped"}

GivenBack(w) == worker[w].pc = "release" => excused[worker[w].cur.job] = TRUE

HandInv == \A w \in Workers : HandRow(worker[w]) /\ GivenBack(w)

OnceInv == HandInv /\ \A j \in Jobs : excused[j] = FALSE => OnceAt(j)

\* A row that only goes onward with what it has in hand.
Onward(r, q) ==
  /\ q.batch = r.batch /\ q.pc # "release"
  /\ q.pc \in Ahead => r.pc \in Ahead /\ q.cur = r.cur
  /\ q.pc = "finish" => q.outcome \in {"sent", "failed", "skipped"}

LEMMA OnwardHand ==
  ASSUME NEW r, NEW q, HandRow(r), Onward(r, q)
  PROVE  HandRow(q) /\ \A j : InHand(q, j) => InHand(r, j)
  BY DEF HandRow, Onward, InHand

LEMMA IdleHand == HandRow(Idle) /\ \A j : ~InHand(Idle, j)
<1>1. Idle.pc = "idle" /\ Idle.batch = {}
  BY IdleType
<1> QED
  BY <1>1 DEF HandRow, InHand, Ahead

\* A row of the table that a step leaves alone, or settles.
Soft(j) ==
  \/ jobs'[j] = jobs[j]
  \/ /\ jobs'[j].status # "claimed" /\ jobs'[j].stale = jobs[j].stale
     /\ jobs'[j].status \in Unclaimed => jobs[j].status \in Unclaimed

LEMMA SoftFlight ==
  ASSUME NEW j, NEW x, Soft(j), worker'[x] = worker[x], InFlight(x, j)'
  PROVE  InFlight(x, j)
  BY DEF Soft, InFlight, InHand

LEMMA OnceKept ==
  ASSUME NEW j, OnceAt(j), Soft(j), sends'[j] = sends[j],
         \A x \in Workers : InFlight(x, j)' => InFlight(x, j)
  PROVE  OnceAt(j)'
<1> HIDE DEF InFlight
<1> QED
  BY DEF OnceAt, Soft

\* A nudge that is inserted was not there.
LEMMA InsertSoft ==
  ASSUME JobsInv, NEW k, Insert(k)
  PROVE  \A j \in Jobs : Soft(j)
<1>1. Row("pending", 0, FALSE, 0).status = "pending" /\ Row("pending", 0, FALSE, 0).stale = FALSE
      /\ NoJob.status = "none" /\ NoJob.stale = FALSE
  BY DEF Row, NoJob
<1>2. ASSUME NEW j \in Jobs PROVE Soft(j)
  <2>1. \/ jobs'[j] = jobs[j]
        \/ jobs[j] = NoJob /\ jobs'[j] = Row("pending", 0, FALSE, 0)
    BY DEF Insert, JobsInv
  <2> QED
    BY <1>1, <2>1 DEF Soft, Unclaimed
<1> QED
  BY <1>2

\* The steps that leave the workers alone.
LEMMA OnceQuiet ==
  ASSUME OnceInv, UNCHANGED <<worker, sends>>,
         \A j \in Jobs : excused'[j] = FALSE => excused[j] = FALSE /\ Soft(j),
         \A w \in Workers : GivenBack(w)'
  PROVE  OnceInv'
<1>1. HandInv'
  BY DEF OnceInv, HandInv
<1>2. ASSUME NEW j \in Jobs, excused'[j] = FALSE PROVE OnceAt(j)'
  BY <1>2, OnceKept, SoftFlight DEF OnceInv
<1> QED
  BY <1>1, <1>2 DEF OnceInv

\* The steps of one worker that go onward.
LEMMA OnceOnward ==
  ASSUME OnceInv, NEW w \in Workers, NEW q, Becomes(w, q), HandRow(q),
         q.pc # "load", q.pc # "release",
         UNCHANGED <<sends, excused>>,
         \A j \in Jobs : excused[j] = FALSE => Soft(j),
         \A j \in Jobs : InHand(q, j) => InFlight(w, j)
  PROVE  OnceInv'
<1>1. HandInv'
  BY DEF OnceInv, HandInv, Becomes, GivenBack
<1>2. ASSUME NEW j \in Jobs, excused[j] = FALSE PROVE OnceAt(j)'
  <2>1. ASSUME NEW x \in Workers, InFlight(x, j)' PROVE InFlight(x, j)
    <3>1. CASE x = w
      <4>1. worker'[w] = q
        BY DEF Becomes
      <4>2. InHand(q, j)
        BY <2>1, <3>1, <4>1 DEF InFlight, InHand
      <4> QED
        BY <3>1, <4>2
    <3>2. CASE x # w
      <4>1. worker'[x] = worker[x]
        BY <3>2 DEF Becomes
      <4> QED
        BY <1>2, <2>1, <4>1, SoftFlight
    <3> QED
      BY <3>1, <3>2
  <2> QED
    BY <1>2, <2>1, OnceKept DEF OnceInv
<1> QED
  BY <1>1, <1>2 DEF OnceInv

LEMMA OnceInit == Init => OnceInv
<1> SUFFICES ASSUME Init PROVE OnceInv
  OBVIOUS
<1>1. \A w \in Workers : worker[w] = Idle
  BY DEF Init
<1>2. HandInv
  BY <1>1, IdleHand, IdleType DEF HandInv, GivenBack
<1>3. \A w \in Workers, j \in Jobs : ~InFlight(w, j)
  BY <1>1, IdleHand, IdleType DEF InFlight
<1>4. \A j \in Jobs : sends[j] = 0 /\ jobs[j].stale = FALSE
  BY DEF Init, NoJob, Row
<1> QED
  BY <1>2, <1>3, <1>4 DEF OnceInv, OnceAt

\* Claim: the token is new, and what is claimed was nobody's.
LEMMA ClaimOnce ==
  ASSUME TypeInv, OnceInv, NEW w \in Workers, NEW due \in SUBSET Jobs, Claim(w, due)
  PROVE  OnceInv'
<1>1. WorkersInv /\ JobsInv
  BY DEF TypeInv
<1>2. Becomes(w, ClaimRow(Fresh))
  BY <1>1, ClaimBecomes
<1>3. /\ ClaimRow(Fresh).pc = "load" /\ ClaimRow(Fresh).token = Fresh
      /\ ClaimRow(Fresh).batch = {}
  BY FreshToken, ClaimRowType
<1>4. /\ jobs' = [j \in Jobs |-> IF j \in due THEN Row("claimed", Fresh, FALSE, Counted(j))
                                               ELSE jobs[j]]
      /\ UNCHANGED <<sends, excused>> /\ \A j \in due : Claimable(j)
  BY Zenon DEF Claim, Fresh, history
<1>5. HandInv'
  BY <1>2, <1>3, <1>4 DEF OnceInv, HandInv, Becomes, HandRow, GivenBack, Ahead
<1>6. ASSUME NEW j \in Jobs, excused[j] = FALSE PROVE OnceAt(j)'
  <2>1. OnceAt(j)
    BY <1>6 DEF OnceInv
  <2>2. CASE j \in due
    <3>1. jobs[j].status \in Unclaimed
      BY <1>4, <2>1, <2>2 DEF Claimable, OnceAt, Unclaimed
    <3>2. sends[j] = 0 /\ \A x \in Workers : ~InFlight(x, j)
      BY <2>1, <3>1 DEF OnceAt
    <3>3. jobs'[j] = Row("claimed", Fresh, FALSE, Counted(j))
      BY <1>4, <2>2
    <3>4. jobs'[j].status = "claimed" /\ jobs'[j].token = Fresh /\ jobs'[j].stale = FALSE
      BY <3>3 DEF Row
    <3>5. ASSUME NEW x \in Workers, InFlight(x, j)' PROVE x = w
      <4>1. ASSUME x # w PROVE FALSE
        <5>1. worker'[x] = worker[x]
          BY <1>2, <4>1 DEF Becomes
        <5>2. ~InHand(worker[x], j)
          BY <3>2 DEF InFlight
        <5>3. worker[x].token = Fresh
          BY <3>4, <3>5, <5>1, <5>2 DEF InFlight, InHand
        <5> QED
          BY <5>3, FreshToken DEF UsedTokens
      <4> QED
        BY <4>1
    <3>6. sends'[j] = 0
      BY <1>4, <3>2
    <3>7. \A x, y \in Workers : InFlight(x, j)' /\ InFlight(y, j)' => x = y
      BY <3>5
    <3> QED
      BY <3>4, <3>6, <3>7 DEF OnceAt, Unclaimed
  <2>3. CASE j \notin due
    <3>1. jobs'[j] = jobs[j] /\ Soft(j)
      BY <1>4, <2>3 DEF Soft
    <3>2. ASSUME NEW x \in Workers, InFlight(x, j)' PROVE InFlight(x, j)
      <4>1. CASE x = w
        <5>1. worker'[x].pc = "load" /\ worker'[x].token = Fresh /\ worker'[x].batch = {}
          BY <1>2, <1>3, <4>1 DEF Becomes
        <5>2. jobs[j].token = Fresh
          BY <3>1, <3>2, <5>1 DEF InFlight, InHand, Ahead
        <5> QED
          BY <5>2, FreshToken DEF UsedTokens
      <4>2. CASE x # w
        <5>1. worker'[x] = worker[x]
          BY <1>2, <4>2 DEF Becomes
        <5> QED
          BY <3>1, <3>2, <5>1, SoftFlight
      <4> QED
        BY <4>1, <4>2
    <3> QED
      BY <1>4, <2>1, <3>1, <3>2, OnceKept
  <2> QED
    BY <2>2, <2>3
<1> QED
  BY <1>4, <1>5, <1>6 DEF OnceInv

\* SendSucceeds and SendFails: the nudge leaves the worker's hand as it is sent.
LEMMA SendOnce ==
  ASSUME TypeInv, OnceInv, NEW w \in Workers, SendSucceeds(w) \/ SendFails(w)
  PROVE  OnceInv'
<1>1. WorkersInv /\ HistoryInv /\ worker[w] \in WorkerRows
  BY DEF TypeInv, WorkersInv
<1> DEFINE k == Job(w)
<1>2. HandRow(worker[w]) /\ worker[w].pc = "send"
  BY DEF OnceInv, HandInv, SendSucceeds, SendFails, At
<1>3. k \in Jobs /\ k = worker[w].cur.job /\ InHand(worker[w], k)
      /\ \A c \in worker[w].batch : c.job # k
  BY <1>2 DEF HandRow, Ahead, Job, Claims, InHand
<1>4. PICK q \in WorkerRows :
        /\ Becomes(w, q) /\ q.batch = worker[w].batch /\ q.cur = worker[w].cur
        /\ \/ q.pc = "finish" /\ q.outcome = "sent" /\ UNCHANGED excused
           \/ q.pc = "release" /\ excused' = [excused EXCEPT ![k] = TRUE]
  <2>1. CASE SendSucceeds(w)
    BY <1>1, <2>1, SendBecomes, SentRowType DEF SendSucceeds
  <2>2. CASE SendFails(w)
    <3>1. "release" \in Positions /\ None \in ClientRecords \cup {None}
      BY DEF Positions
    <3>2. excused' = [excused EXCEPT ![k] = TRUE]
      BY <2>2 DEF SendFails
    <3>3. Becomes(w, SnapRow(worker[w], "release", None))
      BY <1>1, <2>2, SendBecomes
    <3>4. /\ SnapRow(worker[w], "release", None) \in WorkerRows
          /\ SnapRow(worker[w], "release", None).pc = "release"
          /\ SnapRow(worker[w], "release", None).batch = worker[w].batch
          /\ SnapRow(worker[w], "release", None).cur = worker[w].cur
      BY <1>1, <3>1, SnapRowType
    <3> QED
      BY <3>2, <3>3, <3>4
  <2> QED
    BY <2>1, <2>2
<1>5. /\ UNCHANGED jobs
      /\ sends' = [sends EXCEPT ![k] = sends[k] + 1] \/ UNCHANGED sends
  BY DEF SendSucceeds, SendFails, Reaches
<1> HIDE DEF k
<1>6. HandRow(q)
  BY <1>2, <1>4 DEF HandRow, Ahead
<1>7. \A j \in Jobs : excused'[j] = FALSE => excused[j] = FALSE
  BY <1>1, <1>3, <1>4 DEF HistoryInv
<1>8. HandInv'
  <2>1. GivenBack(w)'
    BY <1>1, <1>3, <1>4 DEF GivenBack, Becomes, HistoryInv
  <2>2. ASSUME NEW x \in Workers, x # w PROVE GivenBack(x)'
    <3>1. worker'[x] = worker[x] /\ GivenBack(x)
      BY <1>4, <2>2 DEF Becomes, OnceInv, HandInv
    <3>2. \A j \in Jobs : excused[j] = TRUE => excused'[j] = TRUE
      BY <1>1, <1>3, <1>4 DEF HistoryInv
    <3>3. worker[x].pc = "release" => worker[x].cur.job \in Jobs
      BY <2>2 DEF OnceInv, HandInv, HandRow, Claims
    <3> QED
      BY <3>1, <3>2, <3>3 DEF GivenBack
  <2> QED
    BY <1>4, <1>6, <2>1, <2>2 DEF HandInv, OnceInv, Becomes
<1>9. ASSUME NEW j \in Jobs, excused'[j] = FALSE PROVE OnceAt(j)'
  <2>1. OnceAt(j) /\ Soft(j)
    BY <1>5, <1>7, <1>9 DEF OnceInv, Soft
  <2>2. ASSUME NEW x \in Workers, InFlight(x, j)'
        PROVE  InFlight(x, j) /\ (x = w => j # k)
    <3>1. CASE x = w
      <4>1. \E c \in worker[w].batch : c.job = j
        BY <1>4, <2>2, <3>1 DEF InFlight, InHand, Becomes, Ahead
      <4> QED
        BY <1>3, <3>1, <4>1 DEF InFlight, InHand
    <3>2. CASE x # w
      <4>1. worker'[x] = worker[x]
        BY <1>4, <3>2 DEF Becomes
      <4> QED
        BY <2>1, <2>2, <3>2, <4>1, SoftFlight
    <3> QED
      BY <3>1, <3>2
  <2>3. CASE j # k
    <3>1. sends'[j] = sends[j]
      BY <1>1, <1>5, <2>3 DEF HistoryInv
    <3> QED
      BY <2>1, <2>2, <3>1, OnceKept
  <2>4. CASE j = k
    <3>1. InFlight(w, j)
      BY <1>3, <2>4 DEF InFlight
    <3>2. sends[j] = 0 /\ jobs[j].status \notin Unclaimed
      BY <2>1, <3>1 DEF OnceAt
    <3>3. \A x \in Workers : ~InFlight(x, j)'
      <4>1. ASSUME NEW x \in Workers, InFlight(x, j)' PROVE FALSE
        <5>1. InFlight(x, j) /\ x # w
          BY <2>2, <2>4, <4>1
        <5> QED
          BY <2>1, <3>1, <5>1 DEF OnceAt
      <4> QED
        BY <4>1
    <3>4. sends'[j] <= 1
      BY <1>1, <1>3, <1>5, <2>4, <3>2 DEF HistoryInv
    <3> QED
      BY <1>5, <2>1, <3>2, <3>3, <3>4 DEF OnceAt
  <2> QED
    BY <2>3, <2>4
<1> QED
  BY <1>8, <1>9 DEF OnceInv

\* The steps of one worker between claim and send, and after it.
LEMMA ProcessOnce ==
  ASSUME TypeInv, OnceInv, NEW w \in Workers, Process(w)
  PROVE  OnceInv'
<1> DEFINE r == worker[w]
<1>1. WorkersInv /\ JobsInv /\ ClientInv /\ HistoryInv /\ r \in WorkerRows /\ HandRow(r)
  BY DEF TypeInv, WorkersInv, OnceInv, HandInv
<1>2. \A j \in Jobs : InHand(r, j) => InFlight(w, j)
  BY DEF InFlight
<1> HIDE DEF r
<1>3. ASSUME NEW q, Becomes(w, q), Onward(r, q), q.pc # "load",
             UNCHANGED <<sends, excused>>, \A j \in Jobs : excused[j] = FALSE => Soft(j)
      PROVE  OnceInv'
  <2>1. HandRow(q) /\ \A j : InHand(q, j) => InHand(r, j)
    BY <1>1, <1>3, OnwardHand
  <2>2. q.pc # "release"
    BY <1>3 DEF Onward
  <2> QED
    BY <1>2, <1>3, <2>1, <2>2, OnceOnward
<1>4. ASSUME UNCHANGED jobs PROVE \A j \in Jobs : Soft(j)
  BY <1>4 DEF Soft
<1>5. ASSUME Becomes(w, Idle), UNCHANGED <<jobs, sends, excused>> PROVE OnceInv'
  <2>1. Idle.pc # "load" /\ Idle.pc # "release"
    BY IdleType
  <2> QED
    BY <1>4, <1>5, <2>1, IdleHand, OnceOnward
<1>6. NextRow(r).pc = "next" /\ NextRow(r).batch = r.batch
  BY <1>1, NextRowType
<1>7. Onward(r, NextRow(r)) /\ NextRow(r).pc # "load"
  BY <1>6 DEF Onward, Ahead
<1>8. CASE LoadClaimed(w)
  <2>1. UNCHANGED <<jobs, sends, excused>> /\ r.pc = "load"
    BY <1>8 DEF LoadClaimed, history, At, r
  <2> DEFINE q == LoadedRow(r, ClaimsOf(Mine(w)))
  <2>2. ClaimsOf(Mine(w)) \in SUBSET Claims
    BY <1>1, ClaimsOfType DEF Mine
  <2>3. q.pc = "next" /\ q.batch = ClaimsOf(Mine(w))
    BY <1>1, <2>2, LoadedRowType
  <2>4. CASE Becomes(w, q)
    <3> HIDE DEF q
    <3>1. HandRow(q)
      BY <2>3 DEF HandRow, ClaimsOf, Ahead
    <3>2. ASSUME NEW j \in Jobs, InHand(q, j) PROVE InFlight(w, j)
      <4>1. j \in Mine(w)
        BY <2>3, <3>2 DEF InHand, ClaimsOf, Ahead
      <4> QED
        BY <2>1, <4>1 DEF Mine, InFlight, r
    <3> QED
      BY <1>4, <2>1, <2>3, <2>4, <3>1, <3>2, OnceOnward
  <2> QED
    BY <1>1, <1>5, <1>8, <2>1, <2>4, LoadBecomes DEF r
<1>9. CASE TakeNext(w)
  <2>1. UNCHANGED <<jobs, sends, excused>>
    BY <1>9 DEF TakeNext, history
  <2>2. PICK c \in r.batch : Becomes(w, TakenRow(r, c))
    BY <1>1, <1>9, TakeBecomes DEF r
  <2> DEFINE q == TakenRow(r, c)
  <2>3. q.pc = "lookup" /\ q.batch = r.batch \ {c} /\ q.cur = c
    BY <1>1, TakenRowType
  <2>4. r.batch \in SUBSET Claims
    BY <1>1, RowFields
  <2> HIDE DEF q
  <2>5. HandRow(q)
    BY <1>1, <2>3, <2>4 DEF HandRow
  <2>6. ASSUME NEW j \in Jobs, InHand(q, j) PROVE InFlight(w, j)
    <3>1. InHand(r, j)
      BY <2>3, <2>6 DEF InHand
    <3> QED
      BY <1>2, <3>1
  <2>7. Becomes(w, q) /\ q.pc # "load" /\ q.pc # "release"
    BY <2>2, <2>3 DEF q
  <2> QED
    BY <1>4, <2>1, <2>5, <2>6, <2>7, OnceOnward
<1>10. CASE EndRun(w)
  <2>1. UNCHANGED <<jobs, sends, excused>> /\ Become(w, Idle)
    BY <1>10 DEF EndRun, history
  <2> QED
    BY <1>1, <1>5, <2>1, IdleBecomes
<1>11. CASE Lookup(w) \/ CheckPasses(w) \/ CheckRefuses(w)
  <2>1. UNCHANGED <<jobs, sends, excused>> /\ r.pc \in Ahead
    BY <1>11 DEF Lookup, CheckPasses, CheckRefuses, history, At, Ahead, r
  <2>2. ASSUME NEW o \in {"failed", "skipped"}, Becomes(w, EndedRow(r, o)) PROVE OnceInv'
    <3>1. o \in Results
      BY DEF Results
    <3>2. /\ EndedRow(r, o).pc = "finish" /\ EndedRow(r, o).batch = r.batch
          /\ EndedRow(r, o).outcome = o
      BY <1>1, <3>1, EndedRowType
    <3>3. Onward(r, EndedRow(r, o)) /\ EndedRow(r, o).pc # "load"
      BY <3>2 DEF Onward, Ahead
    <3> QED
      BY <1>3, <1>4, <2>1, <2>2, <3>3
  <2>3. ASSUME Becomes(w, SnapRow(r, "check", client)) PROVE OnceInv'
    <3>1. "check" \in Positions /\ client \in ClientRecords \cup {None}
      BY <1>1 DEF Positions, ClientInv
    <3>2. /\ SnapRow(r, "check", client).pc = "check"
          /\ SnapRow(r, "check", client).batch = r.batch
          /\ SnapRow(r, "check", client).cur = r.cur
      BY <1>1, <3>1, SnapRowType
    <3>3. Onward(r, SnapRow(r, "check", client)) /\ SnapRow(r, "check", client).pc # "load"
      BY <2>1, <3>2 DEF Onward
    <3> QED
      BY <1>3, <1>4, <2>1, <2>3, <3>3
  <2>4. ASSUME Becomes(w, PcRow(r, "send")) PROVE OnceInv'
    <3>1. "send" \in Positions
      BY DEF Positions
    <3>2. PcRow(r, "send").pc = "send" /\ PcRow(r, "send").batch = r.batch
          /\ PcRow(r, "send").cur = r.cur
      BY <1>1, <3>1, PcRowType
    <3>3. Onward(r, PcRow(r, "send")) /\ PcRow(r, "send").pc # "load"
      BY <2>1, <3>2 DEF Onward
    <3> QED
      BY <1>3, <1>4, <2>1, <2>4, <3>3
  <2>5. CASE Lookup(w)
    BY <1>1, <2>2, <2>3, <2>5, LookupBecomes DEF r
  <2>6. CASE CheckPasses(w) \/ CheckRefuses(w)
    BY <1>1, <2>2, <2>4, <2>6, CheckBecomes DEF r
  <2> QED
    BY <1>11, <2>5, <2>6
<1>12. CASE SendSucceeds(w) \/ SendFails(w)
  BY <1>12, SendOnce
<1>13. CASE Finish(w) \/ Release(w) \/ SetWaiting(w) \/ Refresh(w) \/ Chain(w)
  <2>1. UNCHANGED <<sends, excused>>
    BY <1>13 DEF Finish, Release, SetWaiting, Refresh, Chain, history
  <2>2. ASSUME NEW j \in Jobs, excused[j] = FALSE PROVE Soft(j)
    <3>1. CASE UNCHANGED jobs
      BY <3>1 DEF Soft
    <3>2. CASE Finish(w)
      <4> DEFINE s == IF Holds(w) THEN Verdict(w) ELSE jobs[Job(w)].status
      <4>1. UNCHANGED jobs \/ jobs' = [jobs EXCEPT ![Job(w)] = WithStatus(jobs[Job(w)], s)]
        BY <3>2, Zenon DEF Finish, WithStatus
      <4>2. r.outcome \in {"sent", "failed", "skipped"}
        BY <1>1, <3>2 DEF Finish, HandRow, At, r
      <4>3. CASE j = Job(w) /\ jobs' = [jobs EXCEPT ![j] = WithStatus(jobs[j], s)]
        <5>1. jobs[j] \in JobRows
          BY <1>1 DEF JobsInv
        <5>2. Verdict(w) \in {"sent", "failed", "skipped"}
          BY <4>2 DEF Verdict, r
        <5>3. s \in {"none"} \cup Live \cup Settled
          BY <4>3, <5>1, <5>2 DEF Settled, JobRows
        <5>4. jobs'[j] = WithStatus(jobs[j], s)
          BY <1>1, <4>3 DEF JobsInv
        <5>5. CASE Holds(w)
          <6>1. s \in {"sent", "failed", "skipped"}
            BY <5>2, <5>5
          <6> HIDE DEF s
          <6>2. jobs'[j].status = s /\ jobs'[j].stale = jobs[j].stale
            BY <5>1, <5>3, <5>4, StatusType
          <6> QED
            BY <6>1, <6>2 DEF Soft, Unclaimed
        <5>6. CASE ~Holds(w)
          <6>1. s = jobs[j].status
            BY <4>3, <5>6
          <6>2. WithStatus(jobs[j], jobs[j].status) = jobs[j]
            BY <5>1 DEF WithStatus, JobRows
          <6> QED
            BY <5>4, <6>1, <6>2 DEF Soft
        <5> QED
          BY <5>5, <5>6
      <4>4. CASE j # Job(w) /\ jobs' = [jobs EXCEPT ![Job(w)] = WithStatus(jobs[Job(w)], s)]
        BY <1>1, <4>4 DEF Soft, JobsInv
      <4> QED
        BY <3>1, <4>1, <4>3, <4>4
    <3>3. CASE Release(w)
      <4> DEFINE b == IF Holds(w) THEN Row("pending", 0, FALSE, jobs[Job(w)].attempts)
                      ELSE jobs[Job(w)]
      <4>1. UNCHANGED jobs \/ jobs' = [jobs EXCEPT ![Job(w)] = b]
        BY <3>3, Zenon DEF Release
      <4>2. excused[Job(w)] = TRUE
        BY <3>3 DEF Release, At, OnceInv, HandInv, GivenBack, Job
      <4>3. j # Job(w)
        BY <2>2, <4>2
      <4> HIDE DEF b
      <4> QED
        BY <1>1, <4>1, <4>3 DEF Soft, JobsInv
    <3>4. CASE Chain(w)
      <4>1. UNCHANGED jobs \/ Insert([Job(w) EXCEPT !.stage = @ + 1])
        BY <3>4 DEF Chain
      <4> QED
        BY <1>1, <3>1, <4>1, InsertSoft
    <3>5. CASE SetWaiting(w) \/ Refresh(w)
      BY <3>1, <3>5 DEF SetWaiting, Refresh
    <3> QED
      BY <1>13, <3>2, <3>3, <3>4, <3>5
  <2>3. /\ "status" \in Positions /\ "refresh" \in Positions /\ "chain" \in Positions
        /\ client \in ClientRecords \cup {None}
    BY <1>1 DEF Positions, ClientInv
  <2>4. ASSUME NEW p \in {"status", "refresh"} PROVE Onward(r, PcRow(r, p)) /\ PcRow(r, p).pc = p
    <3>1. PcRow(r, p).pc = p /\ PcRow(r, p).batch = r.batch
      BY <1>1, <2>3, PcRowType
    <3> QED
      BY <3>1 DEF Onward, Ahead
  <2>5. Onward(r, SnapRow(r, "chain", client)) /\ SnapRow(r, "chain", client).pc = "chain"
    <3>1. /\ SnapRow(r, "chain", client).pc = "chain"
          /\ SnapRow(r, "chain", client).batch = r.batch
      BY <1>1, <2>3, SnapRowType
    <3> QED
      BY <3>1 DEF Onward, Ahead
  <2>6. \E q : Becomes(w, q) /\ Onward(r, q) /\ q.pc # "load"
    <3>1. /\ Onward(r, PcRow(r, "status")) /\ PcRow(r, "status").pc # "load"
          /\ Onward(r, PcRow(r, "refresh")) /\ PcRow(r, "refresh").pc # "load"
      BY <2>4
    <3>2. SnapRow(r, "chain", client).pc # "load"
      BY <2>5
    <3> QED
      BY <1>1, <1>7, <1>13, <2>5, <3>1, <3>2, RestBecomes DEF r
  <2> QED
    BY <1>3, <2>1, <2>2, <2>6
<1> QED
  BY <1>8, <1>9, <1>10, <1>11, <1>12, <1>13 DEF Process

LEMMA OnceStep ==
  ASSUME TypeInv, OnceInv, Next
  PROVE  OnceInv'
<1>1. JobsInv /\ HistoryInv
  BY DEF TypeInv
<1>2. ASSUME UNCHANGED <<worker, sends, excused>>, \A j \in Jobs : Soft(j) PROVE OnceInv'
  <2>1. \A w \in Workers : GivenBack(w)'
    BY <1>2 DEF OnceInv, HandInv, GivenBack
  <2> QED
    BY <1>2, <2>1, OnceQuiet
<1>3. ASSUME UNCHANGED jobs PROVE \A j \in Jobs : Soft(j)
  BY <1>3 DEF Soft
<1>4. ASSUME jobs' = AllCancelled PROVE \A j \in Jobs : Soft(j)
  <2> SUFFICES ASSUME NEW j \in Jobs PROVE Soft(j)
    OBVIOUS
  <2>1. jobs'[j] = jobs[j] \/ jobs'[j] = WithStatus(jobs[j], "cancelled")
    BY <1>4 DEF AllCancelled, WithStatus
  <2>2. jobs[j] \in JobRows /\ "cancelled" \in {"none"} \cup Live \cup Settled
    BY <1>1 DEF JobsInv, Settled
  <2> QED
    BY <2>1, <2>2, StatusType DEF Soft, Unclaimed
<1>5. CASE Reply \/ TurnPasses \/ TurnEnds \/ TurnPlans
  BY <1>2, <1>3, <1>5 DEF Reply, TurnPasses, TurnEnds, TurnPlans, history
<1>6. ASSUME NEW what, Operate(what) PROVE OnceInv'
  BY <1>2, <1>3, <1>6 DEF Operate
<1>7. CASE TurnCancels \/ DeskCancels
  <2>1. UNCHANGED <<worker, sends, excused>> /\ (jobs' = AllCancelled \/ UNCHANGED jobs)
    BY <1>7 DEF TurnCancels, DeskCancels, history
  <2> QED
    BY <1>2, <1>3, <1>4, <2>1
<1>8. CASE TurnSchedules
  <2>1. UNCHANGED <<worker, sends, excused>> /\ Insert(FirstNudge)
    BY <1>8 DEF TurnSchedules, history
  <2> QED
    BY <1>1, <1>2, <2>1, InsertSoft
<1>9. ASSUME NEW k \in Jobs, CancelJob(k) PROVE OnceInv'
  <2>1. /\ UNCHANGED <<worker, sends, excused>>
        /\ jobs' = [jobs EXCEPT ![k] = WithStatus(jobs[k], "cancelled")]
    BY <1>9, Zenon DEF CancelJob, WithStatus, history
  <2>2. ASSUME NEW j \in Jobs PROVE Soft(j)
    <3>1. jobs'[j] = jobs[j] \/ jobs'[j] = WithStatus(jobs[j], "cancelled")
      BY <1>1, <2>1 DEF JobsInv
    <3>2. jobs[j] \in JobRows /\ "cancelled" \in {"none"} \cup Live \cup Settled
      BY <1>1 DEF JobsInv, Settled
    <3> QED
      BY <3>1, <3>2, StatusType DEF Soft, Unclaimed
  <2> QED
    BY <1>2, <2>1, <2>2
<1>10. ASSUME NEW k \in Jobs, RescheduleJob(k) \/ GrowsStale(k) PROVE OnceInv'
  <2>1. /\ UNCHANGED <<worker, sends>> /\ excused' = [excused EXCEPT ![k] = TRUE]
        /\ \A j \in Jobs : j # k => jobs'[j] = jobs[j]
    BY <1>1, <1>10 DEF RescheduleJob, GrowsStale, JobsInv
  <2>2. \A j \in Jobs : excused'[j] = FALSE => excused[j] = FALSE /\ Soft(j)
    BY <1>1, <2>1 DEF HistoryInv, Soft
  <2>3. ASSUME NEW w \in Workers PROVE GivenBack(w)'
    <3>1. worker[w].pc = "release" => worker[w].cur.job \in Jobs
      BY DEF OnceInv, HandInv, HandRow, Claims
    <3> QED
      BY <1>1, <2>1, <3>1 DEF OnceInv, HandInv, GivenBack, HistoryInv
  <2> QED
    BY <2>1, <2>2, <2>3, OnceQuiet
<1>11. ASSUME NEW w \in Workers, NEW due \in SUBSET Jobs, Claim(w, due) PROVE OnceInv'
  BY <1>11, ClaimOnce
<1>12. ASSUME NEW w \in Workers, Process(w) PROVE OnceInv'
  BY <1>12, ProcessOnce
<1>13. CASE Crash
  <2>1. (\A w \in Workers : worker'[w] = Idle) /\ UNCHANGED <<jobs, sends, excused>>
    BY <1>13 DEF Crash, history
  <2>2. HandInv'
    BY <2>1, IdleHand, IdleType DEF HandInv, GivenBack
  <2>3. \A w \in Workers, j \in Jobs : ~InFlight(w, j)'
    <3>1. ASSUME NEW w \in Workers, NEW j \in Jobs, InFlight(w, j)' PROVE FALSE
      BY <2>1, <3>1, IdleHand, IdleType DEF InFlight, InHand
    <3> QED
      BY <3>1
  <2>4. ASSUME NEW j \in Jobs, excused[j] = FALSE PROVE OnceAt(j)'
    <3>1. OnceAt(j) /\ Soft(j)
      BY <1>3, <2>1, <2>4 DEF OnceInv
    <3>2. \A w \in Workers : InFlight(w, j)' => InFlight(w, j)
      BY <2>3
    <3>3. sends'[j] = sends[j]
      BY <2>1
    <3> QED
      BY <3>1, <3>2, <3>3, OnceKept
  <2> QED
    BY <2>1, <2>2, <2>4 DEF OnceInv
<1> QED
  BY <1>5, <1>6, <1>7, <1>8, <1>9, <1>10, <1>11, <1>12, <1>13 DEF Next, Turn

LEMMA OnceInductive == TypeInv /\ OnceInv /\ [Next]_vars => OnceInv'
<1>1. ASSUME OnceInv, UNCHANGED vars PROVE OnceInv'
  <2>1. UNCHANGED <<worker, jobs, sends, excused>>
    BY <1>1 DEF vars
  <2> QED
    BY <1>1, <2>1 DEF OnceInv, HandInv, GivenBack, OnceAt, InFlight
<1> QED
  BY <1>1, OnceStep

\* Any number of workers and stages: two of them never send the same nudge just
\* because they met. The token of a run, the claimed status and the lifetime of a
\* claim do it; a send that failed and a time set by hand are what is excused.
THEOREM NudgedOnce == Spec => []SentOnce
<1>1. TypeInv /\ OnceInv => SentOnce
  <2> SUFFICES ASSUME TypeInv, OnceInv, NEW j \in Jobs, sends[j] > 1 PROVE excused[j]
    BY DEF SentOnce
  <2>1. excused[j] \in BOOLEAN /\ sends[j] \in Nat
    BY DEF TypeInv, HistoryInv
  <2>2. excused[j] # FALSE
    <3>1. ASSUME excused[j] = FALSE PROVE FALSE
      <4>1. OnceAt(j)
        BY <3>1 DEF OnceInv
      <4>2. sends[j] <= 1
        BY <4>1, Zenon DEF OnceAt
      <4> QED
        BY <2>1, <4>2
    <3> QED
      BY <3>1
  <2> QED
    BY <2>1, <2>2, Zenon
<1> QED
  BY Typed, OnceInit, OnceInductive, <1>1, PTL DEF Spec

-----------------------------------------------------------------------------
(* A nudge is sent a bounded number of times *)

\* An attempt within FOLLOWUP_MAX_ATTEMPTS.
Within(n) == ~(n > MaxAttempts)

\* The worker's memory holds an attempt at the job that may come to a send.
OpenHand(r, j) ==
  \/ \E c \in r.batch : c.job = j /\ Within(c.attempts)
  \/ r.pc \in Ahead /\ r.cur.job = j /\ Within(r.cur.attempts)

\* The worker has such an attempt, or is about to load it.
Open(w, j) ==
  \/ OpenHand(worker[w], j)
  \/ /\ worker[w].pc = "load" /\ Within(jobs[j].attempts)
     /\ jobs[j].token = worker[w].token /\ jobs[j].status = "claimed"

Opens(j) == {w \in Workers : Open(w, j)}

\* The attempts the row has counted, up to the limit.
Used(j) == IF Within(jobs[j].attempts) THEN jobs[j].attempts ELSE MaxAttempts

\* Every send, and every attempt that may become one, was counted in the row.
BoundAt(j) == sends[j] + Cardinality(Opens(j)) <= Used(j)

SendReady(w) == worker[w].pc = "send" => Within(worker[w].cur.attempts)

BoundInv == (\A w \in Workers : SendReady(w)) /\ (\A j \in Jobs : BoundAt(j))

\* A step that counts nothing on the row, and claims nothing.
Mild(j) ==
  /\ jobs'[j].attempts = jobs[j].attempts
  /\ jobs'[j].status = "claimed" => jobs[j].status = "claimed" /\ jobs'[j].token = jobs[j].token

LEMMA OpensFinite ==
  ASSUME NEW j
  PROVE  IsFiniteSet(Opens(j)) /\ Cardinality(Opens(j)) \in Nat
<1>1. Opens(j) \in SUBSET Workers
  BY DEF Opens
<1>2. IsFiniteSet(Opens(j))
  BY <1>1, Bounds, FS_Subset
<1> QED
  BY <1>2, FS_CardinalityType

LEMMA UsedType ==
  ASSUME JobsInv, NEW j \in Jobs
  PROVE  /\ jobs[j].attempts \in Nat /\ Used(j) \in Nat /\ Used(j) <= MaxAttempts
         /\ Within(jobs[j].attempts) <=> jobs[j].attempts <= MaxAttempts
<1>1. jobs[j].attempts \in Nat
  BY Bounds DEF JobsInv, JobRows, Attempts
<1> QED
  BY <1>1, Bounds DEF Used, Within

LEMMA MildOpen ==
  ASSUME NEW j, NEW x, Mild(j), worker'[x] = worker[x], Open(x, j)'
  PROVE  Open(x, j)
<1>1. OpenHand(worker[x], j)' <=> OpenHand(worker[x], j)
  BY DEF OpenHand
<1> HIDE DEF OpenHand
<1> QED
  BY <1>1 DEF Mild, Open

\* Fewer open attempts, and nothing sent.
LEMMA BoundKept ==
  ASSUME TypeInv, NEW j \in Jobs, BoundAt(j), sends'[j] = sends[j], Mild(j),
         \A x \in Workers : Open(x, j)' => Open(x, j)
  PROVE  BoundAt(j)'
<1>1. Opens(j)' \in SUBSET Opens(j)
  BY DEF Opens
<1>2. Cardinality(Opens(j)') <= Cardinality(Opens(j)) /\ Cardinality(Opens(j)') \in Nat
  BY <1>1, OpensFinite, FS_Subset, FS_CardinalityType
<1>3. Used(j)' = Used(j)
  BY DEF Used, Mild
<1>4. sends[j] \in Nat /\ Used(j) \in Nat /\ Cardinality(Opens(j)) \in Nat
  BY OpensFinite, UsedType DEF TypeInv, HistoryInv
<1> QED
  BY <1>2, <1>3, <1>4 DEF BoundAt

\* The steps that leave the workers alone.
LEMMA BoundQuiet ==
  ASSUME TypeInv, BoundInv, UNCHANGED <<worker, sends>>, \A j \in Jobs : Mild(j)
  PROVE  BoundInv'
<1>1. ASSUME NEW j \in Jobs PROVE BoundAt(j)'
  <2>1. ASSUME NEW x \in Workers, Open(x, j)' PROVE Open(x, j)
    BY <2>1, MildOpen
  <2> QED
    BY <2>1, BoundKept DEF BoundInv
<1> QED
  BY <1>1 DEF BoundInv, SendReady

\* The steps of one worker that go onward.
LEMMA BoundOnward ==
  ASSUME TypeInv, BoundInv, NEW w \in Workers, NEW q, Becomes(w, q), q.pc # "load",
         q.pc = "send" => Within(q.cur.attempts), UNCHANGED sends,
         \A j \in Jobs : Mild(j), \A j \in Jobs : OpenHand(q, j) => Open(w, j)
  PROVE  BoundInv'
<1>1. worker'[w] = q /\ \A x \in Workers : x # w => worker'[x] = worker[x]
  BY DEF Becomes
<1>2. ASSUME NEW j \in Jobs PROVE BoundAt(j)'
  <2>1. ASSUME NEW x \in Workers, Open(x, j)' PROVE Open(x, j)
    <3>1. CASE x = w
      <4>1. OpenHand(q, j)
        <5>1. OpenHand(worker[x], j)'
          BY <1>1, <2>1, <3>1 DEF Open
        <5> QED
          BY <1>1, <3>1, <5>1 DEF OpenHand
      <4> QED
        BY <3>1, <4>1
    <3>2. CASE x # w
      BY <1>1, <2>1, <3>2, MildOpen
    <3> QED
      BY <3>1, <3>2
  <2> QED
    BY <2>1, BoundKept DEF BoundInv
<1>3. ASSUME NEW x \in Workers PROVE SendReady(x)'
  BY <1>1 DEF BoundInv, SendReady
<1> QED
  BY <1>2, <1>3 DEF BoundInv

LEMMA OnwardOpen ==
  ASSUME NEW r, NEW q, Onward(r, q)
  PROVE  \A j : OpenHand(q, j) => OpenHand(r, j)
  BY DEF Onward, OpenHand

LEMMA BoundInit == Init => BoundInv
<1> SUFFICES ASSUME Init PROVE BoundInv
  OBVIOUS
<1>1. \A w \in Workers : worker[w] = Idle
  BY DEF Init
<1>2. \A w \in Workers : SendReady(w)
  BY <1>1, IdleType DEF SendReady
<1>3. ASSUME NEW j \in Jobs PROVE BoundAt(j)
  <2>1. Opens(j) = {}
    BY <1>1, IdleType DEF Opens, Open, OpenHand, Ahead
  <2>2. sends[j] = 0 /\ jobs[j].attempts = 0
    BY <1>3 DEF Init, NoJob, Row
  <2>3. Used(j) = 0
    BY <2>2, Bounds DEF Used, Within
  <2> QED
    BY <2>1, <2>2, <2>3, FS_EmptySet DEF BoundAt
<1> QED
  BY <1>2, <1>3 DEF BoundInv

\* Claim: the row counts the attempt the worker is about to load.
LEMMA ClaimBound ==
  ASSUME TypeInv, BoundInv, NEW w \in Workers, NEW due \in SUBSET Jobs, Claim(w, due)
  PROVE  BoundInv'
<1>1. WorkersInv /\ JobsInv /\ HistoryInv
  BY DEF TypeInv
<1>2. worker'[w] = ClaimRow(Fresh) /\ \A x \in Workers : x # w => worker'[x] = worker[x]
  BY <1>1, ClaimBecomes DEF Becomes
<1>3. /\ ClaimRow(Fresh).pc = "load" /\ ClaimRow(Fresh).token = Fresh
      /\ ClaimRow(Fresh).batch = {}
  BY FreshToken, ClaimRowType
<1>4. /\ jobs' = [j \in Jobs |-> IF j \in due THEN Row("claimed", Fresh, FALSE, Counted(j))
                                               ELSE jobs[j]]
      /\ UNCHANGED sends
  BY Zenon DEF Claim, Fresh, history
<1>5. ASSUME NEW x \in Workers PROVE SendReady(x)'
  BY <1>2, <1>3 DEF BoundInv, SendReady
<1>6. ASSUME NEW j \in Jobs, j \notin due PROVE BoundAt(j)'
  <2>1. jobs'[j] = jobs[j]
    BY <1>4, <1>6
  <2>2. ASSUME NEW x \in Workers, Open(x, j)' PROVE Open(x, j)
    <3>1. CASE x = w
      <4>1. jobs[j].token = Fresh
        BY <1>2, <1>3, <2>1, <2>2, <3>1 DEF Open, OpenHand, Ahead
      <4> QED
        BY <4>1, FreshToken DEF UsedTokens
    <3>2. CASE x # w
      BY <1>2, <2>1, <2>2, <3>2, MildOpen DEF Mild
    <3> QED
      BY <3>1, <3>2
  <2> QED
    BY <1>4, <2>1, <2>2, BoundKept DEF BoundInv, Mild
<1>7. ASSUME NEW j \in Jobs, j \in due PROVE BoundAt(j)'
  <2>1. jobs'[j] = Row("claimed", Fresh, FALSE, Counted(j))
    BY <1>4, <1>7
  <2>2. jobs'[j].attempts = Counted(j) /\ jobs'[j].token = Fresh
    BY <2>1 DEF Row
  <2>3. ASSUME NEW x \in Workers, x # w, Open(x, j)' PROVE x \in Opens(j)
    <3>1. worker'[x] = worker[x]
      BY <1>2, <2>3
    <3>2. worker[x].token # Fresh
      BY FreshToken DEF UsedTokens
    <3>3. OpenHand(worker[x], j)'
      BY <2>2, <2>3, <3>1, <3>2 DEF Open
    <3>4. OpenHand(worker[x], j)
      BY <3>1, <3>3 DEF OpenHand
    <3> QED
      BY <3>4 DEF Open, Opens
  <2>4. Open(w, j)' => Within(Counted(j))
    BY <1>2, <1>3, <2>2 DEF Open, OpenHand, Ahead
  <2>5. sends'[j] = sends[j] /\ sends[j] \in Nat
    BY <1>1, <1>4 DEF HistoryInv
  <2>6. Cardinality(Opens(j)) \in Nat /\ IsFiniteSet(Opens(j))
    BY OpensFinite
  <2>7. /\ jobs[j].attempts \in Nat /\ Used(j) \in Nat /\ Used(j) <= MaxAttempts
        /\ Within(jobs[j].attempts) <=> jobs[j].attempts <= MaxAttempts
    BY <1>1, UsedType
  <2>8. CASE Within(Counted(j))
    <3>1. Counted(j) = jobs[j].attempts + 1 /\ jobs[j].attempts < MaxAttempts
      BY <2>7, <2>8, Bounds DEF Counted, Within
    <3>2. Used(j) = jobs[j].attempts /\ Used(j)' = jobs[j].attempts + 1
      BY <2>2, <2>7, <2>8, <3>1 DEF Used
    <3>3. Opens(j)' \in SUBSET (Opens(j) \cup {w})
      BY <2>3 DEF Opens
    <3>4. /\ IsFiniteSet(Opens(j) \cup {w})
          /\ Cardinality(Opens(j) \cup {w}) <= Cardinality(Opens(j)) + 1
          /\ Cardinality(Opens(j) \cup {w}) \in Nat
      <4>1. /\ IsFiniteSet(Opens(j) \cup {w})
            /\ \/ Cardinality(Opens(j) \cup {w}) = Cardinality(Opens(j))
               \/ Cardinality(Opens(j) \cup {w}) = Cardinality(Opens(j)) + 1
        BY <2>6, FS_AddElement, Zenon
      <4> QED
        BY <2>6, <4>1
    <3>5. /\ Cardinality(Opens(j)') <= Cardinality(Opens(j) \cup {w})
          /\ Cardinality(Opens(j)') \in Nat
      BY <3>3, <3>4, FS_Subset, FS_CardinalityType
    <3>6. BoundAt(j)
      BY DEF BoundInv
    <3> QED
      BY <2>5, <2>6, <2>7, <3>2, <3>4, <3>5, <3>6 DEF BoundAt
  <2>9. CASE ~Within(Counted(j))
    <3>1. Used(j)' = MaxAttempts
      BY <2>2, <2>9 DEF Used
    <3>2. Opens(j)' \in SUBSET Opens(j)
      BY <2>3, <2>4, <2>9 DEF Opens
    <3>3. Cardinality(Opens(j)') <= Cardinality(Opens(j)) /\ Cardinality(Opens(j)') \in Nat
      BY <2>6, <3>2, FS_Subset, FS_CardinalityType
    <3>4. BoundAt(j)
      BY DEF BoundInv
    <3> QED
      BY <2>5, <2>6, <2>7, <3>1, <3>3, <3>4, Bounds DEF BoundAt
  <2> QED
    BY <2>8, <2>9
<1> QED
  BY <1>5, <1>6, <1>7 DEF BoundInv

\* SendSucceeds and SendFails: the attempt is over when the nudge is sent.
LEMMA SendBound ==
  ASSUME TypeInv, OnceInv, BoundInv, NEW w \in Workers, SendSucceeds(w) \/ SendFails(w)
  PROVE  BoundInv'
<1>1. WorkersInv /\ HistoryInv /\ JobsInv /\ worker[w] \in WorkerRows
  BY DEF TypeInv, WorkersInv
<1>2. HandRow(worker[w]) /\ worker[w].pc = "send"
  BY DEF OnceInv, HandInv, SendSucceeds, SendFails, At
<1>3. PICK k \in Jobs : /\ k = Job(w) /\ k = worker[w].cur.job
                        /\ \A c \in worker[w].batch : c.job # k
  BY <1>2 DEF HandRow, Ahead, Job, Claims
<1>4. PICK q : /\ Becomes(w, q) /\ q.batch = worker[w].batch
               /\ q.pc \in {"finish", "release"}
  <2>1. CASE SendSucceeds(w)
    BY <1>1, <2>1, SendBecomes, SentRowType
  <2>2. CASE SendFails(w)
    <3>1. "release" \in Positions /\ None \in ClientRecords \cup {None}
      BY DEF Positions
    <3>2. Becomes(w, SnapRow(worker[w], "release", None))
      BY <1>1, <2>2, SendBecomes
    <3>3. /\ SnapRow(worker[w], "release", None).pc = "release"
          /\ SnapRow(worker[w], "release", None).batch = worker[w].batch
      BY <1>1, <3>1, SnapRowType
    <3> QED
      BY <3>2, <3>3
  <2> QED
    BY <2>1, <2>2
<1>5. /\ UNCHANGED jobs
      /\ sends' = [sends EXCEPT ![k] = sends[k] + 1] \/ UNCHANGED sends
  BY <1>3 DEF SendSucceeds, SendFails, Reaches
<1>6. w \in Opens(k)
  BY <1>2, <1>3 DEF BoundInv, SendReady, Opens, Open, OpenHand, Ahead
<1>7. worker'[w] = q /\ \A x \in Workers : x # w => worker'[x] = worker[x]
  BY <1>4 DEF Becomes
<1>8. ASSUME NEW x \in Workers PROVE SendReady(x)'
  BY <1>4, <1>7 DEF BoundInv, SendReady
<1>9. ASSUME NEW j \in Jobs, NEW x \in Workers, Open(x, j)'
      PROVE  Open(x, j) /\ (x = w => j # k)
  <2>1. CASE x = w
    <3>1. \E c \in worker[w].batch : c.job = j /\ Within(c.attempts)
      BY <1>4, <1>7, <1>9, <2>1 DEF Open, OpenHand, Ahead
    <3> QED
      BY <1>3, <2>1, <3>1 DEF Open, OpenHand
  <2>2. CASE x # w
    BY <1>5, <1>7, <1>9, <2>2, MildOpen DEF Mild
  <2> QED
    BY <2>1, <2>2
<1>10. ASSUME NEW j \in Jobs, j # k PROVE BoundAt(j)'
  <2>1. sends'[j] = sends[j] /\ Mild(j)
    BY <1>1, <1>5, <1>10 DEF HistoryInv, Mild
  <2> QED
    BY <1>9, <2>1, BoundKept DEF BoundInv
<1>11. BoundAt(k)'
  <2>1. Opens(k)' \in SUBSET (Opens(k) \ {w})
    BY <1>3, <1>9 DEF Opens
  <2>2. /\ IsFiniteSet(Opens(k) \ {w}) /\ Cardinality(Opens(k) \ {w}) = Cardinality(Opens(k)) - 1
    BY <1>6, OpensFinite, FS_RemoveElement
  <2>3. /\ Cardinality(Opens(k)') <= Cardinality(Opens(k) \ {w})
        /\ Cardinality(Opens(k)') \in Nat
    BY <2>1, <2>2, FS_Subset, FS_CardinalityType
  <2>4. Used(k)' = Used(k) /\ Used(k) \in Nat
    BY <1>1, <1>3, <1>5, UsedType DEF Used
  <2>5. sends[k] \in Nat /\ sends'[k] \in {sends[k], sends[k] + 1}
    BY <1>1, <1>3, <1>5 DEF HistoryInv
  <2>6. BoundAt(k) /\ Cardinality(Opens(k)) \in Nat
    BY <1>3, OpensFinite DEF BoundInv
  <2> QED
    BY <2>2, <2>3, <2>4, <2>5, <2>6 DEF BoundAt
<1> QED
  BY <1>8, <1>10, <1>11 DEF BoundInv

\* Only Claim counts attempts and hands out tokens.
LEMMA JobsMild ==
  ASSUME TypeInv, OnceInv, Next, \A w \in Workers, due \in SUBSET Jobs : ~Claim(w, due)
  PROVE  \A j \in Jobs : Mild(j)
<1>1. JobsInv /\ WorkersInv
  BY DEF TypeInv
<1>2. ASSUME UNCHANGED jobs PROVE \A j \in Jobs : Mild(j)
  BY <1>2 DEF Mild
<1>3. ASSUME NEW k, NEW s, UNCHANGED jobs \/ jobs' = [jobs EXCEPT ![k] = WithStatus(jobs[k], s)],
             s \in Settled \/ s = jobs[k].status
      PROVE  \A j \in Jobs : Mild(j)
  <2> SUFFICES ASSUME NEW j \in Jobs PROVE Mild(j)
    OBVIOUS
  <2>1. jobs[j] \in JobRows
    BY <1>1 DEF JobsInv
  <2>2. CASE jobs'[j] = jobs[j]
    BY <2>2 DEF Mild
  <2>3. CASE j = k /\ jobs'[j] = WithStatus(jobs[j], s)
    <3>1. jobs[j].status \in {"none"} \cup Live \cup Settled
      BY <2>1 DEF JobRows
    <3>2. s \in {"none"} \cup Live \cup Settled
      BY <1>3, <2>3, <3>1
    <3>3. /\ WithStatus(jobs[j], s).status = s /\ WithStatus(jobs[j], s).token = jobs[j].token
          /\ WithStatus(jobs[j], s).attempts = jobs[j].attempts
      BY <2>1, <3>2, StatusType, StatusAttempts
    <3>4. s = "claimed" => jobs[j].status = "claimed"
      BY <1>3, <2>3 DEF Settled
    <3> QED
      BY <2>3, <3>3, <3>4 DEF Mild
  <2> QED
    BY <1>1, <1>3, <2>2, <2>3 DEF JobsInv
<1>4. ASSUME NEW k, UNCHANGED jobs \/ jobs' = [jobs EXCEPT ![k] = Row("pending", 0, FALSE, jobs[k].attempts)]
      PROVE  \A j \in Jobs : Mild(j)
  <2>1. /\ Row("pending", 0, FALSE, jobs[k].attempts).status = "pending"
        /\ Row("pending", 0, FALSE, jobs[k].attempts).attempts = jobs[k].attempts
    BY DEF Row
  <2>2. ASSUME NEW j \in Jobs
        PROVE  \/ jobs'[j] = jobs[j]
               \/ j = k /\ jobs'[j] = Row("pending", 0, FALSE, jobs[k].attempts)
    BY <1>1, <1>4 DEF JobsInv
  <2> QED
    BY <2>1, <2>2 DEF Mild
<1>5. ASSUME NEW k, Insert(k) PROVE \A j \in Jobs : Mild(j)
  <2>1. /\ Row("pending", 0, FALSE, 0).status = "pending"
        /\ Row("pending", 0, FALSE, 0).attempts = 0 /\ NoJob.attempts = 0
    BY DEF Row, NoJob
  <2>2. ASSUME NEW j \in Jobs
        PROVE  \/ jobs'[j] = jobs[j]
               \/ jobs[j] = NoJob /\ jobs'[j] = Row("pending", 0, FALSE, 0)
    BY <1>1, <1>5 DEF Insert, JobsInv
  <2> QED
    BY <2>1, <2>2 DEF Mild
<1>6. ASSUME jobs' = AllCancelled PROVE \A j \in Jobs : Mild(j)
  <2> SUFFICES ASSUME NEW j \in Jobs PROVE Mild(j)
    OBVIOUS
  <2>1. jobs'[j] = jobs[j] \/ jobs'[j] = WithStatus(jobs[j], "cancelled")
    BY <1>6 DEF AllCancelled, WithStatus
  <2>2. jobs[j] \in JobRows /\ "cancelled" \in {"none"} \cup Live \cup Settled
    BY <1>1 DEF JobsInv, Settled
  <2> QED
    BY <2>1, <2>2, StatusType, StatusAttempts DEF Mild
<1>7. CASE Reply \/ TurnPasses \/ TurnEnds \/ TurnPlans \/ Crash
  BY <1>2, <1>7 DEF Reply, TurnPasses, TurnEnds, TurnPlans, Crash
<1>8. CASE TurnCancels \/ DeskCancels
  BY <1>2, <1>6, <1>8 DEF TurnCancels, DeskCancels
<1>9. CASE TurnSchedules
  BY <1>5, <1>9 DEF TurnSchedules
<1>10. ASSUME NEW what, Operate(what) PROVE \A j \in Jobs : Mild(j)
  BY <1>2, <1>10 DEF Operate
<1>11. ASSUME NEW k \in Jobs, CancelJob(k) PROVE \A j \in Jobs : Mild(j)
  <2>1. jobs' = [jobs EXCEPT ![k] = WithStatus(jobs[k], "cancelled")]
    BY <1>11, Zenon DEF CancelJob, WithStatus
  <2> QED
    BY <1>3, <2>1 DEF Settled
<1>12. ASSUME NEW k \in Jobs, RescheduleJob(k) PROVE \A j \in Jobs : Mild(j)
  <2>1. jobs' = [jobs EXCEPT ![k] = Row("pending", 0, FALSE, jobs[k].attempts)]
    BY <1>12, Zenon DEF RescheduleJob, Rescheduled
  <2> QED
    BY <1>4, <2>1
<1>13. ASSUME NEW k \in Jobs, GrowsStale(k) PROVE \A j \in Jobs : Mild(j)
  <2>1. jobs' = [jobs EXCEPT ![k] = WithStale(jobs[k])]
    BY <1>13, Zenon DEF GrowsStale, WithStale
  <2>2. ASSUME NEW j \in Jobs
        PROVE  jobs'[j] = jobs[j] \/ (jobs'[j] = WithStale(jobs[j]) /\ jobs[j] \in JobRows)
    BY <1>1, <2>1 DEF JobsInv
  <2> QED
    BY <2>2, StaleType DEF Mild
<1>14. ASSUME NEW w \in Workers, Process(w) PROVE \A j \in Jobs : Mild(j)
  <2>1. CASE \/ LoadClaimed(w) \/ TakeNext(w) \/ EndRun(w) \/ Lookup(w) \/ CheckPasses(w)
             \/ CheckRefuses(w) \/ SendSucceeds(w) \/ SendFails(w) \/ SetWaiting(w) \/ Refresh(w)
    BY <1>2, <2>1 DEF LoadClaimed, TakeNext, EndRun, Lookup, CheckPasses, CheckRefuses,
       SendSucceeds, SendFails, SetWaiting, Refresh
  <2>2. CASE Finish(w)
    <3> DEFINE s == IF Holds(w) THEN Verdict(w) ELSE jobs[Job(w)].status
    <3>1. UNCHANGED jobs \/ jobs' = [jobs EXCEPT ![Job(w)] = WithStatus(jobs[Job(w)], s)]
      BY <2>2, Zenon DEF Finish, WithStatus
    <3>2. Verdict(w) \in {"sent", "failed", "skipped"}
      BY <2>2 DEF Finish, At, OnceInv, HandInv, HandRow, Verdict
    <3>3. s \in Settled \/ s = jobs[Job(w)].status
      BY <3>2 DEF Settled
    <3> HIDE DEF s
    <3> QED
      BY <1>3, <3>1, <3>3
  <2>3. CASE Release(w)
    <3>1. \/ UNCHANGED jobs
          \/ jobs' = [jobs EXCEPT ![Job(w)] = Row("pending", 0, FALSE, jobs[Job(w)].attempts)]
          \/ jobs' = [jobs EXCEPT ![Job(w)] = jobs[Job(w)]]
      BY <2>3, Zenon DEF Release
    <3>2. ASSUME jobs' = [jobs EXCEPT ![Job(w)] = jobs[Job(w)]] PROVE UNCHANGED jobs
      BY <1>1, <3>2 DEF JobsInv
    <3> QED
      BY <1>4, <3>1, <3>2
  <2>4. CASE Chain(w)
    BY <1>2, <1>5, <2>4 DEF Chain
  <2> QED
    BY <1>14, <2>1, <2>2, <2>3, <2>4 DEF Process
<1> QED
  BY <1>7, <1>8, <1>9, <1>10, <1>11, <1>12, <1>13, <1>14 DEF Next, Turn

\* The steps of one worker but its sends.
LEMMA ProcessBound ==
  ASSUME TypeInv, OnceInv, BoundInv, NEW w \in Workers, Process(w),
         ~SendSucceeds(w), ~SendFails(w), \A j \in Jobs : Mild(j)
  PROVE  BoundInv'
<1> DEFINE r == worker[w]
<1>1. WorkersInv /\ JobsInv /\ ClientInv /\ HistoryInv /\ r \in WorkerRows /\ HandRow(r)
  BY DEF TypeInv, WorkersInv, OnceInv, HandInv
<1>2. \A j \in Jobs : OpenHand(r, j) => Open(w, j)
  BY DEF Open
<1>3. UNCHANGED sends
  BY DEF Process, LoadClaimed, TakeNext, EndRun, Lookup, CheckPasses, CheckRefuses,
     Finish, Release, SetWaiting, Refresh, Chain, history
<1> HIDE DEF r
<1>4. ASSUME NEW q, Becomes(w, q), Onward(r, q), q.pc # "load",
             q.pc = "send" => Within(q.cur.attempts)
      PROVE  BoundInv'
  <2>1. \A j \in Jobs : OpenHand(q, j) => Open(w, j)
    BY <1>2, <1>4, OnwardOpen
  <2> QED
    BY <1>3, <1>4, <2>1, BoundOnward
<1>5. ASSUME Becomes(w, Idle) PROVE BoundInv'
  <2>1. Idle.pc = "idle" /\ \A j : ~OpenHand(Idle, j)
    BY IdleType DEF OpenHand, Ahead
  <2> QED
    BY <1>3, <1>5, <2>1, BoundOnward
<1>6. NextRow(r).pc = "next" /\ NextRow(r).batch = r.batch
  BY <1>1, NextRowType
<1>7. Onward(r, NextRow(r)) /\ NextRow(r).pc = "next"
  BY <1>6 DEF Onward, Ahead
<1>8. CASE LoadClaimed(w)
  <2>1. UNCHANGED jobs /\ r.pc = "load"
    BY <1>8 DEF LoadClaimed, At, r
  <2> DEFINE q == LoadedRow(r, ClaimsOf(Mine(w)))
  <2>2. ClaimsOf(Mine(w)) \in SUBSET Claims
    BY <1>1, ClaimsOfType DEF Mine
  <2>3. q.pc = "next" /\ q.batch = ClaimsOf(Mine(w))
    BY <1>1, <2>2, LoadedRowType
  <2>4. CASE Becomes(w, q)
    <3> HIDE DEF q
    <3>1. ASSUME NEW j \in Jobs, OpenHand(q, j) PROVE Open(w, j)
      <4>1. j \in Mine(w) /\ Within(jobs[j].attempts)
        BY <2>3, <3>1 DEF OpenHand, ClaimsOf, Ahead
      <4> QED
        BY <2>1, <4>1 DEF Mine, Open, r
    <3> QED
      BY <1>3, <2>3, <2>4, <3>1, BoundOnward
  <2> QED
    BY <1>1, <1>5, <1>8, <2>4, LoadBecomes DEF r
<1>9. CASE TakeNext(w)
  <2>1. PICK c \in r.batch : Becomes(w, TakenRow(r, c))
    BY <1>1, <1>9, TakeBecomes DEF r
  <2> DEFINE q == TakenRow(r, c)
  <2>2. q.pc = "lookup" /\ q.batch = r.batch \ {c} /\ q.cur = c
    BY <1>1, TakenRowType
  <2> HIDE DEF q
  <2>3. ASSUME NEW j \in Jobs, OpenHand(q, j) PROVE Open(w, j)
    <3>1. OpenHand(r, j)
      BY <2>2, <2>3 DEF OpenHand
    <3> QED
      BY <1>2, <3>1
  <2>4. Becomes(w, q)
    BY <2>1 DEF q
  <2> QED
    BY <1>3, <2>2, <2>3, <2>4, BoundOnward
<1>10. CASE EndRun(w)
  BY <1>1, <1>5, <1>10, IdleBecomes DEF EndRun
<1>11. CASE Lookup(w) \/ CheckPasses(w) \/ CheckRefuses(w)
  <2>1. r.pc \in Ahead
    BY <1>11 DEF Lookup, CheckPasses, CheckRefuses, At, Ahead, r
  <2>2. ASSUME NEW o \in {"failed", "skipped"}, Becomes(w, EndedRow(r, o)) PROVE BoundInv'
    <3>1. o \in Results
      BY DEF Results
    <3>2. /\ EndedRow(r, o).pc = "finish" /\ EndedRow(r, o).batch = r.batch
          /\ EndedRow(r, o).outcome = o
      BY <1>1, <3>1, EndedRowType
    <3>3. Onward(r, EndedRow(r, o))
      BY <3>2 DEF Onward, Ahead
    <3> QED
      BY <1>4, <2>2, <3>2, <3>3
  <2>3. ASSUME Becomes(w, SnapRow(r, "check", client)) PROVE BoundInv'
    <3>1. "check" \in Positions /\ client \in ClientRecords \cup {None}
      BY <1>1 DEF Positions, ClientInv
    <3>2. /\ SnapRow(r, "check", client).pc = "check"
          /\ SnapRow(r, "check", client).batch = r.batch
          /\ SnapRow(r, "check", client).cur = r.cur
      BY <1>1, <3>1, SnapRowType
    <3>3. Onward(r, SnapRow(r, "check", client))
      BY <2>1, <3>2 DEF Onward
    <3> QED
      BY <1>4, <2>3, <3>2, <3>3
  <2>4. ASSUME Becomes(w, PcRow(r, "send")), Within(r.cur.attempts) PROVE BoundInv'
    <3>1. "send" \in Positions
      BY DEF Positions
    <3>2. PcRow(r, "send").pc = "send" /\ PcRow(r, "send").batch = r.batch
          /\ PcRow(r, "send").cur = r.cur
      BY <1>1, <3>1, PcRowType
    <3>3. Onward(r, PcRow(r, "send"))
      BY <2>1, <3>2 DEF Onward
    <3> QED
      BY <1>4, <2>4, <3>2, <3>3
  <2>5. CASE Lookup(w)
    BY <1>1, <2>2, <2>3, <2>5, LookupBecomes DEF r
  <2>6. CASE CheckPasses(w) \/ CheckRefuses(w)
    BY <1>1, <2>2, <2>4, <2>6, CheckBecomes DEF r, Within, Cur
  <2> QED
    BY <1>11, <2>5, <2>6
<1>12. CASE Finish(w) \/ Release(w) \/ SetWaiting(w) \/ Refresh(w) \/ Chain(w)
  <2>1. /\ "status" \in Positions /\ "refresh" \in Positions /\ "chain" \in Positions
        /\ client \in ClientRecords \cup {None}
    BY <1>1 DEF Positions, ClientInv
  <2>2. ASSUME NEW p \in {"status", "refresh"} PROVE Onward(r, PcRow(r, p)) /\ PcRow(r, p).pc = p
    <3>1. PcRow(r, p).pc = p /\ PcRow(r, p).batch = r.batch
      BY <1>1, <2>1, PcRowType
    <3> QED
      BY <3>1 DEF Onward, Ahead
  <2>3. Onward(r, SnapRow(r, "chain", client)) /\ SnapRow(r, "chain", client).pc = "chain"
    <3>1. /\ SnapRow(r, "chain", client).pc = "chain"
          /\ SnapRow(r, "chain", client).batch = r.batch
      BY <1>1, <2>1, SnapRowType
    <3> QED
      BY <3>1 DEF Onward, Ahead
  <2>4. \E q : Becomes(w, q) /\ Onward(r, q) /\ q.pc \in {"status", "refresh", "chain", "next"}
    <3>1. /\ Onward(r, PcRow(r, "status")) /\ PcRow(r, "status").pc = "status"
          /\ Onward(r, PcRow(r, "refresh")) /\ PcRow(r, "refresh").pc = "refresh"
      BY <2>2
    <3> QED
      BY <1>1, <1>7, <1>12, <2>3, <3>1, RestBecomes DEF r
  <2> QED
    BY <1>4, <2>4
<1> QED
  BY <1>8, <1>9, <1>10, <1>11, <1>12 DEF Process

LEMMA BoundStep ==
  ASSUME TypeInv, OnceInv, BoundInv, Next
  PROVE  BoundInv'
<1>1. ASSUME NEW w \in Workers, NEW due \in SUBSET Jobs, Claim(w, due) PROVE BoundInv'
  BY <1>1, ClaimBound
<1>2. CASE \A w \in Workers, due \in SUBSET Jobs : ~Claim(w, due)
  <2>1. \A j \in Jobs : Mild(j)
    BY <1>2, JobsMild
  <2>2. CASE UNCHANGED <<worker, sends>>
    BY <2>1, <2>2, BoundQuiet
  <2>3. ASSUME NEW w \in Workers, Process(w) PROVE BoundInv'
    BY <2>1, <2>3, ProcessBound, SendBound
  <2>4. CASE Crash
    <3>1. (\A w \in Workers : worker'[w] = Idle) /\ UNCHANGED sends
      BY <2>4 DEF Crash, history
    <3>2. \A w \in Workers : SendReady(w)'
      BY <3>1, IdleType DEF SendReady
    <3>3. ASSUME NEW j \in Jobs, NEW x \in Workers, Open(x, j)' PROVE FALSE
      BY <3>1, <3>3, IdleType DEF Open, OpenHand, Ahead
    <3>4. ASSUME NEW j \in Jobs PROVE BoundAt(j)'
      BY <2>1, <3>1, <3>3, BoundKept DEF BoundInv
    <3> QED
      BY <3>2, <3>4 DEF BoundInv
  <2>5. CASE Reply \/ Turn \/ DeskCancels
    BY <2>2, <2>5 DEF Reply, Turn, TurnCancels, TurnPasses, TurnEnds, TurnPlans,
       TurnSchedules, DeskCancels, history
  <2>6. ASSUME NEW what, Operate(what) PROVE BoundInv'
    BY <2>2, <2>6 DEF Operate
  <2>7. ASSUME NEW j \in Jobs, CancelJob(j) \/ RescheduleJob(j) \/ GrowsStale(j) PROVE BoundInv'
    BY <2>2, <2>7 DEF CancelJob, RescheduleJob, GrowsStale, history
  <2> QED
    BY <1>2, <2>3, <2>4, <2>5, <2>6, <2>7 DEF Next
<1> QED
  BY <1>1, <1>2

\* Any number of workers, messages, crashes, lost claims, failed sends and times
\* set by hand: no nudge reaches the client more often than FOLLOWUP_MAX_ATTEMPTS
\* allows. Claim counts the attempt in the row before anything can be sent, and no
\* statement gives one back.
THEOREM NudgesAreBounded == Spec => []BoundedNudges
<1>1. TypeInv /\ OnceInv /\ BoundInv /\ [Next]_vars => BoundInv'
  <2>1. ASSUME TypeInv, BoundInv, UNCHANGED vars PROVE BoundInv'
    <3>1. UNCHANGED <<worker, jobs, sends>>
      BY <2>1 DEF vars
    <3>2. \A j \in Jobs : Mild(j)
      BY <3>1 DEF Mild
    <3> QED
      BY <2>1, <3>1, <3>2, BoundQuiet
  <2> QED
    BY <2>1, BoundStep
<1>2. TypeInv /\ BoundInv => BoundedNudges
  <2> SUFFICES ASSUME TypeInv, BoundInv, NEW j \in Jobs PROVE sends[j] <= MaxAttempts
    BY DEF BoundedNudges
  <2>1. BoundAt(j) /\ sends[j] \in Nat
    BY DEF BoundInv, TypeInv, HistoryInv
  <2>2. Cardinality(Opens(j)) \in Nat /\ Used(j) \in Nat /\ Used(j) <= MaxAttempts
    BY OpensFinite, UsedType DEF TypeInv
  <2> QED
    BY <2>1, <2>2, Bounds DEF BoundAt
<1> QED
  BY Typed, OnceInit, OnceInductive, BoundInit, <1>1, <1>2, PTL DEF Spec

=============================================================================
