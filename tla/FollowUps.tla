------------------------------ MODULE FollowUps ------------------------------
(***************************************************************************)
(* The automatic follow-ups ("nudges") of one client: the durable jobs of  *)
(* internal/repository/followups.go and the workers that claim, check,     *)
(* send and settle them (internal/service/followup.go), against everybody  *)
(* who may change the chat meanwhile: the pipeline's turn for a message of *)
(* the client, and the consultants.                                        *)
(*                                                                         *)
(* One action is one database statement or one call of Messenger.Send,     *)
(* which is module Messenger and appears here by its outcome only. Time is *)
(* abstract: a pending job may be due at any moment, and a claim may have  *)
(* outlived its lifetime at any moment.                                    *)
(***************************************************************************)
EXTENDS CRMDomain, FiniteSets

CONSTANTS Workers,      \* loops of FollowUpService
          LastStage,    \* configured nudges in a row (FOLLOWUP_DELAYS)
          MaxAttempts,  \* FOLLOWUP_MAX_ATTEMPTS
          BatchSize,    \* FOLLOWUP_BATCH_SIZE
          Operations,   \* what consultants do
          MaxMessages,  \* bound: messages of the client
          MaxOps,       \* bound: operations of the consultants
          MaxMishaps,   \* bound: crashes of the process and failed statements
          None

\* The writes to the record; "closed" stands for any terminal status.
RecordOps == {"take_over", "resume_ai", "pause_ai", "block", "unblock", "close"}

JobOps == {"cancel_job", "reschedule_job"}

ASSUME FollowUpsAssumption ==
  /\ LastStage \in Nat \ {0} /\ MaxAttempts \in Nat \ {0} /\ BatchSize \in Nat \ {0}
  /\ MaxMessages \in Nat /\ MaxOps \in Nat /\ MaxMishaps \in Nat
  /\ Operations \subseteq RecordOps \cup JobOps
  /\ IsFiniteSet(Workers)
  /\ None \notin ClientRecords

\* A nudge, by its dedupe key: the stage, and the message it hangs on.
Jobs == [stage: 1 .. LastStage, anchor: 1 .. MaxMessages]

VARIABLES client,   \* the users row
          newest,   \* the id of the client's newest message
          jobs,     \* the rows of follow_up_jobs
          worker,   \* each worker's progress through RunOnce
          turn,     \* the pipeline's turn: what follow-ups have to do with it
          desk,     \* the consultants: a cancellation may be under way
          ops,      \* how many operations were done
          mishaps,  \* how many crashes and failed statements there were
          \* history
          sends,    \* how many Sends of each nudge reached the client, in one
                    \* copy or several
          excused,  \* nudges that may be sent again: a failed send, a claim
                    \* that outlived its lifetime, a new time set by hand
          late      \* how many nudges each worker sent since the chat last
                    \* changed that the chat, as it is now, does not allow

vars == <<client, newest, jobs, worker, turn, desk, ops, mishaps, sends, excused, late>>

-----------------------------------------------------------------------------
(* State *)

Live == {"pending", "claimed"}

Settled == {"sent", "failed", "skipped", "cancelled"}

\* Random tokens never meet one that is still in use: there are enough of them.
Tokens == 1 .. Cardinality(Jobs) + Cardinality(Workers) + 1

\* Attempts beyond the limit are all alike.
Attempts == 0 .. MaxAttempts + 1

Row(status, token, stale, attempts) ==
  [status |-> status, token |-> token, stale |-> stale, attempts |-> attempts]

JobRows == [status: {"none"} \cup Live \cup Settled, token: Tokens \cup {0},
            stale: BOOLEAN,    \* claimed longer than ClaimTTL ago
            attempts: Attempts]

NoJob == Row("none", 0, FALSE, 0)

\* A claimed job in a worker's memory: the row as the worker loaded it.
Claims == [job: Jobs, attempts: Attempts]

Worker(pc, token, batch, cur, snap, outcome) ==
  [pc |-> pc, token |-> token, batch |-> batch, cur |-> cur, snap |-> snap,
   outcome |-> outcome]

Idle == Worker("idle", 0, {}, None, None, "none")

Positions == {"idle", "load", "next", "lookup", "check", "send", "finish",
              "release", "status", "refresh", "chain"}

TypeOK ==
  /\ client \in ClientRecords
  /\ newest \in 0 .. MaxMessages
  /\ jobs \in [Jobs -> JobRows]
  /\ worker \in [Workers -> [pc: Positions, token: Tokens \cup {0}, batch: SUBSET Claims,
                             cur: Claims \cup {None}, snap: ClientRecords \cup {None},
                             outcome: {"none", "sent", "failed", "skipped"}]]
  /\ turn \in [pc: {"idle", "cancel", "gate", "plan", "schedule"},
               snap: ClientRecords \cup {None}]
  /\ desk \in {"idle", "cancel"}
  /\ ops \in 0 .. MaxOps /\ mishaps \in 0 .. MaxMishaps
  /\ sends \in [Jobs -> Nat] /\ excused \in [Jobs -> BOOLEAN] /\ late \in [Workers -> Nat]

NoTurn == [pc |-> "idle", snap |-> None]

NoneLate == [w \in Workers |-> 0]

Init ==
  /\ client = NewClient
  /\ newest = 0
  /\ jobs = [j \in Jobs |-> NoJob]
  /\ worker = [w \in Workers |-> Idle]
  /\ turn = NoTurn
  /\ desk = "idle"
  /\ ops = 0 /\ mishaps = 0
  /\ sends = [j \in Jobs |-> 0]
  /\ excused = [j \in Jobs |-> FALSE]
  /\ late = NoneLate

history == <<sends, excused, late>>

\* A statement works, or fails: the database is busy, the deadline has passed.
Works == UNCHANGED mishaps
Fails == mishaps < MaxMishaps /\ mishaps' = mishaps + 1
bounds == <<ops, mishaps>>
chat == <<client, newest, turn, desk>>

\* Nothing that only a human can lift stands against this nudge: the chat is in
\* the funnel and nobody took it over, paused or blocked it, and the client did
\* not write again. A closed lead is not among it: SetWaiting reopens one.
Wanted(j) ==
  /\ client.session /\ ~client.blocked /\ client.aiEnabled /\ client.mode = "ai"
  /\ newest <= j.anchor

\* CancelPendingForUser.
AllCancelled ==
  [j \in Jobs |-> IF jobs[j].status \in Live THEN [jobs[j] EXCEPT !.status = "cancelled"]
                                             ELSE jobs[j]]

\* FollowUpRepository.Schedule: the dedupe key is unique.
Insert(j) == jobs' = IF jobs[j] = NoJob THEN [jobs EXCEPT ![j] = Row("pending", 0, FALSE, 0)]
                                        ELSE jobs

-----------------------------------------------------------------------------
(* The pipeline's turn for a message of the client *)

\* A message of the client is stored (turns of one chat do not overlap).
Reply ==
  /\ turn.pc = "idle"
  /\ newest < MaxMessages
  /\ newest' = newest + 1
  /\ turn' = [turn EXCEPT !.pc = "cancel"]
  /\ late' = NoneLate
  /\ UNCHANGED <<client, jobs, worker, desk, bounds, sends, excused>>

\* onInbound: CancelFor.
TurnCancels ==
  /\ turn.pc = "cancel"
  /\ \/ jobs' = AllCancelled /\ Works
     \/ Fails /\ UNCHANGED jobs
  /\ turn' = [turn EXCEPT !.pc = "gate"]
  /\ UNCHANGED <<client, newest, worker, desk, ops, history>>

\* crmGate and sessionGate: the client is in the funnel from here on. What the
\* turn says and writes otherwise is the subject of Conversation.
TurnPasses ==
  /\ turn.pc = "gate"
  /\ CrmGate(client)
  /\ client' = [client EXCEPT !.session = TRUE]
  /\ turn' = [turn EXCEPT !.pc = "plan"]
  /\ UNCHANGED <<newest, jobs, worker, desk, bounds, history>>

\* A turn ends early: a closed gate, no answer, a deadline, a failed statement.
TurnEnds ==
  /\ turn.pc \in {"gate", "plan", "schedule"}
  /\ turn' = NoTurn
  /\ UNCHANGED <<client, newest, jobs, worker, desk, bounds, history>>

\* planFollowUp loads the record, and Schedule inserts the first nudge.
TurnPlans ==
  /\ turn.pc = "plan"
  /\ turn' = [pc |-> "schedule", snap |-> client]
  /\ UNCHANGED <<client, newest, jobs, worker, desk, bounds, history>>

FirstNudge == [stage |-> 1, anchor |-> newest]

TurnSchedules ==
  /\ turn.pc = "schedule"
  /\ AutomationAllowed(turn.snap)
  /\ Insert(FirstNudge)
  /\ turn' = NoTurn
  /\ UNCHANGED <<client, newest, worker, desk, bounds, history>>

-----------------------------------------------------------------------------
(* The consultants *)

Written(what) ==
  CASE what = "take_over" -> WithMode(client, "human")
    [] what = "resume_ai" -> WithMode(client, "ai")
    [] what = "pause_ai"  -> WithMode(client, "paused")
    [] what = "block"     -> WithBlock(client)
    [] what = "unblock"   -> WithoutBlock(client)
    [] what = "close"     -> [client EXCEPT !.status = "closed"]

\* The record is written; what closes the chat cancels its nudges next.
Operate(what) ==
  /\ desk = "idle"
  /\ ops < MaxOps
  /\ newest > 0
  /\ what = "take_over" => client.mode # "human"
  /\ what = "resume_ai" => ~client.blocked
  /\ client' = Written(what)
  /\ desk' = IF what \in {"resume_ai", "unblock"} THEN "idle" ELSE "cancel"
  /\ ops' = ops + 1
  /\ late' = NoneLate
  /\ UNCHANGED <<newest, jobs, worker, turn, mishaps, sends, excused>>

\* CancelFor; the request may also be gone before.
DeskCancels ==
  /\ desk = "cancel"
  /\ \/ jobs' = AllCancelled /\ Works
     \/ Fails /\ UNCHANGED jobs
  /\ desk' = "idle"
  /\ UNCHANGED <<client, newest, worker, turn, ops, history>>

\* CancelFollowUp.
CancelJob(j) ==
  /\ ops < MaxOps
  /\ jobs[j].status \in Live
  /\ jobs' = [jobs EXCEPT ![j].status = "cancelled"]
  /\ ops' = ops + 1
  /\ UNCHANGED <<chat, worker, mishaps, history>>

\* Seeded fault: a new time gives the job all its attempts again.
RescheduledAnew(j) == Row("pending", 0, FALSE, 0)

Rescheduled(j) == Row("pending", 0, FALSE, jobs[j].attempts)

\* RescheduleFollowUp: whoever holds the claim loses it.
RescheduleJob(j) ==
  /\ ops < MaxOps
  /\ jobs[j].status \in {"pending", "claimed", "failed"}
  /\ jobs' = [jobs EXCEPT ![j] = Rescheduled(j)]
  /\ ops' = ops + 1
  /\ excused' = [excused EXCEPT ![j] = TRUE]
  /\ UNCHANGED <<chat, worker, mishaps, sends, late>>

-----------------------------------------------------------------------------
(* FollowUpService.RunOnce *)

At(w, pc) == worker[w].pc = pc

Become(w, r) == worker' = [worker EXCEPT ![w] = r]

Goto(w, pc) == worker' = [worker EXCEPT ![w].pc = pc]

\* The job in hand is done with.
NextJob(w) == Become(w, [Idle EXCEPT !.pc = "next", !.token = worker[w].token,
                                    !.batch = worker[w].batch])

\* The claim in hand, and the job it is for.
Cur(w) == worker[w].cur

Job(w) == worker[w].cur.job

UsedTokens == {jobs[j].token : j \in Jobs} \cup {worker[w].token : w \in Workers}

\* Seeded fault: the lifetime of a claim is not looked at.
ClaimableAtOnce(j) == jobs[j].status \in Live

\* Seeded fault: abandoned claims are not taken over.
ClaimableOnce(j) == jobs[j].status = "pending"

Claimable(j) == jobs[j].status = "pending" \/ (jobs[j].status = "claimed" /\ jobs[j].stale)

Counted(j) == IF jobs[j].attempts > MaxAttempts THEN jobs[j].attempts ELSE jobs[j].attempts + 1

\* Claim, first statement: the jobs that are due get the token of this run.
Claim(w, due) ==
  /\ At(w, "idle")
  /\ due # {} /\ Cardinality(due) <= BatchSize
  /\ \A j \in due : Claimable(j)
  /\ LET token == CHOOSE t \in Tokens : t \notin UsedTokens
     IN  /\ jobs' = [j \in Jobs |-> IF j \in due THEN Row("claimed", token, FALSE, Counted(j))
                                                   ELSE jobs[j]]
         /\ Become(w, [Idle EXCEPT !.pc = "load", !.token = token])
  /\ UNCHANGED <<chat, bounds, history>>

\* Second statement: the jobs with the token that are still claimed. When it
\* fails the claims are left to grow stale.
LoadClaimed(w) ==
  /\ At(w, "load")
  /\ \/ LET mine == {j \in Jobs : jobs[j].token = worker[w].token /\ jobs[j].status = "claimed"}
        IN  /\ worker' = [worker EXCEPT ![w].pc = "next",
                            ![w].batch = {[job |-> j, attempts |-> jobs[j].attempts] : j \in mine}]
            /\ Works
     \/ Fails /\ Become(w, Idle)
  /\ UNCHANGED <<chat, jobs, ops, history>>

\* The next job of the batch, or the end of the run.
TakeNext(w) ==
  /\ At(w, "next")
  /\ \E claim \in worker[w].batch :
       worker' = [worker EXCEPT ![w].pc = "lookup", ![w].cur = claim, ![w].batch = @ \ {claim}]
  /\ UNCHANGED <<chat, jobs, bounds, history>>

EndRun(w) ==
  /\ At(w, "next")
  /\ worker[w].batch = {}
  /\ Become(w, Idle)
  /\ UNCHANGED <<chat, jobs, bounds, history>>

\* finish is next, with a status that says why nothing was sent.
GiveUpAs(w, outcome) ==
  worker' = [worker EXCEPT ![w].pc = "finish", ![w].outcome = outcome, ![w].snap = None]

\* process: the client is loaded ...
Lookup(w) ==
  /\ At(w, "lookup")
  /\ \/ worker' = [worker EXCEPT ![w].pc = "check", ![w].snap = client] /\ Works
     \/ Fails /\ GiveUpAs(w, "failed")
  /\ UNCHANGED <<chat, jobs, ops, history>>

\* Seeded faults: the answer of the client, or the record, is not looked at.
AllowedForOld(w) == AutomationAllowed(worker[w].snap)
AllowedUnread(w) == newest <= Job(w).anchor

\* ... blocked() looks at that record and at the newest message ...
Allowed(w) == AutomationAllowed(worker[w].snap) /\ newest <= Job(w).anchor

\* ... and the nudge goes on to Send, unless it has been tried too often.
CheckPasses(w) ==
  /\ At(w, "check")
  /\ Allowed(w)
  /\ IF Cur(w).attempts > MaxAttempts THEN GiveUpAs(w, "failed") ELSE Goto(w, "send")
  /\ UNCHANGED <<chat, jobs, bounds, history>>

\* It is not allowed, the bot is switched off for everybody, or the newest
\* message could not be looked up.
CheckRefuses(w) ==
  /\ At(w, "check")
  /\ GiveUpAs(w, "skipped")
  /\ UNCHANGED <<chat, jobs, bounds, history>>

\* This Send reaches the client. It may do so in several copies, since Send
\* transmits again until an answer arrives: that is Messenger's BoundedCopies.
Reaches(w) ==
  /\ sends' = [sends EXCEPT ![Job(w)] = @ + 1]
  /\ late' = [late EXCEPT ![w] = IF Wanted(Job(w)) THEN @ ELSE @ + 1]

\* Send waits for the chat's lock, transmits, and succeeds ...
SendSucceeds(w) ==
  /\ At(w, "send")
  /\ Reaches(w)
  /\ worker' = [worker EXCEPT ![w].pc = "finish", ![w].outcome = "sent"]
  /\ UNCHANGED <<chat, jobs, bounds, excused>>

\* ... or fails, though the nudge may have arrived.
SendFails(w) ==
  /\ At(w, "send")
  /\ Reaches(w) \/ UNCHANGED <<sends, late>>
  /\ worker' = [worker EXCEPT ![w].pc = "release", ![w].snap = None]
  /\ excused' = [excused EXCEPT ![Job(w)] = TRUE]
  /\ UNCHANGED <<chat, jobs, bounds>>

Holds(w) == jobs[Job(w)].token = worker[w].token

Verdict(w) == worker[w].outcome

\* Complete: the row is written if it still carries the token of this run,
\* whatever its status has become.
Finish(w) ==
  /\ At(w, "finish")
  /\ \/ /\ jobs' = [jobs EXCEPT ![Job(w)].status = IF Holds(w) THEN Verdict(w) ELSE @]
        /\ Works
     \/ Fails /\ UNCHANGED jobs
  /\ IF worker[w].outcome = "sent" THEN Goto(w, "status") ELSE NextJob(w)
  /\ UNCHANGED <<chat, ops, history>>

\* Release: back to the pending jobs, for a later attempt. The status of the
\* row is not looked at here either.
Release(w) ==
  /\ At(w, "release")
  /\ \/ /\ jobs' = [jobs EXCEPT ![Job(w)] = IF Holds(w) THEN Row("pending", 0, FALSE, @.attempts)
                                                     ELSE @]
        /\ Works
     \/ Fails /\ UNCHANGED jobs
  /\ NextJob(w)
  /\ UNCHANGED <<chat, ops, history>>

BeforeWaiting == {"needs_qualification", "qualified", "ai_processing", "new"}

\* The lead waits for the client, by the record the worker loaded before.
SetWaiting(w) ==
  /\ At(w, "status")
  /\ \/ /\ worker[w].snap.status \in BeforeWaiting
        /\ client' = [client EXCEPT !.status = "waiting_for_client"]
        /\ Works
     \/ worker[w].snap.status \notin BeforeWaiting /\ Works /\ UNCHANGED client
     \/ worker[w].snap.status \in BeforeWaiting /\ Fails /\ UNCHANGED client
  /\ IF Job(w).stage < LastStage THEN Goto(w, "refresh") ELSE NextJob(w)
  /\ UNCHANGED <<newest, turn, desk, jobs, ops, history>>

\* The record is loaded again for the next stage ...
Refresh(w) ==
  /\ At(w, "refresh")
  /\ \/ worker' = [worker EXCEPT ![w].pc = "chain", ![w].snap = client] /\ Works
     \/ Fails /\ NextJob(w)
  /\ UNCHANGED <<chat, jobs, ops, history>>

\* ... which hangs on the same message.
Chain(w) ==
  /\ At(w, "chain")
  /\ \/ /\ AutomationAllowed(worker[w].snap)
        /\ Insert([Job(w) EXCEPT !.stage = @ + 1])
     \/ UNCHANGED jobs
  /\ NextJob(w)
  /\ UNCHANGED <<chat, bounds, history>>

-----------------------------------------------------------------------------

\* ClaimTTL passes.
GrowsStale(j) ==
  /\ jobs[j].status = "claimed" /\ ~jobs[j].stale
  /\ jobs' = [jobs EXCEPT ![j].stale = TRUE]
  /\ excused' = [excused EXCEPT ![j] = TRUE]
  /\ UNCHANGED <<chat, worker, bounds, sends, late>>

\* The process dies; a second instance of the bot, if there is one, dies with it.
Crash ==
  /\ Fails
  /\ worker' = [w \in Workers |-> Idle]
  /\ turn' = NoTurn
  /\ desk' = "idle"
  /\ UNCHANGED <<client, newest, jobs, ops, history>>

Turn == TurnCancels \/ TurnPasses \/ TurnEnds \/ TurnPlans \/ TurnSchedules

Process(w) ==
  \/ LoadClaimed(w) \/ TakeNext(w) \/ EndRun(w)
  \/ Lookup(w) \/ CheckPasses(w) \/ CheckRefuses(w)
  \/ SendSucceeds(w) \/ SendFails(w)
  \/ Finish(w) \/ Release(w) \/ SetWaiting(w) \/ Refresh(w) \/ Chain(w)

Next ==
  \/ Reply \/ Turn
  \/ \E what \in Operations \cap RecordOps : Operate(what)
  \/ DeskCancels
  \/ \E j \in Jobs :
       \/ "cancel_job" \in Operations /\ CancelJob(j)
       \/ "reschedule_job" \in Operations /\ RescheduleJob(j)
       \/ GrowsStale(j)
  \/ \E w \in Workers : Process(w) \/ \E due \in SUBSET Jobs : Claim(w, due)
  \/ Crash

Spec == Init /\ [][Next]_vars

\* The ticker fires again and again, claims take the jobs that are due longest
\* first, time passes, and every call of the database and of Send returns.
Fairness ==
  /\ \A w \in Workers :
       /\ WF_vars(Process(w))
       /\ \A j \in Jobs : SF_vars(\E due \in SUBSET Jobs : j \in due /\ Claim(w, due))
  /\ \A j \in Jobs : WF_vars(GrowsStale(j))
  /\ WF_vars(Turn) /\ WF_vars(DeskCancels)

FairSpec == Spec /\ Fairness

-----------------------------------------------------------------------------
(* Properties *)

\* Once the client wrote, or a consultant took the chat over, paused or blocked
\* it, each worker still sends at most the one nudge that had passed its check:
\* no retry, no takeover of a claim and no chained stage brings another one
\* ("re-validated ... immediately before sending", README.md:309). A closed lead
\* is left out: SetWaiting may reopen it, and the chain goes on.
FewLateNudges == \A w \in Workers : late[w] <= 1

\* One Send of a nudge reaches the client, unless a send failed, its claim
\* outlived its lifetime, or a consultant set a new time: two workers never send
\* the same job just because they met (docs/CRM.md, "Exclusive claiming"). The
\* copies a single Send may make are not counted here.
SentOnce == \A j \in Jobs : sends[j] > 1 => excused[j]

\* Failed sends, crashes, abandoned claims and new times together never make
\* more than FOLLOWUP_MAX_ATTEMPTS Sends of a nudge reach the client: every way
\* back to the queue keeps the count of attempts, and every claim raises it. The
\* client may see each Send up to three times (BoundedCopies of Messenger).
BoundedNudges == \A j \in Jobs : sends[j] <= MaxAttempts

\* "A restart never loses one ... a claim abandoned by a crashed worker is
\* recovered" (README.md:306-308): a planned nudge is settled in the end.
EveryNudgeSettles ==
  \A j \in Jobs : jobs[j].status \in Live ~> jobs[j].status \in Settled

\* CancelFor "invalidates every outstanding nudge" (followup.go:156) and
\* CancelFollowUp "drops one scheduled nudge" (service/crm.go:380): a cancelled
\* job is not outstanding again. Release puts it back.
CancelledStaysCancelled ==
  [][\A j \in Jobs : jobs[j].status = "cancelled" => jobs'[j].status \notin Live]_vars

=============================================================================
