# A verification development of lawyer-bot

lawyer-bot answers WhatsApp messages for a law firm. A language model reads the
client's message and suggests what to do; deterministic code decides, replies
after a typing delay, plans follow-ups ("nudges"), and hands the conversation to
a consultant who works in the Admin CRM. Client, assistant, nudges and
consultants all write to the same chat and the same database rows. This
directory holds TLA+ modules of that behaviour, the TLC configurations that check
them on small instances, and proofs checked by TLAPS.

Contents: [1 Inventory](#1-inventory), [2 Modules](#2-modules-and-how-they-correspond-to-the-code),
[3 Runs](#3-runs), [4 Fairness](#4-fairness), [5 Proofs](#5-proofs),
[6 Findings](#6-findings), [7 What is left out](#7-what-is-not-modelled-and-why),
[8 Plan](#8-plan).

## 1. Inventory

The program is one Go process over one SQLite database. Paths are under
`src/internal/`.

| Component | State it keeps | Operations | Interacts with |
|---|---|---|---|
| Inbound transports (`handler/greenapi_polling.go`, `handler/whatsapp.go`, `whatsapp_filter.go`) | the notification or request at hand; the provider's queue | poll, parse, enqueue, delete; webhook: verify, acknowledge, enqueue | worker pool, provider |
| Worker pool (`worker/pool.go`) | a bounded channel of jobs, the `closed` flag | `Submit`, `run`, `Shutdown` | transports, pipeline |
| Pipeline (`service/qualification.go`, `pipeline_crm.go`, `reply_delay.go`) | the locals of each `Handle`; the per-chat order lock | `Handle`: duplicate checks, store, CRM gate, session gate, classify, decide, apply, reply, qualify, plan | every service below |
| Chat sequencer (`service/chat_sequencer.go`) | one channel of one slot per chat, counted | `Lock`, unlock | pipeline (order lock), Messenger (send lock) |
| Conversation state machine (`service/statemachine.go`, `domain/crm.go`) | pure | `NextStage`, `NextStatus`, `StatusForStage`, `StageForDecision` | pipeline, CRM service |
| Gate and decision (`service/gate.go`, `response_decision.go`, `triggers.go`, `activation.go`) | pure | `Gate.Evaluate`, `ShouldRespond`, `Activation.Match` | pipeline |
| Messenger (`service/outbound.go`) | the send lock; `messages` and `deliveries` rows | `Send`, `SendRaw` | provider, hub, all producers |
| CRM service (`service/crm.go`, `repository/crm.go`) | the `users` row: mode, flags, status, stage | `TakeOver`, `ResumeAI`, `PauseAI`, `Block`, `Unblock`, `SetStatus`, `UpdateClient`, `SendMessage`, notes, tags, follow-up edits | follow-ups, Messenger |
| Follow-ups (`service/followup.go`, `repository/followups.go`) | `follow_up_jobs` | `Schedule`, `CancelFor`, `RunOnce` (claim, check, send, complete or release, chain), `Cancel`, `Reschedule` | Messenger, pipeline, CRM service |
| Qualification and leads (`service/qualification.go`, `lead.go`, `repository/users.go`, `leads.go`) | the request in the `users` row (state, service, phone, language), `conversation_facts`, `leads` rows with `notified` | facts, phone, `rememberContext`, `advanceState`, `qualifyLead`, `Upsert`, `MarkNotified` | pipeline, CRM service, Diana's chat |
| Authentication (`service/auth.go`, `repository/admin.go`) | accounts, sessions, attempt counters | `Login`, `Authenticate`, `ChangePassword`, `ResetPassword`, `Logout`, `Prune`; creating, disabling, enabling accounts | admin handlers |
| Event hub and live view (`service/events.go`, `handler/admin/clients.go`, `web/assets/app.js`) | bounded subscriber channels; the page's messages and its watermark | `Subscribe`, `publish`, fetch of new messages, `replaceMessage`, mark read | Messenger, CRM service, SSE |
| Integrations (OpenAI, WhatsApp), media, export, catalogue, trace, notes, settings, admin handlers, configuration | append-only rows or none | I/O, formatting, reads | all |

What is hard here, and what makes each part correct:

* **Concurrency.** Several workers handle messages of one client; consultants and
  the follow-up worker send to the same chat. Two locks per chat order this: the
  *order lock* around a whole `Handle`, the *send lock* around one `Send`. Correct
  means: turns do not overlap, answers leave in order, rows are stored in the order
  of the wire, and nobody waits for ever.
* **Stale records.** A turn loads the client at the gate and uses that record after
  seconds of model calls and typing delay; a nudge is checked and then waits for the
  send lock. Correct means: a takeover, a pause or a block meanwhile is violated at most
  once. (What a consultant wrote to the *status* meanwhile does not prevail: section 6.)
* **Duplicates and lost messages.** The provider delivers again; a send may succeed
  and its answer be lost. Correct means: one turn per message, a bounded number of
  copies per answer and per nudge.
* **Failure and crash.** Any statement may fail, any context may expire, the process
  may die anywhere. Correct means: no lock is lost, claims are recovered, what a row
  says was sent was sent.
* **The model's authority.** No sequence of suggestions may take a lead out of or
  into a human's hands.
* **Limits.** The job queue, the subscriber buffers, the model budget and the login
  counters have limits. Correct means: an acknowledged message is kept, a page that
  missed an event catches up, and what is read first and written later exceeds a limit
  by what was under way and no more.
* **Shutdown.** A signal stops the poller and the server, then closes and drains the
  pool, while any of them is in the middle of something.

The full list of hazards, each with its line and the properties that cover it, is in
`PROJECT.json`.

## 2. Modules and how they correspond to the code

```
CRMDomain ──┬── StateMachine
            ├── Conversation ── instance of Messenger
            │        └───────── implements ChatTurns
            └── FollowUps
Decisions ───── Qualification
Intake, Desk, Accounts
<module>_proofs: the theorems about a module
MC<module>: the instance for TLC (StateMachine is finite and needs none)
```

The modules meet where one takes the other's work as a single step: `Intake` hands a
message to a turn, `Conversation` is that turn with its locks, rows and send,
`Messenger` the send, `Qualification` what the turn makes of the client's request,
`FollowUps` what comes after it, `Desk` who watches, and `Accounts` who may.

**CRMDomain** has no behaviour. It holds the statuses, stages and their transition
tables, the fold of one assistant turn over stage and status (`applyCRMState` before
it writes), the gate (`crmGate`), `AutomationAllowed`, and the effect of each `UPDATE`
on the interlock columns of a client.

**StateMachine** runs that vocabulary for one lead: any assistant turn with any
suggestion, any move of a consultant. Turns are atomic here; a takeover is not: it
loads the record and then swaps the mode on the condition that it still is what was
loaded (`LoadForTakeOver`, `TakeOver`), so two consultants race. A takeover that loads a lead
in human mode ends there in success and changes nothing. `winners`, those whose takeover
switched the lead, is history.

**Messenger** is `Messenger.Send` for one chat, step by step: wait for the slot
(`Lock`, `LockCancelled`), insert the row (`Store`, which may fail and lets the send
go on without a row), attempts at the provider (`Accepted`, `FailedTransiently`,
`GaveUp`; in the last two the provider may have taken the message all the same), record the
delivery and unlock (`Record`), `Return`. `rows` are the outgoing rows of the
`messages` table, `wire` is what the provider took, in order. Any caller's context may
expire at any step and the process may crash.

**Conversation** is one chat with everybody in it. Each worker runs `Handle` on one
delivery. `pc[w]` is the place in the code:

| `pc` | place in `Handle` | actions |
|---|---|---|
| `idle`, `order` | first duplicate check; waiting for the order lock | `Deliver`, `DropDelivery`, `TakeOrder`, `OrderCancelled` |
| `recheck`, `store` | second duplicate check; `Upsert` and `Create` | `Recheck`, `StoreIncoming` |
| `inbound` | `onInbound` cancels nudges | `Inbound` |
| `gate` | bot switch and `crmGate`; the record is loaded here | `BotOff`, `GateClosed`, `GateOpen`, `GateSkipped` |
| `session` | `sessionGate` | `SessionPasses`, `SessionIgnores` |
| `decide` | `Gate.Evaluate`, classification, `ShouldRespond`, `MarkProcessed` | `Decide` |
| `apply` | `applyCRMState` writes what was computed from the loaded record | `Apply` |
| `reply`, `sending` | reply (or none, if there is no text), typing delay, `Send` | `Reply`, `ReplyEmpty`, Messenger's steps, `SendCut`, `Sent` |
| `plan`, `schedule` | `planFollowUp` loads the record and inserts the nudge | `Plan`, `Schedule` |

`turn[w]` holds the locals: the message, its row, the loaded record, the state to be
written, whether to answer. A consultant's operation (`op[c]`) is: load (`Begin`),
write the record, cancel the nudges, and for `SendMessage` call `Send`. `inbox` holds
the incoming rows, so `inbox` and Messenger's `rows` are the two directions of one
table. Message text, prompts and reply text are left out; what the classifier and
the decision return is a member of `Outcomes`. `HandsOff` names the interlocks that no turn
writes over: blocked, `human` or `paused` mode, automation off. `closedAt` and `turn[w].touched` are
history variables that only properties read.

**ChatTurns** is the abstract specification of a chat: a message opens a turn at most once, one
turn is open at a time, the assistant speaks only during a turn and in at most `MaxCopies`
copies, consultants speak when they like. `Conversation` implements it with
`open` = the message whose row the holder of the order lock has stored,
`seen` = the incoming rows in order, `said` = the wire. TLC checks this on an instance and TLAPS
proves it for all.

**FollowUps** is the life of one client's nudges. A job is named by its stage and
anchor message, as by the dedupe key. A worker's `RunOnce` is `Claim` (the
`UPDATE` with a fresh token), `LoadClaimed` (the `SELECT`), and per job `Lookup`,
`CheckPasses`/`CheckRefuses` (`blocked()`), `SendSucceeds`/`SendFails`, `Finish`
(`Complete`) or `Release`, `SetWaiting`, `Refresh`, `Chain`. Against it run the parts
of a pipeline turn that matter to nudges (`Reply` … `TurnSchedules`) and the
consultants (`Operate`, `DeskCancels`, `CancelJob`, `RescheduleJob`). Time is
abstract: a pending job may be due whenever a worker looks, a claim may outlive
`ClaimTTL` whenever (`GrowsStale`). `sends`, `excused` and `late` are history
variables. `Send` appears as one step with its outcome; what happens inside it, the
repeated transmissions included, is Messenger's subject: `sends` counts Sends that reached
the client, and each may do so in up to three copies (`BoundedCopies`).

**Intake** is the way in. A receiver is the poller's loop or one webhook request:
`Poll`/`Post`, `Read` (parse, drop groups and the echoes of this account), per message
`CheckOpen` and `Push` (the two halves of `Submit`, between which the pool may be
closed: `Panic`), `RefuseFull`, `RefuseClosed`, then `Delete` at the provider, which only
the poller does. A receipt without a body (`blank`) is the item that `ReceiveNotification`
takes for an empty queue: `Poll` is not enabled by it. The webhook acknowledges in `Read`, before it queues. The pool's
workers `Take` a job, pass the first duplicate check, join the chat's line (`JoinLine`),
pass the second check (`Recheck`) and, as a later step, insert the row (`Store`, where the
unique index may still refuse), then `Handle`; who stops waiting leaves the line (`GiveUp`).
`left` is what a receiver still has to queue, as the places of the messages in its event, worked off
from the first. `Signal`, `ClosePool`, `Drained` and the two
timeouts are the shutdown of `main.go`; `Crash` and `Start` end and begin a process, and
only `feed`, `stored` and what the provider knows survive.

**Decisions** has no behaviour: `Gate.Evaluate` (`CallsModel`), `ShouldRespond`, its
fallback, `LeadStatus`, and what of a text, a classification and a service they look at.

**Qualification** is what the turns of one client make of his request. `turn.pc`
follows `Handle` from the facts to the alert:

| `pc` | place in `qualification.go` | actions |
|---|---|---|
| `idle` | the next message | `Arrive` (`Upsert` of the number) |
| `facts`, `phone` | facts, number in the text | `LoadFacts`, `NotePhone` |
| `gate` | gate, classification, decision | `Skip`, `Classify`, `ClassifyFails` |
| `remember`, `crm` | `rememberContext`, `applyCRMState` | `Remember`, `ApplyCRMState` |
| `reply`, `state`, `fact`, `send` | the answer, the new state, what was asked | `Reply`, `Advance`, `RecordFact`, `Send`, `SendCut` |
| `lead`, `user` | `qualifyLead` | `Untracked`, `TrackLead`, `TrackFails`, `MarkUser` |
| `alert`, `mark` | `notify` | `Alert`, `AlertFails`, `MarkNotified` |

`turn.user` is the turn's copy of the `users` row, which it writes back several times
while a consultant edits the row (`Edit`). Every statement whose error is only logged
may fail; among them is the row of a call in `ai_interactions`, without which the call is
not counted later (`Logs`). `spent`, `questions`, `alerts`, `promised` and `turn.touched` are history.

**Desk** is the live view of a conversation: rows stored by turns, replies and
consultants; the hub, which drops an event when a subscriber's buffer is full; and each
viewer's page, with several fetches of new messages under way, its own message put in
by `replaceMessage`, connections that are lost, and posts of `/read` that fail
(`MarkReadFails`). `jumped` and `owed` are history.

**Accounts** is every statement of every request about accounts and sessions, in any
interleaving: `Login` … `Issue`, `Begin` … `Serving` for the middleware, and what may be
served. A password is the number of the change that set it, so that "older" can be said.
All requests come from one address, the worst case for its limit, and any may carry the
cookie of any session. `guesses`, `stale` and `req[b].off` are history.

Definitions whose comment begins with "Seeded fault" are not part of the
system: each is a plausible mistake, and replacing its neighbour by it must
break the property that `PROJECT.json` names for it under `mutants`.

## 3. Runs

| Run | Instance | What it shows |
|---|---|---|
| `state_machine` | all statuses, stages, outcomes, two consultants | The model never moves a lead into, or out of, a human's status; a turn that asks for a human always ends where one will see it; of two takeovers that loaded the lead before either took it one wins. Exhaustive: the tables are finite. |
| `messenger` | two producers, two texts, three attempts, at most two rows and transmissions before a new request | Sends exclude each other; rows are stored in wire order although attempts repeat and answers are lost; a row shown as sent was taken; no row is transmitted more than three times. |
| `conversation` | two workers, two messages, one consultant with any of eight operations, two outcomes | Turns do not overlap; after a takeover, a pause or a block at most one answer still leaves; the assistant never speaks first; a pending nudge hangs on the newest message; an escalated or human status is not overwritten by a turn that no consultant interfered with. |
| `conversation_faults` | two workers, two messages delivered twice each, every statement may fail, deadlines, a crash, two attempts | `Conversation` implements `ChatTurns`: one turn per message, answers in order, at most two copies. |
| `conversation_live` | two workers, one message delivered twice, a consultant who takes over or sends and may hang up | Deliveries and operations end: the two locks, held one inside the other, starve nobody; the message is stored and processed; every turn ends (`ChatTurns` with its own fairness). |
| `followups` | two workers, two messages, one stage, two attempts, one new time set by a consultant | Two Sends of a nudge reach the client only after a failed send, an expired claim or a new time; after the client wrote each worker sends at most the one nudge it had checked. |
| `followups_live` | one worker, one message, two chained stages in batches of two, two attempts, one operation of any kind (takeover, pause, block, close, resume, unblock, a job cancelled or moved), one crash or failed statement | Every planned nudge is settled; the limit of Sends holds across the crash, the retry and the new time; after a takeover, a pause or a block the worker sends at most the one nudge it had checked, the chained stage included. |
| `followups_dropped` | one worker, one job | Violation, see 6. |
| `intake` | either transport, six items in the queue, one of them without a body, and three posts, with four messages of two chats, two receivers, two workers, a queue of one, one fault, two starts | What was acknowledged is in the database or in memory, through a shutdown and a restart; no delivery gets between another's second duplicate check and its insert; nobody waits for a lock that is free; queued jobs are worked off, and every notification ahead of a receipt without a body leaves the poller. |
| `qualification` | three messages of four kinds, 11 classifications, two services, a cap of four calls, one edit, two faults | Diana is alerted once per lead and never forgotten; lead and client agree; the question about a concrete service is put once, and once more per fault; the cap holds up to one call, and two more per fault; no turn erases what the client told. |
| `desk` | one viewer who also sends, three rows, a buffer and a page of one, two fetches, one fault | What a page shows has no hole, and it catches up with what was announced to it; a lost connection, a failed fetch or a failed `/read` excuses it until the next event. |
| `accounts` | two requests, two accounts, two passwords, two sessions, both limits one, one fault | A replaced password ends its sessions, except that of a login that had verified the old one before; a disabled account is refused; parallel logins exceed either limit by one each. |

The type invariants of `Messenger` (part of `Conversation`'s), `FollowUps`, `Qualification`, `Desk` and `Accounts` are not among
the properties of a run: they are proved (section 5).

**Bounds.** Two messages are the fewest that can be answered out of order, and two
deliveries of a message the fewest that race; two workers the fewest that overlap,
and three would only repeat a pair, since each lock has one holder. One operation of
a consultant reaches every place of a turn; two are needed only where consultants
meet, which `state_machine` covers. One crash is enough because a crash loses all
memory: what follows starts from rows alone. Two attempts tell a retry from a first
try; `messenger` uses the real three. `MaxTraffic` bounds what is in the table when a
new `Send` starts, so three or more transmissions of a row do occur. In `followups` the
window of one job in a batch is as wide as that of many, since every step of a worker
may be delayed; `followups_live` has batches of two. The two runs divide the work, for size:
`followups` has two workers, and of a consultant only the new time; `followups_live` has the crash,
the failed statements, every operation and the second stage, with one worker. The three
invariants of the two runs are proved for any number of all of these together. `MaxMishaps` counts crashes and failed
statements together, so each single failure is tried at each place. A queue of one is full as soon
as anybody waits; two receivers and two workers are the fewest that race for a message.
Limits of one in `accounts` are exceeded after one login, and two requests are enough to
exceed them together; a buffer and a page of one in `desk` lose an event, or leave a row
for the next fetch, at the second row. The cap of `qualification` can be
reached in the middle of the third turn, and two faults lose a count and a row, or two rows. Liveness runs use
no symmetry; safety runs permute workers, consultants, producers and texts, which the
specifications do not tell apart.

The runs say `CHECK_DEADLOCK FALSE` where the system may stop: the bounded
deliveries and operations run out. That nobody is stuck is a property there
(`EverybodyFinishes`, `EveryNudgeSettles`, `QueuedIsFinished`, `NotificationLeaves`).

## 4. Fairness

* Workers and consultants: weak fairness of their steps, because goroutines that can
  run do, and every provider and model call has a timeout.
* Taking a lock: strong fairness. A `chatLock` is a channel of one slot, and the Go
  runtime serves blocked senders first come, first served, so a waiter is not overtaken
  for ever.
* Follow-ups: strong fairness of claiming each job, because the ticker fires again and
  again and `Claim` takes the jobs that are due longest first; weak fairness of each
  claim's growing stale, because time passes.
* Intake: weak fairness of each receiver and each worker. Here a chat's lock is a
  sequence of those who wait, in the order of the Go runtime, so nothing stronger is needed.
* Desk: weak fairness of a connected page's handling of its events and of the answers to its
  requests. Storing rows, clicking and connecting are nobody's duty.
* Accounts and Qualification state no fairness: their properties are about what never happens.
* Nothing is assumed of the provider's deliveries, of consultants starting
  operations, of deadlines or crashes: they may happen or not.

`followups_live` has one worker, as the program starts one. With two, each could take over
the other's claim for ever by being slower than `ClaimTTL` every time.

## 5. Proofs

Every safety invariant and every safety action property that a passing run checks is
also a theorem. TLAPS proves these, for all values of the constants that the modules'
assumptions allow:

| Module | Theorems (property) | Inductive invariant, and why it is needed |
|---|---|---|
| `Messenger_proofs` | `TypeCorrect` (`TypeOK`), `Exclusion` (`SendExclusive`), `WireOrder` (`StoredInWireOrder`), `HonestRows` (`SentWasTaken`), `FewTransmissions` (`BoundedCopies`) | `SendExclusive` is inductive with the type invariant. `OrderInv`: whoever transmits holds the newest row, and no transmission on the wire has a row beyond it. `TakenInv`: the row of a call holds what the call transmits, and the success it is about to record is on the wire already. `CopiesInv`: a row in transmission has no more copies than its call has made attempts; it needs `OrderInv`, because a second call on the same row would count anew. |
| `Conversation_proofs` | `TypeCorrect` (`TypeOK`), `OneTurn` (`OneTurnAtATime`), `Refines` (`ImplementsChatTurns`), `Ordered`, `Once`, `Few`, `ClientsSpeakFirst` (`NeverSpeaksFirst`), `OneLateAnswer` (`AtMostOneLateAnswer`), `NudgesHangOnNewest` (`NudgeHangsOnNewest`), `EscalationsStick` (`EscalationSticks`), `SendKeepsPromises` | see below |
| `StateMachine_proofs` | `TypeCorrect` (`TypeOK`), `OneWins` (`TakeOverWinsOnce`), `HumansDecide` (`ModelStaysOffHumanStatuses`), `EscalationsArrive` (`EscalationReachesConsultant`) | `WinInv`: nobody is about to take over a lead he saw in human mode, and a winner means human mode. `SeenInv`: a lead whose last turn escalated is where a human sees it. The tables themselves are lemmas (`Vocabulary` and those after it). |
| `FollowUps_proofs` | `TypeCorrect` (`TypeOK`), `NudgedOnce` (`SentOnce`), `OneLateNudgeEach` (`FewLateNudges`), `NudgesAreBounded` (`BoundedNudges`) | `TypeInv`, which needs that a claim finds a free token: there are more tokens than jobs and workers together (by cardinality). `LateInv`: whatever a worker that has sent late may still send hangs on the newest message and a chat that allows it, so it is not late. `OnceInv`: a job that nothing excuses is in flight with one worker at most, and with none before its first claim or after it was sent; `InFlight` spans the row's token, the batch in memory and the job in hand, because a job moves from one to the next. `BoundInv`: the sends of a job together with the workers that still may send it (`Opens`) do not exceed the attempts the row has counted. `sends <= attempts` alone is not inductive: what is about to be sent was counted when it was claimed, perhaps by a worker whose claim has been taken over since. |
| `Qualification_proofs` | `TypeCorrect` (`TypeOK`), `DianaAlertedOnce` (`AlertedOnce`), `ClientAskedOnce` (`ServiceAskedOnce`), `TheCapHolds` (`BudgetHolds`), `NothingIsForgotten` (`NothingForgotten`), `HandoffsAreAlerted` (`HandoffIsAlerted`), `LeadsAgree` (`LeadAgreesWithUser`) | `ReadyInv`: a reply under way was decided. `AlertInv`: the turn that alerts found the lead unmarked, and each alert is marked, about to be, or paid for by a fault; `AskInv` says the same of the question. `BudgetInv`: what was spent is logged or paid for by a fault, and the call still to come fits. `IdleInv`: nothing of a turn outlives it. `StoryInv` carries a decision through the turn: who is handed over has a phone number and a confident answer (`HandoffReady`); until `rememberContext` writes, the turn's copy has the lead flag as it is (`Copied`); the flag follows the lead one statement behind (`Agree`); and a promised handoff is at some step between the statement that stores the state and the mark of the lead (`KeptPromise`). |
| `Desk_proofs` | `TypeCorrect` (`TypeOK`), `NoHoles` (`NoHole`) | `Closed`: a page that did not jump shows exactly the rows up to some row, and the answer of every fetch under way starts at or below it. Without the second half the answers could arrive in a harmful order. |
| `Accounts_proofs` | `TypeCorrect` (`TypeOK`), `AChangedPasswordEndsSessions` (`OldPasswordEndsSessions`), `TheDisabledAreRefused` (`DisabledIsRefused`), `ParallelLoginsAddOneEach` (`LimitsHold`) | `KnownInv`: requests and sessions refer to accounts that exist, and a request that began with a disabled account has not passed the check while the account still is disabled; `OldInv`: a session, or a login that will have one, with an older password was under way when the sessions were dropped, or somebody is about to drop them; `LimitInv`: each attempt over a limit is a login under way that was let in below it, counted as a set of requests. |
| `Intake_proofs` | `TypeCorrect` (`TypeOK`), `TheRecheckDecides` (`RecheckDecides`), `HonestLines` (`LineIsHonest`), `TurnsExclude`, `NothingAcknowledgedIsLost` (`AcknowledgedIsKept`) | `LineInv`: `LineIsHonest`, and nobody is in a line twice. So who leaves is removed entirely, and the holder is the only one past the second duplicate check, from which `RecheckDecides` follows: only a turn of the same chat could store the message. `KeptInv`: the poller deletes a notification only after its last message was queued (`QueuedFirst`), without a fault the pool is closed after the last request (`RequestsFirst`), and a pool that its workers have left is empty for good (`LeftIsEmpty`); each covers one of the ways in which an acknowledged message could be lost. |

`Conversation_proofs` is built in layers. `CoreInv` (types, the order lock, who is
delivering what, Messenger's own type invariant) rests on the lemma `WorkerHops`: each
action of a worker is one of a few kinds of move
(`Arrives`, `Enters`, `Checks`, `Stores`, `Onward`, `Ends`) of that worker alone, and the later proofs split
on the kind and not on the action. Messenger's invariants are not proved again: `MP`
is an instance of `Messenger_proofs`, and its step lemmas are cited for the Sends
of a chat (`SendKeepsPromises`). On this rest

* `Refines`: `CallInv` (who is in `Send` is at that place of his turn) and
  `CopiesInv` (a message whose turn has not come to `Send` has no copy on the wire) are what
  makes each step a step of `ChatTurns`; `Ordered` and `Once` are then properties of
  `ChatTurns`, proved of the abstract specification and carried over, and `Few` is what
  `CopiesInv` says in its terms;
* `ClientsSpeakFirst` with `SessionInv` (behind the session gate the session is open, and a
  trigger opened it);
* `OneLateAnswer` with `LateInv` (while a consultant has the assistant shut off, the turns that are past the
  gate have one message, and what left since is that message's);
* `NudgesHangOnNewest` with `NudgeInv` (a pending nudge is for the newest message, or for
  the one before while the newest is about to cancel it);
* `EscalationsStick` with `SnapInv` (a turn that nobody touched works with the status the
  record has).

Two theorems have hypotheses, because the code promises no more. `OneLateAnswer`
assumes that the load of the client's record does not fail: when it does, `Handle` goes on
without asking the gate (`GateSkipped`), in any number of turns. `NudgesHangOnNewest`
assumes `Calm`: when the cancellation fails, its deadline passes, or the process dies
before it, the older nudge stays pending. The instance of the run `conversation`, which checks
both, satisfies them; the number of workers, consultants and messages is free.

In each module the type invariant is proved first and cited by the others; a theorem has
one lemma or step per action. `FollowUps`, `Accounts` and `Qualification` update records of
many fields, which the SMT backend does not follow; their proofs name each new row by
an operator, prove what its fields are (`PcRowType` and its like), and hide it. A line of
`Intake` loses an element in its middle (`GiveUp`); `Without` says what is left, by position.
That a set of places has a first one is proved from the well-foundedness of `<`
(`FirstPlace`).

The assumptions are the named `ASSUME`s of the modules, which TLC evaluates in the
runs: bounds are natural numbers, sets of actors are finite where they are counted, and
names that must differ do.

Only model-checked, because liveness is out of the prover's reach: `EverybodyFinishes`,
`EveryMessageProcessed`, `ImplementsLiveTurns`, `EveryNudgeSettles`, `QueuedIsFinished`,
`NotificationLeaves` and `LiveUpdate`.

## 6. Findings

* `followups_dropped`: `Release` (`repository/followups.go:171-178`) puts a job back among the
  pending ones wherever the claim token matches, whatever the status has become; cancelling
  leaves the token in the row. A nudge that was cancelled while its send was failing is sent
  later if the chat allows it by then.

Met while modelling; each is in the model as the code has it, and no run is spent on it:

* A reply under way when a consultant takes over, pauses or blocks still leaves: `crmGate` is
  asked once, before the model call and the delay (`domain/crm.go:75-77` says the model is
  silent). `AtMostOneLateAnswer` shows that it stays at one.
* Closing a lead is weaker. `applyCRMState` computes the status from the record loaded at the gate
  and `ApplyAIState` writes it without a condition (`pipeline_crm.go:202`, `repository/crm.go:410`),
  over a `won`, `lost` or `closed` that a consultant set during the model call. The gate is open
  again then, and the answers to later messages leave too: more than one after the close, and no
  property excludes it. This is against `statemachine.go:11-14` ("validates the transition from the
  state the database currently holds") and `docs/CRM.md:84-88`, where a terminal status suppresses
  automation. `AtMostOneLateAnswer` is therefore about the interlocks that no turn writes over, and
  `EscalationSticks` about turns nobody interfered with.
* The follow-up worker does the same: after a send it writes `waiting_for_client` by the record it
  loaded before (`followup.go:326-331`), so a lead closed during the send is open again and the next
  stage is planned and sent, against `README.md:309-312` of the repository ("never delivered to someone
  who has ... been closed"). `FewLateNudges` leaves closed leads out.
* `FOLLOWUP_MAX_ATTEMPTS` bounds the Sends of a nudge, not what the client sees: each `Send` transmits
  up to three times while answers are lost (`outbound.go:271-308`).
* A receipt without a body (`green_client.go:116-118`) is taken for an empty queue
  (`greenapi_polling.go:92-94`) and never deleted. It stays the oldest item of the provider's queue, the
  poller is handed it again and again, and everything behind it waits. `NotificationLeaves` is stated
  for what lies ahead of it.
* Only the question about a concrete service looks at `ClarifyAlreadyAsked`. The clarifying replies to an
  unsure classification (`response_decision.go:144-152`), after the handoff (168-176), to an off-topic
  remark and without a service may be put again with every message, although `response_decision.go:55-57`
  says the flag prevents asking "the same clarification question twice", and `qualification.go:896-897`
  that it is recorded for that. `ServiceAskedOnce` says which question it means.
* A call of the model whose row in `ai_interactions` cannot be written is only a warning
  (`qualification.go:565-567`, `683-685`): it is not counted, and as long as writing fails the daily cap does
  not stop anything. `BudgetHolds` allows two calls for each such fault.
* The page does not fetch when its stream reconnects (`app.js:1373`), where
  `repository/messages_crm.go:63-64` says `SinceID` is "how the CRM live stream catches up after a
  reconnect"; and a post of `/read` that fails is swallowed (`app.js:1397`), so that the event
  which would have fetched the next rows is never published (`handler/admin/clients.go:258-261`).
  Both last until the next event of the client. `LiveUpdate` excuses the page until then.
* A login that verified the old password before `ChangePassword` and creates its session after the
  sessions were dropped (`auth.go:267`) keeps it. `OldPasswordEndsSessions` excepts it.
* The stage of an escalated lead moves back to `waiting_for_client` on the model's
  suggestion, although `statemachine.go:21-23` and `docs/CRM.md` say stages do not regress.
* `retryableSendError` returns true for errors it does not know, where its comment says they
  are treated as permanent.
* `ResumeAI` reads `blocked` and then writes the mode without a condition
  (`service/crm.go:143`); a `Block` in between leaves the wrong mode, but the flag still keeps
  the model silent.
* `UpdateQualification` (`repository/users.go:73`) does not look at `language_locked`, which
  `repository/crm.go:597` says keeps a consultant's choice; and it writes a turn's old copy of the
  service over a consultant's edit. `NothingForgotten` sees a value erased, not one replaced by an older.
* The consultant's own message moves the page's watermark past rows it has not fetched,
  which no later poll then shows (`replaceMessage` in `app.js`; `events.go:16-18` says a page
  that missed an event re-syncs on its next poll). `NoHole` excepts it (`jumped`). A row stored
  between the load of the page and its subscription is shown at the next event only.
* `Submit` checks `closed` and then sends; `Shutdown` may close the channel in between, and a send on
  a closed channel panics (`Panic` in Intake). The poller is not waited for by the shutdown, so
  this can happen; `AcknowledgedIsKept` excepts it.
* The webhook acknowledges before it queues: with a full queue, or when a job's deadline
  passes while it waits for a busy chat, the message is lost (`refused`, `Fail`).
* Two workers may take two messages of one chat in order and reach the lock in the other
  order; nothing ties the queue to the lock.
* A callback request without a known service becomes `ready_for_diana`, and nobody is alerted
  (`promised` asks for a service). An off-topic remark after the handoff turns a qualified lead
  back to qualifying. The facts `menu_sent` and `contact_asked` are written and never read.
* When the row cannot be read back, the file of a media message that was stored is removed
  (`handler/admin/clients.go:355-363`, `service/crm.go:312-322`).
* `UpdateAdmin` reads and then writes the whole name and role (`handler/admin/crm.go:336-353`): of two
  edits one is lost. Nothing keeps the last administrator from being disabled. The count of
  failed logins is not reset when a lock lapses, so the next failure locks again. `Assign` checks
  that a consultant is active and then writes.

## 7. What is not modelled, and why

* Texts, prompts, wording, languages, phone numbers, catalogue: no property is about
  them. A text is one of six kinds, a confidence reaches the minimum or not, and the phrase
  tables are left out.
* `SendRaw` (the alert to the company): it takes the send lock of another chat and
  writes no row; `Qualification` has it as one step with its outcome. Dry run: nothing is sent.
* Business hours: they move a nudge's time, and time is abstract.
* `SetFollowUpPlan`, notes, tags, `Assign`: they touch no interlock and only feed the display.
* The administrators' `UpdateAdmin`, CSRF tokens, cookie attributes, hashing: names and roles are
  constants of `Accounts`, tokens are members of a set.
* The badge of unread messages, older pages and search, leaving and re-opening a view: `Desk`
  has one visit of each viewer.
* `UpdateStatus` and `ListByStatus` of the leads: no code calls them, so a client has one lead.
* An empty reply in `Qualification`: `Compose` has a text for every action (`reply.go:24-52`), so the early
  return on an empty one (`qualification.go:479-484`) is taken in `Conversation` only.
* Media, export, trace, notes, audit, settings, dashboards, migrations, configuration,
  the HTTP of the OpenAI and WhatsApp clients: I/O, display, or append-only records. The database
  is taken to execute one statement at a time, as SQLite does.
* Several chats at once appear in `Intake`, where they share the pool; the other
  modules have one, because locks, records and nudges are per chat.
* The loser of two takeovers appears in `StateMachine`; `Conversation` has one consultant in its
  runs.

## 8. Plan

What a team would do next, in order of weight:

1. That `Intake` and `Conversation` fit: the turns that `Intake` starts, one per stored message,
   are those `ChatTurns` opens, as a second implementation of it.
2. What a late answer costs without the hypothesis of `OneLateAnswer`: one answer for each
   load that failed and one for the turn under way; and after a close, one for each message
   until a turn finds the lead closed.
3. The safety part that liveness rests on: with every lock that is held, somebody has a
   next step (no state in which all wait), for any number of workers.
4. `Desk` with views that are left and opened again, and the unread badge.
