----------------------------- MODULE Conversation -----------------------------
(***************************************************************************)
(* One chat, with everybody who acts on it at once:                        *)
(*   - the workers of the pool, each running Pipeline.Handle on one        *)
(*     delivery of a client's message (internal/service/qualification.go,  *)
(*     pipeline_crm.go);                                                   *)
(*   - the consultants, each running one operation of CRMService           *)
(*     (internal/service/crm.go);                                          *)
(*   - the provider, which may deliver a message again, and the outbound   *)
(*     path, which is module Messenger;                                    *)
(*   - deadlines, and crashes of the process.                              *)
(*                                                                         *)
(* One action is one database statement, one wait for a lock or one call   *)
(* of the provider: whatever happens between two of them may happen        *)
(* between two actions. The message text, the prompt and the reply text    *)
(* are left out; what the model answered is a member of Outcomes.          *)
(***************************************************************************)
EXTENDS CRMDomain, Sequences, FiniteSets

CONSTANTS Workers,          \* goroutines of the worker pool
          Consultants,      \* requests of the Admin CRM
          Messages,         \* the client's messages, by provider id
          Triggers,         \* the messages that match an activation trigger
          Answers,          \* the outcomes the classifier and the decision may have
          Operations,       \* what consultants do
          Faults,           \* the database statements that may fail
          Hasty,            \* those whose context may be done too early
          MaxDeliveries,    \* bound: deliveries of one message
          MaxOps,           \* bound: operations of all consultants
          MaxCrashes,       \* bound: crashes of the process
          MaxSendAttempts,  \* as in Messenger
          None

ConsultantOps ==
  [kind: {"take_over", "resume_ai", "pause_ai", "block", "unblock",
          "send_message"}]
  \cup [kind: {"set_status", "update_client"},
        to: {s \in Statuses : ManualStatusAllowed(s)}]

\* The statements whose failure the code survives or reports: the duplicate
\* check, the insert of a message, the load of the client, the cancellation and
\* the insert of nudges, MarkProcessed, ApplyAIState, ActivateBotSession.
Statements == {"check", "store", "load", "cancel", "plan", "mark", "apply",
               "activate"}

ASSUME ConversationAssumption ==
  /\ Triggers \subseteq Messages
  /\ Answers \subseteq Outcomes
  /\ Operations \subseteq ConsultantOps
  /\ Faults \subseteq Statements
  /\ Hasty \subseteq Workers \cup Consultants
  /\ Workers \cap Consultants = {}
  /\ Messages \cap Consultants = {}
  /\ None \notin Workers \cup Consultants \cup Messages \cup ClientRecords
  /\ MaxDeliveries \in Nat /\ MaxOps \in Nat /\ MaxCrashes \in Nat
  /\ MaxSendAttempts \in Nat \ {0}

Procs == Workers \cup Consultants

\* A worker sends the answer to a message; a consultant sends his own.
Items == Messages \cup Consultants

VARIABLES client,      \* the users row of the contact
          inbox,       \* the incoming rows of the messages table, by id
          jobs,        \* the first nudge of each message: follow_up_jobs
          orderLock,   \* the worker that holds the chat's order lock
          pc,          \* where each worker is in Handle
          turn,        \* what its locals hold there
          op,          \* each consultant's progress through an operation
          deliveries,  \* how often each message was delivered
          ops,         \* how many operations were begun
          crashes,     \* how often the process died
          closedAt,    \* history: Len(wire) when a consultant last shut the assistant off
          \* Messenger
          sendLock, rows, wire, call, expired

sendVars == <<sendLock, rows, wire, call, expired>>
chatVars == <<client, inbox, jobs, orderLock, pc, turn, op, deliveries, ops, crashes, closedAt>>
vars == <<client, inbox, jobs, orderLock, pc, turn, op, deliveries, ops, crashes,
          closedAt, sendLock, rows, wire, call, expired>>

M == INSTANCE Messenger WITH MaxTraffic <- 0

-----------------------------------------------------------------------------
(* State *)

\* Where a worker is in Handle.
Positions == {"idle", "order", "recheck", "store", "inbound", "gate", "session",
              "decide", "apply", "reply", "sending", "plan", "schedule"}

\* The positions between Lock and unlock of the order lock.
InTurn == Positions \ {"idle", "order"}


Turn(msg) ==
  [msg |-> msg, row |-> 0, snap |-> None, next |-> None,
   speak |-> FALSE, touched |-> FALSE]

NoTurn == Turn(None)

NextStates == [status: Statuses, stage: Stages]

Turns == [msg: Messages \cup {None}, row: Nat,
          snap: ClientRecords \cup {None},    \* the client as it was loaded
          next: NextStates \cup {None},       \* what applyCRMState will write
          speak: BOOLEAN,                     \* the decision to answer
          touched: BOOLEAN]                   \* history: a consultant wrote since

Incoming == [msg: Messages, processed: BOOLEAN]

Op(step, what, saw) == [pc |-> step, what |-> what, saw |-> saw]

NoOp == Op("idle", None, "ai")

TypeOK ==
  /\ client \in ClientRecords
  /\ inbox \in Seq(Incoming)
  /\ jobs \in [Messages -> {"none", "pending", "cancelled"}]
  /\ orderLock \in Workers \cup {None}
  /\ pc \in [Workers -> Positions]
  /\ turn \in [Workers -> Turns]
  /\ op \in [Consultants -> [pc: {"idle", "write", "cancel", "sending"},
                             what: Operations \cup {None}, saw: Modes]]
  /\ deliveries \in [Messages -> 0 .. MaxDeliveries]
  /\ ops \in 0 .. MaxOps
  /\ crashes \in 0 .. MaxCrashes
  /\ closedAt \in 0 .. Len(wire)
  /\ M!TypeOK

Init ==
  /\ client = NewClient
  /\ inbox = <<>>
  /\ jobs = [m \in Messages |-> "none"]
  /\ orderLock = None
  /\ pc = [w \in Workers |-> "idle"]
  /\ turn = [w \in Workers |-> NoTurn]
  /\ op = [c \in Consultants |-> NoOp]
  /\ deliveries = [m \in Messages |-> 0]
  /\ ops = 0
  /\ crashes = 0
  /\ closedAt = 0
  /\ M!Init

\* Seeded fault: the duplicate check looks for messages still to be processed.
ExistsUnprocessed(m) == \E r \in DOMAIN inbox : inbox[r] = [msg |-> m, processed |-> FALSE]

\* ExistsByWhatsAppID, and what the unique index of the table enforces.
Exists(m) == \E r \in DOMAIN inbox : inbox[r].msg = m

\* The interlocks of a client whom consultants took away from the assistant; only
\* the history variable and properties read this. A terminal status is a reason
\* for the gate too, but no interlock: a turn that passed the gate before the lead
\* was closed writes its status over it (Apply), and the gate is open again.
HandsOff(c) == c.blocked \/ c.mode \in {"human", "paused"} \/ ~c.aiEnabled

\* Writing the users row. The history variable remembers what was on the wire
\* when automation was closed for this client.
WriteClient(c) ==
  /\ client' = c
  /\ closedAt' = IF ~HandsOff(client) /\ HandsOff(c) THEN Len(wire) ELSE closedAt

\* CancelPendingForUser.
Cancelled == [m \in Messages |-> IF jobs[m] = "pending" THEN "cancelled" ELSE jobs[m]]

-----------------------------------------------------------------------------
(* The end of Handle, and the parts its steps share *)

\* The deferred unlock; the job's context is released.
Finish(w) ==
  /\ orderLock' = None
  /\ pc' = [pc EXCEPT ![w] = "idle"]
  /\ turn' = [turn EXCEPT ![w] = NoTurn]
  /\ expired' = [expired EXCEPT ![w] = FALSE]

\* Handle goes on to the next step, holding the lock.
Goto(w, step) ==
  /\ pc' = [pc EXCEPT ![w] = step]
  /\ UNCHANGED <<orderLock, expired>>

At(w, step) == pc[w] = step /\ ~expired[w]

\* Seeded fault: the silent branch returns before MarkProcessed.
MarkForgotten(w) == UNCHANGED inbox

\* MarkProcessed; a failure is logged.
Mark(w) ==
  \/ inbox' = [inbox EXCEPT ![turn[w].row] = [msg |-> @.msg, processed |-> TRUE]]
  \/ "mark" \in Faults /\ UNCHANGED inbox

-----------------------------------------------------------------------------
(* Pipeline.Handle *)

\* A worker takes a delivery; the first duplicate check finds nothing.
Deliver(w, m) ==
  /\ pc[w] = "idle"
  /\ deliveries[m] < MaxDeliveries
  /\ ~Exists(m)
  /\ deliveries' = [deliveries EXCEPT ![m] = @ + 1]
  /\ pc' = [pc EXCEPT ![w] = "order"]
  /\ turn' = [turn EXCEPT ![w] = Turn(m)]
  /\ UNCHANGED <<client, inbox, jobs, orderLock, op, ops, crashes, closedAt>>
  /\ UNCHANGED sendVars

\* The duplicate check finds the message, or fails: the delivery is dropped.
DropDelivery(w, m) ==
  /\ pc[w] = "idle"
  /\ deliveries[m] < MaxDeliveries
  /\ Exists(m) \/ "check" \in Faults
  /\ deliveries' = [deliveries EXCEPT ![m] = @ + 1]
  /\ UNCHANGED <<client, inbox, jobs, orderLock, pc, turn, op, ops, crashes, closedAt>>
  /\ UNCHANGED sendVars

\* Seeded fault: the order lock has as many slots as there are workers.
OrderFreeForAll == TRUE

OrderFree == orderLock = None

\* chatSequencer.Lock under the chat's key ...
TakeOrder(w) ==
  /\ pc[w] = "order"
  /\ OrderFree
  /\ orderLock' = w
  /\ pc' = [pc EXCEPT ![w] = "recheck"]
  /\ UNCHANGED <<client, inbox, jobs, turn, op, deliveries, ops, crashes, closedAt>>
  /\ UNCHANGED sendVars

\* ... or the deadline passes first, and the message is lost: it was never
\* stored.
OrderCancelled(w) ==
  /\ pc[w] = "order"
  /\ expired[w]
  /\ pc' = [pc EXCEPT ![w] = "idle"]
  /\ turn' = [turn EXCEPT ![w] = NoTurn]
  /\ expired' = [expired EXCEPT ![w] = FALSE]
  /\ UNCHANGED <<client, inbox, jobs, orderLock, op, deliveries, ops, crashes, closedAt,
                 sendLock, rows, wire, call>>

\* The second duplicate check, now alone in the chat.
Recheck(w) ==
  /\ At(w, "recheck")
  /\ \/ /\ ~Exists(turn[w].msg)
        /\ Goto(w, "store") /\ UNCHANGED turn
     \/ /\ Exists(turn[w].msg) \/ "check" \in Faults
        /\ Finish(w)
  /\ UNCHANGED <<client, inbox, jobs, op, deliveries, ops, crashes, closedAt,
                 sendLock, rows, wire, call>>

\* users.Upsert and messages.Create. The unique index is the last defence
\* against a second row.
StoreIncoming(w) ==
  /\ At(w, "store")
  /\ \/ /\ ~Exists(turn[w].msg)
        /\ inbox' = Append(inbox, [msg |-> turn[w].msg, processed |-> FALSE])
        /\ turn' = [turn EXCEPT ![w].row = Len(inbox) + 1]
        /\ Goto(w, "inbound")
     \/ /\ Exists(turn[w].msg) \/ "store" \in Faults
        /\ UNCHANGED inbox
        /\ Finish(w)
  /\ UNCHANGED <<client, jobs, op, deliveries, ops, crashes, closedAt,
                 sendLock, rows, wire, call>>

\* onInbound: the client replied, so every pending nudge is cancelled.
Inbound(w) ==
  /\ At(w, "inbound")
  /\ jobs' = Cancelled \/ ("cancel" \in Faults /\ UNCHANGED jobs)
  /\ Goto(w, "gate")
  /\ UNCHANGED <<client, inbox, turn, op, deliveries, ops, crashes, closedAt,
                 sendLock, rows, wire, call>>

\* The message is silently finished.
Silence(w) ==
  /\ Mark(w)
  /\ Finish(w)
  /\ UNCHANGED <<client, jobs, op, deliveries, ops, crashes, closedAt,
                 sendLock, rows, wire, call>>

\* The bot is switched off for everybody: a setting, read afresh each time.
BotOff(w) == At(w, "gate") /\ Silence(w)

\* The CRM gate refuses.
GateClosed(w) == At(w, "gate") /\ ~CrmGate(client) /\ Silence(w)

\* The CRM gate passes. From here on the turn works with the record as it was
\* loaded now.
GateOpen(w) ==
  /\ At(w, "gate")
  /\ CrmGate(client)
  /\ turn' = [turn EXCEPT ![w].snap = client]
  /\ Goto(w, "session")
  /\ UNCHANGED <<client, inbox, jobs, op, deliveries, ops, crashes, closedAt,
                 sendLock, rows, wire, call>>

\* The record could not be loaded: the gate is not asked.
GateSkipped(w) ==
  /\ At(w, "gate")
  /\ "load" \in Faults
  /\ Goto(w, "session")
  /\ UNCHANGED <<client, inbox, jobs, turn, op, deliveries, ops, crashes, closedAt,
                 sendLock, rows, wire, call>>

\* Seeded fault: every first message opens a session.
AnyMessageTriggers(m) == TRUE

Matches(m) == m \in Triggers

\* sessionGate: an open session stays open, a trigger opens one.
SessionPasses(w) ==
  /\ At(w, "session")
  /\ client.session \/ Matches(turn[w].msg)
  /\ WriteClient([client EXCEPT !.session = TRUE])
  /\ Goto(w, "decide")
  /\ UNCHANGED <<inbox, jobs, turn, op, deliveries, ops, crashes, sendLock, rows, wire, call>>

\* A contact who is not in the funnel, or whose activation failed.
SessionIgnores(w) ==
  /\ At(w, "session")
  /\ ~client.session
  /\ ~Matches(turn[w].msg) \/ "activate" \in Faults
  /\ Silence(w)

\* Gate.Evaluate, classify, ShouldRespond and MarkProcessed. What applyCRMState
\* will write is computed from the record loaded at the gate.
Decide(w) ==
  /\ At(w, "decide")
  /\ Mark(w)
  /\ \E o \in Answers :
       LET c    == turn[w].snap
           next == IF c = None THEN None
                   ELSE [status |-> TurnStatus(c.stage, c.status, o),
                         stage |-> TurnStage(c.stage, o)]
       IN  turn' = [turn EXCEPT ![w].snap = None, ![w].next = next,
                                ![w].speak = (o.action # "none")]
  /\ Goto(w, "apply")
  /\ UNCHANGED <<client, jobs, op, deliveries, ops, crashes, closedAt,
                 sendLock, rows, wire, call>>

\* applyCRMState; a turn without an answer ends here.
Apply(w) ==
  /\ At(w, "apply")
  /\ LET next == turn[w].next
     IN  \/ next # None /\ WriteClient(WithAIState(client, next.status, next.stage))
         \/ (next = None \/ "apply" \in Faults) /\ UNCHANGED <<client, closedAt>>
  /\ \/ /\ turn[w].speak
        /\ turn' = [turn EXCEPT ![w].next = None, ![w].touched = FALSE]
        /\ Goto(w, "reply")
     \/ ~turn[w].speak /\ Finish(w)
  /\ UNCHANGED <<inbox, jobs, op, deliveries, ops, crashes, sendLock, rows, wire, call>>

\* The reply is composed, the typing delay passes, and Messenger.Send is called.
Reply(w) ==
  /\ At(w, "reply")
  /\ M!Request(w, turn[w].msg)
  /\ pc' = [pc EXCEPT ![w] = "sending"]
  /\ UNCHANGED <<client, inbox, jobs, orderLock, turn, op, deliveries, ops, crashes, closedAt>>

\* The composer has no text: the turn ends in silence. (For every action that
\* ShouldRespond returns today it has one.)
ReplyEmpty(w) ==
  /\ At(w, "reply")
  /\ Finish(w)
  /\ UNCHANGED <<client, inbox, jobs, op, deliveries, ops, crashes, closedAt,
                 sendLock, rows, wire, call>>

\* Send returned with a timeout or a cancellation: the turn is cut short.
SendCut(w) ==
  /\ pc[w] = "sending"
  /\ call[w].pc = "done" /\ call[w].result = "cut"
  /\ call' = [call EXCEPT ![w] = M!NoCall]
  /\ Finish(w)
  /\ UNCHANGED <<client, inbox, jobs, op, deliveries, ops, crashes, closedAt,
                 sendLock, rows, wire>>

\* Send returned, with another error or without one. The lead is qualified
\* (module Leads), then the first nudge is planned.
Sent(w) ==
  /\ pc[w] = "sending"
  /\ call[w].result # "cut"
  /\ M!Return(w)
  /\ pc' = [pc EXCEPT ![w] = "plan"]
  /\ UNCHANGED <<client, inbox, jobs, orderLock, turn, op, deliveries, ops, crashes, closedAt>>

\* The record is loaded again for the plan ...
Plan(w) ==
  /\ At(w, "plan")
  /\ \/ turn' = [turn EXCEPT ![w].snap = client] /\ Goto(w, "schedule")
     \/ "load" \in Faults /\ Finish(w)
  /\ UNCHANGED <<client, inbox, jobs, op, deliveries, ops, crashes, closedAt,
                 sendLock, rows, wire, call>>

\* ... and FollowUpService.Schedule inserts the job, unless automation is not
\* allowed, the bot is switched off, or the statement fails.
Schedule(w) ==
  /\ At(w, "schedule")
  /\ \/ /\ AutomationAllowed(turn[w].snap)
        /\ jobs[turn[w].msg] = "none"
        /\ jobs' = [jobs EXCEPT ![turn[w].msg] = "pending"]
     \/ UNCHANGED jobs
  /\ Finish(w)
  /\ UNCHANGED <<client, inbox, op, deliveries, ops, crashes, closedAt,
                 sendLock, rows, wire, call>>

\* Handle runs on with a dead context: every statement fails, the model does
\* not answer and the typing delay is cut, so nothing more happens.
Abort(w) ==
  /\ pc[w] \in InTurn \ {"sending"}
  /\ expired[w]
  /\ Finish(w)
  /\ UNCHANGED <<client, inbox, jobs, op, deliveries, ops, crashes, closedAt,
                 sendLock, rows, wire, call>>

-----------------------------------------------------------------------------
(* CRMService *)

EndOp(c) ==
  /\ op' = [op EXCEPT ![c] = NoOp]
  /\ expired' = [expired EXCEPT ![c] = FALSE]

\* The next statement of the operation is the cancellation of nudges.
ThenCancel(c) ==
  /\ op' = [op EXCEPT ![c].pc = "cancel"]
  /\ UNCHANGED expired

\* A consultant rewrites the record; turns past the gate do not see it.
HumanWrites(r) ==
  /\ WriteClient(r)
  /\ turn' = [w \in Workers |->
                [turn[w] EXCEPT !.touched = @ \/ pc[w] \in {"session", "decide", "apply"}]]

\* An operation starts by loading the client, who must exist. Calls that are
\* refused at once change nothing and are left out.
Begin(c, what) ==
  /\ op[c].pc = "idle"
  /\ ops < MaxOps
  /\ inbox # <<>>
  /\ what.kind = "take_over" => client.mode # "human"
  /\ what.kind \in {"resume_ai", "send_message"} => ~client.blocked
  /\ ops' = ops + 1
  /\ op' = [op EXCEPT ![c] = Op("write", what, client.mode)]
  /\ UNCHANGED <<client, inbox, jobs, orderLock, pc, turn, deliveries, crashes, closedAt>>
  /\ UNCHANGED sendVars

Writing(c, kind) == op[c].pc = "write" /\ op[c].what.kind = kind /\ ~expired[c]

OpFrame ==
  UNCHANGED <<inbox, jobs, orderLock, pc, deliveries, ops, crashes, sendLock, rows, wire, call>>

\* SetMode with the mode that was read as a condition: a compare-and-swap
\* (StateMachine has the race of two consultants).
SwapMatches(c) == client.mode = op[c].saw

TakeOver(c) ==
  /\ Writing(c, "take_over")
  /\ \/ /\ SwapMatches(c)
        /\ HumanWrites(WithMode(client, "human"))
        /\ ThenCancel(c)
     \/ /\ ~SwapMatches(c)
        /\ EndOp(c)
        /\ UNCHANGED <<client, closedAt, turn>>
  /\ OpFrame

ResumeAI(c) ==
  /\ Writing(c, "resume_ai")
  /\ HumanWrites(WithMode(client, "ai"))
  /\ EndOp(c)
  /\ OpFrame

PauseAI(c) ==
  /\ Writing(c, "pause_ai")
  /\ HumanWrites(WithMode(client, "paused"))
  /\ ThenCancel(c)
  /\ OpFrame

Block(c) ==
  /\ Writing(c, "block")
  /\ HumanWrites(WithBlock(client))
  /\ ThenCancel(c)
  /\ OpFrame

Unblock(c) ==
  /\ Writing(c, "unblock")
  /\ HumanWrites(WithoutBlock(client))
  /\ EndOp(c)
  /\ OpFrame

SetStatus(c) ==
  /\ Writing(c, "set_status")
  /\ HumanWrites([client EXCEPT !.status = op[c].what.to])
  /\ IF op[c].what.to \in Terminal THEN ThenCancel(c) ELSE EndOp(c)
  /\ OpFrame

\* A status edited on the client card, even a terminal one, cancels nothing.
UpdateClient(c) ==
  /\ Writing(c, "update_client")
  /\ HumanWrites([client EXCEPT !.status = op[c].what.to])
  /\ EndOp(c)
  /\ OpFrame

\* SendMessage takes the conversation over unless it was human when read.
SpeakUp(c) ==
  /\ Writing(c, "send_message")
  /\ IF op[c].saw = "human"
       THEN UNCHANGED <<client, closedAt, turn>>
       ELSE HumanWrites(WithMode(client, "human"))
  /\ ThenCancel(c)
  /\ OpFrame

\* CancelFor ends the operation, except that SendMessage now calls Send.
CancelNudges(c) ==
  /\ op[c].pc = "cancel"
  /\ ~expired[c]
  /\ jobs' = Cancelled \/ ("cancel" \in Faults /\ UNCHANGED jobs)
  /\ IF op[c].what.kind = "send_message"
       THEN /\ M!Request(c, c)
            /\ op' = [op EXCEPT ![c].pc = "sending"]
       ELSE EndOp(c) /\ UNCHANGED <<sendLock, rows, wire, call>>
  /\ UNCHANGED <<client, inbox, orderLock, pc, turn, deliveries, ops, crashes, closedAt>>

\* Send returned to SendMessage.
Answered(c) ==
  /\ op[c].pc = "sending"
  /\ call[c].pc = "done"
  /\ call' = [call EXCEPT ![c] = M!NoCall]
  /\ EndOp(c)
  /\ UNCHANGED <<client, inbox, jobs, orderLock, pc, turn, deliveries, ops, crashes, closedAt,
                 sendLock, rows, wire>>

\* The request is gone: the next statement fails, and with it the operation.
AbortOp(c) ==
  /\ op[c].pc \in {"write", "cancel"}
  /\ expired[c]
  /\ EndOp(c)
  /\ UNCHANGED <<client, inbox, jobs, orderLock, pc, turn, deliveries, ops, crashes, closedAt,
                 sendLock, rows, wire, call>>

-----------------------------------------------------------------------------
(* Everything at once *)

Active(p) == IF p \in Workers THEN pc[p] # "idle" ELSE op[p].pc # "idle"

Expire(p) ==
  /\ Active(p)
  /\ ~expired[p]
  /\ expired' = [expired EXCEPT ![p] = TRUE]
  /\ UNCHANGED <<client, inbox, jobs, orderLock, pc, turn, op, deliveries, ops, crashes, closedAt,
                 sendLock, rows, wire, call>>

Crash ==
  /\ crashes < MaxCrashes
  /\ crashes' = crashes + 1
  /\ orderLock' = None
  /\ pc' = [w \in Workers |-> "idle"]
  /\ turn' = [w \in Workers |-> NoTurn]
  /\ op' = [c \in Consultants |-> NoOp]
  /\ M!Crash
  /\ UNCHANGED <<client, inbox, jobs, deliveries, ops, closedAt>>

\* A step of a Send that is under way.
SendStep(p) == M!Step(p) /\ UNCHANGED chatVars

WorkerStep(w) ==
  \/ TakeOrder(w) \/ OrderCancelled(w)
  \/ Recheck(w) \/ StoreIncoming(w) \/ Inbound(w)
  \/ BotOff(w) \/ GateClosed(w) \/ GateOpen(w) \/ GateSkipped(w)
  \/ SessionPasses(w) \/ SessionIgnores(w)
  \/ Decide(w) \/ Apply(w) \/ Reply(w) \/ ReplyEmpty(w)
  \/ SendCut(w) \/ Sent(w) \/ Plan(w) \/ Schedule(w)
  \/ Abort(w)

ConsultantStep(c) ==
  \/ TakeOver(c) \/ ResumeAI(c) \/ PauseAI(c) \/ Block(c) \/ Unblock(c)
  \/ SetStatus(c) \/ UpdateClient(c) \/ SpeakUp(c)
  \/ CancelNudges(c) \/ Answered(c) \/ AbortOp(c)

Next ==
  \/ \E w \in Workers :
       \/ \E m \in Messages : Deliver(w, m) \/ DropDelivery(w, m)
       \/ WorkerStep(w)
  \/ \E c \in Consultants :
       \/ \E what \in Operations : Begin(c, what)
       \/ ConsultantStep(c)
  \/ \E p \in Procs : SendStep(p)
  \/ \E p \in Hasty : Expire(p)
  \/ Crash

Spec == Init /\ [][Next]_vars

\* Goroutines that can run do, provider and model calls return (each has a
\* timeout), and a Go channel serves its blocked senders in order. Deliveries,
\* operations, deadlines and crashes are nobody's duty.
Fairness ==
  /\ \A w \in Workers : WF_vars(WorkerStep(w)) /\ SF_vars(TakeOrder(w))
  /\ \A c \in Consultants : WF_vars(ConsultantStep(c))
  /\ \A p \in Procs : /\ WF_vars(SendStep(p))
                      /\ SF_vars(M!Lock(p) /\ UNCHANGED chatVars)

FairSpec == Spec /\ Fairness

-----------------------------------------------------------------------------
(* Properties *)

\* One delivery of a chat is handled at a time, from the second duplicate check
\* to the end of the plan (chatSequencer around Pipeline.Handle).
OneTurnAtATime == \A w \in Workers : pc[w] \in InTurn <=> orderLock = w

\* Once a consultant took the client over, paused or blocked him, the assistant
\* finishes at most the one answer that was under way: the gate stops every later
\* turn, the order lock makes sure there is only one that passed it before, and
\* what that turn writes to the record lifts none of these interlocks. (Closing the
\* lead is different: see HandsOff.)
AtMostOneLateAnswer ==
  HandsOff(client) =>
    Cardinality({wire[i].item : i \in closedAt + 1 .. Len(wire)} \cap Messages) <= 1

\* The assistant never speaks first: before whatever it says, the client sent a
\* message that opens the funnel, and that was not after the answered message
\* (sessionGate; Pipeline.Handle, "there is no code path that contacts a user
\* first").
NeverSpeaksFirst ==
  \A i \in DOMAIN wire : wire[i].item \in Messages =>
    \E r, t \in DOMAIN inbox :
      t <= r /\ inbox[r].msg = wire[i].item /\ inbox[t].msg \in Triggers

\* A pending nudge hangs on the newest message of the client, except while the
\* turn of a newer one is about to cancel it: no order of a late Schedule and
\* an early CancelFor leaves a nudge behind a message that answered it
\* (onInbound, planFollowUp).
NudgeHangsOnNewest ==
  \A r, n \in DOMAIN inbox :
    r < n /\ jobs[inbox[r].msg] = "pending" => \E w \in Workers : turn[w].row = n /\ pc[w] = "inbound"

\* What an assistant's turn does to the status, when no consultant wrote to the
\* record since the turn loaded it: it never takes the lead away from where a
\* human or an escalation put it, whatever the other turns of the chat do.
EscalationSticks ==
  [][\A w \in Workers :
       /\ pc[w] = "apply" /\ pc'[w] # "apply"
       /\ ~turn[w].touched
       /\ client'.status # client.status
       => client.status \in AIStatuses \ {"needs_consultant"}]_vars

\* Every delivery and every operation of a consultant comes to its end: nobody
\* waits for ever for either lock, although a turn holds the first while it
\* waits for the second, which a consultant may hold.
EverybodyFinishes ==
  /\ \A w \in Workers : pc[w] = "order" ~> pc[w] = "idle"
  /\ \A c \in Consultants : op[c].pc # "idle" ~> op[c].pc = "idle"

\* Where no statement fails, no deadline passes and the process lives, every
\* delivered message is stored and marked processed.
EveryMessageProcessed ==
  \A m \in Messages :
    deliveries[m] > 0 ~> \E r \in DOMAIN inbox : inbox[r] = [msg |-> m, processed |-> TRUE]

-----------------------------------------------------------------------------
(* Refinement *)

\* The message whose turn is under way: the lock's holder has stored it.
OpenMessage ==
  IF orderLock # None /\ turn[orderLock].row # 0 THEN turn[orderLock].msg ELSE None

SeenMessages == [r \in DOMAIN inbox |-> inbox[r].msg]

SaidItems == [i \in DOMAIN wire |-> wire[i].item]

T == INSTANCE ChatTurns
       WITH open <- OpenMessage, seen <- SeenMessages, said <- SaidItems,
            Others <- Consultants, MaxCopies <- MaxSendAttempts

\* The pipeline takes the client's messages one at a time, each once, and
\* answers a message only during its turn (ChatTurns).
ImplementsChatTurns == T!Spec

\* The pipeline implements ChatTurns, and every turn ends.
ImplementsLiveTurns == T!FairSpec

=============================================================================
