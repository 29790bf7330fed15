------------------------- MODULE Conversation_proofs -------------------------
(***************************************************************************)
(* What holds of Conversation for any number of workers, consultants and   *)
(* messages, whatever fails. What Messenger guarantees is taken from       *)
(* Messenger_proofs: its lemmas are about every step a caller of Send may  *)
(* make, and every step of Conversation is one (SendMoves).                *)
(***************************************************************************)
EXTENDS Conversation, FiniteSetTheorems, SequenceTheorems, TLAPS

MP == INSTANCE Messenger_proofs WITH MaxTraffic <- 0

LEMMA Names ==
  /\ None \notin Workers /\ None \notin Consultants /\ None \notin Messages
  /\ None \notin ClientRecords
  /\ Workers \cap Consultants = {} /\ Messages \cap Consultants = {}
  /\ Hasty \subseteq Procs /\ Answers \subseteq Outcomes /\ Operations \subseteq ConsultantOps
  /\ Triggers \subseteq Messages
  /\ MaxSendAttempts \in Nat \ {0} /\ MaxDeliveries \in Nat /\ MaxOps \in Nat /\ MaxCrashes \in Nat
  BY ConversationAssumption DEF ConversationAssumption, Procs

LEMMA SendAssumption == MP!MessengerAssumption
  BY Names DEF MP!MessengerAssumption, Procs

-----------------------------------------------------------------------------
(* The record of the client *)

LEMMA Vocabulary ==
  /\ NoStage \in Stages /\ Modes = {"ai", "human", "paused"}
  /\ {"new", "needs_qualification", "consultant_processing", "blocked"} \subseteq Statuses
  /\ AIStatuses \subseteq Statuses
  BY DEF Stages, StageRank, NoStage, Modes, Statuses, AIStatuses, ConsultantOwned, Terminal

\* A record that replaces c: well formed, and the session is what it was.
Successor(c, r) == r \in ClientRecords /\ r.session = c.session

LEMMA WithModeSucceeds ==
  ASSUME NEW c \in ClientRecords, NEW m \in Modes
  PROVE  Successor(c, WithMode(c, m))
<1> DEFINE s == IF m = "human" /\ c.status \in AIStatuses THEN "consultant_processing"
                ELSE c.status
<1> DEFINE b == (m = "ai")
<1>1. s \in Statuses /\ b \in BOOLEAN
  BY Vocabulary DEF ClientRecords
<1>2. WithMode(c, m) = [c EXCEPT !.mode = m, !.aiEnabled = b, !.status = s]
  BY DEF WithMode
<1> HIDE DEF s, b
<1> QED
  BY <1>1, <1>2, Zenon DEF Successor, ClientRecords

LEMMA WithBlockSucceeds ==
  ASSUME NEW c \in ClientRecords
  PROVE  Successor(c, WithBlock(c))
<1>1. "blocked" \in Statuses /\ "paused" \in Modes /\ TRUE \in BOOLEAN /\ FALSE \in BOOLEAN
  BY Vocabulary
<1> QED
  BY <1>1, Zenon DEF WithBlock, Successor, ClientRecords

LEMMA WithoutBlockSucceeds ==
  ASSUME NEW c \in ClientRecords
  PROVE  Successor(c, WithoutBlock(c))
<1> DEFINE s == IF c.status = "blocked" THEN "needs_qualification" ELSE c.status
<1>1. s \in Statuses /\ "ai" \in Modes /\ TRUE \in BOOLEAN /\ FALSE \in BOOLEAN
  BY Vocabulary DEF ClientRecords
<1>2. WithoutBlock(c) =
        [c EXCEPT !.blocked = FALSE, !.aiEnabled = TRUE, !.mode = "ai", !.status = s]
  BY DEF WithoutBlock
<1> HIDE DEF s
<1> QED
  BY <1>1, <1>2, Zenon DEF Successor, ClientRecords

LEMMA WithStatusSucceeds ==
  ASSUME NEW c \in ClientRecords, NEW s \in Statuses
  PROVE  Successor(c, [c EXCEPT !.status = s])
  BY Zenon DEF Successor, ClientRecords

LEMMA WithSessionSucceeds ==
  ASSUME NEW c \in ClientRecords
  PROVE  /\ [c EXCEPT !.session = TRUE] \in ClientRecords
         /\ [c EXCEPT !.session = TRUE].session
         /\ [c EXCEPT !.session = TRUE].status = c.status
<1>1. TRUE \in BOOLEAN
  OBVIOUS
<1> QED
  BY <1>1, Zenon DEF Successor, ClientRecords

LEMMA WithAIStateSucceeds ==
  ASSUME NEW c \in ClientRecords, NEW status \in Statuses, NEW stage \in Stages
  PROVE  /\ Successor(c, WithAIState(c, status, stage))
         /\ WithAIState(c, status, stage).status \in {c.status, status}
<1> DEFINE s == IF status # NoStatus THEN status ELSE c.status
           g == IF stage # NoStage THEN stage ELSE c.stage
<1>1. s \in Statuses /\ g \in Stages /\ s \in {c.status, status}
  BY DEF ClientRecords
<1>2. WithAIState(c, status, stage) = [c EXCEPT !.status = s, !.stage = g]
  BY DEF WithAIState
<1> HIDE DEF s, g
<1> QED
  BY <1>1, <1>2, Zenon DEF Successor, ClientRecords

LEMMA ManualStatuses ==
  ASSUME NEW what \in Operations, what.kind \in {"set_status", "update_client"}
  PROVE  what.to \in Statuses
  BY Names DEF ConsultantOps

\* The table never leads out of the assistant's statuses, nor anywhere out of
\* "needs_consultant".
LEMMA TableStays ==
  ASSUME NEW s \in AIStatuses
  PROVE  /\ Transitions[s] \subseteq AIStatuses
         /\ s = "needs_consultant" => Transitions[s] = {}
<1>1. s \in {"new", "ai_processing", "needs_qualification", "qualified",
             "waiting_for_client", "needs_consultant"}
  BY DEF AIStatuses
<1>2. Transitions[s] =
        CASE s = "new"                 -> AIStatuses \ {"new"}
          [] s = "ai_processing"       -> AIStatuses \ {"new", "ai_processing"}
          [] s = "needs_qualification" -> AIStatuses \ {"new", "needs_qualification"}
          [] s = "qualified"           -> {"needs_consultant", "waiting_for_client"}
          [] s = "waiting_for_client"  -> AIStatuses \ {"new", "waiting_for_client"}
          [] s = "needs_consultant"    -> {}
  BY DEF Transitions
<1>3. CASE s \in {"new", "ai_processing", "needs_qualification"}
  BY <1>2, <1>3 DEF AIStatuses
<1>4. CASE s \in {"qualified", "waiting_for_client", "needs_consultant"}
  BY <1>2, <1>4 DEF AIStatuses
<1> QED
  BY <1>1, <1>3, <1>4

\* What a turn may write: the status it found, or another one of the
\* assistant's if it found one of those that no human has to look at.
LEMMA TurnStatusMoves ==
  ASSUME NEW stage, NEW status \in Statuses, NEW o
  PROVE  /\ TurnStatus(stage, status, o) \in Statuses
         /\ TurnStatus(stage, status, o) # status => status \in AIStatuses \ {"needs_consultant"}
<1> DEFINE implied == StatusForStage(TurnStage(stage, o), o.needsHuman)
           suggested == IF implied # NoStatus THEN implied ELSE o.status
<1>1. TurnStatus(stage, status, o) = NextStatus(status, suggested)
  BY DEF TurnStatus
<1> HIDE DEF suggested
<1>2. CASE status \in AIStatuses /\ suggested \in Transitions[status]
  <2>1. NextStatus(status, suggested) = suggested
    BY <1>2 DEF NextStatus
  <2> QED
    BY <1>1, <1>2, <2>1, TableStays, Vocabulary
<1>3. CASE ~(status \in AIStatuses /\ suggested \in Transitions[status])
  BY <1>1, <1>3 DEF NextStatus
<1> QED
  BY <1>2, <1>3

LEMMA TurnStageType ==
  ASSUME NEW stage \in Stages, NEW o
  PROVE  TurnStage(stage, o) \in Stages
<1>1. ASSUME NEW current \in Stages, NEW suggested PROVE NextStage(current, suggested) \in Stages
  BY DEF NextStage
<1> QED
  BY <1>1 DEF TurnStage

-----------------------------------------------------------------------------
(* Who writes what *)

\* The types of what the lemmas of this section step over.
ChatTypes ==
  /\ client \in ClientRecords
  /\ inbox \in Seq(Incoming)
  /\ jobs \in [Messages -> {"none", "pending", "cancelled"}]
  /\ pc \in [Workers -> Positions]
  /\ turn \in [Workers -> Turns]
  /\ op \in [Consultants -> [pc: {"idle", "write", "cancel", "sending"},
                             what: Operations \cup {None}, saw: Modes]]

SendTypes ==
  /\ call \in [Procs -> MP!Calls]
  /\ expired \in [Procs -> BOOLEAN]

LEMMA Surround ==
  ASSUME SendTypes, UNCHANGED <<sendLock, rows, wire, call>>, expired' \in [Procs -> BOOLEAN]
  PROVE  MP!Moves
  BY DEF SendTypes, MP!Moves, MP!Surroundings

LEMMA ForgetContext ==
  ASSUME SendTypes, NEW p \in Procs, NEW b \in BOOLEAN,
         UNCHANGED <<sendLock, rows, wire, call>>, expired' = [expired EXCEPT ![p] = b]
  PROVE  MP!Moves
  BY Surround DEF SendTypes

LEMMA NoContext ==
  ASSUME SendTypes, UNCHANGED <<sendLock, rows, wire, call, expired>>
  PROVE  MP!Moves
  BY Surround DEF SendTypes

\* Send has answered, and whoever called it is done with the call.
LEMMA TakeResult ==
  ASSUME SendTypes, NEW p \in Procs, call[p].pc = "done", call' = [call EXCEPT ![p] = MP!NoCall],
         UNCHANGED <<sendLock, rows, wire>>, expired' \in [Procs -> BOOLEAN]
  PROVE  MP!Moves
<1>1. MP!NoCall \in MP!Calls
  BY SendAssumption DEF MP!MessengerAssumption, MP!NoCall, MP!Call, MP!Calls, MP!Positions, MP!Results
<1> QED
  BY <1>1 DEF SendTypes, MP!Moves, MP!Surroundings

LEMMA WorkerMoves ==
  ASSUME SendTypes, NEW w \in Workers, WorkerStep(w),
         pc[w] = "reply" => turn[w].msg \in Messages
  PROVE  MP!Moves
<1>p. w \in Procs
  BY DEF Procs
<1>1. CASE TakeOrder(w) \/ OrderCancelled(w)
  BY <1>1, <1>p, NoContext, ForgetContext DEF TakeOrder, OrderCancelled, sendVars
<1>2. CASE Recheck(w) \/ StoreIncoming(w) \/ Inbound(w)
  BY <1>2, <1>p, NoContext, ForgetContext DEF Recheck, StoreIncoming, Inbound, Goto, Finish
<1>3. CASE BotOff(w) \/ GateClosed(w) \/ SessionIgnores(w)
  BY <1>3, <1>p, ForgetContext DEF BotOff, GateClosed, SessionIgnores, Silence, Finish
<1>4. CASE GateOpen(w) \/ GateSkipped(w) \/ SessionPasses(w) \/ Decide(w)
  BY <1>4, NoContext DEF GateOpen, GateSkipped, SessionPasses, Decide, Goto
<1>5. CASE Apply(w)
  BY <1>5, <1>p, NoContext, ForgetContext DEF Apply, Goto, Finish
<1>6. CASE Reply(w)
  <2>1. M!Request(w, turn[w].msg)
    BY <1>6 DEF Reply
  <2>2. turn[w].msg \in Items
    BY <1>6 DEF Reply, At, Items
  <2>3. MP!Request(w, turn[w].msg)
    BY <2>1 DEF M!Request, M!Call, MP!Request, MP!Call
  <2> QED
    BY <1>p, <2>2, <2>3 DEF MP!Moves
<1>7. CASE SendCut(w)
  <2>1. expired' \in [Procs -> BOOLEAN]
    BY <1>7, <1>p DEF SendCut, Finish, SendTypes
  <2>2. call[w].pc = "done" /\ call' = [call EXCEPT ![w] = MP!NoCall]
    BY <1>7 DEF SendCut, M!NoCall, M!Call, MP!NoCall, MP!Call
  <2> QED
    BY <1>7, <1>p, <2>1, <2>2, TakeResult DEF SendCut
<1>8. CASE Sent(w)
  <2>1. call[w].pc = "done" /\ call' = [call EXCEPT ![w] = MP!NoCall]
        /\ UNCHANGED <<sendLock, rows, wire, expired>>
    BY <1>8 DEF Sent, M!Return, M!NoCall, M!Call, MP!NoCall, MP!Call
  <2> QED
    BY <1>p, <2>1, TakeResult DEF SendTypes
<1>9. CASE Plan(w) \/ Schedule(w) \/ ReplyEmpty(w) \/ Abort(w)
  BY <1>9, <1>p, NoContext, ForgetContext DEF Plan, Schedule, ReplyEmpty, Abort, Goto, Finish
<1> QED
  BY <1>1, <1>2, <1>3, <1>4, <1>5, <1>6, <1>7, <1>8, <1>9 DEF WorkerStep


LEMMA ConsultantMoves ==
  ASSUME SendTypes, NEW c \in Consultants, ConsultantStep(c)
  PROVE  MP!Moves
<1>p. c \in Procs /\ c \in Items
  BY DEF Procs, Items
<1>1. CASE TakeOver(c) \/ ResumeAI(c) \/ PauseAI(c) \/ Block(c) \/ Unblock(c)
           \/ SetStatus(c) \/ UpdateClient(c) \/ SpeakUp(c)
  BY <1>1, <1>p, NoContext, ForgetContext
     DEF TakeOver, ResumeAI, PauseAI, Block, Unblock, SetStatus, UpdateClient, SpeakUp, OpFrame,
         EndOp, ThenCancel
<1>2. CASE CancelNudges(c)
  <2>1. CASE M!Request(c, c)
    <3>1. MP!Request(c, c)
      BY <2>1 DEF M!Request, M!Call, MP!Request, MP!Call
    <3> QED
      BY <1>p, <3>1 DEF MP!Moves
  <2>2. CASE EndOp(c) /\ UNCHANGED <<sendLock, rows, wire, call>>
    BY <1>p, <2>2, ForgetContext DEF EndOp
  <2> QED
    BY <1>2, <2>1, <2>2 DEF CancelNudges
<1>3. CASE Answered(c)
  <2>1. call[c].pc = "done" /\ call' = [call EXCEPT ![c] = MP!NoCall]
    BY <1>3 DEF Answered, M!NoCall, M!Call, MP!NoCall, MP!Call
  <2>2. expired' \in [Procs -> BOOLEAN]
    BY <1>3, <1>p DEF Answered, EndOp, SendTypes
  <2> QED
    BY <1>3, <1>p, <2>1, <2>2, TakeResult DEF Answered
<1>4. CASE AbortOp(c)
  BY <1>4, <1>p, ForgetContext DEF AbortOp, EndOp
<1> QED
  BY <1>1, <1>2, <1>3, <1>4 DEF ConsultantStep

LEMMA StepSame == ASSUME NEW p, M!Step(p) PROVE MP!Step(p)
  BY DEF M!Step, M!Lock, M!LockFree, M!LockCancelled, M!Store, M!Accepted, M!FailedTransiently,
         M!GaveUp, M!Record, M!CanRetry, M!Delivered, M!FinalStatus, M!Unlock, M!Call,
         MP!Step, MP!Lock, MP!LockFree, MP!LockCancelled, MP!Store, MP!Accepted,
         MP!FailedTransiently, MP!GaveUp, MP!Record, MP!CanRetry, MP!Delivered,
         MP!FinalStatus, MP!Unlock, MP!Call

\* For Messenger, every step of the chat is a step of one of its callers.
LEMMA SendMoves ==
  ASSUME SendTypes, [Next]_vars,
         \A w \in Workers : pc[w] = "reply" => turn[w].msg \in Messages
  PROVE  MP!Moves
<1>1. ASSUME NEW w \in Workers, NEW m \in Messages, Deliver(w, m) \/ DropDelivery(w, m)
      PROVE  MP!Moves
  BY <1>1, NoContext DEF Deliver, DropDelivery, sendVars
<1>2. ASSUME NEW w \in Workers, WorkerStep(w) PROVE MP!Moves
  BY <1>2, WorkerMoves
<1>3. ASSUME NEW c \in Consultants, NEW what \in Operations, Begin(c, what) PROVE MP!Moves
  BY <1>3, NoContext DEF Begin, sendVars
<1>4. ASSUME NEW c \in Consultants, ConsultantStep(c) PROVE MP!Moves
  BY <1>4, ConsultantMoves
<1>5. ASSUME NEW p \in Procs, SendStep(p) PROVE MP!Moves
  BY <1>5, StepSame DEF SendStep, MP!Moves
<1>6. ASSUME NEW p \in Hasty, Expire(p) PROVE MP!Moves
  BY <1>6, Names, ForgetContext DEF Expire
<1>7. CASE Crash
  BY <1>7 DEF Crash, M!Crash, M!NoCall, M!Call, MP!Moves, MP!Crash, MP!NoCall, MP!Call
<1>8. CASE UNCHANGED vars
  BY <1>8, NoContext DEF vars
<1> QED
  BY <1>1, <1>2, <1>3, <1>4, <1>5, <1>6, <1>7, <1>8 DEF Next

-----------------------------------------------------------------------------
(* The record of the client, from one step to the next *)

\* Only a message that passes the session gate opens the session.
Opens(r) == r.session /\ \E w \in Workers : SessionPasses(w)

\* The record is left alone, or replaced and the history variable follows.
ClientStep ==
  \/ UNCHANGED <<client, closedAt>>
  \/ /\ UNCHANGED wire
     /\ \E r \in ClientRecords : /\ WriteClient(r)
                                 /\ r.session = client.session \/ Opens(r)

LEMMA HumanWritesStep ==
  ASSUME NEW r, Successor(client, r), HumanWrites(r), UNCHANGED wire
  PROVE  ClientStep
  BY DEF HumanWrites, ClientStep, Successor

LEMMA OpTypes ==
  ASSUME ChatTypes, NEW c \in Consultants
  PROVE  /\ op[c].pc \in {"idle", "write", "cancel", "sending"}
         /\ op[c].what \in Operations \cup {None} /\ op[c].saw \in Modes
  BY DEF ChatTypes

\* An operation under way is one of the consultants' operations.
OpInv == \A c \in Consultants : op[c].pc # "idle" => op[c].what \in Operations

LEMMA OperationWrites ==
  ASSUME ChatTypes, OpInv, NEW c \in Consultants, ConsultantStep(c)
  PROVE  ClientStep
<1>0. client \in ClientRecords /\ Modes = {"ai", "human", "paused"}
  BY Vocabulary DEF ChatTypes
<1>1. CASE TakeOver(c)
  <2>1. Successor(client, WithMode(client, "human"))
    BY <1>0, WithModeSucceeds
  <2> QED
    BY <1>1, <2>1, HumanWritesStep DEF TakeOver, OpFrame, ClientStep
<1>2. CASE ResumeAI(c)
  <2>1. Successor(client, WithMode(client, "ai"))
    BY <1>0, WithModeSucceeds
  <2> QED
    BY <1>2, <2>1, HumanWritesStep DEF ResumeAI, OpFrame
<1>3. CASE PauseAI(c)
  <2>1. Successor(client, WithMode(client, "paused"))
    BY <1>0, WithModeSucceeds
  <2> QED
    BY <1>3, <2>1, HumanWritesStep DEF PauseAI, OpFrame
<1>4. CASE Block(c)
  BY <1>0, <1>4, WithBlockSucceeds, HumanWritesStep DEF Block, OpFrame
<1>5. CASE Unblock(c)
  BY <1>0, <1>5, WithoutBlockSucceeds, HumanWritesStep DEF Unblock, OpFrame
<1>6. CASE SetStatus(c)
  <2>1. op[c].what.to \in Statuses
    BY <1>6, ManualStatuses DEF SetStatus, Writing, OpInv
  <2> QED
    BY <1>0, <1>6, <2>1, WithStatusSucceeds, HumanWritesStep DEF SetStatus, OpFrame
<1>7. CASE UpdateClient(c)
  <2>1. op[c].what.to \in Statuses
    BY <1>7, ManualStatuses DEF UpdateClient, Writing, OpInv
  <2> QED
    BY <1>0, <1>7, <2>1, WithStatusSucceeds, HumanWritesStep DEF UpdateClient, OpFrame
<1>8. CASE SpeakUp(c)
  <2>1. Successor(client, WithMode(client, "human"))
    BY <1>0, WithModeSucceeds
  <2> QED
    BY <1>8, <2>1, HumanWritesStep DEF SpeakUp, OpFrame, ClientStep
<1>9. CASE CancelNudges(c) \/ Answered(c) \/ AbortOp(c)
  BY <1>9 DEF CancelNudges, Answered, AbortOp, ClientStep
<1> QED
  BY <1>1, <1>2, <1>3, <1>4, <1>5, <1>6, <1>7, <1>8, <1>9 DEF ConsultantStep

LEMMA NextStateFields ==
  ASSUME NEW n \in NextStates
  PROVE  n.status \in Statuses /\ n.stage \in Stages
  BY DEF NextStates

LEMMA TurnFields ==
  ASSUME NEW t \in Turns
  PROVE  /\ t.msg \in Messages \cup {None} /\ t.row \in Nat
         /\ t.snap \in ClientRecords \cup {None} /\ t.next \in NextStates \cup {None}
         /\ t.speak \in BOOLEAN /\ t.touched \in BOOLEAN
  BY DEF Turns

\* The worker's steps that write to the record.
LEMMA WorkerKeeps ==
  ASSUME NEW w \in Workers, WorkerStep(w), ~SessionPasses(w), ~Apply(w)
  PROVE  UNCHANGED <<client, closedAt>>
<1>1. CASE TakeOrder(w) \/ OrderCancelled(w) \/ Recheck(w) \/ StoreIncoming(w) \/ Inbound(w)
           \/ BotOff(w) \/ GateClosed(w) \/ GateOpen(w) \/ GateSkipped(w)
  BY <1>1 DEF TakeOrder, OrderCancelled, Recheck, StoreIncoming, Inbound, BotOff, GateClosed,
              Silence, GateOpen, GateSkipped
<1>2. CASE SessionIgnores(w) \/ Decide(w) \/ Reply(w) \/ SendCut(w) \/ Sent(w) \/ Plan(w)
           \/ Schedule(w) \/ ReplyEmpty(w) \/ Abort(w)
  BY <1>2 DEF SessionIgnores, Silence, Decide, Reply, SendCut, Sent, Plan, Schedule, ReplyEmpty, Abort
<1> QED
  BY <1>1, <1>2 DEF WorkerStep

LEMMA WorkerWrites ==
  ASSUME ChatTypes, NEW w \in Workers, WorkerStep(w)
  PROVE  ClientStep
<1>0. client \in ClientRecords /\ turn[w] \in Turns
  BY DEF ChatTypes
<1>1. CASE SessionPasses(w)
  BY <1>0, <1>1, WithSessionSucceeds DEF SessionPasses, ClientStep, Opens
<1>2. CASE Apply(w)
  <2>1. UNCHANGED wire
    BY <1>2 DEF Apply
  <2>2. CASE UNCHANGED <<client, closedAt>>
    BY <2>2 DEF ClientStep
  <2>3. CASE /\ turn[w].next # None
             /\ WriteClient(WithAIState(client, turn[w].next.status, turn[w].next.stage))
    <3>1. turn[w].next \in NextStates
      BY <1>0, <2>3, TurnFields
    <3>2. Successor(client, WithAIState(client, turn[w].next.status, turn[w].next.stage))
      BY <1>0, <3>1, NextStateFields, WithAIStateSucceeds
    <3> QED
      BY <2>1, <2>3, <3>2 DEF ClientStep, Successor
  <2> QED
    BY <1>2, <2>2, <2>3 DEF Apply
<1> QED
  BY <1>1, <1>2, WorkerKeeps DEF ClientStep

LEMMA ClientMoves == ASSUME ChatTypes, OpInv, [Next]_vars PROVE ClientStep
<1>1. ASSUME NEW w \in Workers, WorkerStep(w) PROVE ClientStep
  BY <1>1, WorkerWrites
<1>2. ASSUME NEW c \in Consultants, ConsultantStep(c) PROVE ClientStep
  BY <1>2, OperationWrites
<1>3. ASSUME NEW w, NEW m, Deliver(w, m) \/ DropDelivery(w, m) PROVE ClientStep
  BY <1>3 DEF Deliver, DropDelivery, ClientStep
<1>4. ASSUME NEW c, NEW what, Begin(c, what) PROVE ClientStep
  BY <1>4 DEF Begin, ClientStep
<1>5. ASSUME NEW p, SendStep(p) \/ Expire(p) PROVE ClientStep
  BY <1>5 DEF SendStep, chatVars, Expire, ClientStep
<1>6. CASE Crash
  BY <1>6 DEF Crash, ClientStep
<1>7. CASE UNCHANGED vars
  BY <1>7 DEF vars, ClientStep
<1> QED
  BY <1>1, <1>2, <1>3, <1>4, <1>5, <1>6, <1>7 DEF Next

-----------------------------------------------------------------------------
(* The way of a worker through Handle *)

\* The positions after the incoming row was stored.
Stored == InTurn \ {"recheck", "store"}

\* The positions from there to the reply.
Unsaid == {"inbound", "gate", "session", "decide", "apply", "reply"}

\* The locals may change, but not the delivery they are about.
SameDelivery(t, u) == u \in Turns /\ u.msg = t.msg /\ u.row = t.row

\* Rows are only marked.
SameMessages ==
  /\ inbox' \in Seq(Incoming)
  /\ Len(inbox') = Len(inbox)
  /\ \A r \in DOMAIN inbox : inbox'[r].msg = inbox[r].msg

Arrives(w) ==
  /\ pc[w] = "idle" /\ pc'[w] = "order"
  /\ \E m \in Messages : turn'[w] = Turn(m)
  /\ UNCHANGED <<inbox, orderLock, jobs>>

Enters(w) ==
  /\ pc[w] = "order" /\ pc'[w] = "recheck"
  /\ orderLock = None /\ orderLock' = w
  /\ turn'[w] = turn[w]
  /\ UNCHANGED <<inbox, jobs>>

Checks(w) ==
  /\ pc[w] = "recheck" /\ pc'[w] = "store"
  /\ turn'[w] = turn[w]
  /\ UNCHANGED <<inbox, orderLock, jobs>>

Stores(w) ==
  /\ pc[w] = "store" /\ pc'[w] = "inbound"
  /\ ~Exists(turn[w].msg)
  /\ inbox' = Append(inbox, [msg |-> turn[w].msg, processed |-> FALSE])
  /\ turn'[w] \in Turns
  /\ turn'[w].msg = turn[w].msg /\ turn'[w].row = Len(inbox) + 1 /\ turn'[w].snap = turn[w].snap
  /\ UNCHANGED <<orderLock, jobs>>

Onward(w) ==
  /\ pc[w] \in Stored /\ pc'[w] \in Stored \ {"inbound"}
  /\ pc'[w] \in Unsaid \cup {"sending"} => pc[w] \in Unsaid
  /\ SameDelivery(turn[w], turn'[w])
  /\ SameMessages
  /\ UNCHANGED orderLock

Ends(w) ==
  /\ pc[w] # "idle" /\ pc'[w] = "idle"
  /\ turn'[w] = NoTurn
  /\ orderLock' = IF pc[w] = "order" THEN orderLock ELSE None
  /\ SameMessages

\* What the step of one worker is to the others.
Hop(w) ==
  /\ pc' \in [Workers -> Positions] /\ turn' \in [Workers -> Turns]
  /\ \A v \in Workers \ {w} : pc'[v] = pc[v] /\ turn'[v] = turn[v]
  /\ Arrives(w) \/ Enters(w) \/ Checks(w) \/ Stores(w) \/ Onward(w) \/ Ends(w)

LEMMA NoTurnType == NoTurn \in Turns /\ \A m \in Messages : Turn(m) \in Turns
  BY DEF NoTurn, Turn, Turns

LEMMA SameInbox ==
  ASSUME ChatTypes, UNCHANGED inbox
  PROVE  SameMessages
  BY DEF ChatTypes, SameMessages

LEMMA MarkSame ==
  ASSUME ChatTypes, NEW w, Mark(w)
  PROVE  SameMessages
<1>1. CASE UNCHANGED inbox
  BY <1>1, SameInbox
<1>2. CASE inbox' = [inbox EXCEPT ![turn[w].row] = [msg |-> @.msg, processed |-> TRUE]]
  <2>1. inbox \in Seq(Incoming)
    BY DEF ChatTypes
  <2>2. ASSUME NEW r \in DOMAIN inbox
        PROVE  inbox'[r] \in Incoming /\ inbox'[r].msg = inbox[r].msg
    <3>1. inbox[r] \in Incoming
      BY <2>1
    <3>2. [msg |-> inbox[r].msg, processed |-> TRUE] \in Incoming
      BY <3>1 DEF Incoming
    <3> QED
      BY <1>2, <3>1, <3>2
  <2>3. DOMAIN inbox' = 1 .. Len(inbox) /\ Len(inbox) \in Nat
    BY <1>2, <2>1
  <2>4. inbox' \in [1 .. Len(inbox) -> Incoming]
    BY <1>2, <2>1, <2>2, <2>3
  <2>5. inbox' \in Seq(Incoming) /\ Len(inbox') = Len(inbox)
    BY <2>3, <2>4
  <2> QED
    BY <2>2, <2>5 DEF SameMessages
<1> QED
  BY <1>1, <1>2 DEF Mark

LEMMA GotoHop ==
  ASSUME ChatTypes, NEW w \in Workers, NEW step \in Stored \ {"inbound"}, pc[w] \in Stored,
         step \in Unsaid \cup {"sending"} => pc[w] \in Unsaid,
         Goto(w, step), SameMessages,
         NEW u, SameDelivery(turn[w], u), turn' = [turn EXCEPT ![w] = u]
  PROVE  Hop(w)
<1>1. u \in Turns /\ step \in Positions
  BY DEF SameDelivery, Stored, InTurn
<1>2. /\ pc' \in [Workers -> Positions] /\ pc'[w] = step
      /\ \A v \in Workers \ {w} : pc'[v] = pc[v]
  BY <1>1 DEF ChatTypes, Goto
<1>3. /\ turn' \in [Workers -> Turns] /\ turn'[w] = u
      /\ \A v \in Workers \ {w} : turn'[v] = turn[v]
  BY <1>1 DEF ChatTypes
<1>4. Onward(w)
  BY <1>2, <1>3 DEF Onward, Goto
<1> QED
  BY <1>2, <1>3, <1>4 DEF Hop

LEMMA KeepTurn ==
  ASSUME ChatTypes, NEW w \in Workers, UNCHANGED turn
  PROVE  SameDelivery(turn[w], turn[w]) /\ turn' = [turn EXCEPT ![w] = turn[w]]
  BY DEF ChatTypes, SameDelivery

LEMMA FinishHop ==
  ASSUME ChatTypes, NEW w \in Workers, pc[w] \in InTurn, Finish(w), SameMessages
  PROVE  Hop(w)
<1>1. /\ pc' \in [Workers -> Positions] /\ pc'[w] = "idle"
      /\ \A v \in Workers \ {w} : pc'[v] = pc[v]
  BY DEF ChatTypes, Finish, Positions
<1>2. /\ turn' \in [Workers -> Turns] /\ turn'[w] = NoTurn
      /\ \A v \in Workers \ {w} : turn'[v] = turn[v]
  BY NoTurnType DEF ChatTypes, Finish
<1>3. Ends(w)
  BY <1>1, <1>2 DEF Ends, Finish, InTurn
<1> QED
  BY <1>1, <1>2, <1>3 DEF Hop

LEMMA SetSnap ==
  ASSUME NEW t \in Turns, NEW s \in ClientRecords \cup {None}
  PROVE  /\ SameDelivery(t, [t EXCEPT !.snap = s])
         /\ [t EXCEPT !.snap = s].snap = s
         /\ [t EXCEPT !.snap = s].next = t.next
         /\ [t EXCEPT !.snap = s].touched = t.touched
  BY Zenon DEF Turns, SameDelivery

LEMMA SetDecision ==
  ASSUME NEW t \in Turns, NEW n \in NextStates \cup {None}, NEW b \in BOOLEAN
  PROVE  /\ SameDelivery(t, [t EXCEPT !.snap = None, !.next = n, !.speak = b])
         /\ [t EXCEPT !.snap = None, !.next = n, !.speak = b].next = n
         /\ [t EXCEPT !.snap = None, !.next = n, !.speak = b].touched = t.touched
<1>1. None \in ClientRecords \cup {None}
  OBVIOUS
<1> QED
  BY <1>1, Zenon DEF Turns, SameDelivery

LEMMA SetTurn ==
  ASSUME NEW f \in [Workers -> Turns], NEW w \in Workers, NEW n, NEW b
  PROVE  [f EXCEPT ![w].snap = None, ![w].next = n, ![w].speak = b]
           = [f EXCEPT ![w] = [f[w] EXCEPT !.snap = None, !.next = n, !.speak = b]]
  BY Zenon

LEMMA SetApplied ==
  ASSUME NEW t \in Turns
  PROVE  SameDelivery(t, [t EXCEPT !.next = None, !.touched = FALSE])
<1>1. None \in NextStates \cup {None} /\ FALSE \in BOOLEAN
  OBVIOUS
<1> QED
  BY <1>1, Zenon DEF Turns, SameDelivery

LEMMA SetRow ==
  ASSUME NEW t \in Turns, NEW r \in Nat
  PROVE  /\ [t EXCEPT !.row = r] \in Turns
         /\ [t EXCEPT !.row = r].msg = t.msg /\ [t EXCEPT !.row = r].row = r
         /\ [t EXCEPT !.row = r].snap = t.snap
  BY Zenon DEF Turns

LEMMA SetTouched ==
  ASSUME NEW t \in Turns, NEW b \in BOOLEAN
  PROVE  /\ SameDelivery(t, [t EXCEPT !.touched = b])
         /\ [t EXCEPT !.touched = b].snap = t.snap /\ [t EXCEPT !.touched = b].next = t.next
         /\ [t EXCEPT !.touched = b].touched = b
  BY Zenon DEF Turns, SameDelivery

LEMMA StoreHops ==
  ASSUME ChatTypes, NEW w \in Workers, StoreIncoming(w)
  PROVE  Hop(w)
<1>0. pc[w] = "store" /\ turn[w] \in Turns /\ inbox \in Seq(Incoming) /\ Len(inbox) + 1 \in Nat
  BY DEF StoreIncoming, At, ChatTypes
<1>1. CASE UNCHANGED inbox /\ Finish(w)
  BY <1>0, <1>1, SameInbox, FinishHop DEF InTurn, Positions
<1>2. CASE /\ ~Exists(turn[w].msg)
           /\ inbox' = Append(inbox, [msg |-> turn[w].msg, processed |-> FALSE])
           /\ turn' = [turn EXCEPT ![w].row = Len(inbox) + 1]
           /\ Goto(w, "inbound")
  <2> DEFINE u == [turn[w] EXCEPT !.row = Len(inbox) + 1]
  <2>1. u \in Turns /\ u.msg = turn[w].msg /\ u.row = Len(inbox) + 1 /\ u.snap = turn[w].snap
    BY <1>0, SetRow
  <2>2. turn' = [turn EXCEPT ![w] = u]
    BY <1>2
  <2> HIDE DEF u
  <2>3. /\ turn' \in [Workers -> Turns] /\ turn'[w] = u
        /\ \A v \in Workers \ {w} : turn'[v] = turn[v]
    BY <2>1, <2>2 DEF ChatTypes
  <2>4. /\ pc' \in [Workers -> Positions] /\ pc'[w] = "inbound"
        /\ \A v \in Workers \ {w} : pc'[v] = pc[v]
    BY <1>2 DEF ChatTypes, Goto, Positions
  <2>5. UNCHANGED <<orderLock, jobs>>
    BY <1>2 DEF StoreIncoming, Goto
  <2>6. Stores(w)
    BY <1>0, <1>2, <2>1, <2>3, <2>4, <2>5 DEF Stores
  <2> QED
    BY <2>3, <2>4, <2>6 DEF Hop
<1> QED
  BY <1>1, <1>2 DEF StoreIncoming

LEMMA StoredPlaces ==
  Stored = {"inbound", "gate", "session", "decide", "apply", "reply", "sending", "plan", "schedule"}
  BY DEF Stored, InTurn, Positions

LEMMA DecideHops ==
  ASSUME ChatTypes, NEW w \in Workers, Decide(w),
         turn[w].snap # None => turn[w].snap \in ClientRecords
  PROVE  /\ Hop(w)
         /\ turn'[w].touched = turn[w].touched
         /\ \E o \in Answers : \E n \in NextStates \cup {None} :
              /\ turn'[w].next = n
              /\ n # None => /\ turn[w].snap # None
                             /\ n.status = TurnStatus(turn[w].snap.stage, turn[w].snap.status, o)
<1>0. pc[w] = "decide" /\ turn[w] \in Turns
  BY DEF Decide, At, ChatTypes
<1> DEFINE c == turn[w].snap
           next(o) == IF c = None THEN None
                      ELSE [status |-> TurnStatus(c.stage, c.status, o),
                            stage |-> TurnStage(c.stage, o)]
           speak(o) == (o.action # "none")
<1>1. PICK o \in Answers :
        turn' = [turn EXCEPT ![w].snap = None, ![w].next = next(o), ![w].speak = speak(o)]
  BY Zenon DEF Decide
<1>2. next(o) \in NextStates \cup {None}
  <2>1. CASE c = None
    BY <2>1
  <2>2. CASE c # None
    <3>1. c \in ClientRecords /\ c.status \in Statuses /\ c.stage \in Stages
      BY <2>2 DEF ClientRecords
    <3>2. TurnStatus(c.stage, c.status, o) \in Statuses /\ TurnStage(c.stage, o) \in Stages
      BY <3>1, TurnStatusMoves, TurnStageType
    <3> QED
      BY <2>2, <3>2 DEF NextStates
  <2> QED
    BY <2>1, <2>2
<1>3. next(o) # None => c # None /\ next(o).status = TurnStatus(c.stage, c.status, o)
  OBVIOUS
<1>4. speak(o) \in BOOLEAN
  OBVIOUS
<1> DEFINE n == next(o)
           b == speak(o)
           u == [turn[w] EXCEPT !.snap = None, !.next = n, !.speak = b]
<1>5. turn' = [turn EXCEPT ![w].snap = None, ![w].next = n, ![w].speak = b]
  BY <1>1
<1>6. n \in NextStates \cup {None} /\ b \in BOOLEAN
  BY <1>2, <1>4
<1>7. n # None => /\ turn[w].snap # None
                  /\ n.status = TurnStatus(turn[w].snap.stage, turn[w].snap.status, o)
  BY <1>3
<1> HIDE DEF n, b, next, speak
<1>8. turn' = [turn EXCEPT ![w] = u]
  <2>1. turn \in [Workers -> Turns]
    BY DEF ChatTypes
  <2> QED
    BY <1>5, <2>1, SetTurn, Zenon
<1>9. SameDelivery(turn[w], u) /\ u.next = n /\ u.touched = turn[w].touched
  <2>1. turn[w] \in Turns
    BY <1>0
  <2> QED
    BY <1>6, <2>1, SetDecision, ZenonT(30)
<1>10. SameMessages
  BY MarkSame DEF Decide
<1>11. turn'[w] = u
  BY <1>8 DEF ChatTypes
<1>12. Hop(w)
  <2> HIDE DEF u
  <2> QED
    BY <1>0, <1>8, <1>9, <1>10, StoredPlaces, GotoHop DEF Decide, Unsaid
<1> HIDE DEF u
<1> QED
  BY <1>6, <1>7, <1>9, <1>11, <1>12

LEMMA ApplyHops ==
  ASSUME ChatTypes, NEW w \in Workers, Apply(w)
  PROVE  Hop(w)
<1>0. pc[w] = "apply" /\ turn[w] \in Turns /\ SameMessages
  BY SameInbox DEF Apply, At, ChatTypes
<1>1. CASE Finish(w)
  BY <1>0, <1>1, FinishHop DEF InTurn, Positions
<1>2. CASE turn' = [turn EXCEPT ![w].next = None, ![w].touched = FALSE] /\ Goto(w, "reply")
  <2> DEFINE u == [turn[w] EXCEPT !.next = None, !.touched = FALSE]
  <2>1. turn' = [turn EXCEPT ![w] = u]
    BY <1>2, Zenon DEF ChatTypes
  <2>2. SameDelivery(turn[w], u)
    BY <1>0, SetApplied
  <2> HIDE DEF u
  <2> QED
    BY <1>0, <1>2, <2>1, <2>2, StoredPlaces, GotoHop DEF Unsaid
<1> QED
  BY <1>1, <1>2 DEF Apply

LEMMA SnapHops ==
  ASSUME ChatTypes, NEW w \in Workers, NEW step \in Stored \ {"inbound"}, pc[w] \in Stored,
         step \in Unsaid \cup {"sending"} => pc[w] \in Unsaid,
         Goto(w, step), UNCHANGED inbox, turn' = [turn EXCEPT ![w].snap = client]
  PROVE  Hop(w) /\ turn'[w] = [turn[w] EXCEPT !.snap = client]
<1> DEFINE u == [turn[w] EXCEPT !.snap = client]
<1>1. turn' = [turn EXCEPT ![w] = u] /\ turn'[w] = u
  BY DEF ChatTypes
<1>2. SameDelivery(turn[w], u)
  BY SetSnap DEF ChatTypes
<1> HIDE DEF u
<1>3. Hop(w)
  BY <1>1, <1>2, SameInbox, GotoHop
<1> QED
  BY <1>1, <1>3 DEF u

LEMMA PassHops ==
  ASSUME ChatTypes, NEW w \in Workers, NEW step \in Stored \ {"inbound"}, pc[w] \in Stored,
         step \in Unsaid \cup {"sending"} => pc[w] \in Unsaid,
         pc' = [pc EXCEPT ![w] = step], UNCHANGED <<inbox, turn, orderLock>>
  PROVE  Hop(w)
<1>1. /\ pc' \in [Workers -> Positions] /\ pc'[w] = step
      /\ \A v \in Workers \ {w} : pc'[v] = pc[v]
  BY StoredPlaces DEF ChatTypes, Positions
<1>2. SameDelivery(turn[w], turn'[w]) /\ turn' \in [Workers -> Turns]
  BY DEF ChatTypes, SameDelivery
<1> QED
  BY <1>1, <1>2, SameInbox DEF Hop, Onward

LEMMA SilenceHops ==
  ASSUME ChatTypes, NEW w \in Workers, Silence(w), pc[w] \in InTurn
  PROVE  Hop(w)
  BY MarkSame, FinishHop DEF Silence

LEMMA WorkerHops ==
  ASSUME ChatTypes, NEW w \in Workers, WorkerStep(w)
  PROVE  Hop(w)
<1>1. CASE TakeOrder(w)
  BY <1>1 DEF TakeOrder, OrderFree, ChatTypes, Hop, Enters, Positions
<1>2. CASE OrderCancelled(w)
  BY <1>2, NoTurnType, SameInbox DEF OrderCancelled, ChatTypes, Hop, Ends, Positions
<1>3. CASE Recheck(w)
  <2>1. CASE Finish(w)
    BY <1>3, <2>1, SameInbox, FinishHop DEF Recheck, At, InTurn, Positions
  <2>2. CASE Goto(w, "store") /\ UNCHANGED turn
    BY <1>3, <2>2 DEF Recheck, At, Goto, ChatTypes, Hop, Checks, Positions
  <2> QED
    BY <1>3, <2>1, <2>2 DEF Recheck
<1>4. CASE StoreIncoming(w)
  BY <1>4, StoreHops
<1>5. CASE Inbound(w)
  BY <1>5, StoredPlaces, PassHops DEF Inbound, At, Goto, Unsaid
<1>6. CASE BotOff(w) \/ GateClosed(w) \/ SessionIgnores(w)
  BY <1>6, SilenceHops DEF BotOff, GateClosed, SessionIgnores, At, InTurn, Positions
<1>7. CASE GateOpen(w)
  BY <1>7, StoredPlaces, SnapHops DEF GateOpen, At, Unsaid
<1>8. CASE GateSkipped(w) \/ SessionPasses(w)
  BY <1>8, StoredPlaces, PassHops DEF GateSkipped, SessionPasses, At, Goto, Unsaid
<1>9. CASE Decide(w)
  <2>1. turn[w].snap \in ClientRecords \cup {None}
    BY TurnFields DEF ChatTypes
  <2> QED
    BY <1>9, <2>1, DecideHops
<1>10. CASE Apply(w)
  BY <1>10, ApplyHops
<1>11. CASE Reply(w) \/ Sent(w)
  BY <1>11, StoredPlaces, PassHops DEF Reply, Sent, At, Unsaid
<1>12. CASE SendCut(w)
  BY <1>12, SameInbox, FinishHop DEF SendCut, InTurn, Positions
<1>13. CASE Plan(w)
  <2>1. CASE Finish(w)
    BY <1>13, <2>1, SameInbox, FinishHop DEF Plan, At, InTurn, Positions
  <2>2. CASE turn' = [turn EXCEPT ![w].snap = client] /\ Goto(w, "schedule")
    BY <1>13, <2>2, StoredPlaces, SnapHops DEF Plan, At, Unsaid
  <2> QED
    BY <1>13, <2>1, <2>2 DEF Plan
<1>14. CASE Schedule(w)
  BY <1>14, SameInbox, FinishHop DEF Schedule, At, InTurn, Positions
<1>15. CASE Abort(w) \/ ReplyEmpty(w)
  BY <1>15, SameInbox, FinishHop DEF Abort, ReplyEmpty, At, InTurn, Positions
<1> QED
  BY <1>1, <1>2, <1>3, <1>4, <1>5, <1>6, <1>7, <1>8, <1>9, <1>10, <1>11, <1>12, <1>13,
     <1>14, <1>15 DEF WorkerStep

\* Whoever is not a worker leaves the workers where they are; a turn past the
\* gate either has the record it knows, or is marked.
Still ==
  /\ UNCHANGED <<pc, orderLock, inbox>>
  /\ turn' \in [Workers -> Turns]
  /\ \A w \in Workers :
       /\ SameDelivery(turn[w], turn'[w])
       /\ turn'[w].snap = turn[w].snap /\ turn'[w].next = turn[w].next
       /\ pc[w] \in {"session", "decide", "apply"} /\ ~turn'[w].touched
          => client' = client /\ ~turn[w].touched

LEMMA StillQuiet ==
  ASSUME ChatTypes, UNCHANGED <<pc, orderLock, inbox, turn, client>>
  PROVE  Still
  BY DEF ChatTypes, Still, SameDelivery

LEMMA StillTouched ==
  ASSUME ChatTypes, UNCHANGED <<pc, orderLock, inbox>>, NEW r, HumanWrites(r)
  PROVE  Still
<1> DEFINE b(w) == turn[w].touched \/ pc[w] \in {"session", "decide", "apply"}
           u(w) == [turn[w] EXCEPT !.touched = b(w)]
<1>1. turn' = [w \in Workers |-> u(w)]
  BY DEF HumanWrites
<1>2. ASSUME NEW w \in Workers
      PROVE  /\ SameDelivery(turn[w], u(w)) /\ u(w) \in Turns
             /\ u(w).snap = turn[w].snap /\ u(w).next = turn[w].next
             /\ u(w).touched = b(w)
  <2>1. turn[w] \in Turns /\ b(w) \in BOOLEAN
    BY DEF ChatTypes
  <2> HIDE DEF b
  <2> QED
    BY <2>1, SetTouched, Zenon DEF SameDelivery
<1> HIDE DEF u
<1>3. \A w \in Workers : turn'[w] = u(w)
  BY <1>1
<1>4. turn' \in [Workers -> Turns]
  BY <1>1, <1>2
<1> QED
  BY <1>2, <1>3, <1>4 DEF Still

LEMMA ConsultantStill ==
  ASSUME ChatTypes, NEW c \in Consultants, ConsultantStep(c)
  PROVE  Still
<1>1. ASSUME NEW r, HumanWrites(r), OpFrame PROVE Still
  BY <1>1, StillTouched DEF OpFrame
<1>2. ASSUME UNCHANGED <<client, turn>>, OpFrame PROVE Still
  BY <1>2, StillQuiet DEF OpFrame
<1>3. CASE TakeOver(c) \/ ResumeAI(c) \/ PauseAI(c) \/ Block(c) \/ Unblock(c)
  BY <1>1, <1>2, <1>3 DEF TakeOver, ResumeAI, PauseAI, Block, Unblock
<1>4. CASE SetStatus(c) \/ UpdateClient(c) \/ SpeakUp(c)
  BY <1>1, <1>2, <1>4 DEF SetStatus, UpdateClient, SpeakUp
<1>5. CASE CancelNudges(c) \/ Answered(c) \/ AbortOp(c)
  BY <1>5, StillQuiet DEF CancelNudges, Answered, AbortOp
<1> QED
  BY <1>3, <1>4, <1>5 DEF ConsultantStep

\* What a worker does by itself.
Acts(w) == WorkerStep(w) \/ \E m \in Messages : Deliver(w, m)

LEMMA ChatMoves ==
  ASSUME ChatTypes, [Next]_vars
  PROVE  (\E w \in Workers : Hop(w) /\ Acts(w)) \/ Still \/ Crash
<1>1. ASSUME NEW w \in Workers, NEW m \in Messages, Deliver(w, m) PROVE Hop(w) /\ Acts(w)
  BY <1>1, NoTurnType DEF Deliver, ChatTypes, Hop, Arrives, Positions, Acts
<1>2. ASSUME NEW w \in Workers, NEW m \in Messages, DropDelivery(w, m) PROVE Still
  BY <1>2, StillQuiet DEF DropDelivery
<1>3. ASSUME NEW w \in Workers, WorkerStep(w) PROVE Hop(w) /\ Acts(w)
  BY <1>3, WorkerHops DEF Acts
<1>4. ASSUME NEW c \in Consultants, NEW what \in Operations, Begin(c, what) PROVE Still
  BY <1>4, StillQuiet DEF Begin
<1>5. ASSUME NEW c \in Consultants, ConsultantStep(c) PROVE Still
  BY <1>5, ConsultantStill
<1>6. ASSUME NEW p, SendStep(p) \/ Expire(p) PROVE Still
  BY <1>6, StillQuiet DEF SendStep, chatVars, Expire
<1>7. ASSUME UNCHANGED vars PROVE Still
  BY <1>7, StillQuiet DEF vars
<1> QED
  BY <1>1, <1>2, <1>3, <1>4, <1>5, <1>6, <1>7 DEF Next

-----------------------------------------------------------------------------
(* One turn at a time, and what the holder of the order lock holds *)

LockInv == orderLock \in Workers \cup {None} /\ OneTurnAtATime

\* What the locals of a worker say at each place: the delivery it is about,
\* and, from the moment its row is stored, that the row is the newest.
DeliveryInv ==
  \A w \in Workers :
    /\ pc[w] # "idle" => turn[w].msg \in Messages
    /\ pc[w] \notin Stored => turn[w].row = 0
    /\ pc[w] \in Stored => /\ inbox # <<>>
                           /\ turn[w].row = Len(inbox)
                           /\ inbox[Len(inbox)].msg = turn[w].msg

LEMMA PlacesOfTurn ==
  /\ InTurn = {"recheck", "store"} \cup Stored
  /\ "idle" \notin InTurn /\ "order" \notin InTurn
  /\ Positions = InTurn \cup {"idle", "order"}
  BY DEF Stored, InTurn, Positions

LEMMA HopLock ==
  ASSUME ChatTypes, LockInv, NEW w \in Workers, Hop(w)
  PROVE  LockInv'
<1>1. CASE Arrives(w) \/ Checks(w) \/ Stores(w) \/ Onward(w)
  <2>1. orderLock' = orderLock /\ (pc[w] \in InTurn <=> pc'[w] \in InTurn)
    BY <1>1, PlacesOfTurn, StoredPlaces DEF Arrives, Checks, Stores, Onward
  <2> QED
    BY <2>1 DEF LockInv, OneTurnAtATime, Hop
<1>2. CASE Enters(w)
  BY <1>2, Names, PlacesOfTurn DEF Enters, LockInv, OneTurnAtATime, Hop
<1>3. CASE Ends(w)
  <2>1. CASE pc[w] = "order"
    BY <1>3, <2>1, PlacesOfTurn DEF Ends, LockInv, OneTurnAtATime, Hop
  <2>2. CASE pc[w] \in InTurn
    BY <1>3, <2>2, Names, PlacesOfTurn DEF Ends, LockInv, OneTurnAtATime, Hop
  <2>3. pc[w] = "order" \/ pc[w] \in InTurn
    BY <1>3, PlacesOfTurn DEF Ends, ChatTypes
  <2> QED
    BY <2>1, <2>2, <2>3
<1> QED
  BY <1>1, <1>2, <1>3 DEF Hop

LEMMA LockStep ==
  ASSUME ChatTypes, LockInv, [Next]_vars
  PROVE  LockInv'
<1>1. CASE Still
  BY <1>1 DEF Still, LockInv, OneTurnAtATime
<1>2. CASE Crash
  BY <1>2, Names, PlacesOfTurn DEF Crash, LockInv, OneTurnAtATime
<1> QED
  BY <1>1, <1>2, ChatMoves, HopLock

LEMMA HopDelivery ==
  ASSUME ChatTypes, LockInv, DeliveryInv, NEW w \in Workers, Hop(w)
  PROVE  DeliveryInv'
<1>0. inbox \in Seq(Incoming)
  BY DEF ChatTypes
<1>a. \A v \in Workers \ {w} : pc[w] \in InTurn => pc[v] \notin Stored
  BY PlacesOfTurn DEF LockInv, OneTurnAtATime
<1>b. \A v \in Workers \ {w} : pc'[v] = pc[v] /\ turn'[v] = turn[v]
  BY DEF Hop
<1>c. SameMessages => /\ inbox # <<>> => inbox' # <<>>
                      /\ Len(inbox') = Len(inbox)
                      /\ inbox # <<>> => inbox'[Len(inbox)].msg = inbox[Len(inbox)].msg
  BY <1>0 DEF SameMessages
<1>d. UNCHANGED inbox => SameMessages
  BY SameInbox
<1>1. CASE Arrives(w)
  BY <1>b, <1>1, PlacesOfTurn, StoredPlaces DEF Arrives, Turn, DeliveryInv
<1>2. CASE Enters(w) \/ Checks(w)
  BY <1>b, <1>2, StoredPlaces DEF Enters, Checks, DeliveryInv
<1>3. CASE Stores(w)
  <2>1. /\ inbox' # <<>> /\ Len(inbox') = Len(inbox) + 1
        /\ inbox'[Len(inbox) + 1].msg = turn[w].msg
    BY <1>0, <1>3 DEF Stores
  <2>2. \A v \in Workers \ {w} : pc[v] \notin Stored
    BY <1>3, <1>a, PlacesOfTurn DEF Stores
  <2> QED
    BY <1>b, <1>3, <2>1, <2>2, StoredPlaces DEF Stores, DeliveryInv
<1>4. CASE Onward(w)
  BY <1>b, <1>c, <1>4, StoredPlaces DEF Onward, SameDelivery, DeliveryInv
<1>5. CASE Ends(w)
  BY <1>b, <1>c, <1>5, StoredPlaces DEF Ends, NoTurn, Turn, DeliveryInv
<1> QED
  BY <1>1, <1>2, <1>3, <1>4, <1>5 DEF Hop

LEMMA DeliveryStep ==
  ASSUME ChatTypes, LockInv, DeliveryInv, [Next]_vars
  PROVE  DeliveryInv'
<1>1. CASE Still
  BY <1>1 DEF Still, SameDelivery, DeliveryInv
<1>2. CASE Crash
  BY <1>2, StoredPlaces DEF Crash, NoTurn, Turn, DeliveryInv
<1> QED
  BY <1>1, <1>2, ChatMoves, HopDelivery

-----------------------------------------------------------------------------
(* Types *)

JobsOK == jobs \in [Messages -> {"none", "pending", "cancelled"}]

OpRows == [pc: {"idle", "write", "cancel", "sending"}, what: Operations \cup {None}, saw: Modes]

OpsOK == op \in [Consultants -> OpRows] /\ OpInv

CountInv ==
  /\ deliveries \in [Messages -> 0 .. MaxDeliveries]
  /\ ops \in 0 .. MaxOps
  /\ crashes \in 0 .. MaxCrashes

\* The inductive invariant: types, the order lock, and what the locals of a
\* worker say; Messenger's own invariant for its part.
CoreInv ==
  /\ ChatTypes /\ OpInv /\ LockInv /\ DeliveryInv /\ CountInv
  /\ closedAt \in 0 .. Len(wire)
  /\ MP!TypeInv

LEMMA CancelledType == JobsOK => Cancelled \in [Messages -> {"none", "pending", "cancelled"}]
  BY DEF JobsOK, Cancelled

\* The nudge of a message is planned at the end of its turn; everybody else
\* cancels, or leaves the nudges alone.
LEMMA JobsMoves ==
  ASSUME [Next]_vars
  PROVE  \/ UNCHANGED jobs
         \/ jobs' = Cancelled
         \/ \E w \in Workers : Schedule(w) /\ jobs' = [jobs EXCEPT ![turn[w].msg] = "pending"]
<1>1. ASSUME NEW w \in Workers, WorkerStep(w), ~Inbound(w), ~Schedule(w) PROVE UNCHANGED jobs
  BY <1>1 DEF WorkerStep, TakeOrder, OrderCancelled, Recheck, StoreIncoming, BotOff, GateClosed,
       Silence, GateOpen, GateSkipped, SessionPasses, SessionIgnores, Decide, Apply, Reply,
       SendCut, Sent, Plan, ReplyEmpty, Abort
<1>2. ASSUME NEW c \in Consultants, ConsultantStep(c), ~CancelNudges(c) PROVE UNCHANGED jobs
  BY <1>2 DEF ConsultantStep, TakeOver, ResumeAI, PauseAI, Block, Unblock, SetStatus, UpdateClient,
       SpeakUp, OpFrame, Answered, AbortOp
<1>3. ASSUME NEW w, NEW m, Deliver(w, m) \/ DropDelivery(w, m) PROVE UNCHANGED jobs
  BY <1>3 DEF Deliver, DropDelivery
<1>4. ASSUME NEW c, NEW what, Begin(c, what) PROVE UNCHANGED jobs
  BY <1>4 DEF Begin
<1>5. ASSUME NEW p, SendStep(p) \/ Expire(p) PROVE UNCHANGED jobs
  BY <1>5 DEF SendStep, chatVars, Expire
<1>6. CASE Crash \/ UNCHANGED vars
  BY <1>6 DEF Crash, vars
<1>7. ASSUME NEW w \in Workers, Inbound(w) PROVE UNCHANGED jobs \/ jobs' = Cancelled
  BY <1>7 DEF Inbound
<1>8. ASSUME NEW c \in Consultants, CancelNudges(c) PROVE UNCHANGED jobs \/ jobs' = Cancelled
  BY <1>8 DEF CancelNudges
<1>9. ASSUME NEW w \in Workers, Schedule(w)
      PROVE  UNCHANGED jobs \/ jobs' = [jobs EXCEPT ![turn[w].msg] = "pending"]
  BY <1>9 DEF Schedule
<1> QED
  BY <1>1, <1>2, <1>3, <1>4, <1>5, <1>6, <1>7, <1>8, <1>9 DEF Next

LEMMA JobsStep ==
  ASSUME JobsOK, [Next]_vars
  PROVE  JobsOK'
  BY CancelledType, JobsMoves DEF JobsOK

LEMMA OpRowType ==
  /\ NoOp \in OpRows
  /\ \A what \in Operations, m \in Modes : Op("write", what, m) \in OpRows
  BY Vocabulary DEF NoOp, Op, OpRows

LEMMA OpGoesOn ==
  ASSUME OpsOK, NEW c \in Consultants, NEW step \in {"cancel", "sending"}, op[c].pc # "idle",
         op' = [op EXCEPT ![c].pc = step]
  PROVE  OpsOK'
<1>1. op[c] \in OpRows /\ op[c].what \in Operations
  BY DEF OpsOK, OpInv
<1>2. [op[c] EXCEPT !.pc = step] \in OpRows /\ [op[c] EXCEPT !.pc = step].what = op[c].what
  BY <1>1 DEF OpRows
<1> DEFINE r == [op[c] EXCEPT !.pc = step]
<1>3. op' = [op EXCEPT ![c] = r]
  OBVIOUS
<1> HIDE DEF r
<1>4. r \in OpRows /\ r.what \in Operations
  BY <1>1, <1>2 DEF r
<1> QED
  BY <1>3, <1>4 DEF OpsOK, OpInv

LEMMA OpEnds ==
  ASSUME OpsOK, NEW c \in Consultants, op' = [op EXCEPT ![c] = NoOp]
  PROVE  OpsOK'
  BY OpRowType DEF OpsOK, OpInv, NoOp, Op

LEMMA OpsStep ==
  ASSUME OpsOK, ChatTypes, [Next]_vars
  PROVE  OpsOK'
<1>1. ASSUME UNCHANGED op PROVE OpsOK'
  BY <1>1 DEF OpsOK, OpInv
<1>2. ASSUME NEW c \in Consultants, EndOp(c) \/ (ThenCancel(c) /\ op[c].pc # "idle") PROVE OpsOK'
  BY <1>2, OpGoesOn, OpEnds DEF EndOp, ThenCancel
<1>3. ASSUME NEW c \in Consultants, ConsultantStep(c) PROVE OpsOK'
  <2>1. CASE TakeOver(c) \/ ResumeAI(c) \/ PauseAI(c) \/ Block(c)
    BY <1>2, <2>1 DEF TakeOver, ResumeAI, PauseAI, Block, Writing
  <2>2. CASE Unblock(c) \/ SetStatus(c) \/ UpdateClient(c) \/ SpeakUp(c)
    BY <1>2, <2>2 DEF Unblock, SetStatus, UpdateClient, SpeakUp, Writing
  <2>3. CASE CancelNudges(c)
    BY <1>2, <2>3, OpGoesOn DEF CancelNudges
  <2>4. CASE Answered(c) \/ AbortOp(c)
    BY <1>2, <2>4 DEF Answered, AbortOp
  <2> QED
    BY <1>3, <2>1, <2>2, <2>3, <2>4 DEF ConsultantStep
<1>4. ASSUME NEW c \in Consultants, NEW what \in Operations, Begin(c, what) PROVE OpsOK'
  <2>1. client.mode \in Modes
    BY DEF ChatTypes, ClientRecords
  <2>2. Op("write", what, client.mode) \in OpRows /\ Op("write", what, client.mode).what = what
    BY <2>1, OpRowType DEF Op
  <2> QED
    BY <1>4, <2>2 DEF Begin, OpsOK, OpInv
<1>5. ASSUME NEW w \in Workers, WorkerStep(w) PROVE UNCHANGED op
  <2>1. CASE TakeOrder(w) \/ OrderCancelled(w) \/ Recheck(w) \/ StoreIncoming(w) \/ Inbound(w)
             \/ BotOff(w) \/ GateClosed(w) \/ GateOpen(w) \/ GateSkipped(w) \/ SessionPasses(w)
    BY <2>1 DEF TakeOrder, OrderCancelled, Recheck, StoreIncoming, Inbound, BotOff, GateClosed,
                Silence, GateOpen, GateSkipped, SessionPasses
  <2>2. CASE SessionIgnores(w) \/ Decide(w) \/ Apply(w) \/ Reply(w) \/ SendCut(w) \/ Sent(w)
             \/ Plan(w) \/ Schedule(w) \/ ReplyEmpty(w) \/ Abort(w)
    BY <2>2 DEF SessionIgnores, Silence, Decide, Apply, Reply, SendCut, Sent, Plan, Schedule, ReplyEmpty, Abort
  <2> QED
    BY <1>5, <2>1, <2>2 DEF WorkerStep
<1>6. ASSUME NEW w, NEW m, Deliver(w, m) \/ DropDelivery(w, m) PROVE UNCHANGED op
  BY <1>6 DEF Deliver, DropDelivery
<1>7. ASSUME NEW p, SendStep(p) \/ Expire(p) PROVE UNCHANGED op
  BY <1>7 DEF SendStep, chatVars, Expire
<1>8. CASE Crash
  BY <1>8, OpRowType DEF Crash, OpsOK, OpInv, NoOp, Op
<1>9. CASE UNCHANGED vars
  BY <1>1, <1>9 DEF vars
<1> QED
  BY <1>1, <1>3, <1>4, <1>5, <1>6, <1>7, <1>8, <1>9 DEF Next

LEMMA CountStep ==
  ASSUME CountInv, [Next]_vars
  PROVE  CountInv'
<1> USE Names DEF CountInv
<1>1. ASSUME UNCHANGED <<deliveries, ops, crashes>> PROVE CountInv'
  BY <1>1
<1>2. ASSUME NEW w \in Workers, NEW m \in Messages, Deliver(w, m) \/ DropDelivery(w, m)
      PROVE  CountInv'
  <2>1. /\ deliveries[m] < MaxDeliveries /\ deliveries' = [deliveries EXCEPT ![m] = @ + 1]
        /\ UNCHANGED <<ops, crashes>>
    BY <1>2 DEF Deliver, DropDelivery
  <2> QED
    BY <2>1
<1>3. ASSUME NEW w \in Workers, WorkerStep(w) PROVE UNCHANGED <<deliveries, ops, crashes>>
  <2>1. CASE TakeOrder(w) \/ OrderCancelled(w) \/ Recheck(w) \/ StoreIncoming(w) \/ Inbound(w)
             \/ BotOff(w) \/ GateClosed(w) \/ GateOpen(w) \/ GateSkipped(w) \/ SessionPasses(w)
    BY <2>1 DEF TakeOrder, OrderCancelled, Recheck, StoreIncoming, Inbound, BotOff, GateClosed,
                Silence, GateOpen, GateSkipped, SessionPasses
  <2>2. CASE SessionIgnores(w) \/ Decide(w) \/ Apply(w) \/ Reply(w) \/ SendCut(w) \/ Sent(w)
             \/ Plan(w) \/ Schedule(w) \/ ReplyEmpty(w) \/ Abort(w)
    BY <2>2 DEF SessionIgnores, Silence, Decide, Apply, Reply, SendCut, Sent, Plan, Schedule, ReplyEmpty, Abort
  <2> QED
    BY <1>3, <2>1, <2>2 DEF WorkerStep
<1>4. ASSUME NEW c \in Consultants, NEW what \in Operations, Begin(c, what) PROVE CountInv'
  BY <1>4 DEF Begin
<1>5. ASSUME NEW c \in Consultants, ConsultantStep(c) PROVE UNCHANGED <<deliveries, ops, crashes>>
  BY <1>5 DEF ConsultantStep, TakeOver, ResumeAI, PauseAI, Block, Unblock, SetStatus, UpdateClient,
       SpeakUp, OpFrame, CancelNudges, Answered, AbortOp
<1>6. ASSUME NEW p, SendStep(p) \/ Expire(p) PROVE UNCHANGED <<deliveries, ops, crashes>>
  BY <1>6 DEF SendStep, chatVars, Expire
<1>7. CASE Crash
  BY <1>7 DEF Crash
<1>8. CASE UNCHANGED vars
  BY <1>1, <1>8 DEF vars
<1> QED
  BY <1>1, <1>2, <1>3, <1>4, <1>5, <1>6, <1>7, <1>8 DEF Next

\* Nobody is in the middle of Send but who was there before.
QuietSend ==
  /\ UNCHANGED wire
  /\ \A p \in Procs : \/ call'[p] = call[p]
                      \/ call'[p].pc = "idle"
                      \/ call[p].pc = "idle" /\ call'[p].pc = "wait"

\* The wire grows in steps of Send alone.
LEMMA WireMoves ==
  ASSUME SendTypes, [Next]_vars
  PROVE  QuietSend \/ \E p \in Procs : SendStep(p)
<1>0. call \in [Procs -> MP!Calls]
  BY DEF SendTypes
<1>a. ASSUME UNCHANGED <<wire, call>> PROVE QuietSend
  BY <1>a DEF QuietSend
<1>b. ASSUME NEW p \in Procs, NEW i, M!Request(p, i) \/ M!Return(p) PROVE QuietSend
  BY <1>0, <1>b DEF M!Request, M!Return, M!Call, M!NoCall, QuietSend
<1>1. ASSUME NEW w \in Workers, WorkerStep(w) PROVE QuietSend
  <2>1. CASE TakeOrder(w) \/ OrderCancelled(w) \/ Recheck(w) \/ StoreIncoming(w) \/ Inbound(w)
             \/ BotOff(w) \/ GateClosed(w) \/ GateOpen(w) \/ GateSkipped(w) \/ SessionPasses(w)
    BY <1>a, <2>1 DEF TakeOrder, OrderCancelled, Recheck, StoreIncoming, Inbound, BotOff, GateClosed,
                Silence, GateOpen, GateSkipped, SessionPasses, sendVars
  <2>2. CASE SessionIgnores(w) \/ Decide(w) \/ Apply(w) \/ Plan(w) \/ Schedule(w) \/ ReplyEmpty(w) \/ Abort(w)
    BY <1>a, <2>2 DEF SessionIgnores, Silence, Decide, Apply, Plan, Schedule, ReplyEmpty, Abort
  <2>3. CASE Reply(w) \/ Sent(w)
    BY <1>b, <2>3 DEF Reply, Sent, Procs
  <2>4. CASE SendCut(w)
    BY <1>0, <2>4 DEF SendCut, M!NoCall, M!Call, QuietSend
  <2> QED
    BY <1>1, <2>1, <2>2, <2>3, <2>4 DEF WorkerStep
<1>2. ASSUME NEW c \in Consultants, ConsultantStep(c) PROVE QuietSend
  <2>1. CASE TakeOver(c) \/ ResumeAI(c) \/ PauseAI(c) \/ Block(c) \/ Unblock(c)
             \/ SetStatus(c) \/ UpdateClient(c) \/ SpeakUp(c) \/ AbortOp(c)
    BY <1>a, <2>1 DEF TakeOver, ResumeAI, PauseAI, Block, Unblock, SetStatus, UpdateClient,
         SpeakUp, OpFrame, AbortOp
  <2>2. CASE CancelNudges(c)
    BY <1>a, <1>b, <2>2 DEF CancelNudges, Procs
  <2>3. CASE Answered(c)
    BY <1>0, <2>3 DEF Answered, M!NoCall, M!Call, QuietSend
  <2> QED
    BY <1>2, <2>1, <2>2, <2>3 DEF ConsultantStep
<1>3. ASSUME NEW w, NEW m, Deliver(w, m) \/ DropDelivery(w, m) PROVE QuietSend
  BY <1>a, <1>3 DEF Deliver, DropDelivery, sendVars
<1>4. ASSUME NEW c, NEW what, Begin(c, what) PROVE QuietSend
  BY <1>a, <1>4 DEF Begin, sendVars
<1>5. ASSUME NEW p, Expire(p) PROVE QuietSend
  BY <1>a, <1>5 DEF Expire
<1>6. CASE Crash
  BY <1>6 DEF Crash, M!Crash, M!NoCall, M!Call, QuietSend
<1>7. CASE UNCHANGED vars
  BY <1>a, <1>7 DEF vars
<1> QED
  BY <1>1, <1>2, <1>3, <1>4, <1>5, <1>6, <1>7 DEF Next

\* One more transmission of what a call is about, by a call at the provider.
Transmits(p) ==
  /\ call[p].pc = "transmit"
  /\ wire' = Append(wire, [item |-> call[p].item, row |-> call[p].row])
  /\ call'[p].pc \in {"transmit", "record"} /\ call'[p].tries = call[p].tries + 1
  /\ call'[p].item = call[p].item
  /\ \A q \in Procs \ {p} : call'[q] = call[q]
  /\ UNCHANGED chatVars

\* A step of Send that leaves the wire alone.
Works(p) ==
  /\ UNCHANGED wire
  /\ call[p].pc \notin {"idle", "done"} /\ call'[p].pc \notin {"idle", "wait"}
  /\ call'[p].item = call[p].item
  /\ call[p].tries \in Nat /\ call'[p].tries \in Nat
  /\ call'[p].pc = "store" => call[p].pc = "wait"
  /\ call'[p].pc = "transmit" =>
       \/ call[p].pc = "store"
       \/ call[p].pc = "transmit" /\ call'[p].tries = call[p].tries + 1
  /\ \A q \in Procs \ {p} : call'[q] = call[q]
  /\ UNCHANGED chatVars

LEMMA SendStepMoves ==
  ASSUME MP!TypeInv, NEW p \in Procs, SendStep(p)
  PROVE  Transmits(p) \/ Works(p)
<1>0. call \in [Procs -> MP!Calls] /\ UNCHANGED chatVars /\ MP!Step(p)
  BY StepSame DEF MP!TypeInv, MP!TypeOK, SendStep
<1>n. call[p].tries \in Nat /\ call[p].pc \in MP!Positions
  BY <1>0, SendAssumption DEF MP!Calls, MP!MessengerAssumption
<1>2. CASE MP!Lock(p)
  BY <1>0, <1>n, <1>2 DEF MP!Lock, MP!Calls, Works
<1>3. CASE MP!LockCancelled(p)
  BY <1>0, <1>n, <1>3 DEF MP!LockCancelled, MP!Call, Works
<1>4. CASE MP!Store(p)
  BY <1>0, <1>n, <1>4 DEF MP!Store, MP!Call, Works
<1>5. CASE MP!Accepted(p)
  BY <1>0, <1>n, <1>5 DEF MP!Accepted, MP!Delivered, MP!Call, Transmits
<1>6. CASE MP!FailedTransiently(p)
  BY <1>0, <1>n, <1>6 DEF MP!FailedTransiently, MP!Delivered, MP!Call, Transmits, Works
<1>7. CASE MP!GaveUp(p)
  BY <1>0, <1>n, <1>7 DEF MP!GaveUp, MP!Delivered, MP!Call, Transmits, Works
<1>8. CASE MP!Record(p)
  BY <1>0, <1>n, <1>8 DEF MP!Record, MP!Calls, Works
<1> QED
  BY <1>0, <1>2, <1>3, <1>4, <1>5, <1>6, <1>7, <1>8 DEF MP!Step

LEMMA CoreSend ==
  ASSUME CoreInv
  PROVE  /\ SendTypes
         /\ \A w \in Workers : pc[w] = "reply" => turn[w].msg \in Messages
         /\ wire \in Seq(MP!Transmissions)
<1>1. SendTypes /\ wire \in Seq(MP!Transmissions)
  BY DEF CoreInv, MP!TypeInv, MP!TypeOK, SendTypes
<1> QED
  BY <1>1 DEF CoreInv, DeliveryInv

LEMMA WireGrows ==
  ASSUME CoreInv, [Next]_vars
  PROVE  /\ Len(wire) \in Nat /\ Len(wire') \in Nat /\ Len(wire) <= Len(wire')
         /\ UNCHANGED wire \/ \E p \in Procs : Transmits(p)
<1>1. UNCHANGED wire \/ \E p \in Procs : Transmits(p)
  BY CoreSend, WireMoves, SendStepMoves DEF CoreInv, QuietSend, Works
<1>2. wire \in Seq(MP!Transmissions)
  BY CoreSend
<1>3. ASSUME NEW p \in Procs, Transmits(p) PROVE Len(wire') = Len(wire) + 1
  BY <1>2, <1>3 DEF Transmits
<1> QED
  BY <1>1, <1>2, <1>3

LEMMA ChatTypesStep ==
  ASSUME CoreInv, [Next]_vars
  PROVE  ChatTypes' /\ OpInv'
<1> USE DEF CoreInv
<1>1. client' \in ClientRecords
  <2>1. ClientStep
    BY ClientMoves
  <2> QED
    BY <2>1 DEF ClientStep, Successor, WriteClient, ChatTypes
<1>2. JobsOK'
  BY JobsStep DEF ChatTypes, JobsOK
<1>3. OpsOK'
  <2>1. OpsOK
    BY DEF ChatTypes, OpsOK, OpRows
  <2> QED
    BY <2>1, OpsStep
<1>4. inbox' \in Seq(Incoming) /\ pc' \in [Workers -> Positions] /\ turn' \in [Workers -> Turns]
  <2>1. ASSUME NEW w \in Workers, Hop(w) PROVE inbox' \in Seq(Incoming)
    <3>1. CASE Stores(w)
      <4>1. [msg |-> turn[w].msg, processed |-> FALSE] \in Incoming
        BY <3>1 DEF Stores, DeliveryInv, Incoming
      <4> QED
        BY <3>1, <4>1 DEF Stores, ChatTypes
    <3> QED
      BY <2>1, <3>1 DEF Hop, Arrives, Enters, Checks, Onward, Ends, SameMessages, ChatTypes
  <2>2. CASE Still
    BY <2>2 DEF Still, ChatTypes
  <2>3. CASE Crash
    BY <2>3, NoTurnType DEF Crash, ChatTypes, Positions
  <2> QED
    BY <2>1, <2>2, <2>3, ChatMoves DEF Hop
<1> QED
  BY <1>1, <1>2, <1>3, <1>4 DEF ChatTypes, JobsOK, OpsOK, OpRows

LEMMA CoreStep == CoreInv /\ [Next]_vars => CoreInv'
<1> SUFFICES ASSUME CoreInv, [Next]_vars PROVE CoreInv'
  OBVIOUS
<1>1. ChatTypes' /\ OpInv'
  BY ChatTypesStep
<1>2. LockInv' /\ DeliveryInv'
  BY LockStep, DeliveryStep DEF CoreInv
<1>3. CountInv'
  BY CountStep DEF CoreInv
<1>4. MP!TypeInv'
  <2>1. MP!Moves
    BY CoreSend, SendMoves
  <2> QED
    BY <2>1, MP!TypeStep, SendAssumption DEF CoreInv
<1>5. closedAt' \in 0 .. Len(wire')
  <2>1. ClientStep
    BY ClientMoves DEF CoreInv
  <2>2. closedAt' \in {closedAt, Len(wire)}
    BY <2>1 DEF ClientStep, WriteClient
  <2> QED
    BY <2>2, WireGrows DEF CoreInv
<1> QED
  BY <1>1, <1>2, <1>3, <1>4, <1>5 DEF CoreInv

LEMMA CoreInit == Init => CoreInv
<1> SUFFICES ASSUME Init PROVE CoreInv
  OBVIOUS
<1>1. NewClient \in ClientRecords
  BY Vocabulary DEF NewClient, ClientRecords
<1>2. ChatTypes
  BY <1>1, NoTurnType, OpRowType DEF Init, ChatTypes, OpRows, Positions
<1>3. OpInv /\ LockInv /\ DeliveryInv
  BY Names, PlacesOfTurn, StoredPlaces
     DEF Init, OpInv, NoOp, Op, LockInv, OneTurnAtATime, DeliveryInv, NoTurn, Turn
<1>4. CountInv
  BY Names DEF Init, CountInv
<1>5. MP!Init
  BY DEF Init, M!Init, M!NoCall, M!Call, MP!Init, MP!NoCall, MP!Call
<1>6. MP!TypeInv
  BY <1>5, MP!TypeInit, SendAssumption
<1>7. closedAt \in 0 .. Len(wire)
  BY <1>5 DEF Init, MP!Init
<1> QED
  BY <1>2, <1>3, <1>4, <1>6, <1>7 DEF CoreInv

LEMMA Core == Spec => []CoreInv
  BY CoreInit, CoreStep, PTL DEF Spec

\* Every variable of the chat keeps its type: the record of the client, the
\* rows, the nudges, the locals of every worker and operation, and the calls of
\* Send.
THEOREM TypeCorrect == Spec => []TypeOK
<1>1. CoreInv => TypeOK
  <2>1. MP!TypeInv => M!TypeOK
    BY DEF MP!TypeInv, MP!TypeOK, MP!Rows, MP!RowStatuses, MP!Transmissions, MP!Calls, MP!Positions,
           MP!Results, M!TypeOK, M!Rows, M!RowStatuses, M!Transmissions, M!Calls, M!Positions, M!Results
  <2> QED
    BY <2>1 DEF CoreInv, ChatTypes, LockInv, CountInv, TypeOK
<1> QED
  BY <1>1, Core, PTL

\* One delivery of a chat is handled at a time, from the second duplicate check
\* to the end of the plan, with any number of workers, whatever statement fails
\* and whenever a deadline passes or the process dies (chatSequencer.Lock and
\* the deferred unlock around Pipeline.Handle).
THEOREM OneTurn == Spec => []OneTurnAtATime
<1>1. CoreInv => OneTurnAtATime
  BY DEF CoreInv, LockInv
<1> QED
  BY <1>1, Core, PTL

-----------------------------------------------------------------------------
(* Who calls Send *)

\* A worker is in Send exactly while its turn is at that place, with the
\* message of its turn; a consultant with his own.
CallInv ==
  /\ \A w \in Workers : /\ pc[w] = "sending" <=> call[w].pc # "idle"
                        /\ pc[w] = "sending" => call[w].item = turn[w].msg
  /\ \A c \in Consultants : /\ op[c].pc = "sending" <=> call[c].pc # "idle"
                            /\ op[c].pc = "sending" => call[c].item = c

LEMMA HopCalls ==
  ASSUME CallInv, NEW w \in Workers, Hop(w), UNCHANGED <<call, op>>,
         pc[w] # "sending", pc'[w] # "sending"
  PROVE  CallInv'
  BY DEF CallInv, Hop

LEMMA WorkerCalls ==
  ASSUME CoreInv, CallInv, NEW w \in Workers, WorkerStep(w)
  PROVE  CallInv'
<1>0. Hop(w) /\ w \in Procs /\ w \notin Consultants /\ call \in [Procs -> MP!Calls]
      /\ pc \in [Workers -> Positions]
  BY WorkerHops, Names, CoreSend DEF CoreInv, ChatTypes, Procs, SendTypes
<1>1. CASE TakeOrder(w) \/ OrderCancelled(w) \/ Recheck(w) \/ StoreIncoming(w) \/ Inbound(w)
           \/ BotOff(w) \/ GateClosed(w) \/ GateOpen(w) \/ GateSkipped(w)
  <2>1. UNCHANGED <<call, op>>
    BY <1>1 DEF TakeOrder, OrderCancelled, Recheck, StoreIncoming, Inbound, BotOff, GateClosed,
                Silence, GateOpen, GateSkipped, sendVars
  <2>2. pc[w] # "sending" /\ pc'[w] # "sending"
    BY <1>0, <1>1 DEF TakeOrder, OrderCancelled, Recheck, StoreIncoming, Inbound, BotOff, GateClosed,
                Silence, GateOpen, GateSkipped, At, Goto, Finish
  <2> QED
    BY <1>0, <2>1, <2>2, HopCalls
<1>2. CASE SessionPasses(w) \/ SessionIgnores(w) \/ Decide(w) \/ Apply(w) \/ Plan(w)
           \/ Schedule(w) \/ ReplyEmpty(w) \/ Abort(w)
  <2>1. UNCHANGED <<call, op>>
    BY <1>2 DEF SessionPasses, SessionIgnores, Silence, Decide, Apply, Plan, Schedule, ReplyEmpty, Abort
  <2>2. pc[w] # "sending" /\ pc'[w] # "sending"
    BY <1>0, <1>2 DEF SessionPasses, SessionIgnores, Silence, Decide, Apply, Plan, Schedule, ReplyEmpty, Abort,
                At, Goto, Finish, InTurn
  <2> QED
    BY <1>0, <2>1, <2>2, HopCalls
<1>3. CASE Reply(w)
  <2>1. /\ call'[w].pc = "wait" /\ call'[w].item = turn[w].msg
        /\ \A q \in Procs \ {w} : call'[q] = call[q]
        /\ UNCHANGED op
    BY <1>0, <1>3 DEF Reply, M!Request, M!Call
  <2>2. pc'[w] = "sending" /\ turn' = turn
    BY <1>0, <1>3 DEF Reply
  <2> QED
    BY <1>0, <2>1, <2>2 DEF CallInv, Hop, Procs
<1>4. CASE SendCut(w) \/ Sent(w)
  <2>1. /\ call'[w].pc = "idle"
        /\ \A q \in Procs \ {w} : call'[q] = call[q]
        /\ UNCHANGED op
    BY <1>0, <1>4 DEF SendCut, Sent, M!Return, M!NoCall, M!Call
  <2>2. pc'[w] # "sending"
    BY <1>0, <1>4 DEF SendCut, Sent, Finish
  <2> QED
    BY <1>0, <2>1, <2>2 DEF CallInv, Hop, Procs
<1> QED
  BY <1>1, <1>2, <1>3, <1>4 DEF WorkerStep

LEMMA OpCalls ==
  ASSUME CallInv, Still, NEW c \in Consultants, UNCHANGED call,
         \A d \in Consultants \ {c} : op'[d] = op[d],
         op[c].pc # "sending", op'[c].pc # "sending"
  PROVE  CallInv'
  BY DEF CallInv, Still, SameDelivery

LEMMA ConsultantCalls ==
  ASSUME CoreInv, CallInv, NEW c \in Consultants, ConsultantStep(c)
  PROVE  CallInv'
<1>0. /\ Still /\ c \in Procs /\ c \notin Workers /\ call \in [Procs -> MP!Calls]
      /\ op \in [Consultants -> OpRows] /\ NoOp.pc = "idle"
  BY ConsultantStill, Names, CoreSend DEF CoreInv, ChatTypes, Procs, SendTypes, OpRows, NoOp, Op
<1>a. ASSUME EndOp(c) \/ ThenCancel(c)
      PROVE  op'[c].pc # "sending" /\ \A d \in Consultants \ {c} : op'[d] = op[d]
  BY <1>0, <1>a DEF EndOp, ThenCancel, OpRows
<1>1. CASE TakeOver(c) \/ ResumeAI(c) \/ PauseAI(c) \/ Block(c)
  <2>1. (EndOp(c) \/ ThenCancel(c)) /\ UNCHANGED call /\ op[c].pc # "sending"
    BY <1>1 DEF TakeOver, ResumeAI, PauseAI, Block, OpFrame, Writing
  <2> QED
    BY <1>0, <1>a, <2>1, OpCalls
<1>2. CASE Unblock(c) \/ SetStatus(c) \/ UpdateClient(c) \/ SpeakUp(c)
  <2>1. (EndOp(c) \/ ThenCancel(c)) /\ UNCHANGED call /\ op[c].pc # "sending"
    BY <1>2 DEF Unblock, SetStatus, UpdateClient, SpeakUp, OpFrame, Writing
  <2> QED
    BY <1>0, <1>a, <2>1, OpCalls
<1>3. CASE AbortOp(c)
  <2>1. EndOp(c) /\ UNCHANGED call /\ op[c].pc # "sending"
    BY <1>3 DEF AbortOp
  <2> QED
    BY <1>0, <1>a, <2>1, OpCalls
<1>4. CASE CancelNudges(c)
  <2>1. CASE EndOp(c) /\ UNCHANGED call
    BY <1>0, <1>a, <1>4, <2>1, OpCalls DEF CancelNudges
  <2>2. CASE M!Request(c, c) /\ op' = [op EXCEPT ![c].pc = "sending"]
    <3>1. /\ call'[c].pc = "wait" /\ call'[c].item = c
          /\ \A q \in Procs \ {c} : call'[q] = call[q]
      BY <1>0, <2>2 DEF M!Request, M!Call
    <3>2. op'[c].pc = "sending" /\ \A d \in Consultants \ {c} : op'[d] = op[d]
      BY <1>0, <2>2 DEF OpRows
    <3> QED
      BY <1>0, <3>1, <3>2 DEF CallInv, Still, SameDelivery, Procs
  <2> QED
    BY <1>4, <2>1, <2>2 DEF CancelNudges
<1>5. CASE Answered(c)
  <2>1. call'[c].pc = "idle" /\ \A q \in Procs \ {c} : call'[q] = call[q]
    BY <1>0, <1>5 DEF Answered, M!NoCall, M!Call
  <2>2. op'[c].pc # "sending" /\ \A d \in Consultants \ {c} : op'[d] = op[d]
    BY <1>a, <1>5 DEF Answered
  <2> QED
    BY <1>0, <2>1, <2>2 DEF CallInv, Still, SameDelivery, Procs
<1> QED
  BY <1>1, <1>2, <1>3, <1>4, <1>5 DEF ConsultantStep

LEMMA CallStep ==
  ASSUME CoreInv, CallInv, [Next]_vars
  PROVE  CallInv'
<1>0. ChatTypes
  BY DEF CoreInv
<1>1. ASSUME NEW w \in Workers, NEW m \in Messages, Deliver(w, m) PROVE CallInv'
  <2>1. UNCHANGED <<call, op>> /\ pc[w] = "idle" /\ pc' = [pc EXCEPT ![w] = "order"]
        /\ \A v \in Workers \ {w} : turn'[v] = turn[v]
    BY <1>0, <1>1 DEF Deliver, sendVars, ChatTypes
  <2> QED
    BY <1>0, <2>1 DEF CallInv, ChatTypes
<1>2. ASSUME NEW w, NEW m, DropDelivery(w, m) PROVE CallInv'
  BY <1>2 DEF DropDelivery, sendVars, CallInv
<1>3. ASSUME NEW w \in Workers, WorkerStep(w) PROVE CallInv'
  BY <1>3, WorkerCalls
<1>4. ASSUME NEW c \in Consultants, NEW what \in Operations, Begin(c, what) PROVE CallInv'
  <2>1. UNCHANGED <<call, pc, turn>> /\ op[c].pc = "idle"
        /\ op' = [op EXCEPT ![c] = Op("write", what, client.mode)]
    BY <1>4 DEF Begin, sendVars
  <2>2. op'[c].pc = "write" /\ \A d \in Consultants \ {c} : op'[d] = op[d]
    BY <1>0, <2>1 DEF ChatTypes, Op
  <2> QED
    BY <2>1, <2>2 DEF CallInv
<1>5. ASSUME NEW c \in Consultants, ConsultantStep(c) PROVE CallInv'
  BY <1>5, ConsultantCalls
<1>6. ASSUME NEW p \in Procs, SendStep(p) PROVE CallInv'
  <2>1. /\ UNCHANGED chatVars /\ \A q \in Procs \ {p} : call'[q] = call[q]
        /\ call'[p].item = call[p].item /\ call[p].pc # "idle" /\ call'[p].pc # "idle"
    BY <1>6, SendStepMoves DEF CoreInv, Transmits, Works
  <2> QED
    BY <2>1, Names DEF chatVars, CallInv, Procs
<1>7. ASSUME NEW p, Expire(p) PROVE CallInv'
  BY <1>7 DEF Expire, CallInv
<1>8. CASE Crash
  BY <1>8, Names DEF Crash, M!Crash, M!NoCall, M!Call, NoOp, Op, CallInv, Procs
<1>9. CASE UNCHANGED vars
  BY <1>9 DEF vars, CallInv
<1> QED
  BY <1>1, <1>2, <1>3, <1>4, <1>5, <1>6, <1>7, <1>8, <1>9 DEF Next

LEMMA CallInit == Init => CallInv
  BY DEF Init, M!Init, M!NoCall, M!Call, NoOp, Op, CallInv, Procs

-----------------------------------------------------------------------------
(* Conversation implements ChatTurns *)

Copies(m) == {i \in DOMAIN wire : wire[i].item = m}

\* The copies of the answer to a message: none before its turn comes to Send,
\* then as many as Send made attempts, and never more than the limit.
CopiesInv ==
  /\ \A m \in Messages :
       /\ IsFiniteSet(Copies(m)) /\ Cardinality(Copies(m)) <= MaxSendAttempts
       /\ ~Exists(m) => Copies(m) = {}
  /\ \A w \in Workers :
       /\ pc[w] \in Unsaid => Copies(turn[w].msg) = {}
       /\ pc[w] = "sending" /\ call[w].pc \in {"wait", "store"} => Copies(turn[w].msg) = {}
       /\ pc[w] = "sending" /\ call[w].pc = "transmit"
            => Cardinality(Copies(turn[w].msg)) <= call[w].tries

\* One more entry of x adds one copy of x and none of anything else.
LEMMA CopiesAppend ==
  ASSUME wire \in Seq(MP!Transmissions), NEW e \in MP!Transmissions, wire' = Append(wire, e),
         NEW m, IsFiniteSet(Copies(m))
  PROVE  /\ IsFiniteSet(Copies(m)')
         /\ Cardinality(Copies(m)') = IF m = e.item THEN Cardinality(Copies(m)) + 1
                                                    ELSE Cardinality(Copies(m))
<1>1. /\ DOMAIN wire' = DOMAIN wire \cup {Len(wire) + 1}
      /\ wire'[Len(wire) + 1] = e
      /\ \A i \in DOMAIN wire : wire'[i] = wire[i] /\ i # Len(wire) + 1
  OBVIOUS
<1>2. Copies(m)' = IF m = e.item THEN Copies(m) \cup {Len(wire) + 1} ELSE Copies(m)
  BY <1>1 DEF Copies
<1>3. Len(wire) + 1 \notin Copies(m)
  BY <1>1 DEF Copies
<1> QED
  BY <1>2, <1>3, FS_AddElement

\* Who transmits for a message: the holder of the order lock, in its turn.
LEMMA Transmitting ==
  ASSUME CoreInv, CallInv, NEW p \in Procs, Transmits(p)
  PROVE  /\ wire \in Seq(MP!Transmissions)
         /\ [item |-> call[p].item, row |-> call[p].row] \in MP!Transmissions
         /\ call[p].tries \in Nat /\ call[p].tries < MaxSendAttempts
         /\ p \in Workers => /\ pc[p] = "sending" /\ orderLock = p
                             /\ call[p].item = turn[p].msg /\ turn[p].msg \in Messages
                             /\ turn[p].row = Len(inbox) /\ inbox # <<>>
                             /\ inbox[Len(inbox)].msg = turn[p].msg
                             /\ \A v \in Workers \ {p} : pc[v] \notin Stored
         /\ p \in Consultants => call[p].item = p /\ p \notin Messages
<1>1. call[p] \in MP!Calls /\ wire \in Seq(MP!Transmissions) /\ call[p].pc = "transmit"
  BY CoreSend DEF SendTypes, Transmits
<1>2. call[p].item \in Items /\ call[p].row \in Nat
  BY <1>1 DEF CoreInv, MP!TypeInv, MP!TypeOK, MP!Calls
<1>3. call[p].tries \in Nat /\ call[p].tries < MaxSendAttempts
  BY <1>1, SendAssumption DEF CoreInv, MP!TypeInv, MP!RoomForAttempt, MP!Calls, MP!MessengerAssumption
<1>4. [item |-> call[p].item, row |-> call[p].row] \in MP!Transmissions
  BY <1>2 DEF MP!Transmissions
<1>5. ASSUME p \in Workers
      PROVE  /\ pc[p] = "sending" /\ orderLock = p
             /\ call[p].item = turn[p].msg /\ turn[p].msg \in Messages
             /\ turn[p].row = Len(inbox) /\ inbox # <<>>
             /\ inbox[Len(inbox)].msg = turn[p].msg
             /\ \A v \in Workers \ {p} : pc[v] \notin Stored
  <2>1. pc[p] = "sending" /\ call[p].item = turn[p].msg
    BY <1>1, <1>5 DEF CallInv
  <2>2. pc[p] \in Stored /\ orderLock = p
    BY <1>5, <2>1, StoredPlaces, PlacesOfTurn DEF CoreInv, LockInv, OneTurnAtATime
  <2>3. \A v \in Workers \ {p} : pc[v] \notin Stored
    BY <2>2, PlacesOfTurn DEF CoreInv, LockInv, OneTurnAtATime
  <2> QED
    BY <1>5, <2>1, <2>2, <2>3 DEF CoreInv, DeliveryInv
<1>6. ASSUME p \in Consultants PROVE call[p].item = p /\ p \notin Messages
  BY <1>1, <1>6, Names DEF CallInv
<1> QED
  BY <1>1, <1>3, <1>4, <1>5, <1>6

LEMMA CopiesTransmit ==
  ASSUME CoreInv, CallInv, CopiesInv, NEW p \in Procs, Transmits(p)
  PROVE  CopiesInv'
<1> DEFINE e == [item |-> call[p].item, row |-> call[p].row]
<1>1. /\ wire \in Seq(MP!Transmissions) /\ e \in MP!Transmissions
      /\ wire' = Append(wire, e) /\ e.item = call[p].item
  BY Transmitting DEF Transmits
<1> HIDE DEF e
<1>2. UNCHANGED <<pc, turn, inbox>> /\ \A m : Exists(m)' <=> Exists(m)
  BY DEF Transmits, chatVars, Exists
<1>3. \A m \in Messages : IsFiniteSet(Copies(m)) /\ Cardinality(Copies(m)) \in Nat
  BY FS_CardinalityType DEF CopiesInv
<1>4. \A m \in Messages :
        /\ IsFiniteSet(Copies(m)')
        /\ Cardinality(Copies(m)') = IF m = call[p].item THEN Cardinality(Copies(m)) + 1
                                                         ELSE Cardinality(Copies(m))
  BY <1>1, <1>3, CopiesAppend
<1>5. CASE p \in Workers
  <2>1. /\ pc[p] = "sending" /\ call[p].item = turn[p].msg /\ turn[p].msg \in Messages
        /\ call[p].tries \in Nat /\ call[p].tries < MaxSendAttempts
        /\ \A v \in Workers \ {p} : pc[v] \notin Stored
        /\ Exists(turn[p].msg)
    <3>1. /\ pc[p] = "sending" /\ call[p].item = turn[p].msg /\ turn[p].msg \in Messages
          /\ call[p].tries \in Nat /\ call[p].tries < MaxSendAttempts
          /\ inbox # <<>> /\ inbox[Len(inbox)].msg = turn[p].msg
          /\ \A v \in Workers \ {p} : pc[v] \notin Stored
      BY <1>5, Transmitting
    <3>2. Exists(turn[p].msg)
      BY <3>1 DEF CoreInv, ChatTypes, Exists
    <3> QED
      BY <3>1, <3>2
  <2>2. Cardinality(Copies(turn[p].msg)) <= call[p].tries
    BY <1>5, <2>1 DEF CopiesInv, Transmits
  <2>3. \A m \in Messages : Cardinality(Copies(m)') <= MaxSendAttempts
    BY <1>3, <1>4, <2>1, <2>2, Names DEF CopiesInv
  <2>4. ASSUME NEW m \in Messages, ~Exists(m) PROVE Copies(m)' = {}
    <3>1. Copies(m) = {} /\ m # call[p].item
      BY <2>1, <2>4 DEF CopiesInv
    <3>2. Cardinality(Copies(m)') = 0
      BY <1>4, <3>1, FS_EmptySet
    <3> QED
      BY <1>4, <3>2, FS_EmptySet
  <2>5. Cardinality(Copies(turn[p].msg)') <= call'[p].tries
    BY <1>2, <1>3, <1>4, <2>1, <2>2 DEF Transmits
  <2>6. call'[p].pc \in {"transmit", "record"}
    BY DEF Transmits
  <2> QED
    BY <1>2, <1>4, <1>5, <2>1, <2>3, <2>4, <2>5, <2>6, StoredPlaces DEF CopiesInv, Unsaid
<1>6. CASE p \in Consultants
  <2>1. \A m \in Messages : Copies(m)' = Copies(m)
    <3>1. \A m \in Messages : m # e.item
      BY <1>1, <1>6, Transmitting
    <3>2. /\ DOMAIN wire' = DOMAIN wire \cup {Len(wire) + 1}
          /\ wire'[Len(wire) + 1] = e
          /\ \A i \in DOMAIN wire : wire'[i] = wire[i]
      BY <1>1
    <3> QED
      BY <3>1, <3>2 DEF Copies
  <2>2. \A w \in Workers : call'[w] = call[w]
    BY <1>6, Names DEF Transmits, Procs
  <2>3. \A w \in Workers : pc[w] \in Stored => turn[w].msg \in Messages
    BY StoredPlaces DEF CoreInv, DeliveryInv
  <2> QED
    BY <1>2, <2>1, <2>2, <2>3, StoredPlaces DEF CopiesInv, Unsaid
<1> QED
  BY <1>5, <1>6 DEF Procs

LEMMA CopiesWork ==
  ASSUME CoreInv, CallInv, CopiesInv, NEW p \in Procs, Works(p)
  PROVE  CopiesInv'
<1>1. /\ UNCHANGED <<pc, turn, inbox>>
      /\ \A m : (Exists(m)' <=> Exists(m)) /\ Copies(m)' = Copies(m)
  BY DEF Works, chatVars, Exists, Copies
<1>2. ASSUME NEW w \in Workers, pc[w] = "sending"
      PROVE  /\ call'[w].pc \in {"wait", "store"} => Copies(turn[w].msg) = {}
             /\ call'[w].pc = "transmit" => Cardinality(Copies(turn[w].msg)) <= call'[w].tries
  <2>1. CASE w # p
    BY <1>2, <2>1 DEF Works, CopiesInv, Procs
  <2>2. CASE w = p
    <3>1. Cardinality({}) = 0
      BY FS_EmptySet
    <3>2. turn[w].msg \in Messages /\ IsFiniteSet(Copies(turn[w].msg))
      BY <1>2 DEF CoreInv, DeliveryInv, CopiesInv
    <3>3. Cardinality(Copies(turn[w].msg)) \in Nat
      BY <3>2, FS_CardinalityType
    <3>4. call'[p].tries \in Nat /\ call[p].tries \in Nat
      BY DEF Works
    <3>5. call'[p].pc \notin {"idle", "wait"}
      BY DEF Works
    <3>6. call'[p].pc = "store" => Copies(turn[w].msg) = {}
      BY <1>2, <2>2 DEF Works, CopiesInv
    <3>7. CASE call'[p].pc = "transmit" /\ call[p].pc = "store"
      <4>1. Copies(turn[w].msg) = {}
        BY <1>2, <2>2, <3>7 DEF CopiesInv
      <4>2. Cardinality(Copies(turn[w].msg)) = 0
        BY <3>1, <4>1
      <4> QED
        BY <2>2, <3>4, <3>7, <4>2
    <3>8. CASE /\ call'[p].pc = "transmit" /\ call[p].pc = "transmit"
               /\ call'[p].tries = call[p].tries + 1
      <4>1. Cardinality(Copies(turn[w].msg)) <= call[p].tries
        BY <1>2, <2>2, <3>8 DEF CopiesInv
      <4> QED
        BY <2>2, <3>3, <3>4, <3>8, <4>1
    <3> QED
      BY <2>2, <3>5, <3>6, <3>7, <3>8 DEF Works
  <2> QED
    BY <2>1, <2>2
<1> QED
  BY <1>1, <1>2 DEF CopiesInv

LEMMA CopiesHop ==
  ASSUME CoreInv, CallInv, CallInv', CopiesInv, NEW w \in Workers, Hop(w), QuietSend
  PROVE  CopiesInv'
<1>0. inbox \in Seq(Incoming) /\ \A m : Copies(m)' = Copies(m)
  BY DEF CoreInv, ChatTypes, QuietSend, Copies
<1>1. \A m : ~Exists(m)' => ~Exists(m)
  <2>1. CASE Stores(w)
    BY <1>0, <2>1 DEF Stores, Exists
  <2>2. CASE SameMessages \/ UNCHANGED inbox
    BY <1>0, <2>2 DEF SameMessages, Exists
  <2> QED
    BY <2>1, <2>2 DEF Hop, Arrives, Enters, Checks, Onward, Ends
<1>2. \A v \in Workers \ {w} : pc'[v] = pc[v] /\ turn'[v] = turn[v]
  BY DEF Hop
<1>3. /\ pc'[w] \in Unsaid \cup {"sending"} => Copies(turn'[w].msg) = {}
  <2>1. CASE Stores(w)
    BY <2>1 DEF Stores, CoreInv, DeliveryInv, CopiesInv
  <2>2. CASE Onward(w)
    BY <2>2 DEF Onward, SameDelivery, CopiesInv
  <2>3. CASE Arrives(w) \/ Enters(w) \/ Checks(w) \/ Ends(w)
    BY <2>3 DEF Arrives, Enters, Checks, Ends, Unsaid
  <2> QED
    BY <2>1, <2>2, <2>3 DEF Hop
<1>4. Cardinality({}) = 0
  BY FS_EmptySet
<1>5. pc'[w] = "sending" => call'[w].pc # "transmit"
  <2> SUFFICES ASSUME pc'[w] = "sending" PROVE call'[w].pc # "transmit"
    OBVIOUS
  <2>1. pc[w] \in Unsaid
    BY DEF Hop, Arrives, Enters, Checks, Stores, Onward, Ends
  <2>2. call[w].pc = "idle"
    BY <2>1 DEF CallInv, Unsaid
  <2> QED
    BY <2>2 DEF QuietSend, Procs
<1>6. ASSUME NEW v \in Workers, v # w
      PROVE  /\ pc'[v] \in Unsaid => Copies(turn'[v].msg) = {}
             /\ pc'[v] = "sending" /\ call'[v].pc \in {"wait", "store"} => Copies(turn'[v].msg) = {}
             /\ pc'[v] = "sending" /\ call'[v].pc = "transmit"
                  => Cardinality(Copies(turn'[v].msg)) <= call'[v].tries
  <2>1. pc'[v] = "sending" => call'[v] = call[v]
    BY <1>2, <1>6 DEF QuietSend, CallInv, Procs
  <2> QED
    BY <1>2, <1>6, <2>1 DEF CopiesInv
<1> QED
  BY <1>0, <1>1, <1>3, <1>5, <1>6 DEF CopiesInv

LEMMA CopiesStep ==
  ASSUME CoreInv, CallInv, CopiesInv, [Next]_vars
  PROVE  CopiesInv'
<1>0. CallInv' /\ CoreInv'
  BY CallStep, CoreStep
<1>1. ASSUME NEW p \in Procs, SendStep(p) PROVE CopiesInv'
  BY <1>1, SendStepMoves, CopiesTransmit, CopiesWork DEF CoreInv
<1>2. CASE QuietSend
  <2>0. \A m : Copies(m)' = Copies(m)
    BY <1>2 DEF QuietSend, Copies
  <2>1. ASSUME NEW w \in Workers, Hop(w) PROVE CopiesInv'
    BY <1>0, <1>2, <2>1, CopiesHop
  <2>2. CASE Still
    <3>1. ASSUME NEW w \in Workers, pc'[w] = "sending" PROVE call'[w] = call[w]
      BY <1>0, <1>2, <2>2, <3>1 DEF Still, QuietSend, CallInv, Procs
    <3>2. \A m : Exists(m)' <=> Exists(m)
      BY <2>2 DEF Still, Exists
    <3>3. \A w \in Workers : pc'[w] = pc[w] /\ turn'[w].msg = turn[w].msg
      BY <2>2 DEF Still, SameDelivery
    <3> QED
      BY <2>0, <3>1, <3>2, <3>3 DEF CopiesInv
  <2>3. CASE Crash
    <3>1. \A m : Exists(m)' <=> Exists(m)
      BY <2>3 DEF Crash, Exists
    <3>2. \A w \in Workers : pc'[w] = "idle"
      BY <2>3 DEF Crash
    <3> QED
      BY <2>0, <3>1, <3>2 DEF CopiesInv, Unsaid
  <2> QED
    BY <2>1, <2>2, <2>3, ChatMoves DEF CoreInv
<1> QED
  BY <1>1, <1>2, WireMoves, CoreSend

LEMMA CopiesInit == Init => CopiesInv
<1> SUFFICES ASSUME Init PROVE CopiesInv
  OBVIOUS
<1>1. \A m : Copies(m) = {}
  BY DEF Init, M!Init, Copies
<1>2. IsFiniteSet({}) /\ Cardinality({}) = 0
  BY FS_EmptySet
<1>3. \A w \in Workers : pc[w] = "idle"
  BY DEF Init
<1> QED
  BY <1>1, <1>2, <1>3, Names DEF CopiesInv, Unsaid

LEMMA Sending == Spec => [](CoreInv /\ CallInv /\ CopiesInv)
<1>1. Init => CoreInv /\ CallInv /\ CopiesInv
  BY CoreInit, CallInit, CopiesInit
<1>2. CoreInv /\ CallInv /\ CopiesInv /\ [Next]_vars => (CoreInv /\ CallInv /\ CopiesInv)'
  BY CoreStep, CallStep, CopiesStep
<1> QED
  BY <1>1, <1>2, PTL DEF Spec

LEMMA FunctionIsSeq ==
  ASSUME NEW S, NEW n \in Nat, NEW f \in [1 .. n -> S]
  PROVE  f \in Seq(S) /\ Len(f) = n
<1>1. f \in Seq(S)
  BY SeqDef
<1> QED
  BY <1>1, LenProperties

LEMMA IsAppend ==
  ASSUME NEW S, NEW s \in Seq(S), NEW e \in S, NEW t \in Seq(S), Len(t) = Len(s) + 1,
         t[Len(s) + 1] = e, \A i \in 1 .. Len(s) : t[i] = s[i]
  PROVE  t = Append(s, e)
<1>1. /\ Append(s, e) \in Seq(S) /\ Len(Append(s, e)) = Len(s) + 1
      /\ Append(s, e)[Len(s) + 1] = e /\ \A i \in 1 .. Len(s) : Append(s, e)[i] = s[i]
  OBVIOUS
<1>2. \A i \in 1 .. Len(t) : t[i] = Append(s, e)[i]
  BY <1>1
<1> QED
  BY <1>1, <1>2, SeqEqual

\* What ChatTurns sees of the rows and of the wire.
LEMMA SeenOf ==
  ASSUME NEW s \in Seq(Incoming)
  PROVE  LET f == [r \in DOMAIN s |-> s[r].msg]
         IN  f \in Seq(Messages) /\ Len(f) = Len(s) /\ \A r \in 1 .. Len(s) : f[r] = s[r].msg
<1> DEFINE f == [r \in DOMAIN s |-> s[r].msg]
<1>1. Len(s) \in Nat /\ DOMAIN s = 1 .. Len(s) /\ \A r \in 1 .. Len(s) : s[r] \in Incoming
  OBVIOUS
<1>2. f \in [1 .. Len(s) -> Messages]
  BY <1>1 DEF Incoming
<1>3. \A r \in 1 .. Len(s) : f[r] = s[r].msg
  BY <1>1
<1> HIDE DEF f
<1>4. f \in Seq(Messages) /\ Len(f) = Len(s)
  BY <1>1, <1>2, FunctionIsSeq
<1> QED
  BY <1>3, <1>4 DEF f

LEMMA SaidOf ==
  ASSUME NEW s \in Seq(MP!Transmissions)
  PROVE  LET f == [i \in DOMAIN s |-> s[i].item]
         IN  f \in Seq(Items) /\ Len(f) = Len(s) /\ \A i \in 1 .. Len(s) : f[i] = s[i].item
<1> DEFINE f == [i \in DOMAIN s |-> s[i].item]
<1>1. Len(s) \in Nat /\ DOMAIN s = 1 .. Len(s) /\ \A i \in 1 .. Len(s) : s[i] \in MP!Transmissions
  OBVIOUS
<1>2. f \in [1 .. Len(s) -> Items]
  BY <1>1 DEF MP!Transmissions
<1>3. \A i \in 1 .. Len(s) : f[i] = s[i].item
  BY <1>1
<1> HIDE DEF f
<1>4. f \in Seq(Items) /\ Len(f) = Len(s)
  BY <1>1, <1>2, FunctionIsSeq
<1> QED
  BY <1>3, <1>4 DEF f

\* A step of which ChatTurns sees at most that a turn is over.
LEMMA QuietRefines ==
  ASSUME UNCHANGED <<SeenMessages, SaidItems>>, OpenMessage' \in {OpenMessage, None}
  PROVE  [T!Next]_(T!turnVars)
  BY DEF T!Next, T!End, T!turnVars

LEMMA SaidSame == ASSUME UNCHANGED wire PROVE UNCHANGED SaidItems
  BY DEF SaidItems

LEMMA SeenSame ==
  ASSUME ChatTypes, SameMessages
  PROVE  UNCHANGED SeenMessages
<1>1. DOMAIN inbox' = DOMAIN inbox
  BY DEF ChatTypes, SameMessages
<1> QED
  BY <1>1 DEF SameMessages, SeenMessages

LEMMA OpenSame ==
  ASSUME LockInv, orderLock' = orderLock,
         orderLock # None => /\ turn'[orderLock].msg = turn[orderLock].msg
                             /\ turn'[orderLock].row = turn[orderLock].row
  PROVE  OpenMessage' = OpenMessage
  BY DEF OpenMessage

LEMMA HopRefines ==
  ASSUME CoreInv, NEW w \in Workers, Hop(w), UNCHANGED wire
  PROVE  [T!Next]_(T!turnVars)
<1> USE DEF CoreInv
<1>1. UNCHANGED SaidItems
  BY SaidSame
<1>2. \A v \in Workers : orderLock = v <=> pc[v] \in InTurn
  BY DEF LockInv, OneTurnAtATime
<1>3. CASE Arrives(w)
  <2>1. orderLock # w /\ orderLock' = orderLock /\ SameMessages
    BY <1>2, <1>3, PlacesOfTurn, SameInbox DEF Arrives
  <2>2. OpenMessage' = OpenMessage
    BY <2>1, OpenSame DEF Hop, LockInv
  <2> QED
    BY <1>1, <2>1, <2>2, SeenSame, QuietRefines
<1>4. CASE Enters(w)
  <2>1. OpenMessage = None /\ OpenMessage' = None
    BY <1>4, StoredPlaces DEF Enters, OpenMessage, DeliveryInv
  <2> QED
    BY <1>1, <1>4, <2>1, SameInbox, SeenSame, QuietRefines DEF Enters
<1>5. CASE Checks(w)
  <2>1. OpenMessage' = OpenMessage
    BY <1>2, <1>5, OpenSame DEF Checks, Hop, LockInv
  <2> QED
    BY <1>1, <1>5, <2>1, SameInbox, SeenSame, QuietRefines DEF Checks
<1>6. CASE Stores(w)
  <2>1. orderLock = w /\ w # None /\ inbox \in Seq(Incoming) /\ turn[w].msg \in Messages
    BY <1>2, <1>6, PlacesOfTurn, Names DEF Stores, ChatTypes, DeliveryInv
  <2>2. OpenMessage = None
    BY <1>6, <2>1, StoredPlaces DEF Stores, OpenMessage, DeliveryInv
  <2>3. OpenMessage' = turn[w].msg
    BY <1>6, <2>1 DEF Stores, OpenMessage
  <2>4. /\ inbox' \in Seq(Incoming) /\ Len(inbox') = Len(inbox) + 1
        /\ inbox'[Len(inbox) + 1].msg = turn[w].msg
        /\ \A r \in 1 .. Len(inbox) : inbox'[r] = inbox[r]
    BY <1>6, <2>1 DEF Stores, Incoming
  <2>5. /\ SeenMessages \in Seq(Messages) /\ Len(SeenMessages) = Len(inbox)
        /\ \A r \in 1 .. Len(inbox) : SeenMessages[r] = inbox[r].msg
    BY <2>1, SeenOf DEF SeenMessages
  <2>a. /\ SeenMessages' \in Seq(Messages) /\ Len(SeenMessages') = Len(inbox')
        /\ \A r \in 1 .. Len(inbox') : SeenMessages'[r] = inbox'[r].msg
    <3>1. inbox' \in Seq(Incoming)
      BY <2>4
    <3>2. SeenMessages' = [r \in DOMAIN inbox' |-> inbox'[r].msg]
      BY DEF SeenMessages
    <3> HIDE DEF SeenMessages
    <3> QED
      BY <3>1, <3>2, SeenOf
  <2>6. SeenMessages' = Append(SeenMessages, turn[w].msg)
    <3>1. Len(inbox) \in Nat
      BY <2>1
    <3>2. SeenMessages'[Len(inbox) + 1] = turn[w].msg
      BY <2>4, <2>a, <3>1
    <3>3. \A r \in 1 .. Len(inbox) : SeenMessages'[r] = SeenMessages[r]
      BY <2>4, <2>5, <2>a, <3>1
    <3> HIDE DEF SeenMessages
    <3> QED
      BY <2>1, <2>4, <2>5, <2>a, <3>2, <3>3, IsAppend
  <2>7. turn[w].msg \notin T!SeenMessages
    BY <1>6 DEF Stores, Exists, T!SeenMessages, SeenMessages
  <2>8. T!Begin(turn[w].msg)
    BY <1>1, <2>2, <2>3, <2>6, <2>7 DEF T!Begin
  <2> QED
    BY <2>1, <2>8 DEF T!Next
<1>7. CASE Onward(w)
  <2>1. OpenMessage' = OpenMessage
    BY <1>2, <1>7, PlacesOfTurn, OpenSame DEF Onward, SameDelivery, LockInv
  <2> QED
    BY <1>1, <1>7, <2>1, SeenSame, QuietRefines DEF Onward
<1>8. CASE Ends(w)
  <2>1. OpenMessage' \in {OpenMessage, None}
    <3>1. CASE pc[w] = "order"
      BY <1>2, <1>8, <3>1, PlacesOfTurn, OpenSame DEF Ends, Hop, LockInv
    <3>2. CASE pc[w] # "order"
      BY <1>8, <3>2 DEF Ends, OpenMessage
    <3> QED
      BY <3>1, <3>2
  <2> QED
    BY <1>1, <1>8, <2>1, SeenSame, QuietRefines DEF Ends
<1> QED
  BY <1>3, <1>4, <1>5, <1>6, <1>7, <1>8 DEF Hop

LEMMA SameCardinality == \A S : T!Cardinality(S) = Cardinality(S)
  BY DEF T!Cardinality, Cardinality

\* What ChatTurns sees of a step of Send.
LEMMA SendRefines ==
  ASSUME CoreInv, CallInv, CopiesInv, NEW p \in Procs, Transmits(p) \/ Works(p)
  PROVE  [T!Next]_(T!turnVars)
<1>1. UNCHANGED <<SeenMessages, OpenMessage>>
  <2>1. UNCHANGED <<inbox, orderLock, turn>>
    BY DEF Transmits, Works, chatVars
  <2> QED
    BY <2>1 DEF SeenMessages, OpenMessage
<1>2. CASE Works(p)
  BY <1>1, <1>2, SaidSame, QuietRefines DEF Works
<1>3. CASE Transmits(p)
  <2> DEFINE e == [item |-> call[p].item, row |-> call[p].row]
  <2>1. wire \in Seq(MP!Transmissions) /\ e \in MP!Transmissions /\ wire' = Append(wire, e)
    BY <1>3, Transmitting DEF Transmits
  <2>2. e.item = call[p].item
    OBVIOUS
  <2> HIDE DEF e
  <2>3. /\ wire' \in Seq(MP!Transmissions) /\ Len(wire') = Len(wire) + 1
        /\ wire'[Len(wire) + 1] = e /\ \A i \in 1 .. Len(wire) : wire'[i] = wire[i]
    BY <2>1
  <2>4. /\ SaidItems \in Seq(Items) /\ Len(SaidItems) = Len(wire)
        /\ \A i \in 1 .. Len(wire) : SaidItems[i] = wire[i].item
    BY <2>1, SaidOf DEF SaidItems
  <2>5. /\ SaidItems' \in Seq(Items) /\ Len(SaidItems') = Len(wire')
        /\ \A i \in 1 .. Len(wire') : SaidItems'[i] = wire'[i].item
    <3>1. SaidItems' = [i \in DOMAIN wire' |-> wire'[i].item]
      BY DEF SaidItems
    <3> HIDE DEF SaidItems
    <3> QED
      BY <2>3, <3>1, SaidOf
  <2>6. Len(wire) \in Nat /\ call[p].item \in Items
    BY <2>1, <2>2 DEF MP!Transmissions
  <2>7. SaidItems' = Append(SaidItems, call[p].item)
    <3>1. SaidItems'[Len(wire) + 1] = call[p].item
      BY <2>2, <2>3, <2>5, <2>6
    <3>2. \A i \in 1 .. Len(wire) : SaidItems'[i] = SaidItems[i]
      BY <2>3, <2>4, <2>5, <2>6
    <3> HIDE DEF SaidItems
    <3> QED
      BY <2>3, <2>4, <2>5, <2>6, <3>1, <3>2, IsAppend
  <2>8. CASE p \in Workers
    <3>1. /\ pc[p] = "sending" /\ orderLock = p /\ call[p].item = turn[p].msg
          /\ turn[p].msg \in Messages /\ turn[p].row = Len(inbox) /\ inbox # <<>>
          /\ call[p].tries \in Nat /\ call[p].tries < MaxSendAttempts
      BY <1>3, <2>8, Transmitting
    <3>2. OpenMessage = call[p].item /\ OpenMessage # None
      BY <2>8, <3>1, Names DEF OpenMessage, CoreInv, ChatTypes
    <3>3. Cardinality(Copies(turn[p].msg)) <= call[p].tries
      BY <1>3, <2>8, <3>1 DEF Transmits, CopiesInv
    <3>4. IsFiniteSet(Copies(turn[p].msg)) /\ Cardinality(Copies(turn[p].msg)) \in Nat
      BY <3>1, FS_CardinalityType DEF CopiesInv
    <3>5. T!Copies(OpenMessage) = Copies(turn[p].msg)
      BY <2>4, <3>1, <3>2 DEF T!Copies, Copies, SaidItems
    <3>6. T!Cardinality(T!Copies(OpenMessage)) < MaxSendAttempts
      BY <3>1, <3>3, <3>4, <3>5, SameCardinality, Names
    <3>7. T!Say
      BY <1>1, <2>7, <3>2, <3>6 DEF T!Say
    <3> QED
      BY <3>7 DEF T!Next
  <2>9. CASE p \in Consultants
    <3>1. call[p].item = p /\ p \in Consultants \ Messages
      BY <1>3, <2>9, Transmitting
    <3>2. T!Interject(p)
      BY <1>1, <2>7, <3>1 DEF T!Interject
    <3> QED
      BY <3>1, <3>2 DEF T!Next
  <2> QED
    BY <2>8, <2>9 DEF Procs
<1> QED
  BY <1>2, <1>3

LEMMA StepRefines ==
  ASSUME CoreInv, CallInv, CopiesInv, [Next]_vars
  PROVE  [T!Next]_(T!turnVars)
<1>1. ASSUME NEW p \in Procs, SendStep(p) PROVE [T!Next]_(T!turnVars)
  BY <1>1, SendStepMoves, SendRefines DEF CoreInv
<1>2. CASE QuietSend
  <2>0. UNCHANGED wire
    BY <1>2 DEF QuietSend
  <2>1. ASSUME NEW w \in Workers, Hop(w) PROVE [T!Next]_(T!turnVars)
    BY <2>0, <2>1, HopRefines
  <2>2. CASE Still
    <3>1. OpenMessage' = OpenMessage
      BY <2>2, OpenSame DEF Still, SameDelivery, CoreInv, LockInv
    <3>2. UNCHANGED SeenMessages
      BY <2>2 DEF Still, SeenMessages
    <3> QED
      BY <2>0, <3>1, <3>2, SaidSame, QuietRefines
  <2>3. CASE Crash
    <3>1. OpenMessage' = None
      BY <2>3 DEF Crash, OpenMessage
    <3>2. UNCHANGED SeenMessages
      BY <2>3 DEF Crash, SeenMessages
    <3> QED
      BY <2>0, <3>1, <3>2, SaidSame, QuietRefines
  <2> QED
    BY <2>1, <2>2, <2>3, ChatMoves DEF CoreInv
<1> QED
  BY <1>1, <1>2, WireMoves, CoreSend

\* The pipeline implements ChatTurns, whatever fails and whenever it crashes: a
\* message has one turn, the answer leaves during that turn, and no more often
\* than Send makes attempts.
THEOREM Refines == Spec => ImplementsChatTurns
<1>1. Init => T!Init
  BY Names DEF Init, M!Init, T!Init, OpenMessage, SeenMessages, SaidItems
<1>2. CoreInv /\ CallInv /\ CopiesInv /\ [Next]_vars => [T!Next]_(T!turnVars)
  BY StepRefines
<1> QED
  BY <1>1, <1>2, Sending, PTL DEF Spec, ImplementsChatTurns, T!Spec

-----------------------------------------------------------------------------
(* What ChatTurns promises, and Conversation therefore keeps *)

LEMMA TurnTypeStep == T!TypeOK /\ [T!Next]_(T!turnVars) => T!TypeOK'
<1> SUFFICES ASSUME T!TypeOK, [T!Next]_(T!turnVars) PROVE T!TypeOK'
  OBVIOUS
<1>1. ASSUME NEW m \in Messages, T!Begin(m) PROVE T!TypeOK'
  BY <1>1 DEF T!TypeOK, T!Begin
<1>2. CASE T!Say
  BY <1>2 DEF T!TypeOK, T!Say
<1>3. ASSUME NEW x \in Consultants \ Messages, T!Interject(x) PROVE T!TypeOK'
  BY <1>3 DEF T!TypeOK, T!Interject
<1>4. CASE T!End
  BY <1>4 DEF T!TypeOK, T!End
<1>5. CASE UNCHANGED T!turnVars
  BY <1>5 DEF T!TypeOK, T!turnVars
<1> QED
  BY <1>1, <1>2, <1>3, <1>4, <1>5 DEF T!Next

\* The open message is the last one seen, so a new answer goes behind every
\* earlier one. AnswersInOrder alone does not say that.
AnswersInv ==
  /\ T!TypeOK
  /\ OpenMessage # None => SeenMessages # <<>> /\ SeenMessages[Len(SeenMessages)] = OpenMessage
  /\ \A i \in DOMAIN SaidItems :
       SaidItems[i] \in Messages => \E a \in DOMAIN SeenMessages : SeenMessages[a] = SaidItems[i]
  /\ T!AnswersInOrder

LEMMA AnswersInit == T!Init => AnswersInv
  BY DEF T!Init, AnswersInv, T!TypeOK, T!AnswersInOrder

LEMMA BeginKeepsOrder ==
  ASSUME AnswersInv, NEW m \in Messages, T!Begin(m)
  PROVE  AnswersInv'
<1> USE DEF AnswersInv, T!TypeOK, T!Begin
<1>1. T!TypeOK'
  OBVIOUS
<1>2. (OpenMessage # None => SeenMessages # <<>> /\ SeenMessages[Len(SeenMessages)] = OpenMessage)'
  OBVIOUS
<1>3. \A a \in DOMAIN SeenMessages : /\ a \in DOMAIN SeenMessages'
                                     /\ SeenMessages'[a] = SeenMessages[a]
  OBVIOUS
<1>4. SaidItems' = SaidItems
  OBVIOUS
<1>5. (\A i \in DOMAIN SaidItems :
         SaidItems[i] \in Messages =>
           \E a \in DOMAIN SeenMessages : SeenMessages[a] = SaidItems[i])'
  BY <1>3, <1>4
<1>6. T!AnswersInOrder'
  BY <1>3, <1>4 DEF T!AnswersInOrder
<1> QED
  BY <1>1, <1>2, <1>5, <1>6

LEMMA SayKeepsOrder ==
  ASSUME AnswersInv, T!Say
  PROVE  AnswersInv'
<1> USE DEF AnswersInv, T!TypeOK, T!Say
<1>1. T!TypeOK'
  OBVIOUS
<1>2. (OpenMessage # None => SeenMessages # <<>> /\ SeenMessages[Len(SeenMessages)] = OpenMessage)'
  OBVIOUS
<1>3. /\ Len(SeenMessages) \in DOMAIN SeenMessages /\ SeenMessages[Len(SeenMessages)] = OpenMessage
      /\ \A a \in DOMAIN SeenMessages : a <= Len(SeenMessages)
  OBVIOUS
<1>4. /\ DOMAIN SaidItems' = DOMAIN SaidItems \cup {Len(SaidItems) + 1}
      /\ SaidItems'[Len(SaidItems) + 1] = OpenMessage
      /\ \A i \in DOMAIN SaidItems : SaidItems'[i] = SaidItems[i] /\ i < Len(SaidItems) + 1
  OBVIOUS
<1>5. SeenMessages' = SeenMessages
  OBVIOUS
<1>6. (\A i \in DOMAIN SaidItems :
         SaidItems[i] \in Messages =>
           \E a \in DOMAIN SeenMessages : SeenMessages[a] = SaidItems[i])'
  BY <1>3, <1>4, <1>5
<1>7. T!AnswersInOrder'
  <2> SUFFICES ASSUME NEW i \in DOMAIN SaidItems', NEW j \in DOMAIN SaidItems', i < j,
                      SaidItems'[i] \in Messages, SaidItems'[j] \in Messages
               PROVE  \E a, b \in DOMAIN SeenMessages :
                        a <= b /\ SeenMessages[a] = SaidItems'[i] /\ SeenMessages[b] = SaidItems'[j]
    BY <1>5 DEF T!AnswersInOrder
  <2>1. i \in DOMAIN SaidItems
    BY <1>4
  <2>2. CASE j \in DOMAIN SaidItems
    BY <1>4, <2>1, <2>2 DEF T!AnswersInOrder
  <2>3. CASE j = Len(SaidItems) + 1
    <3>1. PICK a \in DOMAIN SeenMessages : SeenMessages[a] = SaidItems[i]
      BY <1>4, <2>1
    <3>2. /\ a <= Len(SeenMessages) /\ SeenMessages[Len(SeenMessages)] = SaidItems'[j]
          /\ SeenMessages[a] = SaidItems'[i]
      BY <1>3, <1>4, <2>1, <2>3, <3>1
    <3> QED
      BY <1>3, <3>2
  <2> QED
    BY <1>4, <2>2, <2>3
<1> QED
  BY <1>1, <1>2, <1>6, <1>7

LEMMA InterjectKeepsOrder ==
  ASSUME AnswersInv, NEW x \in Consultants \ Messages, T!Interject(x)
  PROVE  AnswersInv'
<1> USE DEF AnswersInv, T!TypeOK, T!Interject
<1>1. T!TypeOK'
  OBVIOUS
<1>2. /\ DOMAIN SaidItems' = DOMAIN SaidItems \cup {Len(SaidItems) + 1}
      /\ SaidItems'[Len(SaidItems) + 1] = x
      /\ \A i \in DOMAIN SaidItems : SaidItems'[i] = SaidItems[i]
  OBVIOUS
<1>3. T!AnswersInOrder'
  BY <1>2 DEF T!AnswersInOrder
<1>4. (\A i \in DOMAIN SaidItems :
         SaidItems[i] \in Messages =>
           \E a \in DOMAIN SeenMessages : SeenMessages[a] = SaidItems[i])'
  BY <1>2
<1> QED
  BY <1>1, <1>3, <1>4

LEMMA AnswersStep == AnswersInv /\ [T!Next]_(T!turnVars) => AnswersInv'
<1> SUFFICES ASSUME AnswersInv, [T!Next]_(T!turnVars) PROVE AnswersInv'
  OBVIOUS
<1>1. ASSUME NEW m \in Messages, T!Begin(m) PROVE AnswersInv'
  BY <1>1, BeginKeepsOrder
<1>2. CASE T!Say
  BY <1>2, SayKeepsOrder
<1>3. ASSUME NEW x \in Consultants \ Messages, T!Interject(x) PROVE AnswersInv'
  BY <1>3, InterjectKeepsOrder
<1>4. CASE T!End \/ UNCHANGED T!turnVars
  BY <1>4 DEF T!End, T!turnVars, AnswersInv, T!TypeOK, T!AnswersInOrder
<1> QED
  BY <1>1, <1>2, <1>3, <1>4 DEF T!Next

\* The assistant's answers leave in the order in which their messages were
\* taken, with any number of workers, messages and attempts, whatever fails (the
\* order lock around Pipeline.Handle).
THEOREM Ordered == Spec => []T!AnswersInOrder
<1>1. T!Spec => []AnswersInv
  BY AnswersInit, AnswersStep, PTL DEF T!Spec
<1>2. AnswersInv => T!AnswersInOrder
  BY DEF AnswersInv
<1>3. Spec => T!Spec
  BY Refines DEF ImplementsChatTurns
<1> QED
  BY <1>1, <1>2, <1>3, PTL

OnceInv == T!TypeOK /\ T!OneTurnEach

LEMMA OnceStep == OnceInv /\ [T!Next]_(T!turnVars) => OnceInv'
<1> SUFFICES ASSUME OnceInv, [T!Next]_(T!turnVars) PROVE OnceInv'
  OBVIOUS
<1>1. ASSUME NEW m \in Messages, T!Begin(m) PROVE OnceInv'
  <2>1. /\ DOMAIN SeenMessages' = DOMAIN SeenMessages \cup {Len(SeenMessages) + 1}
        /\ SeenMessages'[Len(SeenMessages) + 1] = m
        /\ \A i \in DOMAIN SeenMessages : SeenMessages'[i] = SeenMessages[i] /\ SeenMessages[i] # m
    BY <1>1 DEF OnceInv, T!TypeOK, T!Begin, T!SeenMessages
  <2>2. T!OneTurnEach'
    BY <2>1 DEF OnceInv, T!OneTurnEach
  <2>3. T!TypeOK'
    BY <1>1 DEF OnceInv, T!TypeOK, T!Begin
  <2> QED
    BY <2>2, <2>3 DEF OnceInv
<1>2. ASSUME UNCHANGED SeenMessages PROVE T!OneTurnEach'
  BY <1>2 DEF OnceInv, T!OneTurnEach
<1>3. T!TypeOK'
  BY TurnTypeStep DEF OnceInv
<1> QED
  BY <1>1, <1>2, <1>3 DEF T!Next, T!Say, T!Interject, T!End, T!turnVars, OnceInv

\* A message that is delivered again never has a second turn (the duplicate
\* checks of Pipeline.Handle and the unique index of the messages table).
THEOREM Once == Spec => []T!OneTurnEach
<1>1. T!Init => OnceInv
  BY DEF T!Init, OnceInv, T!TypeOK, T!OneTurnEach
<1>2. T!Spec => []OnceInv
  BY <1>1, OnceStep, PTL DEF T!Spec
<1>3. OnceInv => T!OneTurnEach
  BY DEF OnceInv
<1>4. Spec => T!Spec
  BY Refines DEF ImplementsChatTurns
<1> QED
  BY <1>2, <1>3, <1>4, PTL

\* No answer is transmitted more often than the limit of attempts allows, also
\* when the message is delivered again or the process dies in between.
THEOREM Few == Spec => []T!FewCopies
<1>1. \A m : T!Copies(m) = Copies(m)
  BY DEF T!Copies, Copies, SaidItems
<1>2. CopiesInv => T!FewCopies
  BY <1>1, SameCardinality DEF CopiesInv, T!FewCopies
<1> QED
  BY <1>2, Sending, PTL

-----------------------------------------------------------------------------
(* The assistant never speaks first *)

\* Where a worker is, and by which step it came there.
LEMMA WorkerPath ==
  ASSUME ChatTypes, NEW w \in Workers, WorkerStep(w)
  PROVE  /\ pc'[w] = "inbound" => StoreIncoming(w)
         /\ pc'[w] = "gate" => Inbound(w)
         /\ pc'[w] = "session" => GateOpen(w) \/ GateSkipped(w)
         /\ pc'[w] = "decide" => SessionPasses(w)
         /\ pc'[w] = "apply" => Decide(w)
         /\ pc'[w] = "reply" => Apply(w)
         /\ pc'[w] = "sending" => Reply(w)
         /\ pc'[w] = "plan" => Sent(w)
         /\ pc'[w] = "schedule" => Plan(w)
<1>0. pc \in [Workers -> Positions]
  BY DEF ChatTypes
<1> USE <1>0 DEF Goto, Finish
<1>1. CASE TakeOrder(w)
  BY <1>1 DEF TakeOrder
<1>2. CASE OrderCancelled(w) \/ BotOff(w) \/ GateClosed(w) \/ SessionIgnores(w) \/ SendCut(w)
           \/ Schedule(w) \/ ReplyEmpty(w) \/ Abort(w)
  BY <1>2 DEF OrderCancelled, BotOff, GateClosed, SessionIgnores, Silence, SendCut, Schedule, ReplyEmpty, Abort
<1>3. CASE Recheck(w)
  BY <1>3 DEF Recheck
<1>4. CASE StoreIncoming(w)
  BY <1>4 DEF StoreIncoming
<1>5. CASE Inbound(w)
  BY <1>5 DEF Inbound
<1>6. CASE GateOpen(w)
  BY <1>6 DEF GateOpen
<1>7. CASE GateSkipped(w)
  BY <1>7 DEF GateSkipped
<1>8. CASE SessionPasses(w)
  BY <1>8 DEF SessionPasses
<1>9. CASE Decide(w)
  BY <1>9 DEF Decide
<1>10. CASE Apply(w)
  BY <1>10 DEF Apply
<1>11. CASE Reply(w)
  BY <1>11 DEF Reply
<1>12. CASE Sent(w)
  BY <1>12 DEF Sent
<1>13. CASE Plan(w)
  BY <1>13 DEF Plan
<1> QED
  BY <1>1, <1>2, <1>3, <1>4, <1>5, <1>6, <1>7, <1>8, <1>9, <1>10, <1>11, <1>12, <1>13 DEF WorkerStep

\* The positions behind the session gate.
Admitted == {"decide", "apply", "reply", "sending", "plan", "schedule"}

LEMMA Admission ==
  ASSUME ChatTypes, [Next]_vars, NEW v \in Workers, pc'[v] \in Admitted, pc[v] \notin Admitted
  PROVE  SessionPasses(v)
<1>1. CASE Still \/ Crash
  BY <1>1 DEF Still, Crash, Admitted
<1>2. ASSUME NEW w \in Workers, Hop(w), Acts(w) PROVE SessionPasses(v)
  <2>1. v = w
    BY <1>2 DEF Hop
  <2>2. WorkerStep(v)
    BY <1>2, <2>1 DEF Acts, Deliver, ChatTypes, Admitted
  <2>3. Apply(v) => pc[v] \in Admitted
    BY DEF Apply, At, Admitted
  <2>4. (Decide(v) \/ Reply(v) \/ Sent(v) \/ Plan(v)) => pc[v] \in Admitted
    BY DEF Decide, Reply, Sent, Plan, At, Admitted
  <2> QED
    BY <2>2, <2>3, <2>4, WorkerPath DEF Admitted
<1> QED
  BY <1>1, <1>2, ChatMoves

\* The rows stay, whatever is added.
LEMMA InboxGrows ==
  ASSUME CoreInv, [Next]_vars
  PROVE  \A r \in DOMAIN inbox : r \in DOMAIN inbox' /\ inbox'[r].msg = inbox[r].msg
<1>0. inbox \in Seq(Incoming)
  BY DEF CoreInv, ChatTypes
<1>1. CASE SameMessages
  BY <1>0, <1>1 DEF SameMessages
<1>2. ASSUME NEW w, Stores(w)
      PROVE  \A r \in DOMAIN inbox : r \in DOMAIN inbox' /\ inbox'[r].msg = inbox[r].msg
  BY <1>0, <1>2 DEF Stores
<1>3. CASE Still \/ Crash
  BY <1>3 DEF Still, Crash
<1>4. ASSUME UNCHANGED inbox PROVE SameMessages
  BY <1>4, SameInbox DEF CoreInv
<1> QED
  BY <1>1, <1>2, <1>3, <1>4, ChatMoves DEF CoreInv, Hop, Arrives, Enters, Checks, Onward, Ends

\* A message that opens the funnel came in.
Opened == \E t \in DOMAIN inbox : inbox[t].msg \in Triggers

\* Behind the session gate the session is open, and it was a trigger that
\* opened it: NeverSpeaksFirst says nothing of an answer that is under way.
SessionInv ==
  /\ client.session => Opened
  /\ \A w \in Workers : pc[w] \in Admitted => client.session
  /\ NeverSpeaksFirst

LEMMA SessionStep ==
  ASSUME CoreInv, CallInv, SessionInv, [Next]_vars
  PROVE  SessionInv'
<1>0. /\ \A r \in DOMAIN inbox : r \in DOMAIN inbox' /\ inbox'[r].msg = inbox[r].msg
      /\ inbox \in Seq(Incoming) /\ client \in ClientRecords /\ ChatTypes /\ OpInv
  BY InboxGrows DEF CoreInv, ChatTypes
<1>1. Opened => Opened'
  BY <1>0 DEF Opened
<1>2. ASSUME NEW w \in Workers, SessionPasses(w) PROVE Opened
  <2>1. CASE client.session
    BY <2>1 DEF SessionInv
  <2>2. CASE turn[w].msg \in Triggers
    <3>1. inbox # <<>> /\ inbox[Len(inbox)].msg = turn[w].msg
      BY <1>2, StoredPlaces DEF SessionPasses, At, CoreInv, DeliveryInv
    <3> QED
      BY <1>0, <2>2, <3>1 DEF Opened
  <2> QED
    BY <1>2, <2>1, <2>2 DEF SessionPasses, Matches
<1>3. client'.session => Opened \/ client.session
  BY <1>0, <1>2, ClientMoves DEF ClientStep, Opens, WriteClient
<1>4. client.session => client'.session
  BY <1>0, ClientMoves DEF ClientStep, Opens, WriteClient
<1>5. ASSUME NEW w \in Workers, SessionPasses(w) PROVE client'.session
  BY <1>0, <1>5, WithSessionSucceeds DEF SessionPasses, WriteClient
<1>6. ASSUME NEW w \in Workers, pc'[w] \in Admitted PROVE client'.session
  BY <1>0, <1>4, <1>5, <1>6, Admission DEF SessionInv
<1>7. NeverSpeaksFirst'
  <2>1. CASE UNCHANGED wire
    BY <1>0, <2>1 DEF SessionInv, NeverSpeaksFirst
  <2>2. ASSUME NEW p \in Procs, Transmits(p) PROVE NeverSpeaksFirst'
    <3> DEFINE e == [item |-> call[p].item, row |-> call[p].row]
    <3>1. wire \in Seq(MP!Transmissions) /\ e \in MP!Transmissions /\ wire' = Append(wire, e)
      BY <2>2, Transmitting DEF Transmits
    <3>2. e.item = call[p].item /\ UNCHANGED inbox
      BY <2>2 DEF Transmits, chatVars
    <3> HIDE DEF e
    <3>3. /\ DOMAIN wire' = DOMAIN wire \cup {Len(wire) + 1} /\ wire'[Len(wire) + 1] = e
          /\ \A i \in DOMAIN wire : wire'[i] = wire[i]
      BY <3>1
    <3>4. ASSUME e.item \in Messages
          PROVE  \E r, t \in DOMAIN inbox :
                   t <= r /\ inbox[r].msg = e.item /\ inbox[t].msg \in Triggers
      <4>1. p \in Workers
        BY <2>2, <3>2, <3>4, Transmitting DEF Procs
      <4>2. pc[p] = "sending" /\ call[p].item = turn[p].msg /\ inbox # <<>>
            /\ inbox[Len(inbox)].msg = turn[p].msg
        BY <2>2, <4>1, Transmitting
      <4>3. Opened
        BY <4>1, <4>2 DEF SessionInv, Admitted
      <4>4. PICK t \in DOMAIN inbox : inbox[t].msg \in Triggers
        BY <4>3 DEF Opened
      <4>5. Len(inbox) \in DOMAIN inbox /\ t <= Len(inbox)
        BY <1>0, <4>2
      <4> QED
        BY <3>2, <4>2, <4>4, <4>5
    <3> QED
      BY <3>2, <3>3, <3>4 DEF SessionInv, NeverSpeaksFirst
  <2> QED
    BY <2>1, <2>2, WireGrows
<1> QED
  BY <1>1, <1>3, <1>6, <1>7 DEF SessionInv

LEMMA SessionInit == Init => SessionInv
  BY DEF Init, M!Init, SessionInv, NewClient, Admitted, NeverSpeaksFirst

\* The assistant never speaks first, with any number of workers, consultants and
\* messages, whatever fails, is delivered again or crashes: whatever it says
\* answers a stored message, and a trigger came no later than that message
\* (sessionGate; Pipeline.Handle).
THEOREM ClientsSpeakFirst == Spec => []NeverSpeaksFirst
<1>1. SessionInv => NeverSpeaksFirst
  BY DEF SessionInv
<1>2. CoreInv /\ CallInv /\ SessionInv /\ [Next]_vars => SessionInv'
  BY SessionStep
<1> QED
  BY <1>1, <1>2, Sending, SessionInit, PTL DEF Spec

-----------------------------------------------------------------------------
(* At most one answer leaves after a consultant took the client away *)

\* The messages answered since automation was shut off.
LateMessages == {wire[i].item : i \in closedAt + 1 .. Len(wire)} \cap Messages

\* The positions behind the CRM gate.
Passed == {"session"} \cup Admitted

\* Shut off, and at most one message may still be answered: the one of the turn
\* that passed the gate before.
LateInv ==
  HandsOff(client) =>
    \E m : /\ LateMessages \subseteq {m}
           /\ \A w \in Workers : pc[w] \in Passed => turn[w].msg = m

\* While automation is shut off, the gate lets no turn pass.
LEMMA GateHolds ==
  ASSUME "load" \notin Faults, HandsOff(client), ChatTypes, [Next]_vars,
         NEW v \in Workers, pc'[v] \in Passed
  PROVE  pc[v] \in Passed /\ turn'[v].msg = turn[v].msg
<1>1. CASE Still
  BY <1>1 DEF Still, SameDelivery
<1>2. CASE Crash
  BY <1>2 DEF Crash, Passed, Admitted
<1>3. ASSUME NEW w \in Workers, Hop(w), Acts(w) PROVE pc[v] \in Passed /\ turn'[v].msg = turn[v].msg
  <2>1. CASE v # w
    BY <1>3, <2>1 DEF Hop
  <2>2. CASE v = w
    <3>1. Onward(v)
      BY <1>3, <2>2 DEF Hop, Arrives, Enters, Checks, Stores, Ends, Passed, Admitted
    <3>2. WorkerStep(v)
      BY <1>3, <2>2 DEF Acts, Deliver, ChatTypes, Passed, Admitted
    <3>3. ~GateOpen(v) /\ ~GateSkipped(v)
      BY DEF GateOpen, GateSkipped, CrmGate, HandsOff
    <3>4. /\ SessionPasses(v) => pc[v] \in Passed
          /\ Decide(v) \/ Apply(v) \/ Reply(v) \/ Sent(v) \/ Plan(v) => pc[v] \in Passed
      BY DEF SessionPasses, Decide, Apply, Reply, Sent, Plan, At, Passed, Admitted
    <3>5. pc[v] \in Passed
      BY <3>2, <3>3, <3>4, WorkerPath DEF Passed, Admitted
    <3> QED
      BY <3>1, <3>5 DEF Onward, SameDelivery
  <2> QED
    BY <2>1, <2>2
<1> QED
  BY <1>1, <1>2, <1>3, ChatMoves

LEMMA LateStep ==
  ASSUME "load" \notin Faults, CoreInv, CallInv, LateInv, [Next]_vars
  PROVE  LateInv'
<1> SUFFICES ASSUME HandsOff(client)'
             PROVE  \E m : /\ LateMessages' \subseteq {m}
                           /\ \A w \in Workers : pc'[w] \in Passed => turn'[w].msg = m
  BY DEF LateInv
<1>0. wire \in Seq(MP!Transmissions) /\ closedAt \in 0 .. Len(wire) /\ ChatTypes /\ ClientStep
  BY CoreSend, ClientMoves DEF CoreInv
<1>1. CASE ~HandsOff(client)
  <2>1. closedAt' = Len(wire) /\ UNCHANGED wire
    BY <1>0, <1>1 DEF ClientStep, WriteClient, HandsOff
  <2>2. LateMessages' = {}
    <3>1. Len(wire) + 1 .. Len(wire) = {}
      BY <1>0
    <3> QED
      BY <2>1, <3>1 DEF LateMessages
  <2>3. CoreInv'
    BY CoreStep
  \* Only one turn is behind the gate, because it is behind the lock.
  <2>4. \A w \in Workers : pc'[w] \in Passed => orderLock' = w
    BY <2>3, PlacesOfTurn, StoredPlaces DEF CoreInv, LockInv, OneTurnAtATime, Passed, Admitted
  <2> QED
    BY <2>2, <2>4
<1>2. CASE HandsOff(client)
  <2>1. PICK m : /\ LateMessages \subseteq {m}
                 /\ \A w \in Workers : pc[w] \in Passed => turn[w].msg = m
    BY <1>2 DEF LateInv
  <2>2. \A w \in Workers : pc'[w] \in Passed => turn'[w].msg = m
    BY <1>0, <1>2, <2>1, GateHolds
  <2>3. UNCHANGED closedAt
    BY <1>0, <1>2 DEF ClientStep, WriteClient
  <2>4. CASE UNCHANGED wire
    BY <2>1, <2>2, <2>3, <2>4 DEF LateMessages
  <2>5. ASSUME NEW p \in Procs, Transmits(p) PROVE LateMessages' \subseteq {m}
    <3> DEFINE e == [item |-> call[p].item, row |-> call[p].row]
    <3>1. e \in MP!Transmissions /\ wire' = Append(wire, e)
      BY <2>5, Transmitting DEF Transmits
    <3>2. e.item = call[p].item
      OBVIOUS
    <3> HIDE DEF e
    <3>3. /\ Len(wire') = Len(wire) + 1 /\ wire'[Len(wire) + 1] = e /\ Len(wire) \in Nat
          /\ \A i \in 1 .. Len(wire) : wire'[i] = wire[i]
      BY <1>0, <3>1
    <3>4. e.item \in Messages => e.item = m
      <4>1. p \in Workers => pc[p] = "sending" /\ call[p].item = turn[p].msg
        BY <2>5, Transmitting
      <4>2. p \in Consultants => call[p].item \notin Messages
        BY <2>5, Transmitting
      <4> QED
        BY <2>1, <3>2, <4>1, <4>2 DEF Procs, Passed, Admitted
    <3>5. ASSUME NEW i \in closedAt + 1 .. Len(wire'), wire'[i].item \in Messages
          PROVE  wire'[i].item = m
      <4>1. CASE i = Len(wire) + 1
        BY <3>3, <3>4, <3>5, <4>1
      <4>2. CASE i # Len(wire) + 1
        <5>1. i \in closedAt + 1 .. Len(wire) /\ wire'[i] = wire[i]
          BY <1>0, <3>3, <4>2
        <5> QED
          BY <2>1, <3>5, <5>1 DEF LateMessages
      <4> QED
        BY <4>1, <4>2
    <3> QED
      BY <2>3, <3>5 DEF LateMessages
  <2> QED
    BY <2>2, <2>4, <2>5, WireGrows
<1> QED
  BY <1>1, <1>2

\* Once consultants took a client away (took him over, paused or blocked him), the
\* assistant finishes at most the one answer under way, with any number of workers, consultants, messages
\* and retries, whatever fails but the load of the record, whenever deadlines
\* pass and the process dies. A turn whose record could not be loaded is not
\* asked by the gate; that this is the only exception is what the hypothesis
\* says (Pipeline.Handle, the CRM gate).
THEOREM OneLateAnswer ==
  ASSUME "load" \notin Faults
  PROVE  Spec => []AtMostOneLateAnswer
<1>1. Init => LateInv
  BY DEF Init, NewClient, LateInv, HandsOff
<1>2. LateInv => AtMostOneLateAnswer
  <2> SUFFICES ASSUME LateInv, HandsOff(client) PROVE Cardinality(LateMessages) <= 1
    BY DEF AtMostOneLateAnswer, LateMessages
  <2>1. PICK m : LateMessages \subseteq {m}
    BY DEF LateInv
  <2>2. LateMessages = {} \/ LateMessages = {m}
    BY <2>1
  <2>3. Cardinality({}) = 0 /\ Cardinality({m}) = 1
    BY FS_EmptySet, FS_Singleton
  <2> QED
    BY <2>2, <2>3
<1>3. CoreInv /\ CallInv /\ LateInv /\ [Next]_vars => LateInv'
  BY LateStep
<1> QED
  BY <1>1, <1>2, <1>3, Sending, PTL DEF Spec

-----------------------------------------------------------------------------
(* A pending nudge hangs on the newest message *)

\* The hypotheses of NudgeHangsOnNewest: the cancellation does not fail, and no
\* turn ends between the insert of its message and the cancellation.
Calm == "cancel" \notin Faults /\ Hasty \cap Workers = {} /\ MaxCrashes = 0

LEMMA Deadlines ==
  ASSUME CoreInv, [Next]_vars, NEW v \in Workers, expired'[v]
  PROVE  expired[v] \/ v \in Hasty
<1>0. expired \in [Procs -> BOOLEAN]
  BY CoreSend DEF SendTypes
<1>1. ASSUME NEW w \in Workers, WorkerStep(w) PROVE expired[v]
  <2>1. CASE TakeOrder(w) \/ OrderCancelled(w) \/ Recheck(w) \/ StoreIncoming(w) \/ Inbound(w)
             \/ BotOff(w) \/ GateClosed(w) \/ GateOpen(w) \/ GateSkipped(w) \/ SessionPasses(w)
    BY <1>0, <2>1 DEF TakeOrder, OrderCancelled, Recheck, StoreIncoming, Inbound, BotOff,
         GateClosed, Silence, GateOpen, GateSkipped, SessionPasses, Goto, Finish, sendVars, Procs
  <2>2. CASE SessionIgnores(w) \/ Decide(w) \/ Apply(w) \/ Reply(w) \/ SendCut(w) \/ Sent(w)
             \/ Plan(w) \/ Schedule(w) \/ ReplyEmpty(w) \/ Abort(w)
    BY <1>0, <2>2 DEF SessionIgnores, Silence, Decide, Apply, Reply, SendCut, Sent, Plan, Schedule,
         ReplyEmpty, Abort, Goto, Finish, M!Request, M!Return, Procs
  <2> QED
    BY <1>1, <2>1, <2>2 DEF WorkerStep
<1>2. ASSUME NEW c \in Consultants, ConsultantStep(c) PROVE expired[v]
  BY <1>0, <1>2, Names DEF ConsultantStep, TakeOver, ResumeAI, PauseAI, Block, Unblock, SetStatus,
       UpdateClient, SpeakUp, CancelNudges, Answered, AbortOp, EndOp, ThenCancel, M!Request, Procs
<1>3. ASSUME NEW w, NEW m, Deliver(w, m) \/ DropDelivery(w, m) PROVE expired[v]
  BY <1>3 DEF Deliver, DropDelivery, sendVars
<1>4. ASSUME NEW c, NEW what, Begin(c, what) PROVE expired[v]
  BY <1>4 DEF Begin, sendVars
<1>5. ASSUME NEW p \in Procs, SendStep(p) PROVE expired[v]
  BY <1>5, StepSame DEF SendStep, MP!Step, MP!Lock, MP!LockCancelled, MP!Store, MP!Accepted,
       MP!FailedTransiently, MP!GaveUp, MP!Record
<1>6. ASSUME NEW p \in Hasty, Expire(p) PROVE expired[v] \/ v \in Hasty
  BY <1>0, <1>6, Names DEF Expire
<1>7. CASE Crash
  BY <1>7 DEF Crash, M!Crash, Procs
<1>8. CASE UNCHANGED vars
  BY <1>8 DEF vars
<1> QED
  BY <1>1, <1>2, <1>3, <1>4, <1>5, <1>6, <1>7, <1>8 DEF Next

Inbounding == \E w \in Workers : pc[w] = "inbound"

\* A nudge is pending for the newest message, or for the one before while the
\* newest is about to cancel it. NudgeHangsOnNewest is silent about the newest.
NudgeInv ==
  /\ \A w \in Workers : ~expired[w]
  /\ \A r, s \in DOMAIN inbox : inbox[r].msg = inbox[s].msg => r = s
  /\ \A m \in Messages : jobs[m] = "pending" => Exists(m)
  /\ \A r \in DOMAIN inbox : jobs[inbox[r].msg] = "pending" =>
       r = Len(inbox) \/ (r = Len(inbox) - 1 /\ Inbounding)

\* A worker that goes on from "inbound" has cancelled what was pending.
LEMMA InboundCancels ==
  ASSUME Calm, CoreInv, NudgeInv, [Next]_vars, NEW v \in Workers, pc[v] = "inbound"
  PROVE  pc'[v] = "inbound" \/ jobs' = Cancelled
<1>1. CASE Still
  BY <1>1 DEF Still
<1>2. ~Crash
  BY DEF Crash, Calm, CoreInv, CountInv
<1>3. ASSUME NEW w \in Workers, Hop(w), Acts(w) PROVE pc'[v] = "inbound" \/ jobs' = Cancelled
  <2>1. CASE v # w
    BY <1>3, <2>1 DEF Hop
  <2>2. CASE v = w
    <3>1. WorkerStep(v)
      BY <1>3, <2>2 DEF Acts, Deliver
    <3>2. Inbound(v)
      BY <3>1 DEF NudgeInv, WorkerStep, TakeOrder, OrderCancelled, Recheck, StoreIncoming, BotOff,
           GateClosed, GateOpen, GateSkipped, SessionPasses, SessionIgnores, Decide, Apply, Reply,
           SendCut, Sent, Plan, Schedule, ReplyEmpty, Abort, At
    <3> QED
      BY <3>2 DEF Inbound, Calm
  <2> QED
    BY <2>1, <2>2
<1> QED
  BY <1>1, <1>2, <1>3, ChatMoves DEF CoreInv

LEMMA NudgeStep ==
  ASSUME Calm, CoreInv, NudgeInv, [Next]_vars
  PROVE  NudgeInv'
<1>0. /\ inbox \in Seq(Incoming) /\ Len(inbox) \in Nat
      /\ jobs \in [Messages -> {"none", "pending", "cancelled"}]
      /\ \A r \in DOMAIN inbox : inbox[r].msg \in Messages
  <2>1. inbox \in Seq(Incoming) /\ jobs \in [Messages -> {"none", "pending", "cancelled"}]
    BY DEF CoreInv, ChatTypes
  <2>2. \A r \in DOMAIN inbox : inbox[r] \in Incoming
    BY <2>1
  <2> QED
    BY <2>1, <2>2 DEF Incoming
<1>1. \A w \in Workers : ~expired'[w]
  BY Deadlines DEF NudgeInv, Calm
<1>2. ASSUME NEW w \in Workers, Schedule(w)
      PROVE  inbox # <<>> /\ turn[w].msg = inbox[Len(inbox)].msg /\ UNCHANGED inbox
             /\ ~Inbounding
  <2>1. pc[w] = "schedule" /\ UNCHANGED inbox
    BY <1>2 DEF Schedule, At
  <2>2. \A v \in Workers : pc[v] # "inbound"
    BY <2>1, PlacesOfTurn, StoredPlaces DEF CoreInv, LockInv, OneTurnAtATime
  <2> QED
    BY <2>1, <2>2, StoredPlaces DEF CoreInv, DeliveryInv, Inbounding
<1>3. ASSUME NEW m \in Messages, jobs'[m] = "pending"
      PROVE  \/ jobs[m] = "pending" /\ jobs' # Cancelled
             \/ \E w \in Workers : Schedule(w) /\ m = turn[w].msg
  BY <1>0, <1>3, JobsMoves DEF Cancelled
<1>4. ASSUME NEW w \in Workers, Stores(w) PROVE NudgeInv'
  <2>1. /\ DOMAIN inbox' = DOMAIN inbox \cup {Len(inbox) + 1} /\ Len(inbox') = Len(inbox) + 1
        /\ inbox'[Len(inbox) + 1].msg = turn[w].msg
        /\ \A r \in DOMAIN inbox : inbox'[r] = inbox[r] /\ r # Len(inbox) + 1
    BY <1>0, <1>4 DEF Stores
  <2>2. turn[w].msg \in Messages /\ jobs[turn[w].msg] # "pending"
    BY <1>4 DEF Stores, CoreInv, DeliveryInv, NudgeInv
  <2>3. ~Inbounding
    BY <1>4, PlacesOfTurn, StoredPlaces DEF Stores, CoreInv, LockInv, OneTurnAtATime, Inbounding
  <2>4. Inbounding' /\ UNCHANGED jobs
    BY <1>4 DEF Stores, Inbounding
  <2>5. \A r \in DOMAIN inbox : inbox[r].msg # turn[w].msg
    BY <1>4 DEF Stores, Exists
  <2>6. (\A r, s \in DOMAIN inbox : inbox[r].msg = inbox[s].msg => r = s)'
    BY <2>1, <2>5 DEF NudgeInv
  <2>7. (\A m \in Messages : jobs[m] = "pending" => Exists(m))'
    BY <2>1, <2>4 DEF NudgeInv, Exists
  <2>8. ASSUME NEW r \in DOMAIN inbox', jobs'[inbox'[r].msg] = "pending"
        PROVE  r = Len(inbox') - 1
    <3>1. r \in DOMAIN inbox /\ inbox'[r] = inbox[r]
      BY <2>1, <2>2, <2>4, <2>8
    <3>2. r = Len(inbox)
      BY <2>3, <2>4, <2>8, <3>1 DEF NudgeInv
    <3> QED
      BY <1>0, <2>1, <3>2
  <2> QED
    BY <1>1, <2>4, <2>6, <2>7, <2>8 DEF NudgeInv
<1>5. ASSUME SameMessages PROVE NudgeInv'
  <2>1. /\ DOMAIN inbox' = DOMAIN inbox /\ Len(inbox') = Len(inbox)
        /\ \A r \in DOMAIN inbox : inbox'[r].msg = inbox[r].msg
    BY <1>0, <1>5 DEF SameMessages
  <2>2. (\A r, s \in DOMAIN inbox : inbox[r].msg = inbox[s].msg => r = s)'
    BY <2>1 DEF NudgeInv
  <2>3. (\A m \in Messages : jobs[m] = "pending" => Exists(m))'
    <3>1. ASSUME NEW w \in Workers, Schedule(w) PROVE Exists(turn[w].msg)
      BY <1>0, <1>2, <3>1 DEF Exists
    <3>2. \A m : Exists(m) => Exists(m)'
      BY <2>1 DEF Exists
    <3> QED
      BY <1>3, <3>1, <3>2 DEF NudgeInv
  <2>4. ASSUME NEW r \in DOMAIN inbox, jobs'[inbox[r].msg] = "pending"
        PROVE  r = Len(inbox) \/ (r = Len(inbox) - 1 /\ Inbounding')
    <3>1. ASSUME NEW w \in Workers, Schedule(w), inbox[r].msg = turn[w].msg PROVE r = Len(inbox)
      BY <1>0, <1>2, <3>1 DEF NudgeInv
    <3>2. CASE jobs[inbox[r].msg] = "pending" /\ jobs' # Cancelled
      <4>1. Inbounding => Inbounding'
        BY <3>2, InboundCancels DEF Inbounding
      <4> QED
        BY <3>2, <4>1 DEF NudgeInv
    <3> QED
      BY <1>0, <1>3, <2>4, <3>1, <3>2
  <2> QED
    BY <1>1, <2>1, <2>2, <2>3, <2>4 DEF NudgeInv
<1>6. ASSUME UNCHANGED inbox PROVE SameMessages
  BY <1>6, SameInbox DEF CoreInv
<1> QED
  BY <1>4, <1>5, <1>6, ChatMoves
     DEF CoreInv, Hop, Arrives, Enters, Checks, Onward, Ends, Still, Crash

\* A pending nudge hangs on the newest message of the client, except while the
\* turn of a newer one is about to cancel it, with any number of workers,
\* consultants and messages and every other fault (onInbound, planFollowUp).
THEOREM NudgesHangOnNewest ==
  ASSUME Calm
  PROVE  Spec => []NudgeHangsOnNewest
<1>1. Init => NudgeInv
  BY DEF Init, M!Init, NudgeInv, Procs
<1>2. CoreInv /\ NudgeInv => NudgeHangsOnNewest
  <2> SUFFICES ASSUME CoreInv, NudgeInv, NEW r \in DOMAIN inbox, NEW n \in DOMAIN inbox, r < n,
                      jobs[inbox[r].msg] = "pending"
               PROVE  \E w \in Workers : turn[w].row = n /\ pc[w] = "inbound"
    BY DEF NudgeHangsOnNewest
  <2>1. inbox \in Seq(Incoming)
    BY DEF CoreInv, ChatTypes
  <2>2. n = Len(inbox) /\ Inbounding
    BY <2>1 DEF NudgeInv
  <2>3. PICK w \in Workers : pc[w] = "inbound"
    BY <2>2 DEF Inbounding
  <2> QED
    BY <2>2, <2>3, StoredPlaces DEF CoreInv, DeliveryInv
<1>3. CoreInv /\ NudgeInv /\ [Next]_vars => NudgeInv'
  BY NudgeStep
<1> QED
  BY <1>1, <1>2, <1>3, Core, PTL DEF Spec

-----------------------------------------------------------------------------
(* What an assistant's turn may do to the status *)

\* The positions before the gate: nothing was loaded yet.
Early == Positions \ (Passed \cup {"schedule"})

\* The statuses a turn may move a lead away from.
Movable == AIStatuses \ {"needs_consultant"}

\* A turn that no consultant touched works with the status the record has: that
\* is what makes the write at its end harmless.
SnapInv ==
  \A w \in Workers :
    /\ pc[w] \in Early => turn[w].snap = None
    /\ pc[w] \in {"session", "decide"} /\ ~turn[w].touched /\ turn[w].snap # None
         => turn[w].snap.status = client.status
    /\ pc[w] = "apply" /\ ~turn[w].touched /\ turn[w].next # None
         => turn[w].next.status = client.status \/ client.status \in Movable

LEMMA EarlyPlaces == Early = {"idle", "order", "recheck", "store", "inbound", "gate"}
  BY DEF Early, Passed, Admitted, Positions

\* The step of a worker, for its own turn.
LEMMA SnapOwn ==
  ASSUME CoreInv, SnapInv, NEW w \in Workers, Hop(w), Acts(w)
  PROVE  /\ pc'[w] \in Early => turn'[w].snap = None
         /\ pc'[w] \in {"session", "decide"} /\ ~turn'[w].touched /\ turn'[w].snap # None
              => turn'[w].snap.status = client'.status
         /\ pc'[w] = "apply" /\ ~turn'[w].touched /\ turn'[w].next # None
              => turn'[w].next.status = client'.status \/ client'.status \in Movable
<1>0. /\ ChatTypes /\ turn[w] \in Turns /\ pc' \in [Workers -> Positions]
      /\ client \in ClientRecords /\ turn \in [Workers -> Turns]
  BY DEF CoreInv, ChatTypes, Hop
<1>1. CASE pc'[w] \in Early
  <2>1. pc'[w] = "gate" => turn'[w].snap = turn[w].snap /\ pc[w] = "inbound"
    BY <1>0, WorkerPath DEF Acts, Deliver, Inbound, At
  <2>2. turn'[w].snap = None
    <3>1. CASE Arrives(w) \/ Ends(w)
      <4>1. \A m : Turn(m).snap = None
        BY DEF Turn
      <4> QED
        BY <3>1, <4>1 DEF Arrives, Ends, NoTurn
    <3>2. CASE Enters(w) \/ Checks(w) \/ Stores(w)
      BY <3>2, EarlyPlaces DEF Enters, Checks, Stores, SnapInv
    <3>3. CASE Onward(w)
      <4>1. pc'[w] = "gate"
        BY <1>1, <3>3, EarlyPlaces, StoredPlaces DEF Onward
      <4> QED
        BY <2>1, <4>1, EarlyPlaces DEF SnapInv
    <3> QED
      BY <3>1, <3>2, <3>3 DEF Hop
  <2> QED
    BY <1>1, <2>2, EarlyPlaces
<1>2. CASE pc'[w] = "session"
  <2>1. WorkerStep(w)
    BY <1>0, <1>2 DEF Acts, Deliver
  <2>2. CASE GateOpen(w)
    <3>1. turn'[w] = [turn[w] EXCEPT !.snap = client] /\ UNCHANGED client
      BY <1>0, <2>2 DEF GateOpen
    <3>2. [turn[w] EXCEPT !.snap = client].snap = client
      BY <1>0, SetSnap
    <3> QED
      BY <1>2, <3>1, <3>2, EarlyPlaces
  <2>3. CASE GateSkipped(w)
    <3>1. turn' = turn /\ pc[w] = "gate"
      BY <2>3 DEF GateSkipped, At
    <3> QED
      BY <1>2, <3>1, EarlyPlaces DEF SnapInv
  <2> QED
    BY <1>0, <1>2, <2>1, <2>2, <2>3, WorkerPath
<1>3. CASE pc'[w] = "decide"
  <2>1. WorkerStep(w)
    BY <1>0, <1>3 DEF Acts, Deliver
  <2>2. SessionPasses(w)
    BY <1>0, <1>3, <2>1, WorkerPath
  <2>3. turn' = turn /\ pc[w] = "session" /\ client'.status = client.status
    BY <1>0, <2>2, WithSessionSucceeds DEF SessionPasses, At, WriteClient
  <2> QED
    BY <1>3, <2>3, EarlyPlaces DEF SnapInv
<1>4. CASE pc'[w] = "apply"
  <2>1. WorkerStep(w)
    BY <1>0, <1>4 DEF Acts, Deliver
  <2>2. Decide(w)
    BY <1>0, <1>4, <2>1, WorkerPath
  <2>3. pc[w] = "decide" /\ client' = client
    BY <2>2 DEF Decide, At
  <2>4. turn[w].snap # None => turn[w].snap \in ClientRecords
    BY <1>0, TurnFields
  <2>5. PICK o \in Answers, n \in NextStates \cup {None} :
          /\ turn'[w].next = n
          /\ n # None => /\ turn[w].snap # None
                         /\ n.status = TurnStatus(turn[w].snap.stage, turn[w].snap.status, o)
    BY <1>0, <2>2, <2>4, DecideHops
  <2>6. turn'[w].next = n /\ turn'[w].touched = turn[w].touched
    BY <1>0, <2>2, <2>4, <2>5, DecideHops
  <2>7. ASSUME ~turn[w].touched, n # None
        PROVE  n.status = client.status \/ client.status \in Movable
    <3>1. turn[w].snap.status = client.status /\ client.status \in Statuses
      BY <1>0, <2>3, <2>5, <2>7 DEF SnapInv, ClientRecords
    <3>2. n.status = TurnStatus(turn[w].snap.stage, client.status, o)
      BY <2>5, <2>7, <3>1
    <3> QED
      BY <3>1, <3>2, TurnStatusMoves DEF Movable
  <2> QED
    BY <1>4, <2>3, <2>6, <2>7, EarlyPlaces
<1> QED
  BY <1>1, <1>2, <1>3, <1>4

LEMMA SnapStep ==
  ASSUME CoreInv, SnapInv, [Next]_vars
  PROVE  SnapInv'
<1>0. ChatTypes
  BY DEF CoreInv
<1>1. CASE Still
  BY <1>1 DEF Still, SnapInv
<1>2. CASE Crash
  BY <1>2, EarlyPlaces DEF Crash, SnapInv, NoTurn, Turn
<1>3. ASSUME NEW w \in Workers, Hop(w), Acts(w) PROVE SnapInv'
  <2>1. ASSUME NEW v \in Workers \ {w}
        PROVE  /\ pc'[v] = pc[v] /\ turn'[v] = turn[v]
               /\ pc[v] \in {"session", "decide", "apply"} => client' = client
    <3>1. pc'[v] = pc[v] /\ turn'[v] = turn[v]
      BY <1>3 DEF Hop
    <3>2. ASSUME pc[v] \in {"session", "decide", "apply"} PROVE client' = client
      <4>1. pc[w] \notin InTurn
        BY <3>2, PlacesOfTurn, StoredPlaces DEF CoreInv, LockInv, OneTurnAtATime
      <4>2. ~SessionPasses(w) /\ ~Apply(w)
        BY <4>1, PlacesOfTurn, StoredPlaces DEF SessionPasses, Apply, At
      <4>3. CASE WorkerStep(w)
        BY <4>2, <4>3, WorkerKeeps
      <4>4. ASSUME NEW m, Deliver(w, m) PROVE client' = client
        BY <4>4 DEF Deliver
      <4> QED
        BY <1>3, <4>3, <4>4 DEF Acts
    <3> QED
      BY <3>1, <3>2
  <2> QED
    BY <1>3, <2>1, SnapOwn DEF SnapInv
<1> QED
  BY <1>0, <1>1, <1>2, <1>3, ChatMoves

\* A turn of the assistant never takes a lead away from where a human or an
\* escalation put it, unless a consultant wrote to the record after the turn
\* loaded it: for any number of workers and consultants, whatever fails or
\* crashes (applyCRMState, domain.NextStatus).
THEOREM EscalationsStick == Spec => EscalationSticks
<1>1. Init => SnapInv
  BY DEF Init, SnapInv, NoTurn, Turn
<1>2. CoreInv /\ SnapInv /\ [Next]_vars => SnapInv'
  BY SnapStep
<1>3. ASSUME CoreInv, SnapInv, [Next]_vars, NEW w \in Workers, pc[w] = "apply", pc'[w] # "apply",
             ~turn[w].touched, client'.status # client.status
      PROVE  client.status \in AIStatuses \ {"needs_consultant"}
  <2>0. client \in ClientRecords /\ ChatTypes /\ turn[w] \in Turns
    BY <1>3 DEF CoreInv, ChatTypes
  <2>1. ~Still /\ ~Crash
    BY <1>3 DEF Still, Crash
  <2>2. PICK v \in Workers : Hop(v) /\ Acts(v)
    BY <1>3, <2>0, <2>1, ChatMoves
  <2>3. v = w
    BY <1>3, <2>2 DEF Hop
  <2>4. WorkerStep(w)
    BY <1>3, <2>2, <2>3 DEF Acts, Deliver
  <2>5. ~SessionPasses(w)
    BY <1>3 DEF SessionPasses, At
  <2>6. Apply(w)
    BY <1>3, <2>4, <2>5, WorkerKeeps
  <2>7. /\ turn[w].next # None
        /\ client' = WithAIState(client, turn[w].next.status, turn[w].next.stage)
    BY <1>3, <2>6 DEF Apply, WriteClient
  <2>8. turn[w].next.status \in Statuses /\ turn[w].next.stage \in Stages
    BY <2>0, <2>7, TurnFields, NextStateFields
  <2>9. client'.status \in {client.status, turn[w].next.status}
    BY <2>0, <2>7, <2>8, WithAIStateSucceeds
  <2> QED
    BY <1>3, <2>7, <2>9 DEF SnapInv, Movable
<1>4. CoreInv /\ SnapInv /\ [Next]_vars =>
        [\A w \in Workers :
           /\ pc[w] = "apply" /\ pc'[w] # "apply"
           /\ ~turn[w].touched
           /\ client'.status # client.status
           => client.status \in AIStatuses \ {"needs_consultant"}]_vars
  BY <1>3
<1> QED
  BY <1>1, <1>2, <1>4, Core, PTL DEF Spec, EscalationSticks

-----------------------------------------------------------------------------
(* What Messenger promises, in the chat *)

SendInv == MP!SendExclusive /\ MP!OrderInv /\ MP!TakenInv /\ MP!CopiesInv

LEMMA SendInvStep ==
  ASSUME CoreInv, SendInv, [Next]_vars
  PROVE  SendInv'
<1>1. MP!Moves
  BY CoreSend, SendMoves
<1> QED
  BY <1>1, SendAssumption, MP!ExclusiveStep, MP!OrderStep, MP!TakenStep, MP!CopiesStep
     DEF CoreInv, SendInv

\* The promises of Send hold in the chat, where turns and consultants call it:
\* one Send is at the provider at a time, the rows follow the wire, a row shown as
\* sent was taken, and no row is transmitted more often than the limit (Messenger;
\* Pipeline.Handle and CRMService.SendMessage call Send).
THEOREM SendKeepsPromises ==
  Spec => [](M!SendExclusive /\ M!StoredInWireOrder /\ M!SentWasTaken /\ M!BoundedCopies)
<1>1. Init => SendInv
  <2>1. Init => MP!Init
    BY DEF Init, M!Init, M!NoCall, M!Call, MP!Init, MP!NoCall, MP!Call
  <2> QED
    BY <2>1, SendAssumption, MP!SendInit, MP!TakenInit DEF SendInv
<1>2. SendInv => M!SendExclusive /\ M!StoredInWireOrder /\ M!SentWasTaken /\ M!BoundedCopies
  <2>1. SendInv => M!SendExclusive /\ M!StoredInWireOrder
    BY DEF SendInv, MP!SendExclusive, MP!Locked, M!SendExclusive, M!Locked, MP!OrderInv,
           MP!StoredInWireOrder, M!StoredInWireOrder
  <2>2. SendInv => M!SentWasTaken
    BY DEF SendInv, MP!TakenInv, MP!SentWasTaken, M!SentWasTaken
  <2>3. SendInv => M!BoundedCopies
    <3>1. \A S : MP!Cardinality(S) = M!Cardinality(S)
      BY DEF MP!Cardinality, M!Cardinality
    <3> QED
      BY <3>1 DEF SendInv, MP!CopiesInv, MP!Copies, M!BoundedCopies
  <2> QED
    BY <2>1, <2>2, <2>3
<1>3. CoreInv /\ SendInv /\ [Next]_vars => SendInv'
  BY SendInvStep
<1> QED
  BY <1>1, <1>2, <1>3, Core, PTL DEF Spec

=============================================================================
