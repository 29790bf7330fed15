------------------------------- MODULE Intake -------------------------------
(***************************************************************************)
(* How a message gets from the provider to the pipeline:                   *)
(*   - the Green API poller (internal/handler/greenapi_polling.go), or     *)
(*   - the requests of Meta's webhook (internal/handler/whatsapp.go),      *)
(*   - the bounded worker pool both feed (internal/worker/pool.go),        *)
(*   - each chat's order lock, which a worker takes in Pipeline.Handle,    *)
(*   - and the shutdown sequence of cmd/main.go.                           *)
(*                                                                         *)
(* What Handle does once the message is stored is module Conversation's:   *)
(* here a turn is one step. A process that has ended may be started again; *)
(* the database and the provider's own queue survive it.                   *)
(***************************************************************************)
EXTENDS Naturals, Sequences, FiniteSets, SequencesExt

CONSTANTS Messages,    \* by provider id
          Chats,
          ChatOf,      \* the order key of each message: inboundOrderKey
          Private,     \* the messages of private chats; the others are groups
          Events,      \* notifications and webhook posts
          Kind,        \* what each event is
          Carried,     \* the messages each event carries, in order
          Feed,        \* the notifications, in the order Green API queues them
          Transports,  \* the transports the configuration may choose
          Receivers,   \* webhook requests at work at once; one of them polls
          Workers,     \* goroutines of the pool
          QueueSize,   \* capacity of the pool's channel
          MaxPosts,    \* bound: posts of one webhook event
          MaxFaults,   \* bound: failed calls, deadlines, time-outs, crashes
          MaxStarts,   \* bound: starts of the process
          None

Kinds == {"malformed",     \* not JSON
          "incoming",      \* Green API: incomingMessageReceived
          "own",           \* the same, sent by this very account
          "status",        \* every other Green API notification
          "blank",         \* Green API: a receipt without a body
          "meta_batch"}    \* Meta: messages of one or more changes

ASSUME IntakeAssumption ==
  /\ ChatOf \in [Messages -> Chats]
  /\ Private \subseteq Messages
  /\ Kind \in [Events -> Kinds]
  /\ Carried \in [Events -> Seq(Messages)]
  /\ Feed \in Seq(Events)
  /\ Transports \subseteq {"polling", "webhook"}
  /\ Receivers # {} /\ IsFiniteSet(Receivers)
  /\ Workers # {} /\ IsFiniteSet(Workers)
  /\ QueueSize \in Nat \ {0}
  /\ MaxPosts \in Nat /\ MaxFaults \in Nat /\ MaxStarts \in Nat \ {0}
  /\ None \notin Events \cup Messages

\* ParseWebhook: only an inbound event has messages, and the echo of a message
\* of this account has none.
ParseWebhook(e) ==
  IF Kind[e] \in {"incoming", "meta_batch"} THEN Carried[e] ELSE <<>>

\* privateWhatsAppMessages: groups and broadcasts are dropped. What is left of an
\* event is the places of its messages, and is worked off in their order.
Wanted(e) == {i \in DOMAIN ParseWebhook(e) : ParseWebhook(e)[i] \in Private}

\* The messages at some places of an event.
At(e, places) == {Carried[e][i] : i \in places}

VARIABLES
  \* the configuration and the provider
  transport,  \* "polling" or "webhook"
  feed,       \* Green API's undeleted notifications
  posts,      \* how often Meta posted each event
  acked,      \* the events deleted at, or acknowledged to, the provider
  \* the process
  phase,      \* running, or a step of the shutdown
  receiver,   \* the poller and the webhook requests
  queue,      \* Pool.jobs
  closed,     \* Pool.closed
  worker,     \* the pool's goroutines
  line,       \* each chat's order lock: its holder and those who wait for it
  \* the database
  stored,     \* the incoming rows of the messages table, in insertion order
  \* bounds and history
  faults,     \* how many faults there were
  starts,     \* how often the process was started
  panicked,   \* history: a send on the closed channel happened
  refused     \* history: acknowledged messages that the pool did not take

providerVars == <<transport, feed, posts, acked>>
poolVars == <<queue, closed>>
workerVars == <<worker, line, stored>>
boundVars == <<faults, starts>>
vars == <<transport, feed, posts, acked, phase, receiver, queue, closed, worker, line,
          stored, faults, starts, panicked, refused>>

Poller == CHOOSE r \in Receivers : TRUE

\* Who receives: the poller alone, or any request.
Active == IF transport = "polling" THEN {Poller} ELSE Receivers

Running == phase # "exited"

\* ctx of main is cancelled by the signal; the poller uses it, jobs do not.
Cancelled == phase # "running"

-----------------------------------------------------------------------------
(* State *)

Receiver(step, e, left) == [pc |-> step, event |-> e, left |-> left]

AtRest == Receiver("idle", None, {})

Worker(step, m) == [pc |-> step, msg |-> m]

Idle == Worker("idle", None)

TypeOK ==
  /\ transport \in Transports
  /\ feed \in Seq(Events)
  /\ posts \in [Events -> 0 .. MaxPosts]
  /\ acked \subseteq Events
  /\ phase \in {"running", "closing", "draining", "exited"}
  /\ receiver \in [Receivers ->
       [pc: {"idle", "read", "submit", "push", "delete", "wait", "gone"},
        event: Events \cup {None}, left: SUBSET Nat]]
  /\ queue \in Seq(Messages) /\ Len(queue) <= QueueSize
  /\ closed \in BOOLEAN
  /\ worker \in [Workers -> [pc: {"idle", "check", "wait", "insert", "handle", "gone"},
                             msg: Messages \cup {None}]]
  /\ line \in [Chats -> Seq(Workers)]
  /\ stored \in Seq(Messages)
  /\ faults \in 0 .. MaxFaults
  /\ starts \in 0 .. MaxStarts
  /\ panicked \in BOOLEAN
  /\ refused \subseteq Messages

\* A fresh process: no queue survives the one before.
FreshProcess ==
  /\ phase' = "running"
  /\ receiver' = [r \in Receivers |-> AtRest]
  /\ queue' = <<>>
  /\ closed' = FALSE
  /\ worker' = [w \in Workers |-> Idle]
  /\ line' = [c \in Chats |-> <<>>]

Init ==
  /\ transport \in Transports
  /\ feed = IF transport = "polling" THEN Feed ELSE <<>>
  /\ posts = [e \in Events |-> 0]
  /\ acked = {}
  /\ phase = "running"
  /\ receiver = [r \in Receivers |-> AtRest]
  /\ queue = <<>>
  /\ closed = FALSE
  /\ worker = [w \in Workers |-> Idle]
  /\ line = [c \in Chats |-> <<>>]
  /\ stored = <<>>
  /\ faults = 0
  /\ starts = 1
  /\ panicked = FALSE
  /\ refused = {}

\* One more fault.
Fault == faults < MaxFaults /\ faults' = faults + 1

\* What memory holds and the database does not.
InHand ==
  {worker[w].msg : w \in {v \in Workers : worker[v].pc \in {"check", "wait", "insert"}}}
InRequests ==
  UNION {At(receiver[r].event, receiver[r].left) : r \in
           {q \in Receivers : transport = "webhook" /\ receiver[q].pc \in {"submit", "push"}}}
Volatile == Range(queue) \cup InHand \cup InRequests

\* The process ends: what it held in memory is gone.
Die ==
  /\ phase' = "exited"
  /\ receiver' = [r \in Receivers |-> AtRest]
  /\ queue' = <<>>
  /\ worker' = [w \in Workers |-> Idle]
  /\ line' = [c \in Chats |-> <<>>]

-----------------------------------------------------------------------------
(* The poller's loop, and one webhook request *)

ReceiverVars == <<phase, queue, closed, worker, line, stored, starts, panicked>>

Step(r, step) == receiver' = [receiver EXCEPT ![r].pc = step]

\* ReceiveNotification hands out the oldest notification until it is deleted. A
\* receipt without a body it takes for an empty queue: the loop asks again, is
\* handed the same item again, and never deletes it.
Poll(r) ==
  /\ transport = "polling" /\ r = Poller /\ ~Cancelled
  /\ receiver[r].pc = "idle" /\ feed # <<>> /\ Kind[Head(feed)] # "blank"
  /\ receiver' = [receiver EXCEPT ![r] = Receiver("read", Head(feed), {})]
  /\ UNCHANGED <<providerVars, ReceiverVars, faults, refused>>

PollFails(r) ==
  /\ transport = "polling" /\ r = Poller /\ Running
  /\ receiver[r].pc = "idle"
  /\ Step(r, "wait")
  /\ Fault
  /\ UNCHANGED <<providerVars, ReceiverVars, refused>>

\* Meta posts an event, and posts it again when it is not sure of the answer.
Post(r, e) ==
  /\ transport = "webhook" /\ ~Cancelled
  /\ receiver[r].pc = "idle"
  /\ Kind[e] \in {"malformed", "meta_batch"} /\ posts[e] < MaxPosts
  /\ posts' = [posts EXCEPT ![e] = @ + 1]
  /\ receiver' = [receiver EXCEPT ![r] = Receiver("read", e, {})]
  /\ UNCHANGED <<transport, feed, acked, ReceiverVars, faults, refused>>

\* The body cannot be read or its signature is wrong: 400 or 403, no acknowledgement.
Reject(r) ==
  /\ transport = "webhook" /\ receiver[r].pc = "read"
  /\ receiver' = [receiver EXCEPT ![r] = AtRest]
  /\ Fault
  /\ UNCHANGED <<providerVars, ReceiverVars, refused>>

\* Seeded fault: a notification without a message to queue is left where it is.
AfterNothing(e, left) ==
  IF left # {} THEN Receiver("submit", e, left) ELSE AtRest

\* What is left to queue, or else the poller's delete, or the end of the request.
After(e, left) ==
  IF left # {} THEN Receiver("submit", e, left)
  ELSE IF transport = "polling" THEN Receiver("delete", e, {}) ELSE AtRest

\* A request acknowledges before it queues anything, malformed events included;
\* the poller acknowledges last.
Read(r) ==
  /\ receiver[r].pc = "read"
  /\ receiver' = [receiver EXCEPT
                    ![r] = After(receiver[r].event, Wanted(receiver[r].event))]
  /\ acked' = IF transport = "webhook" THEN acked \cup {receiver[r].event} ELSE acked
  /\ UNCHANGED <<transport, feed, posts, ReceiverVars, faults, refused>>

\* Submit reads closed under the mutex and releases it.
CheckOpen(r) ==
  /\ receiver[r].pc = "submit" /\ ~closed
  /\ Step(r, "push")
  /\ UNCHANGED <<providerVars, ReceiverVars, faults, refused>>

\* The first message that is left, and the rest.
First(r) == Carried[receiver[r].event][Min(receiver[r].left)]

Advance(r) ==
  receiver' = [receiver EXCEPT ![r] = After(@.event, @.left \ {Min(@.left)})]

\* Submit returned an error. The poller returns it too: the notification stays
\* at the provider. A request logs it and goes on with the next message.
Refuse(r) ==
  IF transport = "polling"
    THEN Step(r, "wait") /\ UNCHANGED refused
    ELSE /\ Advance(r)
         /\ refused' = refused \cup {First(r)}

RefuseClosed(r) ==
  /\ receiver[r].pc = "submit" /\ closed
  /\ Refuse(r)
  /\ UNCHANGED <<providerVars, ReceiverVars, faults>>

\* Seeded fault: one message too many.
RoomForOneMore == Len(queue) <= QueueSize

Room == Len(queue) < QueueSize

RefuseFull(r) ==
  /\ receiver[r].pc = "push" /\ ~closed /\ ~Room
  /\ Refuse(r)
  /\ UNCHANGED <<providerVars, ReceiverVars, faults>>

Push(r) ==
  /\ receiver[r].pc = "push" /\ ~closed /\ Room
  /\ queue' = Append(queue, First(r))
  /\ Advance(r)
  /\ UNCHANGED <<providerVars, phase, closed, workerVars, boundVars, panicked, refused>>

\* The pool was closed between the check and the send: the send panics. Nobody
\* recovers it in the poller's goroutine, so the process dies; net/http recovers
\* it in a request, which is over.
Panic(r) ==
  /\ receiver[r].pc = "push" /\ closed
  /\ panicked' = TRUE
  /\ IF transport = "polling"
       THEN Die /\ UNCHANGED <<closed, stored>>
       ELSE /\ receiver' = [receiver EXCEPT ![r] = AtRest]
            /\ UNCHANGED <<phase, poolVars, workerVars>>
  /\ UNCHANGED <<providerVars, boundVars, refused>>

Gone(e) == feed' = IF feed # <<>> /\ Head(feed) = e THEN Tail(feed) ELSE feed

Delete(r) ==
  /\ receiver[r].pc = "delete" /\ ~Cancelled
  /\ Gone(receiver[r].event)
  /\ acked' = acked \cup {receiver[r].event}
  /\ receiver' = [receiver EXCEPT ![r] = AtRest]
  /\ UNCHANGED <<transport, posts, ReceiverVars, faults, refused>>

\* The call fails, whether the provider carried it out or not.
DeleteFails(r) ==
  /\ receiver[r].pc = "delete" /\ Running
  /\ \/ Gone(receiver[r].event) /\ acked' = acked \cup {receiver[r].event}
     \/ UNCHANGED <<feed, acked>>
  /\ Step(r, "wait")
  /\ Fault
  /\ UNCHANGED <<transport, posts, ReceiverVars, refused>>

Retry(r) ==
  /\ receiver[r].pc = "wait" /\ ~Cancelled
  /\ receiver' = [receiver EXCEPT ![r] = AtRest]
  /\ UNCHANGED <<providerVars, ReceiverVars, faults, refused>>

\* With ctx cancelled every call fails and waitRetry does not wait.
StopPolling(r) ==
  /\ transport = "polling" /\ r = Poller
  /\ phase \in {"closing", "draining"} /\ receiver[r].pc \in {"idle", "delete", "wait"}
  /\ receiver' = [receiver EXCEPT ![r] = Receiver("gone", None, {})]
  /\ UNCHANGED <<providerVars, ReceiverVars, faults, refused>>

Receive(r) ==
  \/ Poll(r) \/ Read(r) \/ CheckOpen(r) \/ RefuseClosed(r) \/ RefuseFull(r) \/ Push(r)
  \/ Panic(r) \/ Delete(r) \/ Retry(r) \/ StopPolling(r)

-----------------------------------------------------------------------------
(* A worker of the pool *)

WorkerFrame == <<providerVars, phase, receiver, closed, starts, panicked>>

\* range p.jobs
Take(w) ==
  /\ worker[w].pc = "idle" /\ queue # <<>>
  /\ worker' = [worker EXCEPT ![w] = Worker("check", Head(queue))]
  /\ queue' = Tail(queue)
  /\ UNCHANGED <<WorkerFrame, line, stored, faults, refused>>

Known(w) == worker[w].msg \in Range(stored)

Chat(w) == ChatOf[worker[w].msg]

\* The fast duplicate check, before the lock.
DropEarly(w) ==
  /\ worker[w].pc = "check" /\ Known(w)
  /\ worker' = [worker EXCEPT ![w] = Idle]
  /\ UNCHANGED <<WorkerFrame, queue, line, stored, faults, refused>>

\* Waiting senders of a Go channel are served in the order they came.
JoinLine(w) ==
  /\ worker[w].pc = "check" /\ ~Known(w)
  /\ worker' = [worker EXCEPT ![w].pc = "wait"]
  /\ line' = [line EXCEPT ![Chat(w)] = Append(@, w)]
  /\ UNCHANGED <<WorkerFrame, queue, stored, faults, refused>>

Holds(w) == line[Chat(w)] # <<>> /\ Head(line[Chat(w)]) = w

\* Seeded fault: a turn does not release the lock.
Stay(w) == UNCHANGED line

Release(w) == line' = [line EXCEPT ![Chat(w)] = Tail(@)]

\* The second duplicate check, under the lock.
DropLate(w) ==
  /\ worker[w].pc = "wait" /\ Holds(w) /\ Known(w)
  /\ worker' = [worker EXCEPT ![w] = Idle]
  /\ Release(w)
  /\ UNCHANGED <<WorkerFrame, queue, stored, faults, refused>>

\* Seeded fault: whoever passed the fast check goes on.
RecheckSkipped(w) ==
  /\ worker[w].pc = "wait" /\ Holds(w)
  /\ worker' = [worker EXCEPT ![w].pc = "insert"]
  /\ UNCHANGED <<WorkerFrame, queue, line, stored, faults, refused>>

Recheck(w) ==
  /\ worker[w].pc = "wait" /\ Holds(w) /\ ~Known(w)
  /\ worker' = [worker EXCEPT ![w].pc = "insert"]
  /\ UNCHANGED <<WorkerFrame, queue, line, stored, faults, refused>>

\* The user's row is written and then the message is inserted, two statements after
\* the check. The unique index refuses a second row, which ends the turn.
Store(w) ==
  /\ worker[w].pc = "insert"
  /\ IF Known(w)
       THEN /\ worker' = [worker EXCEPT ![w] = Idle]
            /\ Release(w) /\ UNCHANGED stored
       ELSE /\ stored' = Append(stored, worker[w].msg)
            /\ worker' = [worker EXCEPT ![w].pc = "handle"]
            /\ UNCHANGED line
  /\ UNCHANGED <<WorkerFrame, queue, faults, refused>>

\* The rest of the turn.
Handle(w) ==
  /\ worker[w].pc = "handle"
  /\ worker' = [worker EXCEPT ![w] = Idle]
  /\ Release(w)
  /\ UNCHANGED <<WorkerFrame, queue, stored, faults, refused>>

\* Who stops waiting leaves the line, wherever in it; the holder releases the lock.
Place(w) == CHOOSE i \in DOMAIN line[Chat(w)] : line[Chat(w)][i] = w

GiveUp(w) == line' = [line EXCEPT ![Chat(w)] = RemoveAt(@, Place(w))]

\* The job's deadline passes while it waits for the lock, a statement up to the
\* insert fails, or the job panics: the worker goes on with the next job.
Fail(w) ==
  /\ worker[w].pc \in {"check", "wait", "insert"}
  /\ worker' = [worker EXCEPT ![w] = Idle]
  /\ IF worker[w].pc = "check" THEN UNCHANGED line ELSE GiveUp(w)
  /\ Fault
  /\ UNCHANGED <<WorkerFrame, queue, stored, refused>>

\* Seeded fault: workers leave as soon as the pool is closed.
ExhaustedOnClose == closed

\* The channel is closed and empty.
Exhausted == closed /\ queue = <<>>

Leaves(w) ==
  /\ worker[w].pc = "idle" /\ Exhausted
  /\ worker' = [worker EXCEPT ![w].pc = "gone"]
  /\ UNCHANGED <<WorkerFrame, queue, line, stored, faults, refused>>

Work(w) ==
  \/ Take(w) \/ DropEarly(w) \/ JoinLine(w) \/ DropLate(w) \/ Recheck(w) \/ Store(w)
  \/ Handle(w) \/ Leaves(w)

-----------------------------------------------------------------------------
(* The process *)

\* SIGTERM: ctx is cancelled, and main calls srv.Shutdown.
Signal ==
  /\ phase = "running"
  /\ phase' = "closing"
  /\ UNCHANGED <<providerVars, receiver, poolVars, workerVars, boundVars, panicked, refused>>

\* srv.Shutdown waits for the requests at work, and for no poller.
RequestsDone ==
  transport = "polling" \/ \A r \in Receivers : receiver[r].pc = "idle"

ClosePool ==
  /\ phase = "closing" /\ RequestsDone
  /\ phase' = "draining"
  /\ closed' = TRUE
  /\ UNCHANGED <<providerVars, receiver, queue, workerVars, boundVars, panicked, refused>>

\* srv.Shutdown ran out of its 30 seconds: the pool is closed all the same.
ClosePoolLate ==
  /\ phase = "closing"
  /\ phase' = "draining"
  /\ closed' = TRUE
  /\ Fault
  /\ UNCHANGED <<providerVars, receiver, queue, workerVars, starts, panicked, refused>>

\* Pool.Shutdown saw every worker leave; main returns.
Drained ==
  /\ phase = "draining" /\ \A w \in Workers : worker[w].pc = "gone"
  /\ Die
  /\ UNCHANGED <<providerVars, closed, stored, boundVars, panicked, refused>>

\* Pool.Shutdown ran out of time; main returns all the same.
DrainTimeout ==
  /\ phase = "draining"
  /\ Die
  /\ Fault
  /\ UNCHANGED <<providerVars, closed, stored, starts, panicked, refused>>

\* The process is killed, or ListenAndServe failed and main returns at once.
Crash ==
  /\ phase \in {"running", "closing"}
  /\ Die
  /\ Fault
  /\ UNCHANGED <<providerVars, closed, stored, starts, panicked, refused>>

Start ==
  /\ phase = "exited" /\ starts < MaxStarts
  /\ starts' = starts + 1
  /\ FreshProcess
  /\ UNCHANGED <<providerVars, stored, faults, panicked, refused>>

Process == Signal \/ ClosePool \/ ClosePoolLate \/ Drained \/ DrainTimeout \/ Crash \/ Start

Next ==
  \/ \E r \in Active : Receive(r) \/ PollFails(r) \/ Reject(r) \/ DeleteFails(r)
  \/ \E r \in Active, e \in Events : Post(r, e)
  \/ \E w \in Workers : Running /\ (Work(w) \/ Fail(w))
  \/ Process

Spec == Init /\ [][Next]_vars

\* Goroutines run; Go's channels serve those who wait in order, so weak fairness
\* is enough. Nothing obliges the provider, the operator or a fault.
Fairness ==
  /\ \A r \in Receivers : WF_vars(r \in Active /\ Receive(r))
  /\ \A w \in Workers : WF_vars(Running /\ Work(w))

FairSpec == Spec /\ Fairness

-----------------------------------------------------------------------------
(* Properties *)

\* A message the provider need not send again is in the database, or the process
\* still has it, whatever is delivered twice and however the process is stopped and
\* started again. Three things break this: a fault, the panic of a send on the
\* closed channel, and a full queue under the webhook, which acknowledges first
\* (main.go: "Drain in-flight messages so a lead in progress is not dropped").
AcknowledgedIsKept ==
  faults = 0 /\ ~panicked =>
    \A e \in acked : At(e, Wanted(e)) \subseteq Range(stored) \cup Volatile \cup refused

\* The re-check decides: no turn that got past it finds, when it comes to insert its
\* message, that another delivery of it was stored meanwhile, however often the
\* provider delivers and whatever process takes it (Handle: "a duplicate can race
\* between the fast check above and the first delivery"). So the unique index has
\* nothing to refuse, and no duplicate writes the user's row first.
RecheckDecides ==
  \A w \in Workers : worker[w].pc = "insert" => ~Known(w)

\* A worker does not wait for a lock nobody holds: who is in a chat's line has a
\* message of that chat in hand, and a turn under way holds the lock.
LineIsHonest ==
  /\ \A c \in Chats : \A i \in DOMAIN line[c] :
       /\ worker[line[c][i]].pc \in {"wait", "insert", "handle"}
       /\ Chat(line[c][i]) = c
       /\ worker[line[c][i]].pc \in {"insert", "handle"} => i = 1
  /\ \A w \in Workers :
       worker[w].pc \in {"wait", "insert", "handle"} => w \in Range(line[Chat(w)])

\* Every queued job is worked off, whichever chat is busy, unless the process ends.
QueuedIsFinished ==
  \A m \in Private :
    m \in Range(queue) ~> (m \notin Range(queue) \cup InHand \/ ~Running)

\* No receipt without a body stands at or before this notification.
Reachable(e) ==
  \E i \in DOMAIN Feed : Feed[i] = e /\ \A k \in 1 .. i : Kind[Feed[k]] # "blank"

\* The poller gets to every notification and past it, however often the queue is
\* full and whatever fails, unless the process is told to stop. A receipt without a
\* body is the exception: it stays, and everything behind it waits for ever.
NotificationLeaves ==
  \A e \in {f \in Events : Reachable(f)} :
    transport = "polling" ~> (e \in acked \/ Cancelled)

=============================================================================
