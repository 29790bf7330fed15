--------------------------------- MODULE Desk ---------------------------------
(***************************************************************************)
(* The consultants' live view of one conversation:                         *)
(*   - the rows of the messages table, by whoever stores them,             *)
(*   - the event hub (internal/service/events.go) and the stream that      *)
(*     carries its events to the browsers (handler/admin/crm.go),          *)
(*   - the browsers' view of the client (internal/web/assets/app.js) and   *)
(*     the requests it makes (handler/admin/clients.go).                   *)
(*                                                                         *)
(* A row is its id; ids are given in the order of the inserts. Every event *)
(* says the same ("client.changed"), so a buffer is the number of events   *)
(* in it. A view is opened once and not left. The badge of unread messages *)
(* is left out: only that clearing it is announced, too, is kept.          *)
(***************************************************************************)
EXTENDS Integers, FiniteSets

CONSTANTS Consultants,
          Viewers,     \* the consultants who have the client's view open
          PullSlots,   \* bound: fetches of new messages a browser has under way
          BufferSize,  \* events a subscriber's channel holds; 16 in the code
          PullLimit,   \* rows a fetch returns at most; 200 in the code
          MaxRows,     \* bound: rows of the conversation
          MaxClicks,   \* bound: operations of consultants
          MaxFaults,   \* bound: lost connections, failed requests
          None

\* Sending a message, and every other request that changes the client: taking the
\* conversation over, assigning it, a status, a field. What those change is in
\* modules StateMachine and Conversation.
Operations == {"send", "change"}

ASSUME DeskAssumption ==
  /\ Viewers \subseteq Consultants
  /\ IsFiniteSet(Consultants) /\ IsFiniteSet(PullSlots)
  /\ BufferSize \in Nat \ {0} /\ PullLimit \in Nat \ {0}
  /\ MaxRows \in Nat /\ MaxClicks \in Nat /\ MaxFaults \in Nat
  /\ None \notin Consultants /\ "assistant" \notin Consultants

VARIABLES
  \* the database
  rows,     \* the newest row of the conversation
  \* the process
  inbound,  \* the turn that takes a message of the client in
  sender,   \* who holds the send lock of the chat, its row stored
  op,       \* each consultant's request
  \* the browsers
  view,     \* each viewer's page
  pull,     \* its fetches of new messages
  \* bounds and history
  clicks, faults,
  owed,     \* history: the newest row announced to the view; 0 once a lost connection
            \* or a failed request has excused it, until the next announcement
  jumped    \* history: the view's newest row was moved past rows not shown

vars == <<rows, inbound, sender, op, view, pull, clicks, faults, owed, jumped>>
browserVars == <<pull, jumped>>
deskVars == <<op, clicks>>

Rows == 1 .. MaxRows

Op(step, kind) == [pc |-> step, kind |-> kind, row |-> 0]
NoOp == Op("idle", "change")

Pull(step, after, upto) == [pc |-> step, after |-> after, upto |-> upto]
NoPull == Pull("idle", 0, 0)

\* last: the last row of state.messages; reads: posts of /read under way.
Away == [pc |-> "away", shown |-> {}, last |-> 0,
         live |-> FALSE, buffer |-> 0, reads |-> 0]

TypeOK ==
  /\ rows \in 0 .. MaxRows
  /\ inbound \in {"idle", "stored"}
  /\ sender \in Consultants \cup {"assistant", None}
  /\ op \in [Consultants ->
       [pc: {"idle", "change", "line", "sending", "announce", "respond"},
        kind: Operations, row: 0 .. MaxRows]]
  /\ view \in [Viewers ->
       [pc: {"away", "page", "open"}, shown: SUBSET Rows,
        last: 0 .. MaxRows, live: BOOLEAN, buffer: 0 .. BufferSize, reads: Nat]]
  /\ pull \in [Viewers -> [PullSlots ->
       [pc: {"idle", "asked", "answered"}, after: 0 .. MaxRows, upto: 0 .. MaxRows]]]
  /\ clicks \in 0 .. MaxClicks /\ faults \in 0 .. MaxFaults
  /\ owed \in [Viewers -> 0 .. MaxRows]
  /\ jumped \in [Viewers -> BOOLEAN]

Init ==
  /\ rows = 0
  /\ inbound = "idle" /\ sender = None
  /\ op = [c \in Consultants |-> NoOp]
  /\ view = [v \in Viewers |-> Away]
  /\ pull = [v \in Viewers |-> [s \in PullSlots |-> NoPull]]
  /\ clicks = 0 /\ faults = 0
  /\ owed = [v \in Viewers |-> 0]
  /\ jumped = [v \in Viewers |-> FALSE]

Fault == faults < MaxFaults /\ faults' = faults + 1

Insert == rows < MaxRows /\ rows' = rows + 1

-----------------------------------------------------------------------------
(* The hub *)

\* A full buffer drops the event.
Buffered(n) == IF n < BufferSize THEN n + 1 ELSE n

\* What an event does to the pages vw; everything stored so far is announced.
Announce(vw) ==
  /\ view' = [v \in Viewers |->
                IF vw[v].live THEN [vw[v] EXCEPT !.buffer = Buffered(@)] ELSE vw[v]]
  /\ owed' = [v \in Viewers |-> IF vw[v].live THEN rows ELSE owed[v]]

-----------------------------------------------------------------------------
(* Whoever else stores rows *)

\* A turn stores the client's message,
StoreInbound ==
  /\ inbound = "idle"
  /\ Insert
  /\ inbound' = "stored"
  /\ UNCHANGED <<sender, deskVars, view, browserVars, faults, owed>>

\* and announces it once it is counted as unread (onInbound).
AnnounceInbound ==
  /\ inbound = "stored"
  /\ inbound' = "idle"
  /\ Announce(view)
  /\ UNCHANGED <<rows, sender, deskVars, browserVars, faults>>

\* Messenger.Send for the assistant: the row, the transmission, the event.
StoreReply ==
  /\ sender = None
  /\ Insert
  /\ sender' = "assistant"
  /\ UNCHANGED <<inbound, deskVars, view, browserVars, faults, owed>>

FinishReply ==
  /\ sender = "assistant"
  /\ sender' = None
  /\ Announce(view)
  /\ UNCHANGED <<rows, inbound, deskVars, browserVars, faults>>

-----------------------------------------------------------------------------
(* The requests of a consultant *)

Goto(c, step) == op' = [op EXCEPT ![c].pc = step]
Done(c) == op' = [op EXCEPT ![c] = NoOp]

DatabaseFrame == <<rows, inbound>>

Click(c, kind) ==
  /\ op[c].pc = "idle" /\ clicks < MaxClicks
  /\ clicks' = clicks + 1
  /\ op' = [op EXCEPT ![c] = Op(IF kind = "send" THEN "line" ELSE "change", kind)]
  /\ UNCHANGED <<DatabaseFrame, sender, view, browserVars, faults, owed>>

\* The service's call: some leave a line in the conversation (systemEvent), which
\* nobody sends and the send lock does not cover.
Change(c) ==
  /\ op[c].pc = "change"
  /\ Insert \/ UNCHANGED rows
  /\ Goto(c, "announce")
  /\ UNCHANGED <<inbound, sender, view, browserVars, clicks, faults, owed>>

\* Messenger.Send for the consultant.
StoreOwn(c) ==
  /\ op[c].pc = "line" /\ sender = None
  /\ Insert
  /\ sender' = c
  /\ op' = [op EXCEPT ![c].pc = "sending", ![c].row = rows + 1]
  /\ UNCHANGED <<inbound, view, browserVars, clicks, faults, owed>>

\* The request is refused or cut, or a statement fails, before there is a row.
Refused(c) ==
  /\ op[c].pc \in {"change", "line"}
  /\ Done(c)
  /\ Fault
  /\ UNCHANGED <<DatabaseFrame, sender, view, browserVars, clicks, owed>>

\* The messenger announces its row and gives the lock back.
FinishOwn(c) ==
  /\ op[c].pc = "sending"
  /\ sender' = None
  /\ Goto(c, "announce")
  /\ Announce(view)
  /\ UNCHANGED <<DatabaseFrame, browserVars, clicks, faults>>

\* The handler announces the change, whatever it was.
AnnounceChange(c) ==
  /\ op[c].pc = "announce"
  /\ Goto(c, "respond")
  /\ Announce(view)
  /\ UNCHANGED <<DatabaseFrame, sender, browserVars, clicks, faults>>

-----------------------------------------------------------------------------
(* The browser *)

ServerFrame == <<rows, inbound, sender, clicks>>

IdleSlots(v) == {s \in PullSlots : pull[v][s].pc = "idle"}

\* replaceMessage: the browser puts its own row at the end of what it has, unless
\* a fetch was faster.
Placed(v, row) ==
  IF row \in view[v].shown THEN view[v]
  ELSE [view[v] EXCEPT !.shown = @ \cup {row}, !.last = row]

Skips(v, row) == row \notin view[v].shown /\ ~(1 .. row - 1 \subseteq view[v].shown)

\* Seeded fault: an event that finds a fetch under way starts none.
AskUnlessBusy(v) ==
  IF IdleSlots(v) # PullSlots THEN UNCHANGED pull
  ELSE pull' = [pull EXCEPT ![v][CHOOSE s \in PullSlots : TRUE] =
                  Pull("asked", view[v].last, 0)]

\* pullNewMessages asks for what came after the last row it has; the slots are
\* alike.
Ask(v) ==
  /\ IdleSlots(v) # {}
  /\ pull' = [pull EXCEPT ![v][CHOOSE s \in IdleSlots(v) : TRUE] =
                Pull("asked", view[v].last, 0)]

\* The answer to a send goes into the conversation; after the other buttons the
\* view is reloaded, which fetches what is new.
Respond(c) ==
  /\ op[c].pc = "respond"
  /\ Done(c)
  /\ IF c \notin Viewers \/ view[c].pc # "open" THEN UNCHANGED <<view, browserVars>>
     ELSE IF op[c].kind = "send"
       THEN /\ view' = [view EXCEPT ![c] = Placed(c, op[c].row)]
            /\ jumped' = [jumped EXCEPT ![c] = @ \/ Skips(c, op[c].row)]
            /\ UNCHANGED pull
       ELSE /\ Ask(c)
            /\ UNCHANGED <<view, jumped>>
  /\ UNCHANGED <<rows, inbound, sender, clicks, faults, owed>>

\* ClientView loads the newest page and clears the badge, if there was one,
OpenView(v) ==
  /\ view[v].pc = "away"
  /\ \E reads \in 0 .. 1 :
       view' = [view EXCEPT ![v].pc = "page", ![v].shown = 1 .. rows, ![v].last = rows,
                            ![v].reads = reads]
  /\ UNCHANGED <<ServerFrame, op, browserVars, faults, owed>>

\* and connects. A browser whose connection is lost connects again by itself; the
\* page fetches nothing then, it waits for the next event (startStream).
Subscribe(v) ==
  /\ view[v].pc \in {"page", "open"} /\ ~view[v].live
  /\ view' = [view EXCEPT ![v].pc = "open", ![v].live = TRUE]
  /\ UNCHANGED <<ServerFrame, op, browserVars, faults, owed>>

Disconnect(v) ==
  /\ view[v].live
  /\ view' = [view EXCEPT ![v].live = FALSE, ![v].buffer = 0]
  /\ owed' = [owed EXCEPT ![v] = 0]
  /\ Fault
  /\ UNCHANGED <<ServerFrame, op, browserVars>>

\* Each event that arrives starts a fetch.
OnEvent(v) ==
  /\ view[v].buffer > 0
  /\ Ask(v)
  /\ view' = [view EXCEPT ![v].buffer = @ - 1]
  /\ UNCHANGED <<ServerFrame, op, jumped, faults, owed>>

\* Seeded fault: of too many rows the newest are returned.
NewestSince(p) ==
  [p EXCEPT !.pc = "answered", !.upto = rows,
            !.after = IF rows - @ > PullLimit THEN rows - PullLimit ELSE @]

\* SinceID: of too many rows after the given one the oldest are returned.
Since(p) ==
  [p EXCEPT !.pc = "answered",
            !.upto = IF rows - p.after > PullLimit THEN p.after + PullLimit ELSE rows]

AnswerPull(v, s) ==
  /\ pull[v][s].pc = "asked"
  /\ pull' = [pull EXCEPT ![v][s] = Since(@)]
  /\ UNCHANGED <<ServerFrame, op, view, jumped, faults, owed>>

\* What was fetched is shown, and marked read; nothing new ends it.
ShowPull(v, s) ==
  /\ pull[v][s].pc = "answered"
  /\ LET new == pull[v][s].after + 1 .. pull[v][s].upto IN
     view' = IF new = {} THEN view
             ELSE [view EXCEPT ![v].shown = @ \cup new, ![v].last = pull[v][s].upto,
                               ![v].reads = @ + 1]
  /\ pull' = [pull EXCEPT ![v][s] = NoPull]
  /\ UNCHANGED <<ServerFrame, op, jumped, faults, owed>>

\* A fetch that fails is forgotten.
PullFails(v, s) ==
  /\ pull[v][s].pc # "idle"
  /\ pull' = [pull EXCEPT ![v][s] = NoPull]
  /\ owed' = [owed EXCEPT ![v] = 0]
  /\ Fault
  /\ UNCHANGED <<ServerFrame, op, view, jumped>>

\* handleMarkRead announces that the badge was cleared, to this view as well.
MarkRead(v) ==
  /\ view[v].reads > 0
  /\ Announce([view EXCEPT ![v].reads = @ - 1])
  /\ UNCHANGED <<ServerFrame, op, browserVars, faults>>

\* A post of /read that fails announces nothing, and the page does not notice.
MarkReadFails(v) ==
  /\ view[v].reads > 0
  /\ view' = [view EXCEPT ![v].reads = @ - 1]
  /\ owed' = [owed EXCEPT ![v] = 0]
  /\ Fault
  /\ UNCHANGED <<ServerFrame, op, browserVars>>

-----------------------------------------------------------------------------

Serve(c) ==
  \/ Change(c) \/ StoreOwn(c) \/ FinishOwn(c) \/ AnnounceChange(c) \/ Respond(c)

Browse(v) ==
  \/ OnEvent(v) \/ MarkRead(v)
  \/ \E s \in PullSlots : AnswerPull(v, s) \/ ShowPull(v, s)

Next ==
  \/ StoreInbound \/ AnnounceInbound \/ StoreReply \/ FinishReply
  \/ \E c \in Consultants :
       (\E kind \in Operations : Click(c, kind)) \/ Serve(c) \/ Refused(c)
  \/ \E v \in Viewers :
       \/ OpenView(v) \/ Subscribe(v) \/ Disconnect(v) \/ Browse(v) \/ MarkReadFails(v)
       \/ \E s \in PullSlots : PullFails(v, s)

Spec == Init /\ [][Next]_vars

\* A connected browser handles its events, and its requests are answered. Nobody
\* has to store a row, click or connect.
Fairness ==
  \A v \in Viewers :
    /\ WF_vars(OnEvent(v)) /\ WF_vars(MarkRead(v))
    /\ \A s \in PullSlots : WF_vars(AnswerPull(v, s)) /\ WF_vars(ShowPull(v, s))

FairSpec == Spec /\ Fairness

-----------------------------------------------------------------------------
(* Properties *)

\* What a view shows has no hole, although several fetches overlap and their
\* answers arrive in any order, unless a message of its own moved it past rows it
\* had not fetched (pullNewMessages, replaceMessage).
NoHole ==
  \A v \in Viewers : ~jumped[v] => view[v].shown = 1 .. Cardinality(view[v].shown)

\* A view catches up, again and again, with everything announced to it, although
\* events are dropped when its buffer is full and a fetch returns few rows (publish:
\* "a subscriber whose buffer is full simply misses an event and re-syncs"). What
\* brings the rest is the event that /read publishes after each fetch. A lost
\* connection, a failed fetch and a failed /read therefore excuse it until the next
\* announcement: no other step of the page asks again, not even a reconnect.
LiveUpdate ==
  \A v \in Viewers : []<>(1 .. owed[v] \subseteq view[v].shown \/ jumped[v])

=============================================================================
