----------------------------- MODULE Desk_proofs -----------------------------
(***************************************************************************)
(* What Desk guarantees for any number of consultants, views and overlapping *)
(* fetches, any size of the buffers and any limit of a fetch.              *)
(***************************************************************************)
EXTENDS Desk, FiniteSetTheorems, TLAPS

OpType == [pc: {"idle", "change", "line", "sending", "announce", "respond"},
           kind: Operations, row: 0 .. MaxRows]
ViewType == [pc: {"away", "page", "open"}, shown: SUBSET Rows,
             last: 0 .. MaxRows, live: BOOLEAN, buffer: 0 .. BufferSize, reads: Nat]
PullType == [pc: {"idle", "asked", "answered"}, after: 0 .. MaxRows, upto: 0 .. MaxRows]

\* A request that stored a row knows it.
KnowsRow(r) ==
  /\ r.pc = "change" => r.kind = "change"
  /\ r.pc = "sending" => r.row \in Rows
  /\ r.pc \in {"announce", "respond"} /\ r.kind = "send" => r.row \in Rows

\* Nothing reaches a view before it is opened.
AwayIsQuiet ==
  \A v \in Viewers : view[v].pc = "away" =>
    /\ view[v].live = FALSE /\ view[v].buffer = 0
    /\ \A s \in PullSlots : pull[v][s].pc = "idle"

ScalarsInv ==
  /\ rows \in 0 .. MaxRows
  /\ inbound \in {"idle", "stored"}
  /\ sender \in Consultants \cup {"assistant", None}
  /\ clicks \in 0 .. MaxClicks
  /\ faults \in 0 .. MaxFaults

OpInv == op \in [Consultants -> OpType] /\ \A c \in Consultants : KnowsRow(op[c])

ViewInv ==
  /\ view \in [Viewers -> ViewType]
  /\ owed \in [Viewers -> 0 .. MaxRows]

PullInv ==
  /\ pull \in [Viewers -> [PullSlots -> PullType]]
  /\ jumped \in [Viewers -> BOOLEAN]

TypeInv == ScalarsInv /\ OpInv /\ ViewInv /\ PullInv /\ AwayIsQuiet

LEMMA Bounds ==
  MaxRows \in Nat /\ BufferSize \in Nat \ {0} /\ PullLimit \in Nat \ {0}
  BY DeskAssumption DEF DeskAssumption

LEMMA TypeInit == Init => TypeInv
<1> SUFFICES ASSUME Init PROVE TypeInv
  OBVIOUS
<1> USE Bounds
<1>1. NoOp \in OpType /\ KnowsRow(NoOp)
  BY DEF NoOp, Op, OpType, KnowsRow, Operations
<1>2. Away \in ViewType /\ NoPull \in PullType
  BY DEF Away, ViewType, NoPull, Pull, PullType
<1>3. ScalarsInv
  BY DeskAssumption DEF Init, ScalarsInv, DeskAssumption
<1> QED
  BY <1>1, <1>2, <1>3 DEF Init, TypeInv, OpInv, ViewInv, PullInv, AwayIsQuiet, Away, NoPull, Pull

\* A request goes on, with another record of the right kind.
LEMMA OpKeeps ==
  ASSUME OpInv, NEW c \in Consultants, NEW r \in OpType, KnowsRow(r),
         op' = [op EXCEPT ![c] = r]
  PROVE  OpInv'
  BY DEF OpInv

LEMMA DoneKeeps ==
  ASSUME OpInv, NEW c \in Consultants, Done(c)
  PROVE  OpInv'
<1>1. NoOp \in OpType /\ KnowsRow(NoOp)
  BY Bounds DEF NoOp, Op, OpType, KnowsRow, Operations
<1> QED
  BY <1>1, OpKeeps DEF Done

LEMMA GotoKeeps ==
  ASSUME OpInv, NEW c \in Consultants, NEW step \in {"announce", "respond"}, Goto(c, step),
         op[c].pc \in {"change", "sending", "announce"}
  PROVE  OpInv'
<1> DEFINE r == [op[c] EXCEPT !.pc = step]
<1>1. op[c] \in OpType /\ KnowsRow(op[c])
  BY DEF OpInv
<1>2. r \in OpType
  BY <1>1 DEF OpType
<1>3. KnowsRow(r)
  BY <1>1 DEF OpType, KnowsRow
<1>4. op' = [op EXCEPT ![c] = r]
  BY DEF Goto
<1> HIDE DEF r
<1> QED
  BY <1>2, <1>3, <1>4, OpKeeps

\* An event leaves well-formed pages well formed, and reaches none that is away.
LEMMA AnnounceKeeps ==
  ASSUME TypeInv, NEW vw \in [Viewers -> ViewType], Announce(vw), pull' = pull,
         \A v \in Viewers : /\ vw[v].pc = view[v].pc
                            /\ vw[v].live = view[v].live
                            /\ vw[v].buffer = view[v].buffer
  PROVE  ViewInv' /\ AwayIsQuiet'
<1>1. \A n \in 0 .. BufferSize : Buffered(n) \in 0 .. BufferSize
  BY Bounds DEF Buffered
<1>2. ASSUME NEW v \in Viewers
      PROVE  /\ view'[v] \in ViewType
             /\ view'[v].pc = view[v].pc /\ view'[v].live = view[v].live
             /\ view[v].live = FALSE => view'[v].buffer = view[v].buffer
  <2>1. vw[v] \in ViewType
    OBVIOUS
  <2>2. CASE vw[v].live
    <3>1. view'[v] = [vw[v] EXCEPT !.buffer = Buffered(vw[v].buffer)]
      BY <2>2 DEF Announce
    <3>2. Buffered(vw[v].buffer) \in 0 .. BufferSize
      BY <1>1, <2>1 DEF ViewType
    <3> QED
      BY <2>1, <2>2, <3>1, <3>2 DEF ViewType
  <2>3. CASE ~vw[v].live
    <3>1. view'[v] = vw[v]
      BY <2>3 DEF Announce
    <3> QED
      BY <2>1, <3>1
  <2> QED
    BY <2>2, <2>3
<1>3. view' \in [Viewers -> ViewType]
  <2>1. view' = [v \in Viewers |-> view'[v]]
    BY DEF Announce
  <2> QED
    BY <1>2, <2>1
<1>4. owed' \in [Viewers -> 0 .. MaxRows]
  BY DEF Announce, TypeInv, ScalarsInv, ViewInv
<1>5. AwayIsQuiet'
  BY <1>2 DEF TypeInv, AwayIsQuiet
<1> QED
  BY <1>3, <1>4, <1>5 DEF ViewInv

LEMMA AnnouncedKeeps ==
  ASSUME TypeInv, Announce(view), pull' = pull
  PROVE  ViewInv' /\ AwayIsQuiet'
<1>1. view \in [Viewers -> ViewType]
  BY DEF TypeInv, ViewInv
<1> QED
  BY <1>1, AnnounceKeeps

\* A fetch takes one slot, and asks from the newest row.
LEMMA AskShape ==
  ASSUME NEW v \in Viewers, Ask(v)
  PROVE  \E s \in PullSlots : pull' = [pull EXCEPT ![v][s] = Pull("asked", view[v].last, 0)]
  BY DEF Ask, IdleSlots

LEMMA AskKeepsType ==
  ASSUME TypeInv, NEW v \in Viewers, Ask(v), jumped' = jumped
  PROVE  PullInv'
<1>1. view[v] \in ViewType
  BY DEF TypeInv, ViewInv
<1>2. Pull("asked", view[v].last, 0) \in PullType
  BY <1>1, Bounds DEF Pull, PullType, ViewType
<1>3. PICK s \in PullSlots : pull' = [pull EXCEPT ![v][s] = Pull("asked", view[v].last, 0)]
  BY AskShape
<1> QED
  BY <1>2, <1>3 DEF TypeInv, PullInv

\* One view changes.
LEMMA ViewKeeps ==
  ASSUME TypeInv, NEW v \in Viewers, NEW r \in ViewType, view' = [view EXCEPT ![v] = r],
         r.pc # "away", owed' = owed,
         \A x \in Viewers \ {v} : pull'[x] = pull[x]
  PROVE  ViewInv' /\ AwayIsQuiet'
<1>1. /\ view' \in [Viewers -> ViewType]
      /\ view'[v] = r
      /\ \A x \in Viewers \ {v} : view'[x] = view[x]
  BY DEF TypeInv, ViewInv
<1> QED
  BY <1>1 DEF TypeInv, ViewInv, AwayIsQuiet

\* Nothing the pages are made of changes.
LEMMA PagesKeep ==
  ASSUME TypeInv, UNCHANGED <<view, pull, jumped, owed>>
  PROVE  ViewInv' /\ PullInv' /\ AwayIsQuiet'
  BY DEF TypeInv, ViewInv, PullInv, AwayIsQuiet

LEMMA TypeStep == TypeInv /\ [Next]_vars => TypeInv'
<1> SUFFICES ASSUME TypeInv, [Next]_vars PROVE TypeInv'
  OBVIOUS
<1> USE Bounds DEF browserVars, deskVars, DatabaseFrame, ServerFrame
<1>0. ScalarsInv /\ OpInv /\ ViewInv /\ PullInv /\ AwayIsQuiet
  BY DEF TypeInv
<1>a. \A v \in Viewers : view[v] \in ViewType
  BY <1>0 DEF ViewInv
<1>b. \A v \in Viewers, s \in PullSlots : pull[v][s] \in PullType
  BY <1>0 DEF PullInv
<1>c. \A c \in Consultants : op[c] \in OpType /\ KnowsRow(op[c])
  BY <1>0 DEF OpInv
<1>d. NoPull \in PullType
  BY DEF NoPull, Pull, PullType
<1>1. ASSUME StoreInbound \/ StoreReply PROVE TypeInv'
  <2>1. ScalarsInv'
    BY <1>0, <1>1 DEF StoreInbound, StoreReply, Insert, ScalarsInv
  <2>2. OpInv'
    BY <1>0, <1>1 DEF StoreInbound, StoreReply, OpInv
  <2> QED
    BY <1>1, <2>1, <2>2, PagesKeep DEF StoreInbound, StoreReply, TypeInv
<1>2. ASSUME AnnounceInbound \/ FinishReply PROVE TypeInv'
  <2>1. ScalarsInv'
    BY <1>0, <1>2 DEF AnnounceInbound, FinishReply, ScalarsInv
  <2>2. OpInv' /\ PullInv'
    BY <1>0, <1>2 DEF AnnounceInbound, FinishReply, OpInv, PullInv
  <2> QED
    BY <1>2, <2>1, <2>2, AnnouncedKeeps DEF AnnounceInbound, FinishReply, TypeInv
<1>3. ASSUME NEW c \in Consultants, NEW kind \in Operations, Click(c, kind) PROVE TypeInv'
  <2> DEFINE r == Op(IF kind = "send" THEN "line" ELSE "change", kind)
  <2>1. r \in OpType /\ KnowsRow(r)
    BY DEF Op, OpType, KnowsRow, Operations
  <2>2. op' = [op EXCEPT ![c] = r]
    BY <1>3 DEF Click
  <2>3. ScalarsInv'
    BY <1>0, <1>3, DeskAssumption DEF Click, ScalarsInv, DeskAssumption
  <2> HIDE DEF r
  <2>4. OpInv'
    BY <1>0, <2>1, <2>2, OpKeeps
  <2> QED
    BY <1>3, <2>3, <2>4, PagesKeep DEF Click, TypeInv
<1>4. ASSUME NEW c \in Consultants, Change(c) PROVE TypeInv'
  <2>1. ScalarsInv'
    BY <1>0, <1>4 DEF Change, Insert, ScalarsInv
  <2>2. OpInv'
    BY <1>0, <1>4, GotoKeeps DEF Change
  <2> QED
    BY <1>4, <2>1, <2>2, PagesKeep DEF Change, TypeInv
<1>5. ASSUME NEW c \in Consultants, StoreOwn(c) PROVE TypeInv'
  <2> DEFINE r == [op[c] EXCEPT !.pc = "sending", !.row = rows + 1]
  <2>1. ScalarsInv'
    BY <1>0, <1>5 DEF StoreOwn, Insert, ScalarsInv
  <2>2. rows + 1 \in Rows /\ rows + 1 \in 0 .. MaxRows
    BY <1>0, <1>5 DEF StoreOwn, Insert, ScalarsInv, Rows
  <2>3. r \in OpType /\ KnowsRow(r)
    <3>1. op[c] \in OpType
      BY <1>c
    <3>2. r \in OpType
      BY <2>2, <3>1, Zenon DEF OpType
    <3>3. r.pc = "sending" /\ r.row = rows + 1
      BY <3>1 DEF OpType
    <3> HIDE DEF r
    <3> QED
      BY <2>2, <3>2, <3>3 DEF KnowsRow
  <2>4. op' = [op EXCEPT ![c] = r]
    BY <1>0, <1>5 DEF StoreOwn, OpInv
  <2> HIDE DEF r
  <2>5. OpInv'
    BY <1>0, <2>3, <2>4, OpKeeps
  <2> QED
    BY <1>5, <2>1, <2>5, PagesKeep DEF StoreOwn, TypeInv
<1>6. ASSUME NEW c \in Consultants, Refused(c) PROVE TypeInv'
  <2>1. ScalarsInv'
    BY <1>0, <1>6, DeskAssumption DEF Refused, Fault, ScalarsInv, DeskAssumption
  <2>2. OpInv'
    BY <1>0, <1>6, DoneKeeps DEF Refused
  <2> QED
    BY <1>6, <2>1, <2>2, PagesKeep DEF Refused, TypeInv
<1>7. ASSUME NEW c \in Consultants, FinishOwn(c) \/ AnnounceChange(c) PROVE TypeInv'
  <2>1. ScalarsInv'
    BY <1>0, <1>7 DEF FinishOwn, AnnounceChange, ScalarsInv
  <2>2. OpInv'
    BY <1>0, <1>7, GotoKeeps DEF FinishOwn, AnnounceChange
  <2>3. PullInv'
    BY <1>0, <1>7 DEF FinishOwn, AnnounceChange, PullInv
  <2> QED
    BY <1>7, <2>1, <2>2, <2>3, AnnouncedKeeps DEF FinishOwn, AnnounceChange, TypeInv
<1>8. ASSUME NEW c \in Consultants, Respond(c) PROVE TypeInv'
  <2>1. ScalarsInv' /\ OpInv'
    BY <1>0, <1>8, DoneKeeps DEF Respond, ScalarsInv
  <2>2. CASE c \notin Viewers \/ view[c].pc # "open"
    BY <1>8, <2>1, <2>2, PagesKeep DEF Respond, TypeInv
  <2>3. CASE c \in Viewers /\ view[c].pc = "open" /\ op[c].kind = "send"
    <3>1. op[c].row \in Rows
      BY <1>8, <1>c, <2>3 DEF Respond, KnowsRow, OpType
    <3>2. Placed(c, op[c].row) \in ViewType /\ Placed(c, op[c].row).pc # "away"
      <4> DEFINE row == op[c].row
      <4>1. view[c] \in ViewType /\ row \in 0 .. MaxRows /\ {row} \subseteq Rows
        BY <1>a, <2>3, <3>1 DEF Rows
      <4> HIDE DEF row
      <4>2. view[c].shown \cup {row} \in SUBSET Rows
        BY <4>1 DEF ViewType
      <4> DEFINE r == [view[c] EXCEPT !.shown = @ \cup {row}, !.last = row]
      <4>3. r \in ViewType
        BY <4>1, <4>2, Zenon DEF ViewType
      <4>4. r.pc = view[c].pc
        BY <4>1 DEF ViewType
      <4> HIDE DEF r
      <4>5. Placed(c, row) = r \/ Placed(c, row) = view[c]
        BY DEF Placed, r
      <4> QED
        BY <2>3, <4>1, <4>3, <4>4, <4>5 DEF row
    <3>3. ViewInv' /\ AwayIsQuiet'
      BY <1>8, <2>3, <3>2, ViewKeeps DEF Respond
    <3>4. Skips(c, op[c].row) \in BOOLEAN
      BY DEF Skips
    <3>5. PullInv'
      BY <1>0, <1>8, <2>3, <3>4 DEF Respond, PullInv
    <3> QED
      BY <2>1, <3>3, <3>5 DEF TypeInv
  <2>4. CASE c \in Viewers /\ view[c].pc = "open" /\ op[c].kind # "send"
    <3>1. PullInv'
      BY <1>8, <2>4, AskKeepsType DEF Respond
    <3>2. view' = view /\ owed' = owed /\ Ask(c)
      BY <1>8, <2>4 DEF Respond
    <3>3. ViewInv'
      BY <1>0, <3>2 DEF ViewInv
    <3>4. AwayIsQuiet'
      BY <1>0, <2>4, <3>2, AskShape DEF AwayIsQuiet, PullInv
    <3> QED
      BY <2>1, <3>1, <3>3, <3>4 DEF TypeInv
  <2> QED
    BY <2>2, <2>3, <2>4
<1>9. ASSUME NEW v \in Viewers, OpenView(v) PROVE TypeInv'
  <2>1. PICK reads \in 0 .. 1 :
          view' = [view EXCEPT ![v].pc = "page", ![v].shown = 1 .. rows, ![v].last = rows,
                               ![v].reads = reads]
    BY <1>9 DEF OpenView
  <2> DEFINE r == [view[v] EXCEPT !.pc = "page", !.shown = 1 .. rows, !.last = rows,
                                  !.reads = reads]
  <2>2. rows \in 0 .. MaxRows /\ 1 .. rows \in SUBSET Rows
    BY <1>0 DEF ScalarsInv, Rows
  <2>3. r \in ViewType /\ r.pc # "away"
    <3>1. view[v] \in ViewType /\ reads \in Nat
      BY <1>a
    <3>2. r \in ViewType
      BY <2>2, <3>1, Zenon DEF ViewType
    <3>3. r.pc = "page"
      BY <3>1 DEF ViewType
    <3> QED
      BY <3>2, <3>3
  <2>4. view' = [view EXCEPT ![v] = r]
    BY <1>0, <2>1 DEF ViewInv
  <2> HIDE DEF r
  <2>5. ViewInv' /\ AwayIsQuiet'
    BY <1>9, <2>3, <2>4, ViewKeeps DEF OpenView
  <2> QED
    BY <1>0, <1>9, <2>5 DEF OpenView, TypeInv, ScalarsInv, OpInv, PullInv
<1>10. ASSUME NEW v \in Viewers, Subscribe(v) PROVE TypeInv'
  <2> DEFINE r == [view[v] EXCEPT !.pc = "open", !.live = TRUE]
  <2>1. r \in ViewType /\ r.pc # "away"
    BY <1>a DEF ViewType
  <2>2. view' = [view EXCEPT ![v] = r]
    BY <1>0, <1>10 DEF Subscribe, ViewInv
  <2> HIDE DEF r
  <2>3. ViewInv' /\ AwayIsQuiet'
    BY <1>10, <2>1, <2>2, ViewKeeps DEF Subscribe
  <2> QED
    BY <1>0, <1>10, <2>3 DEF Subscribe, TypeInv, ScalarsInv, OpInv, PullInv
<1>11. ASSUME NEW v \in Viewers, Disconnect(v) PROVE TypeInv'
  <2> DEFINE r == [view[v] EXCEPT !.live = FALSE, !.buffer = 0]
  <2>1. r \in ViewType /\ r.pc = view[v].pc /\ r.live = FALSE /\ r.buffer = 0
    <3>1. view[v] \in ViewType /\ 0 \in 0 .. BufferSize
      BY <1>a
    <3>2. r \in ViewType
      BY <3>1, Zenon DEF ViewType
    <3>3. r.pc = view[v].pc /\ r.live = FALSE /\ r.buffer = 0
      BY <3>1, Zenon DEF ViewType
    <3> QED
      BY <3>2, <3>3
  <2>2. view' = [view EXCEPT ![v] = r]
    BY <1>0, <1>11 DEF Disconnect, ViewInv
  <2> HIDE DEF r
  <2>3. ViewInv'
    <3>1. view' \in [Viewers -> ViewType]
      BY <1>0, <2>1, <2>2 DEF ViewInv
    <3>2. owed' \in [Viewers -> 0 .. MaxRows]
      BY <1>0, <1>11 DEF Disconnect, ViewInv
    <3> QED
      BY <3>1, <3>2 DEF ViewInv
  <2>4. AwayIsQuiet'
    BY <1>0, <1>11, <2>1, <2>2 DEF Disconnect, ViewInv, AwayIsQuiet
  <2>5. ScalarsInv'
    BY <1>0, <1>11, DeskAssumption DEF Disconnect, Fault, ScalarsInv, DeskAssumption
  <2> QED
    BY <1>0, <1>11, <2>3, <2>4, <2>5 DEF Disconnect, TypeInv, OpInv, PullInv
<1>12. ASSUME NEW v \in Viewers, OnEvent(v) PROVE TypeInv'
  <2> DEFINE r == [view[v] EXCEPT !.buffer = @ - 1]
  <2>1. r \in ViewType /\ r.pc # "away"
    BY <1>0, <1>12, <1>a DEF OnEvent, ViewType, AwayIsQuiet
  <2>2. view' = [view EXCEPT ![v] = r]
    BY <1>0, <1>12 DEF OnEvent, ViewInv
  <2> HIDE DEF r
  <2>3. PullInv' /\ \A x \in Viewers \ {v} : pull'[x] = pull[x]
    BY <1>0, <1>12, AskKeepsType, AskShape DEF OnEvent, PullInv
  <2>4. ViewInv' /\ AwayIsQuiet'
    BY <1>12, <2>1, <2>2, <2>3, ViewKeeps DEF OnEvent
  <2> QED
    BY <1>0, <1>12, <2>3, <2>4 DEF OnEvent, TypeInv, ScalarsInv, OpInv
<1>13. ASSUME NEW v \in Viewers, MarkRead(v) PROVE TypeInv'
  <2> DEFINE r == [view[v] EXCEPT !.reads = @ - 1]
  <2> DEFINE vw == [view EXCEPT ![v] = r]
  <2>1. /\ r \in ViewType /\ r.pc = view[v].pc /\ r.live = view[v].live
        /\ r.buffer = view[v].buffer
    BY <1>13, <1>a DEF MarkRead, ViewType
  <2>2. vw \in [Viewers -> ViewType]
    BY <1>0, <2>1 DEF ViewInv
  <2>3. \A x \in Viewers : /\ vw[x].pc = view[x].pc /\ vw[x].live = view[x].live
                           /\ vw[x].buffer = view[x].buffer
    BY <1>0, <2>1 DEF ViewInv
  <2>4. Announce(vw) /\ pull' = pull
    BY <1>13 DEF MarkRead
  <2> HIDE DEF vw
  <2>5. ViewInv' /\ AwayIsQuiet'
    BY <2>2, <2>3, <2>4, AnnounceKeeps
  <2> QED
    BY <1>0, <1>13, <2>5 DEF MarkRead, TypeInv, ScalarsInv, OpInv, PullInv
<1>14. ASSUME NEW v \in Viewers, NEW s \in PullSlots, AnswerPull(v, s) PROVE TypeInv'
  <2>1. Since(pull[v][s]) \in PullType
    <3> DEFINE p == pull[v][s]
    <3> DEFINE upto == IF rows - p.after > PullLimit THEN p.after + PullLimit ELSE rows
    <3>1. p \in PullType /\ p.after \in 0 .. MaxRows
      BY <1>b DEF PullType
    <3> HIDE DEF p
    <3>2. upto \in 0 .. MaxRows
      BY <1>0, <3>1 DEF ScalarsInv
    <3>3. Since(p) = [p EXCEPT !.pc = "answered", !.upto = upto]
      BY DEF Since
    <3> HIDE DEF upto
    <3>4. Since(p) \in PullType
      BY <3>1, <3>2, <3>3, Zenon DEF PullType
    <3> QED
      BY <3>4 DEF p
  <2>2. PullInv'
    BY <1>0, <1>14, <2>1 DEF AnswerPull, PullInv
  <2>3. AwayIsQuiet'
    BY <1>0, <1>14 DEF AnswerPull, AwayIsQuiet, PullInv
  <2> QED
    BY <1>0, <1>14, <2>2, <2>3 DEF AnswerPull, TypeInv, ScalarsInv, OpInv, ViewInv
<1>15. ASSUME NEW v \in Viewers, NEW s \in PullSlots, ShowPull(v, s) PROVE TypeInv'
  <2> DEFINE new == pull[v][s].after + 1 .. pull[v][s].upto
  <2> DEFINE r == [view[v] EXCEPT !.shown = @ \cup new, !.last = pull[v][s].upto,
                                  !.reads = @ + 1]
  <2>1. PullInv'
    BY <1>0, <1>15, <1>d DEF ShowPull, PullInv
  <2>2. pull[v][s].upto \in 0 .. MaxRows /\ new \in SUBSET Rows
    BY <1>b DEF PullType, Rows
  <2>3. view[v].pc # "away"
    BY <1>0, <1>15 DEF ShowPull, AwayIsQuiet
  <2>4. r \in ViewType /\ r.pc # "away"
    <3> HIDE DEF new
    <3>1. view[v] \in ViewType /\ view[v].shown \cup new \in SUBSET Rows /\ view[v].reads + 1 \in Nat
      BY <1>a, <2>2 DEF ViewType
    <3>2. r \in ViewType
      BY <2>2, <3>1, Zenon DEF ViewType
    <3>3. r.pc = view[v].pc
      BY <3>1, Zenon DEF ViewType
    <3> QED
      BY <2>3, <3>2, <3>3
  <2>5. \A x \in Viewers \ {v} : pull'[x] = pull[x]
    BY <1>0, <1>15 DEF ShowPull, PullInv
  <2>6. ViewInv' /\ AwayIsQuiet'
    <3>1. CASE new = {}
      <4>1. view' = view /\ owed' = owed
        BY <1>15, <3>1 DEF ShowPull
      <4> QED
        BY <1>0, <2>3, <2>5, <4>1 DEF ViewInv, AwayIsQuiet
    <3>2. CASE new # {}
      <4>1. view' = [view EXCEPT ![v].shown = @ \cup new, ![v].last = pull[v][s].upto,
                                 ![v].reads = @ + 1]
        BY <1>15, <3>2 DEF ShowPull
      <4> HIDE DEF new
      <4>2. view' = [view EXCEPT ![v] = r]
        BY <1>0, <4>1 DEF ViewInv
      <4> HIDE DEF r
      <4> QED
        BY <1>15, <2>4, <2>5, <4>2, ViewKeeps DEF ShowPull
    <3> QED
      BY <3>1, <3>2
  <2> QED
    BY <1>0, <1>15, <2>1, <2>6 DEF ShowPull, TypeInv, ScalarsInv, OpInv
<1>16. ASSUME NEW v \in Viewers, NEW s \in PullSlots, PullFails(v, s) PROVE TypeInv'
  <2>1. PullInv'
    BY <1>0, <1>16, <1>d DEF PullFails, PullInv
  <2>2. ViewInv'
    BY <1>0, <1>16 DEF PullFails, ViewInv
  <2>3. AwayIsQuiet'
    BY <1>0, <1>16 DEF PullFails, AwayIsQuiet, PullInv, NoPull, Pull
  <2>4. ScalarsInv'
    BY <1>0, <1>16, DeskAssumption DEF PullFails, Fault, ScalarsInv, DeskAssumption
  <2> QED
    BY <1>0, <1>16, <2>1, <2>2, <2>3, <2>4 DEF PullFails, TypeInv, OpInv
<1>17. ASSUME NEW v \in Viewers, MarkReadFails(v) PROVE TypeInv'
  <2> DEFINE r == [view[v] EXCEPT !.reads = @ - 1]
  <2>1. /\ r \in ViewType /\ r.pc = view[v].pc /\ r.live = view[v].live
        /\ r.buffer = view[v].buffer
    BY <1>17, <1>a DEF MarkReadFails, ViewType
  <2>2. view' = [view EXCEPT ![v] = r]
    BY <1>0, <1>17 DEF MarkReadFails, ViewInv
  <2> HIDE DEF r
  <2>3. ViewInv'
    <3>1. view' \in [Viewers -> ViewType]
      BY <1>0, <2>1, <2>2 DEF ViewInv
    <3>2. owed' \in [Viewers -> 0 .. MaxRows]
      BY <1>0, <1>17 DEF MarkReadFails, ViewInv
    <3> QED
      BY <3>1, <3>2 DEF ViewInv
  <2>4. AwayIsQuiet'
    BY <1>0, <1>17, <2>1, <2>2 DEF MarkReadFails, ViewInv, AwayIsQuiet
  <2>5. ScalarsInv'
    BY <1>0, <1>17, DeskAssumption DEF MarkReadFails, Fault, ScalarsInv, DeskAssumption
  <2> QED
    BY <1>0, <1>17, <2>3, <2>4, <2>5 DEF MarkReadFails, TypeInv, OpInv, PullInv
<1>18. CASE UNCHANGED vars
  BY <1>0, <1>18, PagesKeep DEF vars, TypeInv, ScalarsInv, OpInv
<1> QED
  BY <1>1, <1>2, <1>3, <1>4, <1>5, <1>6, <1>7, <1>8, <1>9, <1>10, <1>11, <1>12, <1>13,
     <1>14, <1>15, <1>16, <1>17, <1>18 DEF Next, Serve, Browse

LEMMA TypeAlways == Spec => []TypeInv
  BY TypeInit, TypeStep, PTL DEF Spec

\* Every state of the desk is well formed.
THEOREM TypeCorrect == Spec => []TypeOK
<1>1. TypeInv => TypeOK
  BY DEF TypeInv, TypeOK, ScalarsInv, OpInv, ViewInv, PullInv, OpType, ViewType, PullType
<1> QED
  BY <1>1, TypeAlways, PTL

-----------------------------------------------------------------------------

\* What a view shows is the rows up to some k, and neither its newest row nor what a
\* fetch asked for lies beyond: whatever the answer, it closes up with what is there.
\* The newest row itself may be older than k: the answer of an overtaken fetch is
\* shown last.
UpTo(v, k) ==
  /\ view[v].shown = 1 .. k
  /\ view[v].last <= k
  /\ \A s \in PullSlots : pull[v][s].pc # "idle" => pull[v][s].after <= k

Closed(v) == ~jumped[v] => \E k \in Nat : UpTo(v, k)

NoHoleInv == \A v \in Viewers : Closed(v)

LEMMA NoHoleInit == Init => NoHoleInv
<1> SUFFICES ASSUME Init, NEW v \in Viewers PROVE UpTo(v, 0)
  BY DEF NoHoleInv, Closed
<1> QED
  BY DEF Init, UpTo, Away, NoPull, Pull

\* Steps that leave alone what a view shows.
LEMMA QuietKeeps ==
  ASSUME NoHoleInv, pull' = pull, jumped' = jumped,
         \A v \in Viewers : view'[v].shown = view[v].shown /\ view'[v].last = view[v].last
  PROVE  NoHoleInv'
  BY DEF NoHoleInv, Closed, UpTo

LEMMA AnnounceQuiet ==
  ASSUME NEW vw \in [Viewers -> ViewType], Announce(vw),
         \A v \in Viewers : vw[v].shown = view[v].shown /\ vw[v].last = view[v].last
  PROVE  \A v \in Viewers : view'[v].shown = view[v].shown /\ view'[v].last = view[v].last
  BY DEF Announce, ViewType

\* A fetch that is asked for now asks from the newest row.
LEMMA AskKeeps ==
  ASSUME TypeInv, NoHoleInv, NEW w \in Viewers, Ask(w), jumped' = jumped,
         \A v \in Viewers : view'[v].shown = view[v].shown /\ view'[v].last = view[v].last
  PROVE  NoHoleInv'
<1> SUFFICES ASSUME NEW v \in Viewers, ~jumped[v], NEW k \in Nat, UpTo(v, k)
             PROVE  UpTo(v, k)'
  BY DEF NoHoleInv, Closed
<1>1. \A s \in PullSlots : pull'[v][s] = pull[v][s] \/ pull'[v][s].after = view[v].last
  BY AskShape DEF Pull, TypeInv, PullInv
<1>2. \A s \in PullSlots : pull'[v][s].pc # "idle" => pull'[v][s].after <= k
  BY <1>1 DEF UpTo
<1> QED
  BY <1>2 DEF UpTo

LEMMA NoHoleStep == TypeInv /\ NoHoleInv /\ [Next]_vars => NoHoleInv'
<1> SUFFICES ASSUME TypeInv, NoHoleInv, [Next]_vars PROVE NoHoleInv'
  OBVIOUS
<1> USE DEF browserVars, deskVars, DatabaseFrame, ServerFrame
<1>0. /\ view \in [Viewers -> ViewType] /\ jumped \in [Viewers -> BOOLEAN]
      /\ pull \in [Viewers -> [PullSlots -> PullType]]
  BY DEF TypeInv, ViewInv, PullInv
<1>1. ASSUME StoreInbound \/ StoreReply PROVE NoHoleInv'
  BY <1>1, QuietKeeps DEF StoreInbound, StoreReply
<1>2. ASSUME AnnounceInbound \/ FinishReply PROVE NoHoleInv'
  BY <1>0, <1>2, QuietKeeps, AnnounceQuiet DEF AnnounceInbound, FinishReply
<1>3. ASSUME NEW c \in Consultants, NEW kind \in Operations, Click(c, kind) PROVE NoHoleInv'
  BY <1>3, QuietKeeps DEF Click
<1>4. ASSUME NEW c \in Consultants, Change(c) \/ StoreOwn(c) \/ Refused(c) PROVE NoHoleInv'
  BY <1>4, QuietKeeps DEF Change, StoreOwn, Refused
<1>5. ASSUME NEW c \in Consultants, FinishOwn(c) \/ AnnounceChange(c) PROVE NoHoleInv'
  BY <1>0, <1>5, QuietKeeps, AnnounceQuiet DEF FinishOwn, AnnounceChange
<1>6. ASSUME NEW c \in Consultants, Respond(c) PROVE NoHoleInv'
  <2>1. CASE c \notin Viewers \/ view[c].pc # "open"
    BY <1>6, <2>1, QuietKeeps DEF Respond
  <2>2. CASE c \in Viewers /\ view[c].pc = "open" /\ op[c].kind = "send"
    <3> DEFINE row == op[c].row
    <3>1. /\ view' = [view EXCEPT ![c] = Placed(c, row)]
          /\ jumped' = [jumped EXCEPT ![c] = @ \/ Skips(c, row)]
          /\ pull' = pull
      BY <1>6, <2>2 DEF Respond
    <3>2. row \in Nat \ {0}
      BY <1>6, <2>2, Bounds DEF Respond, TypeInv, OpInv, KnowsRow, OpType, Rows
    <3> HIDE DEF row
    <3>3. ASSUME NEW v \in Viewers, v # c PROVE Closed(v)'
      BY <3>1, <3>3 DEF NoHoleInv, Closed, UpTo
    <3>4. ASSUME ~jumped'[c] PROVE \E k \in Nat : UpTo(c, k)'
      <4>0. ~jumped[c] /\ ~Skips(c, row)
        BY <1>0, <2>2, <3>1, <3>4, Zenon
      <4>1. PICK k \in Nat : UpTo(c, k)
        BY <2>2, <4>0 DEF NoHoleInv, Closed
      <4>2. CASE row \in view[c].shown
        <5>1. UpTo(c, k)'
          BY <2>2, <3>1, <4>1, <4>2 DEF UpTo, Placed
        <5> QED
          BY <5>1
      <4>3. CASE row \notin view[c].shown
        <5>2. 1 .. row - 1 \subseteq 1 .. k
          BY <4>0, <4>1, <4>3 DEF Skips, UpTo
        <5>3. row = k + 1
          <6>1. row > k
            BY <3>2, <4>1, <4>3 DEF UpTo
          <6>2. row - 1 <= k
            <7>1. CASE row = 1
              BY <7>1
            <7>2. CASE row # 1
              <8>1. row - 1 \in 1 .. row - 1
                BY <3>2, <7>2
              <8> QED
                BY <5>2, <8>1
            <7> QED
              BY <7>1, <7>2
          <6> QED
            BY <3>2, <6>1, <6>2
        <5>4. view'[c].shown = 1 .. (k + 1) /\ view'[c].last = k + 1
          <6>1. (1 .. k) \cup {k + 1} = 1 .. (k + 1)
            OBVIOUS
          <6>2. view'[c] = [view[c] EXCEPT !.shown = @ \cup {row}, !.last = row]
            <7>1. view'[c] = Placed(c, row)
              BY <1>0, <2>2, <3>1
            <7> QED
              BY <4>3, <7>1, Zenon DEF Placed
          <6>3. view'[c].shown = view[c].shown \cup {row} /\ view'[c].last = row
            BY <1>0, <2>2, <6>2 DEF ViewType
          <6> QED
            BY <4>1, <5>3, <6>1, <6>3 DEF UpTo
        <5>5. ASSUME NEW s \in PullSlots, pull'[c][s].pc # "idle"
              PROVE  pull'[c][s].after <= k + 1
          <6>1. pull[c][s].after <= k /\ pull[c][s].after \in Nat
            BY <1>0, <2>2, <3>1, <4>1, <5>5 DEF UpTo, PullType
          <6> QED
            BY <3>1, <6>1
        <5>6. UpTo(c, k + 1)'
          BY <5>4, <5>5 DEF UpTo
        <5> QED
          BY <5>6
      <4> QED
        BY <4>2, <4>3
    <3> QED
      BY <3>3, <3>4 DEF NoHoleInv, Closed
  <2>3. CASE c \in Viewers /\ view[c].pc = "open" /\ op[c].kind # "send"
    BY <1>6, <2>3, AskKeeps DEF Respond
  <2> QED
    BY <2>1, <2>2, <2>3
<1>7. ASSUME NEW w \in Viewers, OpenView(w) PROVE NoHoleInv'
  <2>1. PICK reads \in 0 .. 1 :
          view' = [view EXCEPT ![w].pc = "page", ![w].shown = 1 .. rows, ![w].last = rows,
                               ![w].reads = reads]
    BY <1>7 DEF OpenView
  <2>2. ASSUME NEW v \in Viewers, v # w PROVE Closed(v)'
    <3>1. view'[v] = view[v] /\ jumped' = jumped /\ pull' = pull
      BY <1>0, <1>7, <2>1, <2>2 DEF OpenView
    <3> QED
      BY <3>1 DEF NoHoleInv, Closed, UpTo
  <2>3. view'[w].shown = 1 .. rows /\ view'[w].last = rows /\ rows \in Nat
    BY <1>0, <2>1 DEF ViewType, TypeInv, ScalarsInv
  <2>4. UpTo(w, rows)'
    BY <1>7, <2>3 DEF OpenView, TypeInv, AwayIsQuiet, UpTo
  <2>5. Closed(w)'
    BY <1>7, <2>3, <2>4 DEF Closed, OpenView, UpTo
  <2> QED
    BY <2>2, <2>5 DEF NoHoleInv
<1>8. ASSUME NEW v \in Viewers, Subscribe(v) \/ Disconnect(v) PROVE NoHoleInv'
  <2>1. /\ pull' = pull /\ jumped' = jumped
        /\ \A x \in Viewers : view'[x].shown = view[x].shown /\ view'[x].last = view[x].last
    <3>1. CASE Subscribe(v)
      BY <1>0, <3>1 DEF Subscribe, ViewType
    <3>2. CASE Disconnect(v)
      BY <1>0, <3>2 DEF Disconnect, ViewType
    <3> QED
      BY <1>8, <3>1, <3>2
  <2> QED
    BY <2>1, QuietKeeps
<1>9. ASSUME NEW v \in Viewers, OnEvent(v) PROVE NoHoleInv'
  BY <1>9, AskKeeps DEF OnEvent
<1>10. ASSUME NEW v \in Viewers, MarkRead(v) PROVE NoHoleInv'
  <2>1. [view EXCEPT ![v].reads = @ - 1] \in [Viewers -> ViewType]
    BY <1>0, <1>10 DEF MarkRead, ViewType
  <2> DEFINE vw == [view EXCEPT ![v].reads = @ - 1]
  <2>2. \A x \in Viewers : vw[x].shown = view[x].shown /\ vw[x].last = view[x].last
    BY <1>0 DEF ViewType
  <2>3. Announce(vw) /\ pull' = pull /\ jumped' = jumped
    BY <1>10 DEF MarkRead
  <2> HIDE DEF vw
  <2> QED
    BY <2>1, <2>2, <2>3, QuietKeeps, AnnounceQuiet DEF vw
<1>11. ASSUME NEW w \in Viewers, NEW s \in PullSlots, AnswerPull(w, s) PROVE NoHoleInv'
  <2>1. ASSUME NEW v \in Viewers, NEW z \in PullSlots
        PROVE  /\ pull'[v][z].pc # "idle" => pull[v][z].pc # "idle"
               /\ pull'[v][z].after = pull[v][z].after
    <3>1. pull[w][s] \in PullType /\ pull[w][s].pc = "asked"
      BY <1>0, <1>11 DEF AnswerPull
    <3>2. Since(pull[w][s]).after = pull[w][s].after
      BY <3>1 DEF Since, PullType
    <3> QED
      BY <1>0, <1>11, <3>1, <3>2 DEF AnswerPull
  <2> QED
    BY <1>11, <2>1 DEF AnswerPull, NoHoleInv, Closed, UpTo
<1>12. ASSUME NEW w \in Viewers, NEW s \in PullSlots, ShowPull(w, s) PROVE NoHoleInv'
  <2> DEFINE new == pull[w][s].after + 1 .. pull[w][s].upto
  <2>1. pull[w][s] \in PullType /\ pull[w][s].pc # "idle"
    BY <1>0, <1>12 DEF ShowPull
  <2>2. \A v \in Viewers, z \in PullSlots :
          pull'[v][z].pc # "idle" => pull'[v][z] = pull[v][z]
    BY <1>0, <1>12 DEF ShowPull, NoPull, Pull
  <2>3. CASE new = {}
    BY <1>12, <2>2, <2>3 DEF ShowPull, NoHoleInv, Closed, UpTo
  <2>4. CASE new # {}
    <3>1. view' = [view EXCEPT ![w].shown = @ \cup new, ![w].last = pull[w][s].upto,
                               ![w].reads = @ + 1]
      BY <1>12, <2>4 DEF ShowPull
    <3>2. ASSUME NEW v \in Viewers, v # w PROVE Closed(v)'
      <4>1. view'[v] = view[v] /\ jumped' = jumped
        BY <1>0, <1>12, <3>1, <3>2 DEF ShowPull
      <4> QED
        BY <2>2, <4>1 DEF NoHoleInv, Closed, UpTo
    <3>3. ASSUME ~jumped[w], NEW k \in Nat, UpTo(w, k) PROVE \E n \in Nat : UpTo(w, n)'
      <4>1. pull[w][s].after <= k /\ pull[w][s].after \in Nat /\ pull[w][s].upto \in Nat
        BY <2>1, <3>3 DEF UpTo, PullType
      <4>2. PICK n \in Nat : n = IF pull[w][s].upto > k THEN pull[w][s].upto ELSE k
        BY <4>1
      <4>3. (1 .. k) \cup new = 1 .. n
        BY <4>1, <4>2
      <4>4. view'[w].shown = view[w].shown \cup new /\ view'[w].last = pull[w][s].upto
        BY <1>0, <3>1 DEF ViewType
      <4>5. ASSUME NEW z \in PullSlots, pull'[w][z].pc # "idle" PROVE pull'[w][z].after <= n
        <5>1. pull'[w][z].after <= k /\ pull'[w][z].after \in Nat
          BY <1>0, <2>2, <3>3, <4>5 DEF UpTo, PullType
        <5> QED
          BY <4>1, <4>2, <5>1
      <4>6. UpTo(w, n)'
        <5>1. view'[w].shown = 1 .. n
          <6>1. view[w].shown = 1 .. k
            BY <3>3 DEF UpTo
          <6> HIDE DEF new
          <6> QED
            BY <4>3, <4>4, <6>1
        <5>2. view'[w].last <= n
          BY <4>1, <4>2, <4>4
        <5> QED
          BY <4>5, <5>1, <5>2 DEF UpTo
      <4> QED
        BY <4>6
    <3> QED
      BY <1>12, <3>2, <3>3 DEF ShowPull, NoHoleInv, Closed
  <2> QED
    BY <2>3, <2>4
<1>13. ASSUME NEW w \in Viewers, NEW s \in PullSlots, PullFails(w, s) PROVE NoHoleInv'
  <2>1. \A v \in Viewers, z \in PullSlots :
          pull'[v][z].pc # "idle" => pull'[v][z] = pull[v][z]
    BY <1>0, <1>13 DEF PullFails, NoPull, Pull
  <2> QED
    BY <1>13, <2>1 DEF PullFails, NoHoleInv, Closed, UpTo
<1>14. ASSUME NEW v \in Viewers, MarkReadFails(v) PROVE NoHoleInv'
  <2>1. /\ pull' = pull /\ jumped' = jumped
        /\ \A x \in Viewers : view'[x].shown = view[x].shown /\ view'[x].last = view[x].last
    BY <1>0, <1>14 DEF MarkReadFails, ViewType
  <2> QED
    BY <2>1, QuietKeeps
<1>15. CASE UNCHANGED vars
  BY <1>15, QuietKeeps DEF vars
<1> QED
  BY <1>1, <1>2, <1>3, <1>4, <1>5, <1>6, <1>7, <1>8, <1>9, <1>10, <1>11, <1>12, <1>13,
     <1>14, <1>15 DEF Next, Serve, Browse

\* No view has a hole, for any number of views and of overlapping fetches, in
\* whatever order they are answered and however few rows one answer holds.
THEOREM NoHoles == Spec => []NoHole
<1>1. NoHoleInv => NoHole
  <2> SUFFICES ASSUME NEW v \in Viewers, NEW k \in Nat, view[v].shown = 1 .. k
               PROVE  view[v].shown = 1 .. Cardinality(view[v].shown)
    BY DEF NoHoleInv, Closed, UpTo, NoHole
  <2>1. Cardinality(1 .. k) = k
    BY FS_Interval
  <2> QED
    BY <2>1
<1>2. Spec => []NoHoleInv
  BY NoHoleInit, NoHoleStep, TypeAlways, PTL DEF Spec
<1> QED
  BY <1>1, <1>2, PTL

=============================================================================
