--------------------------- MODULE Messenger_proofs ---------------------------
(***************************************************************************)
(* What Messenger guarantees for every number of callers, every set of     *)
(* messages and every limit of attempts.                                   *)
(***************************************************************************)
EXTENDS Messenger, FiniteSetTheorems, TLAPS

\* The counter leaves room for the attempt about to be made.
RoomForAttempt ==
  \A p \in Procs : call[p].pc = "transmit" => call[p].tries < MaxSendAttempts

\* The row a call remembers is in the table.
RowsExist == \A p \in Procs : call[p].row \in 0 .. Len(rows)

TypeInv == TypeOK /\ RoomForAttempt /\ RowsExist

\* What the callers of Send do around it: they take the result of a call that
\* is over, and their contexts come and go.
Surroundings ==
  /\ UNCHANGED <<sendLock, rows, wire>>
  /\ call' \in [Procs -> Calls]
  /\ \A p \in Procs : call'[p] = call[p] \/ (call[p].pc = "done" /\ call'[p] = NoCall)
  /\ expired' \in [Procs -> BOOLEAN]

\* Every step of Messenger, without the bound on the traffic, and every step of
\* a module that calls Send: the lemmas below hold in both.
Moves ==
  \/ \E p \in Procs : \E item \in Items : Request(p, item)
  \/ \E p \in Procs : Step(p)
  \/ Surroundings
  \/ Crash

LEMMA NextMoves == TypeInv /\ [Next]_vars => Moves
<1> SUFFICES ASSUME TypeInv, [Next]_vars PROVE Moves
  OBVIOUS
<1>0. call \in [Procs -> Calls] /\ expired \in [Procs -> BOOLEAN]
  BY DEF TypeInv, TypeOK
<1>1. NoCall \in Calls
  BY MessengerAssumption DEF NoCall, Call, Calls, Positions, Results
<1>2. ASSUME NEW p \in Procs, Return(p) PROVE Surroundings
  BY <1>0, <1>1, <1>2 DEF Return, Surroundings
<1>3. ASSUME NEW p \in Procs, Expire(p) PROVE Surroundings
  BY <1>0, <1>3 DEF Expire, Surroundings
<1>4. ASSUME UNCHANGED vars PROVE Surroundings
  BY <1>0, <1>4 DEF vars, Surroundings
<1> QED
  BY <1>2, <1>3, <1>4 DEF Next, Moves

LEMMA TypeInit == Init => TypeInv
  BY MessengerAssumption
     DEF Init, TypeInv, TypeOK, RoomForAttempt, RowsExist, NoCall, Call, Calls, Positions, Results

LEMMA DeliveredType ==
  ASSUME NEW p \in Procs, wire \in Seq(Transmissions), call \in [Procs -> Calls],
         call[p].item \in Items, Delivered(p)
  PROVE  wire' \in Seq(Transmissions)
<1>1. [item |-> call[p].item, row |-> call[p].row] \in Transmissions
  BY DEF Calls, Transmissions
<1> QED
  BY <1>1 DEF Delivered

LEMMA TypeStep == TypeInv /\ Moves => TypeInv'
<1> SUFFICES ASSUME TypeInv, Moves PROVE TypeInv'
  OBVIOUS
<1> USE MessengerAssumption DEF TypeInv, TypeOK, RoomForAttempt, RowsExist
<1> USE DEF Calls, Call, Positions, Results
<1>1. ASSUME NEW p \in Procs, NEW item \in Items, Request(p, item) PROVE TypeInv'
  BY <1>1 DEF Request
<1>2. ASSUME NEW p \in Procs, Lock(p) PROVE TypeInv'
  BY <1>2 DEF Lock
<1>3. ASSUME NEW p \in Procs, LockCancelled(p) PROVE TypeInv'
  BY <1>3 DEF LockCancelled
<1>4. ASSUME NEW p \in Procs, Store(p) PROVE TypeInv'
  <2>1. CASE rows' = Append(rows, [item |-> call[p].item, status |-> "pending"])
             /\ call' = [call EXCEPT ![p] = Call("transmit", @.item, Len(rows) + 1, 0, "none")]
    <3>1. [item |-> call[p].item, status |-> "pending"] \in Rows
      BY <1>4 DEF Store, Rows, RowStatuses
    <3>2. rows' \in Seq(Rows)
      BY <2>1, <3>1
    <3> QED
      BY <1>4, <2>1, <3>2 DEF Store
  <2>2. CASE UNCHANGED rows /\ call' = [call EXCEPT ![p] = Call("transmit", @.item, 0, 0, "none")]
    BY <1>4, <2>2 DEF Store
  <2> QED
    BY <1>4, <2>1, <2>2 DEF Store
<1>5. ASSUME NEW p \in Procs, Accepted(p) PROVE TypeInv'
  <2>1. wire' \in Seq(Transmissions)
    BY <1>5, DeliveredType DEF Accepted
  <2> QED
    BY <1>5, <2>1 DEF Accepted
<1>6. ASSUME NEW p \in Procs, FailedTransiently(p) PROVE TypeInv'
  <2>1. call[p].item \in Items
    BY <1>6 DEF FailedTransiently
  <2>2. wire' \in Seq(Transmissions)
    <3>1. CASE Delivered(p)
      BY <2>1, <3>1, DeliveredType
    <3> QED
      BY <1>6, <3>1 DEF FailedTransiently
  <2> QED
    BY <1>6, <2>2 DEF FailedTransiently, CanRetry
<1>7. ASSUME NEW p \in Procs, GaveUp(p) PROVE TypeInv'
  <2>1. call[p].item \in Items
    BY <1>7 DEF GaveUp
  <2>2. wire' \in Seq(Transmissions)
    <3>1. CASE Delivered(p)
      BY <2>1, <3>1, DeliveredType
    <3> QED
      BY <1>7, <3>1 DEF GaveUp
  <2>3. PICK result \in {"failed", "cut"} :
          call' = [call EXCEPT ![p] = Call("record", @.item, @.row, @.tries + 1, result)]
    BY <1>7 DEF GaveUp
  <2> QED
    BY <1>7, <2>2, <2>3 DEF GaveUp
<1>8. ASSUME NEW p \in Procs, Record(p) PROVE TypeInv'
  <2>1. FinalStatus(p) \in RowStatuses
    BY DEF FinalStatus, RowStatuses
  <2>2. ASSUME NEW r \in 1 .. Len(rows),
               rows' = [rows EXCEPT ![r] = [item |-> @.item, status |-> FinalStatus(p)]]
        PROVE  rows' \in Seq(Rows) /\ Len(rows') = Len(rows)
    <3>1. rows[r] \in Rows
      BY <2>2
    <3>2. [item |-> rows[r].item, status |-> FinalStatus(p)] \in Rows
      BY <2>1, <3>1 DEF Rows
    <3> QED
      BY <2>2, <3>2
  <2>3. rows' \in Seq(Rows) /\ Len(rows') = Len(rows)
    BY <1>8, <2>2 DEF Record
  <2> QED
    BY <1>8, <2>3 DEF Record, Unlock
<1>9. CASE Surroundings
  <2>1. /\ UNCHANGED <<sendLock, rows, wire>>
        /\ call' \in [Procs -> Calls] /\ expired' \in [Procs -> BOOLEAN]
    BY <1>9 DEF Surroundings
  <2>2. ASSUME NEW p \in Procs
        PROVE  /\ call'[p].pc \notin {"idle", "done"} => call'[p].item \in Items
               /\ call'[p].pc = "transmit" => call'[p].tries < MaxSendAttempts
               /\ call'[p].row \in 0 .. Len(rows')
    <3>1. CASE call'[p] = call[p]
      BY <2>1, <3>1
    <3>2. CASE call'[p] = NoCall
      BY <2>1, <3>2 DEF NoCall
    <3> QED
      BY <1>9, <3>1, <3>2 DEF Surroundings
  <2> QED
    BY <2>1, <2>2
<1>10. CASE Crash
  BY <1>10 DEF Crash, NoCall
<1> QED
  BY <1>1, <1>2, <1>3, <1>4, <1>5, <1>6, <1>7, <1>8, <1>9, <1>10 DEF Moves, Step

\* Every variable keeps its type (the rows, the transmissions and the calls of
\* Send), and no attempt is made beyond the limit.
THEOREM TypeCorrect == Spec => []TypeOK
<1>1. TypeInv => TypeOK
  BY DEF TypeInv
<1> QED
  BY TypeInit, NextMoves, TypeStep, <1>1, PTL DEF Spec
-----------------------------------------------------------------------------
(* The send lock *)

LEMMA ExclusiveStep == TypeInv /\ SendExclusive /\ Moves => SendExclusive'
<1> SUFFICES ASSUME TypeInv, SendExclusive, Moves PROVE SendExclusive'
  OBVIOUS
<1> USE MessengerAssumption DEF TypeInv, TypeOK, Calls, Call, SendExclusive, Locked
<1>1. ASSUME NEW p \in Procs, NEW item \in Items, Request(p, item) PROVE SendExclusive'
  BY <1>1 DEF Request
<1>2. ASSUME NEW p \in Procs, Lock(p) PROVE SendExclusive'
  BY <1>2 DEF Lock, LockFree
<1>3. ASSUME NEW p \in Procs, LockCancelled(p) PROVE SendExclusive'
  BY <1>3 DEF LockCancelled
<1>4. ASSUME NEW p \in Procs, Store(p) PROVE SendExclusive'
  BY <1>4 DEF Store
<1>5. ASSUME NEW p \in Procs, Accepted(p) PROVE SendExclusive'
  BY <1>5 DEF Accepted
<1>6. ASSUME NEW p \in Procs, FailedTransiently(p) PROVE SendExclusive'
  BY <1>6 DEF FailedTransiently
<1>7. ASSUME NEW p \in Procs, GaveUp(p) PROVE SendExclusive'
  BY <1>7 DEF GaveUp
<1>8. ASSUME NEW p \in Procs, Record(p) PROVE SendExclusive'
  BY <1>8 DEF Record, Unlock
<1>9. CASE Surroundings
  BY <1>9 DEF Surroundings, NoCall
<1>10. CASE Crash
  BY <1>10 DEF Crash, NoCall
<1> QED
  BY <1>1, <1>2, <1>3, <1>4, <1>5, <1>6, <1>7, <1>8, <1>9, <1>10 DEF Moves, Step

\* At most one producer is between Lock and unlock, and the lock is held
\* exactly while one is (chatSequencer.Lock and the deferred unlock of Send).
THEOREM Exclusion == Spec => []SendExclusive
<1>1. Init => SendExclusive
  BY MessengerAssumption DEF Init, SendExclusive, Locked, NoCall, Call
<1> QED
  BY <1>1, TypeInit, NextMoves, TypeStep, ExclusiveStep, PTL DEF Spec

-----------------------------------------------------------------------------
(* The order of rows and transmissions *)

\* Every row that was transmitted is in the table.
WireRowsExist == \A i \in DOMAIN wire : wire[i].row <= Len(rows)

\* Nobody has transmitted a row later than the one the lock's holder is
\* transmitting: it was the last of the table when the lock was taken, and
\* only the holder of the lock can transmit a later one.
HolderIsLatest ==
  \A p \in Procs : call[p].pc = "transmit" /\ call[p].row # 0
    => \A i \in DOMAIN wire : wire[i].row <= call[p].row

OrderInv == WireRowsExist /\ HolderIsLatest /\ StoredInWireOrder

LEMMA WireRows ==
  ASSUME wire \in Seq(Transmissions)
  PROVE  \A i \in DOMAIN wire : wire[i].row \in Nat
<1>1. \A i \in DOMAIN wire : wire[i] \in Transmissions
  OBVIOUS
<1> QED
  BY <1>1 DEF Transmissions

\* A step that changes neither the wire nor the rows, and brings nobody to the
\* provider.
LEMMA OrderQuiet ==
  ASSUME OrderInv, UNCHANGED <<rows, wire>>,
         \A p \in Procs : call'[p].pc = "transmit" => call'[p] = call[p]
  PROVE  OrderInv'
  BY DEF OrderInv, WireRowsExist, HolderIsLatest, StoredInWireOrder

\* The holder of the lock transmits once more.
LEMMA OrderDelivered ==
  ASSUME NEW p \in Procs, TypeInv, SendExclusive, OrderInv,
         call[p].pc = "transmit", Delivered(p), UNCHANGED rows,
         \A q \in Procs \ {p} : call'[q] = call[q],
         call'[p].pc = "transmit" => call'[p].row = call[p].row
  PROVE  OrderInv'
<1>a. wire \in Seq(Transmissions) /\ rows \in Seq(Rows) /\ RowsExist
  BY DEF TypeInv, TypeOK
<1>b. call[p].row \in 0 .. Len(rows)
  BY <1>a DEF RowsExist
<1>1. wire \in Seq(Transmissions) /\ Len(rows) \in Nat /\ call[p].row \in 0 .. Len(rows)
  BY <1>a, <1>b
<1> DEFINE n == Len(wire) + 1
           e == [item |-> call[p].item, row |-> call[p].row]
<1>2. DOMAIN wire' = 1 .. n /\ n \in Nat /\ DOMAIN wire = 1 .. (n - 1)
  BY <1>1 DEF Delivered
<1>3. wire'[n].row = call[p].row /\ \A i \in DOMAIN wire : wire'[i] = wire[i]
  BY <1>1 DEF Delivered
<1>4. \A i \in DOMAIN wire : wire[i].row \in Nat
  BY <1>1, WireRows
<1>5. call[p].row # 0 => \A i \in DOMAIN wire : wire[i].row <= call[p].row
  BY DEF OrderInv, HolderIsLatest
<1>6. WireRowsExist'
  BY <1>1, <1>2, <1>3 DEF OrderInv, WireRowsExist
<1>7. HolderIsLatest'
  <2>1. \A q \in Procs \ {p} : call'[q].pc # "transmit"
    BY MessengerAssumption DEF SendExclusive, Locked
  <2> QED
    BY <1>1, <1>2, <1>3, <1>5, <2>1 DEF HolderIsLatest
<1>8. StoredInWireOrder'
  BY <1>1, <1>2, <1>3, <1>4, <1>5 DEF OrderInv, StoredInWireOrder
<1> QED
  BY <1>6, <1>7, <1>8 DEF OrderInv

LEMMA OrderStep == TypeInv /\ SendExclusive /\ OrderInv /\ Moves => OrderInv'
<1> SUFFICES ASSUME TypeInv, SendExclusive, OrderInv, Moves PROVE OrderInv'
  OBVIOUS
<1>0. call \in [Procs -> Calls] /\ rows \in Seq(Rows) /\ wire \in Seq(Transmissions)
  BY DEF TypeInv, TypeOK
<1>1. ASSUME NEW p \in Procs, NEW item \in Items, Request(p, item) PROVE OrderInv'
  BY <1>0, <1>1, OrderQuiet DEF Request, Call
<1>2. ASSUME NEW p \in Procs, Lock(p) PROVE OrderInv'
  BY <1>0, <1>2, OrderQuiet DEF Lock, Calls
<1>3. ASSUME NEW p \in Procs, LockCancelled(p) PROVE OrderInv'
  BY <1>0, <1>3, OrderQuiet DEF LockCancelled, Call
<1>4. ASSUME NEW p \in Procs, Store(p) PROVE OrderInv'
  <2>1. /\ UNCHANGED wire
        /\ Len(rows) \in Nat /\ Len(rows') \in Nat /\ Len(rows') >= Len(rows)
    BY <1>0, <1>4 DEF Store
  <2>a. \A i \in DOMAIN wire : wire[i].row \in Nat /\ wire[i].row <= Len(rows)
    BY <1>0, WireRows DEF OrderInv, WireRowsExist
  <2>2. call'[p].row \in {0, Len(rows) + 1} /\ \A q \in Procs \ {p} : call'[q] = call[q]
    BY <1>0, <1>4 DEF Store, Call
  <2>3. WireRowsExist'
    BY <2>1, <2>a DEF WireRowsExist
  <2>4. HolderIsLatest'
    BY <2>1, <2>a, <2>2 DEF OrderInv, HolderIsLatest
  <2> QED
    BY <2>1, <2>3, <2>4 DEF OrderInv, StoredInWireOrder
<1>5. ASSUME NEW p \in Procs, Accepted(p) PROVE OrderInv'
  BY <1>0, <1>5, OrderDelivered DEF Accepted, Call
<1>6. ASSUME NEW p \in Procs, FailedTransiently(p) PROVE OrderInv'
  <2>1. CASE Delivered(p)
    BY <1>0, <1>6, <2>1, OrderDelivered DEF FailedTransiently, Call
  <2>2. CASE UNCHANGED wire
    BY <1>0, <1>6, <2>2 DEF FailedTransiently, Call, OrderInv, WireRowsExist, HolderIsLatest, StoredInWireOrder
  <2> QED
    BY <1>6, <2>1, <2>2 DEF FailedTransiently
<1>7. ASSUME NEW p \in Procs, GaveUp(p) PROVE OrderInv'
  <2>1. call'[p].pc = "record" /\ \A q \in Procs \ {p} : call'[q] = call[q]
    BY <1>0, <1>7 DEF GaveUp, Call
  <2>2. CASE Delivered(p)
    BY <1>0, <1>7, <2>1, <2>2, OrderDelivered DEF GaveUp
  <2>3. CASE UNCHANGED wire
    BY <1>7, <2>1, <2>3, OrderQuiet DEF GaveUp
  <2> QED
    BY <1>7, <2>2, <2>3 DEF GaveUp
<1>8. ASSUME NEW p \in Procs, Record(p) PROVE OrderInv'
  <2>1. UNCHANGED wire /\ Len(rows') = Len(rows)
    BY <1>0, <1>8 DEF Record
  <2>2. call'[p].pc = "done" /\ \A q \in Procs \ {p} : call'[q] = call[q]
    BY <1>0, <1>8 DEF Record, Calls
  <2> QED
    BY <2>1, <2>2 DEF OrderInv, WireRowsExist, HolderIsLatest, StoredInWireOrder
<1>9. CASE Surroundings
  BY <1>9, OrderQuiet DEF Surroundings, NoCall, Call
<1>10. CASE Crash
  BY <1>10, OrderQuiet DEF Crash, NoCall, Call
<1> QED
  BY <1>1, <1>2, <1>3, <1>4, <1>5, <1>6, <1>7, <1>8, <1>9, <1>10 DEF Moves, Step

\* Messages are stored in the order they leave the server (Messenger.Send),
\* for any number of producers, retries, lost answers, failed stores and
\* crashes.
THEOREM WireOrder == Spec => []StoredInWireOrder
<1>1. Init => SendExclusive
  BY MessengerAssumption DEF Init, SendExclusive, Locked, NoCall, Call
<1>2. Init => OrderInv
  BY DEF Init, OrderInv, WireRowsExist, HolderIsLatest, StoredInWireOrder, NoCall, Call
<1>3. OrderInv => StoredInWireOrder
  BY DEF OrderInv
<1> QED
  BY <1>1, <1>2, <1>3, TypeInit, NextMoves, TypeStep, ExclusiveStep, OrderStep, PTL DEF Spec

-----------------------------------------------------------------------------
(* What the table says of the wire *)

\* A call that has a row transmits what the row holds; the success it is about
\* to record is on the wire.
TakenInv ==
  /\ \A p \in Procs : call[p].pc \in {"transmit", "record"} /\ call[p].row # 0
       => rows[call[p].row].item = call[p].item
  /\ \A p \in Procs : call[p].pc = "record" /\ call[p].result = "ok" /\ call[p].row # 0
       => \E i \in DOMAIN wire : wire[i] = [item |-> call[p].item, row |-> call[p].row]
  /\ SentWasTaken

\* A step that changes neither table nor wire and brings nobody further.
LEMMA TakenQuiet ==
  ASSUME TakenInv, UNCHANGED <<rows, wire>>,
         \A p \in Procs : call'[p].pc \in {"transmit", "record"} => call'[p] = call[p]
  PROVE  TakenInv'
  BY DEF TakenInv, SentWasTaken

\* One attempt: the wire only grows, and a success is its last entry.
LEMMA TakenAttempt ==
  ASSUME NEW p \in Procs, TypeInv, TakenInv, call[p].pc = "transmit",
         Delivered(p) \/ UNCHANGED wire, UNCHANGED rows,
         \A q \in Procs \ {p} : call'[q] = call[q],
         call'[p].item = call[p].item, call'[p].row = call[p].row,
         call'[p].pc = "record" /\ call'[p].result = "ok" => Delivered(p)
  PROVE  TakenInv'
<1>1. wire \in Seq(Transmissions)
  BY DEF TypeInv, TypeOK
<1>2. \A i \in DOMAIN wire : i \in DOMAIN wire' /\ wire'[i] = wire[i]
  BY <1>1 DEF Delivered
<1>3. Delivered(p) => \E i \in DOMAIN wire' : wire'[i] = [item |-> call[p].item, row |-> call[p].row]
  <2> SUFFICES ASSUME Delivered(p)
               PROVE  \E i \in DOMAIN wire' : wire'[i] = [item |-> call[p].item, row |-> call[p].row]
    OBVIOUS
  <2>1. Len(wire) + 1 \in DOMAIN wire'
        /\ wire'[Len(wire) + 1] = [item |-> call[p].item, row |-> call[p].row]
    BY <1>1 DEF Delivered
  <2> QED
    BY <2>1
<1>4. (\A q \in Procs : call[q].pc \in {"transmit", "record"} /\ call[q].row # 0
         => rows[call[q].row].item = call[q].item)'
  BY DEF TakenInv
<1>5. (\A q \in Procs : call[q].pc = "record" /\ call[q].result = "ok" /\ call[q].row # 0
         => \E i \in DOMAIN wire : wire[i] = [item |-> call[q].item, row |-> call[q].row])'
  BY <1>2, <1>3 DEF TakenInv
<1>6. SentWasTaken'
  BY <1>2 DEF TakenInv, SentWasTaken
<1> QED
  BY <1>4, <1>5, <1>6 DEF TakenInv

LEMMA TakenStep == TypeInv /\ TakenInv /\ Moves => TakenInv'
<1> SUFFICES ASSUME TypeInv, TakenInv, Moves PROVE TakenInv'
  OBVIOUS
<1>0. /\ call \in [Procs -> Calls] /\ rows \in Seq(Rows) /\ wire \in Seq(Transmissions)
      /\ \A p \in Procs : call[p].row \in 0 .. Len(rows)
  BY DEF TypeInv, TypeOK, RowsExist
<1>1. ASSUME NEW p \in Procs, NEW item \in Items, Request(p, item) PROVE TakenInv'
  BY <1>0, <1>1, TakenQuiet DEF Request, Call
<1>2. ASSUME NEW p \in Procs, Lock(p) PROVE TakenInv'
  BY <1>0, <1>2, TakenQuiet DEF Lock, Calls
<1>3. ASSUME NEW p \in Procs, LockCancelled(p) PROVE TakenInv'
  BY <1>0, <1>3, TakenQuiet DEF LockCancelled, Call
<1>4. ASSUME NEW p \in Procs, Store(p) PROVE TakenInv'
  <2>1. /\ UNCHANGED wire
        /\ \A q \in Procs \ {p} : call'[q] = call[q]
        /\ call'[p].pc = "transmit" /\ call'[p].item = call[p].item
    BY <1>0, <1>4 DEF Store, Call
  <2>2. CASE UNCHANGED rows /\ call'[p].row = 0
    BY <2>1, <2>2 DEF TakenInv, SentWasTaken
  <2>3. CASE /\ rows' = Append(rows, [item |-> call[p].item, status |-> "pending"])
             /\ call'[p].row = Len(rows) + 1
    <3>1. /\ DOMAIN rows' = DOMAIN rows \cup {Len(rows) + 1}
          /\ rows'[Len(rows) + 1] = [item |-> call[p].item, status |-> "pending"]
          /\ \A r \in DOMAIN rows : rows'[r] = rows[r]
      BY <1>0, <2>3
    <3>2. \A q \in Procs : call[q].row # 0 => call[q].row \in DOMAIN rows
      BY <1>0
    <3>3. rows'[Len(rows) + 1].item = call[p].item /\ rows'[Len(rows) + 1].status # "sent"
      BY <3>1
    <3>4. (\A q \in Procs : call[q].pc \in {"transmit", "record"} /\ call[q].row # 0
             => rows[call[q].row].item = call[q].item)'
      BY <2>1, <2>3, <3>1, <3>2, <3>3 DEF TakenInv
    <3>5. SentWasTaken'
      BY <2>1, <3>1, <3>3 DEF TakenInv, SentWasTaken
    <3> QED
      BY <2>1, <3>4, <3>5 DEF TakenInv
  <2> QED
    BY <1>0, <1>4, <2>2, <2>3 DEF Store, Call
<1>5. ASSUME NEW p \in Procs, Accepted(p) PROVE TakenInv'
  BY <1>0, <1>5, TakenAttempt DEF Accepted, Call
<1>6. ASSUME NEW p \in Procs, FailedTransiently(p) PROVE TakenInv'
  BY <1>0, <1>6, TakenAttempt DEF FailedTransiently, Call
<1>7. ASSUME NEW p \in Procs, GaveUp(p) PROVE TakenInv'
  <2>1. PICK result \in {"failed", "cut"} :
          call' = [call EXCEPT ![p] = Call("record", @.item, @.row, @.tries + 1, result)]
    BY <1>7 DEF GaveUp
  <2>2. /\ \A q \in Procs \ {p} : call'[q] = call[q]
        /\ call'[p].item = call[p].item /\ call'[p].row = call[p].row
        /\ call'[p].result # "ok"
    BY <1>0, <2>1 DEF Call
  <2> QED
    BY <1>7, <2>2, TakenAttempt DEF GaveUp
<1>8. ASSUME NEW p \in Procs, Record(p) PROVE TakenInv'
  <2>1. /\ UNCHANGED wire /\ call'[p].pc = "done"
        /\ \A q \in Procs \ {p} : call'[q] = call[q]
    BY <1>0, <1>8 DEF Record, Calls
  <2>2. CASE UNCHANGED rows
    BY <2>1, <2>2 DEF TakenInv, SentWasTaken
  <2>3. CASE /\ call[p].row # 0
             /\ rows' = [rows EXCEPT ![call[p].row] = [item |-> @.item, status |-> FinalStatus(p)]]
    <3>1. call[p].row \in DOMAIN rows
      BY <1>0, <2>3
    <3>2. /\ DOMAIN rows' = DOMAIN rows
          /\ \A r \in DOMAIN rows : rows'[r].item = rows[r].item
          /\ \A r \in DOMAIN rows \ {call[p].row} : rows'[r] = rows[r]
          /\ rows'[call[p].row].status = FinalStatus(p)
      BY <1>0, <2>3, <3>1
    <3>3. \A q \in Procs : call[q].row # 0 => call[q].row \in DOMAIN rows
      BY <1>0
    <3>4. (\A q \in Procs : call[q].pc \in {"transmit", "record"} /\ call[q].row # 0
             => rows[call[q].row].item = call[q].item)'
      BY <2>1, <3>2, <3>3 DEF TakenInv
    <3>5. FinalStatus(p) = "sent" => call[p].result = "ok"
      BY DEF FinalStatus
    <3>6. SentWasTaken'
      <4> SUFFICES ASSUME NEW r \in DOMAIN rows, rows'[r].status = "sent"
                   PROVE  \E i \in DOMAIN wire : wire[i] = [item |-> rows[r].item, row |-> r]
        BY <2>1, <3>2 DEF SentWasTaken
      <4>1. CASE r = call[p].row
        BY <1>8, <2>3, <3>2, <3>5, <4>1 DEF TakenInv, Record
      <4>2. CASE r # call[p].row
        BY <3>2, <4>2 DEF TakenInv, SentWasTaken
      <4> QED
        BY <4>1, <4>2
    <3> QED
      BY <2>1, <3>4, <3>6 DEF TakenInv
  <2> QED
    BY <1>8, <2>2, <2>3 DEF Record
<1>9. CASE Surroundings
  BY <1>9, TakenQuiet DEF Surroundings, NoCall, Call
<1>10. CASE Crash
  BY <1>10, TakenQuiet DEF Crash, NoCall, Call
<1> QED
  BY <1>1, <1>2, <1>3, <1>4, <1>5, <1>6, <1>7, <1>8, <1>9, <1>10 DEF Moves, Step

LEMMA TakenInit == Init => TakenInv
  BY DEF Init, TakenInv, SentWasTaken, NoCall, Call

\* What the CRM shows as sent was taken by the provider, and the row holds what
\* was taken: for any number of producers, retries, lost answers, failed
\* statements and crashes (the outcome recorded by Messenger.Send).
THEOREM HonestRows == Spec => []SentWasTaken
<1>1. TakenInv => SentWasTaken
  BY DEF TakenInv
<1> QED
  BY <1>1, TypeInit, TakenInit, NextMoves, TypeStep, TakenStep, PTL DEF Spec

-----------------------------------------------------------------------------
(* How often one row is transmitted *)

Copies(r) == {i \in DOMAIN wire : wire[i].row = r}

\* A row has been transmitted at most as often as its call made attempts.
CopiesInv ==
  /\ \A r \in DOMAIN rows : IsFiniteSet(Copies(r)) /\ Cardinality(Copies(r)) <= MaxSendAttempts
  /\ \A p \in Procs : call[p].pc = "transmit" /\ call[p].row # 0
       => Cardinality(Copies(call[p].row)) <= call[p].tries

\* One more transmission adds one copy of its row, and none of any other.
LEMMA CopiesAppend ==
  ASSUME NEW e \in Transmissions, wire \in Seq(Transmissions), wire' = Append(wire, e),
         NEW r, IsFiniteSet(Copies(r))
  PROVE  /\ IsFiniteSet(Copies(r)')
         /\ Cardinality(Copies(r)') = IF r = e.row THEN Cardinality(Copies(r)) + 1
                                                  ELSE Cardinality(Copies(r))
<1>1. /\ DOMAIN wire' = DOMAIN wire \cup {Len(wire) + 1}
      /\ wire'[Len(wire) + 1] = e
      /\ \A i \in DOMAIN wire : wire'[i] = wire[i] /\ i # Len(wire) + 1
  OBVIOUS
<1>2. Copies(r)' = IF r = e.row THEN Copies(r) \cup {Len(wire) + 1} ELSE Copies(r)
  BY <1>1 DEF Copies
<1>3. Len(wire) + 1 \notin Copies(r)
  BY <1>1 DEF Copies
<1> QED
  BY <1>2, <1>3, FS_AddElement

LEMMA CopiesQuiet ==
  ASSUME CopiesInv, UNCHANGED wire, DOMAIN rows' = DOMAIN rows,
         \A p \in Procs : call'[p].pc = "transmit" =>
           /\ call[p].pc = "transmit" /\ call'[p].row = call[p].row
           /\ call'[p].tries \in Nat /\ call[p].tries \in Nat /\ call'[p].tries >= call[p].tries,
         \A p \in Procs : call[p].row # 0 => call[p].row \in DOMAIN rows
  PROVE  CopiesInv'
<1>1. \A r : Copies(r)' = Copies(r)
  BY DEF Copies
<1>2. \A r \in DOMAIN rows : Cardinality(Copies(r)) \in Nat
  BY FS_CardinalityType DEF CopiesInv
<1>3. (\A r \in DOMAIN rows : IsFiniteSet(Copies(r)) /\ Cardinality(Copies(r)) <= MaxSendAttempts)'
  BY <1>1 DEF CopiesInv
<1>4. ASSUME NEW p \in Procs, call'[p].pc = "transmit", call'[p].row # 0
      PROVE  Cardinality(Copies(call[p].row)')  <= call'[p].tries
  BY <1>1, <1>2, <1>4 DEF CopiesInv
<1> QED
  BY <1>1, <1>3, <1>4 DEF CopiesInv

\* The holder of the lock, alone at the provider, transmits once more.
LEMMA CopiesDelivered ==
  ASSUME NEW p \in Procs, TypeInv, SendExclusive, CopiesInv,
         call[p].pc = "transmit", Delivered(p), UNCHANGED rows,
         \A q \in Procs \ {p} : call'[q] = call[q],
         call'[p].row = call[p].row, call'[p].tries = call[p].tries + 1
  PROVE  CopiesInv'
<1> DEFINE e == [item |-> call[p].item, row |-> call[p].row]
<1>1. /\ wire \in Seq(Transmissions) /\ call[p] \in Calls
      /\ call[p].item \in Items /\ call[p].row \in Nat
      /\ call[p].tries \in Nat /\ call[p].tries < MaxSendAttempts /\ MaxSendAttempts \in Nat
  BY MessengerAssumption DEF TypeInv, TypeOK, RoomForAttempt, Calls
<1>2. e \in Transmissions /\ e.row = call[p].row /\ wire' = Append(wire, e)
  BY <1>1 DEF Transmissions, Delivered
<1> HIDE DEF e
<1>3. ASSUME NEW r \in DOMAIN rows
      PROVE  /\ IsFiniteSet(Copies(r)') /\ Cardinality(Copies(r)') <= MaxSendAttempts
             /\ r = call[p].row => Cardinality(Copies(r)') <= call[p].tries + 1
  <2>1. IsFiniteSet(Copies(r)) /\ Cardinality(Copies(r)) <= MaxSendAttempts
        /\ (r = call[p].row /\ call[p].row # 0 => Cardinality(Copies(r)) <= call[p].tries)
    BY DEF CopiesInv
  <2>2. Cardinality(Copies(r)) \in Nat
    BY <2>1, FS_CardinalityType
  <2>3. r # 0
    BY DEF TypeInv, TypeOK
  <2>4. /\ IsFiniteSet(Copies(r)')
        /\ Cardinality(Copies(r)') = IF r = call[p].row THEN Cardinality(Copies(r)) + 1
                                                       ELSE Cardinality(Copies(r))
    BY <1>1, <1>2, <2>1, CopiesAppend
  <2> QED
    BY <1>1, <2>1, <2>2, <2>3, <2>4
<1>4. \A q \in Procs \ {p} : call[q].pc # "transmit"
  BY MessengerAssumption DEF SendExclusive, Locked
<1>5. call[p].row # 0 => call[p].row \in DOMAIN rows
  BY <1>1 DEF TypeInv, TypeOK, RowsExist
<1> QED
  BY <1>3, <1>4, <1>5 DEF CopiesInv

LEMMA CopiesStep ==
  TypeInv /\ SendExclusive /\ OrderInv /\ CopiesInv /\ Moves => CopiesInv'
<1> SUFFICES ASSUME TypeInv, SendExclusive, OrderInv, CopiesInv, Moves PROVE CopiesInv'
  OBVIOUS
<1>0. /\ call \in [Procs -> Calls] /\ rows \in Seq(Rows) /\ wire \in Seq(Transmissions)
      /\ \A p \in Procs : call[p].row \in 0 .. Len(rows) /\ call[p].tries \in Nat
  BY DEF TypeInv, TypeOK, RowsExist, Calls
<1>a. \A p \in Procs : call[p].row # 0 => call[p].row \in DOMAIN rows
  BY <1>0
<1>1. ASSUME NEW p \in Procs, NEW item \in Items, Request(p, item) PROVE CopiesInv'
  BY <1>0, <1>a, <1>1, CopiesQuiet DEF Request, Call
<1>2. ASSUME NEW p \in Procs, Lock(p) PROVE CopiesInv'
  BY <1>0, <1>a, <1>2, CopiesQuiet DEF Lock, Calls
<1>3. ASSUME NEW p \in Procs, LockCancelled(p) PROVE CopiesInv'
  BY <1>0, <1>a, <1>3, CopiesQuiet DEF LockCancelled, Call
<1>4. ASSUME NEW p \in Procs, Store(p) PROVE CopiesInv'
  <2>1. /\ UNCHANGED wire
        /\ \A q \in Procs \ {p} : call'[q] = call[q]
        /\ call'[p].tries = 0
        /\ \/ rows' = rows /\ call'[p].row = 0
           \/ DOMAIN rows' = DOMAIN rows \cup {Len(rows) + 1} /\ call'[p].row = Len(rows) + 1
    <3>1. ASSUME NEW row \in Nat,
                 call' = [call EXCEPT ![p] = Call("transmit", @.item, row, 0, "none")]
          PROVE  /\ \A q \in Procs \ {p} : call'[q] = call[q]
                 /\ call'[p].tries = 0 /\ call'[p].row = row
      BY <1>0, <3>1 DEF Call
    <3>2. ASSUME rows' = Append(rows, [item |-> call[p].item, status |-> "pending"])
          PROVE  DOMAIN rows' = DOMAIN rows \cup {Len(rows) + 1}
      BY <1>0, <3>2
    <3>3. Len(rows) + 1 \in Nat
      BY <1>0
    <3> QED
      BY <1>4, <3>1, <3>2, <3>3 DEF Store
  <2>2. \A r : Copies(r)' = Copies(r)
    BY <2>1 DEF Copies
  <2>3. Copies(Len(rows) + 1) = {}
    <3>1. \A i \in DOMAIN wire : wire[i].row \in Nat /\ wire[i].row <= Len(rows)
      BY <1>0, WireRows DEF OrderInv, WireRowsExist
    <3> QED
      BY <1>0, <3>1 DEF Copies
  <2>4. IsFiniteSet(Copies(Len(rows) + 1)) /\ Cardinality(Copies(Len(rows) + 1)) = 0
    BY <2>3, FS_EmptySet
  <2>5. 0 <= MaxSendAttempts
    BY MessengerAssumption
  <2>6. (\A r \in DOMAIN rows : IsFiniteSet(Copies(r)) /\ Cardinality(Copies(r)) <= MaxSendAttempts)'
    BY <2>1, <2>2, <2>4, <2>5 DEF CopiesInv
  <2>7. ASSUME NEW q \in Procs, call'[q].pc = "transmit", call'[q].row # 0
        PROVE  Cardinality(Copies(call'[q].row)) <= call'[q].tries
    <3>1. CASE q = p
      BY <2>1, <2>4, <2>7, <3>1
    <3> QED
      BY <2>1, <2>7, <3>1 DEF CopiesInv
  <2> QED
    BY <2>2, <2>6, <2>7 DEF CopiesInv
<1>5. ASSUME NEW p \in Procs, Accepted(p) PROVE CopiesInv'
  BY <1>0, <1>5, CopiesDelivered DEF Accepted, Call
<1>6. ASSUME NEW p \in Procs, FailedTransiently(p) PROVE CopiesInv'
  <2>1. /\ \A q \in Procs \ {p} : call'[q] = call[q]
        /\ call'[p].row = call[p].row /\ call'[p].tries = call[p].tries + 1
    BY <1>0, <1>6 DEF FailedTransiently, Call
  <2>2. CASE Delivered(p)
    BY <1>6, <2>1, <2>2, CopiesDelivered DEF FailedTransiently
  <2>3. CASE UNCHANGED wire
    BY <1>0, <1>a, <1>6, <2>1, <2>3, CopiesQuiet DEF FailedTransiently
  <2> QED
    BY <1>6, <2>2, <2>3 DEF FailedTransiently
<1>7. ASSUME NEW p \in Procs, GaveUp(p) PROVE CopiesInv'
  <2>1. PICK result \in {"failed", "cut"} :
          call' = [call EXCEPT ![p] = Call("record", @.item, @.row, @.tries + 1, result)]
    BY <1>7 DEF GaveUp
  <2>2. /\ \A q \in Procs \ {p} : call'[q] = call[q]
        /\ call'[p].pc = "record" /\ call'[p].row = call[p].row /\ call'[p].tries = call[p].tries + 1
    BY <1>0, <2>1 DEF Call
  <2>3. CASE Delivered(p)
    BY <1>7, <2>2, <2>3, CopiesDelivered DEF GaveUp
  <2>4. CASE UNCHANGED wire
    BY <1>0, <1>a, <1>7, <2>2, <2>4, CopiesQuiet DEF GaveUp
  <2> QED
    BY <1>7, <2>3, <2>4 DEF GaveUp
<1>8. ASSUME NEW p \in Procs, Record(p) PROVE CopiesInv'
  <2>1. UNCHANGED wire /\ DOMAIN rows' = DOMAIN rows
    BY <1>0, <1>8 DEF Record
  <2>2. call'[p].pc = "done" /\ \A q \in Procs \ {p} : call'[q] = call[q]
    BY <1>0, <1>8 DEF Record, Calls
  <2> QED
    BY <1>0, <1>a, <2>1, <2>2, CopiesQuiet
<1>9. CASE Surroundings
  BY <1>0, <1>a, <1>9, CopiesQuiet DEF Surroundings, NoCall, Call
<1>10. CASE Crash
  BY <1>0, <1>a, <1>10, CopiesQuiet DEF Crash, NoCall, Call
<1> QED
  BY <1>1, <1>2, <1>3, <1>4, <1>5, <1>6, <1>7, <1>8, <1>9, <1>10 DEF Moves, Step

LEMMA SendInit == Init => TypeInv /\ SendExclusive /\ OrderInv /\ CopiesInv
<1>1. Init => SendExclusive
  BY MessengerAssumption DEF Init, SendExclusive, Locked, NoCall, Call
<1>2. Init => OrderInv
  BY DEF Init, OrderInv, WireRowsExist, HolderIsLatest, StoredInWireOrder, NoCall, Call
<1>3. Init => CopiesInv
  BY DEF Init, CopiesInv, NoCall, Call
<1> QED
  BY <1>1, <1>2, <1>3, TypeInit

\* One stored message is never handed to the provider more often than the limit
\* of attempts, lost answers included (the retry loop of Messenger.Send).
THEOREM FewTransmissions == Spec => []BoundedCopies
<1>1. CopiesInv => BoundedCopies
  BY DEF CopiesInv, BoundedCopies, Copies
<1> QED
  BY <1>1, SendInit, NextMoves, TypeStep, ExclusiveStep, OrderStep, CopiesStep, PTL DEF Spec

=============================================================================
