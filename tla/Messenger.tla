------------------------------ MODULE Messenger ------------------------------
(***************************************************************************)
(* The outbound path to one chat: Messenger.Send and the per-chat send     *)
(* lock (internal/service/outbound.go, chat_sequencer.go), with the rows   *)
(* it writes in the messages table and what reaches the WhatsApp provider. *)
(*                                                                         *)
(* Any producer (a pipeline worker, the follow-up worker, a consultant's   *)
(* request) may call Send at any time. A database statement may fail, and  *)
(* always fails once the caller's context is done. The provider accepts,   *)
(* refuses, or accepts and loses the answer.                               *)
(***************************************************************************)
EXTENDS Naturals, Sequences, FiniteSets

CONSTANTS Procs,            \* callers of Send
          Items,            \* what they send
          MaxSendAttempts,  \* outbound.go: 3
          MaxTraffic,       \* bound: rows and transmissions at the last request
          None              \* nobody, nothing

ASSUME MessengerAssumption ==
  /\ MaxSendAttempts \in Nat \ {0}
  /\ MaxTraffic \in Nat
  /\ None \notin Procs

VARIABLES sendLock,  \* the holder of the chat's send lock
          rows,      \* the outgoing rows of the chat's messages table, by id
          wire,      \* what the provider was handed and took, in order
          call,      \* each caller's progress through Send
          expired    \* whose context is done

vars == <<sendLock, rows, wire, call, expired>>

-----------------------------------------------------------------------------
(* State *)

\* An outgoing row is pending until its delivery is recorded.
RowStatuses == {"pending", "sent", "failed"}

Rows == [item: Items, status: RowStatuses]

\* Row 0 is a message that could not be stored and was sent all the same.
Transmissions == [item: Items, row: Nat]

Positions == {"idle", "wait", "store", "transmit", "record", "done"}

\* The positions between Lock and unlock.
Locked == {"store", "transmit", "record"}

Results == {"none", "ok", "failed", "cut"}

Call(pc, item, row, tries, result) ==
  [pc |-> pc, item |-> item, row |-> row, tries |-> tries, result |-> result]

Calls == [pc: Positions, item: Items \cup {None}, row: Nat,
          tries: 0 .. MaxSendAttempts, result: Results]

NoCall == Call("idle", None, 0, 0, "none")

TypeOK ==
  /\ sendLock \in Procs \cup {None}
  /\ rows \in Seq(Rows)
  /\ wire \in Seq(Transmissions)
  /\ call \in [Procs -> Calls]
  /\ \A p \in Procs : call[p].pc \notin {"idle", "done"} => call[p].item \in Items
  /\ expired \in [Procs -> BOOLEAN]

Init ==
  /\ sendLock = None
  /\ rows = <<>>
  /\ wire = <<>>
  /\ call = [p \in Procs |-> NoCall]
  /\ expired = [p \in Procs |-> FALSE]

-----------------------------------------------------------------------------
(* One call of Send *)

\* Somebody calls Send, with a context that is alive.
Request(p, item) ==
  /\ call[p].pc = "idle"
  /\ call' = [call EXCEPT ![p] = Call("wait", item, 0, 0, "none")]
  /\ expired' = [expired EXCEPT ![p] = FALSE]
  /\ UNCHANGED <<sendLock, rows, wire>>

\* Seeded fault: the lock is keyed by sender, so nobody waits for anybody.
LockFreeForAll == TRUE

LockFree == sendLock = None

\* chatSequencer.Lock takes the one slot of the chat's channel ...
Lock(p) ==
  /\ call[p].pc = "wait"
  /\ LockFree
  /\ sendLock' = p
  /\ call' = [call EXCEPT ![p].pc = "store"]
  /\ UNCHANGED <<rows, wire, expired>>

\* ... or gives up with the context. A context that is already done may still
\* win the slot: select chooses freely among ready cases.
LockCancelled(p) ==
  /\ call[p].pc = "wait"
  /\ expired[p]
  /\ call' = [call EXCEPT ![p] = Call("done", @.item, 0, 0, "cut")]
  /\ UNCHANGED <<sendLock, rows, wire, expired>>

\* The outgoing row is written before the transmission. When that fails the
\* message is sent without a row.
Store(p) ==
  /\ call[p].pc = "store"
  /\ \/ /\ ~expired[p]
        /\ rows' = Append(rows, [item |-> call[p].item, status |-> "pending"])
        /\ call' = [call EXCEPT ![p] = Call("transmit", @.item, Len(rows) + 1, 0, "none")]
     \/ /\ UNCHANGED rows
        /\ call' = [call EXCEPT ![p] = Call("transmit", @.item, 0, 0, "none")]
  /\ UNCHANGED <<sendLock, wire, expired>>

\* Seeded fault: the attempt counter is compared after one attempt too many.
CanRetryOnceMore(p) == call[p].tries <= MaxSendAttempts

CanRetry(p) == call[p].tries + 1 < MaxSendAttempts

Delivered(p) == wire' = Append(wire, [item |-> call[p].item, row |-> call[p].row])

\* One attempt at the provider. A done context fails before anything leaves.
Accepted(p) ==
  /\ call[p].pc = "transmit"
  /\ ~expired[p]
  /\ Delivered(p)
  /\ call' = [call EXCEPT ![p] = Call("record", @.item, @.row, @.tries + 1, "ok")]
  /\ UNCHANGED <<sendLock, rows, expired>>

\* The attempt fails and is worth another one. The provider may have taken
\* the message and lost the answer.
FailedTransiently(p) ==
  /\ call[p].pc = "transmit"
  /\ ~expired[p]
  /\ CanRetry(p)
  /\ Delivered(p) \/ UNCHANGED wire
  /\ call' = [call EXCEPT ![p] = Call("transmit", @.item, @.row, @.tries + 1, "none")]
  /\ UNCHANGED <<sendLock, rows, expired>>

\* The last attempt, a permanent error ("failed"), or a timeout ("cut"), which
\* is never retried and which the pipeline tells from other errors.
GaveUp(p) ==
  /\ call[p].pc = "transmit"
  /\ UNCHANGED wire \/ (~expired[p] /\ Delivered(p))
  /\ \E result \in {"failed", "cut"} :
       call' = [call EXCEPT ![p] = Call("record", @.item, @.row, @.tries + 1, result)]
  /\ UNCHANGED <<sendLock, rows, expired>>

\* Seeded fault: the failure branch records the delivery as sent.
FinalStatusAlwaysSent(p) == "sent"

\* Seeded fault: the result of the call is written in place of a status.
FinalStatusUntranslated(p) == call[p].result

FinalStatus(p) == IF call[p].result = "ok" THEN "sent" ELSE "failed"

\* Seeded fault: the deferred unlock is missing.
Unreleased == sendLock' = sendLock

Unlock == sendLock' = None

\* The delivery status is written, if there is a row and the statement
\* succeeds, and the deferred unlock runs.
Record(p) ==
  /\ call[p].pc = "record"
  /\ \/ /\ ~expired[p] /\ call[p].row # 0
        /\ rows' = [rows EXCEPT ![call[p].row] = [item |-> @.item, status |-> FinalStatus(p)]]
     \/ UNCHANGED rows
  /\ Unlock
  /\ call' = [call EXCEPT ![p].pc = "done"]
  /\ UNCHANGED <<wire, expired>>

\* Send returns to its caller.
Return(p) ==
  /\ call[p].pc = "done"
  /\ call' = [call EXCEPT ![p] = NoCall]
  /\ UNCHANGED <<sendLock, rows, wire, expired>>

\* The caller's deadline passes, or its client goes away.
Expire(p) ==
  /\ call[p].pc # "idle"
  /\ ~expired[p]
  /\ expired' = [expired EXCEPT ![p] = TRUE]
  /\ UNCHANGED <<sendLock, rows, wire, call>>

\* The process dies: locks, calls and contexts are memory, rows are not, and
\* what the provider took is out of reach.
Crash ==
  /\ sendLock' = None
  /\ call' = [p \in Procs |-> NoCall]
  /\ expired' = [p \in Procs |-> FALSE]
  /\ UNCHANGED <<rows, wire>>

Step(p) ==
  \/ Lock(p) \/ LockCancelled(p) \/ Store(p)
  \/ Accepted(p) \/ FailedTransiently(p) \/ GaveUp(p)
  \/ Record(p)

Next ==
  \/ \E p \in Procs :
       \/ /\ Len(rows) + Len(wire) < MaxTraffic
          /\ \E item \in Items : Request(p, item)
       \/ Step(p) \/ Return(p) \/ Expire(p)
  \/ Crash

Spec == Init /\ [][Next]_vars

-----------------------------------------------------------------------------
(* Properties *)

\* The send lock has exactly one holder between Lock and unlock, so two
\* producers never interleave inside Send (outbound.go:27).
SendExclusive == \A p \in Procs : call[p].pc \in Locked <=> sendLock = p

\* "Both are stored in the order they actually left the server"
\* (outbound.go:124-127): of two transmissions that have a row, the earlier
\* one never has the later row, whoever sent them.
StoredInWireOrder ==
  \A i, j \in DOMAIN wire :
    i < j /\ wire[i].row # 0 /\ wire[j].row # 0 => wire[i].row <= wire[j].row

\* A row the CRM shows as sent was really taken by the provider, and the row
\* holds what was taken.
SentWasTaken ==
  \A r \in DOMAIN rows :
    rows[r].status = "sent" => \E i \in DOMAIN wire : wire[i] = [item |-> rows[r].item, row |-> r]

\* One stored message never reaches the provider more than MaxSendAttempts
\* times, lost answers included (outbound.go:271-274).
BoundedCopies ==
  \A r \in DOMAIN rows :
    Cardinality({i \in DOMAIN wire : wire[i].row = r}) <= MaxSendAttempts

=============================================================================
