----------------------------- MODULE Intake_proofs -----------------------------
(***************************************************************************)
(* What holds of the way from the provider to the pipeline for any number  *)
(* of requests, workers, chats and messages, any capacity of the queue, and *)
(* however often the process is stopped, dies and is started again.        *)
(***************************************************************************)
EXTENDS Intake, SequenceTheorems, WellFoundedInduction, TLAPS

-----------------------------------------------------------------------------
(* Facts about data *)

\* A set of places that is not empty has a first one.
LEMMA FirstPlace ==
  ASSUME NEW S, S \subseteq Nat, S # {}
  PROVE  Min(S) \in S
<1> DEFINE R == OpToRel(<, Nat)
<1>1. IsWellFoundedOn(R, Nat)
  BY NatLessThanWellFounded
<1>2. PICK x \in S : \A y \in S : ~ (<<y, x>> \in R)
  <2> HIDE DEF R
  <2> QED
    BY <1>1, WFMin, Zenon
<1>3. ASSUME NEW y \in S PROVE x <= y
  <2>1. <<y, x>> \notin R
    BY <1>2
  <2>2. ~(y < x)
    BY <2>1 DEF OpToRel
  <2>3. x \in Nat /\ y \in Nat
    OBVIOUS
  <2> QED
    BY <2>2, <2>3
<1> QED
  BY <1>3 DEF Min

\* t is s without its i-th element.
Without(s, t, i) ==
  /\ Len(t) = Len(s) - 1
  /\ \A k \in 1 .. Len(t) : t[k] = IF k < i THEN s[k] ELSE s[k + 1]

LEMMA TailIsWithout ==
  ASSUME NEW S, NEW s \in Seq(S), s # <<>>
  PROVE  Tail(s) \in Seq(S) /\ Without(s, Tail(s), 1)
<1>1. Tail(s) \in Seq(S) /\ Len(Tail(s)) = Len(s) - 1
  BY HeadTailProperties
<1>2. ASSUME NEW k \in 1 .. Len(Tail(s)) PROVE Tail(s)[k] = s[k + 1]
  BY <1>1, HeadTailProperties
<1> QED
  BY <1>1, <1>2 DEF Without

LEMMA RemoveAtIsWithout ==
  ASSUME NEW S, NEW s \in Seq(S), NEW i \in 1 .. Len(s)
  PROVE  RemoveAt(s, i) \in Seq(S) /\ Without(s, RemoveAt(s, i), i)
<1> DEFINE front == SubSeq(s, 1, i - 1)
           back == SubSeq(s, i + 1, Len(s))
           n == Len(s)
<1>0. n \in Nat /\ i \in Nat /\ 1 <= i /\ i <= n
  OBVIOUS
<1>1. /\ front \in Seq(S) /\ Len(front) = i - 1
      /\ \A k \in 1 .. i - 1 : front[k] = s[k]
  BY <1>0, SubSeqProperties
<1>2. /\ back \in Seq(S) /\ Len(back) = n - i
      /\ \A k \in 1 .. n - i : back[k] = s[i + k]
  BY <1>0, SubSeqProperties
<1>3. RemoveAt(s, i) = front \o back
  BY DEF RemoveAt
<1> HIDE DEF front, back
<1>4. /\ front \o back \in Seq(S)
      /\ Len(front \o back) = n - 1
      /\ \A k \in 1 .. n - 1 :
           (front \o back)[k] = IF k <= i - 1 THEN front[k] ELSE back[k - (i - 1)]
  <2>1. /\ front \o back \in Seq(S)
        /\ Len(front \o back) = Len(front) + Len(back)
        /\ \A k \in 1 .. Len(front) + Len(back) :
             (front \o back)[k] = IF k <= Len(front) THEN front[k] ELSE back[k - Len(front)]
    BY <1>1, <1>2, ConcatProperties
  <2>2. Len(front) + Len(back) = n - 1
    BY <1>0, <1>1, <1>2
  <2> QED
    BY <1>1, <2>1, <2>2
<1>5. ASSUME NEW k \in 1 .. n - 1
      PROVE  (front \o back)[k] = IF k < i THEN s[k] ELSE s[k + 1]
  <2>1. CASE k < i
    BY <1>0, <1>1, <1>4, <2>1
  <2>2. CASE ~(k < i)
    <3>1. k - (i - 1) \in 1 .. n - i /\ i + (k - (i - 1)) = k + 1
      BY <1>0, <2>2
    <3>2. (front \o back)[k] = back[k - (i - 1)]
      BY <1>0, <1>4, <2>2
    <3> QED
      BY <1>2, <2>2, <3>1, <3>2
  <2> QED
    BY <2>1, <2>2
<1> QED
  BY <1>3, <1>4, <1>5 DEF Without

LEMMA RangeOfTail ==
  ASSUME NEW S, NEW s \in Seq(S), s # <<>>
  PROVE  Range(s) = {Head(s)} \cup Range(Tail(s))
<1>1. Head(s) = s[1] /\ Len(s) \in Nat \ {0}
  BY HeadTailProperties
<1>2. Tail(s) \in Seq(S) /\ Without(s, Tail(s), 1)
  BY TailIsWithout
<1>3. /\ DOMAIN s = 1 .. Len(s) /\ DOMAIN Tail(s) = 1 .. Len(s) - 1
      /\ \A k \in 1 .. Len(s) - 1 : Tail(s)[k] = s[k + 1]
  BY <1>2 DEF Without
<1>4. Range(s) \subseteq {Head(s)} \cup Range(Tail(s))
  <2> SUFFICES ASSUME NEW i \in DOMAIN s, i # 1 PROVE s[i] \in Range(Tail(s))
    BY <1>1 DEF Range
  <2>1. i - 1 \in DOMAIN Tail(s) /\ (i - 1) + 1 = i
    BY <1>1, <1>3
  <2> QED
    BY <1>3, <2>1 DEF Range
<1>5. {Head(s)} \cup Range(Tail(s)) \subseteq Range(s)
  <2>1. s[1] \in Range(s)
    BY <1>1, <1>3 DEF Range
  <2>2. ASSUME NEW i \in DOMAIN Tail(s) PROVE Tail(s)[i] \in Range(s)
    <3>1. i + 1 \in DOMAIN s /\ Tail(s)[i] = s[i + 1]
      BY <1>1, <1>3
    <3> QED
      BY <3>1 DEF Range
  <2> QED
    BY <1>1, <2>1, <2>2 DEF Range
<1> QED
  BY <1>4, <1>5

LEMMA RangeOfAppend ==
  ASSUME NEW S, NEW s \in Seq(S), NEW x \in S
  PROVE  Range(Append(s, x)) = Range(s) \cup {x}
<1>1. /\ DOMAIN s = 1 .. Len(s) /\ DOMAIN Append(s, x) = 1 .. Len(s) + 1 /\ Len(s) \in Nat
      /\ \A i \in 1 .. Len(s) : Append(s, x)[i] = s[i]
      /\ Append(s, x)[Len(s) + 1] = x
  BY AppendProperties
<1>2. ASSUME NEW i \in DOMAIN Append(s, x) PROVE Append(s, x)[i] \in Range(s) \cup {x}
  <2>1. CASE i = Len(s) + 1
    BY <1>1, <2>1
  <2>2. CASE i # Len(s) + 1
    <3>1. i \in DOMAIN s /\ Append(s, x)[i] = s[i]
      BY <1>1, <2>2
    <3> QED
      BY <3>1 DEF Range
  <2> QED
    BY <2>1, <2>2
<1>3. x \in Range(Append(s, x))
  <2>1. Len(s) + 1 \in DOMAIN Append(s, x)
    BY <1>1
  <2> QED
    BY <1>1, <2>1 DEF Range
<1>4. ASSUME NEW i \in DOMAIN s PROVE s[i] \in Range(Append(s, x))
  <2>1. i \in DOMAIN Append(s, x) /\ Append(s, x)[i] = s[i]
    BY <1>1
  <2> QED
    BY <2>1 DEF Range
<1> QED
  BY <1>2, <1>3, <1>4 DEF Range

-----------------------------------------------------------------------------
(* Types *)

ReceiverStates ==
  [pc: {"idle", "read", "submit", "push", "delete", "wait", "gone"},
   event: Events \cup {None}, left: SUBSET Nat]

WorkerStates == [pc: {"idle", "check", "wait", "insert", "handle", "gone"}, msg: Messages \cup {None}]

\* Who is at an event has one, and who has to queue messages has some left of it.
ReceiverHolds(x) ==
  /\ x.pc \in {"read", "submit", "push", "delete"} => x.event \in Events
  /\ x.pc \in {"submit", "push"} => x.left # {} /\ x.left \subseteq Wanted(x.event)

\* A worker at a job has its message.
WorkerHolds(x) == x.pc \in {"check", "wait", "insert", "handle"} => x.msg \in Messages

TypeInv ==
  /\ TypeOK
  /\ \A r \in Receivers : ReceiverHolds(receiver[r])
  /\ \A w \in Workers : WorkerHolds(worker[w])

LEMMA WantedPlaces ==
  ASSUME NEW e \in Events
  PROVE  /\ Wanted(e) \subseteq Nat
         /\ \A i \in Wanted(e) : Carried[e][i] \in Messages
<1>1. Carried[e] \in Seq(Messages)
  BY IntakeAssumption
<1>2. DOMAIN Carried[e] \subseteq Nat /\ \A i \in DOMAIN Carried[e] : Carried[e][i] \in Messages
  BY <1>1
<1>3. CASE ParseWebhook(e) = Carried[e]
  BY <1>2, <1>3 DEF Wanted
<1>4. CASE ParseWebhook(e) = <<>>
  BY <1>4 DEF Wanted
<1> QED
  BY <1>3, <1>4 DEF ParseWebhook

LEMMA AtPlaces ==
  ASSUME NEW e \in Events, NEW places, places \subseteq Wanted(e)
  PROVE  At(e, places) \subseteq Messages
  BY WantedPlaces DEF At

LEMMA AfterType ==
  ASSUME NEW e \in Events, NEW left, left \subseteq Wanted(e)
  PROVE  After(e, left) \in ReceiverStates /\ ReceiverHolds(After(e, left))
<1>1. left \subseteq Nat /\ {} \subseteq Nat
  BY WantedPlaces
<1>2. CASE left # {}
  BY <1>1, <1>2 DEF After, Receiver, ReceiverStates, ReceiverHolds
<1>3. CASE left = {}
  BY <1>1, <1>3 DEF After, Receiver, AtRest, ReceiverStates, ReceiverHolds
<1> QED
  BY <1>2, <1>3

LEMMA RestType ==
  /\ AtRest \in ReceiverStates /\ ReceiverHolds(AtRest)
  /\ Idle \in WorkerStates /\ WorkerHolds(Idle)
  BY DEF AtRest, Receiver, ReceiverStates, ReceiverHolds, Idle, Worker, WorkerStates, WorkerHolds

\* A receiver that moves, as the only one, to a state that is well formed.
ReceiverMoves(r, x) ==
  /\ x \in ReceiverStates /\ ReceiverHolds(x)
  /\ receiver' = [receiver EXCEPT ![r] = x]

LEMMA ReceiverMovesType ==
  ASSUME TypeInv, NEW r \in Receivers, NEW x, ReceiverMoves(r, x)
  PROVE  /\ receiver' \in [Receivers -> ReceiverStates]
         /\ \A q \in Receivers : ReceiverHolds(receiver'[q])
<1>1. receiver \in [Receivers -> ReceiverStates]
  BY DEF TypeInv, TypeOK, ReceiverStates
<1>2. receiver' = [receiver EXCEPT ![r] = x] /\ x \in ReceiverStates /\ ReceiverHolds(x)
  BY DEF ReceiverMoves
<1>3. ASSUME NEW q \in Receivers PROVE receiver'[q] = IF q = r THEN x ELSE receiver[q]
  BY <1>1, <1>2
<1>4. \A q \in Receivers : ReceiverHolds(receiver[q])
  BY DEF TypeInv
<1>5. receiver' \in [Receivers -> ReceiverStates]
  BY <1>1, <1>2
<1>6. ASSUME NEW q \in Receivers PROVE ReceiverHolds(receiver'[q])
  BY <1>2, <1>3, <1>4
<1> QED
  BY <1>5, <1>6

\* What a step does to the receivers.
LEMMA StepMoves ==
  ASSUME TypeInv, NEW r \in Receivers, NEW step,
         \/ step = "wait"
         \/ step = "push" /\ receiver[r].pc = "submit",
         Step(r, step)
  PROVE  ReceiverMoves(r, [receiver[r] EXCEPT !.pc = step])
<1>1. receiver[r] \in ReceiverStates /\ ReceiverHolds(receiver[r])
  BY DEF TypeInv, TypeOK, ReceiverStates
<1> DEFINE x == [receiver[r] EXCEPT !.pc = step]
<1>2. x \in ReceiverStates /\ x.pc = step /\ x.event = receiver[r].event
      /\ x.left = receiver[r].left
  BY <1>1 DEF ReceiverStates
<1>3. receiver' = [receiver EXCEPT ![r] = x]
  BY DEF Step
<1> HIDE DEF x
<1>4. ReceiverHolds(x)
  BY <1>1, <1>2 DEF ReceiverHolds
<1> QED
  BY <1>2, <1>3, <1>4 DEF ReceiverMoves, x

\* The messages a receiver at its queueing has left, and their first one.
LEMMA FirstLeft ==
  ASSUME TypeInv, NEW r \in Receivers, receiver[r].pc \in {"submit", "push"}
  PROVE  /\ receiver[r].event \in Events
         /\ receiver[r].left \subseteq Wanted(receiver[r].event)
         /\ Min(receiver[r].left) \in receiver[r].left
         /\ First(r) \in Messages
<1>1. ReceiverHolds(receiver[r])
  BY DEF TypeInv
<1>2. /\ receiver[r].event \in Events /\ receiver[r].left # {}
      /\ receiver[r].left \subseteq Wanted(receiver[r].event)
  BY <1>1 DEF ReceiverHolds
<1>3. receiver[r].left \subseteq Nat
  BY <1>2, WantedPlaces
<1>4. Min(receiver[r].left) \in receiver[r].left
  BY <1>2, <1>3, FirstPlace
<1> QED
  BY <1>2, <1>4, WantedPlaces DEF First

LEMMA AdvanceMoves ==
  ASSUME TypeInv, NEW r \in Receivers, receiver[r].pc \in {"submit", "push"}, Advance(r)
  PROVE  ReceiverMoves(r, After(receiver[r].event,
                                receiver[r].left \ {Min(receiver[r].left)}))
<1> DEFINE e == receiver[r].event
           left == receiver[r].left \ {Min(receiver[r].left)}
<1>1. e \in Events /\ left \subseteq Wanted(e)
  BY FirstLeft
<1>2. After(e, left) \in ReceiverStates /\ ReceiverHolds(After(e, left))
  BY <1>1, AfterType
<1>3. receiver' = [receiver EXCEPT ![r] = After(e, left)]
  BY DEF Advance
<1> QED
  BY <1>2, <1>3 DEF ReceiverMoves

\* A worker that moves, as the only one, to a state that is well formed.
WorkerMoves(w, x) ==
  /\ x \in WorkerStates /\ WorkerHolds(x)
  /\ worker' = [worker EXCEPT ![w] = x]

LEMMA WorkerMovesType ==
  ASSUME TypeInv, NEW w \in Workers, NEW x, WorkerMoves(w, x)
  PROVE  /\ worker' \in [Workers -> WorkerStates]
         /\ \A v \in Workers : WorkerHolds(worker'[v])
<1>1. worker \in [Workers -> WorkerStates]
  BY DEF TypeInv, TypeOK, WorkerStates
<1>2. worker' = [worker EXCEPT ![w] = x] /\ x \in WorkerStates /\ WorkerHolds(x)
  BY DEF WorkerMoves
<1>3. ASSUME NEW v \in Workers PROVE worker'[v] = IF v = w THEN x ELSE worker[v]
  BY <1>1, <1>2
<1>4. \A v \in Workers : WorkerHolds(worker[v])
  BY DEF TypeInv
<1>5. worker' \in [Workers -> WorkerStates]
  BY <1>1, <1>2
<1>6. ASSUME NEW v \in Workers PROVE WorkerHolds(worker'[v])
  BY <1>2, <1>3, <1>4
<1> QED
  BY <1>5, <1>6

LEMMA WorkerStepMoves ==
  ASSUME TypeInv, NEW w \in Workers, NEW step,
         \/ step \in {"wait", "insert", "handle"} /\ worker[w].pc \in {"check", "wait", "insert", "handle"}
         \/ step = "gone",
         worker' = [worker EXCEPT ![w].pc = step]
  PROVE  WorkerMoves(w, [worker[w] EXCEPT !.pc = step])
<1>1. worker[w] \in WorkerStates /\ WorkerHolds(worker[w])
  BY DEF TypeInv, TypeOK, WorkerStates
<1> DEFINE x == [worker[w] EXCEPT !.pc = step]
<1>2. x \in WorkerStates /\ x.pc = step /\ x.msg = worker[w].msg
  BY <1>1 DEF WorkerStates
<1>3. worker' = [worker EXCEPT ![w] = x]
  OBVIOUS
<1> HIDE DEF x
<1>4. WorkerHolds(x)
  BY <1>1, <1>2 DEF WorkerHolds
<1> QED
  BY <1>2, <1>3, <1>4 DEF WorkerMoves, x

\* A chat's line: who is in it is in it once, at a job of that chat, and whoever is
\* at his turn is its head.
LineInv ==
  /\ LineIsHonest
  /\ \A c \in Chats : IsInjective(line[c])

LEMMA PlaceInLine ==
  ASSUME TypeInv, LineInv, NEW w \in Workers, worker[w].pc \in {"wait", "insert", "handle"}
  PROVE  /\ Place(w) \in 1 .. Len(line[Chat(w)])
         /\ line[Chat(w)][Place(w)] = w
<1>1. Chat(w) \in Chats
  BY IntakeAssumption DEF TypeInv, WorkerHolds, Chat
<1>2. line[Chat(w)] \in Seq(Workers)
  BY <1>1 DEF TypeInv, TypeOK
<1>3. \E i \in DOMAIN line[Chat(w)] : line[Chat(w)][i] = w
  BY DEF LineInv, LineIsHonest, Range
<1>4. Place(w) \in DOMAIN line[Chat(w)] /\ line[Chat(w)][Place(w)] = w
  BY <1>3 DEF Place
<1> QED
  BY <1>2, <1>4

LEMMA HolderInLine ==
  ASSUME TypeInv, LineInv, NEW w \in Workers, worker[w].pc \in {"insert", "handle"}
  PROVE  Holds(w)
<1>1. Chat(w) \in Chats
  BY IntakeAssumption DEF TypeInv, WorkerHolds, Chat
<1>2. line[Chat(w)] \in Seq(Workers)
  BY <1>1 DEF TypeInv, TypeOK
<1>3. Place(w) \in 1 .. Len(line[Chat(w)]) /\ line[Chat(w)][Place(w)] = w
  BY PlaceInLine
<1>4. Place(w) = 1
  BY <1>1, <1>2, <1>3 DEF LineInv, LineIsHonest
<1> QED
  BY <1>2, <1>3, <1>4, HeadTailProperties DEF Holds

ReceiversTyped ==
  receiver \in [Receivers -> ReceiverStates] /\ \A r \in Receivers : ReceiverHolds(receiver[r])

WorkersTyped ==
  worker \in [Workers -> WorkerStates] /\ \A w \in Workers : WorkerHolds(worker[w])

DataTyped ==
  /\ transport \in Transports
  /\ feed \in Seq(Events)
  /\ posts \in [Events -> 0 .. MaxPosts]
  /\ acked \subseteq Events
  /\ phase \in {"running", "closing", "draining", "exited"}
  /\ queue \in Seq(Messages) /\ Len(queue) <= QueueSize
  /\ closed \in BOOLEAN
  /\ line \in [Chats -> Seq(Workers)]
  /\ stored \in Seq(Messages)
  /\ faults \in 0 .. MaxFaults
  /\ starts \in 0 .. MaxStarts
  /\ panicked \in BOOLEAN
  /\ refused \subseteq Messages

LEMMA TypeParts == TypeInv <=> ReceiversTyped /\ WorkersTyped /\ DataTyped
  BY DEF TypeInv, TypeOK, ReceiversTyped, WorkersTyped, DataTyped, ReceiverStates, WorkerStates

LEMMA FreshTyped ==
  /\ receiver' = [r \in Receivers |-> AtRest] => ReceiversTyped'
  /\ worker' = [w \in Workers |-> Idle] => WorkersTyped'
  /\ [c \in Chats |-> <<>>] \in [Chats -> Seq(Workers)]
<1>1. ASSUME receiver' = [r \in Receivers |-> AtRest] PROVE ReceiversTyped'
  BY <1>1, RestType DEF ReceiversTyped
<1>2. ASSUME worker' = [w \in Workers |-> Idle] PROVE WorkersTyped'
  BY <1>2, RestType DEF WorkersTyped
<1> QED
  BY <1>1, <1>2

LEMMA ReceiverMovesTyped ==
  ASSUME TypeInv, NEW r \in Receivers, NEW x, ReceiverMoves(r, x)
  PROVE  ReceiversTyped'
  BY ReceiverMovesType DEF ReceiversTyped

LEMMA WorkerMovesTyped ==
  ASSUME TypeInv, NEW w \in Workers, NEW x, WorkerMoves(w, x)
  PROVE  WorkersTyped'
  BY WorkerMovesType DEF WorkersTyped

LEMMA TypeInit == Init => TypeInv
<1> SUFFICES ASSUME Init PROVE TypeInv
  OBVIOUS
<1>1. ReceiversTyped
  BY RestType DEF Init, ReceiversTyped
<1>2. WorkersTyped
  BY RestType DEF Init, WorkersTyped
<1>3. feed \in Seq(Events) /\ transport \in Transports
  BY IntakeAssumption DEF Init
<1>4. starts \in 0 .. MaxStarts /\ faults \in 0 .. MaxFaults
  BY IntakeAssumption DEF Init
<1>5. posts \in [Events -> 0 .. MaxPosts] /\ Len(queue) <= QueueSize
  BY IntakeAssumption DEF Init
<1>6. DataTyped
  <2>1. line \in [Chats -> Seq(Workers)] /\ queue \in Seq(Messages) /\ stored \in Seq(Messages)
    BY FreshTyped DEF Init
  <2>2. acked \subseteq Events /\ refused \subseteq Messages /\ closed \in BOOLEAN
        /\ panicked \in BOOLEAN
    BY DEF Init
  <2>3. phase \in {"running", "closing", "draining", "exited"}
    BY DEF Init
  <2> QED
    BY <1>3, <1>4, <1>5, <2>1, <2>2, <2>3 DEF DataTyped
<1> QED
  BY <1>1, <1>2, <1>6, TypeParts

\* The moves of the receivers, one state for each action.
LEMMA ReceiverStepMoves ==
  ASSUME TypeInv, NEW r \in Receivers
  PROVE  /\ Poll(r) => ReceiverMoves(r, Receiver("read", Head(feed), {}))
         /\ Reject(r) \/ Delete(r) \/ Retry(r) => ReceiverMoves(r, AtRest)
         /\ Read(r) => ReceiverMoves(r, After(receiver[r].event, Wanted(receiver[r].event)))
         /\ StopPolling(r) => ReceiverMoves(r, Receiver("gone", None, {}))
         /\ \A e \in Events : Post(r, e) => ReceiverMoves(r, Receiver("read", e, {}))
<1>0. ASSUME NEW e \in Events
      PROVE  /\ Receiver("read", e, {}) \in ReceiverStates
             /\ ReceiverHolds(Receiver("read", e, {}))
  BY DEF Receiver, ReceiverStates, ReceiverHolds
<1>1. ASSUME Poll(r) PROVE ReceiverMoves(r, Receiver("read", Head(feed), {}))
  <2>1. Head(feed) \in Events
    BY <1>1, HeadTailProperties DEF Poll, TypeInv, TypeOK
  <2> QED
    BY <1>0, <1>1, <2>1 DEF Poll, ReceiverMoves
<1>2. ASSUME Reject(r) \/ Delete(r) \/ Retry(r) PROVE ReceiverMoves(r, AtRest)
  BY <1>2, RestType DEF Reject, Delete, Retry, ReceiverMoves
<1>3. ASSUME Read(r)
      PROVE  ReceiverMoves(r, After(receiver[r].event, Wanted(receiver[r].event)))
  <2>1. receiver[r].event \in Events
    BY <1>3 DEF Read, TypeInv, ReceiverHolds
  <2> QED
    BY <1>3, <2>1, AfterType DEF Read, ReceiverMoves
<1>4. ASSUME StopPolling(r) PROVE ReceiverMoves(r, Receiver("gone", None, {}))
  <2>1. /\ Receiver("gone", None, {}) \in ReceiverStates
        /\ ReceiverHolds(Receiver("gone", None, {}))
    BY DEF Receiver, ReceiverStates, ReceiverHolds
  <2> QED
    BY <1>4, <2>1 DEF StopPolling, ReceiverMoves
<1>5. ASSUME NEW e \in Events, Post(r, e) PROVE ReceiverMoves(r, Receiver("read", e, {}))
  BY <1>0, <1>5 DEF Post, ReceiverMoves
<1> QED
  BY <1>1, <1>2, <1>3, <1>4, <1>5

LEMMA RefuseTyped ==
  ASSUME TypeInv, NEW r \in Receivers, receiver[r].pc \in {"submit", "push"}, Refuse(r)
  PROVE  ReceiversTyped' /\ refused' \subseteq Messages
<1>1. CASE Step(r, "wait") /\ UNCHANGED refused
  BY <1>1, StepMoves, ReceiverMovesTyped DEF TypeInv, TypeOK
<1>2. CASE Advance(r) /\ refused' = refused \cup {First(r)}
  BY <1>2, AdvanceMoves, ReceiverMovesTyped, FirstLeft DEF TypeInv, TypeOK
<1> QED
  BY <1>1, <1>2 DEF Refuse

LEMMA DieTyped == Die => ReceiversTyped' /\ WorkersTyped'
  BY FreshTyped DEF Die

LEMMA FaultTyped == faults \in 0 .. MaxFaults /\ Fault => faults' \in 0 .. MaxFaults
  BY IntakeAssumption DEF Fault

LEMMA TypeStep == TypeInv /\ LineInv /\ [Next]_vars => TypeInv'
<1> SUFFICES ASSUME TypeInv, LineInv, [Next]_vars
             PROVE  ReceiversTyped' /\ WorkersTyped' /\ DataTyped'
  BY DEF TypeInv, TypeOK, ReceiversTyped, WorkersTyped, DataTyped, ReceiverStates, WorkerStates
<1>0. ReceiversTyped /\ WorkersTyped /\ DataTyped
  BY TypeParts
<1>a. UNCHANGED receiver => ReceiversTyped'
  BY <1>0 DEF ReceiversTyped
<1>b. UNCHANGED worker => WorkersTyped'
  BY <1>0 DEF WorkersTyped
<1>c. Tail(feed) \in Seq(Events) \/ feed = <<>>
  BY <1>0, HeadTailProperties DEF DataTyped
<1>d. /\ Tail(queue) \in Seq(Messages) \/ queue = <<>>
      /\ queue # <<>> => Len(Tail(queue)) <= QueueSize /\ Head(queue) \in Messages
  BY <1>0, HeadTailProperties, IntakeAssumption DEF DataTyped
<1> USE DEF DataTyped, ReceiverVars, WorkerFrame, providerVars, poolVars, workerVars, boundVars
<1>1. ASSUME NEW r \in Receivers, Poll(r) PROVE ReceiversTyped' /\ WorkersTyped' /\ DataTyped'
  BY <1>0, <1>b, <1>1, ReceiverStepMoves, ReceiverMovesTyped DEF Poll
<1>2. ASSUME NEW r \in Receivers, PollFails(r)
      PROVE  ReceiversTyped' /\ WorkersTyped' /\ DataTyped'
  BY <1>0, <1>b, <1>2, StepMoves, ReceiverMovesTyped, FaultTyped DEF PollFails
<1>3. ASSUME NEW r \in Receivers, NEW e \in Events, Post(r, e)
      PROVE  ReceiversTyped' /\ WorkersTyped' /\ DataTyped'
  <2>1. posts' \in [Events -> 0 .. MaxPosts]
    BY <1>0, <1>3, IntakeAssumption DEF Post
  <2> QED
    BY <1>0, <1>b, <1>3, <2>1, ReceiverStepMoves, ReceiverMovesTyped DEF Post
<1>4. ASSUME NEW r \in Receivers, Reject(r)
      PROVE  ReceiversTyped' /\ WorkersTyped' /\ DataTyped'
  BY <1>0, <1>b, <1>4, ReceiverStepMoves, ReceiverMovesTyped, FaultTyped DEF Reject
<1>5. ASSUME NEW r \in Receivers, Read(r) PROVE ReceiversTyped' /\ WorkersTyped' /\ DataTyped'
  <2>1. receiver[r].event \in Events
    BY <1>5 DEF Read, TypeInv, ReceiverHolds
  <2> QED
    BY <1>0, <1>b, <1>5, <2>1, ReceiverStepMoves, ReceiverMovesTyped DEF Read
<1>6. ASSUME NEW r \in Receivers, CheckOpen(r)
      PROVE  ReceiversTyped' /\ WorkersTyped' /\ DataTyped'
  BY <1>0, <1>b, <1>6, StepMoves, ReceiverMovesTyped DEF CheckOpen
<1>7. ASSUME NEW r \in Receivers, RefuseClosed(r) \/ RefuseFull(r)
      PROVE  ReceiversTyped' /\ WorkersTyped' /\ DataTyped'
  BY <1>0, <1>b, <1>7, RefuseTyped DEF RefuseClosed, RefuseFull
<1>8. ASSUME NEW r \in Receivers, Push(r) PROVE ReceiversTyped' /\ WorkersTyped' /\ DataTyped'
  <2>1. ReceiversTyped'
    BY <1>8, AdvanceMoves, ReceiverMovesTyped DEF Push
  <2>2. First(r) \in Messages
    BY <1>8, FirstLeft DEF Push
  <2>3. queue' \in Seq(Messages) /\ Len(queue') <= QueueSize
    BY <1>0, <1>8, <2>2, IntakeAssumption DEF Push, Room
  <2> QED
    BY <1>0, <1>b, <1>8, <2>1, <2>3 DEF Push
<1>9. ASSUME NEW r \in Receivers, Panic(r) PROVE ReceiversTyped' /\ WorkersTyped' /\ DataTyped'
  <2>1. CASE Die /\ UNCHANGED <<closed, stored>>
    <3>1. queue' \in Seq(Messages) /\ Len(queue') <= QueueSize
      BY <2>1, IntakeAssumption DEF Die
    <3> QED
      BY <1>0, <1>9, <2>1, <3>1, DieTyped, FreshTyped DEF Panic, Die
  <2>2. CASE /\ receiver' = [receiver EXCEPT ![r] = AtRest]
             /\ UNCHANGED <<phase, poolVars, workerVars>>
    <3>1. ReceiverMoves(r, AtRest)
      BY <2>2, RestType DEF ReceiverMoves
    <3> QED
      BY <1>0, <1>b, <1>9, <2>2, <3>1, ReceiverMovesTyped DEF Panic
  <2> QED
    BY <1>9, <2>1, <2>2 DEF Panic
<1>10. ASSUME NEW r \in Receivers, Delete(r)
       PROVE  ReceiversTyped' /\ WorkersTyped' /\ DataTyped'
  <2>1. receiver[r].event \in Events
    BY <1>10 DEF Delete, TypeInv, ReceiverHolds
  <2>2. feed' \in Seq(Events) /\ acked' \subseteq Events
    BY <1>0, <1>c, <1>10, <2>1 DEF Delete, Gone
  <2> QED
    BY <1>0, <1>b, <1>10, <2>2, ReceiverStepMoves, ReceiverMovesTyped DEF Delete
<1>11. ASSUME NEW r \in Receivers, DeleteFails(r)
       PROVE  ReceiversTyped' /\ WorkersTyped' /\ DataTyped'
  <2>1. receiver[r].event \in Events
    BY <1>11 DEF DeleteFails, TypeInv, ReceiverHolds
  <2>2. feed' \in Seq(Events) /\ acked' \subseteq Events
    BY <1>0, <1>c, <1>11, <2>1 DEF DeleteFails, Gone
  <2> QED
    BY <1>0, <1>b, <1>11, <2>2, StepMoves, ReceiverMovesTyped, FaultTyped DEF DeleteFails
<1>12. ASSUME NEW r \in Receivers, Retry(r)
       PROVE  ReceiversTyped' /\ WorkersTyped' /\ DataTyped'
  BY <1>0, <1>b, <1>12, ReceiverStepMoves, ReceiverMovesTyped DEF Retry
<1>13. ASSUME NEW r \in Receivers, StopPolling(r)
       PROVE  ReceiversTyped' /\ WorkersTyped' /\ DataTyped'
  BY <1>0, <1>b, <1>13, ReceiverStepMoves, ReceiverMovesTyped DEF StopPolling
<1>14. ASSUME NEW w \in Workers, Work(w) \/ Fail(w)
       PROVE  ReceiversTyped' /\ WorkersTyped' /\ DataTyped'
  <2>0. /\ worker[w].pc \in {"check", "wait", "insert", "handle"} => worker[w].msg \in Messages
        /\ worker[w].pc \in {"check", "wait", "insert", "handle"} => Chat(w) \in Chats
    BY IntakeAssumption DEF TypeInv, WorkerHolds, Chat
  <2>1. ASSUME worker' = [worker EXCEPT ![w] = Idle] PROVE WorkersTyped'
    <3>1. WorkerMoves(w, Idle)
      BY <2>1, RestType DEF WorkerMoves
    <3> QED
      BY <3>1, WorkerMovesTyped
  <2>2. ASSUME worker[w].pc \in {"check", "wait", "insert", "handle"}, Release(w), Holds(w)
        PROVE  line' \in [Chats -> Seq(Workers)]
    BY <1>0, <2>0, <2>2, HeadTailProperties DEF Release, Holds
  <2>3. CASE Take(w)
    <3>1. Worker("check", Head(queue)) \in WorkerStates
          /\ WorkerHolds(Worker("check", Head(queue)))
      BY <1>d, <2>3 DEF Take, Worker, WorkerStates, WorkerHolds
    <3>2. WorkerMoves(w, Worker("check", Head(queue)))
      BY <2>3, <3>1 DEF Take, WorkerMoves
    <3> QED
      BY <1>0, <1>a, <1>d, <2>3, <3>2, WorkerMovesTyped DEF Take
  <2>4. CASE DropEarly(w)
    BY <1>0, <1>a, <2>1, <2>4 DEF DropEarly
  <2>5. CASE JoinLine(w)
    <3>1. line' \in [Chats -> Seq(Workers)]
      BY <1>0, <2>0, <2>5 DEF JoinLine
    <3> QED
      BY <1>0, <1>a, <2>5, <3>1, WorkerStepMoves, WorkerMovesTyped DEF JoinLine
  <2>6. CASE DropLate(w)
    BY <1>0, <1>a, <2>1, <2>2, <2>6 DEF DropLate
  <2>7. CASE Recheck(w)
    BY <1>0, <1>a, <2>7, WorkerStepMoves, WorkerMovesTyped DEF Recheck
  <2>11. CASE Store(w) /\ Known(w)
    <3>1. Holds(w)
      BY <2>11, HolderInLine DEF Store
    <3>2. line' \in [Chats -> Seq(Workers)]
      BY <2>2, <2>11, <3>1 DEF Store
    <3> QED
      BY <1>0, <1>a, <2>1, <2>11, <3>2 DEF Store
  <2>12. CASE Store(w) /\ ~Known(w)
    <3>0. stored' = Append(stored, worker[w].msg) /\ worker[w].pc = "insert"
      BY <2>12 DEF Store
    <3>1. stored' \in Seq(Messages)
      BY <1>0, <2>0, <3>0, AppendProperties
    <3> QED
      BY <1>0, <1>a, <2>12, <3>1, WorkerStepMoves, WorkerMovesTyped DEF Store
  <2>8. CASE Handle(w)
    <3>1. Holds(w)
      BY <2>8, HolderInLine DEF Handle
    <3>2. line' \in [Chats -> Seq(Workers)]
      BY <2>2, <2>8, <3>1 DEF Handle
    <3> QED
      BY <1>0, <1>a, <2>1, <2>8, <3>2 DEF Handle
  <2>9. CASE Fail(w)
    <3>1. line' \in [Chats -> Seq(Workers)]
      <4>1. CASE worker[w].pc \in {"wait", "insert"} /\ GiveUp(w)
        <5>1. line[Chat(w)] \in Seq(Workers) /\ Place(w) \in 1 .. Len(line[Chat(w)])
          BY <1>0, <2>0, <4>1, PlaceInLine
        <5>2. RemoveAt(line[Chat(w)], Place(w)) \in Seq(Workers)
          BY <5>1, RemoveAtIsWithout
        <5> QED
          BY <1>0, <2>0, <4>1, <5>2 DEF GiveUp
      <4> QED
        BY <1>0, <2>9, <4>1 DEF Fail
    <3> QED
      BY <1>0, <1>a, <2>1, <2>9, <3>1, FaultTyped DEF Fail
  <2>10. CASE Leaves(w)
    BY <1>0, <1>a, <2>10, WorkerStepMoves, WorkerMovesTyped DEF Leaves
  <2> QED
    BY <1>14, <2>3, <2>4, <2>5, <2>6, <2>7, <2>8, <2>9, <2>10, <2>11, <2>12 DEF Work
<1>15. CASE Signal \/ ClosePool \/ ClosePoolLate
  BY <1>0, <1>a, <1>b, <1>15, FaultTyped DEF Signal, ClosePool, ClosePoolLate
<1>16. CASE Drained \/ DrainTimeout \/ Crash
  <2>1. queue' \in Seq(Messages) /\ Len(queue') <= QueueSize
    <3>1. queue' = <<>>
      BY <1>16 DEF Drained, DrainTimeout, Crash, Die
    <3> QED
      BY <3>1, IntakeAssumption
  <2> QED
    BY <1>0, <1>16, <2>1, DieTyped, FreshTyped, FaultTyped DEF Drained, DrainTimeout, Crash, Die
<1>17. CASE Start
  <2>1. queue' \in Seq(Messages) /\ Len(queue') <= QueueSize /\ starts' \in 0 .. MaxStarts
    BY <1>0, <1>17, IntakeAssumption DEF Start, FreshProcess
  <2> QED
    BY <1>0, <1>17, <2>1, FreshTyped DEF Start, FreshProcess
<1>18. CASE UNCHANGED vars
  BY <1>0, <1>a, <1>b, <1>18 DEF vars
<1>19. Active \subseteq Receivers
  BY IntakeAssumption DEF Active, Poller
<1> QED
  BY <1>1, <1>2, <1>3, <1>4, <1>5, <1>6, <1>7, <1>8, <1>9, <1>10, <1>11, <1>12, <1>13, <1>14,
     <1>15, <1>16, <1>17, <1>18, <1>19 DEF Next, Receive, Process

-----------------------------------------------------------------------------
(* The chats' lines *)

LEMMA WorkerEffect ==
  ASSUME TypeInv, NEW w \in Workers, NEW x, worker' = [worker EXCEPT ![w] = x]
  PROVE  \A v \in Workers : worker'[v] = IF v = w THEN x ELSE worker[v]
  BY DEF TypeInv, TypeOK

\* Nobody is in two lines.
LEMMA InOwnLine ==
  ASSUME TypeInv, LineInv, NEW c \in Chats, NEW i \in DOMAIN line[c]
  PROVE  /\ line[c][i] \in Workers
         /\ worker[line[c][i]].pc \in {"wait", "insert", "handle"}
         /\ ChatOf[worker[line[c][i]].msg] = c
         /\ worker[line[c][i]].pc \in {"insert", "handle"} => i = 1
  BY DEF TypeInv, TypeOK, LineInv, LineIsHonest, Chat

\* The lines stay honest when a worker joins the end of one ...
LEMMA JoiningKeepsLines ==
  ASSUME TypeInv, LineInv, NEW w \in Workers, JoinLine(w)
  PROVE  LineInv'
<1> DEFINE d == Chat(w)
<1>1. worker[w].pc = "check" /\ d \in Chats
  BY IntakeAssumption DEF JoinLine, TypeInv, WorkerHolds, Chat
<1>2. \A v \in Workers : worker'[v] = IF v = w THEN [worker[w] EXCEPT !.pc = "wait"] ELSE worker[v]
  BY WorkerEffect DEF JoinLine
<1>3. worker'[w].pc = "wait" /\ worker'[w].msg = worker[w].msg
  BY <1>2 DEF TypeInv, TypeOK
<1>4. \A c \in Chats : line'[c] = IF c = d THEN Append(line[d], w) ELSE line[c]
  BY <1>1 DEF JoinLine, TypeInv, TypeOK
<1>5. line[d] \in Seq(Workers) /\ \A c \in Chats : line[c] \in Seq(Workers)
  BY <1>1 DEF TypeInv, TypeOK
<1>6. /\ Len(line'[d]) = Len(line[d]) + 1 /\ DOMAIN line'[d] = 1 .. Len(line[d]) + 1
      /\ DOMAIN line[d] = 1 .. Len(line[d]) /\ Len(line[d]) \in Nat
      /\ \A i \in 1 .. Len(line[d]) : line'[d][i] = line[d][i]
      /\ line'[d][Len(line[d]) + 1] = w
  <2>1. line'[d] = Append(line[d], w)
    BY <1>1, <1>4
  <2>2. DOMAIN line[d] = 1 .. Len(line[d]) /\ Len(line[d]) \in Nat
    BY <1>5
  <2> QED
    BY <1>5, <2>1, <2>2, AppendProperties
<1>7. ASSUME NEW c \in Chats, NEW i \in DOMAIN line[c]
      PROVE  /\ line[c][i] # w
             /\ worker'[line[c][i]] = worker[line[c][i]]
  BY <1>1, <1>2, InOwnLine
<1>8. ASSUME NEW c \in Chats, NEW i \in DOMAIN line'[c]
      PROVE  /\ worker'[line'[c][i]].pc \in {"wait", "insert", "handle"}
             /\ ChatOf[worker'[line'[c][i]].msg] = c
             /\ worker'[line'[c][i]].pc \in {"insert", "handle"} => i = 1
  <2>1. CASE c = d /\ i = Len(line[d]) + 1
    BY <1>3, <1>6, <2>1 DEF Chat
  <2>2. CASE ~(c = d /\ i = Len(line[d]) + 1)
    <3>1. i \in DOMAIN line[c] /\ line'[c][i] = line[c][i]
      BY <1>4, <1>6, <2>2
    <3> QED
      BY <1>7, <3>1, InOwnLine
  <2> QED
    BY <2>1, <2>2
<1>9. ASSUME NEW v \in Workers, worker'[v].pc \in {"wait", "insert", "handle"}
      PROVE  \E i \in DOMAIN line'[ChatOf[worker'[v].msg]] : line'[ChatOf[worker'[v].msg]][i] = v
  <2>1. CASE v = w
    BY <1>1, <1>3, <1>6, <2>1 DEF Chat
  <2>2. CASE v # w
    <3>1. worker'[v] = worker[v] /\ worker[v].pc \in {"wait", "insert", "handle"}
      BY <1>2, <1>9, <2>2
    <3>2. /\ Place(v) \in 1 .. Len(line[Chat(v)]) /\ line[Chat(v)][Place(v)] = v
          /\ Chat(v) \in Chats
      BY <3>1, PlaceInLine, IntakeAssumption DEF TypeInv, WorkerHolds, Chat
    <3>3. Place(v) \in DOMAIN line'[Chat(v)] /\ line'[Chat(v)][Place(v)] = v
      BY <1>4, <1>5, <1>6, <3>2
    <3> QED
      BY <3>1, <3>3 DEF Chat
  <2> QED
    BY <2>1, <2>2
<1>10. ASSUME NEW c \in Chats PROVE IsInjective(line'[c])
  <2>1. IsInjective(line[c])
    BY DEF LineInv
  <2>2. CASE c # d
    BY <1>4, <2>1, <2>2
  <2>3. CASE c = d
    <3>1. \A i \in 1 .. Len(line[d]) : line[d][i] # w
      BY <1>1, <1>6, <1>7
    <3>2. ASSUME NEW i \in DOMAIN line'[d], NEW j \in DOMAIN line'[d], line'[d][i] = line'[d][j]
          PROVE  i = j
      <4>1. CASE i = Len(line[d]) + 1 \/ j = Len(line[d]) + 1
        BY <1>6, <3>1, <3>2, <4>1
      <4>2. CASE i # Len(line[d]) + 1 /\ j # Len(line[d]) + 1
        <5>1. i \in DOMAIN line[d] /\ j \in DOMAIN line[d] /\ line[d][i] = line[d][j]
          BY <1>6, <3>2, <4>2
        <5> QED
          BY <2>1, <2>3, <5>1 DEF IsInjective
      <4> QED
        BY <4>1, <4>2
    <3> QED
      BY <2>3, <3>2 DEF IsInjective
  <2> QED
    BY <2>2, <2>3
<1> QED
  BY <1>8, <1>9, <1>10 DEF LineInv, LineIsHonest, Chat, Range

\* ... and when one leaves it, as the head or from where he waits.
LEMMA LeavingKeepsLines ==
  ASSUME TypeInv, LineInv, NEW w \in Workers, worker[w].pc \in {"wait", "insert", "handle"},
         worker' = [worker EXCEPT ![w] = Idle],
         NEW t \in Seq(Workers), line' = [line EXCEPT ![Chat(w)] = t],
         Without(line[Chat(w)], t, Place(w))
  PROVE  LineInv'
<1> DEFINE d == Chat(w)
           s == line[d]
           p == Place(w)
<1>1. d \in Chats
  BY IntakeAssumption DEF TypeInv, WorkerHolds, Chat
<1>2. \A v \in Workers : worker'[v] = IF v = w THEN Idle ELSE worker[v]
  BY WorkerEffect
<1>3. \A c \in Chats : line'[c] = IF c = d THEN t ELSE line[c]
  BY <1>1 DEF TypeInv, TypeOK
<1>4. /\ s \in Seq(Workers) /\ DOMAIN s = 1 .. Len(s) /\ Len(s) \in Nat
      /\ DOMAIN t = 1 .. Len(s) - 1
      /\ \A k \in 1 .. Len(s) - 1 : t[k] = IF k < p THEN s[k] ELSE s[k + 1]
  BY <1>1 DEF TypeInv, TypeOK, Without
<1>5. p \in 1 .. Len(s) /\ s[p] = w
  BY PlaceInLine
<1>6. ASSUME NEW i \in DOMAIN s, i # p PROVE s[i] # w
  BY <1>1, <1>4, <1>5, <1>6 DEF LineInv, IsInjective
<1>7. ASSUME NEW c \in Chats, c # d, NEW i \in DOMAIN line[c] PROVE line[c][i] # w
  BY <1>7, InOwnLine DEF Chat
<1> HIDE DEF s, p, d
<1>8. ASSUME NEW k \in DOMAIN t
      PROVE  \E i \in DOMAIN s : i # p /\ t[k] = s[i] /\ (i = 1 => k = 1)
  <2>1. CASE k < p
    BY <1>4, <1>5, <2>1
  <2>2. CASE ~(k < p)
    <3>1. k + 1 \in DOMAIN s /\ k + 1 # p /\ k + 1 # 1 /\ t[k] = s[k + 1]
      BY <1>4, <1>5, <2>2
    <3> QED
      BY <3>1
  <2> QED
    BY <2>1, <2>2
<1>9. ASSUME NEW c \in Chats, NEW k \in DOMAIN line'[c]
      PROVE  /\ worker'[line'[c][k]].pc \in {"wait", "insert", "handle"}
             /\ ChatOf[worker'[line'[c][k]].msg] = c
             /\ worker'[line'[c][k]].pc \in {"insert", "handle"} => k = 1
  <2>1. CASE c # d
    <3>1. line'[c] = line[c]
      BY <1>3, <2>1
    <3>2. worker'[line[c][k]] = worker[line[c][k]]
      BY <1>2, <1>7, <2>1, <3>1, InOwnLine
    <3> QED
      BY <3>1, <3>2, InOwnLine
  <2>2. CASE c = d
    <3>1. line'[c] = t /\ line[c] = s
      BY <1>3, <2>2 DEF s
    <3>2. PICK i \in DOMAIN s : i # p /\ t[k] = s[i] /\ (i = 1 => k = 1)
      BY <1>8, <3>1
    <3>3. s[i] \in Workers /\ s[i] # w
      BY <1>4, <1>6, <3>2
    <3>4. worker'[s[i]] = worker[s[i]]
      BY <1>2, <3>3
    <3>5. /\ worker[s[i]].pc \in {"wait", "insert", "handle"}
          /\ ChatOf[worker[s[i]].msg] = c
          /\ worker[s[i]].pc \in {"insert", "handle"} => i = 1
      BY <3>1, InOwnLine
    <3> QED
      BY <3>1, <3>2, <3>4, <3>5
  <2> QED
    BY <2>1, <2>2
<1>10. ASSUME NEW v \in Workers, worker'[v].pc \in {"wait", "insert", "handle"}
       PROVE  \E k \in DOMAIN line'[ChatOf[worker'[v].msg]] :
                line'[ChatOf[worker'[v].msg]][k] = v
  <2>1. v # w /\ worker'[v] = worker[v] /\ worker[v].pc \in {"wait", "insert", "handle"}
    BY <1>2, <1>10 DEF Idle, Worker
  <2>2. /\ Place(v) \in 1 .. Len(line[Chat(v)]) /\ line[Chat(v)][Place(v)] = v
        /\ Chat(v) \in Chats
    BY <2>1, PlaceInLine, IntakeAssumption DEF TypeInv, WorkerHolds, Chat
  <2>3. CASE Chat(v) # d
    <3>1. line'[Chat(v)] = line[Chat(v)] /\ DOMAIN line[Chat(v)] = 1 .. Len(line[Chat(v)])
      BY <1>3, <2>2, <2>3 DEF TypeInv, TypeOK
    <3> QED
      BY <2>1, <2>2, <3>1 DEF Chat
  <2>4. CASE Chat(v) = d
    <3> DEFINE i == Place(v)
               k == IF i < p THEN i ELSE i - 1
    <3>1. i \in 1 .. Len(s) /\ s[i] = v /\ i # p
      BY <1>5, <2>1, <2>2, <2>4 DEF s
    <3>2. k \in DOMAIN t /\ t[k] = s[i]
      <4> HIDE DEF i
      <4>1. CASE i < p
        BY <1>4, <1>5, <3>1, <4>1
      <4>2. CASE ~(i < p)
        <5>1. k = i - 1 /\ k + 1 = i /\ k \in 1 .. Len(s) - 1 /\ ~(k < p)
          BY <1>4, <1>5, <3>1, <4>2
        <5> QED
          BY <1>4, <5>1
      <4> QED
        BY <4>1, <4>2
    <3>3. line'[Chat(v)] = t
      BY <1>3, <2>2, <2>4
    <3> QED
      BY <2>1, <3>1, <3>2, <3>3 DEF Chat
  <2> QED
    BY <2>3, <2>4
<1>11. ASSUME NEW c \in Chats PROVE IsInjective(line'[c])
  <2>1. IsInjective(line[c])
    BY DEF LineInv
  <2>2. CASE c # d
    BY <1>3, <2>1, <2>2
  <2>3. CASE c = d
    <3>1. IsInjective(s) /\ line'[c] = t
      BY <1>3, <2>1, <2>3 DEF s
    <3>2. ASSUME NEW i \in DOMAIN t, NEW j \in DOMAIN t, t[i] = t[j] PROVE i = j
      <4> DEFINE f(k) == IF k < p THEN k ELSE k + 1
      <4>1. f(i) \in DOMAIN s /\ f(j) \in DOMAIN s /\ t[i] = s[f(i)] /\ t[j] = s[f(j)]
        BY <1>4, <1>5
      <4>2. f(i) = f(j)
        BY <3>1, <3>2, <4>1 DEF IsInjective
      <4> QED
        BY <1>4, <1>5, <4>2
    <3> QED
      BY <3>1, <3>2 DEF IsInjective
  <2> QED
    BY <2>2, <2>3
<1>12. ASSUME NEW v \in Workers, worker'[v].pc \in {"wait", "insert", "handle"}
       PROVE  v \in Range(line'[ChatOf[worker'[v].msg]])
  BY <1>10, <1>12, Zenon DEF Range
<1>13. LineIsHonest'
  BY <1>9, <1>12 DEF LineIsHonest, Chat
<1> QED
  BY <1>11, <1>13 DEF LineInv

LEMMA LineInit == Init => LineInv
  BY DEF Init, LineInv, LineIsHonest, Idle, Worker, IsInjective

LEMMA FreshLines ==
  ASSUME worker' = [w \in Workers |-> Idle], line' = [c \in Chats |-> <<>>]
  PROVE  LineInv'
  BY DEF LineInv, LineIsHonest, Idle, Worker, IsInjective

\* A worker that was and is in no line.
LEMMA OutsideKeepsLines ==
  ASSUME TypeInv, LineInv, NEW w \in Workers, worker[w].pc \notin {"wait", "insert", "handle"},
         NEW x, x.pc \notin {"wait", "insert", "handle"}, worker' = [worker EXCEPT ![w] = x],
         UNCHANGED line
  PROVE  LineInv'
<1>1. \A v \in Workers : worker'[v] = IF v = w THEN x ELSE worker[v]
  BY WorkerEffect
<1>2. ASSUME NEW c \in Chats, NEW i \in DOMAIN line[c]
      PROVE  worker'[line[c][i]] = worker[line[c][i]]
  BY <1>1, InOwnLine
<1>3. ASSUME NEW v \in Workers, worker'[v].pc \in {"wait", "insert", "handle"}
      PROVE  worker'[v] = worker[v]
  BY <1>1, <1>3
<1> QED
  BY <1>2, <1>3 DEF LineInv, LineIsHonest, Chat

\* The head goes on in its turn.
LEMMA HeadKeepsLines ==
  ASSUME TypeInv, LineInv, NEW w \in Workers, worker[w].pc \in {"wait", "insert"}, Holds(w),
         NEW step \in {"insert", "handle"}, worker' = [worker EXCEPT ![w].pc = step],
         UNCHANGED line
  PROVE  LineInv'
<1> DEFINE d == Chat(w)
<1>1. /\ d \in Chats /\ line[d] # <<>> /\ Head(line[d]) = w
      /\ UNCHANGED line
  BY IntakeAssumption DEF Holds, TypeInv, WorkerHolds, Chat
<1>2. \A v \in Workers :
        worker'[v] = IF v = w THEN [worker[w] EXCEPT !.pc = step] ELSE worker[v]
  BY WorkerEffect
<1>3. worker'[w].pc = step /\ worker'[w].msg = worker[w].msg
  BY <1>2 DEF TypeInv, TypeOK
<1>4. 1 \in DOMAIN line[d] /\ line[d][1] = w
  BY <1>1, HeadTailProperties DEF TypeInv, TypeOK
<1>5. ASSUME NEW c \in Chats, NEW i \in DOMAIN line[c]
      PROVE  /\ worker'[line[c][i]].pc \in {"wait", "insert", "handle"}
             /\ ChatOf[worker'[line[c][i]].msg] = c
             /\ worker'[line[c][i]].pc \in {"insert", "handle"} => i = 1
  <2>1. CASE line[c][i] = w
    <3>1. c = d
      BY <2>1, InOwnLine DEF Chat
    <3>2. i = 1
      BY <1>1, <1>4, <2>1, <3>1 DEF LineInv, IsInjective
    <3> QED
      BY <1>3, <2>1, <3>1, <3>2 DEF Chat
  <2>2. CASE line[c][i] # w
    BY <1>2, <2>2, InOwnLine
  <2> QED
    BY <2>1, <2>2
<1>6. ASSUME NEW v \in Workers, worker'[v].pc \in {"wait", "insert", "handle"}
      PROVE  v \in Range(line[ChatOf[worker'[v].msg]])
  <2>1. worker[v].pc \in {"wait", "insert", "handle"} /\ worker'[v].msg = worker[v].msg
    BY <1>1, <1>2, <1>3, <1>6
  <2> QED
    BY <2>1 DEF LineInv, LineIsHonest, Chat
<1> QED
  BY <1>1, <1>5, <1>6 DEF LineInv, LineIsHonest, Chat

LEMMA LineStep == TypeInv /\ LineInv /\ [Next]_vars => LineInv'
<1> SUFFICES ASSUME TypeInv, LineInv, [Next]_vars PROVE LineInv'
  OBVIOUS
<1>0. ASSUME UNCHANGED <<worker, line>> PROVE LineInv'
  BY <1>0 DEF LineInv, LineIsHonest, Chat
<1>1. ASSUME NEW r \in Receivers,
             Receive(r) \/ PollFails(r) \/ Reject(r) \/ DeleteFails(r) \/ \E e \in Events : Post(r, e)
      PROVE  LineInv'
  <2>1. CASE Panic(r) /\ Die
    BY <2>1, FreshLines DEF Die
  <2>2. CASE UNCHANGED <<worker, line>>
    BY <1>0, <2>2
  <2> QED
    BY <1>1, <2>1, <2>2
       DEF Receive, Poll, Read, CheckOpen, RefuseClosed, RefuseFull, Push, Panic, Delete, Retry,
           StopPolling, PollFails, Reject, DeleteFails, Post, ReceiverVars, workerVars
<1>2. ASSUME NEW w \in Workers, Work(w) \/ Fail(w) PROVE LineInv'
  <2>0. worker[w].pc \in {"wait", "insert", "handle"} =>
          line[Chat(w)] \in Seq(Workers) /\ Chat(w) \in Chats
    BY IntakeAssumption DEF TypeInv, TypeOK, WorkerHolds, Chat
  <2>1. CASE Take(w)
    BY <2>1, OutsideKeepsLines DEF Take, Worker
  <2>2. CASE DropEarly(w)
    BY <2>2, OutsideKeepsLines DEF DropEarly, Idle, Worker
  <2>3. CASE JoinLine(w)
    BY <2>3, JoiningKeepsLines
  <2>4. ASSUME worker[w].pc \in {"wait", "insert", "handle"}, Holds(w), Release(w),
               worker' = [worker EXCEPT ![w] = Idle]
        PROVE  LineInv'
    <3> DEFINE s == line[Chat(w)]
    <3>1. s \in Seq(Workers) /\ s # <<>> /\ s[1] = w /\ 1 \in DOMAIN s /\ Chat(w) \in Chats
      BY <2>0, <2>4, HeadTailProperties DEF Holds
    <3>2. Tail(s) \in Seq(Workers) /\ Without(s, Tail(s), 1)
      BY <3>1, TailIsWithout
    <3>3. Place(w) = 1
      BY <2>4, <3>1, PlaceInLine DEF LineInv, IsInjective
    <3>4. line' = [line EXCEPT ![Chat(w)] = Tail(s)]
      BY <2>4 DEF Release
    <3> QED
      BY <2>4, <3>2, <3>3, <3>4, LeavingKeepsLines
  <2>5. CASE DropLate(w)
    BY <2>4, <2>5 DEF DropLate
  <2>6. CASE Recheck(w)
    BY <2>6, HeadKeepsLines DEF Recheck
  <2>11. CASE Store(w)
    <3>1. Holds(w) /\ worker[w].pc = "insert"
      BY <2>11, HolderInLine DEF Store
    <3>2. CASE Known(w)
      BY <2>4, <2>11, <3>1, <3>2 DEF Store
    <3>3. CASE ~Known(w)
      BY <2>11, <3>1, <3>3, HeadKeepsLines DEF Store
    <3> QED
      BY <3>2, <3>3
  <2>7. CASE Handle(w)
    BY <2>4, <2>7, HolderInLine DEF Handle
  <2>8. CASE Leaves(w)
    <3>1. [worker[w] EXCEPT !.pc = "gone"].pc = "gone"
      BY DEF TypeInv, TypeOK
    <3>2. worker' = [worker EXCEPT ![w] = [worker[w] EXCEPT !.pc = "gone"]]
      BY <2>8 DEF Leaves
    <3> QED
      BY <2>8, <3>1, <3>2, OutsideKeepsLines DEF Leaves
  <2>9. CASE Fail(w) /\ worker[w].pc = "check"
    BY <2>9, OutsideKeepsLines DEF Fail, Idle, Worker
  <2>10. CASE Fail(w) /\ worker[w].pc \in {"wait", "insert"}
    <3> DEFINE s == line[Chat(w)]
    <3>1. s \in Seq(Workers) /\ Place(w) \in 1 .. Len(s)
      BY <2>0, <2>10, PlaceInLine
    <3>2. RemoveAt(s, Place(w)) \in Seq(Workers) /\ Without(s, RemoveAt(s, Place(w)), Place(w))
      BY <3>1, RemoveAtIsWithout
    <3>3. /\ line' = [line EXCEPT ![Chat(w)] = RemoveAt(s, Place(w))]
          /\ worker' = [worker EXCEPT ![w] = Idle]
      BY <2>10 DEF Fail, GiveUp
    <3> QED
      BY <2>10, <3>2, <3>3, LeavingKeepsLines
  <2> QED
    BY <1>2, <2>1, <2>2, <2>3, <2>5, <2>6, <2>7, <2>8, <2>9, <2>10, <2>11 DEF Work, Fail
<1>3. CASE Process
  <2>1. CASE Drained \/ DrainTimeout \/ Crash
    BY <2>1, FreshLines DEF Drained, DrainTimeout, Crash, Die
  <2>2. CASE Start
    BY <2>2, FreshLines DEF Start, FreshProcess
  <2>3. CASE Signal \/ ClosePool \/ ClosePoolLate
    BY <1>0, <2>3 DEF Signal, ClosePool, ClosePoolLate, workerVars
  <2> QED
    BY <1>3, <2>1, <2>2, <2>3 DEF Process
<1>4. CASE UNCHANGED vars
  BY <1>0, <1>4 DEF vars
<1>5. Active \subseteq Receivers
  BY IntakeAssumption DEF Active, Poller
<1> QED
  BY <1>1, <1>2, <1>3, <1>4, <1>5 DEF Next

-----------------------------------------------------------------------------
(* The rows *)

LEMMA RecheckInit == Init => RecheckDecides
  BY DEF Init, RecheckDecides, Idle, Worker

\* Two workers past the re-check have messages of two chats, the lock being one.
LEMMA OneHolder ==
  ASSUME TypeInv, LineInv, NEW v \in Workers, NEW w \in Workers,
         worker[v].pc \in {"insert", "handle"}, worker[w].pc \in {"insert", "handle"},
         Chat(v) = Chat(w)
  PROVE  v = w
  BY HolderInLine DEF Holds

LEMMA RecheckStep == TypeInv /\ LineInv /\ RecheckDecides /\ [Next]_vars => RecheckDecides'
<1> SUFFICES ASSUME TypeInv, LineInv, RecheckDecides, [Next]_vars PROVE RecheckDecides'
  OBVIOUS
<1>0. ASSUME UNCHANGED <<worker, stored>> PROVE RecheckDecides'
  BY <1>0 DEF RecheckDecides, Known
<1>1. ASSUME NEW v \in Workers, Work(v) \/ Fail(v) PROVE RecheckDecides'
  <2> SUFFICES ASSUME NEW w \in Workers, worker'[w].pc = "insert"
               PROVE  worker'[w].msg \notin Range(stored')
    BY DEF RecheckDecides, Known
  <2>1. CASE Recheck(v)
    <3>1. \A x \in Workers :
            worker'[x] = IF x = v THEN [worker[v] EXCEPT !.pc = "insert"] ELSE worker[x]
      BY <2>1, WorkerEffect DEF Recheck
    <3>2. worker'[w].msg = worker[w].msg
      BY <3>1 DEF TypeInv, TypeOK
    <3>3. w # v => worker[w].pc = "insert"
      BY <3>1
    <3> QED
      BY <2>1, <3>2, <3>3 DEF Recheck, RecheckDecides, Known
  <2>2. CASE Store(v) /\ ~Known(v)
    <3>1. \A x \in Workers :
            worker'[x] = IF x = v THEN [worker[v] EXCEPT !.pc = "handle"] ELSE worker[x]
      BY <2>2, WorkerEffect DEF Store
    <3>2. w # v /\ worker'[w] = worker[w]
      BY <3>1 DEF TypeInv, TypeOK
    <3>3. worker[w].msg # worker[v].msg
      BY <2>2, <3>2, OneHolder DEF Store, Chat
    <3>4. worker[v].msg \in Messages /\ stored \in Seq(Messages)
      BY <2>2 DEF Store, TypeInv, TypeOK, WorkerHolds
    <3>a. stored' = Append(stored, worker[v].msg)
      BY <2>2 DEF Store
    <3>5. Range(stored') = Range(stored) \cup {worker[v].msg}
      BY <3>4, <3>a, RangeOfAppend
    <3> QED
      BY <3>2, <3>3, <3>5 DEF RecheckDecides, Known
  <2>3. CASE ~Recheck(v) /\ ~(Store(v) /\ ~Known(v))
    <3>1. UNCHANGED stored
      BY <1>1, <2>3
         DEF Work, Fail, Take, DropEarly, JoinLine, DropLate, Store, Handle, Leaves
    <3>2. PICK x : worker' = [worker EXCEPT ![v] = x] /\ x.pc # "insert"
      <4>1. CASE JoinLine(v)
        <5>1. [worker[v] EXCEPT !.pc = "wait"].pc = "wait"
          BY DEF TypeInv, TypeOK
        <5>2. worker' = [worker EXCEPT ![v] = [worker[v] EXCEPT !.pc = "wait"]]
          BY <4>1 DEF JoinLine
        <5> QED
          BY <5>1, <5>2
      <4>2. CASE Leaves(v)
        <5>1. [worker[v] EXCEPT !.pc = "gone"].pc = "gone"
          BY DEF TypeInv, TypeOK
        <5>2. worker' = [worker EXCEPT ![v] = [worker[v] EXCEPT !.pc = "gone"]]
          BY <4>2 DEF Leaves
        <5> QED
          BY <5>1, <5>2
      <4>3. CASE Take(v)
        <5>1. Worker("check", Head(queue)).pc # "insert"
          BY DEF Worker
        <5>2. worker' = [worker EXCEPT ![v] = Worker("check", Head(queue))]
          BY <4>3 DEF Take
        <5> QED
          BY <5>1, <5>2, Zenon
      <4>4. CASE DropEarly(v) \/ DropLate(v) \/ Store(v) \/ Handle(v) \/ Fail(v)
        <5>1. Idle.pc # "insert"
          BY DEF Idle, Worker
        <5>2. worker' = [worker EXCEPT ![v] = Idle]
          BY <2>3, <4>4 DEF DropEarly, DropLate, Store, Handle, Fail
        <5> QED
          BY <5>1, <5>2, Zenon
      <4> QED
        BY <1>1, <2>3, <4>1, <4>2, <4>3, <4>4 DEF Work
    <3>3. worker'[w] = worker[w]
      BY <3>2, WorkerEffect
    <3> QED
      BY <3>1, <3>3 DEF RecheckDecides, Known
  <2> QED
    BY <2>1, <2>2, <2>3
<1>2. ASSUME NEW r \in Receivers,
             Receive(r) \/ PollFails(r) \/ Reject(r) \/ DeleteFails(r) \/ \E e \in Events : Post(r, e)
      PROVE  RecheckDecides'
  <2>1. CASE Panic(r) /\ Die
    BY <2>1 DEF Die, RecheckDecides, Idle, Worker
  <2>2. CASE UNCHANGED <<worker, stored>>
    BY <1>0, <2>2
  <2> QED
    BY <1>2, <2>1, <2>2
       DEF Receive, Poll, Read, CheckOpen, RefuseClosed, RefuseFull, Push, Panic, Delete, Retry,
           StopPolling, PollFails, Reject, DeleteFails, Post, ReceiverVars, workerVars
<1>3. CASE Process
  <2>1. CASE Drained \/ DrainTimeout \/ Crash \/ Start
    BY <2>1 DEF Drained, DrainTimeout, Crash, Start, Die, FreshProcess, RecheckDecides, Idle, Worker
  <2>2. CASE Signal \/ ClosePool \/ ClosePoolLate
    BY <1>0, <2>2 DEF Signal, ClosePool, ClosePoolLate, workerVars
  <2> QED
    BY <1>3, <2>1, <2>2 DEF Process
<1>4. CASE UNCHANGED vars
  BY <1>0, <1>4 DEF vars
<1>5. Active \subseteq Receivers
  BY IntakeAssumption DEF Active, Poller
<1> QED
  BY <1>1, <1>2, <1>3, <1>4, <1>5 DEF Next

-----------------------------------------------------------------------------
(* What was acknowledged *)

Kept == Range(stored) \cup Volatile \cup refused

\* A process that has ended holds nothing.
EndedIsEmpty ==
  phase = "exited" =>
    /\ queue = <<>>
    /\ \A r \in Receivers : receiver[r].pc = "idle"
    /\ \A w \in Workers : worker[w].pc = "idle"

\* Workers leave a pool that is closed and empty, and stays so.
LeftIsEmpty == (\E w \in Workers : worker[w].pc = "gone") => closed /\ queue = <<>>

OnlyPollerDeletes == \A r \in Receivers : receiver[r].pc = "delete" => transport = "polling"

\* Without a fault the pool is closed after the last request.
RequestsFirst ==
  transport = "webhook" /\ phase = "draining" => \A r \in Receivers : receiver[r].pc = "idle"

\* The poller deletes a notification after its last message was queued.
QueuedFirst ==
  transport = "polling" =>
    \A r \in Receivers :
      /\ receiver[r].pc \in {"submit", "push"} =>
           At(receiver[r].event, Wanted(receiver[r].event) \ receiver[r].left) \subseteq Kept
      /\ receiver[r].pc = "delete" => At(receiver[r].event, Wanted(receiver[r].event)) \subseteq Kept

Acknowledged == \A e \in acked : At(e, Wanted(e)) \subseteq Kept

Undisturbed == faults = 0 /\ ~panicked

KeptInv ==
  /\ EndedIsEmpty
  /\ LeftIsEmpty
  /\ OnlyPollerDeletes
  /\ Undisturbed => RequestsFirst /\ QueuedFirst /\ Acknowledged

\* A fault is remembered.
LEMMA DisturbedForGood == TypeInv /\ [Next]_vars /\ Undisturbed' => Undisturbed /\ UNCHANGED faults
<1> SUFFICES ASSUME TypeInv, [Next]_vars, Undisturbed' PROVE Undisturbed /\ UNCHANGED faults
  OBVIOUS
<1>0. faults \in Nat /\ panicked \in BOOLEAN /\ faults' = 0 /\ ~panicked'
  BY IntakeAssumption DEF TypeInv, TypeOK, Undisturbed
<1>1. ~Fault
  BY <1>0 DEF Fault
<1>2. ASSUME NEW r \in Receivers,
             Receive(r) \/ PollFails(r) \/ Reject(r) \/ DeleteFails(r) \/ \E e \in Events : Post(r, e)
      PROVE  UNCHANGED faults /\ (panicked' = panicked)
  BY <1>0, <1>1, <1>2
     DEF Receive, Poll, Read, CheckOpen, RefuseClosed, RefuseFull, Push, Panic, Delete, Retry,
         StopPolling, PollFails, Reject, DeleteFails, Post, ReceiverVars, boundVars
<1>3. ASSUME NEW w \in Workers, Work(w) \/ Fail(w) PROVE UNCHANGED faults /\ (panicked' = panicked)
  BY <1>1, <1>3
     DEF Work, Fail, Take, DropEarly, JoinLine, DropLate, Recheck, Store, Handle, Leaves, WorkerFrame
<1>4. Process => UNCHANGED faults /\ (panicked' = panicked)
  BY <1>1
     DEF Process, Signal, ClosePool, ClosePoolLate, Drained, DrainTimeout, Crash, Start, boundVars
<1>5. UNCHANGED vars => UNCHANGED faults /\ (panicked' = panicked)
  BY DEF vars
<1>6. Active \subseteq Receivers
  BY IntakeAssumption DEF Active, Poller
<1> QED
  BY <1>0, <1>2, <1>3, <1>4, <1>5, <1>6 DEF Next, Undisturbed

\* Where a message that is kept may be.
LEMMA KeptPlaces ==
  \A m : m \in Kept <=>
    \/ m \in Range(stored)
    \/ m \in Range(queue)
    \/ \E w \in Workers : worker[w].pc \in {"check", "wait", "insert"} /\ worker[w].msg = m
    \/ /\ transport = "webhook"
       /\ \E r \in Receivers : /\ receiver[r].pc \in {"submit", "push"}
                               /\ m \in At(receiver[r].event, receiver[r].left)
    \/ m \in refused
  BY ZenonT(90) DEF Kept, Volatile, InHand, InRequests

LEMMA KeptPlacesNext ==
  \A m : m \in Kept' <=>
    \/ m \in Range(stored')
    \/ m \in Range(queue')
    \/ \E w \in Workers : worker'[w].pc \in {"check", "wait", "insert"} /\ worker'[w].msg = m
    \/ /\ transport' = "webhook"
       /\ \E r \in Receivers : /\ receiver'[r].pc \in {"submit", "push"}
                               /\ m \in At(receiver'[r].event, receiver'[r].left)
    \/ m \in refused'
  BY ZenonT(90) DEF Kept, Volatile, InHand, InRequests, At

LEMMA ReceiverEffect ==
  ASSUME TypeInv, NEW r \in Receivers, NEW x, receiver' = [receiver EXCEPT ![r] = x]
  PROVE  \A q \in Receivers : receiver'[q] = IF q = r THEN x ELSE receiver[q]
  BY DEF TypeInv, TypeOK

\* A receiver that moves without giving up a message it has left.
LEMMA ReceiverKeeps ==
  ASSUME TypeInv, NEW r \in Receivers, NEW x, receiver' = [receiver EXCEPT ![r] = x],
         \/ transport = "polling"
         \/ receiver[r].pc \notin {"submit", "push"}
         \/ /\ x.pc \in {"submit", "push"}
            /\ x.event = receiver[r].event /\ x.left = receiver[r].left,
         UNCHANGED <<transport, stored, queue, worker, refused>>
  PROVE  Kept \subseteq Kept'
<1>1. \A q \in Receivers : receiver'[q] = IF q = r THEN x ELSE receiver[q]
  BY ReceiverEffect
<1>2. ASSUME NEW m \in Kept PROVE m \in Kept'
  <2>1. CASE \/ m \in Range(stored) \/ m \in Range(queue) \/ m \in refused
             \/ \E w \in Workers : worker[w].pc \in {"check", "wait", "insert"} /\ worker[w].msg = m
    BY <2>1, KeptPlacesNext
  <2>2. ASSUME transport = "webhook", NEW q \in Receivers, receiver[q].pc \in {"submit", "push"},
               m \in At(receiver[q].event, receiver[q].left)
        PROVE  m \in Kept'
    <3>1. /\ receiver'[q].pc \in {"submit", "push"}
          /\ receiver'[q].event = receiver[q].event /\ receiver'[q].left = receiver[q].left
      BY <1>1, <2>2
    <3>2. m \in At(receiver'[q].event, receiver'[q].left)
      BY <2>2, <3>1
    <3> QED
      BY <2>2, <3>1, <3>2, KeptPlacesNext
  <2> QED
    BY <1>2, <2>1, <2>2, KeptPlaces
<1> QED
  BY <1>2

\* What a receiver has left is its first message and what it has left after it.
LEMMA LeftSplits ==
  ASSUME TypeInv, NEW r \in Receivers, receiver[r].pc \in {"submit", "push"}
  PROVE  /\ At(receiver[r].event, receiver[r].left) \subseteq
              At(receiver[r].event, receiver[r].left \ {Min(receiver[r].left)}) \cup {First(r)}
         /\ At(receiver[r].event, Wanted(receiver[r].event) \ (receiver[r].left \ {Min(receiver[r].left)}))
              \subseteq At(receiver[r].event, Wanted(receiver[r].event) \ receiver[r].left) \cup {First(r)}
  BY FirstLeft DEF At, First

\* A receiver that is done with its first message, which is queued or refused.
LEMMA AdvanceKeeps ==
  ASSUME TypeInv, NEW r \in Receivers, receiver[r].pc \in {"submit", "push"}, Advance(r),
         First(r) \in Range(queue') \cup refused', Range(queue) \subseteq Range(queue'),
         refused \subseteq refused', UNCHANGED <<transport, stored, worker>>
  PROVE  Kept \subseteq Kept'
<1> DEFINE e == receiver[r].event
           left == receiver[r].left
           x == After(e, left \ {Min(left)})
<1>1. \A q \in Receivers : receiver'[q] = IF q = r THEN x ELSE receiver[q]
  <2>1. receiver' = [receiver EXCEPT ![r] = x]
    BY DEF Advance
  <2> HIDE DEF x
  <2> QED
    BY <2>1, ReceiverEffect
<1>2. First(r) \in Kept'
  BY KeptPlacesNext
<1>3. ASSUME NEW m \in Kept PROVE m \in Kept'
  <2>1. CASE \/ m \in Range(stored) \/ m \in Range(queue) \/ m \in refused
             \/ \E w \in Workers : worker[w].pc \in {"check", "wait", "insert"} /\ worker[w].msg = m
    BY <2>1, KeptPlacesNext
  <2>2. ASSUME transport = "webhook", NEW q \in Receivers, receiver[q].pc \in {"submit", "push"},
               m \in At(receiver[q].event, receiver[q].left)
        PROVE  m \in Kept'
    <3>1. CASE q # r
      <4>1. receiver'[q] = receiver[q]
        BY <1>1, <3>1
      <4> QED
        BY <2>2, <4>1, KeptPlacesNext
    <3>2. CASE q = r /\ m # First(r)
      <4>1. m \in At(e, left \ {Min(left)})
        BY <2>2, <3>2, LeftSplits
      <4>2. left \ {Min(left)} # {}
        BY <4>1 DEF At
      <4>3. x = Receiver("submit", e, left \ {Min(left)})
        BY <4>2 DEF After
      <4>4. receiver'[r].pc = "submit" /\ receiver'[r].event = e
            /\ receiver'[r].left = left \ {Min(left)}
        BY <1>1, <4>3 DEF Receiver
      <4> QED
        BY <2>2, <4>1, <4>4, KeptPlacesNext
    <3> QED
      BY <1>2, <3>1, <3>2
  <2> QED
    BY <1>3, <2>1, <2>2, KeptPlaces
<1> QED
  BY <1>3

\* A worker's step hands its message on, or drops one that is stored.
LEMMA WorkKeeps ==
  ASSUME TypeInv, LineInv, NEW w \in Workers, Work(w)
  PROVE  Kept \subseteq Kept'
<1>0. UNCHANGED <<transport, receiver, refused>>
  BY DEF Work, Take, DropEarly, JoinLine, DropLate, Recheck, Store, Handle, Leaves, WorkerFrame, providerVars
<1>1. PICK x : worker' = [worker EXCEPT ![w] = x]
  BY DEF Work, Take, DropEarly, JoinLine, DropLate, Recheck, Store, Handle, Leaves
<1>2. \A v \in Workers : worker'[v] = IF v = w THEN x ELSE worker[v]
  BY <1>1, WorkerEffect
<1>3. stored \in Seq(Messages) /\ queue \in Seq(Messages)
  BY DEF TypeInv, TypeOK
<1>4. Range(stored) \subseteq Range(stored')
  <2>1. CASE Store(w) /\ ~Known(w)
    <3>1. worker[w].msg \in Messages
      BY <2>1 DEF Store, TypeInv, WorkerHolds
    <3>2. stored' = Append(stored, worker[w].msg)
      BY <2>1 DEF Store
    <3>3. Range(stored') = Range(stored) \cup {worker[w].msg}
      BY <1>3, <3>1, <3>2, RangeOfAppend
    <3> QED
      BY <3>3
  <2>2. CASE ~(Store(w) /\ ~Known(w))
    BY <2>2 DEF Work, Take, DropEarly, JoinLine, DropLate, Recheck, Store, Handle, Leaves
  <2> QED
    BY <2>1, <2>2
<1>5. ASSUME NEW m \in Range(queue) PROVE m \in Kept'
  <2>1. CASE Take(w)
    <3>1. queue # <<>> /\ queue' = Tail(queue) /\ worker'[w] = Worker("check", Head(queue))
      BY <2>1 DEF Take, TypeInv, TypeOK
    <3>2. m = Head(queue) \/ m \in Range(queue')
      BY <1>3, <3>1, RangeOfTail
    <3>3. worker'[w].pc = "check" /\ worker'[w].msg = Head(queue)
      BY <3>1 DEF Worker
    <3> QED
      BY <3>2, <3>3, KeptPlacesNext
  <2>2. CASE ~Take(w)
    <3>1. UNCHANGED queue
      BY <2>2 DEF Work, DropEarly, JoinLine, DropLate, Recheck, Store, Handle, Leaves
    <3> QED
      BY <3>1, KeptPlacesNext
  <2> QED
    BY <2>1, <2>2
<1>6. ASSUME worker[w].pc \in {"check", "wait", "insert"} PROVE worker[w].msg \in Kept'
  <2>1. CASE DropEarly(w) \/ DropLate(w)
    BY <1>4, <2>1, KeptPlacesNext DEF DropEarly, DropLate, Known
  <2>2. CASE JoinLine(w)
    <3>1. worker'[w].pc = "wait" /\ worker'[w].msg = worker[w].msg
      BY <2>2 DEF JoinLine, TypeInv, TypeOK
    <3> QED
      BY <3>1, KeptPlacesNext
  <2>3. CASE Recheck(w)
    <3>1. worker'[w].pc = "insert" /\ worker'[w].msg = worker[w].msg
      BY <2>3 DEF Recheck, TypeInv, TypeOK
    <3> QED
      BY <3>1, KeptPlacesNext
  <2>4. CASE Store(w) /\ Known(w)
    BY <1>4, <2>4, KeptPlacesNext DEF Known
  <2>5. CASE Store(w) /\ ~Known(w)
    <3>1. worker[w].msg \in Messages /\ stored' = Append(stored, worker[w].msg)
      BY <2>5 DEF Store, TypeInv, WorkerHolds
    <3>2. Range(stored') = Range(stored) \cup {worker[w].msg}
      BY <1>3, <3>1, RangeOfAppend
    <3> QED
      BY <3>2, KeptPlacesNext
  <2> QED
    BY <1>6, <2>1, <2>2, <2>3, <2>4, <2>5 DEF Work, Take, Handle, Leaves
<1>7. ASSUME NEW m \in Kept PROVE m \in Kept'
  <2>1. CASE m \in Range(stored) \/ m \in refused
    BY <1>0, <1>4, <2>1, KeptPlacesNext
  <2>2. ASSUME NEW v \in Workers, worker[v].pc \in {"check", "wait", "insert"}, worker[v].msg = m
        PROVE  m \in Kept'
    <3>1. CASE v = w
      BY <1>6, <2>2, <3>1
    <3>2. CASE v # w
      <4>1. worker'[v] = worker[v]
        BY <1>2, <3>2
      <4> QED
        BY <2>2, <4>1, KeptPlacesNext
    <3> QED
      BY <3>1, <3>2
  <2>3. CASE /\ transport = "webhook"
             /\ \E r \in Receivers : /\ receiver[r].pc \in {"submit", "push"}
                                     /\ m \in At(receiver[r].event, receiver[r].left)
    BY <1>0, <2>3, KeptPlacesNext
  <2> QED
    BY <1>5, <1>7, <2>1, <2>2, <2>3, KeptPlaces
<1> QED
  BY <1>7

\* The last worker left an empty pool, and no request is at work.
LEMMA DrainedKeeps ==
  ASSUME TypeInv, LeftIsEmpty, RequestsFirst, Drained
  PROVE  Kept \subseteq Kept'
<1>1. queue = <<>> /\ \A w \in Workers : worker[w].pc = "gone"
  BY IntakeAssumption DEF Drained, LeftIsEmpty
<1>2. transport = "webhook" => \A r \in Receivers : receiver[r].pc = "idle"
  BY DEF Drained, RequestsFirst
<1>3. ASSUME NEW m \in Kept PROVE m \in Range(stored) \cup refused
  BY <1>1, <1>2, <1>3, KeptPlaces DEF Range
<1>4. UNCHANGED <<stored, refused>>
  BY DEF Drained
<1> QED
  BY <1>3, <1>4, KeptPlacesNext

LEMMA StartKeeps ==
  ASSUME EndedIsEmpty, Start
  PROVE  Kept \subseteq Kept'
<1>1. queue = <<>> /\ \A w \in Workers : worker[w].pc = "idle"
  BY DEF Start, EndedIsEmpty
<1>2. \A r \in Receivers : receiver[r].pc = "idle"
  BY DEF Start, EndedIsEmpty
<1>3. ASSUME NEW m \in Kept PROVE m \in Range(stored) \cup refused
  BY <1>1, <1>2, <1>3, KeptPlaces DEF Range
<1>4. UNCHANGED <<stored, refused>>
  BY DEF Start
<1> QED
  BY <1>3, <1>4, KeptPlacesNext

LEMMA UnchangedKeeps ==
  UNCHANGED <<transport, stored, queue, worker, receiver, refused>> => Kept' = Kept
  BY DEF Kept, Volatile, InHand, InRequests, At

\* Who refuses the first message of a request says so; the poller's notification
\* stays where it is.
LEMMA RefuseKeeps ==
  ASSUME TypeInv, NEW r \in Receivers, receiver[r].pc \in {"submit", "push"}, Refuse(r),
         UNCHANGED <<transport, stored, queue, worker>>
  PROVE  Kept \subseteq Kept'
<1>1. CASE transport = "polling"
  BY <1>1, ReceiverKeeps, StepMoves DEF Refuse, ReceiverMoves
<1>2. CASE transport # "polling"
  BY <1>2, AdvanceKeeps DEF Refuse
<1> QED
  BY <1>1, <1>2

LEMMA PushKeeps ==
  ASSUME TypeInv, NEW r \in Receivers, Push(r)
  PROVE  Kept \subseteq Kept' /\ First(r) \in Kept'
<1>1. First(r) \in Messages /\ queue \in Seq(Messages) /\ queue' = Append(queue, First(r))
  BY FirstLeft DEF Push, TypeInv, TypeOK
<1>2. Range(queue') = Range(queue) \cup {First(r)}
  BY <1>1, RangeOfAppend
<1>3. First(r) \in Kept'
  BY <1>2, KeptPlacesNext
<1> QED
  BY <1>2, <1>3, AdvanceKeeps DEF Push, providerVars, workerVars

\* The other steps of a receiver that has a message to queue, or none.
LEMMA ReceiverStepKeeps ==
  ASSUME TypeInv, NEW r \in Receivers,
         \/ Poll(r) \/ Read(r) \/ CheckOpen(r) \/ Delete(r) \/ Retry(r) \/ StopPolling(r)
         \/ \E e \in Events : Post(r, e)
  PROVE  Kept \subseteq Kept'
<1>0. UNCHANGED <<transport, stored, queue, worker, refused>>
  BY DEF Poll, Read, CheckOpen, Delete, Retry, StopPolling, Post, ReceiverVars, providerVars
<1>1. CASE CheckOpen(r)
  <2> DEFINE x == [receiver[r] EXCEPT !.pc = "push"]
  <2>1. receiver' = [receiver EXCEPT ![r] = x]
    BY <1>1 DEF CheckOpen, Step
  <2>2. x.pc = "push" /\ x.event = receiver[r].event /\ x.left = receiver[r].left
    BY DEF TypeInv, TypeOK
  <2> HIDE DEF x
  <2> QED
    BY <1>0, <2>1, <2>2, ReceiverKeeps
<1>2. CASE ~CheckOpen(r)
  <2>1. receiver[r].pc \notin {"submit", "push"}
    BY <1>2 DEF Poll, Read, Delete, Retry, StopPolling, Post
  <2>2. PICK x : receiver' = [receiver EXCEPT ![r] = x]
    BY <1>2 DEF Poll, Read, Delete, Retry, StopPolling, Post
  <2> QED
    BY <1>0, <2>1, <2>2, ReceiverKeeps
<1> QED
  BY <1>1, <1>2

\* Without a fault nothing is lost.
LEMMA NothingIsLost ==
  TypeInv /\ LineInv /\ KeptInv /\ [Next]_vars /\ Undisturbed' => Kept \subseteq Kept'
<1> SUFFICES ASSUME TypeInv, LineInv, KeptInv, [Next]_vars, Undisturbed'
             PROVE  Kept \subseteq Kept'
  OBVIOUS
<1>0. Undisturbed /\ UNCHANGED faults /\ faults \in Nat /\ panicked' # TRUE /\ ~Fault
  <2>1. Undisturbed /\ UNCHANGED faults
    BY DisturbedForGood
  <2>2. faults \in Nat
    BY IntakeAssumption DEF TypeInv, TypeOK
  <2>3. panicked' # TRUE
    BY DEF Undisturbed
  <2>4. ~Fault
    BY <2>1, <2>2 DEF Fault
  <2> QED
    BY <2>1, <2>2, <2>3, <2>4
<1>1. RequestsFirst /\ LeftIsEmpty /\ EndedIsEmpty
  BY <1>0 DEF KeptInv
<1>2. ASSUME NEW r \in Receivers,
             Receive(r) \/ PollFails(r) \/ Reject(r) \/ DeleteFails(r) \/ \E e \in Events : Post(r, e)
      PROVE  Kept \subseteq Kept'
  <2>1. ~PollFails(r) /\ ~Reject(r) /\ ~DeleteFails(r) /\ ~Panic(r)
    BY <1>0 DEF PollFails, Reject, DeleteFails, Panic
  <2>2. CASE RefuseClosed(r) \/ RefuseFull(r)
    BY <2>2, RefuseKeeps DEF RefuseClosed, RefuseFull, providerVars, ReceiverVars
  <2> QED
    BY <1>2, <2>1, <2>2, PushKeeps, ReceiverStepKeeps DEF Receive
<1>3. ASSUME NEW w \in Workers, Work(w) \/ Fail(w) PROVE Kept \subseteq Kept'
  BY <1>0, <1>3, WorkKeeps DEF Fail
<1>4. ASSUME Process PROVE Kept \subseteq Kept'
  <2>1. CASE Signal \/ ClosePool
    BY <2>1, UnchangedKeeps DEF Signal, ClosePool, providerVars, poolVars, workerVars
  <2> QED
    BY <1>0, <1>1, <1>4, <2>1, DrainedKeeps, StartKeeps
       DEF Process, ClosePoolLate, DrainTimeout, Crash
<1>5. CASE UNCHANGED vars
  BY <1>5, UnchangedKeeps DEF vars
<1>6. Active \subseteq Receivers
  BY IntakeAssumption DEF Active, Poller
<1> QED
  BY <1>2, <1>3, <1>4, <1>5, <1>6 DEF Next

LEMMA KeptInit == Init => KeptInv
  BY DEF Init, KeptInv, EndedIsEmpty, LeftIsEmpty, OnlyPollerDeletes, RequestsFirst, QueuedFirst, Acknowledged,
         AtRest, Receiver, Idle, Worker

LEMMA EndedStep == TypeInv /\ EndedIsEmpty /\ [Next]_vars => EndedIsEmpty'
<1> SUFFICES ASSUME TypeInv, EndedIsEmpty, [Next]_vars, phase' = "exited"
             PROVE  /\ queue' = <<>>
                    /\ \A r \in Receivers : receiver'[r].pc = "idle"
                    /\ \A w \in Workers : worker'[w].pc = "idle"
  BY DEF EndedIsEmpty
<1>1. CASE Die
  BY <1>1 DEF Die, AtRest, Receiver, Idle, Worker
<1>2. ASSUME phase = "exited"
      PROVE  /\ queue = <<>>
             /\ \A r \in Receivers : receiver[r].pc = "idle"
             /\ \A w \in Workers : worker[w].pc = "idle"
  BY <1>2 DEF EndedIsEmpty
<1>3. ASSUME NEW r \in Receivers,
             Receive(r) \/ PollFails(r) \/ Reject(r) \/ DeleteFails(r) \/ \E e \in Events : Post(r, e)
      PROVE  Die
  BY <1>2, <1>3
     DEF Receive, Poll, Read, CheckOpen, RefuseClosed, RefuseFull, Push, Panic, Delete, Retry,
         StopPolling, PollFails, Reject, DeleteFails, Post, ReceiverVars, Running, Cancelled
<1>4. ASSUME NEW w \in Workers, Running, Work(w) \/ Fail(w) PROVE FALSE
  BY <1>4 DEF Work, Fail, Take, DropEarly, JoinLine, DropLate, Recheck, Store, Handle, Leaves, WorkerFrame,
              Running
<1>5. CASE Process
  BY <1>1, <1>5
     DEF Process, Signal, ClosePool, ClosePoolLate, Drained, DrainTimeout, Crash, Start, FreshProcess
<1>6. CASE UNCHANGED vars
  BY <1>2, <1>6 DEF vars
<1>7. Active \subseteq Receivers
  BY IntakeAssumption DEF Active, Poller
<1> QED
  BY <1>1, <1>3, <1>4, <1>5, <1>6, <1>7 DEF Next

LEMMA LeftStep == TypeInv /\ LeftIsEmpty /\ [Next]_vars => LeftIsEmpty'
<1> SUFFICES ASSUME TypeInv, LeftIsEmpty, [Next]_vars, NEW w \in Workers, worker'[w].pc = "gone"
             PROVE  closed' /\ queue' = <<>>
  BY DEF LeftIsEmpty
<1>0. worker[w].pc = "gone" => closed /\ queue = <<>>
  BY DEF LeftIsEmpty
<1>1. ASSUME worker' = [v \in Workers |-> Idle] PROVE FALSE
  BY <1>1 DEF Idle, Worker
<1>2. CASE UNCHANGED <<worker, closed, queue>>
  BY <1>0, <1>2
<1>3. ASSUME NEW r \in Receivers,
             Receive(r) \/ PollFails(r) \/ Reject(r) \/ DeleteFails(r) \/ \E e \in Events : Post(r, e)
      PROVE  UNCHANGED <<worker, closed, queue>>
  <2>1. CASE Push(r)
    BY <1>0, <2>1 DEF Push, workerVars
  <2>2. CASE Panic(r)
    BY <1>1, <2>2 DEF Panic, Die, poolVars, workerVars
  <2> QED
    BY <1>3, <2>1, <2>2
       DEF Receive, Poll, Read, CheckOpen, RefuseClosed, RefuseFull, Delete, Retry,
           StopPolling, PollFails, Reject, DeleteFails, Post, ReceiverVars
<1>4. ASSUME NEW v \in Workers, Work(v) \/ Fail(v)
      PROVE  closed' /\ queue' = <<>>
  <2>1. CASE v = w /\ Leaves(w)
    BY <2>1 DEF Leaves, Exhausted, WorkerFrame
  <2>2. CASE v # w /\ ~Take(v)
    <3>1. worker'[w] = worker[w] /\ UNCHANGED <<closed, queue>>
      BY <1>4, <2>2
         DEF Work, Fail, DropEarly, JoinLine, DropLate, Recheck, Store, Handle, Leaves, WorkerFrame,
             TypeInv, TypeOK
    <3> QED
      BY <1>0, <3>1
  <2>3. CASE v # w /\ Take(v)
    <3>1. worker'[w] = worker[w] /\ queue # <<>>
      BY <2>3 DEF Take, TypeInv, TypeOK
    <3> QED
      BY <1>0, <3>1
  <2>4. CASE v = w /\ ~Leaves(w)
    <3>1. PICK x : worker' = [worker EXCEPT ![w] = x] /\ x.pc # "gone"
      <4>1. CASE JoinLine(w)
        <5>1. [worker[w] EXCEPT !.pc = "wait"].pc = "wait"
          BY DEF TypeInv, TypeOK
        <5>2. worker' = [worker EXCEPT ![w] = [worker[w] EXCEPT !.pc = "wait"]]
          BY <4>1 DEF JoinLine
        <5> QED
          BY <5>1, <5>2
      <4>2. CASE Store(w) /\ ~Known(w)
        <5>1. [worker[w] EXCEPT !.pc = "handle"].pc = "handle"
          BY DEF TypeInv, TypeOK
        <5>2. worker' = [worker EXCEPT ![w] = [worker[w] EXCEPT !.pc = "handle"]]
          BY <4>2 DEF Store
        <5> QED
          BY <5>1, <5>2
      <4>5. CASE Recheck(w)
        <5>1. [worker[w] EXCEPT !.pc = "insert"].pc = "insert"
          BY DEF TypeInv, TypeOK
        <5>2. worker' = [worker EXCEPT ![w] = [worker[w] EXCEPT !.pc = "insert"]]
          BY <4>5 DEF Recheck
        <5> QED
          BY <5>1, <5>2
      <4>6. CASE Store(w) /\ Known(w)
        BY <4>6 DEF Store, Idle, Worker
      <4>3. CASE Take(w)
        BY <4>3 DEF Take, Worker
      <4>4. CASE DropEarly(w) \/ DropLate(w) \/ Handle(w) \/ Fail(w)
        BY <4>4 DEF DropEarly, DropLate, Handle, Fail, Idle, Worker
      <4> QED
        BY <1>4, <2>4, <4>1, <4>2, <4>3, <4>4, <4>5, <4>6 DEF Work
    <3>2. worker'[w] = x
      BY <3>1 DEF TypeInv, TypeOK
    <3> QED
      BY <3>1, <3>2
  <2> QED
    BY <2>1, <2>2, <2>3, <2>4
<1>5. CASE Process
  <2>1. CASE Signal
    BY <1>2, <2>1 DEF Signal, poolVars, workerVars
  <2>2. CASE ClosePool \/ ClosePoolLate
    BY <1>0, <2>2 DEF ClosePool, ClosePoolLate, workerVars
  <2>3. CASE Drained \/ DrainTimeout \/ Crash \/ Start
    BY <1>1, <2>3 DEF Drained, DrainTimeout, Crash, Start, Die, FreshProcess
  <2> QED
    BY <1>5, <2>1, <2>2, <2>3 DEF Process
<1>6. CASE UNCHANGED vars
  BY <1>2, <1>6 DEF vars
<1>7. Active \subseteq Receivers
  BY IntakeAssumption DEF Active, Poller
<1> QED
  BY <1>2, <1>3, <1>4, <1>5, <1>6, <1>7 DEF Next

LEMMA RequestsFirstStep ==
  TypeInv /\ KeptInv /\ [Next]_vars /\ Undisturbed' => RequestsFirst'
<1> SUFFICES ASSUME TypeInv, KeptInv, [Next]_vars, Undisturbed',
                    transport' = "webhook", phase' = "draining", NEW r \in Receivers
             PROVE  receiver'[r].pc = "idle"
  BY DEF RequestsFirst
<1>0. Undisturbed /\ UNCHANGED faults /\ faults \in Nat /\ ~Fault
  BY DisturbedForGood, IntakeAssumption DEF TypeInv, TypeOK, Fault
<1>1. transport = "webhook" /\ phase = "draining" => receiver[r].pc = "idle"
  BY <1>0 DEF KeptInv, RequestsFirst
<1>2. ASSUME NEW q \in Receivers,
             Receive(q) \/ PollFails(q) \/ Reject(q) \/ DeleteFails(q) \/ \E e \in Events : Post(q, e)
      PROVE  FALSE
  <2>1. transport = "webhook" /\ phase = "draining"
    BY <1>2
       DEF Receive, Poll, Read, CheckOpen, RefuseClosed, RefuseFull, Push, Panic, Delete, Retry,
           StopPolling, PollFails, Reject, DeleteFails, Post, ReceiverVars, providerVars, Die
  <2>2. receiver[q].pc = "idle"
    BY <1>0, <2>1 DEF KeptInv, RequestsFirst
  <2> QED
    BY <1>2, <2>1, <2>2
       DEF Receive, Poll, Read, CheckOpen, RefuseClosed, RefuseFull, Push, Panic, Delete, Retry,
           StopPolling, PollFails, Reject, DeleteFails, Post, Cancelled
<1>3. ASSUME NEW w \in Workers, Work(w) \/ Fail(w) PROVE UNCHANGED <<transport, phase, receiver>>
  BY <1>3 DEF Work, Fail, Take, DropEarly, JoinLine, DropLate, Recheck, Store, Handle, Leaves, WorkerFrame,
              providerVars
<1>4. CASE Process
  BY <1>0, <1>4
     DEF Process, Signal, ClosePool, ClosePoolLate, Drained, DrainTimeout, Crash, Start, Die,
         FreshProcess, RequestsDone, providerVars
<1>5. CASE UNCHANGED vars
  BY <1>1, <1>5 DEF vars
<1>6. Active \subseteq Receivers
  BY IntakeAssumption DEF Active, Poller
<1> QED
  BY <1>1, <1>2, <1>3, <1>4, <1>5, <1>6 DEF Next

LEMMA OnlyPollerDeletesStep == TypeInv /\ OnlyPollerDeletes /\ [Next]_vars => OnlyPollerDeletes'
<1> SUFFICES ASSUME TypeInv, OnlyPollerDeletes, [Next]_vars,
                    NEW q \in Receivers, receiver'[q].pc = "delete"
             PROVE  transport' = "polling"
  BY DEF OnlyPollerDeletes
<1>0. UNCHANGED transport
  <2>1. Active \subseteq Receivers
    BY IntakeAssumption DEF Active, Poller
  <2> QED
    BY <2>1
       DEF Next, Receive, Poll, Read, CheckOpen, RefuseClosed, RefuseFull, Push, Panic, Delete, Retry,
           StopPolling, PollFails, Reject, DeleteFails, Post, Work, Fail, Take, DropEarly, JoinLine,
           DropLate, Recheck, Store, Handle, Leaves, Process, Signal, ClosePool, ClosePoolLate, Drained,
           DrainTimeout, Crash, Start, WorkerFrame, providerVars, vars
<1>1. receiver[q].pc = "delete" => transport = "polling"
  BY DEF OnlyPollerDeletes
<1>2. ASSUME UNCHANGED receiver PROVE transport' = "polling"
  BY <1>0, <1>1, <1>2
<1>3. ASSUME NEW r \in Receivers, NEW x, receiver' = [receiver EXCEPT ![r] = x],
             x.pc = "delete" => transport = "polling"
      PROVE  transport' = "polling"
  BY <1>0, <1>1, <1>3, ReceiverEffect
<1>4. AtRest.pc # "delete"
  BY DEF AtRest, Receiver
<1>5. ASSUME receiver' = [r \in Receivers |-> AtRest] PROVE transport' = "polling"
  BY <1>4, <1>5
<1>6. \A e, left : After(e, left).pc = "delete" => transport = "polling"
  BY DEF After, AtRest, Receiver
<1>7. ASSUME NEW r \in Receivers, NEW step \in {"push", "wait"}, Step(r, step)
      PROVE  transport' = "polling"
  <2>1. [receiver[r] EXCEPT !.pc = step].pc # "delete"
    BY DEF TypeInv, TypeOK
  <2>2. receiver' = [receiver EXCEPT ![r] = [receiver[r] EXCEPT !.pc = step]]
    BY <1>7 DEF Step
  <2> QED
    BY <1>3, <2>1, <2>2
<1>8. ASSUME NEW r \in Receivers, Advance(r) PROVE transport' = "polling"
  BY <1>3, <1>6, <1>8 DEF Advance
<1>9. ASSUME NEW r \in Receivers,
             Receive(r) \/ PollFails(r) \/ Reject(r) \/ DeleteFails(r) \/ \E e \in Events : Post(r, e)
      PROVE  transport' = "polling"
  <2>1. CASE Poll(r) \/ StopPolling(r) \/ \E e \in Events : Post(r, e)
    <3>1. \A e : Receiver("read", e, {}).pc # "delete" /\ Receiver("gone", e, {}).pc # "delete"
      BY DEF Receiver
    <3> QED
      BY <1>3, <2>1, <3>1 DEF Poll, StopPolling, Post
  <2>2. CASE Reject(r) \/ Delete(r) \/ Retry(r)
    BY <1>3, <1>4, <2>2 DEF Reject, Delete, Retry
  <2>3. CASE Read(r)
    BY <1>3, <1>6, <2>3 DEF Read
  <2>4. CASE PollFails(r) \/ DeleteFails(r) \/ CheckOpen(r)
    BY <1>7, <2>4 DEF PollFails, DeleteFails, CheckOpen
  <2>5. CASE RefuseClosed(r) \/ RefuseFull(r)
    BY <1>7, <1>8, <2>5 DEF RefuseClosed, RefuseFull, Refuse
  <2>6. CASE Push(r)
    BY <1>8, <2>6 DEF Push
  <2>7. CASE Panic(r)
    BY <1>3, <1>4, <1>5, <2>7 DEF Panic, Die
  <2> QED
    BY <1>9, <2>1, <2>2, <2>3, <2>4, <2>5, <2>6, <2>7 DEF Receive
<1>10. ASSUME NEW w \in Workers, Work(w) \/ Fail(w) PROVE transport' = "polling"
  BY <1>2, <1>10
     DEF Work, Fail, Take, DropEarly, JoinLine, DropLate, Recheck, Store, Handle, Leaves, WorkerFrame
<1>11. CASE Process
  BY <1>2, <1>5, <1>11
     DEF Process, Signal, ClosePool, ClosePoolLate, Drained, DrainTimeout, Crash, Start, Die,
         FreshProcess
<1>12. CASE UNCHANGED vars
  BY <1>2, <1>12 DEF vars
<1>13. Active \subseteq Receivers
  BY IntakeAssumption DEF Active, Poller
<1> QED
  BY <1>9, <1>10, <1>11, <1>12, <1>13 DEF Next

\* The poller: a message is queued before it is crossed off, and a notification is
\* deleted when all of them are.
LEMMA QueuedFirstStep ==
  TypeInv /\ LineInv /\ KeptInv /\ [Next]_vars /\ Undisturbed' => QueuedFirst'
<1> SUFFICES ASSUME TypeInv, LineInv, KeptInv, [Next]_vars, Undisturbed', transport' = "polling",
                    NEW q \in Receivers
             PROVE  /\ receiver'[q].pc \in {"submit", "push"} =>
                         At(receiver'[q].event, Wanted(receiver'[q].event) \ receiver'[q].left)
                           \subseteq Kept'
                    /\ receiver'[q].pc = "delete" =>
                         At(receiver'[q].event, Wanted(receiver'[q].event)) \subseteq Kept'
  BY DEF QueuedFirst, At, Wanted, ParseWebhook
<1>0. Undisturbed /\ UNCHANGED faults /\ faults \in Nat /\ ~Fault
  BY DisturbedForGood, IntakeAssumption DEF TypeInv, TypeOK, Fault
<1>1. Kept \subseteq Kept'
  BY NothingIsLost
<1>2. transport = "polling" =>
        /\ receiver[q].pc \in {"submit", "push"} =>
             At(receiver[q].event, Wanted(receiver[q].event) \ receiver[q].left) \subseteq Kept
        /\ receiver[q].pc = "delete" =>
             At(receiver[q].event, Wanted(receiver[q].event)) \subseteq Kept
  BY <1>0 DEF KeptInv, QueuedFirst
<1> DEFINE Good(x) ==
             /\ x.pc \in {"submit", "push"} => At(x.event, Wanted(x.event) \ x.left) \subseteq Kept'
             /\ x.pc = "delete" => At(x.event, Wanted(x.event)) \subseteq Kept'
<1>3. ASSUME transport = "polling", receiver'[q] = receiver[q] PROVE Good(receiver'[q])
  BY <1>1, <1>2, <1>3
<1>4. ASSUME NEW x, x.pc \notin {"submit", "push", "delete"} PROVE Good(x)
  BY <1>4
<1>5. Good(AtRest)
  BY <1>4 DEF AtRest, Receiver
<1>6. ASSUME NEW e, NEW left, At(e, Wanted(e) \ left) \subseteq Kept' PROVE Good(After(e, left))
  <2>1. CASE left # {}
    <3>1. After(e, left).pc = "submit" /\ After(e, left).event = e /\ After(e, left).left = left
      BY <2>1 DEF After, Receiver
    <3> QED
      BY <1>6, <3>1
  <2>2. CASE left = {}
    <3>1. \/ After(e, left).pc = "delete" /\ After(e, left).event = e
          \/ After(e, left) = AtRest
      BY <2>2 DEF After, Receiver
    <3>2. Wanted(e) \ left = Wanted(e)
      BY <2>2
    <3>3. CASE After(e, left) = AtRest
      BY <1>5, <3>3
    <3>4. CASE After(e, left).pc = "delete" /\ After(e, left).event = e
      BY <1>6, <3>2, <3>4
    <3> QED
      BY <3>1, <3>3, <3>4
  <2> QED
    BY <2>1, <2>2
<1> HIDE DEF Good
<1>7. ASSUME NEW r \in Receivers,
             Receive(r) \/ PollFails(r) \/ Reject(r) \/ DeleteFails(r) \/ \E e \in Events : Post(r, e)
      PROVE  Good(receiver'[q])
  <2>1. ~PollFails(r) /\ ~Reject(r) /\ ~DeleteFails(r) /\ ~Panic(r) /\ transport = "polling"
    <3>1. panicked' # TRUE
      BY DEF Undisturbed
    <3>2. ~PollFails(r) /\ ~Reject(r) /\ ~DeleteFails(r) /\ ~Panic(r)
      BY <1>0, <3>1 DEF PollFails, Reject, DeleteFails, Panic
    <3> QED
      BY <1>7, <3>2
         DEF Receive, Poll, Read, CheckOpen, RefuseClosed, RefuseFull, Push, Delete, Retry,
             StopPolling, Post, ReceiverVars, providerVars
  <2>2. ASSUME NEW x, receiver' = [receiver EXCEPT ![r] = x], q = r => Good(x)
        PROVE  Good(receiver'[q])
    <3>1. receiver'[q] = IF q = r THEN x ELSE receiver[q]
      BY <2>2, ReceiverEffect
    <3> QED
      BY <1>3, <2>1, <2>2, <3>1
  <2>3. CASE Poll(r) \/ StopPolling(r)
    <3>1. Good(Receiver("read", Head(feed), {})) /\ Good(Receiver("gone", None, {}))
      BY <1>4 DEF Receiver
    <3> QED
      BY <2>2, <2>3, <3>1 DEF Poll, StopPolling
  <2>4. CASE Retry(r) \/ Delete(r)
    BY <1>5, <2>2, <2>4 DEF Retry, Delete
  <2>5. CASE Read(r)
    <3> DEFINE e == receiver[r].event
    <3>1. At(e, Wanted(e) \ Wanted(e)) \subseteq Kept'
      BY DEF At
    <3>2. receiver' = [receiver EXCEPT ![r] = After(e, Wanted(e))]
      BY <2>5 DEF Read
    <3>3. Good(After(e, Wanted(e)))
      BY <1>6, <3>1
    <3> QED
      BY <2>2, <3>2, <3>3
  <2>6. ASSUME NEW step, Step(r, step), step \in {"push", "wait"}, receiver[r].pc \in {"submit", "push"}
        PROVE  Good(receiver'[q])
    <3> DEFINE x == [receiver[r] EXCEPT !.pc = step]
    <3>1. receiver' = [receiver EXCEPT ![r] = x]
      BY <2>6 DEF Step
    <3>2. x.pc = step /\ x.event = receiver[r].event /\ x.left = receiver[r].left
      BY DEF TypeInv, TypeOK
    <3> HIDE DEF x
    <3>3. q = r => Good(x)
      BY <1>1, <1>2, <2>1, <2>6, <3>2 DEF Good
    <3> QED
      BY <2>2, <3>1, <3>3
  <2>7. CASE CheckOpen(r)
    BY <2>6, <2>7 DEF CheckOpen
  <2>8. CASE RefuseClosed(r) \/ RefuseFull(r)
    BY <2>1, <2>6, <2>8 DEF RefuseClosed, RefuseFull, Refuse
  <2>9. CASE Push(r)
    <3> DEFINE e == receiver[r].event
               rest == receiver[r].left \ {Min(receiver[r].left)}
    <3>1. receiver[r].pc = "push" /\ receiver' = [receiver EXCEPT ![r] = After(e, rest)]
      BY <2>9 DEF Push, Advance
    <3>2. At(e, Wanted(e) \ rest) \subseteq At(e, Wanted(e) \ receiver[r].left) \cup {First(r)}
      BY <3>1, LeftSplits
    <3>3. First(r) \in Kept'
      BY <2>9, PushKeeps
    <3>4. q = r => At(e, Wanted(e) \ receiver[r].left) \subseteq Kept'
      BY <1>1, <1>2, <2>1, <3>1
    <3>5. q = r => Good(After(e, rest))
      BY <1>6, <3>2, <3>3, <3>4
    <3> HIDE DEF e, rest
    <3> QED
      BY <2>2, <3>1, <3>5
  <2> QED
    BY <1>7, <2>1, <2>3, <2>4, <2>5, <2>7, <2>8, <2>9 DEF Receive, Post
<1>8. ASSUME NEW w \in Workers, Work(w) \/ Fail(w) PROVE Good(receiver'[q])
  <2>1. UNCHANGED <<transport, receiver>>
    BY <1>8 DEF Work, Fail, Take, DropEarly, JoinLine, DropLate, Recheck, Store, Handle, Leaves, WorkerFrame,
                providerVars
  <2> QED
    BY <1>3, <2>1
<1>9. CASE Process
  <2>1. UNCHANGED transport
    BY <1>9
       DEF Process, Signal, ClosePool, ClosePoolLate, Drained, DrainTimeout, Crash, Start, providerVars
  <2>2. UNCHANGED receiver \/ receiver' = [r \in Receivers |-> AtRest]
    BY <1>9
       DEF Process, Signal, ClosePool, ClosePoolLate, Drained, DrainTimeout, Crash, Start, Die,
           FreshProcess
  <2>3. CASE UNCHANGED receiver
    <3>1. transport = "polling" /\ receiver'[q] = receiver[q]
      BY <2>1, <2>3
    <3> QED
      BY <1>3, <3>1 DEF Good
  <2>4. CASE receiver' = [r \in Receivers |-> AtRest]
    <3>1. receiver'[q] = AtRest
      BY <2>4
    <3> QED
      BY <1>5, <3>1 DEF Good
  <2> QED
    BY <2>2, <2>3, <2>4
<1>10. CASE UNCHANGED vars
  <2>1. transport = "polling" /\ receiver'[q] = receiver[q]
    BY <1>10 DEF vars
  <2> QED
    BY <1>3, <2>1 DEF Good
<1>11. Active \subseteq Receivers
  BY IntakeAssumption DEF Active, Poller
<1>12. Good(receiver'[q])
  <2>1. \/ \E r \in Receivers :
             \/ Receive(r) \/ PollFails(r) \/ Reject(r) \/ DeleteFails(r)
             \/ \E e \in Events : Post(r, e)
        \/ \E w \in Workers : Work(w) \/ Fail(w)
        \/ Process \/ UNCHANGED vars
    BY <1>11 DEF Next
  <2> QED
    BY <1>7, <1>8, <1>9, <1>10, <2>1 DEF Good
<1> QED
  BY <1>12 DEF Good

LEMMA AcknowledgedStep ==
  TypeInv /\ LineInv /\ KeptInv /\ [Next]_vars /\ Undisturbed' => Acknowledged'
<1> SUFFICES ASSUME TypeInv, LineInv, KeptInv, [Next]_vars, Undisturbed', NEW e \in acked'
             PROVE  At(e, Wanted(e)) \subseteq Kept'
  BY DEF Acknowledged, At, Wanted, ParseWebhook
<1>0. Undisturbed /\ UNCHANGED faults /\ faults \in Nat /\ ~Fault
  BY DisturbedForGood, IntakeAssumption DEF TypeInv, TypeOK, Fault
<1>1. Kept \subseteq Kept'
  BY NothingIsLost
<1>2. CASE e \in acked
  BY <1>0, <1>1, <1>2 DEF KeptInv, Acknowledged
<1>3. ASSUME NEW r \in Receivers, Read(r), e \notin acked PROVE At(e, Wanted(e)) \subseteq Kept'
  <2>1. transport = "webhook" /\ e = receiver[r].event /\ UNCHANGED transport
    BY <1>3 DEF Read
  <2>2. receiver'[r] = After(e, Wanted(e))
    BY <1>3, <2>1 DEF Read, TypeInv, TypeOK
  <2>3. CASE Wanted(e) = {}
    BY <2>3 DEF At
  <2>4. CASE Wanted(e) # {}
    <3>1. receiver'[r].pc = "submit" /\ receiver'[r].event = e /\ receiver'[r].left = Wanted(e)
      BY <2>2, <2>4 DEF After, Receiver
    <3>2. ASSUME NEW m \in At(e, Wanted(e)) PROVE m \in Kept'
      BY <2>1, <3>1, <3>2, KeptPlacesNext
    <3> QED
      BY <3>2
  <2> QED
    BY <2>3, <2>4
<1>4. ASSUME NEW r \in Receivers, Delete(r), e \notin acked PROVE At(e, Wanted(e)) \subseteq Kept'
  <2>1. receiver[r].pc = "delete" /\ e = receiver[r].event
    BY <1>4 DEF Delete
  <2>2. CASE transport = "polling"
    BY <1>0, <1>1, <2>1, <2>2 DEF KeptInv, QueuedFirst
  <2>3. CASE transport # "polling"
    BY <2>1, <2>3 DEF KeptInv, OnlyPollerDeletes
  <2> QED
    BY <2>2, <2>3
<1>5. ASSUME NEW r \in Receivers,
             Receive(r) \/ PollFails(r) \/ Reject(r) \/ DeleteFails(r) \/ \E f \in Events : Post(r, f),
             ~Read(r), ~Delete(r)
      PROVE  UNCHANGED acked
  <2>1. ~DeleteFails(r)
    BY <1>0 DEF DeleteFails
  <2> QED
    BY <1>5, <2>1
       DEF Receive, Poll, CheckOpen, RefuseClosed, RefuseFull, Push, Panic, Retry, StopPolling,
           PollFails, Reject, Post, providerVars
<1>6. ASSUME NEW w \in Workers, Work(w) \/ Fail(w) PROVE UNCHANGED acked
  BY <1>6 DEF Work, Fail, Take, DropEarly, JoinLine, DropLate, Recheck, Store, Handle, Leaves, WorkerFrame,
              providerVars
<1>7. Process => UNCHANGED acked
  BY DEF Process, Signal, ClosePool, ClosePoolLate, Drained, DrainTimeout, Crash, Start, providerVars
<1>8. UNCHANGED vars => UNCHANGED acked
  BY DEF vars
<1>9. Active \subseteq Receivers
  BY IntakeAssumption DEF Active, Poller
<1> QED
  BY <1>2, <1>3, <1>4, <1>5, <1>6, <1>7, <1>8, <1>9 DEF Next

-----------------------------------------------------------------------------
(* The theorems *)

IInv == TypeInv /\ LineInv /\ RecheckDecides /\ KeptInv

LEMMA KeptStep == TypeInv /\ LineInv /\ KeptInv /\ [Next]_vars => KeptInv'
<1> SUFFICES ASSUME TypeInv, LineInv, KeptInv, [Next]_vars PROVE KeptInv'
  OBVIOUS
<1>1. EndedIsEmpty' /\ LeftIsEmpty' /\ OnlyPollerDeletes'
  BY EndedStep, LeftStep, OnlyPollerDeletesStep DEF KeptInv
<1>2. ASSUME Undisturbed' PROVE RequestsFirst' /\ QueuedFirst' /\ Acknowledged'
  BY <1>2, RequestsFirstStep, QueuedFirstStep, AcknowledgedStep
<1> QED
  BY <1>1, <1>2 DEF KeptInv

LEMMA Inductive == Spec => []IInv
<1>1. Init => IInv
  BY TypeInit, LineInit, RecheckInit, KeptInit DEF IInv
<1>2. IInv /\ [Next]_vars => IInv'
  BY TypeStep, LineStep, RecheckStep, KeptStep DEF IInv
<1> QED
  BY <1>1, <1>2, PTL DEF Spec

\* Every variable keeps its type: the queue its capacity, a worker at a job its
\* message, a receiver at its queueing the places it has left.
THEOREM TypeCorrect == Spec => []TypeOK
<1>1. IInv => TypeOK
  BY DEF IInv, TypeInv
<1> QED
  BY <1>1, Inductive, PTL

\* The re-check decides: whoever got past it under the chat's order lock inserts a
\* message that no other delivery of it has stored, so a message is turned once and
\* the unique index refuses nothing (Handle, then MessageRepository.Create).
THEOREM TheRecheckDecides == Spec => []RecheckDecides
<1>1. IInv => RecheckDecides
  BY DEF IInv
<1> QED
  BY <1>1, Inductive, PTL

\* Nobody waits for a lock that nobody holds: a chat's line is made of the workers
\* that have a message of it, each once, and a turn under way is its head's.
THEOREM HonestLines == Spec => []LineIsHonest
<1>1. IInv => LineIsHonest
  BY DEF IInv, LineInv
<1> QED
  BY <1>1, Inductive, PTL

\* The order lock is a lock: two workers past the re-check have messages of two chats.
OneTurnPerChat ==
  \A v, w \in Workers :
    /\ worker[v].pc \in {"insert", "handle"} /\ worker[w].pc \in {"insert", "handle"}
    /\ Chat(v) = Chat(w)
    => v = w

THEOREM TurnsExclude == Spec => []OneTurnPerChat
<1>1. ASSUME IInv PROVE OneTurnPerChat
  BY <1>1, OneHolder DEF IInv, OneTurnPerChat
<1> QED
  BY <1>1, Inductive, PTL

\* What was acknowledged to the provider is stored, still in the process's hands,
\* or was refused loudly, for every capacity of the queue, any number of restarts
\* and either transport, as long as nothing fails.
THEOREM NothingAcknowledgedIsLost == Spec => []AcknowledgedIsKept
<1>1. IInv => AcknowledgedIsKept
  BY DEF IInv, KeptInv, Undisturbed, Acknowledged, AcknowledgedIsKept, Kept
<1> QED
  BY <1>1, Inductive, PTL

=============================================================================
