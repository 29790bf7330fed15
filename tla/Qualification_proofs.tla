------------------------ MODULE Qualification_proofs ------------------------
(***************************************************************************)
(* What Qualification guarantees for any messages, answers and edits, any  *)
(* number of them, any budget, and however many statements fail.           *)
(***************************************************************************)
EXTENDS Qualification, TLAPS

LeadType == [status: {"none", "new", "qualifying", "qualified"}, service: Services,
             notified: BOOLEAN]

Steps == {"idle", "facts", "phone", "gate", "remember", "crm", "reply", "state",
          "fact", "send", "lead", "user", "alert", "mark"}

Known == Classifications \cup {NoAnswer}

\* A decision to answer names the state to go on in.
Fitting == {d \in Decisions : d.respond = TRUE => d.next \in States}

TurnType == [pc: Steps, user: Users, msg: Messages, asked: BOOLEAN,
             answer: Known, decision: Fitting, touched: BOOLEAN]

ClientInv == client \in Users
LeadInv == lead \in LeadType
TurnInv == turn \in TurnType

CountInv ==
  /\ asked \in BOOLEAN /\ promised \in BOOLEAN
  /\ logged \in Nat /\ spent \in Nat /\ questions \in Nat /\ alerts \in Nat
  /\ turns \in 0 .. MaxTurns /\ edits \in 0 .. MaxEdits /\ faults \in 0 .. MaxFaults

TypeInv == ClientInv /\ LeadInv /\ TurnInv /\ CountInv

LEMMA Bounds ==
  /\ MaxTurns \in Nat /\ MaxEdits \in Nat /\ MaxFaults \in Nat /\ MaxCalls \in Nat
  /\ Arrivals \subseteq Messages
  /\ Answers \subseteq Classifications /\ NoAnswer \notin Answers
  /\ Edits \subseteq [what: {"service"}, to: Services] \cup [what: {"language"}, to: Languages]
  BY QualificationAssumption, DecisionsAssumption
     DEF QualificationAssumption, DecisionsAssumption

LEMMA Constants ==
  /\ NewUser \in Users /\ NoMessage \in Messages /\ NoAnswer \in Known
  /\ Silent \in Fitting /\ NoLead \in LeadType
  /\ "none" \in Services /\ "other" \in Services
  BY DEF NewUser, Users, States, Services, NoMessage, Messages, Texts, Known, Silent,
         Fitting, Decisions, NoLead, LeadType

LEMMA TurnOf ==
  ASSUME NEW step \in Steps, NEW u \in Users, NEW m \in Messages
  PROVE  /\ Turn(step, u, m) \in TurnType
         /\ Turn(step, u, m).pc = step /\ Turn(step, u, m).user = u
         /\ Turn(step, u, m).answer = NoAnswer /\ Turn(step, u, m).decision = Silent
  BY Constants DEF Turn, TurnType

LEMMA NoTurnType ==
  /\ NoTurn \in TurnType /\ NoTurn.pc = "idle"
  BY Constants, TurnOf DEF NoTurn, Steps

LEMMA TypeInit == Init => TypeInv
<1> SUFFICES ASSUME Init PROVE TypeInv
  OBVIOUS
<1>1. ClientInv /\ LeadInv /\ TurnInv
  <2>1. client = NewUser /\ lead = NoLead /\ turn = NoTurn
    BY DEF Init
  <2> QED
    BY <2>1, Constants, NoTurnType DEF ClientInv, LeadInv, TurnInv
<1>2. CountInv
  <2>1. asked \in BOOLEAN /\ promised \in BOOLEAN
    BY Zenon DEF Init
  <2>2. logged = 0 /\ spent = 0 /\ questions = 0 /\ alerts = 0
    BY DEF Init
  <2>3. turns = 0 /\ edits = 0 /\ faults = 0
    BY DEF Init
  <2> QED
    BY <2>1, <2>2, <2>3, Bounds DEF CountInv
<1> QED
  BY <1>1, <1>2 DEF TypeInv

-----------------------------------------------------------------------------
(* The decisions are decisions *)

LEMMA DecisionType ==
  ASSUME NEW a \in {"none", "service_menu", "clarify", "service_info", "ask_contact", "handoff"},
         NEW s \in Services, NEW n \in States
  PROVE  Decision(a, s, n) \in Fitting /\ Decision(a, s, n).respond = TRUE
         /\ Decision(a, s, n).action = a
  BY DEF Decision, Decisions, Fitting

LEMMA ServiceOfType ==
  ASSUME NEW s, s.known \in Services, NEW c \in Known
  PROVE  ServiceOf(s, c) \in Services
<1>1. c.service \in Services
  BY Constants DEF Known, Classifications, NoAnswer
<1>2. ServiceFromIntent(c.intent) \in Services
  BY DEF ServiceFromIntent, Services
<1> QED
  BY <1>1, <1>2 DEF ServiceOf

LEMMA ContinuationType ==
  ASSUME NEW state \in States
  PROVE  ContinuationState(state) \in States
  BY DEF ContinuationState, States

LEMMA FallbackType ==
  ASSUME NEW s
  PROVE  Fallback(s) \in Fitting
<1>1. "waiting_intent" \in States
  BY DEF States
<1> QED
  BY <1>1, DecisionType, Constants DEF Fallback

\* The model's answer is made into a decision, whatever it is.
LEMMA ShouldRespondType ==
  ASSUME NEW s, s.known \in Services, s.state \in States, NEW c \in Known
  PROVE  ShouldRespond(s, c) \in Fitting
<1> DEFINE service == ServiceOf(s, c)
<1>1. service \in Services
  BY ServiceOfType
<1>2. /\ "qualifying" \in States /\ "waiting_intent" \in States
      /\ "waiting_contact" \in States /\ "ready_for_diana" \in States
  BY DEF States
<1>3. ContinuationState(s.state) \in States
  BY ContinuationType
<1> HIDE DEF service
<1> USE <1>1, <1>2, <1>3, DecisionType, Constants, FallbackType
<1>4. LowConfidence(s, service) \in Fitting
  BY DEF LowConfidence
<1>5. AfterHandoff(s, service) \in Fitting
  BY DEF AfterHandoff
<1>6. ForService(s, c, service) \in Fitting
  BY DEF ForService
<1>7. ForIntent(s, c, service) \in Fitting
  <2>1. CASE c.intent \in {"service_inquiry", "other_legal_service", "unclear"}
    BY <2>1 DEF ForIntent
  <2>2. CASE c.intent = "callback_request"
    BY <2>2 DEF ForIntent
  <2>3. CASE c.intent \notin {"service_inquiry", "other_legal_service", "unclear",
                              "callback_request"}
    BY <2>3 DEF ForIntent
  <2> QED
    BY <2>1, <2>2, <2>3
<1> QED
  BY <1>4, <1>5, <1>6, <1>7 DEF ShouldRespond, service

-----------------------------------------------------------------------------
(* What the small steps do *)

\* The turn goes on to a step with what it knew.
Moved(step) ==
  /\ TurnInv'
  /\ turn'.pc = step
  /\ turn'.answer = turn.answer
  /\ turn'.decision = turn.decision

LEMMA GotoMoves ==
  ASSUME TurnInv, NEW step \in Steps, Goto(step)
  PROVE  Moved(step) /\ turn'.asked = turn.asked
<1> DEFINE r == [turn EXCEPT !.pc = step]
<1>1. turn \in TurnType
  BY DEF TurnInv
<1>2. /\ r \in TurnType /\ r.pc = step /\ r.answer = turn.answer
      /\ r.decision = turn.decision /\ r.asked = turn.asked
  BY <1>1, Zenon DEF TurnType
<1>3. turn' = r
  BY DEF Goto
<1> HIDE DEF r
<1> QED
  BY <1>2, <1>3 DEF Moved, TurnInv

\* The turn is over.
Over == TurnInv' /\ turn'.pc = "idle" /\ turn' = NoTurn

LEMMA DoneIsOver ==
  ASSUME Done
  PROVE  Over
  BY NoTurnType DEF Done, Over, TurnInv

\* A copy of the client in which one column is set.
LEMMA UserColumns ==
  ASSUME NEW c \in Users
  PROVE  /\ \A v \in BOOLEAN : [c EXCEPT !.phone = v] \in Users
         /\ \A v \in States : [c EXCEPT !.state = v] \in Users
         /\ \A v \in Services : [c EXCEPT !.service = v] \in Users
         /\ \A v \in BOOLEAN : [c EXCEPT !.isLead = v] \in Users
         /\ \A v \in Languages : [c EXCEPT !.language = v, !.locked = TRUE] \in Users
         /\ \A l \in Languages \cup {"none"}, v \in Services :
              /\ [c EXCEPT !.language = l, !.service = v] \in Users
              /\ [c EXCEPT !.service = v, !.language = l] \in Users
<1>1. ASSUME NEW v \in BOOLEAN PROVE [c EXCEPT !.phone = v] \in Users
  BY Zenon DEF Users
<1>2. ASSUME NEW v \in States PROVE [c EXCEPT !.state = v] \in Users
  BY Zenon DEF Users
<1>3. ASSUME NEW v \in Services PROVE [c EXCEPT !.service = v] \in Users
  BY Zenon DEF Users
<1>4. ASSUME NEW v \in BOOLEAN PROVE [c EXCEPT !.isLead = v] \in Users
  BY Zenon DEF Users
<1>5. ASSUME NEW v \in Languages PROVE [c EXCEPT !.language = v, !.locked = TRUE] \in Users
  <2>1. v \in Languages \cup {"none"}
    OBVIOUS
  <2> QED
    BY <2>1, Zenon DEF Users
<1>6. ASSUME NEW l \in Languages \cup {"none"}, NEW v \in Services
      PROVE  /\ [c EXCEPT !.language = l, !.service = v] \in Users
             /\ [c EXCEPT !.service = v, !.language = l] \in Users
  BY Zenon DEF Users
<1> QED
  BY <1>1, <1>2, <1>3, <1>4, <1>5, <1>6

LEMMA UserFields ==
  ASSUME NEW c \in Users
  PROVE  /\ c.phone \in BOOLEAN /\ c.locked \in BOOLEAN /\ c.isLead \in BOOLEAN
         /\ c.state \in States /\ c.service \in Services
         /\ c.language \in Languages \cup {"none"}
  BY Zenon DEF Users

LEMMA KeepType ==
  ASSUME NEW S, NEW new \in S, NEW old \in S
  PROVE  /\ Keep(new, old) \in S
         /\ old # "none" => Keep(new, old) # "none"
  BY DEF Keep

\* What UpdateQualification writes is a client, with what both copies know.
LEMMA QualificationType ==
  ASSUME NEW c \in Users, NEW u \in Users
  PROVE  /\ WithQualification(c, u) \in Users
         /\ c.phone = TRUE => WithQualification(c, u).phone = TRUE
         /\ c.service # "none" => WithQualification(c, u).service # "none"
         /\ c.language # "none" => WithQualification(c, u).language # "none"
         /\ WithQualification(c, u).isLead = u.isLead
<1> DEFINE l == Keep(u.language, c.language)
<1> DEFINE v == Keep(u.service, c.service)
<1> DEFINE p == c.phone \/ u.phone
<1>1. /\ l \in Languages \cup {"none"} /\ v \in Services
      /\ c.language # "none" => l # "none"
      /\ c.service # "none" => v # "none"
  BY UserFields, KeepType
<1>2. p \in BOOLEAN /\ (c.phone = TRUE => p = TRUE)
  BY UserFields, Zenon
<1>3. WithQualification(c, u) =
        [c EXCEPT !.language = l, !.state = u.state, !.service = v, !.isLead = u.isLead,
                  !.phone = p]
  BY DEF WithQualification
<1>4. u.state \in States /\ u.isLead \in BOOLEAN
  BY UserFields
<1> HIDE DEF l, v, p
<1>5. WithQualification(c, u) \in Users
  BY <1>1, <1>2, <1>3, <1>4, Zenon DEF Users
<1>6. /\ WithQualification(c, u).phone = p /\ WithQualification(c, u).service = v
      /\ WithQualification(c, u).language = l /\ WithQualification(c, u).isLead = u.isLead
  BY <1>3, Zenon DEF Users
<1> QED
  BY <1>1, <1>2, <1>5, <1>6

\* A statement that writes a client leaves one.
LEMMA WritesType ==
  ASSUME ClientInv, CountInv, NEW c \in Users, Writes(c)
  PROVE  ClientInv' /\ faults' \in 0 .. MaxFaults
  BY Bounds DEF ClientInv, CountInv, Writes, Fault

LEMMA FaultType == CountInv /\ Fault => faults' \in 0 .. MaxFaults /\ faults' = faults + 1
  BY Bounds DEF CountInv, Fault

\* What a turn has learned is a service.
LEMMA LearnedType ==
  ASSUME TurnInv
  PROVE  Learned \in Services /\ Service \in Services
<1>1. turn.answer \in Known /\ turn.decision \in Fitting /\ turn.user \in Users
  BY DEF TurnInv, TurnType
<1>2. turn.answer.service \in Services
  BY <1>1, Constants DEF Known, Classifications, NoAnswer
<1>3. turn.decision.service \in Services
  BY <1>1 DEF Fitting, Decisions
<1>4. turn.user.service \in Services
  BY <1>1, UserFields
<1> QED
  BY <1>2, <1>3, <1>4, KeepType DEF Learned, Service

LEMMA AnswerLanguage ==
  ASSUME TurnInv
  PROVE  turn.answer.language \in Languages \cup {"none"}
<1>1. turn.answer \in Known
  BY DEF TurnInv, TurnType
<1> QED
  BY <1>1 DEF Known, Classifications, NoAnswer

LEMMA VerdictType ==
  ASSUME TurnInv, LeadInv
  PROVE  /\ WithVerdict \in LeadType
         /\ WithVerdict.notified = lead.notified /\ WithVerdict.status = Verdict
<1> DEFINE v == Verdict
<1> DEFINE s == Keep(Service, lead.service)
<1>1. v \in {"none", "new", "qualifying", "qualified"}
  BY DEF Verdict, LeadStatus
<1>2. lead \in LeadType /\ lead.service \in Services
  BY DEF LeadInv, LeadType
<1>3. s \in Services
  BY <1>2, LearnedType, KeepType
<1>4. WithVerdict = [lead EXCEPT !.status = v, !.service = s]
  BY DEF WithVerdict
<1> HIDE DEF v, s
<1>5. WithVerdict \in LeadType /\ WithVerdict.notified = lead.notified /\ WithVerdict.status = v
  BY <1>1, <1>2, <1>3, <1>4, Zenon DEF LeadType
<1> QED
  BY <1>5 DEF v

\* A turn with other facts, another copy of the client, or another decision.
AskedTurn(t, step, v) == [t EXCEPT !.pc = step, !.asked = v]
TouchedTurn(t, v) == [t EXCEPT !.touched = v]
UserTurn(t, step, u) == [t EXCEPT !.pc = step, !.user = u]
DecidedTurn(t, c, d) == [t EXCEPT !.pc = "remember", !.answer = c, !.decision = d]

LEMMA WithAsked ==
  ASSUME NEW t \in TurnType, NEW step \in Steps, NEW v \in BOOLEAN
  PROVE  /\ AskedTurn(t, step, v) \in TurnType
         /\ AskedTurn(t, step, v).pc = step /\ AskedTurn(t, step, v).asked = v
  BY Zenon DEF TurnType, AskedTurn

LEMMA WithTouched ==
  ASSUME NEW t \in TurnType, NEW v \in BOOLEAN
  PROVE  /\ TouchedTurn(t, v) \in TurnType
         /\ TouchedTurn(t, v).pc = t.pc /\ TouchedTurn(t, v).asked = t.asked
         /\ TouchedTurn(t, v).answer = t.answer
         /\ TouchedTurn(t, v).decision = t.decision
  BY Zenon DEF TurnType, TouchedTurn

LEMMA WithUser ==
  ASSUME NEW t \in TurnType, NEW step \in Steps, NEW u \in Users
  PROVE  /\ UserTurn(t, step, u) \in TurnType
         /\ UserTurn(t, step, u).pc = step /\ UserTurn(t, step, u).asked = t.asked
         /\ UserTurn(t, step, u).answer = t.answer
         /\ UserTurn(t, step, u).decision = t.decision
         /\ UserTurn(t, step, u).user = u
  BY Zenon DEF TurnType, UserTurn

LEMMA WithDecision ==
  ASSUME NEW t \in TurnType, NEW c \in Known, NEW d \in Fitting
  PROVE  /\ DecidedTurn(t, c, d) \in TurnType
         /\ DecidedTurn(t, c, d).pc = "remember"
         /\ DecidedTurn(t, c, d).answer = c /\ DecidedTurn(t, c, d).decision = d
<1>1. "remember" \in Steps
  BY DEF Steps
<1> QED
  BY <1>1, Zenon DEF TurnType, DecidedTurn

\* The model answered, could not be reached, or was not asked.
DecidedAs(c, d) ==
  /\ TurnInv' /\ turn'.pc = "remember" /\ turn'.answer = c /\ turn'.decision = d

LEMMA DecidedMoves ==
  ASSUME TurnInv, NEW c \in Known, NEW d \in Fitting, Decided(c, d)
  PROVE  DecidedAs(c, d)
<1>1. turn' = DecidedTurn(turn, c, d)
  BY Zenon DEF Decided, DecidedTurn
<1> QED
  BY <1>1, WithDecision DEF DecidedAs, TurnInv

LEMMA SituationType ==
  ASSUME TurnInv
  PROVE  /\ Situation.known \in Services /\ Situation.state \in States
         /\ Situation.asked = turn.asked
<1>1. turn.user \in Users
  BY DEF TurnInv, TurnType
<1> QED
  BY <1>1, UserFields DEF Situation

LEMMA LoadMoves ==
  ASSUME TurnInv, CountInv, LoadFacts
  PROVE  /\ TurnInv' /\ turn'.pc = "phone"
         /\ \/ turn'.asked = asked /\ UNCHANGED faults
            \/ turn'.asked = FALSE /\ Fault
<1>1. turn \in TurnType /\ "phone" \in Steps /\ asked \in BOOLEAN
  BY DEF TurnInv, Steps, CountInv
<1>2. CASE turn' = [turn EXCEPT !.pc = "phone", !.asked = asked] /\ UNCHANGED faults
  <2>1. turn' = AskedTurn(turn, "phone", asked)
    BY <1>2, Zenon DEF AskedTurn
  <2> QED
    BY <1>1, <1>2, <2>1, WithAsked DEF TurnInv
<1>3. CASE turn' = [turn EXCEPT !.pc = "phone", !.asked = FALSE] /\ Fault
  <2>1. FALSE \in BOOLEAN
    OBVIOUS
  <2>2. turn' = AskedTurn(turn, "phone", FALSE)
    BY <1>3, Zenon DEF AskedTurn
  <2>3. Fault
    BY <1>3
  <2> QED
    BY <1>1, <2>3, <2>2, <2>1, WithAsked DEF TurnInv
<1> QED
  BY <1>2, <1>3, Zenon DEF LoadFacts

LEMMA NotePhoneMoves ==
  ASSUME TurnInv, NotePhone
  PROVE  TurnInv' /\ turn'.pc = "gate" /\ turn'.asked = turn.asked
<1>1. turn \in TurnType /\ "gate" \in Steps /\ turn.user \in Users
  BY DEF TurnInv, TurnType, Steps
<1>2. CASE Goto("gate")
  BY <1>1, <1>2, GotoMoves DEF Moved
<1>3. CASE turn' = [turn EXCEPT !.pc = "gate", !.user.phone = @ \/ faults' = faults]
  <2> DEFINE p == turn.user.phone \/ faults' = faults
  <2> DEFINE u == [turn.user EXCEPT !.phone = p]
  <2>1. p \in BOOLEAN
    OBVIOUS
  <2>2. turn' = UserTurn(turn, "gate", u)
    BY <1>1, <1>3, Zenon DEF TurnType, UserTurn
  <2> HIDE DEF p
  <2>3. u \in Users
    BY <1>1, <2>1, UserColumns
  <2> HIDE DEF u
  <2> QED
    BY <1>1, <2>2, <2>3, WithUser DEF TurnInv
<1> QED
  BY <1>2, <1>3 DEF NotePhone

LEMMA RememberMoves ==
  ASSUME TurnInv, Remember
  PROVE  Moved("crm") /\ turn'.user \in Users
<1> DEFINE l == Keep(turn.answer.language, turn.user.language)
<1> DEFINE v == Keep(Learned, turn.user.service)
<1> DEFINE u == [turn.user EXCEPT !.language = l, !.service = v]
<1>1. turn \in TurnType /\ "crm" \in Steps /\ turn.user \in Users
  BY DEF TurnInv, TurnType, Steps
<1>2. l \in Languages \cup {"none"} /\ v \in Services
  BY <1>1, UserFields, KeepType, LearnedType, AnswerLanguage
<1>3. turn' = UserTurn(turn, "crm", u)
  <2>1. turn' = [turn EXCEPT !.pc = "crm", !.user.language = l, !.user.service = v]
    BY DEF Remember
  <2> HIDE DEF l, v
  <2> QED
    BY <2>1, <1>1, Zenon DEF TurnType, UserTurn
<1> HIDE DEF l, v
<1>4. u \in Users
  BY <1>1, <1>2, UserColumns
<1> HIDE DEF u
<1> QED
  BY <1>1, <1>3, <1>4, WithUser DEF TurnInv, Moved

-----------------------------------------------------------------------------
(* Types *)

\* The steps of a turn that reach the client, the turn and the fault bound.
StepTyped == ClientInv' /\ LeadInv' /\ TurnInv' /\ CountInv'

LEMMA ArriveTyped ==
  ASSUME TypeInv, NEW m \in Arrivals, Arrive(m)
  PROVE  StepTyped
<1> DEFINE p == client.phone \/ m.sender
<1>1. client \in Users /\ m \in Messages /\ "facts" \in Steps
  BY Bounds DEF TypeInv, ClientInv, Steps
<1>2. client' = [client EXCEPT !.phone = p]
  BY DEF Arrive
<1>3. p \in BOOLEAN
  OBVIOUS
<1> HIDE DEF p
<1>4. client' \in Users
  BY <1>1, <1>2, <1>3, UserColumns
<1>5. turn' = Turn("facts", client', m)
  BY DEF Arrive
<1>6. turn' \in TurnType
  BY <1>1, <1>4, <1>5, TurnOf
<1>7. CountInv'
  BY Bounds DEF TypeInv, CountInv, Arrive, history
<1>8. LeadInv'
  BY DEF TypeInv, LeadInv, Arrive
<1> QED
  BY <1>4, <1>6, <1>7, <1>8 DEF StepTyped, ClientInv, TurnInv

LEMMA LoadFactsTyped ==
  ASSUME TypeInv, LoadFacts
  PROVE  StepTyped
<1>1. TurnInv' /\ (UNCHANGED faults \/ Fault)
  BY LoadMoves DEF TypeInv
<1>2. UNCHANGED <<client, asked, lead, logged, bounds, history>>
  BY DEF LoadFacts
<1>3. ClientInv' /\ LeadInv'
  BY <1>2 DEF TypeInv, ClientInv, LeadInv
<1>4. CountInv'
  BY <1>1, <1>2, Bounds DEF TypeInv, CountInv, Fault, bounds, history
<1> QED
  BY <1>1, <1>3, <1>4 DEF StepTyped

\* A step that leaves the counters alone but for a fault.
LEMMA CountKept ==
  ASSUME CountInv, UNCHANGED faults \/ Fault,
         UNCHANGED <<asked, logged, bounds, history>>
  PROVE  CountInv'
  BY Bounds DEF CountInv, Fault, bounds, history

LEMMA CountFaults ==
  ASSUME NEW c, Writes(c)
  PROVE  UNCHANGED faults \/ Fault
  BY DEF Writes

LEMMA NotePhoneTyped ==
  ASSUME TypeInv, NotePhone
  PROVE  StepTyped
<1>1. TurnInv'
  BY NotePhoneMoves DEF TypeInv
<1> DEFINE c == [client EXCEPT !.phone = TRUE]
<1>2. c \in Users
  BY UserColumns DEF TypeInv, ClientInv
<1>3. Writes(c) \/ UNCHANGED <<client, faults>>
  BY DEF NotePhone
<1> HIDE DEF c
<1>4. ClientInv' /\ (UNCHANGED faults \/ Fault)
  BY <1>2, <1>3, WritesType, CountFaults DEF TypeInv, ClientInv
<1>5. UNCHANGED <<asked, lead, logged, bounds, history>>
  BY DEF NotePhone
<1>6. CountInv' /\ LeadInv'
  BY <1>4, <1>5, CountKept DEF TypeInv, LeadInv
<1> QED
  BY <1>1, <1>4, <1>6 DEF StepTyped

LEMMA SkipTyped ==
  ASSUME TypeInv, Skip
  PROVE  StepTyped
<1>1. TurnInv'
  BY DecidedMoves, Constants DEF Skip, TypeInv, DecidedAs
<1>2. UNCHANGED <<client, asked, lead, logged, bounds, faults, history>>
  BY DEF Skip
<1>3. CountInv' /\ LeadInv' /\ ClientInv'
  BY <1>2, CountKept DEF TypeInv, LeadInv, ClientInv
<1> QED
  BY <1>1, <1>3 DEF StepTyped

\* A turn may lose both its count and its row.
TwoFaults == faults' = faults + 2 /\ faults' <= MaxFaults

\* What a call of the model costs, and leaves behind.
LEMMA CallCosts ==
  ASSUME CountInv, CallModel
  PROVE  /\ spent' = spent + 1 /\ logged' \in {logged, logged + 1}
         /\ UNCHANGED faults \/ Fault \/ TwoFaults
         /\ spent <= logged + faults => spent' <= logged' + faults'
         /\ UNCHANGED faults \/ logged' = logged => \/ MaxCalls = 0 \/ logged < MaxCalls
                                                    \/ TwoFaults
<1>1. CASE Admits(logged) /\ Logs
  BY <1>1, Bounds DEF CallModel, Admits, CallsModel, Logs, Fault, CountInv
<1>2. CASE \E lost \in {0, 1} : /\ logged' = logged + 1 - lost
                               /\ faults' = faults + 1 + lost /\ faults' <= MaxFaults
  <2>1. \/ logged' = logged + 1 /\ faults' = faults + 1 /\ faults' <= MaxFaults
        \/ logged' = logged /\ faults' = faults + 2 /\ faults' <= MaxFaults
    BY <1>2, Bounds DEF CountInv
  <2> QED
    BY <2>1, Bounds DEF CallModel, Fault, TwoFaults, CountInv
<1> QED
  BY <1>1, <1>2 DEF CallModel

LEMMA ClassifyTyped ==
  ASSUME TypeInv, NEW c \in Answers, Classify(c)
  PROVE  StepTyped /\ DecidedAs(c, ShouldRespond(Situation, c))
<1>1. c \in Known
  BY Bounds DEF Known
<1>2. ShouldRespond(Situation, c) \in Fitting
  BY <1>1, SituationType, ShouldRespondType DEF TypeInv
<1>3. DecidedAs(c, ShouldRespond(Situation, c))
  BY <1>1, <1>2, DecidedMoves DEF Classify, TypeInv
<1>4. /\ spent' = spent + 1 /\ logged' \in {logged, logged + 1}
      /\ UNCHANGED faults \/ Fault \/ TwoFaults
  BY CallCosts DEF Classify, TypeInv
<1>5. CountInv'
  BY <1>4, Bounds DEF TypeInv, CountInv, Classify, Fault, TwoFaults, bounds
<1>6. ClientInv' /\ LeadInv'
  BY DEF TypeInv, ClientInv, LeadInv, Classify
<1> QED
  BY <1>3, <1>5, <1>6 DEF StepTyped, DecidedAs

LEMMA ClassifyFailsTyped ==
  ASSUME TypeInv, ClassifyFails
  PROVE  StepTyped /\ DecidedAs(NoAnswer, Fallback(Situation))
<1>1. DecidedAs(NoAnswer, Fallback(Situation))
  BY Constants, FallbackType, DecidedMoves DEF ClassifyFails, TypeInv
<1>2. /\ spent' = spent + 1 /\ logged' \in {logged, logged + 1}
      /\ UNCHANGED faults \/ Fault \/ TwoFaults
  BY CallCosts DEF ClassifyFails, TypeInv
<1>3. CountInv'
  BY <1>2, Bounds DEF TypeInv, CountInv, ClassifyFails, Fault, TwoFaults, bounds
<1>4. ClientInv' /\ LeadInv'
  BY DEF TypeInv, ClientInv, LeadInv, ClassifyFails
<1> QED
  BY <1>1, <1>3, <1>4 DEF StepTyped, DecidedAs

LEMMA RememberTyped ==
  ASSUME TypeInv, Remember
  PROVE  StepTyped
<1>1. TurnInv' /\ turn'.user \in Users
  BY RememberMoves DEF TypeInv, Moved
<1>2. WithQualification(client, turn'.user) \in Users
  BY <1>1, QualificationType DEF TypeInv, ClientInv
<1>3. Writes(WithQualification(client, turn'.user))
  BY DEF Remember
<1>4. ClientInv' /\ (UNCHANGED faults \/ Fault)
  BY <1>2, <1>3, WritesType, CountFaults DEF TypeInv
<1>5. UNCHANGED <<asked, lead, logged, bounds, history>>
  BY DEF Remember
<1>6. CountInv' /\ LeadInv'
  BY <1>4, <1>5, CountKept DEF TypeInv, LeadInv
<1> QED
  BY <1>1, <1>4, <1>6 DEF StepTyped

\* What ApplyAIState writes.
Applied ==
  [client EXCEPT
     !.service = Keep(Learned, @),
     !.language = IF client.locked THEN @ ELSE Keep(turn.answer.language, @)]

LEMMA AppliedType ==
  ASSUME ClientInv, TurnInv
  PROVE  /\ Applied \in Users /\ Applied.phone = client.phone
         /\ client.service # "none" => Applied.service # "none"
         /\ client.language # "none" => Applied.language # "none"
<1> DEFINE v == Keep(Learned, client.service)
<1> DEFINE l == IF client.locked THEN client.language
                ELSE Keep(turn.answer.language, client.language)
<1>1. client \in Users
  BY DEF ClientInv
<1>2. /\ v \in Services /\ l \in Languages \cup {"none"}
      /\ client.service # "none" => v # "none"
      /\ client.language # "none" => l # "none"
  BY <1>1, UserFields, KeepType, LearnedType, AnswerLanguage
<1>3. Applied = [client EXCEPT !.service = v, !.language = l]
  BY <1>1, Zenon DEF Applied, Users
<1> HIDE DEF v, l
<1>4. /\ Applied \in Users /\ Applied.phone = client.phone
      /\ Applied.service = v /\ Applied.language = l
  BY <1>1, <1>2, <1>3, Zenon DEF Users
<1> QED
  BY <1>2, <1>4

LEMMA ApplyTyped ==
  ASSUME TypeInv, ApplyCRMState
  PROVE  /\ StepTyped /\ Writes(Applied)
         /\ \/ Moved("reply") /\ turn.decision.respond = TRUE
            \/ Over /\ turn.decision.respond = FALSE
<1>1. Writes(Applied)
  BY DEF ApplyCRMState, Applied
<1>2. \/ Moved("reply") /\ turn.decision.respond = TRUE
      \/ Over /\ turn.decision.respond = FALSE
  <2>0. turn.decision.respond \in BOOLEAN
    BY Zenon DEF TypeInv, TurnInv, TurnType, Fitting, Decisions
  <2>1. CASE turn.decision.respond
    <3>1. "reply" \in Steps /\ Goto("reply")
      BY <2>1 DEF Steps, ApplyCRMState
    <3>2. turn.decision.respond = TRUE
      BY <2>0, <2>1, Zenon
    <3> QED
      BY <3>1, <3>2, GotoMoves DEF TypeInv
  <2>2. CASE ~turn.decision.respond
    <3>1. turn.decision.respond = FALSE
      BY <2>0, <2>2, Zenon
    <3> QED
      BY <2>2, <3>1, DoneIsOver DEF ApplyCRMState
  <2> QED
    BY <2>1, <2>2
<1>3. ClientInv' /\ (UNCHANGED faults \/ Fault)
  BY <1>1, AppliedType, WritesType, CountFaults DEF TypeInv
<1>4. UNCHANGED <<asked, lead, logged, bounds, history>>
  BY DEF ApplyCRMState
<1>5. CountInv' /\ LeadInv'
  BY <1>3, <1>4, CountKept DEF TypeInv, LeadInv
<1> QED
  BY <1>1, <1>2, <1>3, <1>5 DEF StepTyped, Moved, Over

LEMMA ReplyTyped ==
  ASSUME TypeInv, Reply
  PROVE  StepTyped /\ Moved("state")
<1>1. Moved("state")
  BY GotoMoves DEF Steps, Reply, TypeInv
<1>2. CountInv'
  BY Bounds DEF TypeInv, CountInv, Reply, Logs, Fault, bounds
<1>3. ClientInv' /\ LeadInv'
  BY DEF TypeInv, ClientInv, LeadInv, Reply
<1> QED
  BY <1>1, <1>2, <1>3 DEF StepTyped, Moved

\* A reply is only written and sent for a decision to answer.
ReadyInv == turn.pc \in {"reply", "state"} => turn.decision.respond = TRUE

LEMMA AdvanceTyped ==
  ASSUME TypeInv, ReadyInv, Advance
  PROVE  StepTyped /\ Moved("fact")
<1> DEFINE n == turn.decision.next
<1>1. turn \in TurnType /\ client \in Users /\ "fact" \in Steps
  BY DEF TypeInv, TurnInv, ClientInv, Steps
<1>2. turn.user \in Users /\ n \in States
  <2>1. turn.decision \in Fitting /\ turn.decision.respond = TRUE /\ turn.user \in Users
    BY <1>1 DEF TurnType, ReadyInv, Advance
  <2> QED
    BY <2>1 DEF Fitting
<1> HIDE DEF n
<1>3. [client EXCEPT !.state = n] \in Users /\ [turn.user EXCEPT !.state = n] \in Users
  BY <1>1, <1>2, UserColumns
<1>4. Moved("fact") /\ ClientInv'
  <2>1. CASE Goto("fact") /\ UNCHANGED client
    <3>1. Moved("fact")
      BY <2>1, <1>1, GotoMoves DEF TypeInv
    <3> QED
      BY <3>1, <2>1, <1>1 DEF ClientInv
  <2>2. CASE /\ client' = [client EXCEPT !.state = n]
             /\ turn' = [turn EXCEPT !.pc = "fact", !.user.state = n]
    <3> DEFINE u == [turn.user EXCEPT !.state = n]
    <3>1. turn' = UserTurn(turn, "fact", u)
      BY <1>1, <2>2, Zenon DEF TurnType, UserTurn
    <3> HIDE DEF u
    <3>2. u \in Users
      BY <1>3 DEF u
    <3>3. client' \in Users
      BY <1>3, <2>2
    <3> QED
      BY <1>1, <3>1, <3>2, <3>3, WithUser DEF Moved, TurnInv, ClientInv
  <2> QED
    BY <2>1, <2>2 DEF Advance, n
<1>5. CountInv'
  <2>1. promised' \in BOOLEAN /\ asked' \in BOOLEAN
    BY Zenon DEF TypeInv, CountInv, Advance
  <2>2. UNCHANGED <<logged, turns, edits, spent, questions, alerts>>
    BY DEF Advance, bounds
  <2>3. UNCHANGED faults \/ Fault
    BY Zenon DEF Advance
  <2>4. faults' \in 0 .. MaxFaults
    BY <2>3, FaultType DEF TypeInv, CountInv
  <2> QED
    BY <2>1, <2>2, <2>4 DEF TypeInv, CountInv
<1>6. LeadInv'
  BY DEF TypeInv, LeadInv, Advance
<1> QED
  BY <1>4, <1>5, <1>6 DEF StepTyped, Moved

LEMMA RecordTyped ==
  ASSUME TypeInv, RecordFact
  PROVE  StepTyped /\ Moved("send")
<1>1. Moved("send")
  BY GotoMoves DEF Steps, RecordFact, TypeInv
<1>2. ClientInv' /\ LeadInv'
  BY DEF TypeInv, ClientInv, LeadInv, RecordFact
<1>3. asked' \in BOOLEAN
  BY Zenon DEF TypeInv, CountInv, RecordFact
<1>4. CountInv'
  BY <1>3, Bounds DEF TypeInv, CountInv, RecordFact, Fault, bounds, history
<1> QED
  BY <1>1, <1>2, <1>4 DEF StepTyped, Moved

\* A step that ends the turn, or moves it on, and touches at most the lead.
LEMMA RestTyped ==
  ASSUME TypeInv, UNCHANGED <<client, asked, logged, bounds, history>>,
         UNCHANGED faults \/ Fault, lead' \in LeadType, Over \/ \E step \in Steps : Moved(step)
  PROVE  StepTyped
<1>1. TurnInv'
  BY DEF Over, Moved
<1>2. CountInv'
  BY CountKept DEF TypeInv
<1> QED
  BY <1>1, <1>2 DEF TypeInv, StepTyped, ClientInv, LeadInv

LEMMA SendTyped ==
  ASSUME TypeInv, Send
  PROVE  StepTyped /\ Moved("lead")
<1>1. Moved("lead") /\ "lead" \in Steps
  BY GotoMoves DEF Steps, Send, TypeInv
<1>2. lead' \in LeadType
  BY DEF Send, TypeInv, LeadInv
<1>3. UNCHANGED <<client, asked, logged, bounds, history>> /\ UNCHANGED faults
  BY DEF Send
<1> QED
  BY <1>1, <1>2, <1>3, RestTyped

LEMMA EndTyped ==
  ASSUME TypeInv, SendCut \/ Untracked \/ Crash
  PROVE  StepTyped /\ Over /\ UNCHANGED lead
<1>1. Done /\ (UNCHANGED faults \/ Fault)
      /\ UNCHANGED <<client, asked, lead, logged, bounds, history>>
  BY DEF SendCut, Untracked, Crash
<1>2. lead' \in LeadType
  BY <1>1 DEF TypeInv, LeadInv
<1> QED
  BY <1>1, <1>2, DoneIsOver, RestTyped

LEMMA TrackTyped ==
  ASSUME TypeInv, TrackLead
  PROVE  StepTyped /\ Moved("user") /\ lead'.notified = lead.notified
<1>1. Moved("user") /\ "user" \in Steps
  BY GotoMoves DEF Steps, TrackLead, TypeInv
<1>2. lead' \in LeadType /\ lead'.notified = lead.notified
  BY VerdictType DEF TrackLead, TypeInv
<1>3. UNCHANGED <<client, asked, logged, bounds, history>> /\ UNCHANGED faults
  BY DEF TrackLead
<1> QED
  BY <1>1, <1>2, <1>3, RestTyped

LEMMA TrackFailsTyped ==
  ASSUME TypeInv, TrackFails
  PROVE  StepTyped /\ Over /\ lead'.notified = lead.notified
<1>1. Done /\ Fault /\ UNCHANGED <<client, asked, logged, bounds, history>>
  BY DEF TrackFails
<1>2. lead' \in LeadType /\ lead'.notified = lead.notified
  <2>1. lead' = lead \/ lead' = WithVerdict
    BY DEF TrackFails
  <2> QED
    BY <2>1, VerdictType DEF TypeInv, LeadInv
<1> QED
  BY <1>1, <1>2, DoneIsOver, RestTyped

LEMMA MarkUserTyped ==
  ASSUME TypeInv, MarkUser
  PROVE  /\ StepTyped /\ UNCHANGED lead
         /\ Over \/ (Moved("alert") /\ lead.notified = FALSE)
<1> DEFINE q == (Verdict = "qualified")
<1> DEFINE u == [turn.user EXCEPT !.isLead = q]
<1>1. turn.user \in Users /\ q \in BOOLEAN
  BY DEF TypeInv, TurnInv, TurnType
<1>2. Writes(WithQualification(client, u))
  BY DEF MarkUser
<1> HIDE DEF q
<1>3. u \in Users
  BY <1>1, UserColumns
<1> HIDE DEF u
<1>4. WithQualification(client, u) \in Users
  BY <1>3, QualificationType DEF TypeInv, ClientInv
<1>5. ClientInv' /\ (UNCHANGED faults \/ Fault)
  BY <1>2, <1>4, WritesType, CountFaults DEF TypeInv
<1>6. Over \/ (Moved("alert") /\ lead.notified = FALSE)
  <2>1. CASE NeedsAlert
    <3>1. "alert" \in Steps /\ Goto("alert")
      BY <2>1 DEF Steps, MarkUser
    <3>2. lead.notified = FALSE
      <4>1. lead.notified \in BOOLEAN
        BY Zenon DEF TypeInv, LeadInv, LeadType
      <4> QED
        BY <2>1, <4>1, Zenon DEF NeedsAlert
    <3> QED
      BY <3>1, <3>2, GotoMoves DEF TypeInv
  <2>2. CASE ~NeedsAlert
    <3>1. Done
      BY <2>2, Zenon DEF MarkUser
    <3> QED
      BY <3>1, DoneIsOver
  <2> QED
    BY <2>1, <2>2
<1>7. UNCHANGED <<asked, lead, logged, bounds, history>>
  BY DEF MarkUser
<1>8. CountInv' /\ LeadInv'
  BY <1>5, <1>7, CountKept DEF TypeInv, LeadInv
<1> QED
  BY <1>5, <1>6, <1>7, <1>8 DEF StepTyped, Over, Moved

LEMMA AlertTyped ==
  ASSUME TypeInv, Alert
  PROVE  StepTyped /\ Moved("mark")
<1>1. Moved("mark")
  BY GotoMoves DEF Steps, Alert, TypeInv
<1>2. CountInv'
  BY DEF TypeInv, CountInv, Alert, bounds
<1>3. ClientInv' /\ LeadInv'
  BY DEF TypeInv, ClientInv, LeadInv, Alert
<1> QED
  BY <1>1, <1>2, <1>3 DEF StepTyped, Moved

LEMMA AlertFailsTyped ==
  ASSUME TypeInv, AlertFails
  PROVE  StepTyped /\ Over
<1>1. Over
  BY DoneIsOver DEF AlertFails
<1>2. CountInv'
  BY Bounds DEF TypeInv, CountInv, AlertFails, Fault, bounds
<1>3. ClientInv' /\ LeadInv'
  BY DEF TypeInv, ClientInv, LeadInv, AlertFails
<1> QED
  BY <1>1, <1>2, <1>3 DEF StepTyped, Over

LEMMA MarkNotifiedTyped ==
  ASSUME TypeInv, MarkNotified
  PROVE  /\ StepTyped /\ Over
         /\ \/ lead'.notified = TRUE /\ UNCHANGED faults
            \/ UNCHANGED lead /\ Fault
<1>1. Over /\ UNCHANGED <<client, asked, logged, bounds, history>>
  BY DoneIsOver DEF MarkNotified
<1> DEFINE r == [lead EXCEPT !.notified = TRUE]
<1>2. \/ lead' = r /\ UNCHANGED faults
      \/ UNCHANGED lead /\ Fault
  BY DEF MarkNotified
<1>3. lead \in LeadType
  BY DEF TypeInv, LeadInv
<1>4. r \in LeadType /\ r.notified = TRUE
  BY <1>3, Zenon DEF LeadType
<1> HIDE DEF r
<1>5. lead' \in LeadType /\ (UNCHANGED faults \/ Fault)
  BY <1>2, <1>3, <1>4
<1> QED
  BY <1>1, <1>2, <1>4, <1>5, RestTyped

LEMMA EditTyped ==
  ASSUME TypeInv, NEW e \in Edits, Edit(e)
  PROVE  StepTyped /\ Moved(turn.pc) /\ turn'.asked = turn.asked
<1>1. turn \in TurnType /\ client \in Users
  BY DEF TypeInv, TurnInv, ClientInv
<1>2. Moved(turn.pc) /\ turn'.asked = turn.asked
  <2> DEFINE v == turn.pc # "idle"
  <2>1. turn' = TouchedTurn(turn, v)
    BY Zenon DEF Edit, TouchedTurn
  <2>2. v \in BOOLEAN
    OBVIOUS
  <2> HIDE DEF v
  <2> QED
    BY <1>1, <2>1, <2>2, WithTouched DEF Moved, TurnInv
<1>3. ClientInv'
  <2>1. CASE e.what = "service"
    <3>1. e.to \in Services
      BY <2>1, Bounds
    <3>2. client' = [client EXCEPT !.service = e.to]
      BY <2>1 DEF Edit
    <3> QED
      BY <1>1, <3>1, <3>2, UserColumns DEF ClientInv
  <2>2. CASE e.what # "service"
    <3>1. e.to \in Languages
      BY <2>2, Bounds
    <3>2. client' = [client EXCEPT !.language = e.to, !.locked = TRUE]
      BY <2>2, Zenon DEF Edit
    <3>3. e.to \in Languages \cup {"none"} /\ TRUE \in BOOLEAN
      BY <3>1
    <3>4. client' \in Users
      BY <1>1, <3>2, <3>3, Zenon DEF Users
    <3> QED
      BY <3>4 DEF ClientInv
  <2> QED
    BY <2>1, <2>2
<1>4. CountInv'
  BY Bounds DEF TypeInv, CountInv, Edit, history
<1>5. LeadInv'
  BY DEF TypeInv, LeadInv, Edit
<1> QED
  BY <1>2, <1>3, <1>4, <1>5 DEF StepTyped, Moved

IInv == TypeInv /\ ReadyInv

LEMMA ReadyStep ==
  ASSUME IInv, Next
  PROVE  IInv'
<1> USE DEF ReadyInv
<1>1. TypeInv /\ ReadyInv
  BY DEF IInv
<1>2. StepTyped /\ ReadyInv'
  <2>1. ASSUME NEW m \in Arrivals, Arrive(m) PROVE StepTyped /\ ReadyInv'
    <3>1. turn'.pc = "facts"
      BY <2>1 DEF Arrive, Turn
    <3> QED
      BY <1>1, <2>1, <3>1, ArriveTyped
  <2>2. CASE LoadFacts
    BY <1>1, <2>2, LoadFactsTyped, LoadMoves DEF TypeInv
  <2>3. CASE NotePhone
    BY <1>1, <2>3, NotePhoneTyped, NotePhoneMoves DEF TypeInv
  <2>4. CASE Skip
    <3>1. turn'.pc = "remember"
      BY <1>1, <2>4, DecidedMoves, Constants DEF Skip, TypeInv, DecidedAs
    <3> QED
      BY <1>1, <2>4, <3>1, SkipTyped
  <2>5. ASSUME NEW c \in Answers, Classify(c) PROVE StepTyped /\ ReadyInv'
    BY <1>1, <2>5, ClassifyTyped DEF DecidedAs
  <2>6. CASE ClassifyFails
    BY <1>1, <2>6, ClassifyFailsTyped DEF DecidedAs
  <2>7. CASE Remember
    BY <1>1, <2>7, RememberTyped, RememberMoves DEF Moved, TypeInv
  <2>8. CASE ApplyCRMState
    BY <1>1, <2>8, ApplyTyped DEF Moved, Over
  <2>9. CASE Reply
    BY <1>1, <2>9, ReplyTyped DEF Moved, Reply
  <2>10. CASE Advance
    BY <1>1, <2>10, AdvanceTyped DEF Moved
  <2>11. CASE RecordFact
    BY <1>1, <2>11, RecordTyped DEF Moved
  <2>12. CASE Send
    BY <1>1, <2>12, SendTyped DEF Moved
  <2>13. CASE SendCut \/ Untracked \/ Crash
    BY <1>1, <2>13, EndTyped DEF Over
  <2>14. CASE TrackLead
    BY <1>1, <2>14, TrackTyped DEF Moved
  <2>15. CASE TrackFails
    BY <1>1, <2>15, TrackFailsTyped DEF Over
  <2>16. CASE MarkUser
    BY <1>1, <2>16, MarkUserTyped DEF Over, Moved
  <2>17. CASE Alert
    BY <1>1, <2>17, AlertTyped DEF Moved
  <2>18. CASE AlertFails
    BY <1>1, <2>18, AlertFailsTyped DEF Over
  <2>19. CASE MarkNotified
    BY <1>1, <2>19, MarkNotifiedTyped DEF Over
  <2>20. ASSUME NEW e \in Edits, Edit(e) PROVE StepTyped /\ ReadyInv'
    BY <1>1, <2>20, EditTyped DEF Moved
  <2> QED
    BY <2>1, <2>2, <2>3, <2>4, <2>5, <2>6, <2>7, <2>8, <2>9, <2>10, <2>11, <2>12, <2>13,
       <2>14, <2>15, <2>16, <2>17, <2>18, <2>19, <2>20 DEF Next, Handle
<1> QED
  BY <1>2 DEF IInv, StepTyped, TypeInv

LEMMA Inductive == IInv /\ [Next]_vars => IInv'
<1> SUFFICES ASSUME IInv, [Next]_vars PROVE IInv'
  OBVIOUS
<1>1. CASE Next
  BY <1>1, ReadyStep
<1>2. CASE UNCHANGED vars
  <2>1. UNCHANGED <<client, asked, lead, logged, turn, turns, edits, faults, spent,
                    questions, alerts, promised>>
    BY <1>2 DEF vars
  <2> QED
    BY <2>1 DEF IInv, TypeInv, ReadyInv, ClientInv, LeadInv, TurnInv, CountInv
<1> QED
  BY <1>1, <1>2

LEMMA IInvInit == Init => IInv
<1>1. Init => turn = NoTurn
  BY DEF Init
<1> QED
  BY <1>1, TypeInit, NoTurnType DEF IInv, ReadyInv

LEMMA TypeInvImplies == TypeInv => TypeOK
<1> SUFFICES ASSUME TypeInv PROVE TypeOK
  OBVIOUS
<1>1. TurnType \subseteq [pc: Steps, user: Users, msg: Messages, asked: BOOLEAN,
                          answer: Known, decision: Decisions, touched: BOOLEAN]
  <2>1. Fitting \subseteq Decisions
    BY DEF Fitting
  <2> QED
    BY <2>1, Zenon DEF TurnType
<1>2. turn \in [pc: Steps, user: Users, msg: Messages, asked: BOOLEAN,
                answer: Known, decision: Decisions, touched: BOOLEAN]
  BY <1>1 DEF TypeInv, TurnInv
<1>3. client \in Users /\ lead \in LeadType
  BY DEF TypeInv, ClientInv, LeadInv
<1>4. CountInv
  BY DEF TypeInv
<1> QED
  BY <1>2, <1>3, <1>4, Zenon DEF TypeOK, CountInv, LeadType, Steps, Known

\* Whatever statements fail and whenever the process dies, every row and every
\* local of a turn stays what its columns allow, and a turn that gets to write a
\* reply has decided to answer and on a state to go on in.
THEOREM TypeCorrect == Spec => [](TypeOK /\ ReadyInv)
<1>1. Spec => []IInv
  BY IInvInit, Inductive, PTL DEF Spec
<1>2. IInv => TypeOK /\ ReadyInv
  BY TypeInvImplies DEF IInv
<1> QED
  BY <1>1, <1>2, PTL

-----------------------------------------------------------------------------
(* One alert a lead *)

\* The turn that alerts found the lead unmarked, and no alert but its own goes
\* uncounted: each is marked, about to be marked, or paid for by a fault.
AlertInv ==
  /\ turn.pc \in {"alert", "mark"} => lead.notified = FALSE
  /\ alerts <= faults + (IF lead.notified = TRUE \/ turn.pc = "mark" THEN 1 ELSE 0)

\* The steps that have nothing to do with alerts.
LEMMA AlertKept ==
  ASSUME TypeInv, AlertInv, turn.pc # "mark", turn'.pc \notin {"alert", "mark"},
         UNCHANGED alerts, UNCHANGED faults \/ Fault \/ TwoFaults,
         lead'.notified = lead.notified
  PROVE  AlertInv'
  BY DEF TypeInv, CountInv, AlertInv, Fault, TwoFaults

LEMMA AlertStep ==
  ASSUME IInv, AlertInv, Next
  PROVE  AlertInv'
<1>1. TypeInv /\ ReadyInv
  BY DEF IInv
<1>2. ASSUME NEW m \in Arrivals, Arrive(m) PROVE AlertInv'
  <2>1. turn'.pc = "facts" /\ turn.pc = "idle"
    BY <1>2 DEF Arrive, Turn
  <2>2. UNCHANGED <<alerts, faults, lead>>
    BY <1>2 DEF Arrive, history
  <2> QED
    BY <1>1, <2>1, <2>2, AlertKept
<1>3. CASE LoadFacts
  <2>1. turn'.pc = "phone" /\ turn.pc = "facts" /\ (UNCHANGED faults \/ Fault)
    BY <1>1, <1>3, LoadMoves DEF TypeInv, LoadFacts
  <2>2. UNCHANGED <<alerts, lead>>
    BY <1>3 DEF LoadFacts, history
  <2> QED
    BY <1>1, <2>1, <2>2, AlertKept
<1>4. CASE NotePhone
  <2>1. turn'.pc = "gate" /\ turn.pc = "phone"
    BY <1>1, <1>4, NotePhoneMoves DEF TypeInv, NotePhone
  <2>2. UNCHANGED <<alerts, lead>>
    BY <1>4 DEF NotePhone, history
  <2>3. UNCHANGED faults \/ Fault
    BY <1>4 DEF NotePhone, Writes
  <2> QED
    BY <1>1, <2>1, <2>2, <2>3, AlertKept
<1>5. CASE Skip
  <2>1. turn'.pc = "remember" /\ turn.pc = "gate"
    BY <1>1, <1>5, DecidedMoves, Constants DEF Skip, TypeInv, DecidedAs
  <2>2. UNCHANGED <<alerts, lead, faults>>
    BY <1>5 DEF Skip, history
  <2> QED
    BY <1>1, <2>1, <2>2, AlertKept
<1>6. ASSUME NEW c \in Answers, Classify(c) PROVE AlertInv'
  <2>1. turn'.pc = "remember" /\ turn.pc = "gate"
    BY <1>1, <1>6, ClassifyTyped DEF DecidedAs, Classify
  <2>2. UNCHANGED <<alerts, lead>> /\ (UNCHANGED faults \/ Fault \/ TwoFaults)
    BY <1>1, <1>6, CallCosts DEF Classify, TypeInv
  <2> QED
    BY <1>1, <2>1, <2>2, AlertKept
<1>7. CASE ClassifyFails
  <2>1. turn'.pc = "remember" /\ turn.pc = "gate"
    BY <1>1, <1>7, ClassifyFailsTyped DEF DecidedAs, ClassifyFails
  <2>2. UNCHANGED <<alerts, lead>> /\ (UNCHANGED faults \/ Fault \/ TwoFaults)
    BY <1>1, <1>7, CallCosts DEF ClassifyFails, TypeInv
  <2> QED
    BY <1>1, <2>1, <2>2, AlertKept
<1>8. CASE Remember
  <2>1. turn'.pc = "crm" /\ turn.pc = "remember"
    BY <1>1, <1>8, RememberMoves DEF Moved, TypeInv, Remember
  <2>2. UNCHANGED <<alerts, lead>> /\ (UNCHANGED faults \/ Fault)
    BY <1>8 DEF Remember, Writes, history
  <2> QED
    BY <1>1, <2>1, <2>2, AlertKept
<1>9. CASE ApplyCRMState
  <2>1. turn'.pc \in {"reply", "idle"} /\ turn.pc = "crm"
    BY <1>1, <1>9, ApplyTyped DEF Moved, Over, ApplyCRMState
  <2>2. UNCHANGED <<alerts, lead>>
    BY <1>9 DEF ApplyCRMState, history
  <2>3. UNCHANGED faults \/ Fault
    BY <1>1, <1>9, ApplyTyped, AppliedType, CountFaults
  <2> QED
    BY <1>1, <2>1, <2>2, <2>3, AlertKept
<1>10. CASE Reply
  <2>1. turn'.pc = "state" /\ turn.pc = "reply"
    BY <1>1, <1>10, ReplyTyped DEF Moved, Reply
  <2>2. UNCHANGED <<alerts, lead>> /\ (UNCHANGED faults \/ Fault)
    BY <1>10 DEF Reply, Logs
  <2> QED
    BY <1>1, <2>1, <2>2, AlertKept
<1>11. CASE Advance
  <2>1. turn'.pc = "fact" /\ turn.pc = "state"
    BY <1>1, <1>11, AdvanceTyped DEF Moved, Advance
  <2>2. UNCHANGED <<alerts, lead>>
    BY <1>11 DEF Advance
  <2>3. UNCHANGED faults \/ Fault
    BY <1>11, Zenon DEF Advance
  <2> QED
    BY <1>1, <2>1, <2>2, <2>3, AlertKept
<1>12. CASE RecordFact
  <2>1. turn'.pc = "send" /\ turn.pc = "fact"
    BY <1>1, <1>12, RecordTyped DEF Moved, RecordFact
  <2>2. UNCHANGED <<alerts, lead>>
    BY <1>12 DEF RecordFact, history
  <2>3. UNCHANGED faults \/ Fault
    BY <1>12, Zenon DEF RecordFact
  <2> QED
    BY <1>1, <2>1, <2>2, <2>3, AlertKept
<1>13. CASE Send
  <2>1. turn'.pc = "lead" /\ turn.pc = "send"
    BY <1>1, <1>13, SendTyped DEF Moved, Send
  <2>2. UNCHANGED <<alerts, lead, faults>>
    BY <1>13 DEF Send, history
  <2> QED
    BY <1>1, <2>1, <2>2, AlertKept
<1>14. CASE SendCut \/ Untracked \/ Crash
  <2>1. turn'.pc = "idle" /\ UNCHANGED lead
    BY <1>1, <1>14, EndTyped DEF Over
  <2>2. UNCHANGED alerts /\ (UNCHANGED faults \/ Fault)
    BY <1>14 DEF SendCut, Untracked, Crash, history
  <2>3. turn.pc # "mark" \/ Fault
    BY <1>14 DEF SendCut, Untracked, Crash
  <2>4. CASE turn.pc # "mark"
    BY <1>1, <2>1, <2>2, <2>4, AlertKept
  <2>5. CASE Fault
    BY <1>1, <2>1, <2>2, <2>5 DEF TypeInv, CountInv, AlertInv, Fault
  <2> QED
    BY <2>3, <2>4, <2>5
<1>15. CASE TrackLead
  <2>1. turn'.pc = "user" /\ turn.pc = "lead" /\ lead'.notified = lead.notified
    BY <1>1, <1>15, TrackTyped DEF Moved, TrackLead
  <2>2. UNCHANGED <<alerts, faults>>
    BY <1>15 DEF TrackLead, history
  <2> QED
    BY <1>1, <2>1, <2>2, AlertKept
<1>16. CASE TrackFails
  <2>1. turn'.pc = "idle" /\ turn.pc = "lead" /\ lead'.notified = lead.notified
    BY <1>1, <1>16, TrackFailsTyped DEF Over, TrackFails
  <2>2. UNCHANGED alerts /\ Fault
    BY <1>16 DEF TrackFails, history
  <2> QED
    BY <1>1, <2>1, <2>2, AlertKept
<1>17. CASE MarkUser
  <2>1. /\ turn'.pc = "idle" \/ (turn'.pc = "alert" /\ lead.notified = FALSE)
        /\ turn.pc = "user" /\ UNCHANGED lead
    BY <1>1, <1>17, MarkUserTyped DEF Over, Moved, MarkUser
  <2>2. UNCHANGED alerts /\ (UNCHANGED faults \/ Fault)
    BY <1>17 DEF MarkUser, Writes, history
  <2> QED
    BY <1>1, <2>1, <2>2 DEF TypeInv, CountInv, AlertInv, Fault
<1>18. CASE Alert
  <2>1. turn'.pc = "mark" /\ turn.pc = "alert"
    BY <1>1, <1>18, AlertTyped DEF Moved, Alert
  <2>2. alerts' = alerts + 1 /\ UNCHANGED <<lead, faults>>
    BY <1>18 DEF Alert
  <2> QED
    BY <1>1, <2>1, <2>2 DEF TypeInv, CountInv, AlertInv
<1>19. CASE AlertFails
  <2>1. turn'.pc = "idle" /\ turn.pc = "alert"
    BY <1>1, <1>19, AlertFailsTyped DEF Over, AlertFails
  <2>2. alerts' \in {alerts, alerts + 1} /\ UNCHANGED lead /\ Fault
    BY <1>19 DEF AlertFails
  <2> QED
    BY <1>1, <2>1, <2>2 DEF TypeInv, CountInv, AlertInv, Fault
<1>20. CASE MarkNotified
  <2>1. /\ turn'.pc = "idle" /\ turn.pc = "mark"
        /\ \/ lead'.notified = TRUE /\ UNCHANGED faults
           \/ UNCHANGED lead /\ Fault
    BY <1>1, <1>20, MarkNotifiedTyped DEF Over, MarkNotified
  <2>2. UNCHANGED alerts
    BY <1>20 DEF MarkNotified, history
  <2> QED
    BY <1>1, <2>1, <2>2 DEF TypeInv, CountInv, AlertInv, Fault
<1>21. ASSUME NEW e \in Edits, Edit(e) PROVE AlertInv'
  <2>1. turn'.pc = turn.pc
    BY <1>1, <1>21, EditTyped DEF Moved
  <2>2. UNCHANGED <<alerts, lead, faults>>
    BY <1>21 DEF Edit, history
  <2> QED
    BY <2>1, <2>2 DEF AlertInv
<1> QED
  BY <1>2, <1>3, <1>4, <1>5, <1>6, <1>7, <1>8, <1>9, <1>10, <1>11, <1>12, <1>13, <1>14,
     <1>15, <1>16, <1>17, <1>18, <1>19, <1>20, <1>21 DEF Next, Handle

LEMMA AlertInit == Init => AlertInv
<1> SUFFICES ASSUME Init PROVE AlertInv
  OBVIOUS
<1>1. turn.pc = "idle" /\ alerts = 0 /\ faults = 0
  BY NoTurnType DEF Init
<1> QED
  BY <1>1 DEF AlertInv

LEMMA AlertInductive == IInv /\ AlertInv /\ [Next]_vars => AlertInv'
<1>1. ASSUME AlertInv, UNCHANGED vars PROVE AlertInv'
  <2>1. UNCHANGED <<turn, lead, alerts, faults>>
    BY <1>1 DEF vars
  <2> QED
    BY <2>1, <1>1 DEF AlertInv
<1> QED
  BY <1>1, AlertStep

\* However many messages, edits and answers: Diana is alerted once, and once more
\* only for each lost answer, failed mark or crash.
THEOREM DianaAlertedOnce == Spec => []AlertedOnce
<1>1. IInv /\ AlertInv => AlertedOnce
  BY DEF IInv, TypeInv, CountInv, AlertInv, AlertedOnce
<1> QED
  BY IInvInit, Inductive, AlertInit, AlertInductive, <1>1, PTL DEF Spec

-----------------------------------------------------------------------------
(* The budget *)

\* A turn the model has answered has its second call before it.
Pending == turn.pc \in {"remember", "crm", "reply"} /\ turn.answer # NoAnswer

\* A call without a row is paid for by a fault, and the call a turn still has to
\* make fits.
BudgetInv ==
  /\ spent <= logged + faults
  /\ MaxCalls > 0 => spent + (IF Pending THEN 1 ELSE 0) <= MaxCalls + 1 + 2 * faults

LEMMA BudgetKept ==
  ASSUME TypeInv, BudgetInv, UNCHANGED <<spent, logged>>, UNCHANGED faults \/ Fault,
         Pending' => Pending
  PROVE  BudgetInv'
<1> HIDE DEF Pending
<1> QED
  BY Bounds DEF TypeInv, CountInv, BudgetInv, Fault

LEMMA BudgetStep ==
  ASSUME IInv, BudgetInv, Next
  PROVE  BudgetInv'
<1>1. TypeInv /\ ReadyInv /\ CountInv
  BY DEF IInv, TypeInv
<1>2. CASE ClassifyFails \/ \E c \in Answers : Classify(c)
  <2>1. turn.pc = "gate" /\ CallModel
    BY <1>2 DEF Classify, ClassifyFails
  <2>2. /\ spent' = spent + 1 /\ logged' \in {logged, logged + 1}
        /\ UNCHANGED faults \/ Fault \/ TwoFaults
        /\ spent <= logged + faults => spent' <= logged' + faults'
        /\ UNCHANGED faults \/ logged' = logged => \/ MaxCalls = 0 \/ logged < MaxCalls
                                                   \/ TwoFaults
    BY <1>1, <2>1, CallCosts
  <2>3. ~Pending
    BY <2>1 DEF Pending
  <2>4. /\ spent \in Nat /\ logged \in Nat /\ faults \in Nat /\ MaxCalls \in Nat
        /\ spent <= logged + faults
        /\ MaxCalls > 0 => spent <= MaxCalls + 1 + 2 * faults
    BY <1>1, <2>3, Bounds DEF CountInv, BudgetInv
  <2>5. \/ faults' = faults \/ faults' = faults + 1 \/ faults' = faults + 2
    BY <2>2 DEF Fault, TwoFaults
  <2>6. faults' = faults => MaxCalls = 0 \/ logged < MaxCalls
    BY <2>2, <2>4 DEF TwoFaults
  <2>7. MaxCalls > 0 => spent' + 1 <= MaxCalls + 1 + 2 * faults'
    BY <2>2, <2>4, <2>5, <2>6
  <2> QED
    BY <2>2, <2>4, <2>5, <2>7 DEF BudgetInv
<1>3. CASE Reply
  <2>1. /\ turn'.pc = "state" /\ turn.pc = "reply"
        /\ \/ /\ turn.answer # NoAnswer /\ spent' = spent + 1
              /\ \/ logged' = logged + 1 /\ UNCHANGED faults
                 \/ UNCHANGED logged /\ faults' = faults + 1
           \/ turn.answer = NoAnswer /\ UNCHANGED <<spent, logged, faults>>
    BY <1>1, <1>3, ReplyTyped DEF Moved, Reply, Logs, Fault
  <2> QED
    BY <1>1, <2>1, Bounds DEF TypeInv, CountInv, BudgetInv, Pending
<1>4. CASE Skip
  <2>1. turn'.answer = NoAnswer
    BY <1>1, <1>4, DecidedMoves, Constants DEF Skip, TypeInv, DecidedAs
  <2>2. UNCHANGED <<spent, logged, faults>>
    BY <1>4 DEF Skip, history
  <2> QED
    BY <1>1, <2>1, <2>2, BudgetKept DEF Pending
<1>5. CASE Remember
  <2>1. turn'.answer = turn.answer /\ turn.pc = "remember"
    BY <1>1, <1>5, RememberMoves DEF Moved, TypeInv, Remember
  <2>2. UNCHANGED <<spent, logged>> /\ (UNCHANGED faults \/ Fault)
    BY <1>5 DEF Remember, Writes, history
  <2> QED
    BY <1>1, <2>1, <2>2, BudgetKept DEF Pending
<1>6. CASE ApplyCRMState
  <2>1. turn.pc = "crm" /\ (turn'.pc = "idle" \/ turn'.answer = turn.answer)
    BY <1>1, <1>6, ApplyTyped DEF Moved, Over, ApplyCRMState
  <2>2. UNCHANGED <<spent, logged>>
    BY <1>6 DEF ApplyCRMState, history
  <2>3. UNCHANGED faults \/ Fault
    BY <1>1, <1>6, ApplyTyped, AppliedType, CountFaults
  <2> QED
    BY <1>1, <2>1, <2>2, <2>3, BudgetKept DEF Pending
<1>7. ASSUME NEW e \in Edits, Edit(e) PROVE BudgetInv'
  <2>1. turn'.pc = turn.pc /\ turn'.answer = turn.answer
    BY <1>1, <1>7, EditTyped DEF Moved
  <2>2. UNCHANGED <<spent, logged, faults>>
    BY <1>7 DEF Edit, history
  <2> QED
    BY <1>1, <2>1, <2>2, BudgetKept DEF Pending
<1>8. CASE \/ \E m \in Arrivals : Arrive(m)
           \/ LoadFacts \/ NotePhone \/ SendCut \/ Untracked \/ Crash
           \/ Advance \/ RecordFact \/ Send \/ TrackLead \/ TrackFails \/ MarkUser
           \/ Alert \/ AlertFails \/ MarkNotified
  <2>1. turn'.pc \notin {"remember", "crm", "reply"}
    <3>1. ASSUME NEW m \in Arrivals, Arrive(m) PROVE turn'.pc = "facts"
      BY <3>1 DEF Arrive, Turn
    <3>2. CASE LoadFacts
      BY <1>1, <3>2, LoadMoves DEF TypeInv
    <3>3. CASE NotePhone
      BY <1>1, <3>3, NotePhoneMoves DEF TypeInv
    <3>4. CASE SendCut \/ Untracked \/ Crash
      BY <1>1, <3>4, EndTyped DEF Over
    <3>5. CASE Advance \/ RecordFact \/ Send \/ TrackLead
      BY <1>1, <3>5, AdvanceTyped, RecordTyped, SendTyped, TrackTyped DEF Moved
    <3>6. CASE TrackFails \/ MarkUser
      BY <1>1, <3>6, TrackFailsTyped, MarkUserTyped DEF Moved, Over
    <3>7. CASE Alert \/ AlertFails \/ MarkNotified
      BY <1>1, <3>7, AlertTyped, AlertFailsTyped, MarkNotifiedTyped DEF Moved, Over
    <3> QED
      BY <1>8, <3>1, <3>2, <3>3, <3>4, <3>5, <3>6, <3>7
  <2>2. UNCHANGED <<spent, logged>>
    BY <1>8 DEF Arrive, LoadFacts, NotePhone, SendCut, Untracked, Crash, Advance, RecordFact,
       Send, TrackLead, TrackFails, MarkUser, Alert, AlertFails, MarkNotified, history
  <2>3. UNCHANGED faults \/ Fault
    BY <1>8, Zenon DEF Arrive, LoadFacts, NotePhone, SendCut, Untracked, Crash, Advance,
       RecordFact, Send, TrackLead, TrackFails, MarkUser, Alert, AlertFails, MarkNotified,
       Writes, Fault
  <2> QED
    BY <1>1, <2>1, <2>2, <2>3, BudgetKept DEF Pending
<1> QED
  BY <1>2, <1>3, <1>4, <1>5, <1>6, <1>7, <1>8 DEF Next, Handle

\* For any cap: the calls of the model exceed it by one at most, and by two more for
\* each fault (calls that could not be counted, a call whose row could not be written,
\* a crash).
THEOREM TheCapHolds == Spec => []BudgetHolds
<1>1. Init => BudgetInv
  <2> SUFFICES ASSUME Init PROVE BudgetInv
    OBVIOUS
  <2>1. turn.pc = "idle" /\ spent = 0 /\ logged = 0 /\ faults = 0
    BY NoTurnType DEF Init
  <2> QED
    BY <2>1, Bounds DEF BudgetInv, Pending
<1>2. IInv /\ BudgetInv /\ [Next]_vars => BudgetInv'
  <2>1. ASSUME BudgetInv, UNCHANGED vars PROVE BudgetInv'
    <3>1. UNCHANGED <<turn, spent, logged, faults>>
      BY <2>1 DEF vars
    <3> QED
      BY <3>1, <2>1 DEF BudgetInv, Pending
  <2> QED
    BY <2>1, BudgetStep
<1>3. IInv /\ BudgetInv => BudgetHolds
  BY Bounds DEF IInv, TypeInv, CountInv, BudgetInv, BudgetHolds
<1> QED
  BY IInvInit, Inductive, <1>1, <1>2, <1>3, PTL DEF Spec

-----------------------------------------------------------------------------
(* One question *)

\* The question is decided on and not yet remembered.
Asking ==
  /\ turn.pc \in {"remember", "crm", "reply", "state", "fact"}
  /\ turn.decision.action = "clarify" /\ turn.decision.respond = TRUE

\* The question that was put is remembered, about to be, or paid for by a fault;
\* and a turn that believes it was never put is right, but for the faults.
AskInv ==
  /\ questions <= faults + (IF asked = TRUE \/ Asking THEN 1 ELSE 0)
  /\ turn.pc \in {"phone", "gate"} /\ turn.asked = FALSE => questions <= faults

LEMMA AskKept ==
  ASSUME TypeInv, AskInv, UNCHANGED questions, UNCHANGED faults \/ Fault \/ TwoFaults,
         asked = TRUE \/ Asking => asked' = TRUE \/ Asking' \/ Fault,
         turn'.pc \in {"phone", "gate"} =>
           turn.pc \in {"phone", "gate"} /\ turn'.asked = turn.asked
  PROVE  AskInv'
<1> HIDE DEF Asking
<1>1. questions \in Nat /\ faults \in Nat
  BY Bounds DEF TypeInv, CountInv
<1>2. faults' = faults \/ faults' = faults + 1 \/ faults' = faults + 2
  BY DEF Fault, TwoFaults
<1> QED
  BY <1>1, <1>2 DEF AskInv, Fault

\* The question about a concrete service is only put by a turn that believes it
\* was not put before, and as a clarifying reply.
LEMMA QuestionClarifies ==
  ASSUME NEW s, NEW c, IsQuestion(s, c), ServiceOf(s, c) \in Services, s.asked \in BOOLEAN
  PROVE  /\ s.asked = FALSE
         /\ ShouldRespond(s, c).action = "clarify" /\ ShouldRespond(s, c).respond = TRUE
<1>1. s.asked = FALSE
  BY Zenon DEF IsQuestion, Asks
<1>2. ShouldRespond(s, c) = Decision("clarify", ServiceOf(s, c), "qualifying")
  BY Zenon DEF IsQuestion, ShouldRespond, ForService
<1> QED
  BY <1>1, <1>2 DEF Decision

LEMMA AskStep ==
  ASSUME IInv, AskInv, Next
  PROVE  AskInv'
<1>1. TypeInv /\ ReadyInv /\ CountInv /\ TurnInv
  BY DEF IInv, TypeInv
<1>2. ASSUME NEW c \in Answers, Classify(c) PROVE AskInv'
  <2>1. /\ turn.pc = "gate" /\ turn'.pc = "remember"
        /\ turn'.decision = ShouldRespond(Situation, c)
    BY <1>1, <1>2, ClassifyTyped DEF Classify, DecidedAs
  <2>2. UNCHANGED asked /\ (UNCHANGED faults \/ Fault \/ TwoFaults)
    BY <1>1, <1>2, CallCosts DEF Classify
  <2>3. CASE IsQuestion(Situation, c)
    <3>1. questions' = questions + 1
      BY <1>2, <2>3 DEF Classify
    <3>2. turn.asked \in BOOLEAN
      BY <1>1, Zenon DEF TurnInv, TurnType
    <3>3. c \in Known
      BY Bounds DEF Known
    <3>4. ServiceOf(Situation, c) \in Services
      BY <1>1, <3>3, SituationType, ServiceOfType
    <3>5. Situation.asked = turn.asked
      BY <1>1, SituationType
    <3>6. turn.asked = FALSE /\ Asking'
      BY <2>1, <2>3, <3>2, <3>4, <3>5, QuestionClarifies DEF Asking
    <3> HIDE DEF Asking
    <3> QED
      BY <1>1, <2>1, <2>2, <3>1, <3>6, Bounds DEF CountInv, AskInv, Fault, TwoFaults
  <2>4. CASE ~IsQuestion(Situation, c)
    <3>1. UNCHANGED questions
      BY <1>1, <1>2, <2>4 DEF Classify, CountInv
    <3> QED
      BY <1>1, <2>1, <2>2, <3>1, AskKept DEF Asking
  <2> QED
    BY <2>3, <2>4
<1>3. CASE LoadFacts
  <2>1. /\ turn.pc = "facts" /\ turn'.pc = "phone"
        /\ \/ turn'.asked = asked /\ UNCHANGED faults
           \/ turn'.asked = FALSE /\ Fault
    BY <1>1, <1>3, LoadMoves DEF LoadFacts
  <2>2. UNCHANGED <<asked, questions>>
    BY <1>3 DEF LoadFacts, history
  <2> QED
    BY <1>1, <2>1, <2>2, Bounds DEF CountInv, AskInv, Asking, Fault
<1>4. CASE RecordFact
  <2>1. turn'.pc = "send" /\ turn.pc = "fact" /\ UNCHANGED questions
    BY <1>1, <1>4, RecordTyped DEF Moved, RecordFact, history
  <2>2. \/ asked' = (asked \/ turn.decision.action = "clarify") /\ UNCHANGED faults
        \/ UNCHANGED asked /\ Fault
    BY <1>4, Zenon DEF RecordFact
  <2>3. asked = TRUE \/ Asking => asked' = TRUE \/ Fault
    BY <2>2, Zenon DEF Asking
  <2> QED
    BY <1>1, <2>1, <2>2, <2>3, AskKept
<1>5. CASE ApplyCRMState
  <2>1. /\ turn.pc = "crm"
        /\ \/ turn'.pc = "reply" /\ turn'.decision = turn.decision
           \/ turn'.pc = "idle" /\ turn.decision.respond = FALSE
    BY <1>1, <1>5, ApplyTyped DEF Moved, Over, ApplyCRMState
  <2>2. UNCHANGED <<asked, questions>>
    BY <1>5 DEF ApplyCRMState, history
  <2>3. UNCHANGED faults \/ Fault
    BY <1>1, <1>5, ApplyTyped, AppliedType, CountFaults
  <2> QED
    BY <1>1, <2>1, <2>2, <2>3, AskKept DEF Asking
<1>6. CASE Remember \/ Reply \/ Advance
  <2>1. \/ turn.pc = "remember" /\ turn'.pc = "crm"
        \/ turn.pc = "reply" /\ turn'.pc = "state"
        \/ turn.pc = "state" /\ turn'.pc = "fact"
    BY <1>1, <1>6, RememberMoves, ReplyTyped, AdvanceTyped DEF Moved, Remember, Reply, Advance
  <2>2. turn'.decision = turn.decision
    BY <1>1, <1>6, RememberMoves, ReplyTyped, AdvanceTyped DEF Moved
  <2>3. UNCHANGED <<asked, questions>>
    BY <1>6 DEF Remember, Reply, Advance, history
  <2>4. UNCHANGED faults \/ Fault
    BY <1>6, Zenon DEF Remember, Reply, Logs, Advance, Writes
  <2> QED
    BY <1>1, <2>1, <2>2, <2>3, <2>4, AskKept DEF Asking
<1>7. CASE NotePhone
  <2>1. turn.pc = "phone" /\ turn'.pc = "gate" /\ turn'.asked = turn.asked
    BY <1>1, <1>7, NotePhoneMoves DEF NotePhone
  <2>2. UNCHANGED <<asked, questions>> /\ (UNCHANGED faults \/ Fault)
    BY <1>7 DEF NotePhone, Writes, history
  <2> QED
    BY <1>1, <2>1, <2>2, AskKept DEF Asking
<1>8. ASSUME NEW e \in Edits, Edit(e) PROVE AskInv'
  <2>1. /\ turn'.pc = turn.pc /\ turn'.asked = turn.asked
        /\ turn'.decision = turn.decision
    BY <1>1, <1>8, EditTyped DEF Moved
  <2>2. UNCHANGED <<asked, questions, faults>>
    BY <1>8 DEF Edit, history
  <2> QED
    BY <1>1, <2>1, <2>2, AskKept DEF Asking
<1>9. CASE Crash
  <2>1. turn'.pc = "idle" /\ UNCHANGED questions /\ Fault
    BY <1>1, <1>9, EndTyped DEF Over, Crash, history
  <2> QED
    BY <1>1, <2>1, AskKept
<1>10. CASE \/ \E m \in Arrivals : Arrive(m)
            \/ Skip \/ ClassifyFails \/ SendCut \/ Untracked
            \/ Send \/ TrackLead \/ TrackFails \/ MarkUser
            \/ Alert \/ AlertFails \/ MarkNotified
  <2>1. turn'.pc \notin {"phone", "gate"}
    <3>1. ASSUME NEW m \in Arrivals, Arrive(m) PROVE turn'.pc = "facts"
      BY <3>1 DEF Arrive, Turn
    <3>2. CASE Skip
      BY <1>1, <3>2, DecidedMoves, Constants DEF Skip, DecidedAs
    <3>3. CASE ClassifyFails
      BY <1>1, <3>3, ClassifyFailsTyped DEF DecidedAs
    <3>4. CASE SendCut \/ Untracked
      BY <1>1, <3>4, EndTyped DEF Over
    <3>5. CASE Send \/ TrackLead
      BY <1>1, <3>5, SendTyped, TrackTyped DEF Moved
    <3>6. CASE TrackFails \/ MarkUser
      BY <1>1, <3>6, TrackFailsTyped, MarkUserTyped DEF Moved, Over
    <3>7. CASE Alert \/ AlertFails \/ MarkNotified
      BY <1>1, <3>7, AlertTyped, AlertFailsTyped, MarkNotifiedTyped DEF Moved, Over
    <3> QED
      BY <1>10, <3>1, <3>2, <3>3, <3>4, <3>5, <3>6, <3>7
  <2>2. turn.pc \in {"idle", "gate", "send", "lead", "user", "alert", "mark"}
    BY <1>10 DEF Arrive, Skip, ClassifyFails, SendCut, Untracked, Send, TrackLead, TrackFails,
       MarkUser, Alert, AlertFails, MarkNotified
  <2>3. UNCHANGED <<asked, questions>>
    BY <1>10 DEF Arrive, Skip, ClassifyFails, SendCut, Untracked, Send, TrackLead, TrackFails,
       MarkUser, Alert, AlertFails, MarkNotified, history
  <2>4. UNCHANGED faults \/ Fault \/ TwoFaults
    <3>1. CASE ClassifyFails
      BY <1>1, <3>1, CallCosts DEF ClassifyFails
    <3>2. CASE ~ClassifyFails
      BY <1>10, <3>2, Zenon DEF Arrive, Skip, SendCut, Untracked, Send, TrackLead, TrackFails,
         MarkUser, Alert, AlertFails, MarkNotified, Writes, Fault
    <3> QED
      BY <3>1, <3>2
  <2> QED
    BY <1>1, <2>1, <2>2, <2>3, <2>4, AskKept DEF Asking
<1> QED
  BY <1>2, <1>3, <1>4, <1>5, <1>6, <1>7, <1>8, <1>9, <1>10 DEF Next, Handle

\* However the service, the state and the phone number change: the question about
\* a concrete service is put once, and once more only for a fault.
THEOREM ClientAskedOnce == Spec => []ServiceAskedOnce
<1>1. Init => AskInv
  <2> SUFFICES ASSUME Init PROVE AskInv
    OBVIOUS
  <2>1. turn.pc = "idle" /\ questions = 0 /\ faults = 0
    BY NoTurnType DEF Init
  <2> QED
    BY <2>1 DEF AskInv
<1>2. IInv /\ AskInv /\ [Next]_vars => AskInv'
  <2>1. ASSUME AskInv, UNCHANGED vars PROVE AskInv'
    <3>1. UNCHANGED <<turn, asked, questions, faults>>
      BY <2>1 DEF vars
    <3> QED
      BY <3>1, <2>1 DEF AskInv, Asking
  <2> QED
    BY <2>1, AskStep
<1>3. IInv /\ AskInv => ServiceAskedOnce
  <2> HIDE DEF Asking
  <2> QED
    BY Bounds DEF IInv, TypeInv, CountInv, AskInv, ServiceAskedOnce
<1> QED
  BY IInvInit, Inductive, <1>1, <1>2, <1>3, PTL DEF Spec

-----------------------------------------------------------------------------
(* What is known stays known *)

\* Between turns nothing of the last one is left.
IdleInv == turn.pc = "idle" => turn = NoTurn

LEMMA TouchedAgain ==
  ASSUME NEW t \in TurnType, t.touched = TRUE
  PROVE  TouchedTurn(t, TRUE) = t
  BY Zenon DEF TouchedTurn, TurnType

LEMMA UntouchedAgain ==
  ASSUME NEW t \in TurnType, t.touched = FALSE
  PROVE  TouchedTurn(t, FALSE) = t
  BY Zenon DEF TouchedTurn, TurnType

LEMMA UntouchedIdle == TouchedTurn(NoTurn, FALSE) = NoTurn
<1>1. NoTurn.touched = FALSE
  BY DEF NoTurn, Turn
<1> QED
  BY <1>1, NoTurnType, UntouchedAgain

LEMMA EditTouches ==
  ASSUME TypeInv, IdleInv, NEW e \in Edits, Edit(e)
  PROVE  IF turn.pc = "idle" THEN turn' = turn
         ELSE turn'.touched = TRUE /\ (turn.touched = TRUE => turn' = turn)
<1>1. turn \in TurnType
  BY DEF TypeInv, TurnInv
<1>2. CASE turn.pc = "idle"
  <2>1. turn' = TouchedTurn(turn, turn.pc # "idle")
    BY Zenon DEF Edit, TouchedTurn
  <2>2. (turn.pc # "idle") = FALSE
    BY <1>2
  <2> QED
    BY <1>2, <2>1, <2>2, UntouchedIdle DEF IdleInv
<1>3. CASE turn.pc # "idle"
  <2>1. turn' = TouchedTurn(turn, turn.pc # "idle")
    BY Zenon DEF Edit, TouchedTurn
  <2>2. (turn.pc # "idle") = TRUE
    BY <1>3
  <2>3. turn' = TouchedTurn(turn, TRUE)
    BY <2>1, <2>2
  <2>4. TouchedTurn(turn, TRUE).touched = TRUE
    BY <1>1, Zenon DEF TouchedTurn, TurnType
  <2> QED
    BY <1>1, <1>3, <2>3, <2>4, TouchedAgain
<1> QED
  BY <1>2, <1>3

LEMMA IdleStep ==
  ASSUME IInv, IdleInv, Next
  PROVE  IdleInv'
<1>1. TypeInv /\ ReadyInv
  BY DEF IInv
<1>2. ASSUME NEW m \in Arrivals, Arrive(m) PROVE IdleInv'
  BY <1>2 DEF Arrive, Turn, IdleInv
<1>3. CASE LoadFacts \/ NotePhone
  BY <1>1, <1>3, LoadMoves, NotePhoneMoves DEF TypeInv, IdleInv
<1>4. CASE Skip
  BY <1>1, <1>4, DecidedMoves, Constants DEF Skip, TypeInv, DecidedAs, IdleInv
<1>5. ASSUME NEW c \in Answers, Classify(c) PROVE IdleInv'
  BY <1>1, <1>5, ClassifyTyped DEF DecidedAs, IdleInv
<1>6. CASE ClassifyFails
  BY <1>1, <1>6, ClassifyFailsTyped DEF DecidedAs, IdleInv
<1>7. CASE Remember
  BY <1>1, <1>7, RememberMoves DEF Moved, TypeInv, IdleInv
<1>8. CASE ApplyCRMState \/ MarkUser
  BY <1>1, <1>8, ApplyTyped, MarkUserTyped DEF Moved, Over, IdleInv
<1>9. CASE Reply \/ Advance \/ RecordFact \/ Send \/ TrackLead \/ Alert
  BY <1>1, <1>9, ReplyTyped, AdvanceTyped, RecordTyped, SendTyped, TrackTyped, AlertTyped
     DEF Moved, IdleInv
<1>10. CASE SendCut \/ Untracked \/ Crash \/ TrackFails \/ AlertFails \/ MarkNotified
  BY <1>1, <1>10, EndTyped, TrackFailsTyped, AlertFailsTyped, MarkNotifiedTyped
     DEF Over, IdleInv
<1>11. ASSUME NEW e \in Edits, Edit(e) PROVE IdleInv'
  <2>1. turn'.pc = turn.pc
    BY <1>1, <1>11, EditTyped DEF Moved
  <2> QED
    BY <1>1, <1>11, <2>1, EditTouches DEF IdleInv
<1> QED
  BY <1>2, <1>3, <1>4, <1>5, <1>6, <1>7, <1>8, <1>9, <1>10, <1>11 DEF Next, Handle

\* What one copy of the client knows, the other knows.
Keeps(c, d) ==
  /\ c.phone = TRUE => d.phone = TRUE
  /\ c.service # "none" => d.service # "none"
  /\ c.language # "none" => d.language # "none"

LEMMA WritesKeeps ==
  ASSUME NEW c, Writes(c), Keeps(client, c)
  PROVE  Keeps(client, client')
  BY DEF Writes, Keeps

LEMMA HandleKeeps ==
  ASSUME TypeInv, ReadyInv, Handle
  PROVE  Keeps(client, client')
<1>1. client \in Users
  BY DEF TypeInv, ClientInv
<1>2. CASE UNCHANGED client
  BY <1>2 DEF Keeps
<1>3. ASSUME NEW m \in Arrivals, Arrive(m) PROVE Keeps(client, client')
  <2> DEFINE p == client.phone \/ m.sender
  <2>1. client' = [client EXCEPT !.phone = p]
    BY <1>3 DEF Arrive
  <2>2. client.phone = TRUE => p = TRUE
    BY Zenon
  <2> HIDE DEF p
  <2>3. /\ [client EXCEPT !.phone = p].phone = p
        /\ [client EXCEPT !.phone = p].service = client.service
        /\ [client EXCEPT !.phone = p].language = client.language
    BY <1>1, Zenon DEF Users
  <2> QED
    BY <2>1, <2>2, <2>3 DEF Keeps
<1>4. CASE NotePhone
  <2> DEFINE c == [client EXCEPT !.phone = TRUE]
  <2>1. c.phone = TRUE /\ c.service = client.service /\ c.language = client.language
    BY <1>1, Zenon DEF Users
  <2>2. Writes(c) \/ UNCHANGED client
    BY <1>4 DEF NotePhone
  <2> HIDE DEF c
  <2> QED
    BY <1>2, <2>1, <2>2, WritesKeeps DEF Keeps
<1>5. CASE Remember
  <2>1. turn'.user \in Users
    BY <1>5, RememberMoves DEF TypeInv
  <2>2. Writes(WithQualification(client, turn'.user))
    BY <1>5 DEF Remember
  <2> QED
    BY <1>1, <2>1, <2>2, QualificationType, WritesKeeps DEF Keeps
<1>6. CASE ApplyCRMState
  <2>1. Writes(Applied)
    BY <1>6, ApplyTyped
  <2> QED
    BY <2>1, AppliedType, WritesKeeps DEF Keeps, TypeInv
<1>7. CASE Advance
  <2> DEFINE n == turn.decision.next
  <2>1. client' = [client EXCEPT !.state = n] \/ UNCHANGED client
    BY <1>7 DEF Advance
  <2> HIDE DEF n
  <2>2. /\ [client EXCEPT !.state = n].phone = client.phone
        /\ [client EXCEPT !.state = n].service = client.service
        /\ [client EXCEPT !.state = n].language = client.language
    BY <1>1, Zenon DEF Users
  <2> QED
    BY <1>2, <2>1, <2>2 DEF Keeps
<1>8. CASE MarkUser
  <2> DEFINE q == (Verdict = "qualified")
  <2> DEFINE u == [turn.user EXCEPT !.isLead = q]
  <2>1. turn.user \in Users /\ q \in BOOLEAN
    BY DEF TypeInv, TurnInv, TurnType
  <2>2. Writes(WithQualification(client, u))
    BY <1>8 DEF MarkUser
  <2> HIDE DEF q
  <2>3. u \in Users
    BY <2>1, UserColumns
  <2> HIDE DEF u
  <2> QED
    BY <1>1, <2>2, <2>3, QualificationType, WritesKeeps DEF Keeps
<1>9. CASE \/ LoadFacts \/ Skip \/ ClassifyFails \/ \E c \in Answers : Classify(c)
           \/ Reply \/ RecordFact \/ Send \/ SendCut \/ Untracked \/ TrackLead
           \/ TrackFails \/ Alert \/ AlertFails \/ MarkNotified
  <2>1. UNCHANGED client
    BY <1>9 DEF LoadFacts, Skip, ClassifyFails, Classify, Reply, RecordFact, Send, SendCut,
       Untracked, TrackLead, TrackFails, Alert, AlertFails, MarkNotified
  <2> QED
    BY <1>2, <2>1
<1> QED
  BY <1>3, <1>4, <1>5, <1>6, <1>7, <1>8, <1>9 DEF Handle

\* A turn works on a copy of the client that an edit may have outrun; whatever it
\* writes back, and however old the copy, what the row knew it still knows.
THEOREM NothingIsForgotten == Spec => NothingForgotten
<1> DEFINE Step == turn' # turn /\ ~(turn'.touched /\ ~turn.touched) =>
                     /\ client.phone => client'.phone
                     /\ client.service # "none" => client'.service # "none"
                     /\ client.language # "none" => client'.language # "none"
<1>1. Init => IdleInv
  BY DEF Init, IdleInv
<1>2. IInv /\ IdleInv /\ [Next]_vars => IdleInv'
  <2>1. ASSUME IdleInv, UNCHANGED vars PROVE IdleInv'
    BY <2>1 DEF vars, IdleInv
  <2> QED
    BY <2>1, IdleStep
<1>3. IInv /\ IdleInv /\ [Next]_vars => [Step]_vars
  <2> SUFFICES ASSUME IInv, IdleInv, Next, turn' # turn,
                      ~(turn'.touched /\ ~turn.touched)
               PROVE  /\ client.phone => client'.phone
                      /\ client.service # "none" => client'.service # "none"
                      /\ client.language # "none" => client'.language # "none"
    BY Zenon
  <2>1. TypeInv /\ ReadyInv /\ IInv'
    BY ReadyStep DEF IInv
  <2>2. Keeps(client, client')
    <3>1. CASE Handle
      BY <2>1, <3>1, HandleKeeps
    <3>2. CASE Crash
      BY <3>2 DEF Crash, Keeps
    <3>3. ASSUME NEW e \in Edits, Edit(e) PROVE FALSE
      <4>1. turn'.touched = TRUE /\ turn.touched # TRUE
        BY <2>1, <3>3, EditTouches
      <4>2. turn.touched \in BOOLEAN
        BY <2>1, Zenon DEF TypeInv, TurnInv, TurnType
      <4> QED
        BY <4>1, <4>2, Zenon
    <3> QED
      BY <3>1, <3>2, <3>3 DEF Next
  <2>3. client.phone \in BOOLEAN /\ client'.phone \in BOOLEAN
    BY <2>1, UserFields DEF IInv, TypeInv, ClientInv
  <2> QED
    BY <2>2, <2>3, Zenon DEF Keeps
<1>4. NothingForgotten <=> [][Step]_vars
  BY DEF NothingForgotten
<1> QED
  BY IInvInit, Inductive, <1>1, <1>2, <1>3, <1>4, PTL DEF Spec

-----------------------------------------------------------------------------
(* The story of a handoff *)

\* Who is handed to Diana now has left a number, and the model was sure of him.
HandoffReady ==
  turn.pc \in {"remember", "crm", "reply", "state"}
    /\ turn.decision.next = "ready_for_diana" /\ turn.user.state # "ready_for_diana" =>
  turn.user.phone = TRUE /\ turn.answer.confident = TRUE

\* Up to its write-back a turn has the lead flag as it is.
Copied ==
  turn.pc \in {"facts", "phone", "gate", "remember"} => turn.user.isLead = client.isLead

\* The flag follows the lead, one statement behind.
Agree ==
  IF turn.pc = "user" THEN lead.status = Verdict
  ELSE client.isLead = TRUE <=> lead.status = "qualified"

Handed ==
  /\ turn.decision.next = "ready_for_diana" /\ turn.decision.service # "none"
  /\ turn.user.phone = TRUE /\ turn.answer.confident = TRUE

\* A handoff is on its way to Diana, from the state's statement to the lead's mark.
KeptPromise ==
  promised = TRUE =>
    \/ lead.notified = TRUE
    \/ turn.pc \in {"fact", "send", "lead"} /\ Handed
    \/ turn.pc = "user" /\ lead.status = "qualified"
    \/ turn.pc \in {"alert", "mark"}

\* No lead is marked without an alert.
AlertMade == lead.notified = TRUE \/ turn.pc = "mark" => alerts >= 1

StoryInv ==
  /\ HandoffReady
  /\ AlertMade
  /\ faults = 0 => Copied /\ Agree /\ KeptPromise

LEMMA GotoStays ==
  ASSUME TurnInv, NEW step \in Steps, Goto(step)
  PROVE  Moved(step) /\ turn'.user = turn.user
<1> DEFINE r == [turn EXCEPT !.pc = step]
<1>1. turn \in TurnType
  BY DEF TurnInv
<1>2. r.user = turn.user
  BY <1>1, Zenon DEF TurnType
<1>3. turn' = r
  BY DEF Goto
<1> HIDE DEF r
<1> QED
  BY <1>2, <1>3, GotoMoves

LEMMA TurnUser ==
  ASSUME TurnInv
  PROVE  /\ turn.user \in Users /\ turn.user.phone \in BOOLEAN /\ turn.user.isLead \in BOOLEAN
         /\ turn.decision \in Fitting /\ turn.answer \in Known
  BY UserFields DEF TurnInv, TurnType

LEMMA VerdictKept ==
  ASSUME turn'.user = turn.user, turn'.answer = turn.answer, turn'.decision = turn.decision
  PROVE  Verdict' = Verdict /\ Service' = Service
  BY DEF Verdict, Service

\* The flag in a copy of the client in which another column is set.
LEMMA FlagKept ==
  ASSUME NEW c \in Users
  PROVE  /\ \A v : [c EXCEPT !.phone = v].isLead = c.isLead
         /\ \A v : [c EXCEPT !.state = v].isLead = c.isLead
         /\ \A v : [c EXCEPT !.service = v].isLead = c.isLead
         /\ \A v, l : [c EXCEPT !.service = v, !.language = l].isLead = c.isLead
         /\ \A l : [c EXCEPT !.language = l, !.locked = TRUE].isLead = c.isLead
         /\ \A v : [c EXCEPT !.state = v].phone = c.phone
<1>1. ASSUME NEW v PROVE [c EXCEPT !.phone = v].isLead = c.isLead
  BY Zenon DEF Users
<1>2. ASSUME NEW v PROVE [c EXCEPT !.state = v].isLead = c.isLead
  BY Zenon DEF Users
<1>3. ASSUME NEW v PROVE [c EXCEPT !.service = v].isLead = c.isLead
  BY Zenon DEF Users
<1>4. ASSUME NEW v, NEW l PROVE [c EXCEPT !.service = v, !.language = l].isLead = c.isLead
  BY Zenon DEF Users
<1>5. ASSUME NEW l PROVE [c EXCEPT !.language = l, !.locked = TRUE].isLead = c.isLead
  BY Zenon DEF Users
<1>6. ASSUME NEW v PROVE [c EXCEPT !.state = v].phone = c.phone
  BY Zenon DEF Users
<1> QED
  BY <1>1, <1>2, <1>3, <1>4, <1>5, <1>6

LEMMA FlagWritten ==
  ASSUME NEW c, c.isLead = client.isLead, Writes(c)
  PROVE  client'.isLead = client.isLead /\ (UNCHANGED faults \/ Fault)
  BY DEF Writes

\* A decision to hand a client over who was not: he left a number, and the
\* model was sure.
LEMMA HandoffNeeds ==
  ASSUME NEW s, NEW c, ShouldRespond(s, c).next = "ready_for_diana", s.state # "ready_for_diana"
  PROVE  s.phone = TRUE /\ c.confident = TRUE
<1> DEFINE service == ServiceOf(s, c)
<1>0. \A a, v, n : Decision(a, v, n).next = n
  BY DEF Decision
<1>1. Silent.next # "ready_for_diana"
  BY DEF Silent
<1>2. ContinuationState(s.state) # "ready_for_diana"
  BY DEF ContinuationState
<1> HIDE DEF service
<1>3. Fallback(s).next # "ready_for_diana"
  BY <1>0, <1>1 DEF Fallback
<1>4. LowConfidence(s, service).next # "ready_for_diana"
  BY <1>0, <1>3 DEF LowConfidence
<1>5. AfterHandoff(s, service).next # "ready_for_diana"
  BY <1>0, <1>1 DEF AfterHandoff
<1>6. ForService(s, c, service).next = "ready_for_diana" => s.phone
  BY <1>0 DEF ForService
<1>7. ForIntent(s, c, service).next = "ready_for_diana" => s.phone
  <2>1. CASE c.intent \in {"service_inquiry", "other_legal_service", "unclear"}
    BY <1>0, <2>1 DEF ForIntent
  <2>2. CASE c.intent = "callback_request"
    BY <1>0, <2>2 DEF ForIntent
  <2>3. CASE c.intent \notin {"service_inquiry", "other_legal_service", "unclear",
                              "callback_request"}
    BY <1>0, <1>1, <1>2, <2>3 DEF ForIntent
  <2> QED
    BY <2>1, <2>2, <2>3
<1> QED
  BY <1>0, <1>1, <1>2, <1>4, <1>5, <1>6, <1>7 DEF ShouldRespond, service

\* The steps before the state's statement: nothing of the story changes but what
\* the turn knows.
LEMMA EarlyStory ==
  ASSUME TypeInv, StoryInv,
         turn.pc \in {"facts", "phone", "gate", "remember", "crm", "reply"},
         turn'.pc \in {"phone", "gate", "remember", "crm", "reply", "state", "idle"},
         turn'.user.isLead = turn.user.isLead, client'.isLead = client.isLead,
         UNCHANGED <<lead, promised, alerts>>, UNCHANGED faults \/ Fault \/ TwoFaults,
         turn'.pc \in {"phone", "gate", "remember"} =>
           turn.pc \in {"facts", "phone", "gate", "remember"},
         HandoffReady'
  PROVE  StoryInv'
<1>1. faults' = 0 => faults = 0
  BY DEF TypeInv, CountInv, Fault, TwoFaults
<1>2. AlertMade'
  BY DEF StoryInv, AlertMade
<1>3. faults = 0 => Copied'
  BY DEF StoryInv, Copied
<1>4. faults = 0 => Agree'
  BY DEF StoryInv, Agree
<1>5. faults = 0 => KeptPromise'
  BY DEF StoryInv, KeptPromise
<1> QED
  BY <1>1, <1>2, <1>3, <1>4, <1>5 DEF StoryInv

\* What a turn knows when it has decided holds until the state's statement.
LEMMA ReadyKept ==
  ASSUME StoryInv, turn.pc \in {"remember", "crm", "reply", "state"},
         turn'.decision = turn.decision, turn'.answer = turn.answer,
         turn'.user.state = turn.user.state, turn'.user.phone = turn.user.phone
  PROVE  HandoffReady'
  BY DEF StoryInv, HandoffReady

LEMMA ArriveStory ==
  ASSUME TypeInv, StoryInv, NEW m \in Arrivals, Arrive(m)
  PROVE  StoryInv'
<1> DEFINE p == client.phone \/ m.sender
<1> DEFINE c == [client EXCEPT !.phone = p]
<1>1. turn.pc = "idle" /\ UNCHANGED <<lead, promised, alerts, faults>>
  BY DEF Arrive, history
<1>2. client' = c /\ turn' = Turn("facts", client', m)
  BY DEF Arrive
<1>3. client \in Users
  BY DEF TypeInv, ClientInv
<1> HIDE DEF p
<1>4. c.isLead = client.isLead
  BY <1>3, FlagKept
<1> HIDE DEF c
<1>5. turn'.pc = "facts" /\ turn'.user = client'
  BY <1>2 DEF Turn
<1>6. client'.isLead = client.isLead
  BY <1>2, <1>4
<1>7. HandoffReady' /\ AlertMade'
  BY <1>1, <1>5 DEF StoryInv, HandoffReady, AlertMade
<1>8. faults = 0 => Copied' /\ Agree' /\ KeptPromise'
  <2>1. Copied'
    BY <1>5 DEF Copied
  <2>2. faults = 0 => Agree'
    BY <1>1, <1>5, <1>6 DEF StoryInv, Agree
  <2>3. faults = 0 => KeptPromise'
    BY <1>1, <1>5 DEF StoryInv, KeptPromise
  <2> QED
    BY <2>1, <2>2, <2>3
<1> QED
  BY <1>1, <1>7, <1>8 DEF StoryInv

LEMMA LoadStory ==
  ASSUME TypeInv, StoryInv, LoadFacts
  PROVE  StoryInv'
<1>1. turn \in TurnType
  BY DEF TypeInv, TurnInv
<1>2. \A v : [turn EXCEPT !.pc = "phone", !.asked = v].user = turn.user
  BY <1>1, Zenon DEF TurnType
<1>3. turn'.user = turn.user
  BY <1>2 DEF LoadFacts
<1>4. turn'.pc = "phone" /\ (UNCHANGED faults \/ Fault)
  BY LoadMoves DEF TypeInv
<1>5. turn.pc = "facts" /\ UNCHANGED <<client, lead, promised, alerts>>
  BY DEF LoadFacts, history
<1>6. HandoffReady'
  BY <1>4 DEF HandoffReady
<1> QED
  BY <1>3, <1>4, <1>5, <1>6, EarlyStory

LEMMA NotePhoneStory ==
  ASSUME TypeInv, StoryInv, NotePhone
  PROVE  StoryInv'
<1>1. turn \in TurnType /\ "gate" \in Steps /\ turn.user \in Users /\ client \in Users
  BY DEF TypeInv, TurnInv, TurnType, Steps, ClientInv
<1>2. turn'.pc = "gate" /\ turn.pc = "phone" /\ UNCHANGED <<lead, promised, alerts>>
  BY NotePhoneMoves DEF TypeInv, NotePhone, history
<1>3. turn'.user.isLead = turn.user.isLead
  <2>1. CASE Goto("gate")
    BY <1>1, <2>1, GotoStays DEF TypeInv
  <2>2. CASE turn' = [turn EXCEPT !.pc = "gate", !.user.phone = @ \/ faults' = faults]
    <3> DEFINE p == turn.user.phone \/ faults' = faults
    <3> DEFINE u == [turn.user EXCEPT !.phone = p]
    <3>1. p \in BOOLEAN
      OBVIOUS
    <3>2. turn' = UserTurn(turn, "gate", u)
      BY <1>1, <2>2, Zenon DEF TurnType, UserTurn
    <3> HIDE DEF p
    <3>3. u \in Users /\ u.isLead = turn.user.isLead
      BY <1>1, <3>1, UserColumns, FlagKept
    <3> HIDE DEF u
    <3> QED
      BY <1>1, <3>2, <3>3, WithUser
  <2> QED
    BY <2>1, <2>2 DEF NotePhone
<1>4. client'.isLead = client.isLead /\ (UNCHANGED faults \/ Fault)
  <2>1. CASE UNCHANGED <<client, faults>>
    BY <2>1
  <2>2. CASE Writes([client EXCEPT !.phone = TRUE])
    BY <1>1, <2>2, FlagKept, FlagWritten
  <2> QED
    BY <2>1, <2>2 DEF NotePhone
<1>5. HandoffReady'
  BY <1>2 DEF HandoffReady
<1> QED
  BY <1>2, <1>3, <1>4, <1>5, EarlyStory

\* The turn has decided.
LEMMA DecidedStory ==
  ASSUME TypeInv, StoryInv, NEW c \in Known, NEW d \in Fitting, turn.pc = "gate", Decided(c, d),
         d.next = "ready_for_diana" /\ turn.user.state # "ready_for_diana" =>
           turn.user.phone = TRUE /\ c.confident = TRUE,
         UNCHANGED <<client, lead, promised, alerts>>,
         UNCHANGED faults \/ Fault \/ TwoFaults
  PROVE  StoryInv'
<1>1. turn \in TurnType
  BY DEF TypeInv, TurnInv
<1>2. DecidedTurn(turn, c, d).user = turn.user
  BY <1>1, Zenon DEF TurnType, DecidedTurn
<1>3. turn' = DecidedTurn(turn, c, d)
  BY Zenon DEF Decided, DecidedTurn
<1>4. DecidedAs(c, d) /\ turn'.user = turn.user
  BY <1>2, <1>3, DecidedMoves DEF TypeInv
<1>5. HandoffReady'
  BY <1>4 DEF HandoffReady, DecidedAs
<1> QED
  BY <1>4, <1>5, EarlyStory DEF DecidedAs

LEMMA SituationOf ==
  Situation.state = turn.user.state /\ Situation.phone = turn.user.phone
  BY DEF Situation

LEMMA ClassifyStory ==
  ASSUME TypeInv, StoryInv, NEW c \in Answers, Classify(c)
  PROVE  StoryInv'
<1>1. c \in Known /\ ShouldRespond(Situation, c) \in Fitting
  BY Bounds, SituationType, ShouldRespondType DEF Known, TypeInv
<1>2. /\ turn.pc = "gate" /\ Decided(c, ShouldRespond(Situation, c))
      /\ UNCHANGED <<client, lead, promised, alerts>>
      /\ UNCHANGED faults \/ Fault \/ TwoFaults
  BY CallCosts DEF Classify, TypeInv
<1>3. ShouldRespond(Situation, c).next = "ready_for_diana"
        /\ turn.user.state # "ready_for_diana" =>
      turn.user.phone = TRUE /\ c.confident = TRUE
  BY HandoffNeeds, SituationOf
<1> QED
  BY <1>1, <1>2, <1>3, DecidedStory

LEMMA UndecidedStory ==
  ASSUME TypeInv, StoryInv, Skip \/ ClassifyFails
  PROVE  StoryInv'
<1>1. CASE Skip
  <2>1. Silent.next # "ready_for_diana"
    BY DEF Silent
  <2>2. /\ turn.pc = "gate" /\ Decided(NoAnswer, Silent)
        /\ UNCHANGED <<client, lead, promised, alerts, faults>>
    BY <1>1 DEF Skip, history
  <2> QED
    BY <2>1, <2>2, DecidedStory, Constants
<1>2. CASE ClassifyFails
  <2>1. Fallback(Situation).next # "ready_for_diana"
    BY DEF Fallback, Decision, Silent
  <2>2. /\ turn.pc = "gate" /\ Decided(NoAnswer, Fallback(Situation))
        /\ UNCHANGED <<client, lead, promised, alerts>>
        /\ UNCHANGED faults \/ Fault \/ TwoFaults
    BY <1>2, CallCosts DEF ClassifyFails, TypeInv
  <2> QED
    BY <2>1, <2>2, DecidedStory, Constants, FallbackType
<1> QED
  BY <1>1, <1>2

LEMMA RememberStory ==
  ASSUME TypeInv, StoryInv, Remember
  PROVE  StoryInv'
<1> DEFINE l == Keep(turn.answer.language, turn.user.language)
<1> DEFINE v == Keep(Learned, turn.user.service)
<1> DEFINE u == [turn.user EXCEPT !.language = l, !.service = v]
<1>1. /\ turn \in TurnType /\ "crm" \in Steps /\ turn.user \in Users /\ client \in Users
      /\ turn.pc = "remember" /\ UNCHANGED <<lead, promised, alerts>>
  BY DEF TypeInv, TurnInv, TurnType, Steps, ClientInv, Remember, history
<1>2. l \in Languages \cup {"none"} /\ v \in Services
  BY <1>1, UserFields, KeepType, LearnedType, AnswerLanguage DEF TypeInv
<1>3. turn' = UserTurn(turn, "crm", u)
  <2>1. turn' = [turn EXCEPT !.pc = "crm", !.user.language = l, !.user.service = v]
    BY DEF Remember
  <2> HIDE DEF l, v
  <2> QED
    BY <2>1, <1>1, Zenon DEF TurnType, UserTurn
<1> HIDE DEF l, v
<1>4. u \in Users
  BY <1>1, <1>2, UserColumns
<1>5. u.isLead = turn.user.isLead /\ u.state = turn.user.state /\ u.phone = turn.user.phone
  BY <1>1, Zenon DEF Users
<1> HIDE DEF u
<1>6. /\ turn'.user = u /\ turn'.pc = "crm" /\ turn'.decision = turn.decision
      /\ turn'.answer = turn.answer
  BY <1>1, <1>3, <1>4, WithUser
<1>7. Writes(WithQualification(client, turn'.user))
  BY DEF Remember
<1>8. faults = 0 => client'.isLead = client.isLead
  <2>1. WithQualification(client, u).isLead = u.isLead
    BY <1>1, <1>4, QualificationType
  <2>2. client' = client \/ client' = WithQualification(client, u)
    BY <1>6, <1>7 DEF Writes
  <2>3. faults = 0 => turn.user.isLead = client.isLead
    BY <1>1 DEF StoryInv, Copied
  <2> QED
    BY <1>5, <2>1, <2>2, <2>3
<1>9. UNCHANGED faults \/ Fault
  BY <1>7 DEF Writes
<1>10. HandoffReady'
  BY <1>1, <1>5, <1>6, ReadyKept
<1>11. AlertMade' /\ (faults' = 0 => faults = 0)
  BY <1>1, <1>6, <1>9 DEF StoryInv, AlertMade, TypeInv, CountInv, Fault
<1>12. faults = 0 => Copied' /\ Agree'
  BY <1>1, <1>6, <1>8 DEF StoryInv, Copied, Agree
<1>13. faults = 0 => KeptPromise'
  BY <1>1, <1>6 DEF StoryInv, KeptPromise
<1> QED
  BY <1>10, <1>11, <1>12, <1>13 DEF StoryInv

\* The turn is over, and left nothing unfinished.
LEMMA OverStory ==
  ASSUME TypeInv, StoryInv, Done, turn.pc # "mark",
         client'.isLead = client.isLead, lead'.notified = lead.notified,
         UNCHANGED <<promised, alerts>>, UNCHANGED faults \/ Fault,
         UNCHANGED faults =>
           /\ UNCHANGED lead
           /\ turn.pc = "user" => (client.isLead = TRUE <=> lead.status = "qualified")
           /\ turn.pc \in {"fact", "send", "lead"} => ~Handed
           /\ turn.pc = "user" => lead.status # "qualified" \/ lead.notified = TRUE
           /\ turn.pc # "alert"
  PROVE  StoryInv'
<1>1. turn'.pc = "idle"
  BY DoneIsOver DEF Over
<1>2. faults' = 0 => faults = 0 /\ UNCHANGED faults
  BY DEF TypeInv, CountInv, Fault
<1>3. HandoffReady' /\ AlertMade'
  BY <1>1 DEF StoryInv, HandoffReady, AlertMade
<1>4. ASSUME faults = 0, UNCHANGED faults PROVE Copied' /\ Agree' /\ KeptPromise'
  <2>1. Copied'
    BY <1>1 DEF Copied
  <2>2. Agree'
    BY <1>1, <1>4 DEF StoryInv, Agree
  <2>3. KeptPromise'
    BY <1>1, <1>4 DEF StoryInv, KeptPromise
  <2> QED
    BY <2>1, <2>2, <2>3
<1> QED
  BY <1>2, <1>3, <1>4 DEF StoryInv

LEMMA ApplyStory ==
  ASSUME TypeInv, StoryInv, ApplyCRMState
  PROVE  StoryInv'
<1>1. client \in Users /\ "reply" \in Steps
  BY DEF TypeInv, ClientInv, Steps
<1>2. /\ turn.pc = "crm" /\ UNCHANGED <<lead, promised, alerts>>
      /\ Goto("reply") \/ Done
  BY DEF ApplyCRMState, history
<1>3. client'.isLead = client.isLead /\ (UNCHANGED faults \/ Fault)
  <2> DEFINE s == Keep(Learned, client.service)
  <2> DEFINE l == IF client.locked THEN client.language
                  ELSE Keep(turn.answer.language, client.language)
  <2>1. Writes([client EXCEPT !.service = s, !.language = l])
    BY DEF ApplyCRMState
  <2> HIDE DEF s, l
  <2>2. [client EXCEPT !.service = s, !.language = l].isLead = client.isLead
    BY <1>1, FlagKept
  <2> QED
    BY <2>1, <2>2, FlagWritten
<1>4. CASE Goto("reply")
  <2>1. Moved("reply") /\ turn'.user = turn.user
    BY <1>1, <1>4, GotoStays DEF TypeInv
  <2>2. HandoffReady'
    BY <1>2, <2>1, ReadyKept DEF Moved
  <2> QED
    BY <1>2, <1>3, <2>1, <2>2, EarlyStory DEF Moved
<1>5. CASE Done
  BY <1>2, <1>3, <1>5, OverStory
<1> QED
  BY <1>2, <1>4, <1>5

LEMMA ReplyStory ==
  ASSUME TypeInv, StoryInv, Reply
  PROVE  StoryInv'
<1>1. Moved("state") /\ turn'.user = turn.user
  BY GotoStays DEF Reply, TypeInv, Steps
<1>2. /\ turn.pc = "reply" /\ UNCHANGED <<client, lead, promised, alerts>>
      /\ UNCHANGED faults \/ Fault
  BY DEF Reply, Logs
<1>3. HandoffReady'
  BY <1>1, <1>2, ReadyKept DEF Moved
<1> QED
  BY <1>1, <1>2, <1>3, EarlyStory DEF Moved


\* From the state's statement on, a turn that has not failed goes on as it was.
LEMMA LateStory ==
  ASSUME TypeInv, StoryInv, turn'.pc \in {"fact", "send", "lead"},
         turn.pc \in {"state", "fact", "send"},
         client'.isLead = client.isLead, UNCHANGED <<lead, alerts>>,
         UNCHANGED faults \/ Fault,
         UNCHANGED faults /\ promised' = TRUE =>
           \/ promised = TRUE /\ (turn.pc # "state" /\ Handed => Handed')
           \/ Handed'
  PROVE  StoryInv'
<1>1. faults' = 0 => faults = 0 /\ UNCHANGED faults
  BY DEF TypeInv, CountInv, Fault
<1>2. HandoffReady' /\ AlertMade' /\ Copied'
  BY DEF StoryInv, HandoffReady, AlertMade, Copied
<1>3. faults = 0 => Agree'
  BY DEF StoryInv, Agree
<1>4. faults = 0 /\ UNCHANGED faults => KeptPromise'
  BY DEF StoryInv, KeptPromise
<1> QED
  BY <1>1, <1>2, <1>3, <1>4 DEF StoryInv

LEMMA AdvanceStory ==
  ASSUME TypeInv, ReadyInv, StoryInv, Advance
  PROVE  StoryInv'
<1> DEFINE n == turn.decision.next
<1>1. /\ Moved("fact") /\ turn.pc = "state" /\ UNCHANGED <<lead, alerts>>
      /\ UNCHANGED faults \/ Fault
  <2>1. UNCHANGED faults \/ Fault
    BY Zenon DEF Advance
  <2> QED
    BY <2>1, AdvanceTyped DEF Advance
<1>2. turn \in TurnType /\ client \in Users /\ turn.user \in Users /\ "fact" \in Steps
  BY DEF TypeInv, TurnInv, TurnType, ClientInv, Steps
<1>3. n \in States
  <2>1. turn.decision \in Fitting /\ turn.decision.respond = TRUE
    BY <1>2 DEF TurnType, ReadyInv, Advance
  <2> QED
    BY <2>1 DEF Fitting
<1>4. CASE Goto("fact") /\ UNCHANGED <<client, promised>>
  <2>1. Handed => Handed'
    <3>1. turn'.user = turn.user
      BY <1>2, <1>4, GotoStays DEF TypeInv
    <3> QED
      BY <1>1, <3>1 DEF Moved, Handed
  <2> QED
    BY <1>1, <1>4, <2>1, LateStory DEF Moved
<1>5. CASE /\ n # turn.user.state
           /\ client' = [client EXCEPT !.state = n]
           /\ turn' = [turn EXCEPT !.pc = "fact", !.user.state = n]
           /\ promised' = (promised \/ (n = "ready_for_diana" /\ turn.decision.service # "none"))
  <2> DEFINE u == [turn.user EXCEPT !.state = n]
  <2>1. turn' = UserTurn(turn, "fact", u)
    BY <1>2, <1>5, Zenon DEF TurnType, UserTurn
  <2>2. client'.isLead = client.isLead
    <3> HIDE DEF n
    <3> QED
      BY <1>2, <1>5, FlagKept
  <2>3. u \in Users /\ u.phone = turn.user.phone
    <3> HIDE DEF n
    <3> QED
      BY <1>2, <1>3, FlagKept, UserColumns
  <2> HIDE DEF u
  <2>4. turn'.user = u /\ turn'.answer = turn.answer /\ turn'.decision = turn.decision
    BY <1>2, <2>1, <2>3, WithUser
  <2>5. promised' = TRUE =>
          promised = TRUE \/ (n = "ready_for_diana" /\ turn.decision.service # "none")
    <3>1. promised \in BOOLEAN
      BY DEF TypeInv, CountInv
    <3> QED
      BY <1>5, <3>1, Zenon
  <2>6. n = "ready_for_diana" => turn.user.phone = TRUE /\ turn.answer.confident = TRUE
    BY <1>1, <1>5 DEF StoryInv, HandoffReady
  <2>7. n = "ready_for_diana" /\ turn.decision.service # "none" => Handed'
    BY <2>3, <2>4, <2>6 DEF Handed
  <2> QED
    BY <1>1, <2>2, <2>5, <2>7, LateStory DEF Moved
<1> QED
  BY <1>4, <1>5, Zenon DEF Advance

LEMMA GoOnStory ==
  ASSUME TypeInv, StoryInv, RecordFact \/ Send
  PROVE  StoryInv'
<1>1. PICK step \in {"send", "lead"} : Goto(step)
  BY DEF RecordFact, Send
<1>2. Moved(step) /\ turn'.user = turn.user
  BY <1>1, GotoStays DEF TypeInv, Steps
<1>3. turn.pc \in {"fact", "send"} /\ UNCHANGED <<client, lead, alerts, promised>>
  BY DEF RecordFact, Send, history
<1>4. UNCHANGED faults \/ Fault
  <2>1. CASE RecordFact
    BY <2>1, Zenon DEF RecordFact
  <2>2. CASE Send
    BY <2>2 DEF Send
  <2> QED
    BY <2>1, <2>2
<1>5. Handed => Handed'
  BY <1>2 DEF Moved, Handed
<1> QED
  BY <1>1, <1>2, <1>3, <1>4, <1>5, LateStory DEF Moved

\* A fault ends the turn; what it leaves unfinished is excused.
LEMMA CutStory ==
  ASSUME TypeInv, StoryInv, Done, Fault, lead'.notified = lead.notified,
         alerts' \in {alerts, alerts + 1}
  PROVE  StoryInv'
<1>1. turn'.pc = "idle"
  BY DoneIsOver DEF Over
<1>2. faults' # 0
  BY DEF TypeInv, CountInv, Fault
<1>3. HandoffReady'
  BY <1>1 DEF HandoffReady
<1>4. AlertMade'
  BY <1>1 DEF StoryInv, AlertMade, TypeInv, CountInv
<1> QED
  BY <1>2, <1>3, <1>4 DEF StoryInv

LEMMA CutsStory ==
  ASSUME TypeInv, StoryInv, SendCut \/ Crash \/ TrackFails \/ AlertFails
  PROVE  StoryInv'
<1>1. Done /\ Fault
  BY DEF SendCut, Crash, TrackFails, AlertFails
<1>2. lead'.notified = lead.notified
  BY TrackFailsTyped DEF SendCut, Crash, AlertFails
<1>3. alerts' \in {alerts, alerts + 1}
  BY DEF SendCut, Crash, TrackFails, AlertFails, history
<1> QED
  BY <1>1, <1>2, <1>3, CutStory

\* A client handed over for a service qualifies.
LEMMA HandedQualifies ==
  ASSUME Handed
  PROVE  Service # "none" /\ Verdict = "qualified"
<1>1. Service # "none"
  BY DEF Handed, Service, Keep
<1>2. Qualifies(turn.decision, Service, turn.user.phone, turn.answer)
  BY <1>1 DEF Handed, Qualifies
<1> QED
  BY <1>1, <1>2 DEF Verdict, LeadStatus

LEMMA UntrackedStory ==
  ASSUME TypeInv, StoryInv, Untracked
  PROVE  StoryInv'
<1>1. turn.pc = "lead" /\ Done /\ UNCHANGED <<client, lead, alerts, promised, faults>>
  BY DEF Untracked, history
<1>2. ~Handed
  BY HandedQualifies DEF Untracked, Tracks
<1> QED
  BY <1>1, <1>2, OverStory

LEMMA TrackStory ==
  ASSUME TypeInv, StoryInv, TrackLead
  PROVE  StoryInv'
<1>1. Moved("user") /\ turn'.user = turn.user
  BY GotoStays DEF TrackLead, TypeInv, Steps
<1>2. turn.pc = "lead" /\ UNCHANGED <<client, alerts, promised, faults>>
  BY DEF TrackLead, history
<1>3. lead'.status = Verdict /\ lead'.notified = lead.notified
  BY VerdictType DEF TrackLead, TypeInv
<1>4. Verdict' = Verdict
  BY <1>1, VerdictKept DEF Moved
<1>5. HandoffReady' /\ AlertMade' /\ Copied'
  BY <1>1, <1>2, <1>3 DEF StoryInv, HandoffReady, AlertMade, Copied, Moved
<1>6. Agree'
  BY <1>1, <1>3, <1>4 DEF Agree, Moved
<1>7. faults = 0 => KeptPromise'
  <2>1. Handed => lead'.status = "qualified"
    BY <1>3, HandedQualifies
  <2> QED
    BY <1>1, <1>2, <1>3, <2>1 DEF StoryInv, KeptPromise, Moved
<1> QED
  BY <1>2, <1>5, <1>6, <1>7 DEF StoryInv

LEMMA MarkUserStory ==
  ASSUME TypeInv, StoryInv, MarkUser
  PROVE  StoryInv'
<1> DEFINE q == (Verdict = "qualified")
<1> DEFINE u == [turn.user EXCEPT !.isLead = q]
<1>1. turn.user \in Users /\ q \in BOOLEAN /\ client \in Users
  BY DEF TypeInv, TurnInv, TurnType, ClientInv
<1>2. Writes(WithQualification(client, u))
  BY DEF MarkUser
<1>3. u \in Users /\ u.isLead = q
  <2> HIDE DEF q
  <2> QED
    BY <1>1, UserColumns, Zenon DEF Users
<1>4. WithQualification(client, u).isLead = q
  <2> HIDE DEF u, q
  <2> QED
    BY <1>1, <1>3, QualificationType
<1>5. (client'.isLead = q /\ UNCHANGED faults) \/ Fault
  <2> HIDE DEF u, q
  <2> QED
    BY <1>2, <1>4 DEF Writes
<1>6. turn.pc = "user" /\ UNCHANGED <<lead, alerts, promised>>
  BY DEF MarkUser, history
<1>7. turn'.pc = "alert" \/ (turn'.pc = "idle" /\ ~NeedsAlert)
  <2>1. CASE NeedsAlert
    <3>1. "alert" \in Steps /\ Goto("alert")
      BY <2>1 DEF Steps, MarkUser
    <3> QED
      BY <3>1, GotoMoves DEF TypeInv, Moved
  <2>2. CASE ~NeedsAlert
    <3>1. Done
      BY <2>2, Zenon DEF MarkUser
    <3> QED
      BY <2>2, <3>1, DoneIsOver DEF Over
  <2> QED
    BY <2>1, <2>2
<1>8. faults' = 0 => faults = 0 /\ client'.isLead = q
  BY <1>5 DEF TypeInv, CountInv, Fault
<1>9. HandoffReady' /\ AlertMade' /\ Copied'
  BY <1>6, <1>7 DEF StoryInv, HandoffReady, AlertMade, Copied
<1>10. faults = 0 /\ client'.isLead = q => Agree'
  <2>1. faults = 0 => lead.status = Verdict
    BY <1>6 DEF StoryInv, Agree
  <2>2. faults = 0 => q = (lead'.status = "qualified")
    BY <1>6, <2>1
  <2> HIDE DEF q
  <2> QED
    BY <1>1, <1>7, <2>2 DEF Agree
<1>11. faults = 0 => KeptPromise'
  <2>1. lead.status = "qualified" /\ ~NeedsAlert => lead.notified = TRUE
    <3>1. lead.notified \in BOOLEAN
      BY Zenon DEF TypeInv, LeadInv, LeadType
    <3> QED
      BY <3>1, Zenon DEF NeedsAlert
  <2> QED
    BY <1>6, <1>7, <2>1 DEF StoryInv, KeptPromise
<1> QED
  BY <1>8, <1>9, <1>10, <1>11 DEF StoryInv

LEMMA AlertStory ==
  ASSUME TypeInv, StoryInv, Alert
  PROVE  StoryInv'
<1>1. turn'.pc = "mark" /\ turn.pc = "alert"
  BY AlertTyped DEF Moved, Alert
<1>2. alerts' = alerts + 1 /\ UNCHANGED <<client, lead, promised, faults>>
  BY DEF Alert
<1>3. HandoffReady' /\ AlertMade' /\ Copied'
  BY <1>1, <1>2 DEF HandoffReady, AlertMade, Copied, TypeInv, CountInv
<1>4. faults = 0 => Agree' /\ KeptPromise'
  BY <1>1, <1>2 DEF StoryInv, Agree, KeptPromise
<1> QED
  BY <1>2, <1>3, <1>4 DEF StoryInv

LEMMA MarkStory ==
  ASSUME TypeInv, StoryInv, MarkNotified
  PROVE  StoryInv'
<1> DEFINE r == [lead EXCEPT !.notified = TRUE]
<1>1. /\ turn'.pc = "idle" /\ turn.pc = "mark"
      /\ UNCHANGED <<client, alerts, promised>>
  BY MarkNotifiedTyped DEF Over, MarkNotified, history
<1>2. \/ lead' = r /\ UNCHANGED faults
      \/ UNCHANGED lead /\ Fault
  BY DEF MarkNotified
<1>3. r.status = lead.status /\ r.notified = TRUE
  BY Zenon DEF TypeInv, LeadInv, LeadType
<1> HIDE DEF r
<1>4. /\ lead'.status = lead.status
      /\ faults' = 0 => faults = 0 /\ lead'.notified = TRUE
  BY <1>2, <1>3 DEF TypeInv, CountInv, Fault
<1>5. HandoffReady' /\ AlertMade' /\ Copied'
  BY <1>1 DEF StoryInv, HandoffReady, AlertMade, Copied
<1>6. faults' = 0 => Agree' /\ KeptPromise'
  BY <1>1, <1>4 DEF StoryInv, Agree, KeptPromise
<1> QED
  BY <1>5, <1>6 DEF StoryInv

LEMMA EditStory ==
  ASSUME TypeInv, StoryInv, NEW e \in Edits, Edit(e)
  PROVE  StoryInv'
<1>1. turn \in TurnType /\ client \in Users /\ Moved(turn.pc)
  BY EditTyped DEF TypeInv, TurnInv, ClientInv
<1>2. turn'.user = turn.user
  <2> DEFINE v == turn.pc # "idle"
  <2>1. turn' = TouchedTurn(turn, v)
    BY Zenon DEF Edit, TouchedTurn
  <2> HIDE DEF v
  <2>2. TouchedTurn(turn, v).user = turn.user
    BY <1>1, Zenon DEF TouchedTurn, TurnType
  <2> QED
    BY <2>1, <2>2
<1>3. client'.isLead = client.isLead
  <2>1. CASE client' = [client EXCEPT !.service = e.to]
    BY <1>1, <2>1, FlagKept
  <2>2. CASE client' = [client EXCEPT !.language = e.to, !.locked = TRUE]
    BY <1>1, <2>2, FlagKept
  <2> QED
    BY <2>1, <2>2, Zenon DEF Edit
<1>4. UNCHANGED <<lead, alerts, promised, faults>>
  BY DEF Edit, history
<1>5. Verdict' = Verdict
  BY <1>1, <1>2, VerdictKept DEF Moved
<1>6. HandoffReady' /\ AlertMade'
  BY <1>1, <1>2, <1>4 DEF StoryInv, HandoffReady, AlertMade, Moved
<1>7. faults = 0 => Copied' /\ Agree'
  BY <1>1, <1>2, <1>3, <1>4, <1>5 DEF StoryInv, Copied, Agree, Moved
<1>8. faults = 0 => KeptPromise'
  BY <1>1, <1>2, <1>4 DEF StoryInv, KeptPromise, Handed, Moved
<1> QED
  BY <1>4, <1>6, <1>7, <1>8 DEF StoryInv

LEMMA StoryStep ==
  ASSUME IInv, StoryInv, Next
  PROVE  StoryInv'
<1>1. TypeInv /\ ReadyInv
  BY DEF IInv
<1>2. ASSUME NEW m \in Arrivals, Arrive(m) PROVE StoryInv'
  BY <1>1, <1>2, ArriveStory
<1>3. CASE LoadFacts
  BY <1>1, <1>3, LoadStory
<1>4. CASE NotePhone
  BY <1>1, <1>4, NotePhoneStory
<1>5. ASSUME NEW c \in Answers, Classify(c) PROVE StoryInv'
  BY <1>1, <1>5, ClassifyStory
<1>6. CASE Skip \/ ClassifyFails
  BY <1>1, <1>6, UndecidedStory
<1>7. CASE Remember
  BY <1>1, <1>7, RememberStory
<1>8. CASE ApplyCRMState
  BY <1>1, <1>8, ApplyStory
<1>9. CASE Reply
  BY <1>1, <1>9, ReplyStory
<1>10. CASE Advance
  BY <1>1, <1>10, AdvanceStory
<1>11. CASE RecordFact \/ Send
  BY <1>1, <1>11, GoOnStory
<1>12. CASE SendCut \/ Crash \/ TrackFails \/ AlertFails
  BY <1>1, <1>12, CutsStory
<1>13. CASE Untracked
  BY <1>1, <1>13, UntrackedStory
<1>14. CASE TrackLead
  BY <1>1, <1>14, TrackStory
<1>15. CASE MarkUser
  BY <1>1, <1>15, MarkUserStory
<1>16. CASE Alert
  BY <1>1, <1>16, AlertStory
<1>17. CASE MarkNotified
  BY <1>1, <1>17, MarkStory
<1>18. ASSUME NEW e \in Edits, Edit(e) PROVE StoryInv'
  BY <1>1, <1>18, EditStory
<1> QED
  BY <1>2, <1>3, <1>4, <1>5, <1>6, <1>7, <1>8, <1>9, <1>10, <1>11, <1>12, <1>13, <1>14,
     <1>15, <1>16, <1>17, <1>18 DEF Next, Handle

LEMMA StoryInductive == IInv /\ StoryInv /\ [Next]_vars => StoryInv'
<1>1. ASSUME StoryInv, UNCHANGED vars PROVE StoryInv'
  <2>1. UNCHANGED <<client, lead, turn, faults, alerts, promised>>
    BY <1>1 DEF vars
  <2>2. Verdict' = Verdict
    BY <2>1, VerdictKept
  <2> QED
    BY <1>1, <2>1, <2>2 DEF StoryInv, HandoffReady, AlertMade, Copied, Agree, KeptPromise, Handed
<1> QED
  BY <1>1, StoryStep

LEMMA StoryInit == Init => StoryInv
<1> SUFFICES ASSUME Init PROVE StoryInv
  OBVIOUS
<1>1. turn.pc = "idle" /\ promised = FALSE
  BY NoTurnType DEF Init
<1>2. client.isLead = FALSE /\ lead.status = "none" /\ lead.notified = FALSE
  BY DEF Init, NewUser, NoLead
<1> QED
  BY <1>1, <1>2 DEF StoryInv, HandoffReady, AlertMade, Copied, Agree, KeptPromise

\* However the client's messages, the model's answers and a consultant's edits
\* come: unless a fault cut a turn short, a client who was handed to Diana for a
\* service has a lead, and she was told about it exactly once.
THEOREM HandoffsAreAlerted == Spec => []HandoffIsAlerted
<1>1. IInv /\ AlertInv /\ StoryInv => HandoffIsAlerted
  <2> SUFFICES ASSUME IInv, AlertInv, StoryInv, Quiet, promised, faults = 0
               PROVE  alerts = 1 /\ lead.notified
    BY DEF HandoffIsAlerted
  <2>1. promised = TRUE
    BY Zenon DEF IInv, TypeInv, CountInv
  <2>2. lead.notified = TRUE
    BY <2>1 DEF StoryInv, KeptPromise, Quiet
  <2>3. alerts >= 1 /\ alerts <= 1 /\ alerts \in Nat
    BY <2>2 DEF StoryInv, AlertMade, AlertInv, IInv, TypeInv, CountInv
  <2> QED
    BY <2>2, <2>3
<1> QED
  BY IInvInit, Inductive, AlertInit, AlertInductive, StoryInit, StoryInductive, <1>1, PTL DEF Spec

\* However they come: between turns, and unless a statement failed or a turn was
\* cut, the flag on the client's row says what the status of his lead says.
THEOREM LeadsAgree == Spec => []LeadAgreesWithUser
<1>1. IInv /\ StoryInv => LeadAgreesWithUser
  <2> SUFFICES ASSUME IInv, StoryInv, Quiet, faults = 0
               PROVE  client.isLead <=> lead.status = "qualified"
    BY DEF LeadAgreesWithUser
  <2>1. client.isLead = TRUE <=> lead.status = "qualified"
    BY DEF StoryInv, Agree, Quiet
  <2>2. client.isLead \in BOOLEAN
    BY UserFields DEF IInv, TypeInv, ClientInv
  <2> QED
    BY <2>1, <2>2
<1> QED
  BY IInvInit, Inductive, StoryInit, StoryInductive, <1>1, PTL DEF Spec

=============================================================================
