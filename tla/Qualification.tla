---------------------------- MODULE Qualification ----------------------------
(***************************************************************************)
(* What the turns of one client make of him: the conversation state, the   *)
(* service, the phone number and the language of his users row, the lead,  *)
(* and the alert to Diana (internal/service/qualification.go from the      *)
(* session gate on, internal/repository/users.go and leads.go).            *)
(*                                                                         *)
(* The order lock makes turns follow one another (Conversation,            *)
(* OneTurnAtATime), so there is one turn at a time here. A consultant may  *)
(* edit the client in between two statements of a turn; a statement may    *)
(* fail; the process may die. No code closes a lead, so the client has at  *)
(* most one. The model is of one day: the budget is never refilled.        *)
(***************************************************************************)
EXTENDS Decisions

CONSTANTS Arrivals,   \* the messages the client may write
          Answers,    \* the classifications the model may return
          Edits,      \* what a consultant may set: a service or a language
          MaxTurns,   \* bound: messages of the client
          MaxEdits,   \* bound: edits of consultants
          MaxFaults   \* bound: failed statements, lost answers, cut turns, crashes

\* A message: its text, whether the provider says from which number it comes,
\* and whether the text contains a number.
Messages == {m \in [text: Texts, sender: BOOLEAN, number: BOOLEAN] :
               m.text = "empty" => ~m.number}

\* The model was not asked, or could not be reached.
NoAnswer == [relevant |-> FALSE, intent |-> "irrelevant", service |-> "none",
             confident |-> FALSE, unclear |-> FALSE, language |-> "none"]

ASSUME QualificationAssumption ==
  /\ Arrivals \subseteq Messages
  /\ Answers \subseteq Classifications \ {NoAnswer}
  /\ Edits \subseteq [what: {"service"}, to: Services] \cup [what: {"language"}, to: Languages]
  /\ MaxTurns \in Nat /\ MaxEdits \in Nat /\ MaxFaults \in Nat

VARIABLES client,     \* the users row
          asked,      \* the fact clarify_asked
          lead,       \* the client's open lead
          logged,     \* rows of ai_interactions today
          turn,       \* the turn under way: where it is, and its locals
          turns, edits, faults,
          \* history
          spent,      \* calls of the model
          questions,  \* how often a concrete service was asked about
          alerts,     \* alerts Diana received
          promised    \* the client was handed to Diana for a service

vars == <<client, asked, lead, logged, turn, turns, edits, faults, spent, questions,
          alerts, promised>>
history == <<spent, questions, alerts, promised>>
bounds == <<turns, edits>>

NoLead == [status |-> "none", service |-> "none", notified |-> FALSE]

\* The columns of the users row that turns and edits share.
Users == [state: States, service: Services, phone: BOOLEAN,
          language: Languages \cup {"none"}, locked: BOOLEAN, isLead: BOOLEAN]

Turn(step, user, msg) ==
  [pc |-> step, user |-> user, msg |-> msg, asked |-> FALSE,
   answer |-> NoAnswer, decision |-> Silent, touched |-> FALSE]

NewUser == [state |-> "new", service |-> "none", phone |-> FALSE,
            language |-> "none", locked |-> FALSE, isLead |-> FALSE]

NoMessage == [text |-> "empty", sender |-> FALSE, number |-> FALSE]

NoTurn == Turn("idle", NewUser, NoMessage)

TypeOK ==
  /\ client \in Users
  /\ asked \in BOOLEAN
  /\ lead \in [status: {"none", "new", "qualifying", "qualified"}, service: Services,
               notified: BOOLEAN]
  /\ logged \in Nat /\ spent \in Nat /\ questions \in Nat /\ alerts \in Nat
  /\ turn \in [pc: {"idle", "facts", "phone", "gate", "remember", "crm", "reply", "state",
                    "fact", "send", "lead", "user", "alert", "mark"},
               user: Users, msg: Messages, asked: BOOLEAN,
               answer: Classifications \cup {NoAnswer}, decision: Decisions,
               touched: BOOLEAN]
  /\ turns \in 0 .. MaxTurns /\ edits \in 0 .. MaxEdits /\ faults \in 0 .. MaxFaults
  /\ promised \in BOOLEAN

Init ==
  /\ client = NewUser
  /\ asked = FALSE
  /\ lead = NoLead
  /\ logged = 0
  /\ turn = NoTurn
  /\ turns = 0 /\ edits = 0 /\ faults = 0
  /\ spent = 0 /\ questions = 0 /\ alerts = 0 /\ promised = FALSE

Fault == faults < MaxFaults /\ faults' = faults + 1

Goto(step) == turn' = [turn EXCEPT !.pc = step]
Done == turn' = NoTurn

\* A statement on the users row that may fail; its error is only logged.
Writes(c) ==
  \/ client' = c /\ UNCHANGED faults
  \/ UNCHANGED client /\ Fault

-----------------------------------------------------------------------------
(* One turn *)

\* Upsert: a known number is never overwritten with an empty one.
Arrive(m) ==
  /\ turn.pc = "idle" /\ turns < MaxTurns
  /\ turns' = turns + 1
  /\ client' = [client EXCEPT !.phone = @ \/ m.sender]
  /\ turn' = Turn("facts", client', m)
  /\ UNCHANGED <<asked, lead, logged, edits, faults, history>>

\* Facts that cannot be loaded count as none.
LoadFacts ==
  /\ turn.pc = "facts"
  /\ \/ turn' = [turn EXCEPT !.pc = "phone", !.asked = asked] /\ UNCHANGED faults
     \/ turn' = [turn EXCEPT !.pc = "phone", !.asked = FALSE] /\ Fault
  /\ UNCHANGED <<client, asked, lead, logged, bounds, history>>

\* A number in the text is kept, if the statement succeeds.
NotePhone ==
  /\ turn.pc = "phone"
  /\ IF turn.msg.number
       THEN /\ Writes([client EXCEPT !.phone = TRUE])
            /\ turn' = [turn EXCEPT !.pc = "gate",
                          !.user.phone = @ \/ faults' = faults]
       ELSE Goto("gate") /\ UNCHANGED <<client, faults>>
  /\ UNCHANGED <<asked, lead, logged, bounds, history>>

Situation ==
  [session |-> TRUE, trigger |-> turn.msg.text = "trigger", state |-> turn.user.state,
   phone |-> turn.user.phone, asked |-> turn.asked, known |-> turn.user.service]

\* Decided: the turn goes on with a classification and a decision.
Decided(c, d) ==
  turn' = [turn EXCEPT !.pc = "remember", !.answer = c, !.decision = d]

Admits(calls) == CallsModel(turn.msg.text, turn.user.state, calls, TRUE)

\* The gate keeps the model out of it: silence.
Skip ==
  /\ turn.pc = "gate" /\ ~Admits(logged)
  /\ Decided(NoAnswer, Silent)
  /\ UNCHANGED <<client, asked, lead, logged, bounds, faults, history>>

\* A call leaves a row in ai_interactions; when the row cannot be written that is
\* only a warning, and the call is not counted later.
Logs ==
  \/ logged' = logged + 1 /\ UNCHANGED faults
  \/ UNCHANGED logged /\ Fault

\* Calls of today that cannot be counted count as none, and the row of such a turn's
\* call may be lost as well.
CallModel ==
  /\ spent' = spent + 1
  /\ \/ Admits(logged) /\ Logs
     \/ Admits(0) /\ \E lost \in {0, 1} :
                       /\ logged' = logged + 1 - lost
                       /\ faults' = faults + 1 + lost /\ faults' <= MaxFaults

Classify(c) ==
  /\ turn.pc = "gate" /\ CallModel
  /\ Decided(c, ShouldRespond(Situation, c))
  /\ questions' = questions + (IF IsQuestion(Situation, c) THEN 1 ELSE 0)
  /\ UNCHANGED <<client, asked, lead, bounds, alerts, promised>>

ClassifyFails ==
  /\ turn.pc = "gate" /\ CallModel
  /\ Decided(NoAnswer, Fallback(Situation))
  /\ UNCHANGED <<client, asked, lead, bounds, questions, alerts, promised>>

\* The service this turn learned, if any.
Learned == IF turn.decision.service # "none" THEN turn.decision.service
           ELSE turn.answer.service

Keep(new, old) == IF new # "none" THEN new ELSE old

\* Seeded fault: the whole row is written back.
WithWholeRow(c, u) ==
  [c EXCEPT !.language = u.language, !.state = u.state, !.service = u.service,
            !.isLead = u.isLead, !.phone = u.phone]

\* Seeded fault: the lead flag is left out of the statement.
WithoutLeadFlag(c, u) ==
  [c EXCEPT !.language = Keep(u.language, @), !.state = u.state,
            !.service = Keep(u.service, @), !.phone = @ \/ u.phone]

\* UserRepository.UpdateQualification: empty values leave the column alone, and
\* language_locked is not asked.
WithQualification(c, u) ==
  [c EXCEPT !.language = Keep(u.language, @),
            !.state = u.state,
            !.service = Keep(u.service, @),
            !.isLead = u.isLead,
            !.phone = @ \/ u.phone]

\* rememberContext
Remember ==
  /\ turn.pc = "remember"
  /\ turn' = [turn EXCEPT !.pc = "crm",
                !.user.language = Keep(turn.answer.language, @),
                !.user.service = Keep(Learned, @)]
  /\ Writes(WithQualification(client, turn'.user))
  /\ UNCHANGED <<asked, lead, logged, bounds, history>>

\* ApplyAIState writes the service again, and the language unless it is locked.
ApplyCRMState ==
  /\ turn.pc = "crm"
  /\ Writes([client EXCEPT
       !.service = Keep(Learned, @),
       !.language = IF client.locked THEN @ ELSE Keep(turn.answer.language, @)])
  /\ IF turn.decision.respond THEN Goto("reply") ELSE Done
  /\ UNCHANGED <<asked, lead, logged, bounds, history>>

\* The agent writes the reply unless the classifier could not be reached; when
\* it fails the template is used. Either way the call was made. Every action has a
\* text (Compose), so the early return on an empty one is not taken.
Reply ==
  /\ turn.pc = "reply"
  /\ IF turn.answer # NoAnswer
       THEN spent' = spent + 1 /\ Logs
       ELSE UNCHANGED <<spent, logged, faults>>
  /\ Goto("state")
  /\ UNCHANGED <<client, asked, lead, bounds, questions, alerts, promised>>

\* advanceState: when the statement fails the turn goes on in the old state.
Advance ==
  /\ turn.pc = "state"
  /\ \/ /\ turn.decision.next # turn.user.state
        /\ client' = [client EXCEPT !.state = turn.decision.next]
        /\ turn' = [turn EXCEPT !.pc = "fact", !.user.state = turn.decision.next]
        /\ promised' = (promised \/
             (turn.decision.next = "ready_for_diana" /\ turn.decision.service # "none"))
        /\ UNCHANGED faults
     \/ /\ turn.decision.next # turn.user.state
        /\ Goto("fact") /\ Fault /\ UNCHANGED <<client, promised>>
     \/ /\ turn.decision.next = turn.user.state
        /\ Goto("fact") /\ UNCHANGED <<client, promised, faults>>
  /\ UNCHANGED <<asked, lead, logged, bounds, spent, questions, alerts>>

\* recordReplyFacts; the menu and the contact request are recorded too, but
\* nothing reads those facts.
RecordFact ==
  /\ turn.pc = "fact"
  /\ \/ asked' = (asked \/ turn.decision.action = "clarify") /\ UNCHANGED faults
     \/ turn.decision.action = "clarify" /\ UNCHANGED asked /\ Fault
  /\ Goto("send")
  /\ UNCHANGED <<client, lead, logged, bounds, history>>

\* A send that failed does not lose the lead; a cancelled one ends the turn.
Send ==
  /\ turn.pc = "send"
  /\ Goto("lead")
  /\ UNCHANGED <<client, asked, lead, logged, bounds, faults, history>>

SendCut ==
  /\ turn.pc = "send"
  /\ Done /\ Fault
  /\ UNCHANGED <<client, asked, lead, logged, bounds, history>>

Service == Keep(turn.decision.service, turn.user.service)

Verdict == LeadStatus(turn.decision, Service, turn.user.phone, turn.answer)

\* LeadRepository.Upsert: the open lead's status is replaced, its service kept
\* when there is none to write.
WithVerdict == [lead EXCEPT !.status = Verdict, !.service = Keep(Service, @)]

Untracked ==
  /\ turn.pc = "lead" /\ ~Tracks(Service, turn.answer)
  /\ Done
  /\ UNCHANGED <<client, asked, lead, logged, bounds, faults, history>>

TrackLead ==
  /\ turn.pc = "lead" /\ Tracks(Service, turn.answer)
  /\ lead' = WithVerdict
  /\ Goto("user")
  /\ UNCHANGED <<client, asked, logged, bounds, faults, history>>

\* One of Upsert's statements fails, before or after the row was written.
TrackFails ==
  /\ turn.pc = "lead" /\ Tracks(Service, turn.answer)
  /\ lead' \in {lead, WithVerdict}
  /\ Done /\ Fault
  /\ UNCHANGED <<client, asked, logged, bounds, history>>

\* Seeded fault: every qualifying turn alerts.
NeedsAlertAgain == lead.status = "qualified"

NeedsAlert == lead.status = "qualified" /\ ~lead.notified

\* The lead fields of the user, from this turn's copy of the user.
MarkUser ==
  /\ turn.pc = "user"
  /\ Writes(WithQualification(client, [turn.user EXCEPT !.isLead = (Verdict = "qualified")]))
  /\ IF NeedsAlert THEN Goto("alert") ELSE Done
  /\ UNCHANGED <<asked, lead, logged, bounds, history>>

\* notify: Diana's alert goes out, then the lead is marked. There is a recipient:
\* without one the configuration is refused at the start.
Alert ==
  /\ turn.pc = "alert"
  /\ alerts' = alerts + 1
  /\ Goto("mark")
  /\ UNCHANGED <<client, asked, lead, logged, bounds, faults, spent, questions, promised>>

\* The send fails, or its answer is lost: the lead stays unmarked.
AlertFails ==
  /\ turn.pc = "alert"
  /\ alerts' \in {alerts, alerts + 1}
  /\ Done /\ Fault
  /\ UNCHANGED <<client, asked, lead, logged, bounds, spent, questions, promised>>

MarkNotified ==
  /\ turn.pc = "mark"
  /\ \/ lead' = [lead EXCEPT !.notified = TRUE] /\ UNCHANGED faults
     \/ UNCHANGED lead /\ Fault
  /\ Done
  /\ UNCHANGED <<client, asked, logged, bounds, history>>

\* The process dies; a message that was stored is not taken again.
Crash ==
  /\ turn.pc # "idle"
  /\ Done /\ Fault
  /\ UNCHANGED <<client, asked, lead, logged, bounds, history>>

\* CRMService.UpdateClient by a consultant, at any moment.
Edit(e) ==
  /\ edits < MaxEdits
  /\ edits' = edits + 1
  /\ client' = IF e.what = "service" THEN [client EXCEPT !.service = e.to]
               ELSE [client EXCEPT !.language = e.to, !.locked = TRUE]
  /\ turn' = [turn EXCEPT !.touched = turn.pc # "idle"]
  /\ UNCHANGED <<asked, lead, logged, turns, faults, history>>

Handle ==
  \/ \E m \in Arrivals : Arrive(m)
  \/ LoadFacts \/ NotePhone \/ Skip
  \/ \E c \in Answers : Classify(c)
  \/ ClassifyFails \/ Remember \/ ApplyCRMState \/ Reply \/ Advance \/ RecordFact
  \/ Send \/ SendCut \/ Untracked \/ TrackLead \/ TrackFails \/ MarkUser \/ Alert
  \/ AlertFails \/ MarkNotified

Next ==
  \/ Handle
  \/ Crash
  \/ \E e \in Edits : Edit(e)

Spec == Init /\ [][Next]_vars

-----------------------------------------------------------------------------
(* Properties *)

Quiet == turn.pc = "idle"

\* Diana is alerted once per lead ("Diana is alerted exactly once per lead"),
\* and once more only for a fault: a lost answer, a mark that failed, a crash.
AlertedOnce == alerts <= 1 + faults

\* A client who was handed to Diana for a service has a lead she was told about,
\* unless a fault cut the turn short.
HandoffIsAlerted == Quiet /\ promised /\ faults = 0 => alerts = 1 /\ lead.notified

\* A lead and its user tell the same story between turns.
LeadAgreesWithUser ==
  Quiet /\ faults = 0 => (client.isLead <=> lead.status = "qualified")

\* The question about a concrete service is put once, however the service, the state
\* or the phone number change, unless a fault intervened ("ClarifyAlreadyAsked
\* prevents the bot from asking the same clarification question twice"). The other
\* clarifying replies - to an unsure classification, to an off-topic remark, without
\* a concrete service, after the handoff - do not look at ClarifyAlreadyAsked, and
\* may be repeated: the property is not about them.
ServiceAskedOnce == questions <= 1 + faults

\* A turn is admitted while the calls that were counted are below the cap, and makes
\* two: the cap is exceeded by one call at most, and by two for each failed count,
\* lost row or crash.
BudgetHolds == MaxCalls > 0 => spent <= MaxCalls + 1 + 2 * faults

\* What a turn does not know it does not erase, although it writes back a copy of
\* the user that is as old as the turn (UpdateQualification).
NothingForgotten ==
  [][turn' # turn /\ ~(turn'.touched /\ ~turn.touched) =>
       /\ client.phone => client'.phone
       /\ client.service # "none" => client'.service # "none"
       /\ client.language # "none" => client'.language # "none"]_vars

=============================================================================
