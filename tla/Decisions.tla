------------------------------ MODULE Decisions ------------------------------
(***************************************************************************)
(* The deterministic rules of one turn, as operators on their inputs:      *)
(*   - the token budget guard (internal/service/gate.go),                  *)
(*   - the response decision (internal/service/response_decision.go),      *)
(*   - the lead verdict (internal/service/lead.go).                        *)
(*                                                                         *)
(* Of a message only its kind is kept, of a confidence only whether it     *)
(* reaches the configured minimum; scores and wording are left out.        *)
(***************************************************************************)
EXTENDS Naturals

CONSTANTS Catalogue,        \* codes of the concrete services
          Languages,        \* languages the bot may answer in
          MaxCalls,         \* model calls per client and day; 0 is no cap
          AnalyzeUnmatched  \* whether an unmatched first message is analysed

ASSUME DecisionsAssumption ==
  /\ MaxCalls \in Nat
  /\ AnalyzeUnmatched \in BOOLEAN
  /\ Catalogue \cap {"other", "none", "greeting", "service_inquiry",
                     "other_legal_service", "callback_request", "irrelevant",
                     "unclear"} = {}
  /\ "none" \notin Languages

Services == Catalogue \cup {"other", "none"}

States == {"new", "waiting_intent", "qualifying", "service_identified",
           "waiting_contact", "ready_for_diana", "completed"}

\* ConversationState.Active
InFlow(state) ==
  state \in {"waiting_intent", "qualifying", "service_identified", "waiting_contact"}

HandedOff(state) == state \in {"ready_for_diana", "completed"}

\* What the gate sees of a text: empty (a picture without a caption), with a
\* legal trigger, an off-topic phrase, a pleasantry, or neither, short or long.
Texts == {"empty", "trigger", "off_topic", "small_talk", "short", "long"}

\* An intent that names a service is written as the service.
Intents == Catalogue \cup {"greeting", "service_inquiry", "other_legal_service",
                           "callback_request", "irrelevant", "unclear"}

LegalIntent(i) == i \notin {"greeting", "irrelevant", "unclear"}

ServiceFromIntent(i) ==
  IF i \in Catalogue THEN i ELSE IF i = "other_legal_service" THEN "other" ELSE "none"

\* What parseClassification lets through: an irrelevant message is never relevant.
Classifications ==
  {c \in [relevant: BOOLEAN, intent: Intents, service: Services, confident: BOOLEAN,
          unclear: BOOLEAN, language: Languages \cup {"none"}] :
     c.intent = "irrelevant" => ~c.relevant}

\* Seeded fault: the cap is checked one call too late.
CallsModelOverCap(text, state, calls, session) ==
  /\ text # "empty"
  /\ MaxCalls = 0 \/ calls <= MaxCalls
  /\ text = "trigger" \/ session

\* Gate.Evaluate: is the message worth a call of the model?
CallsModel(text, state, calls, session) ==
  /\ text # "empty"
  /\ MaxCalls = 0 \/ calls < MaxCalls
  /\ \/ text = "trigger"
     \/ session
     \/ /\ text \notin {"off_topic", "small_talk"}
        /\ InFlow(state) \/ (AnalyzeUnmatched /\ text = "long")

-----------------------------------------------------------------------------
(* The response decision *)

Decision(action, service, next) ==
  [respond |-> TRUE, action |-> action, service |-> service, next |-> next]

\* No reply, and no move to another state.
Silent == [respond |-> FALSE, action |-> "none", service |-> "none", next |-> "none"]

Decisions ==
  [respond: BOOLEAN,
   action: {"none", "service_menu", "clarify", "service_info", "ask_contact", "handoff"},
   service: Services,
   next: States \cup {"none"}]

\* What ShouldRespond reads besides the classification.
Situations ==
  [session: BOOLEAN, trigger: BOOLEAN, state: States, phone: BOOLEAN,
   asked: BOOLEAN, known: Services]

\* The classification's service, the intent's, or the one known already.
ServiceOf(s, c) ==
  IF c.service # "none" THEN c.service
  ELSE IF ServiceFromIntent(c.intent) # "none" THEN ServiceFromIntent(c.intent)
  ELSE s.known

OffTopic(s, c) ==
  ~c.relevant \/ c.intent = "irrelevant" \/ (c.intent = "greeting" /\ ~s.trigger)

Concrete(service) == service \notin {"none", "other"}

ContinuationState(state) == IF HandedOff(state) THEN state ELSE "qualifying"

\* The model could not be reached.
Fallback(s) ==
  IF s.trigger THEN Decision("service_menu", "none", "waiting_intent") ELSE Silent

\* Seeded fault: what was asked is not remembered.
AsksAgain(s, c) == c.unclear

\* A concrete service is on the table: one question, then the contact, then Diana.
Asks(s, c) == c.unclear /\ ~s.asked

ForService(s, c, service) ==
  IF Asks(s, c) THEN Decision("clarify", service, "qualifying")
  ELSE IF ~s.phone THEN Decision("ask_contact", service, "waiting_contact")
  ELSE Decision("service_info", service, "ready_for_diana")

\* Relevant, but no concrete service.
ForIntent(s, c, service) ==
  CASE c.intent \in {"service_inquiry", "other_legal_service", "unclear"} ->
         IF InFlow(s.state) THEN Decision("clarify", service, "qualifying")
                            ELSE Decision("service_menu", "none", "waiting_intent")
    [] c.intent = "callback_request" ->
         IF s.phone THEN Decision("handoff", service, "ready_for_diana")
                    ELSE Decision("ask_contact", service, "waiting_contact")
    [] OTHER ->
         IF InFlow(s.state) \/ s.session
           THEN Decision("clarify", service, ContinuationState(s.state)) ELSE Silent

\* The handoff already happened.
AfterHandoff(s, service) ==
  IF service \notin {"none", s.known} THEN Decision("clarify", service, "qualifying")
  ELSE IF s.session THEN Decision("service_info", service, s.state) ELSE Silent

LowConfidence(s, service) ==
  IF InFlow(s.state) \/ s.session THEN Decision("clarify", service, "qualifying")
  ELSE Fallback(s)

\* ShouldRespond, once the model answered: the first rule that applies.
ShouldRespond(s, c) ==
  LET service == ServiceOf(s, c) IN
  IF OffTopic(s, c) THEN
    IF s.session THEN Decision("clarify", service, ContinuationState(s.state)) ELSE Silent
  ELSE IF ~c.confident THEN LowConfidence(s, service)
  ELSE IF HandedOff(s.state) THEN AfterHandoff(s, service)
  ELSE IF Concrete(service) THEN ForService(s, c, service)
  ELSE ForIntent(s, c, service)

\* The decision is the question about a concrete service; the other clarifying
\* replies, which do not ask whether one was sent, are not meant.
IsQuestion(s, c) ==
  /\ ~OffTopic(s, c) /\ c.confident /\ ~HandedOff(s.state)
  /\ Concrete(ServiceOf(s, c)) /\ Asks(s, c)

-----------------------------------------------------------------------------
(* The lead verdict: Qualifier.Qualify *)

\* Whether there is a lead to record at all.
Tracks(service, c) == service # "none" \/ LegalIntent(c.intent)

\* Seeded fault: only the decision named after the handoff qualifies.
QualifiesOnAction(d, service, phone, c) ==
  d.action = "handoff" /\ service # "none" /\ phone /\ c.confident

Qualifies(d, service, phone, c) ==
  d.next = "ready_for_diana" /\ service # "none" /\ phone /\ c.confident

LeadStatus(d, service, phone, c) ==
  IF Qualifies(d, service, phone, c) THEN "qualified"
  ELSE IF service # "none" THEN "qualifying" ELSE "new"

=============================================================================
