------------------------------ MODULE CRMDomain ------------------------------
(***************************************************************************)
(* The vocabulary of the CRM record and the pure decisions taken over it:  *)
(* internal/domain/crm.go, internal/service/statemachine.go, the gate of   *)
(* internal/service/pipeline_crm.go and the UPDATE statements of           *)
(* internal/repository/crm.go that touch the automation interlock.         *)
(*                                                                         *)
(* There is no behaviour here. StateMachine, Conversation and FollowUps    *)
(* build their actions from these operators.                               *)
(***************************************************************************)
EXTENDS Naturals

-----------------------------------------------------------------------------
(* Pipeline statuses *)

\* Statuses the assistant may give to a lead.
AIStatuses == {"new", "ai_processing", "needs_qualification", "qualified",
               "waiting_for_client", "needs_consultant"}

\* Statuses of a lead a consultant is working on.
ConsultantOwned == {"consultant_processing", "consultation_scheduled",
                    "in_progress"}

Terminal == {"won", "closed", "lost", "blocked"}

Statuses == AIStatuses \cup ConsultantOwned \cup Terminal

\* The empty string is what an absent or unknown suggestion amounts to.
NoStatus == ""

\* Seeded fault: a qualified lead can no longer be escalated.
TransitionsWithoutEscalation ==
  [s \in AIStatuses |->
     CASE s = "new"                 -> AIStatuses \ {"new"}
       [] s = "ai_processing"       -> AIStatuses \ {"new", "ai_processing"}
       [] s = "needs_qualification" -> AIStatuses \ {"new", "needs_qualification"}
       [] s = "qualified"           -> {"waiting_for_client"}
       [] s = "waiting_for_client"  -> AIStatuses \ {"new", "waiting_for_client"}
       [] s = "needs_consultant"    -> {}]

\* Statuses absent from the table are reachable only by a human.
Transitions ==
  [s \in AIStatuses |->
     CASE s = "new"                 -> AIStatuses \ {"new"}
       [] s = "ai_processing"       -> AIStatuses \ {"new", "ai_processing"}
       [] s = "needs_qualification" -> AIStatuses \ {"new", "needs_qualification"}
       [] s = "qualified"           -> {"needs_consultant", "waiting_for_client"}
       [] s = "waiting_for_client"  -> AIStatuses \ {"new", "waiting_for_client"}
       [] s = "needs_consultant"    -> {}]

\* Seeded fault: the check that the current status is one the assistant may
\* move away from was forgotten.
NextStatusUnguarded(current, suggested) ==
  IF suggested \in AIStatuses THEN suggested ELSE current

\* The status a turn may write: the suggestion when it is a legal move of the
\* assistant, the current status otherwise. The rejections of terminal and
\* consultant-owned statuses on either side are the domain and the range of
\* the table.
NextStatus(current, suggested) ==
  IF current \in AIStatuses /\ suggested \in Transitions[current]
    THEN suggested
    ELSE current

ManualStatusAllowed(s) == s \in Statuses \ {"blocked"}

-----------------------------------------------------------------------------
(* Qualification stages *)

NoStage == ""

StageRank ==
  [s \in {NoStage, "language_detected", "intent_detected", "qualifying",
          "qualified", "waiting_for_client", "consultant_required",
          "human_takeover", "converted"} |->
     CASE s = NoStage               -> 0
       [] s = "language_detected"   -> 1
       [] s = "intent_detected"     -> 2
       [] s = "qualifying"          -> 3
       [] s = "qualified"           -> 4
       [] s = "waiting_for_client"  -> 5
       [] s = "consultant_required" -> 6
       [] s = "human_takeover"      -> 7
       [] s = "converted"           -> 8]

Stages == DOMAIN StageRank

Escalations == {"consultant_required", "human_takeover"}

\* Escalation is accepted from anywhere; a finished conversation accepts
\* nothing else; the holding stage may be re-entered; otherwise progress is
\* forward.
NextStage(current, suggested) ==
  IF /\ suggested \in Stages \ {NoStage}
     /\ \/ suggested \in Escalations
        \/ /\ current \notin {"converted", "human_takeover"}
           /\ \/ suggested = "waiting_for_client"
              \/ StageRank[suggested] >= StageRank[current]
    THEN suggested
    ELSE current

\* The status a stage implies. needsHuman overrides every stage.
StatusForStage(stage, needsHuman) ==
  IF needsHuman THEN "needs_consultant"
  ELSE CASE stage = "consultant_required"              -> "needs_consultant"
         [] stage = "human_takeover"                   -> "consultant_processing"
         [] stage = "qualified"                        -> "qualified"
         [] stage = "waiting_for_client"               -> "waiting_for_client"
         [] stage \in {"qualifying", "intent_detected"} -> "needs_qualification"
         [] stage = "language_detected"                -> "ai_processing"
         [] OTHER                                      -> NoStatus

Actions == {"none", "service_menu", "clarify", "ask_contact", "service_info",
            "handoff"}

\* The stage the deterministic reply decision implies.
StageForDecision(action, hasService) ==
  CASE action = "service_menu"            -> "intent_detected"
    [] action \in {"clarify", "ask_contact"} -> "qualifying"
    [] action \in {"service_info", "handoff"} ->
         IF hasService THEN "qualified" ELSE "qualifying"
    [] OTHER                              -> NoStage

-----------------------------------------------------------------------------
(* One assistant turn over a stage and a status: the fold applyCRMState      *)
(* computes before it writes anything.                                       *)

\* What the classifier and the reply decision hand to applyCRMState. When the
\* classifier was not called, or failed, its three fields are empty.
Outcomes == [stage: Stages, status: Statuses \cup {NoStatus},
             needsHuman: BOOLEAN, action: Actions, service: BOOLEAN]

TurnStage(stage, o) ==
  LET derived == NextStage(NextStage(stage, o.stage),
                           StageForDecision(o.action, o.service))
  IN  IF o.needsHuman THEN NextStage(derived, "consultant_required") ELSE derived

\* Seeded fault: the implied status is written without validation.
TurnStatusUnvalidated(stage, status, o) ==
  StatusForStage(TurnStage(stage, o), o.needsHuman)

TurnStatus(stage, status, o) ==
  LET implied == StatusForStage(TurnStage(stage, o), o.needsHuman)
  IN  NextStatus(status, IF implied # NoStatus THEN implied ELSE o.status)

-----------------------------------------------------------------------------
(* The client record and the statements that rewrite it *)

Modes == {"ai", "human", "paused"}

ClientRecords == [status: Statuses, stage: Stages, mode: Modes,
                  aiEnabled: BOOLEAN, blocked: BOOLEAN, session: BOOLEAN]

\* The row of a contact at the first message: every column has its default.
NewClient == [status |-> "new", stage |-> NoStage, mode |-> "ai",
              aiEnabled |-> TRUE, blocked |-> FALSE, session |-> FALSE]

\* Seeded fault: the gate forgets the conversation mode and the AI switch.
CrmGateIgnoringMode(c) == ~c.blocked /\ c.status \notin Terminal

\* May automation answer a message of this client?
CrmGate(c) ==
  /\ ~c.blocked
  /\ c.mode \notin {"human", "paused"}
  /\ c.aiEnabled
  /\ c.status \notin Terminal

\* May automation speak at all, follow-ups included?
AutomationAllowed(c) ==
  /\ c.session
  /\ ~c.blocked
  /\ c.aiEnabled
  /\ c.mode = "ai"
  /\ c.status \notin Terminal

\* SetMode: human mode also moves an open lead to the consultants' side.
WithMode(c, m) ==
  [c EXCEPT !.mode = m, !.aiEnabled = (m = "ai"),
            !.status = IF m = "human" /\ @ \in AIStatuses
                         THEN "consultant_processing" ELSE @]

WithBlock(c) ==
  [c EXCEPT !.blocked = TRUE, !.status = "blocked", !.aiEnabled = FALSE,
            !.mode = "paused"]

WithoutBlock(c) ==
  [c EXCEPT !.blocked = FALSE, !.aiEnabled = TRUE, !.mode = "ai",
            !.status = IF @ = "blocked" THEN "needs_qualification" ELSE @]

\* ApplyAIState: an empty value leaves the stored one alone.
WithAIState(c, status, stage) ==
  [c EXCEPT !.status = IF status # NoStatus THEN status ELSE @,
            !.stage = IF stage # NoStage THEN stage ELSE @]

=============================================================================
