---------------------------- MODULE StateMachine ----------------------------
(***************************************************************************)
(* The conversation state machine of one lead, on its own: the stage, the  *)
(* pipeline status and the mode under any sequence of assistant turns,     *)
(* with every suggestion a model could make, and of operations by several  *)
(* consultants.                                                            *)
(*                                                                         *)
(* A turn is atomic here: it reads and writes the same record, and it may  *)
(* have passed the gate before a consultant closed it. What interleaving   *)
(* adds to a turn is the subject of Conversation. Only the takeover is     *)
(* split, into the statement that loads the mode and the one that swaps it.*)
(***************************************************************************)
EXTENDS CRMDomain, FiniteSets

CONSTANTS Consultants, None

ASSUME NoneAssumption == None \notin Modes

VARIABLES stage,    \* users.qualification_stage
          status,   \* users.crm_status
          mode,     \* users.conversation_mode
          by,       \* who made the last move, and whether it asked for a human
          saw,      \* the mode a takeover under way has loaded, or None
          winners   \* whose takeover switched the lead to human mode since it was last not
                    \* human

vars == <<stage, status, mode, by, saw, winners>>

TypeOK ==
  /\ stage \in Stages
  /\ status \in Statuses
  /\ mode \in Modes
  /\ by \in {"none", "model", "model_needs_human", "consultant"}
  /\ saw \in [Consultants -> Modes \cup {None}]
  /\ winners \in SUBSET Consultants

Init ==
  /\ stage = NewClient.stage
  /\ status = NewClient.status
  /\ mode = NewClient.mode
  /\ by = "none"
  /\ saw = [c \in Consultants |-> None]
  /\ winners = {}

\* applyCRMState with one outcome of the classifier and the reply decision.
ModelTurn(o) ==
  /\ stage' = TurnStage(stage, o)
  /\ status' = TurnStatus(stage, status, o)
  /\ by' = IF o.needsHuman THEN "model_needs_human" ELSE "model"
  /\ UNCHANGED <<mode, saw, winners>>

\* A consultant rewrites status and mode.
Rewrite(newStatus, newMode) ==
  /\ status' = newStatus
  /\ mode' = newMode
  /\ by' = "consultant"
  /\ UNCHANGED stage

\* CRMService.SetStatus by a consultant.
SetStatus(s) ==
  /\ ManualStatusAllowed(s)
  /\ Rewrite(s, mode)
  /\ UNCHANGED <<saw, winners>>

Record == [NewClient EXCEPT !.status = status, !.mode = mode]

\* TakeOver loads the client. One that is in human mode is returned as it is, with
\* the consultant who has it, and the call ends in success: it is idempotent.
LoadForTakeOver(c) ==
  /\ saw[c] = None
  /\ saw' = [saw EXCEPT ![c] = IF mode = "human" THEN None ELSE mode]
  /\ UNCHANGED <<stage, status, mode, by, winners>>

\* Seeded fault: SetMode is called without the expected mode.
SwapUnconditional(c) == TRUE

\* The condition of the UPDATE: the mode is still the one that was loaded.
SwapMatches(c) == mode = saw[c]

\* The compare-and-swap of TakeOver: the status follows the mode, or the
\* consultant is told that the state changed concurrently.
TakeOver(c) ==
  /\ saw[c] # None
  /\ saw' = [saw EXCEPT ![c] = None]
  /\ \/ /\ SwapMatches(c)
        /\ Rewrite(WithMode(Record, "human").status, "human")
        /\ winners' = winners \cup {c}
     \/ /\ ~SwapMatches(c)
        /\ UNCHANGED <<stage, status, mode, by, winners>>

\* SendMessage takes the lead over without a condition, and tells nobody.
SpeakUp ==
  /\ Rewrite(WithMode(Record, "human").status, "human")
  /\ UNCHANGED <<saw, winners>>

\* ResumeAI and PauseAI: SetMode without an expected mode.
HandBack(m) ==
  /\ Rewrite(WithMode(Record, m).status, m)
  /\ winners' = {}
  /\ UNCHANGED saw

Block ==
  /\ Rewrite("blocked", WithBlock(Record).mode)
  /\ winners' = {}
  /\ UNCHANGED saw

Unblock ==
  /\ Rewrite(WithoutBlock(Record).status, WithoutBlock(Record).mode)
  /\ winners' = {}
  /\ UNCHANGED saw

Next ==
  \/ \E o \in Outcomes : ModelTurn(o)
  \/ \E s \in Statuses : SetStatus(s)
  \/ \E c \in Consultants : LoadForTakeOver(c) \/ TakeOver(c)
  \/ SpeakUp
  \/ \E m \in {"ai", "paused"} : HandBack(m)
  \/ Block
  \/ Unblock

Spec == Init /\ [][Next]_vars

-----------------------------------------------------------------------------
(* Properties *)

\* No suggestion of the model moves a lead into or out of a terminal or a
\* consultant-owned status, nor out of "needs_consultant": those are human
\* decisions (statemachine.go, NextStatus and its header).
ModelStaysOffHumanStatuses ==
  [][by' \in {"model", "model_needs_human"} /\ status' # status
       => status \in AIStatuses \ {"needs_consultant"} /\ status' \in AIStatuses]_vars

\* A turn that decides the client needs a human leaves the lead where a human
\* will see it, whatever its stage and status were before and whatever else
\* the model suggested (StatusForStage followed by NextStatus).
EscalationReachesConsultant ==
  [][by' = "model_needs_human"
       => status' \in {"needs_consultant"} \cup ConsultantOwned \cup Terminal]_vars

\* Of the consultants who press "Take over" at the same moment one wins: between
\* two hand-backs one takeover switches the lead, whatever the others loaded and
\* when (SetMode as a compare-and-swap, docs/CRM.md:158). Whoever loaded it before is
\* told of a conflict; whoever loads it afterwards gets it as it is, and is no winner.
TakeOverWinsOnce == Cardinality(winners) <= 1

=============================================================================
