---------------------------- MODULE MCConversation ----------------------------
(* Instances of Conversation small enough for TLC. *)
EXTENDS Conversation, TLC

CONSTANTS w1, w2, c1, c2, m1, m2

TwoWorkers == {w1, w2}
OneWorker == {w1}
OneConsultant == {c1}
TwoMessages == {m1, m2}
FirstMessage == {m1}

\* Outcomes of a turn: the lead is qualified, a human is needed, nothing is said.
Qualifies == [stage |-> "qualifying", status |-> "qualified", needsHuman |-> FALSE,
              action |-> "service_info", service |-> TRUE]
Escalates == [stage |-> "qualifying", status |-> "qualified", needsHuman |-> TRUE,
              action |-> "clarify", service |-> FALSE]
SaysNothing == [stage |-> "waiting_for_client", status |-> "won", needsHuman |-> FALSE,
                action |-> "none", service |-> FALSE]

ThreeAnswers == {Qualifies, Escalates, SaysNothing}
TwoAnswers == {Qualifies, Escalates}
OneAnswer == {Qualifies}

TakeOverOp == [kind |-> "take_over"]
ResumeOp == [kind |-> "resume_ai"]
PauseOp == [kind |-> "pause_ai"]
BlockOp == [kind |-> "block"]
UnblockOp == [kind |-> "unblock"]
SendOp == [kind |-> "send_message"]
CloseOp == [kind |-> "set_status", to |-> "closed"]
EditOp == [kind |-> "update_client", to |-> "new"]

AllOps == {TakeOverOp, ResumeOp, PauseOp, BlockOp, UnblockOp, SendOp, CloseOp, EditOp}

TakeOverOrSend == {TakeOverOp, SendOp}

NoOps == {}

NoFaults == {}
AllFaults == Statements
NoneHasty == {}
HastyWorkers == TwoWorkers
NoConsultants == {}

Alike == Permutations(TwoWorkers)
=============================================================================
