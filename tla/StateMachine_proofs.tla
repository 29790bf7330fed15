------------------------- MODULE StateMachine_proofs -------------------------
(***************************************************************************)
(* What StateMachine guarantees for any number of consultants: the record  *)
(* stays well formed, the model moves no lead a human owns, an escalation  *)
(* reaches a human, and a takeover is won once.                            *)
(***************************************************************************)
EXTENDS StateMachine, FiniteSetTheorems, TLAPS

LEMMA Vocabulary ==
  /\ AIStatuses \subseteq Statuses
  /\ "consultant_processing" \in Statuses /\ "blocked" \in Statuses
  /\ "needs_qualification" \in Statuses /\ "new" \in Statuses
  /\ NoStage \in Stages /\ Escalations \subseteq Stages
  BY DEF AIStatuses, ConsultantOwned, Terminal, Statuses, NoStage, Stages, StageRank, Escalations

-----------------------------------------------------------------------------
(* The tables *)

\* The table never leads out of the assistant's statuses, out of "needs_consultant" not
\* at all, and from all others there is an escalation.
LEMMA TableStays ==
  ASSUME NEW s \in AIStatuses
  PROVE  /\ Transitions[s] \subseteq AIStatuses
         /\ s = "needs_consultant" => Transitions[s] = {}
         /\ s # "needs_consultant" => "needs_consultant" \in Transitions[s]
<1>1. s \in {"new", "ai_processing", "needs_qualification", "qualified",
             "waiting_for_client", "needs_consultant"}
  BY DEF AIStatuses
<1>2. Transitions[s] =
        CASE s = "new"                 -> AIStatuses \ {"new"}
          [] s = "ai_processing"       -> AIStatuses \ {"new", "ai_processing"}
          [] s = "needs_qualification" -> AIStatuses \ {"new", "needs_qualification"}
          [] s = "qualified"           -> {"needs_consultant", "waiting_for_client"}
          [] s = "waiting_for_client"  -> AIStatuses \ {"new", "waiting_for_client"}
          [] s = "needs_consultant"    -> {}
  BY DEF Transitions
<1>3. CASE s = "new"
  BY <1>2, <1>3 DEF AIStatuses
<1>4. CASE s = "ai_processing"
  BY <1>2, <1>4 DEF AIStatuses
<1>5. CASE s = "needs_qualification"
  BY <1>2, <1>5 DEF AIStatuses
<1>6. CASE s = "qualified"
  BY <1>2, <1>6 DEF AIStatuses
<1>7. CASE s = "waiting_for_client"
  BY <1>2, <1>7 DEF AIStatuses
<1>8. CASE s = "needs_consultant"
  BY <1>2, <1>8 DEF AIStatuses
<1> QED
  BY <1>1, <1>3, <1>4, <1>5, <1>6, <1>7, <1>8

\* Whatever is suggested, the status stays or moves among the assistant's own.
LEMMA NextStatusMoves ==
  ASSUME NEW current \in Statuses, NEW suggested
  PROVE  /\ NextStatus(current, suggested) \in Statuses
         /\ NextStatus(current, suggested) # current =>
              /\ current \in AIStatuses \ {"needs_consultant"}
              /\ NextStatus(current, suggested) \in AIStatuses
<1>1. CASE current \in AIStatuses /\ suggested \in Transitions[current]
  <2>1. NextStatus(current, suggested) = suggested
    BY <1>1 DEF NextStatus
  <2> QED
    BY <1>1, <2>1, TableStays, Vocabulary
<1>2. CASE ~(current \in AIStatuses /\ suggested \in Transitions[current])
  BY <1>2 DEF NextStatus
<1> QED
  BY <1>1, <1>2

\* An escalation is refused by nobody but those who are with a human already.
LEMMA NextStatusEscalates ==
  ASSUME NEW current \in Statuses
  PROVE  NextStatus(current, "needs_consultant")
           \in {"needs_consultant"} \cup ConsultantOwned \cup Terminal
<1>1. CASE current \in AIStatuses \ {"needs_consultant"}
  BY <1>1, TableStays DEF NextStatus
<1>2. CASE current = "needs_consultant"
  <2>1. current \in AIStatuses
    BY <1>2 DEF AIStatuses
  <2> QED
    BY <1>2, <2>1, TableStays DEF NextStatus
<1>3. CASE current \in ConsultantOwned \cup Terminal
  <2>1. current \notin AIStatuses
    BY <1>3 DEF ConsultantOwned, Terminal, AIStatuses
  <2> QED
    BY <1>3, <2>1 DEF NextStatus
<1> QED
  BY <1>1, <1>2, <1>3 DEF Statuses

\* The turn of an outcome that asks for a human.
LEMMA TurnEscalates ==
  ASSUME NEW s \in Statuses, NEW t, NEW o, o.needsHuman
  PROVE  TurnStatus(t, s, o) \in {"needs_consultant"} \cup ConsultantOwned \cup Terminal
<1>1. TurnStatus(t, s, o) = NextStatus(s, "needs_consultant")
  BY DEF TurnStatus, StatusForStage, NoStatus
<1> QED
  BY <1>1, NextStatusEscalates

LEMMA NextStageType ==
  ASSUME NEW current \in Stages, NEW suggested
  PROVE  NextStage(current, suggested) \in Stages
  BY DEF NextStage

LEMMA TurnStageType ==
  ASSUME NEW s \in Stages, NEW o
  PROVE  TurnStage(s, o) \in Stages
  BY NextStageType DEF TurnStage

-----------------------------------------------------------------------------
(* What a consultant's statements write *)

LEMMA RecordType == TypeOK => Record \in ClientRecords
<1> SUFFICES ASSUME TypeOK PROVE Record \in ClientRecords
  OBVIOUS
<1>1. NewClient \in ClientRecords
  BY Vocabulary DEF NewClient, ClientRecords, Modes
<1> QED
  BY <1>1, Zenon DEF Record, TypeOK, ClientRecords

\* The status that goes with a mode.
LEMMA WithModeStatus ==
  ASSUME TypeOK, NEW m \in Modes
  PROVE  WithMode(Record, m).status \in Statuses
<1> DEFINE c == Record
<1> DEFINE s == IF m = "human" /\ c.status \in AIStatuses THEN "consultant_processing"
                ELSE c.status
<1>1. c \in ClientRecords
  BY RecordType
<1>2. c.status \in Statuses
  BY <1>1, Zenon DEF ClientRecords
<1>3. s \in Statuses
  BY <1>2, Vocabulary
<1>4. WithMode(c, m) = [c EXCEPT !.mode = m, !.aiEnabled = (m = "ai"), !.status = s]
  BY DEF WithMode
<1> HIDE DEF c, s
<1>5. WithMode(c, m).status = s
  BY <1>1, <1>4, Zenon DEF ClientRecords
<1> QED
  BY <1>3, <1>5 DEF c

LEMMA BlockMode ==
  ASSUME TypeOK
  PROVE  WithBlock(Record).mode \in Modes
<1>1. Record \in ClientRecords
  BY RecordType
<1>2. WithBlock(Record).mode = "paused"
  BY <1>1, Zenon DEF WithBlock, ClientRecords
<1> QED
  BY <1>2 DEF Modes

LEMMA UnblockFields ==
  ASSUME TypeOK
  PROVE  WithoutBlock(Record).mode \in Modes /\ WithoutBlock(Record).status \in Statuses
<1> DEFINE c == Record
<1> DEFINE s == IF c.status = "blocked" THEN "needs_qualification" ELSE c.status
<1>1. c \in ClientRecords
  BY RecordType
<1>2. c.status \in Statuses
  BY <1>1, Zenon DEF ClientRecords
<1>3. s \in Statuses
  BY <1>2, Vocabulary
<1>4. WithoutBlock(c) = [c EXCEPT !.blocked = FALSE, !.aiEnabled = TRUE, !.mode = "ai",
                                  !.status = s]
  BY DEF WithoutBlock
<1> HIDE DEF c, s
<1>5. WithoutBlock(c).mode = "ai" /\ WithoutBlock(c).status = s
  BY <1>1, <1>4, Zenon DEF ClientRecords
<1> QED
  BY <1>3, <1>5 DEF c, Modes

-----------------------------------------------------------------------------
(* The invariant *)

\* Nobody has won a lead that is not in human mode, and nobody is about to take over
\* a lead that he saw in human mode.
WinInv ==
  /\ winners = {} \/ (mode = "human" /\ \E c \in Consultants : winners = {c})
  /\ \A c \in Consultants : saw[c] # "human"

\* A lead that the last turn wanted to escalate is where a human sees it.
SeenInv ==
  by = "model_needs_human" => status \in {"needs_consultant"} \cup ConsultantOwned \cup Terminal

IInv == TypeOK /\ WinInv /\ SeenInv

LEMMA InvInit == Init => IInv
  BY Vocabulary, NoneAssumption
     DEF SeenInv, Init, IInv, TypeOK, WinInv, NewClient, Modes, NoneAssumption

LEMMA InvStep == IInv /\ [Next]_vars => IInv'
<1> SUFFICES ASSUME IInv, [Next]_vars PROVE IInv'
  OBVIOUS
<1>0. TypeOK /\ "human" \in Modes /\ None \notin Modes
  BY NoneAssumption DEF IInv, Modes, NoneAssumption
<1>1. ASSUME NEW o \in Outcomes, ModelTurn(o) PROVE IInv'
  <2>1. stage' \in Stages
    BY <1>0, <1>1, TurnStageType DEF ModelTurn, TypeOK
  <2>2. status' \in Statuses
    BY <1>0, <1>1, NextStatusMoves DEF ModelTurn, TypeOK, TurnStatus
  <2>3. by' \in {"none", "model", "model_needs_human", "consultant"}
    BY <1>1 DEF ModelTurn
  <2>4. by' = "model_needs_human" => o.needsHuman /\ status' = TurnStatus(stage, status, o)
    BY <1>1 DEF ModelTurn
  <2>5. SeenInv'
    BY <1>0, <2>4, TurnEscalates DEF SeenInv, TypeOK
  <2> QED
    BY <1>1, <2>1, <2>2, <2>3, <2>5 DEF ModelTurn, IInv, TypeOK, WinInv, SeenInv
<1>2. ASSUME NEW s \in Statuses, SetStatus(s) PROVE IInv'
  BY <1>2 DEF SetStatus, Rewrite, IInv, TypeOK, WinInv, SeenInv
<1>3. ASSUME NEW c \in Consultants, LoadForTakeOver(c) PROVE IInv'
  BY <1>3 DEF LoadForTakeOver, IInv, TypeOK, WinInv, SeenInv
<1>4. ASSUME NEW c \in Consultants, TakeOver(c) PROVE IInv'
  <2>1. /\ saw' = [saw EXCEPT ![c] = None] /\ saw[c] # "human"
        /\ saw' \in [Consultants -> Modes \cup {None}]
        /\ \A d \in Consultants : saw'[d] # "human"
    BY <1>0, <1>4 DEF TakeOver, IInv, TypeOK, WinInv, SeenInv
  <2>2. CASE UNCHANGED <<stage, status, mode, by, winners>>
    BY <2>1, <2>2 DEF IInv, TypeOK, WinInv, SeenInv
  <2>3. CASE /\ SwapMatches(c) /\ Rewrite(WithMode(Record, "human").status, "human")
             /\ winners' = winners \cup {c}
    <3>1. winners = {}
      BY <2>1, <2>3 DEF SwapMatches, IInv, WinInv
    <3>2. status' \in Statuses /\ mode' = "human" /\ winners' = {c}
      BY <1>0, <2>3, <3>1, WithModeStatus DEF Rewrite
    <3> QED
      BY <1>0, <2>1, <2>3, <3>2 DEF Rewrite, IInv, TypeOK, WinInv, SeenInv
  <2> QED
    BY <1>4, <2>2, <2>3 DEF TakeOver
<1>5. CASE SpeakUp
  <2>1. status' \in Statuses /\ mode' = "human"
    BY <1>0, <1>5, WithModeStatus DEF SpeakUp, Rewrite
  <2> QED
    BY <1>0, <1>5, <2>1 DEF SpeakUp, Rewrite, IInv, TypeOK, WinInv, SeenInv
<1>6. ASSUME NEW m \in {"ai", "paused"}, HandBack(m) PROVE IInv'
  <2>1. m \in Modes
    BY DEF Modes
  <2>2. status' \in Statuses /\ mode' \in Modes
    BY <1>0, <1>6, <2>1, WithModeStatus DEF HandBack, Rewrite
  <2> QED
    BY <1>6, <2>2 DEF HandBack, Rewrite, IInv, TypeOK, WinInv, SeenInv
<1>7. CASE Block
  <2>1. status' \in Statuses /\ mode' \in Modes
    BY <1>0, <1>7, BlockMode, Vocabulary DEF Block, Rewrite
  <2> QED
    BY <1>7, <2>1 DEF Block, Rewrite, IInv, TypeOK, WinInv, SeenInv
<1>8. CASE Unblock
  <2>1. status' \in Statuses /\ mode' \in Modes
    BY <1>0, <1>8, UnblockFields DEF Unblock, Rewrite
  <2> QED
    BY <1>8, <2>1 DEF Unblock, Rewrite, IInv, TypeOK, WinInv, SeenInv
<1>9. CASE UNCHANGED vars
  BY <1>9 DEF vars, IInv, TypeOK, WinInv, SeenInv
<1> QED
  BY <1>1, <1>2, <1>3, <1>4, <1>5, <1>6, <1>7, <1>8, <1>9 DEF Next

LEMMA InvAlways == Spec => []IInv
  BY InvInit, InvStep, PTL DEF Spec

-----------------------------------------------------------------------------
(* Theorems *)

\* The record of a lead is well formed after any operations.
THEOREM TypeCorrect == Spec => []TypeOK
<1>1. IInv => TypeOK
  BY DEF IInv
<1> QED
  BY <1>1, InvAlways, PTL

\* However many consultants press "Take over", between two hand-backs one of these
\* calls switches the lead to human mode (SetMode as a compare-and-swap).
THEOREM OneWins == Spec => []TakeOverWinsOnce
<1>1. Cardinality({}) = 0 /\ \A c : Cardinality({c}) = 1
  BY FS_EmptySet, FS_Singleton
<1>2. IInv => TakeOverWinsOnce
  <2> SUFFICES ASSUME IInv PROVE Cardinality(winners) <= 1
    BY DEF TakeOverWinsOnce
  <2>1. winners = {} \/ \E c \in Consultants : winners = {c}
    BY DEF IInv, WinInv
  <2>2. Cardinality(winners) = 0 \/ Cardinality(winners) = 1
    BY <1>1, <2>1
  <2> QED
    BY <2>2
<1> QED
  BY <1>2, InvAlways, PTL

\* No suggestion of the model moves a lead into or out of a status that is a human's
\* decision (NextStatus).
THEOREM HumansDecide == Spec => ModelStaysOffHumanStatuses
<1> DEFINE Off == by' \in {"model", "model_needs_human"} /\ status' # status
                    => status \in AIStatuses \ {"needs_consultant"} /\ status' \in AIStatuses
<1>1. IInv /\ [Next]_vars => [Off]_vars
  <2> SUFFICES ASSUME IInv, Next, by' \in {"model", "model_needs_human"}, status' # status
               PROVE  status \in AIStatuses \ {"needs_consultant"} /\ status' \in AIStatuses
    OBVIOUS
  <2>1. CASE \E o \in Outcomes : ModelTurn(o)
    BY <2>1, NextStatusMoves DEF ModelTurn, TurnStatus, IInv, TypeOK
  <2>2. CASE ~\E o \in Outcomes : ModelTurn(o)
    <3>1. (by' = by /\ status' = status) \/ by' = "consultant"
      BY <2>2 DEF Next, SetStatus, LoadForTakeOver, TakeOver, SpeakUp, HandBack, Block,
                  Unblock, Rewrite
    <3> QED
      BY <3>1
  <2> QED
    BY <2>1, <2>2
<1> QED
  BY <1>1, InvAlways, PTL DEF Spec, ModelStaysOffHumanStatuses

\* A turn that decides that the client needs a human leaves the lead where a human
\* sees it (StatusForStage, then NextStatus).
THEOREM EscalationsArrive == Spec => EscalationReachesConsultant
<1> DEFINE Seen == by' = "model_needs_human"
                    => status' \in {"needs_consultant"} \cup ConsultantOwned \cup Terminal
<1>1. IInv' => Seen
  BY DEF IInv, SeenInv
<1>2. IInv' => [Seen]_vars
  BY <1>1
<1> QED
  BY <1>2, InvAlways, PTL DEF EscalationReachesConsultant

=============================================================================
