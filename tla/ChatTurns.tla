------------------------------ MODULE ChatTurns ------------------------------
(***************************************************************************)
(* What the pipeline promises about one chat, seen from outside: the       *)
(* client's messages are taken one at a time, each at most once, and the   *)
(* assistant answers a message only during its turn, with at most          *)
(* MaxCopies copies of one answer (README.md: "Duplicate protection",      *)
(* "Fast acknowledgement"; the comments of Pipeline.Handle).               *)
(*                                                                         *)
(* Conversation is shown to implement this module.                         *)
(***************************************************************************)
EXTENDS Naturals, Sequences, FiniteSets

CONSTANTS Messages,   \* the client's messages, by provider id
          Others,     \* what is said in the chat by others than the assistant
          MaxCopies,  \* transmissions of one answer
          None        \* no message

VARIABLES open,  \* the message whose turn is under way
          seen,  \* the messages that had a turn, in the order of their turns
          said   \* what was said to the client, one entry per copy on the wire:
                 \* the answer to a message is written as the message

turnVars == <<open, seen, said>>

SeenMessages == {seen[i] : i \in DOMAIN seen}

Copies(m) == {i \in DOMAIN said : said[i] = m}

TypeOK ==
  /\ open \in Messages \cup {None}
  /\ seen \in Seq(Messages)
  /\ said \in Seq(Messages \cup Others)

Init ==
  /\ open = None
  /\ seen = <<>>
  /\ said = <<>>

Begin(m) ==
  /\ open = None
  /\ m \notin SeenMessages
  /\ open' = m
  /\ seen' = Append(seen, m)
  /\ UNCHANGED said

Say ==
  /\ open # None
  /\ Cardinality(Copies(open)) < MaxCopies
  /\ said' = Append(said, open)
  /\ UNCHANGED <<open, seen>>

\* Consultants speak when they like.
Interject(x) ==
  /\ said' = Append(said, x)
  /\ UNCHANGED <<open, seen>>

End ==
  /\ open # None
  /\ open' = None
  /\ UNCHANGED <<seen, said>>

Next ==
  \/ \E m \in Messages : Begin(m)
  \/ Say
  \/ \E x \in Others \ Messages : Interject(x)
  \/ End

Spec == Init /\ [][Next]_turnVars

\* A turn does not last for ever.
FairSpec == Spec /\ WF_turnVars(End)

-----------------------------------------------------------------------------
(* Properties *)

\* Answers leave in the order the messages were taken, and the copies of one
\* answer are not interleaved with another answer.
AnswersInOrder ==
  \A i, j \in DOMAIN said :
    i < j /\ said[i] \in Messages /\ said[j] \in Messages =>
      \E a, b \in DOMAIN seen : a <= b /\ seen[a] = said[i] /\ seen[b] = said[j]

\* No message has two turns.
OneTurnEach == \A i, j \in DOMAIN seen : seen[i] = seen[j] => i = j

\* No answer is transmitted more often than the limit of attempts allows.
FewCopies == \A m \in Messages : Cardinality(Copies(m)) <= MaxCopies

=============================================================================
