----------------------------- MODULE MCMessenger -----------------------------
(* Instances of Messenger small enough for TLC. *)
EXTENDS Messenger, TLC

CONSTANTS worker, consultant, reply, answer

Producers == {worker, consultant}

Messages == {reply, answer}

\* Nothing in Send tells one producer or one text from another.
Symmetric == Permutations(Producers) \cup Permutations(Messages)
=============================================================================
