--------------------------- MODULE MCQualification ---------------------------
(* Instances of Qualification small enough for TLC. *)
EXTENDS Qualification

TwoServices == {"trademark", "contract"}
Russian == {"ru"}

Msg(text, sender, number) == [text |-> text, sender |-> sender, number |-> number]

\* From a hidden number, with a trigger or not; a number typed; a picture.
FourArrivals == {Msg("trigger", FALSE, FALSE), Msg("short", TRUE, FALSE),
                 Msg("long", FALSE, TRUE), Msg("empty", FALSE, FALSE)}

Cls(intent, service, confident, unclear, language) ==
  [relevant |-> intent # "irrelevant", intent |-> intent, service |-> service,
   confident |-> confident, unclear |-> unclear, language |-> language]

\* One of every rule of the decision, with and without a language.
ManyAnswers ==
  {Cls("trademark", "none", TRUE, u, "ru") : u \in BOOLEAN}
  \cup {Cls("contract", "contract", TRUE, u, "none") : u \in BOOLEAN}
  \cup {Cls("callback_request", "none", k, FALSE, "none") : k \in BOOLEAN}
  \cup {Cls(i, "none", TRUE, FALSE, "ru") :
          i \in {"greeting", "other_legal_service", "unclear", "irrelevant"}}
  \cup {Cls("irrelevant", "trademark", FALSE, FALSE, "none")}

ThreeEdits == {[what |-> "service", to |-> "contract"], [what |-> "service", to |-> "none"],
               [what |-> "language", to |-> "ru"]}
=============================================================================
