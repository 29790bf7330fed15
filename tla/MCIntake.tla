------------------------------ MODULE MCIntake ------------------------------
(* An instance of Intake small enough for TLC: two chats, a group, an echo, a  *)
(* malformed post, a receipt without a body and an item behind it, a batch of  *)
(* two messages, and a queue that is often full.                              *)
EXTENDS Intake, TLC

CONSTANTS m1, m2, m3, g, a, b, n1, n2, n3, n4, hole, p1, p2, bad, r1, r2, w1, w2

AllMessages == {m1, m2, m3, g}
TwoChats == {a, b}
Chat2 == (m1 :> a) @@ (m2 :> a) @@ (m3 :> b) @@ (g :> b)
ButGroups == {m1, m2, m3}
AllEvents == {n1, n2, n3, n4, hole, p1, p2, bad}
KindOf == (n1 :> "incoming") @@ (n2 :> "own") @@ (n3 :> "incoming")
           @@ (n4 :> "status") @@ (hole :> "blank")
           @@ (p1 :> "meta_batch") @@ (p2 :> "meta_batch") @@ (bad :> "malformed")
CarriedBy == (n1 :> <<m1>>) @@ (n2 :> <<m3>>) @@ (n3 :> <<m2>>)
              @@ (n4 :> <<>>) @@ (hole :> <<>>)
              @@ (p1 :> <<m1, g, m3>>) @@ (p2 :> <<m2>>) @@ (bad :> <<>>)
SixItems == <<n1, n2, bad, n3, hole, n4>>
Both == {"polling", "webhook"}
TwoReceivers == {r1, r2}
TwoWorkers == {w1, w2}
=============================================================================
