------------------------------ MODULE LinkWatch ------------------------------
(* What the driver's keepalive is for: a link that lives is left alone, one  *)
(* that died is noticed in the end and replaced.  PanelDriver takes its link *)
(* to behave like this.                                                      *)

VARIABLE link      \* "none", "up", or "dead": half-open, nothing arrives

Init == link = "none"

Connect == link = "none" /\ link' = "up"
Break == link = "up" /\ link' = "dead"
Notice == link = "dead" /\ link' = "none"

Next == Connect \/ Break \/ Notice
Spec == Init /\ [][Next]_link
FairSpec == Spec /\ WF_link(Connect) /\ WF_link(Notice)
=============================================================================
