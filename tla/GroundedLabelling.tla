-------------------------- MODULE GroundedLabelling -------------------------
(***************************************************************************)
(* What taas__compute_grounded promises, without its stack and counters:   *)
(* labels are handed out one at a time, "out" only to an argument that an  *)
(* accepted one attacks, "in" only to one whose attackers are all out, no  *)
(* label is ever taken back, and labelling goes on until no label is left  *)
(* to hand out.                                                            *)
(***************************************************************************)
EXTENDS AF

CONSTANT Frameworks     \* the attack relations considered

VARIABLES relation, in, out
vars == <<relation, in, out>>

Init ==
  /\ relation \in Frameworks
  /\ in = {a \in Arg : Attackers(relation, a) = {}}
  /\ out = {}

Reject(a) ==
  /\ a \in Attacked(relation, in) \ out
  /\ out' = out \cup {a}
  /\ UNCHANGED <<relation, in>>

Accept(a) ==
  /\ a \notin in
  /\ Attackers(relation, a) \subseteq out
  /\ in' = in \cup {a}
  /\ UNCHANGED <<relation, out>>

Next == \E a \in Arg : Reject(a) \/ Accept(a)

Spec == Init /\ [][Next]_vars /\ WF_vars(Next)

=============================================================================
