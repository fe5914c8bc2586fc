--------------------------- MODULE PreferredSearch --------------------------
(***************************************************************************)
(* What a search for a preferred extension promises to the caller that     *)
(* starts it from a set: it only ever holds admissible sets, each a strict *)
(* superset of the one before, and it stops, with a preferred extension.   *)
(***************************************************************************)
EXTENDS AF

CONSTANT Frameworks

VARIABLES relation, current, stopped
vars == <<relation, current, stopped>>

Init ==
  /\ relation \in Frameworks
  /\ current \in {S \in SUBSET Arg : Admissible(relation, S)}
  /\ stopped = FALSE

Extend ==
  /\ ~stopped
  /\ current' \in {S \in SUBSET Arg : Admissible(relation, S)}
  /\ current \subseteq current' /\ current' # current
  /\ UNCHANGED <<relation, stopped>>

Stop ==
  /\ ~stopped
  /\ current' \in {S \in SUBSET Arg : Preferred(relation, S)}
  /\ current \subseteq current'
  /\ stopped' = TRUE
  /\ UNCHANGED relation

Next == Extend \/ Stop

Spec == Init /\ [][Next]_vars /\ WF_vars(Next)

=============================================================================
