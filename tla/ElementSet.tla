----------------------------- MODULE ElementSet -----------------------------
(***************************************************************************)
(* What a random access set promises: a set of elements that grows and     *)
(* shrinks by one, with an answer that says whether a call changed it.     *)
(***************************************************************************)
CONSTANT Element

VARIABLES members, modified
vars == <<members, modified>>

Init == members = {} /\ modified = FALSE

Reset == members' = {} /\ UNCHANGED modified

Add(e) ==
  /\ members' = members \cup {e}
  /\ modified' = (e \notin members)

Remove(e) ==
  /\ members' = members \ {e}
  /\ modified' = (e \in members)

Next == Reset \/ \E e \in Element : Add(e) \/ Remove(e)

Spec == Init /\ [][Next]_vars

=============================================================================
