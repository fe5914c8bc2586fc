------------------------------ MODULE Grounded ------------------------------
(***************************************************************************)
(* taas__compute_grounded (src/taas/taas_basics.c:17-56), one action per   *)
(* step of its three nested loops: pop an accepted argument, walk its      *)
(* children, and for every child that just became out walk the children of *)
(* that child and decrease their attack counters.                          *)
(*                                                                         *)
(* The input is the multiset of attack lines of the file: an attack is a   *)
(* triple <<attacker, attacked, k>>, where k tells repeated lines apart.   *)
(* The linked lists "children" hold one node per line, in an order that    *)
(* only depends on the file, so a walk takes its nodes in any order.       *)
(***************************************************************************)
EXTENDS AF, Integers, Sequences, FiniteSets

CONSTANTS Line,         \* tags for repeated attack lines
          AttackSets    \* the sets of attack lines considered

(* A file has finitely many lines. *)
ASSUME AttackSetsAssumption ==
  \A A \in AttackSets : A \subseteq Arg \X Arg \X Line /\ IsFiniteSet(A)

VARIABLES
  attacks,              \* the attack lines of the AAF; never changes
  in, out,              \* struct Labeling* grounded
  number_of_attackers,  \* aaf->number_of_attackers
  stack,                \* accepted arguments whose children are still to do
  arg,                  \* the argument popped last
  node,                 \* attacks of arg the walk over its children has left
  node2,                \* attacks of the child the inner walk has left
  pc                    \* which loop runs

vars == <<attacks, in, out, number_of_attackers, stack, arg, node, node2, pc>>

children(a) == {e \in attacks : e[1] = a}
parents(a)  == {e \in attacks : e[2] = a}
Relation    == {<<e[1], e[2]>> : e \in attacks}

(* bitset__set, and the small steps of the list and stack handling.  A name *)
(* with a suffix is the same step with a slip in it; no specification uses  *)
(* it, the properties are tried against it.                                 *)
bitset__set_OffByOne(S, a) == S \cup {a + 1}
bitset__set(S, a) == S \cup {a}

IsOut_Unchecked(a) == FALSE
IsOut(a) == a \in out

Advance_Stuck(walk, e) == walk
Advance(walk, e) == walk \ {e}

WalkOver_Early(walk) == TRUE
WalkOver(walk) == walk = {}

LastAttacker_Any(b) == TRUE
LastAttacker(b) == number_of_attackers[b] = 1

Popped_Peek == stack
Popped == Tail(stack)

Pushed(b) == <<b>> \o stack

None == -1      \* nothing has been popped yet

(* The sequences that list each member of a finite set once. *)
Listings(S) ==
  {s \in [1..Cardinality(S) -> S] : \A i, j \in DOMAIN s : s[i] = s[j] => i = j}

-----------------------------------------------------------------------------
Init ==
  /\ attacks \in AttackSets
  /\ in = {a \in Arg : parents(a) = {}}
  /\ out = {}
  /\ number_of_attackers = [a \in Arg |-> Cardinality(parents(a))]
  /\ stack \in Listings(in)
  /\ arg = None
  /\ node = {}
  /\ node2 = {}
  /\ pc = "stack"

(* while(g_slist_length(stack)>0): take the head and start on its children. *)
Pop ==
  /\ pc = "stack" /\ stack # << >>
  /\ arg' = Head(stack)
  /\ stack' = Popped
  /\ node' = children(Head(stack))
  /\ pc' = "children"
  /\ UNCHANGED <<attacks, in, out, number_of_attackers, node2>>

(* A child that is out already is skipped. *)
SkipChild(e) ==
  /\ pc = "children" /\ IsOut(e[2])
  /\ node' = Advance(node, e)
  /\ UNCHANGED <<attacks, in, out, number_of_attackers, stack, arg, node2, pc>>

(* Any other child becomes out, and its own children are visited. *)
MarkOut(e) ==
  /\ pc = "children" /\ ~IsOut(e[2])
  /\ out' = bitset__set(out, e[2])
  /\ node' = Advance(node, e)
  /\ node2' = children(e[2])
  /\ pc' = "grandchildren"
  /\ UNCHANGED <<attacks, in, number_of_attackers, stack, arg>>

(* One attacker of e[2] less; at zero, e[2] is accepted and pushed. *)
Decrease(e) ==
  LET b == e[2]
      accepted == LastAttacker(b)
  IN  /\ pc = "grandchildren"
      /\ node2' = Advance(node2, e)
      /\ number_of_attackers' =
           [number_of_attackers EXCEPT ![b] = IF @ > 0 THEN @ - 1 ELSE @]
      /\ in' = IF accepted THEN bitset__set(in, b) ELSE in
      /\ stack' = IF accepted THEN Pushed(b) ELSE stack
      /\ UNCHANGED <<attacks, out, arg, node, pc>>

GrandchildrenDone ==
  /\ pc = "grandchildren" /\ WalkOver(node2)
  /\ pc' = "children"
  /\ UNCHANGED <<attacks, in, out, number_of_attackers, stack, arg, node, node2>>

ChildrenDone ==
  /\ pc = "children" /\ WalkOver(node)
  /\ pc' = "stack"
  /\ UNCHANGED <<attacks, in, out, number_of_attackers, stack, arg, node, node2>>

Return ==
  /\ pc = "stack" /\ stack = << >>
  /\ pc' = "done"
  /\ UNCHANGED <<attacks, in, out, number_of_attackers, stack, arg, node, node2>>

Next ==
  \/ Pop
  \/ \E e \in node : SkipChild(e)
  \/ \E e \in node : MarkOut(e)
  \/ \E e \in node2 : Decrease(e)
  \/ GrandchildrenDone
  \/ ChildrenDone
  \/ Return

(* The function is sequential code without blocking calls: it keeps taking *)
(* its next step until it returns.                                         *)
Spec == Init /\ [][Next]_vars /\ WF_vars(Next)

-----------------------------------------------------------------------------
TypeOK ==
  /\ attacks \in AttackSets
  /\ in \in SUBSET Arg
  /\ out \in SUBSET Arg
  /\ number_of_attackers \in [Arg -> Nat]
  /\ stack \in Seq(Arg)
  /\ arg \in Arg \cup {None}
  /\ node \in SUBSET attacks
  /\ node2 \in SUBSET attacks
  /\ pc \in {"stack", "children", "grandchildren", "done"}

(* The attack lines on b still counted: those from an argument that is not *)
(* out, and those whose decrement is still to come.                        *)
Counted(b) == {e \in parents(b) : e[1] \notin out \/ e \in node2}

(* The counters are exact in the middle of the walks too, so the test "> 0"*)
(* never hides a decrement, and in is the set of arguments at zero.        *)
CountersExact ==
  /\ \A b \in Arg : number_of_attackers[b] = Cardinality(Counted(b))
  /\ in = {b \in Arg : number_of_attackers[b] = 0}

(* src/taas/taas_aaf.c:27-29: "after computing the grounded extension this *)
(* equals the number of attackers not already out".                        *)
AttackersNotOut ==
  pc = "done" =>
    \A b \in Arg :
      number_of_attackers[b] = Cardinality({e \in parents(b) : e[1] \notin out})

(* The stack lists accepted arguments, each at most once, and never the one*)
(* being worked on (its cell is freed at the end of the iteration).        *)
StackListsAccepted ==
  /\ \A i \in 1..Len(stack) : stack[i] \in in
  /\ \A i, j \in 1..Len(stack) : stack[i] = stack[j] => i = j
  /\ pc \in {"children", "grandchildren"} =>
       /\ arg \in in
       /\ \A i \in 1..Len(stack) : stack[i] # arg

(* No child of an accepted argument is forgotten: it is out, or on the walk*)
(* in progress, or its attacker still waits on the stack.                  *)
NothingForgotten ==
  \A e \in attacks :
    e[1] \in in =>
      \/ e[2] \in out
      \/ e \in node
      \/ \E i \in 1..Len(stack) : stack[i] = e[1]

(* Together: the stack holds the accepted arguments whose children are to   *)
(* be done, exactly.                                                        *)
StackExact == StackListsAccepted /\ NothingForgotten

(* At every step the labels are forced: every complete extension contains  *)
(* in and attacks out, and no argument gets both labels.                   *)
LabelsForced ==
  /\ in \cap out = {}
  /\ \A S \in SUBSET Arg :
       Complete(Relation, S) => in \subseteq S /\ out \subseteq Attacked(Relation, S)

(* The labelling returned is the grounded one. *)
ResultGrounded == pc = "done" => GroundedLabels(Relation, in, out)

(* The function returns. *)
Termination == <>(pc = "done")

(* It implements the labelling procedure without stack and counters, and   *)
(* inherits its fairness: no label is left to hand out at the end.         *)
Labelling ==
  INSTANCE GroundedLabelling
    WITH relation <- Relation,
         Frameworks <- {{<<e[1], e[2]>> : e \in A} : A \in AttackSets}
ImplementsLabelling == Labelling!Spec

=============================================================================
