----------------------------- MODULE SuperCore -----------------------------
(***************************************************************************)
(* compute_ideal (src/tasks/task_se-id.cpp), the answer to SE-ID and, with *)
(* a membership test, to DS-ID and DC-ID.  Its two loops are also the      *)
(* first two of solve_eapr (src/tasks/task_ea-pr.cpp), line by line.       *)
(* The first takes out of psc every argument that some admissible set      *)
(* attacks; what is left is the preferred super-core.  The second starts   *)
(* from the members of psc that no other member attacks and takes out      *)
(* those that are not defended, until nothing changes.                     *)
(*                                                                         *)
(* psc is used as a set: its order only orders the literals of a clause.   *)
(* The result is walked by index while it shrinks, so it is kept as the    *)
(* sequence of its array (module RaSet), starting in any order.            *)
(***************************************************************************)
EXTENDS Encodings, Ipasir, Sequences, SequencesExt

CONSTANT Frameworks     \* the attack relations considered for each track

ASSUME FrameworksAssumption ==
  Frameworks \in [{"ID", "EA"} -> SUBSET SUBSET (Arg \X Arg)]

VARIABLES
  track,                \* "ID" in compute_ideal, "EA" in solve_eapr
  relation, grounded,   \* the input: attacks and grounded labelling
  solver,               \* solver_admTest
  psc,                  \* the candidates for the preferred super-core
  onerunonly,           \* no candidate has been taken out
  accepted,             \* the array of ideal (of acc in solve_eapr)
  i, changed,           \* the walk over it
  result,               \* the set returned, or printed
  pc

input == <<track, relation, grounded>>
core  == <<solver, psc, onerunonly>>
walk  == <<accepted, i, changed>>

Nothing == [in |-> {}, out |-> {}]

(* A solver that has been freed, and not been made anew. *)
Freed == NewSolver({}, Nothing)

Members == {accepted[k] : k \in DOMAIN accepted}

(* A name with a suffix is the same definition with a slip in it; no        *)
(* specification uses it, the properties are tried against it.              *)
AttackersOf(S) == {b \in Arg : \E a \in S : <<b, a>> \in relation}

(* raset__remove at the place of the member: the last one moves there. *)
TakenOut_Lost(k) == Front(accepted)
TakenOut(k) == Front([accepted EXCEPT ![k] = Last(accepted)])

(* After a removal the same place is looked at again. *)
NextPlace(kept) == IF kept THEN i + 1 ELSE i

Survivors_OfModel(m) == m.in
Survivors_None(m) == psc
Survivors(m) == psc \ Attacked(relation, m.in)

-----------------------------------------------------------------------------
CoreInit ==
  /\ track \in {"ID", "EA"}
  /\ relation \in Frameworks[track]
  /\ grounded \in {G \in Assignments : GroundedLabels(relation, G.in, G.out)}
  /\ solver = NewSolver(AdmModels(relation, grounded), Nothing)
  /\ psc = Arg \ grounded.out
  /\ onerunonly = TRUE
  /\ accepted = << >> /\ i = 1 /\ changed = FALSE
  /\ result = {}
  /\ pc = "ask"

(* An admissible set with an attacker of some candidate; if no candidate    *)
(* has attackers, the loop is over.                                         *)
AskAttackers ==
  /\ pc = "ask" /\ AttackersOf(psc) # {}
  /\ solver' = AddClause(solver, Pos("in", AttackersOf(psc)))
  /\ pc' = "solve"
  /\ UNCHANGED <<input, psc, onerunonly, walk, result>>

NoAttackers ==
  /\ pc = "ask" /\ AttackersOf(psc) = {}
  /\ solver' = Freed
  /\ pc' = "core"
  /\ UNCHANGED <<input, psc, onerunonly, walk, result>>

SolveAttackers ==
  /\ pc = "solve"
  /\ \E s \in Results(solver) :
       IF s.st = "UNSAT"
         THEN solver' = Freed /\ pc' = "core"
         ELSE solver' = s /\ pc' = "read"
  /\ UNCHANGED <<input, psc, onerunonly, walk, result>>

(* What the set attacks leaves psc. *)
TakeOutAttacked ==
  /\ pc = "read"
  /\ psc' = Survivors(solver.val)
  /\ onerunonly' = FALSE
  /\ pc' = "ask"
  /\ UNCHANGED <<input, solver, walk, result>>

(* The start of the second loop, from the candidates S. *)
Unattacked(S) == {a \in S : Attackers(relation, a) \cap S = {}}

StartWalk(S) ==
  /\ accepted' \in SetToSeqs(Unattacked(S))
  /\ i' = 1 /\ changed' = FALSE
  /\ pc' = "walk"

(* Every attacker of the member at place i has an attacker among the members.*)
DefendedHere ==
  \A b \in Attackers(relation, accepted[i]) : Attackers(relation, b) \cap Members # {}

WalkOn ==
  /\ pc = "walk" /\ i <= Len(accepted)
  /\ IF DefendedHere
       THEN UNCHANGED <<accepted, changed>>
       ELSE accepted' = TakenOut(i) /\ changed' = TRUE
  /\ i' = NextPlace(DefendedHere)
  /\ UNCHANGED <<input, core, result, pc>>

WalkAgain ==
  /\ pc = "walk" /\ i > Len(accepted) /\ changed
  /\ i' = 1 /\ changed' = FALSE
  /\ UNCHANGED <<input, core, accepted, result, pc>>

(* One of these is the next step as long as the shared loops run. *)
SharedNext ==
  \/ AskAttackers
  \/ NoAttackers
  \/ SolveAttackers
  \/ TakeOutAttacked
  \/ WalkOn
  \/ WalkAgain

-----------------------------------------------------------------------------
(* What compute_ideal does before, between and after the loops.             *)

(* The first loop took nothing out: the in part of the grounded labelling. *)
ReturnGrounded ==
  /\ track = "ID" /\ pc = "core" /\ onerunonly
  /\ result' = grounded.in \ grounded.out
  /\ pc' = "done"
  /\ UNCHANGED <<input, core, walk>>

(* Nothing is left. *)
ReturnEmpty ==
  /\ track = "ID" /\ pc = "core" /\ ~onerunonly /\ psc = {}
  /\ result' = psc
  /\ pc' = "done"
  /\ UNCHANGED <<input, core, walk>>

KeepUnattacked ==
  /\ track = "ID" /\ pc = "core" /\ ~onerunonly /\ psc # {}
  /\ StartWalk(psc)
  /\ UNCHANGED <<input, core, result>>

ReturnIdeal ==
  /\ track = "ID" /\ pc = "walk" /\ i > Len(accepted) /\ ~changed
  /\ result' = Members
  /\ pc' = "done"
  /\ UNCHANGED <<input, core, walk>>

IdealNext ==
  \/ ReturnGrounded
  \/ ReturnEmpty
  \/ KeepUnattacked
  \/ ReturnIdeal

-----------------------------------------------------------------------------
SharedTypeOK ==
  /\ relation \in Frameworks[track]
  /\ grounded \in Assignments
  /\ result \in SUBSET Arg
  /\ solver \in [db : SUBSET Assignments, asm : {{}},
                 st : {"INPUT", "SAT", "UNSAT"}, val : Assignments]
  /\ psc \in SUBSET Arg
  /\ onerunonly \in BOOLEAN
  /\ accepted \in Seq(Arg)
  /\ i \in 1 .. Len(accepted) + 1
  /\ changed \in BOOLEAN

(* The arguments that no admissible set attacks. *)
PreferredSuperCore ==
  Arg \ Attacked(relation, UNION {S \in SUBSET Arg : Admissible(relation, S)})

(* The first loop never takes an argument of the preferred super-core out,  *)
(* and it leaves nothing else in when it ends: an early clause, made for a  *)
(* larger psc, must not hide an admissible set a later round needs.         *)
CoreExact ==
  /\ pc \in {"ask", "solve", "read"} => PreferredSuperCore \subseteq psc
  /\ pc = "core" => psc = PreferredSuperCore

(* The array is walked without gaps: the places behind i hold defended      *)
(* members as long as nothing was taken out in this pass, no member is      *)
(* listed twice, and no admissible set within psc loses a member.           *)
WalkKeepsAdmissible ==
  pc = "walk" =>
    /\ \A k, l \in DOMAIN accepted : accepted[k] = accepted[l] => k = l
    /\ ~changed => \A k \in 1 .. i - 1 : accepted[k] \in Defended(relation, Members)
    /\ \A S \in SUBSET psc : Admissible(relation, S) => S \subseteq Members

=============================================================================
