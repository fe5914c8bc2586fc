------------------------------- MODULE Search -------------------------------
(***************************************************************************)
(* The search of the SAT solver: lucky phases (lucky.cpp), then            *)
(* cdcl_loop_with_inprocessing: decisions and assumptions (decide.cpp),    *)
(* propagation over watched literals                                       *)
(* (propagate.cpp), analysis of conflicts with on-the-fly strengthening    *)
(* (analyze.cpp), shrinking of the clause learned (shrink.cpp,             *)
(* minimize.cpp), chronological backtracking (backtrack.cpp), restarts     *)
(* (restart.cpp) and the deletion of learned clauses (reduce.cpp,          *)
(* collect.cpp).                                                           *)
(*                                                                         *)
(* Scores, saved phases and the other heuristics are abstracted: any       *)
(* variable may be decided either way, any level that the trail may be     *)
(* reused up to is taken, any clause may be forgotten that is not          *)
(* protected.  A watch list is walked in any order, and the replacement    *)
(* for a false literal is any that is not false.                           *)
(***************************************************************************)
EXTENDS Cnf

CONSTANTS Inputs,            \* pairs of a formula and the assumptions: a formula is a
                             \* sequence of clauses, a clause the sequence of its literals
          ChronoLevelLim,    \* opts.chronolevelim
          RestartInt,        \* opts.restartint
          EagerSubsumeLim,   \* opts.eagersubsumelim
          MaxReductions
ASSUME SearchAssumption ==
  /\ ChronoLevelLim \in Nat /\ RestartInt \in Nat /\ EagerSubsumeLim \in Nat
  /\ MaxReductions \in Nat

(* Units are assigned when they are added, repeated literals left out and   *)
(* tautologies dropped (add_new_original_clause): a clause has two literals *)
(* or more, of as many variables.                                           *)
ASSUME InputsAssumption == \A i \in Inputs :
  /\ i[1] \in Seq(Seq(Lits)) /\ i[2] \in Seq(Lits)
  /\ \A c \in DOMAIN i[1] :
       /\ Len(i[1][c]) >= 2
       /\ \A j, k \in DOMAIN i[1][c] : j # k => i[1][c][j] \notin {i[1][c][k], -i[1][c][k]}

VARIABLES
  formula, assumptions,      \* the input
  clauses,                   \* by number: literals, the first two watched, and flags
  blit,                      \* the blocking literal of each watch <<literal, clause>>
  asg,                       \* the assignment, see Assigned below
  todo,                      \* the watches of the propagated literal not visited yet
  conflict,                  \* a clause, or 0
  resolvent,                 \* the literals of the clause being derived; {} outside of analyze
  conflicts,                 \* since the last restart, as far as it matters
  reductions,
  mode,                      \* a lucky strategy, then "search", or "reduce" until
                             \* garbage has been collected
  answer                     \* 0, 10 or 20

input == <<formula, assumptions>>
db    == <<clauses, blit>>
limits == <<conflicts, reductions>>
vars  == <<input, db, asg, todo, conflict, resolvent, limits, mode, answer>>

-----------------------------------------------------------------------------
(* The assignment: the trail, for every variable its level and reason, the *)
(* decision of every level with the size of the trail before it, and how   *)
(* much of the trail has been propagated.                                  *)
Unassigned == [level |-> 0, reason |-> 0]
NoAssignment ==
  [trail |-> <<>>, var |-> [v \in Var |-> Unassigned], control |-> <<>>, propagated |-> 0]

level        == Len(asg.control)
LevelIn(t, l) == t.var[Idx(l)].level
LevelOf(l)   == LevelIn(asg, l)
ReasonOf(l)  == asg.var[Idx(l)].reason
True(l)      == l \in ToSet(asg.trail)
False(l)     == -l \in ToSet(asg.trail)
Free(l)      == ~True(l) /\ ~False(l)
Place(l)     == CHOOSE k \in DOMAIN asg.trail : Idx(asg.trail[k]) = Idx(l)
Maximum(S)   == Max({0} \cup S)

(* The elements of s that are in S, in their order. *)
Restricted(s, S) ==
  LET upto[k \in 0 .. Len(s)] ==
        IF k = 0 THEN <<>>
        ELSE IF s[k] \in S THEN Append(upto[k - 1], s[k]) ELSE upto[k - 1]
  IN  upto[Len(s)]

LitsOf(c) == ToSet(clauses[c].lits)
NonRoot(ls) == {l \in ls : LevelOf(l) > 0}
OnLevel(ls) == {l \in ls : LevelOf(l) = level}

(* search_assign with a clause as reason: the level is the highest of the   *)
(* other literals (assignment_level), which may be below the current one.   *)
AssignmentLevel(t, l, ls) == Maximum({LevelIn(t, k) : k \in ls \ {l}})
Assign(t, l, c, ls) ==
  LET n == AssignmentLevel(t, l, ls)
  IN  [t EXCEPT !.trail = Append(@, l),
                !.var[Idx(l)] = [level |-> n, reason |-> IF n = 0 THEN 0 ELSE c]]

(* backtrack: literals of the levels left stay on the trail, and everything *)
(* behind the first decision undone is propagated again.                    *)
Repropagate_Kept(t, n) == Min({t.propagated, t.control[n + 1].trail +
  Cardinality({k \in DOMAIN t.trail : k > t.control[n + 1].trail /\ LevelIn(t, t.trail[k]) <= n})})
Repropagate(t, n) == Min({t.propagated, t.control[n + 1].trail})
Backtrack(t, n) ==
  IF n = Len(t.control) THEN t
  ELSE LET kept == Restricted(t.trail, {l \in ToSet(t.trail) : LevelIn(t, l) <= n})
       IN  [trail |-> kept,
            var |-> [v \in Var |-> IF t.var[v].level <= n THEN t.var[v] ELSE Unassigned],
            control |-> SubSeq(t.control, 1, n),
            propagated |-> Repropagate(t, n)]

NewLevel(t, l) ==
  [t EXCEPT !.control = Append(@, [decision |-> l, trail |-> Len(t.trail)])]
Decided(t, l) ==
  LET u == NewLevel(t, l)
  IN  [u EXCEPT !.trail = Append(@, l),
                !.var[Idx(l)] = [level |-> Len(u.control), reason |-> 0]]

Other(ls, l) == IF ls[1] = l THEN ls[2] ELSE ls[1]
Watch(b, l, c, k) == [w \in DOMAIN b \cup {<<l, c>>} |-> IF w = <<l, c>> THEN k ELSE b[w]]
Unwatch(b, l, c)  == [w \in DOMAIN b \ {<<l, c>>} |-> b[w]]

-----------------------------------------------------------------------------
Init ==
  /\ \E i \in Inputs : formula = i[1] /\ assumptions = i[2]
  /\ clauses = [c \in DOMAIN formula |->
                  [lits |-> formula[c], redundant |-> FALSE, garbage |-> FALSE]]
  /\ blit = [w \in {w \in Lits \X DOMAIN formula : w[1] \in {formula[w[2]][1], formula[w[2]][2]}} |->
               Other(formula[w[2]], w[1])]
  /\ asg = NoAssignment
  /\ todo = {} /\ conflict = 0 /\ resolvent = {}
  /\ conflicts = 0 /\ reductions = 0
  /\ mode = (IF assumptions = <<>> THEN "all false" ELSE "search") /\ answer = 0

-----------------------------------------------------------------------------
(* Everything has been propagated. *)
Quiet == answer = 0 /\ conflict = 0 /\ todo = {} /\ asg.propagated = Len(asg.trail)

(* lucky_phases, when nothing is assumed: each strategy decides in a fixed  *)
(* order until everything is assigned, a conflict, or no literal suits it.  *)
Strategies == <<"all false", "all true", "forward true", "forward false",
                "backward false", "backward true", "positive horn", "negative horn">>
Lucky == mode \in ToSet(Strategies)
NextStrategy ==
  LET i == CHOOSE i \in DOMAIN Strategies : Strategies[i] = mode
  IN  IF i = Len(Strategies) THEN "search" ELSE Strategies[i + 1]

Signed(v) ==
  IF mode \in {"all true", "forward true", "backward true", "negative horn"} THEN v ELSE -v
Occurring == {Idx(l) : l \in UNION {ToSet(formula[c]) : c \in DOMAIN formula}}
Open      == {v \in Occurring : Free(v)}
ToSatisfy == {c \in DOMAIN clauses : /\ ~clauses[c].redundant /\ ~clauses[c].garbage
                                     /\ \A l \in LitsOf(c) : ~True(l)}

(* The first two look at the clauses before they decide anything; horn      *)
(* satisfies them one by one with literals of the other sign.               *)
Purely(c) == \A l \in LitsOf(c) : Free(l) => l # Signed(Idx(l))
LuckyLiteral ==             \* or 0
  CASE mode \in {"all false", "all true"} /\ level = 0 /\ \E c \in ToSatisfy : Purely(c) -> 0
    [] mode \in {"positive horn", "negative horn"} /\ ToSatisfy # {} ->
         LET c  == Min(ToSatisfy)
             ls == Restricted(clauses[c].lits, {l \in LitsOf(c) : Free(l) /\ l # Signed(Idx(l))})
         IN  IF ls = <<>> THEN 0 ELSE ls[1]
    [] OTHER -> Signed(IF mode \in {"backward false", "backward true"} THEN Max(Open) ELSE Min(Open))

TryLucky ==
  /\ Lucky /\ Quiet
  /\ CASE Open = {} -> answer' = 10 /\ UNCHANGED <<asg, mode>>
       [] Open # {} /\ LuckyLiteral # 0 -> asg' = Decided(asg, LuckyLiteral) /\ UNCHANGED <<answer, mode>>
       [] OTHER -> asg' = Backtrack(asg, 0) /\ mode' = NextStrategy /\ UNCHANGED answer
  /\ UNCHANGED <<input, db, todo, conflict, resolvent, limits>>

(* unlucky: the conflict is not analyzed. *)
Unlucky ==
  /\ Lucky /\ answer = 0 /\ conflict # 0 /\ todo = {}
  /\ asg' = Backtrack(asg, 0) /\ conflict' = 0 /\ mode' = NextStrategy
  /\ UNCHANGED <<input, db, todo, resolvent, limits, answer>>

-----------------------------------------------------------------------------
(* propagate *)
Propagating == answer = 0 /\ resolvent = {}
Lit == -asg.trail[asg.propagated]

NextLiteral ==
  /\ Propagating /\ conflict = 0 /\ todo = {} /\ asg.propagated < Len(asg.trail)
  /\ asg' = [asg EXCEPT !.propagated = @ + 1]
  /\ todo' = {w[2] : w \in {w \in DOMAIN blit : w[1] = -asg.trail[asg.propagated + 1]}}
  /\ UNCHANGED <<input, db, conflict, resolvent, limits, mode, answer>>

(* Counted when propagate returns, so once for several binary conflicts,    *)
(* and not at all in a lucky phase.                                        *)
Conflict(c) ==
  /\ conflict' = c
  /\ conflicts' = IF conflict = 0 /\ ~Lucky THEN Min({conflicts + 1, RestartInt + 1}) ELSE conflicts

Skip == UNCHANGED <<db, asg, conflict, conflicts>>

VisitBinary(c) ==
  /\ todo' = todo \ {c} /\ UNCHANGED db
  /\ LET b == blit[<<Lit, c>>]
     IN  IF False(b) THEN Conflict(c) /\ UNCHANGED asg
         ELSE asg' = Assign(asg, b, c, LitsOf(c)) /\ UNCHANGED <<conflict, conflicts>>

(* The other watch is not true: look for a literal to watch instead. *)
Replace(c, other) ==
  LET ls == clauses[c].lits
  IN  \/ /\ \E k \in 3 .. Len(ls) :
              \/ True(ls[k]) /\ blit' = Watch(blit, Lit, c, ls[k]) /\ UNCHANGED clauses
              \/ /\ Free(ls[k])
                 /\ blit' = Watch(Unwatch(blit, Lit, c), ls[k], c, Lit)
                 /\ clauses' = [clauses EXCEPT ![c].lits =
                                  [ls EXCEPT ![1] = other, ![2] = ls[k], ![k] = Lit]]
         /\ todo' = todo \ {c} /\ UNCHANGED <<asg, conflict, conflicts>>
      \/ /\ \A k \in 3 .. Len(ls) : False(ls[k])
         /\ UNCHANGED db
         /\ IF Free(other)
            THEN /\ asg' = Assign(asg, other, c, LitsOf(c)) /\ todo' = todo \ {c}
                 /\ UNCHANGED <<conflict, conflicts>>
            ELSE Conflict(c) /\ todo' = {} /\ UNCHANGED asg

VisitLong(c) ==
  LET other == Other(clauses[c].lits, Lit)
  IN  CASE conflict # 0 -> todo' = {} /\ Skip
        [] conflict = 0 /\ clauses[c].garbage ->
             /\ blit' = Unwatch(blit, Lit, c) /\ todo' = todo \ {c}
             /\ UNCHANGED <<clauses, asg, conflict, conflicts>>
        [] conflict = 0 /\ ~clauses[c].garbage /\ True(other) ->
             /\ blit' = Watch(blit, Lit, c, other) /\ todo' = todo \ {c}
             /\ UNCHANGED <<clauses, asg, conflict, conflicts>>
        [] OTHER -> Replace(c, other)

Visit(c) ==
  /\ c \in todo
  /\ IF True(blit[<<Lit, c>>]) THEN todo' = todo \ {c} /\ Skip
     ELSE IF Len(clauses[c].lits) = 2 THEN VisitBinary(c) ELSE VisitLong(c)
  /\ UNCHANGED <<input, resolvent, reductions, mode, answer>>

-----------------------------------------------------------------------------
(* analyze *)

(* find_conflict_level: the two literals of the highest levels become the   *)
(* watched ones.                                                            *)
Swap(ls, i, j) == [ls EXCEPT ![i] = ls[j], ![j] = ls[i]]
HighestFrom(ls, i) ==
  CHOOSE j \in i .. Len(ls) :
    /\ \A k \in i .. Len(ls) : LevelOf(ls[k]) <= LevelOf(ls[j])
    /\ \A k \in i .. j - 1 : LevelOf(ls[k]) < LevelOf(ls[j])
Fronted(c) ==
  LET move(acc, i) ==
        LET ls == acc.lits
            j  == HighestFrom(ls, i)
        IN  [lits |-> Swap(ls, i, j),
             blit |-> IF j <= 2 THEN acc.blit
                      ELSE Watch(Unwatch(acc.blit, ls[i], c), ls[j], c, ls[3 - i])]
  IN  move(move([lits |-> clauses[c].lits, blit |-> blit], 1), 2)

ConflictLevel(c) == Maximum({LevelOf(l) : l \in LitsOf(c)})
Highest(c)       == {l \in LitsOf(c) : LevelOf(l) = ConflictLevel(c)}

(* With a single literal on the conflict level the conflict is a reason to  *)
(* flip it; on the root level there is nothing to flip.                     *)
BeginAnalysis ==
  /\ Propagating /\ ~Lucky /\ conflict # 0 /\ todo = {}
  /\ LET n == ConflictLevel(conflict)
         f == Fronted(conflict)
     IN  /\ clauses' = [clauses EXCEPT ![conflict].lits = f.lits]
         /\ blit' = f.blit
         /\ CASE n = 0 ->
                   /\ asg' = Backtrack(asg, 0) /\ answer' = 20
                   /\ UNCHANGED <<conflict, resolvent>>
              [] n > 0 /\ Cardinality(Highest(conflict)) = 1 ->
                   /\ asg' = Assign(Backtrack(asg, n - 1), f.lits[1], conflict, LitsOf(conflict))
                   /\ conflict' = 0 /\ UNCHANGED <<resolvent, answer>>
              [] OTHER ->
                   /\ asg' = Backtrack(asg, n)
                   /\ resolvent' = NonRoot(LitsOf(conflict))
                   /\ UNCHANGED <<conflict, answer>>
  /\ UNCHANGED <<input, todo, limits, mode>>

(* determine_actual_backtrack_level: the levels up to a variable that would *)
(* be decided next anyhow are kept.                                         *)
ActualLevels(jump) ==
  LET kept(p) == Cardinality({k \in jump + 1 .. level - 1 : asg.control[k].trail <= p})
  IN  CASE jump >= level - 1 \/ jump < Len(assumptions) -> {jump}
        [] level - jump > ChronoLevelLim /\ jump >= Len(assumptions) -> {level - 1}
        [] OTHER -> {jump + kept(p) : p \in asg.control[jump + 1].trail .. Len(asg.trail) - 1}

LastOn(ls) ==     \* the literal of ls on the current level assigned last
  CHOOSE l \in OnLevel(ls) : \A k \in OnLevel(ls) : Place(k) <= Place(l)

(* on_the_fly_strengthen: without the root literals and uip; the other      *)
(* watch stays, and the highest of the rest is watched.                     *)
Strengthened(c, uip) ==
  LET ls == Restricted(clauses[c].lits, NonRoot(LitsOf(c)))
      m  == Len(ls)
      rest == SubSeq([ls EXCEPT ![1] = Other(ls, uip), ![2] = ls[m]], 1, m - 1)
  IN  Swap(rest, 2, HighestFrom(rest, 2))
StrengthenedWatches(c, ls) ==
  LET others == [w \in {w \in DOMAIN blit : w[2] # c} |-> blit[w]]
  IN  Watch(Watch(others, ls[1], c, ls[2]), ls[2], c, ls[1])

(* otfs_subsume_clause: the strengthened clause takes the place of the      *)
(* conflict, which it subsumes.                                             *)
TakesOver_Redundant(c, d) == clauses[c].redundant
TakesOver(c, d) == clauses[c].redundant /\ clauses[d].redundant
Resolve ==
  /\ resolvent # {} /\ Cardinality(OnLevel(resolvent)) > 1
  /\ LET uip == -LastOn(resolvent)
         c   == ReasonOf(uip)
         antecedent == NonRoot(LitsOf(c))
         res == (resolvent \ {-uip}) \cup (antecedent \ {uip})
         otfs == Cardinality(antecedent) > 2 /\ Cardinality(res) < Cardinality(antecedent)
         subsumes == /\ resolvent = NonRoot(LitsOf(conflict))
                     /\ Cardinality(res) < Cardinality(resolvent)
         jump == Maximum({LevelOf(l) : l \in res \ OnLevel(res)})
     IN  IF ~otfs
         THEN resolvent' = res /\ UNCHANGED <<db, asg, conflict, conflicts>>
         ELSE /\ LET s == Strengthened(c, uip)
                     d == [clauses EXCEPT ![c].lits = s]
                 IN  /\ clauses' =
                          IF subsumes
                          THEN [d EXCEPT ![c].redundant = TakesOver(c, conflict),
                                         ![conflict].garbage = TRUE]
                          ELSE d
                     /\ blit' = StrengthenedWatches(c, s)
              /\ conflicts' = IF subsumes THEN Min({conflicts + 1, RestartInt + 1}) ELSE conflicts
              /\ IF Cardinality(OnLevel(res)) = 1
                 THEN /\ \E n \in ActualLevels(jump) :
                           asg' = Assign(Backtrack(asg, n), LastOn(res), c, res)
                      /\ conflict' = 0 /\ resolvent' = {}
                 ELSE asg' = asg /\ conflict' = c /\ resolvent' = res
  /\ UNCHANGED <<input, todo, reductions, mode, answer>>

-----------------------------------------------------------------------------
(* minimize_literal: implied by literals that are kept, along the reasons;  *)
(* the early aborts of the code only leave out attempts that fail.          *)
Implies(keep) ==
  LET reached[k \in 0 .. Len(asg.trail)] ==
        IF k = 0 THEN {}
        ELSE LET l == asg.trail[k]
                 c == ReasonOf(l)
             IN  reached[k - 1] \cup
                   IF \/ LevelOf(l) = 0 \/ -l \in keep
                      \/ /\ c # 0 /\ LevelOf(l) < level
                         /\ \A o \in LitsOf(c) \ {l} : -o \in reached[k - 1]
                   THEN {l} ELSE {}
  IN  reached[Len(asg.trail)]

(* shrink_block: the literals of one level are replaced by a single one if  *)
(* resolving along the trail leads to it, using what is implied by the      *)
(* literals kept on lower levels.                                           *)
ShrunkUip(block, keep) ==
  LET below == Implies(keep)
      n     == LevelOf(CHOOSE l \in block : TRUE)
      shrink[k \in 0 .. Len(asg.trail)] ==   \* after k resolutions, {} if one fails
        IF k = 0 THEN block
        ELSE LET s == shrink[k - 1]
                 u == CHOOSE l \in s : \A o \in s : Place(o) <= Place(l)
                 r == LitsOf(ReasonOf(u)) \ {-u}
             IN  IF Cardinality(s) <= 1 THEN s
                 ELSE IF \E o \in r : LevelOf(o) < n /\ -o \notin below THEN {}
                 ELSE (s \ {u}) \cup {o \in r : LevelOf(o) = n}
  IN  shrink[Len(asg.trail)]

(* minimize_literal for the literals of a block, the earliest first. *)
Minimized(block, keep) ==
  {l \in block :
     LET earlier == {o \in block : Place(o) < Place(l)}
         implied == Implies(keep \cup earlier)
     IN  ReasonOf(l) = 0 \/ \E o \in LitsOf(ReasonOf(l)) \ {-l} : -o \notin implied}

(* shrink_and_minimize_clause: level by level, the lowest first. *)
Shrunk(ls) ==
  LET block(n) == {l \in ls : LevelOf(l) = n}
      upto[n \in 0 .. level - 1] ==
        IF n = 0 THEN {}
        ELSE LET keep == upto[n - 1]
                 b == block(n)
                 u == ShrunkUip(b, keep)
             IN  keep \cup (IF Cardinality(b) < 2 THEN b
                            ELSE IF u # {} THEN u ELSE Minimized(b, keep))
  IN  block(level) \cup upto[level - 1]

(* new_driving_clause: the literals of the highest levels first. *)
Before(l, k) ==
  \/ LevelOf(l) > LevelOf(k)
  \/ LevelOf(l) = LevelOf(k) /\ Place(l) > Place(k)
Driving(ls) ==
  [i \in 1 .. Cardinality(ls) |->
     CHOOSE l \in ls : Cardinality({k \in ls : Before(k, l)}) = i - 1]
JumpLevel(ls) == LevelOf(ls[2])

(* eagerly_subsume_recently_learned_clauses: of the last clauses, whatever  *)
(* they are, those that were learned.                                      *)
Recent(c, d) == Cardinality({e \in DOMAIN c : e >= d}) <= EagerSubsumeLim
EagerlySubsumed(c, ls) ==
  [d \in DOMAIN c |->
     IF c[d].redundant /\ Recent(c, d) /\ ls \subseteq ToSet(c[d].lits)
     THEN [c[d] EXCEPT !.garbage = TRUE] ELSE c[d]]

LearnUnit(l) ==
  /\ \E n \in ActualLevels(0) : asg' = Assign(Backtrack(asg, n), l, 0, {l})
  /\ UNCHANGED db

LearnClause(ls) ==
  LET c == Maximum(DOMAIN clauses) + 1
  IN  /\ clauses' = [d \in DOMAIN clauses \cup {c} |->
                      IF d = c THEN [lits |-> ls, redundant |-> TRUE, garbage |-> FALSE]
                      ELSE EagerlySubsumed(clauses, ToSet(ls))[d]]
      /\ blit' = Watch(Watch(blit, ls[1], c, ls[2]), ls[2], c, ls[1])
      /\ \E n \in ActualLevels(JumpLevel(ls)) :
           asg' = Assign(Backtrack(asg, n), ls[1], c, ToSet(ls))

Learn ==
  /\ resolvent # {} /\ Cardinality(OnLevel(resolvent)) = 1
  /\ LET ls == Driving(Shrunk(resolvent))
     IN  IF Len(ls) = 1 THEN LearnUnit(ls[1]) ELSE LearnClause(ls)
  /\ conflict' = 0 /\ resolvent' = {}
  /\ UNCHANGED <<input, todo, limits, mode, answer>>

-----------------------------------------------------------------------------
(* The main loop. *)
Active     == {l \in Lits : \E c \in DOMAIN formula : {l, -l} \cap ToSet(formula[c]) # {}}
                \cup {l \in Lits : {l, -l} \cap ToSet(assumptions) # {}}
Complete   == \A l \in Active : ~Free(l)
Loop       == Quiet /\ mode = "search"
IsModel    == level >= Len(assumptions) /\ Complete

Satisfied ==
  /\ Loop /\ IsModel
  /\ answer' = 10
  /\ UNCHANGED <<input, db, asg, todo, conflict, resolvent, limits, mode>>

(* reuse_trail: the decisions that would be made again are kept; the next   *)
(* restart waits for RestartInt further conflicts.                          *)
Counted_Never == conflicts
Counted == 0
Restart ==
  /\ Loop /\ ~IsModel
  /\ level >= Len(assumptions) + 2 /\ conflicts > RestartInt
  /\ \E n \in Len(assumptions) .. level : asg' = Backtrack(asg, n)
  /\ conflicts' = Counted
  /\ UNCHANGED <<input, db, todo, conflict, resolvent, reductions, mode, answer>>

(* decide: the next assumption on the levels of the assumptions, with a     *)
(* level of its own when it holds already.                                  *)
Decide ==
  /\ Loop
  /\ IF level < Len(assumptions)
     THEN LET l == assumptions[level + 1]
          IN  IF False(l) THEN answer' = 20 /\ asg' = asg
              ELSE asg' = (IF True(l) THEN NewLevel(asg, 0) ELSE Decided(asg, l)) /\ answer' = answer
     ELSE /\ ~IsModel
          /\ \E l \in Active : Free(l) /\ asg' = Decided(asg, l)
          /\ answer' = answer
  /\ UNCHANGED <<input, db, todo, conflict, resolvent, limits, mode>>

-----------------------------------------------------------------------------
(* reduce: units assigned out of order are first propagated at the root,    *)
(* as their consequences may be missing ...                                 *)
OutOfOrder == \E k \in DOMAIN asg.trail :
  /\ level > 0 /\ k > asg.control[1].trail /\ LevelOf(asg.trail[k]) = 0
Reduce ==
  /\ Loop /\ ~IsModel /\ reductions < MaxReductions
  /\ \E c \in DOMAIN clauses : clauses[c].redundant /\ ~clauses[c].garbage
  /\ reductions' = reductions + 1
  /\ mode' = "reduce"
  /\ asg' = IF OutOfOrder THEN Backtrack(asg, 0) ELSE asg
  /\ UNCHANGED <<input, db, todo, conflict, resolvent, conflicts, answer>>

(* ... then clauses a unit satisfies go, others lose their false literals,  *)
(* and learned ones are forgotten that are no reason.                       *)
RootTrue(l) == True(l) /\ LevelOf(l) = 0
Flushed(ls) ==
  LET left == Restricted(ls, {l \in ToSet(ls) : ~RootTrue(-l)})
  IN  IF Len(left) < 2 THEN ls ELSE left
IsReason_None(c) == FALSE
IsReason(c) == \E k \in DOMAIN asg.trail : ReasonOf(asg.trail[k]) = c
Collect ==
  /\ Quiet /\ mode = "reduce"
  /\ LET marked == [c \in DOMAIN clauses |->
                     IF \E l \in LitsOf(c) : RootTrue(l)
                     THEN [clauses[c] EXCEPT !.garbage = TRUE]
                     ELSE [clauses[c] EXCEPT !.lits = IF clauses[c].garbage THEN @ ELSE Flushed(@)]]
         live(c) == ~marked[c].garbage \/ IsReason(c)
         candidates == {c \in DOMAIN clauses :
                          marked[c].redundant /\ ~marked[c].garbage /\ ~IsReason(c)}
     IN  \E forgotten \in SUBSET candidates :
           /\ clauses' = [c \in {c \in DOMAIN clauses : live(c)} \ forgotten |-> marked[c]]
           /\ blit' = [w \in {w \in DOMAIN blit : live(w[2]) /\ w[2] \notin forgotten} |->
                         Other(marked[w[2]].lits, w[1])]
  /\ mode' = "search"
  /\ UNCHANGED <<input, asg, todo, conflict, resolvent, limits, answer>>

Derive == Resolve \/ Learn
Advance ==
  \/ NextLiteral
  \/ \E c \in todo : Visit(c)
  \/ TryLucky \/ Unlucky
  \/ BeginAnalysis
  \/ Satisfied \/ Restart \/ Decide
  \/ Reduce \/ Collect
Next == Advance \/ Derive

(* Sequential code that waits for nobody: weak fairness of both kinds of    *)
(* step.  For those that derive a clause it is spelled out, with their      *)
(* guard in place of ENABLED, which TLC would find by carrying them out.    *)
Fairness ==
  /\ WF_vars(Advance)
  /\ []<>(resolvent = {}) \/ []<><<Derive>>_vars
Spec == Init /\ [][Next]_vars /\ Fairness

-----------------------------------------------------------------------------
(* A clause that is not garbage is watched by its first two literals. *)
TypeOK ==
  /\ ToSet(asg.trail) \subseteq Lits /\ ~Tautology(ToSet(asg.trail))
  /\ Cardinality(ToSet(asg.trail)) = Len(asg.trail)
  /\ \A c \in DOMAIN clauses : Len(clauses[c].lits) >= 2 /\ LitsOf(c) \subseteq Lits
  /\ \A c \in DOMAIN clauses : ~clauses[c].garbage =>
       \A l \in LitsOf(c) :
         <<l, c>> \in DOMAIN blit <=> l \in {clauses[c].lits[1], clauses[c].lits[2]}
  /\ conflict \in DOMAIN clauses \cup {0}
  /\ answer \in {0, 10, 20} /\ mode \in ToSet(Strategies) \cup {"search", "reduce"}

(* What every analysis relies on, in spite of backtracking that leaves      *)
(* literals of lower levels behind on the trail, of conflict clauses        *)
(* strengthened in place and of clauses deleted (analyze.cpp:955-1040): a   *)
(* reason is still there, its other literals are false and came earlier,    *)
(* and the level is the highest of theirs.  A decision opens its level.     *)
Justified(k) ==
  LET l == asg.trail[k]
      c == ReasonOf(l)
  IN  /\ c \in DOMAIN clauses /\ l \in LitsOf(c)
      /\ \A o \in LitsOf(c) \ {l} : False(o) /\ Place(o) < k
      /\ LevelOf(l) = Maximum({LevelOf(o) : o \in LitsOf(c) \ {l}})
TrailSound ==
  /\ TypeOK
  /\ \A k \in DOMAIN asg.trail :
       LET l == asg.trail[k]
       IN  /\ LevelOf(l) > 0 => k > asg.control[LevelOf(l)].trail
           /\ LevelOf(l) > 0 /\ ReasonOf(l) = 0 =>
                asg.control[LevelOf(l)] = [decision |-> l, trail |-> k - 1]
           /\ ReasonOf(l) # 0 /\ resolvent = {} => Justified(k)

(* Watching two literals is enough to see every conflict: once propagation  *)
(* has come to rest no clause is falsified, also when the trail was cut     *)
(* below literals that had been propagated already, after a clause has lost *)
(* a watched literal, and when the levels on the trail are out of order     *)
(* (propagate.cpp:218-412, internal.cpp:264-282).  A clause may become a    *)
(* unit unnoticed: on_the_fly_strengthen lets it watch a literal of a low   *)
(* level when its other watch was false at the root (analyze.cpp:738-746).  *)
NoneFalsified ==
  Quiet => \A c \in DOMAIN clauses :
    ~clauses[c].garbage => \E l \in LitsOf(c) : ~False(l)

(* The clauses marked irredundant say what the input said, although clauses *)
(* subsume each other during analysis and learned ones are dropped at will  *)
(* (analyze.cpp:802-829, reduce.cpp:84-150); all others, the units and the  *)
(* clause being derived, follow from it.                                    *)
Original == {ToSet(formula[c]) : c \in DOMAIN formula}
Units0   == {l \in ToSet(asg.trail) : LevelOf(l) = 0}
Kept     == {LitsOf(c) : c \in {c \in DOMAIN clauses : ~clauses[c].redundant /\ ~clauses[c].garbage}}
FormulaKept ==
  LET models == ModelsOf(Original, {})
      entailed(ls) == \A m \in models : ls \cap m # {}
  IN  /\ ModelsOf(Kept, Units0) = models
      /\ \A c \in DOMAIN clauses : entailed(LitsOf(c))
      /\ resolvent # {} => entailed(resolvent \cup {-l : l \in Units0})

(* 10 comes with a model of the input and of the assumptions, 20 only if    *)
(* there is none (internal.cpp:248-319, decide.cpp:122-130).                *)
AnswerCorrect ==
  /\ answer = 10 => /\ SatisfiesAll(ToSet(asg.trail), Original)
                    /\ ToSet(assumptions) \subseteq ToSet(asg.trail)
  /\ answer = 20 => ModelsOf(Original, ToSet(assumptions)) = {}

(* The search answers, although restarts, chronological backtracking and    *)
(* deleted clauses each give up progress made before (internal.cpp:264-305,  *)
(* restart.cpp:63-148).                                                     *)
Termination == <>(answer # 0)
=============================================================================
