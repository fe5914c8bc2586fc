---------------------------- MODULE SearchProofs ----------------------------
(***************************************************************************)
(* The search of the SAT solver, continued: resolution and strengthening   *)
(* on the fly, minimizing and shrinking, learning, backtracking, garbage   *)
(* collection; then that every step keeps SInv, and what follows from it:  *)
(* the trail is sound, no clause is falsified unnoticed, the clauses keep  *)
(* saying what the formula said, and the answer is right.                  *)
(***************************************************************************)
EXTENDS SearchInvariant

-----------------------------------------------------------------------------
(* Jumping back.                                                            *)

(* The place of a literal on the trail.                                     *)
LEMMA PlaceSpec ==
  ASSUME TrailInv(asg), NEW k \in DOMAIN asg.trail, NEW l \in Lits, asg.trail[k] = l \/ asg.trail[k] = -l
  PROVE  Place(l) = k
<1>1. \A j \in DOMAIN asg.trail : asg.trail[j] \in Lits
  BY TrailFacts, AsgFacts
<1>2. Idx(asg.trail[k]) = Idx(l)
  BY LitFacts
<1>3. ASSUME NEW j \in DOMAIN asg.trail, Idx(asg.trail[j]) = Idx(l)
      PROVE  j = k
  <2>1. asg.trail[j] = asg.trail[k] \/ asg.trail[j] = -asg.trail[k]
    BY <1>1, <1>2, <1>3, LitFacts
  <2>. QED  BY <2>1, TrailFacts
<1>. QED  BY <1>2, <1>3 DEF Place

(* The literals of the current level.                                       *)
LEMMA OnLevelSpec ==
  ASSUME NEW ls
  PROVE  OnLevel(ls) = {l \in ls : LevelIn(asg, l) = Lev(asg)}
BY SameState DEF OnLevel

(* The literal of the current level that was assigned last.                 *)
LEMMA LastOnSpec ==
  ASSUME TrailInv(asg), NEW ls \in SUBSET Lits, \A l \in ls : On(asg, -l), OnLevel(ls) # {}
  PROVE  /\ LastOn(ls) \in ls /\ LevelIn(asg, LastOn(ls)) = Lev(asg)
         /\ \E p \in DOMAIN asg.trail :
              /\ asg.trail[p] = -LastOn(ls)
              /\ \A k \in ls, j \in DOMAIN asg.trail :
                   LevelIn(asg, k) = Lev(asg) /\ asg.trail[j] = -k => j <= p
<1>. DEFINE B == OnLevel(ls)
           S == {n \in DOMAIN asg.trail : \E k \in B : asg.trail[n] = -k}
<1>1. DOMAIN asg.trail = 1 .. Len(asg.trail) /\ Len(asg.trail) \in Nat
  BY TrailFacts, AsgFacts
<1>2. B = {l \in ls : LevelIn(asg, l) = Lev(asg)}
  BY OnLevelSpec
<1>. HIDE DEF B
<1>3. \A k \in B : k \in ls /\ k \in Lits /\ On(asg, -k) /\ k = - -k
  BY <1>2, LitFacts
<1>4. \A k \in B : \E n \in S : asg.trail[n] = -k
  BY <1>3, TrailFacts, AsgFacts
<1>4a. S # {}
  BY <1>4 DEF B
<1>5. S \in SUBSET Nat /\ \A n \in S : n <= Len(asg.trail)
  BY <1>1
<1>6. PICK top \in S : \A n \in S : n <= top
  BY <1>1, <1>4a, <1>5, GreatestNat
<1>7. PICK b \in B : asg.trail[top] = -b
  BY <1>6
<1>8. \A k \in B, n \in DOMAIN asg.trail : asg.trail[n] = -k => Place(k) = n
  BY <1>3, PlaceSpec
<1>9. \A k \in B : Place(k) <= Place(b)
  BY <1>4, <1>6, <1>7, <1>8
<1>10. LastOn(ls) \in B /\ \A k \in B : Place(k) <= Place(LastOn(ls))
  BY <1>7, <1>9 DEF LastOn, B
<1>11. PICK p \in S : asg.trail[p] = -LastOn(ls)
  BY <1>4, <1>10
<1>12. ASSUME NEW k \in ls, NEW j \in DOMAIN asg.trail, LevelIn(asg, k) = Lev(asg), asg.trail[j] = -k
       PROVE  j <= p
  <2>1. k \in B
    BY <1>2, <1>12
  <2>2. Place(k) = j /\ Place(LastOn(ls)) = p
    BY <1>8, <1>10, <1>11, <1>12, <2>1
  <2>. QED  BY <1>10, <2>1, <2>2
<1>. QED  BY <1>2, <1>10, <1>11, <1>12

(* determine_actual_backtrack_level keeps between the jump and the last level. *)
LEMMA ActualLevelsSpec ==
  ASSUME TrailInv(asg), Lev(asg) > 0, NEW jump \in 0 .. Lev(asg) - 1, NEW n \in ActualLevels(jump)
  PROVE  n \in jump .. Lev(asg) - 1
<1>. DEFINE T(p) == {k \in jump + 1 .. level - 1 : asg.control[k].trail <= p}
<1>1. level = Lev(asg) /\ Lev(asg) \in Nat
  BY SameState, TrailFacts, AsgFacts
<1>2. ASSUME NEW p
      PROVE  Cardinality(T(p)) \in Nat /\ Cardinality(T(p)) <= level - 1 - jump
  <2>1. jump + 1 \in Int /\ level - 1 \in Int
    BY <1>1
  <2>2. /\ IsFiniteSet(jump + 1 .. level - 1)
        /\ Cardinality(jump + 1 .. level - 1) = IF jump + 1 > level - 1 THEN 0 ELSE level - 1 - (jump + 1) + 1
    BY <2>1, FS_Interval
  <2>3. T(p) \in SUBSET (jump + 1 .. level - 1)
    OBVIOUS
  <2>. HIDE DEF T
  <2>4. IsFiniteSet(T(p)) /\ Cardinality(T(p)) <= Cardinality(jump + 1 .. level - 1)
    BY <2>2, <2>3, FS_Subset
  <2>5. Cardinality(T(p)) \in Nat
    BY <2>4, FS_CardinalityType
  <2>. QED  BY <1>1, <2>2, <2>4, <2>5
<1>3. \/ n = jump \/ n = level - 1
      \/ \E p : n = jump + Cardinality(T(p))
  BY DEF ActualLevels
<1>. HIDE DEF T
<1>. QED  BY <1>1, <1>2, <1>3

(* The clause ls is a reason for its only literal of the last level once    *)
(* the trail has been cut to level n.                                       *)
Asserts(t, n, ls, l) ==
  /\ ls \subseteq Lits /\ l \in ls /\ LevelIn(t, l) = Lev(t) /\ On(t, -l)
  /\ \A o \in ls \ {l} : On(t, -o) /\ LevelIn(t, o) <= n

(* After the jump the literal to be flipped is free and all others are      *)
(* false.                                                                   *)
LEMMA JumpCut ==
  ASSUME NEW t, TrailInv(t), NEW n \in 0 .. Lev(t) - 1, NEW ls, NEW l, Asserts(t, n, ls, l)
  PROVE  LET u == Backtrack(t, n)
         IN  /\ TrailInv(u) /\ u \in AsgType /\ Lev(u) = n /\ n \in 0 .. Lev(t) /\ n # Lev(t)
             /\ l \in Lits /\ ls \in SUBSET Lits /\ ~On(u, l) /\ ~On(u, -l)
             /\ \A o \in ls \ {l} : On(u, -o) /\ LevelIn(u, o) = LevelIn(t, o)
             /\ Bounded(u, ls \ {l})
<1>. DEFINE u == Backtrack(t, n)
<1>1. t \in AsgType /\ Lev(t) \in Nat /\ n \in Nat /\ n \in 0 .. Lev(t) /\ n # Lev(t) /\ ~(Lev(t) <= n)
  BY TrailFacts, AsgFacts
<1>2. l \in Lits /\ ls \in SUBSET Lits /\ -l \in Lits /\ LevelIn(t, l) = Lev(t) /\ LevelIn(t, -l) = Lev(t)
      /\ \A o \in ls \ {l} : o \in Lits /\ -o \in Lits /\ On(t, -o) /\ LevelIn(t, o) <= n /\ LevelIn(t, -o) = LevelIn(t, o)
  BY <1>1, AsgFacts, LitFacts DEF Asserts
<1>3. u \in AsgType /\ \E g : Cut(t, u, n, g)
  BY <1>1, BacktrackCut
<1>4. PICK g : Cut(t, u, n, g)
  BY <1>3
<1>. HIDE DEF u
<1>5. TrailInv(u)
  BY <1>1, <1>3, <1>4, CutInv
<1>6. /\ \A o \in Lits : On(u, o) <=> On(t, o) /\ LevelIn(t, o) <= n
      /\ \A o \in Lits : On(u, o) \/ On(u, -o) => LevelIn(u, o) = LevelIn(t, o)
  BY <1>1, <1>3, <1>4, CutFacts
<1>7. ~On(u, l) /\ ~On(u, -l)
  BY <1>1, <1>2, <1>6
<1>8. \A o \in ls \ {l} : On(u, -o) /\ LevelIn(u, o) = LevelIn(t, o)
  BY <1>2, <1>6
<1>9. Lev(u) = n
  BY <1>4 DEF Cut
<1>10. Bounded(u, ls \ {l})
  BY <1>2, <1>8, <1>9 DEF Bounded
<1>. QED  BY <1>1, <1>2, <1>3, <1>5, <1>7, <1>8, <1>9, <1>10 DEF u

(* Jumping back and flipping a literal keeps everything but the reasons.    *)
LEMMA JumpKeeps ==
  ASSUME NEW t, TrailInv(t), NEW n \in 0 .. Lev(t) - 1, NEW ls, NEW l, Asserts(t, n, ls, l),
         NEW c \in Nat, c # 0 \/ ls = {l}, NEW asm \in Seq(Lits), AssumptionsInv(asm, t),
         NEW cl, ClausesInv(cl), NEW conf, WatchedInv(cl, t, {}, conf),
         NEW M \in SUBSET Assignments, NEW cl2, NEW res, MeaningInv(M, cl2, t, res), Entails(M, ls)
  PROVE  LET a == Assign(Backtrack(t, n), l, c, ls)
         IN  /\ TrailInv(a) /\ a \in AsgType /\ AssumptionsInv(asm, a) /\ Lev(a) = n
             /\ On(a, l) /\ ~On(a, -l)
             /\ \A o \in ls \ {l} : On(a, -o) /\ LevelIn(a, o) = LevelIn(t, o)
             /\ WatchedInv(cl, a, {}, 0)
             /\ MeaningInv(M, cl2, a, {})
<1>. DEFINE u == Backtrack(t, n)
           a == Assign(u, l, c, ls)
           m == AssignmentLevel(u, l, ls)
<1>1. /\ TrailInv(u) /\ u \in AsgType /\ Lev(u) = n /\ n \in 0 .. Lev(t) /\ n # Lev(t)
      /\ l \in Lits /\ ls \in SUBSET Lits /\ ~On(u, l) /\ ~On(u, -l)
      /\ \A o \in ls \ {l} : On(u, -o) /\ LevelIn(u, o) = LevelIn(t, o)
      /\ Bounded(u, ls \ {l})
  BY JumpCut
<1>2. /\ AssumptionsInv(asm, u) /\ Units(u) = Units(t)
      /\ WatchedInv(cl, u, {}, 0)
  BY <1>1, BacktrackKeeps
<1>. HIDE DEF u
<1>3. TrailInv(a)
  BY <1>1, AssignInv
<1>4. a \in AsgType /\ Grows(u, a, l, m, IF m = 0 THEN 0 ELSE c)
  BY <1>1, AssignGrows
<1>. HIDE DEF a, m
<1>5. AssumptionsInv(asm, a) /\ Lev(a) = n
  BY <1>1, <1>2, <1>4, GrowsKeeps
<1>6. On(a, l) /\ ~On(a, -l)
  BY <1>1, <1>3, <1>4, GrowsFacts, TrailFacts
<1>7. \A o \in ls \ {l} : On(a, -o) /\ LevelIn(a, o) = LevelIn(t, o)
  <2>1. ASSUME NEW o \in ls \ {l}
        PROVE  On(a, -o) /\ LevelIn(a, o) = LevelIn(t, o)
    <3>1. o \in Lits /\ On(u, -o) /\ LevelIn(u, o) = LevelIn(t, o)
      BY <1>1
    <3>2. On(a, -o) /\ LevelIn(a, o) = LevelIn(u, o)
      BY <1>1, <1>4, <3>1, GrowsFacts
    <3>. QED  BY <3>1, <3>2
  <2>. QED  BY <2>1
<1>8. WatchedInv(cl, a, {}, 0)
  BY <1>1, <1>2, <1>3, <1>4, WatchedGrows
<1>9. MeaningInv(M, cl2, a, {})
  <2>1. MeaningInv(M, cl2, u, {})
    BY <1>2, MeaningSame
  <2>2. l \in ls
    BY DEF Asserts
  <2>. QED  BY <1>1, <2>1, <2>2, MeaningAssign DEF a
<1>. QED  BY <1>3, <1>4, <1>5, <1>6, <1>7, <1>8, <1>9 DEF a, u

(* The clause c is ls and watches l.                                        *)
Watching(cl, c, ls, l) == c \in DOMAIN cl /\ LS(cl, c) = ls /\ l \in Watches(cl, c) /\ ~cl[c].garbage

(* The clause is a sound reason of the literal flipped, and the other       *)
(* reasons stay sound.                                                      *)
LEMMA JumpReason ==
  ASSUME NEW t, TrailInv(t), NEW n \in 0 .. Lev(t) - 1, NEW ls, NEW l, Asserts(t, n, ls, l),
         NEW cl, ClausesInv(cl), NEW res, ReasonsInv(cl, t, res),
         NEW c, Watching(cl, c, ls, l)
  PROVE  ReasonsInv(cl, Assign(Backtrack(t, n), l, c, ls), {})
<1>. DEFINE u == Backtrack(t, n)
<1>1. /\ TrailInv(u) /\ u \in AsgType /\ Lev(u) = n /\ n \in 0 .. Lev(t) /\ n # Lev(t)
      /\ l \in Lits /\ ls \in SUBSET Lits /\ ~On(u, l) /\ ~On(u, -l)
      /\ \A o \in ls \ {l} : On(u, -o) /\ LevelIn(u, o) = LevelIn(t, o)
  BY JumpCut
<1>1a. PICK g : Cut(t, u, n, g)
  BY <1>1, BacktrackCut
<1>1b. n < Lev(t)
  BY TrailFacts, AsgFacts
<1>. HIDE DEF u
<1>2. ReasonsInv(cl, u, {})
  BY <1>1, <1>1a, <1>1b, ReasonsCut
<1>3. /\ c \in DOMAIN cl /\ LS(cl, c) = ls /\ l \in Watches(cl, c) /\ ~cl[c].garbage
  BY DEF Watching
<1>4. \A o \in LS(cl, c) \ {l} : On(u, -o)
  BY <1>1, <1>3
<1>5. ReasonsInv(cl, Assign(u, l, c, LS(cl, c)), {})
  <2>. HIDE DEF TrailInv
  <2>. QED  BY <1>1, <1>2, <1>3, <1>4, ReasonNew
<1>6. LS(cl, c) = ls
  BY <1>3
<1>. QED  BY <1>5, <1>6 DEF u

(* A list without repetition has as many places as members.                 *)
LEMMA OnceCardinality ==
  ASSUME NEW s \in Seq(Lits), \A i, j \in 1 .. Len(s) : i # j => s[i] # s[j]
  PROVE  IsFiniteSet(ToSet(s)) /\ Cardinality(ToSet(s)) = Len(s)
<1>. DEFINE n == Len(s)
           f == [i \in 1 .. n |-> s[i]]
<1>1. n \in Nat /\ \A l : l \in ToSet(s) <=> \E i \in 1 .. n : s[i] = l
  BY SetFacts
<1>2. f \in [1 .. n -> ToSet(s)]
  BY <1>1
<1>3. \A i, j \in 1 .. n : f[i] = f[j] => i = j
  BY <1>1
<1>4. \A l \in ToSet(s) : \E i \in 1 .. n : f[i] = l
  BY <1>1
<1>. HIDE DEF f
<1>5. f \in Bijection(1 .. n, ToSet(s))
  BY <1>2, <1>3, <1>4 DEF Bijection, Injection, Surjection, IsInjective
<1>6. IsFiniteSet(1 .. n) /\ Cardinality(1 .. n) = n
  <2>. HIDE DEF n
  <2>1. 1 \in Int /\ n \in Int
    BY <1>1
  <2>2. IsFiniteSet(1 .. n) /\ Cardinality(1 .. n) = IF 1 > n THEN 0 ELSE n - 1 + 1
    BY <2>1, FS_Interval
  <2>. QED  BY <1>1, <2>2
<1>7. ExistsBijection(1 .. n, ToSet(s))
  BY <1>5 DEF ExistsBijection
<1>8. IsFiniteSet(ToSet(s)) /\ Cardinality(ToSet(s)) = Cardinality(1 .. n)
  BY <1>6, <1>7, FS_Bijection
<1>. QED  BY <1>6, <1>8

(* Some literals of a clause, in their order.                               *)
LEMMA RestrictedOnce ==
  ASSUME NEW s \in Seq(Lits), Once(s), NEW A, A \subseteq ToSet(s)
  PROVE  LET r == Restricted(s, A)
         IN  /\ r \in Seq(Lits) /\ Once(r) /\ ToSet(r) = A
             /\ IsFiniteSet(A) /\ Cardinality(A) = Len(r)
             /\ \A x \in {s[1], s[2]} : x \in A /\ Len(s) >= 2 => x = r[1] \/ x = r[2]
<1>. DEFINE r == Restricted(s, A)
<1>1. r \in Seq(Lits) /\ \E g : Embeds(s, A, r, g)
  BY RestrictedSpec
<1>. HIDE DEF r
<1>2. PICK g : Embeds(s, A, r, g)
  BY <1>1
<1>3. /\ g \in [1 .. Len(r) -> 1 .. Len(s)]
      /\ \A i \in 1 .. Len(r) : r[i] = s[g[i]] /\ s[g[i]] \in A
      /\ \A i, j \in 1 .. Len(r) : i < j => g[i] < g[j]
      /\ \A k \in 1 .. Len(s) : s[k] \in A => \E i \in 1 .. Len(r) : g[i] = k
  BY <1>2 DEF Embeds
<1>4. /\ DOMAIN s = 1 .. Len(s) /\ DOMAIN r = 1 .. Len(r) /\ Len(r) \in Nat /\ Len(s) \in Nat
      /\ \A i, j \in 1 .. Len(s) : i # j => s[i] # s[j] /\ s[i] # -s[j]
  BY <1>1 DEF Once
<1>5. \A i \in 1 .. Len(r) : g[i] \in 1 .. Len(s)
  BY <1>3
<1>6. \A i, j \in 1 .. Len(r) : i # j => g[i] # g[j]
  BY <1>3, <1>4, <1>5
<1>7. \A i, j \in 1 .. Len(r) : i # j => r[i] # r[j] /\ r[i] # -r[j]
  <2>1. ASSUME NEW i \in 1 .. Len(r), NEW j \in 1 .. Len(r), i # j
        PROVE  r[i] # r[j] /\ r[i] # -r[j]
    <3>1. g[i] \in 1 .. Len(s) /\ g[j] \in 1 .. Len(s) /\ g[i] # g[j]
      BY <1>5, <1>6, <2>1
    <3>2. s[g[i]] # s[g[j]] /\ s[g[i]] # -s[g[j]]
      BY <1>4, <3>1
    <3>. QED  BY <1>3, <3>2
  <2>. QED  BY <2>1
<1>8. Once(r)
  BY <1>4, <1>7 DEF Once
<1>9. ToSet(r) = A
  <2>1. /\ \A l : l \in ToSet(s) <=> \E i \in 1 .. Len(s) : s[i] = l
        /\ \A l : l \in ToSet(r) <=> \E i \in 1 .. Len(r) : r[i] = l
    BY <1>1, SetFacts
  <2>2. \A l : l \in ToSet(r) => l \in A
    BY <1>3, <2>1
  <2>3. ASSUME NEW l \in A
        PROVE  l \in ToSet(r)
    <3>1. PICK k \in 1 .. Len(s) : s[k] = l
      BY <2>1
    <3>2. PICK i \in 1 .. Len(r) : g[i] = k
      BY <1>3, <3>1
    <3>3. r[i] = l
      BY <1>3, <3>1, <3>2
    <3>. QED  BY <2>1, <3>3
  <2>. QED  BY <2>2, <2>3
<1>10. IsFiniteSet(A) /\ Cardinality(A) = Len(r)
  BY <1>1, <1>7, <1>9, OnceCardinality
<1>11. ASSUME NEW k \in {1, 2}, s[k] \in A, Len(s) >= 2
       PROVE  s[k] = r[1] \/ s[k] = r[2]
  <2>1. PICK i \in 1 .. Len(r) : g[i] = k
    BY <1>3, <1>4, <1>11
  <2>2. i = 1 \/ i = 2
    <3>1. CASE i <= 2
      BY <3>1
    <3>2. CASE i > 2
      <4>1. 1 \in 1 .. Len(r) /\ 2 \in 1 .. Len(r) /\ i \in 1 .. Len(r)
        BY <1>4, <3>2
      <4>2. g[1] \in 1 .. Len(s) /\ g[2] \in 1 .. Len(s) /\ g[1] < g[2] /\ g[2] < g[i]
        BY <1>3, <1>5, <3>2, <4>1
      <4>. QED  BY <1>4, <2>1, <4>2
    <3>. QED  BY <3>1, <3>2
  <2>3. r[i] = s[k]
    BY <1>3, <2>1
  <2>. QED  BY <2>2, <2>3
<1>12. \A x \in {s[1], s[2]} : x \in A /\ Len(s) >= 2 => x = r[1] \/ x = r[2]
  BY <1>11
<1>. QED  BY <1>1, <1>8, <1>9, <1>10, <1>12 DEF r

(* The watch uip leaves, the last literal takes the second place. *)
Shortened(r, uip) == SubSeq([r EXCEPT ![1] = Other(r, uip), ![2] = r[Len(r)]], 1, Len(r) - 1)

(* A clause without one of its watched literals: the other one comes first, *)
(* the last literal second.                                                 *)
LEMMA ShortenedFacts ==
  ASSUME NEW r \in Seq(Lits), Once(r), Len(r) >= 3, NEW uip \in {r[1], r[2]}
  PROVE  LET q == Shortened(r, uip)
         IN  /\ q \in Seq(Lits) /\ Len(q) = Len(r) - 1 /\ Once(q) /\ ToSet(q) = ToSet(r) \ {uip}
<1>. DEFINE m == Len(r)
           e == [r EXCEPT ![1] = Other(r, uip), ![2] = r[m]]
           q == SubSeq(e, 1, m - 1)
           h == [i \in 1 .. m - 1 |-> IF i = 1 THEN (IF r[1] = uip THEN 2 ELSE 1) ELSE IF i = 2 THEN m ELSE i]
           hole == IF r[1] = uip THEN 1 ELSE 2
<1>1. /\ m \in Nat /\ m >= 3 /\ DOMAIN r = 1 .. m /\ \A i \in 1 .. m : r[i] \in Lits
      /\ \A i, j \in 1 .. m : i # j => r[i] # r[j] /\ r[i] # -r[j]
  BY DEF Once
<1>2. Other(r, uip) = IF r[1] = uip THEN r[2] ELSE r[1]
  BY DEF Other
<1>3. e \in Seq(Lits) /\ Len(e) = m
  BY <1>1, <1>2
<1>4. e[1] = (IF r[1] = uip THEN r[2] ELSE r[1]) /\ e[2] = r[m] /\ \A i \in 3 .. m : e[i] = r[i]
  BY <1>1, <1>2
<1>. HIDE DEF e, m
<1>5. m - 1 \in Nat /\ m - 1 <= Len(e)
  BY <1>1, <1>3
<1>6. q \in Seq(Lits) /\ Len(q) = m - 1 /\ \A i \in 1 .. m - 1 : q[i] = e[i]
  BY <1>3, <1>5, PrefixFacts
<1>. HIDE DEF q
<1>7. h \in [1 .. m - 1 -> 1 .. m] /\ \A i, j \in 1 .. m - 1 : i # j => h[i] # h[j]
  BY <1>1
<1>8. \A i \in 1 .. m - 1 : q[i] = r[h[i]] /\ h[i] # hole
  BY <1>1, <1>4, <1>6
<1>9. \A k \in 1 .. m : k # hole => \E i \in 1 .. m - 1 : h[i] = k
  <2>. DEFINE b == [k \in 1 .. m |-> IF k = 1 \/ k = 2 THEN 1 ELSE IF k = m THEN 2 ELSE k]
  <2>1. \A k \in 1 .. m : k # hole => b[k] \in 1 .. m - 1 /\ h[b[k]] = k
    BY <1>1
  <2>. QED  BY <2>1
<1>10. hole \in 1 .. m /\ r[hole] = uip
  BY <1>1
<1>. HIDE DEF h, hole
<1>11. \A i, j \in 1 .. m - 1 : i # j => q[i] # q[j] /\ q[i] # -q[j]
  <2>1. ASSUME NEW i \in 1 .. m - 1, NEW j \in 1 .. m - 1, i # j
        PROVE  q[i] # q[j] /\ q[i] # -q[j]
    <3>1. h[i] \in 1 .. m /\ h[j] \in 1 .. m /\ h[i] # h[j]
      BY <1>7, <2>1
    <3>2. r[h[i]] # r[h[j]] /\ r[h[i]] # -r[h[j]]
      BY <1>1, <3>1
    <3>. QED  BY <1>8, <3>2
  <2>. QED  BY <2>1
<1>12. DOMAIN q = 1 .. m - 1
  BY <1>6
<1>13. Once(q)
  BY <1>11, <1>12 DEF Once
<1>14. ToSet(q) = ToSet(r) \ {uip}
  <2>1. /\ \A l : l \in ToSet(r) <=> \E i \in 1 .. m : r[i] = l
        /\ \A l : l \in ToSet(q) <=> \E i \in 1 .. m - 1 : q[i] = l
    BY <1>6, SetFacts DEF m
  <2>2. ASSUME NEW i \in 1 .. m - 1
        PROVE  q[i] \in ToSet(r) /\ q[i] # uip
    <3>1. h[i] \in 1 .. m /\ h[i] # hole /\ q[i] = r[h[i]]
      BY <1>7, <1>8
    <3>2. r[h[i]] # r[hole]
      BY <1>1, <1>10, <3>1
    <3>. QED  BY <1>10, <2>1, <3>1, <3>2
  <2>3. ASSUME NEW k \in 1 .. m, r[k] # uip
        PROVE  r[k] \in ToSet(q)
    <3>1. k # hole
      BY <1>10, <2>3
    <3>2. PICK i \in 1 .. m - 1 : h[i] = k
      BY <1>9, <3>1
    <3>. QED  BY <1>8, <2>1, <3>2
  <2>. QED  BY <2>1, <2>2, <2>3
<1>. QED  BY <1>6, <1>13, <1>14 DEF q, e, m, Shortened

-----------------------------------------------------------------------------
(* Resolution and strengthening on the fly.                                 *)

(* The parts of a step of resolution. *)
Uip        == -LastOn(resolvent)
Cause      == ReasonOf(Uip)
Antecedent == NonRoot(LitsOf(Cause))
Resolved   == (resolvent \ {-Uip}) \cup (Antecedent \ {Uip})

(* The state while a clause is being derived.                               *)
LEMMA ResolveState ==
  ASSUME SInv, resolvent # {}
  PROVE  /\ answer = 0 /\ conflict # 0 /\ todo = {} /\ mode = "search" /\ Lev(asg) > 0 /\ Lev(asg) \in Nat
         /\ mode \notin ToSet(Strategies)
         /\ TrailInv(asg) /\ asg \in AsgType /\ ClausesInv(clauses) /\ WatchesInv(clauses, blit)
         /\ ReasonsInv(clauses, asg, resolvent) /\ WatchedInv(clauses, asg, {}, conflict)
         /\ Violated(clauses, asg, conflict)
         /\ \A l \in resolvent : l \in Lits /\ On(asg, -l) /\ LevelIn(asg, l) > 0
         /\ \E l \in resolvent : LevelIn(asg, l) = Lev(asg)
         /\ AssumptionsInv(assumptions, asg) /\ assumptions \in Seq(Lits)
         /\ MeaningInv(Models, clauses, asg, resolvent) /\ Entails(Models, resolvent)
<1>1. DerivingInv(asg, todo, conflict, resolvent, answer)
  BY DEF SInv
<1>2. /\ Lev(asg) > 0 /\ conflict # 0 /\ todo = {} /\ answer = 0
      /\ \A l \in resolvent : l \in Lits /\ On(asg, -l) /\ LevelIn(asg, l) > 0
      /\ \E l \in resolvent : LevelIn(asg, l) = Lev(asg)
  BY <1>1 DEF DerivingInv
<1>3. ModeInv(assumptions, asg, todo, conflict, resolvent, mode)
  BY DEF SInv
<1>4. mode = "search" /\ mode \notin ToSet(Strategies)
  BY <1>3, ModeFacts DEF ModeInv
<1>5. /\ TrailInv(asg) /\ ClausesInv(clauses) /\ WatchesInv(clauses, blit)
      /\ ReasonsInv(clauses, asg, resolvent) /\ WatchedInv(clauses, asg, {}, conflict)
      /\ ViolatedInv(clauses, asg, conflict)
      /\ AssumptionsInv(assumptions, asg) /\ assumptions \in Seq(Lits)
      /\ MeaningInv(Models, clauses, asg, resolvent)
  BY <1>2 DEF SInv, InputOK
<1>6. asg \in AsgType /\ Lev(asg) \in Nat
  BY <1>5, AsgFacts, TrailFacts
<1>7. Violated(clauses, asg, conflict)
  BY <1>2, <1>5 DEF ViolatedInv
<1>8. Entails(Models, resolvent)
  BY <1>5 DEF MeaningInv
<1>. QED  BY <1>2, <1>4, <1>5, <1>6, <1>7, <1>8

(* While two literals of the current level are left, the one assigned last  *)
(* has a reason: it is not the decision.                                    *)
LEMMA UipFacts ==
  ASSUME SInv, resolvent # {}, Cardinality(OnLevel(resolvent)) > 1
  PROVE  /\ Uip \in Lits /\ -Uip \in resolvent /\ LevelIn(asg, Uip) = Lev(asg) /\ On(asg, Uip)
         /\ ReasonIn(asg, Uip) = Cause /\ LastOn(resolvent) = -Uip
         /\ \E p \in DOMAIN asg.trail :
              /\ asg.trail[p] = Uip /\ ReasonOK(clauses, asg, p) /\ Cause # 0
              /\ \A k \in resolvent, j \in DOMAIN asg.trail :
                   LevelIn(asg, k) = Lev(asg) /\ asg.trail[j] = -k => j <= p
         /\ \E k \in resolvent : k # -Uip /\ LevelIn(asg, k) = Lev(asg)
<1>1. /\ TrailInv(asg) /\ asg \in AsgType /\ Lev(asg) > 0 /\ Lev(asg) \in Nat
      /\ ReasonsInv(clauses, asg, resolvent)
      /\ \A l \in resolvent : l \in Lits /\ On(asg, -l) /\ LevelIn(asg, l) > 0
  BY ResolveState
<1>2. OnLevel(resolvent) = {l \in resolvent : LevelIn(asg, l) = Lev(asg)}
  BY OnLevelSpec
<1>3. OnLevel(resolvent) # {}
  BY FS_EmptySet
<1>4. resolvent \in SUBSET Lits
  BY <1>1
<1>5. /\ LastOn(resolvent) \in resolvent /\ LevelIn(asg, LastOn(resolvent)) = Lev(asg)
      /\ \E p \in DOMAIN asg.trail :
           /\ asg.trail[p] = -LastOn(resolvent)
           /\ \A k \in resolvent, j \in DOMAIN asg.trail :
                LevelIn(asg, k) = Lev(asg) /\ asg.trail[j] = -k => j <= p
  BY <1>1, <1>3, <1>4, LastOnSpec
<1>. DEFINE l == LastOn(resolvent)
<1>6. l \in Lits /\ Uip = -l /\ Uip \in Lits /\ -Uip = l /\ On(asg, -l)
  BY <1>1, <1>5, LitFacts DEF Uip
<1>7. LevelIn(asg, Uip) = Lev(asg)
  BY <1>1, <1>5, <1>6, AsgFacts
<1>8. PICK p \in DOMAIN asg.trail :
           /\ asg.trail[p] = Uip
           /\ \A k \in resolvent, j \in DOMAIN asg.trail :
                LevelIn(asg, k) = Lev(asg) /\ asg.trail[j] = -k => j <= p
  BY <1>5, <1>6
<1>. HIDE DEF l
<1>9. PICK k \in OnLevel(resolvent) : k # l
  <2>1. SUFFICES ASSUME \A k \in OnLevel(resolvent) : k = l
                 PROVE  FALSE
    OBVIOUS
  <2>2. OnLevel(resolvent) = {l}
    BY <1>3, <2>1
  <2>3. Cardinality(OnLevel(resolvent)) = 1
    BY <2>2, FS_Singleton
  <2>. QED  BY <2>3
<1>10. k \in resolvent /\ LevelIn(asg, k) = Lev(asg) /\ k \in Lits /\ On(asg, -k)
  BY <1>1, <1>2, <1>9
<1>11. PICK q \in DOMAIN asg.trail : asg.trail[q] = -k
  BY <1>1, <1>10, AsgFacts
<1>12. q <= p
  BY <1>8, <1>10, <1>11
<1>13. /\ DOMAIN asg.trail = 1 .. Len(asg.trail) /\ Len(asg.trail) \in Nat
       /\ asg.control[Lev(asg)].trail \in Nat
  BY <1>1, AsgFacts
<1>14. q # p
  BY <1>6, <1>8, <1>9, <1>10, <1>11, LitFacts
<1>15. LevelIn(asg, asg.trail[q]) = Lev(asg)
  BY <1>1, <1>10, <1>11, AsgFacts
<1>16. q > asg.control[Lev(asg)].trail
  BY <1>1, <1>15, TrailFacts
<1>17. p - 1 # asg.control[Lev(asg)].trail
  BY <1>12, <1>13, <1>14, <1>16
<1>18. ReasonIn(asg, Uip) # 0
  <2>1. SUFFICES ASSUME ReasonIn(asg, Uip) = 0
                 PROVE  FALSE
    OBVIOUS
  <2>2. Decisions(asg)
    BY <1>1 DEF TrailInv
  <2>3. Decision(asg, p)
    BY <1>1, <1>7, <1>8, <2>1, <2>2 DEF Decisions
  <2>4. asg.control[Lev(asg)] = [decision |-> Uip, trail |-> p - 1]
    BY <1>7, <1>8, <2>3 DEF Decision
  <2>. QED  BY <1>17, <2>4
<1>19. Relevant(asg, resolvent, p)
  BY <1>5, <1>6, <1>8, <1>13 DEF Relevant, l
<1>20. ReasonOK(clauses, asg, p)
  BY <1>1, <1>8, <1>18, <1>19 DEF ReasonsInv
<1>21. ReasonIn(asg, Uip) = Cause
  BY SameState DEF Cause
<1>22. \E x \in resolvent : x # -Uip /\ LevelIn(asg, x) = Lev(asg)
  BY <1>6, <1>9, <1>10
<1>23. On(asg, Uip)
  BY <1>6
<1>24. -Uip \in resolvent /\ LastOn(resolvent) = -Uip
  BY <1>5, <1>6 DEF l
<1>25. \E x \in DOMAIN asg.trail :
              /\ asg.trail[x] = Uip /\ ReasonOK(clauses, asg, x) /\ Cause # 0
              /\ \A y \in resolvent, j \in DOMAIN asg.trail :
                   LevelIn(asg, y) = Lev(asg) /\ asg.trail[j] = -y => j <= x
  BY <1>8, <1>18, <1>20, <1>21
<1>. QED  BY <1>6, <1>7, <1>21, <1>22, <1>23, <1>24, <1>25

(* Resolving with that reason gives literals that are false, above the      *)
(* root, and assigned before.                                               *)
LEMMA ResolvedFacts ==
  ASSUME SInv, resolvent # {}, Cardinality(OnLevel(resolvent)) > 1,
         NEW p \in DOMAIN asg.trail, asg.trail[p] = Uip, ReasonOK(clauses, asg, p), Cause # 0,
         \A k \in resolvent, j \in DOMAIN asg.trail :
           LevelIn(asg, k) = Lev(asg) /\ asg.trail[j] = -k => j <= p
  PROVE  /\ Cause \in DOMAIN clauses /\ Uip \in Watches(clauses, Cause) /\ Uip \in LS(clauses, Cause)
         /\ clauses[Cause].garbage => Len(clauses[Cause].lits) = 2
         /\ \A o \in LS(clauses, Cause) : o # Uip => On(asg, -o) /\ ~On(asg, o)
         /\ Antecedent = {o \in LS(clauses, Cause) : LevelIn(asg, o) > 0} /\ Uip \in Antecedent
         /\ \A l \in Resolved : l \in Lits /\ On(asg, -l) /\ LevelIn(asg, l) > 0
         /\ \E l \in Resolved : LevelIn(asg, l) = Lev(asg)
         /\ Entails(Models, Resolved)
         /\ \A k \in DOMAIN asg.trail : Relevant(asg, Resolved, k) => Relevant(asg, resolvent, k) /\ k # p
<1>1. /\ TrailInv(asg) /\ asg \in AsgType /\ Lev(asg) > 0 /\ Lev(asg) \in Nat /\ ClausesInv(clauses)
      /\ ReasonsInv(clauses, asg, resolvent)
      /\ \A l \in resolvent : l \in Lits /\ On(asg, -l) /\ LevelIn(asg, l) > 0
      /\ MeaningInv(Models, clauses, asg, resolvent) /\ Entails(Models, resolvent)
  BY ResolveState
<1>2. /\ Uip \in Lits /\ -Uip \in resolvent /\ LevelIn(asg, Uip) = Lev(asg) /\ On(asg, Uip)
      /\ ReasonIn(asg, Uip) = Cause /\ LastOn(resolvent) = -Uip
      /\ \E k \in resolvent : k # -Uip /\ LevelIn(asg, k) = Lev(asg)
  BY UipFacts
<1>3. Forces(clauses, asg, Uip, Cause, p)
  BY <1>2 DEF ReasonOK
<1>4. /\ Cause \in DOMAIN clauses /\ Uip \in Watches(clauses, Cause)
      /\ clauses[Cause].garbage => Len(clauses[Cause].lits) = 2
      /\ \A o \in LS(clauses, Cause) \ {Uip} : LevelIn(asg, o) <= LevelIn(asg, Uip) /\ FalseBefore(asg, o, p)
  BY <1>3 DEF Forces
<1>5. /\ Uip \in LS(clauses, Cause)
      /\ \A o \in LS(clauses, Cause) : o # Uip => On(asg, -o) /\ ~On(asg, o)
  BY <1>1, <1>2, ForcesFacts
<1>6. LS(clauses, Cause) \subseteq Lits
  BY <1>1, <1>4, ClauseFacts
<1>7. Antecedent = {o \in LS(clauses, Cause) : LevelIn(asg, o) > 0}
  <2>1. \A o \in LS(clauses, Cause) : LevelOf(o) = LevelIn(asg, o)
    BY SameState
  <2>2. LitsOf(Cause) = LS(clauses, Cause)
    BY SameState
  <2>3. \A o : o \in Antecedent <=> o \in LS(clauses, Cause) /\ LevelIn(asg, o) > 0
    BY <2>1, <2>2 DEF Antecedent, NonRoot
  <2>. QED  BY <2>3
<1>8. Uip \in Antecedent
  BY <1>1, <1>2, <1>5, <1>7
<1>9. \A l \in Resolved : l \in Lits /\ On(asg, -l) /\ LevelIn(asg, l) > 0
  BY <1>1, <1>5, <1>6, <1>7 DEF Resolved
<1>10. \E l \in Resolved : LevelIn(asg, l) = Lev(asg)
  BY <1>2 DEF Resolved
<1>11. Entails(Models, Antecedent)
  <2>1. Entails(Models, LS(clauses, Cause)) /\ \A m \in Models : Units(asg) \subseteq m
    BY <1>1, <1>4 DEF MeaningInv
  <2>2. \A o \in LS(clauses, Cause) \ Antecedent : On(asg, -o) /\ LevelIn(asg, o) = 0
    <3>1. ASSUME NEW o \in LS(clauses, Cause) \ Antecedent
          PROVE  On(asg, -o) /\ LevelIn(asg, o) = 0
      <4>1. LevelIn(asg, o) \in Nat /\ ~(LevelIn(asg, o) > 0)
        BY <1>1, <1>6, <1>7, <3>1, AsgFacts
      <4>2. o # Uip
        BY <1>8, <3>1
      <4>. QED  BY <1>5, <3>1, <4>1, <4>2
    <3>. QED  BY <3>1
  <2>3. Antecedent \subseteq LS(clauses, Cause) /\ LS(clauses, Cause) \in SUBSET Lits
    BY <1>6, <1>7
  <2>4. Models \in SUBSET Assignments
    BY ModelsType
  <2>. HIDE DEF Antecedent
  <2>. QED  BY <1>1, <2>1, <2>2, <2>3, <2>4, EntailedRest
<1>12. Entails(Models, Resolved)
  <2>1. ASSUME NEW m \in Models
        PROVE  Resolved \cap m # {}
    <3>1. \A l \in Lits : ~(l \in m /\ -l \in m)
      BY <2>1, ModelsType, AssignmentFacts
    <3>2. PICK x \in resolvent : x \in m
      BY <1>1, <2>1 DEF Entails
    <3>3. PICK y \in Antecedent : y \in m
      BY <1>11, <2>1 DEF Entails
    <3>4. ~(Uip \in m /\ -Uip \in m)
      BY <1>2, <3>1
    <3>5. CASE x # -Uip
      BY <3>2, <3>5 DEF Resolved
    <3>6. CASE x = -Uip
      <4>1. y # Uip
        BY <3>2, <3>3, <3>4, <3>6
      <4>. QED  BY <3>3, <4>1 DEF Resolved
    <3>. QED  BY <3>5, <3>6
  <2>. QED  BY <2>1 DEF Entails
<1>13. ASSUME NEW k \in DOMAIN asg.trail, Relevant(asg, Resolved, k)
       PROVE  Relevant(asg, resolvent, k) /\ k # p
  <2>0. Resolved # {}
    BY <1>10
  <2>1. \/ LevelIn(asg, asg.trail[k]) < Lev(asg)
        \/ \E r \in Resolved : LevelIn(asg, r) = Lev(asg) /\ \E j \in DOMAIN asg.trail : asg.trail[j] = -r /\ k <= j
    BY <1>13, <2>0 DEF Relevant
  <2>2. DOMAIN asg.trail = 1 .. Len(asg.trail) /\ Len(asg.trail) \in Nat
    BY <1>1, AsgFacts
  <2>3. CASE LevelIn(asg, asg.trail[k]) < Lev(asg)
    BY <1>1, <1>2, <2>3 DEF Relevant
  <2>4. CASE \E r \in Resolved : LevelIn(asg, r) = Lev(asg) /\ \E j \in DOMAIN asg.trail : asg.trail[j] = -r /\ k <= j
    <3>1. PICK r \in Resolved : LevelIn(asg, r) = Lev(asg) /\ \E j \in DOMAIN asg.trail : asg.trail[j] = -r /\ k <= j
      BY <2>4
    <3>2. PICK j \in DOMAIN asg.trail : asg.trail[j] = -r /\ k <= j
      BY <3>1
    <3>3. r \in Lits /\ - -r = r /\ - -Uip = Uip
      BY <1>2, <1>9, LitFacts
    <3>4. j < p
      <4>1. CASE r \in resolvent \ {-Uip}
        <5>1. j <= p
          BY <3>1, <3>2, <4>1
        <5>2. -r # Uip
          BY <3>3, <4>1
        <5>3. j # p
          BY <3>2, <5>2
        <5>. QED  BY <2>2, <5>1, <5>3
      <4>2. CASE r \in Antecedent \ {Uip}
        <5>1. FalseBefore(asg, r, p)
          BY <1>4, <1>7, <4>2
        <5>2. PICK i \in DOMAIN asg.trail : i < p /\ asg.trail[i] = -r
          BY <5>1 DEF FalseBefore
        <5>3. i = j
          BY <1>1, <3>2, <5>2, TrailFacts
        <5>. QED  BY <5>2, <5>3
      <4>. QED  BY <4>1, <4>2 DEF Resolved
    <3>5. k < p
      BY <2>2, <3>2, <3>4
    <3>6. k # p /\ k <= p
      BY <2>2, <3>5
    <3>7. -Uip \in resolvent /\ LevelIn(asg, -Uip) = Lev(asg) /\ asg.trail[p] = - -Uip
      BY <1>1, <1>2, <3>3, AsgFacts
    <3>. QED  BY <3>6, <3>7 DEF Relevant
  <2>. QED  BY <2>1, <2>3, <2>4
<1>. QED  BY <1>4, <1>5, <1>7, <1>8, <1>9, <1>10, <1>12, <1>13

(* A step of resolution keeps the invariant: what is derived is implied.    *)
LEMMA ResolvePlainInv ==
  ASSUME SInv, resolvent # {}, Cardinality(OnLevel(resolvent)) > 1, resolvent' = Resolved,
         UNCHANGED <<input, db, asg, todo, conflict, mode, answer>>
  PROVE  SInv'
<1>1. /\ answer = 0 /\ conflict # 0 /\ todo = {} /\ mode = "search" /\ Lev(asg) > 0 /\ Lev(asg) \in Nat
      /\ mode \notin ToSet(Strategies)
      /\ TrailInv(asg) /\ asg \in AsgType /\ ClausesInv(clauses) /\ WatchesInv(clauses, blit)
      /\ ReasonsInv(clauses, asg, resolvent) /\ WatchedInv(clauses, asg, {}, conflict)
      /\ Violated(clauses, asg, conflict)
      /\ AssumptionsInv(assumptions, asg)
      /\ MeaningInv(Models, clauses, asg, resolvent)
  BY ResolveState
<1>2. PICK p \in DOMAIN asg.trail :
              /\ asg.trail[p] = Uip /\ ReasonOK(clauses, asg, p) /\ Cause # 0
              /\ \A k \in resolvent, j \in DOMAIN asg.trail :
                   LevelIn(asg, k) = Lev(asg) /\ asg.trail[j] = -k => j <= p
  BY UipFacts
<1>3. /\ \A l \in Resolved : l \in Lits /\ On(asg, -l) /\ LevelIn(asg, l) > 0
      /\ \E l \in Resolved : LevelIn(asg, l) = Lev(asg)
      /\ Entails(Models, Resolved)
      /\ \A k \in DOMAIN asg.trail : Relevant(asg, Resolved, k) => Relevant(asg, resolvent, k) /\ k # p
  BY <1>2, ResolvedFacts
<1>4. clauses' = clauses /\ blit' = blit /\ asg' = asg /\ conflict' = conflict /\ todo' = {} /\ answer' = 0
  BY <1>1 DEF db
<1>. DEFINE R == Resolved
<1>5. resolvent' = R
  OBVIOUS
<1>. HIDE DEF R
<1>6. ReasonsInv(clauses, asg, R)
  <2>1. \A k \in DOMAIN asg.trail : ReasonIn(asg, asg.trail[k]) # 0 /\ Relevant(asg, R, k) =>
           /\ Relevant(asg, resolvent, k)
           /\ LET c == ReasonIn(asg, asg.trail[k])
              IN  ReasonOK(clauses, asg, k) => c \in DOMAIN clauses /\ clauses[c].lits = clauses[c].lits /\ (clauses[c].garbage => clauses[c].garbage)
    BY <1>3 DEF ReasonOK, Forces, R
  <2>. QED  BY <1>1, <2>1, ReasonsKept
<1>7. DerivingInv(asg, {}, conflict, R, 0)
  BY <1>1, <1>3 DEF DerivingInv, R
<1>8. MeaningInv(Models, clauses, asg, R)
  <2>1. R # {} => Entails(Models, R)
    BY <1>3 DEF R
  <2>2. Units(asg) = Units(asg)
    OBVIOUS
  <2>. QED  BY <1>1, <2>1, <2>2, MeaningSame
<1>9. ViolatedInv(clauses, asg, conflict)
  BY <1>1 DEF ViolatedInv
<1>10. /\ TrailInv(asg') /\ ClausesInv(clauses') /\ WatchesInv(clauses', blit')
       /\ ReasonsInv(clauses', asg', resolvent') /\ WatchedInv(clauses', asg', {}, conflict')
  BY <1>1, <1>4, <1>5, <1>6
<1>11. /\ ViolatedInv(clauses', asg', conflict') /\ DerivingInv(asg', {}, conflict', resolvent', answer')
       /\ AssumptionsInv(assumptions, asg') /\ MeaningInv(Models, clauses', asg', resolvent')
  BY <1>1, <1>4, <1>5, <1>7, <1>8, <1>9
<1>12. mode # "reduce" /\ answer' \in {0, 10, 20} /\ UNCHANGED <<input, mode>>
  BY <1>1, <1>4
<1>. QED  BY <1>1, <1>4, <1>10, <1>11, <1>12, AnalysisKeeps

(* When the resolvent is shorter than the reason it is the reason without   *)
(* the literal resolved on.                                                 *)
LEMMA OtfsFacts ==
  ASSUME SInv, resolvent # {}, Cardinality(OnLevel(resolvent)) > 1,
         Cardinality(Antecedent) > 2, Cardinality(Resolved) < Cardinality(Antecedent)
  PROVE  LET s == Strengthened(Cause, Uip)
         IN  /\ Resolved = Antecedent \ {Uip} /\ Cause # conflict
             /\ Cause \in DOMAIN clauses /\ ~clauses[Cause].garbage
             /\ Resolved \subseteq LS(clauses, Cause) /\ resolvent \ {-Uip} \subseteq Resolved
             /\ Uip \notin resolvent
             /\ s \in Seq(Lits) /\ Len(s) >= 2 /\ Once(s) /\ ToSet(s) = Resolved
             /\ \A l \in Resolved : l # s[1] => LevelIn(asg, l) <= LevelIn(asg, s[2])
<1>1. /\ TrailInv(asg) /\ asg \in AsgType /\ Lev(asg) \in Nat /\ ClausesInv(clauses)
      /\ Violated(clauses, asg, conflict)
      /\ \A l \in resolvent : l \in Lits /\ On(asg, -l) /\ LevelIn(asg, l) > 0
  BY ResolveState
<1>2. PICK p \in DOMAIN asg.trail :
              /\ asg.trail[p] = Uip /\ ReasonOK(clauses, asg, p) /\ Cause # 0
              /\ \A k \in resolvent, j \in DOMAIN asg.trail :
                   LevelIn(asg, k) = Lev(asg) /\ asg.trail[j] = -k => j <= p
  BY UipFacts
<1>3. /\ Cause \in DOMAIN clauses /\ Uip \in Watches(clauses, Cause) /\ Uip \in LS(clauses, Cause)
      /\ clauses[Cause].garbage => Len(clauses[Cause].lits) = 2
      /\ Antecedent = {o \in LS(clauses, Cause) : LevelIn(asg, o) > 0} /\ Uip \in Antecedent
      /\ \A l \in Resolved : l \in Lits /\ On(asg, -l) /\ LevelIn(asg, l) > 0
  BY <1>2, ResolvedFacts
<1>4. Uip \in Lits /\ On(asg, Uip) /\ - -Uip = Uip
  BY UipFacts, LitFacts
<1>5. /\ clauses[Cause].lits \in Seq(Lits) /\ Len(clauses[Cause].lits) \in Nat /\ Len(clauses[Cause].lits) >= 2
      /\ LS(clauses, Cause) \subseteq Lits /\ IsFiniteSet(LS(clauses, Cause))
      /\ ClauseOK(clauses[Cause]) /\ clauses[Cause].garbage \in BOOLEAN
  BY <1>1, <1>3, ClauseFacts
<1>6. Antecedent \subseteq LS(clauses, Cause)
  BY <1>3
<1>7. Antecedent \subseteq ToSet(clauses[Cause].lits) /\ Once(clauses[Cause].lits)
  BY <1>5, <1>6 DEF LS, ClauseOK
<1>. DEFINE A  == Antecedent
            r  == Restricted(clauses[Cause].lits, A)
            q  == Shortened(r, Uip)
<1>8. Strengthened(Cause, Uip) = Swap(q, 2, HighestFrom(q, 2))
  BY DEF Strengthened, Shortened, Antecedent
<1>9. Resolved = (resolvent \ {-Uip}) \cup (A \ {Uip})
  BY DEF Resolved
<1>. HIDE DEF A
<1>10. A \subseteq ToSet(clauses[Cause].lits)
  BY <1>7 DEF A
<1>11. /\ r \in Seq(Lits) /\ Once(r) /\ ToSet(r) = A
       /\ IsFiniteSet(A) /\ Cardinality(A) = Len(r)
       /\ \A x \in {clauses[Cause].lits[1], clauses[Cause].lits[2]} : x \in A /\ Len(clauses[Cause].lits) >= 2 => x = r[1] \/ x = r[2]
  BY <1>5, <1>7, <1>10, RestrictedOnce
<1>. HIDE DEF r
<1>12. Uip \in {r[1], r[2]}
  BY <1>3, <1>5, <1>11 DEF Watches, A
<1>13. Len(r) \in Nat /\ Len(r) >= 3
  BY <1>11 DEF A
<1>14. q \in Seq(Lits) /\ Len(q) = Len(r) - 1 /\ Once(q) /\ ToSet(q) = ToSet(r) \ {Uip}
  BY <1>11, <1>12, <1>13, ShortenedFacts
<1>. HIDE DEF q
<1>15. Resolved = A \ {Uip}
  <2>1. IsFiniteSet(A \ {Uip}) /\ Cardinality(A \ {Uip}) = Cardinality(A) - 1
    BY <1>3, <1>11, FS_RemoveElement DEF A
  <2>2. Resolved \subseteq Lits
    BY <1>3
  <2>3. IsFiniteSet(Resolved)
    BY <2>2, LitsFinite, FS_Subset
  <2>4. A \ {Uip} \in SUBSET Resolved
    BY <1>9
  <2>5. Cardinality(Resolved) \in Nat /\ Cardinality(A) \in Nat /\ Cardinality(Resolved) < Cardinality(A)
    BY <1>11, <2>3, FS_CardinalityType DEF A
  <2>6. Cardinality(A \ {Uip}) <= Cardinality(Resolved)
    BY <2>3, <2>4, FS_Subset
  <2>7. Cardinality(Resolved) = Cardinality(A \ {Uip})
    BY <2>1, <2>5, <2>6, <1>11, <1>13
  <2>. QED  BY <2>3, <2>4, <2>7, FS_Subset
<1>16. Len(clauses[Cause].lits) # 2
  <2>1. IsFiniteSet(LS(clauses, Cause)) /\ Cardinality(LS(clauses, Cause)) = Len(clauses[Cause].lits)
    BY <1>5, <1>7, OnceCardinality DEF Once, LS
  <2>2. Cardinality(A) <= Cardinality(LS(clauses, Cause))
    BY <1>6, <2>1, FS_Subset DEF A
  <2>. DEFINE n == Len(clauses[Cause].lits)
              a == Cardinality(A)
              b == Cardinality(LS(clauses, Cause))
  <2>3. n \in Nat /\ b = n /\ a <= b /\ a >= 3 /\ a \in Nat
    BY <1>5, <1>11, <1>13, <2>1, <2>2
  <2>. HIDE DEF n, a, b
  <2>4. n # 2
    BY <2>3
  <2>. QED  BY <2>4 DEF n
<1>17. ~clauses[Cause].garbage
  BY <1>3, <1>5, <1>16
<1>18. Cause # conflict
  <2>1. SUFFICES ASSUME Cause = conflict
                 PROVE  FALSE
    OBVIOUS
  <2>2. On(asg, -Uip)
    BY <1>1, <1>3, <2>1 DEF Violated
  <2>. QED  BY <1>1, <1>4, <2>2, TrailFacts
<1>19. Len(q) >= 2 /\ Len(q) \in Nat /\ DOMAIN q = 1 .. Len(q)
  BY <1>13, <1>14
<1>20. ToSet(q) = Resolved
  BY <1>11, <1>14, <1>15
<1>21. \A l : l \in ToSet(q) <=> \E i \in 1 .. Len(q) : q[i] = l
  BY <1>14, SetFacts
<1>22. \A l \in Lits : LevelOf(l) = LevelIn(asg, l)
  BY SameState
<1>23. \A k \in DOMAIN q : LevelOf(q[k]) <= Lev(asg)
  <2>1. ASSUME NEW k \in DOMAIN q
        PROVE  LevelOf(q[k]) <= Lev(asg)
    <3>1. q[k] \in Lits /\ On(asg, -q[k])
      BY <1>3, <1>19, <1>20, <1>21
    <3>2. LevelIn(asg, q[k]) <= Lev(asg)
      BY <1>1, <3>1, TrailFacts
    <3>. QED  BY <1>22, <3>1, <3>2
  <2>. QED  BY <2>1
<1>. DEFINE j == HighestFrom(q, 2)
            s == Swap(q, 2, j)
<1>24. 2 \in 1 .. Len(q)
  BY <1>19
<1>25. j \in 2 .. Len(q) /\ \A k \in 2 .. Len(q) : LevelOf(q[k]) <= LevelOf(q[j])
  BY <1>1, <1>14, <1>23, <1>24, HighestSpec
<1>. HIDE DEF j
<1>26. j \in 1 .. Len(q)
  BY <1>19, <1>25
<1>27. /\ s \in Seq(Lits) /\ Len(s) = Len(q) /\ ToSet(s) = ToSet(q) /\ Once(s)
       /\ s[2] = q[j] /\ s[j] = q[2]
       /\ \A k \in 1 .. Len(q) : k # 2 /\ k # j => s[k] = q[k]
  <2>. HIDE DEF s
  <2>1. LET z == Swap(q, 2, j)
        IN  /\ z \in Seq(Lits) /\ Len(z) = Len(q) /\ ToSet(z) = ToSet(q) /\ (Once(q) => Once(z))
            /\ z[2] = q[j] /\ z[j] = q[2]
            /\ \A k \in 1 .. Len(q) : k # 2 /\ k # j => z[k] = q[k]
    BY <1>14, <1>24, <1>26, SwapFacts
  <2>2. s \in Seq(Lits) /\ Len(s) = Len(q) /\ ToSet(s) = ToSet(q) /\ (Once(q) => Once(s))
    BY <2>1 DEF s
  <2>3. /\ s[2] = q[j] /\ s[j] = q[2]
        /\ \A k \in 1 .. Len(q) : k # 2 /\ k # j => s[k] = q[k]
    BY <2>1 DEF s
  <2>. QED  BY <1>14, <2>2, <2>3
<1>28. s[1] = q[1]
  BY <1>19, <1>25, <1>27
<1>29. \A l \in Resolved : l # s[1] => LevelIn(asg, l) <= LevelIn(asg, s[2])
  <2>1. ASSUME NEW l \in Resolved, l # s[1]
        PROVE  LevelIn(asg, l) <= LevelIn(asg, s[2])
    <3>1. PICK k \in 1 .. Len(q) : q[k] = l
      BY <1>20, <1>21, <2>1
    <3>2. k \in 2 .. Len(q)
      BY <1>19, <1>28, <2>1, <3>1
    <3>3. LevelOf(q[k]) <= LevelOf(q[j])
      BY <1>25, <3>2
    <3>4. q[j] \in Lits /\ l \in Lits
      BY <1>14, <1>26, <1>3, <2>1
    <3>. QED  BY <1>22, <1>27, <3>1, <3>3, <3>4
  <2>. QED  BY <2>1
<1>. HIDE DEF s
<1>30. Strengthened(Cause, Uip) = s
  BY <1>8 DEF s, j
<1>31. Resolved \subseteq LS(clauses, Cause) /\ resolvent \ {-Uip} \subseteq Resolved
  BY <1>6, <1>9, <1>15 DEF A
<1>32. s \in Seq(Lits) /\ Len(s) >= 2 /\ Once(s) /\ ToSet(s) = Resolved
  BY <1>19, <1>20, <1>27
<1>33. Resolved = Antecedent \ {Uip}
  BY <1>15 DEF A
<1>34. Uip \notin resolvent
  <2>1. SUFFICES ASSUME Uip \in resolvent
                 PROVE  FALSE
    OBVIOUS
  <2>2. On(asg, -Uip)
    BY <1>1, <2>1
  <2>. QED  BY <1>1, <1>4, <2>2, TrailFacts
<1>. QED  BY <1>3, <1>17, <1>18, <1>29, <1>30, <1>31, <1>32, <1>33, <1>34

(* The watches of a clause that was strengthened.                           *)
LEMMA StrengthenedWatchesFacts ==
  ASSUME NEW c, NEW s, s[1] # s[2]
  PROVE  LET b2 == StrengthenedWatches(c, s)
         IN  /\ \A w : w[2] # c => (w \in DOMAIN b2 <=> w \in DOMAIN blit) /\ (w \in DOMAIN blit => b2[w] = blit[w])
             /\ \A w \in DOMAIN b2 : w[2] = c =>
                  (w = <<s[1], c>> /\ b2[w] = s[2]) \/ (w = <<s[2], c>> /\ b2[w] = s[1])
             /\ <<s[1], c>> \in DOMAIN b2 /\ <<s[2], c>> \in DOMAIN b2
<1>. DEFINE w1 == <<s[1], c>>
            w2 == <<s[2], c>>
            others == [w \in {w \in DOMAIN blit : w[2] # c} |-> blit[w]]
            x  == Watch(others, s[1], c, s[2])
            b2 == StrengthenedWatches(c, s)
<1>1. w1[2] = c /\ w2[2] = c /\ w1 # w2
  OBVIOUS
<1>2. /\ DOMAIN x = DOMAIN others \cup {w1} /\ x[w1] = s[2]
      /\ \A w \in DOMAIN others : w # w1 => x[w] = others[w]
  <2>. HIDE DEF others
  <2>. QED  BY DEF Watch
<1>3. b2 = Watch(x, s[2], c, s[1])
  BY DEF StrengthenedWatches
<1>. HIDE DEF x, b2
<1>4. /\ DOMAIN b2 = DOMAIN x \cup {w2} /\ b2[w2] = s[1]
      /\ \A w \in DOMAIN x : w # w2 => b2[w] = x[w]
  BY <1>3 DEF Watch
<1>5. /\ \A w : w \in DOMAIN others <=> w \in DOMAIN blit /\ w[2] # c
      /\ \A w \in DOMAIN others : others[w] = blit[w]
  OBVIOUS
<1>. HIDE DEF w1, w2, others
<1>6. \A w : w[2] # c => (w \in DOMAIN b2 <=> w \in DOMAIN blit) /\ (w \in DOMAIN blit => b2[w] = blit[w])
  BY <1>1, <1>2, <1>4, <1>5
<1>7. \A w \in DOMAIN b2 : w[2] = c => (w = w1 /\ b2[w] = s[2]) \/ (w = w2 /\ b2[w] = s[1])
  BY <1>1, <1>2, <1>4, <1>5
<1>8. w1 \in DOMAIN b2 /\ w2 \in DOMAIN b2
  BY <1>2, <1>4
<1>. QED  BY <1>6, <1>7, <1>8 DEF b2, w1, w2

(* The clause c has been strengthened to s, in place of conf if that is     *)
(* garbage now.                                                             *)
Tightened(cl, cl2, c, s, conf) ==
  /\ DOMAIN cl2 = DOMAIN cl /\ c \in DOMAIN cl
  /\ \A d \in DOMAIN cl : d # c => /\ cl2[d].lits = cl[d].lits /\ cl2[d].redundant = cl[d].redundant
                                   /\ cl[d].garbage => cl2[d].garbage
                                   /\ cl2[d].garbage => cl[d].garbage \/ d = conf
  /\ \A d \in DOMAIN cl : cl2[d] \in ClauseType
  /\ cl2[c].lits = s /\ ~cl2[c].garbage /\ ToSet(s) \subseteq LS(cl, c)
  /\ ~cl[c].redundant => ~cl2[c].redundant
  /\ conf \in DOMAIN cl /\ cl2[conf].garbage /\ ~cl[conf].garbage =>
       ToSet(s) \subseteq LS(cl, conf) /\ (~cl[conf].redundant => ~cl2[c].redundant)

(* Strengthening a clause to what is implied, and dropping the one it       *)
(* subsumes, keeps the meaning.                                             *)
LEMMA TightenedMeaning ==
  ASSUME NEW M, NEW cl, NEW t, NEW res, MeaningInv(M, cl, t, res), NEW cl2, NEW c, NEW s, NEW conf,
         Tightened(cl, cl2, c, s, conf), Entails(M, ToSet(s)), NEW res2, Entails(M, res2)
  PROVE  MeaningInv(M, cl2, t, res2)
<1>1. /\ \A m \in M : Units(t) \subseteq m
      /\ \A m \in Assignments : SatisfiesAll(m, KeptIn(cl)) /\ Units(t) \subseteq m => m \in M
      /\ \A d \in DOMAIN cl : Entails(M, LS(cl, d))
  BY DEF MeaningInv
<1>2. ASSUME NEW d \in DOMAIN cl2
      PROVE  Entails(M, LS(cl2, d))
  <2>1. CASE d = c
    BY <2>1 DEF Tightened, LS
  <2>2. CASE d # c
    <3>1. d \in DOMAIN cl /\ cl2[d].lits = cl[d].lits
      BY <1>2, <2>2 DEF Tightened
    <3>2. LS(cl2, d) = LS(cl, d)
      BY <3>1 DEF LS
    <3>. QED  BY <1>1, <3>1, <3>2
  <2>. QED  BY <2>1, <2>2
<1>3. ASSUME NEW m, SatisfiesAll(m, KeptIn(cl2))
      PROVE  SatisfiesAll(m, KeptIn(cl))
  <2>1. \A e \in DOMAIN cl2 : ~cl2[e].redundant /\ ~cl2[e].garbage => LS(cl2, e) \cap m # {}
    BY <1>3 DEF SatisfiesAll, KeptIn
  <2>2. ASSUME NEW e \in DOMAIN cl, ~cl[e].redundant, ~cl[e].garbage
        PROVE  LS(cl, e) \cap m # {}
    <3>1. LS(cl2, c) = ToSet(s) /\ c \in DOMAIN cl2 /\ ~cl2[c].garbage
      BY DEF Tightened, LS
    <3>2. ~cl2[c].redundant => ToSet(s) \cap m # {}
      BY <2>1, <3>1
    <3>3. CASE e = c
      <4>1. ~cl2[c].redundant /\ ToSet(s) \subseteq LS(cl, e)
        BY <2>2, <3>3 DEF Tightened
      <4>. QED  BY <3>2, <4>1
    <3>4. CASE e # c /\ ~cl2[e].garbage
      <4>1. e \in DOMAIN cl2 /\ cl2[e].lits = cl[e].lits /\ ~cl2[e].redundant
        BY <2>2, <3>4 DEF Tightened
      <4>2. LS(cl2, e) = LS(cl, e)
        BY <4>1 DEF LS
      <4>. QED  BY <2>1, <3>4, <4>1, <4>2
    <3>5. CASE e # c /\ cl2[e].garbage
      <4>1. e = conf
        BY <2>2, <3>5 DEF Tightened
      <4>2. ToSet(s) \subseteq LS(cl, e) /\ ~cl2[c].redundant
        BY <2>2, <3>5, <4>1 DEF Tightened
      <4>. QED  BY <3>2, <4>2
    <3>. QED  BY <3>3, <3>4, <3>5
  <2>. QED  BY <2>2 DEF SatisfiesAll, KeptIn
<1>. QED  BY <1>1, <1>2, <1>3 DEF MeaningInv

(* What is left of the other parts. *)
LEMMA TightenedFacts ==
  ASSUME NEW cl, ClausesInv(cl), NEW cl2, NEW c, NEW s, NEW conf,
         Tightened(cl, cl2, c, s, conf), s \in Seq(Lits), Len(s) >= 2, Once(s)
  PROVE  ClausesInv(cl2)
<1>1. DOMAIN cl2 = DOMAIN cl
  BY DEF Tightened
<1>2. ASSUME NEW d \in DOMAIN cl2
      PROVE  ClauseOK(cl2[d])
  <2>1. cl2[d] \in ClauseType /\ d \in DOMAIN cl
    BY <1>1, <1>2 DEF Tightened
  <2>2. CASE d = c
    <3>1. cl2[d].lits = s
      BY <2>2 DEF Tightened
    <3>. QED  BY <2>1, <3>1 DEF ClauseOK
  <2>3. CASE d # c
    <3>1. cl2[d].lits = cl[d].lits
      BY <2>1, <2>3 DEF Tightened
    <3>2. ClauseOK(cl[d])
      BY <2>1 DEF ClausesInv
    <3>. QED  BY <2>1, <3>1, <3>2 DEF ClauseOK
  <2>. QED  BY <2>2, <2>3
<1>. QED  BY <1>1, <1>2 DEF ClausesInv

(* Strengthening the clause that was just resolved with keeps the reasons   *)
(* that still count.                                                        *)
LEMMA TightenedReasons ==
  ASSUME NEW cl, ClausesInv(cl), NEW t, TrailInv(t), NEW res, ReasonsInv(cl, t, res),
         NEW cl2, NEW c, NEW s, NEW conf, Tightened(cl, cl2, c, s, conf), Violated(cl, t, conf),
         NEW p \in DOMAIN t.trail, ReasonOK(cl, t, p), ReasonIn(t, t.trail[p]) = c, NEW res2,
         \A k \in DOMAIN t.trail : Relevant(t, res2, k) => Relevant(t, res, k) /\ k # p
  PROVE  ReasonsInv(cl2, t, res2)
<1>1. ASSUME NEW k \in DOMAIN t.trail, ReasonIn(t, t.trail[k]) # 0, Relevant(t, res2, k)
      PROVE  ReasonOK(cl2, t, k)
  <2>1. Relevant(t, res, k) /\ k # p
    BY <1>1
  <2>2. ReasonOK(cl, t, k)
    BY <1>1, <2>1 DEF ReasonsInv
  <2>. DEFINE d == ReasonIn(t, t.trail[k])
  <2>3. d # c
    BY <2>1, <2>2, ForcesOnce
  <2>4. d # conf
    <3>1. ASSUME NEW l \in LS(cl, conf)
          PROVE  ~On(t, l)
      <4>1. On(t, -l) /\ conf \in DOMAIN cl
        BY <3>1 DEF Violated
      <4>2. l \in Lits
        BY <3>1, <4>1, ClauseFacts
      <4>. QED  BY <4>1, <4>2, TrailFacts
    <3>. QED  BY <2>2, <3>1, FalseNoReason
  <2>5. d \in DOMAIN cl
    BY <2>2 DEF ReasonOK, Forces
  <2>6. d \in DOMAIN cl2 /\ cl2[d].lits = cl[d].lits /\ (cl2[d].garbage => cl[d].garbage)
    BY <2>3, <2>4, <2>5 DEF Tightened
  <2>7. Forces(cl, t, t.trail[k], d, k)
    BY <2>2 DEF ReasonOK
  <2>. HIDE DEF d
  <2>8. Forces(cl2, t, t.trail[k], d, k)
    BY <2>6, <2>7, ForcesKept
  <2>. QED  BY <2>8 DEF ReasonOK, d
<1>. QED  BY <1>1 DEF ReasonsInv

(* Strengthening a clause keeps the invariant of the watches.               *)
LEMMA TightenedWatches ==
  ASSUME NEW cl, ClausesInv(cl), WatchesInv(cl, blit), NEW cl2, NEW c, NEW s, NEW conf,
         Tightened(cl, cl2, c, s, conf), s \in Seq(Lits), Len(s) >= 2, Once(s)
  PROVE  WatchesInv(cl2, StrengthenedWatches(c, s))
<1>1. ClausesInv(cl2) /\ DOMAIN cl2 = DOMAIN cl /\ c \in DOMAIN cl /\ cl2[c].lits = s
  BY TightenedFacts DEF Tightened
<1>2. cl2[c].lits[1] # cl2[c].lits[2] /\ Watches(cl2, c) \subseteq LS(cl2, c)
  BY <1>1, ClauseFacts
<1>3. s[1] # s[2] /\ Watches(cl2, c) = {s[1], s[2]} /\ s[1] \in LS(cl2, c) /\ s[2] \in LS(cl2, c)
  BY <1>1, <1>2 DEF Watches
<1>. DEFINE b2 == StrengthenedWatches(c, s)
<1>4. /\ \A w : w[2] # c => (w \in DOMAIN b2 <=> w \in DOMAIN blit) /\ (w \in DOMAIN blit => b2[w] = blit[w])
      /\ \A w \in DOMAIN b2 : w[2] = c =>
                  (w = <<s[1], c>> /\ b2[w] = s[2]) \/ (w = <<s[2], c>> /\ b2[w] = s[1])
      /\ <<s[1], c>> \in DOMAIN b2 /\ <<s[2], c>> \in DOMAIN b2
  BY <1>3, StrengthenedWatchesFacts
<1>. HIDE DEF b2
<1>5. \A d \in DOMAIN cl : d # c => cl2[d].lits = cl[d].lits /\ (cl[d].garbage => cl2[d].garbage)
  BY DEF Tightened
<1>6. ASSUME NEW w \in DOMAIN b2, w[2] = c
      PROVE  w = <<w[1], w[2]>> /\ w[1] \in Watches(cl2, c) /\ b2[w] \in LS(cl2, c) \ {w[1]}
  <2>1. CASE w = <<s[1], c>> /\ b2[w] = s[2]
    BY <1>3, <2>1
  <2>2. CASE w = <<s[2], c>> /\ b2[w] = s[1]
    BY <1>3, <2>2
  <2>. QED  BY <1>4, <1>6, <2>1, <2>2
<1>7. \A x \in Watches(cl2, c) : <<x, c>> \in DOMAIN b2
  BY <1>3, <1>4
<1>8. Rewatched(cl, blit, c, cl2, b2)
  BY <1>1, <1>4, <1>5, <1>6, <1>7 DEF Rewatched
<1>9. WatchesInv(cl2, b2)
  BY <1>1, <1>8, WatchesOf
<1>. QED  BY <1>9 DEF b2

(* When the reason is strengthened on the fly, and when the conflict is     *)
(* subsumed by it.                                                          *)
Otfs == Cardinality(Antecedent) > 2 /\ Cardinality(Resolved) < Cardinality(Antecedent)
Subsumes == resolvent = NonRoot(LitsOf(conflict)) /\ Cardinality(Resolved) < Cardinality(resolvent)

(* The conflict is subsumed when all of it was resolved and the resolvent   *)
(* is shorter.                                                              *)
LEMMA SubsumesFacts ==
  ASSUME SInv, resolvent # {}, Cardinality(OnLevel(resolvent)) > 1, Otfs, Subsumes
  PROVE  Resolved \subseteq LS(clauses, conflict)
<1>1. \A l \in resolvent : l \in Lits
  BY ResolveState
<1>2. -Uip \in resolvent
  BY UipFacts
<1>3. resolvent \ {-Uip} \subseteq Resolved
  BY OtfsFacts DEF Otfs
<1>3a. \A l \in Resolved : l \in Lits
  <2>1. Resolved \subseteq LS(clauses, Cause) /\ Cause \in DOMAIN clauses
    BY OtfsFacts DEF Otfs
  <2>2. ClausesInv(clauses)
    BY ResolveState
  <2>. QED  BY <2>1, <2>2, ClauseFacts
<1>4. resolvent \in SUBSET Lits /\ Resolved \in SUBSET Lits
  BY <1>1, <1>3a
<1>5. IsFiniteSet(resolvent) /\ IsFiniteSet(Resolved)
  BY <1>4, LitsFinite, FS_Subset
<1>. DEFINE R == resolvent
            u == -Uip
<1>6. IsFiniteSet(R \ {u}) /\ Cardinality(R \ {u}) = Cardinality(R) - 1
  BY <1>2, <1>5, FS_RemoveElement
<1>7. /\ Cardinality(R) \in Nat /\ Cardinality(Resolved) \in Nat /\ Cardinality(R \ {u}) \in Nat
      /\ Cardinality(Resolved) < Cardinality(R)
  BY <1>5, <1>6, FS_CardinalityType DEF Subsumes
<1>8. R \ {u} \in SUBSET Resolved
  BY <1>3
<1>. HIDE DEF R, u
<1>9. Cardinality(R \ {u}) <= Cardinality(Resolved)
  BY <1>5, <1>8, FS_Subset
<1>10. Cardinality(Resolved) = Cardinality(R \ {u})
  BY <1>6, <1>7, <1>9
<1>11. Resolved = R \ {u}
  BY <1>5, <1>8, <1>10, FS_Subset
<1>12. Resolved \subseteq LitsOf(conflict)
  BY <1>11 DEF Subsumes, NonRoot, R
<1>. QED  BY <1>12, SameState

(* The clauses after on_the_fly_strengthen.                                 *)
Tighter ==
  LET d == [clauses EXCEPT ![Cause].lits = Strengthened(Cause, Uip)]
  IN  IF Subsumes
      THEN [d EXCEPT ![Cause].redundant = TakesOver(Cause, conflict), ![conflict].garbage = TRUE]
      ELSE d

(* What on_the_fly_strengthen does to the clauses.                          *)
LEMMA OtfsTightened ==
  ASSUME SInv, resolvent # {}, Cardinality(OnLevel(resolvent)) > 1, Otfs,
         clauses' = Tighter
  PROVE  Tightened(clauses, clauses', Cause, Strengthened(Cause, Uip), conflict)
<1>. DEFINE c == Cause
            s == Strengthened(Cause, Uip)
            d == [clauses EXCEPT ![c].lits = s]
            e == [d EXCEPT ![c].redundant = TakesOver(c, conflict), ![conflict].garbage = TRUE]
<1>1. /\ c # conflict /\ c \in DOMAIN clauses /\ ~clauses[c].garbage
      /\ s \in Seq(Lits) /\ ToSet(s) \subseteq LS(clauses, c) /\ ToSet(s) = Resolved
  BY OtfsFacts DEF Otfs
<1>2. clauses' = IF Subsumes THEN e ELSE d
  BY DEF Tighter
<1>3. \A f \in DOMAIN clauses : clauses[f] \in ClauseType
  <2>1. ClausesInv(clauses)
    BY ResolveState
  <2>. QED  BY <2>1 DEF ClausesInv, ClauseOK
<1>4. conflict \in DOMAIN clauses
  BY ResolveState DEF Violated
<1>5. TakesOver(c, conflict) \in BOOLEAN /\ (TakesOver(c, conflict) <=> clauses[c].redundant /\ clauses[conflict].redundant)
  BY DEF TakesOver
<1>. DEFINE T == TakesOver(c, conflict)
<1>. HIDE DEF c, s, T
<1>6. /\ DOMAIN d = DOMAIN clauses
      /\ \A f \in DOMAIN clauses : f # c => d[f] = clauses[f]
      /\ d[c].lits = s /\ d[c].redundant = clauses[c].redundant /\ d[c].garbage = clauses[c].garbage
      /\ d[c] \in ClauseType
  <2>1. clauses[c] \in ClauseType
    BY <1>1, <1>3
  <2>2. d[c] = [clauses[c] EXCEPT !.lits = s]
    BY <1>1
  <2>3. \A x \in ClauseType : [x EXCEPT !.lits = s] \in ClauseType /\ [x EXCEPT !.lits = s].lits = s
                              /\ [x EXCEPT !.lits = s].redundant = x.redundant /\ [x EXCEPT !.lits = s].garbage = x.garbage
    BY <1>1 DEF ClauseType
  <2>. QED  BY <1>1, <2>1, <2>2, <2>3
<1>. HIDE DEF d
<1>7. CASE ~Subsumes
  <2>1. clauses' = d
    BY <1>2, <1>7
  <2>2. \A f \in DOMAIN clauses : d[f] \in ClauseType
    BY <1>3, <1>6
  <2>3. Tightened(clauses, d, c, s, conflict)
    BY <1>1, <1>4, <1>6, <2>2 DEF Tightened
  <2>. QED  BY <2>1, <2>3 DEF c, s
<1>8. CASE Subsumes
  <2>1. clauses' = e
    BY <1>2, <1>8 DEF T
  <2>2. /\ DOMAIN e = DOMAIN clauses
        /\ \A f \in DOMAIN clauses : f # c /\ f # conflict => e[f] = d[f]
        /\ e[c] = [d[c] EXCEPT !.redundant = T]
        /\ e[conflict] = [d[conflict] EXCEPT !.garbage = TRUE]
    BY <1>1, <1>4, <1>6 DEF T
  <2>. HIDE DEF e
  <2>3. /\ e[c].lits = s /\ e[c].redundant = T /\ e[c].garbage = clauses[c].garbage /\ e[c] \in ClauseType
    <3>1. \A x \in ClauseType : [x EXCEPT !.redundant = T] \in ClauseType /\ [x EXCEPT !.redundant = T].lits = x.lits
                              /\ [x EXCEPT !.redundant = T].redundant = T /\ [x EXCEPT !.redundant = T].garbage = x.garbage
      BY <1>5 DEF ClauseType, T
    <3>. QED  BY <1>6, <2>2, <3>1
  <2>4. /\ e[conflict].lits = clauses[conflict].lits /\ e[conflict].redundant = clauses[conflict].redundant
        /\ e[conflict].garbage /\ e[conflict] \in ClauseType
    <3>1. d[conflict] = clauses[conflict] /\ d[conflict] \in ClauseType
      BY <1>1, <1>3, <1>4, <1>6
    <3>2. \A x \in ClauseType : [x EXCEPT !.garbage = TRUE] \in ClauseType /\ [x EXCEPT !.garbage = TRUE].lits = x.lits
                              /\ [x EXCEPT !.garbage = TRUE].redundant = x.redundant /\ [x EXCEPT !.garbage = TRUE].garbage = TRUE
      BY DEF ClauseType
    <3>. QED  BY <2>2, <3>1, <3>2
  <2>5. ToSet(s) \subseteq LS(clauses, conflict)
    BY <1>1, <1>8, SubsumesFacts
  <2>6. \A f \in DOMAIN clauses : e[f] \in ClauseType
    BY <1>3, <1>6, <2>2, <2>3, <2>4
  <2>7. \A f \in DOMAIN clauses : f # c => /\ e[f].lits = clauses[f].lits /\ e[f].redundant = clauses[f].redundant
                                           /\ clauses[f].garbage => e[f].garbage
                                           /\ e[f].garbage => clauses[f].garbage \/ f = conflict
    BY <1>6, <2>2, <2>4
  <2>8. (~clauses[c].redundant => ~e[c].redundant) /\ (~clauses[conflict].redundant => ~e[c].redundant)
    BY <1>5, <2>3 DEF T
  <2>9. Tightened(clauses, e, c, s, conflict)
    <3>1. ~e[c].garbage /\ e[c].lits = s
      BY <1>1, <2>3
    <3>2. ToSet(s) \subseteq LS(clauses, c) /\ c \in DOMAIN clauses
      BY <1>1
    <3>. QED  BY <2>2, <2>5, <2>6, <2>7, <2>8, <3>1, <3>2 DEF Tightened
  <2>. QED  BY <2>1, <2>9 DEF c, s
<1>. QED  BY <1>7, <1>8

(* What strengthening leaves, before the trail is cut. *)
LEMMA OtfsKeeps ==
  ASSUME SInv, resolvent # {}, Cardinality(OnLevel(resolvent)) > 1, Otfs,
         Tightened(clauses, clauses', Cause, Strengthened(Cause, Uip), conflict),
         blit' = StrengthenedWatches(Cause, Strengthened(Cause, Uip))
  PROVE  /\ ClausesInv(clauses') /\ WatchesInv(clauses', blit')
         /\ ReasonsInv(clauses', asg, Resolved) /\ MeaningInv(Models, clauses', asg, Resolved)
         /\ \A l \in Resolved : l \in Lits /\ On(asg, -l) /\ LevelIn(asg, l) > 0
         /\ \E l \in Resolved : LevelIn(asg, l) = Lev(asg)
         /\ Entails(Models, Resolved)
         /\ Cause \in DOMAIN clauses' /\ ~clauses'[Cause].garbage /\ LS(clauses', Cause) = Resolved
         /\ \A l \in Resolved : l # clauses'[Cause].lits[1] =>
              LevelIn(asg, l) <= LevelIn(asg, clauses'[Cause].lits[2])
<1>1. /\ TrailInv(asg) /\ ClausesInv(clauses) /\ WatchesInv(clauses, blit)
      /\ ReasonsInv(clauses, asg, resolvent) /\ Violated(clauses, asg, conflict)
      /\ MeaningInv(Models, clauses, asg, resolvent)
  BY ResolveState
<1>2. PICK p \in DOMAIN asg.trail :
              /\ asg.trail[p] = Uip /\ ReasonOK(clauses, asg, p) /\ Cause # 0
              /\ \A k \in resolvent, j \in DOMAIN asg.trail :
                   LevelIn(asg, k) = Lev(asg) /\ asg.trail[j] = -k => j <= p
  BY UipFacts
<1>3. /\ \A l \in Resolved : l \in Lits /\ On(asg, -l) /\ LevelIn(asg, l) > 0
      /\ \E l \in Resolved : LevelIn(asg, l) = Lev(asg)
      /\ Entails(Models, Resolved)
      /\ \A k \in DOMAIN asg.trail : Relevant(asg, Resolved, k) => Relevant(asg, resolvent, k) /\ k # p
  BY <1>2, ResolvedFacts
<1>. DEFINE s == Strengthened(Cause, Uip)
            R == Resolved
            c == Cause
<1>4. /\ s \in Seq(Lits) /\ Len(s) >= 2 /\ Once(s) /\ ToSet(s) = R
      /\ \A l \in R : l # s[1] => LevelIn(asg, l) <= LevelIn(asg, s[2])
  BY OtfsFacts DEF Otfs
<1>5. ReasonIn(asg, asg.trail[p]) = c
  BY <1>2, UipFacts
<1>6. Tightened(clauses, clauses', c, s, conflict) /\ blit' = StrengthenedWatches(c, s)
  OBVIOUS
<1>. HIDE DEF s, R, c
<1>7. ClausesInv(clauses')
  BY <1>1, <1>4, <1>6, TightenedFacts
<1>8. WatchesInv(clauses', blit')
  BY <1>1, <1>4, <1>6, TightenedWatches
<1>9. ReasonsInv(clauses', asg, R)
  <2>1. \A k \in DOMAIN asg.trail : Relevant(asg, R, k) => Relevant(asg, resolvent, k) /\ k # p
    BY <1>3 DEF R
  <2>. QED  BY <1>1, <1>2, <1>5, <1>6, <2>1, TightenedReasons
<1>10. MeaningInv(Models, clauses', asg, R)
  <2>1. Entails(Models, ToSet(s)) /\ Entails(Models, R)
    BY <1>3, <1>4 DEF R
  <2>. QED  BY <1>1, <1>6, <2>1, TightenedMeaning
<1>11. c \in DOMAIN clauses' /\ ~clauses'[c].garbage /\ clauses'[c].lits = s
  BY <1>6 DEF Tightened
<1>12. LS(clauses', c) = R
  BY <1>4, <1>11 DEF LS
<1>. QED  BY <1>3, <1>4, <1>7, <1>8, <1>9, <1>10, <1>11, <1>12 DEF R, c

(* On-the-fly strengthening, with the strengthened clause as the new        *)
(* conflict, keeps the invariant.                                           *)
LEMMA OtfsOnInv ==
  ASSUME SInv, resolvent # {}, Cardinality(OnLevel(resolvent)) > 1, Otfs,
         Tightened(clauses, clauses', Cause, Strengthened(Cause, Uip), conflict),
         blit' = StrengthenedWatches(Cause, Strengthened(Cause, Uip)),
         Cardinality(OnLevel(Resolved)) # 1,
         asg' = asg, conflict' = Cause, resolvent' = Resolved,
         UNCHANGED <<input, todo, mode, answer>>
  PROVE  SInv'
<1>1. /\ answer = 0 /\ conflict # 0 /\ todo = {} /\ mode = "search" /\ Lev(asg) > 0 /\ Lev(asg) \in Nat
      /\ mode \notin ToSet(Strategies)
      /\ TrailInv(asg) /\ asg \in AsgType /\ WatchedInv(clauses, asg, {}, conflict)
      /\ AssumptionsInv(assumptions, asg)
  BY ResolveState
<1>. DEFINE c == Cause
            R == Resolved
<1>2. /\ ClausesInv(clauses') /\ WatchesInv(clauses', blit')
      /\ ReasonsInv(clauses', asg, R) /\ MeaningInv(Models, clauses', asg, R)
      /\ \A l \in R : l \in Lits /\ On(asg, -l) /\ LevelIn(asg, l) > 0
      /\ \E l \in R : LevelIn(asg, l) = Lev(asg)
      /\ c \in DOMAIN clauses' /\ ~clauses'[c].garbage /\ LS(clauses', c) = R
      /\ \A l \in R : l # clauses'[c].lits[1] => LevelIn(asg, l) <= LevelIn(asg, clauses'[c].lits[2])
  BY OtfsKeeps
<1>3. OnLevel(R) = {l \in R : LevelIn(asg, l) = Lev(asg)} /\ Cardinality(OnLevel(R)) # 1
  BY OnLevelSpec
<1>4. asg' = asg /\ conflict' = c /\ resolvent' = R /\ todo' = {} /\ answer' = 0
  BY <1>1
<1>5. Tightened(clauses, clauses', c, Strengthened(Cause, Uip), conflict)
  OBVIOUS
<1>. HIDE DEF c, R
<1>5a. c \in DOMAIN clauses' /\ c # 0
  BY <1>2, ClauseFacts
<1>6. Violated(clauses', asg, c)
  BY <1>2 DEF Violated
<1>7. ViolatedInv(clauses', asg, c)
  BY <1>6 DEF ViolatedInv
<1>8. DerivingInv(asg, {}, c, R, 0)
  BY <1>1, <1>2, <1>5a DEF DerivingInv
<1>. DEFINE s1 == clauses'[c].lits[1]
            s2 == clauses'[c].lits[2]
<1>9. s1 \in R /\ s2 \in R /\ s1 # s2 /\ R \subseteq Lits
  <2>1. s1 \in LS(clauses', c) /\ s2 \in LS(clauses', c) /\ s1 # s2 /\ LS(clauses', c) \subseteq Lits
    BY <1>2, ClauseFacts DEF Watches
  <2>. QED  BY <1>2, <2>1
<1>10. LevelIn(asg, s2) = Lev(asg)
  <2>1. PICK l \in R : LevelIn(asg, l) = Lev(asg)
    BY <1>2
  <2>2. LevelIn(asg, s2) \in Nat /\ LevelIn(asg, s2) <= Lev(asg)
    BY <1>1, <1>2, <1>9, TrailFacts, AsgFacts
  <2>3. \E k \in R : k # s1 /\ LevelIn(asg, k) = Lev(asg)
    <3>1. SUFFICES ASSUME \A k \in R : LevelIn(asg, k) = Lev(asg) => k = s1
                   PROVE  FALSE
      OBVIOUS
    <3>2. OnLevel(R) = {s1}
      BY <1>3, <2>1, <3>1
    <3>3. Cardinality(OnLevel(R)) = 1
      BY <3>2, FS_Singleton
    <3>. QED  BY <1>3, <3>3
  <2>. HIDE DEF s1, s2
  <2>4. \A k \in R : k # s1 => LevelIn(asg, k) <= LevelIn(asg, s2)
    BY <1>2 DEF s1, s2
  <2>. QED  BY <1>1, <2>2, <2>3, <2>4
<1>. HIDE DEF s1, s2
<1>11. WellWatched(R, s1, s2, asg, Limit(asg, c), Pending(asg, {}, c))
  <2>1. Good(asg, R, s2, Limit(asg, c), Pending(asg, {}, c))
    <3>1. Limit(asg, c) = asg.control[Lev(asg)].trail
      BY <1>1, <1>5a DEF Limit
    <3>2. ASSUME NEW q \in DOMAIN asg.trail, asg.trail[q] = -s2
          PROVE  ~(q <= Limit(asg, c))
      <4>1. LevelIn(asg, asg.trail[q]) = Lev(asg)
        BY <1>1, <1>9, <1>10, <3>2, AsgFacts
      <4>2. q > asg.control[Lev(asg)].trail
        BY <1>1, <4>1, TrailFacts
      <4>3. q \in Nat /\ asg.control[Lev(asg)].trail \in Nat
        BY <1>1, AsgFacts
      <4>. QED  BY <3>1, <4>2, <4>3
    <3>. QED  BY <3>2, GoodIfNotBefore
  <2>2. \A w \in {s1, s2} : ~(LevelIn(asg, w) = 0)
    <3>1. \A w \in {s1, s2} : w \in Lits /\ LevelIn(asg, w) > 0
      BY <1>2, <1>9
    <3>. QED  BY <3>1
  <2>. QED  BY <2>1, <2>2 DEF WellWatched
<1>12. WatchedInv(clauses', asg, {}, c)
  <2>1. \/ Limit(asg, c) <= Limit(asg, conflict) /\ {} \subseteq {}
        \/ Limit(asg, c) < asg.propagated /\ Limit(asg, c) <= Limit(asg, conflict)
    <3>1. Limit(asg, c) = Limit(asg, conflict)
      BY <1>1, <1>5a DEF Limit
    <3>2. Limit(asg, c) \in Nat
      BY <1>1, LimitFacts
    <3>. QED  BY <3>1, <3>2
  <2>2. WatchedInv(Without(clauses, c), asg, {}, conflict)
    BY <1>1, WatchedWithout
  <2>3. DOMAIN Without(clauses, c) = DOMAIN clauses \ {c} /\ \A d \in DOMAIN clauses \ {c} : Without(clauses, c)[d] = clauses[d]
    BY DEF Without
  <2>4. \A d \in DOMAIN Without(clauses, c) : ~Without(clauses, c)[d].garbage =>
             d \in DOMAIN Without(clauses, c) /\ ~Without(clauses, c)[d].garbage /\ Without(clauses, c)[d].lits = Without(clauses, c)[d].lits
    OBVIOUS
  <2>5. WatchedInv(Without(clauses, c), asg, {}, c)
    BY <1>1, <2>1, <2>2, <2>4, WatchedMono
  <2>6. DOMAIN clauses' \subseteq DOMAIN clauses \cup {c}
    BY <1>5 DEF Tightened
  <2>7. \A d \in DOMAIN clauses' : d # c => clauses'[d].lits = clauses[d].lits /\ (clauses[d].garbage => clauses'[d].garbage)
    BY <1>5 DEF Tightened
  <2>8. WellWatched(LS(clauses', c), clauses'[c].lits[1], clauses'[c].lits[2], asg, Limit(asg, c), Pending(asg, {}, c))
    <3>1. WellWatched(LS(clauses', c), s1, s2, asg, Limit(asg, c), Pending(asg, {}, c))
      BY <1>2, <1>11
    <3>. QED  BY <3>1 DEF s1, s2
  <2>. QED  BY <2>5, <2>6, <2>7, <2>8, WatchedWith
<1>13. /\ TrailInv(asg') /\ ClausesInv(clauses') /\ WatchesInv(clauses', blit')
       /\ ReasonsInv(clauses', asg', resolvent') /\ WatchedInv(clauses', asg', {}, conflict')
  BY <1>1, <1>2, <1>4, <1>12
<1>14. /\ ViolatedInv(clauses', asg', conflict') /\ DerivingInv(asg', {}, conflict', resolvent', answer')
       /\ AssumptionsInv(assumptions, asg') /\ MeaningInv(Models, clauses', asg', resolvent')
  BY <1>1, <1>2, <1>4, <1>7, <1>8
<1>15. mode # "reduce" /\ answer' \in {0, 10, 20} /\ UNCHANGED <<input, mode>>
  BY <1>1, <1>4
<1>. QED  BY <1>1, <1>4, <1>13, <1>14, <1>15, AnalysisKeeps

(* A clause with one literal at the current level, and the others not above *)
(* the jump level, flips that literal.                                      *)
LEMMA JumpAsserts ==
  ASSUME TrailInv(asg), Lev(asg) > 0, NEW ls \in SUBSET Lits, \A o \in ls : On(asg, -o),
         NEW l \in ls, LevelIn(asg, l) = Lev(asg), NEW jump \in 0 .. Lev(asg) - 1,
         \A o \in ls \ {l} : LevelIn(asg, o) <= jump, NEW n \in ActualLevels(jump)
  PROVE  n \in 0 .. Lev(asg) - 1 /\ Asserts(asg, n, ls, l)
<1>1. n \in jump .. Lev(asg) - 1
  BY ActualLevelsSpec
<1>2. asg \in AsgType /\ Lev(asg) \in Nat
  BY TrailFacts, AsgFacts
<1>3. n \in 0 .. Lev(asg) - 1 /\ n \in Nat /\ jump \in Nat /\ jump <= n
  BY <1>1, <1>2
<1>4. \A o \in ls \ {l} : On(asg, -o) /\ LevelIn(asg, o) <= n
  <2>1. ASSUME NEW o \in ls \ {l}
        PROVE  On(asg, -o) /\ LevelIn(asg, o) <= n
    <3>1. LevelIn(asg, o) \in Nat
      BY <1>2, AsgFacts
    <3>. QED  BY <1>3, <3>1
  <2>. QED  BY <2>1
<1>. QED  BY <1>3, <1>4 DEF Asserts

(* The level to jump to, below the level of the only literal on the last. *)
LEMMA SoleLiteral ==
  ASSUME TrailInv(asg), Lev(asg) > 0, NEW ls \in SUBSET Lits, \A o \in ls : On(asg, -o),
         Cardinality(OnLevel(ls)) = 1
  PROVE  \E l \in ls : OnLevel(ls) = {l} /\ LevelIn(asg, l) = Lev(asg)
                       /\ \A o \in ls \ {l} : LevelIn(asg, o) < Lev(asg) /\ LevelIn(asg, o) \in Nat
<1>1. OnLevel(ls) = {l \in ls : LevelIn(asg, l) = Lev(asg)}
  BY OnLevelSpec
<1>2. IsFiniteSet(OnLevel(ls))
  <2>1. OnLevel(ls) \subseteq Lits
    BY <1>1
  <2>. QED  BY <2>1, LitsFinite, FS_Subset
<1>3. PICK l : OnLevel(ls) = {l}
  BY <1>2, FS_Singleton
<1>4. l \in ls /\ LevelIn(asg, l) = Lev(asg)
  BY <1>1, <1>3
<1>5. ASSUME NEW o \in ls \ {l}
      PROVE  LevelIn(asg, o) < Lev(asg) /\ LevelIn(asg, o) \in Nat
  <2>1. asg \in AsgType
    BY TrailFacts
  <2>2. LevelIn(asg, o) \in Nat /\ LevelIn(asg, o) <= Lev(asg) /\ Lev(asg) \in Nat
    BY <2>1, TrailFacts, AsgFacts
  <2>3. LevelIn(asg, o) # Lev(asg)
    BY <1>1, <1>3, <1>5
  <2>. QED  BY <2>2, <2>3
<1>. QED  BY <1>3, <1>4, <1>5

(* On-the-fly strengthening that leaves one literal of the current level:   *)
(* the clause flips it.                                                     *)
LEMMA OtfsJumpInv ==
  ASSUME SInv, resolvent # {}, Cardinality(OnLevel(resolvent)) > 1, Otfs,
         Tightened(clauses, clauses', Cause, Strengthened(Cause, Uip), conflict),
         blit' = StrengthenedWatches(Cause, Strengthened(Cause, Uip)),
         Cardinality(OnLevel(Resolved)) = 1,
         NEW n \in ActualLevels(Maximum({LevelOf(l) : l \in Resolved \ OnLevel(Resolved)})),
         asg' = Assign(Backtrack(asg, n), LastOn(Resolved), Cause, Resolved),
         conflict' = 0, resolvent' = {},
         UNCHANGED <<input, todo, mode, answer>>
  PROVE  SInv'
<1>1. /\ answer = 0 /\ conflict # 0 /\ todo = {} /\ mode = "search" /\ Lev(asg) > 0 /\ Lev(asg) \in Nat
      /\ mode \notin ToSet(Strategies)
      /\ TrailInv(asg) /\ asg \in AsgType /\ WatchedInv(clauses, asg, {}, conflict)
      /\ AssumptionsInv(assumptions, asg) /\ assumptions \in Seq(Lits) /\ ClausesInv(clauses)
  BY ResolveState
<1>. DEFINE c == Cause
            R == Resolved
            l == LastOn(R)
            S == {LevelOf(o) : o \in R \ OnLevel(R)}
            jump == Maximum(S)
            a == Assign(Backtrack(asg, n), l, c, R)
<1>2. /\ ClausesInv(clauses') /\ WatchesInv(clauses', blit')
      /\ ReasonsInv(clauses', asg, R) /\ MeaningInv(Models, clauses', asg, R)
      /\ \A o \in R : o \in Lits /\ On(asg, -o) /\ LevelIn(asg, o) > 0
      /\ \E o \in R : LevelIn(asg, o) = Lev(asg)
      /\ Entails(Models, R)
      /\ c \in DOMAIN clauses' /\ ~clauses'[c].garbage /\ LS(clauses', c) = R
      /\ \A o \in R : o # clauses'[c].lits[1] => LevelIn(asg, o) <= LevelIn(asg, clauses'[c].lits[2])
  BY OtfsKeeps
<1>3. R \in SUBSET Lits /\ \A o \in R : On(asg, -o)
  BY <1>2
<1>4. asg' = a /\ n \in ActualLevels(jump) /\ Cardinality(OnLevel(R)) = 1
  OBVIOUS
<1>5. Tightened(clauses, clauses', c, Strengthened(Cause, Uip), conflict)
  OBVIOUS
<1>. HIDE DEF c, R
<1>6. PICK k \in R : OnLevel(R) = {k} /\ LevelIn(asg, k) = Lev(asg)
                       /\ \A o \in R \ {k} : LevelIn(asg, o) < Lev(asg) /\ LevelIn(asg, o) \in Nat
  BY <1>1, <1>3, <1>4, SoleLiteral
<1>7. l \in R /\ LevelIn(asg, l) = Lev(asg)
  BY <1>1, <1>3, <1>6, LastOnSpec
<1>8. OnLevel(R) = {l} /\ \A o \in R \ {l} : LevelIn(asg, o) < Lev(asg) /\ LevelIn(asg, o) \in Nat
  <2>1. l = k
    BY <1>1, <1>6, <1>7
  <2>. QED  BY <1>6, <2>1
<1>9. jump \in 0 .. Lev(asg) - 1 /\ \A o \in R \ {l} : LevelIn(asg, o) <= jump
  <2>1. \A o \in R : LevelOf(o) = LevelIn(asg, o)
    BY SameState
  <2>2. S \in SUBSET Nat /\ \A i \in S : i <= Lev(asg) - 1
    BY <1>1, <1>8, <2>1
  <2>2a. Lev(asg) - 1 \in Nat
    BY <1>1
  <2>3. \A o \in R \ {l} : LevelIn(asg, o) \in S
    BY <1>8, <2>1
  <2>. HIDE DEF S
  <2>4. jump \in S \cup {0} /\ jump \in Nat /\ \A i \in S : i <= jump
    BY <2>2, <2>2a, MaximumSpec
  <2>5. jump <= Lev(asg) - 1
    BY <1>1, <2>2, <2>2a, <2>4
  <2>. QED  BY <1>1, <2>3, <2>4, <2>5
<1>. HIDE DEF l, jump, S
<1>10. n \in 0 .. Lev(asg) - 1 /\ Asserts(asg, n, R, l)
  BY <1>1, <1>3, <1>4, <1>7, <1>9, JumpAsserts
<1>11. c \in Nat /\ c # 0 /\ R # {}
  BY <1>2, ClauseFacts
<1>12. /\ ClausesInv(Without(clauses, c)) /\ WatchedInv(Without(clauses, c), asg, {}, conflict)
  BY <1>1, WithoutFacts, WatchedWithout
<1>13. Models \in SUBSET Assignments
  BY ModelsType
<1>14. /\ TrailInv(a) /\ a \in AsgType /\ AssumptionsInv(assumptions, a) /\ Lev(a) = n
       /\ On(a, l) /\ ~On(a, -l)
       /\ \A o \in R \ {l} : On(a, -o) /\ LevelIn(a, o) = LevelIn(asg, o)
       /\ WatchedInv(Without(clauses, c), a, {}, 0)
       /\ MeaningInv(Models, clauses', a, {})
  BY <1>1, <1>2, <1>10, <1>11, <1>12, <1>13, JumpKeeps
<1>. DEFINE s1 == clauses'[c].lits[1]
            s2 == clauses'[c].lits[2]
<1>15. s1 \in R /\ s2 \in R /\ s1 # s2 /\ Watches(clauses', c) = {s1, s2}
  <2>1. s1 \in LS(clauses', c) /\ s2 \in LS(clauses', c) /\ s1 # s2
    BY <1>2, ClauseFacts DEF Watches
  <2>. QED  BY <1>2, <2>1 DEF Watches
<1>16. l \in {s1, s2}
  <2>1. CASE l # s1
    <3>1. LevelIn(asg, l) <= LevelIn(asg, s2)
      BY <1>2, <1>7, <2>1
    <3>2. ~(LevelIn(asg, s2) < Lev(asg))
      <4>1. LevelIn(asg, s2) \in Nat
        BY <1>1, <1>3, <1>15, AsgFacts
      <4>. QED  BY <1>1, <1>7, <3>1, <4>1
    <3>3. s2 = l
      BY <1>8, <1>15, <3>2
    <3>. QED  BY <3>3
  <2>. QED  BY <2>1
<1>. HIDE DEF s1, s2
<1>17. ReasonsInv(clauses', a, {})
  <2>1. Watching(clauses', c, R, l)
    BY <1>2, <1>15, <1>16 DEF Watching
  <2>. QED  BY <1>1, <1>2, <1>10, <2>1, JumpReason
<1>. HIDE DEF a
<1>18. WellWatched(R, s1, s2, a, Limit(a, 0), Pending(a, {}, c))
  <2>1. Good(a, R, l, Limit(a, 0), Pending(a, {}, c))
    BY <1>14, GoodIfNotFalse
  <2>2. Good(a, R, s1, Limit(a, 0), Pending(a, {}, c)) \/ Good(a, R, s2, Limit(a, 0), Pending(a, {}, c))
    BY <1>16, <2>1
  <2>3. \A w \in {s1, s2} : On(a, -w) /\ LevelIn(a, w) = 0 => Good(a, R, w, Limit(a, 0), Pending(a, {}, c))
    <3>1. ASSUME NEW w \in {s1, s2}, w # l
          PROVE  ~(LevelIn(a, w) = 0)
      <4>1. w \in R \ {l} /\ LevelIn(asg, w) > 0
        BY <1>2, <1>15, <3>1
      <4>. QED  BY <1>14, <4>1
    <3>. QED  BY <2>1, <3>1
  <2>. QED  BY <2>2, <2>3 DEF WellWatched
<1>19. WatchedInv(clauses', a, {}, 0)
  <2>6. DOMAIN clauses' \subseteq DOMAIN clauses \cup {c}
    BY <1>5 DEF Tightened
  <2>7. \A d \in DOMAIN clauses' : d # c => clauses'[d].lits = clauses[d].lits /\ (clauses[d].garbage => clauses'[d].garbage)
    BY <1>5 DEF Tightened
  <2>8. WellWatched(LS(clauses', c), clauses'[c].lits[1], clauses'[c].lits[2], a, Limit(a, 0), Pending(a, {}, c))
    <3>1. WellWatched(LS(clauses', c), s1, s2, a, Limit(a, 0), Pending(a, {}, c))
      BY <1>2, <1>18
    <3>. QED  BY <3>1 DEF s1, s2
  <2>. QED  BY <1>14, <2>6, <2>7, <2>8, WatchedWith
<1>20. /\ TrailInv(asg') /\ ClausesInv(clauses') /\ WatchesInv(clauses', blit')
       /\ ReasonsInv(clauses', asg', resolvent') /\ WatchedInv(clauses', asg', {}, conflict')
       /\ AssumptionsInv(assumptions, asg') /\ MeaningInv(Models, clauses', asg', resolvent')
  BY <1>2, <1>4, <1>14, <1>17, <1>19
<1>21. /\ ViolatedInv(clauses', asg', conflict') /\ DerivingInv(asg', {}, conflict', resolvent', answer')
  BY DEF ViolatedInv, DerivingInv
<1>22. mode # "reduce" /\ answer' \in {0, 10, 20} /\ UNCHANGED <<input, mode>> /\ todo' = {}
  BY <1>1
<1>. QED  BY <1>1, <1>20, <1>21, <1>22, AnalysisKeeps

(* A step of the derivation keeps the invariant.                            *)
LEMMA ResolveInv ==
  ASSUME SInv, Resolve
  PROVE  SInv'
<1>1. /\ resolvent # {} /\ Cardinality(OnLevel(resolvent)) > 1
      /\ UNCHANGED <<input, todo, reductions, mode, answer>>
  BY DEF Resolve
<1>2. \/ ~Otfs /\ resolvent' = Resolved /\ UNCHANGED <<db, asg, conflict, conflicts>>
      \/ /\ Otfs /\ clauses' = Tighter
         /\ blit' = StrengthenedWatches(Cause, Strengthened(Cause, Uip))
         /\ \/ /\ Cardinality(OnLevel(Resolved)) = 1
               /\ \E n \in ActualLevels(Maximum({LevelOf(l) : l \in Resolved \ OnLevel(Resolved)})) :
                    asg' = Assign(Backtrack(asg, n), LastOn(Resolved), Cause, Resolved)
               /\ conflict' = 0 /\ resolvent' = {}
            \/ /\ Cardinality(OnLevel(Resolved)) # 1
               /\ asg' = asg /\ conflict' = Cause /\ resolvent' = Resolved
  BY DEF Resolve, Otfs, Subsumes, Tighter, Resolved, Antecedent, Cause, Uip
<1>3. CASE ~Otfs /\ resolvent' = Resolved /\ UNCHANGED <<db, asg, conflict, conflicts>>
  BY <1>1, <1>3, ResolvePlainInv
<1>4. CASE Otfs /\ clauses' = Tighter
  <2>1. blit' = StrengthenedWatches(Cause, Strengthened(Cause, Uip))
    BY <1>2, <1>4
  <2>2. Tightened(clauses, clauses', Cause, Strengthened(Cause, Uip), conflict)
    BY <1>1, <1>4, OtfsTightened
  <2>3. CASE /\ Cardinality(OnLevel(Resolved)) = 1
             /\ \E n \in ActualLevels(Maximum({LevelOf(l) : l \in Resolved \ OnLevel(Resolved)})) :
                    asg' = Assign(Backtrack(asg, n), LastOn(Resolved), Cause, Resolved)
             /\ conflict' = 0 /\ resolvent' = {}
    BY <1>1, <1>4, <2>1, <2>2, <2>3, OtfsJumpInv
  <2>4. CASE /\ Cardinality(OnLevel(Resolved)) # 1
             /\ asg' = asg /\ conflict' = Cause /\ resolvent' = Resolved
    BY <1>1, <1>4, <2>1, <2>2, <2>4, OtfsOnInv
  <2>. QED  BY <1>2, <1>4, <2>3, <2>4
<1>. QED  BY <1>2, <1>3, <1>4

-----------------------------------------------------------------------------
(* Minimizing and shrinking.                                                *)

(* minimize_literal: what one place of the trail adds. *)
Gains(keep, k, x) ==
  LET l == asg.trail[k]
      c == ReasonOf(l)
  IN  IF \/ LevelOf(l) = 0 \/ -l \in keep
         \/ /\ c # 0 /\ LevelOf(l) < level
            /\ \A o \in LitsOf(c) \ {l} : -o \in x
      THEN {l} ELSE {}

(* The equation of the function that defines Implies.                       *)
Reaches(keep, f) ==
  /\ f \in [0 .. Len(asg.trail) -> SUBSET Lits]
  /\ f[0] = {}
  /\ \A k \in 1 .. Len(asg.trail) : f[k] = f[k - 1] \cup Gains(keep, k, f[k - 1])

(* Implies is defined by a function that satisfies its equation.            *)
LEMMA ImpliesEquation ==
  ASSUME TrailInv(asg), NEW keep
  PROVE  \E f : Reaches(keep, f) /\ Implies(keep) = f[Len(asg.trail)]
<1>. DEFINE n == Len(asg.trail)
            S == SUBSET Lits
            Body(f, k) == IF k = 0 THEN {} ELSE f[k - 1] \cup Gains(keep, k, f[k - 1])
            step == [p \in (1 .. n) \X S |-> p[2] \cup Gains(keep, p[1], p[2])]
<1>0. n \in Nat /\ DOMAIN asg.trail = 1 .. n /\ \A k \in 1 .. n : asg.trail[k] \in Lits
  BY TrailFacts, AsgFacts
<1>1. step \in [(1 .. n) \X S -> S]
  <2>1. \A k \in 1 .. n, x \in S : x \cup Gains(keep, k, x) \in S
    BY <1>0 DEF Gains
  <2>. HIDE DEF n, S
  <2>. QED  BY <2>1
<1>2. n \in Nat /\ {} \in S
  BY <1>0
<1>. HIDE DEF n, S
<1>3. PICK g : Iterates(n, S, {}, step, g)
  <2>. HIDE DEF step, Body
  <2>. QED  BY <1>1, <1>2, RecExists DEF IsStep
<1>3a. /\ g \in [0 .. n -> S] /\ g[0] = {}
       /\ \A j \in 1 .. n : g[j] = step[<<j, g[j - 1]>>]
  BY <1>3 DEF Iterates
<1>4. ASSUME NEW k \in 0 .. n
      PROVE  g[k] = Body(g, k)
  <2>1. CASE k = 0
    BY <1>3a, <2>1
  <2>2. CASE k # 0
    <3>1. k \in 1 .. n /\ g[k - 1] \in S
      BY <1>0, <1>3a, <2>2
    <3>2. g[k] = step[<<k, g[k - 1]>>]
      BY <3>1, <1>3a
    <3>. QED  BY <3>1, <3>2, <2>2
  <2>. QED  BY <2>1, <2>2
<1>5. g = [k \in 0 .. n |-> Body(g, k)]
  <2>1. g = [k \in 0 .. n |-> g[k]]
    BY <1>3a
  <2>. HIDE DEF Body, step
  <2>. QED  BY <1>4, <2>1
<1>6. \E f : f = [k \in 0 .. n |-> Body(f, k)]
  <2>. HIDE DEF Body
  <2>. QED  BY <1>5
<1>. DEFINE F == CHOOSE f : f = [k \in 0 .. n |-> Body(f, k)]
<1>7. F = [k \in 0 .. n |-> Body(F, k)]
  <2>. HIDE DEF Body
  <2>. QED  BY <1>6
<1>8. Implies(keep) = F[n]
  BY DEF Implies, Gains, n
<1>. HIDE DEF F
<1>9. F[0] = {}
  BY <1>7, <1>0
<1>10. ASSUME NEW k \in 1 .. n
       PROVE  F[k] = F[k - 1] \cup Gains(keep, k, F[k - 1])
  <2>0. k \in 0 .. n /\ k # 0
    OBVIOUS
  <2>1. F[k] = Body(F, k)
    <3>. HIDE DEF Body, step
    <3>. QED  BY <1>7, <2>0
  <2>. QED  BY <2>0, <2>1
<1>11. \A k \in 0 .. n : F[k] \in S
  <2>. DEFINE G == {k \in 0 .. n : F[k] \in S}
  <2>1. 0 \in G
    <3>1. 0 \in 0 .. n
      BY <1>2
    <3>2. F[0] \in S
      BY <1>2, <1>9
    <3>. QED  BY <3>1, <3>2
  <2>2. ASSUME NEW k \in 1 .. n, k - 1 \in G
        PROVE  k \in G
    <3>1. F[k - 1] \in S
      BY <2>2
    <3>2. F[k - 1] \cup Gains(keep, k, F[k - 1]) \in S
      BY <1>0, <3>1 DEF Gains, S
    <3>3. k \in 0 .. n
      OBVIOUS
    <3>. QED  BY <1>10, <3>2, <3>3
  <2>3. \A k \in 0 .. n : k \in G
    <3>. HIDE DEF G
    <3>. QED  BY <1>0, <2>1, <2>2, UpTo
  <2>. QED  BY <2>3
<1>12. F \in [0 .. n -> S]
  <2>. HIDE DEF Body
  <2>. QED  BY <1>7, <1>11
<1>. HIDE DEF Body, step
<1>. QED  BY <1>8, <1>9, <1>10, <1>12 DEF Reaches, n, S

(* m satisfies the clauses and the units: what analysis derives, it does.  *)
Meets(m) ==
  /\ m \in Assignments /\ Units(asg) \subseteq m
  /\ \A c \in DOMAIN clauses : LS(clauses, c) \cap m # {}

(* Such an assignment has one literal of every variable.                    *)
LEMMA MeetsFacts ==
  ASSUME NEW m, Meets(m)
  PROVE  \A l \in Lits : (l \in m \/ -l \in m) /\ ~(l \in m /\ -l \in m)
BY AssignmentFacts DEF Meets

(* The reasons below the current level are sound also during analysis.      *)
LEMMA LowReason ==
  ASSUME ReasonsInv(clauses, asg, resolvent), NEW k \in DOMAIN asg.trail,
         LevelIn(asg, asg.trail[k]) < Lev(asg), ReasonIn(asg, asg.trail[k]) # 0
  PROVE  Forces(clauses, asg, asg.trail[k], ReasonIn(asg, asg.trail[k]), k)
BY DEF ReasonsInv, Relevant, ReasonOK

(* minimize: what the reasons lead back to keep follows from the negation   *)
(* of keep.                                                                 *)
LEMMA ImpliesSound ==
  ASSUME TrailInv(asg), ClausesInv(clauses), ReasonsInv(clauses, asg, resolvent),
         NEW keep, NEW m, Meets(m), keep \cap m = {}
  PROVE  Implies(keep) \subseteq m
<1>1. PICK f : Reaches(keep, f) /\ Implies(keep) = f[Len(asg.trail)]
  BY ImpliesEquation
<1>. DEFINE n == Len(asg.trail)
            G == {k \in 0 .. n : f[k] \subseteq m}
<1>2. n \in Nat /\ DOMAIN asg.trail = 1 .. n /\ asg \in AsgType /\ \A k \in 1 .. n : asg.trail[k] \in Lits
  BY TrailFacts, AsgFacts
<1>3. f[0] = {} /\ \A k \in 1 .. n : f[k] = f[k - 1] \cup Gains(keep, k, f[k - 1])
  BY <1>1 DEF Reaches
<1>. HIDE DEF n
<1>4. 0 \in G
  BY <1>2, <1>3
<1>5. ASSUME NEW k \in 1 .. n, k - 1 \in G
      PROVE  k \in G
  <2>1. f[k - 1] \subseteq m
    BY <1>5
  <2>. DEFINE l == asg.trail[k]
              c == ReasonIn(asg, l)
  <2>2. Gains(keep, k, f[k - 1]) \subseteq m
    <3>1. SUFFICES ASSUME NEW x \in Gains(keep, k, f[k - 1])
                   PROVE  x \in m
      OBVIOUS
    <3>2. /\ LevelOf(l) = LevelIn(asg, l) /\ ReasonOf(l) = c /\ level = Lev(asg)
          /\ LitsOf(c) = LS(clauses, c)
      BY SameState
    <3>3. /\ x = l
          /\ \/ LevelIn(asg, l) = 0 \/ -l \in keep
             \/ /\ c # 0 /\ LevelIn(asg, l) < Lev(asg)
                /\ \A o \in LS(clauses, c) \ {l} : -o \in f[k - 1]
      BY <3>1, <3>2 DEF Gains
    <3>4. l \in Lits /\ On(asg, l) /\ k \in DOMAIN asg.trail
      BY <1>2, AsgFacts
    <3>. HIDE DEF l, c
    <3>5. CASE LevelIn(asg, l) = 0
      <4>1. l \in Units(asg)
        BY <3>4, <3>5, UnitsSpec
      <4>. QED  BY <3>3, <4>1 DEF Meets
    <3>6. CASE -l \in keep
      <4>1. -l \notin m
        BY <3>6
      <4>. QED  BY <3>3, <3>4, <4>1, MeetsFacts
    <3>7. CASE /\ c # 0 /\ LevelIn(asg, l) < Lev(asg)
               /\ \A o \in LS(clauses, c) \ {l} : -o \in f[k - 1]
      <4>1. Forces(clauses, asg, l, c, k)
        BY <3>4, <3>7, LowReason DEF l, c
      <4>2. c \in DOMAIN clauses
        BY <4>1 DEF Forces
      <4>3. LS(clauses, c) \subseteq Lits
        BY <4>2, ClauseFacts
      <4>4. PICK o \in LS(clauses, c) : o \in m
        BY <4>2 DEF Meets
      <4>5. o = l
        <5>1. SUFFICES ASSUME o # l
                       PROVE  FALSE
          OBVIOUS
        <5>2. -o \in m
          BY <2>1, <3>7, <5>1
        <5>. QED  BY <4>3, <4>4, <5>2, MeetsFacts
      <4>. QED  BY <3>3, <4>4, <4>5
    <3>. QED  BY <3>3, <3>5, <3>6, <3>7
  <2>3. f[k] \subseteq m
    BY <1>3, <2>1, <2>2
  <2>4. k \in 0 .. n
    OBVIOUS
  <2>. QED  BY <2>3, <2>4
<1>6. \A k \in 0 .. n : k \in G
  <2>. HIDE DEF G
  <2>. QED  BY <1>2, <1>4, <1>5, UpTo
<1>7. n \in 0 .. n
  BY <1>2
<1>8. n \in G
  BY <1>6, <1>7
<1>. QED  BY <1>1, <1>8 DEF n

(* False literals of one level. *)
Blocks(n) == {x \in SUBSET Lits : \A l \in x : On(asg, -l) /\ LevelIn(asg, l) = n}

(* The literals of a block are on the trail, negated.                       *)
LEMMA BlockPlace ==
  ASSUME TrailInv(asg), NEW n, NEW x \in Blocks(n), NEW l \in x
  PROVE  l \in Lits /\ LevelIn(asg, l) = n /\ Place(l) \in DOMAIN asg.trail /\ asg.trail[Place(l)] = -l
<1>1. l \in Lits /\ On(asg, -l) /\ LevelIn(asg, l) = n
  BY DEF Blocks
<1>2. PICK k \in DOMAIN asg.trail : asg.trail[k] = -l
  BY <1>1, TrailFacts, AsgFacts
<1>3. Place(l) = k
  BY <1>1, <1>2, PlaceSpec
<1>. QED  BY <1>1, <1>2, <1>3

(* The literal of a block that was assigned last.                           *)
LEMMA LatestSpec ==
  ASSUME TrailInv(asg), NEW n, NEW x \in Blocks(n), x # {}
  PROVE  LET u == CHOOSE l \in x : \A o \in x : Place(o) <= Place(l)
         IN  u \in x /\ \A o \in x : Place(o) <= Place(u)
<1>. DEFINE S == {Place(l) : l \in x}
<1>1. DOMAIN asg.trail = 1 .. Len(asg.trail) /\ Len(asg.trail) \in Nat
  BY TrailFacts, AsgFacts
<1>2. \A l \in x : Place(l) \in 1 .. Len(asg.trail)
  BY <1>1, BlockPlace
<1>3. S \in SUBSET Nat /\ S # {} /\ \A k \in S : k <= Len(asg.trail)
  BY <1>1, <1>2
<1>4. PICK k \in S : \A j \in S : j <= k
  <2>. HIDE DEF S
  <2>. QED  BY <1>1, <1>3, GreatestNat
<1>5. \E l \in x : \A o \in x : Place(o) <= Place(l)
  BY <1>4
<1>. QED  BY <1>5

(* A literal that is not the first of its level on the trail has a reason.  *)
LEMMA NotDecision ==
  ASSUME TrailInv(asg), NEW p \in DOMAIN asg.trail, NEW q \in DOMAIN asg.trail, q < p,
         LevelIn(asg, asg.trail[q]) = LevelIn(asg, asg.trail[p]), LevelIn(asg, asg.trail[p]) > 0
  PROVE  ReasonIn(asg, asg.trail[p]) # 0
<1>1. SUFFICES ASSUME ReasonIn(asg, asg.trail[p]) = 0
               PROVE  FALSE
  OBVIOUS
<1>. DEFINE n == LevelIn(asg, asg.trail[p])
<1>2. Decision(asg, p)
  BY <1>1 DEF TrailInv, Decisions
<1>3. asg.control[n] = [decision |-> asg.trail[p], trail |-> p - 1]
  BY <1>2 DEF Decision
<1>4. asg.control[n].trail = p - 1
  BY <1>3
<1>5. q > asg.control[n].trail
  BY TrailFacts
<1>6. p \in Nat /\ q \in Nat
  BY TrailFacts, AsgFacts
<1>. HIDE DEF n
<1>. QED  BY <1>4, <1>5, <1>6

(* shrink_block: one resolution. *)
Shrinks(block, keep, s) ==
  LET below == Implies(keep)
      n == LevelOf(CHOOSE l \in block : TRUE)
      u == CHOOSE l \in s : \A o \in s : Place(o) <= Place(l)
      r == LitsOf(ReasonOf(u)) \ {-u}
  IN  IF Cardinality(s) <= 1 THEN s
      ELSE IF \E o \in r : LevelOf(o) < n /\ -o \notin below THEN {}
      ELSE (s \ {u}) \cup {o \in r : LevelOf(o) = n}

(* A step of shrinking keeps the block on its level, and a model that       *)
(* misses what is left misses what there was.                               *)
LEMMA ShrinksFacts ==
  ASSUME TrailInv(asg), ClausesInv(clauses), ReasonsInv(clauses, asg, resolvent),
         NEW n \in 1 .. Lev(asg) - 1, NEW block \in Blocks(n), block # {}, NEW keep, NEW s \in Blocks(n)
  PROVE  /\ Shrinks(block, keep, s) \in Blocks(n)
         /\ \A m : /\ Meets(m) /\ keep \cap m = {}
                   /\ Shrinks(block, keep, s) # {} /\ Shrinks(block, keep, s) \cap m = {}
                   => s # {} /\ s \cap m = {}
<1>1. asg \in AsgType /\ Lev(asg) \in Nat /\ DOMAIN asg.trail = 1 .. Len(asg.trail) /\ Len(asg.trail) \in Nat
  BY TrailFacts, AsgFacts
<1>. DEFINE u == CHOOSE l \in s : \A o \in s : Place(o) <= Place(l)
            c == ReasonIn(asg, u)
            r == LS(clauses, c) \ {-u}
            low == \E o \in r : LevelIn(asg, o) < n /\ -o \notin Implies(keep)
            more == (s \ {u}) \cup {o \in r : LevelIn(asg, o) = n}
<1>2. LevelOf(CHOOSE l \in block : TRUE) = n
  <2>1. (CHOOSE l \in block : TRUE) \in block
    OBVIOUS
  <2>2. LevelIn(asg, CHOOSE l \in block : TRUE) = n
    BY <2>1 DEF Blocks
  <2>. QED  BY <2>2, SameState
<1>3. Shrinks(block, keep, s) = IF Cardinality(s) <= 1 THEN s ELSE IF low THEN {} ELSE more
  <2>1. /\ ReasonOf(u) = c /\ LitsOf(c) = LS(clauses, c)
        /\ \A o \in r : LevelOf(o) = LevelIn(asg, o)
    BY SameState
  <2>2. \A X, Y, a, b : {o \in r : LevelOf(o) = n} = {o \in r : LevelIn(asg, o) = n}
    BY <2>1
  <2>3. (\E o \in r : LevelOf(o) < n /\ -o \notin Implies(keep)) <=> low
    BY <2>1
  <2>. HIDE DEF u, c
  <2>4. Shrinks(block, keep, s) =
          IF Cardinality(s) <= 1 THEN s
          ELSE IF \E o \in r : LevelOf(o) < n /\ -o \notin Implies(keep) THEN {}
          ELSE (s \ {u}) \cup {o \in r : LevelOf(o) = n}
    BY <1>2, <2>1 DEF Shrinks, u
  <2>. HIDE DEF r
  <2>. QED  BY <2>2, <2>3, <2>4
<1>4. CASE Cardinality(s) <= 1
  BY <1>3, <1>4
<1>5. CASE ~(Cardinality(s) <= 1)
  <2>1. s # {}
    BY <1>5, FS_EmptySet
  <2>2. u \in s /\ \A o \in s : Place(o) <= Place(u)
    BY <2>1, LatestSpec
  <2>. HIDE DEF u
  <2>3. PICK k \in s : k # u
    <3>1. SUFFICES ASSUME \A k \in s : k = u
                   PROVE  FALSE
      OBVIOUS
    <3>2. s = {u}
      BY <2>2, <3>1
    <3>3. Cardinality(s) = 1
      BY <3>2, FS_Singleton
    <3>. QED  BY <1>5, <3>3
  <2>. DEFINE p == Place(u)
              q == Place(k)
  <2>4. u \in Lits /\ LevelIn(asg, u) = n /\ p \in DOMAIN asg.trail /\ asg.trail[p] = -u
    BY <2>2, BlockPlace
  <2>5. k \in Lits /\ LevelIn(asg, k) = n /\ q \in DOMAIN asg.trail /\ asg.trail[q] = -k
    BY <2>3, BlockPlace
  <2>6. q <= p
    BY <2>2, <2>3
  <2>. HIDE DEF p, q
  <2>7. - -u = u /\ - -k = k /\ -u \in Lits /\ -k \in Lits
    BY <2>4, <2>5, LitFacts
  <2>8. q < p
    <3>1. q # p
      BY <2>3, <2>4, <2>5, <2>7
    <3>. QED  BY <1>1, <2>4, <2>5, <2>6, <3>1
  <2>9. LevelIn(asg, asg.trail[p]) = n /\ LevelIn(asg, asg.trail[q]) = n /\ ReasonIn(asg, asg.trail[p]) = c
    BY <1>1, <2>4, <2>5, AsgFacts
  <2>10. ReasonIn(asg, asg.trail[p]) # 0
    BY <2>4, <2>5, <2>8, <2>9, NotDecision
  <2>11. Forces(clauses, asg, asg.trail[p], ReasonIn(asg, asg.trail[p]), p)
    BY <1>1, <2>4, <2>9, <2>10, LowReason
  <2>. HIDE DEF c
  <2>12. Forces(clauses, asg, -u, c, p)
    BY <2>4, <2>9, <2>11
  <2>13. /\ c \in DOMAIN clauses
         /\ \A o \in r : LevelIn(asg, o) <= LevelIn(asg, -u) /\ FalseBefore(asg, o, p)
    BY <2>12 DEF Forces
  <2>14. LS(clauses, c) \subseteq Lits
    BY <2>13, ClauseFacts
  <2>15. \A o \in r : o \in Lits /\ LevelIn(asg, o) <= n /\ LevelIn(asg, o) \in Nat /\ On(asg, -o)
    <3>1. ASSUME NEW o \in r
          PROVE  o \in Lits /\ LevelIn(asg, o) <= n /\ LevelIn(asg, o) \in Nat /\ On(asg, -o)
      <4>1. o \in Lits /\ LevelIn(asg, -u) = n
        BY <1>1, <2>4, <2>14, AsgFacts
      <4>2. PICK j \in DOMAIN asg.trail : asg.trail[j] = -o
        BY <2>13 DEF FalseBefore
      <4>. QED  BY <1>1, <2>13, <4>1, <4>2, AsgFacts
    <3>. QED  BY <3>1
  <2>16. more \in Blocks(n)
    BY <2>15 DEF Blocks
  <2>17. {} \in Blocks(n)
    BY DEF Blocks
  <2>18. Shrinks(block, keep, s) = IF low THEN {} ELSE more
    BY <1>3, <1>5
  <2>19. ASSUME NEW m, Meets(m), keep \cap m = {}, ~low, more \cap m = {}
         PROVE  s \cap m = {}
    <3>1. Implies(keep) \subseteq m
      BY <2>19, ImpliesSound
    <3>2. \A o \in r : o \notin m
      <4>1. ASSUME NEW o \in r, o \in m
            PROVE  FALSE
        <5>1. LevelIn(asg, o) # n
          BY <2>19, <4>1
        <5>2. LevelIn(asg, o) < n
          BY <2>15, <5>1
        <5>3. -o \in m
          BY <2>19, <3>1, <5>2
        <5>. QED  BY <2>15, <2>19, <4>1, <5>3, MeetsFacts
      <4>. QED  BY <4>1
    <3>3. PICK o \in LS(clauses, c) : o \in m
      BY <2>13, <2>19 DEF Meets
    <3>4. o = -u
      BY <3>2, <3>3
    <3>5. u \notin m
      BY <2>4, <2>19, <3>3, <3>4, MeetsFacts
    <3>. QED  BY <2>19, <3>5
  <2>. HIDE DEF low, more
  <2>20. CASE low
    BY <2>17, <2>18, <2>20
  <2>21. CASE ~low
    <3>1. Shrinks(block, keep, s) = more
      BY <2>18, <2>21
    <3>. QED  BY <2>1, <2>16, <2>19, <2>21, <3>1
  <2>. QED  BY <2>20, <2>21
<1>. QED  BY <1>4, <1>5

(* a follows where all that meets the clauses and avoids b avoids a. *)
Covers(keep, b, a) == \A m : Meets(m) /\ keep \cap m = {} /\ b \cap m = {} => a \cap m = {}

(* A block is replaced by the literal all of it depends on, if there is     *)
(* one.                                                                     *)
LEMMA ShrunkUipFacts ==
  ASSUME TrailInv(asg), ClausesInv(clauses), ReasonsInv(clauses, asg, resolvent),
         NEW n \in 1 .. Lev(asg) - 1, NEW block \in Blocks(n), block # {}, NEW keep
  PROVE  /\ ShrunkUip(block, keep) \in Blocks(n)
         /\ ShrunkUip(block, keep) # {} => Covers(keep, ShrunkUip(block, keep), block)
<1>. DEFINE N == Len(asg.trail)
            S == Blocks(n)
            Body(f, k) == IF k = 0 THEN block ELSE Shrinks(block, keep, f[k - 1])
            step == [p \in (1 .. N) \X S |-> Shrinks(block, keep, p[2])]
<1>0. N \in Nat /\ block \in S
  BY TrailFacts, AsgFacts
<1>1. step \in [(1 .. N) \X S -> S]
  <2>1. \A x \in S : Shrinks(block, keep, x) \in S
    BY ShrinksFacts
  <2>. HIDE DEF N, S
  <2>. QED  BY <2>1
<1>1a. \A x \in S : /\ Shrinks(block, keep, x) \in S
                    /\ \A m : /\ Meets(m) /\ keep \cap m = {}
                              /\ Shrinks(block, keep, x) # {} /\ Shrinks(block, keep, x) \cap m = {}
                              => x # {} /\ x \cap m = {}
  BY ShrinksFacts
<1>. HIDE DEF N, S
<1>3. PICK g : Iterates(N, S, block, step, g)
  <2>. HIDE DEF step, Body
  <2>. QED  BY <1>0, <1>1, RecExists DEF IsStep
<1>3a. /\ g \in [0 .. N -> S] /\ g[0] = block
       /\ \A j \in 1 .. N : g[j] = step[<<j, g[j - 1]>>]
  BY <1>3 DEF Iterates
<1>4. ASSUME NEW k \in 0 .. N
      PROVE  g[k] = Body(g, k)
  <2>1. CASE k = 0
    BY <1>3a, <2>1
  <2>2. CASE k # 0
    <3>1. k \in 1 .. N /\ g[k - 1] \in S
      BY <1>0, <1>3a, <2>2
    <3>2. g[k] = step[<<k, g[k - 1]>>]
      BY <3>1, <1>3a
    <3>. QED  BY <3>1, <3>2, <2>2
  <2>. QED  BY <2>1, <2>2
<1>5. g = [k \in 0 .. N |-> Body(g, k)]
  <2>1. g = [k \in 0 .. N |-> g[k]]
    BY <1>3a
  <2>. HIDE DEF Body, step
  <2>. QED  BY <1>4, <2>1
<1>6. \E f : f = [k \in 0 .. N |-> Body(f, k)]
  <2>. HIDE DEF Body
  <2>. QED  BY <1>5
<1>. DEFINE F == CHOOSE f : f = [k \in 0 .. N |-> Body(f, k)]
<1>7. F = [k \in 0 .. N |-> Body(F, k)]
  <2>. HIDE DEF Body
  <2>. QED  BY <1>6
<1>8. ShrunkUip(block, keep) = F[N]
  BY DEF ShrunkUip, Shrinks, N
<1>. HIDE DEF F
<1>9. F[0] = block
  BY <1>7, <1>0
<1>10. ASSUME NEW k \in 1 .. N
       PROVE  F[k] = Shrinks(block, keep, F[k - 1])
  <2>0. k \in 0 .. N /\ k # 0
    OBVIOUS
  <2>1. F[k] = Body(F, k)
    <3>. HIDE DEF Body, step
    <3>. QED  BY <1>7, <2>0
  <2>. QED  BY <2>0, <2>1
<1>. HIDE DEF Body, step
<1>. DEFINE G == {k \in 0 .. N : F[k] \in S /\ (F[k] # {} => Covers(keep, F[k], block))}
<1>11. 0 \in G
  <2>1. 0 \in 0 .. N
    BY <1>0
  <2>2. F[0] \in S /\ Covers(keep, F[0], block)
    BY <1>0, <1>9 DEF Covers
  <2>. QED  BY <2>1, <2>2
<1>12. ASSUME NEW k \in 1 .. N, k - 1 \in G
       PROVE  k \in G
  <2>. DEFINE x == F[k - 1]
              y == F[k]
  <2>1. x \in S /\ (x # {} => Covers(keep, x, block)) /\ y = Shrinks(block, keep, x)
    BY <1>10, <1>12
  <2>. HIDE DEF x, y
  <2>2. y \in S
    BY <1>1a, <2>1
  <2>3. y # {} => Covers(keep, y, block)
    <3>1. ASSUME y # {}, NEW m, Meets(m), keep \cap m = {}, y \cap m = {}
          PROVE  block \cap m = {}
      <4>1. x # {} /\ x \cap m = {}
        BY <1>1a, <2>1, <3>1
      <4>. QED  BY <2>1, <3>1, <4>1 DEF Covers
    <3>. QED  BY <3>1 DEF Covers
  <2>4. k \in 0 .. N
    OBVIOUS
  <2>. QED  BY <2>2, <2>3, <2>4 DEF y
<1>13. \A k \in 0 .. N : k \in G
  <2>. HIDE DEF G
  <2>. QED  BY <1>0, <1>11, <1>12, UpTo
<1>14. N \in 0 .. N
  BY <1>0
<1>15. N \in G
  BY <1>13, <1>14
<1>. QED  BY <1>8, <1>15 DEF S

(* Dropping the literals that the others imply.                             *)
LEMMA MinimizedFacts ==
  ASSUME TrailInv(asg), ClausesInv(clauses), ReasonsInv(clauses, asg, resolvent),
         NEW n \in 1 .. Lev(asg) - 1, NEW block \in Blocks(n), NEW keep
  PROVE  /\ Minimized(block, keep) \in Blocks(n)
         /\ Covers(keep, Minimized(block, keep), block)
<1>1. asg \in AsgType /\ Lev(asg) \in Nat /\ DOMAIN asg.trail = 1 .. Len(asg.trail) /\ Len(asg.trail) \in Nat
  BY TrailFacts, AsgFacts
<1>. DEFINE Earlier(l) == {o \in block : Place(o) < Place(l)}
            Dropped(l) == ReasonIn(asg, l) # 0 /\
              \A o \in LS(clauses, ReasonIn(asg, l)) \ {-l} : -o \in Implies(keep \cup Earlier(l))
<1>2. \A l \in block : l \in Minimized(block, keep) \/ Dropped(l)
  <2>1. ASSUME NEW l \in block, l \notin Minimized(block, keep)
        PROVE  Dropped(l)
    <3>1. ReasonOf(l) = ReasonIn(asg, l) /\ LitsOf(ReasonIn(asg, l)) = LS(clauses, ReasonIn(asg, l))
      BY SameState
    <3>. QED  BY <2>1, <3>1 DEF Minimized
  <2>. QED  BY <2>1
<1>3. Minimized(block, keep) \subseteq block
  BY DEF Minimized
<1>4. Minimized(block, keep) \in Blocks(n)
  BY <1>3 DEF Blocks
<1>5. ASSUME NEW m, Meets(m), keep \cap m = {}, Minimized(block, keep) \cap m = {}, block \cap m # {}
      PROVE  FALSE
  <2>. DEFINE P == {Place(l) : l \in block \cap m}
  <2>1. \A l \in block : Place(l) \in 1 .. Len(asg.trail)
    BY <1>1, BlockPlace
  <2>2. P \in SUBSET Nat /\ P # {}
    BY <1>1, <1>5, <2>1
  <2>3. PICK k \in P : \A j \in P : k <= j
    <3>. HIDE DEF P
    <3>. QED  BY <2>2, LeastNat
  <2>4. PICK l \in block \cap m : Place(l) = k
    OBVIOUS
  <2>5. Earlier(l) \cap m = {}
    <3>1. ASSUME NEW o \in Earlier(l), o \in m
          PROVE  FALSE
      <4>1. o \in block /\ Place(o) < k /\ Place(o) \in P
        BY <2>4, <3>1
      <4>2. k <= Place(o) /\ Place(o) \in Nat /\ k \in Nat
        BY <2>2, <2>3, <4>1
      <4>. QED  BY <4>1, <4>2
    <3>. QED  BY <3>1
  <2>6. Dropped(l)
    BY <1>2, <1>5, <2>4
  <2>. DEFINE E == keep \cup Earlier(l)
              p == Place(l)
              c == ReasonIn(asg, l)
  <2>7. E \cap m = {}
    BY <1>5, <2>5
  <2>8. Implies(E) \subseteq m
    <3>. HIDE DEF E
    <3>. QED  BY <1>5, <2>7, ImpliesSound
  <2>9. c # 0 /\ \A o \in LS(clauses, c) \ {-l} : -o \in m
    BY <2>6, <2>8
  <2>10. l \in Lits /\ LevelIn(asg, l) = n /\ p \in DOMAIN asg.trail /\ asg.trail[p] = -l
    BY <2>4, BlockPlace
  <2>. HIDE DEF p, c
  <2>11. LevelIn(asg, asg.trail[p]) = n /\ ReasonIn(asg, asg.trail[p]) = c /\ -l \in Lits
    BY <1>1, <2>10, AsgFacts, LitFacts DEF c
  <2>12. Forces(clauses, asg, asg.trail[p], c, p)
    <3>1. LevelIn(asg, asg.trail[p]) < Lev(asg) /\ ReasonIn(asg, asg.trail[p]) # 0
      BY <1>1, <2>9, <2>11
    <3>. QED  BY <2>10, <2>11, <3>1, LowReason
  <2>13. c \in DOMAIN clauses
    BY <2>12 DEF Forces
  <2>14. LS(clauses, c) \subseteq Lits
    BY <2>13, ClauseFacts
  <2>15. PICK o \in LS(clauses, c) : o \in m
    BY <1>5, <2>13 DEF Meets
  <2>16. o = -l
    <3>1. SUFFICES ASSUME o # -l
                   PROVE  FALSE
      OBVIOUS
    <3>2. -o \in m
      BY <2>9, <2>15, <3>1
    <3>. QED  BY <1>5, <2>14, <2>15, <3>2, MeetsFacts
  <2>. QED  BY <1>5, <2>4, <2>10, <2>15, <2>16, MeetsFacts
<1>. QED  BY <1>4, <1>5 DEF Covers

(* What is left of the literals of ls of one level. *)
Layer(ls, k, keep) ==
  LET b == {l \in ls : LevelOf(l) = k}
      u == ShrunkUip(b, keep)
  IN  IF Cardinality(b) < 2 THEN b ELSE IF u # {} THEN u ELSE Minimized(b, keep)

(* A level of the clause after shrinking stands for the literals it had.    *)
LEMMA LayerFacts ==
  ASSUME TrailInv(asg), ClausesInv(clauses), ReasonsInv(clauses, asg, resolvent),
         NEW ls \in SUBSET Lits, \A l \in ls : On(asg, -l), NEW k \in 1 .. Lev(asg) - 1, NEW keep
  PROVE  /\ Layer(ls, k, keep) \in Blocks(k)
         /\ Covers(keep, Layer(ls, k, keep), {l \in ls : LevelIn(asg, l) = k})
<1>. DEFINE b == {l \in ls : LevelIn(asg, l) = k}
            u == ShrunkUip(b, keep)
<1>1. {l \in ls : LevelOf(l) = k} = b
  BY SameState
<1>2. b \in Blocks(k)
  BY DEF Blocks
<1>. HIDE DEF b
<1>3. Layer(ls, k, keep) = IF Cardinality(b) < 2 THEN b ELSE IF u # {} THEN u ELSE Minimized(b, keep)
  BY <1>1 DEF Layer
<1>4. CASE Cardinality(b) < 2
  BY <1>2, <1>3, <1>4 DEF Covers, b
<1>5. CASE ~(Cardinality(b) < 2)
  <2>1. b # {}
    BY <1>5, FS_EmptySet
  <2>2. u \in Blocks(k) /\ (u # {} => Covers(keep, u, b))
    BY <1>2, <2>1, ShrunkUipFacts
  <2>3. Minimized(b, keep) \in Blocks(k) /\ Covers(keep, Minimized(b, keep), b)
    BY <1>2, MinimizedFacts
  <2>. QED  BY <1>3, <1>5, <2>2, <2>3 DEF b
<1>. QED  BY <1>4, <1>5

(* The shrunken clause is implied, its literals are false and above the     *)
(* root, and that of the current level is still there.                      *)
LEMMA ShrunkFacts ==
  ASSUME TrailInv(asg), ClausesInv(clauses), ReasonsInv(clauses, asg, resolvent), Lev(asg) > 0,
         NEW ls \in SUBSET Lits, \A l \in ls : On(asg, -l) /\ LevelIn(asg, l) > 0
  PROVE  /\ Shrunk(ls) \in SUBSET Lits
         /\ \A l \in Shrunk(ls) : On(asg, -l) /\ LevelIn(asg, l) > 0
         /\ OnLevel(Shrunk(ls)) = OnLevel(ls)
         /\ \A m : Meets(m) /\ Shrunk(ls) \cap m = {} => ls \cap m = {}
<1>. DEFINE N == Lev(asg) - 1
            S == {x \in SUBSET Lits : \A l \in x : On(asg, -l) /\ LevelIn(asg, l) > 0 /\ LevelIn(asg, l) < Lev(asg)}
            Body(f, k) == IF k = 0 THEN {} ELSE f[k - 1] \cup Layer(ls, k, f[k - 1])
            step == [p \in (1 .. N) \X S |-> p[2] \cup Layer(ls, p[1], p[2])]
            top == {l \in ls : LevelOf(l) = level}
<1>0. N \in Nat /\ {} \in S /\ asg \in AsgType /\ Lev(asg) \in Nat
  BY TrailFacts, AsgFacts
<1>0a. \A k \in 1 .. N : \A keep :
         /\ Layer(ls, k, keep) \in Blocks(k)
         /\ Covers(keep, Layer(ls, k, keep), {l \in ls : LevelIn(asg, l) = k})
  BY LayerFacts
<1>0b. \A k \in 1 .. N, x \in S : x \cup Layer(ls, k, x) \in S
  <2>1. ASSUME NEW k \in 1 .. N, NEW x \in S
        PROVE  x \cup Layer(ls, k, x) \in S
    <3>1. Layer(ls, k, x) \in Blocks(k)
      BY <1>0a
    <3>2. k > 0 /\ k < Lev(asg)
      BY <1>0
    <3>3. Layer(ls, k, x) \in S
      BY <3>1, <3>2 DEF Blocks
    <3>. QED  BY <3>3
  <2>. QED  BY <2>1
<1>0c. level = Lev(asg) /\ top = {l \in ls : LevelIn(asg, l) = Lev(asg)}
  BY SameState
<1>1. step \in [(1 .. N) \X S -> S]
  <2>. HIDE DEF N, S
  <2>. QED  BY <1>0b
<1>2. N = level - 1
  BY <1>0c
<1>. HIDE DEF N
<1>8a. Shrunk(ls) = top \cup (CHOOSE f : f = [k \in 0 .. N |-> Body(f, k)])[N]
  BY <1>2 DEF Shrunk, Layer
<1>. HIDE DEF S, top
<1>3. PICK g : Iterates(N, S, {}, step, g)
  <2>. HIDE DEF step, Body
  <2>. QED  BY <1>0, <1>1, RecExists DEF IsStep
<1>3a. /\ g \in [0 .. N -> S] /\ g[0] = {}
       /\ \A j \in 1 .. N : g[j] = step[<<j, g[j - 1]>>]
  BY <1>3 DEF Iterates
<1>4. ASSUME NEW k \in 0 .. N
      PROVE  g[k] = Body(g, k)
  <2>1. CASE k = 0
    BY <1>3a, <2>1
  <2>2. CASE k # 0
    <3>1. k \in 1 .. N /\ g[k - 1] \in S
      BY <1>0, <1>3a, <2>2
    <3>2. g[k] = step[<<k, g[k - 1]>>]
      BY <3>1, <1>3a
    <3>. QED  BY <3>1, <3>2, <2>2
  <2>. QED  BY <2>1, <2>2
<1>5. g = [k \in 0 .. N |-> Body(g, k)]
  <2>1. g = [k \in 0 .. N |-> g[k]]
    BY <1>3a
  <2>. HIDE DEF Body, step
  <2>. QED  BY <1>4, <2>1
<1>6. \E f : f = [k \in 0 .. N |-> Body(f, k)]
  <2>. HIDE DEF Body
  <2>. QED  BY <1>5
<1>. DEFINE F == CHOOSE f : f = [k \in 0 .. N |-> Body(f, k)]
<1>7. F = [k \in 0 .. N |-> Body(F, k)]
  <2>. HIDE DEF Body
  <2>. QED  BY <1>6
<1>8. Shrunk(ls) = top \cup F[N]
  BY <1>8a
<1>. HIDE DEF F
<1>9. F[0] = {}
  BY <1>7, <1>0
<1>10. ASSUME NEW k \in 1 .. N
       PROVE  F[k] = F[k - 1] \cup Layer(ls, k, F[k - 1])
  <2>0. k \in 0 .. N /\ k # 0
    OBVIOUS
  <2>1. F[k] = Body(F, k)
    <3>. HIDE DEF Body, step
    <3>. QED  BY <1>7, <2>0
  <2>. QED  BY <2>0, <2>1
<1>. HIDE DEF Body, step
<1>. DEFINE Avoids(x, k) == \A m : Meets(m) /\ x \cap m = {} =>
                              \A l \in ls : LevelIn(asg, l) <= k => l \notin m
            G == {k \in 0 .. N : F[k] \in S /\ Avoids(F[k], k)}
<1>11. 0 \in G
  <2>1. 0 \in 0 .. N
    BY <1>0
  <2>2. F[0] \in S
    BY <1>0, <1>9
  <2>3. \A l \in ls : ~(LevelIn(asg, l) <= 0)
    <3>1. \A l \in ls : LevelIn(asg, l) \in Nat /\ LevelIn(asg, l) > 0
      BY <1>0, AsgFacts
    <3>. QED  BY <3>1
  <2>4. Avoids(F[0], 0)
    BY <2>3
  <2>. HIDE DEF Avoids
  <2>. QED  BY <2>1, <2>2, <2>4
<1>12. ASSUME NEW k \in 1 .. N, k - 1 \in G
       PROVE  k \in G
  <2>. DEFINE x == F[k - 1]
              y == F[k]
              z == Layer(ls, k, x)
  <2>1. x \in S /\ Avoids(x, k - 1) /\ y = x \cup z
    BY <1>10, <1>12
  <2>2. y \in S /\ Covers(x, z, {l \in ls : LevelIn(asg, l) = k})
    BY <1>0a, <1>0b, <2>1
  <2>. HIDE DEF x, y, z
  <2>3. ASSUME NEW m, Meets(m), y \cap m = {}, NEW l \in ls, LevelIn(asg, l) <= k
        PROVE  l \notin m
    <3>1. x \cap m = {} /\ z \cap m = {}
      BY <2>1, <2>3
    <3>2. {o \in ls : LevelIn(asg, o) = k} \cap m = {}
      BY <2>2, <2>3, <3>1 DEF Covers
    <3>3. CASE LevelIn(asg, l) = k
      BY <3>2, <3>3
    <3>4. CASE LevelIn(asg, l) # k
      <4>1. LevelIn(asg, l) \in Nat
        BY <1>0, AsgFacts
      <4>2. LevelIn(asg, l) <= k - 1
        BY <2>3, <3>4, <4>1
      <4>. QED  BY <2>1, <2>3, <3>1, <4>2
    <3>. QED  BY <3>3, <3>4
  <2>4. k \in 0 .. N
    OBVIOUS
  <2>5. Avoids(y, k)
    BY <2>3
  <2>. HIDE DEF Avoids
  <2>. QED  BY <2>2, <2>4, <2>5 DEF y
<1>13. \A k \in 0 .. N : k \in G
  <2>. HIDE DEF G
  <2>. QED  BY <1>0, <1>11, <1>12, UpTo
<1>14. N \in 0 .. N
  BY <1>0
<1>15. N \in G
  BY <1>13, <1>14
<1>. DEFINE x == F[N]
<1>16. x \in S /\ Avoids(x, N) /\ Shrunk(ls) = top \cup x
  BY <1>8, <1>15
<1>. HIDE DEF x
<1>17. Shrunk(ls) \in SUBSET Lits /\ \A l \in Shrunk(ls) : On(asg, -l) /\ LevelIn(asg, l) > 0
  BY <1>0c, <1>16 DEF S
<1>18. OnLevel(Shrunk(ls)) = OnLevel(ls)
  <2>1. \A l \in x : LevelIn(asg, l) # Lev(asg)
    <3>1. \A l \in x : LevelIn(asg, l) < Lev(asg) /\ LevelIn(asg, l) \in Nat
      BY <1>0, <1>16, AsgFacts DEF S
    <3>. QED  BY <1>0, <3>1
  <2>2. /\ OnLevel(Shrunk(ls)) = {l \in Shrunk(ls) : LevelIn(asg, l) = Lev(asg)}
        /\ OnLevel(ls) = {l \in ls : LevelIn(asg, l) = Lev(asg)}
    BY OnLevelSpec
  <2>. QED  BY <1>0c, <1>16, <2>1, <2>2
<1>19. ASSUME NEW m, Meets(m), Shrunk(ls) \cap m = {}, NEW l \in ls
       PROVE  l \notin m
  <2>1. LevelIn(asg, l) \in Nat /\ LevelIn(asg, l) <= Lev(asg)
    <3>1. l \in Lits /\ On(asg, -l)
      OBVIOUS
    <3>. QED  BY <1>0, <3>1, TrailFacts, AsgFacts
  <2>2. x \cap m = {} /\ top \cap m = {}
    BY <1>16, <1>19
  <2>3. CASE LevelIn(asg, l) = Lev(asg)
    BY <1>0c, <2>2, <2>3
  <2>4. CASE LevelIn(asg, l) # Lev(asg)
    <3>1. LevelIn(asg, l) <= N
      BY <1>0, <2>1, <2>4 DEF N
    <3>. QED  BY <1>16, <1>19, <2>2, <3>1
  <2>. QED  BY <2>3, <2>4
<1>. QED  BY <1>17, <1>18, <1>19

-----------------------------------------------------------------------------
(* Learning.                                                                *)

(* A strict total order on S, as a set of pairs, and what is before l. *)
Total(S, R) ==
  /\ \A x \in S : <<x, x>> \notin R
  /\ \A x, y \in S : x = y \/ <<x, y>> \in R \/ <<y, x>> \in R
  /\ \A x, y, z \in S : <<x, y>> \in R /\ <<y, z>> \in R => <<x, z>> \in R

(* The elements of S before l.                                              *)
Earlier(S, R, l) == {k \in S : <<k, l>> \in R}

(* The place of l in the order R.                                           *)
Rank(S, R, l) == Cardinality(Earlier(S, R, l))

(* A later element has the greater rank.                                    *)
LEMMA RankGrows ==
  ASSUME NEW S, IsFiniteSet(S), NEW R, Total(S, R), NEW x \in S, NEW y \in S, <<x, y>> \in R
  PROVE  Rank(S, R, x) \in Nat /\ Rank(S, R, y) \in Nat /\ Rank(S, R, x) < Rank(S, R, y)
<1>. DEFINE a == Earlier(S, R, x)
            b == Earlier(S, R, y)
<1>1. a \subseteq S /\ b \subseteq S /\ x \notin a /\ a \cup {x} \subseteq b
  BY DEF Total, Earlier
<1>2. IsFiniteSet(a) /\ IsFiniteSet(b)
  <2>. HIDE DEF a, b
  <2>. QED  BY <1>1, FS_Subset
<1>. DEFINE m == Cardinality(a)
            n == Cardinality(b)
            q == Cardinality(a \cup {x})
<1>3. m \in Nat /\ n \in Nat
  <2>. HIDE DEF a, b
  <2>. QED  BY <1>2, FS_CardinalityType
<1>4. q = m + 1
  <2>. HIDE DEF a, b
  <2>. QED  BY <1>1, <1>2, FS_AddElement
<1>5. q <= n
  <2>. HIDE DEF a, b
  <2>. QED  BY <1>1, <1>2, FS_Subset
<1>6. Rank(S, R, x) = m /\ Rank(S, R, y) = n
  BY DEF Rank
<1>. HIDE DEF m, n, q
<1>. QED  BY <1>3, <1>4, <1>5, <1>6

(* In a total order every rank is that of one element.                      *)
LEMMA RankFacts ==
  ASSUME NEW S, IsFiniteSet(S), NEW R, Total(S, R)
  PROVE  /\ \A x \in S : Rank(S, R, x) \in 0 .. Cardinality(S) - 1
         /\ \A x, y \in S : Rank(S, R, x) = Rank(S, R, y) => x = y
         /\ \A i \in 0 .. Cardinality(S) - 1 : \E x \in S : Rank(S, R, x) = i
<1>. DEFINE N == Cardinality(S)
<1>1. N \in Nat
  BY FS_CardinalityType
<1>2. \A x, y \in S : <<x, y>> \in R => Rank(S, R, x) \in Nat /\ Rank(S, R, y) \in Nat /\ Rank(S, R, x) < Rank(S, R, y)
  BY RankGrows
<1>3. ASSUME NEW x \in S
      PROVE  Rank(S, R, x) \in 0 .. N - 1
  <2>. DEFINE a == Earlier(S, R, x)
              m == Cardinality(a)
              q == Cardinality(S \ {x})
  <2>1. a \in SUBSET (S \ {x})
    BY DEF Total, Earlier
  <2>2. IsFiniteSet(S \ {x}) /\ q = N - 1
    BY FS_RemoveElement
  <2>3. IsFiniteSet(a) /\ m <= q
    <3>. HIDE DEF a
    <3>. QED  BY <2>1, <2>2, FS_Subset
  <2>4. m \in Nat
    <3>. HIDE DEF a
    <3>. QED  BY <2>3, FS_CardinalityType
  <2>5. Rank(S, R, x) = m
    BY DEF Rank
  <2>. HIDE DEF m, q, N
  <2>. QED  BY <1>1, <2>2, <2>3, <2>4, <2>5
<1>4. \A x, y \in S : Rank(S, R, x) = Rank(S, R, y) => x = y
  <2>1. \A x, y \in S : x = y \/ <<x, y>> \in R \/ <<y, x>> \in R
    BY DEF Total
  <2>2. ASSUME NEW x \in S, NEW y \in S, Rank(S, R, x) = Rank(S, R, y)
        PROVE  x = y
    <3>1. \A z, w \in S : Rank(S, R, z) \in Nat /\ Rank(S, R, w) \in Nat /\ Rank(S, R, z) < Rank(S, R, w) =>
             Rank(S, R, z) # Rank(S, R, w)
      OBVIOUS
    <3>. QED  BY <1>2, <2>1, <2>2, <3>1
  <2>. QED  BY <2>2
<1>. DEFINE f == [x \in S |-> Rank(S, R, x)]
<1>5. f \in [S -> 0 .. N - 1] /\ \A x \in S : f[x] = Rank(S, R, x)
  BY <1>3
<1>6. IsFiniteSet(0 .. N - 1) /\ Cardinality(0 .. N - 1) = N
  <2>. HIDE DEF N
  <2>1. 0 \in Int /\ N - 1 \in Int
    BY <1>1
  <2>2. IsFiniteSet(0 .. N - 1) /\ Cardinality(0 .. N - 1) = IF 0 > N - 1 THEN 0 ELSE N - 1 - 0 + 1
    BY <2>1, FS_Interval
  <2>. QED  BY <1>1, <2>2
<1>7. f \in Injection(S, 0 .. N - 1)
  <2>. HIDE DEF f
  <2>. QED  BY <1>4, <1>5 DEF Injection, IsInjective
<1>8. f \in Surjection(S, 0 .. N - 1)
  <2>. HIDE DEF f
  <2>. QED  BY <1>6, <1>7, FS_Injection
<1>9. \A i \in 0 .. N - 1 : \E x \in S : f[x] = i
  <2>. HIDE DEF f
  <2>. QED  BY <1>8 DEF Surjection
<1>. QED  BY <1>3, <1>4, <1>5, <1>9

(* The learned clause is its literals, those of the highest levels first. *)
LEMMA DrivingFacts ==
  ASSUME TrailInv(asg), NEW ls \in SUBSET Lits, \A l \in ls : On(asg, -l)
  PROVE  LET r == Driving(ls)
         IN  /\ r \in Seq(Lits) /\ Len(r) = Cardinality(ls) /\ Len(r) \in Nat
             /\ \A i, j \in 1 .. Len(r) : i # j => r[i] # r[j] /\ r[i] # -r[j]
             /\ ToSet(r) = ls
             /\ \A i, j \in 1 .. Len(r) : i < j => LevelIn(asg, r[i]) >= LevelIn(asg, r[j])
<1>. DEFINE R == {w \in ls \X ls : Before(w[1], w[2])}
            N == Cardinality(ls)
            r == Driving(ls)
<1>0. asg \in AsgType /\ \A l \in ls : l \in Lits /\ LevelIn(asg, l) \in Nat
  BY TrailFacts, AsgFacts
<1>0a. \A l, k : Before(l, k) <=> (\/ LevelIn(asg, l) > LevelIn(asg, k)
                                   \/ LevelIn(asg, l) = LevelIn(asg, k) /\ Place(l) > Place(k))
  BY SameState DEF Before
<1>0b. \A l \in ls : Place(l) \in Nat /\ Place(l) \in DOMAIN asg.trail /\ asg.trail[Place(l)] = -l
  <2>1. ASSUME NEW l \in ls
        PROVE  Place(l) \in DOMAIN asg.trail /\ asg.trail[Place(l)] = -l
    <3>1. l \in Lits /\ On(asg, -l)
      OBVIOUS
    <3>2. PICK k \in DOMAIN asg.trail : asg.trail[k] = -l
      BY <1>0, <3>1, AsgFacts
    <3>3. Place(l) = k
      BY <3>1, <3>2, PlaceSpec
    <3>. QED  BY <3>2, <3>3
  <2>. QED  BY <1>0, <2>1, AsgFacts
<1>1. \A x, y \in ls : Place(x) = Place(y) => x = y
  <2>1. \A x \in ls : - -x = x
    BY LitFacts
  <2>. QED  BY <1>0b, <2>1
<1>2. \A x, y : <<x, y>> \in R <=> x \in ls /\ y \in ls /\ Before(x, y)
  OBVIOUS
<1>3. Total(ls, R)
  <2>. HIDE DEF R
  <2>1. \A x \in ls : <<x, x>> \notin R
    BY <1>0, <1>0a, <1>0b, <1>2
  <2>2. \A x, y \in ls : x = y \/ <<x, y>> \in R \/ <<y, x>> \in R
    <3>. SUFFICES ASSUME NEW x \in ls, NEW y \in ls, x # y, ~Before(x, y)
                  PROVE  Before(y, x)
      BY <1>2
    <3>1. Place(x) # Place(y) /\ Place(x) \in Nat /\ Place(y) \in Nat
      BY <1>0b, <1>1
    <3>2. LevelIn(asg, x) \in Nat /\ LevelIn(asg, y) \in Nat
      BY <1>0
    <3>. QED  BY <1>0a, <3>1, <3>2
  <2>3. \A x, y, z \in ls : <<x, y>> \in R /\ <<y, z>> \in R => <<x, z>> \in R
    BY <1>0, <1>0a, <1>0b, <1>2
  <2>. QED  BY <2>1, <2>2, <2>3 DEF Total
<1>4. IsFiniteSet(ls) /\ N \in Nat
  BY LitsFinite, FS_Subset, FS_CardinalityType
<1>. HIDE DEF R
<1>5. /\ \A x \in ls : Rank(ls, R, x) \in 0 .. N - 1
      /\ \A x, y \in ls : Rank(ls, R, x) = Rank(ls, R, y) => x = y
      /\ \A i \in 0 .. N - 1 : \E x \in ls : Rank(ls, R, x) = i
  BY <1>3, <1>4, RankFacts
<1>6. \A l \in ls : Rank(ls, R, l) = Cardinality({k \in ls : Before(k, l)})
  <2>1. ASSUME NEW l \in ls
        PROVE  Earlier(ls, R, l) = {k \in ls : Before(k, l)}
    BY <1>2 DEF Earlier
  <2>. QED  BY <2>1 DEF Rank
<1>7. DOMAIN r = 1 .. N /\ \A i \in 1 .. N : r[i] = CHOOSE l \in ls : Cardinality({k \in ls : Before(k, l)}) = i - 1
  BY DEF Driving
<1>7a. r = [i \in 1 .. N |-> r[i]]
  <2>. DEFINE e(i) == CHOOSE l \in ls : Cardinality({k \in ls : Before(k, l)}) = i - 1
  <2>1. r = [i \in 1 .. N |-> e(i)]
    BY DEF Driving
  <2>. HIDE DEF e, r, N
  <2>. QED  BY <2>1
<1>. HIDE DEF r, N
<1>8. \A i \in 1 .. N : r[i] \in ls /\ Rank(ls, R, r[i]) = i - 1
  <2>. SUFFICES ASSUME NEW i \in 1 .. N
                PROVE  r[i] \in ls /\ Rank(ls, R, r[i]) = i - 1
    OBVIOUS
  <2>1. i - 1 \in 0 .. N - 1
    BY <1>4
  <2>2. \E x \in ls : Cardinality({k \in ls : Before(k, x)}) = i - 1
    BY <1>5, <1>6, <2>1
  <2>3. r[i] \in ls /\ Cardinality({k \in ls : Before(k, r[i])}) = i - 1
    BY <1>7, <2>2
  <2>. QED  BY <1>6, <2>3
<1>9. r \in Seq(Lits) /\ Len(r) = N
  <2>2. \A i \in 1 .. N : r[i] \in Lits
    BY <1>8
  <2>3. r \in [1 .. N -> Lits]
    BY <1>7a, <2>2
  <2>. QED  BY <1>4, <1>7, <2>3
<1>10. \A i, j \in 1 .. N : i # j => r[i] # r[j] /\ r[i] # -r[j]
  <2>. SUFFICES ASSUME NEW i \in 1 .. N, NEW j \in 1 .. N, i # j
                PROVE  r[i] # r[j] /\ r[i] # -r[j]
    OBVIOUS
  <2>1. i - 1 # j - 1
    BY <1>4
  <2>2. r[i] # r[j]
    BY <1>8, <2>1
  <2>3. r[i] # -r[j]
    <3>1. r[i] \in Lits /\ r[j] \in Lits /\ On(asg, -r[i]) /\ On(asg, -r[j])
      BY <1>8
    <3>2. - -r[j] = r[j]
      BY <3>1, LitFacts
    <3>3. ~(On(asg, r[j]) /\ On(asg, -r[j]))
      BY <3>1, TrailFacts
    <3>. QED  BY <3>1, <3>2, <3>3
  <2>. QED  BY <2>2, <2>3
<1>11. ToSet(r) = ls
  <2>1. \A x : x \in ToSet(r) <=> \E i \in 1 .. N : r[i] = x
    BY <1>9, SetFacts
  <2>2. ASSUME NEW x \in ls
        PROVE  \E i \in 1 .. N : r[i] = x
    <3>1. Rank(ls, R, x) + 1 \in 1 .. N /\ Rank(ls, R, x) + 1 - 1 = Rank(ls, R, x)
      BY <1>4, <1>5
    <3>2. r[Rank(ls, R, x) + 1] = x
      BY <1>5, <1>8, <3>1
    <3>. QED  BY <3>1, <3>2
  <2>. QED  BY <1>8, <2>1, <2>2
<1>12. \A i, j \in 1 .. N : i < j => LevelIn(asg, r[i]) >= LevelIn(asg, r[j])
  <2>. SUFFICES ASSUME NEW i \in 1 .. N, NEW j \in 1 .. N, i < j, LevelIn(asg, r[i]) < LevelIn(asg, r[j])
                PROVE  FALSE
    BY <1>0, <1>8
  <2>1. r[i] \in ls /\ r[j] \in ls /\ Before(r[j], r[i])
    BY <1>0, <1>0a, <1>8
  <2>2. <<r[j], r[i]>> \in R
    BY <1>2, <2>1
  <2>3. Rank(ls, R, r[j]) < Rank(ls, R, r[i])
    BY <1>3, <1>4, <2>1, <2>2, RankGrows
  <2>. QED  BY <1>4, <1>8, <2>3
<1>. QED  BY <1>4, <1>9, <1>10, <1>11, <1>12 DEF r, N

(* What the shrunken clause has to offer. *)
Final == Shrunk(resolvent)

(* Its literals in the order in which they are stored.                      *)
LearnedLits == Driving(Final)

(* The clause that is learned: implied, its literals of the levels in       *)
(* descending order, one of the current level first.                        *)
LEMMA LearnFacts ==
  ASSUME SInv, resolvent # {}, Cardinality(OnLevel(resolvent)) = 1
  PROVE  LET r == LearnedLits
         IN  /\ Final \in SUBSET Lits /\ \A l \in Final : On(asg, -l) /\ LevelIn(asg, l) > 0
             /\ Entails(Models, Final)
             /\ r \in Seq(Lits) /\ Len(r) \in Nat /\ Len(r) >= 1 /\ Once(r) /\ ToSet(r) = Final
             /\ r[1] \in Final /\ LevelIn(asg, r[1]) = Lev(asg)
             /\ \A o \in Final \ {r[1]} : LevelIn(asg, o) < Lev(asg) /\ LevelIn(asg, o) \in Nat
             /\ Len(r) = 1 => Final = {r[1]}
             /\ Len(r) # 1 =>
                  /\ Len(r) >= 2 /\ r[2] \in Final /\ r[2] # r[1]
                  /\ \A o \in Final \ {r[1]} : LevelIn(asg, o) <= LevelIn(asg, r[2])
             /\ r[1] \in resolvent /\ OnLevel(resolvent) = {r[1]}
<1>. DEFINE F == Final
            r == LearnedLits
<1>1. /\ Lev(asg) > 0 /\ Lev(asg) \in Nat
      /\ TrailInv(asg) /\ asg \in AsgType /\ ClausesInv(clauses)
      /\ ReasonsInv(clauses, asg, resolvent)
      /\ \A l \in resolvent : l \in Lits /\ On(asg, -l) /\ LevelIn(asg, l) > 0
      /\ MeaningInv(Models, clauses, asg, resolvent) /\ Entails(Models, resolvent)
  BY ResolveState
<1>2. /\ F \in SUBSET Lits
      /\ \A l \in F : On(asg, -l) /\ LevelIn(asg, l) > 0
      /\ OnLevel(F) = OnLevel(resolvent)
      /\ \A m : Meets(m) /\ F \cap m = {} => resolvent \cap m = {}
  <2>1. resolvent \in SUBSET Lits
    BY <1>1
  <2>. QED  BY <1>1, <2>1, ShrunkFacts DEF Final
<1>3. Entails(Models, F)
  <2>1. ASSUME NEW m \in Models
        PROVE  F \cap m # {}
    <3>1. Meets(m)
      BY <1>1, ModelsType DEF Meets, MeaningInv, Entails
    <3>2. resolvent \cap m # {}
      BY <1>1 DEF Entails
    <3>. QED  BY <1>2, <3>1, <3>2
  <2>. QED  BY <2>1 DEF Entails
<1>. HIDE DEF F
<1>4. /\ r \in Seq(Lits) /\ Len(r) \in Nat
      /\ \A i, j \in 1 .. Len(r) : i # j => r[i] # r[j] /\ r[i] # -r[j]
      /\ ToSet(r) = F
      /\ \A i, j \in 1 .. Len(r) : i < j => LevelIn(asg, r[i]) >= LevelIn(asg, r[j])
  <2>1. r = Driving(F)
    BY DEF LearnedLits, F
  <2>. HIDE DEF r
  <2>. QED  BY <1>1, <1>2, <2>1, DrivingFacts
<1>. HIDE DEF r
<1>5. PICK l \in F : OnLevel(F) = {l} /\ LevelIn(asg, l) = Lev(asg)
                       /\ \A o \in F \ {l} : LevelIn(asg, o) < Lev(asg) /\ LevelIn(asg, o) \in Nat
  BY <1>1, <1>2, SoleLiteral
<1>6. \A x : x \in F <=> \E i \in 1 .. Len(r) : r[i] = x
  BY <1>4, SetFacts
<1>7. PICK i \in 1 .. Len(r) : r[i] = l
  BY <1>6
<1>8. Len(r) >= 1 /\ 1 \in 1 .. Len(r) /\ r[1] \in F
  BY <1>4, <1>6
<1>9. r[1] = l
  <2>1. SUFFICES ASSUME r[1] # l
                 PROVE  FALSE
    OBVIOUS
  <2>2. 1 < i
    BY <1>4, <1>7, <1>8, <2>1
  <2>3. LevelIn(asg, r[1]) >= LevelIn(asg, l)
    BY <1>4, <1>7, <1>8, <2>2
  <2>4. LevelIn(asg, r[1]) < Lev(asg) /\ LevelIn(asg, r[1]) \in Nat
    BY <1>5, <1>8, <2>1
  <2>. QED  BY <1>1, <1>5, <2>3, <2>4
<1>10. Len(r) = 1 => F = {r[1]}
  BY <1>4, <1>6, <1>8
<1>11. ASSUME Len(r) # 1
       PROVE  /\ Len(r) >= 2 /\ r[2] \in F /\ r[2] # r[1]
              /\ \A o \in F \ {r[1]} : LevelIn(asg, o) <= LevelIn(asg, r[2])
  <2>1. Len(r) >= 2 /\ 2 \in 1 .. Len(r)
    <3>1. Len(r) \in Nat /\ Len(r) >= 1 /\ Len(r) # 1
      BY <1>4, <1>8, <1>11
    <3>. DEFINE N == Len(r)
    <3>. HIDE DEF N
    <3>2. N >= 2 /\ 2 \in 1 .. N
      BY <3>1 DEF N
    <3>. QED  BY <3>2 DEF N
  <2>2. r[2] \in F /\ r[2] # r[1]
    BY <1>4, <1>6, <1>8, <2>1
  <2>3. ASSUME NEW o \in F \ {r[1]}
        PROVE  LevelIn(asg, o) <= LevelIn(asg, r[2])
    <3>1. PICK j \in 1 .. Len(r) : r[j] = o
      BY <1>6
    <3>2. j # 1
      BY <2>3, <3>1
    <3>3. j = 2 \/ 2 < j
      BY <1>4, <3>2
    <3>4. LevelIn(asg, o) \in Nat
      BY <1>5, <1>9
    <3>5. CASE j = 2
      BY <3>1, <3>4, <3>5
    <3>6. CASE 2 < j
      BY <1>4, <2>1, <3>1, <3>4, <3>6
    <3>. QED  BY <3>3, <3>5, <3>6
  <2>. QED  BY <2>1, <2>2, <2>3
<1>12. r[1] \in resolvent /\ OnLevel(resolvent) = {r[1]}
  <2>1. OnLevel(resolvent) = {r[1]}
    BY <1>2, <1>5, <1>9
  <2>2. OnLevel(resolvent) \subseteq resolvent
    BY DEF OnLevel
  <2>. QED  BY <2>1, <2>2
<1>13. Once(r)
  <2>1. DOMAIN r = 1 .. Len(r)
    BY <1>4
  <2>. QED  BY <1>4, <2>1 DEF Once
<1>. QED  BY <1>2, <1>3, <1>4, <1>5, <1>8, <1>9, <1>10, <1>11, <1>12, <1>13 DEF F, r

(* Learning a unit keeps the invariant.                                     *)
LEMMA LearnUnitInv ==
  ASSUME SInv, resolvent # {}, Cardinality(OnLevel(resolvent)) = 1, Len(LearnedLits) = 1,
         LearnUnit(LearnedLits[1]), conflict' = 0, resolvent' = {},
         UNCHANGED <<input, todo, mode, answer>>
  PROVE  SInv'
<1>. DEFINE l == LearnedLits[1]
            F == Final
<1>1. /\ answer = 0 /\ todo = {} /\ mode = "search" /\ Lev(asg) > 0 /\ Lev(asg) \in Nat
      /\ mode \notin ToSet(Strategies)
      /\ TrailInv(asg) /\ asg \in AsgType /\ ClausesInv(clauses) /\ WatchesInv(clauses, blit)
      /\ ReasonsInv(clauses, asg, resolvent) /\ WatchedInv(clauses, asg, {}, conflict)
      /\ AssumptionsInv(assumptions, asg) /\ assumptions \in Seq(Lits)
      /\ MeaningInv(Models, clauses, asg, resolvent)
  BY ResolveState
<1>2. /\ F \in SUBSET Lits /\ \A o \in F : On(asg, -o)
      /\ Entails(Models, F) /\ F = {l} /\ LevelIn(asg, l) = Lev(asg) /\ l \in F
  BY LearnFacts
<1>3. PICK n \in ActualLevels(0) : asg' = Assign(Backtrack(asg, n), l, 0, {l})
  BY DEF LearnUnit
<1>3a. clauses' = clauses /\ blit' = blit
  BY DEF LearnUnit, db
<1>. HIDE DEF l, F
<1>4. n \in 0 .. Lev(asg) - 1 /\ Asserts(asg, n, F, l)
  <2>1. 0 \in 0 .. Lev(asg) - 1
    BY <1>1
  <2>2. \A o \in F \ {l} : LevelIn(asg, o) <= 0
    BY <1>2
  <2>. QED  BY <1>1, <1>2, <2>1, <2>2, JumpAsserts
<1>5. Models \in SUBSET Assignments
  BY ModelsType
<1>. DEFINE u == Backtrack(asg, n)
            a == Assign(u, l, 0, F)
<1>6. /\ TrailInv(a) /\ a \in AsgType /\ AssumptionsInv(assumptions, a) /\ Lev(a) = n
      /\ WatchedInv(clauses, a, {}, 0)
      /\ MeaningInv(Models, clauses, a, {})
  <2>1. 0 \in Nat /\ F = {l}
    BY <1>2
  <2>. QED  BY <1>1, <1>2, <1>4, <1>5, <2>1, JumpKeeps
<1>7. /\ TrailInv(u) /\ u \in AsgType /\ n \in 0 .. Lev(asg) /\ n # Lev(asg)
      /\ l \in Lits /\ ~On(u, l) /\ ~On(u, -l) /\ Bounded(u, F \ {l})
  BY <1>1, <1>4, JumpCut
<1>8. ReasonsInv(clauses, u, {})
  <2>1. n < Lev(asg)
    BY <1>1, <1>4
  <2>2. \A res : ReasonsInv(clauses, asg, res) /\ (n < Lev(asg) \/ res = {}) => ReasonsInv(clauses, u, {})
    BY <1>1, <1>7, BacktrackKeeps
  <2>. QED  BY <1>1, <2>1, <2>2
<1>. HIDE DEF u
<1>9. ReasonsInv(clauses, a, {})
  <2>. DEFINE q == AssignmentLevel(u, l, F)
              z == IF q = 0 THEN 0 ELSE 0
  <2>1. Grows(u, a, l, q, z)
    BY <1>7, AssignGrows
  <2>2. z = 0
    OBVIOUS
  <2>. HIDE DEF q, z, a
  <2>. QED  BY <1>1, <1>6, <1>7, <1>8, <2>1, <2>2, ReasonsGrow
<1>10. asg' = a
  BY <1>2, <1>3 DEF u
<1>. HIDE DEF a
<1>11. /\ TrailInv(asg') /\ ClausesInv(clauses') /\ WatchesInv(clauses', blit')
       /\ ReasonsInv(clauses', asg', resolvent') /\ WatchedInv(clauses', asg', {}, conflict')
       /\ AssumptionsInv(assumptions, asg') /\ MeaningInv(Models, clauses', asg', resolvent')
  BY <1>1, <1>3a, <1>6, <1>9, <1>10
<1>12. /\ ViolatedInv(clauses', asg', conflict') /\ DerivingInv(asg', {}, conflict', resolvent', answer')
  BY DEF ViolatedInv, DerivingInv
<1>13. mode # "reduce" /\ answer' \in {0, 10, 20} /\ UNCHANGED <<input, mode>> /\ todo' = {}
  BY <1>1
<1>. QED  BY <1>1, <1>11, <1>12, <1>13, AnalysisKeeps

(* The clauses cl2 are cl with the learned clause c, some that it subsumes *)
(* marked as garbage.                                                      *)
Learned(cl, cl2, c, r) ==
  /\ DOMAIN cl2 = DOMAIN cl \cup {c} /\ c \notin DOMAIN cl /\ c \in Nat \ {0}
  /\ cl2[c] = [lits |-> r, redundant |-> TRUE, garbage |-> FALSE]
  /\ \A d \in DOMAIN cl : /\ cl2[d] \in ClauseType /\ cl2[d].lits = cl[d].lits
                          /\ cl2[d].redundant = cl[d].redundant
                          /\ cl[d].garbage => cl2[d].garbage
                          /\ cl2[d].garbage /\ ~cl[d].garbage => cl[d].redundant /\ ToSet(r) \subseteq LS(cl, d)

(* The number of a new clause is not in use.                                *)
LEMMA NewNumber ==
  ASSUME NEW cl, ClausesInv(cl)
  PROVE  Maximum(DOMAIN cl) + 1 \notin DOMAIN cl /\ Maximum(DOMAIN cl) + 1 \in Nat \ {0}
<1>1. DOMAIN cl \in SUBSET Nat /\ IsFiniteSet(DOMAIN cl)
  BY DEF ClausesInv
<1>. DEFINE D == DOMAIN cl
<1>. HIDE DEF D
<1>2. PICK b \in Nat : \A k \in D : k <= b
  BY <1>1, FiniteBound DEF D
<1>3. Maximum(D) \in Nat /\ \A k \in D : k <= Maximum(D)
  BY <1>1, <1>2, MaximumSpec DEF D
<1>4. Maximum(D) + 1 \notin D
  <2>1. SUFFICES ASSUME Maximum(D) + 1 \in D
                 PROVE  FALSE
    OBVIOUS
  <2>2. Maximum(D) + 1 <= Maximum(D)
    BY <1>3, <2>1
  <2>. QED  BY <1>3, <2>2
<1>5. Maximum(D) + 1 \in Nat \ {0}
  BY <1>3
<1>. QED  BY <1>4, <1>5 DEF D

(* What new_learned_redundant_clause does to the clauses and watches.       *)
LEMMA LearnClauseLearned ==
  ASSUME ClausesInv(clauses), NEW r, r \in Seq(Lits), LearnClause(r)
  PROVE  LET c == Maximum(DOMAIN clauses) + 1
         IN  /\ Learned(clauses, clauses', c, r)
             /\ blit' = Watch(Watch(blit, r[1], c, r[2]), r[2], c, r[1])
<1>. DEFINE c == Maximum(DOMAIN clauses) + 1
<1>1. c \notin DOMAIN clauses /\ c \in Nat \ {0}
  BY NewNumber
<1>2. /\ clauses' = [d \in DOMAIN clauses \cup {c} |->
                      IF d = c THEN [lits |-> r, redundant |-> TRUE, garbage |-> FALSE]
                      ELSE EagerlySubsumed(clauses, ToSet(r))[d]]
      /\ blit' = Watch(Watch(blit, r[1], c, r[2]), r[2], c, r[1])
  BY DEF LearnClause
<1>. HIDE DEF c
<1>3. DOMAIN clauses' = DOMAIN clauses \cup {c}
  BY <1>2
<1>4. clauses'[c] = [lits |-> r, redundant |-> TRUE, garbage |-> FALSE]
  BY <1>2
<1>5. ASSUME NEW d \in DOMAIN clauses
      PROVE  /\ clauses'[d] \in ClauseType /\ clauses'[d].lits = clauses[d].lits
             /\ clauses'[d].redundant = clauses[d].redundant
             /\ clauses[d].garbage => clauses'[d].garbage
             /\ clauses'[d].garbage /\ ~clauses[d].garbage => clauses[d].redundant /\ ToSet(r) \subseteq LS(clauses, d)
  <2>1. d # c
    BY <1>1
  <2>2. clauses'[d] = EagerlySubsumed(clauses, ToSet(r))[d]
    BY <1>2, <2>1
  <2>3. EagerlySubsumed(clauses, ToSet(r))[d] =
          IF clauses[d].redundant /\ Recent(clauses, d) /\ ToSet(r) \subseteq ToSet(clauses[d].lits)
          THEN [clauses[d] EXCEPT !.garbage = TRUE] ELSE clauses[d]
    BY DEF EagerlySubsumed
  <2>4. clauses[d] \in ClauseType
    BY ClauseFacts DEF ClauseOK
  <2>5. \A x \in ClauseType : /\ [x EXCEPT !.garbage = TRUE] \in ClauseType
                              /\ [x EXCEPT !.garbage = TRUE].lits = x.lits
                              /\ [x EXCEPT !.garbage = TRUE].redundant = x.redundant
                              /\ [x EXCEPT !.garbage = TRUE].garbage = TRUE
    BY DEF ClauseType
  <2>6. CASE clauses[d].redundant /\ Recent(clauses, d) /\ ToSet(r) \subseteq ToSet(clauses[d].lits)
    <3>1. clauses'[d] = [clauses[d] EXCEPT !.garbage = TRUE]
      BY <2>2, <2>3, <2>6
    <3>2. ToSet(r) \subseteq LS(clauses, d)
      BY <2>6 DEF LS
    <3>. QED  BY <2>4, <2>5, <2>6, <3>1, <3>2
  <2>7. CASE ~(clauses[d].redundant /\ Recent(clauses, d) /\ ToSet(r) \subseteq ToSet(clauses[d].lits))
    <3>1. clauses'[d] = clauses[d]
      BY <2>2, <2>3, <2>7
    <3>. QED  BY <2>4, <3>1
  <2>. QED  BY <2>6, <2>7
<1>6. Learned(clauses, clauses', c, r)
  BY <1>1, <1>3, <1>4, <1>5 DEF Learned
<1>. QED  BY <1>2, <1>6 DEF c

(* The clauses with the new one.                                            *)
LEMMA LearnedFacts ==
  ASSUME NEW cl, ClausesInv(cl), NEW cl2, NEW c, NEW r, Learned(cl, cl2, c, r),
         r \in Seq(Lits), Len(r) >= 2, Once(r)
  PROVE  ClausesInv(cl2) /\ LS(cl2, c) = ToSet(r) /\ cl2[c].lits = r /\ ~cl2[c].garbage /\ cl2[c].redundant
<1>1. LS(cl2, c) = ToSet(r) /\ cl2[c].lits = r /\ ~cl2[c].garbage /\ cl2[c].redundant
  BY DEF Learned, LS
<1>2. IsFiniteSet(DOMAIN cl2) /\ DOMAIN cl2 \subseteq Nat \ {0}
  <2>1. IsFiniteSet(DOMAIN cl) /\ DOMAIN cl \subseteq Nat \ {0}
    BY DEF ClausesInv
  <2>2. IsFiniteSet(DOMAIN cl \cup {c})
    BY <2>1, FS_AddElement
  <2>. QED  BY <2>1, <2>2 DEF Learned
<1>3. ClauseOK(cl2[c])
  <2>1. cl2[c] = [lits |-> r, redundant |-> TRUE, garbage |-> FALSE]
    BY DEF Learned
  <2>2. cl2[c] \in ClauseType
    BY <2>1 DEF ClauseType
  <2>. QED  BY <1>1, <2>2 DEF ClauseOK
<1>4. ASSUME NEW d \in DOMAIN cl
      PROVE  ClauseOK(cl2[d])
  <2>1. ClauseOK(cl[d])
    BY ClauseFacts
  <2>2. cl2[d] \in ClauseType /\ cl2[d].lits = cl[d].lits
    BY DEF Learned
  <2>. QED  BY <2>1, <2>2 DEF ClauseOK
<1>5. DOMAIN cl2 = DOMAIN cl \cup {c}
  BY DEF Learned
<1>. QED  BY <1>1, <1>2, <1>3, <1>4, <1>5 DEF ClausesInv

(* The watches with those of the new clause.                                *)
LEMMA LearnedWatches ==
  ASSUME NEW cl, ClausesInv(cl), NEW b, WatchesInv(cl, b), NEW cl2, NEW c, NEW r, Learned(cl, cl2, c, r),
         r \in Seq(Lits), Len(r) >= 2, Once(r)
  PROVE  WatchesInv(cl2, Watch(Watch(b, r[1], c, r[2]), r[2], c, r[1]))
<1>. DEFINE w1 == <<r[1], c>>
            w2 == <<r[2], c>>
            b1 == Watch(b, r[1], c, r[2])
            b2 == Watch(b1, r[2], c, r[1])
<1>0. r[1] # r[2]
  <2>1. DOMAIN r = 1 .. Len(r) /\ Len(r) \in Nat
    OBVIOUS
  <2>2. 1 \in DOMAIN r /\ 2 \in DOMAIN r
    BY <2>1
  <2>. QED  BY <2>2 DEF Once
<1>1. /\ DOMAIN b1 = DOMAIN b \cup {w1} /\ b1[w1] = r[2]
      /\ \A x \in DOMAIN b : x # w1 => b1[x] = b[x]
  BY DEF Watch
<1>2. /\ DOMAIN b2 = DOMAIN b1 \cup {w2} /\ b2[w2] = r[1]
      /\ \A x \in DOMAIN b1 : x # w2 => b2[x] = b1[x]
  <2>. HIDE DEF b1
  <2>. QED  BY DEF Watch
<1>3. w1[1] = r[1] /\ w1[2] = c /\ w2[1] = r[2] /\ w2[2] = c /\ w1 # w2 /\ w1 = <<w1[1], w1[2]>> /\ w2 = <<w2[1], w2[2]>>
  BY <1>0
<1>4. LS(cl2, c) = ToSet(r) /\ Watches(cl2, c) = {r[1], r[2]} /\ r[1] \in ToSet(r) /\ r[2] \in ToSet(r)
  <2>1. LS(cl2, c) = ToSet(r) /\ cl2[c].lits = r
    BY LearnedFacts
  <2>2. 1 \in 1 .. Len(r) /\ 2 \in 1 .. Len(r)
    OBVIOUS
  <2>3. r[1] \in ToSet(r) /\ r[2] \in ToSet(r)
    BY <2>2, SetFacts
  <2>. QED  BY <2>1, <2>3 DEF Watches
<1>5. c \notin DOMAIN cl /\ DOMAIN cl2 = DOMAIN cl \cup {c}
  BY DEF Learned
<1>6. \A d \in DOMAIN cl : LS(cl2, d) = LS(cl, d) /\ Watches(cl2, d) = Watches(cl, d) /\ (cl[d].garbage => cl2[d].garbage)
  BY DEF Learned, LS, Watches
<1>7. \A w \in DOMAIN b : w = <<w[1], w[2]>> /\ w[2] \in DOMAIN cl /\ w[1] \in Watches(cl, w[2]) /\ b[w] \in LS(cl, w[2]) \ {w[1]}
  BY DEF WatchesInv
<1>7a. \A d \in DOMAIN cl : ~cl[d].garbage => \A l \in Watches(cl, d) : <<l, d>> \in DOMAIN b
  BY DEF WatchesInv
<1>. HIDE DEF w1, w2, b1, b2
<1>8. b2[w1] = r[2]
  BY <1>1, <1>2, <1>3
<1>9. \A w \in DOMAIN b : w # w1 /\ w # w2 /\ b2[w] = b[w]
  <2>1. \A w \in DOMAIN b : w # w1 /\ w # w2
    BY <1>3, <1>5, <1>7
  <2>. QED  BY <1>1, <1>2, <2>1
<1>10. ASSUME NEW w \in DOMAIN b2
       PROVE  /\ w = <<w[1], w[2]>> /\ w[2] \in DOMAIN cl2 /\ w[1] \in Watches(cl2, w[2])
              /\ b2[w] \in LS(cl2, w[2]) \ {w[1]}
  <2>1. CASE w = w1
    <3>1. w[1] = r[1] /\ w[2] = c /\ w = <<w[1], w[2]>>
      BY <1>3, <2>1
    <3>2. b2[w] = r[2]
      BY <1>8, <2>1
    <3>. QED  BY <1>0, <1>4, <1>5, <3>1, <3>2
  <2>2. CASE w = w2
    <3>1. w[1] = r[2] /\ w[2] = c /\ w = <<w[1], w[2]>>
      BY <1>3, <2>2
    <3>2. b2[w] = r[1]
      BY <1>2, <2>2
    <3>. QED  BY <1>0, <1>4, <1>5, <3>1, <3>2
  <2>3. CASE w \in DOMAIN b
    BY <1>5, <1>6, <1>7, <1>9, <2>3
  <2>. QED  BY <1>1, <1>2, <2>1, <2>2, <2>3
<1>11. ASSUME NEW d \in DOMAIN cl2, ~cl2[d].garbage, NEW l \in Watches(cl2, d)
       PROVE  <<l, d>> \in DOMAIN b2
  <2>1. CASE d = c
    <3>1. <<l, d>> = w1 \/ <<l, d>> = w2
      BY <1>4, <1>11, <2>1 DEF w1, w2
    <3>. QED  BY <1>1, <1>2, <3>1
  <2>2. CASE d \in DOMAIN cl
    BY <1>1, <1>2, <1>6, <1>7a, <1>11, <2>2
  <2>. QED  BY <1>5, <2>1, <2>2
<1>12. WatchesInv(cl2, b2)
  BY <1>10, <1>11 DEF WatchesInv
<1>. QED  BY <1>12 DEF b1, b2

(* A clause that is implied changes no meaning, and what it subsumes is     *)
(* redundant.                                                               *)
LEMMA LearnedMeaning ==
  ASSUME NEW M, NEW cl, NEW t, NEW res, MeaningInv(M, cl, t, res), NEW cl2, NEW c, NEW r,
         Learned(cl, cl2, c, r), Entails(M, ToSet(r))
  PROVE  MeaningInv(M, cl2, t, res)
<1>1. DOMAIN cl2 = DOMAIN cl \cup {c} /\ c \notin DOMAIN cl
  BY DEF Learned
<1>2. LS(cl2, c) = ToSet(r) /\ cl2[c].redundant
  BY DEF Learned, LS
<1>3. \A d \in DOMAIN cl : /\ LS(cl2, d) = LS(cl, d) /\ cl2[d].redundant = cl[d].redundant
                           /\ cl[d].garbage => cl2[d].garbage
                           /\ cl2[d].garbage /\ ~cl[d].garbage => cl[d].redundant
  BY DEF Learned, LS
<1>4. KeptIn(cl2) = KeptIn(cl)
  <2>1. ASSUME NEW x \in KeptIn(cl2)
        PROVE  x \in KeptIn(cl)
    <3>1. PICK d \in DOMAIN cl2 : ~cl2[d].redundant /\ ~cl2[d].garbage /\ x = LS(cl2, d)
      BY DEF KeptIn
    <3>2. d \in DOMAIN cl /\ ~cl[d].redundant /\ ~cl[d].garbage /\ x = LS(cl, d)
      BY <1>1, <1>2, <1>3, <3>1
    <3>. QED  BY <3>2 DEF KeptIn
  <2>2. ASSUME NEW x \in KeptIn(cl)
        PROVE  x \in KeptIn(cl2)
    <3>1. PICK d \in DOMAIN cl : ~cl[d].redundant /\ ~cl[d].garbage /\ x = LS(cl, d)
      BY DEF KeptIn
    <3>2. d \in DOMAIN cl2 /\ ~cl2[d].redundant /\ ~cl2[d].garbage /\ x = LS(cl2, d)
      BY <1>1, <1>3, <3>1
    <3>. QED  BY <3>2 DEF KeptIn
  <2>. QED  BY <2>1, <2>2
<1>5. \A d \in DOMAIN cl2 : Entails(M, LS(cl2, d))
  BY <1>1, <1>2, <1>3 DEF MeaningInv
<1>. QED  BY <1>4, <1>5 DEF MeaningInv

(* None of the clauses subsumed is a reason that the analysis relies on:    *)
(* it has the learned clause's literal of the last level, which came before *)
(* the literal that it would have forced.                                   *)
LEMMA LearnedReasons ==
  ASSUME NEW cl, ClausesInv(cl), NEW t, TrailInv(t), NEW res, res # {}, ReasonsInv(cl, t, res),
         NEW cl2, NEW c, NEW r, Learned(cl, cl2, c, r),
         NEW l \in ToSet(r), l \in Lits, On(t, -l), LevelIn(t, l) = Lev(t),
         \A o \in res : LevelIn(t, o) = Lev(t) => o = l
  PROVE  ReasonsInv(cl2, t, res)
<1>. SUFFICES ASSUME NEW k \in DOMAIN t.trail, ReasonIn(t, t.trail[k]) # 0, Relevant(t, res, k)
              PROVE  ReasonOK(cl2, t, k)
  BY DEF ReasonsInv
<1>. DEFINE x == t.trail[k]
            d == ReasonIn(t, x)
<1>1. ReasonOK(cl, t, k)
  BY DEF ReasonsInv
<1>2. Forces(cl, t, x, d, k)
  BY <1>1 DEF ReasonOK
<1>3. d \in DOMAIN cl
  BY <1>2 DEF Forces
<1>4. t \in AsgType /\ k \in Nat /\ Lev(t) \in Nat
  BY TrailFacts, AsgFacts
<1>4a. x \in Lits /\ On(t, x)
  BY <1>4, AsgFacts
<1>5. d \in DOMAIN cl2 /\ cl2[d].lits = cl[d].lits
  BY <1>3 DEF Learned
<1>6. cl2[d].garbage => cl[d].garbage
  <2>1. SUFFICES ASSUME l \in LS(cl, d)
                 PROVE  FALSE
    BY <1>3 DEF Learned
  <2>2. x # l
    BY <1>4a, TrailFacts
  <2>3. LevelIn(t, l) <= LevelIn(t, x) /\ FalseBefore(t, l, k)
    BY <1>2, <2>1, <2>2 DEF Forces
  <2>4. LevelIn(t, x) = Lev(t)
    <3>1. LevelIn(t, x) \in Nat /\ LevelIn(t, x) <= Lev(t)
      BY <1>4, <1>4a, TrailFacts, AsgFacts
    <3>. QED  BY <1>4, <2>3, <3>1
  <2>5. \E j \in DOMAIN t.trail : t.trail[j] = -l /\ k <= j
    BY <1>4, <2>4 DEF Relevant
  <2>6. \E j \in DOMAIN t.trail : t.trail[j] = -l /\ j < k
    BY <2>3 DEF FalseBefore
  <2>7. \A i, j \in DOMAIN t.trail : t.trail[i] = t.trail[j] => i = j
    BY TrailFacts
  <2>8. \A j \in DOMAIN t.trail : j \in Nat
    BY <1>4, AsgFacts
  <2>. QED  BY <1>4, <2>5, <2>6, <2>7, <2>8
<1>. HIDE DEF x, d
<1>7. Forces(cl2, t, x, d, k)
  BY <1>2, <1>5, <1>6, ForcesKept
<1>. QED  BY <1>7 DEF ReasonOK, x, d

(* Learning a clause keeps the invariant.                                   *)
LEMMA LearnClauseInv ==
  ASSUME SInv, resolvent # {}, Cardinality(OnLevel(resolvent)) = 1, Len(LearnedLits) # 1,
         LearnClause(LearnedLits), conflict' = 0, resolvent' = {},
         UNCHANGED <<input, todo, mode, answer>>
  PROVE  SInv'
<1>. DEFINE r == LearnedLits
            l == LearnedLits[1]
            s2 == LearnedLits[2]
            F == Final
            c == Maximum(DOMAIN clauses) + 1
            jump == JumpLevel(LearnedLits)
<1>1. /\ answer = 0 /\ todo = {} /\ mode = "search" /\ Lev(asg) > 0 /\ Lev(asg) \in Nat
      /\ mode \notin ToSet(Strategies)
      /\ TrailInv(asg) /\ asg \in AsgType /\ ClausesInv(clauses) /\ WatchesInv(clauses, blit)
      /\ ReasonsInv(clauses, asg, resolvent) /\ WatchedInv(clauses, asg, {}, conflict)
      /\ AssumptionsInv(assumptions, asg) /\ assumptions \in Seq(Lits)
      /\ MeaningInv(Models, clauses, asg, resolvent)
  BY ResolveState
<1>2. /\ F \in SUBSET Lits /\ \A o \in F : On(asg, -o) /\ LevelIn(asg, o) > 0
      /\ Entails(Models, F) /\ r \in Seq(Lits) /\ Once(r) /\ ToSet(r) = F /\ Len(r) >= 2
      /\ l \in F /\ LevelIn(asg, l) = Lev(asg) /\ s2 \in F /\ s2 # l
      /\ \A o \in F \ {l} : LevelIn(asg, o) < Lev(asg) /\ LevelIn(asg, o) \in Nat
      /\ \A o \in F \ {l} : LevelIn(asg, o) <= LevelIn(asg, s2)
      /\ OnLevel(resolvent) = {l}
  BY LearnFacts
<1>3. PICK n \in ActualLevels(jump) : asg' = Assign(Backtrack(asg, n), l, c, F)
  BY <1>2 DEF LearnClause
<1>4. /\ Learned(clauses, clauses', c, r)
      /\ blit' = Watch(Watch(blit, l, c, s2), s2, c, l)
  BY <1>1, <1>2, LearnClauseLearned
<1>5. jump = LevelIn(asg, s2)
  BY SameState DEF JumpLevel
<1>5a. r[1] = l /\ r[2] = s2
  OBVIOUS
<1>. HIDE DEF r, l, s2, F, c, jump
<1>6. /\ ClausesInv(clauses') /\ LS(clauses', c) = F /\ clauses'[c].lits = r /\ ~clauses'[c].garbage
  BY <1>1, <1>2, <1>4, LearnedFacts
<1>7. WatchesInv(clauses', blit')
  BY <1>1, <1>2, <1>4, <1>5a, LearnedWatches
<1>8. MeaningInv(Models, clauses', asg, resolvent)
  BY <1>1, <1>2, <1>4, LearnedMeaning
<1>9. ReasonsInv(clauses', asg, resolvent)
  <2>1. \A o \in resolvent : LevelIn(asg, o) = Lev(asg) => o = l
    BY <1>2, OnLevelSpec
  <2>2. l \in ToSet(r) /\ l \in Lits /\ On(asg, -l)
    BY <1>2
  <2>. QED  BY <1>1, <1>2, <1>4, <2>1, <2>2, LearnedReasons
<1>10. jump \in 0 .. Lev(asg) - 1 /\ \A o \in F \ {l} : LevelIn(asg, o) <= jump
  BY <1>1, <1>2, <1>5
<1>11. n \in 0 .. Lev(asg) - 1 /\ Asserts(asg, n, F, l)
  BY <1>1, <1>2, <1>10, JumpAsserts
<1>12. c \in Nat /\ c # 0 /\ c \notin DOMAIN clauses /\ DOMAIN clauses' = DOMAIN clauses \cup {c}
  BY <1>4 DEF Learned
<1>13. Models \in SUBSET Assignments
  BY ModelsType
<1>. DEFINE a == Assign(Backtrack(asg, n), l, c, F)
<1>14. /\ TrailInv(a) /\ a \in AsgType /\ AssumptionsInv(assumptions, a) /\ Lev(a) = n
       /\ On(a, l) /\ ~On(a, -l)
       /\ \A o \in F \ {l} : On(a, -o) /\ LevelIn(a, o) = LevelIn(asg, o)
       /\ WatchedInv(clauses, a, {}, 0)
       /\ MeaningInv(Models, clauses', a, {})
  BY <1>1, <1>2, <1>8, <1>11, <1>12, <1>13, JumpKeeps
<1>15. Watches(clauses', c) = {l, s2}
  BY <1>5a, <1>6 DEF Watches
<1>16. ReasonsInv(clauses', a, {})
  <2>1. Watching(clauses', c, F, l)
    BY <1>6, <1>12, <1>15 DEF Watching
  <2>. QED  BY <1>1, <1>6, <1>9, <1>11, <2>1, JumpReason
<1>17. asg' = a
  BY <1>3
<1>. HIDE DEF a
<1>18. WellWatched(F, l, s2, a, Limit(a, 0), Pending(a, {}, c))
  <2>1. Good(a, F, l, Limit(a, 0), Pending(a, {}, c))
    BY <1>14, GoodIfNotFalse
  <2>2. ~(LevelIn(a, s2) = 0)
    <3>1. s2 \in F \ {l} /\ LevelIn(asg, s2) > 0
      BY <1>2
    <3>. QED  BY <1>14, <3>1
  <2>. QED  BY <2>1, <2>2 DEF WellWatched
<1>19. WatchedInv(clauses', a, {}, 0)
  <2>1. WatchedInv(Without(clauses, c), a, {}, 0)
    BY <1>14, WatchedWithout
  <2>2. \A d \in DOMAIN clauses' : d # c => clauses'[d].lits = clauses[d].lits /\ (clauses[d].garbage => clauses'[d].garbage)
    BY <1>4, <1>12 DEF Learned
  <2>3. WellWatched(LS(clauses', c), clauses'[c].lits[1], clauses'[c].lits[2], a, Limit(a, 0), Pending(a, {}, c))
    BY <1>5a, <1>6, <1>18
  <2>. QED  BY <1>12, <2>1, <2>2, <2>3, WatchedWith
<1>20. /\ TrailInv(asg') /\ ClausesInv(clauses') /\ WatchesInv(clauses', blit')
       /\ ReasonsInv(clauses', asg', resolvent') /\ WatchedInv(clauses', asg', {}, conflict')
       /\ AssumptionsInv(assumptions, asg') /\ MeaningInv(Models, clauses', asg', resolvent')
  BY <1>6, <1>7, <1>14, <1>16, <1>17, <1>19
<1>21. /\ ViolatedInv(clauses', asg', conflict') /\ DerivingInv(asg', {}, conflict', resolvent', answer')
  BY DEF ViolatedInv, DerivingInv
<1>22. mode # "reduce" /\ answer' \in {0, 10, 20} /\ UNCHANGED <<input, mode>> /\ todo' = {}
  BY <1>1
<1>. QED  BY <1>1, <1>20, <1>21, <1>22, AnalysisKeeps

(* The last step of analyze keeps the invariant.                            *)
LEMMA LearnInv ==
  ASSUME SInv, Learn
  PROVE  SInv'
<1>1. resolvent # {} /\ Cardinality(OnLevel(resolvent)) = 1 /\ conflict' = 0 /\ resolvent' = {}
      /\ UNCHANGED <<input, todo, mode, answer>>
  BY DEF Learn
<1>2. IF Len(LearnedLits) = 1 THEN LearnUnit(LearnedLits[1]) ELSE LearnClause(LearnedLits)
  BY DEF Learn, LearnedLits, Final
<1>3. CASE Len(LearnedLits) = 1
  BY <1>1, <1>2, <1>3, LearnUnitInv
<1>4. CASE Len(LearnedLits) # 1
  BY <1>1, <1>2, <1>4, LearnClauseInv
<1>. QED  BY <1>3, <1>4

-----------------------------------------------------------------------------
(* Garbage collection.                                                      *)

(* What collecting garbage leaves of a clause, and of the clauses. *)
Slimmed(cl, cl2, t, c) ==
  /\ ClauseOK(cl2[c]) /\ cl2[c].redundant = cl[c].redundant
  /\ Watches(cl2, c) = Watches(cl, c) /\ LS(cl2, c) \subseteq LS(cl, c)
  /\ \A o \in LS(cl, c) \ LS(cl2, c) : -o \in Units(t)
  /\ cl[c].garbage => cl2[c].garbage
  /\ cl2[c].garbage => cl2[c].lits = cl[c].lits
  /\ cl2[c].garbage /\ ~cl[c].garbage => \E l \in LS(cl, c) : l \in Units(t)

(* A clause that is collected: not a reason, and redundant, garbage or      *)
(* satisfied at the root.                                                   *)
Gone(cl, t, c) ==
  /\ \A k \in DOMAIN t.trail : ReasonIn(t, t.trail[k]) # c
  /\ cl[c].redundant \/ cl[c].garbage \/ \E l \in LS(cl, c) : l \in Units(t)

(* cl2 is what garbage collection at the root leaves of cl.                 *)
Collected(cl, cl2, t) ==
  /\ DOMAIN cl2 \subseteq DOMAIN cl
  /\ \A c \in DOMAIN cl2 : Slimmed(cl, cl2, t, c)
  /\ \A c \in DOMAIN cl : c \notin DOMAIN cl2 => Gone(cl, t, c)

(* The clauses after garbage collection.                                    *)
LEMMA CollectedFacts ==
  ASSUME NEW cl, ClausesInv(cl), NEW cl2, NEW t, Collected(cl, cl2, t)
  PROVE  ClausesInv(cl2)
<1>1. IsFiniteSet(DOMAIN cl) /\ DOMAIN cl \subseteq Nat \ {0}
  BY DEF ClausesInv
<1>2. DOMAIN cl2 \in SUBSET DOMAIN cl
  BY DEF Collected
<1>3. IsFiniteSet(DOMAIN cl2)
  BY <1>1, <1>2, FS_Subset
<1>4. \A c \in DOMAIN cl2 : ClauseOK(cl2[c])
  BY DEF Collected, Slimmed
<1>. QED  BY <1>1, <1>2, <1>3, <1>4 DEF ClausesInv

(* No reason is collected, or loses a literal that matters to it.           *)
LEMMA CollectedReasons ==
  ASSUME NEW cl, ClausesInv(cl), NEW cl2, NEW t, TrailInv(t), Collected(cl, cl2, t), ReasonsInv(cl, t, {})
  PROVE  ReasonsInv(cl2, t, {})
<1>. SUFFICES ASSUME NEW k \in DOMAIN t.trail, ReasonIn(t, t.trail[k]) # 0
              PROVE  ReasonOK(cl2, t, k)
  BY DEF ReasonsInv
<1>. DEFINE l == t.trail[k]
            c == ReasonIn(t, l)
<1>1. ReasonOK(cl, t, k)
  BY ReasonAt
<1>2. Forces(cl, t, l, c, k)
  BY <1>1 DEF ReasonOK
<1>3. t \in AsgType /\ l \in Lits /\ On(t, l) /\ LevelIn(t, l) > 0 /\ LevelIn(t, l) \in Nat
  BY TrailFacts, AsgFacts DEF TrailInv, Decisions
<1>4. /\ c \in DOMAIN cl /\ l \in Watches(cl, c)
      /\ cl[c].garbage => Len(cl[c].lits) = 2
      /\ \A o \in LS(cl, c) \ {l} : LevelIn(t, o) <= LevelIn(t, l) /\ FalseBefore(t, o, k)
      /\ \E o \in LS(cl, c) \ {l} : LevelIn(t, o) = LevelIn(t, l)
  BY <1>2 DEF Forces
<1>5. c \in DOMAIN cl2
  BY <1>4 DEF Collected, Gone
<1>6. Slimmed(cl, cl2, t, c)
  BY <1>5 DEF Collected
<1>7. LS(cl, c) \subseteq Lits
  BY <1>4, ClauseFacts
<1>8. \A o \in LS(cl, c) : o \notin Units(t)
  <2>1. l \notin Units(t)
    BY <1>3, UnitsSpec
  <2>2. ASSUME NEW o \in LS(cl, c), o # l
        PROVE  o \notin Units(t)
    <3>1. On(t, -o)
      BY <1>1, <2>2, ForcesFacts
    <3>2. o \in Lits
      BY <1>7
    <3>. QED  BY <3>1, <3>2, TrailFacts, UnitsSpec
  <2>. QED  BY <2>1, <2>2
<1>9. cl2[c].garbage => cl[c].garbage /\ cl2[c].lits = cl[c].lits
  BY <1>6, <1>8 DEF Slimmed
<1>10. l \in Watches(cl2, c) /\ LS(cl2, c) \subseteq LS(cl, c)
  BY <1>4, <1>6 DEF Slimmed
<1>11. \E o \in LS(cl2, c) \ {l} : LevelIn(t, o) = LevelIn(t, l)
  <2>1. PICK o \in LS(cl, c) \ {l} : LevelIn(t, o) = LevelIn(t, l)
    BY <1>4
  <2>2. LevelIn(t, -o) = LevelIn(t, o)
    BY <1>3, <1>7, AsgFacts
  <2>3. -o \notin Units(t)
    BY <1>3, <2>1, <2>2, UnitsSpec
  <2>4. o \in LS(cl2, c)
    BY <1>6, <2>3 DEF Slimmed
  <2>. QED  BY <2>1, <2>4
<1>. HIDE DEF l, c
<1>12. Forces(cl2, t, l, c, k)
  BY <1>4, <1>5, <1>9, <1>10, <1>11 DEF Forces
<1>. QED  BY <1>12 DEF ReasonOK, l, c

(* A clause that a root literal satisfies and a literal that is false at    *)
(* the root say nothing.                                                    *)
LEMMA CollectedMeaning ==
  ASSUME NEW cl, ClausesInv(cl), NEW cl2, NEW t, TrailInv(t), Collected(cl, cl2, t),
         NEW M \in SUBSET Assignments, MeaningInv(M, cl, t, {})
  PROVE  MeaningInv(M, cl2, t, {})
<1>1. \A m \in M : Units(t) \subseteq m
  BY DEF MeaningInv
<1>2. ASSUME NEW m \in Assignments, SatisfiesAll(m, KeptIn(cl2)), Units(t) \subseteq m
      PROVE  m \in M
  <2>1. ASSUME NEW c \in DOMAIN cl, ~cl[c].redundant, ~cl[c].garbage
        PROVE  LS(cl, c) \cap m # {}
    <3>1. CASE \E l \in LS(cl, c) : l \in Units(t)
      BY <1>2, <3>1
    <3>2. CASE ~\E l \in LS(cl, c) : l \in Units(t)
      <4>1. c \in DOMAIN cl2
        BY <2>1, <3>2 DEF Collected, Gone
      <4>2. ~cl2[c].redundant /\ ~cl2[c].garbage /\ LS(cl2, c) \subseteq LS(cl, c)
        BY <2>1, <3>2, <4>1 DEF Collected, Slimmed
      <4>3. LS(cl2, c) \in KeptIn(cl2)
        BY <4>1, <4>2 DEF KeptIn
      <4>4. LS(cl2, c) \cap m # {}
        BY <1>2, <4>3 DEF SatisfiesAll
      <4>. QED  BY <4>2, <4>4
    <3>. QED  BY <3>1, <3>2
  <2>2. SatisfiesAll(m, KeptIn(cl))
    BY <2>1 DEF SatisfiesAll, KeptIn
  <2>. QED  BY <1>2, <2>2 DEF MeaningInv
<1>3. ASSUME NEW c \in DOMAIN cl2
      PROVE  Entails(M, LS(cl2, c))
  <2>1. Slimmed(cl, cl2, t, c) /\ c \in DOMAIN cl
    BY DEF Collected
  <2>2. Entails(M, LS(cl, c))
    BY <2>1 DEF MeaningInv
  <2>3. LS(cl, c) \in SUBSET Lits
    BY <2>1, ClauseFacts
  <2>4. \A o \in LS(cl, c) \ LS(cl2, c) : On(t, -o) /\ LevelIn(t, o) = 0
    <3>1. \A o \in LS(cl, c) \ LS(cl2, c) : On(t, -o) /\ LevelIn(t, -o) = 0
      BY <2>1, UnitsSpec DEF Slimmed
    <3>2. \A o \in Lits : LevelIn(t, -o) = LevelIn(t, o)
      BY TrailFacts, AsgFacts
    <3>. QED  BY <2>3, <3>1, <3>2
  <2>5. LS(cl2, c) \subseteq LS(cl, c)
    BY <2>1 DEF Slimmed
  <2>. QED  BY <1>1, <2>2, <2>3, <2>4, <2>5, EntailedRest
<1>. QED  BY <1>1, <1>2, <1>3 DEF MeaningInv

(* The watches that were right are right after garbage collection.          *)
LEMMA CollectedWatched ==
  ASSUME NEW cl, ClausesInv(cl), NEW cl2, NEW t, TrailInv(t), Collected(cl, cl2, t),
         NEW td, NEW conf, WatchedInv(cl, t, td, conf)
  PROVE  WatchedInv(cl2, t, td, conf)
<1>. SUFFICES ASSUME NEW c \in DOMAIN cl2, ~cl2[c].garbage
              PROVE  WellWatched(LS(cl2, c), cl2[c].lits[1], cl2[c].lits[2], t, Limit(t, conf), Pending(t, td, c))
  BY DEF WatchedInv
<1>. DEFINE a == LS(cl, c)
            b == LS(cl2, c)
            lim == Limit(t, conf)
            skip == Pending(t, td, c)
<1>1. Slimmed(cl, cl2, t, c) /\ c \in DOMAIN cl
  BY DEF Collected
<1>2. WellWatched(a, cl[c].lits[1], cl[c].lits[2], t, lim, skip)
  BY <1>1 DEF WatchedInv, Slimmed
<1>3. ASSUME NEW p, Blocked(t, a, p)
      PROVE  Blocked(t, b, p)
  <2>1. PICK x \in a : On(t, x) /\ (LevelIn(t, x) = 0 \/ t.control[LevelIn(t, x)].trail < p)
    BY <1>3 DEF Blocked
  <2>2. x \in Lits
    BY <1>1, <2>1, ClauseFacts
  <2>3. -x \notin Units(t)
    BY <2>1, <2>2, TrailFacts, UnitsSpec
  <2>4. x \in b
    BY <1>1, <2>3 DEF Slimmed
  <2>. QED  BY <2>1, <2>4 DEF Blocked
<1>4. \A w : Good(t, a, w, lim, skip) => Good(t, b, w, lim, skip)
  BY <1>3 DEF Good
<1>5. {cl2[c].lits[1], cl2[c].lits[2]} = {cl[c].lits[1], cl[c].lits[2]}
  BY <1>1 DEF Slimmed, Watches
<1>. HIDE DEF a, b, lim, skip
<1>6. WellWatched(b, cl2[c].lits[1], cl2[c].lits[2], t, lim, skip)
  <2>1. \/ Good(t, b, cl[c].lits[1], lim, skip) \/ Good(t, b, cl[c].lits[2], lim, skip)
    BY <1>2, <1>4 DEF WellWatched
  <2>2. \A w \in {cl2[c].lits[1], cl2[c].lits[2]} : On(t, -w) /\ LevelIn(t, w) = 0 => Good(t, b, w, lim, skip)
    BY <1>2, <1>4, <1>5 DEF WellWatched
  <2>3. Good(t, b, cl2[c].lits[1], lim, skip) \/ Good(t, b, cl2[c].lits[2], lim, skip)
    BY <1>5, <2>1
  <2>. QED  BY <2>2, <2>3 DEF WellWatched
<1>. QED  BY <1>6 DEF a, b, lim, skip

(* With no unit out of order, a watch that is false at the root belongs to  *)
(* a clause that a unit satisfies.                                          *)
LEMMA RootWatch ==
  ASSUME NEW cl, ClausesInv(cl), NEW t, TrailInv(t), WatchedInv(cl, t, {}, 0), t.propagated = Len(t.trail),
         ~OutOfOrderIn(t), NEW c \in DOMAIN cl, ~cl[c].garbage, NEW w \in Watches(cl, c), -w \in Units(t)
  PROVE  \E l \in LS(cl, c) : l \in Units(t)
<1>1. t \in AsgType /\ DOMAIN t.trail = 1 .. Len(t.trail) /\ Len(t.trail) \in Nat /\ Lev(t) \in Nat
  BY TrailFacts, AsgFacts
<1>2. LS(cl, c) \subseteq Lits /\ w \in LS(cl, c)
  BY ClauseFacts
<1>3. On(t, -w) /\ LevelIn(t, w) = 0
  BY <1>1, <1>2, UnitsSpec, AsgFacts
<1>4. Limit(t, 0) = Len(t.trail) /\ Pending(t, {}, c) = 0
  BY DEF Limit, Pending
<1>5. WellWatched(LS(cl, c), cl[c].lits[1], cl[c].lits[2], t, Len(t.trail), 0)
  BY <1>4 DEF WatchedInv
<1>6. Good(t, LS(cl, c), w, Len(t.trail), 0)
  BY <1>3, <1>5 DEF WellWatched, Watches
<1>7. PICK p \in DOMAIN t.trail : t.trail[p] = -w
  BY <1>1, <1>3, AsgFacts
<1>8. Blocked(t, LS(cl, c), p)
  <2>1. p <= Len(t.trail) /\ p # 0
    BY <1>1
  <2>. QED  BY <1>6, <1>7, <2>1 DEF Good
<1>9. PICK b \in LS(cl, c) : On(t, b) /\ (LevelIn(t, b) = 0 \/ t.control[LevelIn(t, b)].trail < p)
  BY <1>8 DEF Blocked
<1>10. LevelIn(t, b) = 0
  <2>1. SUFFICES ASSUME LevelIn(t, b) # 0
                 PROVE  FALSE
    OBVIOUS
  <2>2. LevelIn(t, b) \in 1 .. Lev(t)
    BY <1>1, <1>2, <1>9, <2>1, TrailFacts, AsgFacts
  <2>3. 1 \in 1 .. Lev(t) /\ 1 <= LevelIn(t, b)
    BY <1>1, <2>2
  <2>4. t.control[1].trail <= t.control[LevelIn(t, b)].trail
    BY <2>2, <2>3, TrailFacts
  <2>5. t.control[1].trail \in Nat /\ t.control[LevelIn(t, b)].trail \in Nat /\ p \in Nat
    <3>1. \A i \in 1 .. Lev(t) : t.control[i].trail \in Nat
      BY <1>1, AsgFacts
    <3>. QED  BY <1>1, <2>2, <2>3, <3>1
  <2>6. p > t.control[1].trail /\ Lev(t) > 0
    BY <1>1, <1>9, <2>1, <2>3, <2>4, <2>5
  <2>7. LevelIn(t, t.trail[p]) = 0
    BY <1>1, <1>2, <1>3, <1>7, AsgFacts
  <2>. QED  BY <2>6, <2>7 DEF OutOfOrderIn
<1>. QED  BY <1>9, <1>10, UnitsSpec

(* A literal that is true at the root level.                                *)
LEMMA RootTrueSpec == \A l : RootTrue(l) <=> l \in Units(asg)
<1>1. \A l : (True(l) <=> On(asg, l)) /\ LevelOf(l) = LevelIn(asg, l)
  BY SameState
<1>2. \A l : l \in Units(asg) <=> On(asg, l) /\ LevelIn(asg, l) = 0
  BY UnitsSpec
<1>. QED  BY <1>1, <1>2 DEF RootTrue

(* remove_falsified_literals, for a clause whose watches are not false at   *)
(* the root.                                                                *)
LEMMA FlushedFacts ==
  ASSUME NEW s \in Seq(Lits), Once(s), Len(s) >= 2, s[1] # s[2], s[1] \in ToSet(s), s[2] \in ToSet(s),
         -s[1] \notin Units(asg), -s[2] \notin Units(asg)
  PROVE  LET r == Flushed(s)
         IN  /\ r \in Seq(Lits) /\ Len(r) >= 2 /\ Once(r)
             /\ ToSet(r) = {l \in ToSet(s) : -l \notin Units(asg)}
             /\ {r[1], r[2]} = {s[1], s[2]}
<1>. DEFINE A == {l \in ToSet(s) : ~RootTrue(-l)}
            q == Restricted(s, A)
<1>1. A = {l \in ToSet(s) : -l \notin Units(asg)}
  BY RootTrueSpec
<1>2. s[1] \in A /\ s[2] \in A /\ A \subseteq ToSet(s)
  BY <1>1
<1>3. Flushed(s) = IF Len(q) < 2 THEN s ELSE q
  BY DEF Flushed
<1>. HIDE DEF A
<1>4. /\ q \in Seq(Lits) /\ Once(q) /\ ToSet(q) = A
      /\ \A x \in {s[1], s[2]} : x \in A /\ Len(s) >= 2 => x = q[1] \/ x = q[2]
  BY <1>2, RestrictedOnce
<1>. HIDE DEF q
<1>5. Len(q) \in Nat /\ \A x : x \in ToSet(q) <=> \E i \in 1 .. Len(q) : q[i] = x
  BY <1>4, SetFacts
<1>6. PICK i \in 1 .. Len(q) : q[i] = s[1]
  BY <1>2, <1>4, <1>5
<1>7. PICK j \in 1 .. Len(q) : q[j] = s[2]
  BY <1>2, <1>4, <1>5
<1>8. Len(q) >= 2
  <2>1. i # j
    BY <1>6, <1>7
  <2>. QED  BY <1>5, <2>1
<1>9. {q[1], q[2]} = {s[1], s[2]}
  <2>1. (s[1] = q[1] \/ s[1] = q[2]) /\ (s[2] = q[1] \/ s[2] = q[2])
    BY <1>2, <1>4
  <2>. QED  BY <2>1
<1>10. Flushed(s) = q
  BY <1>3, <1>5, <1>8
<1>. QED  BY <1>1, <1>4, <1>8, <1>9, <1>10

(* What garbage collection does to one clause.                              *)
Marked(c) ==
  IF \E l \in LitsOf(c) : RootTrue(l)
  THEN [clauses[c] EXCEPT !.garbage = TRUE]
  ELSE [clauses[c] EXCEPT !.lits = IF clauses[c].garbage THEN @ ELSE Flushed(@)]

(* A clause is marked or loses its literals that are false at the root.     *)
LEMMA MarkedSlimmed ==
  ASSUME ClausesInv(clauses), TrailInv(asg), WatchedInv(clauses, asg, {}, 0), asg.propagated = Len(asg.trail),
         ~OutOfOrderIn(asg), NEW c \in DOMAIN clauses, NEW cl2, cl2[c] = Marked(c)
  PROVE  /\ Slimmed(clauses, cl2, asg, c)
         /\ cl2[c].garbage <=> clauses[c].garbage \/ \E l \in LS(clauses, c) : l \in Units(asg)
<1>. DEFINE d == clauses[c]
<1>1. d \in ClauseType /\ ClauseOK(d) /\ d.garbage \in BOOLEAN
  BY ClauseFacts DEF ClauseOK
<1>2. \A l : RootTrue(l) <=> l \in Units(asg)
  BY RootTrueSpec
<1>3. LitsOf(c) = LS(clauses, c)
  BY SameState
<1>4. CASE \E l \in LS(clauses, c) : l \in Units(asg)
  <2>1. cl2[c] = [d EXCEPT !.garbage = TRUE]
    BY <1>2, <1>3, <1>4 DEF Marked
  <2>2. \A x \in ClauseType : /\ [x EXCEPT !.garbage = TRUE] \in ClauseType
                              /\ [x EXCEPT !.garbage = TRUE].lits = x.lits
                              /\ [x EXCEPT !.garbage = TRUE].redundant = x.redundant
                              /\ [x EXCEPT !.garbage = TRUE].garbage = TRUE
    BY DEF ClauseType
  <2>. HIDE DEF d
  <2>3. cl2[c] \in ClauseType /\ cl2[c].lits = d.lits /\ cl2[c].redundant = d.redundant /\ cl2[c].garbage
    BY <1>1, <2>1, <2>2
  <2>4. ClauseOK(cl2[c])
    BY <1>1, <2>3 DEF ClauseOK
  <2>5. Watches(cl2, c) = Watches(clauses, c) /\ LS(cl2, c) = LS(clauses, c)
    BY <2>3 DEF Watches, LS, d
  <2>. QED  BY <1>4, <2>3, <2>4, <2>5 DEF Slimmed, d
<1>5. CASE ~\E l \in LS(clauses, c) : l \in Units(asg)
  <2>1. cl2[c] = [d EXCEPT !.lits = IF d.garbage THEN @ ELSE Flushed(@)]
    BY <1>2, <1>3, <1>5 DEF Marked
  <2>. DEFINE s == IF d.garbage THEN d.lits ELSE Flushed(d.lits)
  <2>2. cl2[c] = [d EXCEPT !.lits = s]
    BY <2>1
  <2>3. \A x \in ClauseType : \A z \in Seq(Lits) :
           /\ [x EXCEPT !.lits = z] \in ClauseType
           /\ [x EXCEPT !.lits = z].lits = z
           /\ [x EXCEPT !.lits = z].redundant = x.redundant
           /\ [x EXCEPT !.lits = z].garbage = x.garbage
    BY DEF ClauseType
  <2>4. CASE d.garbage
    <3>1. s = d.lits /\ s \in Seq(Lits)
      BY <1>1, <2>4 DEF ClauseType
    <3>. HIDE DEF d, s
    <3>2. cl2[c] \in ClauseType /\ cl2[c].lits = d.lits /\ cl2[c].redundant = d.redundant /\ cl2[c].garbage = d.garbage
      BY <1>1, <2>2, <2>3, <3>1
    <3>3. ClauseOK(cl2[c])
      BY <1>1, <3>2 DEF ClauseOK
    <3>4. Watches(cl2, c) = Watches(clauses, c) /\ LS(cl2, c) = LS(clauses, c)
      BY <3>2 DEF Watches, LS, d
    <3>. QED  BY <1>5, <2>4, <3>2, <3>3, <3>4 DEF Slimmed, d
  <2>5. CASE ~d.garbage
    <3>1. /\ d.lits \in Seq(Lits) /\ Once(d.lits) /\ Len(d.lits) >= 2
          /\ d.lits[1] # d.lits[2] /\ d.lits[1] \in ToSet(d.lits) /\ d.lits[2] \in ToSet(d.lits)
      BY <1>1, LitsFacts DEF ClauseOK
    <3>2. \A w \in Watches(clauses, c) : -w \notin Units(asg)
      BY <1>5, <2>5, RootWatch
    <3>3. -d.lits[1] \notin Units(asg) /\ -d.lits[2] \notin Units(asg)
      BY <3>2 DEF Watches
    <3>4. s = Flushed(d.lits)
      BY <2>5
    <3>. HIDE DEF d, s
    <3>5. /\ s \in Seq(Lits) /\ Len(s) >= 2 /\ Once(s)
          /\ ToSet(s) = {l \in ToSet(d.lits) : -l \notin Units(asg)}
          /\ {s[1], s[2]} = {d.lits[1], d.lits[2]}
      BY <3>1, <3>3, <3>4, FlushedFacts
    <3>6. cl2[c] \in ClauseType /\ cl2[c].lits = s /\ cl2[c].redundant = d.redundant /\ cl2[c].garbage = d.garbage
      BY <1>1, <2>2, <2>3, <3>5
    <3>7. ClauseOK(cl2[c])
      BY <3>5, <3>6 DEF ClauseOK
    <3>8. Watches(cl2, c) = Watches(clauses, c)
      BY <3>5, <3>6 DEF Watches, d
    <3>9. LS(cl2, c) = {l \in LS(clauses, c) : -l \notin Units(asg)}
      BY <3>5, <3>6 DEF LS, d
    <3>. QED  BY <1>5, <2>5, <3>6, <3>7, <3>8, <3>9 DEF Slimmed, d
  <2>. QED  BY <1>1, <2>4, <2>5
<1>. QED  BY <1>4, <1>5

(* What garbage collection does to the clauses and watches.                 *)
LEMMA CollectFacts ==
  ASSUME SInv, Collect
  PROVE  /\ Collected(clauses, clauses', asg)
         /\ \A w : w \in DOMAIN blit' <=> w \in DOMAIN blit /\ w[2] \in DOMAIN clauses'
         /\ \A w \in DOMAIN blit' : blit'[w] = Other(clauses'[w[2]].lits, w[1])
<1>1. /\ TrailInv(asg) /\ asg \in AsgType /\ ClausesInv(clauses) /\ resolvent = {} /\ ReasonsInv(clauses, asg, {})
      /\ WatchedInv(clauses, asg, {}, 0) /\ asg.propagated = Len(asg.trail)
      /\ AssumptionsInv(assumptions, asg) /\ assumptions \in Seq(Lits)
      /\ ModeInv(assumptions, asg, {}, 0, {}, mode) /\ Lev(asg) \in Nat
  <2>1. Quiet
    BY DEF Collect
  <2>. QED  BY <2>1, QuietFacts
<1>2. /\ answer = 0 /\ conflict = 0 /\ todo = {} /\ mode = "reduce" /\ mode' = "search"
      /\ UNCHANGED <<input, asg, todo, conflict, resolvent, limits, answer>>
  BY DEF Collect, Quiet
<1>3. ~OutOfOrderIn(asg)
  BY <1>1, <1>2 DEF ModeInv, OutOfOrderIn
<1>. DEFINE marked == [c \in DOMAIN clauses |-> Marked(c)]
            live(c) == ~marked[c].garbage \/ IsReason(c)
            candidates == {c \in DOMAIN clauses : marked[c].redundant /\ ~marked[c].garbage /\ ~IsReason(c)}
<1>4. PICK forgotten \in SUBSET candidates :
        /\ clauses' = [c \in {c \in DOMAIN clauses : live(c)} \ forgotten |-> marked[c]]
        /\ blit' = [w \in {w \in DOMAIN blit : live(w[2]) /\ w[2] \notin forgotten} |->
                      Other(marked[w[2]].lits, w[1])]
  BY DEF Collect, Marked
<1>5. \A c \in DOMAIN clauses : marked[c] = Marked(c)
  OBVIOUS
<1>6. \A c \in DOMAIN clauses :
         /\ Slimmed(clauses, marked, asg, c)
         /\ marked[c].garbage <=> clauses[c].garbage \/ \E l \in LS(clauses, c) : l \in Units(asg)
  <2>. HIDE DEF marked
  <2>. QED  BY <1>1, <1>3, <1>5, MarkedSlimmed
<1>. HIDE DEF marked
<1>7. \A c \in forgotten : c \in DOMAIN clauses /\ marked[c].redundant /\ ~marked[c].garbage /\ ~IsReason(c)
  OBVIOUS
<1>8. /\ \A c : c \in DOMAIN clauses' <=> c \in DOMAIN clauses /\ live(c) /\ c \notin forgotten
      /\ \A c \in DOMAIN clauses' : clauses'[c] = marked[c]
  <2>. HIDE DEF candidates
  <2>. QED  BY <1>4
<1>9. /\ \A w : w \in DOMAIN blit' <=> w \in DOMAIN blit /\ live(w[2]) /\ w[2] \notin forgotten
      /\ \A w \in DOMAIN blit' : blit'[w] = Other(marked[w[2]].lits, w[1])
  <2>. HIDE DEF candidates
  <2>. QED  BY <1>4
<1>10. \A c : IsReason(c) <=> \E k \in DOMAIN asg.trail : ReasonIn(asg, asg.trail[k]) = c
  BY SameState DEF IsReason
<1>11. Collected(clauses, clauses', asg)
  <2>1. DOMAIN clauses' \subseteq DOMAIN clauses
    BY <1>8
  <2>2. ASSUME NEW c \in DOMAIN clauses'
        PROVE  Slimmed(clauses, clauses', asg, c)
    <3>1. clauses'[c] = marked[c] /\ Slimmed(clauses, marked, asg, c)
      BY <1>6, <1>8
    <3>. QED  BY <3>1 DEF Slimmed, LS, Watches
  <2>3. ASSUME NEW c \in DOMAIN clauses, c \notin DOMAIN clauses'
        PROVE  Gone(clauses, asg, c)
    <3>1. CASE ~live(c)
      <4>1. marked[c].garbage /\ ~IsReason(c)
        BY <3>1
      <4>. QED  BY <1>6, <1>10, <4>1 DEF Gone
    <3>2. CASE c \in forgotten
      <4>1. marked[c].redundant /\ ~IsReason(c)
        BY <1>7, <3>2
      <4>2. clauses[c].redundant
        BY <1>6, <4>1 DEF Slimmed
      <4>. QED  BY <1>10, <4>1, <4>2 DEF Gone
    <3>. QED  BY <1>8, <2>3, <3>1, <3>2
  <2>. QED  BY <2>1, <2>2, <2>3 DEF Collected
<1>12. \A w \in DOMAIN blit : w[2] \in DOMAIN clauses
  BY DEF SInv, WatchesInv
<1>13. \A w : w \in DOMAIN blit' <=> w \in DOMAIN blit /\ w[2] \in DOMAIN clauses'
  BY <1>8, <1>9, <1>12
<1>14. \A w \in DOMAIN blit' : blit'[w] = Other(clauses'[w[2]].lits, w[1])
  BY <1>8, <1>9, <1>13
<1>. QED  BY <1>11, <1>13, <1>14

(* Garbage collection keeps the invariant.                                  *)
LEMMA CollectInv ==
  ASSUME SInv, Collect
  PROVE  SInv'
<1>1. /\ TrailInv(asg) /\ asg \in AsgType /\ ClausesInv(clauses) /\ resolvent = {} /\ ReasonsInv(clauses, asg, {})
      /\ WatchedInv(clauses, asg, {}, 0) /\ asg.propagated = Len(asg.trail)
      /\ AssumptionsInv(assumptions, asg) /\ assumptions \in Seq(Lits)
      /\ ModeInv(assumptions, asg, {}, 0, {}, mode) /\ Lev(asg) \in Nat
  <2>1. Quiet
    BY DEF Collect
  <2>. QED  BY <2>1, QuietFacts
<1>2. /\ answer = 0 /\ conflict = 0 /\ todo = {} /\ mode = "reduce" /\ mode' = "search"
      /\ UNCHANGED <<input, asg, todo, conflict, resolvent, limits, answer>>
  BY DEF Collect, Quiet
<1>11. /\ Collected(clauses, clauses', asg)
       /\ \A w : w \in DOMAIN blit' <=> w \in DOMAIN blit /\ w[2] \in DOMAIN clauses'
       /\ \A w \in DOMAIN blit' : blit'[w] = Other(clauses'[w[2]].lits, w[1])
  BY CollectFacts
<1>12. Models \in SUBSET Assignments /\ MeaningInv(Models, clauses, asg, {})
  BY <1>1, ModelsType DEF SInv
<1>13. /\ ClausesInv(clauses') /\ ReasonsInv(clauses', asg, {}) /\ WatchedInv(clauses', asg, {}, 0)
       /\ MeaningInv(Models, clauses', asg, {})
  BY <1>1, <1>11, <1>12, CollectedFacts, CollectedReasons, CollectedWatched, CollectedMeaning
<1>14. WatchesInv(clauses, blit)
  BY DEF SInv
<1>15. WatchesInv(clauses', blit')
  <2>1. ASSUME NEW w \in DOMAIN blit'
        PROVE  /\ w = <<w[1], w[2]>> /\ w[2] \in DOMAIN clauses' /\ w[1] \in Watches(clauses', w[2])
               /\ blit'[w] \in LS(clauses', w[2]) \ {w[1]}
    <3>. DEFINE c == w[2]
                l == w[1]
    <3>1. w \in DOMAIN blit /\ c \in DOMAIN clauses' /\ blit'[w] = Other(clauses'[c].lits, l)
      BY <1>11
    <3>2. w = <<w[1], w[2]>> /\ c \in DOMAIN clauses /\ l \in Watches(clauses, c)
      BY <1>14, <3>1 DEF WatchesInv
    <3>4. Watches(clauses', c) = Watches(clauses, c)
      BY <1>11, <3>1 DEF Collected, Slimmed
    <3>. HIDE DEF c, l
    <3>5. /\ Other(clauses'[c].lits, l) \in Watches(clauses', c) /\ Other(clauses'[c].lits, l) # l
          /\ Watches(clauses', c) \subseteq LS(clauses', c)
      BY <1>13, <3>1, <3>2, <3>4, ClauseFacts
    <3>. QED  BY <3>1, <3>2, <3>4, <3>5 DEF c, l
  <2>2. ASSUME NEW c \in DOMAIN clauses', ~clauses'[c].garbage, NEW l \in Watches(clauses', c)
        PROVE  <<l, c>> \in DOMAIN blit'
    <3>1. Slimmed(clauses, clauses', asg, c) /\ c \in DOMAIN clauses
      BY <1>11 DEF Collected
    <3>2. l \in Watches(clauses, c) /\ ~clauses[c].garbage
      BY <2>2, <3>1 DEF Slimmed
    <3>3. <<l, c>> \in DOMAIN blit
      BY <1>14, <3>1, <3>2 DEF WatchesInv
    <3>. DEFINE w == <<l, c>>
    <3>5. w[2] = c /\ w \in DOMAIN blit
      BY <3>3
    <3>. HIDE DEF w
    <3>6. w \in DOMAIN blit'
      BY <1>11, <3>5
    <3>. QED  BY <3>6 DEF w
  <2>. QED  BY <2>1, <2>2 DEF WatchesInv
<1>16. UNCHANGED input /\ asg' = asg /\ todo' = {} /\ conflict' = 0 /\ resolvent' = {} /\ answer' = 0
  BY <1>1, <1>2
<1>17. Models' = Models /\ InputOK' /\ assumptions' = assumptions
  BY <1>16, SameModels DEF SInv
<1>18. ModeInv(assumptions', asg', todo', conflict', resolvent', mode')
  <2>1. "search" \notin ToSet(Strategies)
    BY ModeFacts
  <2>. QED  BY <1>2, <2>1 DEF ModeInv
<1>19. PendInv(clauses', blit', asg', todo', resolvent', answer')
  BY <1>16 DEF PendInv
<1>20. AheadInv(asg', todo') /\ ViolatedInv(clauses', asg', conflict') /\ DerivingInv(asg', todo', conflict', resolvent', answer')
  BY <1>16 DEF AheadInv, ViolatedInv, DerivingInv
<1>. QED  BY <1>1, <1>13, <1>15, <1>16, <1>17, <1>18, <1>19, <1>20 DEF SInv

-----------------------------------------------------------------------------
(* The inductive invariant.                                                 *)

(* The formula, nothing assigned, satisfies the invariant.                  *)
LEMMA InitInv ==
  ASSUME Init
  PROVE  SInv
<1>1. PICK x \in Inputs : formula = x[1] /\ assumptions = x[2]
  BY DEF Init
<1>2. /\ formula \in Seq(Seq(Lits)) /\ assumptions \in Seq(Lits)
      /\ \A c \in DOMAIN formula :
           /\ Len(formula[c]) >= 2
           /\ \A j, k \in DOMAIN formula[c] : j # k => formula[c][j] \notin {formula[c][k], -formula[c][k]}
  BY <1>1, InputsAssumption
<1>3. /\ clauses = [c \in DOMAIN formula |-> [lits |-> formula[c], redundant |-> FALSE, garbage |-> FALSE]]
      /\ asg = NoAssignment
      /\ todo = {} /\ conflict = 0 /\ resolvent = {}
      /\ mode = (IF assumptions = <<>> THEN "all false" ELSE "search") /\ answer = 0
  BY DEF Init
<1>3a. /\ \A w : w \in DOMAIN blit <=>
                  (w \in Lits \X DOMAIN formula /\ (w[1] = formula[w[2]][1] \/ w[1] = formula[w[2]][2]))
       /\ \A w \in DOMAIN blit : blit[w] = Other(formula[w[2]], w[1])
  <2>. DEFINE W == {w \in Lits \X DOMAIN formula : w[1] \in {formula[w[2]][1], formula[w[2]][2]}}
  <2>1. \A w : w \in W <=> w \in Lits \X DOMAIN formula /\ (w[1] = formula[w[2]][1] \/ w[1] = formula[w[2]][2])
    OBVIOUS
  <2>2. blit = [w \in W |-> Other(formula[w[2]], w[1])]
    BY DEF Init
  <2>. HIDE DEF W
  <2>. QED  BY <2>1, <2>2
<1>4. DOMAIN formula = 1 .. Len(formula) /\ Len(formula) \in Nat /\ \A c \in DOMAIN formula : formula[c] \in Seq(Lits)
  BY <1>2
<1>5. DOMAIN clauses = DOMAIN formula
  BY <1>3
<1>6. \A c \in DOMAIN formula :
        /\ clauses[c].lits = formula[c] /\ clauses[c].redundant = FALSE /\ clauses[c].garbage = FALSE
        /\ clauses[c] = [lits |-> formula[c], redundant |-> FALSE, garbage |-> FALSE]
  BY <1>3
<1>7. \A c \in DOMAIN formula : ClauseOK(clauses[c])
  <2>. SUFFICES ASSUME NEW c \in DOMAIN formula
                PROVE  ClauseOK(clauses[c])
    OBVIOUS
  <2>1. clauses[c] \in ClauseType
    <3>1. formula[c] \in Seq(Lits) /\ clauses[c] = [lits |-> formula[c], redundant |-> FALSE, garbage |-> FALSE]
      BY <1>4, <1>6
    <3>2. \A s \in Seq(Lits) : [lits |-> s, redundant |-> FALSE, garbage |-> FALSE] \in ClauseType
      BY DEF ClauseType
    <3>. QED  BY <3>1, <3>2
  <2>2. Len(clauses[c].lits) >= 2
    BY <1>2, <1>6
  <2>3. Once(formula[c])
    BY <1>2 DEF Once
  <2>. QED  BY <1>6, <2>1, <2>2, <2>3 DEF ClauseOK
<1>8. ClausesInv(clauses)
  <2>1. IsFiniteSet(DOMAIN formula)
    <3>1. 1 \in Int /\ Len(formula) \in Int
      BY <1>4
    <3>. QED  BY <1>4, <3>1, FS_Interval
  <2>2. DOMAIN formula \subseteq Nat \ {0}
    BY <1>4
  <2>. QED  BY <1>5, <1>7, <2>1, <2>2 DEF ClausesInv
<1>9. \A c \in DOMAIN formula : LS(clauses, c) = ToSet(formula[c]) /\ Watches(clauses, c) = {formula[c][1], formula[c][2]}
  BY <1>6 DEF LS, Watches
<1>10. WatchesInv(clauses, blit)
  <2>1. ASSUME NEW w \in DOMAIN blit
        PROVE  /\ w = <<w[1], w[2]>> /\ w[2] \in DOMAIN clauses /\ w[1] \in Watches(clauses, w[2])
               /\ blit[w] \in LS(clauses, w[2]) \ {w[1]}
    <3>. DEFINE c == w[2]
    <3>2. w = <<w[1], w[2]>> /\ c \in DOMAIN formula /\ (w[1] = formula[c][1] \/ w[1] = formula[c][2])
      BY <1>3a
    <3>. HIDE DEF c
    <3>3. blit[w] = Other(formula[c], w[1])
      BY <1>3a DEF c
    <3>4. w[1] \in Watches(clauses, c)
      BY <1>9, <3>2
    <3>5. /\ Other(clauses[c].lits, w[1]) \in Watches(clauses, c) /\ Other(clauses[c].lits, w[1]) # w[1]
          /\ Watches(clauses, c) \subseteq LS(clauses, c)
      BY <1>5, <1>8, <3>2, <3>4, ClauseFacts
    <3>6. clauses[c].lits = formula[c]
      BY <1>6, <3>2
    <3>. QED  BY <1>5, <3>2, <3>3, <3>4, <3>5, <3>6 DEF c
  <2>2. ASSUME NEW c \in DOMAIN clauses, NEW l \in Watches(clauses, c)
        PROVE  <<l, c>> \in DOMAIN blit
    <3>1. (l = formula[c][1] \/ l = formula[c][2]) /\ l \in Lits /\ c \in DOMAIN formula
      BY <1>5, <1>8, <1>9, ClauseFacts
    <3>. DEFINE w == <<l, c>>
    <3>2. w \in Lits \X DOMAIN formula /\ w[1] = l /\ w[2] = c
      BY <3>1
    <3>. HIDE DEF w
    <3>3. w \in DOMAIN blit
      BY <1>3a, <3>1, <3>2
    <3>. QED  BY <3>3 DEF w
  <2>. QED  BY <2>1, <2>2 DEF WatchesInv
<1>11. asg.trail = <<>> /\ asg.control = <<>> /\ asg.propagated = 0 /\ asg.var = [v \in Var |-> Unassigned]
  BY <1>3 DEF NoAssignment
<1>12. asg \in AsgType
  <2>1. [v \in Var |-> Unassigned] \in [Var -> [level : Nat, reason : Nat]]
    BY DEF Unassigned
  <2>2. <<>> \in Seq(Lits) /\ <<>> \in Seq([decision : Int, trail : Nat]) /\ 0 \in Nat
    OBVIOUS
  <2>. QED  BY <1>3, <2>1, <2>2 DEF NoAssignment, AsgType
<1>13. DOMAIN asg.trail = {} /\ DOMAIN asg.control = {} /\ Len(asg.trail) = 0 /\ Lev(asg) = 0
  BY <1>11 DEF Lev
<1>14. TrailInv(asg)
  BY <1>11, <1>12, <1>13 DEF TrailInv, Once, Stacked, Leveled, Decisions
<1>15. ReasonsInv(clauses, asg, resolvent)
  BY <1>13 DEF ReasonsInv
<1>16. WatchedInv(clauses, asg, todo, conflict)
  <2>1. \A ls, w, lim, skip : Good(asg, ls, w, lim, skip)
    BY <1>13 DEF Good
  <2>. QED  BY <2>1 DEF WatchedInv, WellWatched
<1>17. PendInv(clauses, blit, asg, todo, resolvent, answer) /\ AheadInv(asg, todo)
  BY <1>3 DEF PendInv, AheadInv
<1>18. ViolatedInv(clauses, asg, conflict) /\ DerivingInv(asg, todo, conflict, resolvent, answer)
  BY <1>3 DEF ViolatedInv, DerivingInv
<1>19. ModeInv(assumptions, asg, todo, conflict, resolvent, mode)
  <2>1. "search" \notin ToSet(Strategies) /\ "all false" \in ToSet(Strategies)
    <3>1. Strategies[1] = "all false" /\ 1 \in DOMAIN Strategies
      BY DEF Strategies
    <3>. QED  BY <3>1, ModeFacts DEF ToSet
  <2>2. mode \in ToSet(Strategies) => assumptions = <<>>
    BY <1>3, <2>1
  <2>3. mode \in ToSet(Strategies) \cup {"search"} /\ mode # "reduce"
    BY <1>3, <2>1
  <2>. QED  BY <1>3, <1>13, <2>2, <2>3 DEF ModeInv
<1>20. AssumptionsInv(assumptions, asg)
  <2>1. \A i \in 1 .. Len(assumptions) : ~(i <= Lev(asg))
    BY <1>13
  <2>. QED  BY <2>1 DEF AssumptionsInv
<1>21. MeaningInv(Models, clauses, asg, resolvent)
  <2>1. Units(asg) = {}
    BY <1>11, <1>13, SetFacts DEF Units, ToSet
  <2>2. KeptIn(clauses) = Original
    <3>1. {c \in DOMAIN clauses : ~clauses[c].redundant /\ ~clauses[c].garbage} = DOMAIN formula
      BY <1>5, <1>6
    <3>2. KeptIn(clauses) = {LS(clauses, c) : c \in DOMAIN formula}
      BY <3>1 DEF KeptIn
    <3>. QED  BY <1>9, <3>2 DEF Original
  <2>3. \A m : m \in Models <=> m \in Assignments /\ SatisfiesAll(m, Original)
    BY DEF Models, ModelsOf
  <2>4. ASSUME NEW c \in DOMAIN clauses
        PROVE  Entails(Models, LS(clauses, c))
    <3>1. LS(clauses, c) \in Original
      BY <1>5, <1>9 DEF Original
    <3>. QED  BY <2>3, <3>1 DEF Entails, SatisfiesAll
  <2>5. \A m \in Models : Units(asg) \subseteq m
    BY <2>1
  <2>6. \A m \in Assignments : SatisfiesAll(m, KeptIn(clauses)) /\ Units(asg) \subseteq m => m \in Models
    BY <2>2, <2>3
  <2>. QED  BY <1>3, <2>4, <2>5, <2>6 DEF MeaningInv
<1>22. InputOK /\ answer \in {0, 10, 20}
  BY <1>2, <1>3 DEF InputOK
<1>. QED  BY <1>8, <1>10, <1>14, <1>15, <1>16, <1>17, <1>18, <1>19, <1>20, <1>21, <1>22 DEF SInv

(* Every step keeps the invariant.                                          *)
LEMMA NextInv ==
  ASSUME SInv, [Next]_vars
  PROVE  SInv'
<1>1. CASE NextLiteral
  BY <1>1, NextLiteralInv
<1>2. CASE \E c \in todo : Visit(c)
  BY <1>2, VisitInv
<1>3. CASE TryLucky
  BY <1>3, TryLuckyInv
<1>4. CASE Unlucky
  BY <1>4, UnluckyInv
<1>5. CASE BeginAnalysis
  BY <1>5, BeginAnalysisInv
<1>6. CASE Satisfied
  BY <1>6, SatisfiedInv
<1>7. CASE Restart
  BY <1>7, RestartInv
<1>8. CASE Decide
  BY <1>8, DecideInv
<1>9. CASE Reduce
  BY <1>9, ReduceInv
<1>10. CASE Collect
  BY <1>10, CollectInv
<1>11. CASE Resolve
  BY <1>11, ResolveInv
<1>12. CASE Learn
  BY <1>12, LearnInv
<1>13. CASE UNCHANGED vars
  BY <1>13, StutterInv
<1>. QED  BY <1>1, <1>2, <1>3, <1>4, <1>5, <1>6, <1>7, <1>8, <1>9, <1>10, <1>11, <1>12, <1>13
          DEF Next, Advance, Derive

-----------------------------------------------------------------------------
(* The variables of the formula.                                            *)

(* An irredundant clause has no other literals than one before it. *)
Descends(cl, cl2) == \A d \in DOMAIN cl2 : ~cl2[d].redundant =>
  \E e \in DOMAIN cl : ~cl[e].redundant /\ LS(cl2, d) \subseteq LS(cl, e)

(* A clause that lost literals descends from what it was.                   *)
LEMMA DescendsIf ==
  ASSUME NEW cl, NEW cl2, DOMAIN cl2 \subseteq DOMAIN cl,
         \A d \in DOMAIN cl2 : cl2[d].redundant = cl[d].redundant /\ LS(cl2, d) \subseteq LS(cl, d)
  PROVE  Descends(cl, cl2)
BY DEF Descends

(* One clause gets other literals of its own.                               *)
LEMMA RelitDescends ==
  ASSUME NEW cl, ClausesInv(cl), NEW c \in DOMAIN cl, NEW r, ToSet(r) \subseteq LS(cl, c),
         NEW cl2, cl2 = [cl EXCEPT ![c].lits = r]
  PROVE  Descends(cl, cl2)
<1>1. DOMAIN cl2 = DOMAIN cl /\ \A d \in DOMAIN cl : d # c => cl2[d] = cl[d]
  OBVIOUS
<1>2. cl2[c] = [cl[c] EXCEPT !.lits = r]
  OBVIOUS
<1>3. cl[c] \in ClauseType
  BY DEF ClausesInv, ClauseOK
<1>4. cl2[c].lits = r /\ cl2[c].redundant = cl[c].redundant
  BY <1>2, <1>3 DEF ClauseType
<1>5. \A d \in DOMAIN cl2 : cl2[d].redundant = cl[d].redundant /\ LS(cl2, d) \subseteq LS(cl, d)
  BY <1>1, <1>4 DEF LS
<1>. QED  BY <1>1, <1>5, DescendsIf

(* Visiting a watch: the irredundant clauses descend from the ones before.  *)
LEMMA VisitDescends ==
  ASSUME SInv, NEW c, Visit(c)
  PROVE  clauses' = clauses \/ Descends(clauses, clauses')
<1>1. /\ c \in DOMAIN clauses /\ ClausesInv(clauses) /\ Lit \in Watches(clauses, c)
  BY VisitFacts
<1>2. \/ clauses' = clauses
      \/ Replace(c, Other(clauses[c].lits, Lit))
  BY DEF Visit, Skip, VisitBinary, VisitLong, db
<1>3. ASSUME Replace(c, Other(clauses[c].lits, Lit))
      PROVE  \/ clauses' = clauses
             \/ \E k \in 3 .. Len(clauses[c].lits) :
                  clauses' = [clauses EXCEPT ![c].lits = Replaced(clauses[c].lits, Other(clauses[c].lits, Lit), k, Lit)]
  BY <1>3 DEF Replace, Replaced, db
<1>4. ASSUME NEW k \in 3 .. Len(clauses[c].lits),
             clauses' = [clauses EXCEPT ![c].lits = Replaced(clauses[c].lits, Other(clauses[c].lits, Lit), k, Lit)]
      PROVE  Descends(clauses, clauses')
  <2>. DEFINE r == Replaced(clauses[c].lits, Other(clauses[c].lits, Lit), k, Lit)
  <2>1. ClauseOK(clauses[c]) /\ Lit \in {clauses[c].lits[1], clauses[c].lits[2]}
    BY <1>1, ClauseFacts DEF Watches
  <2>2. ToSet(r) = ToSet(clauses[c].lits)
    BY <2>1, ReplacedFacts
  <2>3. clauses' = [clauses EXCEPT ![c].lits = r] /\ ToSet(r) \subseteq LS(clauses, c)
    BY <1>4, <2>2 DEF LS
  <2>. HIDE DEF r
  <2>. QED  BY <1>1, <2>3, RelitDescends
<1>. QED  BY <1>2, <1>3, <1>4

(* The first step of analyze: they do.                                      *)
LEMMA BeginDescends ==
  ASSUME SInv, BeginAnalysis
  PROVE  Descends(clauses, clauses')
<1>1. Rearranged(clauses, clauses')
  BY BeginFacts
<1>. QED  BY <1>1, DescendsIf DEF Rearranged

(* Strengthening on the fly: they do.                                       *)
LEMMA TighterDescends ==
  ASSUME SInv, resolvent # {}, Cardinality(OnLevel(resolvent)) > 1, Otfs, clauses' = Tighter
  PROVE  Descends(clauses, clauses')
<1>. DEFINE c == Cause
            s == Strengthened(Cause, Uip)
            d == [clauses EXCEPT ![c].lits = s]
            T == TakesOver(c, conflict)
            e == [d EXCEPT ![c].redundant = T, ![conflict].garbage = TRUE]
<1>1. /\ c # conflict /\ c \in DOMAIN clauses /\ ToSet(s) = Resolved
  BY OtfsFacts DEF Otfs
<1>2. ClausesInv(clauses) /\ conflict \in DOMAIN clauses
  BY ResolveState DEF Violated
<1>3. Tightened(clauses, clauses', c, s, conflict)
  BY OtfsTightened
<1>4. clauses' = IF Subsumes THEN e ELSE d
  BY DEF Tighter
<1>5. /\ DOMAIN clauses' = DOMAIN clauses
      /\ \A f \in DOMAIN clauses : f # c => LS(clauses', f) = LS(clauses, f) /\ clauses'[f].redundant = clauses[f].redundant
      /\ LS(clauses', c) = ToSet(s) /\ ToSet(s) \subseteq LS(clauses, c)
  BY <1>3 DEF Tightened, LS
<1>6. ~Subsumes => clauses'[c].redundant = clauses[c].redundant
  <2>1. SUFFICES ASSUME ~Subsumes
                 PROVE  clauses'[c].redundant = clauses[c].redundant
    OBVIOUS
  <2>2. clauses[c] \in ClauseType
    BY <1>1, <1>2 DEF ClausesInv, ClauseOK
  <2>. HIDE DEF c, s, T
  <2>3. clauses'[c] = [clauses[c] EXCEPT !.lits = s]
    BY <1>1, <1>4, <2>1
  <2>. QED  BY <2>2, <2>3 DEF ClauseType
<1>7. Subsumes => clauses'[c].redundant = T
  <2>1. SUFFICES ASSUME Subsumes
                 PROVE  clauses'[c].redundant = T
    OBVIOUS
  <2>2. clauses[c] \in ClauseType
    BY <1>1, <1>2 DEF ClausesInv, ClauseOK
  <2>. HIDE DEF c, s, T
  <2>3. d[c] = [clauses[c] EXCEPT !.lits = s] /\ DOMAIN d = DOMAIN clauses
    BY <1>1
  <2>4. d[c] \in [lits : {s}, redundant : BOOLEAN, garbage : BOOLEAN]
    BY <2>2, <2>3 DEF ClauseType
  <2>5. clauses'[c] = [d[c] EXCEPT !.redundant = T]
    <3>. HIDE DEF d
    <3>. QED  BY <1>1, <1>2, <1>4, <2>1, <2>3
  <2>. HIDE DEF d
  <2>. QED  BY <2>4, <2>5
<1>8. T <=> clauses[c].redundant /\ clauses[conflict].redundant
  BY DEF TakesOver
<1>9. Subsumes => Resolved \subseteq LS(clauses, conflict)
  BY SubsumesFacts
<1>. HIDE DEF c, s, T, d, e
<1>10. ASSUME ~clauses'[c].redundant
       PROVE  \E f \in DOMAIN clauses : ~clauses[f].redundant /\ LS(clauses', c) \subseteq LS(clauses, f)
  <2>1. CASE ~clauses[c].redundant
    BY <1>1, <1>5, <2>1
  <2>2. CASE clauses[c].redundant
    <3>1. Subsumes
      BY <1>6, <1>10, <2>2
    <3>2. ~clauses[conflict].redundant
      BY <1>7, <1>8, <1>10, <2>2, <3>1
    <3>. QED  BY <1>1, <1>2, <1>5, <1>9, <3>1, <3>2
  <2>. QED  BY <2>1, <2>2
<1>11. ASSUME NEW f \in DOMAIN clauses, f # c, ~clauses'[f].redundant
       PROVE  ~clauses[f].redundant /\ LS(clauses', f) \subseteq LS(clauses, f)
  BY <1>5, <1>11
<1>. QED  BY <1>5, <1>10, <1>11 DEF Descends

(* A step of the derivation: they do.                                       *)
LEMMA ResolveDescends ==
  ASSUME SInv, Resolve
  PROVE  clauses' = clauses \/ Descends(clauses, clauses')
<1>1. /\ resolvent # {} /\ Cardinality(OnLevel(resolvent)) > 1
  BY DEF Resolve
<1>2. clauses' = clauses \/ (Otfs /\ clauses' = Tighter)
  BY DEF Resolve, Otfs, Tighter, Subsumes, Resolved, Antecedent, Cause, Uip, db
<1>. QED  BY <1>1, <1>2, TighterDescends

(* Learning: they do, what is learned is redundant.                         *)
LEMMA LearnDescends ==
  ASSUME SInv, Learn
  PROVE  clauses' = clauses \/ Descends(clauses, clauses')
<1>1. resolvent # {} /\ Cardinality(OnLevel(resolvent)) = 1
  BY DEF Learn
<1>2. clauses' = clauses \/ LearnClause(LearnedLits)
  BY DEF Learn, LearnUnit, LearnedLits, Final, db
<1>3. ASSUME LearnClause(LearnedLits)
      PROVE  Descends(clauses, clauses')
  <2>. DEFINE r == LearnedLits
              c == Maximum(DOMAIN clauses) + 1
  <2>1. r \in Seq(Lits) /\ ClausesInv(clauses)
    BY <1>1, LearnFacts, ResolveState
  <2>2. Learned(clauses, clauses', c, r)
    BY <1>3, <2>1, LearnClauseLearned
  <2>. HIDE DEF r, c
  <2>3. DOMAIN clauses' = DOMAIN clauses \cup {c} /\ clauses'[c].redundant
    BY <2>2 DEF Learned
  <2>4. \A d \in DOMAIN clauses : clauses'[d].redundant = clauses[d].redundant /\ LS(clauses', d) = LS(clauses, d)
    BY <2>2 DEF Learned, LS
  <2>. QED  BY <2>3, <2>4 DEF Descends
<1>. QED  BY <1>2, <1>3

(* Garbage collection: they do.                                             *)
LEMMA CollectDescends ==
  ASSUME SInv, Collect
  PROVE  Descends(clauses, clauses')
<1>1. Collected(clauses, clauses', asg)
  BY CollectFacts
<1>. QED  BY <1>1, DescendsIf DEF Collected, Slimmed

(* Every step: they do.                                                     *)
LEMMA NextDescends ==
  ASSUME SInv, [Next]_vars
  PROVE  clauses' = clauses \/ Descends(clauses, clauses')
<1>1. CASE NextLiteral
  BY <1>1 DEF NextLiteral, db
<1>2. CASE \E c \in todo : Visit(c)
  BY <1>2, VisitDescends
<1>3. CASE TryLucky
  BY <1>3 DEF TryLucky, db
<1>4. CASE Unlucky
  BY <1>4 DEF Unlucky, db
<1>5. CASE BeginAnalysis
  BY <1>5, BeginDescends
<1>6. CASE Satisfied
  BY <1>6 DEF Satisfied, db
<1>7. CASE Restart
  BY <1>7 DEF Restart, db
<1>8. CASE Decide
  BY <1>8 DEF Decide, db
<1>9. CASE Reduce
  BY <1>9 DEF Reduce, db
<1>10. CASE Collect
  BY <1>10, CollectDescends
<1>11. CASE Resolve
  BY <1>11, ResolveDescends
<1>12. CASE Learn
  BY <1>12, LearnDescends
<1>13. CASE UNCHANGED vars
  BY <1>13 DEF vars, db
<1>. QED  BY <1>1, <1>2, <1>3, <1>4, <1>5, <1>6, <1>7, <1>8, <1>9, <1>10, <1>11, <1>12, <1>13
          DEF Next, Advance, Derive

(* The irredundant clauses speak of variables of the formula. *)
OccursInv == \A c \in DOMAIN clauses : ~clauses[c].redundant => \A l \in LS(clauses, c) : Idx(l) \in Occurring

(* The clauses of the formula have its variables.                           *)
LEMMA InitOccurs ==
  ASSUME Init
  PROVE  OccursInv
<1>1. clauses = [c \in DOMAIN formula |-> [lits |-> formula[c], redundant |-> FALSE, garbage |-> FALSE]]
  BY DEF Init
<1>2. ASSUME NEW c \in DOMAIN clauses, NEW l \in LS(clauses, c)
      PROVE  Idx(l) \in Occurring
  <2>1. c \in DOMAIN formula /\ l \in ToSet(formula[c])
    BY <1>1, <1>2 DEF LS
  <2>. QED  BY <2>1 DEF Occurring
<1>. QED  BY <1>2 DEF OccursInv

(* The input does not change.                                               *)
LEMMA NextFormula ==
  ASSUME [Next]_vars
  PROVE  UNCHANGED input
BY DEF Next, Advance, Derive, vars, NextLiteral, Visit, TryLucky, Unlucky, BeginAnalysis, Satisfied, Restart,
       Decide, Reduce, Collect, Resolve, Learn

(* The irredundant clauses never have other variables.                      *)
LEMMA NextOccurs ==
  ASSUME SInv, OccursInv, [Next]_vars
  PROVE  OccursInv'
<1>1. Occurring' = Occurring
  <2>1. formula' = formula
    BY NextFormula DEF input
  <2>. QED  BY <2>1 DEF Occurring
<1>2. clauses' = clauses \/ Descends(clauses, clauses')
  BY NextDescends
<1>3. ASSUME NEW c \in DOMAIN clauses', ~clauses'[c].redundant, NEW l \in LS(clauses', c)
      PROVE  Idx(l) \in Occurring
  <2>1. PICK e \in DOMAIN clauses : ~clauses[e].redundant /\ LS(clauses', c) \subseteq LS(clauses, e)
    BY <1>2, <1>3 DEF Descends
  <2>. QED  BY <1>3, <2>1 DEF OccursInv
<1>. QED  BY <1>1, <1>3 DEF OccursInv

(* Any assignment of the trail extends to all variables. *)
LEMMA Extension ==
  ASSUME NEW t, TrailInv(t)
  PROVE  \E m \in Assignments : ToSet(t.trail) \subseteq m
<1>. DEFINE T == {v \in Var : On(t, v)}
            m == {IF v \in T THEN v ELSE -v : v \in Var}
<1>1. m \in Assignments
  <2>1. T \in SUBSET Var
    OBVIOUS
  <2>. HIDE DEF T
  <2>. QED  BY <2>1 DEF Assignments
<1>2. ASSUME NEW l \in ToSet(t.trail)
      PROVE  l \in m
  <2>1. On(t, l) /\ l \in Lits /\ ~On(t, -l)
    <3>1. t.trail \in Seq(Lits)
      BY TrailFacts, AsgFacts
    <3>2. l \in Lits /\ On(t, l)
      BY <3>1, SetFacts DEF On
    <3>. QED  BY <3>2, TrailFacts
  <2>2. PICK v \in Var : l = v \/ l = -v
    BY <2>1 DEF Lits
  <2>3. v \in Int
    BY VarAssumption
  <2>4. CASE l = v
    BY <2>1, <2>2, <2>4
  <2>5. CASE l = -v
    <3>1. -l = v
      BY <2>3, <2>5
    <3>2. v \notin T
      BY <2>1, <3>1
    <3>. QED  BY <2>5, <3>2
  <2>. QED  BY <2>2, <2>4, <2>5
<1>. QED  BY <1>1, <1>2

(* A clause that is falsified when propagation has come to rest had a watch *)
(* that was not visited.                                                    *)
LEMMA NoneFalsifiedHolds ==
  ASSUME SInv
  PROVE  NoneFalsified
<1>. SUFFICES ASSUME Quiet, NEW c \in DOMAIN clauses, ~clauses[c].garbage, \A l \in LitsOf(c) : False(l)
              PROVE  FALSE
  BY DEF NoneFalsified
<1>1. /\ TrailInv(asg) /\ asg \in AsgType /\ ClausesInv(clauses)
      /\ WatchedInv(clauses, asg, {}, 0) /\ asg.propagated = Len(asg.trail)
  BY QuietFacts
<1>. DEFINE a == LS(clauses, c)
            w1 == clauses[c].lits[1]
            w2 == clauses[c].lits[2]
<1>2. \A l \in a : On(asg, -l) /\ l \in Lits
  BY <1>1, SameState, ClauseFacts
<1>3. w1 \in a /\ w2 \in a
  BY <1>1, ClauseFacts DEF Watches
<1>4. Limit(asg, 0) = Len(asg.trail) /\ Pending(asg, {}, c) = 0
  BY <1>1 DEF Limit, Pending
<1>5. WellWatched(a, w1, w2, asg, Len(asg.trail), 0)
  BY <1>1, <1>4 DEF WatchedInv
<1>6. PICK w \in a : Good(asg, a, w, Len(asg.trail), 0)
  <2>. HIDE DEF a, w1, w2
  <2>. QED  BY <1>3, <1>5 DEF WellWatched
<1>7. PICK p \in DOMAIN asg.trail : asg.trail[p] = -w
  BY <1>1, <1>2, AsgFacts
<1>8. p <= Len(asg.trail) /\ p # 0
  BY <1>1, AsgFacts
<1>9. Blocked(asg, a, p)
  BY <1>6, <1>7, <1>8 DEF Good
<1>10. PICK b \in a : On(asg, b)
  BY <1>9 DEF Blocked
<1>. QED  BY <1>1, <1>2, <1>10, TrailFacts

-----------------------------------------------------------------------------
(* What the invariant says.                                                 *)

(* The invariant contains the types.                                        *)
LEMMA TypeOKHolds ==
  ASSUME SInv
  PROVE  TypeOK
<1>1. /\ TrailInv(asg) /\ asg \in AsgType /\ ClausesInv(clauses) /\ WatchesInv(clauses, blit)
      /\ ViolatedInv(clauses, asg, conflict) /\ answer \in {0, 10, 20}
      /\ mode \in ToSet(Strategies) \cup {"search", "reduce"}
  BY DEF SInv, TrailInv, ModeInv
<1>2. /\ asg.trail \in Seq(Lits) /\ Len(asg.trail) \in Nat /\ DOMAIN asg.trail = 1 .. Len(asg.trail)
      /\ \A l : On(asg, l) <=> \E k \in DOMAIN asg.trail : asg.trail[k] = l
  BY <1>1, AsgFacts
<1>3. ToSet(asg.trail) \subseteq Lits
  BY <1>2, SetFacts
<1>4. ~Tautology(ToSet(asg.trail))
  <2>1. \A l \in ToSet(asg.trail) : -l \notin ToSet(asg.trail)
    BY <1>1, <1>3, TrailFacts DEF On
  <2>. QED  BY <2>1 DEF Tautology
<1>5. Cardinality(ToSet(asg.trail)) = Len(asg.trail)
  <2>1. \A i, j \in 1 .. Len(asg.trail) : i # j => asg.trail[i] # asg.trail[j]
    BY <1>1, <1>2, TrailFacts
  <2>. QED  BY <1>2, <2>1, OnceCardinality
<1>6. \A c \in DOMAIN clauses : Len(clauses[c].lits) >= 2 /\ LitsOf(c) \subseteq Lits
  BY <1>1, ClauseFacts, SameState
<1>7. ASSUME NEW c \in DOMAIN clauses, ~clauses[c].garbage, NEW l \in LitsOf(c)
      PROVE  <<l, c>> \in DOMAIN blit <=> l \in {clauses[c].lits[1], clauses[c].lits[2]}
  <2>1. CASE <<l, c>> \in DOMAIN blit
    BY <1>1, <2>1, WatchesAt DEF Watches
  <2>2. CASE l \in Watches(clauses, c)
    BY <1>1, <1>7, <2>2 DEF WatchesInv, Watches
  <2>. QED  BY <2>1, <2>2 DEF Watches
<1>8. conflict \in DOMAIN clauses \cup {0}
  BY <1>1 DEF ViolatedInv, Violated
<1>. QED  BY <1>1, <1>3, <1>4, <1>5, <1>6, <1>7, <1>8 DEF TypeOK

(* A reason forces its literal.                                             *)
LEMMA JustifiedHolds ==
  ASSUME SInv, resolvent = {}, NEW k \in DOMAIN asg.trail, ReasonIn(asg, asg.trail[k]) # 0
  PROVE  Justified(k)
<1>. DEFINE l == asg.trail[k]
            c == ReasonIn(asg, l)
            S == {LevelIn(asg, o) : o \in LS(clauses, c) \ {l}}
<1>1. TrailInv(asg) /\ asg \in AsgType /\ ClausesInv(clauses) /\ ReasonsInv(clauses, asg, {})
  BY DEF SInv, TrailInv
<1>2. ReasonOK(clauses, asg, k)
  BY <1>1, ReasonAt
<1>3. /\ c \in DOMAIN clauses /\ l \in LS(clauses, c)
      /\ \A o \in LS(clauses, c) : o # l => On(asg, -o) /\ ~On(asg, o)
  BY <1>1, <1>2, ForcesFacts
<1>4. /\ \A o \in LS(clauses, c) \ {l} : LevelIn(asg, o) <= LevelIn(asg, l) /\ FalseBefore(asg, o, k)
      /\ \E o \in LS(clauses, c) \ {l} : LevelIn(asg, o) = LevelIn(asg, l)
  BY <1>2 DEF ReasonOK, Forces
<1>5. LS(clauses, c) \subseteq Lits /\ l \in Lits
  BY <1>1, <1>3, ClauseFacts
<1>. HIDE DEF c, l
<1>6. ASSUME NEW o \in LS(clauses, c) \ {l}
      PROVE  Place(o) < k
  <2>1. PICK j \in DOMAIN asg.trail : j < k /\ asg.trail[j] = -o
    BY <1>4 DEF FalseBefore
  <2>. QED  BY <1>1, <1>5, <2>1, PlaceSpec
<1>7. LevelIn(asg, l) = Maximum(S)
  <2>1. /\ LevelIn(asg, l) \in Nat /\ \A o \in LS(clauses, c) : LevelIn(asg, o) \in Nat
    BY <1>1, <1>5, AsgFacts
  <2>2. S \in SUBSET Nat
    BY <2>1
  <2>3. \A x \in S : x <= LevelIn(asg, l)
    BY <1>4
  <2>4. LevelIn(asg, l) \in S
    BY <1>4
  <2>. HIDE DEF S
  <2>5. /\ Maximum(S) \in S \cup {0} /\ Maximum(S) \in Nat
        /\ \A x \in S : x <= Maximum(S)
    BY <2>1, <2>2, <2>3, MaximumSpec
  <2>. QED  BY <2>1, <2>3, <2>4, <2>5
<1>8. /\ ReasonOf(asg.trail[k]) = c /\ \A o : LevelOf(o) = LevelIn(asg, o) /\ (False(o) <=> On(asg, -o))
      /\ LitsOf(c) = LS(clauses, c)
  BY SameState DEF c, l
<1>9. {LevelOf(o) : o \in LitsOf(c) \ {l}} = S
  BY <1>8 DEF S
<1>10. \A o \in LS(clauses, c) \ {l} : On(asg, -o) /\ Place(o) < k
  BY <1>3, <1>6
<1>. HIDE DEF S
<1>11. asg.trail[k] = l
  BY DEF l
<1>. QED  BY <1>3, <1>7, <1>8, <1>9, <1>10, <1>11 DEF Justified

(* The invariant contains TrailSound.                                       *)
LEMMA TrailSoundHolds ==
  ASSUME SInv
  PROVE  TrailSound
<1>1. TrailInv(asg)
  BY DEF SInv
<1>2. ASSUME NEW k \in DOMAIN asg.trail
      PROVE  LET l == asg.trail[k]
             IN  /\ LevelOf(l) > 0 => k > asg.control[LevelOf(l)].trail
                 /\ LevelOf(l) > 0 /\ ReasonOf(l) = 0 =>
                      asg.control[LevelOf(l)] = [decision |-> l, trail |-> k - 1]
                 /\ ReasonOf(l) # 0 /\ resolvent = {} => Justified(k)
  <2>1. /\ LevelOf(asg.trail[k]) = LevelIn(asg, asg.trail[k])
        /\ ReasonOf(asg.trail[k]) = ReasonIn(asg, asg.trail[k])
    BY SameState
  <2>2. LevelIn(asg, asg.trail[k]) > 0 => k > asg.control[LevelIn(asg, asg.trail[k])].trail
    BY <1>1, TrailFacts
  <2>3. LevelIn(asg, asg.trail[k]) > 0 /\ ReasonIn(asg, asg.trail[k]) = 0 =>
          asg.control[LevelIn(asg, asg.trail[k])] = [decision |-> asg.trail[k], trail |-> k - 1]
    BY <1>1 DEF TrailInv, Decisions, Decision
  <2>4. ReasonIn(asg, asg.trail[k]) # 0 /\ resolvent = {} => Justified(k)
    BY JustifiedHolds
  <2>. QED  BY <2>1, <2>2, <2>3, <2>4
<1>. QED  BY <1>2, TypeOKHolds DEF TrailSound

(* The invariant contains FormulaKept.                                      *)
LEMMA FormulaKeptHolds ==
  ASSUME SInv
  PROVE  FormulaKept
<1>1. MeaningInv(Models, clauses, asg, resolvent) /\ TrailInv(asg) /\ Models \in SUBSET Assignments
      /\ DerivingInv(asg, todo, conflict, resolvent, answer)
  BY ModelsType DEF SInv
<1>2. /\ \A m \in Models : Units(asg) \subseteq m
      /\ \A m \in Assignments : SatisfiesAll(m, KeptIn(clauses)) /\ Units(asg) \subseteq m => m \in Models
      /\ \A c \in DOMAIN clauses : Entails(Models, LS(clauses, c))
      /\ resolvent # {} => Entails(Models, resolvent)
  BY <1>1 DEF MeaningInv
<1>3. Kept = KeptIn(clauses) /\ Units0 = Units(asg)
  BY SameState DEF Kept, KeptIn
<1>4. \A m \in Models : SatisfiesAll(m, KeptIn(clauses))
  <2>1. ASSUME NEW m \in Models, NEW ls \in KeptIn(clauses)
        PROVE  ls \cap m # {}
    <3>1. PICK c \in DOMAIN clauses : ls = LS(clauses, c)
      BY <2>1 DEF KeptIn
    <3>. QED  BY <1>2, <3>1 DEF Entails
  <2>. QED  BY <2>1 DEF SatisfiesAll
<1>5. ModelsOf(Kept, Units0) = Models
  <2>1. \A m : m \in ModelsOf(KeptIn(clauses), Units(asg)) <=>
               m \in Assignments /\ Units(asg) \subseteq m /\ SatisfiesAll(m, KeptIn(clauses))
    BY DEF ModelsOf
  <2>2. \A m : m \in ModelsOf(KeptIn(clauses), Units(asg)) <=> m \in Models
    BY <1>1, <1>2, <1>4, <2>1
  <2>. QED  BY <1>3, <2>2 DEF ModelsOf, Models
<1>6. \A c \in DOMAIN clauses : \A m \in Models : LitsOf(c) \cap m # {}
  BY <1>2, SameState DEF Entails
<1>7. resolvent # {} => \A m \in Models : (resolvent \cup {-l : l \in Units0}) \cap m # {}
  BY <1>2 DEF Entails
<1>. QED  BY <1>5, <1>6, <1>7 DEF FormulaKept, Models

(* The literals of the input. *)
LEMMA OriginalLits ==
  ASSUME InputOK, NEW ls \in Original
  PROVE  \A l \in ls : l \in Lits /\ Idx(l) \in Occurring
<1>1. PICK c \in DOMAIN formula : ls = ToSet(formula[c])
  BY DEF Original
<1>2. formula[c] \in Seq(Lits)
  BY DEF InputOK
<1>3. ls \subseteq Lits
  BY <1>1, <1>2, SetFacts
<1>4. \A l \in ls : Idx(l) \in Occurring
  BY <1>1 DEF Occurring
<1>. QED  BY <1>3, <1>4

(* At rest the trail is a model when it leaves no variable of the formula free. *)
LEMMA TrailSatisfies ==
  ASSUME SInv, OccursInv, Quiet, \A v \in Occurring : ~Free(v)
  PROVE  SatisfiesAll(ToSet(asg.trail), Original)
<1>1. /\ TrailInv(asg) /\ ClausesInv(clauses) /\ MeaningInv(Models, clauses, asg, resolvent) /\ InputOK
  BY DEF SInv
<1>2. PICK m \in Assignments : ToSet(asg.trail) \subseteq m
  BY <1>1, Extension
<1>3. ASSUME NEW l \in Lits, Idx(l) \in Occurring
      PROVE  On(asg, l) \/ On(asg, -l)
  <2>1. On(asg, Idx(l)) \/ On(asg, -Idx(l))
    BY <1>3, SameState DEF Free
  <2>2. Idx(l) = l \/ (Idx(l) = -l /\ -Idx(l) = l)
    BY <1>3, LitFacts DEF Idx
  <2>. QED  BY <2>1, <2>2, <1>3, LitFacts
<1>4. \A l : On(asg, l) => l \in m
  BY <1>2 DEF On
<1>5. ASSUME NEW ls \in KeptIn(clauses)
      PROVE  ls \cap m # {}
  <2>1. PICK c \in DOMAIN clauses : ~clauses[c].redundant /\ ~clauses[c].garbage /\ ls = LS(clauses, c)
    BY DEF KeptIn
  <2>2. PICK l \in ls : ~On(asg, -l)
    BY <2>1, NoneFalsifiedHolds, SameState DEF NoneFalsified
  <2>3. l \in Lits /\ Idx(l) \in Occurring
    BY <1>1, <2>1, ClauseFacts DEF OccursInv
  <2>. QED  BY <1>3, <1>4, <2>2, <2>3
<1>6. m \in Models
  <2>1. SatisfiesAll(m, KeptIn(clauses))
    BY <1>5 DEF SatisfiesAll
  <2>2. Units(asg) \subseteq m
    BY <1>2 DEF Units
  <2>. QED  BY <1>1, <2>1, <2>2 DEF MeaningInv
<1>7. ASSUME NEW ls \in Original
      PROVE  ls \cap ToSet(asg.trail) # {}
  <2>1. PICK l \in ls : l \in m
    BY <1>6, <1>7 DEF Models, ModelsOf, SatisfiesAll
  <2>2. l \in Lits /\ Idx(l) \in Occurring
    BY <1>1, <1>7, OriginalLits
  <2>3. ~On(asg, -l)
    BY <1>4, <2>1, <2>2, AssignmentFacts
  <2>4. On(asg, l)
    BY <1>3, <2>2, <2>3
  <2>. QED  BY <2>4 DEF On
<1>. QED  BY <1>7 DEF SatisfiesAll

(* A clause that is false at the root leaves no model. *)
LEMMA RootConflict ==
  ASSUME SInv, BeginAnalysis, ConflictLevel(conflict) = 0
  PROVE  Models = {}
<1>1. Violated(clauses, asg, conflict) /\ conflict \in DOMAIN clauses /\ TrailInv(asg) /\ ClausesInv(clauses)
  BY BeginFacts
<1>2. MeaningInv(Models, clauses, asg, resolvent)
  BY DEF SInv
<1>3. \A l \in LS(clauses, conflict) : On(asg, -l) /\ l \in Lits
  BY <1>1, ClauseFacts DEF Violated
<1>4. \A l \in LS(clauses, conflict) : LevelIn(asg, l) \in Nat /\ LevelIn(asg, l) <= 0
  BY <1>1, <1>3, ConflictLevelFacts
<1>5. \A l \in LS(clauses, conflict) : -l \in Units(asg)
  <2>. SUFFICES ASSUME NEW l \in LS(clauses, conflict) PROVE -l \in Units(asg)
    OBVIOUS
  <2>1. LevelIn(asg, l) = 0
    BY <1>4
  <2>2. LevelIn(asg, -l) = 0
    BY <1>1, <1>3, <2>1, TrailFacts, AsgFacts
  <2>. QED  BY <1>3, <2>2, UnitsSpec
<1>6. ASSUME NEW m \in Models
      PROVE  FALSE
  <2>1. PICK l \in LS(clauses, conflict) : l \in m
    BY <1>1, <1>2, <1>6 DEF MeaningInv, Entails
  <2>2. -l \in m
    BY <1>2, <1>5, <1>6, <2>1 DEF MeaningInv
  <2>3. m \in Assignments
    BY <1>6, ModelsType
  <2>. QED  BY <1>3, <2>1, <2>2, <2>3, AssignmentFacts
<1>. QED  BY <1>6

(* On the levels of the assumptions all that is on the trail follows from *)
(* the formula and the assumptions.                                       *)
LEMMA TrailFollows ==
  ASSUME SInv, resolvent = {}, Lev(asg) <= Len(assumptions),
         NEW m \in Models, ToSet(assumptions) \subseteq m
  PROVE  ToSet(asg.trail) \subseteq m
<1>1. /\ TrailInv(asg) /\ asg \in AsgType /\ ClausesInv(clauses) /\ ReasonsInv(clauses, asg, {})
      /\ MeaningInv(Models, clauses, asg, resolvent) /\ AssumptionsInv(assumptions, asg)
      /\ assumptions \in Seq(Lits)
  BY DEF SInv, TrailInv, InputOK
<1>2. /\ \A x \in Models : Units(asg) \subseteq x
      /\ \A c \in DOMAIN clauses : Entails(Models, LS(clauses, c))
  BY <1>1 DEF MeaningInv
<1>3. m \in Assignments
  BY ModelsType
<1>4. /\ DOMAIN asg.trail = 1 .. Len(asg.trail) /\ Len(asg.trail) \in Nat
      /\ \A k \in DOMAIN asg.trail : asg.trail[k] \in Lits
      /\ \A l : On(asg, l) <=> \E k \in DOMAIN asg.trail : asg.trail[k] = l
  BY <1>1, AsgFacts
<1>. DEFINE bad == {k \in DOMAIN asg.trail : asg.trail[k] \notin m}
<1>5. SUFFICES bad = {}
  BY <1>4 DEF On
<1>6. SUFFICES ASSUME bad # {} PROVE FALSE
  OBVIOUS
<1>7. bad \in SUBSET Nat
  BY <1>4
<1>8. PICK k \in bad : \A j \in bad : k <= j
  <2>. HIDE DEF bad
  <2>. QED  BY <1>6, <1>7, LeastNat
<1>9. \A j \in DOMAIN asg.trail : j < k => asg.trail[j] \in m
  BY <1>4, <1>8
<1>10. k \in DOMAIN asg.trail /\ asg.trail[k] \notin m /\ asg.trail[k] \in Lits
  BY <1>4, <1>8
<1>. HIDE DEF bad
<1>11. LevelIn(asg, asg.trail[k]) \in Nat /\ LevelIn(asg, asg.trail[k]) <= Lev(asg) /\ Lev(asg) \in Nat
  BY <1>1, <1>10, AsgFacts, TrailFacts
<1>12. CASE LevelIn(asg, asg.trail[k]) = 0
  <2>1. asg.trail[k] \in Units(asg)
    BY <1>4, <1>10, <1>12, UnitsSpec
  <2>. QED  BY <1>2, <1>10, <2>1
<1>13. CASE ReasonIn(asg, asg.trail[k]) # 0
  <2>1. ReasonOK(clauses, asg, k)
    BY <1>1, <1>10, <1>13, ReasonAt
  <2>. DEFINE c == ReasonIn(asg, asg.trail[k])
  <2>2. /\ c \in DOMAIN clauses
        /\ \A o \in LS(clauses, c) \ {asg.trail[k]} : FalseBefore(asg, o, k)
    BY <2>1 DEF ReasonOK, Forces
  <2>. HIDE DEF c
  <2>3. PICK o \in LS(clauses, c) : o \in m
    BY <1>2, <2>2 DEF Entails
  <2>4. o # asg.trail[k] /\ o \in Lits
    BY <1>1, <1>10, <2>2, <2>3, ClauseFacts
  <2>5. PICK j \in DOMAIN asg.trail : j < k /\ asg.trail[j] = -o
    BY <2>2, <2>3, <2>4 DEF FalseBefore
  <2>6. -o \in m
    BY <1>9, <2>5
  <2>. QED  BY <1>3, <2>3, <2>4, <2>6, AssignmentFacts
<1>14. CASE LevelIn(asg, asg.trail[k]) # 0 /\ ReasonIn(asg, asg.trail[k]) = 0
  <2>. DEFINE i == LevelIn(asg, asg.trail[k])
  <2>0. Decision(asg, k)
    <3>1. Decisions(asg)
      BY <1>1 DEF TrailInv
    <3>2. LevelIn(asg, asg.trail[k]) > 0 /\ ReasonIn(asg, asg.trail[k]) = 0
      BY <1>11, <1>14
    <3>. QED  BY <1>10, <3>1, <3>2 DEF Decisions
  <2>1. asg.control[i].decision = asg.trail[k]
    BY <2>0 DEF Decision
  <2>2. i \in 1 .. Len(assumptions) /\ i <= Lev(asg) /\ Len(assumptions) \in Nat
    BY <1>1, <1>11, <1>14
  <2>. HIDE DEF i
  <2>3. asg.control[i].decision \in {0, assumptions[i]}
    BY <1>1, <2>2 DEF AssumptionsInv
  <2>4. asg.trail[k] = assumptions[i]
    BY <1>10, <2>1, <2>3, LitFacts
  <2>5. assumptions[i] \in ToSet(assumptions)
    BY <1>1, <2>2, SetFacts
  <2>. QED  BY <1>10, <2>4, <2>5
<1>. QED  BY <1>12, <1>13, <1>14

(* Without a model there is none for the assumptions.                       *)
LEMMA RefutedSpec ==
  ASSUME SInv, Models = {}
  PROVE  ModelsOf(Original, ToSet(assumptions)) = {}
BY DEF Models, ModelsOf

(* An assumption that is false when its turn comes contradicts the formula  *)
(* and the assumptions before it.                                           *)
LEMMA AssumptionRefuted ==
  ASSUME SInv, resolvent = {}, Lev(asg) < Len(assumptions), On(asg, -assumptions[Lev(asg) + 1])
  PROVE  ModelsOf(Original, ToSet(assumptions)) = {}
<1>1. TrailInv(asg) /\ asg \in AsgType /\ assumptions \in Seq(Lits)
  BY DEF SInv, TrailInv, InputOK
<1>2. Lev(asg) \in Nat /\ Len(assumptions) \in Nat
  BY <1>1, AsgFacts
<1>. DEFINE a == assumptions[Lev(asg) + 1]
<1>3. a \in ToSet(assumptions) /\ a \in Lits
  BY <1>1, <1>2, SetFacts
<1>4. ASSUME NEW m \in ModelsOf(Original, ToSet(assumptions))
      PROVE  FALSE
  <2>1. m \in Models /\ ToSet(assumptions) \subseteq m /\ m \in Assignments
    BY <1>4 DEF Models, ModelsOf
  <2>2. ToSet(asg.trail) \subseteq m
    BY <1>2, <2>1, TrailFollows
  <2>3. -a \in m /\ a \in m
    BY <1>3, <2>1, <2>2 DEF On
  <2>. HIDE DEF a
  <2>. QED  BY <1>3, <2>1, <2>3, AssignmentFacts
<1>. QED  BY <1>4

(* What the answer is about does not change.                                *)
LEMMA SameAnswer ==
  ASSUME UNCHANGED input
  PROVE  Original' = Original /\ assumptions' = assumptions
BY DEF input, Original

(* A trail with all variables of the formula, at rest, is a model.          *)
LEMMA FoundCorrect ==
  ASSUME SInv, OccursInv, Quiet, UNCHANGED <<input, asg>>, answer' = 10,
         \A v \in Occurring : ~Free(v), ToSet(assumptions) \subseteq ToSet(asg.trail)
  PROVE  AnswerCorrect'
<1>1. Original' = Original /\ assumptions' = assumptions /\ asg' = asg
  BY SameAnswer
<1>2. SatisfiesAll(ToSet(asg.trail), Original)
  BY TrailSatisfies
<1>. QED  BY <1>1, <1>2 DEF AnswerCorrect

(* The answer 20 is right when there is no model.                           *)
LEMMA RefutedCorrect ==
  ASSUME UNCHANGED input, answer' = 20, ModelsOf(Original, ToSet(assumptions)) = {}
  PROVE  AnswerCorrect'
<1>1. Original' = Original /\ assumptions' = assumptions
  BY SameAnswer
<1>2. ModelsOf(Original, ToSet(assumptions))' = ModelsOf(Original, ToSet(assumptions))
  BY <1>1 DEF ModelsOf
<1>. QED  BY <1>2 DEF AnswerCorrect

(* Nothing is claimed as long as there is no answer.                        *)
LEMMA OpenCorrect == answer' = 0 => AnswerCorrect'
BY DEF AnswerCorrect

(* A lucky answer is right.                                                 *)
LEMMA TryLuckyCorrect ==
  ASSUME SInv, OccursInv, TryLucky
  PROVE  AnswerCorrect'
<1>1. Quiet /\ answer = 0 /\ mode \in ToSet(Strategies) /\ UNCHANGED input
  BY DEF TryLucky, Quiet, Lucky
<1>2. CASE Open = {}
  <2>1. answer' = 10 /\ UNCHANGED asg
    BY <1>2 DEF TryLucky
  <2>2. \A v \in Occurring : ~Free(v)
    BY <1>2 DEF Open
  <2>3. assumptions = <<>>
    BY <1>1 DEF SInv, ModeInv
  <2>4. ToSet(assumptions) \subseteq ToSet(asg.trail)
    <3>1. assumptions \in Seq(Lits) /\ Len(assumptions) = 0
      BY <2>3 DEF SInv, InputOK
    <3>2. \A l : l \in ToSet(assumptions) <=> \E i \in 1 .. Len(assumptions) : assumptions[i] = l
      BY <3>1, SetFacts
    <3>3. \A l : l \notin ToSet(assumptions)
      BY <3>1, <3>2
    <3>. QED  BY <3>3
  <2>. QED  BY <1>1, <2>1, <2>2, <2>4, FoundCorrect
<1>3. CASE Open # {}
  <2>1. answer' = answer
    BY <1>3 DEF TryLucky
  <2>. QED  BY <1>1, <2>1, OpenCorrect
<1>. QED  BY <1>2, <1>3

(* The answer 10 is right.                                                  *)
LEMMA SatisfiedCorrect ==
  ASSUME SInv, OccursInv, Satisfied
  PROVE  AnswerCorrect'
<1>1. Quiet /\ Complete /\ level >= Len(assumptions) /\ UNCHANGED <<input, asg>> /\ answer' = 10
  BY DEF Satisfied, Loop, IsModel
<1>2. InputOK /\ AssumptionsInv(assumptions, asg) /\ TrailInv(asg) /\ asg \in AsgType
  BY DEF SInv, TrailInv
<1>3. ASSUME NEW v \in Occurring
      PROVE  ~Free(v)
  <2>1. PICK c \in DOMAIN formula : \E l \in ToSet(formula[c]) : v = Idx(l)
    BY <1>3 DEF Occurring
  <2>2. PICK l \in ToSet(formula[c]) : v = Idx(l)
    BY <2>1
  <2>3. formula[c] \in Seq(Lits)
    BY <1>2 DEF InputOK
  <2>4. l \in Lits
    BY <2>3, SetFacts
  <2>5. v \in Lits /\ l \in {v, -v}
    BY <2>2, <2>4, LitFacts DEF Idx
  <2>6. {v, -v} \cap ToSet(formula[c]) # {}
    BY <2>5
  <2>7. v \in Active
    BY <2>5, <2>6 DEF Active
  <2>. QED  BY <1>1, <2>7 DEF Complete
<1>4. ASSUME NEW l \in ToSet(assumptions)
      PROVE  l \in ToSet(asg.trail)
  <2>1. PICK i \in 1 .. Len(assumptions) : assumptions[i] = l
    BY <1>2, <1>4, SetFacts DEF InputOK
  <2>2. i <= Lev(asg)
    BY <1>1, <1>2, AsgFacts, SameState DEF InputOK
  <2>. QED  BY <1>2, <2>1, <2>2 DEF AssumptionsInv, On
<1>. QED  BY <1>1, <1>3, <1>4, FoundCorrect

(* The answer 20 for a conflict at the root is right.                       *)
LEMMA BeginCorrect ==
  ASSUME SInv, BeginAnalysis
  PROVE  AnswerCorrect'
<1>1. answer = 0 /\ UNCHANGED input
  BY DEF BeginAnalysis, Propagating
<1>2. CASE ConflictLevel(conflict) = 0
  <2>1. answer' = 20
    BY <1>2 DEF BeginAnalysis
  <2>. QED  BY <1>1, <1>2, <2>1, RootConflict, RefutedSpec, RefutedCorrect
<1>3. CASE ConflictLevel(conflict) # 0
  <2>1. answer' = answer
    BY <1>3 DEF BeginAnalysis
  <2>. QED  BY <1>1, <2>1, OpenCorrect
<1>. QED  BY <1>2, <1>3

(* The answer 20 for a failed assumption is right.                          *)
LEMMA DecideCorrect ==
  ASSUME SInv, Decide
  PROVE  AnswerCorrect'
<1>1. Quiet /\ answer = 0 /\ UNCHANGED input
  BY DEF Decide, Loop, Quiet
<1>2. CASE level < Len(assumptions) /\ False(assumptions[level + 1])
  <2>1. answer' = 20
    BY <1>2 DEF Decide
  <2>2. resolvent = {}
    BY <1>1, QuietFacts
  <2>3. Lev(asg) < Len(assumptions) /\ On(asg, -assumptions[Lev(asg) + 1])
    BY <1>2, SameState
  <2>. QED  BY <1>1, <2>1, <2>2, <2>3, AssumptionRefuted, RefutedCorrect
<1>3. CASE ~(level < Len(assumptions) /\ False(assumptions[level + 1]))
  <2>1. answer' = answer
    BY <1>3 DEF Decide
  <2>. QED  BY <1>1, <2>1, OpenCorrect
<1>. QED  BY <1>2, <1>3

(* Every step keeps the answer right.                                       *)
LEMMA NextCorrect ==
  ASSUME SInv, OccursInv, AnswerCorrect, [Next]_vars
  PROVE  AnswerCorrect'
<1>1. CASE NextLiteral
  BY <1>1, OpenCorrect DEF NextLiteral, Propagating
<1>2. CASE \E c \in todo : Visit(c)
  BY <1>2, VisitFacts, OpenCorrect
<1>3. CASE TryLucky
  BY <1>3, TryLuckyCorrect
<1>4. CASE Unlucky
  BY <1>4, OpenCorrect DEF Unlucky
<1>5. CASE BeginAnalysis
  BY <1>5, BeginCorrect
<1>6. CASE Satisfied
  BY <1>6, SatisfiedCorrect
<1>7. CASE Restart
  BY <1>7, OpenCorrect DEF Restart, Loop, Quiet
<1>8. CASE Decide
  BY <1>8, DecideCorrect
<1>9. CASE Reduce
  BY <1>9, OpenCorrect DEF Reduce, Loop, Quiet
<1>10. CASE Collect
  BY <1>10, OpenCorrect DEF Collect, Quiet
<1>11. CASE Resolve
  BY <1>11, ResolveState, OpenCorrect DEF Resolve
<1>12. CASE Learn
  BY <1>12, ResolveState, OpenCorrect DEF Learn
<1>13. CASE UNCHANGED vars
  BY <1>13 DEF vars, input, AnswerCorrect, Original, ModelsOf
<1>. QED  BY <1>1, <1>2, <1>3, <1>4, <1>5, <1>6, <1>7, <1>8, <1>9, <1>10, <1>11, <1>12, <1>13
          DEF Next, Advance, Derive

(* The inductive invariant.                                                 *)
IInv == SInv /\ OccursInv /\ AnswerCorrect

(* The inductive invariant holds in all reachable states, for every formula *)
(* and all assumptions, with any heuristics.                                *)
THEOREM Invariant == Spec => []IInv
<1>1. Init => IInv
  <2>1. ASSUME Init
        PROVE  IInv
    <3>1. answer = 0
      BY <2>1 DEF Init
    <3>. QED  BY <2>1, <3>1, InitInv, InitOccurs DEF IInv, AnswerCorrect
  <2>. QED  BY <2>1
<1>2. IInv /\ [Next]_vars => IInv'
  <2>1. ASSUME IInv, [Next]_vars
        PROVE  IInv'
    BY <2>1, NextInv, NextOccurs, NextCorrect DEF IInv
  <2>. QED  BY <2>1
<1>. QED  BY <1>1, <1>2, PTL DEF Spec

(* Every literal on the trail is a decision or forced by the clause that is *)
(* its reason, levels and control agree, and what is being derived is false *)
(* (search_assign, backtrack, analyze).                                     *)
THEOREM TrailIsSound == Spec => []TrailSound
<1>1. IInv => TrailSound
  BY TrailSoundHolds DEF IInv
<1>. QED  BY <1>1, Invariant, PTL

(* Two watched literals are enough to see every conflict (propagate), also  *)
(* after chronological backtracking, strengthening on the fly and garbage   *)
(* collection.                                                              *)
THEOREM NothingFalsified == Spec => []NoneFalsified
<1>1. IInv => NoneFalsified
  BY NoneFalsifiedHolds DEF IInv
<1>. QED  BY <1>1, Invariant, PTL

(* The clauses of the formula, as far as they are kept, and the root        *)
(* literals have the models of the formula, and learned clauses follow from *)
(* it (analyze, shrink, collect).                                           *)
THEOREM FormulaIsKept == Spec => []FormulaKept
<1>1. IInv => FormulaKept
  BY FormulaKeptHolds DEF IInv
<1>. QED  BY <1>1, Invariant, PTL

(* The answer 10 comes with a model of the formula and the assumptions, and *)
(* 20 is given only when there is none (cdcl_loop_with_inprocessing,        *)
(* decide_assumption, analyze, lucky).                                      *)
THEOREM AnswerIsCorrect == Spec => []AnswerCorrect
<1>1. IInv => AnswerCorrect
  BY DEF IInv
<1>. QED  BY <1>1, Invariant, PTL

=============================================================================
