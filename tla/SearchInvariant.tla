---------------------------- MODULE SearchInvariant -------------------------
(***************************************************************************)
(* The inductive invariant of the search of the SAT solver, SInv, and the  *)
(* steps outside of analysis: propagation over watched literals, decisions,*)
(* assumptions, restarts, lucky phases, and the first step of analysis.    *)
(* For every formula, every list of assumptions and all values of the      *)
(* limits.  SearchProofs has the rest of analysis, the deletion of clauses *)
(* and the theorems.                                                       *)
(*                                                                         *)
(* The parts of SInv are about an assignment t, clauses cl and watches b,  *)
(* so that each operation on them has one lemma for each part it concerns: *)
(* trail and levels (TrailInv), shape and watches of the clauses           *)
(* (ClausesInv, WatchesInv), reasons (ReasonsInv), which watches are right *)
(* (WatchedInv), what the clauses mean (MeaningInv), and what belongs to   *)
(* the phase the search is in.                                             *)
(***************************************************************************)
EXTENDS Search, FiniteSetTheorems, WellFoundedInduction, NaturalsInduction, TLAPS

-----------------------------------------------------------------------------
(* Numbers, literals and sequences.                                         *)

(* A set of numbers that is not empty has a least one.                      *)
LEMMA LeastNat ==
  ASSUME NEW S \in SUBSET Nat, S # {}
  PROVE  \E m \in S : \A k \in S : m <= k
<1>. DEFINE lt == {p \in Nat \X Nat : p[1] < p[2]}
<1>1. IsWellFoundedOn(lt, Nat)
  BY NatLessThanWellFounded DEF OpToRel
<1>2. PICK m \in S : \A k \in S : ~(<<k, m>> \in lt)
  <2>. HIDE DEF lt
  <2>. QED  BY <1>1, WFMin
<1>3. ASSUME NEW k \in S
      PROVE  m <= k
  <2>1. k \in Nat /\ m \in Nat /\ <<k, m>> \notin lt
    BY <1>2
  <2>. QED  BY <2>1
<1>. QED  BY <1>3

(* A bounded set of numbers that is not empty has a greatest one.           *)
LEMMA GreatestNat ==
  ASSUME NEW S \in SUBSET Nat, S # {}, NEW n \in Nat, \A k \in S : k <= n
  PROVE  \E m \in S : \A k \in S : k <= m
<1>. DEFINE U == {u \in Nat : \A k \in S : k <= u}
<1>1. U \in SUBSET Nat /\ n \in U
  OBVIOUS
<1>2. PICK m \in U : \A u \in U : m <= u
  <2>. HIDE DEF U
  <2>. QED  BY <1>1, LeastNat
<1>3. m \in Nat /\ \A k \in S : k <= m
  OBVIOUS
<1>4. m \in S
  <2>1. SUFFICES ASSUME m \notin S PROVE FALSE
    OBVIOUS
  <2>2. \A k \in S : k <= m - 1
    BY <1>3, <2>1
  <2>3. m - 1 \in U
    <3>1. PICK x \in S : TRUE
      OBVIOUS
    <3>2. x \in Nat /\ x <= m - 1
      BY <2>2
    <3>3. m - 1 \in Nat
      BY <3>2, <1>3
    <3>. QED  BY <3>3, <2>2
  <2>. QED  BY <2>3, <1>2, <1>3
<1>. QED  BY <1>3, <1>4

(* What holds of 0, and of k when it holds of k - 1, holds up to n.         *)
LEMMA UpTo ==
  ASSUME NEW n \in Nat, NEW G, 0 \in G, \A k \in 1 .. n : k - 1 \in G => k \in G
  PROVE  \A k \in 0 .. n : k \in G
<1>1. SUFFICES ASSUME NEW b \in 0 .. n, b \notin G PROVE FALSE
  OBVIOUS
<1>. DEFINE S == {k \in 0 .. n : k \notin G}
<1>2. PICK m \in S : \A k \in S : m <= k
  <2>1. S \in SUBSET Nat /\ S # {}
    BY <1>1
  <2>. HIDE DEF S
  <2>. QED  BY <2>1, LeastNat
<1>3. m # 0 /\ m - 1 \in 0 .. n /\ m \in 1 .. n
  OBVIOUS
<1>4. m - 1 \in G
  BY <1>2, <1>3
<1>. QED  BY <1>3, <1>4

(* A step, one for each k, on the set S, and the function that iterates it. *)
IsStep(n, S, step) == step \in [(1 .. n) \X S -> S]
Iterates(n, S, a, step, f) ==
  /\ f \in [0 .. n -> S]
  /\ f[0] = a
  /\ \A k \in 1 .. n : f[k] = step[<<k, f[k - 1]>>]

(* There is a function that iterates a step: the largest k for which there  *)
(* is one up to k can be exceeded, so it is n.                              *)
LEMMA RecExists ==
  ASSUME NEW n \in Nat, NEW S, NEW a \in S, NEW step, IsStep(n, S, step)
  PROVE  \E f : Iterates(n, S, a, step, f)
<1>. DEFINE G == {m \in 0 .. n : \E f \in [0 .. m -> S] :
                    f[0] = a /\ \A k \in 1 .. m : f[k] = step[<<k, f[k - 1]>>]}
<1>0. step \in [(1 .. n) \X S -> S]
  BY DEF IsStep
<1>1. 0 \in G
  <2>. DEFINE f == [k \in 0 .. 0 |-> a]
  <2>1. f \in [0 .. 0 -> S] /\ f[0] = a /\ \A k \in 1 .. 0 : f[k] = step[<<k, f[k - 1]>>]
    OBVIOUS
  <2>. HIDE DEF f
  <2>2. \E g \in [0 .. 0 -> S] : g[0] = a /\ \A k \in 1 .. 0 : g[k] = step[<<k, g[k - 1]>>]
    BY <2>1
  <2>. QED  BY <2>2
<1>2. ASSUME NEW m \in 1 .. n, m - 1 \in G
      PROVE  m \in G
  <2>1. PICK f \in [0 .. m - 1 -> S] : f[0] = a /\ \A k \in 1 .. m - 1 : f[k] = step[<<k, f[k - 1]>>]
    BY <1>2
  <2>. DEFINE g == [k \in 0 .. m |-> IF k = m THEN step[<<m, f[m - 1]>>] ELSE f[k]]
  <2>2. step[<<m, f[m - 1]>>] \in S
    BY <1>0
  <2>3. g \in [0 .. m -> S] /\ g[0] = a
    BY <2>1, <2>2
  <2>4. ASSUME NEW k \in 1 .. m
        PROVE  g[k] = step[<<k, g[k - 1]>>]
    <3>1. CASE k = m
      <4>1. g[m] = step[<<m, f[m - 1]>>] /\ g[m - 1] = f[m - 1]
        OBVIOUS
      <4>. QED  BY <3>1, <4>1
    <3>2. CASE k # m
      BY <3>2, <2>1
    <3>. QED  BY <3>1, <3>2
  <2>. HIDE DEF g
  <2>5. \E h \in [0 .. m -> S] : h[0] = a /\ \A k \in 1 .. m : h[k] = step[<<k, h[k - 1]>>]
    BY <2>3, <2>4
  <2>. QED  BY <2>5
<1>3. n \in G
  <2>. HIDE DEF G
  <2>. QED  BY <1>1, <1>2, UpTo
<1>. QED  BY <1>3 DEF Iterates

(* Literals, their negations and their variables.                           *)
LEMMA LitFacts ==
  /\ \A l \in Lits : /\ l \in Int /\ l # 0 /\ -l \in Lits /\ - -l = l /\ l # -l
                     /\ Idx(l) \in Var /\ Idx(-l) = Idx(l)
  /\ \A l, k \in Lits : Idx(l) = Idx(k) => l = k \/ l = -k
<1>1. \A v \in Var : v \in Nat /\ v > 0
  BY VarAssumption
<1>2. ASSUME NEW l \in Lits
      PROVE  /\ l \in Int /\ l # 0 /\ -l \in Lits /\ - -l = l /\ l # -l
             /\ Idx(l) \in Var /\ Idx(-l) = Idx(l)
  <2>1. CASE l \in Var
    <3>1. l \in Nat /\ l > 0 /\ -l \in {-v : v \in Var}
      BY <1>1, <2>1
    <3>. QED  BY <3>1, <2>1 DEF Lits, Idx
  <2>2. CASE l \in {-v : v \in Var}
    <3>1. PICK v \in Var : l = -v
      BY <2>2
    <3>2. v \in Nat /\ v > 0
      BY <1>1
    <3>3. -l = v /\ l < 0 /\ l \in Int
      BY <3>1, <3>2
    <3>. QED  BY <3>1, <3>2, <3>3, <2>2 DEF Lits, Idx
  <2>. QED  BY <2>1, <2>2 DEF Lits
<1>3. ASSUME NEW l \in Lits, NEW k \in Lits, Idx(l) = Idx(k)
      PROVE  l = k \/ l = -k
  <2>1. l \in Int /\ k \in Int
    BY <1>2
  <2>. QED  BY <2>1, <1>3 DEF Idx
<1>. QED  BY <1>2, <1>3

(* There are finitely many literals.                                        *)
LEMMA LitsFinite == IsFiniteSet(Lits)
<1>1. IsFiniteSet(Var)
  BY VarAssumption
<1>. DEFINE N == {-v : v \in Var}
            f == [v \in Var |-> -v]
<1>2. f \in Surjection(Var, N)
  BY DEF Surjection
<1>3. IsFiniteSet(N)
  <2>. HIDE DEF f, N
  <2>. QED  BY <1>1, <1>2, FS_Surjection
<1>. QED  BY <1>1, <1>3, FS_Union DEF Lits

(* The equation of the function that defines Restricted.                    *)
Equation(f, s, S) ==
  /\ DOMAIN f = 0 .. Len(s)
  /\ f[0] = <<>>
  /\ \A k \in 1 .. Len(s) : f[k] = IF s[k] \in S THEN Append(f[k - 1], s[k]) ELSE f[k - 1]

(* Restricted is defined by a function that satisfies its equation.         *)
LEMMA RestrictedEquation ==
  ASSUME NEW X, NEW s \in Seq(X), NEW S
  PROVE  \E f : Equation(f, s, S) /\ Restricted(s, S) = f[Len(s)]
<1>. DEFINE Body(f, k) == IF k = 0 THEN <<>>
                          ELSE IF s[k] \in S THEN Append(f[k - 1], s[k]) ELSE f[k - 1]
            step == [p \in (1 .. Len(s)) \X Seq(X) |->
                       IF s[p[1]] \in S THEN Append(p[2], s[p[1]]) ELSE p[2]]
<1>1. step \in [(1 .. Len(s)) \X Seq(X) -> Seq(X)]
  OBVIOUS
<1>2. Len(s) \in Nat /\ <<>> \in Seq(X)
  OBVIOUS
<1>3. PICK g : Iterates(Len(s), Seq(X), <<>>, step, g)
  <2>. HIDE DEF step, Body
  <2>. QED  BY <1>1, <1>2, RecExists DEF IsStep
<1>4. ASSUME NEW k \in 0 .. Len(s)
      PROVE  g[k] = Body(g, k)
  <2>0. /\ g \in [0 .. Len(s) -> Seq(X)] /\ g[0] = <<>>
        /\ \A j \in 1 .. Len(s) : g[j] = step[<<j, g[j - 1]>>]
    BY <1>3 DEF Iterates
  <2>1. CASE k = 0
    BY <2>0, <2>1
  <2>2. CASE k # 0
    <3>1. k \in 1 .. Len(s) /\ g[k - 1] \in Seq(X)
      BY <2>0, <2>2
    <3>2. g[k] = step[<<k, g[k - 1]>>]
      BY <3>1, <2>0
    <3>. QED  BY <3>1, <3>2, <2>2
  <2>. QED  BY <2>1, <2>2
<1>5. g = [k \in 0 .. Len(s) |-> Body(g, k)]
  <2>1. DOMAIN g = 0 .. Len(s) /\ g = [k \in 0 .. Len(s) |-> g[k]]
    BY <1>3 DEF Iterates
  <2>. HIDE DEF Body, step
  <2>. QED  BY <1>4, <2>1
<1>6. \E f : f = [k \in 0 .. Len(s) |-> Body(f, k)]
  <2>. HIDE DEF Body
  <2>. QED  BY <1>5
<1>. DEFINE F == CHOOSE f : f = [k \in 0 .. Len(s) |-> Body(f, k)]
<1>7. F = [k \in 0 .. Len(s) |-> Body(F, k)]
  <2>. HIDE DEF Body
  <2>. QED  BY <1>6
<1>8. Restricted(s, S) = F[Len(s)]
  BY DEF Restricted
<1>. HIDE DEF F
<1>9. Equation(F, s, S)
  <2>1. DOMAIN F = 0 .. Len(s)
    BY <1>7
  <2>2. F[0] = <<>>
    BY <1>7
  <2>3. ASSUME NEW k \in 1 .. Len(s)
        PROVE  F[k] = IF s[k] \in S THEN Append(F[k - 1], s[k]) ELSE F[k - 1]
    <3>0. k \in 0 .. Len(s) /\ k # 0
      OBVIOUS
    <3>1. F[k] = Body(F, k)
      <4>. HIDE DEF Body, step
      <4>. QED  BY <1>7, <3>0
    <3>. QED  BY <3>0, <3>1
  <2>. QED  BY <2>1, <2>2, <2>3 DEF Equation
<1>. QED  BY <1>8, <1>9

(* g maps the places of r to those of s that hold a member of S, in order.  *)
Embeds(s, S, r, g) ==
  /\ g \in [1 .. Len(r) -> 1 .. Len(s)]
  /\ \A i \in 1 .. Len(r) : r[i] = s[g[i]] /\ s[g[i]] \in S
  /\ \A i, j \in 1 .. Len(r) : i < j => g[i] < g[j]
  /\ \A k \in 1 .. Len(s) : s[k] \in S => \E i \in 1 .. Len(r) : g[i] = k

(* The same for the first k places of s.                                    *)
Picks(s, S, k, r, g) ==
  /\ g \in [1 .. Len(r) -> 1 .. k]
  /\ \A i \in 1 .. Len(r) : r[i] = s[g[i]] /\ s[g[i]] \in S
  /\ \A i, j \in 1 .. Len(r) : i < j => g[i] < g[j]
  /\ \A q \in 1 .. k : s[q] \in S => \E i \in 1 .. Len(r) : g[i] = q

(* Restricted keeps the literals of S, in their order and each at its own   *)
(* place.                                                                   *)
LEMMA RestrictedSpec ==
  ASSUME NEW X, NEW s \in Seq(X), NEW S
  PROVE  /\ Restricted(s, S) \in Seq(X)
         /\ \E g : Embeds(s, S, Restricted(s, S), g)
<1>1. PICK f : Equation(f, s, S) /\ Restricted(s, S) = f[Len(s)]
  BY RestrictedEquation
<1>2. Len(s) \in Nat
  OBVIOUS
<1>. DEFINE G == {k \in 0 .. Len(s) : f[k] \in Seq(X) /\ \E g : Picks(s, S, k, f[k], g)}
<1>3. 0 \in G
  <2>1. f[0] = <<>>
    BY <1>1 DEF Equation
  <2>2. Picks(s, S, 0, <<>>, [i \in 1 .. 0 |-> i])
    BY DEF Picks
  <2>3. \E g : Picks(s, S, 0, f[0], g)
    BY <2>1, <2>2
  <2>4. f[0] \in Seq(X) /\ 0 \in 0 .. Len(s)
    BY <2>1, <1>2
  <2>. QED  BY <2>3, <2>4
<1>4. ASSUME NEW k \in 1 .. Len(s), k - 1 \in G
      PROVE  k \in G
  <2>1. f[k - 1] \in Seq(X) /\ k \in 0 .. Len(s)
    BY <1>4
  <2>2. PICK g : Picks(s, S, k - 1, f[k - 1], g)
    BY <1>4
  <2>3. CASE s[k] \notin S
    <3>1. f[k] = f[k - 1]
      BY <1>1, <2>3 DEF Equation
    <3>2. Picks(s, S, k, f[k - 1], g)
      BY <2>2, <2>3 DEF Picks
    <3>. QED  BY <3>1, <3>2, <2>1
  <2>4. CASE s[k] \in S
    <3>1. f[k] = Append(f[k - 1], s[k])
      BY <1>1, <2>4 DEF Equation
    <3>2. s[k] \in X
      OBVIOUS
    <3>. DEFINE r == Append(f[k - 1], s[k])
                n == Len(f[k - 1])
                h == [i \in 1 .. n + 1 |-> IF i = n + 1 THEN k ELSE g[i]]
    <3>3. /\ r \in Seq(X) /\ Len(r) = n + 1 /\ n \in Nat
          /\ \A i \in 1 .. n : r[i] = f[k - 1][i]
          /\ r[n + 1] = s[k]
      BY <2>1, <3>2
    <3>4. /\ g \in [1 .. n -> 1 .. k - 1]
          /\ \A i \in 1 .. n : f[k - 1][i] = s[g[i]] /\ s[g[i]] \in S
          /\ \A i, j \in 1 .. n : i < j => g[i] < g[j]
          /\ \A q \in 1 .. k - 1 : s[q] \in S => \E i \in 1 .. n : g[i] = q
      BY <2>2 DEF Picks
    <3>. HIDE DEF r, n
    <3>5. h \in [1 .. Len(r) -> 1 .. k]
      BY <3>3, <3>4
    <3>6. \A i \in 1 .. Len(r) : r[i] = s[h[i]] /\ s[h[i]] \in S
      BY <3>3, <3>4, <2>4
    <3>7. \A i, j \in 1 .. Len(r) : i < j => h[i] < h[j]
      BY <3>3, <3>4
    <3>8. ASSUME NEW q \in 1 .. k, s[q] \in S
          PROVE  \E i \in 1 .. Len(r) : h[i] = q
      <4>1. CASE q = k
        BY <4>1, <3>3
      <4>2. CASE q # k
        <5>1. PICK i \in 1 .. n : g[i] = q
          BY <3>4, <3>8, <4>2
        <5>2. i \in 1 .. Len(r) /\ h[i] = q
          BY <5>1, <3>3
        <5>. QED  BY <5>2
      <4>. QED  BY <4>1, <4>2
    <3>. HIDE DEF h
    <3>9. Picks(s, S, k, r, h)
      BY <3>5, <3>6, <3>7, <3>8 DEF Picks
    <3>10. f[k] = r
      BY <3>1 DEF r
    <3>. QED  BY <3>9, <3>10, <3>3, <2>1
  <2>. QED  BY <2>3, <2>4
<1>5. Len(s) \in G
  <2>0. Len(s) \in 0 .. Len(s)
    BY <1>2
  <2>. HIDE DEF G
  <2>1. \A k \in 0 .. Len(s) : k \in G
    BY <1>2, <1>3, <1>4, UpTo
  <2>. QED  BY <2>0, <2>1
<1>. QED  BY <1>1, <1>5 DEF Embeds, Picks

(* What stays in front keeps its place. *)
LEMMA RestrictedPrefix ==
  ASSUME NEW s, NEW S, NEW r, NEW g, Embeds(s, S, r, g), Len(s) \in Nat, Len(r) \in Nat,
         NEW m \in 0 .. Len(s), \A k \in 1 .. m : s[k] \in S
  PROVE  /\ m <= Len(r)
         /\ \A k \in 1 .. m : g[k] = k /\ r[k] = s[k]
         /\ \A i \in 1 .. Len(r) : i > m => g[i] > m
<1>0. /\ g \in [1 .. Len(r) -> 1 .. Len(s)]
      /\ \A i \in 1 .. Len(r) : r[i] = s[g[i]] /\ s[g[i]] \in S
      /\ \A i, j \in 1 .. Len(r) : i < j => g[i] < g[j]
      /\ \A k \in 1 .. Len(s) : s[k] \in S => \E i \in 1 .. Len(r) : g[i] = k
  BY DEF Embeds
<1>. DEFINE G == {k \in 0 .. m : k <= Len(r) /\ \A j \in 1 .. k : g[j] = j}
<1>1. 0 \in G
  OBVIOUS
<1>2. ASSUME NEW k \in 1 .. m, k - 1 \in G
      PROVE  k \in G
  <2>1. s[k] \in S /\ k \in 1 .. Len(s)
    OBVIOUS
  <2>2. PICK i \in 1 .. Len(r) : g[i] = k
    BY <2>1, <1>0
  <2>3. k - 1 <= Len(r) /\ \A j \in 1 .. k - 1 : g[j] = j
    BY <1>2
  <2>4. i >= k
    BY <2>2, <2>3
  <2>5. k \in 1 .. Len(r)
    BY <2>4
  <2>6. g[k] >= k
    <3>1. CASE k = 1
      BY <3>1, <1>0, <2>5
    <3>2. CASE k # 1
      <4>1. k - 1 \in 1 .. Len(r) /\ g[k - 1] = k - 1 /\ g[k - 1] < g[k]
        BY <3>2, <2>3, <2>5, <1>0
      <4>2. g[k] \in 1 .. Len(s)
        BY <1>0, <2>5
      <4>. QED  BY <4>1, <4>2
    <3>. QED  BY <3>1, <3>2
  <2>7. g[k] = k
    <3>1. i > k => g[k] < g[i]
      BY <2>5, <1>0
    <3>2. g[k] \in 1 .. Len(s) /\ g[i] = k /\ i >= k /\ g[k] >= k
      BY <1>0, <2>2, <2>4, <2>5, <2>6
    <3>3. i = k => g[k] = k
      BY <2>2
    <3>. QED  BY <3>1, <3>2, <3>3
  <2>. QED  BY <2>3, <2>5, <2>7
<1>3. m \in G
  <2>0. m \in 0 .. m /\ m \in Nat
    OBVIOUS
  <2>. HIDE DEF G
  <2>1. \A k \in 0 .. m : k \in G
    BY <2>0, <1>1, <1>2, UpTo
  <2>. QED  BY <2>0, <2>1
<1>4. ASSUME NEW i \in 1 .. Len(r), i > m
      PROVE  g[i] > m
  <2>1. CASE m = 0
    BY <1>0, <2>1
  <2>2. CASE m # 0
    <3>1. m \in 1 .. Len(r) /\ g[m] = m /\ g[m] < g[i]
      BY <2>2, <1>3, <1>0, <1>4
    <3>. QED  BY <3>1
  <2>. QED  BY <2>1, <2>2
<1>. QED  BY <1>0, <1>3, <1>4

(* Maximum picks the greatest, or 0. *)
LEMMA MaximumSpec ==
  ASSUME NEW S \in SUBSET Nat, NEW n \in Nat, \A k \in S : k <= n
  PROVE  /\ Maximum(S) \in S \cup {0} /\ Maximum(S) \in Nat
         /\ \A k \in S : k <= Maximum(S)
<1>. DEFINE Z == {0} \cup S
<1>1. Z \in SUBSET Nat /\ Z # {} /\ \A k \in Z : k <= n
  OBVIOUS
<1>2. PICK m \in Z : \A k \in Z : k <= m
  <2>. HIDE DEF Z
  <2>. QED  BY <1>1, GreatestNat
<1>3. Maximum(S) = CHOOSE x \in Z : \A y \in Z : x >= y
  BY DEF Maximum, Max
<1>4. \A y \in Z : m >= y
  BY <1>1, <1>2
<1>. HIDE DEF Z
<1>5. Maximum(S) \in Z /\ \A y \in Z : Maximum(S) >= y
  BY <1>2, <1>3, <1>4
<1>. QED  BY <1>5, <1>1 DEF Z

(* The least of some numbers. *)
LEMMA MinSpec ==
  ASSUME NEW S \in SUBSET Nat, S # {}
  PROVE  Min(S) \in S
<1>1. PICK m \in S : \A k \in S : m <= k
  BY LeastNat
<1>2. \E x \in S : \A y \in S : x =< y
  BY <1>1
<1>. QED  BY <1>2 DEF Min

(* Max picks a member of a bounded set of numbers.                          *)
LEMMA MaxSpec ==
  ASSUME NEW S \in SUBSET Nat, S # {}, NEW n \in Nat, \A k \in S : k <= n
  PROVE  Max(S) \in S
<1>1. PICK m \in S : \A k \in S : k <= m
  BY GreatestNat
<1>2. \E x \in S : \A y \in S : x >= y
  <2>1. \A y \in S : m >= y
    BY <1>1
  <2>. QED  BY <2>1
<1>. QED  BY <1>2 DEF Max

-----------------------------------------------------------------------------
(* The trail.                                                               *)

(* The type of an assignment, and its parts.                                *)
AsgType == [trail : Seq(Lits), var : [Var -> [level : Nat, reason : Nat]],
            control : Seq([decision : Int, trail : Nat]), propagated : Nat]
On(t, l)       == l \in ToSet(t.trail)
ReasonIn(t, l) == t.var[Idx(l)].reason
Lev(t)         == Len(t.control)

(* No literal twice, or with its negation.                                  *)
Once(s) == \A i, j \in DOMAIN s : i # j => s[i] # s[j] /\ s[i] # -s[j]

(* The levels begin one behind the other, and what is not propagated lies   *)
(* behind.                                                                  *)
Stacked(t) ==
  /\ \A i, j \in DOMAIN t.control : i <= j => t.control[i].trail <= t.control[j].trail
  /\ \A i \in DOMAIN t.control : t.control[i].trail <= t.propagated
  /\ t.propagated <= Len(t.trail)

(* A literal of a level lies behind the decision of that level; with        *)
(* chronological backtracking it may lie behind later ones too.             *)
Leveled(t) == \A k \in DOMAIN t.trail :
  /\ LevelIn(t, t.trail[k]) <= Lev(t)
  /\ LevelIn(t, t.trail[k]) > 0 => k > t.control[LevelIn(t, t.trail[k])].trail

(* The literal at place k is the decision of its level, and the later       *)
(* levels begin behind it.                                                  *)
Decision(t, k) ==
  /\ t.control[LevelIn(t, t.trail[k])] = [decision |-> t.trail[k], trail |-> k - 1]
  /\ \A j \in LevelIn(t, t.trail[k]) + 1 .. Lev(t) : k <= t.control[j].trail

(* A literal above the root without a reason is a decision.                 *)
Decisions(t) == \A k \in DOMAIN t.trail :
  /\ ReasonIn(t, t.trail[k]) = 0 /\ LevelIn(t, t.trail[k]) > 0 => Decision(t, k)
  /\ ReasonIn(t, t.trail[k]) # 0 => LevelIn(t, t.trail[k]) > 0

(* The invariant of the trail.                                              *)
TrailInv(t) == t \in AsgType /\ Once(t.trail) /\ Stacked(t) /\ Leveled(t) /\ Decisions(t)

(* What a sequence lists is of its type.                                    *)
LEMMA SeqAt ==
  ASSUME NEW S, NEW s \in Seq(S), NEW i \in 1 .. Len(s)
  PROVE  s[i] \in S
OBVIOUS

(* The types of the parts of an assignment.                                 *)
LEMMA AsgFacts ==
  ASSUME NEW t \in AsgType
  PROVE  /\ t.trail \in Seq(Lits) /\ Len(t.trail) \in Nat /\ DOMAIN t.trail = 1 .. Len(t.trail)
         /\ \A k \in DOMAIN t.trail : t.trail[k] \in Lits
         /\ t.control \in Seq([decision : Int, trail : Nat]) /\ Lev(t) \in Nat
         /\ DOMAIN t.control = 1 .. Lev(t)
         /\ \A i \in 1 .. Lev(t) : /\ t.control[i] \in [decision : Int, trail : Nat]
                                   /\ t.control[i].trail \in Nat /\ t.control[i].decision \in Int
         /\ t.propagated \in Nat
         /\ \A l \in Lits : /\ LevelIn(t, l) \in Nat /\ ReasonIn(t, l) \in Nat
                            /\ LevelIn(t, -l) = LevelIn(t, l) /\ ReasonIn(t, -l) = ReasonIn(t, l)
         /\ \A l : On(t, l) <=> \E k \in DOMAIN t.trail : t.trail[k] = l
<1>1. /\ t.trail \in Seq(Lits) /\ t.control \in Seq([decision : Int, trail : Nat])
      /\ t.propagated \in Nat /\ t.var \in [Var -> [level : Nat, reason : Nat]]
  BY DEF AsgType
<1>2. \A l \in Lits : Idx(l) \in Var /\ Idx(-l) = Idx(l)
  BY LitFacts
<1>3. \A l \in Lits : /\ LevelIn(t, l) \in Nat /\ ReasonIn(t, l) \in Nat
                      /\ LevelIn(t, -l) = LevelIn(t, l) /\ ReasonIn(t, -l) = ReasonIn(t, l)
  BY <1>1, <1>2 DEF LevelIn, ReasonIn
<1>4. \A l : On(t, l) <=> \E k \in DOMAIN t.trail : t.trail[k] = l
  BY DEF On, ToSet
<1>5. /\ Len(t.trail) \in Nat /\ DOMAIN t.trail = 1 .. Len(t.trail)
      /\ \A k \in DOMAIN t.trail : t.trail[k] \in Lits
  BY <1>1
<1>6. Lev(t) \in Nat /\ DOMAIN t.control = 1 .. Lev(t)
  BY <1>1 DEF Lev
<1>7. ASSUME NEW i \in 1 .. Lev(t)
      PROVE  /\ t.control[i] \in [decision : Int, trail : Nat]
             /\ t.control[i].trail \in Nat /\ t.control[i].decision \in Int
  <2>0. i \in 1 .. Len(t.control)
    BY DEF Lev
  <2>1. t.control[i] \in [decision : Int, trail : Nat]
    BY <1>1, <2>0, SeqAt
  <2>. QED  BY <2>1
<1>. QED  BY <1>1, <1>3, <1>4, <1>5, <1>6, <1>7

(* What TrailInv says, place by place: no literal twice or with its         *)
(* negation, the levels begin one behind the other, and what is propagated  *)
(* reaches the last of them.                                                *)
LEMMA TrailFacts ==
  ASSUME NEW t, TrailInv(t)
  PROVE  /\ t \in AsgType
         /\ \A i, j \in DOMAIN t.trail : t.trail[i] = t.trail[j] => i = j
         /\ \A i, j \in DOMAIN t.trail : t.trail[i] # -t.trail[j]
         /\ \A l \in Lits : ~(On(t, l) /\ On(t, -l))
         /\ \A i, j \in 1 .. Lev(t) : i <= j => t.control[i].trail <= t.control[j].trail
         /\ \A i \in 1 .. Lev(t) : t.control[i].trail <= t.propagated
         /\ t.propagated <= Len(t.trail)
         /\ \A k \in DOMAIN t.trail :
              /\ LevelIn(t, t.trail[k]) <= Lev(t)
              /\ LevelIn(t, t.trail[k]) > 0 => k > t.control[LevelIn(t, t.trail[k])].trail
         /\ \A l \in Lits : On(t, l) \/ On(t, -l) => LevelIn(t, l) <= Lev(t)
<1>1. t \in AsgType
  BY DEF TrailInv
<1>2. \A i, j \in DOMAIN t.trail : t.trail[i] = t.trail[j] => i = j
  BY DEF TrailInv, Once
<1>3. ASSUME NEW i \in DOMAIN t.trail, NEW j \in DOMAIN t.trail
      PROVE  t.trail[i] # -t.trail[j]
  <2>1. t.trail[j] \in Lits /\ t.trail[j] # -t.trail[j]
    BY <1>1, AsgFacts, LitFacts
  <2>2. i # j => t.trail[i] # -t.trail[j]
    BY DEF TrailInv, Once
  <2>. QED  BY <2>1, <2>2
<1>4. ASSUME NEW l \in Lits, On(t, l), On(t, -l)
      PROVE  FALSE
  <2>1. PICK i \in DOMAIN t.trail : t.trail[i] = l
    BY <1>1, <1>4, AsgFacts
  <2>2. PICK j \in DOMAIN t.trail : t.trail[j] = -l
    BY <1>1, <1>4, AsgFacts
  <2>. QED  BY <2>1, <2>2, <1>3
<1>5. Stacked(t) /\ Leveled(t)
  BY DEF TrailInv
<1>6. DOMAIN t.control = 1 .. Lev(t)
  BY <1>1, AsgFacts
<1>7. \A k \in DOMAIN t.trail :
        /\ LevelIn(t, t.trail[k]) <= Lev(t)
        /\ LevelIn(t, t.trail[k]) > 0 => k > t.control[LevelIn(t, t.trail[k])].trail
  BY <1>5 DEF Leveled
<1>8. ASSUME NEW l \in Lits, On(t, l) \/ On(t, -l)
      PROVE  LevelIn(t, l) <= Lev(t)
  <2>1. \A k : On(t, k) => LevelIn(t, k) <= Lev(t)
    BY <1>1, <1>7, AsgFacts
  <2>2. LevelIn(t, -l) = LevelIn(t, l)
    BY <1>1, AsgFacts
  <2>. QED  BY <1>8, <2>1, <2>2
<1>. QED  BY <1>1, <1>2, <1>3, <1>4, <1>5, <1>6, <1>7, <1>8 DEF Stacked

(* u is t with one more literal. *)
Grows(t, u, l, n, r) ==
  /\ u.trail = Append(t.trail, l)
  /\ u.control = t.control
  /\ u.propagated = t.propagated
  /\ LevelIn(u, l) = n /\ ReasonIn(u, l) = r
  /\ \A k \in Lits : k # l /\ k # -l =>
       LevelIn(u, k) = LevelIn(t, k) /\ ReasonIn(u, k) = ReasonIn(t, k)

(* The places of a trail that has grown by one literal.                     *)
LEMMA GrowsFacts ==
  ASSUME NEW t, TrailInv(t), NEW u \in AsgType, NEW l \in Lits, ~On(t, l), ~On(t, -l),
         NEW n, NEW r, Grows(t, u, l, n, r)
  PROVE  /\ Len(u.trail) = Len(t.trail) + 1
         /\ \A k \in DOMAIN t.trail : /\ k \in DOMAIN u.trail
                                      /\ u.trail[k] = t.trail[k]
                                      /\ LevelIn(u, t.trail[k]) = LevelIn(t, t.trail[k])
                                      /\ ReasonIn(u, t.trail[k]) = ReasonIn(t, t.trail[k])
         /\ Len(t.trail) + 1 \in DOMAIN u.trail /\ u.trail[Len(t.trail) + 1] = l
         /\ \A k \in DOMAIN u.trail : k \in DOMAIN t.trail \/ k = Len(t.trail) + 1
         /\ \A k : On(u, k) <=> On(t, k) \/ k = l
         /\ \A k \in Lits : On(t, k) \/ On(t, -k) =>
              LevelIn(u, k) = LevelIn(t, k) /\ ReasonIn(u, k) = ReasonIn(t, k)
<1>1. t \in AsgType /\ t.trail \in Seq(Lits) /\ Len(t.trail) \in Nat /\ DOMAIN t.trail = 1 .. Len(t.trail)
  BY TrailFacts, AsgFacts
<1>2. u.trail = Append(t.trail, l)
  BY DEF Grows
<1>3. /\ Len(u.trail) = Len(t.trail) + 1
      /\ DOMAIN u.trail = 1 .. Len(t.trail) + 1
      /\ \A k \in 1 .. Len(t.trail) : u.trail[k] = t.trail[k]
      /\ u.trail[Len(t.trail) + 1] = l
  BY <1>1, <1>2
<1>4. ASSUME NEW k \in Lits, On(t, k) \/ On(t, -k)
      PROVE  LevelIn(u, k) = LevelIn(t, k) /\ ReasonIn(u, k) = ReasonIn(t, k)
  <2>1. k # l /\ k # -l
    BY <1>4, LitFacts
  <2>. QED  BY <2>1 DEF Grows
<1>5. ASSUME NEW k \in DOMAIN t.trail
      PROVE  LevelIn(u, t.trail[k]) = LevelIn(t, t.trail[k]) /\ ReasonIn(u, t.trail[k]) = ReasonIn(t, t.trail[k])
  <2>1. t.trail[k] \in Lits /\ On(t, t.trail[k])
    BY <1>1, AsgFacts
  <2>. QED  BY <2>1, <1>4
<1>6. ASSUME NEW k
      PROVE  On(u, k) <=> On(t, k) \/ k = l
  <2>1. On(u, k) <=> \E i \in DOMAIN u.trail : u.trail[i] = k
    BY AsgFacts
  <2>2. On(t, k) <=> \E i \in DOMAIN t.trail : t.trail[i] = k
    BY <1>1, AsgFacts
  <2>3. ASSUME NEW i \in DOMAIN t.trail, t.trail[i] = k
        PROVE  i \in DOMAIN u.trail /\ u.trail[i] = k
    BY <2>3, <1>3
  <2>4. ASSUME NEW i \in DOMAIN u.trail, i # Len(t.trail) + 1
        PROVE  i \in DOMAIN t.trail
    BY <2>4, <1>1, <1>3
  <2>5. k = l => On(u, k)
    BY <2>1, <1>3
  <2>. QED  BY <2>1, <2>2, <2>3, <2>4, <2>5, <1>3
<1>. QED  BY <1>1, <1>3, <1>4, <1>5, <1>6

(* A trail grows by a literal at a level there is, with a reason unless it  *)
(* is a decision or at the root: the invariant holds on.                    *)
LEMMA GrowsInv ==
  ASSUME NEW t, TrailInv(t), NEW u \in AsgType, NEW l \in Lits, ~On(t, l), ~On(t, -l),
         NEW n \in 0 .. Lev(t), NEW r \in Nat, Grows(t, u, l, n, r),
         r # 0 => n > 0,
         r = 0 /\ n > 0 => n = Lev(t) /\ t.control[n] = [decision |-> l, trail |-> Len(t.trail)]
  PROVE  TrailInv(u)
<1>1. /\ t \in AsgType /\ Len(t.trail) \in Nat /\ Lev(t) \in Nat /\ DOMAIN t.trail = 1 .. Len(t.trail)
      /\ DOMAIN t.control = 1 .. Lev(t) /\ t.propagated \in Nat
      /\ \A i \in 1 .. Lev(t) : t.control[i].trail \in Nat
      /\ t.propagated <= Len(t.trail)
      /\ \A i \in 1 .. Lev(t) : t.control[i].trail <= t.propagated
  BY TrailFacts, AsgFacts
<1>2. u.control = t.control /\ u.propagated = t.propagated /\ LevelIn(u, l) = n /\ ReasonIn(u, l) = r
  BY DEF Grows
<1>3. Lev(u) = Lev(t)
  BY <1>2 DEF Lev
<1>4. Once(u.trail)
  <2>1. SUFFICES ASSUME NEW i \in DOMAIN u.trail, NEW j \in DOMAIN u.trail, i # j
                 PROVE  u.trail[i] # u.trail[j] /\ u.trail[i] # -u.trail[j]
    BY DEF Once
  <2>2. \A k \in DOMAIN t.trail : t.trail[k] \in Lits /\ On(t, t.trail[k])
    BY <1>1, AsgFacts
  <2>3. \A k \in DOMAIN t.trail : t.trail[k] # l /\ t.trail[k] # -l /\ -t.trail[k] # l
    BY <2>2, LitFacts
  <2>4. \A p, q \in DOMAIN t.trail : p # q => t.trail[p] # t.trail[q] /\ t.trail[p] # -t.trail[q]
    BY DEF TrailInv, Once
  <2>5. CASE i \in DOMAIN t.trail /\ j \in DOMAIN t.trail
    BY <2>1, <2>4, <2>5, GrowsFacts
  <2>6. CASE i \in DOMAIN t.trail /\ j = Len(t.trail) + 1
    BY <2>3, <2>6, GrowsFacts
  <2>7. CASE j \in DOMAIN t.trail /\ i = Len(t.trail) + 1
    BY <2>3, <2>7, GrowsFacts
  <2>. QED  BY <2>1, <2>5, <2>6, <2>7, GrowsFacts
<1>5. Stacked(u)
  <2>1. Stacked(t)
    BY DEF TrailInv
  <2>2. Len(u.trail) = Len(t.trail) + 1
    BY GrowsFacts
  <2>3. u.propagated <= Len(u.trail)
    BY <1>1, <1>2, <2>2
  <2>4. /\ \A i, j \in DOMAIN u.control : i <= j => u.control[i].trail <= u.control[j].trail
        /\ \A i \in DOMAIN u.control : u.control[i].trail <= u.propagated
    BY <1>2, <2>1 DEF Stacked
  <2>. QED  BY <2>3, <2>4 DEF Stacked
<1>6. Leveled(u)
  <2>1. SUFFICES ASSUME NEW k \in DOMAIN u.trail
                 PROVE  /\ LevelIn(u, u.trail[k]) <= Lev(u)
                        /\ LevelIn(u, u.trail[k]) > 0 => k > u.control[LevelIn(u, u.trail[k])].trail
    BY DEF Leveled
  <2>2. CASE k \in DOMAIN t.trail
    <3>1. /\ LevelIn(t, t.trail[k]) <= Lev(t)
          /\ LevelIn(t, t.trail[k]) > 0 => k > t.control[LevelIn(t, t.trail[k])].trail
      BY <2>2, TrailFacts
    <3>2. u.trail[k] = t.trail[k] /\ LevelIn(u, t.trail[k]) = LevelIn(t, t.trail[k])
      BY <2>2, GrowsFacts
    <3>. QED  BY <3>1, <3>2, <1>2, <1>3
  <2>3. CASE k = Len(t.trail) + 1
    <3>1. u.trail[k] = l
      BY <2>3, GrowsFacts
    <3>2. n > 0 => t.control[n].trail <= Len(t.trail) /\ t.control[n].trail \in Nat
      BY <1>1
    <3>. QED  BY <3>1, <3>2, <1>1, <1>2, <1>3, <2>3
  <2>. QED  BY <2>2, <2>3, GrowsFacts
<1>7. Decisions(u)
  <2>1. SUFFICES ASSUME NEW k \in DOMAIN u.trail
                 PROVE  /\ ReasonIn(u, u.trail[k]) = 0 /\ LevelIn(u, u.trail[k]) > 0 => Decision(u, k)
                        /\ ReasonIn(u, u.trail[k]) # 0 => LevelIn(u, u.trail[k]) > 0
    BY DEF Decisions
  <2>2. CASE k \in DOMAIN t.trail
    <3>1. /\ ReasonIn(t, t.trail[k]) = 0 /\ LevelIn(t, t.trail[k]) > 0 => Decision(t, k)
          /\ ReasonIn(t, t.trail[k]) # 0 => LevelIn(t, t.trail[k]) > 0
      BY <2>2 DEF TrailInv, Decisions
    <3>2. u.trail[k] = t.trail[k] /\ LevelIn(u, t.trail[k]) = LevelIn(t, t.trail[k])
          /\ ReasonIn(u, t.trail[k]) = ReasonIn(t, t.trail[k])
      BY <2>2, GrowsFacts
    <3>3. Decision(t, k) => Decision(u, k)
      BY <3>2, <1>2, <1>3 DEF Decision
    <3>. QED  BY <3>1, <3>2, <3>3
  <2>3. CASE k = Len(t.trail) + 1
    <3>1. u.trail[k] = l
      BY <2>3, GrowsFacts
    <3>2. ASSUME r = 0, n > 0
          PROVE  Decision(u, k)
      <4>1. u.control[n] = [decision |-> l, trail |-> k - 1]
        BY <3>2, <2>3, <1>1, <1>2
      <4>2. n = Lev(u)
        BY <3>2, <1>3
      <4>. QED  BY <4>1, <4>2, <3>1, <1>1, <1>2, <1>3 DEF Decision
    <3>. QED  BY <3>1, <3>2, <1>2
  <2>. QED  BY <2>2, <2>3, GrowsFacts
<1>. QED  BY <1>4, <1>5, <1>6, <1>7 DEF TrailInv

(* The literals of ls are of a level there is.                              *)
Bounded(t, ls) == ls \subseteq Lits /\ \A k \in ls : LevelIn(t, k) <= Lev(t)

(* assignment_level is the highest level of the other literals, or 0 if     *)
(* there are none.                                                          *)
LEMMA AssignmentLevelSpec ==
  ASSUME NEW t, TrailInv(t), NEW l \in Lits, NEW ls, Bounded(t, ls \ {l})
  PROVE  /\ AssignmentLevel(t, l, ls) \in 0 .. Lev(t)
         /\ \A k \in ls \ {l} : LevelIn(t, k) <= AssignmentLevel(t, l, ls)
         /\ AssignmentLevel(t, l, ls) = 0 \/ \E k \in ls \ {l} : LevelIn(t, k) = AssignmentLevel(t, l, ls)
<1>. DEFINE S == {LevelIn(t, k) : k \in ls \ {l}}
<1>1. t \in AsgType /\ Lev(t) \in Nat
  BY TrailFacts, AsgFacts
<1>2. \A k \in ls \ {l} : LevelIn(t, k) \in Nat /\ LevelIn(t, k) <= Lev(t)
  BY <1>1, AsgFacts DEF Bounded
<1>3. S \in SUBSET Nat /\ \A k \in S : k <= Lev(t)
  BY <1>2
<1>4. \A k \in ls \ {l} : LevelIn(t, k) \in S
  OBVIOUS
<1>5. \A s \in S : \E k \in ls \ {l} : LevelIn(t, k) = s
  OBVIOUS
<1>6. AssignmentLevel(t, l, ls) = Maximum(S)
  BY DEF AssignmentLevel
<1>. HIDE DEF S
<1>7. /\ Maximum(S) \in S \cup {0} /\ Maximum(S) \in Nat
      /\ \A k \in S : k <= Maximum(S)
  BY <1>1, <1>3, MaximumSpec
<1>8. Maximum(S) <= Lev(t)
  BY <1>1, <1>3, <1>7
<1>. QED  BY <1>1, <1>4, <1>5, <1>6, <1>7, <1>8

(* search_assign puts one literal on the trail.                             *)
LEMMA AssignGrows ==
  ASSUME NEW t, TrailInv(t), NEW l \in Lits, NEW c \in Nat, NEW ls, Bounded(t, ls \ {l})
  PROVE  /\ Assign(t, l, c, ls) \in AsgType
         /\ Grows(t, Assign(t, l, c, ls), l, AssignmentLevel(t, l, ls),
                  IF AssignmentLevel(t, l, ls) = 0 THEN 0 ELSE c)
<1>. DEFINE n == AssignmentLevel(t, l, ls)
            u == Assign(t, l, c, ls)
            r == IF n = 0 THEN 0 ELSE c
<1>1. n \in Nat
  BY AssignmentLevelSpec, TrailFacts, AsgFacts
<1>2. t \in AsgType
  BY TrailFacts
<1>3. Idx(l) \in Var /\ \A k \in Lits : Idx(k) = Idx(l) => k = l \/ k = -l
  BY LitFacts
<1>4. u = [t EXCEPT !.trail = Append(@, l), !.var[Idx(l)] = [level |-> n, reason |-> r]]
  BY DEF Assign
<1>. HIDE DEF n, u
<1>5. /\ u.trail = Append(t.trail, l) /\ u.control = t.control /\ u.propagated = t.propagated
      /\ u.var = [t.var EXCEPT ![Idx(l)] = [level |-> n, reason |-> r]]
      /\ u = [trail |-> u.trail, var |-> u.var, control |-> u.control, propagated |-> u.propagated]
  BY <1>2, <1>4 DEF AsgType
<1>6. /\ t.trail \in Seq(Lits) /\ t.control \in Seq([decision : Int, trail : Nat])
      /\ t.propagated \in Nat /\ t.var \in [Var -> [level : Nat, reason : Nat]]
  BY <1>2 DEF AsgType
<1>7. u.var \in [Var -> [level : Nat, reason : Nat]]
  <2>1. [level |-> n, reason |-> r] \in [level : Nat, reason : Nat]
    BY <1>1
  <2>. HIDE DEF r
  <2>. QED  BY <2>1, <1>5, <1>6
<1>8. u.trail \in Seq(Lits)
  BY <1>5, <1>6
<1>9. u \in AsgType
  BY <1>5, <1>6, <1>7, <1>8 DEF AsgType
<1>10. LevelIn(u, l) = n /\ ReasonIn(u, l) = r
  BY <1>3, <1>5, <1>6 DEF LevelIn, ReasonIn
<1>11. ASSUME NEW k \in Lits, k # l, k # -l
       PROVE  LevelIn(u, k) = LevelIn(t, k) /\ ReasonIn(u, k) = ReasonIn(t, k)
  <2>1. Idx(k) # Idx(l) /\ Idx(k) \in Var
    BY <1>3, <1>11, LitFacts
  <2>2. u.var[Idx(k)] = t.var[Idx(k)]
    BY <2>1, <1>5, <1>6
  <2>. QED  BY <2>2 DEF LevelIn, ReasonIn
<1>12. Grows(t, u, l, n, r)
  BY <1>5, <1>10, <1>11 DEF Grows
<1>. QED  BY <1>9, <1>12 DEF n, u

(* search_assign with a clause, or for a unit, keeps the invariant of the   *)
(* trail.                                                                   *)
LEMMA AssignInv ==
  ASSUME NEW t, TrailInv(t), NEW l \in Lits, ~On(t, l), ~On(t, -l), NEW c \in Nat, NEW ls,
         Bounded(t, ls \ {l}), c # 0 \/ ls = {l}
  PROVE  TrailInv(Assign(t, l, c, ls))
<1>. DEFINE n == AssignmentLevel(t, l, ls)
            r == IF n = 0 THEN 0 ELSE c
<1>1. /\ n \in 0 .. Lev(t)
      /\ n = 0 \/ \E k \in ls \ {l} : LevelIn(t, k) = n
  BY AssignmentLevelSpec
<1>2. c = 0 => n = 0
  BY <1>1
<1>3. Lev(t) \in Nat
  BY TrailFacts, AsgFacts
<1>4. r \in Nat /\ (r # 0 => n > 0) /\ (r = 0 => n = 0)
  BY <1>1, <1>2, <1>3
<1>5. Assign(t, l, c, ls) \in AsgType /\ Grows(t, Assign(t, l, c, ls), l, n, r)
  BY AssignGrows
<1>6. r = 0 /\ n > 0 => n = Lev(t) /\ t.control[n] = [decision |-> l, trail |-> Len(t.trail)]
  BY <1>4
<1>. HIDE DEF n, r
<1>. QED  BY <1>1, <1>4, <1>5, <1>6, GrowsInv

(* u is t with one more level, for the decision l.                          *)
Opens(t, u, l) ==
  /\ u.trail = t.trail /\ u.var = t.var /\ u.propagated = t.propagated
  /\ Lev(u) = Lev(t) + 1
  /\ \A i \in 1 .. Lev(t) : u.control[i] = t.control[i]
  /\ u.control[Lev(t) + 1] = [decision |-> l, trail |-> Len(t.trail)]

(* new_trail_level opens a level and leaves the rest alone.                 *)
LEMMA NewLevelOpens ==
  ASSUME NEW t, TrailInv(t), NEW l \in Int
  PROVE  NewLevel(t, l) \in AsgType /\ Opens(t, NewLevel(t, l), l)
<1>. DEFINE u == NewLevel(t, l)
            e == [decision |-> l, trail |-> Len(t.trail)]
<1>1. t \in AsgType /\ Len(t.trail) \in Nat /\ Lev(t) \in Nat
  BY TrailFacts, AsgFacts
<1>2. e \in [decision : Int, trail : Nat]
  BY <1>1
<1>3. u = [t EXCEPT !.control = Append(@, e)]
  BY DEF NewLevel
<1>. HIDE DEF u, e
<1>4. /\ u.trail = t.trail /\ u.var = t.var /\ u.propagated = t.propagated
      /\ u.control = Append(t.control, e)
      /\ u = [trail |-> u.trail, var |-> u.var, control |-> u.control, propagated |-> u.propagated]
  BY <1>1, <1>3 DEF AsgType
<1>5. /\ t.trail \in Seq(Lits) /\ t.control \in Seq([decision : Int, trail : Nat])
      /\ t.propagated \in Nat /\ t.var \in [Var -> [level : Nat, reason : Nat]]
  BY <1>1 DEF AsgType
<1>6. u.control \in Seq([decision : Int, trail : Nat])
  BY <1>2, <1>4, <1>5
<1>7. u \in AsgType
  BY <1>4, <1>5, <1>6 DEF AsgType
<1>8. Lev(u) = Lev(t) + 1
  BY <1>4, <1>5 DEF Lev
<1>9. \A i \in 1 .. Lev(t) : u.control[i] = t.control[i]
  BY <1>4, <1>5 DEF Lev
<1>10. u.control[Lev(t) + 1] = e
  BY <1>4, <1>5 DEF Lev
<1>. QED  BY <1>4, <1>7, <1>8, <1>9, <1>10 DEF Opens, u, e

(* A new level, opened when everything is propagated, keeps the invariant   *)
(* of the trail.                                                            *)
LEMMA OpensFacts ==
  ASSUME NEW t, TrailInv(t), NEW u \in AsgType, NEW l, Opens(t, u, l), t.propagated = Len(t.trail)
  PROVE  /\ TrailInv(u)
         /\ \A k : On(u, k) <=> On(t, k)
         /\ \A k : LevelIn(u, k) = LevelIn(t, k) /\ ReasonIn(u, k) = ReasonIn(t, k)
<1>1. /\ t \in AsgType /\ Len(t.trail) \in Nat /\ DOMAIN t.trail = 1 .. Len(t.trail)
      /\ Lev(t) \in Nat /\ DOMAIN t.control = 1 .. Lev(t) /\ DOMAIN u.control = 1 .. Lev(t) + 1
      /\ \A i \in 1 .. Lev(t) : t.control[i].trail \in Nat
  BY TrailFacts, AsgFacts DEF Opens
<1>2. /\ u.trail = t.trail /\ u.var = t.var /\ u.propagated = t.propagated
      /\ Lev(u) = Lev(t) + 1
      /\ \A i \in 1 .. Lev(t) : u.control[i] = t.control[i]
      /\ u.control[Lev(t) + 1] = [decision |-> l, trail |-> Len(t.trail)]
  BY DEF Opens
<1>3. \A k : LevelIn(u, k) = LevelIn(t, k) /\ ReasonIn(u, k) = ReasonIn(t, k)
  BY <1>2 DEF LevelIn, ReasonIn
<1>4. \A k : On(u, k) <=> On(t, k)
  BY <1>2 DEF On
<1>5. Once(u.trail)
  BY <1>2 DEF TrailInv
<1>6. /\ \A i, j \in 1 .. Lev(t) : i <= j => t.control[i].trail <= t.control[j].trail
      /\ \A i \in 1 .. Lev(t) : t.control[i].trail <= t.propagated
      /\ \A k \in DOMAIN t.trail :
              /\ LevelIn(t, t.trail[k]) <= Lev(t)
              /\ LevelIn(t, t.trail[k]) > 0 => k > t.control[LevelIn(t, t.trail[k])].trail
  BY TrailFacts
<1>7. u.control[Lev(t) + 1].trail = Len(t.trail)
  BY <1>2
<1>8. Stacked(u)
  <2>1. ASSUME NEW i \in 1 .. Lev(t) + 1, NEW j \in 1 .. Lev(t) + 1, i <= j
        PROVE  u.control[i].trail <= u.control[j].trail
    <3>1. CASE j \in 1 .. Lev(t)
      <4>1. i \in 1 .. Lev(t)
        BY <1>1, <2>1, <3>1
      <4>. QED  BY <4>1, <3>1, <2>1, <1>2, <1>6
    <3>2. CASE j = Lev(t) + 1 /\ i \in 1 .. Lev(t)
      BY <3>2, <1>2, <1>6, <1>7
    <3>3. CASE j = Lev(t) + 1 /\ i = Lev(t) + 1
      BY <3>3, <1>1, <1>7
    <3>. QED  BY <3>1, <3>2, <3>3, <1>1
  <2>2. ASSUME NEW i \in 1 .. Lev(t) + 1
        PROVE  u.control[i].trail <= u.propagated
    <3>1. CASE i \in 1 .. Lev(t)
      BY <3>1, <1>2, <1>6
    <3>2. CASE i = Lev(t) + 1
      BY <3>2, <1>1, <1>2, <1>7
    <3>. QED  BY <3>1, <3>2, <1>1
  <2>3. u.propagated <= Len(u.trail)
    BY <1>1, <1>2
  <2>. QED  BY <2>1, <2>2, <2>3, <1>1 DEF Stacked
<1>9. \A k \in DOMAIN t.trail : t.trail[k] \in Lits /\ LevelIn(t, t.trail[k]) \in Nat
  BY <1>1, AsgFacts
<1>10. Leveled(u)
  <2>1. SUFFICES ASSUME NEW k \in DOMAIN t.trail
                 PROVE  /\ LevelIn(t, t.trail[k]) <= Lev(u)
                        /\ LevelIn(t, t.trail[k]) > 0 => k > u.control[LevelIn(t, t.trail[k])].trail
    BY <1>2, <1>3 DEF Leveled
  <2>2. LevelIn(t, t.trail[k]) > 0 => LevelIn(t, t.trail[k]) \in 1 .. Lev(t)
    BY <1>1, <1>6, <1>9
  <2>. QED  BY <2>2, <1>1, <1>2, <1>6, <1>9
<1>11. Decisions(u)
  <2>1. SUFFICES ASSUME NEW k \in DOMAIN t.trail
                 PROVE  /\ ReasonIn(t, t.trail[k]) = 0 /\ LevelIn(t, t.trail[k]) > 0 => Decision(u, k)
                        /\ ReasonIn(t, t.trail[k]) # 0 => LevelIn(t, t.trail[k]) > 0
    BY <1>2, <1>3 DEF Decisions
  <2>2. /\ ReasonIn(t, t.trail[k]) = 0 /\ LevelIn(t, t.trail[k]) > 0 => Decision(t, k)
        /\ ReasonIn(t, t.trail[k]) # 0 => LevelIn(t, t.trail[k]) > 0
    BY DEF TrailInv, Decisions
  <2>3. ASSUME ReasonIn(t, t.trail[k]) = 0, LevelIn(t, t.trail[k]) > 0
        PROVE  Decision(u, k)
    <3>. DEFINE m == LevelIn(t, t.trail[k])
    <3>1. m \in 1 .. Lev(t)
      BY <1>1, <1>6, <1>9, <2>3
    <3>2. /\ t.control[m] = [decision |-> t.trail[k], trail |-> k - 1]
          /\ \A j \in m + 1 .. Lev(t) : k <= t.control[j].trail
      BY <2>2, <2>3 DEF Decision
    <3>3. u.control[m] = [decision |-> t.trail[k], trail |-> k - 1]
      BY <3>1, <3>2, <1>2
    <3>4. ASSUME NEW j \in m + 1 .. Lev(t) + 1
          PROVE  k <= u.control[j].trail
      <4>1. CASE j = Lev(t) + 1
        BY <4>1, <1>1, <1>7
      <4>2. CASE j # Lev(t) + 1
        <5>0. m \in Nat /\ m >= 1 /\ Lev(t) \in Nat
          BY <3>1, <1>1
        <5>. HIDE DEF m
        <5>1. j \in m + 1 .. Lev(t) /\ j \in 1 .. Lev(t)
          BY <4>2, <5>0
        <5>. QED  BY <5>1, <3>2, <1>2
      <4>. QED  BY <4>1, <4>2
    <3>5. u.trail[k] = t.trail[k] /\ LevelIn(u, t.trail[k]) = m
      BY <1>2, <1>3
    <3>. HIDE DEF m
    <3>. QED  BY <3>3, <3>4, <3>5, <1>2 DEF Decision
  <2>. QED  BY <2>2, <2>3
<1>. QED  BY <1>3, <1>4, <1>5, <1>8, <1>10, <1>11 DEF TrailInv

(* A decision opens a level and puts its literal on the trail.              *)
LEMMA DecidedFacts ==
  ASSUME NEW t, TrailInv(t), NEW l \in Lits, ~On(t, l), ~On(t, -l), t.propagated = Len(t.trail)
  PROVE  /\ Opens(t, NewLevel(t, l), l) /\ TrailInv(NewLevel(t, l))
         /\ Grows(NewLevel(t, l), Decided(t, l), l, Lev(t) + 1, 0)
         /\ TrailInv(Decided(t, l))
<1>. DEFINE u == NewLevel(t, l)
            d == Decided(t, l)
<1>1. l \in Int
  BY LitFacts
<1>2. u \in AsgType /\ Opens(t, u, l)
  BY <1>1, NewLevelOpens
<1>3. TrailInv(u) /\ ~On(u, l) /\ ~On(u, -l)
  BY <1>2, OpensFacts
<1>4. Lev(t) \in Nat /\ Lev(u) = Lev(t) + 1 /\ Len(u.control) = Lev(t) + 1
      /\ u.control[Lev(t) + 1] = [decision |-> l, trail |-> Len(t.trail)]
      /\ u.trail = t.trail
  BY <1>2, TrailFacts, AsgFacts DEF Opens, Lev
<1>5. d = [u EXCEPT !.trail = Append(@, l),
                !.var[Idx(l)] = [level |-> Len(u.control), reason |-> 0]]
  BY DEF Decided
<1>6. Idx(l) \in Var /\ \A k \in Lits : Idx(k) = Idx(l) => k = l \/ k = -l
  BY LitFacts
<1>. HIDE DEF u, d
<1>7. /\ d.trail = Append(u.trail, l) /\ d.control = u.control /\ d.propagated = u.propagated
      /\ d.var = [u.var EXCEPT ![Idx(l)] = [level |-> Len(u.control), reason |-> 0]]
      /\ d = [trail |-> d.trail, var |-> d.var, control |-> d.control, propagated |-> d.propagated]
  BY <1>2, <1>5 DEF AsgType
<1>8. /\ u.trail \in Seq(Lits) /\ u.control \in Seq([decision : Int, trail : Nat])
      /\ u.propagated \in Nat /\ u.var \in [Var -> [level : Nat, reason : Nat]]
  BY <1>2 DEF AsgType
<1>9. d.var \in [Var -> [level : Nat, reason : Nat]]
  <2>1. [level |-> Len(u.control), reason |-> 0] \in [level : Nat, reason : Nat]
    BY <1>4
  <2>. QED  BY <2>1, <1>7, <1>8
<1>10. d.trail \in Seq(Lits)
  BY <1>7, <1>8
<1>11. d \in AsgType
  BY <1>7, <1>8, <1>9, <1>10 DEF AsgType
<1>12. LevelIn(d, l) = Lev(t) + 1 /\ ReasonIn(d, l) = 0
  BY <1>4, <1>6, <1>7, <1>8 DEF LevelIn, ReasonIn
<1>13. ASSUME NEW k \in Lits, k # l, k # -l
       PROVE  LevelIn(d, k) = LevelIn(u, k) /\ ReasonIn(d, k) = ReasonIn(u, k)
  <2>1. Idx(k) # Idx(l) /\ Idx(k) \in Var
    BY <1>6, <1>13, LitFacts
  <2>2. d.var[Idx(k)] = u.var[Idx(k)]
    BY <2>1, <1>7, <1>8
  <2>. QED  BY <2>2 DEF LevelIn, ReasonIn
<1>14. Grows(u, d, l, Lev(t) + 1, 0)
  BY <1>7, <1>12, <1>13 DEF Grows
<1>15. TrailInv(d)
  <2>1. Lev(t) + 1 \in 0 .. Lev(u) /\ 0 \in Nat
    BY <1>4
  <2>2. Lev(t) + 1 = Lev(u) /\ u.control[Lev(t) + 1] = [decision |-> l, trail |-> Len(u.trail)]
    BY <1>4
  <2>. QED  BY <2>1, <2>2, <1>3, <1>11, <1>14, GrowsInv
<1>. QED  BY <1>2, <1>3, <1>14, <1>15 DEF u, d

(* What stays on the trail when only n levels do.                           *)
Remaining(t, n) == {l \in ToSet(t.trail) : LevelIn(t, l) <= n}

(* u is t without its levels above n; g tells where the literals left were. *)
Cut(t, u, n, g) ==
  /\ Lev(u) = n
  /\ \A i \in 1 .. n : u.control[i] = t.control[i]
  /\ n = Lev(t) => u = t
  /\ n < Lev(t) => u.propagated = t.control[n + 1].trail
  /\ Embeds(t.trail, Remaining(t, n), u.trail, g)
  /\ \A k \in 1 .. Len(u.trail) : k <= u.propagated => g[k] = k
  /\ \A k \in 1 .. Len(u.trail) : k > u.propagated => g[k] > u.propagated
  /\ \A l \in Lits : LevelIn(t, l) <= n =>
       LevelIn(u, l) = LevelIn(t, l) /\ ReasonIn(u, l) = ReasonIn(t, l)

(* The front of a sequence.                                                 *)
LEMMA PrefixFacts ==
  ASSUME NEW S, NEW s \in Seq(S), NEW n \in Nat, n <= Len(s)
  PROVE  /\ SubSeq(s, 1, n) \in Seq(S) /\ Len(SubSeq(s, 1, n)) = n
         /\ \A i \in 1 .. n : SubSeq(s, 1, n)[i] = s[i]
OBVIOUS

(* What lies before the first decision that is undone is of a level that    *)
(* stays.                                                                   *)
LEMMA LowPlaces ==
  ASSUME NEW t, TrailInv(t), NEW n \in 0 .. Lev(t) - 1, NEW k \in 1 .. Len(t.trail),
         k <= t.control[n + 1].trail
  PROVE  LevelIn(t, t.trail[k]) <= n
<1>1. /\ t \in AsgType /\ Len(t.trail) \in Nat /\ Lev(t) \in Nat /\ DOMAIN t.trail = 1 .. Len(t.trail)
      /\ \A i \in 1 .. Lev(t) : t.control[i].trail \in Nat
      /\ t.trail[k] \in Lits /\ LevelIn(t, t.trail[k]) \in Nat
  BY TrailFacts, AsgFacts
<1>. DEFINE m == LevelIn(t, t.trail[k])
<1>2. SUFFICES ASSUME m > n PROVE FALSE
  BY <1>1
<1>3. m <= Lev(t) /\ (m > 0 => k > t.control[m].trail)
  BY <1>1, TrailFacts
<1>4. m \in 1 .. Lev(t) /\ n + 1 \in 1 .. Lev(t) /\ n + 1 <= m
  BY <1>1, <1>2, <1>3
<1>5. t.control[n + 1].trail <= t.control[m].trail
  BY <1>4, TrailFacts
<1>. HIDE DEF m
<1>. QED  BY <1>1, <1>3, <1>4, <1>5

(* backtrack keeps the literals of the levels that stay, in their order,    *)
(* also those behind a decision that is undone.                             *)
LEMMA BacktrackCut ==
  ASSUME NEW t, TrailInv(t), NEW n \in 0 .. Lev(t)
  PROVE  Backtrack(t, n) \in AsgType /\ \E g : Cut(t, Backtrack(t, n), n, g)
<1>1. /\ t \in AsgType /\ Len(t.trail) \in Nat /\ Lev(t) \in Nat /\ DOMAIN t.trail = 1 .. Len(t.trail)
      /\ \A i \in 1 .. Lev(t) : t.control[i].trail \in Nat
      /\ \A k \in DOMAIN t.trail : t.trail[k] \in Lits /\ LevelIn(t, t.trail[k]) \in Nat
      /\ t.propagated \in Nat
  BY TrailFacts, AsgFacts
<1>2. CASE n = Lev(t)
  <2>1. Backtrack(t, n) = t
    BY <1>2 DEF Backtrack, Lev
  <2>. DEFINE g == [k \in 1 .. Len(t.trail) |-> k]
  <2>2. \A k \in 1 .. Len(t.trail) : t.trail[k] \in Remaining(t, n)
    <3>1. \A k \in 1 .. Len(t.trail) : LevelIn(t, t.trail[k]) <= n
      BY <1>1, <1>2, TrailFacts
    <3>2. \A k \in 1 .. Len(t.trail) : t.trail[k] \in ToSet(t.trail)
      BY <1>1 DEF ToSet
    <3>. QED  BY <3>1, <3>2 DEF Remaining
  <2>3. Embeds(t.trail, Remaining(t, n), t.trail, g)
    BY <2>2 DEF Embeds
  <2>4. Cut(t, t, n, g)
    BY <1>2, <2>3 DEF Cut
  <2>. HIDE DEF g
  <2>. QED  BY <1>1, <2>1, <2>4
<1>3. CASE n < Lev(t)
  <2>. DEFINE S == Remaining(t, n)
              r == Restricted(t.trail, S)
              p == t.control[n + 1].trail
              u == Backtrack(t, n)
  <2>1. /\ t.trail \in Seq(Lits) /\ t.control \in Seq([decision : Int, trail : Nat])
        /\ t.var \in [Var -> [level : Nat, reason : Nat]]
    BY <1>1 DEF AsgType
  <2>2. n + 1 \in 1 .. Lev(t) /\ n \in 0 .. Lev(t) - 1 /\ n \in Nat
    BY <1>1, <1>3
  <2>3. p \in Nat /\ p <= t.propagated /\ p <= Len(t.trail) /\ t.propagated <= Len(t.trail)
    BY <1>1, <2>2, TrailFacts
  <2>. HIDE DEF p
  <2>4. Repropagate(t, n) = p
    <3>1. {t.propagated, p} \in SUBSET Nat
      BY <2>3, <1>1
    <3>2. \A x \in {t.propagated, p} : p <= x
      BY <2>3, <1>1
    <3>3. Min({t.propagated, p}) \in {t.propagated, p} /\ \A x \in {t.propagated, p} : Min({t.propagated, p}) <= x
      <4>1. \E x \in {t.propagated, p} : \A y \in {t.propagated, p} : x <= y
        BY <3>2
      <4>. QED  BY <4>1 DEF Min
    <3>4. Min({t.propagated, p}) = p
      BY <3>2, <3>3, <1>1, <2>3
    <3>. QED  BY <3>4 DEF Repropagate, p
  <2>5. /\ u = [trail |-> r,
                var |-> [v \in Var |-> IF t.var[v].level <= n THEN t.var[v] ELSE Unassigned],
                control |-> SubSeq(t.control, 1, n),
                propagated |-> p]
    BY <1>3, <2>4, <1>1 DEF Backtrack, Lev, Remaining
  <2>6. r \in Seq(Lits) /\ \E g : Embeds(t.trail, S, r, g)
    BY <2>1, RestrictedSpec
  <2>7. PICK g : Embeds(t.trail, S, r, g)
    BY <2>6
  <2>. HIDE DEF u
  <2>8. \A k \in 1 .. p : t.trail[k] \in S
    <3>1. SUFFICES ASSUME NEW k \in 1 .. p PROVE t.trail[k] \in S
      OBVIOUS
    <3>2. k \in 1 .. Len(t.trail)
      BY <2>3, <1>1
    <3>3. LevelIn(t, t.trail[k]) <= n
      BY <3>2, <2>2, LowPlaces DEF p
    <3>4. t.trail[k] \in ToSet(t.trail)
      BY <3>2, <1>1 DEF ToSet
    <3>. QED  BY <3>3, <3>4 DEF Remaining
  <2>9. Len(r) \in Nat
    BY <2>6
  <2>. HIDE DEF r, S
  <2>10. /\ p <= Len(r)
         /\ \A k \in 1 .. p : g[k] = k
         /\ \A i \in 1 .. Len(r) : i > p => g[i] > p
    <3>1. p \in 0 .. Len(t.trail)
      BY <2>3, <1>1
    <3>. QED  BY <3>1, <2>7, <2>8, <2>9, <1>1, RestrictedPrefix
  <2>11. u.var = [v \in Var |-> IF t.var[v].level <= n THEN t.var[v] ELSE Unassigned]
         /\ u.trail = r /\ u.control = SubSeq(t.control, 1, n) /\ u.propagated = p
         /\ u = [trail |-> u.trail, var |-> u.var, control |-> u.control, propagated |-> u.propagated]
    BY <2>5
  <2>12. u.var \in [Var -> [level : Nat, reason : Nat]]
    <3>1. Unassigned \in [level : Nat, reason : Nat]
      BY DEF Unassigned
    <3>. QED  BY <3>1, <2>1, <2>11
  <2>13. n <= Len(t.control) /\ Len(t.control) \in Nat
    BY <1>1, <1>3 DEF Lev
  <2>14. u.control \in Seq([decision : Int, trail : Nat]) /\ Len(u.control) = n
         /\ \A i \in 1 .. n : u.control[i] = t.control[i]
    <3>. DEFINE C == [decision : Int, trail : Nat]
    <3>1. t.control \in Seq(C)
      BY <2>1
    <3>. HIDE DEF C
    <3>2. /\ SubSeq(t.control, 1, n) \in Seq(C) /\ Len(SubSeq(t.control, 1, n)) = n
          /\ \A i \in 1 .. n : SubSeq(t.control, 1, n)[i] = t.control[i]
      BY <3>1, <2>2, <2>13, PrefixFacts
    <3>3. u.control = SubSeq(t.control, 1, n)
      BY <2>11
    <3>. QED  BY <3>2, <3>3 DEF C
  <2>15. u \in AsgType
    BY <2>3, <2>6, <2>11, <2>12, <2>14 DEF AsgType, r
  <2>16. ASSUME NEW l \in Lits, LevelIn(t, l) <= n
         PROVE  LevelIn(u, l) = LevelIn(t, l) /\ ReasonIn(u, l) = ReasonIn(t, l)
    <3>1. Idx(l) \in Var /\ t.var[Idx(l)].level <= n
      BY <2>16, LitFacts DEF LevelIn
    <3>2. u.var[Idx(l)] = t.var[Idx(l)]
      BY <3>1, <2>11
    <3>. QED  BY <3>2 DEF LevelIn, ReasonIn
  <2>17. /\ n # Lev(t) /\ u.propagated = t.control[n + 1].trail
    BY <1>3, <1>1, <2>11 DEF p
  <2>18. Embeds(t.trail, Remaining(t, n), u.trail, g)
    BY <2>7, <2>11 DEF S
  <2>19. \A k \in 1 .. Len(u.trail) : (k <= u.propagated => g[k] = k) /\ (k > u.propagated => g[k] > u.propagated)
    BY <2>9, <2>10, <2>11, <2>3
  <2>20. Cut(t, u, n, g)
    BY <2>14, <2>16, <2>17, <2>18, <2>19 DEF Cut, Lev
  <2>. QED  BY <2>15, <2>20 DEF u
<1>. QED  BY <1>1, <1>2, <1>3

(* The places of a trail that was cut: each comes from one before, with its *)
(* level and reason.                                                        *)
LEMMA CutFacts ==
  ASSUME NEW t, TrailInv(t), NEW n \in 0 .. Lev(t), NEW u \in AsgType, NEW g, Cut(t, u, n, g)
  PROVE  /\ \A k \in DOMAIN u.trail :
              /\ g[k] \in DOMAIN t.trail /\ u.trail[k] = t.trail[g[k]]
              /\ LevelIn(t, u.trail[k]) <= n
              /\ LevelIn(u, u.trail[k]) = LevelIn(t, u.trail[k])
              /\ ReasonIn(u, u.trail[k]) = ReasonIn(t, u.trail[k])
         /\ \A i, j \in DOMAIN u.trail : i < j => g[i] < g[j]
         /\ \A i, j \in DOMAIN u.trail : g[i] < g[j] => i < j
         /\ \A i, j \in DOMAIN u.trail : g[i] = g[j] => i = j
         /\ \A k \in DOMAIN t.trail : LevelIn(t, t.trail[k]) <= n =>
              \E i \in DOMAIN u.trail : g[i] = k
         /\ \A l \in Lits : On(u, l) <=> On(t, l) /\ LevelIn(t, l) <= n
         /\ \A l \in Lits : On(u, l) \/ On(u, -l) =>
              LevelIn(u, l) = LevelIn(t, l) /\ ReasonIn(u, l) = ReasonIn(t, l)
<1>1. /\ t \in AsgType /\ Len(t.trail) \in Nat /\ DOMAIN t.trail = 1 .. Len(t.trail)
      /\ \A k \in DOMAIN t.trail : t.trail[k] \in Lits
  BY TrailFacts, AsgFacts
<1>2. /\ Len(u.trail) \in Nat /\ DOMAIN u.trail = 1 .. Len(u.trail)
      /\ \A k \in DOMAIN u.trail : u.trail[k] \in Lits
  BY AsgFacts
<1>3. /\ g \in [DOMAIN u.trail -> DOMAIN t.trail]
      /\ \A i \in DOMAIN u.trail : u.trail[i] = t.trail[g[i]] /\ t.trail[g[i]] \in Remaining(t, n)
      /\ \A i, j \in DOMAIN u.trail : i < j => g[i] < g[j]
      /\ \A k \in DOMAIN t.trail : t.trail[k] \in Remaining(t, n) => \E i \in DOMAIN u.trail : g[i] = k
  BY <1>1, <1>2 DEF Cut, Embeds
<1>4. \A l \in Lits : LevelIn(t, l) <= n =>
       LevelIn(u, l) = LevelIn(t, l) /\ ReasonIn(u, l) = ReasonIn(t, l)
  BY DEF Cut
<1>5. \A l : l \in Remaining(t, n) <=> On(t, l) /\ LevelIn(t, l) <= n
  BY DEF Remaining, On
<1>6. \A k \in DOMAIN u.trail :
              /\ g[k] \in DOMAIN t.trail /\ u.trail[k] = t.trail[g[k]]
              /\ LevelIn(t, u.trail[k]) <= n
              /\ LevelIn(u, u.trail[k]) = LevelIn(t, u.trail[k])
              /\ ReasonIn(u, u.trail[k]) = ReasonIn(t, u.trail[k])
  BY <1>2, <1>3, <1>4, <1>5
<1>7. ASSUME NEW i \in DOMAIN u.trail, NEW j \in DOMAIN u.trail
      PROVE  (g[i] < g[j] => i < j) /\ (g[i] = g[j] => i = j)
  <2>1. i \in Nat /\ j \in Nat /\ g[i] \in Nat /\ g[j] \in Nat
    BY <1>1, <1>2, <1>3
  <2>2. (i < j => g[i] < g[j]) /\ (j < i => g[j] < g[i])
    BY <1>3
  <2>. QED  BY <2>1, <2>2
<1>8. ASSUME NEW k \in DOMAIN t.trail, LevelIn(t, t.trail[k]) <= n
      PROVE  \E i \in DOMAIN u.trail : g[i] = k
  <2>1. On(t, t.trail[k])
    BY <1>1, AsgFacts
  <2>. QED  BY <2>1, <1>3, <1>5, <1>8
<1>9. ASSUME NEW l \in Lits
      PROVE  On(u, l) <=> On(t, l) /\ LevelIn(t, l) <= n
  <2>1. ASSUME On(u, l)
        PROVE  On(t, l) /\ LevelIn(t, l) <= n
    <3>1. PICK k \in DOMAIN u.trail : u.trail[k] = l
      BY <2>1, AsgFacts
    <3>2. l \in Remaining(t, n)
      BY <3>1, <1>3
    <3>. QED  BY <3>2, <1>5
  <2>2. ASSUME On(t, l), LevelIn(t, l) <= n
        PROVE  On(u, l)
    <3>1. PICK k \in DOMAIN t.trail : t.trail[k] = l
      BY <1>1, <2>2, AsgFacts
    <3>2. PICK i \in DOMAIN u.trail : g[i] = k
      BY <3>1, <2>2, <1>8
    <3>3. u.trail[i] = l
      BY <3>1, <3>2, <1>3
    <3>. QED  BY <3>3, AsgFacts
  <2>. QED  BY <2>1, <2>2
<1>10. ASSUME NEW l \in Lits, On(u, l) \/ On(u, -l)
       PROVE  LevelIn(u, l) = LevelIn(t, l) /\ ReasonIn(u, l) = ReasonIn(t, l)
  <2>1. -l \in Lits /\ LevelIn(t, -l) = LevelIn(t, l)
    BY <1>1, LitFacts, AsgFacts
  <2>2. LevelIn(t, l) <= n
    BY <1>9, <1>10, <2>1
  <2>. QED  BY <2>2, <1>4
<1>. QED  BY <1>3, <1>6, <1>7, <1>8, <1>9, <1>10

(* backtrack keeps the invariant of the trail.                              *)
LEMMA CutInv ==
  ASSUME NEW t, TrailInv(t), NEW n \in 0 .. Lev(t), NEW u \in AsgType, NEW g, Cut(t, u, n, g)
  PROVE  TrailInv(u) /\ u.propagated <= t.propagated
<1>1. CASE n = Lev(t)
  <2>1. u = t
    BY <1>1 DEF Cut
  <2>2. t.propagated \in Nat
    BY TrailFacts, AsgFacts
  <2>. QED  BY <2>1, <2>2
<1>2. CASE n # Lev(t)
  <2>1. /\ t \in AsgType /\ Len(t.trail) \in Nat /\ Lev(t) \in Nat /\ DOMAIN t.trail = 1 .. Len(t.trail)
        /\ \A i \in 1 .. Lev(t) : t.control[i].trail \in Nat
        /\ \A k \in DOMAIN t.trail : t.trail[k] \in Lits /\ LevelIn(t, t.trail[k]) \in Nat
        /\ t.propagated \in Nat /\ n < Lev(t) /\ n + 1 \in 1 .. Lev(t) /\ n \in Nat
    BY <1>2, TrailFacts, AsgFacts
  <2>2. /\ Len(u.trail) \in Nat /\ DOMAIN u.trail = 1 .. Len(u.trail) /\ u.propagated \in Nat
        /\ Lev(u) = n /\ DOMAIN u.control = 1 .. n
        /\ \A i \in 1 .. n : u.control[i] = t.control[i]
        /\ u.propagated = t.control[n + 1].trail
        /\ \A k \in 1 .. Len(u.trail) : k <= u.propagated => g[k] = k
        /\ \A k \in 1 .. Len(u.trail) : k > u.propagated => g[k] > u.propagated
    BY <2>1, AsgFacts DEF Cut
  <2>3. \A i, j \in DOMAIN u.trail : g[i] = g[j] => i = j
    BY CutFacts
  <2>4. \A k \in DOMAIN u.trail :
              /\ g[k] \in DOMAIN t.trail /\ u.trail[k] = t.trail[g[k]]
              /\ LevelIn(t, u.trail[k]) <= n
              /\ LevelIn(u, u.trail[k]) = LevelIn(t, u.trail[k])
              /\ ReasonIn(u, u.trail[k]) = ReasonIn(t, u.trail[k])
    BY CutFacts
  <2>5. Once(u.trail)
    <3>1. \A i, j \in DOMAIN t.trail : i # j => t.trail[i] # t.trail[j] /\ t.trail[i] # -t.trail[j]
      BY DEF TrailInv, Once
    <3>. QED  BY <3>1, <2>3, <2>4 DEF Once
  <2>6. \A i, j \in 1 .. Lev(t) : i <= j => t.control[i].trail <= t.control[j].trail
    BY TrailFacts
  <2>7. \A i \in 1 .. n : i \in 1 .. Lev(t) /\ i <= n + 1
    BY <2>1
  <2>8. u.propagated <= Len(u.trail)
    <3>. DEFINE p == u.propagated
    <3>1. \A k \in 1 .. p : k \in DOMAIN t.trail /\ LevelIn(t, t.trail[k]) <= n
      <4>1. p <= Len(t.trail)
        BY <2>1, <2>2, TrailFacts
      <4>2. SUFFICES ASSUME NEW k \in 1 .. p
                     PROVE  k \in DOMAIN t.trail /\ LevelIn(t, t.trail[k]) <= n
        OBVIOUS
      <4>3. k \in 1 .. Len(t.trail) /\ k <= t.control[n + 1].trail /\ n \in 0 .. Lev(t) - 1
        BY <4>1, <2>1, <2>2
      <4>. QED  BY <4>3, <2>1, LowPlaces
    <3>2. CASE p = 0
      BY <3>2, <2>2
    <3>3. CASE p # 0
      <4>1. p \in 1 .. p
        BY <3>3, <2>2
      <4>2. PICK i \in DOMAIN u.trail : g[i] = p
        BY <3>1, <4>1, CutFacts
      <4>3. i <= p => i = p
        BY <4>2, <2>2
      <4>4. i > p => g[i] > p
        BY <4>2, <2>2
      <4>. QED  BY <4>2, <4>3, <4>4, <2>2
    <3>. QED  BY <3>2, <3>3
  <2>9. Stacked(u)
    <3>1. \A i, j \in DOMAIN u.control : i <= j => u.control[i].trail <= u.control[j].trail
      BY <2>2, <2>6, <2>7
    <3>2. \A i \in DOMAIN u.control : u.control[i].trail <= u.propagated
      BY <2>1, <2>2, <2>6, <2>7
    <3>. QED  BY <3>1, <3>2, <2>8 DEF Stacked
  <2>10. Leveled(u)
    <3>1. SUFFICES ASSUME NEW k \in DOMAIN u.trail
                   PROVE  /\ LevelIn(u, u.trail[k]) <= Lev(u)
                          /\ LevelIn(u, u.trail[k]) > 0 => k > u.control[LevelIn(u, u.trail[k])].trail
      BY DEF Leveled
    <3>. DEFINE m == LevelIn(u, u.trail[k])
    <3>2. m = LevelIn(t, t.trail[g[k]]) /\ m \in Nat /\ m <= n /\ g[k] \in DOMAIN t.trail
      BY <2>1, <2>4
    <3>3. m > 0 => g[k] > t.control[m].trail
      BY <3>2, TrailFacts
    <3>4. m > 0 => u.control[m].trail = t.control[m].trail /\ m \in 1 .. n
      BY <3>2, <2>1, <2>2
    <3>5. m > 0 => u.control[m].trail <= u.propagated /\ u.control[m].trail \in Nat
      BY <3>4, <2>1, <2>2, <2>6, <2>7
    <3>. HIDE DEF m
    <3>6. m > 0 => k > u.control[m].trail
      BY <3>3, <3>4, <3>5, <2>2
    <3>. QED  BY <3>2, <3>6, <2>2 DEF m
  <2>11. Decisions(u)
    <3>1. SUFFICES ASSUME NEW k \in DOMAIN u.trail
                   PROVE  /\ ReasonIn(u, u.trail[k]) = 0 /\ LevelIn(u, u.trail[k]) > 0 => Decision(u, k)
                          /\ ReasonIn(u, u.trail[k]) # 0 => LevelIn(u, u.trail[k]) > 0
      BY DEF Decisions
    <3>. DEFINE m == LevelIn(u, u.trail[k])
    <3>2. m = LevelIn(t, t.trail[g[k]]) /\ m \in Nat /\ m <= n /\ g[k] \in DOMAIN t.trail
          /\ ReasonIn(u, u.trail[k]) = ReasonIn(t, t.trail[g[k]])
      BY <2>1, <2>4
    <3>3. /\ ReasonIn(u, u.trail[k]) = 0 /\ m > 0 => Decision(t, g[k])
          /\ ReasonIn(u, u.trail[k]) # 0 => m > 0
      BY <3>2 DEF TrailInv, Decisions
    <3>4. ASSUME Decision(t, g[k]), m > 0
          PROVE  Decision(u, k)
      <4>1. /\ t.control[m] = [decision |-> t.trail[g[k]], trail |-> g[k] - 1]
            /\ \A j \in m + 1 .. Lev(t) : g[k] <= t.control[j].trail
        BY <3>2, <3>4 DEF Decision
      <4>. HIDE DEF m
      <4>2. n + 1 \in m + 1 .. Lev(t) /\ m \in 1 .. n
        BY <3>2, <3>4, <2>1
      <4>3. g[k] <= u.propagated
        BY <4>1, <4>2, <2>2
      <4>4. g[k] = k
        <5>1. k \in 1 .. Len(u.trail) /\ k \in Nat /\ g[k] \in Nat
          BY <2>1, <2>2, <3>2
        <5>2. k > u.propagated => g[k] > u.propagated
          BY <5>1, <2>2
        <5>3. k <= u.propagated
          BY <5>1, <5>2, <4>3, <2>2
        <5>. QED  BY <5>1, <5>3, <2>2
      <4>5. u.control[m] = [decision |-> u.trail[k], trail |-> k - 1]
        BY <4>1, <4>2, <4>4, <2>2, <2>4
      <4>6. \A j \in m + 1 .. n : k <= u.control[j].trail
        <5>1. \A j \in m + 1 .. n : j \in m + 1 .. Lev(t) /\ j \in 1 .. n
          BY <4>2, <2>1
        <5>. QED  BY <5>1, <4>1, <4>4, <2>2
      <4>. QED  BY <4>5, <4>6, <2>2 DEF Decision, m
    <3>. QED  BY <3>3, <3>4
  <2>12. u.propagated <= t.propagated
    BY <2>1, <2>2, TrailFacts
  <2>. QED  BY <2>5, <2>9, <2>10, <2>11, <2>12 DEF TrailInv
<1>. QED  BY <1>1, <1>2

-----------------------------------------------------------------------------
(* Clauses, watches and reasons.                                            *)

(* The shape of the clauses.                                                *)
ClauseType == [lits : Seq(Lits), redundant : BOOLEAN, garbage : BOOLEAN]
ClauseOK(d) == d \in ClauseType /\ Len(d.lits) >= 2 /\ Once(d.lits)
ClausesInv(cl) ==
  /\ IsFiniteSet(DOMAIN cl) /\ DOMAIN cl \subseteq Nat \ {0}
  /\ \A c \in DOMAIN cl : ClauseOK(cl[c])

(* The literals of a clause, as a set, and those watched.                   *)
LS(cl, c)      == ToSet(cl[c].lits)
Watches(cl, c) == {cl[c].lits[1], cl[c].lits[2]}

(* Every watch is one of a clause, by one of its first two literals, with   *)
(* another literal to block; and a clause that is no garbage has both.      *)
WatchesInv(cl, b) ==
  /\ \A w \in DOMAIN b : /\ w = <<w[1], w[2]>>
                         /\ w[2] \in DOMAIN cl /\ w[1] \in Watches(cl, w[2])
                         /\ b[w] \in LS(cl, w[2]) \ {w[1]}
  /\ \A c \in DOMAIN cl : ~cl[c].garbage => \A l \in Watches(cl, c) : <<l, c>> \in DOMAIN b

(* Why the literal at a place of the trail is there. *)
FalseBefore(t, o, k) == \E j \in DOMAIN t.trail : j < k /\ t.trail[j] = -o

(* The clause c forces l at place k: it watches l, its other literals were  *)
(* false before, none of a higher level than l and one of its level.        *)
Forces(cl, t, l, c, k) ==
  /\ c \in DOMAIN cl /\ l \in Watches(cl, c)
  /\ cl[c].garbage => Len(cl[c].lits) = 2
  /\ \A o \in LS(cl, c) \ {l} : LevelIn(t, o) <= LevelIn(t, l) /\ FalseBefore(t, o, k)
  /\ \E o \in LS(cl, c) \ {l} : LevelIn(t, o) = LevelIn(t, l)

(* The reason of the literal at place k forces it.                          *)
ReasonOK(cl, t, k) == Forces(cl, t, t.trail[k], ReasonIn(t, t.trail[k]), k)

(* During an analysis the reasons that it may still come to. *)
Relevant(t, res, k) ==
  \/ res = {} \/ LevelIn(t, t.trail[k]) < Lev(t)
  \/ \E r \in res : LevelIn(t, r) = Lev(t) /\ \E j \in DOMAIN t.trail : t.trail[j] = -r /\ k <= j

(* All reasons that count are sound.                                        *)
ReasonsInv(cl, t, res) == \A k \in DOMAIN t.trail :
  ReasonIn(t, t.trail[k]) # 0 /\ Relevant(t, res, k) => ReasonOK(cl, t, k)

(* The set a sequence lists.                                                *)
LEMMA SetFacts ==
  ASSUME NEW s \in Seq(Lits)
  PROVE  /\ \A l : l \in ToSet(s) <=> \E i \in 1 .. Len(s) : s[i] = l
         /\ ToSet(s) \subseteq Lits
         /\ IsFiniteSet(ToSet(s))
<1>1. \A l : l \in ToSet(s) <=> \E i \in 1 .. Len(s) : s[i] = l
  BY DEF ToSet
<1>2. ToSet(s) \subseteq Lits
  BY <1>1
<1>. QED  BY <1>1, <1>2, LitsFinite, FS_Subset

(* The literals of a clause: at least two, of as many variables, the first  *)
(* two watched.                                                             *)
LEMMA LitsFacts ==
  ASSUME NEW d, ClauseOK(d)
  PROVE  /\ d.lits \in Seq(Lits) /\ Len(d.lits) \in Nat /\ Len(d.lits) >= 2
         /\ DOMAIN d.lits = 1 .. Len(d.lits)
         /\ d.redundant \in BOOLEAN /\ d.garbage \in BOOLEAN
         /\ \A i, j \in 1 .. Len(d.lits) : i # j => d.lits[i] # d.lits[j] /\ d.lits[i] # -d.lits[j]
         /\ d.lits[1] \in ToSet(d.lits) /\ d.lits[2] \in ToSet(d.lits) /\ d.lits[1] # d.lits[2]
         /\ \A l : l \in ToSet(d.lits) <=> \E i \in 1 .. Len(d.lits) : d.lits[i] = l
         /\ ToSet(d.lits) \subseteq Lits
         /\ \A l, k \in ToSet(d.lits) : l # -k
         /\ IsFiniteSet(ToSet(d.lits))
<1>1. d.lits \in Seq(Lits) /\ d.redundant \in BOOLEAN /\ d.garbage \in BOOLEAN
  BY DEF ClauseOK, ClauseType
<1>2. Len(d.lits) \in Nat /\ Len(d.lits) >= 2 /\ DOMAIN d.lits = 1 .. Len(d.lits)
  BY <1>1 DEF ClauseOK
<1>3. \A i, j \in 1 .. Len(d.lits) : i # j => d.lits[i] # d.lits[j] /\ d.lits[i] # -d.lits[j]
  BY <1>2 DEF ClauseOK, Once
<1>4. /\ \A l : l \in ToSet(d.lits) <=> \E i \in 1 .. Len(d.lits) : d.lits[i] = l
      /\ ToSet(d.lits) \subseteq Lits
      /\ IsFiniteSet(ToSet(d.lits))
  BY <1>1, SetFacts
<1>5. 1 \in 1 .. Len(d.lits) /\ 2 \in 1 .. Len(d.lits)
  BY <1>2
<1>6. ASSUME NEW l \in ToSet(d.lits), NEW k \in ToSet(d.lits)
      PROVE  l # -k
  <2>1. PICK i \in 1 .. Len(d.lits) : d.lits[i] = l
    BY <1>4
  <2>2. PICK j \in 1 .. Len(d.lits) : d.lits[j] = k
    BY <1>4
  <2>3. k \in Lits
    BY <1>4
  <2>. QED  BY <2>1, <2>2, <2>3, <1>3, LitFacts
<1>. QED  BY <1>1, <1>2, <1>3, <1>4, <1>5, <1>6

(* The same of a clause with a number.                                      *)
LEMMA ClauseFacts ==
  ASSUME NEW cl, ClausesInv(cl), NEW c \in DOMAIN cl
  PROVE  /\ ClauseOK(cl[c]) /\ c \in Nat /\ c # 0
         /\ cl[c].lits \in Seq(Lits) /\ Len(cl[c].lits) \in Nat /\ Len(cl[c].lits) >= 2
         /\ cl[c].redundant \in BOOLEAN /\ cl[c].garbage \in BOOLEAN
         /\ \A i, j \in 1 .. Len(cl[c].lits) : i # j => cl[c].lits[i] # cl[c].lits[j] /\ cl[c].lits[i] # -cl[c].lits[j]
         /\ Watches(cl, c) \subseteq LS(cl, c) /\ cl[c].lits[1] # cl[c].lits[2]
         /\ \A l : l \in LS(cl, c) <=> \E i \in 1 .. Len(cl[c].lits) : cl[c].lits[i] = l
         /\ LS(cl, c) \subseteq Lits
         /\ \A l, k \in LS(cl, c) : l # -k
         /\ IsFiniteSet(LS(cl, c))
         /\ \A l \in Watches(cl, c) : /\ Other(cl[c].lits, l) \in Watches(cl, c)
                                      /\ Other(cl[c].lits, l) # l
                                      /\ Watches(cl, c) = {l, Other(cl[c].lits, l)}
<1>1. ClauseOK(cl[c]) /\ c \in Nat /\ c # 0
  BY DEF ClausesInv
<1>2. /\ cl[c].lits \in Seq(Lits) /\ Len(cl[c].lits) \in Nat /\ Len(cl[c].lits) >= 2
      /\ cl[c].redundant \in BOOLEAN /\ cl[c].garbage \in BOOLEAN
      /\ \A i, j \in 1 .. Len(cl[c].lits) : i # j => cl[c].lits[i] # cl[c].lits[j] /\ cl[c].lits[i] # -cl[c].lits[j]
      /\ cl[c].lits[1] \in ToSet(cl[c].lits) /\ cl[c].lits[2] \in ToSet(cl[c].lits) /\ cl[c].lits[1] # cl[c].lits[2]
      /\ \A l : l \in ToSet(cl[c].lits) <=> \E i \in 1 .. Len(cl[c].lits) : cl[c].lits[i] = l
      /\ ToSet(cl[c].lits) \subseteq Lits
      /\ \A l, k \in ToSet(cl[c].lits) : l # -k
      /\ IsFiniteSet(ToSet(cl[c].lits))
  BY <1>1, LitsFacts
<1>3. ASSUME NEW l \in Watches(cl, c)
      PROVE  /\ Other(cl[c].lits, l) \in Watches(cl, c)
             /\ Other(cl[c].lits, l) # l
             /\ Watches(cl, c) = {l, Other(cl[c].lits, l)}
  <2>1. CASE l = cl[c].lits[1]
    BY <2>1, <1>2 DEF Watches, Other
  <2>2. CASE l = cl[c].lits[2]
    BY <2>2, <1>2 DEF Watches, Other
  <2>. QED  BY <2>1, <2>2 DEF Watches
<1>4. Watches(cl, c) \subseteq LS(cl, c)
  BY <1>2 DEF Watches, LS
<1>5. /\ \A l : l \in LS(cl, c) <=> \E i \in 1 .. Len(cl[c].lits) : cl[c].lits[i] = l
      /\ LS(cl, c) \subseteq Lits
      /\ \A l, k \in LS(cl, c) : l # -k
      /\ IsFiniteSet(LS(cl, c))
  BY <1>2 DEF LS
<1>. QED  BY <1>1, <1>2, <1>3, <1>4, <1>5

(* A reason has one literal that is true. *)
LEMMA ForcesFacts ==
  ASSUME NEW cl, ClausesInv(cl), NEW t, TrailInv(t), NEW k \in DOMAIN t.trail, ReasonOK(cl, t, k)
  PROVE  LET l == t.trail[k]
             c == ReasonIn(t, l)
         IN  /\ c \in DOMAIN cl /\ l \in Watches(cl, c) /\ l \in LS(cl, c) /\ On(t, l)
             /\ \A o \in LS(cl, c) : o # l => On(t, -o) /\ ~On(t, o)
<1>. DEFINE l == t.trail[k]
            c == ReasonIn(t, l)
<1>1. c \in DOMAIN cl /\ l \in Watches(cl, c) /\ \A o \in LS(cl, c) \ {l} : FalseBefore(t, o, k)
  BY DEF ReasonOK, Forces
<1>2. l \in LS(cl, c) /\ LS(cl, c) \subseteq Lits
  BY <1>1, ClauseFacts
<1>3. On(t, l)
  BY TrailFacts, AsgFacts
<1>4. ASSUME NEW o \in LS(cl, c), o # l
      PROVE  On(t, -o) /\ ~On(t, o)
  <2>1. PICK j \in DOMAIN t.trail : t.trail[j] = -o
    BY <1>1, <1>4 DEF FalseBefore
  <2>2. On(t, -o) /\ o \in Lits
    BY <1>2, <2>1, TrailFacts, AsgFacts
  <2>. QED  BY <2>2, TrailFacts
<1>. QED  BY <1>1, <1>2, <1>3, <1>4

(* A clause is the reason of one literal only.                              *)
LEMMA ForcesOnce ==
  ASSUME NEW cl, ClausesInv(cl), NEW t, TrailInv(t), NEW i \in DOMAIN t.trail, NEW j \in DOMAIN t.trail,
         ReasonOK(cl, t, i), ReasonOK(cl, t, j), ReasonIn(t, t.trail[i]) = ReasonIn(t, t.trail[j])
  PROVE  i = j
<1>1. t.trail[i] \in LS(cl, ReasonIn(t, t.trail[j])) /\ On(t, t.trail[i])
  BY ForcesFacts
<1>2. t.trail[i] = t.trail[j]
  BY <1>1, ForcesFacts
<1>. QED  BY <1>2, TrailFacts

(* Sound reasons are sound for any clause that is being derived.            *)
LEMMA ReasonsAll ==
  ASSUME NEW cl, NEW t, ReasonsInv(cl, t, {}), NEW res
  PROVE  ReasonsInv(cl, t, res)
BY DEF ReasonsInv, Relevant

(* Outside of analysis every reason is sound.                               *)
LEMMA ReasonAt ==
  ASSUME NEW cl, NEW t, ReasonsInv(cl, t, {}), NEW k \in DOMAIN t.trail, ReasonIn(t, t.trail[k]) # 0
  PROVE  ReasonOK(cl, t, k)
BY DEF ReasonsInv, Relevant

(* A falsified clause is no reason. *)
LEMMA FalseNoReason ==
  ASSUME NEW cl, ClausesInv(cl), NEW t, TrailInv(t), NEW k \in DOMAIN t.trail, ReasonOK(cl, t, k),
         NEW c, \A l \in LS(cl, c) : ~On(t, l)
  PROVE  ReasonIn(t, t.trail[k]) # c
BY ForcesFacts

(* Clauses change. *)
LEMMA ForcesKept ==
  ASSUME NEW cl, NEW cl2, NEW t, NEW l, NEW c, NEW k, Forces(cl, t, l, c, k),
         c \in DOMAIN cl2, cl2[c].lits = cl[c].lits, cl2[c].garbage => cl[c].garbage
  PROVE  Forces(cl2, t, l, c, k)
<1>1. LS(cl2, c) = LS(cl, c) /\ Watches(cl2, c) = Watches(cl, c)
  BY DEF LS, Watches
<1>. QED  BY <1>1 DEF Forces

(* Reasons stay sound when the clauses they name do not change.             *)
LEMMA ReasonsKept ==
  ASSUME NEW cl, NEW cl2, NEW t, NEW res, NEW res2, ReasonsInv(cl, t, res),
         \A k \in DOMAIN t.trail : ReasonIn(t, t.trail[k]) # 0 /\ Relevant(t, res2, k) =>
           /\ Relevant(t, res, k)
           /\ LET c == ReasonIn(t, t.trail[k])
              IN  ReasonOK(cl, t, k) => c \in DOMAIN cl2 /\ cl2[c].lits = cl[c].lits /\ (cl2[c].garbage => cl[c].garbage)
  PROVE  ReasonsInv(cl2, t, res2)
<1>1. SUFFICES ASSUME NEW k \in DOMAIN t.trail, ReasonIn(t, t.trail[k]) # 0, Relevant(t, res2, k)
               PROVE  ReasonOK(cl2, t, k)
  BY DEF ReasonsInv
<1>2. ReasonOK(cl, t, k)
  BY <1>1 DEF ReasonsInv
<1>. DEFINE c == ReasonIn(t, t.trail[k])
<1>3. c \in DOMAIN cl2 /\ cl2[c].lits = cl[c].lits /\ (cl2[c].garbage => cl[c].garbage)
  BY <1>1, <1>2
<1>4. Forces(cl, t, t.trail[k], c, k)
  BY <1>2 DEF ReasonOK
<1>. HIDE DEF c
<1>5. Forces(cl2, t, t.trail[k], c, k)
  BY <1>3, <1>4, ForcesKept
<1>. QED  BY <1>5 DEF ReasonOK, c

(* A literal that is forced, or has no reason, goes on a trail with sound   *)
(* reasons.                                                                 *)
LEMMA ReasonsGrow ==
  ASSUME NEW cl, ClausesInv(cl), NEW t, TrailInv(t), ReasonsInv(cl, t, {}),
         NEW u, TrailInv(u), NEW l \in Lits, ~On(t, l), ~On(t, -l), NEW n, NEW r, Grows(t, u, l, n, r),
         r # 0 => Forces(cl, u, l, r, Len(t.trail) + 1)
  PROVE  ReasonsInv(cl, u, {})
<1>0. u \in AsgType /\ t \in AsgType
  BY TrailFacts
<1>1. SUFFICES ASSUME NEW k \in DOMAIN u.trail, ReasonIn(u, u.trail[k]) # 0
               PROVE  ReasonOK(cl, u, k)
  BY DEF ReasonsInv
<1>2. CASE k \in DOMAIN t.trail
  <2>1. /\ u.trail[k] = t.trail[k] /\ t.trail[k] \in Lits
        /\ LevelIn(u, t.trail[k]) = LevelIn(t, t.trail[k])
        /\ ReasonIn(u, t.trail[k]) = ReasonIn(t, t.trail[k])
    BY <1>0, <1>2, GrowsFacts, AsgFacts
  <2>. DEFINE x == t.trail[k]
              c == ReasonIn(t, x)
  <2>2. Forces(cl, t, x, c, k)
    BY <1>1, <1>2, <2>1, ReasonAt DEF ReasonOK
  <2>3. c \in DOMAIN cl /\ LS(cl, c) \subseteq Lits
    BY <2>2, ClauseFacts DEF Forces
  <2>4. ASSUME NEW o \in LS(cl, c) \ {x}
        PROVE  LevelIn(u, o) = LevelIn(t, o) /\ FalseBefore(u, o, k)
    <3>1. PICK j \in DOMAIN t.trail : j < k /\ t.trail[j] = -o
      BY <2>2, <2>4 DEF Forces, FalseBefore
    <3>2. On(t, -o) /\ o \in Lits
      BY <3>1, <2>3, <1>0, AsgFacts
    <3>3. j \in DOMAIN u.trail /\ u.trail[j] = -o
      BY <1>0, <3>1, GrowsFacts
    <3>4. FalseBefore(u, o, k)
      BY <3>1, <3>3 DEF FalseBefore
    <3>. QED  BY <1>0, <3>2, <3>4, GrowsFacts
  <2>. HIDE DEF c, x
  <2>5. Forces(cl, u, x, c, k)
    BY <2>1, <2>2, <2>4 DEF Forces, x
  <2>6. u.trail[k] = x /\ ReasonIn(u, x) = c
    BY <2>1 DEF x, c
  <2>. QED  BY <2>5, <2>6 DEF ReasonOK
<1>3. CASE k = Len(t.trail) + 1
  <2>1. u.trail[k] = l /\ ReasonIn(u, l) = r
    BY <1>0, <1>3, GrowsFacts DEF Grows
  <2>. QED  BY <1>1, <1>3, <2>1 DEF ReasonOK
<1>. QED  BY <1>0, <1>2, <1>3, GrowsFacts

(* A clause whose other literals are false is a sound reason for a free     *)
(* literal it watches.                                                      *)
LEMMA ReasonNew ==
  ASSUME NEW cl, ClausesInv(cl), NEW t, TrailInv(t), NEW c \in DOMAIN cl, NEW l \in Watches(cl, c),
         ~On(t, l), ~On(t, -l), \A o \in LS(cl, c) \ {l} : On(t, -o),
         cl[c].garbage => Len(cl[c].lits) = 2,
         ReasonsInv(cl, t, {})
  PROVE  /\ Bounded(t, LS(cl, c) \ {l}) /\ l \in Lits
         /\ TrailInv(Assign(t, l, c, LS(cl, c)))
         /\ ReasonsInv(cl, Assign(t, l, c, LS(cl, c)), {})
<1>1. c \in Nat /\ c # 0 /\ LS(cl, c) \subseteq Lits /\ l \in Lits
  BY ClauseFacts
<1>2. Bounded(t, LS(cl, c) \ {l})
  <2>1. \A o \in Lits : On(t, o) \/ On(t, -o) => LevelIn(t, o) <= Lev(t)
    BY TrailFacts
  <2>. QED  BY <2>1, <1>1 DEF Bounded
<1>3. TrailInv(Assign(t, l, c, LS(cl, c)))
  BY <1>1, <1>2, AssignInv
<1>. DEFINE n == AssignmentLevel(t, l, LS(cl, c))
            r == IF n = 0 THEN 0 ELSE c
            u == Assign(t, l, c, LS(cl, c))
<1>4. u \in AsgType /\ Grows(t, u, l, n, r)
  BY <1>1, <1>2, AssignGrows
<1>5. /\ n \in 0 .. Lev(t)
      /\ \A k \in LS(cl, c) \ {l} : LevelIn(t, k) <= n
      /\ n = 0 \/ \E k \in LS(cl, c) \ {l} : LevelIn(t, k) = n
  BY <1>1, <1>2, AssignmentLevelSpec
<1>. HIDE DEF n, u
<1>6. ASSUME n # 0
      PROVE  Forces(cl, u, l, c, Len(t.trail) + 1)
  <2>1. LevelIn(u, l) = n
    BY <1>4 DEF Grows
  <2>2. ASSUME NEW o \in LS(cl, c) \ {l}
        PROVE  LevelIn(u, o) = LevelIn(t, o) /\ FalseBefore(u, o, Len(t.trail) + 1)
    <3>1. o \in Lits /\ On(t, -o)
      BY <1>1
    <3>2. PICK j \in DOMAIN t.trail : t.trail[j] = -o
      BY <3>1, TrailFacts, AsgFacts
    <3>3. j \in DOMAIN u.trail /\ u.trail[j] = -o
      BY <1>1, <1>4, <3>2, GrowsFacts
    <3>4. j < Len(t.trail) + 1
      BY <3>2, TrailFacts, AsgFacts
    <3>. QED  BY <1>1, <1>4, <3>1, <3>3, <3>4, GrowsFacts DEF FalseBefore
  <2>. QED  BY <1>5, <1>6, <2>1, <2>2 DEF Forces
<1>7. r # 0 => Forces(cl, u, l, r, Len(t.trail) + 1)
  BY <1>6
<1>8. ReasonsInv(cl, u, {})
  <2>1. TrailInv(u)
    BY <1>3 DEF u
  <2>. HIDE DEF r
  <2>. QED  BY <2>1, <1>1, <1>4, <1>7, ReasonsGrow
<1>. QED  BY <1>1, <1>2, <1>3, <1>8 DEF u

(* backtrack leaves sound reasons: it drops whole levels, and a reason is   *)
(* never of a higher level than its literal.                                *)
LEMMA ReasonsCut ==
  ASSUME NEW cl, ClausesInv(cl), NEW t, TrailInv(t), NEW res, ReasonsInv(cl, t, res),
         NEW n \in 0 .. Lev(t), NEW u \in AsgType, NEW g, Cut(t, u, n, g), n < Lev(t) \/ res = {}
  PROVE  ReasonsInv(cl, u, {})
<1>1. SUFFICES ASSUME NEW k \in DOMAIN u.trail, ReasonIn(u, u.trail[k]) # 0
               PROVE  ReasonOK(cl, u, k)
  BY DEF ReasonsInv
<1>2. /\ \A i \in DOMAIN u.trail :
              /\ g[i] \in DOMAIN t.trail /\ u.trail[i] = t.trail[g[i]]
              /\ LevelIn(t, u.trail[i]) <= n
              /\ LevelIn(u, u.trail[i]) = LevelIn(t, u.trail[i])
              /\ ReasonIn(u, u.trail[i]) = ReasonIn(t, u.trail[i])
      /\ \A i, j \in DOMAIN u.trail : g[i] < g[j] => i < j
      /\ \A i \in DOMAIN t.trail : LevelIn(t, t.trail[i]) <= n =>
              \E j \in DOMAIN u.trail : g[j] = i
      /\ \A l \in Lits : On(u, l) \/ On(u, -l) =>
              LevelIn(u, l) = LevelIn(t, l) /\ ReasonIn(u, l) = ReasonIn(t, l)
  BY CutFacts
<1>. DEFINE x == u.trail[k]
            c == ReasonIn(u, x)
            p == g[k]
<1>3. /\ p \in DOMAIN t.trail /\ x = t.trail[p] /\ ReasonIn(t, x) = c /\ LevelIn(t, x) <= n
      /\ LevelIn(u, x) = LevelIn(t, x) /\ x \in Lits /\ LevelIn(t, x) \in Nat
  BY <1>2, TrailFacts, AsgFacts
<1>4. Forces(cl, t, x, c, p)
  <2>1. Relevant(t, res, p)
    <3>1. n \in Nat /\ Lev(t) \in Nat
      BY TrailFacts, AsgFacts
    <3>. QED  BY <1>3, <3>1 DEF Relevant
  <2>2. ReasonOK(cl, t, p)
    BY <1>1, <1>3, <2>1 DEF ReasonsInv
  <2>. QED  BY <2>2, <1>3 DEF ReasonOK
<1>5. c \in DOMAIN cl /\ LS(cl, c) \subseteq Lits
  BY <1>4, ClauseFacts DEF Forces
<1>. HIDE DEF c, p, x
<1>6. ASSUME NEW o \in LS(cl, c) \ {x}
      PROVE  LevelIn(u, o) = LevelIn(t, o) /\ FalseBefore(u, o, k)
  <2>1. PICK j \in DOMAIN t.trail : j < p /\ t.trail[j] = -o
    BY <1>4, <1>6 DEF Forces, FalseBefore
  <2>2. o \in Lits /\ LevelIn(t, -o) = LevelIn(t, o) /\ LevelIn(t, o) \in Nat
    BY <1>5, TrailFacts, AsgFacts
  <2>3. LevelIn(t, o) <= n
    <3>1. LevelIn(t, o) <= LevelIn(t, x)
      BY <1>4, <1>6 DEF Forces
    <3>. QED  BY <3>1, <1>3, <2>2
  <2>4. PICK i \in DOMAIN u.trail : g[i] = j
    BY <1>2, <2>1, <2>2, <2>3
  <2>5. u.trail[i] = -o /\ i < k
    BY <1>2, <2>1, <2>4 DEF p
  <2>6. On(u, -o)
    BY <2>5, AsgFacts
  <2>. QED  BY <2>2, <2>5, <2>6, <1>2 DEF FalseBefore
<1>7. Forces(cl, u, x, c, k)
  BY <1>3, <1>4, <1>6 DEF Forces
<1>. QED  BY <1>7 DEF ReasonOK, x, c

(* A new level changes no reason.                                           *)
LEMMA ReasonsOpens ==
  ASSUME NEW cl, NEW t, ReasonsInv(cl, t, {}), NEW u,
         u.trail = t.trail, u.var = t.var
  PROVE  ReasonsInv(cl, u, {})
<1>1. \A l : LevelIn(u, l) = LevelIn(t, l) /\ ReasonIn(u, l) = ReasonIn(t, l)
  BY DEF LevelIn, ReasonIn
<1>2. SUFFICES ASSUME NEW k \in DOMAIN t.trail, ReasonIn(t, t.trail[k]) # 0
               PROVE  ReasonOK(cl, u, k)
  BY <1>1 DEF ReasonsInv
<1>3. Forces(cl, t, t.trail[k], ReasonIn(t, t.trail[k]), k)
  BY <1>2, ReasonAt DEF ReasonOK
<1>4. \A l, c, j : Forces(cl, t, l, c, j) => Forces(cl, u, l, c, j)
  BY <1>1 DEF Forces, FalseBefore
<1>. QED  BY <1>1, <1>3, <1>4 DEF ReasonOK

-----------------------------------------------------------------------------
(* The watches: a clause has a literal that is not false as far as          *)
(* propagation has come.                                                    *)

(* A literal of ls is true and will not be taken back before the trail is   *)
(* cut down to the first p literals.                                        *)
Blocked(t, ls, p) ==
  \E b \in ls : On(t, b) /\ (LevelIn(t, b) = 0 \/ t.control[LevelIn(t, b)].trail < p)

(* The watch w is right up to lim: where it is false it is blocked.         *)
Good(t, ls, w, lim, skip) == \A p \in DOMAIN t.trail :
  t.trail[p] = -w /\ p <= lim /\ p # skip => Blocked(t, ls, p)

(* The place whose literal is just being propagated, for a clause not       *)
(* visited yet.                                                             *)
Pending(t, td, c) == IF c \in td THEN t.propagated ELSE 0

(* With a conflict, propagation was cut short: the watches are right up to  *)
(* the current level.                                                       *)
Limit(t, conf) ==
  IF conf = 0 THEN t.propagated ELSE IF Lev(t) = 0 THEN 0 ELSE t.control[Lev(t)].trail

(* One of the two watches is right, and so is a watch that is false at the  *)
(* root.                                                                    *)
WellWatched(ls, w1, w2, t, lim, skip) ==
  /\ Good(t, ls, w1, lim, skip) \/ Good(t, ls, w2, lim, skip)
  /\ \A w \in {w1, w2} : On(t, -w) /\ LevelIn(t, w) = 0 => Good(t, ls, w, lim, skip)

(* The watches of every clause that is no garbage are right.                *)
WatchedInv(cl, t, td, conf) == \A c \in DOMAIN cl :
  ~cl[c].garbage =>
    WellWatched(LS(cl, c), cl[c].lits[1], cl[c].lits[2], t, Limit(t, conf), Pending(t, td, c))

(* The part of the trail up to which the watches are to be right.           *)
LEMMA LimitFacts ==
  ASSUME NEW t, TrailInv(t), NEW conf
  PROVE  /\ Limit(t, conf) \in Nat /\ Limit(t, conf) <= t.propagated /\ t.propagated \in Nat
         /\ \A i \in 1 .. Lev(t) : t.control[i].trail \in Nat /\ t.control[i].trail <= Limit(t, conf)
         /\ t.propagated <= Len(t.trail) /\ Len(t.trail) \in Nat
<1>1. /\ t.propagated \in Nat /\ Lev(t) \in Nat /\ t.propagated <= Len(t.trail) /\ Len(t.trail) \in Nat
      /\ \A i \in 1 .. Lev(t) : t.control[i].trail \in Nat /\ t.control[i].trail <= t.propagated
      /\ \A i, j \in 1 .. Lev(t) : i <= j => t.control[i].trail <= t.control[j].trail
  BY TrailFacts, AsgFacts
<1>2. CASE conf = 0
  BY <1>1, <1>2 DEF Limit
<1>3. CASE conf # 0 /\ Lev(t) = 0
  BY <1>1, <1>3 DEF Limit
<1>4. CASE conf # 0 /\ Lev(t) # 0
  <2>1. Lev(t) \in 1 .. Lev(t) /\ Limit(t, conf) = t.control[Lev(t)].trail
    BY <1>1, <1>4 DEF Limit
  <2>2. \A i \in 1 .. Lev(t) : i <= Lev(t)
    BY <1>1
  <2>. QED  BY <1>1, <2>1, <2>2
<1>. QED  BY <1>2, <1>3, <1>4

(* Only the value of the limit and the pending watch matter. *)
LEMMA WatchedMono ==
  ASSUME NEW cl, NEW t, TrailInv(t), NEW td, NEW conf, WatchedInv(cl, t, td, conf),
         NEW cl2, NEW td2, NEW conf2,
         \A c \in DOMAIN cl2 : ~cl2[c].garbage =>
           c \in DOMAIN cl /\ ~cl[c].garbage /\ cl2[c].lits = cl[c].lits,
         \/ Limit(t, conf2) <= Limit(t, conf) /\ td \subseteq td2
         \/ Limit(t, conf2) < t.propagated /\ Limit(t, conf2) <= Limit(t, conf)
  PROVE  WatchedInv(cl2, t, td2, conf2)
<1>1. SUFFICES ASSUME NEW c \in DOMAIN cl2, ~cl2[c].garbage
               PROVE  WellWatched(LS(cl2, c), cl2[c].lits[1], cl2[c].lits[2], t, Limit(t, conf2), Pending(t, td2, c))
  BY DEF WatchedInv
<1>2. /\ c \in DOMAIN cl /\ ~cl[c].garbage /\ cl2[c].lits = cl[c].lits /\ LS(cl2, c) = LS(cl, c)
      /\ WellWatched(LS(cl, c), cl[c].lits[1], cl[c].lits[2], t, Limit(t, conf), Pending(t, td, c))
  BY <1>1 DEF WatchedInv, LS
<1>3. /\ Limit(t, conf2) \in Nat /\ Limit(t, conf) \in Nat /\ t.propagated \in Nat
      /\ DOMAIN t.trail \subseteq Nat
  BY LimitFacts, TrailFacts, AsgFacts
<1>4. ASSUME NEW w, Good(t, LS(cl, c), w, Limit(t, conf), Pending(t, td, c))
      PROVE  Good(t, LS(cl, c), w, Limit(t, conf2), Pending(t, td2, c))
  <2>1. SUFFICES ASSUME NEW p \in DOMAIN t.trail, t.trail[p] = -w, p <= Limit(t, conf2),
                        p # Pending(t, td2, c)
                 PROVE  Blocked(t, LS(cl, c), p)
    BY DEF Good
  <2>2. p <= Limit(t, conf)
    BY <1>3, <2>1
  <2>3. p # Pending(t, td, c)
    <3>1. p # 0 /\ p \in Nat
      BY TrailFacts, AsgFacts
    <3>2. CASE c \notin td
      BY <3>1, <3>2 DEF Pending
    <3>3. CASE c \in td /\ c \in td2
      BY <2>1, <3>3 DEF Pending
    <3>4. CASE c \in td /\ c \notin td2
      <4>1. Limit(t, conf2) < t.propagated
        BY <3>4
      <4>2. p < t.propagated
        BY <4>1, <2>1, <1>3, <3>1
      <4>. QED  BY <4>2, <3>1, <1>3 DEF Pending
    <3>. QED  BY <3>2, <3>3, <3>4
  <2>. QED  BY <1>4, <2>1, <2>2, <2>3 DEF Good
<1>. QED  BY <1>2, <1>4 DEF WellWatched

(* A blocking literal stays one when the trail grows.                       *)
LEMMA BlockedGrows ==
  ASSUME NEW t, TrailInv(t), NEW u \in AsgType, NEW l \in Lits, ~On(t, l), ~On(t, -l),
         NEW n, NEW r, Grows(t, u, l, n, r), NEW ls \in SUBSET Lits, NEW p, Blocked(t, ls, p)
  PROVE  Blocked(u, ls, p)
<1>1. PICK b \in ls : On(t, b) /\ (LevelIn(t, b) = 0 \/ t.control[LevelIn(t, b)].trail < p)
  BY DEF Blocked
<1>2. On(u, b) /\ LevelIn(u, b) = LevelIn(t, b)
  BY <1>1, GrowsFacts
<1>3. u.control = t.control
  BY DEF Grows
<1>. QED  BY <1>1, <1>2, <1>3 DEF Blocked

(* A watch that is right up to lim stays so when the trail grows behind it. *)
LEMMA GoodGrows ==
  ASSUME NEW t, TrailInv(t), NEW u \in AsgType, NEW l \in Lits, ~On(t, l), ~On(t, -l),
         NEW n, NEW r, Grows(t, u, l, n, r), NEW ls \in SUBSET Lits, NEW w, NEW lim \in Nat,
         lim <= Len(t.trail), NEW skip, Good(t, ls, w, lim, skip)
  PROVE  Good(u, ls, w, lim, skip)
<1>1. SUFFICES ASSUME NEW p \in DOMAIN u.trail, u.trail[p] = -w, p <= lim, p # skip
               PROVE  Blocked(u, ls, p)
  BY DEF Good
<1>2. Len(t.trail) \in Nat
  BY TrailFacts, AsgFacts
<1>3. p \in DOMAIN t.trail /\ t.trail[p] = -w
  <2>1. p # Len(t.trail) + 1
    BY <1>1, <1>2
  <2>. QED  BY <1>1, <2>1, GrowsFacts
<1>4. u.propagated = t.propagated
  BY DEF Grows
<1>5. Blocked(t, ls, p)
  BY <1>1, <1>3, <1>4 DEF Good
<1>. QED  BY <1>5, BlockedGrows

(* A literal more on the trail. *)
LEMMA WellGrows ==
  ASSUME NEW t, TrailInv(t), NEW u, TrailInv(u), NEW l \in Lits, ~On(t, l), ~On(t, -l),
         NEW n, NEW r, Grows(t, u, l, n, r), NEW ls \in SUBSET Lits, NEW w1 \in ls, NEW w2 \in ls,
         NEW lim \in Nat, lim <= Len(t.trail), NEW skip,
         WellWatched(ls, w1, w2, t, lim, skip)
  PROVE  WellWatched(ls, w1, w2, u, lim, skip)
<1>1. u \in AsgType /\ Len(t.trail) \in Nat
  BY TrailFacts, AsgFacts
<1>2. \A w : Good(t, ls, w, lim, skip) => Good(u, ls, w, lim, skip)
  BY <1>1, GoodGrows
<1>3. ASSUME NEW w \in {w1, w2}, On(u, -w), LevelIn(u, w) = 0
      PROVE  Good(u, ls, w, lim, skip)
  <2>0. w \in Lits /\ -w \in Lits
    BY LitFacts
  <2>1. CASE On(t, -w)
    <3>1. LevelIn(t, w) = 0
      BY <1>1, <1>3, <2>0, <2>1, GrowsFacts
    <3>. QED  BY <3>1, <2>1, <1>2, <1>3 DEF WellWatched
  <2>2. CASE ~On(t, -w)
    <3>1. -w = l
      BY <1>1, <1>3, <2>2, GrowsFacts
    <3>2. ASSUME NEW p \in DOMAIN u.trail, u.trail[p] = -w
          PROVE  ~(p <= lim)
      <4>1. u.trail[Len(t.trail) + 1] = l /\ Len(t.trail) + 1 \in DOMAIN u.trail
        BY <1>1, GrowsFacts
      <4>2. p = Len(t.trail) + 1
        BY <3>1, <3>2, <4>1, TrailFacts
      <4>. QED  BY <4>2, <1>1
    <3>. QED  BY <3>2 DEF Good
  <2>. QED  BY <2>1, <2>2
<1>. QED  BY <1>2, <1>3 DEF WellWatched

(* So do the watches of all clauses.                                        *)
LEMMA WatchedGrows ==
  ASSUME NEW cl, ClausesInv(cl), NEW t, TrailInv(t), NEW u, TrailInv(u), NEW l \in Lits, ~On(t, l), ~On(t, -l),
         NEW n, NEW r, Grows(t, u, l, n, r), NEW td, NEW conf, WatchedInv(cl, t, td, conf)
  PROVE  WatchedInv(cl, u, td, conf)
<1>1. Limit(u, conf) = Limit(t, conf)
  BY DEF Grows, Limit, Lev
<1>2. Limit(t, conf) \in Nat /\ Limit(t, conf) <= Len(t.trail)
  BY LimitFacts
<1>3. SUFFICES ASSUME NEW c \in DOMAIN cl, ~cl[c].garbage
               PROVE  WellWatched(LS(cl, c), cl[c].lits[1], cl[c].lits[2], u, Limit(t, conf), Pending(t, td, c))
  <2>1. \A c : Pending(u, td, c) = Pending(t, td, c)
    BY DEF Pending, Grows
  <2>. QED  BY <1>1, <2>1 DEF WatchedInv
<1>4. WellWatched(LS(cl, c), cl[c].lits[1], cl[c].lits[2], t, Limit(t, conf), Pending(t, td, c))
  BY <1>3 DEF WatchedInv
<1>5. LS(cl, c) \in SUBSET Lits /\ cl[c].lits[1] \in LS(cl, c) /\ cl[c].lits[2] \in LS(cl, c)
  BY ClauseFacts DEF Watches
<1>. QED  BY <1>2, <1>4, <1>5, WellGrows

(* A level is opened. *)
LEMMA WatchedOpens ==
  ASSUME NEW cl, ClausesInv(cl), NEW t, TrailInv(t), NEW u \in AsgType, NEW l, Opens(t, u, l),
         t.propagated = Len(t.trail), WatchedInv(cl, t, {}, 0)
  PROVE  WatchedInv(cl, u, {}, 0)
<1>1. /\ \A k : On(u, k) <=> On(t, k)
      /\ \A k : LevelIn(u, k) = LevelIn(t, k)
  BY OpensFacts
<1>2. /\ u.trail = t.trail /\ u.propagated = t.propagated
      /\ \A i \in 1 .. Lev(t) : u.control[i] = t.control[i]
  BY DEF Opens
<1>3. Limit(u, 0) = Limit(t, 0)
  BY <1>2 DEF Limit
<1>4. ASSUME NEW ls \in SUBSET Lits, NEW p, Blocked(t, ls, p)
      PROVE  Blocked(u, ls, p)
  <2>1. PICK b \in ls : On(t, b) /\ (LevelIn(t, b) = 0 \/ t.control[LevelIn(t, b)].trail < p)
    BY <1>4 DEF Blocked
  <2>2. LevelIn(t, b) \in Nat /\ LevelIn(t, b) <= Lev(t) /\ Lev(t) \in Nat
    BY <2>1, TrailFacts, AsgFacts
  <2>3. LevelIn(t, b) # 0 => LevelIn(t, b) \in 1 .. Lev(t)
    BY <2>2
  <2>. QED  BY <2>1, <2>3, <1>1, <1>2 DEF Blocked
<1>5. ASSUME NEW ls \in SUBSET Lits, NEW w, NEW lim, NEW skip, Good(t, ls, w, lim, skip)
      PROVE  Good(u, ls, w, lim, skip)
  BY <1>2, <1>4, <1>5 DEF Good
<1>6. SUFFICES ASSUME NEW c \in DOMAIN cl, ~cl[c].garbage
               PROVE  WellWatched(LS(cl, c), cl[c].lits[1], cl[c].lits[2], u, Limit(t, 0), 0)
  BY <1>3 DEF WatchedInv, Pending
<1>7. WellWatched(LS(cl, c), cl[c].lits[1], cl[c].lits[2], t, Limit(t, 0), 0)
  BY <1>6 DEF WatchedInv, Pending
<1>8. LS(cl, c) \in SUBSET Lits
  BY ClauseFacts
<1>. QED  BY <1>1, <1>5, <1>7, <1>8 DEF WellWatched

(* A watch that is right stays so after backtrack: a literal that blocked   *)
(* at a place that is left is of a level that is left.                      *)
LEMMA GoodCut ==
  ASSUME NEW t, TrailInv(t), NEW n \in 0 .. Lev(t), NEW u \in AsgType, NEW g, Cut(t, u, n, g),
         NEW ls \in SUBSET Lits, NEW w, NEW lim \in Nat, NEW lim2 \in Nat,
         lim2 <= lim, lim2 <= u.propagated,
         Good(t, ls, w, lim, 0)
  PROVE  Good(u, ls, w, lim2, 0)
<1>0. /\ t \in AsgType /\ Len(t.trail) \in Nat /\ Lev(t) \in Nat /\ DOMAIN t.trail = 1 .. Len(t.trail)
      /\ \A i \in 1 .. Lev(t) : t.control[i].trail \in Nat
      /\ Len(u.trail) \in Nat /\ DOMAIN u.trail = 1 .. Len(u.trail)
      /\ u.propagated \in Nat /\ n \in Nat
  BY TrailFacts, AsgFacts
<1>1. SUFFICES ASSUME NEW p \in DOMAIN u.trail, u.trail[p] = -w, p <= lim2
               PROVE  Blocked(u, ls, p)
  BY DEF Good
<1>2. CASE n = Lev(t)
  <2>1. u = t
    BY <1>2 DEF Cut
  <2>2. p <= lim /\ p # 0
    BY <1>0, <1>1
  <2>. QED  BY <1>1, <1>2, <2>1, <2>2 DEF Good
<1>3. CASE n < Lev(t)
  <2>1. p <= u.propagated /\ p \in Nat /\ p <= lim
    BY <1>0, <1>1
  <2>2. g[p] = p
    BY <2>1, <1>0 DEF Cut
  <2>3. p \in DOMAIN t.trail /\ t.trail[p] = -w
    BY <1>1, <2>2, CutFacts
  <2>4. p # 0
    BY <1>0, <1>1
  <2>5. Blocked(t, ls, p)
    BY <2>1, <2>3, <2>4 DEF Good
  <2>6. PICK b \in ls : On(t, b) /\ (LevelIn(t, b) = 0 \/ t.control[LevelIn(t, b)].trail < p)
    BY <2>5 DEF Blocked
  <2>7. LevelIn(t, b) \in Nat /\ LevelIn(t, b) <= Lev(t)
    BY <2>6, TrailFacts, AsgFacts
  <2>8. u.propagated = t.control[n + 1].trail /\ n + 1 \in 1 .. Lev(t)
    BY <1>0, <1>3 DEF Cut
  <2>9. LevelIn(t, b) <= n
    <3>. DEFINE m == LevelIn(t, b)
    <3>1. SUFFICES ASSUME m > n PROVE FALSE
      BY <1>0, <2>7
    <3>2. m \in 1 .. Lev(t) /\ n + 1 <= m
      BY <3>1, <2>7, <1>0
    <3>3. t.control[n + 1].trail <= t.control[m].trail
      BY <3>2, <2>8, TrailFacts
    <3>4. t.control[m].trail < p
      BY <2>6, <3>2
    <3>. HIDE DEF m
    <3>. QED  BY <3>2, <3>3, <3>4, <2>1, <2>8, <1>0
  <2>10. On(u, b) /\ LevelIn(u, b) = LevelIn(t, b)
    BY <2>6, <2>9, CutFacts
  <2>11. LevelIn(t, b) # 0 => u.control[LevelIn(t, b)] = t.control[LevelIn(t, b)]
    <3>1. LevelIn(t, b) # 0 => LevelIn(t, b) \in 1 .. n
      BY <2>7, <2>9, <1>0
    <3>. QED  BY <3>1 DEF Cut
  <2>. QED  BY <2>6, <2>10, <2>11 DEF Blocked
<1>. QED  BY <1>0, <1>2, <1>3

(* So do the two watches of a clause, together.                             *)
LEMMA WellCut ==
  ASSUME NEW t, TrailInv(t), NEW n \in 0 .. Lev(t), NEW u \in AsgType, NEW g, Cut(t, u, n, g),
         NEW ls \in SUBSET Lits, NEW w1 \in ls, NEW w2 \in ls, NEW lim \in Nat, NEW lim2 \in Nat,
         lim2 <= lim, lim2 <= u.propagated,
         WellWatched(ls, w1, w2, t, lim, 0)
  PROVE  WellWatched(ls, w1, w2, u, lim2, 0)
<1>1. \A w : Good(t, ls, w, lim, 0) => Good(u, ls, w, lim2, 0)
  BY GoodCut
<1>2. ASSUME NEW w \in {w1, w2}, On(u, -w), LevelIn(u, w) = 0
      PROVE  On(t, -w) /\ LevelIn(t, w) = 0
  <2>1. w \in Lits /\ -w \in Lits
    BY LitFacts
  <2>. QED  BY <1>2, <2>1, CutFacts
<1>. QED  BY <1>1, <1>2 DEF WellWatched

(* The trail is cut, with nothing pending, or a conflict is left behind. *)
LEMMA WatchedCut ==
  ASSUME NEW cl, ClausesInv(cl), NEW t, TrailInv(t), NEW n \in 0 .. Lev(t), NEW u \in AsgType, NEW g, Cut(t, u, n, g),
         NEW conf, WatchedInv(cl, t, {}, conf), NEW conf2,
         n = Lev(t) => conf = 0 \/ conf2 # 0
  PROVE  WatchedInv(cl, u, {}, conf2)
<1>1. TrailInv(u)
  BY CutInv
<1>2. /\ Limit(t, conf) \in Nat /\ Limit(u, conf2) \in Nat
      /\ \A i \in 1 .. Lev(t) : t.control[i].trail <= Limit(t, conf)
      /\ Limit(u, conf2) <= u.propagated /\ u.propagated \in Nat
  BY <1>1, LimitFacts
<1>3. Limit(u, conf2) <= Limit(t, conf)
  <2>1. CASE n = Lev(t)
    <3>1. u = t
      BY <2>1 DEF Cut
    <3>2. CASE conf = 0
      <4>1. Limit(t, conf) = t.propagated
        BY <3>2 DEF Limit
      <4>. QED  BY <4>1, <3>1, <1>2
    <3>3. CASE conf # 0
      <4>1. conf2 # 0
        BY <3>3, <2>1
      <4>2. Limit(u, conf2) = Limit(t, conf)
        BY <3>1, <3>3, <4>1 DEF Limit
      <4>. QED  BY <4>2, <1>2
    <3>. QED  BY <3>2, <3>3
  <2>2. CASE n # Lev(t)
    <3>1. Lev(t) \in Nat /\ n < Lev(t) /\ n + 1 \in 1 .. Lev(t)
      BY <2>2, TrailFacts, AsgFacts
    <3>2. u.propagated = t.control[n + 1].trail
      BY <3>1 DEF Cut
    <3>. QED  BY <3>1, <3>2, <1>2
  <2>. QED  BY <2>1, <2>2
<1>4. SUFFICES ASSUME NEW c \in DOMAIN cl, ~cl[c].garbage
               PROVE  WellWatched(LS(cl, c), cl[c].lits[1], cl[c].lits[2], u, Limit(u, conf2), 0)
  BY DEF WatchedInv, Pending
<1>5. WellWatched(LS(cl, c), cl[c].lits[1], cl[c].lits[2], t, Limit(t, conf), 0)
  BY <1>4 DEF WatchedInv, Pending
<1>6. LS(cl, c) \in SUBSET Lits /\ cl[c].lits[1] \in LS(cl, c) /\ cl[c].lits[2] \in LS(cl, c)
  BY ClauseFacts DEF Watches
<1>. QED  BY <1>2, <1>3, <1>5, <1>6, WellCut

(* A watch that is not false before the limit is good. *)
LEMMA GoodIfNotBefore ==
  ASSUME NEW t, NEW ls, NEW w, NEW lim, NEW skip, \A p \in DOMAIN t.trail : t.trail[p] = -w => ~(p <= lim)
  PROVE  Good(t, ls, w, lim, skip)
BY DEF Good

(* A watched literal that is not false needs no other.                      *)
LEMMA GoodIfNotFalse ==
  ASSUME NEW t \in AsgType, NEW ls, NEW w, NEW lim, NEW skip, ~On(t, -w)
  PROVE  Good(t, ls, w, lim, skip)
<1>1. \A p \in DOMAIN t.trail : t.trail[p] # -w
  BY AsgFacts
<1>. QED  BY <1>1 DEF Good

-----------------------------------------------------------------------------
(* The meaning of the clauses.                                              *)

(* The literals of the root level.                                          *)
Units(t)    == {l \in ToSet(t.trail) : LevelIn(t, l) = 0}

(* The irredundant clauses that are no garbage.                             *)
KeptIn(cl)  == {LS(cl, c) : c \in {c \in DOMAIN cl : ~cl[c].redundant /\ ~cl[c].garbage}}

(* All models in M satisfy the clause ls.                                   *)
Entails(M, ls) == \A m \in M : ls \cap m # {}

(* M is the set of models of the irredundant clauses and the root literals, *)
(* and every clause, learned or being derived, follows.                     *)
MeaningInv(M, cl, t, res) ==
  /\ \A m \in M : Units(t) \subseteq m
  /\ \A m \in Assignments : SatisfiesAll(m, KeptIn(cl)) /\ Units(t) \subseteq m => m \in M
  /\ \A c \in DOMAIN cl : Entails(M, LS(cl, c))
  /\ res # {} => Entails(M, res)

(* An assignment has one literal of every variable.                         *)
LEMMA AssignmentFacts ==
  ASSUME NEW m \in Assignments
  PROVE  m \subseteq Lits /\ \A l \in Lits : (l \in m \/ -l \in m) /\ ~(l \in m /\ -l \in m)
<1>1. PICK T \in SUBSET Var : m = {IF v \in T THEN v ELSE -v : v \in Var}
  BY DEF Assignments
<1>2. \A v \in Var : v \in Nat /\ v > 0
  BY VarAssumption
<1>3. \A v \in Var : (v \in T => v \in m) /\ (v \notin T => -v \in m)
  BY <1>1
<1>4. m \subseteq Lits
  BY <1>1 DEF Lits
<1>5. \A x \in m : \E v \in Var : x = IF v \in T THEN v ELSE -v
  BY <1>1
<1>6. ASSUME NEW v \in Var
      PROVE  (v \in m => v \in T) /\ (-v \in m => v \notin T)
  <2>1. ASSUME v \in m, v \notin T PROVE FALSE
    <3>1. PICK w \in Var : v = IF w \in T THEN w ELSE -w
      BY <2>1, <1>5
    <3>2. v > 0 /\ w > 0 /\ v \in Nat /\ w \in Nat
      BY <1>2
    <3>3. CASE w \in T
      BY <3>1, <3>3, <2>1
    <3>4. CASE w \notin T
      BY <3>1, <3>2, <3>4
    <3>. QED  BY <3>3, <3>4
  <2>2. ASSUME -v \in m, v \in T PROVE FALSE
    <3>1. PICK w \in Var : -v = IF w \in T THEN w ELSE -w
      BY <2>2, <1>5
    <3>2. v > 0 /\ w > 0 /\ v \in Nat /\ w \in Nat
      BY <1>2
    <3>3. CASE w \in T
      BY <3>1, <3>2, <3>3
    <3>4. CASE w \notin T
      <4>1. v = w
        BY <3>1, <3>2, <3>4
      <4>. QED  BY <4>1, <3>4, <2>2
    <3>. QED  BY <3>3, <3>4
  <2>. QED  BY <2>1, <2>2
<1>7. ASSUME NEW l \in Lits
      PROVE  (l \in m \/ -l \in m) /\ ~(l \in m /\ -l \in m)
  <2>1. CASE l \in Var
    BY <2>1, <1>3, <1>6
  <2>2. CASE l \in {-v : v \in Var}
    <3>1. PICK v \in Var : l = -v
      BY <2>2
    <3>2. -l = v
      BY <3>1, <1>2
    <3>. QED  BY <3>1, <3>2, <1>3, <1>6
  <2>. QED  BY <2>1, <2>2 DEF Lits
<1>. QED  BY <1>4, <1>7

(* The literals at the root level.                                          *)
LEMMA UnitsSpec ==
  ASSUME NEW t
  PROVE  \A l : l \in Units(t) <=> On(t, l) /\ LevelIn(t, l) = 0
BY DEF Units, On

(* backtrack drops no literal of the root level.                            *)
LEMMA UnitsCut ==
  ASSUME NEW t, TrailInv(t), NEW n \in 0 .. Lev(t), NEW u \in AsgType, NEW g, Cut(t, u, n, g)
  PROVE  Units(u) = Units(t)
<1>1. \A l \in Lits : On(u, l) <=> On(t, l) /\ LevelIn(t, l) <= n
  BY CutFacts
<1>2. \A l \in Lits : On(u, l) \/ On(u, -l) => LevelIn(u, l) = LevelIn(t, l)
  BY CutFacts
<1>3. \A l : (On(t, l) => l \in Lits) /\ (On(u, l) => l \in Lits)
  BY TrailFacts, AsgFacts
<1>4. n >= 0
  BY TrailFacts, AsgFacts
<1>5. ASSUME NEW l
      PROVE  l \in Units(u) <=> l \in Units(t)
  <2>1. l \in Units(u) <=> On(u, l) /\ LevelIn(u, l) = 0
    BY UnitsSpec
  <2>2. l \in Units(t) <=> On(t, l) /\ LevelIn(t, l) = 0
    BY UnitsSpec
  <2>. QED  BY <1>1, <1>2, <1>3, <1>4, <2>1, <2>2
<1>. QED  BY <1>5

(* The root level depends on the trail and the levels only.                 *)
LEMMA UnitsSame ==
  ASSUME NEW t, NEW u, u.trail = t.trail, u.var = t.var
  PROVE  Units(u) = Units(t)
BY DEF Units, LevelIn

(* A literal is added to the root level when it is assigned there.          *)
LEMMA UnitsGrow ==
  ASSUME NEW t, TrailInv(t), NEW u \in AsgType, NEW l \in Lits, ~On(t, l), ~On(t, -l),
         NEW n, NEW r, Grows(t, u, l, n, r)
  PROVE  Units(u) = IF n = 0 THEN Units(t) \cup {l} ELSE Units(t)
<1>1. \A k : On(u, k) <=> On(t, k) \/ k = l
  BY GrowsFacts
<1>2. \A k \in Lits : On(t, k) => LevelIn(u, k) = LevelIn(t, k)
  BY GrowsFacts
<1>3. \A k : On(t, k) => k \in Lits
  BY TrailFacts, AsgFacts
<1>4. LevelIn(u, l) = n
  BY DEF Grows
<1>5. ASSUME NEW k
      PROVE  k \in Units(u) <=> k \in Units(t) \/ (n = 0 /\ k = l)
  <2>1. k \in Units(u) <=> On(u, k) /\ LevelIn(u, k) = 0
    BY UnitsSpec
  <2>2. k \in Units(t) <=> On(t, k) /\ LevelIn(t, k) = 0
    BY UnitsSpec
  <2>. QED  BY <1>1, <1>2, <1>3, <1>4, <2>1, <2>2
<1>. QED  BY <1>5

(* The meaning of the clauses does not depend on the rest of the trail.     *)
LEMMA MeaningSame ==
  ASSUME NEW M, NEW cl, NEW t, NEW res, MeaningInv(M, cl, t, res), NEW u, Units(u) = Units(t),
         NEW res2, res2 # {} => Entails(M, res2)
  PROVE  MeaningInv(M, cl, u, res2)
BY DEF MeaningInv

(* A unit follows from a clause whose other literals are false at the root. *)
LEMMA EntailedRest ==
  ASSUME NEW M \in SUBSET Assignments, NEW t, TrailInv(t), \A m \in M : Units(t) \subseteq m,
         NEW ls \in SUBSET Lits, Entails(M, ls), NEW rest, rest \subseteq ls,
         \A o \in ls \ rest : On(t, -o) /\ LevelIn(t, o) = 0
  PROVE  Entails(M, rest)
<1>1. SUFFICES ASSUME NEW m \in M PROVE rest \cap m # {}
  BY DEF Entails
<1>2. PICK x \in ls : x \in m
  BY DEF Entails
<1>3. CASE x \in rest
  BY <1>2, <1>3
<1>4. CASE x \notin rest
  <2>1. x \in Lits /\ -x \in Lits /\ LevelIn(t, -x) = LevelIn(t, x)
    BY <1>2, LitFacts, TrailFacts, AsgFacts
  <2>2. -x \in Units(t)
    BY <1>4, <1>2, <2>1, UnitsSpec
  <2>. QED  BY <1>2, <2>1, <2>2, AssignmentFacts
<1>. QED  BY <1>3, <1>4

(* A literal forced at the root by an implied clause is implied.            *)
LEMMA MeaningAssign ==
  ASSUME NEW M \in SUBSET Assignments, NEW cl, NEW t, TrailInv(t), NEW res, MeaningInv(M, cl, t, res),
         NEW l \in Lits, ~On(t, l), ~On(t, -l), NEW c \in Nat, NEW ls \in SUBSET Lits, Entails(M, ls),
         l \in ls, \A o \in ls \ {l} : On(t, -o), Bounded(t, ls \ {l})
  PROVE  MeaningInv(M, cl, Assign(t, l, c, ls), {})
<1>. DEFINE n == AssignmentLevel(t, l, ls)
            u == Assign(t, l, c, ls)
<1>1. u \in AsgType /\ Grows(t, u, l, n, IF n = 0 THEN 0 ELSE c)
  BY AssignGrows
<1>2. n \in 0 .. Lev(t) /\ \A k \in ls \ {l} : LevelIn(t, k) <= n
  BY AssignmentLevelSpec
<1>. HIDE DEF n, u
<1>3. Units(u) = IF n = 0 THEN Units(t) \cup {l} ELSE Units(t)
  BY <1>1, UnitsGrow
<1>4. \A m \in M : Units(t) \subseteq m
  BY DEF MeaningInv
<1>5. ASSUME n = 0, NEW m \in M
      PROVE  l \in m
  <2>1. ASSUME NEW o \in ls \ {l}
        PROVE  On(t, -o) /\ LevelIn(t, o) = 0
    <3>1. LevelIn(t, o) \in Nat /\ LevelIn(t, o) <= 0
      BY <1>2, <1>5, TrailFacts, AsgFacts
    <3>. QED  BY <3>1
  <2>2. Entails(M, {l})
    BY <2>1, <1>4, EntailedRest
  <2>. QED  BY <2>2 DEF Entails
<1>6. \A m \in M : Units(u) \subseteq m
  BY <1>3, <1>4, <1>5
<1>7. \A m \in Assignments : SatisfiesAll(m, KeptIn(cl)) /\ Units(u) \subseteq m => m \in M
  <2>1. Units(t) \subseteq Units(u)
    BY <1>3
  <2>. QED  BY <2>1 DEF MeaningInv
<1>. QED  BY <1>6, <1>7 DEF MeaningInv, u

-----------------------------------------------------------------------------
(* The invariant, and the steps at rest.                                    *)

(* The clauses not visited yet are watched by the literal being propagated. *)
PendInv(cl, b, t, td, res, ans) ==
  /\ td \subseteq DOMAIN cl
  /\ td # {} => /\ res = {} /\ ans = 0
                /\ \A c \in td : <<-t.trail[t.propagated], c>> \in DOMAIN b

(* The literal being propagated is not the decision of a lower level.       *)
AheadInv(t, td) ==
  td # {} =>
    t.propagated > 0 /\ (Lev(t) > 0 => t.control[Lev(t)].trail < t.propagated)

(* All literals of the clause c are false.                                  *)
Violated(cl, t, c) ==
  /\ c \in DOMAIN cl /\ \A l \in LS(cl, c) : On(t, -l)
  /\ cl[c].garbage => Len(cl[c].lits) = 2
ViolatedInv(cl, t, conf) == conf # 0 => Violated(cl, t, conf)

(* What is being derived: false literals above the root, one of them of the *)
(* current level.                                                           *)
DerivingInv(t, td, conf, res, ans) ==
  res # {} => /\ Lev(t) > 0 /\ conf # 0 /\ td = {} /\ ans = 0
              /\ \A l \in res : l \in Lits /\ On(t, -l) /\ LevelIn(t, l) > 0
              /\ \E l \in res : LevelIn(t, l) = Lev(t)

(* A root literal behind the first decision.                                *)
OutOfOrderIn(t) == \E k \in DOMAIN t.trail :
  Lev(t) > 0 /\ k > t.control[1].trail /\ LevelIn(t, t.trail[k]) = 0

(* The lucky strategies run without assumptions and never reach the root;   *)
(* reduce runs at the root or at rest.                                      *)
ModeInv(asm, t, td, conf, res, md) ==
  /\ md \in ToSet(Strategies) \cup {"search", "reduce"}
  /\ md \in ToSet(Strategies) =>
       asm = <<>> /\ res = {} /\ \A k \in DOMAIN t.trail : LevelIn(t, t.trail[k]) > 0
  /\ md = "reduce" =>
       /\ res = {}
       /\ \/ Lev(t) = 0
          \/ td = {} /\ conf = 0 /\ t.propagated = Len(t.trail) /\ ~OutOfOrderIn(t)

(* The first levels are those of the assumptions.                           *)
AssumptionsInv(asm, t) == \A i \in 1 .. Len(asm) : i <= Lev(t) =>
  /\ t.control[i].decision \in {0, asm[i]}
  /\ On(t, asm[i]) /\ LevelIn(t, asm[i]) <= i

(* The input, and its models.                                               *)
InputOK == formula \in Seq(Seq(Lits)) /\ assumptions \in Seq(Lits)
Models  == ModelsOf(Original, {})

(* The invariant of the search.                                             *)
SInv ==
  /\ InputOK /\ answer \in {0, 10, 20}
  /\ TrailInv(asg) /\ ClausesInv(clauses) /\ WatchesInv(clauses, blit)
  /\ ReasonsInv(clauses, asg, resolvent)
  /\ answer = 0 => WatchedInv(clauses, asg, todo, conflict)
  /\ PendInv(clauses, blit, asg, todo, resolvent, answer)
  /\ AheadInv(asg, todo)
  /\ ViolatedInv(clauses, asg, conflict)
  /\ DerivingInv(asg, todo, conflict, resolvent, answer)
  /\ ModeInv(assumptions, asg, todo, conflict, resolvent, mode)
  /\ AssumptionsInv(assumptions, asg)
  /\ MeaningInv(Models, clauses, asg, resolvent)

(* Models are assignments.                                                  *)
LEMMA ModelsType == Models \in SUBSET Assignments
BY DEF Models, ModelsOf

(* The input does not change, nor do its models.                            *)
LEMMA SameModels ==
  ASSUME UNCHANGED input
  PROVE  Models' = Models /\ (InputOK => InputOK') /\ formula' = formula /\ assumptions' = assumptions
BY DEF Models, ModelsOf, Original, InputOK, input, SatisfiesAll

(* The names used here and those of the model for the parts of the state.   *)
LEMMA SameState ==
  /\ \A l : (True(l) <=> On(asg, l)) /\ (False(l) <=> On(asg, -l))
  /\ \A l : LevelOf(l) = LevelIn(asg, l) /\ ReasonOf(l) = ReasonIn(asg, l)
  /\ level = Lev(asg)
  /\ \A c : LitsOf(c) = LS(clauses, c)
  /\ OutOfOrder <=> OutOfOrderIn(asg)
  /\ Units0 = Units(asg)
BY DEF True, False, On, LevelOf, ReasonOf, ReasonIn, level, Lev, LitsOf, LS, OutOfOrder, OutOfOrderIn, Units0, Units

(* Stuttering keeps the invariant.                                          *)
LEMMA StutterInv ==
  ASSUME SInv, UNCHANGED vars
  PROVE  SInv'
<1>1. UNCHANGED <<input, clauses, blit, asg, todo, conflict, resolvent, mode, answer>>
  BY DEF vars, db
<1>2. Models' = Models /\ InputOK' /\ assumptions' = assumptions
  BY <1>1, SameModels DEF SInv
<1>. QED  BY <1>1, <1>2 DEF SInv

(* The parts of the invariant that backtracking keeps. *)
LEMMA BacktrackKeeps ==
  ASSUME NEW t, TrailInv(t), NEW n \in 0 .. Lev(t), NEW cl, ClausesInv(cl),
         NEW M, NEW asm \in Seq(Lits), AssumptionsInv(asm, t)
  PROVE  LET u == Backtrack(t, n)
         IN  /\ TrailInv(u) /\ u \in AsgType /\ Lev(u) = n
             /\ AssumptionsInv(asm, u)
             /\ Units(u) = Units(t)
             /\ (\A k \in DOMAIN t.trail : LevelIn(t, t.trail[k]) > 0) =>
                  \A k \in DOMAIN u.trail : LevelIn(u, u.trail[k]) > 0
             /\ \A l \in Lits : On(u, l) <=> On(t, l) /\ LevelIn(t, l) <= n
             /\ \A l \in Lits : On(u, l) \/ On(u, -l) => LevelIn(u, l) = LevelIn(t, l) /\ ReasonIn(u, l) = ReasonIn(t, l)
             /\ \A res : ReasonsInv(cl, t, res) /\ (n < Lev(t) \/ res = {}) => ReasonsInv(cl, u, {})
             /\ \A conf, conf2 : WatchedInv(cl, t, {}, conf) /\ (n = Lev(t) => conf = 0 \/ conf2 # 0) => WatchedInv(cl, u, {}, conf2)
<1>. DEFINE u == Backtrack(t, n)
<1>1. u \in AsgType /\ \E g : Cut(t, u, n, g)
  BY BacktrackCut
<1>2. PICK g : Cut(t, u, n, g)
  BY <1>1
<1>. HIDE DEF u
<1>3. TrailInv(u) /\ Units(u) = Units(t)
  BY <1>1, <1>2, CutInv, UnitsCut
<1>4. /\ \A l \in Lits : On(u, l) <=> On(t, l) /\ LevelIn(t, l) <= n
      /\ \A l \in Lits : On(u, l) \/ On(u, -l) => LevelIn(u, l) = LevelIn(t, l) /\ ReasonIn(u, l) = ReasonIn(t, l)
      /\ \A k \in DOMAIN u.trail :
              /\ g[k] \in DOMAIN t.trail /\ u.trail[k] = t.trail[g[k]]
              /\ LevelIn(u, u.trail[k]) = LevelIn(t, u.trail[k])
  BY <1>1, <1>2, CutFacts
<1>5. (\A k \in DOMAIN t.trail : LevelIn(t, t.trail[k]) > 0) =>
                  \A k \in DOMAIN u.trail : LevelIn(u, u.trail[k]) > 0
  BY <1>4
<1>6. \A res : ReasonsInv(cl, t, res) /\ (n < Lev(t) \/ res = {}) => ReasonsInv(cl, u, {})
  BY <1>1, <1>2, ReasonsCut
<1>7. \A conf, conf2 : WatchedInv(cl, t, {}, conf) /\ (n = Lev(t) => conf = 0 \/ conf2 # 0) => WatchedInv(cl, u, {}, conf2)
  BY <1>1, <1>2, WatchedCut
<1>8. Lev(u) = n /\ \A i \in 1 .. n : u.control[i] = t.control[i]
  BY <1>2 DEF Cut
<1>9. AssumptionsInv(asm, u)
  <2>1. SUFFICES ASSUME NEW i \in 1 .. Len(asm), i <= n
                 PROVE  /\ u.control[i].decision \in {0, asm[i]}
                        /\ On(u, asm[i]) /\ LevelIn(u, asm[i]) <= i
    BY <1>8 DEF AssumptionsInv
  <2>2. Lev(t) \in Nat /\ asm[i] \in Lits /\ i \in Nat /\ n \in Nat /\ Len(asm) \in Nat /\ n <= Lev(t)
    BY TrailFacts, AsgFacts
  <2>3. i <= Lev(t) /\ i \in 1 .. n
    BY <2>1, <2>2
  <2>4. /\ t.control[i].decision \in {0, asm[i]}
        /\ On(t, asm[i]) /\ LevelIn(t, asm[i]) <= i /\ LevelIn(t, asm[i]) \in Nat
    BY <2>2, <2>3, TrailFacts, AsgFacts DEF AssumptionsInv
  <2>5. LevelIn(t, asm[i]) <= n
    <3>. DEFINE x == LevelIn(t, asm[i])
    <3>1. x <= i /\ i <= n /\ x \in Nat /\ i \in Nat /\ n \in Nat
      BY <2>1, <2>2, <2>4
    <3>. HIDE DEF x
    <3>2. x <= n
      BY <3>1
    <3>. QED  BY <3>2 DEF x
  <2>. QED  BY <2>2, <2>3, <2>4, <2>5, <1>4, <1>8
<1>. QED  BY <1>1, <1>3, <1>4, <1>5, <1>6, <1>7, <1>8, <1>9 DEF u

(* The levels of the assumptions stay as they are when the trail grows.     *)
LEMMA GrowsKeeps ==
  ASSUME NEW t, TrailInv(t), NEW u \in AsgType, NEW l \in Lits, ~On(t, l), ~On(t, -l),
         NEW n, NEW r, Grows(t, u, l, n, r), NEW asm \in Seq(Lits), AssumptionsInv(asm, t)
  PROVE  /\ AssumptionsInv(asm, u) /\ Lev(u) = Lev(t)
         /\ n > 0 /\ (\A k \in DOMAIN t.trail : LevelIn(t, t.trail[k]) > 0) =>
              \A k \in DOMAIN u.trail : LevelIn(u, u.trail[k]) > 0
<1>1. u.control = t.control /\ Lev(u) = Lev(t) /\ LevelIn(u, l) = n
  BY DEF Grows, Lev
<1>2. AssumptionsInv(asm, u)
  <2>1. SUFFICES ASSUME NEW i \in 1 .. Len(asm), i <= Lev(t)
                 PROVE  /\ t.control[i].decision \in {0, asm[i]}
                        /\ On(u, asm[i]) /\ LevelIn(u, asm[i]) <= i
    BY <1>1 DEF AssumptionsInv
  <2>2. /\ t.control[i].decision \in {0, asm[i]}
        /\ On(t, asm[i]) /\ LevelIn(t, asm[i]) <= i
    BY <2>1 DEF AssumptionsInv
  <2>3. asm[i] \in Lits
    BY SeqAt
  <2>4. On(u, asm[i]) /\ LevelIn(u, asm[i]) = LevelIn(t, asm[i])
    BY <2>2, <2>3, GrowsFacts
  <2>. QED  BY <2>2, <2>4
<1>3. ASSUME n > 0, \A k \in DOMAIN t.trail : LevelIn(t, t.trail[k]) > 0, NEW k \in DOMAIN u.trail
      PROVE  LevelIn(u, u.trail[k]) > 0
  <2>1. CASE k \in DOMAIN t.trail
    BY <1>3, <2>1, GrowsFacts
  <2>2. CASE k = Len(t.trail) + 1
    BY <1>1, <1>3, <2>2, GrowsFacts
  <2>. QED  BY <2>1, <2>2, GrowsFacts
<1>. QED  BY <1>1, <1>2, <1>3

(* Taking the next literal of the trail for propagation keeps the           *)
(* invariant: the watches of its negation are the ones to visit.            *)
LEMMA NextLiteralInv ==
  ASSUME SInv, NextLiteral
  PROVE  SInv'
<1>0. UNCHANGED <<input, clauses, blit, conflict, resolvent, mode, answer>> /\ answer = 0 /\ resolvent = {}
      /\ conflict = 0 /\ todo = {} /\ asg.propagated < Len(asg.trail)
  BY DEF NextLiteral, Propagating, db
<1>. DEFINE t == asg
            u == asg'
            w == -asg.trail[asg.propagated + 1]
<1>1. TrailInv(t) /\ ClausesInv(clauses) /\ WatchesInv(clauses, blit) /\ ReasonsInv(clauses, t, {})
      /\ WatchedInv(clauses, t, {}, 0)
  BY <1>0 DEF SInv
<1>2. /\ t \in AsgType /\ Len(t.trail) \in Nat /\ t.propagated \in Nat /\ DOMAIN t.trail = 1 .. Len(t.trail)
      /\ Lev(t) \in Nat /\ DOMAIN t.control = 1 .. Lev(t)
      /\ \A i \in 1 .. Lev(t) : t.control[i].trail \in Nat /\ t.control[i].trail <= t.propagated
  BY <1>1, TrailFacts, AsgFacts
<1>3. u = [t EXCEPT !.propagated = t.propagated + 1]
  BY DEF NextLiteral
<1>4. todo' = {x[2] : x \in {x \in DOMAIN blit : x[1] = w}}
  BY DEF NextLiteral
<1>5. /\ u.trail = t.trail /\ u.var = t.var /\ u.control = t.control /\ u.propagated = t.propagated + 1
      /\ u \in AsgType
  <2>1. t.propagated + 1 \in Nat
    BY <1>2
  <2>2. /\ u.trail = t.trail /\ u.var = t.var /\ u.control = t.control /\ u.propagated = t.propagated + 1
        /\ u = [trail |-> t.trail, var |-> t.var, control |-> t.control, propagated |-> t.propagated + 1]
    BY <1>2, <1>3 DEF AsgType
  <2>3. t.trail \in Seq(Lits) /\ t.control \in Seq([decision : Int, trail : Nat])
        /\ t.var \in [Var -> [level : Nat, reason : Nat]]
    BY <1>2 DEF AsgType
  <2>. QED  BY <2>1, <2>2, <2>3 DEF AsgType
<1>. HIDE DEF u
<1>6. Lev(u) = Lev(t) /\ (\A l : On(u, l) <=> On(t, l))
      /\ \A l : LevelIn(u, l) = LevelIn(t, l) /\ ReasonIn(u, l) = ReasonIn(t, l)
  BY <1>5 DEF Lev, On, LevelIn, ReasonIn
<1>7. TrailInv(u)
  <2>1. Stacked(u)
    <3>0. DOMAIN u.control = 1 .. Lev(t) /\ t.propagated + 1 <= Len(t.trail)
      BY <1>0, <1>2, <1>5
    <3>1. /\ \A i \in DOMAIN u.control : u.control[i].trail <= u.propagated
          /\ u.propagated <= Len(u.trail)
      BY <3>0, <1>2, <1>5
    <3>. QED  BY <1>1, <1>5, <3>1 DEF TrailInv, Stacked
  <2>2. Once(u.trail) /\ Leveled(u)
    BY <1>1, <1>5, <1>6 DEF TrailInv, Leveled
  <2>3. \A k : Decision(t, k) => Decision(u, k)
    BY <1>5, <1>6 DEF Decision
  <2>4. Decisions(u)
    BY <1>1, <1>5, <1>6, <2>3 DEF TrailInv, Decisions
  <2>. QED  BY <1>5, <2>1, <2>2, <2>4 DEF TrailInv
<1>8. ReasonsInv(clauses, u, {})
  BY <1>1, <1>5, ReasonsOpens
<1>9. WatchedInv(clauses, u, todo', 0)
  <2>1. SUFFICES ASSUME NEW c \in DOMAIN clauses, ~clauses[c].garbage
                 PROVE  WellWatched(LS(clauses, c), clauses[c].lits[1], clauses[c].lits[2], u, u.propagated, Pending(u, todo', c))
    BY DEF WatchedInv, Limit
  <2>2. WellWatched(LS(clauses, c), clauses[c].lits[1], clauses[c].lits[2], t, t.propagated, 0)
    BY <1>1, <2>1 DEF WatchedInv, Limit, Pending
  <2>3. c \notin todo' => w \notin Watches(clauses, c)
    <3>1. SUFFICES ASSUME w \in Watches(clauses, c) PROVE c \in todo'
      OBVIOUS
    <3>2. <<w, c>> \in DOMAIN blit
      BY <1>1, <2>1, <3>1 DEF WatchesInv
    <3>3. <<w, c>>[1] = w /\ <<w, c>>[2] = c
      OBVIOUS
    <3>. HIDE DEF w
    <3>. QED  BY <1>4, <3>2, <3>3
  <2>4. ASSUME NEW p, Blocked(t, LS(clauses, c), p)
        PROVE  Blocked(u, LS(clauses, c), p)
    BY <1>5, <1>6, <2>4 DEF Blocked
  <2>5. ASSUME NEW x \in Watches(clauses, c), Good(t, LS(clauses, c), x, t.propagated, 0)
        PROVE  Good(u, LS(clauses, c), x, u.propagated, Pending(u, todo', c))
    <3>1. SUFFICES ASSUME NEW p \in DOMAIN t.trail, t.trail[p] = -x, p <= t.propagated + 1,
                          p # Pending(u, todo', c)
                   PROVE  Blocked(u, LS(clauses, c), p)
      BY <1>5 DEF Good
    <3>2. CASE p = t.propagated + 1
      <4>1. c \notin todo'
        BY <1>5, <3>1, <3>2 DEF Pending
      <4>2. x \in Lits
        BY <1>1, ClauseFacts
      <4>3. w = x
        BY <3>1, <3>2, <4>2, LitFacts
      <4>. QED  BY <2>3, <2>5, <4>1, <4>3
    <3>3. CASE p # t.propagated + 1
      <4>1. p <= t.propagated /\ p # 0
        BY <1>2, <3>1, <3>3
      <4>2. Blocked(t, LS(clauses, c), p)
        BY <2>5, <3>1, <4>1 DEF Good
      <4>. QED  BY <4>2, <2>4
    <3>. QED  BY <3>2, <3>3
  <2>. QED  BY <1>6, <2>2, <2>5 DEF WellWatched, Watches
<1>10. PendInv(clauses, blit, u, todo', {}, 0)
  <2>1. ASSUME NEW c \in todo'
        PROVE  c \in DOMAIN clauses /\ <<w, c>> \in DOMAIN blit
    <3>1. PICK x \in DOMAIN blit : x[1] = w /\ x[2] = c
      BY <1>4, <2>1
    <3>2. x = <<x[1], x[2]>> /\ x[2] \in DOMAIN clauses
      BY <1>1 DEF WatchesInv
    <3>. QED  BY <3>1, <3>2
  <2>. QED  BY <1>5, <2>1 DEF PendInv
<1>11. AheadInv(u, todo')
  <2>1. u.propagated > 0
    BY <1>2, <1>5
  <2>2. Lev(u) > 0 => u.control[Lev(u)].trail < u.propagated
    <3>1. Lev(t) > 0 => Lev(t) \in 1 .. Lev(t)
      BY <1>2
    <3>. QED  BY <1>2, <1>5, <1>6, <3>1
  <2>. QED  BY <2>1, <2>2 DEF AheadInv
<1>12. ViolatedInv(clauses, u, 0) /\ DerivingInv(u, todo', 0, {}, 0)
  BY DEF ViolatedInv, DerivingInv
<1>13. ModeInv(assumptions, u, todo', 0, {}, mode)
  <2>1. ModeInv(assumptions, t, {}, 0, {}, mode)
    BY <1>0 DEF SInv
  <2>2. mode = "reduce" => Lev(t) = 0
    BY <1>0, <1>2, <2>1 DEF ModeInv
  <2>. QED  BY <1>5, <1>6, <2>1, <2>2 DEF ModeInv
<1>14. AssumptionsInv(assumptions, u)
  <2>1. AssumptionsInv(assumptions, t)
    BY DEF SInv
  <2>. QED  BY <1>5, <1>6, <2>1 DEF AssumptionsInv
<1>15. MeaningInv(Models, clauses, u, {})
  <2>1. Units(u) = Units(t)
    BY <1>5, UnitsSame
  <2>2. MeaningInv(Models, clauses, t, {})
    BY <1>0 DEF SInv
  <2>. QED  BY <2>1, <2>2, MeaningSame
<1>16. Models' = Models /\ InputOK' /\ assumptions' = assumptions
  BY <1>0, SameModels DEF SInv
<1>. QED  BY <1>0, <1>1, <1>7, <1>8, <1>9, <1>10, <1>11, <1>12, <1>13, <1>14, <1>15, <1>16 DEF SInv, u

(* A finite set of numbers is bounded.                                      *)
LEMMA FiniteBound ==
  ASSUME NEW S \in SUBSET Nat, IsFiniteSet(S)
  PROVE  \E b \in Nat : \A k \in S : k <= b
<1>1. PICK n \in Nat : ExistsSurjection(1 .. n, S)
  BY FS_NatSurjection
<1>2. PICK f \in Surjection(1 .. n, S) : TRUE
  BY <1>1 DEF ExistsSurjection
<1>3. f \in [1 .. n -> S] /\ \A s \in S : \E i \in 1 .. n : f[i] = s
  BY <1>2 DEF Surjection
<1>3a. \A i \in 1 .. n : f[i] \in Nat
  BY <1>3
<1>. DEFINE G == {k \in 0 .. n : \E b \in Nat : \A i \in 1 .. k : f[i] <= b}
<1>4. 0 \in G
  OBVIOUS
<1>5. ASSUME NEW k \in 1 .. n, k - 1 \in G
      PROVE  k \in G
  <2>1. PICK b \in Nat : \A i \in 1 .. k - 1 : f[i] <= b
    BY <1>5
  <2>2. f[k] \in Nat /\ \A i \in 1 .. k - 1 : f[i] \in Nat
    <3>1. \A i \in 1 .. k - 1 : i \in 1 .. n
      OBVIOUS
    <3>. QED  BY <1>3a, <3>1
  <2>3. b + f[k] \in Nat /\ \A i \in 1 .. k : f[i] <= b + f[k]
    <3>1. b + f[k] \in Nat
      BY <2>2
    <3>2. ASSUME NEW i \in 1 .. k
          PROVE  f[i] <= b + f[k]
      <4>1. CASE i = k
        BY <4>1, <2>2
      <4>2. CASE i # k
        <5>1. i \in 1 .. k - 1
          BY <4>2
        <5>. QED  BY <5>1, <2>1, <2>2
      <4>. QED  BY <4>1, <4>2
    <3>. QED  BY <3>1, <3>2
  <2>. DEFINE z == b + f[k]
  <2>4. z \in Nat /\ \A i \in 1 .. k : f[i] <= z
    BY <2>3
  <2>5. k \in 0 .. n
    OBVIOUS
  <2>. HIDE DEF z
  <2>. QED  BY <2>4, <2>5
<1>6. \A k \in 0 .. n : k \in G
  <2>. HIDE DEF G
  <2>. QED  BY <1>4, <1>5, UpTo
<1>7. PICK b \in Nat : \A i \in 1 .. n : f[i] <= b
  <2>1. n \in G
    <3>1. n \in 0 .. n
      OBVIOUS
    <3>. HIDE DEF G
    <3>. QED  BY <1>6, <3>1
  <2>. QED  BY <2>1
<1>. QED  BY <1>3, <1>7

(* What a new level without a literal keeps: it is opened for an assumption *)
(* that is true already.                                                    *)
LEMMA OpensKeeps ==
  ASSUME NEW t, TrailInv(t), NEW u \in AsgType, NEW d, Opens(t, u, d), t.propagated = Len(t.trail),
         NEW cl, ClausesInv(cl), NEW asm \in Seq(Lits), AssumptionsInv(asm, t),
         Lev(t) < Len(asm) => d = 0 /\ On(t, asm[Lev(t) + 1]),
         ReasonsInv(cl, t, {}), WatchedInv(cl, t, {}, 0)
  PROVE  /\ TrailInv(u) /\ Units(u) = Units(t) /\ AssumptionsInv(asm, u)
         /\ ReasonsInv(cl, u, {}) /\ WatchedInv(cl, u, {}, 0)
         /\ u.trail = t.trail /\ (\A l : LevelIn(u, l) = LevelIn(t, l))
<1>1. /\ TrailInv(u)
      /\ \A k : On(u, k) <=> On(t, k)
      /\ \A k : LevelIn(u, k) = LevelIn(t, k) /\ ReasonIn(u, k) = ReasonIn(t, k)
  BY OpensFacts
<1>2. /\ u.trail = t.trail /\ u.var = t.var /\ Lev(u) = Lev(t) + 1
      /\ \A i \in 1 .. Lev(t) : u.control[i] = t.control[i]
      /\ u.control[Lev(t) + 1] = [decision |-> d, trail |-> Len(t.trail)]
  BY DEF Opens
<1>3. Lev(t) \in Nat /\ Len(asm) \in Nat
  BY TrailFacts, AsgFacts
<1>4. AssumptionsInv(asm, u)
  <2>1. SUFFICES ASSUME NEW i \in 1 .. Len(asm), i <= Lev(t) + 1
                 PROVE  /\ u.control[i].decision \in {0, asm[i]}
                        /\ On(u, asm[i]) /\ LevelIn(u, asm[i]) <= i
    BY <1>2 DEF AssumptionsInv
  <2>2. CASE i <= Lev(t)
    <3>1. /\ t.control[i].decision \in {0, asm[i]}
          /\ On(t, asm[i]) /\ LevelIn(t, asm[i]) <= i
      BY <2>2 DEF AssumptionsInv
    <3>2. i \in 1 .. Lev(t)
      BY <2>2, <1>3
    <3>. QED  BY <3>1, <3>2, <1>1, <1>2
  <2>3. CASE i = Lev(t) + 1
    <3>1. d = 0 /\ On(t, asm[i])
      BY <2>3, <1>3
    <3>2. u.control[i].decision = 0
      BY <1>2, <2>3, <3>1
    <3>3. asm[i] \in Lits
      BY SeqAt
    <3>4. LevelIn(t, asm[i]) <= Lev(t) /\ LevelIn(t, asm[i]) \in Nat
      BY <3>1, <3>3, TrailFacts, AsgFacts
    <3>. QED  BY <1>1, <1>3, <2>3, <3>1, <3>2, <3>4
  <2>. QED  BY <2>1, <2>2, <2>3, <1>3
<1>5. WatchedInv(cl, u, {}, 0)
  BY WatchedOpens
<1>6. ReasonsInv(cl, u, {})
  BY <1>2, ReasonsOpens
<1>. QED  BY <1>1, <1>2, <1>4, <1>5, <1>6, UnitsSame

(* What a decision keeps: below the number of assumptions it is the next    *)
(* one.                                                                     *)
LEMMA DecidedKeeps ==
  ASSUME NEW t, TrailInv(t), NEW l \in Lits, ~On(t, l), ~On(t, -l), t.propagated = Len(t.trail),
         NEW cl, ClausesInv(cl), NEW asm \in Seq(Lits), AssumptionsInv(asm, t),
         Lev(t) < Len(asm) => l = asm[Lev(t) + 1],
         ReasonsInv(cl, t, {}), WatchedInv(cl, t, {}, 0)
  PROVE  LET u == Decided(t, l)
         IN  /\ TrailInv(u) /\ Units(u) = Units(t) /\ AssumptionsInv(asm, u)
             /\ ReasonsInv(cl, u, {}) /\ WatchedInv(cl, u, {}, 0)
             /\ (\A k \in DOMAIN t.trail : LevelIn(t, t.trail[k]) > 0) =>
                  \A k \in DOMAIN u.trail : LevelIn(u, u.trail[k]) > 0
<1>. DEFINE u == NewLevel(t, l)
            d == Decided(t, l)
<1>1. /\ Opens(t, u, l) /\ TrailInv(u) /\ Grows(u, d, l, Lev(t) + 1, 0) /\ TrailInv(d)
  BY DecidedFacts
<1>. HIDE DEF u, d
<1>2. u \in AsgType /\ d \in AsgType /\ Lev(t) \in Nat /\ Len(asm) \in Nat
  BY <1>1, TrailFacts, AsgFacts
<1>3. /\ \A k : On(u, k) <=> On(t, k)
      /\ \A k : LevelIn(u, k) = LevelIn(t, k) /\ ReasonIn(u, k) = ReasonIn(t, k)
  BY <1>1, <1>2, OpensFacts
<1>4. /\ u.trail = t.trail /\ u.var = t.var /\ Lev(u) = Lev(t) + 1
      /\ \A i \in 1 .. Lev(t) : u.control[i] = t.control[i]
      /\ u.control[Lev(t) + 1] = [decision |-> l, trail |-> Len(t.trail)]
  BY <1>1 DEF Opens
<1>5. ReasonsInv(cl, u, {}) /\ WatchedInv(cl, u, {}, 0) /\ Units(u) = Units(t)
  BY <1>1, <1>2, <1>4, ReasonsOpens, WatchedOpens, UnitsSame
<1>6. ~On(u, l) /\ ~On(u, -l)
  BY <1>3
<1>7. ReasonsInv(cl, d, {})
  BY <1>1, <1>2, <1>5, <1>6, ReasonsGrow
<1>8. WatchedInv(cl, d, {}, 0)
  BY <1>1, <1>2, <1>5, <1>6, WatchedGrows
<1>9. Units(d) = Units(t)
  <2>1. Lev(t) + 1 # 0
    BY <1>2
  <2>. QED  BY <1>1, <1>2, <1>5, <1>6, <2>1, UnitsGrow
<1>10. d.control = u.control /\ Lev(d) = Lev(t) + 1 /\ LevelIn(d, l) = Lev(t) + 1
  BY <1>1, <1>4 DEF Grows, Lev
<1>11. AssumptionsInv(asm, d)
  <2>1. SUFFICES ASSUME NEW i \in 1 .. Len(asm), i <= Lev(t) + 1
                 PROVE  /\ u.control[i].decision \in {0, asm[i]}
                        /\ On(d, asm[i]) /\ LevelIn(d, asm[i]) <= i
    BY <1>10 DEF AssumptionsInv
  <2>2. CASE i <= Lev(t)
    <3>1. /\ t.control[i].decision \in {0, asm[i]}
          /\ On(t, asm[i]) /\ LevelIn(t, asm[i]) <= i
      BY <2>2 DEF AssumptionsInv
    <3>2. i \in 1 .. Lev(t)
      BY <2>2, <1>2
    <3>3. asm[i] \in Lits
      BY SeqAt
    <3>4. On(d, asm[i]) /\ LevelIn(d, asm[i]) = LevelIn(u, asm[i])
      BY <1>1, <1>2, <1>3, <1>6, <3>1, <3>3, GrowsFacts
    <3>. QED  BY <3>1, <3>2, <3>4, <1>3, <1>4
  <2>3. CASE i = Lev(t) + 1
    <3>1. l = asm[i]
      BY <2>3, <1>2
    <3>2. u.control[i].decision = l
      BY <1>4, <2>3
    <3>3. On(d, l)
      BY <1>1, <1>2, <1>6, GrowsFacts
    <3>. QED  BY <1>2, <1>10, <2>3, <3>1, <3>2, <3>3
  <2>. QED  BY <2>1, <2>2, <2>3, <1>2
<1>12. ASSUME \A k \in DOMAIN t.trail : LevelIn(t, t.trail[k]) > 0, NEW k \in DOMAIN d.trail
       PROVE  LevelIn(d, d.trail[k]) > 0
  <2>1. CASE k \in DOMAIN u.trail
    BY <1>1, <1>2, <1>3, <1>4, <1>6, <1>12, <2>1, GrowsFacts
  <2>2. CASE k = Len(u.trail) + 1
    BY <1>1, <1>2, <1>6, <1>10, <2>2, GrowsFacts
  <2>. QED  BY <1>1, <1>2, <1>6, <2>1, <2>2, GrowsFacts
<1>. QED  BY <1>1, <1>7, <1>8, <1>9, <1>11, <1>12 DEF d

(* The lucky strategies, and what comes after them.                         *)
LEMMA ModeFacts ==
  /\ "search" \notin ToSet(Strategies) /\ "reduce" \notin ToSet(Strategies)
  /\ mode \in ToSet(Strategies) => NextStrategy \in ToSet(Strategies) \cup {"search"}
<1>1. DOMAIN Strategies = 1 .. 8 /\ Len(Strategies) = 8
  BY DEF Strategies
<1>2. "search" \notin ToSet(Strategies) /\ "reduce" \notin ToSet(Strategies)
  <2>1. ASSUME NEW i \in 1 .. 8
        PROVE  Strategies[i] # "search" /\ Strategies[i] # "reduce"
    <3>1. \/ i = 1 \/ i = 2 \/ i = 3 \/ i = 4 \/ i = 5 \/ i = 6 \/ i = 7 \/ i = 8
      OBVIOUS
    <3>2. Strategies[1] = "all false"
      BY DEF Strategies
    <3>3. Strategies[2] = "all true"
      BY DEF Strategies
    <3>4. Strategies[3] = "forward true"
      BY DEF Strategies
    <3>5. Strategies[4] = "forward false"
      BY DEF Strategies
    <3>6. Strategies[5] = "backward false"
      BY DEF Strategies
    <3>7. Strategies[6] = "backward true"
      BY DEF Strategies
    <3>8. Strategies[7] = "positive horn"
      BY DEF Strategies
    <3>9. Strategies[8] = "negative horn"
      BY DEF Strategies
    <3>. QED  BY <3>1, <3>2, <3>3, <3>4, <3>5, <3>6, <3>7, <3>8, <3>9
  <2>2. ASSUME NEW x \in ToSet(Strategies)
        PROVE  \E i \in 1 .. 8 : Strategies[i] = x
    BY <1>1 DEF ToSet
  <2>. QED  BY <2>1, <2>2
<1>3. ASSUME mode \in ToSet(Strategies)
      PROVE  NextStrategy \in ToSet(Strategies) \cup {"search"}
  <2>1. \E i \in DOMAIN Strategies : Strategies[i] = mode
    BY <1>3 DEF ToSet
  <2>. DEFINE i == CHOOSE i \in DOMAIN Strategies : Strategies[i] = mode
  <2>2. i \in 1 .. 8
    <3>1. i \in DOMAIN Strategies
      BY <2>1
    <3>. QED  BY <1>1, <3>1
  <2>3. NextStrategy = IF i = 8 THEN "search" ELSE Strategies[i + 1]
    BY <1>1 DEF NextStrategy
  <2>. HIDE DEF i
  <2>4. i # 8 => i + 1 \in DOMAIN Strategies
    BY <1>1, <2>2
  <2>5. \A j \in DOMAIN Strategies : Strategies[j] \in ToSet(Strategies)
    BY DEF ToSet
  <2>. QED  BY <2>3, <2>4, <2>5
<1>. QED  BY <1>2, <1>3

(* Everything but the assignment, the mode and the answer stays. *)
LEMMA AtRestInv ==
  ASSUME SInv, Quiet, UNCHANGED <<input, db, todo, conflict, resolvent>>, resolvent = {},
         TrailInv(asg'), ReasonsInv(clauses, asg', {}), answer' = 0 => WatchedInv(clauses, asg', {}, 0),
         Units(asg') = Units(asg), AssumptionsInv(assumptions, asg'),
         answer' \in {0, 10, 20}, ModeInv(assumptions, asg', {}, 0, {}, mode')
  PROVE  SInv'
<1>1. todo = {} /\ conflict = 0 /\ todo' = {} /\ conflict' = 0 /\ resolvent' = {}
      /\ clauses' = clauses /\ blit' = blit
  BY DEF Quiet, db
<1>2. Models' = Models /\ InputOK' /\ assumptions' = assumptions
  BY SameModels DEF SInv
<1>3. MeaningInv(Models, clauses, asg', {})
  BY MeaningSame DEF SInv
<1>4. PendInv(clauses, blit, asg', {}, {}, answer') /\ AheadInv(asg', {})
      /\ ViolatedInv(clauses, asg', 0) /\ DerivingInv(asg', {}, 0, {}, answer')
  BY DEF PendInv, AheadInv, ViolatedInv, DerivingInv
<1>. QED  BY <1>1, <1>2, <1>3, <1>4 DEF SInv

(* The invariant between two runs of propagation.                           *)
LEMMA QuietFacts ==
  ASSUME SInv, Quiet
  PROVE  /\ TrailInv(asg) /\ asg \in AsgType /\ ClausesInv(clauses) /\ resolvent = {} /\ ReasonsInv(clauses, asg, {})
         /\ WatchedInv(clauses, asg, {}, 0) /\ asg.propagated = Len(asg.trail)
         /\ AssumptionsInv(assumptions, asg) /\ assumptions \in Seq(Lits)
         /\ ModeInv(assumptions, asg, {}, 0, {}, mode) /\ Lev(asg) \in Nat /\ Len(assumptions) \in Nat
<1>1. resolvent = {}
  BY DEF SInv, Quiet, DerivingInv
<1>2. TrailInv(asg) /\ assumptions \in Seq(Lits)
  BY DEF SInv, InputOK
<1>3. asg \in AsgType /\ Lev(asg) \in Nat /\ Len(assumptions) \in Nat
  BY <1>2, TrailFacts, AsgFacts
<1>. QED  BY <1>1, <1>2, <1>3 DEF SInv, Quiet

(* Backtracking at rest keeps the invariant.                                *)
LEMMA RestBacktrackInv ==
  ASSUME SInv, Quiet, NEW n \in 0 .. Lev(asg), asg' = Backtrack(asg, n),
         UNCHANGED <<input, db, todo, conflict, resolvent, answer>>,
         mode' = mode \/ mode' \in ToSet(Strategies) \cup {"search"},
         mode' \in ToSet(Strategies) => mode \in ToSet(Strategies),
         mode' = mode => mode # "reduce"
  PROVE  SInv'
<1>1. /\ TrailInv(asg) /\ ClausesInv(clauses) /\ resolvent = {} /\ ReasonsInv(clauses, asg, {})
      /\ WatchedInv(clauses, asg, {}, 0)
      /\ AssumptionsInv(assumptions, asg) /\ assumptions \in Seq(Lits)
      /\ ModeInv(assumptions, asg, {}, 0, {}, mode)
  BY QuietFacts
<1>2. /\ TrailInv(asg') /\ AssumptionsInv(assumptions, asg') /\ Units(asg') = Units(asg)
      /\ (\A k \in DOMAIN asg.trail : LevelIn(asg, asg.trail[k]) > 0) =>
              \A k \in DOMAIN asg'.trail : LevelIn(asg', asg'.trail[k]) > 0
      /\ ReasonsInv(clauses, asg', {})
      /\ WatchedInv(clauses, asg', {}, 0)
  BY <1>1, BacktrackKeeps
<1>3. mode' # "reduce" /\ mode' \in ToSet(Strategies) \cup {"search", "reduce"}
  BY <1>1, ModeFacts DEF ModeInv
<1>4. ModeInv(assumptions, asg', {}, 0, {}, mode')
  BY <1>1, <1>2, <1>3 DEF ModeInv
<1>5. answer' \in {0, 10, 20}
  BY DEF SInv
<1>. QED  BY <1>1, <1>2, <1>4, <1>5, AtRestInv

(* Deciding at rest keeps the invariant.                                    *)
LEMMA RestDecideInv ==
  ASSUME SInv, Quiet, NEW l \in Lits, ~On(asg, l), ~On(asg, -l), asg' = Decided(asg, l),
         Lev(asg) < Len(assumptions) => l = assumptions[Lev(asg) + 1],
         UNCHANGED <<input, db, todo, conflict, resolvent, answer, mode>>, mode # "reduce"
  PROVE  SInv'
<1>1. /\ TrailInv(asg) /\ ClausesInv(clauses) /\ resolvent = {} /\ ReasonsInv(clauses, asg, {})
      /\ WatchedInv(clauses, asg, {}, 0) /\ asg.propagated = Len(asg.trail)
      /\ AssumptionsInv(assumptions, asg) /\ assumptions \in Seq(Lits)
      /\ ModeInv(assumptions, asg, {}, 0, {}, mode)
  BY QuietFacts
<1>2. /\ TrailInv(asg') /\ AssumptionsInv(assumptions, asg') /\ Units(asg') = Units(asg)
      /\ (\A k \in DOMAIN asg.trail : LevelIn(asg, asg.trail[k]) > 0) =>
              \A k \in DOMAIN asg'.trail : LevelIn(asg', asg'.trail[k]) > 0
      /\ ReasonsInv(clauses, asg', {})
      /\ WatchedInv(clauses, asg', {}, 0)
  BY <1>1, DecidedKeeps
<1>4. ModeInv(assumptions, asg', {}, 0, {}, mode')
  BY <1>1, <1>2 DEF ModeInv
<1>5. answer' \in {0, 10, 20}
  BY DEF SInv
<1>. QED  BY <1>1, <1>2, <1>4, <1>5, AtRestInv

(* The answer 10 keeps the invariant.                                       *)
LEMMA SatisfiedInv ==
  ASSUME SInv, Satisfied
  PROVE  SInv'
<1>1. Quiet /\ UNCHANGED <<input, db, asg, todo, conflict, resolvent, mode>> /\ answer' = 10
  BY DEF Satisfied, Loop
<1>2. /\ TrailInv(asg) /\ resolvent = {} /\ ReasonsInv(clauses, asg, {})
      /\ WatchedInv(clauses, asg, {}, 0)
      /\ AssumptionsInv(assumptions, asg)
      /\ ModeInv(assumptions, asg, {}, 0, {}, mode)
  BY <1>1, QuietFacts
<1>. QED  BY <1>1, <1>2, AtRestInv

(* A restart keeps the invariant.                                           *)
LEMMA RestartInv ==
  ASSUME SInv, Restart
  PROVE  SInv'
<1>1. Quiet /\ UNCHANGED <<input, db, todo, conflict, resolvent, mode, answer>> /\ mode = "search"
  BY DEF Restart, Loop
<1>2. PICK n \in Len(assumptions) .. level : asg' = Backtrack(asg, n)
  BY DEF Restart
<1>3. n \in 0 .. Lev(asg)
  BY <1>1, <1>2, QuietFacts, SameState
<1>. QED  BY <1>1, <1>2, <1>3, RestBacktrackInv

(* The variables to decide on are those of the formula.                     *)
LEMMA ActiveLits == Active \subseteq Lits
BY DEF Active

(* A decision keeps the invariant, whether it is an assumption that is      *)
(* open, true or false already, or any other literal.                       *)
LEMMA DecideInv ==
  ASSUME SInv, Decide
  PROVE  SInv'
<1>1. Quiet /\ UNCHANGED <<input, db, todo, conflict, resolvent, mode>> /\ mode = "search"
  BY DEF Decide, Loop
<1>2. /\ TrailInv(asg) /\ asg \in AsgType /\ ClausesInv(clauses) /\ resolvent = {} /\ ReasonsInv(clauses, asg, {})
      /\ WatchedInv(clauses, asg, {}, 0) /\ asg.propagated = Len(asg.trail)
      /\ AssumptionsInv(assumptions, asg) /\ assumptions \in Seq(Lits)
      /\ ModeInv(assumptions, asg, {}, 0, {}, mode) /\ Lev(asg) \in Nat /\ Len(assumptions) \in Nat
  BY <1>1, QuietFacts
<1>3. /\ \A l : (True(l) <=> On(asg, l)) /\ (False(l) <=> On(asg, -l))
      /\ level = Lev(asg)
  BY SameState
<1>4. CASE level < Len(assumptions)
  <2>. DEFINE l == assumptions[level + 1]
  <2>1. l \in Lits /\ l = assumptions[Lev(asg) + 1]
    BY <1>2, <1>3, <1>4, SeqAt
  <2>2. IF False(l) THEN answer' = 20 /\ asg' = asg
        ELSE asg' = (IF True(l) THEN NewLevel(asg, 0) ELSE Decided(asg, l)) /\ answer' = answer
    BY <1>4 DEF Decide
  <2>. HIDE DEF l
  <2>3. CASE False(l)
    <3>1. answer' = 20 /\ asg' = asg
      BY <2>2, <2>3
    <3>. QED  BY <1>1, <1>2, <3>1, AtRestInv
  <2>4. CASE ~False(l) /\ True(l)
    <3>1. asg' = NewLevel(asg, 0) /\ answer' = answer
      BY <2>2, <2>4
    <3>2. NewLevel(asg, 0) \in AsgType /\ Opens(asg, NewLevel(asg, 0), 0)
      <4>1. 0 \in Int
        OBVIOUS
      <4>. QED  BY <4>1, <1>2, NewLevelOpens
    <3>3. On(asg, assumptions[Lev(asg) + 1])
      BY <2>1, <2>4, <1>3
    <3>4. /\ TrailInv(asg') /\ Units(asg') = Units(asg) /\ AssumptionsInv(assumptions, asg')
          /\ ReasonsInv(clauses, asg', {}) /\ WatchedInv(clauses, asg', {}, 0)
          /\ asg'.trail = asg.trail /\ (\A k : LevelIn(asg', k) = LevelIn(asg, k))
      BY <1>2, <3>1, <3>2, <3>3, OpensKeeps
    <3>5. ModeInv(assumptions, asg', {}, 0, {}, mode')
      BY <1>1, <1>2, <3>4 DEF ModeInv
    <3>6. answer' \in {0, 10, 20}
      BY <3>1 DEF SInv
    <3>. QED  BY <1>1, <1>2, <3>4, <3>5, <3>6, AtRestInv
  <2>5. CASE ~False(l) /\ ~True(l)
    <3>1. asg' = Decided(asg, l) /\ answer' = answer
      BY <2>2, <2>5
    <3>. QED  BY <1>1, <1>3, <2>1, <2>5, <3>1, RestDecideInv
  <2>. QED  BY <2>3, <2>4, <2>5
<1>5. CASE ~(level < Len(assumptions))
  <2>1. PICK l \in Active : Free(l) /\ asg' = Decided(asg, l)
    BY <1>5 DEF Decide
  <2>2. answer' = answer /\ l \in Lits /\ ~On(asg, l) /\ ~On(asg, -l)
    BY <1>3, <1>5, <2>1, ActiveLits DEF Decide, Free
  <2>3. ~(Lev(asg) < Len(assumptions))
    BY <1>3, <1>5
  <2>. QED  BY <1>1, <2>1, <2>2, <2>3, RestDecideInv
<1>. QED  BY <1>4, <1>5

(* Marking learned clauses as garbage keeps the invariant: none of them is  *)
(* a reason.                                                                *)
LEMMA ReduceInv ==
  ASSUME SInv, Reduce
  PROVE  SInv'
<1>1. Quiet /\ UNCHANGED <<input, db, todo, conflict, resolvent, answer>> /\ mode = "search" /\ mode' = "reduce"
      /\ asg' = IF OutOfOrder THEN Backtrack(asg, 0) ELSE asg
  BY DEF Reduce, Loop
<1>2. /\ TrailInv(asg) /\ asg \in AsgType /\ ClausesInv(clauses) /\ resolvent = {} /\ ReasonsInv(clauses, asg, {})
      /\ WatchedInv(clauses, asg, {}, 0) /\ asg.propagated = Len(asg.trail)
      /\ AssumptionsInv(assumptions, asg) /\ assumptions \in Seq(Lits)
      /\ ModeInv(assumptions, asg, {}, 0, {}, mode) /\ Lev(asg) \in Nat
  BY <1>1, QuietFacts
<1>3. answer' \in {0, 10, 20}
  BY <1>1 DEF SInv
<1>4. CASE OutOfOrder
  <2>1. asg' = Backtrack(asg, 0) /\ 0 \in 0 .. Lev(asg)
    BY <1>1, <1>2, <1>4
  <2>2. /\ TrailInv(asg') /\ AssumptionsInv(assumptions, asg') /\ Units(asg') = Units(asg) /\ Lev(asg') = 0
        /\ ReasonsInv(clauses, asg', {})
        /\ WatchedInv(clauses, asg', {}, 0)
    BY <1>2, <2>1, BacktrackKeeps
  <2>3. ModeInv(assumptions, asg', {}, 0, {}, mode')
    BY <1>1, <2>2, ModeFacts DEF ModeInv
  <2>. QED  BY <1>1, <1>2, <1>3, <2>2, <2>3, AtRestInv
<1>5. CASE ~OutOfOrder
  <2>1. asg' = asg
    BY <1>1, <1>5
  <2>2. ModeInv(assumptions, asg, {}, 0, {}, mode')
    BY <1>1, <1>2, <1>5, SameState, ModeFacts DEF ModeInv
  <2>. QED  BY <1>1, <1>2, <1>3, <2>1, <2>2, AtRestInv
<1>. QED  BY <1>4, <1>5

(* The variables a lucky strategy may still decide on.                      *)
LEMMA OpenFacts ==
  ASSUME SInv
  PROVE  /\ Open \in SUBSET Var /\ \A v \in Open : Free(v)
         /\ \A v \in Open : Signed(v) \in Lits /\ Free(Signed(v))
<1>1. formula \in Seq(Seq(Lits))
  BY DEF SInv, InputOK
<1>2. ASSUME NEW c \in DOMAIN formula, NEW l \in ToSet(formula[c])
      PROVE  l \in Lits
  <2>1. formula[c] \in Seq(Lits)
    BY <1>1, SeqAt
  <2>. QED  BY <2>1, SetFacts
<1>3. Occurring \subseteq Var
  BY <1>2, LitFacts DEF Occurring
<1>4. \A v \in Open : Free(v) /\ v \in Var
  BY <1>3 DEF Open
<1>5. ASSUME NEW v \in Open
      PROVE  Signed(v) \in Lits /\ Free(Signed(v))
  <2>1. Signed(v) = v \/ Signed(v) = -v
    BY DEF Signed
  <2>2. v \in Lits /\ -v \in Lits /\ - -v = v
    <3>1. v \in Lits
      BY <1>4 DEF Lits
    <3>. QED  BY <3>1, LitFacts
  <2>3. Free(v) /\ Free(-v)
    BY <1>4, <2>2 DEF Free, True, False
  <2>4. CASE Signed(v) = v
    BY <2>2, <2>3, <2>4
  <2>5. CASE Signed(v) = -v
    BY <2>2, <2>3, <2>5
  <2>. QED  BY <2>1, <2>4, <2>5
<1>. QED  BY <1>4, <1>5

(* What a lucky strategy decides is free.                                   *)
LEMMA LuckyLiteralFacts ==
  ASSUME SInv, Open # {}, LuckyLiteral # 0
  PROVE  LuckyLiteral \in Lits /\ Free(LuckyLiteral)
<1>. DEFINE P1 == mode \in {"all false", "all true"} /\ level = 0 /\ \E c \in ToSatisfy : Purely(c)
            P2 == mode \in {"positive horn", "negative horn"} /\ ToSatisfy # {}
            A2 == LET c  == Min(ToSatisfy)
                      ls == Restricted(clauses[c].lits, {l \in LitsOf(c) : Free(l) /\ l # Signed(Idx(l))})
                  IN  IF ls = <<>> THEN 0 ELSE ls[1]
            A3 == Signed(IF mode \in {"backward false", "backward true"} THEN Max(Open) ELSE Min(Open))
<1>1. LuckyLiteral = CASE P1 -> 0 [] P2 -> A2 [] OTHER -> A3
  BY DEF LuckyLiteral
<1>2. Max(Open) \in Open /\ Min(Open) \in Open
  <2>1. Var \in SUBSET Nat /\ IsFiniteSet(Var)
    BY VarAssumption
  <2>2. PICK b \in Nat : \A k \in Var : k <= b
    BY <2>1, FiniteBound
  <2>3. Open \in SUBSET Nat /\ \A k \in Open : k <= b
    BY <2>1, <2>2, OpenFacts
  <2>4. Max(Open) \in Open
    BY <2>3, MaxSpec
  <2>5. Min(Open) \in Open
    BY <2>3, MinSpec
  <2>. QED  BY <2>4, <2>5
<1>3. A3 \in Lits /\ Free(A3)
  BY <1>2, OpenFacts
<1>4. ASSUME P2, A2 # 0
      PROVE  A2 \in Lits /\ Free(A2)
  <2>1. ClausesInv(clauses)
    BY DEF SInv
  <2>2. ToSatisfy \in SUBSET Nat /\ ToSatisfy \subseteq DOMAIN clauses
    BY <2>1 DEF ToSatisfy, ClausesInv
  <2>. DEFINE c  == Min(ToSatisfy)
              S == {l \in LitsOf(c) : Free(l) /\ l # Signed(Idx(l))}
              ls == Restricted(clauses[c].lits, S)
  <2>3. c \in DOMAIN clauses
    BY <1>4, <2>2, MinSpec
  <2>4. A2 = IF ls = <<>> THEN 0 ELSE ls[1]
    OBVIOUS
  <2>. HIDE DEF c, S
  <2>5. clauses[c].lits \in Seq(Lits) /\ S = {l \in LitsOf(c) : Free(l) /\ l # Signed(Idx(l))}
    BY <2>1, <2>3, ClauseFacts DEF S
  <2>6. ls \in Seq(Lits) /\ \E g : Embeds(clauses[c].lits, S, ls, g)
    BY <2>5, RestrictedSpec
  <2>. HIDE DEF ls
  <2>7. ls # <<>> /\ A2 = ls[1]
    BY <1>4, <2>4
  <2>8. Len(ls) \in Nat /\ Len(ls) # 0
    BY <2>6, <2>7
  <2>9. ls[1] \in Lits /\ ls[1] \in S
    BY <2>6, <2>8 DEF Embeds
  <2>10. Free(ls[1])
    BY <2>5, <2>9
  <2>. HIDE DEF A2
  <2>. QED  BY <2>7, <2>9, <2>10
<1>5. P1 => ~P2
  OBVIOUS
<1>. HIDE DEF P1, P2, A2, A3
<1>6. CASE P1
  <2>1. LuckyLiteral = 0
    BY <1>1, <1>5, <1>6
  <2>. QED  BY <2>1
<1>7. CASE P2
  <2>1. LuckyLiteral = A2
    BY <1>1, <1>5, <1>7
  <2>. QED  BY <2>1, <1>4, <1>7
<1>8. CASE ~P1 /\ ~P2
  <2>1. LuckyLiteral = A3
    BY <1>1, <1>8
  <2>. QED  BY <2>1, <1>3
<1>. QED  BY <1>6, <1>7, <1>8

(* A step of a lucky strategy keeps the invariant.                          *)
LEMMA TryLuckyInv ==
  ASSUME SInv, TryLucky
  PROVE  SInv'
<1>1. Lucky /\ Quiet /\ UNCHANGED <<input, db, todo, conflict, resolvent>> /\ mode # "reduce"
  BY ModeFacts DEF TryLucky, Lucky
<1>2. /\ TrailInv(asg) /\ resolvent = {} /\ ReasonsInv(clauses, asg, {})
      /\ WatchedInv(clauses, asg, {}, 0) /\ Lev(asg) \in Nat
      /\ AssumptionsInv(assumptions, asg)
      /\ ModeInv(assumptions, asg, {}, 0, {}, mode)
  BY <1>1, QuietFacts
<1>3. \/ Open = {} /\ answer' = 10 /\ UNCHANGED <<asg, mode>>
      \/ Open # {} /\ LuckyLiteral # 0 /\ asg' = Decided(asg, LuckyLiteral) /\ UNCHANGED <<answer, mode>>
      \/ asg' = Backtrack(asg, 0) /\ mode' = NextStrategy /\ UNCHANGED answer
  <2>. DEFINE P1 == Open = {}
              P2 == Open # {} /\ LuckyLiteral # 0
              A1 == answer' = 10 /\ UNCHANGED <<asg, mode>>
              A2 == asg' = Decided(asg, LuckyLiteral) /\ UNCHANGED <<answer, mode>>
              A3 == asg' = Backtrack(asg, 0) /\ mode' = NextStrategy /\ UNCHANGED answer
  <2>1. (CASE P1 -> A1 [] P2 -> A2 [] OTHER -> A3)
    BY DEF TryLucky
  <2>2. P1 => ~P2
    OBVIOUS
  <2>3. P2 => Open # {} /\ LuckyLiteral # 0
    OBVIOUS
  <2>4. P1 => Open = {}
    OBVIOUS
  <2>. HIDE DEF P1, P2
  <2>5. (P1 /\ A1) \/ (P2 /\ A2) \/ A3
    BY <2>1, <2>2
  <2>. QED  BY <2>3, <2>4, <2>5
<1>4. CASE Open = {} /\ answer' = 10 /\ UNCHANGED <<asg, mode>>
  BY <1>1, <1>2, <1>4, AtRestInv
<1>5. CASE Open # {} /\ LuckyLiteral # 0 /\ asg' = Decided(asg, LuckyLiteral) /\ UNCHANGED <<answer, mode>>
  <2>1. LuckyLiteral \in Lits /\ ~On(asg, LuckyLiteral) /\ ~On(asg, -LuckyLiteral)
    BY <1>5, LuckyLiteralFacts, SameState DEF Free
  <2>2. assumptions = <<>>
    BY <1>1, <1>2 DEF ModeInv, Lucky
  <2>3. ~(Lev(asg) < Len(assumptions))
    BY <2>2, <1>2
  <2>. QED  BY <1>1, <1>5, <2>1, <2>3, RestDecideInv
<1>6. CASE asg' = Backtrack(asg, 0) /\ mode' = NextStrategy /\ UNCHANGED answer
  <2>1. 0 \in 0 .. Lev(asg)
    BY <1>2
  <2>2. mode \in ToSet(Strategies) /\ mode' \in ToSet(Strategies) \cup {"search"}
    BY <1>1, <1>6, ModeFacts DEF Lucky
  <2>. QED  BY <1>1, <1>6, <2>1, <2>2, RestBacktrackInv
<1>. QED  BY <1>3, <1>4, <1>5, <1>6

(* Giving up a lucky strategy keeps the invariant: everything is undone.    *)
LEMMA UnluckyInv ==
  ASSUME SInv, Unlucky
  PROVE  SInv'
<1>1. Lucky /\ answer = 0 /\ conflict # 0 /\ todo = {} /\ asg' = Backtrack(asg, 0) /\ conflict' = 0
      /\ mode' = NextStrategy /\ UNCHANGED <<input, db, todo, resolvent, answer>>
  BY DEF Unlucky
<1>2. TrailInv(asg) /\ ClausesInv(clauses) /\ WatchedInv(clauses, asg, {}, conflict)
      /\ ViolatedInv(clauses, asg, conflict) /\ ModeInv(assumptions, asg, {}, conflict, resolvent, mode)
      /\ AssumptionsInv(assumptions, asg) /\ assumptions \in Seq(Lits)
      /\ ReasonsInv(clauses, asg, resolvent)
  BY <1>1 DEF SInv, InputOK
<1>3. resolvent = {} /\ assumptions = <<>> /\ \A k \in DOMAIN asg.trail : LevelIn(asg, asg.trail[k]) > 0
  BY <1>1, <1>2 DEF ModeInv, Lucky
<1>4. Lev(asg) \in Nat /\ Lev(asg) # 0
  <2>1. Violated(clauses, asg, conflict)
    BY <1>1, <1>2 DEF ViolatedInv
  <2>2. Watches(clauses, conflict) \subseteq LS(clauses, conflict) /\ clauses[conflict].lits[1] \in Watches(clauses, conflict)
    BY <1>2, <2>1, ClauseFacts DEF Violated, Watches
  <2>3. On(asg, -clauses[conflict].lits[1])
    BY <2>1, <2>2 DEF Violated
  <2>4. Lev(asg) \in Nat /\ \E k \in DOMAIN asg.trail : asg.trail[k] = -clauses[conflict].lits[1]
    BY <1>2, <2>3, TrailFacts, AsgFacts
  <2>5. PICK k \in DOMAIN asg.trail : asg.trail[k] = -clauses[conflict].lits[1]
    BY <2>4
  <2>6. LevelIn(asg, asg.trail[k]) <= Lev(asg) /\ LevelIn(asg, asg.trail[k]) > 0 /\ LevelIn(asg, asg.trail[k]) \in Nat
    BY <1>2, <1>3, <2>5, TrailFacts, AsgFacts
  <2>. QED  BY <2>4, <2>6
<1>5. /\ TrailInv(asg') /\ AssumptionsInv(assumptions, asg') /\ Units(asg') = Units(asg)
      /\ \A k \in DOMAIN asg'.trail : LevelIn(asg', asg'.trail[k]) > 0
      /\ ReasonsInv(clauses, asg', {})
      /\ WatchedInv(clauses, asg', {}, 0)
  <2>1. 0 \in 0 .. Lev(asg) /\ 0 # Lev(asg)
    BY <1>4
  <2>. QED  BY <1>1, <1>2, <1>3, <2>1, BacktrackKeeps
<1>6. mode' # "reduce" /\ mode' \in ToSet(Strategies) \cup {"search", "reduce"}
  BY <1>1, ModeFacts DEF Lucky
<1>7. ModeInv(assumptions, asg', {}, 0, {}, mode')
  BY <1>3, <1>5, <1>6 DEF ModeInv
<1>8. Models' = Models /\ InputOK' /\ assumptions' = assumptions
  BY <1>1, SameModels DEF SInv
<1>9. MeaningInv(Models, clauses, asg', {})
  BY <1>5, MeaningSame DEF SInv
<1>10. PendInv(clauses, blit, asg', {}, {}, answer') /\ AheadInv(asg', {})
      /\ ViolatedInv(clauses, asg', 0) /\ DerivingInv(asg', {}, 0, {}, answer')
  BY DEF PendInv, AheadInv, ViolatedInv, DerivingInv
<1>11. clauses' = clauses /\ blit' = blit /\ todo' = {} /\ resolvent' = {} /\ answer' \in {0, 10, 20}
  BY <1>1, <1>3 DEF db, SInv
<1>. QED  BY <1>1, <1>2, <1>5, <1>7, <1>8, <1>9, <1>10, <1>11 DEF SInv

-----------------------------------------------------------------------------
(* Propagation.                                                             *)

(* watch_literal adds one watch, or replaces its blocking literal.          *)
LEMMA WatchSpec ==
  ASSUME NEW b, NEW l, NEW c, NEW k
  PROVE  /\ DOMAIN Watch(b, l, c, k) = DOMAIN b \cup {<<l, c>>}
         /\ Watch(b, l, c, k)[<<l, c>>] = k
         /\ \A x \in DOMAIN b : x # <<l, c>> => Watch(b, l, c, k)[x] = b[x]
BY DEF Watch

(* Unwatch takes one watch away.                                            *)
LEMMA UnwatchSpec ==
  ASSUME NEW b, NEW l, NEW c
  PROVE  /\ DOMAIN Unwatch(b, l, c) = DOMAIN b \ {<<l, c>>}
         /\ \A x \in DOMAIN b : x # <<l, c>> => Unwatch(b, l, c)[x] = b[x]
BY DEF Unwatch

(* A watch is one of a literal watched in its clause, and its blocking      *)
(* literal another one of the clause.                                       *)
LEMMA WatchesAt ==
  ASSUME NEW cl, NEW b, WatchesInv(cl, b), NEW l, NEW c, <<l, c>> \in DOMAIN b
  PROVE  c \in DOMAIN cl /\ l \in Watches(cl, c) /\ b[<<l, c>>] \in LS(cl, c) \ {l}
<1>1. <<l, c>>[1] = l /\ <<l, c>>[2] = c
  OBVIOUS
<1>. QED  BY <1>1 DEF WatchesInv

(* A watch gets another blocking literal. *)
LEMMA WatchesBlit ==
  ASSUME NEW cl, NEW b, WatchesInv(cl, b), NEW l, NEW c, <<l, c>> \in DOMAIN b, NEW k \in LS(cl, c) \ {l}
  PROVE  WatchesInv(cl, Watch(b, l, c, k)) /\ DOMAIN Watch(b, l, c, k) = DOMAIN b
<1>. DEFINE b2 == Watch(b, l, c, k)
           w0 == <<l, c>>
<1>0. /\ DOMAIN b2 = DOMAIN b \cup {w0}
      /\ b2[w0] = k
      /\ \A x \in DOMAIN b : x # w0 => b2[x] = b[x]
  BY DEF Watch
<1>0a. w0 \in DOMAIN b
  OBVIOUS
<1>0b. /\ DOMAIN b2 = DOMAIN b
      /\ b2[w0] = k
      /\ \A x \in DOMAIN b : x # w0 => b2[x] = b[x]
  <2>. HIDE DEF b2, w0
  <2>. QED  BY <1>0, <1>0a
<1>1. /\ DOMAIN b2 = DOMAIN b
      /\ b2[<<l, c>>] = k
      /\ \A x \in DOMAIN b : x # <<l, c>> => b2[x] = b[x]
  <2>. HIDE DEF b2
  <2>. QED BY <1>0b
<1>. HIDE DEF b2, w0
<1>2. <<l, c>>[1] = l /\ <<l, c>>[2] = c
  OBVIOUS
<1>3. ASSUME NEW w \in DOMAIN b2
      PROVE  /\ w = <<w[1], w[2]>>
             /\ w[2] \in DOMAIN cl /\ w[1] \in Watches(cl, w[2])
             /\ b2[w] \in LS(cl, w[2]) \ {w[1]}
  <2>1. /\ w = <<w[1], w[2]>>
        /\ w[2] \in DOMAIN cl /\ w[1] \in Watches(cl, w[2])
        /\ b[w] \in LS(cl, w[2]) \ {w[1]}
    BY <1>1 DEF WatchesInv
  <2>2. CASE w = <<l, c>>
    BY <2>1, <2>2, <1>1, <1>2
  <2>3. CASE w # <<l, c>>
    BY <2>1, <2>3, <1>1
  <2>. QED  BY <2>2, <2>3
<1>4. \A d \in DOMAIN cl : ~cl[d].garbage => \A x \in Watches(cl, d) : <<x, d>> \in DOMAIN b2
  BY <1>1 DEF WatchesInv
<1>5. WatchesInv(cl, b2)
  BY <1>3, <1>4 DEF WatchesInv
<1>. QED  BY <1>1, <1>5 DEF b2

(* A watch of a garbage clause goes. *)
LEMMA WatchesGarbage ==
  ASSUME NEW cl, NEW b, WatchesInv(cl, b), NEW l, NEW c, cl[c].garbage
  PROVE  WatchesInv(cl, Unwatch(b, l, c))
<1>. DEFINE b2 == Unwatch(b, l, c)
<1>1. /\ DOMAIN b2 = DOMAIN b \ {<<l, c>>}
      /\ \A x \in DOMAIN b : x # <<l, c>> => b2[x] = b[x]
  BY DEF Unwatch
<1>. HIDE DEF b2
<1>2. <<l, c>>[1] = l /\ <<l, c>>[2] = c
  OBVIOUS
<1>3. ASSUME NEW w \in DOMAIN b2
      PROVE  /\ w = <<w[1], w[2]>>
             /\ w[2] \in DOMAIN cl /\ w[1] \in Watches(cl, w[2])
             /\ b2[w] \in LS(cl, w[2]) \ {w[1]}
  <2>1. w \in DOMAIN b /\ b2[w] = b[w]
    BY <1>1
  <2>. QED  BY <2>1 DEF WatchesInv
<1>4. ASSUME NEW d \in DOMAIN cl, ~cl[d].garbage, NEW x \in Watches(cl, d)
      PROVE  <<x, d>> \in DOMAIN b2
  <2>1. <<x, d>> \in DOMAIN b /\ d # c
    BY <1>4 DEF WatchesInv
  <2>. QED  BY <2>1, <1>1
<1>5. WatchesInv(cl, b2)
  BY <1>3, <1>4 DEF WatchesInv
<1>. QED  BY <1>5 DEF b2

(* The watches of the clauses other than c are the same. *)
Rewatched(cl, b, c, cl2, b2) ==
  /\ DOMAIN cl2 = DOMAIN cl
  /\ \A d \in DOMAIN cl : d # c => cl2[d].lits = cl[d].lits /\ (cl[d].garbage => cl2[d].garbage)
  /\ \A w : w[2] # c => (w \in DOMAIN b2 <=> w \in DOMAIN b) /\ (w \in DOMAIN b => b2[w] = b[w])
  /\ \A w \in DOMAIN b2 : w[2] = c =>
       w = <<w[1], w[2]>> /\ w[1] \in Watches(cl2, c) /\ b2[w] \in LS(cl2, c) \ {w[1]}
  /\ ~cl2[c].garbage => \A x \in Watches(cl2, c) : <<x, c>> \in DOMAIN b2

(* Changing the watches of one clause that is changed keeps the invariant   *)
(* of the watches.                                                          *)
LEMMA WatchesOf ==
  ASSUME NEW cl, NEW b, WatchesInv(cl, b), NEW c \in DOMAIN cl, NEW cl2, NEW b2,
         Rewatched(cl, b, c, cl2, b2)
  PROVE  WatchesInv(cl2, b2)
<1>0. /\ DOMAIN cl2 = DOMAIN cl
      /\ \A d \in DOMAIN cl : d # c => cl2[d].lits = cl[d].lits /\ (cl[d].garbage => cl2[d].garbage)
      /\ \A w : w[2] # c => (w \in DOMAIN b2 <=> w \in DOMAIN b) /\ (w \in DOMAIN b => b2[w] = b[w])
      /\ \A w \in DOMAIN b2 : w[2] = c =>
           w = <<w[1], w[2]>> /\ w[1] \in Watches(cl2, c) /\ b2[w] \in LS(cl2, c) \ {w[1]}
      /\ ~cl2[c].garbage => \A x \in Watches(cl2, c) : <<x, c>> \in DOMAIN b2
  BY DEF Rewatched
<1>. USE <1>0
<1>1. \A d \in DOMAIN cl : d # c => LS(cl2, d) = LS(cl, d) /\ Watches(cl2, d) = Watches(cl, d)
  BY DEF LS, Watches
<1>2. ASSUME NEW w \in DOMAIN b2
      PROVE  /\ w = <<w[1], w[2]>>
             /\ w[2] \in DOMAIN cl2 /\ w[1] \in Watches(cl2, w[2])
             /\ b2[w] \in LS(cl2, w[2]) \ {w[1]}
  <2>1. CASE w[2] = c
    BY <2>1
  <2>2. CASE w[2] # c
    <3>1. w \in DOMAIN b /\ b2[w] = b[w]
      BY <2>2
    <3>2. /\ w = <<w[1], w[2]>>
          /\ w[2] \in DOMAIN cl /\ w[1] \in Watches(cl, w[2])
          /\ b[w] \in LS(cl, w[2]) \ {w[1]}
      BY <3>1 DEF WatchesInv
    <3>3. LS(cl2, w[2]) = LS(cl, w[2]) /\ Watches(cl2, w[2]) = Watches(cl, w[2])
      BY <1>1, <2>2, <3>2
    <3>. QED  BY <3>1, <3>2, <3>3
  <2>. QED  BY <2>1, <2>2
<1>3. ASSUME NEW d \in DOMAIN cl2, ~cl2[d].garbage, NEW x \in Watches(cl2, d)
      PROVE  <<x, d>> \in DOMAIN b2
  <2>1. CASE d = c
    BY <1>3, <2>1
  <2>2. CASE d # c
    <3>1. d \in DOMAIN cl /\ ~cl[d].garbage /\ x \in Watches(cl, d)
      BY <1>1, <1>3, <2>2
    <3>2. <<x, d>> \in DOMAIN b
      BY <3>1 DEF WatchesInv
    <3>3. <<x, d>>[2] # c
      BY <2>2
    <3>. QED  BY <3>2, <3>3
  <2>. QED  BY <2>1, <2>2
<1>. QED  BY <1>2, <1>3 DEF WatchesInv

-----------------------------------------------------------------------------
(* While a watch is visited, what is true now stays true until the literal *)
(* propagated is taken back.                                               *)
LEMMA BlockedNow ==
  ASSUME NEW t, TrailInv(t), NEW td, AheadInv(t, td), td # {},
         NEW ls \in SUBSET Lits, NEW b \in ls, On(t, b)
  PROVE  Blocked(t, ls, t.propagated)
<1>1. /\ t.propagated \in Nat /\ Lev(t) \in Nat
      /\ \A i \in 1 .. Lev(t) : t.control[i].trail \in Nat
      /\ LevelIn(t, b) \in Nat /\ LevelIn(t, b) <= Lev(t)
  BY TrailFacts, AsgFacts
<1>2. CASE LevelIn(t, b) = 0
  BY <1>2 DEF Blocked
<1>3. CASE LevelIn(t, b) # 0
  <2>1. LevelIn(t, b) \in 1 .. Lev(t) /\ Lev(t) \in 1 .. Lev(t)
    BY <1>1, <1>3
  <2>2. t.control[LevelIn(t, b)].trail <= t.control[Lev(t)].trail
    BY <1>1, <2>1, TrailFacts
  <2>3. t.control[Lev(t)].trail < t.propagated
    BY <1>1, <2>1 DEF AheadInv
  <2>4. t.control[LevelIn(t, b)].trail < t.propagated
    BY <1>1, <2>1, <2>2, <2>3
  <2>. QED  BY <2>4 DEF Blocked
<1>. QED  BY <1>2, <1>3

(* A clause has been visited when one of its literals blocks, or it is      *)
(* gone.                                                                    *)
LEMMA WatchedDrop ==
  ASSUME NEW cl, ClausesInv(cl), NEW t, TrailInv(t), NEW td, NEW conf, WatchedInv(cl, t, td, conf),
         NEW c, conf = 0 /\ c \in DOMAIN cl /\ ~cl[c].garbage => Blocked(t, LS(cl, c), t.propagated),
         AheadInv(t, td), c \in td
  PROVE  WatchedInv(cl, t, td \ {c}, conf)
<1>1. SUFFICES ASSUME NEW d \in DOMAIN cl, ~cl[d].garbage
               PROVE  WellWatched(LS(cl, d), cl[d].lits[1], cl[d].lits[2], t, Limit(t, conf), Pending(t, td \ {c}, d))
  BY DEF WatchedInv
<1>2. WellWatched(LS(cl, d), cl[d].lits[1], cl[d].lits[2], t, Limit(t, conf), Pending(t, td, d))
  BY <1>1 DEF WatchedInv
<1>3. CASE d # c
  <2>1. Pending(t, td \ {c}, d) = Pending(t, td, d)
    BY <1>3 DEF Pending
  <2>. QED  BY <1>2, <2>1
<1>4. CASE d = c
  <2>1. Pending(t, td \ {c}, d) = 0 /\ Pending(t, td, d) = t.propagated
    BY <1>4 DEF Pending
  <2>2. ASSUME NEW w, Good(t, LS(cl, d), w, Limit(t, conf), t.propagated)
        PROVE  Good(t, LS(cl, d), w, Limit(t, conf), 0)
    <3>1. SUFFICES ASSUME NEW p \in DOMAIN t.trail, t.trail[p] = -w, p <= Limit(t, conf)
                   PROVE  Blocked(t, LS(cl, d), p)
      BY DEF Good
    <3>2. CASE p # t.propagated
      BY <2>2, <3>1, <3>2 DEF Good
    <3>3. CASE p = t.propagated
      <4>1. conf = 0
        <5>1. SUFFICES ASSUME conf # 0 PROVE FALSE
          OBVIOUS
        <5>2. Limit(t, conf) = IF Lev(t) = 0 THEN 0 ELSE t.control[Lev(t)].trail
          BY <5>1 DEF Limit
        <5>3. t.propagated > 0 /\ (Lev(t) > 0 => t.control[Lev(t)].trail < t.propagated)
          BY DEF AheadInv
        <5>4. Lev(t) \in Nat /\ t.propagated \in Nat /\ (Lev(t) # 0 => t.control[Lev(t)].trail \in Nat)
          <6>1. Lev(t) \in Nat /\ t.propagated \in Nat /\ \A i \in 1 .. Lev(t) : t.control[i].trail \in Nat
            BY TrailFacts, AsgFacts
          <6>. QED  BY <6>1
        <5>. QED  BY <3>1, <3>3, <5>2, <5>3, <5>4
      <4>. QED  BY <4>1, <1>1, <1>4, <3>3
    <3>. QED  BY <3>2, <3>3
  <2>. QED  BY <1>2, <2>1, <2>2 DEF WellWatched
<1>. QED  BY <1>3, <1>4

(* With a conflict only the watches below the current level are to be       *)
(* right.                                                                   *)
LEMMA WatchedConflict ==
  ASSUME NEW cl, NEW t, TrailInv(t), NEW td, NEW conf, WatchedInv(cl, t, td, conf),
         AheadInv(t, td), td # {}, NEW td2, NEW conf2, conf2 # 0
  PROVE  WatchedInv(cl, t, td2, conf2)
<1>1. Limit(t, conf2) = IF Lev(t) = 0 THEN 0 ELSE t.control[Lev(t)].trail
  BY DEF Limit
<1>2. Limit(t, conf2) < t.propagated
  <2>1. t.propagated > 0 /\ (Lev(t) > 0 => t.control[Lev(t)].trail < t.propagated)
    BY DEF AheadInv
  <2>2. Lev(t) \in Nat
    BY TrailFacts, AsgFacts
  <2>. QED  BY <1>1, <2>1, <2>2
<1>3. Limit(t, conf2) <= Limit(t, conf)
  <2>1. /\ Limit(t, conf) \in Nat
        /\ \A i \in 1 .. Lev(t) : t.control[i].trail <= Limit(t, conf)
    BY LimitFacts
  <2>2. Lev(t) \in Nat
    BY TrailFacts, AsgFacts
  <2>3. Lev(t) # 0 => Lev(t) \in 1 .. Lev(t)
    BY <2>2
  <2>. QED  BY <1>1, <2>1, <2>3
<1>. QED  BY <1>2, <1>3, WatchedMono

-----------------------------------------------------------------------------

(* The state when a watch is visited.                                       *)
LEMMA VisitFacts ==
  ASSUME SInv, NEW c, Visit(c)
  PROVE  /\ c \in todo /\ c \in DOMAIN clauses /\ resolvent = {} /\ answer = 0
         /\ UNCHANGED <<input, resolvent, mode, answer>>
         /\ TrailInv(asg) /\ asg \in AsgType /\ ClausesInv(clauses) /\ WatchesInv(clauses, blit)
         /\ ReasonsInv(clauses, asg, {}) /\ WatchedInv(clauses, asg, todo, conflict)
         /\ AheadInv(asg, todo) /\ asg.propagated \in DOMAIN asg.trail
         /\ <<Lit, c>> \in DOMAIN blit /\ Lit \in Watches(clauses, c) /\ Lit \in Lits
         /\ blit[<<Lit, c>>] \in LS(clauses, c) \ {Lit}
         /\ asg.trail[asg.propagated] = -Lit /\ On(asg, -Lit)
<1>1. c \in todo /\ todo # {} /\ UNCHANGED <<input, resolvent, mode, answer>>
  BY DEF Visit
<1>2. /\ TrailInv(asg) /\ ClausesInv(clauses) /\ WatchesInv(clauses, blit)
      /\ AheadInv(asg, todo) /\ PendInv(clauses, blit, asg, todo, resolvent, answer)
  BY DEF SInv
<1>3. /\ c \in DOMAIN clauses /\ resolvent = {} /\ answer = 0 /\ <<Lit, c>> \in DOMAIN blit
  BY <1>1, <1>2 DEF PendInv, Lit
<1>4. asg \in AsgType
  BY <1>2, TrailFacts
<1>5. asg.propagated \in DOMAIN asg.trail
  <2>1. asg.propagated > 0 /\ asg.propagated \in Nat /\ asg.propagated <= Len(asg.trail) /\ Len(asg.trail) \in Nat
        /\ DOMAIN asg.trail = 1 .. Len(asg.trail)
    BY <1>1, <1>2, TrailFacts, AsgFacts DEF AheadInv
  <2>. QED  BY <2>1
<1>6. asg.trail[asg.propagated] \in Lits /\ On(asg, asg.trail[asg.propagated])
  BY <1>4, <1>5, AsgFacts
<1>7. Lit \in Lits /\ asg.trail[asg.propagated] = -Lit
  BY <1>6, LitFacts DEF Lit
<1>8. Lit \in Watches(clauses, c) /\ blit[<<Lit, c>>] \in LS(clauses, c) \ {Lit}
  BY <1>2, <1>3, WatchesAt
<1>. QED  BY <1>1, <1>2, <1>3, <1>4, <1>5, <1>6, <1>7, <1>8 DEF SInv

(* The parts that visiting a watch leaves alone, gathered. *)
LEMMA VisitKeeps ==
  ASSUME SInv, NEW c, Visit(c), todo' \subseteq todo,
         TrailInv(asg'), ClausesInv(clauses'), WatchesInv(clauses', blit'),
         ReasonsInv(clauses', asg', {}), WatchedInv(clauses', asg', todo', conflict'),
         AheadInv(asg', todo'), ViolatedInv(clauses', asg', conflict'),
         DOMAIN clauses' = DOMAIN clauses,
         \A d \in todo' : <<-asg'.trail[asg'.propagated], d>> \in DOMAIN blit',
         mode \in ToSet(Strategies) => \A k \in DOMAIN asg'.trail : LevelIn(asg', asg'.trail[k]) > 0,
         Lev(asg') = Lev(asg),
         AssumptionsInv(assumptions, asg'), MeaningInv(Models, clauses', asg', {})
  PROVE  SInv'
<1>1. resolvent = {} /\ answer = 0 /\ UNCHANGED <<input, resolvent, mode, answer>> /\ todo # {}
  BY VisitFacts
<1>2. PendInv(clauses', blit', asg', todo', {}, 0)
  <2>1. todo \subseteq DOMAIN clauses
    BY DEF SInv, PendInv
  <2>. QED  BY <2>1 DEF PendInv
<1>3. DerivingInv(asg', todo', conflict', {}, 0)
  BY DEF DerivingInv
<1>4. ModeInv(assumptions, asg', todo', conflict', {}, mode)
  <2>1. ModeInv(assumptions, asg, todo, conflict, {}, mode)
    BY <1>1 DEF SInv
  <2>2. mode = "reduce" => Lev(asg) = 0
    BY <1>1, <2>1 DEF ModeInv
  <2>. QED  BY <2>1, <2>2 DEF ModeInv
<1>5. Models' = Models /\ InputOK' /\ assumptions' = assumptions
  BY <1>1, SameModels DEF SInv
<1>. QED  BY <1>1, <1>2, <1>3, <1>4, <1>5 DEF SInv

(* Nothing but the list of watches and blocking literals changes. *)
LEMMA VisitSameInv ==
  ASSUME SInv, NEW c, Visit(c), todo' \subseteq todo, UNCHANGED <<clauses, asg>>,
         WatchesInv(clauses, blit'), \A d \in todo' : <<Lit, d>> \in DOMAIN blit',
         WatchedInv(clauses, asg, todo', conflict'),
         conflict' # 0 => Violated(clauses, asg, conflict')
  PROVE  SInv'
<1>1. /\ TrailInv(asg) /\ ClausesInv(clauses) /\ ReasonsInv(clauses, asg, {}) /\ AheadInv(asg, todo)
      /\ todo # {} /\ resolvent = {}
  BY VisitFacts
<1>2. AheadInv(asg, todo')
  BY <1>1 DEF AheadInv
<1>3. ViolatedInv(clauses, asg, conflict')
  BY DEF ViolatedInv
<1>4. \A d \in todo' : <<-asg.trail[asg.propagated], d>> \in DOMAIN blit'
  BY DEF Lit
<1>5. mode \in ToSet(Strategies) => \A k \in DOMAIN asg.trail : LevelIn(asg, asg.trail[k]) > 0
  BY DEF SInv, ModeInv
<1>6. AssumptionsInv(assumptions, asg) /\ MeaningInv(Models, clauses, asg, {})
  BY <1>1 DEF SInv
<1>. QED  BY <1>1, <1>2, <1>3, <1>4, <1>5, <1>6, VisitKeeps

(* The clause forces a literal. *)
LEMMA VisitAssignInv ==
  ASSUME SInv, NEW c, Visit(c), todo' = todo \ {c}, UNCHANGED <<db, conflict>>,
         NEW l \in Watches(clauses, c), asg' = Assign(asg, l, c, LitsOf(c)),
         ~On(asg, l), ~On(asg, -l), \A o \in LS(clauses, c) \ {l} : On(asg, -o),
         clauses[c].garbage => Len(clauses[c].lits) = 2
  PROVE  SInv'
<1>1. /\ c \in todo /\ c \in DOMAIN clauses /\ resolvent = {} /\ answer = 0
      /\ TrailInv(asg) /\ asg \in AsgType /\ ClausesInv(clauses) /\ WatchesInv(clauses, blit)
      /\ ReasonsInv(clauses, asg, {}) /\ WatchedInv(clauses, asg, todo, conflict)
      /\ AheadInv(asg, todo) /\ asg.propagated \in DOMAIN asg.trail
      /\ clauses' = clauses /\ blit' = blit /\ conflict' = conflict /\ assumptions \in Seq(Lits)
  BY VisitFacts DEF db, SInv, InputOK
<1>. DEFINE ls == LS(clauses, c)
            n == AssignmentLevel(asg, l, ls)
            r == IF n = 0 THEN 0 ELSE c
            u == Assign(asg, l, c, ls)
<1>2. asg' = u
  BY SameState
<1>3. /\ Bounded(asg, ls \ {l}) /\ l \in Lits /\ TrailInv(u) /\ ReasonsInv(clauses, u, {})
  BY <1>1, ReasonNew
<1>4. c \in Nat /\ ls \in SUBSET Lits /\ l \in ls
  BY <1>1, ClauseFacts
<1>5. u \in AsgType /\ Grows(asg, u, l, n, r)
  BY <1>1, <1>3, <1>4, AssignGrows
<1>6. n \in 0 .. Lev(asg) /\ \A k \in ls \ {l} : LevelIn(asg, k) <= n
  BY <1>1, <1>3, AssignmentLevelSpec
<1>7. MeaningInv(Models, clauses, u, {})
  <2>1. MeaningInv(Models, clauses, asg, {})
    BY <1>1 DEF SInv
  <2>2. Entails(Models, ls)
    BY <1>1, <2>1 DEF MeaningInv
  <2>. QED  BY <1>1, <1>3, <1>4, <2>1, <2>2, MeaningAssign, ModelsType
<1>. HIDE DEF u, n, r
<1>8. WatchedInv(clauses, u, todo, conflict)
  BY <1>1, <1>3, <1>5, WatchedGrows
<1>9. u.control = asg.control /\ u.propagated = asg.propagated /\ Lev(u) = Lev(asg)
  BY <1>5 DEF Grows, Lev
<1>10. AheadInv(u, todo)
  BY <1>1, <1>9 DEF AheadInv
<1>11. WatchedInv(clauses, u, todo \ {c}, conflict)
  <2>1. On(u, l)
    BY <1>1, <1>3, <1>5, GrowsFacts
  <2>2. Blocked(u, ls, u.propagated)
    BY <1>1, <1>3, <1>4, <1>10, <2>1, BlockedNow
  <2>. QED  BY <1>1, <1>3, <1>8, <1>10, <2>2, WatchedDrop
<1>12. AheadInv(u, todo')
  BY <1>1, <1>10 DEF AheadInv
<1>13. ViolatedInv(clauses, u, conflict)
  <2>1. ViolatedInv(clauses, asg, conflict)
    BY DEF SInv
  <2>. QED  BY <1>1, <1>3, <1>5, <2>1, GrowsFacts DEF ViolatedInv, Violated
<1>14. \A d \in todo' : <<-u.trail[u.propagated], d>> \in DOMAIN blit
  <2>1. u.trail[u.propagated] = asg.trail[asg.propagated]
    BY <1>1, <1>3, <1>5, <1>9, GrowsFacts
  <2>2. \A d \in todo : <<-asg.trail[asg.propagated], d>> \in DOMAIN blit
    BY <1>1 DEF SInv, PendInv
  <2>. QED  BY <2>1, <2>2
<1>15. ASSUME mode \in ToSet(Strategies)
       PROVE  \A k \in DOMAIN u.trail : LevelIn(u, u.trail[k]) > 0
  <2>1. \A k \in DOMAIN asg.trail : LevelIn(asg, asg.trail[k]) > 0
    BY <1>15 DEF SInv, ModeInv
  <2>2. n > 0
    <3>1. Watches(clauses, c) = {l, Other(clauses[c].lits, l)} /\ Other(clauses[c].lits, l) # l
          /\ Watches(clauses, c) \subseteq ls
      BY <1>1, ClauseFacts
    <3>2. PICK o \in ls \ {l} : TRUE
      BY <3>1
    <3>3. On(asg, -o) /\ o \in Lits
      BY <1>4
    <3>4. PICK k \in DOMAIN asg.trail : asg.trail[k] = -o
      BY <1>1, <3>3, AsgFacts
    <3>5. LevelIn(asg, -o) > 0 /\ LevelIn(asg, o) = LevelIn(asg, -o) /\ LevelIn(asg, o) \in Nat
      BY <1>1, <2>1, <3>3, <3>4, AsgFacts
    <3>6. LevelIn(asg, o) <= n /\ n \in Int
      BY <1>6
    <3>. QED  BY <3>5, <3>6
  <2>. QED  BY <1>1, <1>3, <1>5, <2>1, <2>2, GrowsKeeps DEF SInv
<1>16. AssumptionsInv(assumptions, u)
  <2>1. AssumptionsInv(assumptions, asg)
    BY DEF SInv
  <2>. QED  BY <1>1, <1>3, <1>5, <2>1, GrowsKeeps
<1>. QED  BY <1>1, <1>2, <1>3, <1>7, <1>9, <1>11, <1>12, <1>13, <1>14, <1>15, <1>16, VisitKeeps

(* A binary clause watches all its literals.                                *)
LEMMA BinaryAll ==
  ASSUME NEW cl, ClausesInv(cl), NEW c \in DOMAIN cl, Len(cl[c].lits) = 2
  PROVE  LS(cl, c) = Watches(cl, c)
BY ClauseFacts DEF Watches

(* Whatever else happens, the watches still to be visited are there. *)
LEMMA TodoFacts ==
  ASSUME SInv, NEW c, Visit(c)
  PROVE  /\ \A d \in todo : <<Lit, d>> \in DOMAIN blit
         /\ conflict # 0 => Violated(clauses, asg, conflict)
BY VisitFacts DEF SInv, PendInv, ViolatedInv, Lit

(* A watch is passed over when a literal of its clause is true; only its    *)
(* blocking literal may change.                                             *)
LEMMA VisitSkipInv ==
  ASSUME SInv, NEW c, Visit(c), todo' = todo \ {c}, UNCHANGED <<clauses, asg, conflict>>,
         NEW b \in LS(clauses, c), True(b),
         WatchesInv(clauses, blit'), \A d \in todo' : <<Lit, d>> \in DOMAIN blit'
  PROVE  SInv'
<1>1. /\ c \in todo /\ c \in DOMAIN clauses /\ TrailInv(asg) /\ ClausesInv(clauses)
      /\ WatchedInv(clauses, asg, todo, conflict) /\ AheadInv(asg, todo)
  BY VisitFacts
<1>2. LS(clauses, c) \in SUBSET Lits /\ On(asg, b)
  BY <1>1, ClauseFacts, SameState
<1>3. Blocked(asg, LS(clauses, c), asg.propagated)
  BY <1>1, <1>2, BlockedNow
<1>4. WatchedInv(clauses, asg, todo', conflict')
  BY <1>1, <1>3, WatchedDrop
<1>5. conflict' # 0 => Violated(clauses, asg, conflict')
  BY TodoFacts
<1>. QED  BY <1>4, <1>5, VisitSameInv

(* A clause without a literal that is not false is the conflict.            *)
LEMMA VisitConflictInv ==
  ASSUME SInv, NEW c, Visit(c), todo' \subseteq todo, UNCHANGED <<db, asg>>,
         Violated(clauses, asg, conflict')
  PROVE  SInv'
<1>1. /\ c \in todo /\ c \in DOMAIN clauses /\ TrailInv(asg) /\ ClausesInv(clauses)
      /\ WatchedInv(clauses, asg, todo, conflict) /\ AheadInv(asg, todo)
      /\ WatchesInv(clauses, blit)
  BY VisitFacts
<1>2. conflict' # 0 /\ clauses' = clauses /\ blit' = blit /\ asg' = asg
  BY <1>1, ClauseFacts DEF db, Violated
<1>3. WatchedInv(clauses, asg, todo', conflict')
  BY <1>1, <1>2, WatchedConflict
<1>4. \A d \in todo' : <<Lit, d>> \in DOMAIN blit'
  BY <1>2, TodoFacts
<1>. QED  BY <1>1, <1>2, <1>3, <1>4, VisitSameInv

(* Visiting the watch of a binary clause keeps the invariant.               *)
LEMMA VisitBinaryInv ==
  ASSUME SInv, NEW c, Visit(c), Len(clauses[c].lits) = 2, ~True(blit[<<Lit, c>>]), VisitBinary(c)
  PROVE  SInv'
<1>. DEFINE b == blit[<<Lit, c>>]
<1>1. /\ c \in todo /\ c \in DOMAIN clauses /\ ClausesInv(clauses) /\ asg \in AsgType /\ TrailInv(asg)
      /\ Lit \in Watches(clauses, c) /\ b \in LS(clauses, c) \ {Lit} /\ On(asg, -Lit)
  BY VisitFacts
<1>2. todo' = todo \ {c} /\ UNCHANGED db
  BY DEF VisitBinary
<1>3. (False(b) /\ conflict' = c /\ asg' = asg) \/ (~False(b) /\ asg' = Assign(asg, b, c, LitsOf(c)) /\ conflict' = conflict)
  BY DEF VisitBinary, Conflict
<1>3a. ~On(asg, b) /\ (False(b) <=> On(asg, -b))
  BY SameState
<1>. HIDE DEF b
<1>4. LS(clauses, c) = Watches(clauses, c)
  BY <1>1, BinaryAll
<1>4a. \E x, y : Watches(clauses, c) = {x, y}
  BY DEF Watches
<1>5. Watches(clauses, c) = {Lit, b}
  BY <1>1, <1>4, <1>4a
<1>6. CASE False(b) /\ conflict' = c /\ asg' = asg
  <2>1. \A l \in LS(clauses, conflict') : On(asg, -l)
    BY <1>1, <1>3a, <1>4, <1>5, <1>6
  <2>2. conflict' \in DOMAIN clauses /\ todo' \subseteq todo /\ UNCHANGED <<db, asg>>
    BY <1>1, <1>2, <1>6
  <2>3. Violated(clauses, asg, conflict')
    BY <1>6, <2>1, <2>2 DEF Violated
  <2>. QED  BY <2>2, <2>3, VisitConflictInv
<1>7. CASE ~False(b) /\ asg' = Assign(asg, b, c, LitsOf(c)) /\ conflict' = conflict
  <2>1. ~On(asg, b) /\ ~On(asg, -b) /\ b \in Watches(clauses, c)
    BY <1>3a, <1>5, <1>7
  <2>2. \A o \in LS(clauses, c) \ {b} : On(asg, -o)
    BY <1>1, <1>4, <1>5
  <2>3. UNCHANGED <<db, conflict>>
    BY <1>2, <1>7
  <2>. QED  BY <1>2, <1>7, <2>1, <2>2, <2>3, VisitAssignInv
<1>. QED  BY <1>3, <1>6, <1>7

(* The same literals in another order. *)
Permutes(s, r, p) ==
  /\ Len(r) = Len(s)
  /\ p \in [1 .. Len(s) -> 1 .. Len(s)]
  /\ \A i, j \in 1 .. Len(s) : i # j => p[i] # p[j]
  /\ \A i \in 1 .. Len(s) : \E j \in 1 .. Len(s) : p[j] = i
  /\ \A i \in 1 .. Len(s) : r[i] = s[p[i]]

(* A sequence that is permuted lists the same set.                          *)
LEMMA PermutesFacts ==
  ASSUME NEW s \in Seq(Lits), NEW r \in Seq(Lits), NEW p, Permutes(s, r, p)
  PROVE  ToSet(r) = ToSet(s) /\ (Once(s) => Once(r))
<1>1. DOMAIN s = 1 .. Len(s) /\ DOMAIN r = 1 .. Len(s) /\ Len(s) \in Nat /\ Len(r) = Len(s)
  BY DEF Permutes
<1>2. /\ \A l : l \in ToSet(s) <=> \E i \in 1 .. Len(s) : s[i] = l
      /\ \A l : l \in ToSet(r) <=> \E i \in 1 .. Len(r) : r[i] = l
  BY SetFacts
<1>3. ToSet(r) = ToSet(s)
  <2>1. \A l : l \in ToSet(r) => l \in ToSet(s)
    BY <1>1, <1>2 DEF Permutes
  <2>2. \A l : l \in ToSet(s) => l \in ToSet(r)
    BY <1>1, <1>2 DEF Permutes
  <2>. QED  BY <2>1, <2>2
<1>4. ASSUME Once(s), NEW i \in DOMAIN r, NEW j \in DOMAIN r, i # j
      PROVE  r[i] # r[j] /\ r[i] # -r[j]
  <2>1. i \in 1 .. Len(s) /\ j \in 1 .. Len(s)
    BY <1>1
  <2>2. /\ p[i] \in DOMAIN s /\ p[j] \in DOMAIN s /\ p[i] # p[j]
        /\ r[i] = s[p[i]] /\ r[j] = s[p[j]]
    BY <2>1, <1>1, <1>4 DEF Permutes
  <2>. HIDE DEF Permutes
  <2>3. s[p[i]] # s[p[j]] /\ s[p[i]] # -s[p[j]]
    BY <1>4, <2>2 DEF Once
  <2>. QED  BY <2>2, <2>3
<1>5. Once(s) => Once(r)
  BY <1>4 DEF Once
<1>. QED  BY <1>3, <1>5

(* Clauses whose literals are arranged in another way. *)
Rearranged(cl, cl2) ==
  /\ DOMAIN cl2 = DOMAIN cl
  /\ \A d \in DOMAIN cl : /\ cl2[d] \in ClauseType /\ LS(cl2, d) = LS(cl, d)
                          /\ Len(cl2[d].lits) = Len(cl[d].lits) /\ Once(cl2[d].lits)
                          /\ cl2[d].redundant = cl[d].redundant /\ cl2[d].garbage = cl[d].garbage

(* Reordering the literals of clauses changes neither their shape nor their *)
(* meaning.                                                                 *)
LEMMA RearrangedFacts ==
  ASSUME NEW cl, ClausesInv(cl), NEW cl2, Rearranged(cl, cl2)
  PROVE  /\ ClausesInv(cl2) /\ KeptIn(cl2) = KeptIn(cl)
         /\ \A M, t, res : MeaningInv(M, cl, t, res) => MeaningInv(M, cl2, t, res)
<1>1. ClausesInv(cl2)
  BY DEF ClausesInv, Rearranged, ClauseOK
<1>2. KeptIn(cl2) = KeptIn(cl)
  <2>1. {c \in DOMAIN cl2 : ~cl2[c].redundant /\ ~cl2[c].garbage} = {c \in DOMAIN cl : ~cl[c].redundant /\ ~cl[c].garbage}
    BY DEF Rearranged
  <2>2. \A c \in DOMAIN cl : LS(cl2, c) = LS(cl, c)
    BY DEF Rearranged
  <2>. QED  BY <2>1, <2>2 DEF KeptIn
<1>3. ASSUME NEW M, NEW t, NEW res, MeaningInv(M, cl, t, res)
      PROVE  MeaningInv(M, cl2, t, res)
  <2>1. \A c \in DOMAIN cl2 : Entails(M, LS(cl2, c))
    BY <1>3 DEF MeaningInv, Rearranged
  <2>. QED  BY <1>2, <1>3, <2>1 DEF MeaningInv
<1>. QED  BY <1>1, <1>2, <1>3

(* The literals of c are arranged in another way, c not being a reason. *)
OnlyAt(cl, cl2, c) == DOMAIN cl2 = DOMAIN cl /\ \A d \in DOMAIN cl : d # c => cl2[d] = cl[d]

(* The clause c is no reason that counts.                                   *)
NoReason(cl, t, res, c) == \A k \in DOMAIN t.trail :
  ReasonIn(t, t.trail[k]) # 0 /\ Relevant(t, res, k) /\ ReasonOK(cl, t, k) => ReasonIn(t, t.trail[k]) # c

(* A clause that is the reason of nothing may be reordered.                 *)
LEMMA RearrangedReasons ==
  ASSUME NEW cl, NEW t, NEW res, ReasonsInv(cl, t, res), NEW c, NEW cl2,
         OnlyAt(cl, cl2, c), NoReason(cl, t, res, c)
  PROVE  ReasonsInv(cl2, t, res)
<1>1. ASSUME NEW k \in DOMAIN t.trail, ReasonIn(t, t.trail[k]) # 0, Relevant(t, res, k), ReasonOK(cl, t, k)
      PROVE  LET d == ReasonIn(t, t.trail[k])
             IN  d \in DOMAIN cl2 /\ cl2[d].lits = cl[d].lits /\ (cl2[d].garbage => cl[d].garbage)
  BY <1>1 DEF ReasonOK, Forces, OnlyAt, NoReason
<1>2. \A k \in DOMAIN t.trail : ReasonIn(t, t.trail[k]) # 0 /\ Relevant(t, res, k) =>
        /\ Relevant(t, res, k)
        /\ LET d == ReasonIn(t, t.trail[k])
           IN  ReasonOK(cl, t, k) => d \in DOMAIN cl2 /\ cl2[d].lits = cl[d].lits /\ (cl2[d].garbage => cl[d].garbage)
  BY <1>1
<1>. QED  BY <1>2, ReasonsKept

(* The replacement for the false watch changes places with it. *)
Replaced(ls, other, k, l) == [ls EXCEPT ![1] = other, ![2] = ls[k], ![k] = l]

(* The literals of a clause after its replacement has been watched.         *)
LEMMA ReplacedFacts ==
  ASSUME NEW d, ClauseOK(d), NEW l \in {d.lits[1], d.lits[2]}, NEW k \in 3 .. Len(d.lits)
  PROVE  LET r == Replaced(d.lits, Other(d.lits, l), k, l)
         IN  /\ r \in Seq(Lits) /\ Len(r) = Len(d.lits) /\ Once(r) /\ ToSet(r) = ToSet(d.lits)
             /\ r[1] = Other(d.lits, l) /\ r[2] = d.lits[k]
<1>. DEFINE s == d.lits
           n == Len(d.lits)
           o == Other(d.lits, l)
           r == Replaced(s, o, k, l)
           p == [i \in 1 .. n |-> IF i = 1 THEN (IF s[1] = l THEN 2 ELSE 1) ELSE IF i = 2 THEN k
                                  ELSE IF i = k THEN (IF s[1] = l THEN 1 ELSE 2) ELSE i]
<1>1. /\ s \in Seq(Lits) /\ n \in Nat /\ n >= 2 /\ DOMAIN s = 1 .. n
      /\ \A i, j \in 1 .. n : i # j => s[i] # s[j]
      /\ l \in {s[1], s[2]} /\ s[1] # s[2]
      /\ \A i \in 1 .. n : s[i] \in Lits
      /\ Once(s) /\ k \in 3 .. n
  BY LitsFacts DEF ClauseOK
<1>2. o = IF s[1] = l THEN s[2] ELSE s[1]
  BY DEF Other
<1>2a. Len(s) = n
  OBVIOUS
<1>. HIDE DEF o, s, n
<1>3. r \in Seq(Lits) /\ Len(r) = n
  BY <1>1, <1>2 DEF Replaced
<1>4. r[1] = o /\ r[2] = s[k] /\ r[k] = l /\ \A i \in 3 .. n : i # k => r[i] = s[i]
  BY <1>1, <1>2 DEF Replaced
<1>. HIDE DEF r
<1>5. p \in [1 .. n -> 1 .. n]
  BY <1>1
<1>6. \A i, j \in 1 .. n : i # j => p[i] # p[j]
  BY <1>1
<1>7. \A i \in 1 .. n : r[i] = s[p[i]]
  BY <1>1, <1>2, <1>4
<1>8. \A i \in 1 .. n : \E j \in 1 .. n : p[j] = i
  <2>. DEFINE q == [i \in 1 .. n |-> IF i = 1 THEN (IF s[1] = l THEN k ELSE 1)
                                     ELSE IF i = 2 THEN (IF s[1] = l THEN 1 ELSE k)
                                     ELSE IF i = k THEN 2 ELSE i]
  <2>1. \A i \in 1 .. n : q[i] \in 1 .. n /\ p[q[i]] = i
    BY <1>1
  <2>. QED  BY <2>1
<1>. HIDE DEF p
<1>9. Permutes(s, r, p)
  BY <1>2a, <1>3, <1>5, <1>6, <1>7, <1>8 DEF Permutes
<1>10. ToSet(r) = ToSet(s) /\ Once(r)
  BY <1>1, <1>3, <1>9, PermutesFacts
<1>. QED  BY <1>3, <1>4, <1>10 DEF r, s, n, o

(* A free literal takes the place of the false one as a watch.              *)
LEMMA VisitReplaceInv ==
  ASSUME SInv, NEW c, Visit(c), conflict = 0, ~clauses[c].garbage,
         NEW k \in 3 .. Len(clauses[c].lits), Free(clauses[c].lits[k]),
         ~True(Other(clauses[c].lits, Lit)),
         todo' = todo \ {c}, UNCHANGED <<asg, conflict>>,
         blit' = Watch(Unwatch(blit, Lit, c), clauses[c].lits[k], c, Lit),
         clauses' = [clauses EXCEPT ![c].lits = Replaced(clauses[c].lits, Other(clauses[c].lits, Lit), k, Lit)]
  PROVE  SInv'
<1>. DEFINE l == Lit
           o == Other(clauses[c].lits, l)
           f == clauses[c].lits[k]
           r == Replaced(clauses[c].lits, o, k, l)
<1>1. /\ c \in todo /\ c \in DOMAIN clauses /\ ClausesInv(clauses) /\ asg \in AsgType /\ TrailInv(asg)
      /\ WatchesInv(clauses, blit) /\ ReasonsInv(clauses, asg, {}) /\ WatchedInv(clauses, asg, todo, conflict)
      /\ AheadInv(asg, todo)
      /\ l \in Watches(clauses, c) /\ On(asg, -l) /\ <<l, c>> \in DOMAIN blit
      /\ l \in Lits /\ asg.trail[asg.propagated] = -l
  BY VisitFacts
<1>2. /\ o \in Watches(clauses, c) /\ o # l /\ Watches(clauses, c) = {l, o}
      /\ Watches(clauses, c) \subseteq LS(clauses, c) /\ LS(clauses, c) \subseteq Lits
      /\ clauses[c].lits \in Seq(Lits)
  BY <1>1, ClauseFacts
<1>3. ClauseOK(clauses[c]) /\ l \in {clauses[c].lits[1], clauses[c].lits[2]}
  BY <1>1, ClauseFacts DEF Watches
<1>4. /\ r \in Seq(Lits) /\ Len(r) = Len(clauses[c].lits) /\ Once(r) /\ ToSet(r) = ToSet(clauses[c].lits)
      /\ r[1] = o /\ r[2] = f
  BY <1>3, ReplacedFacts
<1>5. ~On(asg, o) /\ ~On(asg, f) /\ ~On(asg, -f)
  BY SameState DEF Free
<1>6. \A i, j \in 1 .. Len(clauses[c].lits) : i # j => clauses[c].lits[i] # clauses[c].lits[j]
  BY <1>1, ClauseFacts
<1>6a. Len(clauses[c].lits) \in Nat /\ Len(clauses[c].lits) >= 2
  BY <1>1, ClauseFacts
<1>6b. f \in LS(clauses, c) /\ f # l
  <2>1. f \in LS(clauses, c)
    BY <1>1, <1>6a, ClauseFacts
  <2>2. f # clauses[c].lits[1] /\ f # clauses[c].lits[2]
    BY <1>6, <1>6a
  <2>. QED  BY <2>1, <2>2, <1>3
<1>7. clauses' = [clauses EXCEPT ![c].lits = r]
  OBVIOUS
<1>. HIDE DEF l, o, f, r
<1>8. DOMAIN clauses' = DOMAIN clauses /\ \A d \in DOMAIN clauses : d # c => clauses'[d] = clauses[d]
  BY <1>7
<1>9. clauses'[c] = [clauses[c] EXCEPT !.lits = r]
  BY <1>1, <1>7
<1>9a. clauses[c] \in ClauseType
  BY <1>3 DEF ClauseOK
<1>10. /\ clauses'[c] \in ClauseType /\ clauses'[c].lits = r
       /\ clauses'[c].redundant = clauses[c].redundant /\ clauses'[c].garbage = clauses[c].garbage
  BY <1>4, <1>9, <1>9a DEF ClauseType
<1>11. Rearranged(clauses, clauses')
  <2>1. ASSUME NEW d \in DOMAIN clauses, d # c
        PROVE  /\ clauses'[d] \in ClauseType /\ LS(clauses', d) = LS(clauses, d)
               /\ Len(clauses'[d].lits) = Len(clauses[d].lits) /\ Once(clauses'[d].lits)
               /\ clauses'[d].redundant = clauses[d].redundant /\ clauses'[d].garbage = clauses[d].garbage
    BY <1>1, <1>8, <2>1 DEF ClausesInv, ClauseOK, LS
  <2>2. LS(clauses', c) = LS(clauses, c)
    BY <1>4, <1>10 DEF LS
  <2>. QED  BY <1>4, <1>8, <1>10, <2>1, <2>2 DEF Rearranged
<1>12. /\ ClausesInv(clauses')
       /\ \A M, t, res : MeaningInv(M, clauses, t, res) => MeaningInv(M, clauses', t, res)
  BY <1>1, <1>11, RearrangedFacts
<1>13. LS(clauses', c) = LS(clauses, c) /\ Watches(clauses', c) = {o, f}
  BY <1>4, <1>10 DEF LS, Watches
<1>14. WatchesInv(clauses', blit') /\ \A d \in todo' : <<Lit, d>> \in DOMAIN blit'
  <2>. DEFINE b1 == Unwatch(blit, l, c)
              b2 == Watch(b1, f, c, l)
              w1 == <<l, c>>
              w2 == <<f, c>>
  <2>0. w1[1] = l /\ w1[2] = c /\ w2[1] = f /\ w2[2] = c
    OBVIOUS
  <2>1. DOMAIN b1 = DOMAIN blit \ {w1} /\ \A x \in DOMAIN blit : x # w1 => b1[x] = blit[x]
    BY DEF Unwatch
  <2>2. /\ DOMAIN b2 = DOMAIN b1 \cup {w2} /\ b2[w2] = l
        /\ \A x \in DOMAIN b1 : x # w2 => b2[x] = b1[x]
    <3>. HIDE DEF b1
    <3>. QED  BY DEF Watch
  <2>2a. blit' = b2
    BY DEF l, f
  <2>. HIDE DEF b1, b2, w1, w2
  <2>3. \A w : w[2] # c => (w \in DOMAIN b2 <=> w \in DOMAIN blit) /\ (w \in DOMAIN blit => b2[w] = blit[w])
    BY <2>0, <2>1, <2>2
  <2>4. ASSUME NEW w \in DOMAIN b2, w[2] = c
        PROVE  w = <<w[1], w[2]>> /\ w[1] \in Watches(clauses', c) /\ b2[w] \in LS(clauses', c) \ {w[1]}
    <3>1. CASE w = w2
      <4>1. w = <<w[1], w[2]>>
        BY <3>1 DEF w2
      <4>2. w[1] = f /\ b2[w] = l
        BY <3>1, <2>0, <2>2
      <4>3. l \in LS(clauses', c) /\ f # l
        BY <1>2, <1>6b, <1>13
      <4>. QED  BY <4>1, <4>2, <4>3, <1>13
    <3>2. CASE w # w2
      <4>1. w \in DOMAIN blit /\ w # w1 /\ b2[w] = blit[w]
        BY <3>2, <2>1, <2>2
      <4>2. /\ w = <<w[1], w[2]>>
            /\ w[1] \in Watches(clauses, c)
            /\ blit[w] \in LS(clauses, c) \ {w[1]}
        BY <4>1, <2>4, <1>1 DEF WatchesInv
      <4>3. w[1] # l
        BY <4>1, <4>2, <2>4 DEF w1
      <4>4. w[1] = o
        BY <4>2, <4>3, <1>2
      <4>. QED  BY <4>1, <4>2, <4>4, <1>13
    <3>. QED  BY <3>1, <3>2
  <2>5. \A x \in Watches(clauses', c) : <<x, c>> \in DOMAIN b2
    <3>1. <<f, c>> \in DOMAIN b2
      BY <2>2 DEF w2
    <3>2. <<o, c>> \in DOMAIN b2
      <4>1. <<o, c>> \in DOMAIN blit
        BY <1>1, <1>2 DEF WatchesInv
      <4>2. <<o, c>> # w1
        BY <1>2 DEF w1
      <4>. QED  BY <4>1, <4>2, <2>1, <2>2
    <3>. QED  BY <3>1, <3>2, <1>13
  <2>5a. \A d \in DOMAIN clauses : d # c => clauses'[d].lits = clauses[d].lits /\ (clauses[d].garbage => clauses'[d].garbage)
    BY <1>8
  <2>5b. Rewatched(clauses, blit, c, clauses', b2)
    BY <1>8, <2>3, <2>4, <2>5, <2>5a DEF Rewatched
  <2>6. WatchesInv(clauses', b2)
    BY <1>1, <2>5b, WatchesOf
  <2>7. ASSUME NEW d \in todo'
        PROVE  <<Lit, d>> \in DOMAIN b2
    <3>1. <<Lit, d>> \in DOMAIN blit /\ d # c
      BY TodoFacts
    <3>2. <<Lit, d>>[2] = d
      OBVIOUS
    <3>. QED  BY <3>1, <3>2, <2>3
  <2>. QED  BY <2>2a, <2>6, <2>7
<1>15. ReasonsInv(clauses', asg, {})
  <2>1. ASSUME NEW k1 \in DOMAIN asg.trail, ReasonOK(clauses, asg, k1)
        PROVE  ReasonIn(asg, asg.trail[k1]) # c
    <3>1. /\ asg.trail[k1] \in Watches(clauses, ReasonIn(asg, asg.trail[k1]))
          /\ On(asg, asg.trail[k1])
      BY <1>1, <2>1, ForcesFacts
    <3>2. ~On(asg, l)
      BY <1>1, TrailFacts
    <3>. QED  BY <3>1, <3>2, <1>2, <1>5
  <2>2. NoReason(clauses, asg, {}, c)
    BY <2>1 DEF NoReason
  <2>3. OnlyAt(clauses, clauses', c)
    BY <1>8 DEF OnlyAt
  <2>. QED  BY <1>1, <2>2, <2>3, RearrangedReasons
<1>16. conflict' = 0 /\ asg' = asg /\ todo' = todo \ {c}
  OBVIOUS
<1>17. WatchedInv(clauses', asg, todo', 0)
  <2>0. Limit(asg, 0) = asg.propagated
    BY DEF Limit
  <2>1. ASSUME NEW d \in DOMAIN clauses', ~clauses'[d].garbage, d # c
        PROVE  WellWatched(LS(clauses', d), clauses'[d].lits[1], clauses'[d].lits[2], asg, Limit(asg, 0), Pending(asg, todo', d))
    <3>1. d \in DOMAIN clauses /\ clauses'[d] = clauses[d] /\ LS(clauses', d) = LS(clauses, d)
      BY <1>8, <2>1 DEF LS
    <3>2. Pending(asg, todo', d) = Pending(asg, todo, d)
      BY <2>1, <1>16 DEF Pending
    <3>3. WellWatched(LS(clauses, d), clauses[d].lits[1], clauses[d].lits[2], asg, Limit(asg, 0), Pending(asg, todo, d))
      BY <1>1, <2>1, <3>1, <1>16 DEF WatchedInv
    <3>. QED  BY <3>1, <3>2, <3>3
  <2>2. WellWatched(LS(clauses, c), o, f, asg, asg.propagated, 0)
    <3>1. Good(asg, LS(clauses, c), f, asg.propagated, 0)
      BY <1>1, <1>5, GoodIfNotFalse
    <3>2. ASSUME On(asg, -o), LevelIn(asg, o) = 0
          PROVE  Good(asg, LS(clauses, c), o, asg.propagated, 0)
      <4>1. Pending(asg, todo, c) = asg.propagated
        BY <1>1 DEF Pending
      <4>2. WellWatched(LS(clauses, c), clauses[c].lits[1], clauses[c].lits[2], asg, asg.propagated, asg.propagated)
        BY <1>1, <1>16, <2>0, <4>1 DEF WatchedInv
      <4>3. o \in {clauses[c].lits[1], clauses[c].lits[2]}
        BY <1>2 DEF Watches
      <4>4. Good(asg, LS(clauses, c), o, asg.propagated, asg.propagated)
        BY <3>2, <4>2, <4>3 DEF WellWatched
      <4>5. asg.trail[asg.propagated] # -o
        BY <1>1, <1>2, LitFacts
      <4>. QED  BY <4>4, <4>5 DEF Good
    <3>. QED  BY <3>1, <3>2 DEF WellWatched
  <2>3. Pending(asg, todo', c) = 0
    BY <1>16 DEF Pending
  <2>4. WellWatched(LS(clauses', c), clauses'[c].lits[1], clauses'[c].lits[2], asg, Limit(asg, 0), Pending(asg, todo', c))
    BY <2>0, <2>2, <2>3, <1>4, <1>10, <1>13
  <2>. QED  BY <2>1, <2>4 DEF WatchedInv
<1>18. AheadInv(asg, todo')
  BY <1>1 DEF AheadInv
<1>19. MeaningInv(Models, clauses', asg, {})
  BY <1>12, VisitFacts DEF SInv
<1>20. mode \in ToSet(Strategies) => \A k1 \in DOMAIN asg.trail : LevelIn(asg, asg.trail[k1]) > 0
  BY DEF SInv, ModeInv
<1>21. AssumptionsInv(assumptions, asg)
  BY DEF SInv
<1>22. ViolatedInv(clauses', asg, 0)
  BY DEF ViolatedInv
<1>23. -asg.trail[asg.propagated] = Lit
  BY DEF Lit
<1>. QED  BY <1>1, <1>8, <1>12, <1>14, <1>15, <1>16, <1>17, <1>18, <1>19, <1>20, <1>21, <1>22, <1>23, VisitKeeps

(* Searching for a replacement keeps the invariant: a true literal, a free  *)
(* one, or the clause is unit or falsified.                                 *)
LEMMA ReplaceInv ==
  ASSUME SInv, NEW c, Visit(c), conflict = 0, ~clauses[c].garbage,
         ~True(Other(clauses[c].lits, Lit)), Replace(c, Other(clauses[c].lits, Lit))
  PROVE  SInv'
<1>. DEFINE ls == clauses[c].lits
           other == Other(ls, Lit)
<1>1. /\ c \in todo /\ c \in DOMAIN clauses /\ ClausesInv(clauses) /\ asg \in AsgType /\ TrailInv(asg)
      /\ WatchesInv(clauses, blit) /\ <<Lit, c>> \in DOMAIN blit
      /\ Lit \in Watches(clauses, c) /\ On(asg, -Lit) /\ Lit \in Lits
  BY VisitFacts
<1>2. /\ Len(ls) \in Nat /\ Len(ls) >= 2
      /\ \A i, j \in 1 .. Len(ls) : i # j => ls[i] # ls[j]
      /\ \A l : l \in LS(clauses, c) <=> \E i \in 1 .. Len(ls) : ls[i] = l
      /\ other \in Watches(clauses, c) /\ other # Lit /\ Watches(clauses, c) = {Lit, other}
      /\ Watches(clauses, c) \subseteq LS(clauses, c)
  <2>. c \in DOMAIN clauses /\ ClausesInv(clauses)
    BY <1>1
  <2>1. Len(ls) \in Nat /\ Len(ls) >= 2
    BY ClauseFacts
  <2>2. \A i, j \in 1 .. Len(ls) : i # j => ls[i] # ls[j]
    BY ClauseFacts
  <2>3. \A l : l \in LS(clauses, c) <=> \E i \in 1 .. Len(ls) : ls[i] = l
    BY ClauseFacts
  <2>4. /\ other \in Watches(clauses, c) /\ other # Lit /\ Watches(clauses, c) = {Lit, other}
        /\ Watches(clauses, c) \subseteq LS(clauses, c)
    BY <1>1, ClauseFacts
  <2>. QED  BY <2>1, <2>2, <2>3, <2>4
<1>2a. Watches(clauses, c) = {ls[1], ls[2]}
  BY DEF Watches
<1>3. /\ \A l : (True(l) <=> On(asg, l)) /\ (False(l) <=> On(asg, -l))
      /\ LitsOf(c) = LS(clauses, c)
  BY SameState
<1>4. \/ \E k \in 3 .. Len(ls) : /\ True(ls[k]) /\ blit' = Watch(blit, Lit, c, ls[k]) /\ UNCHANGED clauses
                                 /\ todo' = todo \ {c} /\ UNCHANGED <<asg, conflict, conflicts>>
      \/ \E k \in 3 .. Len(ls) : /\ Free(ls[k])
                                 /\ blit' = Watch(Unwatch(blit, Lit, c), ls[k], c, Lit)
                                 /\ clauses' = [clauses EXCEPT ![c].lits = Replaced(ls, other, k, Lit)]
                                 /\ todo' = todo \ {c} /\ UNCHANGED <<asg, conflict, conflicts>>
      \/ /\ \A k \in 3 .. Len(ls) : False(ls[k])
         /\ UNCHANGED db
         /\ Free(other)
         /\ asg' = Assign(asg, other, c, LitsOf(c)) /\ todo' = todo \ {c}
         /\ UNCHANGED <<conflict, conflicts>>
      \/ /\ \A k \in 3 .. Len(ls) : False(ls[k])
         /\ UNCHANGED db
         /\ ~Free(other)
         /\ conflict' = c /\ todo' = {} /\ UNCHANGED asg
  BY DEF Replace, Replaced, Conflict
<1>5. CASE \E k \in 3 .. Len(ls) : /\ True(ls[k]) /\ blit' = Watch(blit, Lit, c, ls[k]) /\ UNCHANGED clauses
                                   /\ todo' = todo \ {c} /\ UNCHANGED <<asg, conflict, conflicts>>
  <2>1. PICK k \in 3 .. Len(ls) : /\ True(ls[k]) /\ blit' = Watch(blit, Lit, c, ls[k]) /\ UNCHANGED clauses
                                  /\ todo' = todo \ {c} /\ UNCHANGED <<asg, conflict, conflicts>>
    BY <1>5
  <2>. DEFINE b == ls[k]
  <2>2. b \in LS(clauses, c) /\ b # Lit
    <3>. HIDE DEF ls, other
    <3>1. k \in 1 .. Len(ls) /\ k # 1 /\ k # 2 /\ 1 \in 1 .. Len(ls) /\ 2 \in 1 .. Len(ls)
      BY <1>2
    <3>2. ls[k] # ls[1] /\ ls[k] # ls[2]
      BY <1>2, <3>1
    <3>3. b \in LS(clauses, c)
      BY <1>2, <3>1
    <3>. QED  BY <1>2, <1>2a, <3>2, <3>3
  <2>2a. True(b) /\ blit' = Watch(blit, Lit, c, b)
    BY <2>1
  <2>. HIDE DEF b, ls, other
  <2>3. WatchesInv(clauses, blit') /\ DOMAIN blit' = DOMAIN blit
    BY <1>1, <2>2, <2>2a, WatchesBlit
  <2>4. \A d \in todo' : <<Lit, d>> \in DOMAIN blit'
    BY <2>1, <2>3, TodoFacts
  <2>5. UNCHANGED <<clauses, asg, conflict>>
    BY <2>1
  <2>. QED  BY <2>1, <2>2, <2>2a, <2>3, <2>4, <2>5, VisitSkipInv
<1>6. CASE \E k \in 3 .. Len(ls) : /\ Free(ls[k])
                                 /\ blit' = Watch(Unwatch(blit, Lit, c), ls[k], c, Lit)
                                 /\ clauses' = [clauses EXCEPT ![c].lits = Replaced(ls, other, k, Lit)]
                                 /\ todo' = todo \ {c} /\ UNCHANGED <<asg, conflict, conflicts>>
  <2>1. PICK k \in 3 .. Len(ls) : /\ Free(ls[k])
                                 /\ blit' = Watch(Unwatch(blit, Lit, c), ls[k], c, Lit)
                                 /\ clauses' = [clauses EXCEPT ![c].lits = Replaced(ls, other, k, Lit)]
                                 /\ todo' = todo \ {c} /\ UNCHANGED <<asg, conflict, conflicts>>
    BY <1>6
  <2>2. UNCHANGED <<asg, conflict>>
    BY <2>1
  <2>. QED  BY <2>1, <2>2, VisitReplaceInv
<1>6a. \A k \in 1 .. Len(ls) : ls[k] # other /\ ls[k] # Lit => k \in 3 .. Len(ls)
  <2>. HIDE DEF ls, other
  <2>1. ls[1] \in {Lit, other} /\ ls[2] \in {Lit, other}
    BY <1>2, <1>2a
  <2>. QED  BY <1>2, <2>1
<1>6b. (\A k \in 3 .. Len(ls) : False(ls[k])) => \A l \in LS(clauses, c) : l # other => On(asg, -l)
  <2>. HIDE DEF other, ls
  <2>. QED  BY <1>1, <1>2, <1>3, <1>6a
<1>7. CASE  /\ \A k \in 3 .. Len(ls) : False(ls[k])
         /\ UNCHANGED db
         /\ Free(other)
         /\ asg' = Assign(asg, other, c, LitsOf(c)) /\ todo' = todo \ {c}
         /\ UNCHANGED <<conflict, conflicts>>
  <2>1. ~On(asg, other) /\ ~On(asg, -other)
    BY <1>3, <1>7 DEF Free
  <2>2. \A o \in LS(clauses, c) \ {other} : On(asg, -o)
    BY <1>6b, <1>7
  <2>3. UNCHANGED <<db, conflict>>
    BY <1>7
  <2>. HIDE DEF other, ls
  <2>. QED  BY <1>2, <1>7, <2>1, <2>2, <2>3, VisitAssignInv
<1>8. CASE  /\ \A k \in 3 .. Len(ls) : False(ls[k])
         /\ UNCHANGED db
         /\ ~Free(other)
         /\ conflict' = c /\ todo' = {} /\ UNCHANGED asg
  <2>1. \A l \in LS(clauses, conflict') : On(asg, -l)
    <3>1. On(asg, -other)
      BY <1>3, <1>8 DEF Free
    <3>. HIDE DEF other, ls
    <3>. QED  BY <1>6b, <1>8, <3>1
  <2>2. conflict' \in DOMAIN clauses /\ todo' \subseteq todo /\ UNCHANGED <<db, asg>>
    BY <1>1, <1>8
  <2>3. Violated(clauses, asg, conflict')
    BY <1>8, <2>1, <2>2 DEF Violated
  <2>. QED  BY <2>2, <2>3, VisitConflictInv
<1>. HIDE DEF other, ls
<1>. QED  BY <1>4, <1>5, <1>6, <1>7, <1>8

(* Visiting the watch of a long clause keeps the invariant.                 *)
LEMMA VisitLongInv ==
  ASSUME SInv, NEW c, Visit(c), VisitLong(c)
  PROVE  SInv'
<1>. DEFINE other == Other(clauses[c].lits, Lit)
<1>1. /\ c \in todo /\ c \in DOMAIN clauses /\ ClausesInv(clauses) /\ asg \in AsgType /\ TrailInv(asg)
      /\ WatchesInv(clauses, blit) /\ <<Lit, c>> \in DOMAIN blit
      /\ WatchedInv(clauses, asg, todo, conflict) /\ AheadInv(asg, todo)
      /\ Lit \in Watches(clauses, c)
  BY VisitFacts
<1>2. clauses[c].garbage \in BOOLEAN /\ other \in LS(clauses, c) /\ other # Lit
  BY <1>1, ClauseFacts
<1>. HIDE DEF other
<1>3. CASE conflict # 0
  <2>1. todo' = {} /\ UNCHANGED <<db, asg, conflict>>
    BY <1>3 DEF VisitLong, Skip
  <2>2. Violated(clauses, asg, conflict')
    BY <1>3, <2>1, TodoFacts
  <2>3. todo' \subseteq todo /\ UNCHANGED <<db, asg>>
    BY <2>1
  <2>. QED  BY <2>2, <2>3, VisitConflictInv
<1>4. CASE conflict = 0 /\ clauses[c].garbage
  <2>1. blit' = Unwatch(blit, Lit, c) /\ todo' = todo \ {c} /\ UNCHANGED <<clauses, asg>> /\ conflict' = conflict
    BY <1>4 DEF VisitLong
  <2>2. WatchesInv(clauses, blit')
    BY <1>1, <1>4, <2>1, WatchesGarbage
  <2>3. \A d \in todo' : <<Lit, d>> \in DOMAIN blit'
    BY <2>1, TodoFacts DEF Unwatch
  <2>4. WatchedInv(clauses, asg, todo', conflict')
    BY <1>1, <1>4, <2>1, WatchedDrop
  <2>5. conflict' # 0 => Violated(clauses, asg, conflict')
    BY <1>4, <2>1
  <2>6. todo' \subseteq todo /\ UNCHANGED <<clauses, asg>>
    BY <2>1
  <2>. QED  BY <2>2, <2>3, <2>4, <2>5, <2>6, VisitSameInv
<1>5. CASE conflict = 0 /\ ~clauses[c].garbage /\ True(other)
  <2>1. blit' = Watch(blit, Lit, c, other) /\ todo' = todo \ {c} /\ UNCHANGED <<clauses, asg, conflict>>
    BY <1>5 DEF VisitLong, other
  <2>2. WatchesInv(clauses, blit') /\ DOMAIN blit' = DOMAIN blit
    BY <1>1, <1>2, <2>1, WatchesBlit
  <2>3. \A d \in todo' : <<Lit, d>> \in DOMAIN blit'
    BY <2>1, <2>2, TodoFacts
  <2>. QED  BY <1>2, <1>5, <2>1, <2>2, <2>3, VisitSkipInv
<1>6. CASE conflict = 0 /\ ~clauses[c].garbage /\ ~True(other)
  <2>1. Replace(c, other)
    BY <1>6 DEF VisitLong, other
  <2>. QED  BY <1>6, <2>1, ReplaceInv DEF other
<1>. QED  BY <1>2, <1>3, <1>4, <1>5, <1>6

(* Visiting a watch keeps the invariant.                                    *)
LEMMA VisitInv ==
  ASSUME SInv, NEW c, Visit(c)
  PROVE  SInv'
<1>1. /\ blit[<<Lit, c>>] \in LS(clauses, c)
      /\ WatchesInv(clauses, blit)
  BY VisitFacts
<1>2. CASE True(blit[<<Lit, c>>])
  <2>1. todo' = todo \ {c} /\ UNCHANGED <<clauses, asg, conflict>> /\ blit' = blit
    BY <1>2 DEF Visit, Skip, db
  <2>2. \A d \in todo' : <<Lit, d>> \in DOMAIN blit'
    BY <2>1, TodoFacts
  <2>3. WatchesInv(clauses, blit')
    BY <1>1, <2>1
  <2>. QED  BY <1>1, <1>2, <2>1, <2>2, <2>3, VisitSkipInv
<1>3. CASE ~True(blit[<<Lit, c>>]) /\ Len(clauses[c].lits) = 2
  <2>1. VisitBinary(c)
    BY <1>3 DEF Visit
  <2>. QED  BY <1>3, <2>1, VisitBinaryInv
<1>4. CASE ~True(blit[<<Lit, c>>]) /\ Len(clauses[c].lits) # 2
  <2>1. VisitLong(c)
    BY <1>4 DEF Visit
  <2>. QED  BY <2>1, VisitLongInv
<1>. QED  BY <1>2, <1>3, <1>4

-----------------------------------------------------------------------------
(* The beginning of analysis.                                               *)

(* find_conflict_level moves the literals of the highest levels to the front. *)
LEMMA HighestSpec ==
  ASSUME TrailInv(asg), NEW ls \in Seq(Lits), \A k \in DOMAIN ls : LevelOf(ls[k]) <= Lev(asg),
         NEW i \in 1 .. Len(ls)
  PROVE  /\ HighestFrom(ls, i) \in i .. Len(ls)
         /\ \A k \in i .. Len(ls) : LevelOf(ls[k]) <= LevelOf(ls[HighestFrom(ls, i)])
<1>. DEFINE n == Len(ls)
           lv(k) == LevelOf(ls[k])
           S == {m \in Nat : \E k \in i .. n : lv(k) = m}
<1>1. n \in Nat /\ i \in 1 .. n /\ DOMAIN ls = 1 .. n /\ Lev(asg) \in Nat
      /\ \A k \in i .. n : lv(k) \in Nat /\ lv(k) <= Lev(asg) /\ k \in Nat
  BY TrailFacts, AsgFacts, SameState
<1>. HIDE DEF lv, n
<1>2. lv(i) \in S
  BY <1>1
<1>3. S \in SUBSET Nat /\ \A m \in S : m <= Lev(asg)
  BY <1>1
<1>. HIDE DEF S
<1>4. PICK top \in S : \A m \in S : m <= top
  BY <1>1, <1>2, <1>3, GreatestNat
<1>. DEFINE T == {k \in i .. n : lv(k) = top}
<1>5. T \in SUBSET Nat /\ T # {}
  BY <1>1, <1>4 DEF S
<1>6. PICK j \in T : \A k \in T : j <= k
  BY <1>5, LeastNat
<1>7. \A k \in i .. n : lv(k) <= lv(j)
  BY <1>1, <1>4, <1>6 DEF S
<1>8. \A k \in i .. j - 1 : lv(k) < lv(j)
  <2>1. ASSUME NEW k \in i .. j - 1
        PROVE  lv(k) < lv(j)
    <3>1. k \in i .. n /\ k \notin T /\ j \in i .. n
      BY <1>1, <1>6
    <3>2. lv(k) # top /\ lv(j) = top
      BY <1>6, <3>1
    <3>. QED  BY <1>1, <1>7, <3>1, <3>2
  <2>. QED  BY <2>1
<1>9. \E x \in i .. n : /\ \A k \in i .. n : lv(k) <= lv(x)
                        /\ \A k \in i .. x - 1 : lv(k) < lv(x)
  BY <1>1, <1>6, <1>7, <1>8
<1>10. /\ HighestFrom(ls, i) \in i .. n
       /\ \A k \in i .. n : LevelOf(ls[k]) <= LevelOf(ls[HighestFrom(ls, i)])
  BY <1>9 DEF HighestFrom, lv, n
<1>. QED  BY <1>10 DEF n

(* Two literals of a clause exchanged.                                      *)
LEMMA SwapFacts ==
  ASSUME NEW s \in Seq(Lits), NEW i \in 1 .. Len(s), NEW j \in 1 .. Len(s)
  PROVE  LET r == Swap(s, i, j)
         IN  /\ r \in Seq(Lits) /\ Len(r) = Len(s) /\ ToSet(r) = ToSet(s) /\ (Once(s) => Once(r))
             /\ r[i] = s[j] /\ r[j] = s[i]
             /\ \A k \in 1 .. Len(s) : k # i /\ k # j => r[k] = s[k]
<1>. DEFINE n == Len(s)
           r == Swap(s, i, j)
           p == [k \in 1 .. n |-> IF k = i THEN j ELSE IF k = j THEN i ELSE k]
<1>1. n \in Nat /\ DOMAIN s = 1 .. n /\ s[i] \in Lits /\ s[j] \in Lits /\ Len(s) = n
  BY SeqAt
<1>2. r \in Seq(Lits) /\ Len(r) = n
  BY <1>1 DEF Swap
<1>3. r[i] = s[j] /\ r[j] = s[i] /\ \A k \in 1 .. n : k # i /\ k # j => r[k] = s[k]
  BY <1>1 DEF Swap
<1>. HIDE DEF r, n
<1>4. p \in [1 .. n -> 1 .. n] /\ \A x, y \in 1 .. n : x # y => p[x] # p[y]
  BY <1>1
<1>5. \A x \in 1 .. n : \E y \in 1 .. n : p[y] = x
  <2>1. \A x \in 1 .. n : p[x] \in 1 .. n /\ p[p[x]] = x
    BY <1>1
  <2>. QED  BY <2>1
<1>6. \A x \in 1 .. n : r[x] = s[p[x]]
  BY <1>1, <1>3
<1>. HIDE DEF p
<1>7. Permutes(s, r, p)
  BY <1>1, <1>2, <1>4, <1>5, <1>6 DEF Permutes
<1>8. ToSet(r) = ToSet(s) /\ (Once(s) => Once(r))
  BY <1>2, <1>7, PermutesFacts
<1>. QED  BY <1>2, <1>3, <1>8 DEF r, n

(* The watches of clause c, given its literals. *)
WatchedBy(ls, b, c) == \A w \in DOMAIN b : w[2] = c =>
  w = <<w[1], w[2]>> /\ w[1] \in {ls[1], ls[2]} /\ b[w] \in ToSet(ls) \ {w[1]}

(* Both of the first two literals are watched.                              *)
BothWatched(ls, b, c) == <<ls[1], c>> \in DOMAIN b /\ <<ls[2], c>> \in DOMAIN b

(* The watches of the other clauses are the same.                           *)
SameOff(b, b2, c) ==
  \A w : w[2] # c => (w \in DOMAIN b2 <=> w \in DOMAIN b) /\ (w \in DOMAIN b => b2[w] = b[w])

(* The watches after the literal at j was moved to place i.                 *)
Moved(ls, b, c, i, j) == IF j <= 2 THEN b ELSE Watch(Unwatch(b, ls[i], c), ls[j], c, ls[3 - i])

(* The watches after the literal at place j came to the front.              *)
LEMMA MovedFacts ==
  ASSUME NEW ls \in Seq(Lits), Len(ls) >= 2, Once(ls), NEW b, NEW c, WatchedBy(ls, b, c),
         NEW i \in {1, 2}, NEW j \in i .. Len(ls)
  PROVE  LET r == Swap(ls, i, j)
             b2 == Moved(ls, b, c, i, j)
         IN  /\ WatchedBy(r, b2, c) /\ SameOff(b, b2, c)
             /\ BothWatched(ls, b, c) => BothWatched(r, b2, c)
<1>. DEFINE r == Swap(ls, i, j)
           b2 == Moved(ls, b, c, i, j)
<1>1. Len(ls) \in Nat /\ i \in 1 .. Len(ls) /\ j \in 1 .. Len(ls) /\ j >= i /\ 1 \in 1 .. Len(ls) /\ 2 \in 1 .. Len(ls)
      /\ 3 - i \in {1, 2} /\ 3 - i # i
  OBVIOUS
<1>2. /\ ToSet(r) = ToSet(ls) /\ r[i] = ls[j] /\ r[j] = ls[i]
      /\ \A k \in 1 .. Len(ls) : k # i /\ k # j => r[k] = ls[k]
  BY <1>1, SwapFacts
<1>3. \A x, y \in 1 .. Len(ls) : x # y => ls[x] # ls[y]
  BY DEF Once
<1>3a. \A x \in 1 .. Len(ls) : ls[x] \in ToSet(ls)
  BY SetFacts
<1>. HIDE DEF r
<1>4. CASE j <= 2
  <2>1. b2 = b
    BY <1>4 DEF Moved
  <2>2. {r[1], r[2]} = {ls[1], ls[2]}
    BY <1>1, <1>2, <1>4
  <2>3. WatchedBy(r, b, c)
    BY <1>2, <2>2 DEF WatchedBy
  <2>4. BothWatched(ls, b, c) => BothWatched(r, b, c)
    BY <2>2 DEF BothWatched
  <2>5. SameOff(b, b, c)
    BY DEF SameOff
  <2>. QED  BY <2>1, <2>3, <2>4, <2>5 DEF r
<1>5. CASE j > 2
  <2>. DEFINE x == ls[i]
              f == ls[j]
              o == ls[3 - i]
              b1 == Unwatch(b, x, c)
              w1 == <<x, c>>
              w2 == <<f, c>>
  <2>0. w1[1] = x /\ w1[2] = c /\ w2[1] = f /\ w2[2] = c
    OBVIOUS
  <2>1. DOMAIN b1 = DOMAIN b \ {w1} /\ \A w \in DOMAIN b : w # w1 => b1[w] = b[w]
    BY DEF Unwatch
  <2>1a. b2 = Watch(b1, f, c, o)
    BY <1>5, <1>1 DEF Moved
  <2>2. /\ DOMAIN b2 = DOMAIN b1 \cup {w2} /\ b2[w2] = o
        /\ \A w \in DOMAIN b1 : w # w2 => b2[w] = b1[w]
    <3>. HIDE DEF b1, b2, f, o
    <3>. QED  BY <2>1a DEF Watch
  <2>3. x # f /\ f # o /\ x # o /\ x \in ToSet(ls) /\ f \in ToSet(ls) /\ o \in ToSet(ls)
    BY <1>1, <1>3, <1>3a, <1>5
  <2>4. {ls[1], ls[2]} = {x, o} /\ {r[1], r[2]} = {f, o}
    <3>1. CASE i = 1
      BY <1>1, <1>2, <1>5, <3>1
    <3>2. CASE i = 2
      BY <1>1, <1>2, <1>5, <3>2
    <3>. QED  BY <3>1, <3>2
  <2>. HIDE DEF x, f, o, b1, b2, w1, w2
  <2>5. SameOff(b, b2, c)
    BY <2>0, <2>1, <2>2 DEF SameOff
  <2>6. ASSUME NEW w \in DOMAIN b2, w[2] = c
        PROVE  w = <<w[1], w[2]>> /\ w[1] \in {r[1], r[2]} /\ b2[w] \in ToSet(r) \ {w[1]}
    <3>1. CASE w = w2
      <4>1. w = <<w[1], w[2]>>
        BY <3>1 DEF w2
      <4>. QED  BY <3>1, <4>1, <2>0, <2>2, <2>3, <2>4, <1>2
    <3>2. CASE w # w2
      <4>1. w \in DOMAIN b /\ w # w1 /\ b2[w] = b[w]
        BY <3>2, <2>1, <2>2
      <4>2. w = <<w[1], w[2]>> /\ w[1] \in {ls[1], ls[2]} /\ b[w] \in ToSet(ls) \ {w[1]}
        BY <4>1, <2>6 DEF WatchedBy
      <4>3. w[1] # x
        BY <4>1, <4>2, <2>6 DEF w1
      <4>4. w[1] = o
        BY <4>2, <4>3, <2>4
      <4>. QED  BY <4>1, <4>2, <4>4, <2>4, <1>2
    <3>. QED  BY <3>1, <3>2
  <2>7. WatchedBy(r, b2, c)
    BY <2>6 DEF WatchedBy
  <2>8. BothWatched(ls, b, c) => BothWatched(r, b2, c)
    <3>1. ASSUME BothWatched(ls, b, c)
          PROVE  \A y \in {f, o} : <<y, c>> \in DOMAIN b2
      <4>1. <<o, c>> \in DOMAIN b
        BY <2>4, <3>1 DEF BothWatched
      <4>2. <<o, c>> # w1
        BY <2>3 DEF w1
      <4>. QED  BY <4>1, <4>2, <2>1, <2>2 DEF w2
    <3>. QED  BY <3>1, <2>4 DEF BothWatched
  <2>. QED  BY <2>5, <2>7, <2>8 DEF r, b2
<1>. QED  BY <1>1, <1>4, <1>5

(* The literals of a clause from which those of the highest level were      *)
(* brought to place i, and the watches.                                     *)
FrontedTo(ls, b, c, i, r, b2) ==
  /\ r \in Seq(Lits) /\ Len(r) = Len(ls) /\ ToSet(r) = ToSet(ls) /\ Once(r)
  /\ \A k \in i .. Len(ls) : LevelOf(r[k]) <= LevelOf(r[i])
  /\ WatchedBy(r, b2, c) /\ SameOff(b, b2, c)
  /\ BothWatched(ls, b, c) => BothWatched(r, b2, c)

(* Bringing a literal of the highest level to place i, with its watch.      *)
LEMMA FrontMoves ==
  ASSUME TrailInv(asg), NEW ls \in Seq(Lits), Len(ls) >= 2, Once(ls), \A l \in ToSet(ls) : LevelOf(l) <= Lev(asg),
         NEW b, NEW c, WatchedBy(ls, b, c), NEW i \in {1, 2}
  PROVE  LET j == HighestFrom(ls, i)
         IN  /\ j \in i .. Len(ls)
             /\ FrontedTo(ls, b, c, i, Swap(ls, i, j), Moved(ls, b, c, i, j))
<1>. DEFINE j == HighestFrom(ls, i)
           r == Swap(ls, i, j)
<1>1. Len(ls) \in Nat /\ i \in 1 .. Len(ls) /\ DOMAIN ls = 1 .. Len(ls)
  OBVIOUS
<1>2. \A k \in DOMAIN ls : LevelOf(ls[k]) <= Lev(asg)
  BY <1>1, SetFacts
<1>3. j \in i .. Len(ls) /\ \A k \in i .. Len(ls) : LevelOf(ls[k]) <= LevelOf(ls[j])
  BY <1>1, <1>2, HighestSpec
<1>. HIDE DEF j
<1>3a. j \in 1 .. Len(ls)
  BY <1>1, <1>3
<1>3b. r \in Seq(Lits) /\ Len(r) = Len(ls) /\ ToSet(r) = ToSet(ls) /\ (Once(ls) => Once(r))
  BY <1>1, <1>3a, SwapFacts
<1>3c. /\ r[i] = ls[j] /\ r[j] = ls[i]
       /\ \A k \in 1 .. Len(ls) : k # i /\ k # j => r[k] = ls[k]
  BY <1>1, <1>3a, SwapFacts
<1>4. /\ r \in Seq(Lits) /\ Len(r) = Len(ls) /\ ToSet(r) = ToSet(ls) /\ Once(r)
      /\ r[i] = ls[j] /\ r[j] = ls[i]
      /\ \A k \in 1 .. Len(ls) : k # i /\ k # j => r[k] = ls[k]
  BY <1>3b, <1>3c
<1>5. /\ WatchedBy(r, Moved(ls, b, c, i, j), c) /\ SameOff(b, Moved(ls, b, c, i, j), c)
      /\ BothWatched(ls, b, c) => BothWatched(r, Moved(ls, b, c, i, j), c)
  BY <1>3, MovedFacts
<1>. HIDE DEF r
<1>6. \A k \in i .. Len(ls) : LevelOf(r[k]) <= LevelOf(r[i])
  BY <1>1, <1>3, <1>4
<1>7. FrontedTo(ls, b, c, i, r, Moved(ls, b, c, i, j))
  BY <1>4, <1>5, <1>6 DEF FrontedTo
<1>. QED  BY <1>3, <1>7 DEF j, r

(* find_conflict_level sorts two literals of the highest levels to the      *)
(* front of the conflict and has them watched.                              *)
LEMMA FrontedFacts ==
  ASSUME TrailInv(asg), ClausesInv(clauses), WatchesInv(clauses, blit), NEW c \in DOMAIN clauses,
         \A l \in LS(clauses, c) : LevelOf(l) <= Lev(asg)
  PROVE  LET r == Fronted(c).lits
         IN  /\ FrontedTo(clauses[c].lits, blit, c, 2, r, Fronted(c).blit)
             /\ \A l \in LS(clauses, c) : LevelOf(l) <= LevelOf(r[1])
<1>. DEFINE ls0 == clauses[c].lits
           j1 == HighestFrom(ls0, 1)
           ls1 == Swap(ls0, 1, j1)
           b1 == Moved(ls0, blit, c, 1, j1)
           j2 == HighestFrom(ls1, 2)
           ls2 == Swap(ls1, 2, j2)
           b2 == Moved(ls1, b1, c, 2, j2)
<1>1. /\ ls0 \in Seq(Lits) /\ Len(ls0) \in Nat /\ Len(ls0) >= 2 /\ Once(ls0)
      /\ \A l \in ToSet(ls0) : LevelOf(l) <= Lev(asg)
  BY ClauseFacts DEF ClauseOK, LS
<1>2. WatchedBy(ls0, blit, c)
  BY DEF WatchesInv, WatchedBy, LS, Watches
<1>3. Fronted(c) = [lits |-> ls2, blit |-> b2]
  BY DEF Fronted, Moved
<1>. HIDE DEF ls0
<1>4. j1 \in 1 .. Len(ls0) /\ FrontedTo(ls0, blit, c, 1, ls1, b1)
  BY <1>1, <1>2, FrontMoves
<1>. HIDE DEF ls1, b1, j1
<1>5. /\ ls1 \in Seq(Lits) /\ Len(ls1) = Len(ls0) /\ Once(ls1) /\ ToSet(ls1) = ToSet(ls0) /\ WatchedBy(ls1, b1, c)
      /\ \A k \in 1 .. Len(ls0) : LevelOf(ls1[k]) <= LevelOf(ls1[1])
      /\ SameOff(blit, b1, c) /\ (BothWatched(ls0, blit, c) => BothWatched(ls1, b1, c))
  BY <1>4 DEF FrontedTo
<1>6. j2 \in 2 .. Len(ls1) /\ FrontedTo(ls1, b1, c, 2, ls2, b2)
  BY <1>1, <1>5, FrontMoves
<1>7. ls2[1] = ls1[1]
  <2>. HIDE DEF j2
  <2>1. /\ 2 \in 1 .. Len(ls1) /\ j2 \in 1 .. Len(ls1) /\ 1 \in 1 .. Len(ls1) /\ 1 # 2 /\ 1 # j2
        /\ ls1 \in Seq(Lits)
    BY <1>1, <1>5, <1>6
  <2>2. \A k \in 1 .. Len(ls1) : k # 2 /\ k # j2 => ls2[k] = ls1[k]
    BY <2>1, SwapFacts
  <2>. QED  BY <2>1, <2>2
<1>. HIDE DEF ls2, b2, j2
<1>8. SameOff(blit, b2, c)
  BY <1>5, <1>6 DEF FrontedTo, SameOff
<1>9. FrontedTo(ls0, blit, c, 2, ls2, b2)
  BY <1>5, <1>6, <1>8 DEF FrontedTo
<1>10. \A l \in ToSet(ls0) : LevelOf(l) <= LevelOf(ls2[1])
  BY <1>1, <1>5, <1>7, SetFacts
<1>11. Fronted(c).lits = ls2 /\ Fronted(c).blit = b2
  BY <1>3
<1>. QED  BY <1>9, <1>10, <1>11 DEF ls0, LS

(* The clause c is looked at for itself. *)
Without(cl, c) == [d \in DOMAIN cl \ {c} |-> cl[d]]

(* Leaving a clause aside.                                                  *)
LEMMA WithoutFacts ==
  ASSUME NEW cl, ClausesInv(cl), NEW c
  PROVE  ClausesInv(Without(cl, c))
<1>1. DOMAIN Without(cl, c) \subseteq DOMAIN cl /\ \A d \in DOMAIN Without(cl, c) : Without(cl, c)[d] = cl[d]
  BY DEF Without
<1>2. IsFiniteSet(DOMAIN Without(cl, c))
  BY <1>1, FS_Subset DEF ClausesInv
<1>. QED  BY <1>1, <1>2 DEF ClausesInv

(* The watches of the other clauses are right.                              *)
LEMMA WatchedWithout ==
  ASSUME NEW cl, NEW t, NEW td, NEW conf, WatchedInv(cl, t, td, conf), NEW c
  PROVE  WatchedInv(Without(cl, c), t, td, conf)
<1>1. \A d \in DOMAIN Without(cl, c) : d \in DOMAIN cl /\ Without(cl, c)[d] = cl[d]
  BY DEF Without
<1>. QED  BY <1>1 DEF WatchedInv, LS

(* The watches of all clauses are right when those of one clause are and    *)
(* those of the others.                                                     *)
LEMMA WatchedWith ==
  ASSUME NEW cl, NEW c, NEW t, NEW td, NEW conf, WatchedInv(Without(cl, c), t, td, conf), NEW cl2,
         DOMAIN cl2 \subseteq DOMAIN cl \cup {c},
         \A d \in DOMAIN cl2 : d # c => cl2[d].lits = cl[d].lits /\ (cl[d].garbage => cl2[d].garbage),
         c \in DOMAIN cl2 /\ ~cl2[c].garbage =>
           WellWatched(LS(cl2, c), cl2[c].lits[1], cl2[c].lits[2], t, Limit(t, conf), Pending(t, td, c))
  PROVE  WatchedInv(cl2, t, td, conf)
<1>1. ASSUME NEW d \in DOMAIN cl2, d # c, ~cl2[d].garbage
      PROVE  WellWatched(LS(cl2, d), cl2[d].lits[1], cl2[d].lits[2], t, Limit(t, conf), Pending(t, td, d))
  <2>1. d \in DOMAIN Without(cl, c) /\ Without(cl, c)[d] = cl[d] /\ ~cl[d].garbage
    BY <1>1 DEF Without
  <2>2. WellWatched(LS(cl, d), cl[d].lits[1], cl[d].lits[2], t, Limit(t, conf), Pending(t, td, d))
    BY <2>1 DEF WatchedInv, LS
  <2>3. LS(cl2, d) = LS(cl, d) /\ cl2[d].lits = cl[d].lits
    BY <1>1 DEF LS
  <2>. QED  BY <2>2, <2>3
<1>. QED  BY <1>1 DEF WatchedInv

(* The parts of the invariant after a step of the analysis, gathered. *)
LEMMA AnalysisKeeps ==
  ASSUME SInv, todo = {}, todo' = {}, UNCHANGED <<input, mode>>, mode \notin ToSet(Strategies),
         answer' \in {0, 10, 20},
         TrailInv(asg'), ClausesInv(clauses'), WatchesInv(clauses', blit'),
         ReasonsInv(clauses', asg', resolvent'), answer' = 0 => WatchedInv(clauses', asg', {}, conflict'),
         ViolatedInv(clauses', asg', conflict'), DerivingInv(asg', {}, conflict', resolvent', answer'),
         mode = "reduce" => Lev(asg') = 0 /\ resolvent' = {},
         AssumptionsInv(assumptions, asg'), MeaningInv(Models, clauses', asg', resolvent')
  PROVE  SInv'
<1>1. Models' = Models /\ InputOK' /\ assumptions' = assumptions
  BY SameModels DEF SInv
<1>2. PendInv(clauses', blit', asg', {}, resolvent', answer') /\ AheadInv(asg', {})
  BY DEF PendInv, AheadInv
<1>3. ModeInv(assumptions, asg', {}, conflict', resolvent', mode')
  BY DEF SInv, ModeInv
<1>. QED  BY <1>1, <1>2, <1>3 DEF SInv

(* The level of a conflict is the highest of its literals.                  *)
LEMMA ConflictLevelFacts ==
  ASSUME SInv, NEW c \in DOMAIN clauses, \A l \in LS(clauses, c) : On(asg, -l)
  PROVE  /\ ConflictLevel(c) \in 0 .. Lev(asg) /\ Lev(asg) \in Nat
         /\ \A l \in LS(clauses, c) : LevelIn(asg, l) \in Nat /\ LevelIn(asg, l) <= ConflictLevel(c)
         /\ ConflictLevel(c) = 0 \/ \E l \in LS(clauses, c) : LevelIn(asg, l) = ConflictLevel(c)
<1>. DEFINE S == {LevelOf(l) : l \in LitsOf(c)}
<1>1. ClausesInv(clauses) /\ TrailInv(asg) /\ asg \in AsgType /\ Lev(asg) \in Nat
  BY TrailFacts, AsgFacts DEF SInv
<1>2. LitsOf(c) = LS(clauses, c) /\ \A l : LevelOf(l) = LevelIn(asg, l)
  BY SameState
<1>3. \A l \in LS(clauses, c) : LevelIn(asg, l) \in Nat /\ LevelIn(asg, l) <= Lev(asg)
  BY <1>1, ClauseFacts, TrailFacts, AsgFacts
<1>4. \A l \in LS(clauses, c) : LevelOf(l) \in S /\ LevelOf(l) = LevelIn(asg, l)
  BY <1>2
<1>5. \A m \in S : \E l \in LS(clauses, c) : m = LevelIn(asg, l)
  BY <1>2
<1>6. ConflictLevel(c) = Maximum(S)
  BY DEF ConflictLevel
<1>. HIDE DEF S
<1>7. S \in SUBSET Nat /\ \A m \in S : m <= Lev(asg)
  BY <1>3, <1>5
<1>8. /\ Maximum(S) \in S \cup {0} /\ Maximum(S) \in Nat /\ \A m \in S : m <= Maximum(S)
  BY <1>1, <1>7, MaximumSpec
<1>. QED  BY <1>1, <1>3, <1>4, <1>5, <1>6, <1>7, <1>8

(* What the clauses are when the conflict clause has been rearranged. *)
LEMMA BeginFacts ==
  ASSUME SInv, BeginAnalysis
  PROVE  /\ resolvent = {} /\ answer = 0 /\ conflict # 0 /\ todo = {} /\ mode \notin ToSet(Strategies)
         /\ UNCHANGED <<input, todo, mode>>
         /\ TrailInv(asg) /\ ClausesInv(clauses) /\ conflict \in DOMAIN clauses
         /\ Violated(clauses, asg, conflict)
         /\ ClausesInv(clauses') /\ WatchesInv(clauses', blit') /\ ReasonsInv(clauses', asg, {})
         /\ Rearranged(clauses, clauses') /\ OnlyAt(clauses, clauses', conflict)
         /\ MeaningInv(Models, clauses', asg, {})
         /\ LS(clauses', conflict) = LS(clauses, conflict)
         /\ \A l \in LS(clauses, conflict) : LevelIn(asg, l) <= LevelIn(asg, clauses'[conflict].lits[1])
         /\ \A l \in LS(clauses, conflict) : l # clauses'[conflict].lits[1] =>
              LevelIn(asg, l) <= LevelIn(asg, clauses'[conflict].lits[2])
         /\ Fronted(conflict).lits[1] = clauses'[conflict].lits[1]
<1>. DEFINE c == conflict
           f == Fronted(c)
           r == f.lits
<1>1. /\ resolvent = {} /\ answer = 0 /\ c # 0 /\ todo = {} /\ mode \notin ToSet(Strategies)
      /\ UNCHANGED <<input, todo, mode>>
      /\ clauses' = [clauses EXCEPT ![c].lits = r] /\ blit' = f.blit
  BY DEF BeginAnalysis, Propagating, Lucky, limits
<1>2. /\ TrailInv(asg) /\ ClausesInv(clauses) /\ WatchesInv(clauses, blit) /\ ReasonsInv(clauses, asg, {})
      /\ Violated(clauses, asg, c) /\ c \in DOMAIN clauses /\ MeaningInv(Models, clauses, asg, {})
      /\ asg \in AsgType
  BY <1>1, TrailFacts DEF SInv, ViolatedInv, Violated
<1>3. \A l \in LS(clauses, c) : On(asg, -l) /\ LevelOf(l) <= Lev(asg) /\ l \in Lits
  BY <1>2, ClauseFacts, TrailFacts, SameState, AsgFacts, LitFacts DEF Violated
<1>. HIDE DEF f, r
<1>4. /\ FrontedTo(clauses[c].lits, blit, c, 2, r, f.blit)
      /\ \A l \in LS(clauses, c) : LevelOf(l) <= LevelOf(r[1])
  BY <1>2, <1>3, FrontedFacts DEF f, r
<1>5. /\ r \in Seq(Lits) /\ Len(r) = Len(clauses[c].lits) /\ ToSet(r) = LS(clauses, c) /\ Once(r)
      /\ \A k \in 2 .. Len(r) : LevelOf(r[k]) <= LevelOf(r[2])
      /\ WatchedBy(r, f.blit, c) /\ SameOff(blit, f.blit, c)
      /\ BothWatched(clauses[c].lits, blit, c) => BothWatched(r, f.blit, c)
  BY <1>4 DEF FrontedTo, LS
<1>6. DOMAIN clauses' = DOMAIN clauses /\ \A d \in DOMAIN clauses : d # c => clauses'[d] = clauses[d]
  BY <1>1
<1>6a. clauses'[c] = [clauses[c] EXCEPT !.lits = r]
  BY <1>1, <1>2
<1>6b. clauses[c] \in ClauseType
  BY <1>2 DEF ClausesInv, ClauseOK
<1>7. /\ clauses'[c] \in ClauseType /\ clauses'[c].lits = r
      /\ clauses'[c].redundant = clauses[c].redundant /\ clauses'[c].garbage = clauses[c].garbage
  BY <1>5, <1>6a, <1>6b DEF ClauseType
<1>. HIDE DEF c
<1>8. Rearranged(clauses, clauses')
  <2>1. ASSUME NEW d \in DOMAIN clauses, d # c
        PROVE  /\ clauses'[d] \in ClauseType /\ LS(clauses', d) = LS(clauses, d)
               /\ Len(clauses'[d].lits) = Len(clauses[d].lits) /\ Once(clauses'[d].lits)
               /\ clauses'[d].redundant = clauses[d].redundant /\ clauses'[d].garbage = clauses[d].garbage
    BY <1>2, <1>6, <2>1 DEF ClausesInv, ClauseOK, LS
  <2>2. LS(clauses', c) = LS(clauses, c)
    BY <1>5, <1>7 DEF LS
  <2>. QED  BY <1>5, <1>6, <1>7, <2>1, <2>2 DEF Rearranged
<1>9. ClausesInv(clauses') /\ MeaningInv(Models, clauses', asg, {})
  BY <1>2, <1>8, RearrangedFacts
<1>10. OnlyAt(clauses, clauses', c)
  BY <1>6 DEF OnlyAt
<1>11. ReasonsInv(clauses', asg, {})
  <2>1. NoReason(clauses, asg, {}, c)
    <3>1. \A l \in LS(clauses, c) : ~On(asg, l)
      BY <1>2, <1>3, TrailFacts
    <3>2. ASSUME NEW k \in DOMAIN asg.trail, ReasonOK(clauses, asg, k)
          PROVE  ReasonIn(asg, asg.trail[k]) # c
      BY <1>2, <3>1, <3>2, FalseNoReason
    <3>. QED  BY <3>2 DEF NoReason
  <2>. QED  BY <1>2, <1>10, <2>1, RearrangedReasons
<1>12. LS(clauses', c) = LS(clauses, c)
  BY <1>2, <1>8 DEF Rearranged
<1>13. WatchesInv(clauses', blit')
  <2>1. \A d \in DOMAIN clauses : d # c => clauses'[d].lits = clauses[d].lits /\ (clauses[d].garbage => clauses'[d].garbage)
    BY <1>6
  <2>2. \A w : w[2] # c => (w \in DOMAIN blit' <=> w \in DOMAIN blit) /\ (w \in DOMAIN blit => blit'[w] = blit[w])
    BY <1>1, <1>5 DEF SameOff, c
  <2>3. \A w \in DOMAIN blit' : w[2] = c =>
          w = <<w[1], w[2]>> /\ w[1] \in Watches(clauses', c) /\ blit'[w] \in LS(clauses', c) \ {w[1]}
    BY <1>1, <1>5, <1>7 DEF WatchedBy, Watches, LS
  <2>4. ~clauses'[c].garbage => \A x \in Watches(clauses', c) : <<x, c>> \in DOMAIN blit'
    <3>1. SUFFICES ASSUME ~clauses'[c].garbage PROVE BothWatched(r, f.blit, c)
      BY <1>1, <1>7 DEF BothWatched, Watches
    <3>2. ~clauses[c].garbage
      BY <1>7, <3>1
    <3>3. BothWatched(clauses[c].lits, blit, c)
      BY <1>2, <3>2 DEF WatchesInv, Watches, BothWatched
    <3>. QED  BY <3>3, <1>5
  <2>5. Rewatched(clauses, blit, c, clauses', blit')
    BY <1>6, <2>1, <2>2, <2>3, <2>4 DEF Rewatched
  <2>. QED  BY <1>2, <2>5, WatchesOf
<1>14. \A l : LevelOf(l) = LevelIn(asg, l)
  BY SameState
<1>15. /\ \A l \in LS(clauses, c) : LevelIn(asg, l) <= LevelIn(asg, r[1])
       /\ \A l \in LS(clauses, c) : l # r[1] => LevelIn(asg, l) <= LevelIn(asg, r[2])
  <2>1. \A l \in LS(clauses, c) : \E k \in 1 .. Len(r) : r[k] = l
    BY <1>5, SetFacts
  <2>2. Len(r) \in Nat
    BY <1>5
  <2>3. \A l \in LS(clauses, c) : l # r[1] => \E k \in 2 .. Len(r) : r[k] = l
    BY <2>1, <2>2
  <2>. QED  BY <1>4, <1>5, <1>14, <2>3
<1>. QED  BY <1>1, <1>2, <1>7, <1>8, <1>9, <1>10, <1>11, <1>12, <1>13, <1>15 DEF c, r, f

(* A reordered clause is falsified as before.                               *)
LEMMA ViolatedKept ==
  ASSUME NEW cl, NEW c \in DOMAIN cl, NEW cl2, Rearranged(cl, cl2), NEW t, Violated(cl, t, c), NEW u,
         \A l \in LS(cl, c) : On(u, -l)
  PROVE  Violated(cl2, u, c)
BY DEF Rearranged, Violated

(* A conflict at the root level: the answer is 20.                          *)
LEMMA BeginRootInv ==
  ASSUME SInv, BeginAnalysis, ConflictLevel(conflict) = 0
  PROVE  SInv'
<1>1. asg' = Backtrack(asg, 0) /\ answer' = 20 /\ UNCHANGED <<conflict, resolvent>>
  BY DEF BeginAnalysis
<1>2. /\ resolvent = {} /\ answer = 0 /\ conflict # 0 /\ todo = {} /\ mode \notin ToSet(Strategies)
      /\ UNCHANGED <<input, todo, mode>>
      /\ TrailInv(asg) /\ ClausesInv(clauses) /\ conflict \in DOMAIN clauses
      /\ Violated(clauses, asg, conflict)
      /\ ClausesInv(clauses') /\ WatchesInv(clauses', blit') /\ ReasonsInv(clauses', asg, {})
      /\ Rearranged(clauses, clauses')
      /\ MeaningInv(Models, clauses', asg, {})
  BY BeginFacts
<1>3. \A l \in LS(clauses, conflict) : On(asg, -l) /\ LevelIn(asg, -l) = 0 /\ -l \in Lits
  <2>1. \A l \in LS(clauses, conflict) : On(asg, -l)
    BY <1>2 DEF Violated
  <2>2. \A l \in LS(clauses, conflict) : LevelIn(asg, l) \in Nat /\ LevelIn(asg, l) <= 0
    BY <1>2, <2>1, ConflictLevelFacts
  <2>. QED  BY <1>2, <2>1, <2>2, ClauseFacts, LitFacts, TrailFacts, AsgFacts
<1>4. /\ TrailInv(asg') /\ AssumptionsInv(assumptions, asg') /\ Units(asg') = Units(asg) /\ Lev(asg') = 0
      /\ \A l \in Lits : On(asg', l) <=> On(asg, l) /\ LevelIn(asg, l) <= 0
      /\ ReasonsInv(clauses', asg', {})
  <2>1. 0 \in 0 .. Lev(asg) /\ assumptions \in Seq(Lits) /\ AssumptionsInv(assumptions, asg)
    BY <1>2, TrailFacts, AsgFacts DEF SInv, InputOK
  <2>. QED  BY <1>1, <1>2, <2>1, BacktrackKeeps
<1>5. \A l \in LS(clauses, conflict) : On(asg', -l)
  BY <1>3, <1>4
<1>6. ViolatedInv(clauses', asg', conflict')
  BY <1>1, <1>2, <1>5, ViolatedKept DEF ViolatedInv
<1>7. MeaningInv(Models, clauses', asg', {})
  BY <1>2, <1>4, MeaningSame
<1>8. DerivingInv(asg', {}, conflict', {}, answer') /\ resolvent' = {}
  BY <1>1, <1>2 DEF DerivingInv
<1>. QED  BY <1>1, <1>2, <1>4, <1>6, <1>7, <1>8, AnalysisKeeps

(* A conflict with one literal at its level: that literal is flipped on the *)
(* next level down.                                                         *)
LEMMA BeginFlipInv ==
  ASSUME SInv, BeginAnalysis, ConflictLevel(conflict) > 0, Cardinality(Highest(conflict)) = 1
  PROVE  SInv'
<1>. DEFINE c == conflict
           n == ConflictLevel(c)
           l == clauses'[c].lits[1]
           k == clauses'[c].lits[2]
           ls == LS(clauses', c)
           u == Backtrack(asg, n - 1)
<1>1. /\ n # 0 /\ asg' = Assign(u, Fronted(c).lits[1], c, LitsOf(c))
      /\ conflict' = 0 /\ UNCHANGED <<resolvent, answer>>
  BY DEF BeginAnalysis
<1>2. /\ resolvent = {} /\ answer = 0 /\ c # 0 /\ todo = {} /\ mode \notin ToSet(Strategies)
      /\ UNCHANGED <<input, todo, mode>>
      /\ TrailInv(asg) /\ ClausesInv(clauses) /\ c \in DOMAIN clauses
      /\ Violated(clauses, asg, c)
      /\ ClausesInv(clauses') /\ WatchesInv(clauses', blit') /\ ReasonsInv(clauses', asg, {})
      /\ Rearranged(clauses, clauses') /\ OnlyAt(clauses, clauses', c)
      /\ MeaningInv(Models, clauses', asg, {})
      /\ LS(clauses', c) = LS(clauses, c)
      /\ \A o \in LS(clauses, c) : LevelIn(asg, o) <= LevelIn(asg, l)
      /\ \A o \in LS(clauses, c) : o # l => LevelIn(asg, o) <= LevelIn(asg, k)
      /\ Fronted(c).lits[1] = l
  BY BeginFacts
<1>3. LitsOf(c) = ls /\ \A o : LevelOf(o) = LevelIn(asg, o)
  BY <1>2, SameState
<1>. HIDE DEF l, k, u, n, c, ls
<1>4. \A o \in ls : On(asg, -o) /\ o \in Lits
  BY <1>2, ClauseFacts DEF Violated, ls
<1>5. /\ n \in 0 .. Lev(asg) /\ Lev(asg) \in Nat
      /\ \A o \in ls : LevelIn(asg, o) \in Nat /\ LevelIn(asg, o) <= n
      /\ \E o \in ls : LevelIn(asg, o) = n
  <2>1. \A o \in LS(clauses, c) : On(asg, -o)
    BY <1>2 DEF Violated
  <2>. QED  BY <1>1, <1>2, <2>1, ConflictLevelFacts DEF n, ls
<1>6. l \in ls /\ k \in ls /\ l # k /\ c \in DOMAIN clauses' /\ l \in Watches(clauses', c)
  <2>1. c \in DOMAIN clauses'
    BY <1>2 DEF Rearranged
  <2>2. Watches(clauses', c) \subseteq LS(clauses', c) /\ clauses'[c].lits[1] # clauses'[c].lits[2]
    BY <1>2, <2>1, ClauseFacts
  <2>. QED  BY <2>1, <2>2 DEF l, k, ls, Watches
<1>7. LevelIn(asg, l) = n
  BY <1>2, <1>5, <1>6 DEF ls
<1>8. \A o \in ls : o # l => LevelIn(asg, o) <= n - 1
  <2>1. Highest(c) = {o \in ls : LevelIn(asg, o) = n}
    BY <1>3 DEF Highest, n
  <2>2. IsFiniteSet(Highest(c))
    <3>1. IsFiniteSet(ls)
      BY <1>2, ClauseFacts DEF ls
    <3>. QED  BY <3>1, <2>1, FS_Subset
  <2>3. PICK x : Highest(c) = {x}
    BY <2>2, FS_Singleton DEF c
  <2>4. \A o \in ls : o # l => LevelIn(asg, o) # n
    BY <2>1, <2>3, <1>6, <1>7
  <2>. QED  BY <2>4, <1>5
<1>9. n - 1 \in 0 .. Lev(asg) /\ n - 1 # Lev(asg)
  BY <1>1, <1>5
<1>10. /\ TrailInv(u) /\ u \in AsgType /\ Lev(u) = n - 1 /\ AssumptionsInv(assumptions, u) /\ Units(u) = Units(asg)
       /\ \A o \in Lits : On(u, o) <=> On(asg, o) /\ LevelIn(asg, o) <= n - 1
       /\ \A o \in Lits : On(u, o) \/ On(u, -o) => LevelIn(u, o) = LevelIn(asg, o)
       /\ ReasonsInv(clauses', u, {})
       /\ assumptions \in Seq(Lits)
  <2>1. assumptions \in Seq(Lits) /\ AssumptionsInv(assumptions, asg)
    BY DEF SInv, InputOK
  <2>. QED  BY <1>2, <1>9, <2>1, BacktrackKeeps DEF u
<1>11. WatchedInv(Without(clauses', c), u, {}, 0)
  <2>1. WatchedInv(clauses, asg, {}, c)
    BY <1>2 DEF SInv, c
  <2>2. WatchedInv(clauses, u, {}, 0)
    <3>1. AssumptionsInv(assumptions, asg) /\ assumptions \in Seq(Lits)
      BY DEF SInv, InputOK
    <3>. QED  BY <1>2, <1>9, <2>1, <3>1, BacktrackKeeps DEF u
  <2>3. WatchedInv(Without(clauses, c), u, {}, 0)
    BY <2>2, WatchedWithout
  <2>4. Without(clauses', c) = Without(clauses, c)
    BY <1>2 DEF OnlyAt, Without
  <2>. QED  BY <2>3, <2>4
<1>12. l \in Lits /\ -l \in Lits /\ ~On(u, l) /\ ~On(u, -l) /\ LevelIn(asg, -l) = n
  <2>1. l \in Lits /\ -l \in Lits /\ On(asg, -l) /\ LevelIn(asg, -l) = n
    BY <1>2, <1>4, <1>6, <1>7, LitFacts, TrailFacts, AsgFacts
  <2>2. ~(n <= n - 1)
    BY <1>5
  <2>. QED  BY <2>1, <2>2, <1>7, <1>10
<1>13. \A o \in ls \ {l} : On(u, -o) /\ LevelIn(u, o) = LevelIn(asg, o) /\ LevelIn(u, o) <= Lev(u)
  <2>1. ASSUME NEW o \in ls \ {l}
        PROVE  On(u, -o) /\ LevelIn(u, o) = LevelIn(asg, o)
    <3>1. o \in Lits /\ -o \in Lits /\ On(asg, -o) /\ LevelIn(asg, -o) = LevelIn(asg, o) /\ LevelIn(asg, o) <= n - 1
      BY <1>2, <1>4, <1>8, LitFacts, TrailFacts, AsgFacts
    <3>. QED  BY <3>1, <1>10
  <2>. QED  BY <2>1, <1>8, <1>10
<1>14. /\ asg' = Assign(u, l, c, ls) /\ ls \subseteq Lits
  BY <1>1, <1>2, <1>3, <1>4 DEF c, n, u
<1>15. /\ Bounded(u, ls \ {l}) /\ TrailInv(asg') /\ ReasonsInv(clauses', asg', {})
  <2>1. clauses'[c].garbage => Len(clauses'[c].lits) = 2
    BY <1>2 DEF Violated, Rearranged
  <2>. QED  BY <1>2, <1>6, <1>10, <1>12, <1>13, <1>14, <2>1, ReasonNew DEF ls
<1>16. c \in Nat
  BY <1>2, ClauseFacts
<1>17. /\ asg' \in AsgType
       /\ Grows(u, asg', l, AssignmentLevel(u, l, ls), IF AssignmentLevel(u, l, ls) = 0 THEN 0 ELSE c)
  BY <1>10, <1>12, <1>14, <1>15, <1>16, AssignGrows
<1>18. AssumptionsInv(assumptions, asg') /\ Lev(asg') = n - 1
  BY <1>10, <1>12, <1>17, GrowsKeeps
<1>19. MeaningInv(Models, clauses', asg', {})
  <2>1. MeaningInv(Models, clauses', u, {})
    BY <1>2, <1>10, MeaningSame
  <2>2. Entails(Models, ls)
    BY <1>2, <1>6 DEF MeaningInv, ls
  <2>. QED  BY <1>6, <1>10, <1>12, <1>13, <1>14, <1>15, <1>16, <2>1, <2>2, ModelsType, MeaningAssign
<1>20. WatchedInv(Without(clauses', c), asg', {}, 0)
  <2>1. ClausesInv(Without(clauses', c))
    BY <1>2, WithoutFacts
  <2>. QED  BY <1>10, <1>11, <1>12, <1>15, <1>17, <2>1, WatchedGrows
<1>21. WellWatched(ls, l, k, asg', Limit(asg', 0), 0)
  <2>1. On(asg', l) /\ ~On(asg', -l)
    BY <1>10, <1>12, <1>15, <1>17, GrowsFacts, TrailFacts
  <2>2. Good(asg', ls, l, Limit(asg', 0), 0)
    BY <1>17, <2>1, GoodIfNotFalse
  <2>3. ASSUME LevelIn(asg', k) = 0
        PROVE  Good(asg', ls, k, Limit(asg', 0), 0)
    <3>1. On(u, -k) /\ k \in Lits /\ On(asg, -k) /\ LevelIn(u, k) = LevelIn(asg, k)
      BY <1>4, <1>6, <1>13
    <3>2. LevelIn(u, k) = 0
      BY <2>3, <3>1, <1>10, <1>12, <1>17, GrowsFacts
    <3>3. \A o \in ls \ {l} : LevelIn(u, o) = 0
      <4>1. \A o \in ls \ {l} : LevelIn(asg, o) <= LevelIn(asg, k) /\ LevelIn(asg, o) \in Nat
        BY <1>2, <1>5 DEF ls
      <4>. QED  BY <4>1, <3>1, <3>2, <1>13
    <3>4. AssignmentLevel(u, l, ls) = 0
      BY <1>10, <1>12, <1>15, <3>3, AssignmentLevelSpec
    <3>5. LevelIn(asg', l) = 0
      BY <1>17, <3>4 DEF Grows
    <3>6. \A p : Blocked(asg', ls, p)
      BY <2>1, <3>5, <1>6 DEF Blocked
    <3>. QED  BY <3>6 DEF Good
  <2>. QED  BY <2>1, <2>2, <2>3 DEF WellWatched
<1>22. WatchedInv(clauses', asg', {}, 0)
  <2>1. Pending(asg', {}, c) = 0
    BY DEF Pending
  <2>2. WellWatched(LS(clauses', c), clauses'[c].lits[1], clauses'[c].lits[2], asg', Limit(asg', 0), Pending(asg', {}, c))
    BY <1>21, <2>1 DEF ls, l, k
  <2>3. DOMAIN clauses' \subseteq DOMAIN clauses' \cup {c}
    OBVIOUS
  <2>. QED  BY <1>20, <2>2, <2>3, WatchedWith
<1>23. ViolatedInv(clauses', asg', 0) /\ DerivingInv(asg', {}, 0, {}, answer') /\ resolvent' = {} /\ todo' = {}
  BY <1>1, <1>2 DEF ViolatedInv, DerivingInv
<1>24. mode # "reduce"
  BY <1>1, <1>2, <1>5 DEF SInv, ModeInv, c
<1>. QED  BY <1>1, <1>2, <1>15, <1>18, <1>19, <1>22, <1>23, <1>24, AnalysisKeeps

(* A conflict with more: the literals above the root are what is derived    *)
(* first.                                                                   *)
LEMMA BeginDeriveInv ==
  ASSUME SInv, BeginAnalysis, ConflictLevel(conflict) > 0, Cardinality(Highest(conflict)) # 1
  PROVE  SInv'
<1>. DEFINE c == conflict
           n == ConflictLevel(c)
           l == clauses'[c].lits[1]
           k == clauses'[c].lits[2]
           ls == LS(clauses', c)
           u == Backtrack(asg, n)
           res == NonRoot(LitsOf(c))
<1>1. /\ n # 0 /\ asg' = u /\ resolvent' = res /\ UNCHANGED <<conflict, answer>>
  BY DEF BeginAnalysis
<1>2. /\ resolvent = {} /\ answer = 0 /\ c # 0 /\ todo = {} /\ mode \notin ToSet(Strategies)
      /\ UNCHANGED <<input, todo, mode>>
      /\ TrailInv(asg) /\ ClausesInv(clauses) /\ c \in DOMAIN clauses
      /\ Violated(clauses, asg, c)
      /\ ClausesInv(clauses') /\ WatchesInv(clauses', blit') /\ ReasonsInv(clauses', asg, {})
      /\ Rearranged(clauses, clauses') /\ OnlyAt(clauses, clauses', c)
      /\ MeaningInv(Models, clauses', asg, {})
      /\ LS(clauses', c) = LS(clauses, c)
      /\ \A o \in LS(clauses, c) : LevelIn(asg, o) <= LevelIn(asg, l)
      /\ \A o \in LS(clauses, c) : o # l => LevelIn(asg, o) <= LevelIn(asg, k)
  BY BeginFacts
<1>3. LitsOf(c) = ls /\ \A o : LevelOf(o) = LevelIn(asg, o)
  BY <1>2, SameState
<1>3a. res = {o \in ls : LevelIn(asg, o) > 0}
  BY <1>3 DEF NonRoot
<1>3b. Highest(c) = {o \in ls : LevelIn(asg, o) = n}
  BY <1>3 DEF Highest
<1>. HIDE DEF l, k, u, n, ls, res
<1>4. \A o \in ls : /\ On(asg, -o) /\ o \in Lits /\ -o \in Lits /\ LevelIn(asg, -o) = LevelIn(asg, o)
                    /\ - -o = o
  BY <1>2, ClauseFacts, LitFacts, TrailFacts, AsgFacts DEF Violated, ls
<1>5. /\ n \in 0 .. Lev(asg) /\ Lev(asg) \in Nat /\ n \in Nat
      /\ \A o \in ls : LevelIn(asg, o) \in Nat /\ LevelIn(asg, o) <= n
      /\ \E o \in ls : LevelIn(asg, o) = n
  <2>1. \A o \in LS(clauses, c) : On(asg, -o)
    BY <1>2 DEF Violated
  <2>. QED  BY <1>1, <1>2, <2>1, ConflictLevelFacts DEF n, ls
<1>6. l \in ls /\ k \in ls /\ l # k /\ c \in DOMAIN clauses'
  <2>1. c \in DOMAIN clauses'
    BY <1>2 DEF Rearranged
  <2>2. Watches(clauses', c) \subseteq LS(clauses', c) /\ clauses'[c].lits[1] # clauses'[c].lits[2]
    BY <1>2, <2>1, ClauseFacts
  <2>. QED  BY <2>1, <2>2 DEF l, k, ls, Watches
<1>7. LevelIn(asg, l) = n
  BY <1>2, <1>5, <1>6 DEF ls
<1>8. LevelIn(asg, k) = n
  <2>2. IsFiniteSet(Highest(c))
    <3>1. IsFiniteSet(ls)
      BY <1>2, ClauseFacts DEF ls
    <3>. QED  BY <3>1, <1>3b, FS_Subset
  <2>3. Highest(c) # {l}
    BY <2>2, FS_Singleton DEF c
  <2>4. PICK o \in ls : o # l /\ LevelIn(asg, o) = n
    BY <2>3, <1>3b, <1>6, <1>7
  <2>5. LevelIn(asg, o) <= LevelIn(asg, k)
    BY <2>4, <1>2 DEF ls
  <2>. QED  BY <2>4, <2>5, <1>5, <1>6
<1>10. /\ TrailInv(u) /\ u \in AsgType /\ Lev(u) = n /\ AssumptionsInv(assumptions, u) /\ Units(u) = Units(asg)
       /\ \A o \in Lits : On(u, o) <=> On(asg, o) /\ LevelIn(asg, o) <= n
       /\ \A o \in Lits : On(u, o) \/ On(u, -o) => LevelIn(u, o) = LevelIn(asg, o)
       /\ ReasonsInv(clauses', u, {})
       /\ WatchedInv(clauses, u, {}, c)
  <2>1. assumptions \in Seq(Lits) /\ AssumptionsInv(assumptions, asg)
    BY DEF SInv, InputOK
  <2>2. WatchedInv(clauses, asg, {}, c)
    BY <1>2 DEF SInv
  <2>3. /\ TrailInv(u) /\ u \in AsgType /\ Lev(u) = n /\ AssumptionsInv(assumptions, u) /\ Units(u) = Units(asg)
        /\ \A o \in Lits : On(u, o) <=> On(asg, o) /\ LevelIn(asg, o) <= n
        /\ \A o \in Lits : On(u, o) \/ On(u, -o) => LevelIn(u, o) = LevelIn(asg, o)
        /\ ReasonsInv(clauses', u, {})
    BY <1>2, <1>5, <2>1, BacktrackKeeps DEF u
  <2>4. WatchedInv(clauses, u, {}, c)
    BY <1>2, <1>5, <2>1, <2>2, BacktrackKeeps DEF u
  <2>. QED  BY <2>3, <2>4
<1>11. \A o \in ls : On(u, -o) /\ LevelIn(u, o) = LevelIn(asg, o)
  BY <1>4, <1>5, <1>10
<1>12. WatchedInv(clauses', u, {}, c)
  <2>1. WatchedInv(Without(clauses', c), u, {}, c)
    <3>1. WatchedInv(Without(clauses, c), u, {}, c)
      BY <1>10, WatchedWithout
    <3>2. Without(clauses', c) = Without(clauses, c)
      BY <1>2 DEF OnlyAt, Without
    <3>. QED  BY <3>1, <3>2
  <2>2. Limit(u, c) = u.control[n].trail /\ Limit(u, c) \in Nat
    BY <1>1, <1>2, <1>10, LimitFacts DEF Limit
  <2>3. ASSUME NEW w \in {l, k}, NEW lim, lim = Limit(u, c)
        PROVE  Good(u, ls, w, lim, 0)
    <3>1. w \in ls /\ LevelIn(u, w) = n /\ w \in Lits
      BY <1>4, <1>6, <1>7, <1>8, <1>11
    <3>2. ASSUME NEW p \in DOMAIN u.trail, u.trail[p] = -w
          PROVE  ~(p <= lim)
      <4>1. LevelIn(u, u.trail[p]) = n
        BY <1>10, <3>1, <3>2, AsgFacts
      <4>2. p > u.control[n].trail
        <5>. HIDE DEF TrailInv
        <5>1. n > 0
          BY <1>1, <1>5
        <5>. QED  BY <1>10, <4>1, <5>1, TrailFacts
      <4>3. p \in Nat
        BY <1>10, AsgFacts
      <4>. QED  BY <2>2, <2>3, <4>2, <4>3
    <3>. QED  BY <3>2, GoodIfNotBefore
  <2>4. WellWatched(ls, l, k, u, Limit(u, c), 0)
    BY <2>3 DEF WellWatched
  <2>5. Pending(u, {}, c) = 0
    BY DEF Pending
  <2>6. WellWatched(LS(clauses', c), clauses'[c].lits[1], clauses'[c].lits[2], u, Limit(u, c), Pending(u, {}, c))
    BY <2>4, <2>5 DEF ls, l, k
  <2>7. DOMAIN clauses' \subseteq DOMAIN clauses' \cup {c}
    OBVIOUS
  <2>. QED  BY <2>1, <2>6, <2>7, WatchedWith
<1>13. ViolatedInv(clauses', u, c)
  <2>1. \A o \in LS(clauses, c) : On(u, -o)
    BY <1>2, <1>11 DEF ls
  <2>. QED  BY <1>2, <2>1, ViolatedKept DEF ViolatedInv
<1>14. DerivingInv(u, {}, c, res, 0)
  <2>1. \A o \in res : o \in ls /\ LevelIn(asg, o) > 0
    BY <1>3a
  <2>2. l \in res /\ LevelIn(u, l) = Lev(u) /\ Lev(u) > 0
    BY <1>1, <1>3a, <1>5, <1>6, <1>7, <1>10, <1>11
  <2>3. \A o \in res : o \in Lits /\ On(u, -o) /\ LevelIn(u, o) > 0
    BY <2>1, <1>4, <1>11
  <2>. QED  BY <1>2, <2>2, <2>3 DEF DerivingInv
<1>15. MeaningInv(Models, clauses', u, res)
  <2>1. Entails(Models, ls)
    BY <1>2, <1>6 DEF MeaningInv, ls
  <2>2. Entails(Models, res)
    <3>1. \A m \in Models : Units(asg) \subseteq m
      BY <1>2 DEF MeaningInv
    <3>2. res \subseteq ls /\ ls \subseteq Lits
      BY <1>3a, <1>4
    <3>3. \A o \in ls \ res : On(asg, -o) /\ LevelIn(asg, o) = 0
      BY <1>3a, <1>4, <1>5
    <3>. QED  BY <1>2, <2>1, <3>1, <3>2, <3>3, ModelsType, EntailedRest
  <2>. QED  BY <1>2, <1>10, <2>2, MeaningSame
<1>16. ReasonsInv(clauses', u, res)
  BY <1>10, ReasonsAll
<1>17. mode # "reduce"
  BY <1>1, <1>2, <1>5 DEF SInv, ModeInv, c
<1>18. conflict' = c /\ answer' = 0 /\ todo' = {}
  BY <1>1, <1>2 DEF c
<1>. QED  BY <1>1, <1>2, <1>10, <1>12, <1>13, <1>14, <1>15, <1>16, <1>17, <1>18, AnalysisKeeps DEF c

(* The first step of analyze keeps the invariant.                           *)
LEMMA BeginAnalysisInv ==
  ASSUME SInv, BeginAnalysis
  PROVE  SInv'
<1>1. ConflictLevel(conflict) \in Nat
  <2>1. conflict \in DOMAIN clauses /\ \A l \in LS(clauses, conflict) : On(asg, -l)
    BY BeginFacts DEF Violated
  <2>. QED  BY <2>1, ConflictLevelFacts
<1>2. CASE ConflictLevel(conflict) = 0
  BY <1>2, BeginRootInv
<1>3. CASE ConflictLevel(conflict) > 0 /\ Cardinality(Highest(conflict)) = 1
  BY <1>3, BeginFlipInv
<1>4. CASE ConflictLevel(conflict) > 0 /\ Cardinality(Highest(conflict)) # 1
  BY <1>4, BeginDeriveInv
<1>. QED  BY <1>1, <1>2, <1>3, <1>4

=============================================================================
