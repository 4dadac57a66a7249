--------------------------- MODULE FoldInduction ---------------------------
(***************************************************************************)
(* Induction over data.  A fold of the community modules takes the         *)
(* elements of a finite set one at a time, as Choice picks them, and       *)
(* applies Step to each; what holds of the empty set and is kept by every  *)
(* step holds of the whole fold.  A module that folds instantiates this    *)
(* one with its own step and its own invariant; `p` stands for whatever    *)
(* else they depend on.                                                    *)
(***************************************************************************)
EXTENDS Integers, FiniteSets, FiniteSetTheorems, WellFoundedInduction, TLAPS

CONSTANTS
  Choice(_, _),  \* Choice(p, s): the element of s that is folded last
  Step(_, _, _), \* Step(p, x, r): the result r with the element x folded in
  Holds(_, _, _) \* Holds(p, s, r): what is claimed of the fold r of s

(* The fold of S, the way the module Folds defines it.                     *)
FoldOf(p, S, base) ==
  LET iter[s \in SUBSET S] ==
        IF s = {} THEN base
        ELSE LET x == Choice(p, s) IN Step(p, x, iter[s \ {x}])
  IN  iter[S]

(* A non-empty set of finite sets has a smallest one.                      *)
LEMMA SmallestSet ==
  ASSUME NEW S, IsFiniteSet(S), NEW T, T \subseteq SUBSET S, T # {}
  PROVE  \E s \in T : \A u \in SUBSET s : u # s => u \notin T
<1>1. IsWellFoundedOn(StrictSubsetOrdering(S), SUBSET S)
  BY FS_StrictSubsetOrderingWellFounded, FS_FiniteSubsetsOfFinite
<1>2. PICK s \in T : \A u \in T : <<u, s>> \notin StrictSubsetOrdering(S)
  BY <1>1, WFMin
<1>3. ASSUME NEW u \in SUBSET s, u # s, u \in T
      PROVE  FALSE
  <2>1. u \in SUBSET S /\ s \in SUBSET S
    OBVIOUS
  <2>2. <<u, s>> \in StrictSubsetOrdering(S)
    BY <1>3, <2>1 DEF StrictSubsetOrdering
  <2>. QED
    BY <1>2, <1>3, <2>2
<1>. QED
  BY <1>2, <1>3

(* A non-empty set of indices has a largest one.                           *)
LEMMA LargestIsMax ==
  ASSUME NEW n \in Nat, NEW s \in SUBSET (1..n), s # {}
  PROVE  LET largest == CHOOSE m \in s : \A k \in s : m >= k
         IN  largest \in s /\ \A k \in s : k <= largest
<1>. DEFINE Above(m) == {k \in s : k > m}
            T == {u \in SUBSET s : \E m \in s : u = Above(m)}
<1>1. IsFiniteSet(s)
  <2>1. IsFiniteSet(1..n)
    BY FS_Interval
  <2>. QED
    BY <2>1, FS_Subset
<1>2. T # {} /\ T \subseteq SUBSET s
  <2>1. PICK m \in s : TRUE
    OBVIOUS
  <2>2. Above(m) \in SUBSET s
    OBVIOUS
  <2>3. Above(m) \in T
    BY <2>2
  <2>. QED
    BY <2>3
<1>3. PICK u \in T : \A v \in SUBSET u : v # u => v \notin T
  <2>. HIDE DEF T
  <2>. QED
    BY <1>1, <1>2, SmallestSet
<1>4. PICK m \in s : u = Above(m)
  BY <1>3
<1>5. ASSUME NEW k \in s, k > m
      PROVE  FALSE
  <2>1. k \in Nat /\ m \in Nat /\ \A j \in s : j \in Nat
    OBVIOUS
  <2>2. Above(k) \subseteq Above(m) /\ k \in Above(m) /\ k \notin Above(k)
    <3>1. ~ k > k /\ \A j \in Nat : j > k => j > m
      BY <1>5, <2>1
    <3>. QED
      BY <1>5, <2>1, <3>1, Zenon
  <2>3. Above(k) \in T
    OBVIOUS
  <2>. HIDE DEF Above, T
  <2>. QED
    BY <1>3, <1>4, <2>2, <2>3
<1>6. \A k \in s : m >= k
  BY <1>5
<1>. DEFINE largest == CHOOSE j \in s : \A k \in s : j >= k
<1>7. largest \in s /\ \A k \in s : largest >= k
  BY <1>6
<1>. HIDE DEF largest
<1>8. \A k \in s : k \in Int
  OBVIOUS
<1>9. \A k \in s : k <= largest
  BY <1>7, <1>8
<1>10. largest \in s /\ \A k \in s : k <= largest
  BY <1>7, <1>9
<1>. QED
  BY <1>10, Zenon DEF largest

LEMMA LargestIsIn ==
  ASSUME NEW n \in Nat, NEW s \in SUBSET (1..n), s # {}
  PROVE  (CHOOSE m \in s : \A k \in s : m >= k) \in s
  BY LargestIsMax

(* A function that folds every subset of S.                                *)
Folds(p, S, base, f) ==
  f = [s \in SUBSET S |-> IF s = {} THEN base
                          ELSE Step(p, Choice(p, s), f[s \ {Choice(p, s)}])]

(* There is one result for each subset.                                    *)
LEMMA FoldsAgree ==
  ASSUME NEW p, NEW base, NEW S, IsFiniteSet(S), NEW T, NEW f, NEW g,
         Folds(p, S, base, f), Folds(p, T, base, g), T \subseteq S,
         \A s \in SUBSET S : s # {} => Choice(p, s) \in s
  PROVE  \A s \in SUBSET T : f[s] = g[s]
<1>. DEFINE Bad == {s \in SUBSET T : f[s] # g[s]}
<1>. SUFFICES ASSUME Bad # {} PROVE FALSE
  OBVIOUS
<1>1. Bad \subseteq SUBSET S
  OBVIOUS
<1>2. PICK s \in Bad : \A u \in SUBSET s : u # s => u \notin Bad
  <2>. HIDE DEF Bad
  <2>. QED
    BY <1>1, SmallestSet
<1>3. s \in SUBSET T /\ s \in SUBSET S /\ f[s] # g[s]
  BY <1>2
<1>4. CASE s = {}
  BY <1>3, <1>4 DEF Folds
<1>5. CASE s # {}
  <2>. DEFINE u == s \ {Choice(p, s)}
  <2>1. u \in SUBSET s /\ u # s
    BY <1>3, <1>5
  <2>2. f[u] = g[u]
    BY <1>2, <1>3, <2>1
  <2>3. f[s] = Step(p, Choice(p, s), f[u])
    BY <1>3, <1>5 DEF Folds
  <2>4. g[s] = Step(p, Choice(p, s), g[u])
    BY <1>3, <1>5 DEF Folds
  <2>. QED
    BY <1>3, <2>2, <2>3, <2>4
<1>. QED
  BY <1>4, <1>5

(* And there is a function that folds every subset.                        *)
LEMMA FoldsExist ==
  ASSUME NEW p, NEW base, NEW S, IsFiniteSet(S),
         \A s \in SUBSET S : s # {} => Choice(p, s) \in s
  PROVE  \E f : Folds(p, S, base, f)
<1>. DEFINE Bad == {T \in SUBSET S : ~ \E f : Folds(p, T, base, f)}
<1>. SUFFICES ASSUME Bad # {} PROVE FALSE
  OBVIOUS
<1>1. PICK T \in Bad : \A u \in SUBSET T : u # T => u \notin Bad
  <2>1. Bad \subseteq SUBSET S
    OBVIOUS
  <2>. HIDE DEF Bad
  <2>. QED
    BY <2>1, SmallestSet
<1>2. T \in SUBSET S
  BY <1>1
<1>. DEFINE Down(u) == CHOOSE f : Folds(p, u, base, f)
<1>3. \A u \in SUBSET T : u # T => Folds(p, u, base, Down(u))
  <2>. SUFFICES ASSUME NEW u \in SUBSET T, u # T
                PROVE  Folds(p, u, base, Down(u))
    OBVIOUS
  <2>1. u \in SUBSET S /\ u \notin Bad
    BY <1>1, <1>2
  <2>2. \E f : Folds(p, u, base, f)
    BY <2>1
  <2>. HIDE DEF Folds
  <2>. QED
    BY <2>2
<1>. DEFINE Below(s) == IF s = {} THEN base
                        ELSE Step(p, Choice(p, s), Down(s \ {Choice(p, s)})[s \ {Choice(p, s)}])
            f == [s \in SUBSET T |-> Below(s)]
<1>. HIDE DEF Down
<1>4. ASSUME NEW s \in SUBSET T, s # {}
      PROVE  f[s \ {Choice(p, s)}] = Down(s \ {Choice(p, s)})[s \ {Choice(p, s)}]
  <2>. DEFINE u == s \ {Choice(p, s)}
  <2>1. Choice(p, s) \in s
    BY <1>2, <1>4
  <2>2. u \in SUBSET T /\ u # T
    BY <2>1
  <2>3. Folds(p, u, base, Down(u))
    BY <1>3, <2>2
  <2>4. CASE u = {}
    BY <2>2, <2>3, <2>4 DEF Folds
  <2>5. CASE u # {}
    <3>. DEFINE v == u \ {Choice(p, u)}
    <3>1. v \in SUBSET u /\ v \in SUBSET T /\ v # T /\ u \in SUBSET u
      BY <2>2
    <3>2. Folds(p, v, base, Down(v))
      BY <1>3, <3>1
    <3>3. IsFiniteSet(u) /\ \A w \in SUBSET u : w # {} => Choice(p, w) \in w
      BY <1>2, <2>2, FS_Subset
    <3>4. \A w \in SUBSET v : Down(u)[w] = Down(v)[w]
      <4>. HIDE DEF u, v
      <4>. QED
        BY <2>3, <3>1, <3>2, <3>3, FoldsAgree
    <3>5. Down(u)[v] = Down(v)[v]
      BY <3>4
    <3>6. Down(u)[u] = Step(p, Choice(p, u), Down(u)[v])
      BY <2>3, <2>5, <3>1 DEF Folds
    <3>7. f[u] = Step(p, Choice(p, u), Down(v)[v])
      BY <2>2, <2>5
    <3>. QED
      BY <3>5, <3>6, <3>7
  <2>. QED
    BY <2>4, <2>5
<1>5. Folds(p, T, base, f)
  <2>1. \A s \in SUBSET T :
          Below(s) = IF s = {} THEN base
                     ELSE Step(p, Choice(p, s), f[s \ {Choice(p, s)}])
    BY <1>4
  <2>. QED
    BY <2>1, Zenon DEF Folds
<1>. QED
  BY <1>1, <1>5

(***************************************************************************)
(* What holds of nothing, and is kept when one more element is folded in,  *)
(* holds of the fold of a finite set.                                      *)
(***************************************************************************)
LEMMA FoldKeeps ==
  ASSUME NEW p, NEW base, NEW S, IsFiniteSet(S),
         \A s \in SUBSET S : s # {} => Choice(p, s) \in s,
         Holds(p, {}, base),
         \A s \in SUBSET S : \A r :
           s # {} /\ Holds(p, s \ {Choice(p, s)}, r) => Holds(p, s, Step(p, Choice(p, s), r))
  PROVE  Holds(p, S, FoldOf(p, S, base))
<1>. DEFINE g == CHOOSE f : Folds(p, S, base, f)
            Bad == {s \in SUBSET S : ~Holds(p, s, g[s])}
<1>1. Folds(p, S, base, g)
  <2>. HIDE DEF Folds
  <2>. QED
    BY FoldsExist
<1>2. Bad = {}
  <2>. SUFFICES ASSUME Bad # {} PROVE FALSE
    OBVIOUS
  <2>1. Bad \subseteq SUBSET S
    OBVIOUS
  <2>2. PICK s \in Bad : \A u \in SUBSET s : u # s => u \notin Bad
    <3>. HIDE DEF Bad
    <3>. QED
      BY <2>1, SmallestSet
  <2>. HIDE DEF g
  <2>3. CASE s = {}
    BY <1>1, <2>2, <2>3 DEF Folds
  <2>4. CASE s # {}
    <3>. DEFINE u == s \ {Choice(p, s)}
    <3>1. s \in SUBSET S /\ ~Holds(p, s, g[s])
      BY <2>2
    <3>2. u \in SUBSET s /\ u # s /\ u \in SUBSET S
      BY <2>4, <3>1
    <3>3. Holds(p, u, g[u])
      BY <2>2, <3>2
    <3>4. g[s] = Step(p, Choice(p, s), g[u])
      BY <1>1, <2>4, <3>1 DEF Folds
    <3>. QED
      BY <2>4, <3>1, <3>3, <3>4
  <2>. QED
    BY <2>3, <2>4
<1>3. Holds(p, S, g[S])
  BY <1>2
<1>4. FoldOf(p, S, base) = g[S]
  BY DEF FoldOf, Folds
<1>. HIDE DEF g
<1>. QED
  BY <1>3, <1>4
=============================================================================
