---------------------------- MODULE LibraryProofs ----------------------------
(***************************************************************************)
(* Theorems about Library, for arguments of any length: what the folds of  *)
(* the functions return.  The inductions are over sets of numbers, and     *)
(* come from the fact that < is well-founded on the naturals.              *)
(***************************************************************************)
EXTENDS Library, WellFoundedInduction, FiniteSetTheorems, TLAPS

(***************************************************************************)
(* Induction over the naturals.                                            *)
(***************************************************************************)

LEMMA LeastElement ==
    ASSUME NEW T \in SUBSET Nat, T # {}
    PROVE  \E x \in T : \A y \in T : x <= y
  <1> DEFINE R == {ss \in Nat \X Nat : ss[1] < ss[2]}
  <1>1. IsWellFoundedOn(R, Nat)
    BY NatLessThanWellFounded, Zenon DEF OpToRel
  <1> HIDE DEF R
  <1>2. PICK x \in T : \A y \in T : ~(<<y, x>> \in R)
    BY <1>1, WFMin
  <1>3. ASSUME NEW y \in T  PROVE x <= y
    <2>1. x \in Nat /\ y \in Nat
      OBVIOUS
    <2>2. y < x => <<y, x>> \in R
      BY <2>1 DEF R
    <2>3. ~(y < x)
      BY <1>2, <2>2
    <2>4. QED
      BY <2>1, <2>3
  <1>4. QED
    BY <1>3

\* A set that has 0 and is closed under the successor has all numbers.
LEMMA SetInduction ==
    ASSUME NEW S, 0 \in S, \A n \in Nat : n \in S => n + 1 \in S
    PROVE  \A n \in Nat : n \in S
  <1> SUFFICES ASSUME NEW m \in Nat, m \notin S  PROVE FALSE
    OBVIOUS
  <1>1. PICK x \in Nat \ S : \A y \in Nat \ S : x <= y
    BY LeastElement
  <1>2. x # 0 /\ x - 1 \in Nat /\ (x - 1) + 1 = x
    OBVIOUS
  <1>3. x - 1 \in S
    BY <1>1, <1>2
  <1>4. QED
    BY <1>2, <1>3

\* The same up to a bound.
LEMMA IntervalInduction ==
    ASSUME NEW n \in Nat, NEW S, 0 \in S, \A k \in 0..n - 1 : k \in S => k + 1 \in S
    PROVE  \A k \in 0..n : k \in S
  <1> DEFINE T == {k \in Nat : k <= n => k \in S}
  <1>1. \A k \in Nat : k \in T
    <2>1. 0 \in T
      OBVIOUS
    <2>2. ASSUME NEW k \in Nat, k \in T  PROVE k + 1 \in T
      BY <2>2
    <2> HIDE DEF T
    <2>3. QED
      BY <2>1, <2>2, SetInduction
  <1>2. QED
    BY <1>1

LEMMA MaxOfIndices ==
    ASSUME NEW n \in Nat, NEW s \in SUBSET (1..n), s # {}
    PROVE  Max(s) \in s /\ \A x \in s : x <= Max(s)
  <1> DEFINE T == {n - x : x \in s}
  <1>1. PICK t \in T : \A y \in T : t <= y
    <2>1. \A x \in s : n - x \in Nat
      OBVIOUS
    <2>2. T \in SUBSET Nat /\ T # {}
      BY <2>1
    <2> HIDE DEF T
    <2>3. QED
      BY <2>2, LeastElement
  <1>2. PICK m \in s : t = n - m
    OBVIOUS
  <1>3. \A x \in s : m >= x
    <2> SUFFICES ASSUME NEW x \in s  PROVE m >= x
      OBVIOUS
    <2>1. n - m <= n - x
      BY <1>1, <1>2
    <2>2. QED
      BY <2>1
  <1>4. Max(s) \in s /\ \A x \in s : Max(s) >= x
    BY <1>3 DEF Max
  <1>5. QED
    BY <1>4

LEMMA MaxOfInterval ==
    ASSUME NEW n \in Nat, NEW k \in 1..n
    PROVE  Max(1..k) = k /\ (1..k) \ {k} = 1..k - 1
  <1>1. Max(1..k) \in 1..k /\ \A x \in 1..k : x <= Max(1..k)
    <2>1. 1..k \in SUBSET (1..n) /\ k \in 1..k
      OBVIOUS
    <2>2. QED
      BY <2>1, MaxOfIndices
  <1>2. QED
    BY <1>1
-----------------------------------------------------------------------------
(***************************************************************************)
(* Folds.  A fold takes one element after the other out of a finite set.   *)
(***************************************************************************)

LEMMA OneLess ==
    ASSUME NEW D, IsFiniteSet(D), NEW s \in SUBSET D, NEW x \in s
    PROVE  Cardinality(s) \in Nat /\ Cardinality(s \ {x}) = Cardinality(s) - 1
  <1>1. IsFiniteSet(s)
    BY FS_Subset
  <1>2. QED
    BY <1>1, FS_CardinalityType, FS_RemoveElement

TakesOut(pick, D) ==
    /\ pick \in [SUBSET D -> D \cup {D}]
    /\ \A s \in SUBSET D : s # {} => pick[s] \in s

\* The equation MapThenFoldSet is defined by.
IsFold(g, D, base, step, pick) ==
    \A s \in SUBSET D : g[s] = IF s = {} THEN base ELSE step[pick[s]][g[s \ {pick[s]}]]

IsFoldLeft(g, n, base, step) ==
    \A s \in SUBSET (1..n) : g[s] = IF s = {} THEN base ELSE step[Max(s)][g[s \ {Max(s)}]]

LEMMA FoldExists ==
    ASSUME NEW D, IsFiniteSet(D), NEW A, NEW base \in A, NEW step \in [D -> [A -> A]],
           NEW pick, TakesOut(pick, D)
    PROVE  \E g \in [SUBSET D -> A] : IsFold(g, D, base, step, pick)
  <1> DEFINE Next1(g, s) == IF s = {} THEN base ELSE step[pick[s]][g[s \ {pick[s]}]]
             Solves(g, m) == \A s \in SUBSET D : Cardinality(s) <= m => g[s] = Next1(g, s)
             T == {m \in Nat : \E g \in [SUBSET D -> A] : Solves(g, m)}
  <1>1. ASSUME NEW g \in [SUBSET D -> A], NEW s \in SUBSET D
        PROVE  Next1(g, s) \in A
    <2>1. CASE s = {}
      BY <2>1
    <2>2. CASE s # {}
      <3>1. pick[s] \in D /\ s \ {pick[s]} \in SUBSET D
        BY <2>2 DEF TakesOut
      <3>2. step[pick[s]] \in [A -> A] /\ g[s \ {pick[s]}] \in A
        BY <3>1
      <3>3. QED
        BY <2>2, <3>2
    <2>3. QED
      BY <2>1, <2>2
  <1>2. 0 \in T
    <2> DEFINE g0 == [s \in SUBSET D |-> base]
    <2>1. g0 \in [SUBSET D -> A]
      OBVIOUS
    <2>2. ASSUME NEW s \in SUBSET D, Cardinality(s) <= 0  PROVE s = {}
      <3>1. IsFiniteSet(s)
        BY FS_Subset
      <3>2. QED
        BY <2>2, <3>1, FS_EmptySet, FS_CardinalityType
    <2>3. Solves(g0, 0)
      BY <2>2
    <2>4. QED
      BY <2>1, <2>3
  <1>3. ASSUME NEW m \in Nat, m \in T  PROVE m + 1 \in T
    <2>1. PICK g \in [SUBSET D -> A] : Solves(g, m)
      BY <1>3
    <2> DEFINE h == [s \in SUBSET D |-> Next1(g, s)]
    <2>2. h \in [SUBSET D -> A]
      BY <1>1
    <2>3. ASSUME NEW s \in SUBSET D, Cardinality(s) <= m + 1, s # {}
          PROVE  h[s] = step[pick[s]][h[s \ {pick[s]}]]
      <3>1. pick[s] \in s /\ s \ {pick[s]} \in SUBSET D
        BY <2>3 DEF TakesOut
      <3>2. Cardinality(s \ {pick[s]}) <= m
        BY <2>3, <3>1, OneLess
      <3>3. g[s \ {pick[s]}] = Next1(g, s \ {pick[s]})
        BY <2>1, <3>1, <3>2
      <3>4. h[s \ {pick[s]}] = g[s \ {pick[s]}]
        BY <3>1, <3>3
      <3>5. QED
        BY <2>3, <3>4
    <2>4. Solves(h, m + 1)
      BY <2>3
    <2> HIDE DEF h, Solves
    <2>5. \E k \in [SUBSET D -> A] : Solves(k, m + 1)
      BY <2>2, <2>4
    <2>6. QED
      BY <2>5
  <1> HIDE DEF T
  <1>4. Cardinality(D) \in T
    BY <1>2, <1>3, SetInduction, FS_CardinalityType
  <1>5. \A s \in SUBSET D : Cardinality(s) <= Cardinality(D)
    BY FS_Subset
  <1>6. QED
    BY <1>4, <1>5 DEF T, IsFold

\* FoldLeft takes the last element out first.
LEMMA FoldLeftExists ==
    ASSUME NEW n \in Nat, NEW A, NEW base \in A, NEW step \in [1..n -> [A -> A]]
    PROVE  \E g \in [SUBSET (1..n) -> A] : IsFoldLeft(g, n, base, step)
  <1> DEFINE D == 1..n
             pick == [s \in SUBSET D |-> IF s = {} THEN D ELSE Max(s)]
  <1>1. IsFiniteSet(D)
    BY FS_Interval
  <1>2. \A s \in SUBSET D : s # {} => pick[s] = Max(s) /\ pick[s] \in s
    BY MaxOfIndices
  <1>3. TakesOut(pick, D)
    BY <1>2 DEF TakesOut
  <1> HIDE DEF pick
  <1>4. PICK g \in [SUBSET D -> A] : IsFold(g, D, base, step, pick)
    BY <1>1, <1>3, FoldExists
  <1>5. ASSUME NEW s \in SUBSET D
        PROVE  g[s] = IF s = {} THEN base ELSE step[Max(s)][g[s \ {Max(s)}]]
    <2>1. g[s] = IF s = {} THEN base ELSE step[pick[s]][g[s \ {pick[s]}]]
      BY <1>4 DEF IsFold
    <2>2. s # {} => pick[s] = Max(s)
      BY <1>2
    <2>3. QED
      BY <2>1, <2>2
  <1>6. QED
    BY <1>5 DEF IsFoldLeft

LEMMA PrefixIndices ==
    ASSUME NEW n \in Nat, NEW k \in 1..n
    PROVE  1..k \in SUBSET (1..n) /\ 1..k # {}
  <1>1. k \in 1..k
    OBVIOUS
  <1>2. QED
    BY <1>1

\* The rounds of a loop, and what a fold has to do with them.
IsRounds(r, n, base, step) ==
    r[0] = base /\ \A k \in 1..n : r[k] = step[k][r[k - 1]]

Advances(h, n, A, base, step) ==
    /\ h[{}] = base
    /\ \A k \in 1..n : h[1..k - 1] \in A => h[1..k] = step[k][h[1..k - 1]]

HasRounds(h, n, A, base, step) ==
    \E r \in [0..n -> A] : IsRounds(r, n, base, step) /\ r[n] = h[1..n]

LEMMA RoundsOf ==
    ASSUME NEW n \in Nat, NEW A, NEW base \in A, NEW step \in [1..n -> [A -> A]],
           NEW h, Advances(h, n, A, base, step)
    PROVE  HasRounds(h, n, A, base, step)
  <1> DEFINE r == [k \in 0..n |-> h[1..k]]
             S == {k \in 0..n : r[k] \in A}
  <1>2. \A k \in 1..n : r[k - 1] \in A => r[k] = step[k][r[k - 1]]
    <2> SUFFICES ASSUME NEW k \in 1..n, r[k - 1] \in A  PROVE r[k] = step[k][r[k - 1]]
      OBVIOUS
    <2>1. k - 1 \in 0..n /\ k \in 0..n
      OBVIOUS
    <2>2. r[k - 1] = h[1..k - 1] /\ r[k] = h[1..k]
      BY <2>1
    <2>3. QED
      BY <2>2 DEF Advances
  <1>3. 0 \in S /\ r[0] = base
    <2>1. 1..0 = {}
      OBVIOUS
    <2>2. r[0] = h[1..0]
      OBVIOUS
    <2>3. QED
      BY <2>1, <2>2 DEF Advances
  <1>4. ASSUME NEW k \in 0..n - 1, k \in S  PROVE k + 1 \in S
    <2>1. k + 1 \in 1..n /\ (k + 1) - 1 = k
      OBVIOUS
    <2>2. r[k + 1] = step[k + 1][r[k]] /\ r[k] \in A
      BY <1>2, <1>4, <2>1
    <2>3. step[k + 1] \in [A -> A]
      BY <2>1
    <2> HIDE DEF r
    <2>4. QED
      BY <2>1, <2>2, <2>3
  <1> HIDE DEF S
  <1>5. \A k \in 0..n : k \in S
    BY <1>3, <1>4, IntervalInduction
  <1>6. r \in [0..n -> A]
    BY <1>5 DEF S
  <1>7. r[n] = h[1..n]
    OBVIOUS
  <1>8. \A k \in 1..n : r[k] = step[k][r[k - 1]]
    <2>1. \A k \in 1..n : k - 1 \in 0..n
      OBVIOUS
    <2>2. \A k \in 1..n : r[k - 1] \in A
      BY <1>6, <2>1
    <2> HIDE DEF r
    <2>3. QED
      BY <1>2, <2>2
  <1> HIDE DEF r
  <1>9. QED
    BY <1>3, <1>6, <1>7, <1>8 DEF IsRounds, HasRounds
-----------------------------------------------------------------------------
(***************************************************************************)
(* generate-changeset.mjs.                                                 *)
(***************************************************************************)

Bumps == {NoBump, Patch, Minor, Major}

LEMMA BumpTypes ==
    ASSUME NEW c \in Commits
    PROVE  BumpFor(c) \in Bumps
  BY DEF Commits, Types, BumpFor, Bumps

LEMMA PerPackageRounds ==
    ASSUME NEW commits \in Seq(Commits)
    PROVE  \E r \in [0..Len(commits) -> [Packages -> Bumps]] :
              /\ r[0] = [p \in Packages |-> NoBump]
              /\ \A k \in 1..Len(commits) : r[k] = AddCommit(r[k - 1], commits[k])
              /\ r[Len(commits)] = PerPackage(commits)
  <1> DEFINE n == Len(commits)
             A == [Packages -> Bumps]
             base == [p \in Packages |-> NoBump]
             step == [i \in 1..n |-> [a \in A |-> AddCommit(a, commits[i])]]
             Fold(g) == [s \in SUBSET (DOMAIN commits) |->
                           IF s = {} THEN base
                           ELSE AddCommit(g[s \ {Max(s)}], commits[Max(s)])]
             h == CHOOSE g : g = Fold(g)
  <1>1. /\ n \in Nat /\ DOMAIN commits = 1..n
        /\ \A i \in 1..n : commits[i] \in Commits
    OBVIOUS
  <1>2. base \in A /\ step \in [1..n -> [A -> A]]
    <2>1. \A i \in 1..n : \A a \in A : AddCommit(a, commits[i]) \in A
      BY <1>1, BumpTypes DEF AddCommit
    <2>2. QED
      BY <2>1 DEF Bumps
  <1>3. PerPackage(commits) = h[DOMAIN commits]
    BY DEF PerPackage, FoldLeft, MapThenFoldSet
  <1>4. h = Fold(h)
    <2>1. PICK g \in [SUBSET (1..n) -> A] : IsFoldLeft(g, n, base, step)
      <3> HIDE DEF n, A, base, step
      <3>1. QED
        BY <1>1, <1>2, FoldLeftExists
    <2>2. \A s \in SUBSET (1..n) : s # {} =>
             step[Max(s)][g[s \ {Max(s)}]] = AddCommit(g[s \ {Max(s)}], commits[Max(s)])
      <3> SUFFICES ASSUME NEW s \in SUBSET (1..n), s # {}
                   PROVE  step[Max(s)][g[s \ {Max(s)}]] = AddCommit(g[s \ {Max(s)}], commits[Max(s)])
        OBVIOUS
      <3>1. Max(s) \in 1..n
        BY <1>1, MaxOfIndices
      <3>2. g[s \ {Max(s)}] \in A
        OBVIOUS
      <3>3. QED
        BY <3>1, <3>2
    <2>3. g = Fold(g)
      BY <1>1, <2>1, <2>2 DEF IsFoldLeft
    <2> HIDE DEF Fold
    <2>4. QED
      BY <2>3
  <1> HIDE DEF h
  <1>5. Advances(h, n, A, base, step)
    <2>1. h[{}] = base
      BY <1>4
    <2>2. ASSUME NEW k \in 1..n, h[1..k - 1] \in A
          PROVE  h[1..k] = step[k][h[1..k - 1]]
      <3>1. 1..k \in SUBSET (1..n) /\ 1..k # {}
        BY <1>1, PrefixIndices
      <3>2. h[1..k] = AddCommit(h[(1..k) \ {Max(1..k)}], commits[Max(1..k)])
        BY <1>1, <1>4, <3>1
      <3>3. QED
        BY <1>1, <2>2, <3>2, MaxOfInterval
    <2>3. QED
      BY <2>1, <2>2 DEF Advances
  <1>6. PICK r \in [0..n -> A] : IsRounds(r, n, base, step) /\ r[n] = h[1..n]
    <2> HIDE DEF n, A, base, step
    <2>1. n \in Nat
      BY <1>1
    <2>2. HasRounds(h, n, A, base, step)
      BY <1>2, <1>5, <2>1, RoundsOf
    <2>3. QED
      BY <2>2 DEF HasRounds
  <1>7. \A k \in 1..n : r[k] = AddCommit(r[k - 1], commits[k])
    <2>1. \A k \in 1..n : k - 1 \in 0..n
      OBVIOUS
    <2>2. QED
      BY <1>6, <2>1 DEF IsRounds
  <1>8. QED
    BY <1>1, <1>3, <1>6, <1>7 DEF IsRounds

LEMMA MaxIs ==
    ASSUME NEW s \in SUBSET Nat, NEW m \in s, \A x \in s : x <= m
    PROVE  Max(s) = m
  <1>1. \A x \in s : m >= x
    OBVIOUS
  <1>2. Max(s) \in s /\ \A x \in s : Max(s) >= x
    BY <1>1 DEF Max
  <1>3. Max(s) >= m /\ Max(s) <= m /\ Max(s) \in Nat /\ m \in Nat
    BY <1>2
  <1>4. QED
    BY <1>3

\* A package ends with the highest bump of the commits that touch it.
LEMMA HighestBump ==
    ASSUME NEW commits \in Seq(Commits), NEW p \in Packages
    PROVE  PerPackage(commits)[p] =
              Max({BumpFor(commits[i]) : i \in {j \in DOMAIN commits : p \in commits[j].dirs}}
                  \cup {NoBump})
  <1> DEFINE n == Len(commits)
             Seen(k) == {BumpFor(commits[i]) : i \in {j \in 1..k : p \in commits[j].dirs}}
                        \cup {NoBump}
  <1>1. PICK r \in [0..n -> [Packages -> Bumps]] :
              /\ r[0] = [q \in Packages |-> NoBump]
              /\ \A k \in 1..n : r[k] = AddCommit(r[k - 1], commits[k])
              /\ r[n] = PerPackage(commits)
    BY PerPackageRounds
  <1>2. n \in Nat /\ DOMAIN commits = 1..n /\ \A i \in 1..n : commits[i] \in Commits
    OBVIOUS
  <1> DEFINE S == {k \in 0..n : r[k][p] \in Seen(k) /\ \A b \in Seen(k) : b <= r[k][p]}
  <1>3. 0 \in S
    <2>1. Seen(0) = {NoBump} /\ r[0][p] = NoBump
      BY <1>1
    <2>2. QED
      BY <1>2, <2>1 DEF NoBump
  <1>4. ASSUME NEW k \in 0..n - 1, k \in S  PROVE k + 1 \in S
    <2>1. k + 1 \in 1..n /\ (k + 1) - 1 = k /\ k \in 0..n
      OBVIOUS
    <2> DEFINE c == commits[k + 1]
    <2>2. BumpFor(c) \in Bumps /\ r[k][p] \in Bumps
      BY <1>2, <2>1, BumpTypes
    <2>3. Seen(k + 1) = Seen(k) \cup IF p \in c.dirs THEN {BumpFor(c)} ELSE {}
      <3>1. 1..k + 1 = (1..k) \cup {k + 1}
        BY <2>1
      <3>2. QED
        BY <3>1
    <2>4. r[k + 1][p] = IF p \in c.dirs /\ BumpFor(c) > r[k][p] THEN BumpFor(c) ELSE r[k][p]
      <3>1. r[k + 1] = AddCommit(r[k], c)
        BY <1>1, <2>1
      <3>2. QED
        BY <3>1 DEF AddCommit
    <2>5. r[k][p] \in Seen(k) /\ \A b \in Seen(k) : b <= r[k][p]
      BY <1>4
    <2>6. Seen(k) \subseteq Bumps
      BY <1>2, <2>1, BumpTypes DEF Bumps
    <2> HIDE DEF Seen, c
    <2>7. r[k + 1][p] \in Seen(k + 1) /\ \A b \in Seen(k + 1) : b <= r[k + 1][p]
      <3>1. Bumps \subseteq Nat
        BY DEF Bumps, NoBump, Patch, Minor, Major
      <3>2. r[k][p] \in Nat /\ BumpFor(c) \in Nat /\ \A b \in Seen(k) : b \in Nat
        BY <2>2, <2>6, <3>1
      <3>3. CASE p \in c.dirs /\ BumpFor(c) > r[k][p]
        <4>1. r[k + 1][p] = BumpFor(c) /\ Seen(k + 1) = Seen(k) \cup {BumpFor(c)}
          BY <2>3, <2>4, <3>3
        <4>2. \A b \in Seen(k) : b <= BumpFor(c)
          BY <2>5, <3>2, <3>3
        <4>3. QED
          BY <3>2, <4>1, <4>2
      <3>4. CASE p \in c.dirs /\ ~(BumpFor(c) > r[k][p])
        <4>1. r[k + 1][p] = r[k][p] /\ Seen(k + 1) = Seen(k) \cup {BumpFor(c)}
          BY <2>3, <2>4, <3>4
        <4>2. BumpFor(c) <= r[k][p]
          BY <3>2, <3>4
        <4>3. QED
          BY <2>5, <4>1, <4>2
      <3>5. CASE p \notin c.dirs
        <4>1. r[k + 1][p] = r[k][p] /\ Seen(k + 1) = Seen(k)
          BY <2>3, <2>4, <3>5
        <4>2. QED
          BY <2>5, <4>1
      <3>6. QED
        BY <3>3, <3>4, <3>5
    <2>8. QED
      BY <2>1, <2>7
  <1> HIDE DEF S
  <1>5. n \in S
    <2>1. n \in Nat
      BY <1>2
    <2> HIDE DEF n
    <2>2. \A k \in 0..n : k \in S
      BY <1>3, <1>4, <2>1, IntervalInduction
    <2>3. QED
      BY <2>1, <2>2
  <1>6. Seen(n) \in SUBSET Nat
    <2>1. Seen(n) \subseteq Bumps
      BY <1>2, BumpTypes DEF Bumps
    <2>2. QED
      BY <2>1 DEF Bumps, NoBump, Patch, Minor, Major
  <1>7. r[n][p] \in Seen(n) /\ \A b \in Seen(n) : b <= r[n][p]
    BY <1>5 DEF S
  <1>8. Max(Seen(n)) = r[n][p]
    <2> HIDE DEF Seen
    <2>1. QED
      BY <1>6, <1>7, MaxIs
  <1>9. QED
    BY <1>1, <1>2, <1>8

\* That highest bump, as the documents say it.
LEMMA BumpAsDocumented ==
    ASSUME NEW commits \in Seq(Commits), NEW p \in Packages,
           \A c \in ToSet(commits) : p \in c.dirs => ~(c.type = "chore" /\ c.breaking)
    PROVE  LET counted == {c \in ToSet(commits) : p \in c.dirs /\ c.type \in {"feat", "fix"}} IN
           PerPackage(commits)[p] = IF \E c \in counted : c.breaking THEN Major
                                    ELSE IF \E c \in counted : c.type = "feat" THEN Minor
                                    ELSE IF counted # {} THEN Patch ELSE NoBump
  <1> DEFINE T == {c \in ToSet(commits) : p \in c.dirs}
             S == {BumpFor(c) : c \in T} \cup {NoBump}
             counted == {c \in ToSet(commits) : p \in c.dirs /\ c.type \in {"feat", "fix"}}
             m == IF \E c \in counted : c.breaking THEN Major
                  ELSE IF \E c \in counted : c.type = "feat" THEN Minor
                  ELSE IF counted # {} THEN Patch ELSE NoBump
  <1>1. /\ T \subseteq Commits /\ counted = {c \in T : c.type \in {"feat", "fix"}}
        /\ \A c \in T : ~(c.type = "chore" /\ c.breaking)
    BY DEF ToSet
  <1>2. PerPackage(commits)[p] = Max(S)
    <2>1. S = {BumpFor(commits[i]) : i \in {j \in DOMAIN commits : p \in commits[j].dirs}}
              \cup {NoBump}
      BY DEF ToSet
    <2>2. QED
      BY <2>1, HighestBump
  <1> HIDE DEF T
  <1>3. \A c \in T : BumpFor(c) = IF c \in counted THEN IF c.breaking THEN Major
                                                       ELSE IF c.type = "feat" THEN Minor ELSE Patch
                                   ELSE NoBump
    <2> SUFFICES ASSUME NEW c \in T
                 PROVE  BumpFor(c) = IF c \in counted THEN IF c.breaking THEN Major
                                                        ELSE IF c.type = "feat" THEN Minor ELSE Patch
                                     ELSE NoBump
      OBVIOUS
    <2>1. /\ c.type \in Types /\ c.breaking \in BOOLEAN /\ ~(c.type = "chore" /\ c.breaking)
          /\ c \in counted <=> c.type \in {"feat", "fix"}
      BY <1>1 DEF Commits
    <2> HIDE DEF counted
    <2>2. QED
      BY <2>1 DEF BumpFor, Types
  <1>4. counted \subseteq T
    BY <1>1
  <1> HIDE DEF counted
  <1>5. m \in S
    BY <1>3, <1>4
  <1>6. \A x \in S : x <= m
    BY <1>3, <1>4 DEF NoBump, Patch, Minor, Major
  <1>7. S \in SUBSET Nat
    BY <1>3 DEF NoBump, Patch, Minor, Major
  <1>8. Max(S) = m
    <2> HIDE DEF S, m
    <2>1. QED
      BY <1>5, <1>6, <1>7, MaxIs
  <1>9. QED
    BY <1>2, <1>8 DEF counted
-----------------------------------------------------------------------------
(***************************************************************************)
(* result.ts.                                                              *)
(***************************************************************************)

\* What `all` has collected so far: the values, or one of the failures.
ValuesOf(results) == {results[i].value : i \in DOMAIN results}
Collected(results) == {Ok(vs) : vs \in Seq(ValuesOf(results))}
                      \cup {results[i] : i \in {j \in DOMAIN results : ~results[j].ok}}

\* The rounds of the loop of `all`.
LEMMA AllRounds ==
    ASSUME NEW results, AreResults(results)
    PROVE  \E r \in [0..Len(results) -> Collected(results)] :
              /\ r[0] = Ok(<<>>)
              /\ \A k \in 1..Len(results) : r[k] = Collect(r[k - 1], results[k])
              /\ r[Len(results)] = All(results)
  <1> DEFINE n == Len(results)
             A == Collected(results)
             base == Ok(<<>>)
             step == [i \in 1..n |-> [a \in A |-> Collect(a, results[i])]]
             Fold(g) == [s \in SUBSET (DOMAIN results) |->
                           IF s = {} THEN base
                           ELSE Collect(g[s \ {Max(s)}], results[Max(s)])]
             h == CHOOSE g : g = Fold(g)
  <1>1. /\ n \in Nat /\ DOMAIN results = 1..n
        /\ \A i \in 1..n : /\ results[i].ok \in BOOLEAN
                           /\ results[i] = IF results[i].ok THEN Ok(results[i].value)
                                           ELSE Err(results[i].error)
    BY DEF AreResults
  <1>2. base \in A /\ step \in [1..n -> [A -> A]]
    <2>1. \A i \in 1..n : \A a \in A : Collect(a, results[i]) \in A
      <3> SUFFICES ASSUME NEW i \in 1..n, NEW a \in A  PROVE Collect(a, results[i]) \in A
        OBVIOUS
      <3>1. CASE ~a.ok
        BY <3>1 DEF Collect
      <3>2. CASE a.ok /\ ~results[i].ok
        BY <1>1, <3>2 DEF Collect, Collected
      <3>3. CASE a.ok /\ results[i].ok
        <4>1. PICK vs \in Seq(ValuesOf(results)) : a = Ok(vs)
          BY <3>3 DEF Collected
        <4>2. results[i].value \in ValuesOf(results)
          BY <1>1 DEF ValuesOf
        <4>3. Append(vs, results[i].value) \in Seq(ValuesOf(results))
          BY <4>1, <4>2
        <4>4. Collect(a, results[i]) = Ok(Append(vs, results[i].value))
          BY <3>3, <4>1 DEF Collect, Ok
        <4>5. QED
          BY <4>3, <4>4 DEF Collected
      <3>4. QED
        BY <3>1, <3>2, <3>3
    <2>2. <<>> \in Seq(ValuesOf(results))
      OBVIOUS
    <2>3. base \in A
      BY <2>2 DEF Collected
    <2> HIDE DEF A
    <2>4. QED
      BY <2>1, <2>3
  <1>3. All(results) = h[DOMAIN results]
    BY DEF All, FoldLeft, MapThenFoldSet
  <1>4. h = Fold(h)
    <2>1. PICK g \in [SUBSET (1..n) -> A] : IsFoldLeft(g, n, base, step)
      <3> HIDE DEF n, A, base, step
      <3>1. QED
        BY <1>1, <1>2, FoldLeftExists
    <2>2. \A s \in SUBSET (1..n) : s # {} =>
             step[Max(s)][g[s \ {Max(s)}]] = Collect(g[s \ {Max(s)}], results[Max(s)])
      <3> SUFFICES ASSUME NEW s \in SUBSET (1..n), s # {}
                   PROVE  step[Max(s)][g[s \ {Max(s)}]] = Collect(g[s \ {Max(s)}], results[Max(s)])
        OBVIOUS
      <3>1. Max(s) \in 1..n /\ g[s \ {Max(s)}] \in A
        BY <1>1, MaxOfIndices
      <3> HIDE DEF A
      <3>2. QED
        BY <3>1
    <2>3. g = Fold(g)
      BY <1>1, <2>1, <2>2 DEF IsFoldLeft
    <2> HIDE DEF Fold
    <2>4. QED
      BY <2>3
  <1> HIDE DEF h
  <1>5. Advances(h, n, A, base, step)
    <2>1. h[{}] = base
      BY <1>4
    <2>2. ASSUME NEW k \in 1..n, h[1..k - 1] \in A
          PROVE  h[1..k] = step[k][h[1..k - 1]]
      <3>1. 1..k \in SUBSET (1..n) /\ 1..k # {}
        BY <1>1, PrefixIndices
      <3>2. h[1..k] = Collect(h[(1..k) \ {Max(1..k)}], results[Max(1..k)])
        BY <1>1, <1>4, <3>1
      <3> HIDE DEF A
      <3>3. QED
        BY <1>1, <2>2, <3>2, MaxOfInterval
    <2>3. QED
      BY <2>1, <2>2 DEF Advances
  <1>6. PICK r \in [0..n -> A] : IsRounds(r, n, base, step) /\ r[n] = h[1..n]
    <2> HIDE DEF n, A, base, step
    <2>1. n \in Nat
      BY <1>1
    <2>2. HasRounds(h, n, A, base, step)
      BY <1>2, <1>5, <2>1, RoundsOf
    <2>3. QED
      BY <2>2 DEF HasRounds
  <1>7. \A k \in 1..n : r[k] = Collect(r[k - 1], results[k])
    <2> SUFFICES ASSUME NEW k \in 1..n  PROVE r[k] = Collect(r[k - 1], results[k])
      OBVIOUS
    <2>1. r[k - 1] \in A
      BY <1>1, <1>6
    <2> HIDE DEF A
    <2>2. QED
      BY <1>6, <2>1 DEF IsRounds
  <1>8. QED
    BY <1>1, <1>3, <1>6, <1>7 DEF IsRounds

LEMMA MinOfIndices ==
    ASSUME NEW n \in Nat, NEW s \in SUBSET (1..n), s # {}
    PROVE  Min(s) \in s /\ \A x \in s : Min(s) <= x
  <1>1. s \in SUBSET Nat
    OBVIOUS
  <1>2. PICK m \in s : \A x \in s : m <= x
    BY <1>1, LeastElement
  <1>3. QED
    BY <1>2 DEF Min

\* The first of n that is bad, or the one behind them all.
FirstBad(n, bad) == IF bad = {} THEN n + 1 ELSE Min(bad)

LEMMA FirstBadIs ==
    ASSUME NEW n \in Nat, NEW bad \in SUBSET (1..n)
    PROVE  /\ FirstBad(n, bad) \in 1..n + 1
           /\ \A k \in 1..n : k < FirstBad(n, bad) => k \notin bad
           /\ FirstBad(n, bad) <= n => FirstBad(n, bad) \in bad /\ bad # {}
  <1>1. CASE bad = {}
    BY <1>1 DEF FirstBad
  <1>2. CASE bad # {}
    <2>1. Min(bad) \in bad /\ \A x \in bad : Min(bad) <= x
      BY <1>2, MinOfIndices
    <2>2. FirstBad(n, bad) = Min(bad) /\ Min(bad) \in 1..n
      BY <1>2, <2>1 DEF FirstBad
    <2>3. \A k \in 1..n : k < Min(bad) => k \notin bad
      BY <2>1, <2>2
    <2>4. QED
      BY <1>2, <2>1, <2>2, <2>3
  <1>3. QED
    BY <1>1, <1>2

\* `all` has the values of what is before the first failure, and then the failure.
LEMMA AllAnswers ==
    ASSUME NEW results, AreResults(results)
    PROVE  LET failures == {i \in DOMAIN results : ~results[i].ok} IN
           All(results) = IF failures = {} THEN Ok([i \in DOMAIN results |-> results[i].value])
                          ELSE results[Min(failures)]
  <1> DEFINE n == Len(results)
             failures == {i \in DOMAIN results : ~results[i].ok}
             m == FirstBad(n, failures)
             Values(k) == [i \in 1..k |-> results[i].value]
  <1>1. /\ n \in Nat /\ DOMAIN results = 1..n
        /\ \A i \in 1..n : results[i].ok \in BOOLEAN
    BY DEF AreResults
  <1>2. PICK r \in [0..n -> Collected(results)] :
              /\ r[0] = Ok(<<>>)
              /\ \A k \in 1..n : r[k] = Collect(r[k - 1], results[k])
              /\ r[n] = All(results)
    BY AllRounds
  <1>3. /\ m \in 1..n + 1
        /\ \A k \in 1..n : k < m => results[k].ok
        /\ m <= n => ~results[m].ok /\ failures # {}
    <2>1. failures \in SUBSET (1..n)
      BY <1>1
    <2> HIDE DEF n
    <2>2. /\ m \in 1..n + 1
          /\ \A k \in 1..n : k < m => k \notin failures
          /\ m <= n => m \in failures /\ failures # {}
      <3> HIDE DEF failures
      <3>1. QED
        BY <1>1, <2>1, FirstBadIs
    <2>3. QED
      BY <1>1, <2>2
  <1> HIDE DEF m
  <1> DEFINE S == {k \in 0..n : r[k] = IF k < m THEN Ok(Values(k)) ELSE results[m]}
  <1>4. 0 \in S
    <2>1. Values(0) = <<>>
      OBVIOUS
    <2>2. QED
      BY <1>1, <1>2, <1>3, <2>1
  <1>5. ASSUME NEW k \in 0..n - 1, k \in S  PROVE k + 1 \in S
    <2>1. k + 1 \in 1..n /\ k + 1 \in 0..n /\ (k + 1) - 1 = k /\ k \in Nat
      BY <1>1
    <2>2. r[k + 1] = Collect(r[k], results[k + 1])
      BY <1>2, <2>1
    <2>3. CASE k + 1 < m
      <3>1. r[k] = Ok(Values(k)) /\ results[k + 1].ok
        BY <1>3, <1>5, <2>1, <2>3
      <3>2. r[k + 1] = Ok(Append(Values(k), results[k + 1].value))
        BY <2>2, <3>1 DEF Collect, Ok
      <3>3. Append(Values(k), results[k + 1].value) = Values(k + 1)
        <4>1. Values(k) \in Seq(ValuesOf(results)) /\ Len(Values(k)) = k
          BY <1>1, <2>1 DEF ValuesOf
        <4>2. QED
          BY <2>1, <4>1
      <3> HIDE DEF Values
      <3>4. QED
        BY <2>1, <2>3, <3>2, <3>3
    <2>4. CASE k + 1 = m
      <3>1. r[k] = Ok(Values(k)) /\ ~results[m].ok
        BY <1>3, <1>5, <2>1, <2>4
      <3>2. QED
        BY <2>1, <2>2, <2>4, <3>1 DEF Collect, Ok
    <2>5. CASE k + 1 > m
      <3>1. r[k] = results[m] /\ ~results[m].ok
        BY <1>3, <1>5, <2>1, <2>5
      <3>2. r[k + 1] = results[m]
        BY <2>2, <3>1 DEF Collect
      <3> HIDE DEF Values
      <3>3. QED
        BY <1>3, <2>1, <2>5, <3>2
    <2>6. QED
      BY <1>3, <2>1, <2>3, <2>4, <2>5
  <1>6. n \in S
    <2> HIDE DEF S, n
    <2>1. \A k \in 0..n : k \in S
      BY <1>1, <1>4, <1>5, IntervalInduction
    <2>2. QED
      BY <1>1, <2>1
  <1>7. CASE failures = {}
    <2>1. m = n + 1
      BY <1>7 DEF m, FirstBad
    <2>2. QED
      BY <1>1, <1>2, <1>6, <1>7, <2>1
  <1>8. CASE failures # {}
    <2>1. m = Min(failures)
      BY <1>8 DEF m, FirstBad
    <2>2. m <= n
      <3>1. failures \in SUBSET (1..n)
        BY <1>1
      <3>2. Min(failures) \in failures
        <4> HIDE DEF failures, n
        <4>1. QED
          BY <1>1, <1>8, <3>1, MinOfIndices
      <3>3. QED
        BY <1>1, <2>1, <3>1, <3>2
    <2>3. All(results) = results[m]
      BY <1>1, <1>2, <1>3, <1>6, <2>2
    <2>4. QED
      BY <1>8, <2>1, <2>3
  <1>9. QED
    BY <1>7, <1>8

\* Chaining andThen is one round of the loop after the other.
LEMMA ChainedIsAll ==
    ASSUME NEW results
    PROVE  FoldLeft(LAMBDA c, r : AndThen(c, LAMBDA vs : Map(r, LAMBDA v : Append(vs, v))),
                    Ok(<<>>), results) = All(results)
  <1> DEFINE Chain(c, r) == AndThen(c, LAMBDA vs : Map(r, LAMBDA v : Append(vs, v)))
             F(g) == [s \in SUBSET (DOMAIN results) |->
                        IF s = {} THEN Ok(<<>>)
                        ELSE Collect(g[s \ {Max(s)}], results[Max(s)])]
             G(g) == [s \in SUBSET (DOMAIN results) |->
                        IF s = {} THEN Ok(<<>>)
                        ELSE Chain(g[s \ {Max(s)}], results[Max(s)])]
  <1>1. All(results) = (CHOOSE g : g = F(g))[DOMAIN results]
    BY DEF All, FoldLeft, MapThenFoldSet
  <1>2. FoldLeft(LAMBDA c, r : AndThen(c, LAMBDA vs : Map(r, LAMBDA v : Append(vs, v))),
                 Ok(<<>>), results) = (CHOOSE g : g = G(g))[DOMAIN results]
    BY DEF FoldLeft, MapThenFoldSet
  <1>3. \A c, r : Chain(c, r) = Collect(c, r)
    BY DEF AndThen, Map, Collect
  <1> HIDE DEF Chain
  <1>4. \A g : F(g) = G(g)
    BY <1>3
  <1> HIDE DEF F, G
  <1>5. (CHOOSE g : g = F(g)) = (CHOOSE g : g = G(g))
    BY <1>4
  <1>6. QED
    BY <1>1, <1>2, <1>5

\* FirstError of what `all` answers.
LEMMA AllIsFirstError ==
    ASSUME NEW results, AreResults(results), answers = <<All(results)>>
    PROVE  FirstError(results)
  <1> DEFINE failures == {i \in DOMAIN results : ~results[i].ok}
             values == [i \in DOMAIN results |-> results[i].value]
  <1>1. answer = All(results)
    BY DEF answer
  <1>2. answer = IF failures = {} THEN Ok(values) ELSE results[Min(failures)]
    BY <1>1, AllAnswers
  <1>3. answer = FoldLeft(LAMBDA c, r : AndThen(c, LAMBDA vs : Map(r, LAMBDA v : Append(vs, v))),
                          Ok(<<>>), results)
    BY <1>1, ChainedIsAll
  <1>4. failures # {} => ~results[Min(failures)].ok
    <2>1. Len(results) \in Nat /\ failures \in SUBSET (1..Len(results))
      BY DEF AreResults
    <2>2. failures # {} => Min(failures) \in failures
      <3> HIDE DEF failures
      <3>1. QED
        BY <2>1, MinOfIndices
    <2>3. QED
      BY <2>2
  <1>5. CASE failures = {}
    <2>1. answer.ok /\ answer.value = values
      BY <1>2, <1>5 DEF Ok
    <2> HIDE DEF answer, values, failures
    <2>2. /\ UnwrapOr(answer, <<>>) = values
          /\ UnwrapOrElse(Map(answer, LAMBDA vs : Len(vs)), LAMBDA e : 0) = Len(values)
          /\ Match(answer, LAMBDA vs : Len(vs), LAMBDA e : 0) = Len(values)
      BY <2>1 DEF UnwrapOr, UnwrapOrElse, Map, Match, Ok
    <2>3. QED
      BY <1>2, <1>3, <1>5, <2>2 DEF FirstError, failures, values
  <1>6. CASE failures # {}
    <2>1. ~answer.ok
      BY <1>2, <1>4, <1>6
    <2> HIDE DEF answer, values, failures
    <2>2. /\ UnwrapOr(answer, <<>>) = <<>>
          /\ UnwrapOrElse(Map(answer, LAMBDA vs : Len(vs)), LAMBDA e : 0) = 0
          /\ Match(answer, LAMBDA vs : Len(vs), LAMBDA e : 0) = 0
      BY <2>1 DEF UnwrapOr, UnwrapOrElse, Map, Match
    <2>3. Len(<<>>) = 0
      OBVIOUS
    <2>4. QED
      BY <1>2, <1>3, <1>6, <2>2, <2>3 DEF FirstError, failures, values
  <1>7. QED
    BY <1>5, <1>6
-----------------------------------------------------------------------------
(***************************************************************************)
(* create-readiness-check.ts.                                              *)
(***************************************************************************)

Readiness == {Ready, Waits} \cup {NotReady(reason) : reason \in STRING \cup {"unknown"}}

\* How a ping ends the check, if it is not up.
EndsWith(ping) ==
    IF ~ping.settles THEN Waits
    ELSE IF ~ping.throws THEN Ready
    ELSE NotReady(IF ping.isError THEN ping.message ELSE "unknown")

LEMMA PingThrows ==
    ASSUME NEW ping \in Pings, ping # Up
    PROVE  /\ ping = NeverSettles \/ (ping.settles /\ ping.throws)
           /\ ~NeverSettles.settles
  <1>1. ping \in [settles : {TRUE}, throws : {TRUE}, isError : {TRUE}, message : STRING]
        => ping.settles = TRUE /\ ping.throws = TRUE
    OBVIOUS
  <1>2. ThrowsOther.settles = TRUE /\ ThrowsOther.throws = TRUE /\ NeverSettles.settles = FALSE
    BY DEF ThrowsOther, NeverSettles
  <1>3. ping = NeverSettles \/ (ping.settles = TRUE /\ ping.throws = TRUE)
    <2>1. CASE ping = ThrowsOther
      BY <1>2, <2>1
    <2>2. CASE ping \in [settles : {TRUE}, throws : {TRUE}, isError : {TRUE}, message : STRING]
      BY <1>1, <2>2
    <2>3. QED
      BY <2>1, <2>2 DEF Pings
  <1>4. QED
    BY <1>2, <1>3

LEMMA PingEnds ==
    ASSUME NEW ping \in Pings
    PROVE  EndsWith(ping) \in Readiness /\ (EndsWith(ping) = Ready <=> ping = Up)
  <1>1. CASE ping = Up
    BY <1>1 DEF Up, EndsWith, Readiness
  <1>2. CASE ping = NeverSettles
    <2>1. EndsWith(ping) = Waits /\ ping # Up
      BY <1>2 DEF NeverSettles, Up, EndsWith
    <2>2. Waits # Ready
      BY DEF Waits, Ready
    <2>3. QED
      BY <2>1, <2>2 DEF Readiness
  <1>3. CASE ping = ThrowsOther
    <2>1. EndsWith(ping) = NotReady("unknown") /\ ping # Up
      BY <1>3 DEF ThrowsOther, Up, EndsWith
    <2>2. NotReady("unknown") # Ready
      BY DEF NotReady, Ready
    <2>3. QED
      BY <2>1, <2>2 DEF Readiness
  <1>4. CASE ping \in [settles : {TRUE}, throws : {TRUE}, isError : {TRUE}, message : STRING]
    <2>1. ping.settles = TRUE /\ ping.throws = TRUE /\ ping.isError = TRUE /\ ping.message \in STRING
      BY <1>4
    <2>2. EndsWith(ping) = NotReady(ping.message)
      BY <2>1 DEF EndsWith
    <2>3. ping # Up
      BY <2>1 DEF Up
    <2>4. NotReady(ping.message) # Ready
      BY DEF NotReady, Ready
    <2>5. QED
      BY <2>1, <2>2, <2>3, <2>4 DEF Readiness
  <1>5. QED
    BY <1>1, <1>2, <1>3, <1>4 DEF Pings

\* The rounds of the loop over the checks.
LEMMA PingRounds ==
    ASSUME NEW checks \in Seq(Pings)
    PROVE  \E r \in [0..Len(checks) -> [pings : Nat, result : Readiness]] :
              /\ r[0] = [pings |-> 0, result |-> Ready]
              /\ \A k \in 1..Len(checks) : r[k] = Ping(r[k - 1], checks[k])
              /\ r[Len(checks)] = ReadinessCheck(checks)
  <1> DEFINE n == Len(checks)
             A == [pings : Nat, result : Readiness]
             base == [pings |-> 0, result |-> Ready]
             step == [i \in 1..n |-> [a \in A |-> Ping(a, checks[i])]]
             Fold(g) == [s \in SUBSET (DOMAIN checks) |->
                           IF s = {} THEN base
                           ELSE Ping(g[s \ {Max(s)}], checks[Max(s)])]
             h == CHOOSE g : g = Fold(g)
  <1>1. /\ n \in Nat /\ DOMAIN checks = 1..n
        /\ \A i \in 1..n : checks[i] \in Pings
    OBVIOUS
  <1>2. base \in A /\ step \in [1..n -> [A -> A]]
    <2>1. \A i \in 1..n : \A a \in A : Ping(a, checks[i]) \in A
      <3> SUFFICES ASSUME NEW i \in 1..n, NEW a \in A  PROVE Ping(a, checks[i]) \in A
        OBVIOUS
      <3>1. EndsWith(checks[i]) \in Readiness
        BY <1>1, PingEnds
      <3>2. Ping(a, checks[i]) = IF a.result # Ready THEN a
                                ELSE [pings |-> a.pings + 1, result |-> EndsWith(checks[i])]
        BY DEF Ping, EndsWith
      <3>3. QED
        BY <3>1, <3>2
    <2>2. base \in A
      BY DEF Readiness
    <2> HIDE DEF A
    <2>3. QED
      BY <2>1, <2>2
  <1>3. ReadinessCheck(checks) = h[DOMAIN checks]
    BY DEF ReadinessCheck, FoldLeft, MapThenFoldSet
  <1>4. h = Fold(h)
    <2>1. PICK g \in [SUBSET (1..n) -> A] : IsFoldLeft(g, n, base, step)
      <3> HIDE DEF n, A, base, step
      <3>1. QED
        BY <1>1, <1>2, FoldLeftExists
    <2>2. \A s \in SUBSET (1..n) : s # {} =>
             step[Max(s)][g[s \ {Max(s)}]] = Ping(g[s \ {Max(s)}], checks[Max(s)])
      <3> SUFFICES ASSUME NEW s \in SUBSET (1..n), s # {}
                   PROVE  step[Max(s)][g[s \ {Max(s)}]] = Ping(g[s \ {Max(s)}], checks[Max(s)])
        OBVIOUS
      <3>1. Max(s) \in 1..n /\ g[s \ {Max(s)}] \in A
        BY <1>1, MaxOfIndices
      <3> HIDE DEF A
      <3>2. QED
        BY <3>1
    <2>3. g = Fold(g)
      BY <1>1, <2>1, <2>2 DEF IsFoldLeft
    <2> HIDE DEF Fold
    <2>4. QED
      BY <2>3
  <1> HIDE DEF h
  <1>5. Advances(h, n, A, base, step)
    <2>1. h[{}] = base
      BY <1>4
    <2>2. ASSUME NEW k \in 1..n, h[1..k - 1] \in A
          PROVE  h[1..k] = step[k][h[1..k - 1]]
      <3>1. 1..k \in SUBSET (1..n) /\ 1..k # {}
        BY <1>1, PrefixIndices
      <3>2. h[1..k] = Ping(h[(1..k) \ {Max(1..k)}], checks[Max(1..k)])
        BY <1>1, <1>4, <3>1
      <3> HIDE DEF A
      <3>3. QED
        BY <1>1, <2>2, <3>2, MaxOfInterval
    <2>3. QED
      BY <2>1, <2>2 DEF Advances
  <1>6. PICK r \in [0..n -> A] : IsRounds(r, n, base, step) /\ r[n] = h[1..n]
    <2> HIDE DEF n, A, base, step
    <2>1. n \in Nat
      BY <1>1
    <2>2. HasRounds(h, n, A, base, step)
      BY <1>2, <1>5, <2>1, RoundsOf
    <2>3. QED
      BY <2>2 DEF HasRounds
  <1>7. \A k \in 1..n : r[k] = Ping(r[k - 1], checks[k])
    <2> SUFFICES ASSUME NEW k \in 1..n  PROVE r[k] = Ping(r[k - 1], checks[k])
      OBVIOUS
    <2>1. k - 1 \in 0..n
      BY <1>1
    <2> HIDE DEF A
    <2>2. QED
      BY <1>6, <2>1 DEF IsRounds
  <1>8. QED
    BY <1>1, <1>3, <1>6, <1>7 DEF IsRounds

\* The check ends with the first ping that is not up, and has made no other behind it.
LEMMA ReadinessAnswers ==
    ASSUME NEW checks \in Seq(Pings)
    PROVE  LET failures == {i \in DOMAIN checks : checks[i] # Up} IN
           ReadinessCheck(checks) =
              IF failures = {} THEN [pings |-> Len(checks), result |-> Ready]
              ELSE [pings |-> Min(failures), result |-> EndsWith(checks[Min(failures)])]
  <1> DEFINE n == Len(checks)
             failures == {i \in DOMAIN checks : checks[i] # Up}
             m == FirstBad(n, failures)
  <1>1. /\ n \in Nat /\ DOMAIN checks = 1..n
        /\ \A i \in 1..n : checks[i] \in Pings
    OBVIOUS
  <1>2. PICK r \in [0..n -> [pings : Nat, result : Readiness]] :
              /\ r[0] = [pings |-> 0, result |-> Ready]
              /\ \A k \in 1..n : r[k] = Ping(r[k - 1], checks[k])
              /\ r[n] = ReadinessCheck(checks)
    BY PingRounds
  <1>3. /\ m \in 1..n + 1
        /\ \A k \in 1..n : k < m => EndsWith(checks[k]) = Ready
        /\ m <= n => EndsWith(checks[m]) # Ready
    <2>1. failures \in SUBSET (1..n)
      BY <1>1
    <2> HIDE DEF n
    <2>2. /\ m \in 1..n + 1
          /\ \A k \in 1..n : k < m => k \notin failures
          /\ m <= n => m \in failures
      <3> HIDE DEF failures
      <3>1. QED
        BY <1>1, <2>1, FirstBadIs
    <2> HIDE DEF m
    <2>3. QED
      BY <1>1, <2>2, PingEnds
  <1> HIDE DEF m
  <1> DEFINE S == {k \in 0..n : r[k] = IF k < m THEN [pings |-> k, result |-> Ready]
                                       ELSE [pings |-> m, result |-> EndsWith(checks[m])]}
  <1>4. 0 \in S
    BY <1>1, <1>2, <1>3
  <1>5. ASSUME NEW k \in 0..n - 1, k \in S  PROVE k + 1 \in S
    <2>1. k + 1 \in 1..n /\ k + 1 \in 0..n /\ (k + 1) - 1 = k /\ k \in Nat
      BY <1>1
    <2>2. r[k + 1] = IF r[k].result # Ready THEN r[k]
                     ELSE [pings |-> r[k].pings + 1, result |-> EndsWith(checks[k + 1])]
      BY <1>2, <2>1 DEF Ping, EndsWith
    <2>3. CASE k + 1 <= m
      <3>1. r[k] = [pings |-> k, result |-> Ready]
        BY <1>3, <1>5, <2>1, <2>3
      <3>2. r[k + 1] = [pings |-> k + 1, result |-> EndsWith(checks[k + 1])]
        BY <2>2, <3>1
      <3>3. k + 1 < m => EndsWith(checks[k + 1]) = Ready
        BY <1>3, <2>1
      <3>4. QED
        BY <1>3, <2>1, <2>3, <3>2, <3>3
    <2>4. CASE k + 1 > m
      <3>1. r[k] = [pings |-> m, result |-> EndsWith(checks[m])] /\ EndsWith(checks[m]) # Ready
        BY <1>3, <1>5, <2>1, <2>4
      <3>2. r[k + 1] = [pings |-> m, result |-> EndsWith(checks[m])]
        BY <2>2, <3>1
      <3>3. QED
        BY <1>3, <2>1, <2>4, <3>2
    <2>5. QED
      BY <1>3, <2>1, <2>3, <2>4
  <1>6. n \in S
    <2> HIDE DEF S, n
    <2>1. \A k \in 0..n : k \in S
      BY <1>1, <1>4, <1>5, IntervalInduction
    <2>2. QED
      BY <1>1, <2>1
  <1>7. CASE failures = {}
    <2>1. m = n + 1
      BY <1>7 DEF m, FirstBad
    <2>2. QED
      BY <1>1, <1>2, <1>6, <1>7, <2>1
  <1>8. CASE failures # {}
    <2>1. m = Min(failures)
      BY <1>8 DEF m, FirstBad
    <2>2. m <= n
      <3>1. failures \in SUBSET (1..n)
        BY <1>1
      <3>2. Min(failures) \in failures
        <4> HIDE DEF failures, n
        <4>1. QED
          BY <1>1, <1>8, <3>1, MinOfIndices
      <3>3. QED
        BY <1>1, <2>1, <3>1, <3>2
    <2>3. ReadinessCheck(checks) = [pings |-> m, result |-> EndsWith(checks[m])]
      BY <1>1, <1>2, <1>3, <1>6, <2>2
    <2>4. QED
      BY <1>8, <2>1, <2>3
  <1>9. QED
    BY <1>7, <1>8

\* FirstFailure of what the check answers.
LEMMA ReadinessIsFirstFailure ==
    ASSUME NEW checks \in Seq(Pings), answers = <<ReadinessCheck(checks)>>
    PROVE  FirstFailure(checks)
  <1> DEFINE failures == {i \in DOMAIN checks : checks[i] # Up}
             m == Min(failures)
  <1>1. answer = IF failures = {} THEN [pings |-> Len(checks), result |-> Ready]
                 ELSE [pings |-> m, result |-> EndsWith(checks[m])]
    BY ReadinessAnswers DEF answer
  <1>2. CASE failures = {}
    BY <1>1, <1>2 DEF FirstFailure
  <1>3. CASE failures # {}
    <2>1. m \in DOMAIN checks /\ checks[m] \in Pings /\ checks[m] # Up
      <3>1. Len(checks) \in Nat /\ failures \in SUBSET (1..Len(checks))
        OBVIOUS
      <3>2. m \in failures
        <4> HIDE DEF failures
        <4>1. QED
          BY <1>3, <3>1, MinOfIndices
      <3>3. QED
        BY <3>2
    <2> DEFINE first == checks[m]
    <2>2. answer.pings = m /\ answer.result = EndsWith(first)
      BY <1>1, <1>3
    <2> HIDE DEF first, m, answer
    <2>3. first = NeverSettles <=> EndsWith(first) = Waits
      <3>1. NeverSettles.settles = FALSE /\ EndsWith(NeverSettles) = Waits
        BY DEF NeverSettles, EndsWith
      <3>2. \A reason : NotReady(reason) # Waits
        BY DEF NotReady, Waits
      <3>3. first # NeverSettles => first.settles /\ first.throws
        BY <2>1, PingThrows DEF first
      <3>4. QED
        BY <3>1, <3>2, <3>3 DEF EndsWith
    <2>4. first.settles => EndsWith(first).ready = FALSE
      <3>1. first.settles => first.throws
        BY <2>1, PingThrows DEF first
      <3>2. QED
        BY <3>1 DEF EndsWith, NotReady
    <2>5. \A x \in {"refused", "timeout"} :
             first = ThrowsError(x) => EndsWith(first).reason = x
      BY DEF ThrowsError, EndsWith, NotReady
    <2>6. QED
      BY <1>3, <2>2, <2>3, <2>4, <2>5 DEF FirstFailure, failures, m, first
  <1>4. QED
    BY <1>2, <1>3
-----------------------------------------------------------------------------
(***************************************************************************)
(* metrics.ts.                                                             *)
(***************************************************************************)

Technical == ToSet(TechnicalMetrics)
MetricNames == STRING \cup {DefaultMetrics} \cup Technical
Services == STRING \cup {NoService}
RegistryStates == [service : Services, names : SUBSET MetricNames, thrown : BOOLEAN]

LEMMA RegisterTypes ==
    ASSUME NEW registry \in RegistryStates, NEW name \in MetricNames
    PROVE  /\ Register(registry, name) \in RegistryStates
           /\ Register(registry, name).service = registry.service
           /\ Register(registry, name).thrown
                 <=> registry.thrown \/ name \in registry.names
           /\ Register(registry, name).names =
                 IF registry.thrown THEN registry.names ELSE registry.names \cup {name}
  <1>1. CASE registry.thrown
    BY <1>1 DEF Register, RegistryStates
  <1>2. CASE ~registry.thrown /\ name \in registry.names
    BY <1>2 DEF Register, RegistryStates
  <1>3. CASE ~registry.thrown /\ name \notin registry.names
    BY <1>3 DEF Register, RegistryStates
  <1>4. QED
    BY <1>1, <1>2, <1>3

\* The metrics are registered one after the other.
LEMMA RegisterRounds ==
    ASSUME NEW registry \in RegistryStates, NEW names \in Seq(MetricNames)
    PROVE  \E r \in [0..Len(names) -> RegistryStates] :
              /\ r[0] = registry
              /\ \A k \in 1..Len(names) : r[k] = Register(r[k - 1], names[k])
              /\ r[Len(names)] = FoldLeft(Register, registry, names)
  <1> DEFINE n == Len(names)
             A == RegistryStates
             base == registry
             step == [i \in 1..n |-> [a \in A |-> Register(a, names[i])]]
             Fold(g) == [s \in SUBSET (DOMAIN names) |->
                           IF s = {} THEN base
                           ELSE Register(g[s \ {Max(s)}], names[Max(s)])]
             h == CHOOSE g : g = Fold(g)
  <1>1. /\ n \in Nat /\ DOMAIN names = 1..n
        /\ \A i \in 1..n : names[i] \in MetricNames
    OBVIOUS
  <1>2. base \in A /\ step \in [1..n -> [A -> A]]
    BY <1>1, RegisterTypes
  <1>3. FoldLeft(Register, registry, names) = h[DOMAIN names]
    BY DEF FoldLeft, MapThenFoldSet
  <1>4. h = Fold(h)
    <2>1. PICK g \in [SUBSET (1..n) -> A] : IsFoldLeft(g, n, base, step)
      <3> HIDE DEF n, A, base, step
      <3>1. QED
        BY <1>1, <1>2, FoldLeftExists
    <2>2. \A s \in SUBSET (1..n) : s # {} =>
             step[Max(s)][g[s \ {Max(s)}]] = Register(g[s \ {Max(s)}], names[Max(s)])
      <3> SUFFICES ASSUME NEW s \in SUBSET (1..n), s # {}
                   PROVE  step[Max(s)][g[s \ {Max(s)}]] = Register(g[s \ {Max(s)}], names[Max(s)])
        OBVIOUS
      <3>1. Max(s) \in 1..n /\ g[s \ {Max(s)}] \in A
        BY <1>1, MaxOfIndices
      <3> HIDE DEF A
      <3>2. QED
        BY <3>1
    <2>3. g = Fold(g)
      BY <1>1, <2>1, <2>2 DEF IsFoldLeft
    <2> HIDE DEF Fold
    <2>4. QED
      BY <2>3
  <1> HIDE DEF h
  <1>5. Advances(h, n, A, base, step)
    <2>1. h[{}] = base
      BY <1>4
    <2>2. ASSUME NEW k \in 1..n, h[1..k - 1] \in A
          PROVE  h[1..k] = step[k][h[1..k - 1]]
      <3>1. 1..k \in SUBSET (1..n) /\ 1..k # {}
        BY <1>1, PrefixIndices
      <3>2. h[1..k] = Register(h[(1..k) \ {Max(1..k)}], names[Max(1..k)])
        BY <1>1, <1>4, <3>1
      <3> HIDE DEF A
      <3>3. QED
        BY <1>1, <2>2, <3>2, MaxOfInterval
    <2>3. QED
      BY <2>1, <2>2 DEF Advances
  <1>6. PICK r \in [0..n -> A] : IsRounds(r, n, base, step) /\ r[n] = h[1..n]
    <2> HIDE DEF n, A, base, step
    <2>1. n \in Nat
      BY <1>1
    <2>2. HasRounds(h, n, A, base, step)
      BY <1>2, <1>5, <2>1, RoundsOf
    <2>3. QED
      BY <2>2 DEF HasRounds
  <1>7. \A k \in 1..n : r[k] = Register(r[k - 1], names[k])
    <2> SUFFICES ASSUME NEW k \in 1..n  PROVE r[k] = Register(r[k - 1], names[k])
      OBVIOUS
    <2>1. k - 1 \in 0..n
      BY <1>1
    <2> HIDE DEF A
    <2>2. QED
      BY <1>6, <2>1 DEF IsRounds
  <1>8. QED
    BY <1>1, <1>3, <1>6, <1>7 DEF IsRounds

\* The names from the first on are registered until one of them is there already.
LEMMA RegisterMany ==
    ASSUME NEW registry \in RegistryStates, ~registry.thrown, NEW names \in Seq(MetricNames)
    PROVE  LET after == FoldLeft(Register, registry, names)
               First(k) == {names[i] : i \in 1..k}
           IN /\ after \in RegistryStates /\ after.service = registry.service
              /\ IF after.thrown
                 THEN \E j \in 1..Len(names) :
                         /\ names[j] \in registry.names \cup First(j - 1)
                         /\ after.names = registry.names \cup First(j - 1)
                         /\ First(j - 1) \cap registry.names = {}
                 ELSE /\ after.names = registry.names \cup First(Len(names))
                      /\ First(Len(names)) \cap registry.names = {}
  <1> DEFINE n == Len(names)
             First(k) == {names[i] : i \in 1..k}
             Stopped(a, j) == /\ names[j] \in registry.names \cup First(j - 1)
                              /\ a.names = registry.names \cup First(j - 1)
                              /\ First(j - 1) \cap registry.names = {}
             Whole(a, k) == /\ a.names = registry.names \cup First(k)
                            /\ First(k) \cap registry.names = {}
             Good(a, k) == /\ a.service = registry.service
                           /\ a.thrown => \E j \in 1..k : Stopped(a, j)
                           /\ ~a.thrown => Whole(a, k)
  <1>1. n \in Nat /\ DOMAIN names = 1..n /\ \A i \in 1..n : names[i] \in MetricNames
    OBVIOUS
  <1>2. PICK r \in [0..n -> RegistryStates] :
              /\ r[0] = registry
              /\ \A k \in 1..n : r[k] = Register(r[k - 1], names[k])
              /\ r[n] = FoldLeft(Register, registry, names)
    BY RegisterRounds
  <1> DEFINE S == {k \in 0..n : Good(r[k], k)}
  <1>3. 0 \in S
    <2>1. First(0) = {}
      OBVIOUS
    <2>2. QED
      BY <1>1, <1>2, <2>1
  <1>4. ASSUME NEW k \in 0..n - 1, k \in S  PROVE k + 1 \in S
    <2>1. k + 1 \in 1..n /\ k + 1 \in 0..n /\ (k + 1) - 1 = k /\ k \in 0..n
      BY <1>1
    <2>2. r[k] \in RegistryStates /\ names[k + 1] \in MetricNames
      BY <1>1, <1>2, <2>1
    <2>3. r[k + 1] = Register(r[k], names[k + 1])
      BY <1>2, <2>1
    <2>4. First(k + 1) = First(k) \cup {names[k + 1]}
      <3>1. 1..k + 1 = (1..k) \cup {k + 1}
        BY <2>1
      <3>2. QED
        BY <3>1
    <2>5. Good(r[k], k)
      BY <1>4
    <2> HIDE DEF First
    <2>6. CASE r[k].thrown
      <3>1. r[k + 1] = r[k]
        BY <2>3, <2>6 DEF Register
      <3>2. PICK j \in 1..k : Stopped(r[k], j)
        BY <2>5, <2>6
      <3>3. j \in 1..k + 1
        BY <2>1
      <3> HIDE DEF Stopped, Whole
      <3>4. Good(r[k + 1], k + 1)
        BY <2>5, <2>6, <3>1, <3>2, <3>3
      <3>5. QED
        BY <2>1, <3>4
    <2>7. CASE ~r[k].thrown /\ names[k + 1] \in r[k].names
      <3>1. /\ r[k + 1].thrown /\ r[k + 1].service = r[k].service
            /\ r[k + 1].names = r[k].names
        <4> DEFINE a == r[k]
                   x == names[k + 1]
        <4>1. /\ a \in RegistryStates /\ x \in MetricNames /\ r[k + 1] = Register(a, x)
              /\ ~a.thrown /\ x \in a.names
          BY <2>2, <2>3, <2>7
        <4> HIDE DEF a, x
        <4>2. /\ r[k + 1].thrown /\ r[k + 1].service = a.service
              /\ r[k + 1].names = a.names \cup {x}
          BY <4>1, RegisterTypes
        <4>3. a.names \cup {x} = a.names
          BY <4>1
        <4>4. QED
          BY <4>2, <4>3 DEF a
      <3>2. Whole(r[k], k)
        BY <2>5, <2>7
      <3>3. Stopped(r[k + 1], k + 1)
        BY <2>1, <2>7, <3>1, <3>2
      <3>4. k + 1 \in 1..k + 1 /\ r[k].service = registry.service
        BY <2>1, <2>5
      <3> HIDE DEF Stopped, Whole
      <3>5. Good(r[k + 1], k + 1)
        BY <3>1, <3>3, <3>4
      <3>6. QED
        BY <2>1, <3>5
    <2>8. CASE ~r[k].thrown /\ names[k + 1] \notin r[k].names
      <3>1. /\ ~r[k + 1].thrown /\ r[k + 1].service = r[k].service
            /\ r[k + 1].names = r[k].names \cup {names[k + 1]}
        BY <2>2, <2>3, <2>8, RegisterTypes
      <3>2. Whole(r[k], k) /\ r[k].service = registry.service
        BY <2>5, <2>8
      <3>3. Whole(r[k + 1], k + 1)
        BY <2>4, <2>8, <3>1, <3>2
      <3> HIDE DEF Stopped, Whole
      <3>4. Good(r[k + 1], k + 1)
        BY <3>1, <3>2, <3>3
      <3>5. QED
        BY <2>1, <3>4
    <2>9. QED
      BY <2>6, <2>7, <2>8
  <1>5. Good(r[n], n)
    <2>1. n \in 0..n
      BY <1>1
    <2>2. n \in S
      <3> HIDE DEF S, n
      <3>1. \A k \in 0..n : k \in S
        BY <1>1, <1>3, <1>4, IntervalInduction
      <3>2. QED
        BY <2>1, <3>1
    <2>3. QED
      BY <2>2
  <1>6. r[n] \in RegistryStates
    BY <1>1, <1>2
  <1>7. QED
    BY <1>2, <1>5, <1>6

LEMMA ConcatIs ==
    ASSUME NEW A, NEW s \in Seq(A), NEW t \in Seq(A)
    PROVE  /\ s \o t \in Seq(A) /\ Len(s \o t) = Len(s) + Len(t)
           /\ \A i \in 1..Len(s) : (s \o t)[i] = s[i]
           /\ \A i \in 1..Len(t) : (s \o t)[Len(s) + i] = t[i]
  OBVIOUS

LEMMA NamesAre ==
    ASSUME NEW collectDefaults \in BOOLEAN
    PROVE  LET names == Names(collectDefaults)
               First(k) == {names[i] : i \in 1..k}
           IN /\ names \in Seq(MetricNames) /\ Len(names) = IF collectDefaults THEN 5 ELSE 4
              /\ First(Len(names)) = Technical \cup IF collectDefaults THEN {DefaultMetrics} ELSE {}
              /\ DefaultMetrics \notin Technical
              /\ \A j \in 1..Len(names) :
                    /\ names[j] \notin First(j - 1)
                    /\ names[j] \in Technical \/ First(j - 1) = {}
  <1> DEFINE t == TechnicalMetrics
  <1>1. /\ t \in Seq(MetricNames) /\ Len(t) = 4
        /\ Technical = {t[1], t[2], t[3], t[4]}
    BY DEF Technical, MetricNames, TechnicalMetrics, ToSet
  <1>2. /\ t[1] # t[2] /\ t[1] # t[3] /\ t[1] # t[4] /\ t[2] # t[3] /\ t[2] # t[4] /\ t[3] # t[4]
        /\ DefaultMetrics \notin {t[1], t[2], t[3], t[4]} /\ DefaultMetrics \in MetricNames
    BY DEF TechnicalMetrics, DefaultMetrics, MetricNames
  <1> HIDE DEF t
  <1> DEFINE names == Names(collectDefaults)
             First(k) == {names[i] : i \in 1..k}
  <1>3. /\ First(0) = {}
        /\ \A k \in 0..4 : First(k + 1) = First(k) \cup {names[k + 1]}
    <2>1. \A k \in 0..4 : 1..k + 1 = (1..k) \cup {k + 1}
      OBVIOUS
    <2>2. 1..0 = {}
      OBVIOUS
    <2> HIDE DEF names
    <2>3. \A k \in 0..4 : First(k + 1) = First(k) \cup {names[k + 1]}
      BY <2>1
    <2>4. First(0) = {}
      BY <2>2
    <2>5. QED
      BY <2>3, <2>4
  <1>4. CASE collectDefaults
    <2>1. /\ names \in Seq(MetricNames) /\ Len(names) = 5
          /\ names[1] = DefaultMetrics /\ names[2] = t[1] /\ names[3] = t[2]
          /\ names[4] = t[3] /\ names[5] = t[4]
      <3>1. names = <<DefaultMetrics>> \o t
        BY <1>4 DEF Names, t
      <3>2. <<DefaultMetrics>> \in Seq(MetricNames)
        BY <1>2
      <3> DEFINE d == <<DefaultMetrics>>
      <3>3. Len(d) = 1 /\ d[1] = DefaultMetrics
        OBVIOUS
      <3> HIDE DEF names, d
      <3>4. d \in Seq(MetricNames) /\ names = d \o t
        BY <3>1, <3>2 DEF d
      <3>5. /\ names \in Seq(MetricNames) /\ Len(names) = Len(d) + Len(t)
            /\ \A i \in 1..Len(d) : names[i] = d[i]
            /\ \A i \in 1..Len(t) : names[Len(d) + i] = t[i]
        <4>1. t \in Seq(MetricNames)
          BY <1>1
        <4>2. /\ d \o t \in Seq(MetricNames) /\ Len(d \o t) = Len(d) + Len(t)
              /\ \A i \in 1..Len(d) : (d \o t)[i] = d[i]
              /\ \A i \in 1..Len(t) : (d \o t)[Len(d) + i] = t[i]
          BY <3>4, <4>1, ConcatIs
        <4>3. QED
          BY <3>4, <4>2, Zenon
      <3>6. /\ Len(names) = 5 /\ names[1] = d[1]
            /\ \A i \in 1..4 : names[1 + i] = t[i]
        BY <1>1, <3>3, <3>5
      <3>7. names[1 + 1] = t[1] /\ names[1 + 2] = t[2] /\ names[1 + 3] = t[3] /\ names[1 + 4] = t[4]
        BY <3>6
      <3>8. names[2] = t[1] /\ names[3] = t[2] /\ names[4] = t[3] /\ names[5] = t[4]
        BY <3>7
      <3>9. QED
        BY <3>3, <3>5, <3>6, <3>8
    <2> HIDE DEF names, First
    <2>2. /\ First(1) = {DefaultMetrics}
          /\ First(2) = {DefaultMetrics, t[1]}
          /\ First(3) = {DefaultMetrics, t[1], t[2]}
          /\ First(4) = {DefaultMetrics, t[1], t[2], t[3]}
          /\ First(5) = {DefaultMetrics, t[1], t[2], t[3], t[4]}
      <3>1. First(1) = First(0) \cup {names[1]}
        BY <1>3
      <3>2. First(2) = First(1) \cup {names[2]}
        BY <1>3
      <3>3. First(3) = First(2) \cup {names[3]}
        BY <1>3
      <3>4. First(4) = First(3) \cup {names[4]}
        BY <1>3
      <3>5. First(5) = First(4) \cup {names[5]}
        BY <1>3
      <3>6. QED
        BY <1>3, <2>1, <3>1, <3>2, <3>3, <3>4, <3>5
    <2>3. \A j \in 1..5 : names[j] \notin First(j - 1) /\ (names[j] \in Technical \/ First(j - 1) = {})
      <3>1. \A j \in 1..5 : j = 1 \/ j = 2 \/ j = 3 \/ j = 4 \/ j = 5
        OBVIOUS
      <3>2. \A j \in {1, 2, 3, 4, 5} :
               names[j] \notin First(j - 1) /\ (names[j] \in Technical \/ First(j - 1) = {})
        BY <1>1, <1>2, <1>3, <2>1, <2>2
      <3>3. QED
        BY <3>1, <3>2
    <2>4. First(5) = Technical \cup {DefaultMetrics} /\ DefaultMetrics \notin Technical
      BY <1>1, <1>2, <2>2
    <2>5. QED
      BY <1>4, <2>1, <2>3, <2>4 DEF First, names
  <1>5. CASE ~collectDefaults
    <2>1. /\ names \in Seq(MetricNames) /\ Len(names) = 4
          /\ names[1] = t[1] /\ names[2] = t[2] /\ names[3] = t[3] /\ names[4] = t[4]
      <3>1. names = <<>> \o t
        BY <1>5 DEF Names, t
      <3> HIDE DEF names
      <3>2. QED
        BY <1>1, <3>1
    <2> HIDE DEF names, First
    <2>2. /\ First(1) = {t[1]}
          /\ First(2) = {t[1], t[2]}
          /\ First(3) = {t[1], t[2], t[3]}
          /\ First(4) = {t[1], t[2], t[3], t[4]}
      <3>1. First(1) = First(0) \cup {names[1]}
        BY <1>3
      <3>2. First(2) = First(1) \cup {names[2]}
        BY <1>3
      <3>3. First(3) = First(2) \cup {names[3]}
        BY <1>3
      <3>4. First(4) = First(3) \cup {names[4]}
        BY <1>3
      <3>5. QED
        BY <1>3, <2>1, <3>1, <3>2, <3>3, <3>4
    <2>3. \A j \in 1..4 : names[j] \notin First(j - 1) /\ (names[j] \in Technical \/ First(j - 1) = {})
      <3>1. \A j \in 1..4 : j = 1 \/ j = 2 \/ j = 3 \/ j = 4
        OBVIOUS
      <3>2. \A j \in {1, 2, 3, 4} :
               names[j] \notin First(j - 1) /\ (names[j] \in Technical \/ First(j - 1) = {})
        BY <1>1, <1>2, <1>3, <2>1, <2>2
      <3>3. QED
        BY <3>1, <3>2
    <2>4. First(4) = Technical /\ DefaultMetrics \notin Technical
      BY <1>1, <1>2, <2>2
    <2>5. QED
      BY <1>5, <2>1, <2>3, <2>4 DEF First, names
  <1>6. QED
    BY <1>4, <1>5

\* What one call leaves on the registry: the metrics before the first name taken.
LEMMA CreateMetricsStops ==
    ASSUME NEW before \in RegistryStates, NEW service \in Services, NEW collectDefaults \in BOOLEAN
    PROVE  LET names == Names(collectDefaults)
               taken == {j \in DOMAIN names : names[j] \in before.names}
               added == {names[j] : j \in {k \in DOMAIN names : \A t \in taken : k < t}}
           IN /\ CreateMetrics(before, service, collectDefaults)
                    = [service |-> service, names |-> before.names \cup added, thrown |-> taken # {}]
              /\ CreateMetrics(before, service, collectDefaults) \in RegistryStates
  <1> DEFINE labelled == [before EXCEPT !.service = service, !.thrown = FALSE]
             names == Names(collectDefaults)
             n == Len(names)
             First(k) == {names[i] : i \in 1..k}
             after == FoldLeft(Register, labelled, names)
             had == before.names
             taken == {j \in DOMAIN names : names[j] \in had}
             added == {names[j] : j \in {k \in DOMAIN names : \A t \in taken : k < t}}
  <1>1. /\ labelled \in RegistryStates /\ ~labelled.thrown
        /\ labelled.service = service /\ labelled.names = had
    BY DEF RegistryStates
  <1>2. /\ names \in Seq(MetricNames) /\ n \in Nat /\ DOMAIN names = 1..n
        /\ \A j \in 1..n : names[j] \notin First(j - 1)
    <2>1. LET ns == Names(collectDefaults)
              F(k) == {ns[i] : i \in 1..k}
          IN /\ ns \in Seq(MetricNames)
             /\ \A j \in 1..Len(ns) : ns[j] \notin F(j - 1)
      BY NamesAre
    <2>2. n \in Nat
      BY <2>1
    <2> HIDE DEF names, n
    <2>3. QED
      BY <2>1, <2>2 DEF n, names
  <1> HIDE DEF labelled, names, n
  <1>3. /\ after \in RegistryStates /\ after.service = service
        /\ IF after.thrown
           THEN \E j \in 1..n : /\ names[j] \in had \cup First(j - 1)
                                /\ after.names = had \cup First(j - 1)
                                /\ First(j - 1) \cap had = {}
           ELSE /\ after.names = had \cup First(n)
                /\ First(n) \cap had = {}
    <2>1. LET a == FoldLeft(Register, labelled, names)
              F(k) == {names[i] : i \in 1..k}
          IN /\ a \in RegistryStates /\ a.service = labelled.service
             /\ IF a.thrown
                THEN \E j \in 1..Len(names) :
                        /\ names[j] \in labelled.names \cup F(j - 1)
                        /\ a.names = labelled.names \cup F(j - 1)
                        /\ F(j - 1) \cap labelled.names = {}
                ELSE /\ a.names = labelled.names \cup F(Len(names))
                     /\ F(Len(names)) \cap labelled.names = {}
      BY <1>1, <1>2, RegisterMany
    <2>2. QED
      BY <1>1, <2>1 DEF n
  <1>4. CreateMetrics(before, service, collectDefaults) = after
    BY DEF CreateMetrics, labelled, names
  <1> HIDE DEF after, had
  <1>5. ASSUME after.thrown  PROVE taken # {} /\ after.names = had \cup added
    <2>1. PICK j \in 1..n : /\ names[j] \in had \cup First(j - 1)
                            /\ after.names = had \cup First(j - 1)
                            /\ First(j - 1) \cap had = {}
      BY <1>3, <1>5
    <2>2. j \in Nat /\ names[j] \in had /\ \A k \in 1..n : k < j => names[k] \notin had
      <3>1. names[j] \notin First(j - 1)
        BY <1>2
      <3>2. \A k \in 1..n : k < j => k \in 1..j - 1
        BY <1>2
      <3>3. \A k \in 1..n : k < j => names[k] \in First(j - 1)
        BY <3>2
      <3> HIDE DEF First
      <3>4. QED
        BY <1>2, <2>1, <3>1, <3>3
    <2>3. j \in taken /\ \A t \in taken : t \in Int /\ j <= t
      BY <1>2, <2>2
    <2>4. {k \in DOMAIN names : \A t \in taken : k < t} = 1..j - 1
      <3> HIDE DEF taken
      <3>1. QED
        BY <1>2, <2>2, <2>3
    <2>5. added = First(j - 1) /\ taken # {}
      BY <2>3, <2>4
    <2> HIDE DEF added, taken, First
    <2>6. QED
      BY <1>5, <2>1, <2>5
  <1>6. ASSUME ~after.thrown  PROVE taken = {} /\ after.names = had \cup added
    <2>1. after.names = had \cup First(n) /\ First(n) \cap had = {}
      BY <1>3, <1>6
    <2>2. taken = {}
      BY <1>2, <2>1
    <2>3. added = First(n)
      BY <1>2, <2>2
    <2> HIDE DEF added, taken, First
    <2>4. QED
      BY <1>6, <2>1, <2>2, <2>3
  <1>7. after = [service |-> service, names |-> had \cup added, thrown |-> taken # {}]
    <2>1. /\ after.names = had \cup added /\ after.thrown \in BOOLEAN
          /\ after.thrown <=> taken # {}
      <3>1. after.thrown \in BOOLEAN
        BY <1>3 DEF RegistryStates
      <3> HIDE DEF added, taken
      <3>2. QED
        BY <1>5, <1>6, <3>1
    <2>2. after = [service |-> after.service, names |-> after.names, thrown |-> after.thrown]
      BY <1>3 DEF RegistryStates
    <2> HIDE DEF added, taken
    <2>3. after.thrown = (taken # {})
      BY <2>1
    <2>4. QED
      BY <1>3, <2>1, <2>2, <2>3
  <1>8. QED
    BY <1>3, <1>4, <1>7 DEF had, names

LEMMA CallTypes ==
    ASSUME NEW registry \in RegistryStates, NEW call \in MetricCalls
    PROVE  Call(registry, call) \in RegistryStates
  <1>1. CASE call \in [function : {"createMetrics"}, service : STRING, collectDefaults : BOOLEAN]
    <2>1. /\ call.function = "createMetrics" /\ call.service \in Services
          /\ call.collectDefaults \in BOOLEAN
      BY <1>1 DEF Services
    <2>2. QED
      BY <2>1, CreateMetricsStops DEF Call
  <1>2. CASE call \in [function : {"register"}, name : STRING]
    <2>1. call.function = "register" /\ call.name \in MetricNames
      BY <1>2 DEF MetricNames
    <2>2. [registry EXCEPT !.thrown = FALSE] \in RegistryStates
      BY DEF RegistryStates
    <2>3. QED
      BY <2>1, <2>2, RegisterTypes DEF Call
  <1>3. QED
    BY <1>1, <1>2 DEF MetricCalls

\* Each call has the registry that the calls before it leave.
LEMMA RegistriesRounds ==
    ASSUME NEW calls \in Seq(MetricCalls)
    PROVE  \E r \in [0..Len(calls) -> Seq(RegistryStates) \ {<<>>}] :
              /\ r[0] = <<NewRegistry>>
              /\ \A k \in 1..Len(calls) : r[k] = Append(r[k - 1], Call(Last(r[k - 1]), calls[k]))
              /\ r[Len(calls)] = Registries(calls)
  <1> DEFINE n == Len(calls)
             A == Seq(RegistryStates) \ {<<>>}
             base == <<NewRegistry>>
             step == [i \in 1..n |-> [a \in A |-> Append(a, Call(Last(a), calls[i]))]]
             Fold(g) == [s \in SUBSET (DOMAIN calls) |->
                           IF s = {} THEN base
                           ELSE Append(g[s \ {Max(s)}], Call(Last(g[s \ {Max(s)}]), calls[Max(s)]))]
             h == CHOOSE g : g = Fold(g)
  <1>1. /\ n \in Nat /\ DOMAIN calls = 1..n
        /\ \A i \in 1..n : calls[i] \in MetricCalls
    OBVIOUS
  <1>2. base \in A /\ step \in [1..n -> [A -> A]]
    <2>1. \A i \in 1..n : \A a \in A : Append(a, Call(Last(a), calls[i])) \in A
      <3> SUFFICES ASSUME NEW i \in 1..n, NEW a \in A
                   PROVE  Append(a, Call(Last(a), calls[i])) \in A
        OBVIOUS
      <3>1. Last(a) \in RegistryStates
        BY DEF Last
      <3>2. Call(Last(a), calls[i]) \in RegistryStates
        BY <1>1, <3>1, CallTypes
      <3>3. QED
        BY <3>2
    <2>2. base \in A
      <3>1. NewRegistry \in RegistryStates
        BY DEF NewRegistry, RegistryStates, Services
      <3>2. QED
        BY <3>1
    <2> HIDE DEF A
    <2>3. QED
      BY <2>1, <2>2
  <1>3. Registries(calls) = h[DOMAIN calls]
    BY DEF Registries, FoldLeft, MapThenFoldSet
  <1>4. h = Fold(h)
    <2>1. PICK g \in [SUBSET (1..n) -> A] : IsFoldLeft(g, n, base, step)
      <3> HIDE DEF n, A, base, step
      <3>1. QED
        BY <1>1, <1>2, FoldLeftExists
    <2>2. \A s \in SUBSET (1..n) : s # {} =>
             step[Max(s)][g[s \ {Max(s)}]] = Append(g[s \ {Max(s)}], Call(Last(g[s \ {Max(s)}]), calls[Max(s)]))
      <3> SUFFICES ASSUME NEW s \in SUBSET (1..n), s # {}
                   PROVE  step[Max(s)][g[s \ {Max(s)}]] = Append(g[s \ {Max(s)}], Call(Last(g[s \ {Max(s)}]), calls[Max(s)]))
        OBVIOUS
      <3>1. Max(s) \in 1..n /\ g[s \ {Max(s)}] \in A
        BY <1>1, MaxOfIndices
      <3> HIDE DEF A
      <3>2. QED
        BY <3>1
    <2>3. g = Fold(g)
      BY <1>1, <2>1, <2>2 DEF IsFoldLeft
    <2> HIDE DEF Fold
    <2>4. QED
      BY <2>3
  <1> HIDE DEF h
  <1>5. Advances(h, n, A, base, step)
    <2>1. h[{}] = base
      BY <1>4
    <2>2. ASSUME NEW k \in 1..n, h[1..k - 1] \in A
          PROVE  h[1..k] = step[k][h[1..k - 1]]
      <3>1. 1..k \in SUBSET (1..n) /\ 1..k # {}
        BY <1>1, PrefixIndices
      <3>2. h[1..k] = Append(h[(1..k) \ {Max(1..k)}], Call(Last(h[(1..k) \ {Max(1..k)}]), calls[Max(1..k)]))
        BY <1>1, <1>4, <3>1
      <3> HIDE DEF A
      <3>3. QED
        BY <1>1, <2>2, <3>2, MaxOfInterval
    <2>3. QED
      BY <2>1, <2>2 DEF Advances
  <1>6. PICK r \in [0..n -> A] : IsRounds(r, n, base, step) /\ r[n] = h[1..n]
    <2> HIDE DEF n, A, base, step
    <2>1. n \in Nat
      BY <1>1
    <2>2. HasRounds(h, n, A, base, step)
      BY <1>2, <1>5, <2>1, RoundsOf
    <2>3. QED
      BY <2>2 DEF HasRounds
  <1>7. \A k \in 1..n : r[k] = Append(r[k - 1], Call(Last(r[k - 1]), calls[k]))
    <2> SUFFICES ASSUME NEW k \in 1..n  PROVE r[k] = Append(r[k - 1], Call(Last(r[k - 1]), calls[k]))
      OBVIOUS
    <2>1. k - 1 \in 0..n
      BY <1>1
    <2> HIDE DEF A
    <2>2. QED
      BY <1>6, <2>1 DEF IsRounds
  <1>8. QED
    BY <1>1, <1>3, <1>6, <1>7 DEF IsRounds

LEMMA RegistriesFollow ==
    ASSUME NEW calls \in Seq(MetricCalls)
    PROVE  LET states == Registries(calls) IN
           /\ states \in Seq(RegistryStates) /\ Len(states) = Len(calls) + 1
           /\ \A i \in 1..Len(calls) : states[i + 1] = Call(states[i], calls[i])
  <1> DEFINE n == Len(calls)
             A == Seq(RegistryStates) \ {<<>>}
             Follow(s, k) == Len(s) = k + 1 /\ \A i \in 1..k : s[i + 1] = Call(s[i], calls[i])
  <1>1. n \in Nat
    OBVIOUS
  <1>2. PICK r \in [0..n -> A] :
              /\ r[0] = <<NewRegistry>>
              /\ \A k \in 1..n : r[k] = Append(r[k - 1], Call(Last(r[k - 1]), calls[k]))
              /\ r[n] = Registries(calls)
    BY RegistriesRounds
  <1> DEFINE S == {k \in 0..n : Follow(r[k], k)}
  <1>3. 0 \in S
    <2>1. Len(<<NewRegistry>>) = 0 + 1 /\ 0 \in 0..n
      BY <1>1
    <2>2. \A s : Follow(s, 0) <=> Len(s) = 0 + 1
      OBVIOUS
    <2> HIDE DEF Follow
    <2>3. QED
      BY <1>2, <2>1, <2>2
  <1>4. ASSUME NEW k \in 0..n - 1, k \in S  PROVE k + 1 \in S
    <2>1. k + 1 \in 1..n /\ k + 1 \in 0..n /\ (k + 1) - 1 = k /\ k \in 0..n
      BY <1>1
    <2> DEFINE s == r[k]
               t == r[k + 1]
    <2>2. s \in Seq(RegistryStates) /\ Follow(s, k)
      BY <1>2, <1>4, <2>1
    <2>3. t = Append(s, Call(Last(s), calls[k + 1]))
      BY <1>2, <2>1
    <2> HIDE DEF s, t
    <2>4. Last(s) = s[k + 1]
      BY <2>2 DEF Last
    <2>5. /\ Len(t) = (k + 1) + 1 /\ t[(k + 1) + 1] = Call(s[k + 1], calls[k + 1])
          /\ \A i \in 1..k + 1 : t[i] = s[i]
      BY <2>1, <2>2, <2>3, <2>4
    <2>6. \A i \in 1..k + 1 : t[i + 1] = Call(t[i], calls[i])
      <3> SUFFICES ASSUME NEW i \in 1..k + 1  PROVE t[i + 1] = Call(t[i], calls[i])
        OBVIOUS
      <3>1. CASE i = k + 1
        BY <2>5, <3>1
      <3>2. CASE i # k + 1
        <4>1. i \in 1..k /\ i + 1 \in 1..k + 1
          BY <2>1, <3>2
        <4>2. QED
          BY <2>2, <2>5, <4>1
      <3>3. QED
        BY <3>1, <3>2
    <2>7. QED
      BY <2>1, <2>5, <2>6 DEF t
  <1>5. n \in S
    <2> HIDE DEF S, n
    <2>1. \A k \in 0..n : k \in S
      BY <1>1, <1>3, <1>4, IntervalInduction
    <2>2. QED
      BY <1>1, <2>1
  <1>6. r[n] \in Seq(RegistryStates)
    BY <1>1, <1>2
  <1>7. QED
    BY <1>2, <1>5, <1>6
-----------------------------------------------------------------------------
(***************************************************************************)
(* errors, is-retryable.ts and retry.ts.                                   *)
(***************************************************************************)

LEMMA ClassTable ==
    ASSUME NEW class \in Classes
    PROVE  /\ Kind(class) = "infrastructure" <=>
                 class \in {"InfrastructureError", "TimeoutError", "UnavailableError",
                            "InternalServerError"}
           /\ DefaultStatus[class] \in Nat
           /\ DefaultStatus[class] < 500 => Kind(class) # "infrastructure"
           /\ class # "unknown"
  <1>1. class \in {"DomainError", "ValidationError", "ApplicationError", "NotFoundError",
                   "ConflictError", "UnauthorizedError", "ForbiddenError",
                   "InfrastructureError", "TimeoutError", "UnavailableError",
                   "InternalServerError"}
    BY DEF Classes, DefaultStatus
  <1>2. CASE class \in {"DomainError", "ValidationError"}
    BY <1>2 DEF Kind, DefaultStatus
  <1>3. CASE class \in {"ApplicationError", "NotFoundError", "ConflictError",
                        "UnauthorizedError", "ForbiddenError"}
    BY <1>3 DEF Kind, DefaultStatus
  <1>4. CASE class \in {"InfrastructureError", "TimeoutError", "UnavailableError",
                        "InternalServerError"}
    BY <1>4 DEF Kind, DefaultStatus
  <1>5. QED
    BY <1>1, <1>2, <1>3, <1>4

LEMMA UnknownIsNoClass == "unknown" \notin Classes
  BY DEF Classes, DefaultStatus

\* What an error of a class says about trying again.
LEMMA ErrorsDoAdvise ==
    ASSUME NEW a, a.class \in Classes \cup {"unknown"},
           LET thrown == IF a.class = "unknown" THEN Unknown ELSE New(a.class, a.options)
           IN answers = <<[thrown |-> thrown, retryable |-> IsRetryableError(thrown)]>>
    PROVE  ErrorsAdvise(a)
  <1> DEFINE thrown == IF a.class = "unknown" THEN Unknown ELSE New(a.class, a.options)
  <1>1. answer.thrown = thrown /\ answer.retryable = IsRetryableError(thrown)
    BY DEF answer
  <1>2. CASE a.class = "unknown"
    <2>1. IsRetryableError(thrown)
      BY <1>2, UnknownIsNoClass DEF IsRetryableError, IsBaseError, Unknown
    <2>2. QED
      BY <1>1, <1>2, <2>1 DEF ErrorsAdvise
  <1>3. CASE a.class \in Classes
    <2> DEFINE class == a.class
               o == a.options
               infrastructure == Kind(class) = "infrastructure"
    <2>1. /\ class # "unknown" /\ class \in Classes /\ thrown = New(class, o)
          /\ infrastructure <=> class \in {"InfrastructureError", "TimeoutError",
                                           "UnavailableError", "InternalServerError"}
          /\ DefaultStatus[class] < 500 => ~infrastructure
      BY <1>3, ClassTable
    <2> HIDE DEF class, o, thrown
    <2>2. /\ thrown.name = class /\ thrown.statusCode = StatusOf(class, o)
          /\ thrown.retryable = IF infrastructure THEN {Retryable(class, o)} ELSE {}
          /\ DOMAIN thrown = {"name", "kind", "statusCode", "details", "cause", "retryable"}
      BY <2>1 DEF New
    <2>3. answer.retryable <=> thrown.retryable = {TRUE}
      BY <1>1, <2>1, <2>2 DEF IsRetryableError, IsBaseError
    <2>4. answer.retryable => infrastructure
      BY <2>2, <2>3
    <2>5. o.retryable = {} =>
             (answer.retryable <=>
                 class \in {"InfrastructureError", "TimeoutError", "UnavailableError"})
      <3>1. o.retryable = {} => Retryable(class, o) = (class # "InternalServerError")
        BY DEF Retryable, Given
      <3>2. o.retryable = {} /\ infrastructure =>
               (answer.retryable <=> class # "InternalServerError")
        BY <2>2, <2>3, <3>1
      <3>3. QED
        BY <2>1, <2>4, <3>2
    <2>6. o.statusCode = {} /\ thrown.statusCode < 500 => ~answer.retryable
      <3>1. o.statusCode = {} => thrown.statusCode = DefaultStatus[class]
        BY <2>2 DEF StatusOf, Given
      <3>2. QED
        BY <2>1, <2>4, <3>1
    <2>7. LET json == ErrorToJSON(thrown)
          IN /\ answer.retryable <=> "retryable" \in DOMAIN json /\ json.retryable = {TRUE}
             /\ "cause" \notin DOMAIN json
      <3> DEFINE shown == DOMAIN thrown
                          \ ({"cause"} \cup {g \in {"details", "retryable"} : thrown[g] = {}})
      <3>1. ErrorToJSON(thrown) = [f \in shown |-> thrown[f]]
        BY DEF ErrorToJSON
      <3>2. "cause" \notin shown
        OBVIOUS
      <3>3. "retryable" \in shown <=> thrown.retryable # {}
        BY <2>2
      <3> HIDE DEF shown
      <3>4. QED
        BY <2>3, <3>1, <3>2, <3>3
    <2>8. QED
      BY <1>1, <2>1, <2>5, <2>6, <2>7 DEF ErrorsAdvise, class, o
  <1>4. QED
    BY <1>2, <1>3

LEMMA RoundsExist ==
    ASSUME NEW n \in Nat, NEW A, NEW base \in A, NEW step \in [1..n -> [A -> A]]
    PROVE  \E r \in [0..n -> A] : IsRounds(r, n, base, step)
  <1>1. PICK h \in [SUBSET (1..n) -> A] : IsFoldLeft(h, n, base, step)
    BY FoldLeftExists
  <1>2. Advances(h, n, A, base, step)
    <2>1. h[{}] = base
      BY <1>1 DEF IsFoldLeft
    <2>2. ASSUME NEW k \in 1..n  PROVE h[1..k] = step[k][h[1..k - 1]]
      <3>1. 1..k \in SUBSET (1..n) /\ 1..k # {}
        BY PrefixIndices
      <3>2. h[1..k] = step[Max(1..k)][h[(1..k) \ {Max(1..k)}]]
        BY <1>1, <3>1 DEF IsFoldLeft
      <3>3. QED
        BY <3>2, MaxOfInterval
    <2>3. QED
      BY <2>1, <2>2 DEF Advances
  <1>3. QED
    BY <1>2, RoundsOf DEF HasRounds

Capped(x) == IF x < Infinity THEN x ELSE Infinity

IsPowers(p, m, n) == p[0] = 1 /\ \A k \in 1..n : p[k] = Capped(m * p[k - 1])

LEMMA PowersExist ==
    ASSUME NEW m \in Nat, NEW n \in Nat
    PROVE  \E p \in [0..n -> Nat] : IsPowers(p, m, n) /\ Power(m, n) = p[n]
  <1> DEFINE step == [k \in 1..n |-> [x \in Nat |-> Capped(m * x)]]
             F(p) == [k \in 0..n |-> IF k = 0 THEN 1
                                     ELSE IF m * p[k - 1] < Infinity THEN m * p[k - 1] ELSE Infinity]
             q == CHOOSE p : p = F(p)
  <1>1. step \in [1..n -> [Nat -> Nat]]
    <2>1. \A x \in Nat : m * x \in Nat
      OBVIOUS
    <2>2. \A x \in Nat : Capped(m * x) \in Nat
      BY <2>1, InfinityAssumption DEF Capped
    <2>3. QED
      BY <2>2
  <1>2. PICK r \in [0..n -> Nat] : IsRounds(r, n, 1, step)
    <2> HIDE DEF step
    <2>1. QED
      BY <1>1, RoundsExist
  <1>3. IsPowers(r, m, n)
    <2>1. ASSUME NEW k \in 1..n  PROVE r[k] = Capped(m * r[k - 1])
      <3>1. k - 1 \in 0..n
        OBVIOUS
      <3>2. r[k - 1] \in Nat /\ r[k] = step[k][r[k - 1]]
        BY <1>2, <3>1 DEF IsRounds
      <3>3. QED
        BY <3>2
    <2>2. QED
      BY <1>2, <2>1 DEF IsRounds, IsPowers
  <1>4. r = F(r)
    <2>1. ASSUME NEW k \in 0..n, k # 0
          PROVE  r[k] = IF m * r[k - 1] < Infinity THEN m * r[k - 1] ELSE Infinity
      <3>1. k \in 1..n
        BY <2>1
      <3>2. QED
        BY <1>3, <3>1 DEF IsPowers, Capped
    <2>2. QED
      BY <1>3, <2>1 DEF IsPowers
  <1>5. q = F(q)
    <2> HIDE DEF F
    <2>1. QED
      BY <1>4
  <1>6. Power(m, n) = q[n]
    BY DEF Power
  <1> HIDE DEF q
  <1>7. IsPowers(q, m, n)
    <2>1. q[0] = 1
      BY <1>5
    <2>2. ASSUME NEW k \in 1..n  PROVE q[k] = Capped(m * q[k - 1])
      <3>1. k \in 0..n /\ k # 0
        OBVIOUS
      <3>2. QED
        BY <1>5, <3>1 DEF Capped
    <2>3. QED
      BY <2>1, <2>2 DEF IsPowers
  <1> DEFINE S == {k \in 0..n : q[k] = r[k]}
  <1>8. n \in S
    <2>1. 0 \in S
      BY <1>3, <1>7 DEF IsPowers
    <2>2. ASSUME NEW k \in 0..n - 1, k \in S  PROVE k + 1 \in S
      <3>1. k + 1 \in 1..n /\ (k + 1) - 1 = k /\ q[k] = r[k]
        BY <2>2
      <3>2. q[k + 1] = Capped(m * q[k]) /\ r[k + 1] = Capped(m * r[k])
        BY <1>3, <1>7, <3>1 DEF IsPowers
      <3>3. QED
        BY <3>1, <3>2
    <2> HIDE DEF S
    <2>3. \A k \in 0..n : k \in S
      BY <2>1, <2>2, IntervalInduction
    <2>4. QED
      BY <2>3
  <1>9. QED
    BY <1>2, <1>3, <1>6, <1>8

\* The powers of a number, as the recursion that defines them has them.
LEMMA PowerIs ==
    ASSUME NEW m \in Nat, NEW n \in Nat
    PROVE  /\ Power(m, n) \in Nat /\ Power(m, 0) = 1
           /\ Power(m, n + 1) = Capped(m * Power(m, n))
  <1>1. PICK p \in [0..n -> Nat] : IsPowers(p, m, n) /\ Power(m, n) = p[n]
    BY PowersExist
  <1>2. PICK q \in [0..n + 1 -> Nat] : IsPowers(q, m, n + 1) /\ Power(m, n + 1) = q[n + 1]
    <2>1. n + 1 \in Nat
      OBVIOUS
    <2>2. QED
      BY <2>1, PowersExist
  <1>3. Power(m, 0) = 1
    <2>1. PICK z \in [0..0 -> Nat] : IsPowers(z, m, 0) /\ Power(m, 0) = z[0]
      BY PowersExist
    <2>2. QED
      BY <2>1 DEF IsPowers
  <1> DEFINE S == {k \in 0..n : p[k] = q[k]}
  <1>4. n \in S
    <2>1. 0 \in S
      BY <1>1, <1>2 DEF IsPowers
    <2>2. ASSUME NEW k \in 0..n - 1, k \in S  PROVE k + 1 \in S
      <3>1. k + 1 \in 1..n /\ k + 1 \in 1..n + 1 /\ (k + 1) - 1 = k /\ q[k] = p[k]
        BY <2>2
      <3>2. q[k + 1] = Capped(m * q[k]) /\ p[k + 1] = Capped(m * p[k])
        BY <1>1, <1>2, <3>1 DEF IsPowers
      <3>3. QED
        BY <3>1, <3>2
    <2> HIDE DEF S
    <2>3. \A k \in 0..n : k \in S
      BY <2>1, <2>2, IntervalInduction
    <2>4. QED
      BY <2>3
  <1>5. n + 1 \in 1..n + 1 /\ (n + 1) - 1 = n /\ n \in 0..n
    OBVIOUS
  <1>6. q[n + 1] = Capped(m * q[n])
    BY <1>2, <1>5 DEF IsPowers
  <1>7. p[n] \in Nat /\ p[n] = q[n]
    BY <1>4, <1>5
  <1>8. QED
    BY <1>1, <1>2, <1>3, <1>6, <1>7

\* Powers never fall, but those of 0, and stay infinite.
LEMMA PowerBounds ==
    ASSUME NEW m \in Nat, NEW n \in Nat
    PROVE  /\ Power(m, n) \in 0..Infinity
           /\ m # 0 => Power(m, n) >= 1 /\ Power(m, n + 1) >= Power(m, n)
           /\ m = 0 /\ n # 0 => Power(m, n) = 0
  <1> DEFINE S == {k \in Nat : Power(m, k) \in 0..Infinity /\ (m # 0 => Power(m, k) >= 1)}
  <1>1. 0 \in S
    <2>1. Power(m, 0) = 1
      BY PowerIs
    <2>2. QED
      BY <2>1, InfinityAssumption
  <1>2. ASSUME NEW k \in Nat, k \in S  PROVE k + 1 \in S
    <2> DEFINE x == Power(m, k)
    <2>1. x \in Nat /\ Power(m, k + 1) = Capped(m * x) /\ (m # 0 => x >= 1)
      BY <1>2, PowerIs
    <2> HIDE DEF x
    <2>2. m * x \in Nat
      BY <2>1
    <2>3. m # 0 => m * x >= 1
      BY <2>1
    <2>4. QED
      BY <2>1, <2>2, <2>3, InfinityAssumption DEF Capped
  <1> HIDE DEF S
  <1>3. \A k \in Nat : k \in S
    BY <1>1, <1>2, SetInduction
  <1> DEFINE x == Power(m, n)
  <1>4. x \in 0..Infinity /\ (m # 0 => x >= 1)
    BY <1>3 DEF S
  <1>5. Power(m, n + 1) = Capped(m * x)
    BY PowerIs
  <1>6. ASSUME m = 0, n # 0  PROVE x = 0
    <2>1. n - 1 \in Nat /\ (n - 1) + 1 = n
      BY <1>6
    <2>2. Power(m, n - 1) \in Nat /\ x = Capped(m * Power(m, n - 1))
      BY <2>1, PowerIs
    <2>3. m * Power(m, n - 1) = 0
      BY <1>6, <2>2
    <2>4. QED
      BY <2>2, <2>3, InfinityAssumption DEF Capped
  <1> HIDE DEF x
  <1>7. m # 0 => Capped(m * x) >= x
    <2>1. m # 0 => m * x >= x
      BY <1>4
    <2>2. QED
      BY <1>4, <2>1, InfinityAssumption DEF Capped
  <1>8. QED
    BY <1>4, <1>5, <1>6, <1>7 DEF x

LEMMA ProductBounds ==
    ASSUME NEW p \in Nat, NEW q \in Nat
    PROVE  p * q \in Nat /\ p * q = q * p /\ (p >= 1 => p * q >= q)
  OBVIOUS

LEMMA ProductSwaps ==
    ASSUME NEW b \in Nat, NEW m \in Nat, NEW x \in Nat
    PROVE  b * (m * x) = m * (b * x)
  OBVIOUS

LeastNat(a, b) == IF a < b THEN a ELSE b

\* With a base, the wait is the smaller of the product and the cap.
LEMMA WaitIs ==
    ASSUME NEW b \in Nat, b >= 1, NEW x \in 0..Infinity, NEW max \in 0..Infinity
    PROVE  Least(Times(b, x), max) = LeastNat(b * x, max) /\ b * x \in Nat
  <1>1. b * x \in Nat /\ Infinity \in Nat /\ b # 0
    BY InfinityAssumption, ProductBounds
  <1>2. Times(b, x) = IF b * x < Infinity THEN b * x ELSE Infinity
    BY <1>1 DEF Times
  <1>3. Times(b, x) \in Nat /\ NaN \notin Nat
    BY <1>1, <1>2 DEF NaN
  <1>4. Least(Times(b, x), max) = IF Times(b, x) < max THEN Times(b, x) ELSE max
    BY <1>3 DEF Least
  <1>5. QED
    BY <1>1, <1>2, <1>3, <1>4 DEF LeastNat

LEMMA NextWait ==
    ASSUME NEW b \in 0..Infinity - 1, NEW m \in Nat, NEW max \in 0..Infinity, NEW n \in Nat,
           ~(b = 0 /\ Power(m, n + 1) = Infinity)
    PROVE  Least(Times(b, Power(m, n + 1)), max)
              = Least(m * Least(Times(b, Power(m, n)), max), max)
  <1> DEFINE x == Power(m, n)
             y == Power(m, n + 1)
  <1>1. /\ x \in 0..Infinity /\ y \in 0..Infinity /\ y = Capped(m * x)
        /\ m # 0 => x >= 1 /\ y >= x
        /\ m = 0 => y = 0
        /\ ~(b = 0 /\ y = Infinity)
    <2>1. n + 1 \in Nat /\ n + 1 # 0
      OBVIOUS
    <2>2. QED
      BY <2>1, PowerIs, PowerBounds
  <1> HIDE DEF x, y
  <1>2. Infinity \in Nat /\ Infinity # 0 /\ b \in Nat /\ max \in Nat /\ b # Infinity
    BY InfinityAssumption
  <1>3. \A z \in Nat : Least(z, max) = LeastNat(z, max)
    BY <1>2 DEF Least, LeastNat, NaN
  <1>4. CASE m = 0
    <2>1. y = 0 /\ Times(b, y) = 0
      <3>1. y = 0 /\ b * 0 = 0
        BY <1>1, <1>2, <1>4
      <3>2. QED
        BY <1>2, <3>1 DEF Times
    <2>2. Least(Times(b, x), max) \in Int
      <3>1. b * x \in Int
        BY <1>1, <1>2
      <3>2. QED
        BY <1>2, <3>1 DEF Least, Times, NaN
    <2>3. m * Least(Times(b, x), max) = 0
      BY <1>4, <2>2
    <2>4. QED
      BY <2>1, <2>3 DEF x, y
  <1>5. CASE m # 0 /\ b = 0
    <2>1. x # Infinity /\ y # Infinity /\ b * x = 0 /\ b * y = 0
      BY <1>1, <1>2, <1>5
    <2>2. Times(b, x) = 0 /\ Times(b, y) = 0
      BY <1>2, <1>5, <2>1 DEF Times
    <2>3. LeastNat(0, max) = 0 /\ m * 0 = 0
      BY <1>2 DEF LeastNat
    <2>4. Least(0, max) = 0
      BY <1>3, <2>3
    <2>5. QED
      BY <2>2, <2>3, <2>4 DEF x, y
  <1>6. CASE m # 0 /\ b # 0
    <2>1. /\ Least(Times(b, x), max) = LeastNat(b * x, max) /\ b * x \in Nat
          /\ Least(Times(b, y), max) = LeastNat(b * y, max) /\ b * y \in Nat
      <3>1. b >= 1
        BY <1>2, <1>6
      <3>2. QED
        BY <1>1, <1>2, <3>1, WaitIs
    <2> DEFINE c == LeastNat(b * x, max)
               p == b * x
               t == m * p
    <2>2. p \in Nat /\ t \in Nat /\ t >= p /\ c \in Nat /\ m * c \in Nat
      <3>1. p \in Nat /\ c \in Nat /\ m >= 1
        BY <1>2, <1>6, <2>1 DEF LeastNat
      <3> HIDE DEF p, c
      <3>2. m * p \in Nat /\ m * c \in Nat /\ m * p >= p
        BY <3>1, ProductBounds
      <3>3. QED
        BY <3>1, <3>2
    <2>3. LeastNat(b * y, max) = LeastNat(t, max)
      <3>1. m * x \in Nat /\ b * (m * x) = t
        BY <1>1, <1>2, ProductBounds, ProductSwaps
      <3>2. CASE m * x < Infinity
        BY <1>1, <3>1, <3>2 DEF Capped
      <3>3. CASE ~(m * x < Infinity)
        <4>1. y = Infinity /\ m * x >= Infinity
          BY <1>1, <1>2, <3>1, <3>3 DEF Capped
        <4>2. b * y >= y /\ b * (m * x) >= m * x
          BY <1>1, <1>2, <1>6, <3>1, ProductBounds
        <4>3. b * y >= max /\ t >= max
          BY <1>2, <2>1, <2>2, <3>1, <4>1, <4>2
        <4> HIDE DEF t
        <4>4. QED
          BY <1>2, <2>1, <2>2, <4>3 DEF LeastNat
      <3>4. QED
        BY <3>2, <3>3
    <2>4. LeastNat(m * c, max) = LeastNat(t, max)
      <3>1. CASE p < max
        BY <3>1 DEF LeastNat
      <3>2. CASE ~(p < max)
        <4>1. c = max
          BY <3>2 DEF LeastNat
        <4>2. m * max \in Nat /\ m * max >= max
          BY <1>2, <1>6, ProductBounds
        <4> HIDE DEF c, t
        <4>3. t >= max
          BY <1>2, <2>2, <3>2
        <4>4. QED
          BY <1>2, <2>2, <4>1, <4>2, <4>3 DEF LeastNat
      <3>3. QED
        BY <3>1, <3>2
    <2>5. Least(m * c, max) = LeastNat(m * c, max)
      BY <1>3, <2>2
    <2>6. QED
      BY <2>1, <2>3, <2>4, <2>5 DEF x, y
  <1>7. QED
    BY <1>4, <1>5, <1>6

\* The waits of every attempt, base, cap and multiplier, but for a base of 0 and
\* an infinite power.
LEMMA WaitsDoGrow ==
    ASSUME NEW a, a.attempt \in Int, IsOption(a.options.multiplier, Nat),
           a.options.baseDelayMs \in 0..Infinity - 1, a.options.maxDelayMs \in 0..Infinity,
           answers = <<ComputeBackoffMs(a.attempt, a.options)>>
    PROVE  WaitsGrow(a)
  <1> DEFINE o == a.options
             m == Given(o.multiplier, 2)
             b == o.baseDelayMs
             max == o.maxDelayMs
             n == a.attempt
  <1>1. answer = ComputeBackoffMs(n, o)
    BY DEF answer
  <1>2. m \in Nat
    BY DEF IsOption, Given
  <1>3. /\ n \in Int /\ b \in 0..Infinity - 1 /\ max \in 0..Infinity
        /\ Infinity \in Nat /\ Infinity # 0
    BY InfinityAssumption
  <1>4. \A k \in Int : ComputeBackoffMs(k, o) = IF k < 1 THEN RangeError
                                              ELSE Least(Times(b, Power(m, k - 1)), max)
    BY DEF ComputeBackoffMs
  <1> DEFINE infinite == b = 0 /\ Power(m, n - 1) = Infinity
             more == Least(m * ComputeBackoffMs(n - 1, o), max)
  <1>5. /\ n < 1 /\ answer = RangeError => WaitsGrow(a)
        /\ ~(n < 1) /\ infinite => WaitsGrow(a)
        /\ n = 1 /\ ~infinite /\ answer = Least(b, max) => WaitsGrow(a)
        /\ n > 1 /\ ~infinite /\ answer = more => WaitsGrow(a)
    <2> HIDE DEF answer
    <2>1. n < 1 /\ answer = RangeError => WaitsGrow(a)
      BY DEF WaitsGrow
    <2>2. ~(n < 1) /\ infinite => WaitsGrow(a)
      BY DEF WaitsGrow
    <2>3. n = 1 /\ ~infinite /\ answer = Least(b, max) => WaitsGrow(a)
      BY DEF WaitsGrow
    <2>4. n > 1 /\ ~infinite /\ answer = more => WaitsGrow(a)
      <3>1. n > 1 => ~(n < 1) /\ n # 1
        BY <1>3
      <3>2. QED
        BY <3>1 DEF WaitsGrow
    <2>5. QED
      BY <2>1, <2>2, <2>3, <2>4
  <1> HIDE DEF o, m, b, max, n, answer
  <1>6. CASE n < 1
    BY <1>1, <1>3, <1>4, <1>5, <1>6
  <1>7. CASE n >= 1 /\ b = 0 /\ Power(m, n - 1) = Infinity
    BY <1>3, <1>5, <1>7
  <1>8. CASE n = 1 /\ ~(b = 0 /\ Power(m, n - 1) = Infinity)
    <2>1. n - 1 = 0 /\ Power(m, 0) = 1
      BY <1>2, <1>8, PowerIs
    <2>2. answer = Least(Times(b, 1), max)
      BY <1>1, <1>3, <1>4, <1>8, <2>1
    <2>3. ~(b = 0 /\ 1 = Infinity) /\ b * 1 = b /\ b < Infinity
      BY <1>3, <1>8, <2>1
    <2>4. Times(b, 1) = b
      BY <2>3 DEF Times
    <2>5. QED
      BY <1>5, <1>8, <2>2, <2>4
  <1>9. CASE n > 1 /\ ~(b = 0 /\ Power(m, n - 1) = Infinity)
    <2> DEFINE k == n - 2
    <2>1. k \in Nat /\ n - 1 = k + 1 /\ (n - 1) - 1 = k /\ n - 1 \in Int
      BY <1>3, <1>9
    <2> HIDE DEF k
    <2>2. answer = Least(Times(b, Power(m, k + 1)), max)
      BY <1>1, <1>3, <1>4, <1>9, <2>1
    <2>3. ComputeBackoffMs(n - 1, o) = Least(Times(b, Power(m, k)), max)
      <3>1. ~(n - 1 < 1)
        BY <1>3, <1>9
      <3>2. QED
        BY <1>4, <2>1, <3>1
    <2>4. answer = Least(m * ComputeBackoffMs(n - 1, o), max)
      BY <1>2, <1>3, <1>9, <2>1, <2>2, <2>3, NextWait
    <2>5. QED
      BY <1>3, <1>5, <1>9, <2>4
  <1>10. QED
    BY <1>3, <1>6, <1>7, <1>8, <1>9
-----------------------------------------------------------------------------
(***************************************************************************)
(* topology.ts and notifierEmailHelper.ts.                                 *)
(***************************************************************************)

LEMMA HashMatches ==
    ASSUME NEW S, NEW key \in Seq(S)
    PROVE  Matches(<<"#">>, key)
  <1> DEFINE p == <<"#">>
             cut == [i \in 0..1 |-> IF i = 0 THEN 0 ELSE Len(key)]
  <1>1. Len(p) = 1 /\ p[1] = "#" /\ Len(key) \in Nat
    OBVIOUS
  <1>2. /\ cut \in [0..1 -> 0..Len(key)] /\ cut[0] = 0 /\ cut[1] = Len(key)
        /\ \A i \in 1..1 : i = 1 /\ cut[i - 1] <= cut[i]
    BY <1>1
  <1> HIDE DEF p, cut
  <1>3. Matches(p, key)
    BY <1>1, <1>2 DEF Matches
  <1>4. QED
    BY <1>3 DEF p

LEMMA KeyMatchesItself ==
    ASSUME NEW S, NEW key \in Seq(S)
    PROVE  Matches(key, key)
  <1> DEFINE cut == [i \in 0..Len(key) |-> i]
  <1>1. Len(key) \in Nat
    OBVIOUS
  <1>2. cut \in [0..Len(key) -> 0..Len(key)] /\ cut[0] = 0 /\ cut[Len(key)] = Len(key)
    BY <1>1
  <1>3. \A i \in 1..Len(key) : cut[i - 1] <= cut[i] /\ cut[i] = cut[i - 1] + 1 /\ cut[i] = i
    BY <1>1
  <1> HIDE DEF cut
  <1>4. QED
    BY <1>2, <1>3 DEF Matches

\* A queue gets the messages whose routing key it names.
LEMMA NamedKeysArrive ==
    ASSUME NEW o, IsTopology(o), NEW q \in o.consumerQueues, NEW k \in q.routingKeys
    PROVE  q.name \in Routed(o, Events, k)
  <1> DEFINE b == [queue |-> q.name, exchange |-> Events, pattern |-> k]
  <1>1. b \in Bindings(o)
    BY DEF Bindings, ConsumerBindings
  <1>2. k \in Seq(STRING)
    BY DEF IsTopology
  <1>3. Matches(k, k)
    BY <1>2, KeyMatchesItself
  <1>4. b.queue = q.name /\ b.exchange = Events /\ b.pattern = k
    OBVIOUS
  <1> HIDE DEF b
  <1>5. QED
    BY <1>1, <1>3, <1>4 DEF Routed

LEMMA DeadLettersDoArrive ==
    ASSUME NEW o, IsTopology(o), DlxOf(o) # Events,
           answers = <<[exchanges |-> Exchanges(o), queues |-> Queues(o), bindings |-> Bindings(o)]>>
    PROVE  DeadLettersArrive(o)
  <1>1. answer.queues = Queues(o) /\ answer.exchanges = Exchanges(o)
    BY DEF answer
  <1> DEFINE dead == [queue |-> DlqOf(o), exchange |-> DlxOf(o), pattern |-> <<"#">>]
  <1>2. /\ dead \in Bindings(o)
        /\ dead.queue = DlqOf(o) /\ dead.exchange = DlxOf(o) /\ dead.pattern = <<"#">>
        /\ \A b \in Bindings(o) : b.exchange = DlxOf(o) => b = dead
    BY DEF Bindings, ConsumerBindings
  <1> HIDE DEF dead
  <1>3. ASSUME NEW key \in Seq(STRING)  PROVE Routed(o, DlxOf(o), key) = {DlqOf(o)}
    <2>1. Matches(dead.pattern, key)
      BY <1>2, HashMatches
    <2>2. QED
      BY <1>2, <2>1 DEF Routed
  <1>4. ASSUME NEW q \in Queues(o), q.dlx # Absent
        PROVE  q.dlx = DlxOf(o) /\ q.key \in Seq(STRING)
    <2>1. PICK c \in o.consumerQueues : q = [name |-> c.name, dlx |-> DlxOf(o), key |-> c.name]
      BY <1>4 DEF Queues
    <2>2. c.name \in Seq(STRING)
      BY DEF IsTopology
    <2>3. QED
      BY <2>1, <2>2
  <1>5. DlxOf(o) \in Exchanges(o)
    BY DEF Exchanges
  <1> HIDE DEF answer
  <1>6. QED
    BY <1>1, <1>3, <1>4, <1>5, NamedKeysArrive DEF DeadLettersArrive

LEMMA OutcomeDoesArrive ==
    ASSUME NEW a, IsOutcome(a),
           answers = LET sent == PublishVideoOutcome(a.type, a.input) IN
                     <<[reached |-> Routed(a.topology, sent.exchange, sent.routingKey),
                        parsed |-> [t \in EventTypes |-> ParseEvent(t, sent.message)]]>>
    PROVE  OutcomeArrives(a)
  <1> DEFINE sent == PublishVideoOutcome(a.type, a.input)
             event == sent.message
             payload == a.input.payload
  <1>1. /\ answer.reached = Routed(a.topology, sent.exchange, sent.routingKey)
        /\ \A t \in EventTypes : answer.parsed[t] = ParseEvent(t, event)
    BY DEF answer
  <1>2. /\ sent.exchange = Events /\ sent.routingKey = a.type
        /\ event.eventType = a.type /\ event.version = 1 /\ event.payload = payload
        /\ event.correlationIdFits = a.input.correlationIdFits
    BY DEF PublishVideoOutcome, EventExchange, Events
  <1>3. /\ a.input.correlationIdFits \in BOOLEAN /\ payload \in [DOMAIN payload -> BOOLEAN]
        /\ Required(a.type) \subseteq DOMAIN payload
        /\ DOMAIN payload \subseteq Required(a.type) \cup Optional(a.type)
        /\ IsTopology(a.topology)
    BY DEF IsOutcome
  <1>4. \E x, y, z, w : event = [eventType |-> x, version |-> y, correlationIdFits |-> z, payload |-> w]
    BY DEF PublishVideoOutcome
  <1> HIDE DEF sent, event, payload, answer
  <1>5. \A q \in a.topology.consumerQueues :
           a.type \in q.routingKeys => q.name \in answer.reached
    BY <1>1, <1>2, <1>3, NamedKeysArrive
  <1> DEFINE Fits == a.input.correlationIdFits /\ \A f \in DOMAIN payload : payload[f]
  <1>6. ASSUME NEW t \in EventTypes, t = a.type /\ Fits
        PROVE  answer.parsed[t].ok /\ answer.parsed[t].value.payload = payload
    <2>1. PayloadFits(t, event.payload)
      BY <1>2, <1>3, <1>6 DEF PayloadFits
    <2>2. answer.parsed[t] = Ok([event EXCEPT !.payload = Known(t, event.payload)])
      BY <1>1, <1>2, <1>6, <2>1 DEF ParseEvent
    <2>3. Known(t, payload) = payload
      <3>1. DOMAIN payload \cap (Required(t) \cup Optional(t)) = DOMAIN payload
        BY <1>3, <1>6
      <3>2. QED
        BY <1>3, <3>1 DEF Known
    <2>4. [event EXCEPT !.payload = Known(t, event.payload)].payload = payload
      BY <1>2, <1>4, <2>3
    <2> DEFINE taken == [event EXCEPT !.payload = Known(t, event.payload)]
    <2>5. Ok(taken).ok /\ Ok(taken).value = taken
      BY DEF Ok
    <2> HIDE DEF taken
    <2>6. answer.parsed[t] = Ok(taken) /\ taken.payload = payload
      BY <2>2, <2>4 DEF taken
    <2>7. QED
      BY <2>5, <2>6
  <1>7. ASSUME NEW t \in EventTypes, ~(t = a.type /\ Fits)
        PROVE  ~answer.parsed[t].ok
    <2>1. ~(/\ event.eventType = t /\ event.version = 1
            /\ event.correlationIdFits
            /\ PayloadFits(t, event.payload))
      <3>1. t = a.type => DOMAIN payload \cap (Required(t) \cup Optional(t)) = DOMAIN payload
        BY <1>3
      <3>2. QED
        BY <1>2, <1>7, <3>1 DEF PayloadFits
    <2>2. answer.parsed[t] = Err("SCHEMA_VALIDATION_FAILED")
      BY <1>1, <2>1 DEF ParseEvent
    <2>3. QED
      BY <2>2 DEF Err
  <1>8. QED
    BY <1>5, <1>6, <1>7 DEF OutcomeArrives, payload
-----------------------------------------------------------------------------
(***************************************************************************)
(* Sums.  SumFunction takes the elements in an order it does not say; the  *)
(* sum is the same in every order, and so it is that of the loop.          *)
(***************************************************************************)

\* A function that sums f over every subset of its domain, in some order.
IsSum(g, D, f, pick) ==
    \A s \in SUBSET D : g[s] = IF s = {} THEN 0 ELSE f[pick[s]] + g[s \ {pick[s]}]

AnyIsFirst(g, D, f) == \A s \in SUBSET D : \A x \in s : g[s] = f[x] + g[s \ {x}]

\* Any element can be the first to be added.
LEMMA SumInAnyOrder ==
    ASSUME NEW D, IsFiniteSet(D), NEW f \in [D -> Int], NEW pick, TakesOut(pick, D),
           NEW g \in [SUBSET D -> Int], IsSum(g, D, f, pick)
    PROVE  AnyIsFirst(g, D, f)
  <1> DEFINE Free(m) == \A s \in SUBSET D :
                           Cardinality(s) <= m => \A x \in s : g[s] = f[x] + g[s \ {x}]
             T == {m \in Nat : Free(m)}
  <1>1. 0 \in T
    <2>1. ASSUME NEW s \in SUBSET D, Cardinality(s) <= 0, NEW x \in s  PROVE FALSE
      <3>1. Cardinality(s) \in Nat /\ Cardinality(s \ {x}) = Cardinality(s) - 1
        BY OneLess
      <3>2. Cardinality(s \ {x}) \in Nat
        <4>1. IsFiniteSet(s \ {x})
          BY FS_Subset
        <4>2. QED
          BY <4>1, FS_CardinalityType
      <3>3. QED
        BY <2>1, <3>1, <3>2
    <2>2. QED
      BY <2>1
  <1>2. ASSUME NEW m \in Nat, m \in T  PROVE m + 1 \in T
    <2>1. ASSUME NEW s \in SUBSET D, Cardinality(s) <= m + 1, NEW x \in s
          PROVE  g[s] = f[x] + g[s \ {x}]
      <3> DEFINE y == pick[s]
      <3>1. y \in s /\ g[s] = f[y] + g[s \ {y}]
        BY <2>1 DEF IsSum, TakesOut
      <3> HIDE DEF y
      <3>2. CASE x = y
        BY <3>1, <3>2
      <3>3. CASE x # y
        <4>1. /\ s \ {y} \in SUBSET D /\ x \in s \ {y}
              /\ s \ {x} \in SUBSET D /\ y \in s \ {x}
              /\ (s \ {y}) \ {x} = (s \ {x}) \ {y}
          BY <2>1, <3>1, <3>3
        <4>2. Cardinality(s \ {y}) <= m /\ Cardinality(s \ {x}) <= m
          BY <2>1, <3>1, OneLess
        <4>3. g[s \ {y}] = f[x] + g[(s \ {y}) \ {x}]
          BY <1>2, <4>1, <4>2
        <4>4. g[s \ {x}] = f[y] + g[(s \ {x}) \ {y}]
          BY <1>2, <4>1, <4>2
        <4> DEFINE rest == (s \ {x}) \ {y}
        <4>5. f[x] \in Int /\ f[y] \in Int /\ g[rest] \in Int
          BY <2>1, <3>1, <4>1
        <4>6. g[s \ {y}] = f[x] + g[rest] /\ g[s \ {x}] = f[y] + g[rest]
          BY <4>1, <4>3, <4>4
        <4> HIDE DEF rest
        <4>7. f[y] + (f[x] + g[rest]) = f[x] + (f[y] + g[rest])
          BY <4>5
        <4>8. QED
          BY <3>1, <4>6, <4>7
      <3>4. QED
        BY <3>2, <3>3
    <2> HIDE DEF T
    <2>2. Free(m + 1)
      BY <2>1
    <2> HIDE DEF Free
    <2>3. QED
      BY <2>2 DEF T
  <1> HIDE DEF T
  <1>3. Cardinality(D) \in T
    BY <1>1, <1>2, SetInduction, FS_CardinalityType
  <1>4. \A s \in SUBSET D : Cardinality(s) <= Cardinality(D)
    BY FS_Subset
  <1>5. QED
    BY <1>3, <1>4 DEF T, AnyIsFirst

\* The sum of a sequence of numbers, added one after the other.
LEMMA SumRounds ==
    ASSUME NEW n \in Nat, NEW f \in [1..n -> Int]
    PROVE  \E r \in [0..n -> Int] :
              /\ r[0] = 0
              /\ \A k \in 1..n : r[k] = r[k - 1] + f[k]
              /\ r[n] = SumFunction(f)
  <1> DEFINE D == 1..n
             pick == [s \in SUBSET D |-> IF s = {} THEN D ELSE CHOOSE x \in s : TRUE]
             step == [x \in D |-> [a \in Int |-> f[x] + a]]
             Fold(g) == [s \in SUBSET (DOMAIN f) |->
                           IF s = {} THEN 0
                           ELSE f[CHOOSE x \in s : TRUE] + g[s \ {CHOOSE x \in s : TRUE}]]
             h == CHOOSE g : g = Fold(g)
  <1>1. IsFiniteSet(D) /\ DOMAIN f = D
    BY FS_Interval
  <1>2. /\ TakesOut(pick, D)
        /\ \A s \in SUBSET D : s # {} => pick[s] = CHOOSE x \in s : TRUE
    <2>1. \A s \in SUBSET D : s # {} => (CHOOSE x \in s : TRUE) \in s
      OBVIOUS
    <2>2. \A s \in SUBSET D : s # {} => pick[s] = CHOOSE x \in s : TRUE
      OBVIOUS
    <2>3. pick \in [SUBSET D -> D \cup {D}]
      BY <2>1
    <2> HIDE DEF pick
    <2>4. QED
      BY <2>1, <2>2, <2>3 DEF TakesOut
  <1>3. SumFunction(f) = h[D]
    BY <1>1 DEF SumFunction, SumFunctionOnSet, FoldFunctionOnSet, MapThenFoldSet
  <1>4. step \in [D -> [Int -> Int]]
    OBVIOUS
  <1> HIDE DEF pick
  <1>5. PICK g \in [SUBSET D -> Int] : IsFold(g, D, 0, step, pick)
    <2> DEFINE A == Int
               zero == 0
    <2>1. step \in [D -> [A -> A]] /\ zero \in A /\ IsFiniteSet(D) /\ TakesOut(pick, D)
      BY <1>1, <1>2, <1>4
    <2> HIDE DEF step, D, A, zero
    <2>2. \E g \in [SUBSET D -> A] : IsFold(g, D, zero, step, pick)
      BY <2>1, FoldExists
    <2>3. QED
      BY <2>2 DEF A, zero
  <1>6. IsSum(g, D, f, pick)
    <2> SUFFICES ASSUME NEW s \in SUBSET D, s # {}
                 PROVE  step[pick[s]][g[s \ {pick[s]}]] = f[pick[s]] + g[s \ {pick[s]}]
      BY <1>5 DEF IsSum, IsFold
    <2>1. pick[s] \in D /\ g[s \ {pick[s]}] \in Int
      BY <1>2 DEF TakesOut
    <2>2. QED
      BY <2>1
  <1>7. g = Fold(g)
    <2>1. ASSUME NEW s \in SUBSET D, s # {}
          PROVE  g[s] = f[CHOOSE x \in s : TRUE] + g[s \ {CHOOSE x \in s : TRUE}]
      <3>1. g[s] = f[pick[s]] + g[s \ {pick[s]}]
        BY <1>6, <2>1 DEF IsSum
      <3>2. pick[s] = CHOOSE x \in s : TRUE
        BY <1>2, <2>1
      <3>3. QED
        BY <3>1, <3>2
    <2>2. g[{}] = 0
      BY <1>6 DEF IsSum
    <2>3. QED
      BY <1>1, <2>1, <2>2
  <1>8. h = Fold(h)
    <2> HIDE DEF Fold
    <2>1. QED
      BY <1>7
  <1> HIDE DEF h
  <1>9. h \in [SUBSET D -> Int] /\ IsSum(h, D, f, pick) /\ h[{}] = 0
    <2>1. ASSUME NEW s \in SUBSET D, s # {}
          PROVE  h[s] = f[pick[s]] + h[s \ {pick[s]}]
      <3>1. h[s] = f[CHOOSE x \in s : TRUE] + h[s \ {CHOOSE x \in s : TRUE}]
        BY <1>1, <1>8, <2>1
      <3>2. pick[s] = CHOOSE x \in s : TRUE
        BY <1>2, <2>1
      <3>3. QED
        BY <3>1, <3>2
    <2>2. h[{}] = 0
      BY <1>8
    <2>3. IsSum(h, D, f, pick)
      BY <2>1, <2>2 DEF IsSum
    <2> DEFINE T == {m \in Nat : \A s \in SUBSET D : Cardinality(s) <= m => h[s] \in Int}
    <2>4. 0 \in T
      <3>1. ASSUME NEW s \in SUBSET D, Cardinality(s) <= 0  PROVE s = {}
        <4>1. IsFiniteSet(s)
          BY <1>1, FS_Subset
        <4>2. QED
          BY <3>1, <4>1, FS_EmptySet, FS_CardinalityType
      <3>2. \A s \in SUBSET D : Cardinality(s) <= 0 => h[s] \in Int
        <4> SUFFICES ASSUME NEW s \in SUBSET D, Cardinality(s) <= 0  PROVE h[s] \in Int
          OBVIOUS
        <4>1. h[s] = 0
          BY <2>2, <3>1
        <4>2. QED
          BY <4>1
      <3>3. QED
        BY <3>2
    <2>5. ASSUME NEW m \in Nat, m \in T  PROVE m + 1 \in T
      <3>1. ASSUME NEW s \in SUBSET D, Cardinality(s) <= m + 1, s # {}  PROVE h[s] \in Int
        <4>1. pick[s] \in s /\ pick[s] \in D /\ s \ {pick[s]} \in SUBSET D
          BY <1>2, <3>1 DEF TakesOut
        <4>2. Cardinality(s \ {pick[s]}) <= m
          <5> HIDE DEF D
          <5>1. QED
            BY <1>1, <3>1, <4>1, OneLess
        <4>3. h[s \ {pick[s]}] \in Int /\ f[pick[s]] \in Int
          BY <2>5, <4>1, <4>2
        <4>4. h[s] = f[pick[s]] + h[s \ {pick[s]}]
          BY <2>1, <3>1
        <4>5. QED
          BY <4>3, <4>4
      <3>2. \A s \in SUBSET D : Cardinality(s) <= m + 1 => h[s] \in Int
        <4> SUFFICES ASSUME NEW s \in SUBSET D, Cardinality(s) <= m + 1  PROVE h[s] \in Int
          OBVIOUS
        <4>1. CASE s = {}
          BY <2>2, <4>1
        <4>2. CASE s # {}
          BY <3>1, <4>2
        <4>3. QED
          BY <4>1, <4>2
      <3>3. QED
        BY <3>2
    <2> HIDE DEF T
    <2>6. Cardinality(D) \in T
      BY <1>1, <2>4, <2>5, SetInduction, FS_CardinalityType
    <2>7. \A s \in SUBSET D : h[s] \in Int
      <3>1. \A s \in SUBSET D : Cardinality(s) <= Cardinality(D)
        BY <1>1, FS_Subset
      <3>2. QED
        BY <2>6, <3>1 DEF T
    <2>8. h = [s \in SUBSET D |-> h[s]]
      BY <1>1, <1>8
    <2>9. QED
      BY <2>2, <2>3, <2>7, <2>8
  <1>10. AnyIsFirst(h, D, f)
    <2>1. f \in [D -> Int]
      OBVIOUS
    <2> HIDE DEF D
    <2>2. QED
      BY <1>1, <1>2, <1>9, <2>1, SumInAnyOrder
  <1> DEFINE r == [k \in 0..n |-> h[1..k]]
  <1>11. \A k \in 0..n : 1..k \in SUBSET D
    OBVIOUS
  <1>12. r \in [0..n -> Int]
    BY <1>9, <1>11
  <1>13. r[0] = 0
    <2>1. 1..0 = {}
      OBVIOUS
    <2>2. QED
      BY <1>9, <2>1
  <1>14. ASSUME NEW k \in 1..n  PROVE r[k] = r[k - 1] + f[k]
    <2>1. 1..k \in SUBSET D /\ k \in 1..k /\ (1..k) \ {k} = 1..k - 1 /\ k - 1 \in 0..n /\ k \in 0..n
      OBVIOUS
    <2>2. h[1..k] = f[k] + h[1..k - 1]
      BY <1>10, <2>1 DEF AnyIsFirst
    <2>3. f[k] \in Int /\ h[1..k - 1] \in Int
      BY <1>9, <1>11, <2>1
    <2>4. r[k] = h[1..k] /\ r[k - 1] = h[1..k - 1]
      BY <2>1
    <2> HIDE DEF r
    <2>5. QED
      BY <2>2, <2>3, <2>4
  <1>15. r[n] = SumFunction(f)
    BY <1>3
  <1> HIDE DEF r
  <1>16. QED
    BY <1>12, <1>13, <1>14, <1>15
-----------------------------------------------------------------------------
(***************************************************************************)
(* value-objects: the documents.                                           *)
(***************************************************************************)

LEMMA SameSequence ==
    ASSUME NEW A, NEW s \in Seq(A), NEW t \in Seq(A), Len(s) = Len(t),
           \A i \in 1..Len(s) : s[i] = t[i]
    PROVE  s = t
  OBVIOUS

\* The digits of a string, picked one after the other.
LEMMA DigitsRounds ==
    ASSUME NEW raw \in Seq(CodeUnits)
    PROVE  \E r \in [0..Len(raw) -> Seq(Digits)] :
              /\ r[0] = <<>>
              /\ \A k \in 1..Len(raw) : r[k] = (IF raw[k] \in Digits THEN Append(r[k - 1], raw[k]) ELSE r[k - 1])
              /\ r[Len(raw)] = DigitsOf(raw)
  <1> DEFINE n == Len(raw)
             A == Seq(Digits)
             base == <<>>
             step == [i \in 1..n |-> [a \in A |-> (IF raw[i] \in Digits THEN Append(a, raw[i]) ELSE a)]]
             Fold(g) == [s \in SUBSET (DOMAIN raw) |->
                           IF s = {} THEN base
                           ELSE (IF raw[Max(s)] \in Digits THEN Append(g[s \ {Max(s)}], raw[Max(s)]) ELSE g[s \ {Max(s)}])]
             h == CHOOSE g : g = Fold(g)
  <1>1. /\ n \in Nat /\ DOMAIN raw = 1..n
        /\ \A i \in 1..n : raw[i] \in CodeUnits
    OBVIOUS
  <1>2. base \in A /\ step \in [1..n -> [A -> A]]
    <2>1. \A i \in 1..n : \A a \in A : (IF raw[i] \in Digits THEN Append(a, raw[i]) ELSE a) \in A
      OBVIOUS
    <2> HIDE DEF A
    <2>2. base \in A
      BY DEF A
    <2>3. QED
      BY <2>1, <2>2
  <1>3. DigitsOf(raw) = h[DOMAIN raw]
    BY DEF DigitsOf, FoldLeft, MapThenFoldSet
  <1>4. h = Fold(h)
    <2>1. PICK g \in [SUBSET (1..n) -> A] : IsFoldLeft(g, n, base, step)
      <3> HIDE DEF n, A, base, step
      <3>1. QED
        BY <1>1, <1>2, FoldLeftExists
    <2>2. \A s \in SUBSET (1..n) : s # {} =>
             step[Max(s)][g[s \ {Max(s)}]] = (IF raw[Max(s)] \in Digits THEN Append(g[s \ {Max(s)}], raw[Max(s)]) ELSE g[s \ {Max(s)}])
      <3> SUFFICES ASSUME NEW s \in SUBSET (1..n), s # {}
                   PROVE  step[Max(s)][g[s \ {Max(s)}]] = (IF raw[Max(s)] \in Digits THEN Append(g[s \ {Max(s)}], raw[Max(s)]) ELSE g[s \ {Max(s)}])
        OBVIOUS
      <3>1. Max(s) \in 1..n /\ g[s \ {Max(s)}] \in A
        BY <1>1, MaxOfIndices
      <3> HIDE DEF A
      <3>2. QED
        BY <3>1
    <2>3. g = Fold(g)
      BY <1>1, <2>1, <2>2 DEF IsFoldLeft
    <2> HIDE DEF Fold
    <2>4. QED
      BY <2>3
  <1> HIDE DEF h
  <1>5. Advances(h, n, A, base, step)
    <2>1. h[{}] = base
      BY <1>4
    <2>2. ASSUME NEW k \in 1..n, h[1..k - 1] \in A
          PROVE  h[1..k] = step[k][h[1..k - 1]]
      <3>1. 1..k \in SUBSET (1..n) /\ 1..k # {}
        BY <1>1, PrefixIndices
      <3>2. h[1..k] = (IF raw[Max(1..k)] \in Digits THEN Append(h[(1..k) \ {Max(1..k)}], raw[Max(1..k)]) ELSE h[(1..k) \ {Max(1..k)}])
        BY <1>1, <1>4, <3>1
      <3> HIDE DEF A
      <3>3. QED
        BY <1>1, <2>2, <3>2, MaxOfInterval
    <2>3. QED
      BY <2>1, <2>2 DEF Advances
  <1>6. PICK r \in [0..n -> A] : IsRounds(r, n, base, step) /\ r[n] = h[1..n]
    <2> HIDE DEF n, A, base, step
    <2>1. n \in Nat
      BY <1>1
    <2>2. HasRounds(h, n, A, base, step)
      BY <1>2, <1>5, <2>1, RoundsOf
    <2>3. QED
      BY <2>2 DEF HasRounds
  <1>7. \A k \in 1..n : r[k] = (IF raw[k] \in Digits THEN Append(r[k - 1], raw[k]) ELSE r[k - 1])
    <2> SUFFICES ASSUME NEW k \in 1..n  PROVE r[k] = (IF raw[k] \in Digits THEN Append(r[k - 1], raw[k]) ELSE r[k - 1])
      OBVIOUS
    <2>1. k - 1 \in 0..n
      BY <1>1
    <2> HIDE DEF A
    <2>2. QED
      BY <1>6, <2>1 DEF IsRounds
  <1>8. QED
    BY <1>1, <1>3, <1>6, <1>7 DEF IsRounds

LEMMA DigitsType ==
    ASSUME NEW raw \in Seq(CodeUnits)
    PROVE  DigitsOf(raw) \in Seq(Digits)
  <1>1. Len(raw) \in 0..Len(raw)
    OBVIOUS
  <1>2. QED
    BY <1>1, DigitsRounds

LEMMA DigitsAreUnits == Seq(Digits) \subseteq Seq(CodeUnits)
  <1>1. Digits \subseteq CodeUnits
    BY DEF Digits, CodeUnits
  <1>2. QED
    BY <1>1

LEMMA DigitsOfDigits ==
    ASSUME NEW d \in Seq(Digits)
    PROVE  DigitsOf(d) = d
  <1> DEFINE n == Len(d)
             Same(s, k) == Len(s) = k /\ \A i \in 1..k : s[i] = d[i]
  <1>1. n \in Nat /\ d \in Seq(CodeUnits) /\ \A i \in 1..n : d[i] \in Digits
    BY DigitsAreUnits
  <1>2. PICK r \in [0..n -> Seq(Digits)] :
              /\ r[0] = <<>>
              /\ \A k \in 1..n : r[k] = (IF d[k] \in Digits THEN Append(r[k - 1], d[k]) ELSE r[k - 1])
              /\ r[n] = DigitsOf(d)
    BY <1>1, DigitsRounds
  <1> DEFINE S == {k \in 0..n : Same(r[k], k)}
  <1>3. 0 \in S
    <2>1. Len(<<>>) = 0 /\ 0 \in 0..n
      BY <1>1
    <2>2. \A s : Same(s, 0) <=> Len(s) = 0
      OBVIOUS
    <2> HIDE DEF Same
    <2>3. QED
      BY <1>2, <2>1, <2>2
  <1>4. ASSUME NEW k \in 0..n - 1, k \in S  PROVE k + 1 \in S
    <2>1. k + 1 \in 1..n /\ k + 1 \in 0..n /\ (k + 1) - 1 = k /\ k \in 0..n /\ k \in Nat
      BY <1>1
    <2> DEFINE s == r[k]
               t == r[k + 1]
    <2>2. s \in Seq(Digits) /\ Same(s, k)
      BY <1>2, <1>4, <2>1
    <2>3. t = Append(s, d[k + 1]) /\ d[k + 1] \in Digits
      BY <1>1, <1>2, <2>1
    <2> HIDE DEF s, t
    <2>4. Len(t) = k + 1 /\ \A i \in 1..k : t[i] = s[i]
      BY <2>1, <2>2, <2>3
    <2>5. t[k + 1] = d[k + 1]
      BY <2>1, <2>2, <2>3
    <2>6. Same(t, k + 1)
      BY <2>1, <2>2, <2>4, <2>5
    <2>7. QED
      BY <2>1, <2>6 DEF t
  <1>5. n \in S
    <2> HIDE DEF S, n
    <2>1. \A k \in 0..n : k \in S
      BY <1>1, <1>3, <1>4, IntervalInduction
    <2>2. QED
      BY <1>1, <2>1
  <1>6. r[n] \in Seq(Digits) /\ Same(r[n], n)
    BY <1>1, <1>2, <1>5
  <1>7. r[n] = d
    BY <1>6, SameSequence
  <1>8. QED
    BY <1>2, <1>7

\* Two sums that add up to multiples of 11, number by number.
LEMMA SumsAddUp ==
    ASSUME NEW n \in Nat, NEW f \in [1..n -> Int], NEW g \in [1..n -> Int],
           NEW x \in [1..n -> Int], \A i \in 1..n : f[i] + g[i] = 11 * x[i]
    PROVE  \E t \in Int : /\ SumFunction(f) + SumFunction(g) = 11 * t
                          /\ SumFunction(f) \in Int /\ SumFunction(g) \in Int
  <1>1. PICK p \in [0..n -> Int] : /\ p[0] = 0
                                   /\ \A k \in 1..n : p[k] = p[k - 1] + f[k]
                                   /\ p[n] = SumFunction(f)
    BY SumRounds
  <1>2. PICK q \in [0..n -> Int] : /\ q[0] = 0
                                   /\ \A k \in 1..n : q[k] = q[k - 1] + g[k]
                                   /\ q[n] = SumFunction(g)
    BY SumRounds
  <1>3. PICK y \in [0..n -> Int] : /\ y[0] = 0
                                   /\ \A k \in 1..n : y[k] = y[k - 1] + x[k]
                                   /\ y[n] = SumFunction(x)
    BY SumRounds
  <1> DEFINE S == {k \in 0..n : p[k] + q[k] = 11 * y[k]}
  <1>4. 0 \in S
    BY <1>1, <1>2, <1>3
  <1>5. ASSUME NEW k \in 0..n - 1, k \in S  PROVE k + 1 \in S
    <2>1. k + 1 \in 1..n /\ k + 1 \in 0..n /\ (k + 1) - 1 = k /\ k \in 0..n
      OBVIOUS
    <2>2. /\ p[k + 1] = p[k] + f[k + 1] /\ q[k + 1] = q[k] + g[k + 1]
          /\ y[k + 1] = y[k] + x[k + 1]
      BY <1>1, <1>2, <1>3, <2>1
    <2>3. /\ p[k] \in Int /\ q[k] \in Int /\ y[k] \in Int
          /\ f[k + 1] \in Int /\ g[k + 1] \in Int /\ x[k + 1] \in Int
      BY <2>1
    <2>4. p[k] + q[k] = 11 * y[k] /\ f[k + 1] + g[k + 1] = 11 * x[k + 1]
      BY <1>5, <2>1
    <2>5. p[k + 1] + q[k + 1] = 11 * y[k + 1]
      <3> DEFINE a == p[k]
                 b == q[k]
                 c == y[k]
                 u == f[k + 1]
                 v == g[k + 1]
                 w == x[k + 1]
      <3>1. /\ a \in Int /\ b \in Int /\ c \in Int /\ u \in Int /\ v \in Int /\ w \in Int
            /\ a + b = 11 * c /\ u + v = 11 * w
        BY <2>3, <2>4
      <3> HIDE DEF a, b, c, u, v, w
      <3>2. (a + u) + (b + v) = 11 * (c + w)
        BY <3>1
      <3>3. QED
        BY <2>2, <3>2 DEF a, b, c, u, v, w
    <2>6. QED
      BY <2>1, <2>5
  <1> HIDE DEF S
  <1>6. n \in S
    <2>1. \A k \in 0..n : k \in S
      BY <1>4, <1>5, IntervalInduction
    <2>2. QED
      BY <2>1
  <1>7. p[n] \in Int /\ q[n] \in Int /\ y[n] \in Int /\ p[n] + q[n] = 11 * y[n]
    BY <1>6 DEF S
  <1>8. QED
    BY <1>1, <1>2, <1>7

\* Remainders of two numbers that add up to a multiple of 11.
LEMMA Remainders ==
    ASSUME NEW a \in Int, NEW b \in Int, NEW t \in Int, a + b = 11 * t
    PROVE  (IF a % 11 < 2 THEN 0 ELSE 11 - (a % 11)) = (b % 11) % 10
  OBVIOUS

\* The code's check digit is that of the rule, whose weights ascend.
LEMMA CheckDigitAgrees ==
    ASSUME NEW n \in Nat, NEW numbers \in Seq(Int), Len(numbers) = n,
           NEW weights \in Seq(Int), Len(weights) = n
    PROVE  CalculateCheckDigit(numbers, weights)
              = (SumFunction([i \in 1..n |-> (11 - weights[i]) * numbers[i]]) % 11) % 10
  <1> DEFINE f == [i \in DOMAIN numbers |-> numbers[i] * weights[i]]
             g == [i \in 1..n |-> (11 - weights[i]) * numbers[i]]
             x == [i \in 1..n |-> numbers[i]]
  <1>1. /\ DOMAIN numbers = 1..n
        /\ \A i \in 1..n : numbers[i] \in Int /\ weights[i] \in Int
    OBVIOUS
  <1>2. f \in [1..n -> Int] /\ g \in [1..n -> Int] /\ x \in [1..n -> Int]
    BY <1>1
  <1>3. \A i \in 1..n : f[i] + g[i] = 11 * x[i]
    <2>1. \A u, w \in Int : u * w + (11 - w) * u = 11 * u
      OBVIOUS
    <2>2. QED
      BY <1>1, <2>1
  <1> HIDE DEF f, g, x
  <1>4. PICK t \in Int : /\ SumFunction(f) + SumFunction(g) = 11 * t
                         /\ SumFunction(f) \in Int /\ SumFunction(g) \in Int
    BY <1>2, <1>3, SumsAddUp
  <1>5. CalculateCheckDigit(numbers, weights)
           = (IF SumFunction(f) % 11 < 2 THEN 0 ELSE 11 - (SumFunction(f) % 11))
    <2>1. Weighted(numbers, weights) = SumFunction(f)
      BY DEF Weighted, f
    <2> DEFINE c == SumFunction(f)
    <2>2. c \in Int /\ Weighted(numbers, weights) = c
      BY <1>4, <2>1
    <2> HIDE DEF c
    <2>3. CalculateCheckDigit(numbers, weights) = (IF c % 11 < 2 THEN 0 ELSE 11 - (c % 11))
      BY <2>2 DEF CalculateCheckDigit
    <2>4. QED
      BY <2>3 DEF c
  <1>6. CalculateCheckDigit(numbers, weights) = (SumFunction(g) % 11) % 10
    BY <1>4, <1>5, Remainders
  <1>7. QED
    BY <1>6 DEF g

\* Both digits: the code computes the second from the first it has computed,
\* the rule from the one that the document has.
RuleHolds(numbers, k, weights) ==
    numbers[k + 1] = (SumFunction([i \in 1..k |-> (11 - weights[i]) * numbers[i]]) % 11) % 10

LEMMA ValidDigitsAgree ==
    ASSUME NEW n \in Nat, NEW numbers \in Seq(Int), Len(numbers) = n + 2,
           NEW first \in Seq(Int), Len(first) = n, NEW second \in Seq(Int), Len(second) = n + 1
    PROVE  IsValidCheckDigits(numbers, first, second)
              <=> RuleHolds(numbers, n, first) /\ RuleHolds(numbers, n + 1, second)
  <1> DEFINE base == SubSeq(numbers, 1, n)
             digit == CalculateCheckDigit(base, first)
             long == Append(base, digit)
  <1>1. base \in Seq(Int) /\ Len(base) = n /\ \A i \in 1..n : base[i] = numbers[i]
    OBVIOUS
  <1>2. numbers[n + 1] \in Int /\ (n + 1) + 1 = n + 2 /\ n + 1 \in Nat
    OBVIOUS
  <1>3. IsValidCheckDigits(numbers, first, second)
           <=> numbers[n + 1] = digit /\ numbers[n + 2] = CalculateCheckDigit(long, second)
    BY DEF IsValidCheckDigits
  <1> HIDE DEF base
  <1>4. digit = (SumFunction([i \in 1..n |-> (11 - first[i]) * numbers[i]]) % 11) % 10
    <2>1. digit = (SumFunction([i \in 1..n |-> (11 - first[i]) * base[i]]) % 11) % 10
      BY <1>1, CheckDigitAgrees
    <2>2. [i \in 1..n |-> (11 - first[i]) * base[i]] = [i \in 1..n |-> (11 - first[i]) * numbers[i]]
      BY <1>1
    <2>3. QED
      BY <2>1, <2>2
  <1> HIDE DEF digit
  <1>5. ASSUME numbers[n + 1] = digit
        PROVE  CalculateCheckDigit(long, second)
                  = (SumFunction([i \in 1..n + 1 |-> (11 - second[i]) * numbers[i]]) % 11) % 10
    <2>1. long \in Seq(Int) /\ Len(long) = n + 1
      BY <1>1, <1>2, <1>5
    <2>2. \A i \in 1..n + 1 : long[i] = numbers[i]
      BY <1>1, <1>2, <1>5
    <2> HIDE DEF long
    <2>3. CalculateCheckDigit(long, second)
             = (SumFunction([i \in 1..n + 1 |-> (11 - second[i]) * long[i]]) % 11) % 10
      BY <1>2, <2>1, CheckDigitAgrees
    <2>4. [i \in 1..n + 1 |-> (11 - second[i]) * long[i]]
             = [i \in 1..n + 1 |-> (11 - second[i]) * numbers[i]]
      BY <2>2
    <2>5. QED
      BY <2>3, <2>4
  <1> HIDE DEF long
  <1>6. RuleHolds(numbers, n, first) <=> numbers[n + 1] = digit
    BY <1>4 DEF RuleHolds
  <1>7. numbers[n + 1] = digit =>
           (RuleHolds(numbers, n + 1, second) <=> numbers[n + 2] = CalculateCheckDigit(long, second))
    BY <1>2, <1>5 DEF RuleHolds
  <1>8. QED
    BY <1>3, <1>6, <1>7

\* What a document of the right length and characters is accepted for.
LEMMA DocumentAgrees ==
    ASSUME NEW raw \in Seq(CodeUnits), NEW punctuation, NEW n \in Nat,
           NEW first \in Seq(Int), Len(first) = n, NEW second \in Seq(Int), Len(second) = n + 1,
           Len(DigitsOf(raw)) = n + 2,
           ParseDocument(raw, punctuation, first, second) # Err("INVALID_CHARACTERS")
    PROVE  LET numbers == Numbers(DigitsOf(raw)) IN
           /\ ParseDocument(raw, punctuation, first, second).ok \in BOOLEAN
           /\ ParseDocument(raw, punctuation, first, second).ok
                 <=> /\ RuleHolds(numbers, n, first)
                     /\ RuleHolds(numbers, n + 1, second)
                     /\ \E i \in DOMAIN numbers : numbers[i] # numbers[1]
  <1> DEFINE digits == DigitsOf(raw)
             numbers == Numbers(digits)
             parsed == ParseDocument(raw, punctuation, first, second)
  <1>1. digits \in Seq(Digits) /\ Len(digits) = n + 2 /\ DOMAIN digits = 1..n + 2
    BY DigitsType
  <1> HIDE DEF digits
  <1>2. \A i \in 1..n + 2 : digits[i] \in Int
    <2>1. \A i \in 1..n + 2 : digits[i] \in Digits
      BY <1>1
    <2>2. Digits \subseteq Int
      BY DEF Digits
    <2>3. QED
      BY <2>1, <2>2
  <1>3. /\ numbers \in Seq(Int) /\ Len(numbers) = n + 2 /\ DOMAIN numbers = 1..n + 2
        /\ \A i \in 1..n + 2 : numbers[i] = digits[i] - 48
    <2>1. n + 2 \in Nat /\ numbers = [i \in 1..n + 2 |-> digits[i] - 48]
      BY <1>1 DEF Numbers
    <2> HIDE DEF numbers
    <2>2. numbers \in [1..n + 2 -> Int]
      BY <1>2, <2>1
    <2>3. QED
      BY <2>1, <2>2
  <1>4. (\E i \in DOMAIN numbers : numbers[i] # numbers[1])
           <=> ~(\A i \in DOMAIN digits : digits[i] = digits[1])
    <2>1. 1 \in 1..n + 2
      OBVIOUS
    <2>2. \A i \in 1..n + 2 : numbers[i] = numbers[1] <=> digits[i] = digits[1]
      <3>1. \A x, y \in Int : x - 48 = y - 48 <=> x = y
        OBVIOUS
      <3>2. \A i \in 1..n + 2 : (digits[i] - 48 = digits[1] - 48) <=> (digits[i] = digits[1])
        BY <1>2, <2>1, <3>1
      <3>3. QED
        BY <1>3, <2>1, <3>2
    <2>3. QED
      BY <1>1, <1>3, <2>2
  <1>5. n + 2 = (n + 1) + 1
    OBVIOUS
  <1> HIDE DEF numbers
  <1>6. IsValidCheckDigits(numbers, first, second)
           <=> RuleHolds(numbers, n, first) /\ RuleHolds(numbers, n + 1, second)
    BY <1>3, ValidDigitsAgree
  <1>7. parsed = IF \A i \in DOMAIN digits : digits[i] = digits[1] THEN Err("ALL_SAME_DIGIT")
                 ELSE IF ~IsValidCheckDigits(numbers, first, second)
                      THEN Err("INVALID_CHECK_DIGIT")
                 ELSE Ok(digits)
    <2>1. Len(digits) = Len(second) + 1
      BY <1>1, <1>5
    <2>2. QED
      BY <2>1 DEF ParseDocument, digits, numbers
  <1>8. \A code : Err(code).ok = FALSE
    BY DEF Err
  <1>9. \A value : Ok(value).ok = TRUE
    BY DEF Ok
  <1> HIDE DEF parsed
  <1>10. /\ parsed.ok \in BOOLEAN
         /\ parsed.ok <=> /\ ~(\A i \in DOMAIN digits : digits[i] = digits[1])
                          /\ IsValidCheckDigits(numbers, first, second)
    BY <1>7, <1>8, <1>9
  <1>11. QED
    BY <1>4, <1>6, <1>10 DEF parsed, numbers, digits

\* The weights of the code and of the rule add up to 11.
LEMMA CpfRule ==
    ASSUME NEW numbers
    PROVE  /\ CpfWeights(9) \in Seq(Int) /\ Len(CpfWeights(9)) = 9
           /\ CpfWeights(10) \in Seq(Int) /\ Len(CpfWeights(10)) = 10
           /\ CpfHolds(numbers) <=> /\ RuleHolds(numbers, 9, CpfWeights(9))
                                    /\ RuleHolds(numbers, 10, CpfWeights(10))
  <1>1. /\ CpfWeights(9) \in Seq(Int) /\ Len(CpfWeights(9)) = 9
        /\ \A i \in 1..9 : CpfWeights(9)[i] = 11 - i
    BY DEF CpfWeights
  <1>2. /\ CpfWeights(10) \in Seq(Int) /\ Len(CpfWeights(10)) = 10
        /\ \A i \in 1..10 : CpfWeights(10)[i] = 12 - i
    BY DEF CpfWeights
  <1>3. [i \in 1..9 |-> (11 - CpfWeights(9)[i]) * numbers[i]]
           = [i \in 1..10 - 1 |-> (i + 10 - 10) * numbers[i]]
    <2>1. \A i \in 1..9 : 11 - CpfWeights(9)[i] = i + 10 - 10
      <3>1. \A i \in 1..9 : 11 - (11 - i) = i + 10 - 10
        OBVIOUS
      <3>2. QED
        BY <1>1, <3>1
    <2>2. 10 - 1 = 9
      OBVIOUS
    <2>3. QED
      BY <2>1, <2>2
  <1>4. [i \in 1..10 |-> (11 - CpfWeights(10)[i]) * numbers[i]]
           = [i \in 1..11 - 1 |-> (i + 10 - 11) * numbers[i]]
    <2>1. \A i \in 1..10 : 11 - CpfWeights(10)[i] = i + 10 - 11
      <3>1. \A i \in 1..10 : 11 - (12 - i) = i + 10 - 11
        OBVIOUS
      <3>2. QED
        BY <1>2, <3>1
    <2>2. 11 - 1 = 10
      OBVIOUS
    <2>3. QED
      BY <2>1, <2>2
  <1>5. CpfHolds(numbers) <=>
           /\ numbers[10] = (SumFunction([i \in 1..10 - 1 |-> (i + 10 - 10) * numbers[i]]) % 11) % 10
           /\ numbers[11] = (SumFunction([i \in 1..11 - 1 |-> (i + 10 - 11) * numbers[i]]) % 11) % 10
    BY DEF CpfHolds, CheckDigitsHold
  <1>6. 9 + 1 = 10 /\ 10 + 1 = 11
    OBVIOUS
  <1>7. QED
    BY <1>1, <1>2, <1>3, <1>4, <1>5, <1>6 DEF RuleHolds

LEMMA CnpjRule ==
    ASSUME NEW numbers
    PROVE  /\ FirstCnpjWeights \in Seq(Int) /\ Len(FirstCnpjWeights) = 12
           /\ SecondCnpjWeights \in Seq(Int) /\ Len(SecondCnpjWeights) = 13
           /\ CnpjHolds(numbers) <=> /\ RuleHolds(numbers, 12, FirstCnpjWeights)
                                     /\ RuleHolds(numbers, 13, SecondCnpjWeights)
  <1>1. /\ FirstCnpjWeights \in Seq(Int) /\ Len(FirstCnpjWeights) = 12
        /\ \A i \in 1..12 : 11 - FirstCnpjWeights[i] = 9 - ((13 - 1 - i) % 8)
    <2>1. FirstCnpjWeights \in Seq(Int) /\ Len(FirstCnpjWeights) = 12
      BY DEF FirstCnpjWeights
    <2>2. \A i \in 1..12 : \/ i = 1 \/ i = 2 \/ i = 3 \/ i = 4 \/ i = 5 \/ i = 6
                           \/ i = 7 \/ i = 8 \/ i = 9 \/ i = 10 \/ i = 11 \/ i = 12
      OBVIOUS
    <2>3. \A i \in {1, 2, 3, 4, 5, 6, 7, 8, 9, 10, 11, 12} :
             11 - FirstCnpjWeights[i] = 9 - ((13 - 1 - i) % 8)
      BY DEF FirstCnpjWeights
    <2>4. QED
      BY <2>1, <2>2, <2>3
  <1>2. /\ SecondCnpjWeights \in Seq(Int) /\ Len(SecondCnpjWeights) = 13
        /\ \A i \in 1..13 : 11 - SecondCnpjWeights[i] = 9 - ((14 - 1 - i) % 8)
    <2> DEFINE six == <<6>>
    <2>1. six \in Seq(Int) /\ Len(six) = 1 /\ six[1] = 6
      OBVIOUS
    <2>2. SecondCnpjWeights = six \o FirstCnpjWeights
      BY DEF SecondCnpjWeights
    <2> HIDE DEF six
    <2>3. /\ six \o FirstCnpjWeights \in Seq(Int)
          /\ Len(six \o FirstCnpjWeights) = Len(six) + Len(FirstCnpjWeights)
          /\ \A i \in 1..Len(six) : (six \o FirstCnpjWeights)[i] = six[i]
          /\ \A i \in 1..Len(FirstCnpjWeights) :
                (six \o FirstCnpjWeights)[Len(six) + i] = FirstCnpjWeights[i]
      <3>1. six \in Seq(Int) /\ FirstCnpjWeights \in Seq(Int)
        BY <1>1, <2>1
      <3>2. QED
        BY <3>1, ConcatIs
    <2>4. /\ SecondCnpjWeights \in Seq(Int) /\ Len(SecondCnpjWeights) = Len(six) + Len(FirstCnpjWeights)
          /\ \A i \in 1..Len(six) : SecondCnpjWeights[i] = six[i]
          /\ \A i \in 1..Len(FirstCnpjWeights) : SecondCnpjWeights[Len(six) + i] = FirstCnpjWeights[i]
      BY <2>2, <2>3, Zenon
    <2>5. /\ SecondCnpjWeights \in Seq(Int) /\ Len(SecondCnpjWeights) = 13
          /\ SecondCnpjWeights[1] = 6
          /\ \A i \in 1..12 : SecondCnpjWeights[1 + i] = FirstCnpjWeights[i]
      <3>1. 1 \in 1..1 /\ 1 + 12 = 13
        OBVIOUS
      <3>2. QED
        BY <1>1, <2>1, <2>4, <3>1
    <2>6. 11 - SecondCnpjWeights[1] = 9 - ((14 - 1 - 1) % 8)
      BY <2>5
    <2>7. \A i \in 1..13 : i # 1 => 11 - SecondCnpjWeights[i] = 9 - ((14 - 1 - i) % 8)
      <3> SUFFICES ASSUME NEW i \in 1..13, i # 1
                   PROVE  11 - SecondCnpjWeights[i] = 9 - ((14 - 1 - i) % 8)
        OBVIOUS
      <3>1. i - 1 \in 1..12 /\ i = 1 + (i - 1) /\ 13 - 1 - (i - 1) = 14 - 1 - i
        OBVIOUS
      <3>2. SecondCnpjWeights[i] = FirstCnpjWeights[i - 1]
        BY <2>5, <3>1
      <3>3. 11 - FirstCnpjWeights[i - 1] = 9 - ((13 - 1 - (i - 1)) % 8)
        BY <1>1, <3>1
      <3>4. QED
        BY <3>1, <3>2, <3>3
    <2>8. QED
      BY <2>5, <2>6, <2>7
  <1>3. [i \in 1..12 |-> (11 - FirstCnpjWeights[i]) * numbers[i]]
           = [i \in 1..13 - 1 |-> (9 - ((13 - 1 - i) % 8)) * numbers[i]]
    <2>1. 13 - 1 = 12
      OBVIOUS
    <2>2. QED
      BY <1>1, <2>1
  <1>4. [i \in 1..13 |-> (11 - SecondCnpjWeights[i]) * numbers[i]]
           = [i \in 1..14 - 1 |-> (9 - ((14 - 1 - i) % 8)) * numbers[i]]
    <2>1. 14 - 1 = 13
      OBVIOUS
    <2>2. QED
      BY <1>2, <2>1
  <1>5. CnpjHolds(numbers) <=>
           /\ numbers[13]
                 = (SumFunction([i \in 1..13 - 1 |-> (9 - ((13 - 1 - i) % 8)) * numbers[i]]) % 11) % 10
           /\ numbers[14]
                 = (SumFunction([i \in 1..14 - 1 |-> (9 - ((14 - 1 - i) % 8)) * numbers[i]]) % 11) % 10
    BY DEF CnpjHolds, CheckDigitsHold
  <1>6. 12 + 1 = 13 /\ 13 + 1 = 14
    OBVIOUS
  <1>7. QED
    BY <1>1, <1>2, <1>3, <1>4, <1>5, <1>6 DEF RuleHolds

\* What `create` answers is what `parse` does, with the name of the class.
IsResult(result) == result = Ok(result.value) \/ result = Err(result.error)

LEMMA ParseIsResult ==
    ASSUME NEW name \in ValueObjectNames, NEW raw
    PROVE  IsResult(Parse(name, raw)) /\ Parse(name, raw).ok \in BOOLEAN
  <1>1. \A value : IsResult(Ok(value)) /\ Ok(value).ok \in BOOLEAN
    BY DEF IsResult, Ok
  <1>2. \A error : IsResult(Err(error)) /\ Err(error).ok \in BOOLEAN
    BY DEF IsResult, Err
  <1>3. \A file : IsResult(VideoFileName(file)) /\ VideoFileName(file).ok \in BOOLEAN
    BY <1>1, <1>2 DEF VideoFileName
  <1>4. CASE name \in {"Cpf", "Cnpj"}
    BY <1>1, <1>2, <1>4 DEF Parse, Cpf, Cnpj, ParseDocument
  <1>5. CASE name = "Phone"
    BY <1>1, <1>2, <1>5 DEF Parse, Phone
  <1>6. CASE name = "Email"
    BY <1>1, <1>2, <1>6 DEF Parse, Email
  <1>7. CASE name = "Name"
    BY <1>1, <1>2, <1>7 DEF Parse, Name
  <1>8. CASE name = "Password"
    BY <1>1, <1>2, <1>8 DEF Parse, Password
  <1>9. CASE name = "VideoFileName"
    BY <1>3, <1>9 DEF Parse
  <1>10. CASE name = "VideoFile"
    BY <1>1, <1>2, <1>3, <1>10 DEF Parse, VideoFile
  <1>11. QED
    BY <1>4, <1>5, <1>6, <1>7, <1>8, <1>9, <1>10 DEF ValueObjectNames

LEMMA CreateIs ==
    ASSUME NEW name \in ValueObjectNames, NEW raw
    PROVE  /\ Create(name, raw).ok \in BOOLEAN
           /\ Create(name, raw).ok = Parse(name, raw).ok
           /\ Parse(name, raw).ok => Create(name, raw) = Parse(name, raw)
           /\ ~Parse(name, raw).ok => /\ Create(name, raw).error.valueObject = name
                                      /\ Create(name, raw).error.code = Parse(name, raw).error
  <1>1. Parse(name, raw).ok \in BOOLEAN
    BY ParseIsResult
  <1>2. CASE Parse(name, raw).ok
    BY <1>2 DEF Create, MapErr
  <1>3. CASE ~Parse(name, raw).ok
    BY <1>1, <1>3 DEF Create, MapErr, Err
  <1>4. QED
    BY <1>1, <1>2, <1>3

\* The documents of both kinds.
LEMMA CpfAgrees ==
    ASSUME NEW raw \in Seq(CodeUnits), Len(DigitsOf(raw)) = 11,
           Create("Cpf", raw).ok \/ Create("Cpf", raw).error.code # "INVALID_CHARACTERS"
    PROVE  LET n == Numbers(DigitsOf(raw)) IN
           Create("Cpf", raw).ok <=> CpfHolds(n) /\ \E i \in DOMAIN n : n[i] # n[1]
  <1> DEFINE n == Numbers(DigitsOf(raw))
             parsed == ParseDocument(raw, {Dot, Dash}, CpfWeights(9), CpfWeights(10))
  <1>1. Parse("Cpf", raw) = parsed /\ "Cpf" \in ValueObjectNames
    BY DEF Parse, Cpf, ValueObjectNames
  <1>2. parsed # Err("INVALID_CHARACTERS")
    <2> SUFFICES ASSUME parsed = Err("INVALID_CHARACTERS")  PROVE FALSE
      OBVIOUS
    <2>1. ~Parse("Cpf", raw).ok /\ Parse("Cpf", raw).error = "INVALID_CHARACTERS"
      BY <1>1 DEF Err
    <2> HIDE DEF parsed
    <2>2. QED
      BY <1>1, <2>1, CreateIs
  <1>3. /\ CpfWeights(9) \in Seq(Int) /\ Len(CpfWeights(9)) = 9
        /\ CpfWeights(10) \in Seq(Int) /\ Len(CpfWeights(10)) = 9 + 1
        /\ CpfHolds(n) <=> RuleHolds(n, 9, CpfWeights(9)) /\ RuleHolds(n, 9 + 1, CpfWeights(10))
    BY CpfRule
  <1>4. Len(DigitsOf(raw)) = 9 + 2 /\ 9 \in Nat
    OBVIOUS
  <1>5. /\ parsed.ok \in BOOLEAN
        /\ parsed.ok <=> /\ RuleHolds(n, 9, CpfWeights(9))
                         /\ RuleHolds(n, 9 + 1, CpfWeights(10))
                         /\ \E i \in DOMAIN n : n[i] # n[1]
    BY <1>2, <1>3, <1>4, DocumentAgrees
  <1> HIDE DEF n, parsed
  <1>6. Create("Cpf", raw).ok = parsed.ok
    BY <1>1, CreateIs
  <1>7. QED
    BY <1>3, <1>5, <1>6 DEF n

LEMMA CnpjAgrees ==
    ASSUME NEW raw \in Seq(CodeUnits), Len(DigitsOf(raw)) = 14,
           Create("Cnpj", raw).ok \/ Create("Cnpj", raw).error.code # "INVALID_CHARACTERS"
    PROVE  LET n == Numbers(DigitsOf(raw)) IN
           Create("Cnpj", raw).ok <=> CnpjHolds(n) /\ \E i \in DOMAIN n : n[i] # n[1]
  <1> DEFINE n == Numbers(DigitsOf(raw))
             parsed == ParseDocument(raw, {Dot, Dash, Slash}, FirstCnpjWeights, SecondCnpjWeights)
  <1>1. Parse("Cnpj", raw) = parsed /\ "Cnpj" \in ValueObjectNames
    BY DEF Parse, Cnpj, ValueObjectNames
  <1>2. parsed # Err("INVALID_CHARACTERS")
    <2> SUFFICES ASSUME parsed = Err("INVALID_CHARACTERS")  PROVE FALSE
      OBVIOUS
    <2>1. ~Parse("Cnpj", raw).ok /\ Parse("Cnpj", raw).error = "INVALID_CHARACTERS"
      BY <1>1 DEF Err
    <2> HIDE DEF parsed
    <2>2. QED
      BY <1>1, <2>1, CreateIs
  <1>3. /\ FirstCnpjWeights \in Seq(Int) /\ Len(FirstCnpjWeights) = 12
        /\ SecondCnpjWeights \in Seq(Int) /\ Len(SecondCnpjWeights) = 12 + 1
        /\ CnpjHolds(n) <=> RuleHolds(n, 12, FirstCnpjWeights) /\ RuleHolds(n, 12 + 1, SecondCnpjWeights)
    BY CnpjRule
  <1>4. Len(DigitsOf(raw)) = 12 + 2 /\ 12 \in Nat
    OBVIOUS
  <1>5. /\ parsed.ok \in BOOLEAN
        /\ parsed.ok <=> /\ RuleHolds(n, 12, FirstCnpjWeights)
                         /\ RuleHolds(n, 12 + 1, SecondCnpjWeights)
                         /\ \E i \in DOMAIN n : n[i] # n[1]
    BY <1>2, <1>3, <1>4, DocumentAgrees
  <1> HIDE DEF n, parsed
  <1>6. Create("Cnpj", raw).ok = parsed.ok
    BY <1>1, CreateIs
  <1>7. QED
    BY <1>3, <1>5, <1>6 DEF n
-----------------------------------------------------------------------------
(***************************************************************************)
(* value-objects: the length of a password in bytes.                       *)
(***************************************************************************)

Counters == [bytes : Int, skip : BOOLEAN]
NoBytes == [bytes |-> 0, skip |-> FALSE]

LEMMA UnitsAreInts == \A u \in CodeUnits : u \in Int /\ 0 <= u
  BY DEF CodeUnits

LEMMA HalvesAreLarge ==
    \A u \in HighSurrogates \cup LowSurrogates : u \in Int /\ u >= 55296
  BY DEF HighSurrogates, LowSurrogates, CodeUnits

UnitBytes(u) == IF u < 128 THEN 1 ELSE IF u < 2048 THEN 2
                ELSE IF u \notin HighSurrogates THEN 3 ELSE 4

LEMMA CountUnitIs ==
    ASSUME NEW c \in Counters, NEW u \in CodeUnits
    PROVE  /\ CountUnit(c, u) \in Counters
           /\ c.skip => CountUnit(c, u).bytes = c.bytes /\ ~CountUnit(c, u).skip
           /\ ~c.skip => /\ CountUnit(c, u).skip <=> u \in HighSurrogates
                         /\ CountUnit(c, u).bytes = c.bytes + UnitBytes(u)
  <1>1. CASE c.skip
    BY <1>1 DEF CountUnit, Counters
  <1>2. CASE ~c.skip
    <2> DEFINE high == u \in HighSurrogates
               bytes == c.bytes + UnitBytes(u)
    <2>1. CountUnit(c, u) = [bytes |-> bytes, skip |-> high]
      BY <1>2 DEF CountUnit, UnitBytes
    <2>2. bytes \in Int /\ high \in BOOLEAN
      BY DEF Counters, UnitBytes
    <2> HIDE DEF bytes, high
    <2>3. /\ [bytes |-> bytes, skip |-> high].skip = high
          /\ [bytes |-> bytes, skip |-> high].bytes = bytes
          /\ [bytes |-> bytes, skip |-> high] \in Counters
      BY <2>2 DEF Counters
    <2>4. CountUnit(c, u).skip = high /\ CountUnit(c, u).bytes = bytes /\ CountUnit(c, u) \in Counters
      BY <2>1, <2>3, Zenon
    <2>5. QED
      BY <1>2, <2>4 DEF high, bytes
  <1>3. QED
    BY <1>1, <1>2

\* The counter of the loop, unit after unit.
LEMMA ByteRounds ==
    ASSUME NEW raw \in Seq(CodeUnits)
    PROVE  \E r \in [0..Len(raw) -> Counters] :
              /\ r[0] = NoBytes
              /\ \A k \in 1..Len(raw) : r[k] = CountUnit(r[k - 1], raw[k])
              /\ r[Len(raw)] = FoldLeft(CountUnit, NoBytes, raw)
  <1> DEFINE n == Len(raw)
             A == Counters
             base == NoBytes
             step == [i \in 1..n |-> [a \in A |-> CountUnit(a, raw[i])]]
             Fold(g) == [s \in SUBSET (DOMAIN raw) |->
                           IF s = {} THEN base
                           ELSE CountUnit(g[s \ {Max(s)}], raw[Max(s)])]
             h == CHOOSE g : g = Fold(g)
  <1>1. /\ n \in Nat /\ DOMAIN raw = 1..n
        /\ \A i \in 1..n : raw[i] \in CodeUnits
    OBVIOUS
  <1>2. base \in A /\ step \in [1..n -> [A -> A]]
    <2>1. \A i \in 1..n : \A a \in A : CountUnit(a, raw[i]) \in A
      BY <1>1, CountUnitIs
    <2> HIDE DEF A
    <2>2. base \in A
      BY DEF A, Counters, NoBytes
    <2>3. QED
      BY <2>1, <2>2
  <1>3. FoldLeft(CountUnit, NoBytes, raw) = h[DOMAIN raw]
    BY DEF FoldLeft, MapThenFoldSet
  <1>4. h = Fold(h)
    <2>1. PICK g \in [SUBSET (1..n) -> A] : IsFoldLeft(g, n, base, step)
      <3> HIDE DEF n, A, base, step
      <3>1. QED
        BY <1>1, <1>2, FoldLeftExists
    <2>2. \A s \in SUBSET (1..n) : s # {} =>
             step[Max(s)][g[s \ {Max(s)}]] = CountUnit(g[s \ {Max(s)}], raw[Max(s)])
      <3> SUFFICES ASSUME NEW s \in SUBSET (1..n), s # {}
                   PROVE  step[Max(s)][g[s \ {Max(s)}]] = CountUnit(g[s \ {Max(s)}], raw[Max(s)])
        OBVIOUS
      <3>1. Max(s) \in 1..n /\ g[s \ {Max(s)}] \in A
        BY <1>1, MaxOfIndices
      <3> HIDE DEF A
      <3>2. QED
        BY <3>1
    <2>3. g = Fold(g)
      BY <1>1, <2>1, <2>2 DEF IsFoldLeft
    <2> HIDE DEF Fold
    <2>4. QED
      BY <2>3
  <1> HIDE DEF h
  <1>5. Advances(h, n, A, base, step)
    <2>1. h[{}] = base
      BY <1>4
    <2>2. ASSUME NEW k \in 1..n, h[1..k - 1] \in A
          PROVE  h[1..k] = step[k][h[1..k - 1]]
      <3>1. 1..k \in SUBSET (1..n) /\ 1..k # {}
        BY <1>1, PrefixIndices
      <3>2. h[1..k] = CountUnit(h[(1..k) \ {Max(1..k)}], raw[Max(1..k)])
        BY <1>1, <1>4, <3>1
      <3> HIDE DEF A
      <3>3. QED
        BY <1>1, <2>2, <3>2, MaxOfInterval
    <2>3. QED
      BY <2>1, <2>2 DEF Advances
  <1>6. PICK r \in [0..n -> A] : IsRounds(r, n, base, step) /\ r[n] = h[1..n]
    <2> HIDE DEF n, A, base, step
    <2>1. n \in Nat
      BY <1>1
    <2>2. HasRounds(h, n, A, base, step)
      BY <1>2, <1>5, <2>1, RoundsOf
    <2>3. QED
      BY <2>2 DEF HasRounds
  <1>7. \A k \in 1..n : r[k] = CountUnit(r[k - 1], raw[k])
    <2> SUFFICES ASSUME NEW k \in 1..n  PROVE r[k] = CountUnit(r[k - 1], raw[k])
      OBVIOUS
    <2>1. k - 1 \in 0..n
      BY <1>1
    <2> HIDE DEF A
    <2>2. QED
      BY <1>6, <2>1 DEF IsRounds
  <1>8. QED
    BY <1>1, <1>3, <1>6, <1>7 DEF IsRounds

\* The loop counts the two units of a pair with the first of them.
LEMMA BytesOfPairs ==
    ASSUME NEW raw \in Seq(CodeUnits), WellFormed(raw)
    PROVE  ByteLength(raw) = Utf8Bytes(raw)
  <1> DEFINE n == Len(raw)
             Width(u) == CASE u < 128 -> 1
                           [] u \in 128..2047 -> 2
                           [] u \in HighSurrogates \cup LowSurrogates -> 2
                           [] OTHER -> 3
             widths == [i \in 1..n |-> Width(raw[i])]
  <1>1. n \in Nat /\ DOMAIN raw = 1..n /\ \A i \in 1..n : raw[i] \in CodeUnits
    OBVIOUS
  <1>2. \A u \in CodeUnits : /\ u < 128 => Width(u) = 1
                             /\ ~(u < 128) /\ u < 2048 => Width(u) = 2
                             /\ u \in HighSurrogates \cup LowSurrogates => Width(u) = 2
                             /\ ~(u < 2048) /\ u \notin HighSurrogates \cup LowSurrogates => Width(u) = 3
                             /\ Width(u) \in Int
    <2> SUFFICES ASSUME NEW u \in CodeUnits
                 PROVE  /\ u < 128 => Width(u) = 1
                        /\ ~(u < 128) /\ u < 2048 => Width(u) = 2
                        /\ u \in HighSurrogates \cup LowSurrogates => Width(u) = 2
                        /\ ~(u < 2048) /\ u \notin HighSurrogates \cup LowSurrogates => Width(u) = 3
                        /\ Width(u) \in Int
      OBVIOUS
    <2>1. u \in Int /\ 0 <= u
      BY UnitsAreInts
    <2> DEFINE small == u < 128
               middle == u \in 128..2047
               half == u \in HighSurrogates \cup LowSurrogates
    <2>2. half => ~small /\ ~middle /\ ~(u < 2048)
      <3>1. half => u >= 55296
        BY HalvesAreLarge
      <3>2. QED
        BY <2>1, <3>1
    <2>3. /\ u < 128 <=> small
          /\ (~(u < 128) /\ u < 2048) <=> (middle /\ ~small)
          /\ ~(u < 2048) => ~small /\ ~middle
      BY <2>1
    <2>4. Width(u) = CASE small -> 1 [] middle -> 2 [] half -> 2 [] OTHER -> 3
      OBVIOUS
    <2> HIDE DEF small, middle, half, Width
    <2>5. small => ~middle
      BY <2>1 DEF small, middle
    <2>6. /\ small => Width(u) = 1
          /\ middle => Width(u) = 2
          /\ half => Width(u) = 2
          /\ ~small /\ ~middle /\ ~half => Width(u) = 3
      BY <2>2, <2>4, <2>5
    <2>7. QED
      BY <2>3, <2>6 DEF half
  <1>3. Utf8Bytes(raw) = SumFunction(widths)
    BY <1>1 DEF Utf8Bytes
  <1> HIDE DEF Width
  <1>4. widths \in [1..n -> Int]
    BY <1>1, <1>2
  <1>5. PICK u \in [0..n -> Int] : /\ u[0] = 0
                                   /\ \A k \in 1..n : u[k] = u[k - 1] + widths[k]
                                   /\ u[n] = SumFunction(widths)
    <2> HIDE DEF widths, n
    <2>1. QED
      BY <1>1, <1>4, SumRounds
  <1>6. PICK r \in [0..n -> Counters] :
              /\ r[0] = NoBytes
              /\ \A k \in 1..n : r[k] = CountUnit(r[k - 1], raw[k])
              /\ r[n] = FoldLeft(CountUnit, NoBytes, raw)
    BY ByteRounds
  <1> DEFINE Agree(c, k) == /\ c.skip <=> k > 0 /\ raw[k] \in HighSurrogates
                            /\ c.bytes = u[k] + IF c.skip THEN 2 ELSE 0
             S == {k \in 0..n : Agree(r[k], k)}
  <1>7. 0 \in S
    <2>1. 0 \in 0..n /\ ~(0 > 0) /\ 0 + 0 = 0
      BY <1>1
    <2>2. Agree(NoBytes, 0)
      BY <1>5, <2>1 DEF NoBytes
    <2> HIDE DEF Agree
    <2>3. QED
      BY <1>6, <2>1, <2>2
  <1>8. ASSUME NEW k \in 0..n - 1, k \in S  PROVE k + 1 \in S
    <2> DEFINE c == r[k]
               d == r[k + 1]
               x == raw[k + 1]
               w == Width(x)
    <2>1. /\ k + 1 \in 1..n /\ k + 1 \in 0..n /\ (k + 1) - 1 = k /\ k \in 0..n
          /\ k \in Nat /\ k + 1 > 0 /\ (k > 0 => k \in 1..n)
      BY <1>1
    <2>2. /\ c \in Counters /\ Agree(c, k) /\ x \in CodeUnits /\ d = CountUnit(c, x) /\ d \in Counters
      BY <1>1, <1>6, <1>8, <2>1
    <2>3. u[k + 1] = u[k] + w /\ u[k] \in Int /\ w \in Int
      <3>1. widths[k + 1] = w
        BY <2>1
      <3>2. w \in Int
        BY <1>2, <2>2
      <3>3. u[k] \in Int
        BY <1>5, <2>1
      <3> HIDE DEF widths, w, n
      <3>4. u[k + 1] = u[(k + 1) - 1] + widths[k + 1]
        BY <1>5, <2>1
      <3>5. QED
        BY <2>1, <3>1, <3>2, <3>3, <3>4
    <2>4. /\ c.skip => x \in LowSurrogates
          /\ x \in LowSurrogates => c.skip
      <3>1. k > 0 /\ raw[k] \in HighSurrogates => x \in LowSurrogates
        BY <1>1, <2>1 DEF WellFormed
      <3>2. x \in LowSurrogates => k + 1 > 1 /\ raw[(k + 1) - 1] \in HighSurrogates
        BY <1>1, <2>1 DEF WellFormed
      <3>3. k + 1 > 1 => k > 0
        BY <2>1
      <3>4. c.skip <=> k > 0 /\ raw[k] \in HighSurrogates
        BY <2>2
      <3> HIDE DEF c, x
      <3>5. QED
        BY <2>1, <3>1, <3>2, <3>3, <3>4
    <2>5. x \notin HighSurrogates \/ x \notin LowSurrogates
      <3>1. HighSurrogates \cap LowSurrogates = {}
        BY DEF HighSurrogates, LowSurrogates
      <3>2. QED
        BY <3>1
    <2>6. /\ x \in LowSurrogates \cup HighSurrogates => w = 2 /\ ~(x < 128) /\ ~(x < 2048)
          /\ x < 128 => w = 1
          /\ ~(x < 128) /\ x < 2048 => w = 2
          /\ ~(x < 2048) /\ x \notin HighSurrogates \cup LowSurrogates => w = 3
      <3>1. \A y \in HighSurrogates \cup LowSurrogates : y \in Int /\ ~(y < 128) /\ ~(y < 2048)
        BY HalvesAreLarge
      <3> HIDE DEF x
      <3>2. QED
        BY <1>2, <2>2, <3>1
    <2>7. d.skip \in BOOLEAN /\ c.skip \in BOOLEAN /\ c.bytes \in Int /\ d.bytes \in Int
      BY <2>2 DEF Counters
    <2>8. c.bytes = u[k] + IF c.skip THEN 2 ELSE 0
      BY <2>2
    <2>9. /\ c.skip => d.bytes = c.bytes /\ ~d.skip
          /\ ~c.skip => /\ d.skip <=> x \in HighSurrogates
                        /\ d.bytes = c.bytes + UnitBytes(x)
      <3> HIDE DEF c, d, x
      <3>1. QED
        BY <2>2, CountUnitIs
    <2> HIDE DEF c, d, x, w, S, Agree
    <2>10. d.skip <=> x \in HighSurrogates
      BY <2>4, <2>5, <2>9
    <2>11. d.bytes = u[k + 1] + IF d.skip THEN 2 ELSE 0
      <3>1. CASE c.skip
        BY <2>3, <2>4, <2>6, <2>7, <2>8, <2>9, <3>1
      <3>2. CASE ~c.skip /\ x < 2048
        BY <2>3, <2>6, <2>7, <2>8, <2>9, <3>2 DEF UnitBytes
      <3>3. CASE ~c.skip /\ ~(x < 2048) /\ x \in HighSurrogates
        BY <2>3, <2>6, <2>7, <2>8, <2>9, <3>3 DEF UnitBytes
      <3>4. CASE ~c.skip /\ ~(x < 2048) /\ x \notin HighSurrogates
        BY <2>3, <2>4, <2>6, <2>7, <2>8, <2>9, <3>4 DEF UnitBytes
      <3>5. QED
        BY <3>1, <3>2, <3>3, <3>4
    <2>12. Agree(d, k + 1)
      BY <2>1, <2>10, <2>11 DEF Agree, x
    <2>13. QED
      BY <2>1, <2>12 DEF S, d
  <1> HIDE DEF S
  <1>9. n \in S
    <2>1. \A k \in 0..n : k \in S
      BY <1>1, <1>7, <1>8, IntervalInduction
    <2>2. QED
      BY <1>1, <2>1
  <1>10. r[n].bytes = u[n]
    <2>1. Agree(r[n], n) /\ u[n] \in Int /\ n \in 0..n
      BY <1>1, <1>9 DEF S
    <2>2. ~r[n].skip
      <3>1. n > 0 /\ raw[n] \in HighSurrogates => n < n
        BY <1>1 DEF WellFormed
      <3>2. QED
        BY <1>1, <2>1, <3>1
    <2>3. QED
      BY <2>1, <2>2
  <1>11. ByteLength(raw) = r[n].bytes
    BY <1>6 DEF ByteLength, NoBytes
  <1>12. QED
    BY <1>3, <1>5, <1>10, <1>11

\* A well-formed password is taken for its bytes, and refused for them.
LEMMA PasswordDoesFit ==
    ASSUME NEW raw \in Seq(CodeUnits), WellFormed(raw)
    PROVE  /\ Create("Password", raw).ok => Utf8Bytes(raw) <= PasswordMaxBytes
           /\ ~Create("Password", raw).ok /\ Create("Password", raw).error.code = "TOO_LONG" =>
                 Utf8Bytes(raw) > PasswordMaxBytes
  <1>1. ByteLength(raw) = Utf8Bytes(raw)
    BY BytesOfPairs
  <1>2. "Password" \in ValueObjectNames /\ Parse("Password", raw) = Password(raw)
    BY DEF ValueObjectNames, Parse
  <1>8. IsResult(Password(raw)) /\ Password(raw).ok \in BOOLEAN
    BY <1>2, ParseIsResult
  <1>3. /\ Create("Password", raw).ok => Password(raw).ok
        /\ ~Create("Password", raw).ok =>
              ~Password(raw).ok /\ Create("Password", raw).error.code = Password(raw).error
    BY <1>2, <1>8, CreateIs
  <1>4. ByteLength(raw) \in Int /\ PasswordMaxBytes \in Int
    <2>1. PICK r \in [0..Len(raw) -> Counters] : r[Len(raw)] = FoldLeft(CountUnit, NoBytes, raw)
      BY ByteRounds
    <2>2. r[Len(raw)] \in Counters
      BY <2>1
    <2>3. QED
      BY <2>1, <2>2, ValueObjectsAssumption DEF ByteLength, NoBytes, Counters
  <1>5. Password(raw).ok => ~(ByteLength(raw) > PasswordMaxBytes)
    BY DEF Password, Err
  <1>6. ~Password(raw).ok /\ Password(raw).error = "TOO_LONG" => ByteLength(raw) > PasswordMaxBytes
    BY DEF Password, Err, Ok
  <1>7. QED
    BY <1>1, <1>3, <1>4, <1>5, <1>6
-----------------------------------------------------------------------------
(***************************************************************************)
(* value-objects: what a value is parsed to once more.                     *)
(***************************************************************************)

IsTrimmed(s) == s = <<>> \/ (s # <<>> /\ s[1] \notin Blanks /\ s[Len(s)] \notin Blanks)

LEMMA PartIs ==
    ASSUME NEW A, NEW s \in Seq(A), NEW m \in 1..Len(s), NEW n \in m..Len(s)
    PROVE  /\ SubSeq(s, m, n) \in Seq(A) /\ Len(SubSeq(s, m, n)) = n - m + 1
           /\ \A i \in 1..n - m + 1 : SubSeq(s, m, n)[i] = s[i + m - 1]
  OBVIOUS

LEMMA TrimIs ==
    ASSUME NEW raw \in Seq(CodeUnits)
    PROVE  Trim(raw) \in Seq(CodeUnits) /\ IsTrimmed(Trim(raw))
  <1> DEFINE solid == {i \in DOMAIN raw : raw[i] \notin Blanks}
             lo == Min(solid)
             hi == Max(solid)
  <1>1. solid \in SUBSET (1..Len(raw)) /\ Len(raw) \in Nat
    OBVIOUS
  <1>2. CASE solid = {}
    <2>1. Trim(raw) = <<>>
      BY <1>2 DEF Trim
    <2>2. QED
      BY <2>1 DEF IsTrimmed
  <1>3. CASE solid # {}
    <2> DEFINE part == SubSeq(raw, lo, hi)
    <2>1. Trim(raw) = part
      BY <1>3 DEF Trim
    <2>2. lo \in solid /\ hi \in solid /\ lo <= hi
      <3> HIDE DEF solid
      <3>1. QED
        BY <1>1, <1>3, MinOfIndices, MaxOfIndices
    <2>3. lo \in 1..Len(raw) /\ hi \in 1..Len(raw) /\ raw[lo] \notin Blanks /\ raw[hi] \notin Blanks
      <3> HIDE DEF lo, hi
      <3>1. QED
        BY <2>2
    <2> HIDE DEF lo, hi, solid
    <2>4. hi \in lo..Len(raw) /\ 1 \in 1..hi - lo + 1 /\ hi - lo + 1 \in 1..hi - lo + 1
          /\ 1 + lo - 1 = lo /\ (hi - lo + 1) + lo - 1 = hi
      BY <2>2, <2>3
    <2>5. /\ part \in Seq(CodeUnits) /\ Len(part) = hi - lo + 1
          /\ \A i \in 1..hi - lo + 1 : part[i] = raw[i + lo - 1]
      BY <2>3, <2>4, PartIs
    <2> HIDE DEF part
    <2>6. part[1] = raw[lo] /\ part[Len(part)] = raw[hi]
      BY <2>4, <2>5
    <2>7. part # <<>>
      BY <2>4, <2>5
    <2>8. QED
      BY <2>1, <2>3, <2>5, <2>6, <2>7 DEF IsTrimmed
  <1>4. QED
    BY <1>2, <1>3

LEMMA TrimOfTrimmed ==
    ASSUME NEW s \in Seq(CodeUnits), IsTrimmed(s)
    PROVE  Trim(s) = s
  <1> DEFINE solid == {i \in DOMAIN s : s[i] \notin Blanks}
  <1>1. solid \in SUBSET (1..Len(s)) /\ Len(s) \in Nat
    OBVIOUS
  <1>2. CASE s = <<>>
    <2>1. solid = {}
      BY <1>2
    <2>2. QED
      BY <1>2, <2>1 DEF Trim
  <1>3. CASE s # <<>>
    <2>1. 1 \in solid /\ Len(s) \in solid
      BY <1>3 DEF IsTrimmed
    <2>2. Min(solid) = 1 /\ Max(solid) = Len(s) /\ solid # {}
      <3>1. \A i \in solid : 1 <= i /\ i <= Len(s)
        BY <1>1
      <3> HIDE DEF solid
      <3>2. Min(solid) \in solid /\ \A x \in solid : Min(solid) <= x
        BY <1>1, <2>1, MinOfIndices
      <3>3. Max(solid) \in solid /\ \A x \in solid : x <= Max(solid)
        BY <1>1, <2>1, MaxOfIndices
      <3> DEFINE lo == Min(solid)
                 hi == Max(solid)
                 n == Len(s)
      <3>4. /\ lo \in 1..n /\ 1 <= lo /\ lo <= 1
            /\ hi \in 1..n /\ hi <= n /\ n <= hi /\ n \in Nat
        BY <1>1, <2>1, <3>1, <3>2, <3>3
      <3> HIDE DEF lo, hi, n
      <3>5. lo = 1 /\ hi = n
        BY <3>4
      <3>6. QED
        BY <2>1, <3>5 DEF lo, hi, n
    <2>3. Trim(s) = SubSeq(s, 1, Len(s))
      BY <2>2 DEF Trim
    <2>4. QED
      BY <2>3
  <1>4. QED
    BY <1>2, <1>3

\* Parsing what a class has accepted gives it again.
IsStable(name, raw) ==
    Parse(name, raw).ok =>
        /\ Parse(name, Parse(name, raw).value) = Parse(name, raw)
        /\ Parse(name, raw) = Ok(Parse(name, raw).value)

LEMMA DocumentIsStable ==
    ASSUME NEW raw \in Seq(CodeUnits), NEW punctuation, NEW first, NEW second \in Seq(Int),
           ParseDocument(raw, punctuation, first, second).ok
    PROVE  LET value == ParseDocument(raw, punctuation, first, second).value IN
           /\ ParseDocument(raw, punctuation, first, second) = Ok(value)
           /\ ParseDocument(value, punctuation, first, second) = Ok(value)
  <1> DEFINE digits == DigitsOf(raw)
  <1>1. digits \in Seq(Digits) /\ DigitsOf(digits) = digits
    BY DigitsType, DigitsOfDigits
  <1>2. \A e : Err(e).ok = FALSE
    BY DEF Err
  <1>3. \A v : Ok(v).value = v
    BY DEF Ok
  <1> HIDE DEF digits
  <1>4. /\ ParseDocument(raw, punctuation, first, second) = Ok(digits)
        /\ Len(digits) = Len(second) + 1
        /\ ~(\A i \in DOMAIN digits : digits[i] = digits[1])
        /\ IsValidCheckDigits(Numbers(digits), first, second)
    BY <1>2 DEF ParseDocument, digits
  <1>5. digits # <<>> /\ Only(digits, Digits \cup Blanks \cup punctuation)
    BY <1>1, <1>4 DEF Only
  <1>6. ParseDocument(digits, punctuation, first, second) = Ok(digits)
    BY <1>1, <1>4, <1>5 DEF ParseDocument
  <1>7. QED
    BY <1>3, <1>4, <1>6

LEMMA CpfIsStable ==
    ASSUME NEW raw \in Seq(CodeUnits)
    PROVE  IsStable("Cpf", raw)
  <1>1. \A s : Parse("Cpf", s) = ParseDocument(s, {Dot, Dash}, CpfWeights(9), CpfWeights(10))
    BY DEF Parse, Cpf
  <1>2. CpfWeights(10) \in Seq(Int)
    BY DEF CpfWeights
  <1>3. QED
    BY <1>1, <1>2, DocumentIsStable DEF IsStable

LEMMA CnpjIsStable ==
    ASSUME NEW raw \in Seq(CodeUnits)
    PROVE  IsStable("Cnpj", raw)
  <1>1. \A s : Parse("Cnpj", s) = ParseDocument(s, {Dot, Dash, Slash}, FirstCnpjWeights, SecondCnpjWeights)
    BY DEF Parse, Cnpj
  <1>2. SecondCnpjWeights \in Seq(Int)
    BY CnpjRule
  <1>3. QED
    BY <1>1, <1>2, DocumentIsStable DEF IsStable

\* A phone number that was accepted: its digits, with and without the country code.
IsPhone(digits) ==
    LET n == Numbers(digits) IN
    /\ Len(digits) \in {10, 11}
    /\ IsValidDdd(10 * n[1] + n[2])
    /\ IsLocalNumber(SubSeq(n, 3, Len(n)))

LEMMA WithoutCodeType ==
    ASSUME NEW d \in Seq(Digits)
    PROVE  WithoutCountryCode(d) \in Seq(Digits)
  <1>1. CASE Len(d) \in {12, 13} /\ IsPrefix(CountryCode, d)
    <2>1. 3 \in 1..Len(d) /\ Len(d) \in 3..Len(d)
      <3>1. \A m \in {12, 13} : 3 \in 1..m /\ m \in 3..m
        OBVIOUS
      <3>2. QED
        BY <1>1, <3>1, Zenon
    <2>2. WithoutCountryCode(d) = SubSeq(d, 3, Len(d))
      BY <1>1 DEF WithoutCountryCode
    <2>3. QED
      BY <2>1, <2>2, PartIs
  <1>2. CASE ~(Len(d) \in {12, 13} /\ IsPrefix(CountryCode, d))
    BY <1>2 DEF WithoutCountryCode
  <1>3. QED
    BY <1>1, <1>2

LEMMA PhoneIs ==
    ASSUME NEW d \in Seq(Digits), d # <<>>, NEW v, WithoutCountryCode(d) = v, IsPhone(v)
    PROVE  Phone(d) = Ok(v)
  <1>1. DigitsOf(d) = d
    BY DigitsOfDigits
  <1>2. Only(d, Digits \cup Blanks \cup {LeftParen, RightParen, Plus, Dash})
    BY DEF Only
  <1>3. QED
    BY <1>1, <1>2 DEF Phone, IsPhone

LEMMA PhoneAccepts ==
    ASSUME NEW raw \in Seq(CodeUnits), Phone(raw).ok
    PROVE  LET v == Phone(raw).value IN
           Phone(raw) = Ok(v) /\ v \in Seq(Digits) /\ IsPhone(v)
  <1> DEFINE v == WithoutCountryCode(DigitsOf(raw))
  <1>1. v \in Seq(Digits)
    <2>1. DigitsOf(raw) \in Seq(Digits)
      BY DigitsType
    <2>2. QED
      BY <2>1, WithoutCodeType
  <1>2. \A e : Err(e).ok = FALSE
    BY DEF Err
  <1>3. \A x : Ok(x).value = x
    BY DEF Ok
  <1> HIDE DEF v
  <1>4. Phone(raw) = Ok(v) /\ IsPhone(v)
    BY <1>2 DEF Phone, IsPhone, v
  <1>5. QED
    BY <1>1, <1>3, <1>4

LEMMA PhoneIsStable ==
    ASSUME NEW raw \in Seq(CodeUnits)
    PROVE  IsStable("Phone", raw)
  <1>1. \A s : Parse("Phone", s) = Phone(s)
    BY DEF Parse
  <1> SUFFICES ASSUME Phone(raw).ok
               PROVE  Phone(Phone(raw).value) = Phone(raw) /\ Phone(raw) = Ok(Phone(raw).value)
    BY <1>1 DEF IsStable
  <1> DEFINE v == Phone(raw).value
  <1>2. Phone(raw) = Ok(v) /\ v \in Seq(Digits) /\ IsPhone(v)
    BY PhoneAccepts
  <1> HIDE DEF v
  <1>3. Len(v) \in {10, 11}
    BY <1>2 DEF IsPhone
  <1>4. v # <<>> /\ WithoutCountryCode(v) = v
    <2>1. v # <<>>
      <3>1. Len(<<>>) \notin {10, 11}
        OBVIOUS
      <3>2. QED
        BY <1>3, <3>1, Zenon
    <2>2. \A m \in {10, 11} : m \notin {12, 13}
      OBVIOUS
    <2>3. Len(v) \notin {12, 13}
      BY <1>3, <2>2, Zenon
    <2>4. QED
      BY <2>1, <2>3, Zenon DEF WithoutCountryCode
  <1>5. Phone(v) = Ok(v)
    BY <1>2, <1>4, PhoneIs
  <1>6. QED
    BY <1>2, <1>5 DEF v

LEMMA CodeIsOptional ==
    ASSUME NEW v \in Seq(Digits), IsPhone(v)
    PROVE  Phone(CountryCode \o v) = Ok(v)
  <1> DEFINE c == CountryCode
             d == c \o v
             D == Digits
  <1>1. c \in Seq(D) /\ Len(c) = 2
    <2>1. 53 \in Digits
      BY DEF Digits
    <2>2. QED
      BY <2>1 DEF CountryCode
  <1> HIDE DEF c, D
  <1>2. /\ d \in Seq(D) /\ Len(d) = Len(c) + Len(v)
        /\ \A i \in 1..Len(c) : d[i] = c[i]
        /\ \A i \in 1..Len(v) : d[Len(c) + i] = v[i]
    <2>1. v \in Seq(D)
      BY DEF D
    <2>2. c \in Seq(D)
      BY <1>1
    <2>3. QED
      BY <2>1, <2>2, ConcatIs
  <1> HIDE DEF d
  <1>3. Len(v) \in {10, 11} /\ v \in Seq(D)
    BY DEF IsPhone, D
  <1>4. Len(d) \in {12, 13} /\ d # <<>> /\ Len(d) = 2 + Len(v)
    <2>1. Len(d) = 2 + Len(v)
      BY <1>1, <1>2
    <2>2. \A m \in {10, 11} : 2 + m \in {12, 13}
      OBVIOUS
    <2>3. Len(d) \in {12, 13}
      BY <1>3, <2>1, <2>2, Zenon
    <2>4. d # <<>>
      <3>1. Len(<<>>) \notin {12, 13}
        OBVIOUS
      <3>2. QED
        BY <2>3, <3>1, Zenon
    <2>5. QED
      BY <2>1, <2>3, <2>4
  <1>5. IsPrefix(CountryCode, d)
    <2>1. SubSeq(c, 1, Len(c)) = SubSeq(d, 1, Len(c))
      <3>1. \A i \in 1..2 : SubSeq(c, 1, 2)[i] = c[i] /\ SubSeq(d, 1, 2)[i] = d[i]
        BY <1>1, <1>2, <1>4
      <3>2. SubSeq(c, 1, 2) \in Seq(D) /\ SubSeq(d, 1, 2) \in Seq(D)
            /\ Len(SubSeq(c, 1, 2)) = 2 /\ Len(SubSeq(d, 1, 2)) = 2
        BY <1>1, <1>2, <1>4
      <3> DEFINE x == SubSeq(c, 1, 2)
                 y == SubSeq(d, 1, 2)
      <3>3. \A i \in 1..Len(x) : x[i] = y[i]
        BY <1>1, <1>2, <3>1, <3>2
      <3>4. x \in Seq(D) /\ y \in Seq(D) /\ Len(x) = Len(y)
        BY <3>2
      <3> HIDE DEF x, y
      <3>5. x = y
        BY <3>3, <3>4, SameSequence
      <3>6. QED
        BY <1>1, <3>5 DEF x, y
    <2>2. QED
      BY <1>1, <1>4, <2>1 DEF IsPrefix, c
  <1>6. SubSeq(d, 3, Len(d)) = v
    <2> DEFINE x == SubSeq(d, 3, Len(d))
    <2>1. 3 \in 1..Len(d) /\ Len(d) \in 3..Len(d) /\ Len(d) - 3 + 1 = Len(v)
      BY <1>3, <1>4
    <2>2. /\ x \in Seq(D) /\ Len(x) = Len(v)
          /\ \A i \in 1..Len(v) : x[i] = d[i + 3 - 1]
      BY <1>2, <2>1, PartIs
    <2>3. \A i \in 1..Len(v) : i + 3 - 1 = Len(c) + i
      BY <1>1
    <2> HIDE DEF x
    <2>4. \A i \in 1..Len(x) : x[i] = v[i]
      BY <1>2, <2>2, <2>3
    <2>5. x = v
      BY <1>3, <2>2, <2>4, SameSequence
    <2>6. QED
      BY <2>5 DEF x
  <1>7. WithoutCountryCode(d) = v
    BY <1>4, <1>5, <1>6 DEF WithoutCountryCode
  <1>8. d \in Seq(Digits)
    BY <1>2 DEF D
  <1>9. Phone(d) = Ok(v)
    BY <1>4, <1>7, <1>8, PhoneIs
  <1>10. QED
    BY <1>9 DEF d, c

\* A file name and a content type have no blanks left to trim.
LEMMA FileNameIsStable ==
    ASSUME NEW raw \in Seq(CodeUnits), VideoFileName(raw).ok
    PROVE  LET name == VideoFileName(raw).value IN
           /\ VideoFileName(raw) = Ok(name) /\ VideoFileName(name) = Ok(name)
  <1> DEFINE name == Trim(raw)
  <1>1. name \in Seq(CodeUnits) /\ Trim(name) = name
    BY TrimIs, TrimOfTrimmed
  <1>2. \A e : Err(e).ok = FALSE
    BY DEF Err
  <1>3. \A v : Ok(v).value = v
    BY DEF Ok
  <1> HIDE DEF name
  <1>4. VideoFileName(raw) = Ok(name)
    BY <1>2 DEF VideoFileName, name
  <1>5. VideoFileName(name) = VideoFileName(raw)
    BY <1>1 DEF VideoFileName, name
  <1>6. QED
    BY <1>3, <1>4, <1>5

LEMMA VideoFileNameIsStable ==
    ASSUME NEW raw \in Seq(CodeUnits)
    PROVE  IsStable("VideoFileName", raw)
  <1>1. \A s : Parse("VideoFileName", s) = VideoFileName(s)
    BY DEF Parse
  <1>2. QED
    BY <1>1, FileNameIsStable DEF IsStable

LEMMA VideoFileIsStable ==
    ASSUME NEW raw, raw.name \in Seq(CodeUnits), raw.contentType \in Seq(CodeUnits)
    PROVE  /\ IsStable("VideoFile", raw)
           /\ Parse("VideoFile", raw).ok =>
                 LET v == Parse("VideoFile", raw).value IN
                 v = [name |-> v.name, contentType |-> v.contentType]
  <1>1. \A f : Parse("VideoFile", f) = VideoFile(f)
    BY DEF Parse
  <1> SUFFICES ASSUME VideoFile(raw).ok
               PROVE  LET v == VideoFile(raw).value IN
                      /\ VideoFile(v) = VideoFile(raw) /\ VideoFile(raw) = Ok(v)
                      /\ v = [name |-> v.name, contentType |-> v.contentType]
    BY <1>1 DEF IsStable
  <1> DEFINE name == VideoFileName(raw.name).value
             type == Trim(raw.contentType)
             file == [name |-> name, contentType |-> type]
  <1>2. \A e : Err(e).ok = FALSE
    BY DEF Err
  <1>3. \A v : Ok(v).value = v /\ Ok(v).ok = TRUE
    BY DEF Ok
  <1>4. VideoFileName(raw.name).ok /\ ~(Len(type) > ContentTypeMax \/ ~IsMimeType(type))
    BY <1>2 DEF VideoFile
  <1>5. VideoFile(raw) = Ok(file)
    BY <1>4 DEF VideoFile
  <1>6. VideoFileName(name) = Ok(name)
    BY <1>4, FileNameIsStable
  <1>7. Trim(type) = type
    BY TrimIs, TrimOfTrimmed
  <1>8. file.name = name /\ file.contentType = type
    OBVIOUS
  <1> HIDE DEF name, type
  <1>9. VideoFile(file) = Ok([name |-> name, contentType |-> type])
    <2> HIDE DEF file
    <2>1. QED
      BY <1>3, <1>4, <1>6, <1>7, <1>8 DEF VideoFile
  <1>10. file = [name |-> file.name, contentType |-> file.contentType]
    OBVIOUS
  <1> HIDE DEF file
  <1>11. QED
    BY <1>3, <1>5, <1>9, <1>10 DEF file

LEMMA PasswordIsStable ==
    ASSUME NEW raw \in Seq(CodeUnits)
    PROVE  IsStable("Password", raw) /\ ~Is("Password", Redacted)
  <1>1. \A s : Parse("Password", s) = Password(s)
    BY DEF Parse
  <1>2. \A e : Err(e).ok = FALSE
    BY DEF Err
  <1>3. \A v : Ok(v).value = v
    BY DEF Ok
  <1>4. Password(raw).ok => Password(raw) = Ok(raw)
    BY <1>2 DEF Password
  <1>5. Lacks(Redacted, Digits)
    <2> DEFINE Signs == 91..116
    <2>1. 91 \in Signs /\ 114 \in Signs /\ 101 \in Signs /\ 100 \in Signs /\ 97 \in Signs
          /\ 99 \in Signs /\ 116 \in Signs /\ 93 \in Signs
      OBVIOUS
    <2>2. \A u \in Signs : u \notin Digits
      BY DEF Digits
    <2> HIDE DEF Signs
    <2>3. Redacted \in Seq(Signs)
      BY <2>1 DEF Redacted
    <2>4. QED
      BY <2>2, <2>3 DEF Lacks
  <1>6. ~Password(Redacted).ok
    BY <1>2, <1>5 DEF Password
  <1>7. QED
    BY <1>1, <1>3, <1>4, <1>6 DEF IsStable, Is
-----------------------------------------------------------------------------
(***************************************************************************)
(* The names: no run of blanks is left, and no blank but the space.        *)
(***************************************************************************)

NameUnits == (CodeUnits \ Blanks) \cup {Space}

LEMMA UnitFacts ==
    /\ Space \in Blanks /\ Space \in CodeUnits /\ NameUnits \subseteq CodeUnits
    /\ \A u \in NameUnits : u \in Blanks => u = Space
    /\ \A u \in Letters : u \in CodeUnits /\ u \notin Blanks
  <1>1. Space \in Blanks /\ Space \in CodeUnits
    BY DEF Space, Blanks, CodeUnits
  <1>2. Letters \subseteq CodeUnits /\ Letters \cap (Blanks \cup Digits) = {}
    BY ValueObjectsAssumption
  <1>3. QED
    BY <1>1, <1>2 DEF NameUnits

LEMMA CollapseTypes ==
    ASSUME NEW s \in Seq(NameUnits), NEW u \in CodeUnits
    PROVE  CollapseUnit(s, u) \in Seq(NameUnits)
  <1>1. CASE u \notin Blanks
    <2>1. u \in NameUnits
      BY <1>1 DEF NameUnits
    <2>2. QED
      BY <1>1, <2>1 DEF CollapseUnit
  <1>2. CASE u \in Blanks
    <2>1. Space \in NameUnits
      BY DEF NameUnits
    <2>2. CollapseUnit(s, u) \in {s, Append(s, Space)}
      BY <1>2 DEF CollapseUnit
    <2>3. QED
      BY <2>1, <2>2
  <1>3. QED
    BY <1>1, <1>2

\* The blanks of a string, collapsed one unit after the other.
LEMMA CollapseRounds ==
    ASSUME NEW raw \in Seq(CodeUnits)
    PROVE  \E r \in [0..Len(raw) -> Seq(NameUnits)] :
              /\ r[0] = <<>>
              /\ \A k \in 1..Len(raw) : r[k] = CollapseUnit(r[k - 1], raw[k])
              /\ r[Len(raw)] = FoldLeft(CollapseUnit, <<>>, raw)
  <1> DEFINE n == Len(raw)
             A == Seq(NameUnits)
             base == <<>>
             step == [i \in 1..n |-> [a \in A |-> CollapseUnit(a, raw[i])]]
             Fold(g) == [s \in SUBSET (DOMAIN raw) |->
                           IF s = {} THEN base
                           ELSE CollapseUnit(g[s \ {Max(s)}], raw[Max(s)])]
             h == CHOOSE g : g = Fold(g)
  <1>1. /\ n \in Nat /\ DOMAIN raw = 1..n
        /\ \A i \in 1..n : raw[i] \in CodeUnits
    OBVIOUS
  <1>2. base \in A /\ step \in [1..n -> [A -> A]]
    <2>1. \A i \in 1..n : \A a \in A : CollapseUnit(a, raw[i]) \in A
      BY <1>1, CollapseTypes
    <2> HIDE DEF A
    <2>2. base \in A
      BY DEF A
    <2>3. QED
      BY <2>1, <2>2
  <1>3. FoldLeft(CollapseUnit, <<>>, raw) = h[DOMAIN raw]
    BY DEF FoldLeft, MapThenFoldSet
  <1>4. h = Fold(h)
    <2>1. PICK g \in [SUBSET (1..n) -> A] : IsFoldLeft(g, n, base, step)
      <3> HIDE DEF n, A, base, step
      <3>1. QED
        BY <1>1, <1>2, FoldLeftExists
    <2>2. \A s \in SUBSET (1..n) : s # {} =>
             step[Max(s)][g[s \ {Max(s)}]] = CollapseUnit(g[s \ {Max(s)}], raw[Max(s)])
      <3> SUFFICES ASSUME NEW s \in SUBSET (1..n), s # {}
                   PROVE  step[Max(s)][g[s \ {Max(s)}]] = CollapseUnit(g[s \ {Max(s)}], raw[Max(s)])
        OBVIOUS
      <3>1. Max(s) \in 1..n /\ g[s \ {Max(s)}] \in A
        BY <1>1, MaxOfIndices
      <3> HIDE DEF A
      <3>2. QED
        BY <3>1
    <2>3. g = Fold(g)
      BY <1>1, <2>1, <2>2 DEF IsFoldLeft
    <2> HIDE DEF Fold
    <2>4. QED
      BY <2>3
  <1> HIDE DEF h
  <1>5. Advances(h, n, A, base, step)
    <2>1. h[{}] = base
      BY <1>4
    <2>2. ASSUME NEW k \in 1..n, h[1..k - 1] \in A
          PROVE  h[1..k] = step[k][h[1..k - 1]]
      <3>1. 1..k \in SUBSET (1..n) /\ 1..k # {}
        BY <1>1, PrefixIndices
      <3>2. h[1..k] = CollapseUnit(h[(1..k) \ {Max(1..k)}], raw[Max(1..k)])
        BY <1>1, <1>4, <3>1
      <3> HIDE DEF A
      <3>3. QED
        BY <1>1, <2>2, <3>2, MaxOfInterval
    <2>3. QED
      BY <2>1, <2>2 DEF Advances
  <1>6. PICK r \in [0..n -> A] : IsRounds(r, n, base, step) /\ r[n] = h[1..n]
    <2> HIDE DEF n, A, base, step
    <2>1. n \in Nat
      BY <1>1
    <2>2. HasRounds(h, n, A, base, step)
      BY <1>2, <1>5, <2>1, RoundsOf
    <2>3. QED
      BY <2>2 DEF HasRounds
  <1>7. \A k \in 1..n : r[k] = CollapseUnit(r[k - 1], raw[k])
    <2> SUFFICES ASSUME NEW k \in 1..n  PROVE r[k] = CollapseUnit(r[k - 1], raw[k])
      OBVIOUS
    <2>1. k - 1 \in 0..n
      BY <1>1
    <2> HIDE DEF A
    <2>2. QED
      BY <1>6, <2>1 DEF IsRounds
  <1>8. QED
    BY <1>1, <1>3, <1>6, <1>7 DEF IsRounds

\* A name that was accepted has nothing to collapse.
LEMMA NameCollapsesToItself ==
    ASSUME NEW v \in Seq(NameUnits), v # <<>>, IsName(v)
    PROVE  Collapsed(v) = v
  <1> DEFINE n == Len(v)
             Same(s, k) == Len(s) = k /\ \A i \in 1..k : s[i] = v[i]
  <1>1. /\ n \in Nat /\ n >= 1 /\ v \in Seq(CodeUnits)
        /\ \A i \in 1..n : v[i] \in NameUnits
        /\ \A i \in 1..n : v[i] \in CodeUnits
    <2>1. n \in Nat /\ n >= 1 /\ \A i \in 1..n : v[i] \in NameUnits
      OBVIOUS
    <2>2. v \in Seq(CodeUnits)
      BY UnitFacts
    <2>3. QED
      BY <2>1, <2>2, UnitFacts
  <1>2. v[1] \notin Blanks /\ v[n] \notin Blanks
    BY UnitFacts DEF IsName
  <1>3. Trim(v) = v
    BY <1>1, <1>2, TrimOfTrimmed DEF IsTrimmed
  <1>4. PICK r \in [0..n -> Seq(NameUnits)] :
              /\ r[0] = <<>>
              /\ \A k \in 1..n : r[k] = CollapseUnit(r[k - 1], v[k])
              /\ r[n] = FoldLeft(CollapseUnit, <<>>, v)
    BY <1>1, CollapseRounds
  <1> DEFINE S == {k \in 0..n : Same(r[k], k)}
  <1>5. 0 \in S
    <2>1. Len(<<>>) = 0 /\ 0 \in 0..n
      BY <1>1
    <2>2. \A s : Same(s, 0) <=> Len(s) = 0
      OBVIOUS
    <2> HIDE DEF Same
    <2>3. QED
      BY <1>4, <2>1, <2>2
  <1>6. ASSUME NEW k \in 0..n - 1, k \in S  PROVE k + 1 \in S
    <2>1. /\ k + 1 \in 1..n /\ k + 1 \in 0..n /\ (k + 1) - 1 = k /\ k \in 0..n /\ k \in Nat
          /\ (k # 0 => k \in 1..n /\ k + 1 \in 2..n)
      BY <1>1
    <2> DEFINE s == r[k]
               t == r[k + 1]
               u == v[k + 1]
    <2>2. s \in Seq(NameUnits) /\ Same(s, k)
      BY <1>4, <1>6, <2>1
    <2>3. t = CollapseUnit(s, u) /\ u \in NameUnits
      BY <1>1, <1>4, <2>1
    <2>4. u \in Blanks => u = Space /\ k # 0 /\ v[k] \in Letters
      <3>1. u \in Blanks => u = Space
        BY <2>3, UnitFacts
      <3>2. k = 0 => u \notin Blanks
        BY <1>2
      <3>3. k # 0 => u \in Letters \/ v[k] \in Letters
        BY <2>1 DEF IsName
      <3>4. u \in Letters => u \notin Blanks
        BY UnitFacts
      <3>5. QED
        BY <3>1, <3>2, <3>3, <3>4
    <2>5. u \in Blanks => Last(s) # Space
      <3> SUFFICES ASSUME u \in Blanks  PROVE Last(s) # Space
        OBVIOUS
      <3>1. k \in 1..k /\ v[k] # Space
        BY <2>1, <2>4, UnitFacts
      <3>2. Last(s) = v[k]
        BY <2>2, <3>1 DEF Last
      <3>3. QED
        BY <3>1, <3>2
    <2>6. t = Append(s, u)
      <3> HIDE DEF s, t, u
      <3>1. QED
        BY <2>3, <2>4, <2>5 DEF CollapseUnit
    <2> HIDE DEF s, t
    <2>7. Len(t) = k + 1 /\ \A i \in 1..k : t[i] = s[i]
      BY <2>1, <2>2, <2>3, <2>6
    <2>8. t[k + 1] = v[k + 1]
      BY <2>1, <2>2, <2>3, <2>6
    <2>9. Same(t, k + 1)
      BY <2>1, <2>2, <2>7, <2>8
    <2>10. QED
      BY <2>1, <2>9 DEF t
  <1>7. n \in S
    <2> HIDE DEF S, n
    <2>1. \A k \in 0..n : k \in S
      BY <1>1, <1>5, <1>6, IntervalInduction
    <2>2. QED
      BY <1>1, <2>1
  <1>8. r[n] \in Seq(NameUnits) /\ Same(r[n], n)
    BY <1>1, <1>4, <1>7
  <1>9. r[n] = v
    BY <1>8, SameSequence
  <1>10. QED
    BY <1>3, <1>4, <1>9 DEF Collapsed

LEMMA CollapsedType ==
    ASSUME NEW raw \in Seq(CodeUnits)
    PROVE  Collapsed(raw) \in Seq(NameUnits)
  <1> DEFINE s == Trim(raw)
  <1>1. s \in Seq(CodeUnits) /\ Len(s) \in 0..Len(s)
    <2>1. s \in Seq(CodeUnits)
      BY TrimIs
    <2> HIDE DEF s
    <2>2. QED
      BY <2>1
  <1> HIDE DEF s
  <1>2. PICK r \in [0..Len(s) -> Seq(NameUnits)] : r[Len(s)] = FoldLeft(CollapseUnit, <<>>, s)
    BY <1>1, CollapseRounds
  <1>3. QED
    BY <1>1, <1>2 DEF Collapsed, s

LEMMA NameIsStable ==
    ASSUME NEW raw \in Seq(CodeUnits)
    PROVE  IsStable("Name", raw)
  <1>1. \A s : Parse("Name", s) = Name(s)
    BY DEF Parse
  <1> SUFFICES ASSUME Name(raw).ok
               PROVE  Name(Name(raw).value) = Name(raw) /\ Name(raw) = Ok(Name(raw).value)
    BY <1>1 DEF IsStable
  <1> DEFINE v == Collapsed(raw)
  <1>2. v \in Seq(NameUnits)
    BY CollapsedType
  <1>3. \A e : Err(e).ok = FALSE
    BY DEF Err
  <1>4. \A x : Ok(x).value = x
    BY DEF Ok
  <1> HIDE DEF v
  <1>5. Name(raw) = Ok(v) /\ v # <<>> /\ IsName(v)
    BY <1>3 DEF Name, v
  <1>6. Collapsed(v) = v
    BY <1>2, <1>5, NameCollapsesToItself
  <1>7. Name(v) = Name(raw)
    BY <1>6 DEF Name, v
  <1>8. QED
    BY <1>4, <1>5, <1>7
-----------------------------------------------------------------------------
(***************************************************************************)
(* The emails: lower case, which may be longer, and its lower case.        *)
(***************************************************************************)

LowUnits == CodeUnits \ (65..90 \cup {304})
Marks == Blanks \cup {At}

LEMMA SmallLetters == 97..122 \subseteq LowUnits
  <1> DEFINE small == 97..122
             capitals == 65..90
  <1>1. small \subseteq CodeUnits
    BY DEF CodeUnits
  <1>2. small \cap capitals = {} /\ 304 \notin small
    OBVIOUS
  <1> HIDE DEF small, capitals
  <1>3. small \subseteq CodeUnits \ (capitals \cup {304})
    BY <1>1, <1>2
  <1>4. QED
    BY <1>3 DEF LowUnits, small, capitals

LEMMA LowUnitFacts ==
    /\ LowUnits \subseteq CodeUnits /\ At \in LowUnits /\ Dot \in LowUnits
    /\ Dot \notin Marks /\ At \in Marks /\ Blanks \subseteq Marks
    /\ \A u \in LowUnits : LowerUnit(u) = <<u>>
  <1>1. At \in LowUnits /\ Dot \in LowUnits
    BY DEF LowUnits, CodeUnits, At, Dot
  <1>2. Dot \notin Marks
    BY DEF Marks, Blanks, Dot, At, Space
  <1>3. QED
    BY <1>1, <1>2 DEF LowUnits, Marks, LowerUnit

LEMMA LowerUnitIs ==
    ASSUME NEW u \in CodeUnits
    PROVE  /\ LowerUnit(u) \in Seq(LowUnits) /\ Len(LowerUnit(u)) \in {1, 2}
           /\ u \notin Marks => \A i \in 1..Len(LowerUnit(u)) : LowerUnit(u)[i] \notin Marks
           /\ u \in {At, Dot} => LowerUnit(u) = <<u>>
  <1>1. CASE u \in 65..90
    <2>1. LowerUnit(u) = <<u + 32>>
      BY <1>1 DEF LowerUnit
    <2>2. u + 32 \in LowUnits
      <3>1. u + 32 \in 97..122
        BY <1>1
      <3>2. 97..122 \subseteq LowUnits
        BY SmallLetters
      <3>3. QED
        BY <3>1, <3>2
    <2>3. u + 32 \notin Marks
      BY <1>1 DEF Marks, Blanks, At, Space
    <2>4. u \notin {At, Dot}
      BY <1>1 DEF At, Dot
    <2> DEFINE x == u + 32
    <2>5. x \in LowUnits /\ x \notin Marks /\ LowerUnit(u) = <<x>>
      BY <2>1, <2>2, <2>3
    <2> HIDE DEF x
    <2>6. QED
      BY <2>4, <2>5
  <1>2. CASE u = 304
    <2>1. LowerUnit(u) = <<105, 775>>
      BY <1>2 DEF LowerUnit
    <2>2. 105 \in LowUnits /\ 775 \in LowUnits
      BY DEF LowUnits, CodeUnits
    <2>3. 105 \notin Marks /\ 775 \notin Marks
      BY DEF Marks, Blanks, At, Space
    <2>4. u \notin {At, Dot}
      BY <1>2 DEF At, Dot
    <2> DEFINE x == 105
               y == 775
    <2>5. x \in LowUnits /\ x \notin Marks /\ y \in LowUnits /\ y \notin Marks /\ LowerUnit(u) = <<x, y>>
      BY <2>1, <2>2, <2>3
    <2> HIDE DEF x, y
    <2>6. LowerUnit(u) \in Seq(LowUnits) /\ Len(LowerUnit(u)) = 2
      BY <2>5
    <2>7. \A i \in 1..2 : i = 1 \/ i = 2
      OBVIOUS
    <2>8. \A i \in 1..2 : LowerUnit(u)[i] \notin Marks
      BY <2>5, <2>7
    <2>9. QED
      BY <2>4, <2>6, <2>8
  <1>3. CASE u \notin 65..90 /\ u # 304
    <2>1. LowerUnit(u) = <<u>> /\ u \in LowUnits
      BY <1>3 DEF LowerUnit, LowUnits
    <2>2. QED
      BY <2>1
  <1>4. QED
    BY <1>1, <1>2, <1>3

\* One more unit in lower case.
LowerGrows(s, u, t) ==
    /\ t \in Seq(LowUnits) /\ Len(t) \in {Len(s) + 1, Len(s) + 2}
    /\ \A i \in 1..Len(s) : t[i] = s[i]
    /\ u \notin Marks => \A i \in 1..Len(t) : i > Len(s) => t[i] \notin Marks
    /\ u \in {At, Dot} => Len(t) = Len(s) + 1 /\ t[Len(t)] = u

LEMMA LowerStep ==
    ASSUME NEW s \in Seq(LowUnits), NEW u \in CodeUnits, NEW t, t = s \o LowerUnit(u)
    PROVE  LowerGrows(s, u, t)
  <1> DEFINE w == LowerUnit(u)
  <1>1. /\ w \in Seq(LowUnits) /\ Len(w) \in {1, 2}
        /\ u \notin Marks => \A i \in 1..Len(w) : w[i] \notin Marks
        /\ u \in {At, Dot} => Len(w) = 1 /\ w[1] = u
    BY LowerUnitIs
  <1> HIDE DEF w
  <1>2. w \in Seq(LowUnits) /\ t = s \o w
    BY <1>1 DEF w
  <1>3. /\ s \o w \in Seq(LowUnits) /\ Len(s \o w) = Len(s) + Len(w)
        /\ \A i \in 1..Len(s) : (s \o w)[i] = s[i]
        /\ \A i \in 1..Len(w) : (s \o w)[Len(s) + i] = w[i]
    BY <1>2, ConcatIs
  <1>4. /\ t \in Seq(LowUnits) /\ Len(t) = Len(s) + Len(w)
        /\ \A i \in 1..Len(s) : t[i] = s[i]
        /\ \A i \in 1..Len(w) : t[Len(s) + i] = w[i]
    BY <1>2, <1>3, Zenon
  <1> DEFINE m == Len(s)
             l == Len(w)
  <1>5. m \in Nat /\ l \in {1, 2} /\ Len(t) = m + l
    BY <1>1, <1>4
  <1> HIDE DEF m, l
  <1>6. \A i \in 1..m + l : i > m => i - m \in 1..l /\ i = m + (i - m)
    BY <1>5
  <1>7. u \notin Marks => \A i \in 1..Len(t) : i > Len(s) => t[i] \notin Marks
    BY <1>1, <1>4, <1>5, <1>6 DEF m, l
  <1>8. m + l \in {m + 1, m + 2} /\ 1 \in 1..l
    BY <1>5
  <1>9. u \in {At, Dot} => Len(t) = Len(s) + 1 /\ t[Len(t)] = u
    BY <1>1, <1>4, <1>5, <1>8 DEF m, l
  <1>10. QED
    BY <1>4, <1>5, <1>7, <1>8, <1>9 DEF m, l, LowerGrows

\* The lower case of a string, one unit after the other.
LEMMA LowerRounds ==
    ASSUME NEW raw \in Seq(CodeUnits)
    PROVE  \E r \in [0..Len(raw) -> Seq(LowUnits)] :
              /\ r[0] = <<>>
              /\ \A k \in 1..Len(raw) : r[k] = r[k - 1] \o LowerUnit(raw[k])
              /\ r[Len(raw)] = Lower(raw)
  <1> DEFINE n == Len(raw)
             A == Seq(LowUnits)
             base == <<>>
             step == [i \in 1..n |-> [a \in A |-> a \o LowerUnit(raw[i])]]
             Fold(g) == [s \in SUBSET (DOMAIN raw) |->
                           IF s = {} THEN base
                           ELSE g[s \ {Max(s)}] \o LowerUnit(raw[Max(s)])]
             h == CHOOSE g : g = Fold(g)
  <1>1. /\ n \in Nat /\ DOMAIN raw = 1..n
        /\ \A i \in 1..n : raw[i] \in CodeUnits
    OBVIOUS
  <1>2. base \in A /\ step \in [1..n -> [A -> A]]
    <2>1. \A i \in 1..n : \A a \in A : a \o LowerUnit(raw[i]) \in A
      BY <1>1, LowerStep DEF LowerGrows
    <2> HIDE DEF A
    <2>2. base \in A
      BY DEF A
    <2>3. QED
      BY <2>1, <2>2
  <1>3. Lower(raw) = h[DOMAIN raw]
    BY DEF Lower, FoldLeft, MapThenFoldSet
  <1>4. h = Fold(h)
    <2>1. PICK g \in [SUBSET (1..n) -> A] : IsFoldLeft(g, n, base, step)
      <3> HIDE DEF n, A, base, step
      <3>1. QED
        BY <1>1, <1>2, FoldLeftExists
    <2>2. \A s \in SUBSET (1..n) : s # {} =>
             step[Max(s)][g[s \ {Max(s)}]] = g[s \ {Max(s)}] \o LowerUnit(raw[Max(s)])
      <3> SUFFICES ASSUME NEW s \in SUBSET (1..n), s # {}
                   PROVE  step[Max(s)][g[s \ {Max(s)}]] = g[s \ {Max(s)}] \o LowerUnit(raw[Max(s)])
        OBVIOUS
      <3>1. Max(s) \in 1..n /\ g[s \ {Max(s)}] \in A
        BY <1>1, MaxOfIndices
      <3> HIDE DEF A
      <3>2. QED
        BY <3>1
    <2>3. g = Fold(g)
      BY <1>1, <2>1, <2>2 DEF IsFoldLeft
    <2> HIDE DEF Fold
    <2>4. QED
      BY <2>3
  <1> HIDE DEF h
  <1>5. Advances(h, n, A, base, step)
    <2>1. h[{}] = base
      BY <1>4
    <2>2. ASSUME NEW k \in 1..n, h[1..k - 1] \in A
          PROVE  h[1..k] = step[k][h[1..k - 1]]
      <3>1. 1..k \in SUBSET (1..n) /\ 1..k # {}
        BY <1>1, PrefixIndices
      <3>2. h[1..k] = h[(1..k) \ {Max(1..k)}] \o LowerUnit(raw[Max(1..k)])
        BY <1>1, <1>4, <3>1
      <3> HIDE DEF A
      <3>3. QED
        BY <1>1, <2>2, <3>2, MaxOfInterval
    <2>3. QED
      BY <2>1, <2>2 DEF Advances
  <1>6. PICK r \in [0..n -> A] : IsRounds(r, n, base, step) /\ r[n] = h[1..n]
    <2> HIDE DEF n, A, base, step
    <2>1. n \in Nat
      BY <1>1
    <2>2. HasRounds(h, n, A, base, step)
      BY <1>2, <1>5, <2>1, RoundsOf
    <2>3. QED
      BY <2>2 DEF HasRounds
  <1>7. \A k \in 1..n : r[k] = r[k - 1] \o LowerUnit(raw[k])
    <2> SUFFICES ASSUME NEW k \in 1..n  PROVE r[k] = r[k - 1] \o LowerUnit(raw[k])
      OBVIOUS
    <2>1. k - 1 \in 0..n
      BY <1>1
    <2> HIDE DEF A
    <2>2. QED
      BY <1>6, <2>1 DEF IsRounds
  <1>8. QED
    BY <1>1, <1>3, <1>6, <1>7 DEF IsRounds

LEMMA LowerOfLower ==
    ASSUME NEW d \in Seq(LowUnits)
    PROVE  Lower(d) = d
  <1> DEFINE n == Len(d)
             Same(s, k) == Len(s) = k /\ \A i \in 1..k : s[i] = d[i]
  <1>1. n \in Nat /\ d \in Seq(CodeUnits) /\ \A i \in 1..n : d[i] \in LowUnits
    <2>1. LowUnits \subseteq CodeUnits
      BY LowUnitFacts
    <2>2. QED
      BY <2>1
  <1>2. PICK r \in [0..n -> Seq(LowUnits)] :
              /\ r[0] = <<>>
              /\ \A k \in 1..n : r[k] = r[k - 1] \o LowerUnit(d[k])
              /\ r[n] = Lower(d)
    BY <1>1, LowerRounds
  <1> DEFINE S == {k \in 0..n : Same(r[k], k)}
  <1>3. 0 \in S
    <2>1. Len(<<>>) = 0 /\ 0 \in 0..n
      BY <1>1
    <2>2. \A s : Same(s, 0) <=> Len(s) = 0
      OBVIOUS
    <2> HIDE DEF Same
    <2>3. QED
      BY <1>2, <2>1, <2>2
  <1>4. ASSUME NEW k \in 0..n - 1, k \in S  PROVE k + 1 \in S
    <2>1. k + 1 \in 1..n /\ k + 1 \in 0..n /\ (k + 1) - 1 = k /\ k \in 0..n /\ k \in Nat
      BY <1>1
    <2> DEFINE s == r[k]
               t == r[k + 1]
               u == d[k + 1]
    <2>2. s \in Seq(LowUnits) /\ Same(s, k)
      BY <1>2, <1>4, <2>1
    <2>3. t = s \o LowerUnit(u) /\ u \in LowUnits
      BY <1>1, <1>2, <2>1
    <2> HIDE DEF s, t, u
    <2>4. t = s \o <<u>>
      BY <2>3, LowUnitFacts
    <2>5. s \o <<u>> = Append(s, u)
      BY <2>2
    <2>6. t = Append(s, u)
      BY <2>4, <2>5
    <2>7. Len(t) = k + 1 /\ \A i \in 1..k : t[i] = s[i]
      BY <2>1, <2>2, <2>3, <2>6
    <2>8. t[k + 1] = d[k + 1]
      BY <2>1, <2>2, <2>3, <2>6 DEF u
    <2>9. Same(t, k + 1)
      BY <2>1, <2>2, <2>7, <2>8
    <2>10. QED
      BY <2>1, <2>9 DEF t
  <1>5. n \in S
    <2> HIDE DEF S, n
    <2>1. \A k \in 0..n : k \in S
      BY <1>1, <1>3, <1>4, IntervalInduction
    <2>2. QED
      BY <1>1, <2>1
  <1>6. r[n] \in Seq(LowUnits) /\ Same(r[n], n)
    BY <1>1, <1>2, <1>5
  <1>7. r[n] = d
    BY <1>6, SameSequence
  <1>8. QED
    BY <1>2, <1>7

\* Where the sign and the last dot are after k units, with p and q their places.
EmailSoFar(s, k, at, dot, p, q) ==
    /\ k <= Len(s)
    /\ k < at => \A i \in 1..Len(s) : s[i] \notin Marks
    /\ k >= at => /\ p \in 1..Len(s) /\ s[p] = At /\ Len(s) - k >= p - at
                  /\ \A i \in 1..Len(s) : i # p => s[i] \notin Marks
    /\ k >= dot => q \in 1..Len(s) /\ s[q] = Dot /\ Len(s) - k >= q - dot

LEMMA EmailGrows ==
    ASSUME NEW s \in Seq(LowUnits), NEW u \in CodeUnits, NEW t, t = s \o LowerUnit(u),
           NEW k \in Nat, NEW at \in Nat, NEW dot \in Nat, NEW p \in Int, NEW q \in Int,
           at < dot, EmailSoFar(s, k, at, dot, p, q),
           k + 1 = at => u = At /\ p = Len(t),
           k + 1 = dot => u = Dot /\ q = Len(t),
           k + 1 # at => u \notin Marks
    PROVE  t \in Seq(LowUnits) /\ EmailSoFar(t, k + 1, at, dot, p, q)
  <1> DEFINE m == Len(s)
             l == Len(t)
  <1>1. /\ t \in Seq(LowUnits) /\ l \in {m + 1, m + 2}
        /\ \A i \in 1..m : t[i] = s[i]
        /\ u \notin Marks => \A i \in 1..l : i > m => t[i] \notin Marks
        /\ u \in {At, Dot} => l = m + 1 /\ t[l] = u
    <2>1. LowerGrows(s, u, t)
      BY LowerStep
    <2>2. QED
      BY <2>1, Zenon DEF LowerGrows
  <1>2. m \in Nat /\ l \in Nat
    BY <1>1
  <1>3. /\ k <= m
        /\ k < at => \A i \in 1..m : s[i] \notin Marks
        /\ k >= at => /\ p \in 1..m /\ s[p] = At /\ m - k >= p - at
                      /\ \A i \in 1..m : i # p => s[i] \notin Marks
        /\ k >= dot => q \in 1..m /\ s[q] = Dot /\ m - k >= q - dot
    BY DEF EmailSoFar
  <1>4. /\ k + 1 = at => u = At /\ p = l
        /\ k + 1 = dot => u = Dot /\ q = l
    OBVIOUS
  <1> HIDE DEF m, l
  <1>5. k + 1 <= l
    BY <1>1, <1>2, <1>3
  <1>6. l - (k + 1) >= m - k /\ 1..m \subseteq 1..l
    <2>1. l >= m + 1
      BY <1>1, <1>2
    <2>2. QED
      BY <1>2, <2>1
  <1>7. ASSUME k + 1 < at  PROVE \A i \in 1..l : t[i] \notin Marks
    <2> SUFFICES ASSUME NEW i \in 1..l  PROVE t[i] \notin Marks
      OBVIOUS
    <2>1. k < at /\ k + 1 # at
      BY <1>7
    <2>2. CASE i > m
      BY <1>1, <2>1, <2>2
    <2>3. CASE ~(i > m)
      <3>1. i \in 1..m
        BY <1>2, <2>3
      <3>2. QED
        BY <1>1, <1>3, <2>1, <3>1
    <2>4. QED
      BY <2>2, <2>3
  <1>8. ASSUME k + 1 >= at
        PROVE  /\ p \in 1..l /\ t[p] = At /\ l - (k + 1) >= p - at
               /\ \A i \in 1..l : i # p => t[i] \notin Marks
    <2>1. CASE k + 1 = at
      <3>1. p = l /\ l = m + 1 /\ t[p] = At
        BY <1>1, <1>4, <2>1
      <3>2. \A i \in 1..l : i # p => i \in 1..m
        BY <1>2, <3>1
      <3>3. k < at
        BY <2>1
      <3>4. \A i \in 1..l : i # p => t[i] \notin Marks
        BY <1>1, <1>3, <3>2, <3>3
      <3>5. p \in 1..l /\ l - (k + 1) >= p - at
        <4>1. l \in 1..l /\ l - at >= l - at
          BY <1>2, <3>1
        <4>2. QED
          BY <2>1, <3>1, <4>1, Zenon
      <3>6. QED
        BY <3>1, <3>4, <3>5
    <2>2. CASE k + 1 # at
      <3>1. k >= at /\ u \notin Marks
        BY <1>8, <2>2
      <3>2. p \in 1..m /\ t[p] = At /\ m - k >= p - at
        BY <1>1, <1>3, <3>1
      <3>3. p \in 1..l /\ l - (k + 1) >= p - at
        BY <1>2, <1>6, <3>2
      <3>4. \A i \in 1..l : i > m \/ i \in 1..m
        BY <1>2
      <3>5. \A i \in 1..l : i # p => t[i] \notin Marks
        BY <1>1, <1>3, <3>1, <3>4
      <3>6. QED
        BY <3>2, <3>3, <3>5
    <2>3. QED
      BY <2>1, <2>2
  <1>9. ASSUME k + 1 >= dot
        PROVE  q \in 1..l /\ t[q] = Dot /\ l - (k + 1) >= q - dot
    <2>1. CASE k + 1 = dot
      <3>1. q = l /\ l = m + 1 /\ t[q] = Dot
        BY <1>1, <1>4, <2>1
      <3>2. q \in 1..l /\ l - (k + 1) >= q - dot
        BY <1>2, <2>1, <3>1
      <3>3. QED
        BY <3>1, <3>2
    <2>2. CASE k + 1 # dot
      <3>1. k >= dot
        BY <1>9, <2>2
      <3>2. q \in 1..m /\ t[q] = Dot /\ m - k >= q - dot
        BY <1>1, <1>3, <3>1
      <3>3. q \in 1..l /\ l - (k + 1) >= q - dot
        BY <1>2, <1>6, <3>2
      <3>4. QED
        BY <3>2, <3>3
    <2>3. QED
      BY <2>1, <2>2
  <1>10. QED
    BY <1>1, <1>5, <1>7, <1>8, <1>9 DEF EmailSoFar, l

\* An address in lower case is an address.
LEMMA LowerIsEmail ==
    ASSUME NEW t \in Seq(CodeUnits), IsEmail(t)
    PROVE  Lower(t) \in Seq(LowUnits) /\ IsEmail(Lower(t))
  <1> DEFINE n == Len(t)
             v == Lower(t)
  <1>1. PICK at \in 1..n, dot \in 1..n :
              /\ 1 < at /\ at + 1 < dot /\ dot < n
              /\ t[at] = At /\ t[dot] = Dot
              /\ \A i \in 1..n \ {at} : t[i] \notin Marks
    BY DEF IsEmail, Marks
  <1>2. n \in Nat /\ \A i \in 1..n : t[i] \in CodeUnits
    OBVIOUS
  <1>3. PICK r \in [0..n -> Seq(LowUnits)] :
              /\ r[0] = <<>>
              /\ \A k \in 1..n : r[k] = r[k - 1] \o LowerUnit(t[k])
              /\ r[n] = v
    BY LowerRounds
  <1> DEFINE p == Len(r[at])
             q == Len(r[dot])
             S == {k \in 0..n : EmailSoFar(r[k], k, at, dot, p, q)}
  <1>4. at \in 0..n /\ dot \in 0..n /\ n \in 0..n /\ at \in Nat /\ dot \in Nat /\ at < dot
    BY <1>1, <1>2
  <1>5. p \in Int /\ q \in Int
    BY <1>3, <1>4
  <1>6. 0 \in S
    <2>1. Len(<<>>) = 0 /\ 0 \in 0..n /\ 0 < at /\ ~(0 >= at) /\ ~(0 >= dot) /\ 0 <= 0 /\ 1..0 = {}
      BY <1>1, <1>2
    <2> HIDE DEF p, q
    <2>2. EmailSoFar(<<>>, 0, at, dot, p, q)
      BY <2>1 DEF EmailSoFar
    <2>3. QED
      BY <1>3, <2>1, <2>2
  <1>7. ASSUME NEW k \in 0..n - 1, k \in S  PROVE k + 1 \in S
    <2> DEFINE s == r[k]
               w == r[k + 1]
               u == t[k + 1]
    <2>1. k + 1 \in 1..n /\ k + 1 \in 0..n /\ (k + 1) - 1 = k /\ k \in 0..n /\ k \in Nat
      BY <1>2
    <2>2. s \in Seq(LowUnits) /\ u \in CodeUnits /\ w = s \o LowerUnit(u)
      BY <1>2, <1>3, <2>1
    <2>3. EmailSoFar(s, k, at, dot, p, q)
      BY <1>7
    <2>4. /\ k + 1 = at => u = At /\ p = Len(w)
          /\ k + 1 = dot => u = Dot /\ q = Len(w)
          /\ k + 1 # at => u \notin Marks
      BY <1>1, <2>1
    <2> HIDE DEF s, w, u, p, q, S
    <2>5. EmailSoFar(w, k + 1, at, dot, p, q)
      BY <1>4, <1>5, <2>1, <2>2, <2>3, <2>4, EmailGrows
    <2>6. QED
      BY <2>1, <2>5 DEF S, w
  <1>8. \A k \in 0..n : k \in S
    <2> HIDE DEF S, n
    <2>1. QED
      BY <1>2, <1>6, <1>7, IntervalInduction
  <1>9. /\ EmailSoFar(r[at], at, at, dot, p, q) /\ EmailSoFar(r[dot], dot, at, dot, p, q)
        /\ EmailSoFar(v, n, at, dot, p, q)
    BY <1>3, <1>4, <1>8
  <1>10. v \in Seq(LowUnits) /\ Len(v) \in Nat /\ DOMAIN v = 1..Len(v)
    <2>1. v \in Seq(LowUnits)
      BY <1>3, <1>4
    <2> HIDE DEF v
    <2>2. QED
      BY <2>1
  <1>11. at <= p /\ q - dot >= p - at
    BY <1>4, <1>9 DEF EmailSoFar
  <1>12. /\ p \in 1..Len(v) /\ v[p] = At
         /\ \A i \in 1..Len(v) : i # p => v[i] \notin Marks
         /\ q \in 1..Len(v) /\ v[q] = Dot /\ Len(v) - n >= q - dot
    <2> HIDE DEF p, q, v
    <2>1. n >= at /\ n >= dot
      BY <1>1, <1>2
    <2>2. QED
      BY <1>9, <2>1 DEF EmailSoFar
  <1> HIDE DEF p, q, v, S
  <1>13. 1 < p /\ p + 1 < q /\ q < Len(v)
    BY <1>1, <1>2, <1>4, <1>5, <1>10, <1>11, <1>12
  <1>14. IsEmail(v)
    BY <1>10, <1>12, <1>13 DEF IsEmail, Marks
  <1>15. QED
    BY <1>10, <1>14 DEF v

LEMMA EmailIsTrimmed ==
    ASSUME NEW v \in Seq(CodeUnits), IsEmail(v)
    PROVE  Trim(v) = v /\ v # <<>>
  <1>1. PICK at \in 1..Len(v), dot \in 1..Len(v) :
              /\ 1 < at /\ at + 1 < dot /\ dot < Len(v)
              /\ \A i \in 1..Len(v) \ {at} : v[i] \notin Blanks \cup {At}
    BY DEF IsEmail
  <1>2. 1 \in 1..Len(v) \ {at} /\ Len(v) \in 1..Len(v) \ {at}
    BY <1>1
  <1>3. v # <<>> /\ v[1] \notin Blanks /\ v[Len(v)] \notin Blanks
    BY <1>1, <1>2
  <1>4. QED
    BY <1>3, TrimOfTrimmed DEF IsTrimmed

LEMMA EmailIsStable ==
    ASSUME NEW raw \in Seq(CodeUnits), Parse("Email", raw).ok
    PROVE  LET v == Parse("Email", raw).value IN
           /\ Parse("Email", raw) = Ok(v) /\ Len(v) \in Nat
           /\ Len(v) > EmailMax \/ Parse("Email", v) = Ok(v)
  <1>1. \A s : Parse("Email", s) = Email(s)
    BY DEF Parse
  <1> DEFINE t == Trim(raw)
             v == Lower(t)
  <1>2. t \in Seq(CodeUnits)
    BY TrimIs
  <1>3. \A e : Err(e).ok = FALSE
    BY DEF Err
  <1>4. \A x : Ok(x).value = x
    BY DEF Ok
  <1> HIDE DEF t, v
  <1>5. Email(raw) = Ok(v) /\ IsEmail(t)
    BY <1>1, <1>3 DEF Email, t, v
  <1>6. v \in Seq(LowUnits) /\ IsEmail(v)
    BY <1>2, <1>5, LowerIsEmail DEF v
  <1>7. v \in Seq(CodeUnits)
    BY <1>6, LowUnitFacts
  <1>8. Trim(v) = v /\ v # <<>>
    BY <1>6, <1>7, EmailIsTrimmed
  <1>9. Lower(v) = v
    BY <1>6, LowerOfLower
  <1>10. Len(v) > EmailMax \/ Email(v) = Ok(v)
    BY <1>6, <1>8, <1>9 DEF Email
  <1>11. Len(v) \in Nat
    BY <1>7
  <1>12. QED
    BY <1>1, <1>4, <1>5, <1>10, <1>11
-----------------------------------------------------------------------------
(***************************************************************************)
(* The behaviours: a function that has answered has answered its result.   *)
(***************************************************************************)

ResultIs(function, result(_)) ==
    called.function = function => answers = <<result(called.argument)>>

Results ==
    /\ ResultIs("generateChangeset", PerPackage)
    /\ ResultIs("createDefaultTopology",
                LAMBDA o : [exchanges |-> Exchanges(o), queues |-> Queues(o), bindings |-> Bindings(o)])
    /\ ResultIs("createNotifierEmailHelper",
                LAMBDA a : LET sent == PublishVideoOutcome(a.type, a.input) IN
                           [reached |-> Routed(a.topology, sent.exchange, sent.routingKey),
                            parsed |-> [t \in EventTypes |-> ParseEvent(t, sent.message)]])
    /\ ResultIs("all", All)
    /\ ResultIs("createReadinessCheck", ReadinessCheck)
    /\ ResultIs("isRetryableError",
                LAMBDA a : LET thrown == IF a.class = "unknown" THEN Unknown ELSE New(a.class, a.options)
                           IN [thrown |-> thrown, retryable |-> IsRetryableError(thrown)])
    /\ ResultIs("computeBackoffMs", LAMBDA a : ComputeBackoffMs(a.attempt, a.options))
    /\ ResultIs("createMetrics", Registries)
    /\ \A name \in ValueObjectNames : ResultIs(name, LAMBDA raw : Create(name, raw))

Told ==
    /\ called.function \in DOMAIN Arguments
    /\ called.argument \in Arguments[called.function]
    /\ answers # <<>> => Results

LEMMA ToldHolds == Spec => []Told
  <1>1. Init => Told
    BY DEF Init, Told
  <1>2. Told /\ [Next]_vars => Told'
    <2> SUFFICES ASSUME Told, [Next]_vars  PROVE Told'
      OBVIOUS
    <2>1. CASE UNCHANGED vars
      BY <2>1 DEF Told, Results, ResultIs, vars
    <2>2. CASE CreateValue
      <3>1. PICK name \in ValueObjectNames :
               /\ called.function = name /\ UNCHANGED called
               /\ answers' = <<Create(name, called.argument)>>
        BY <2>2 DEF CreateValue, Answers
      <3>2. name \notin {"generateChangeset", "createDefaultTopology",
                         "createNotifierEmailHelper", "all", "createReadinessCheck",
                         "isRetryableError", "computeBackoffMs", "createMetrics"}
        BY DEF ValueObjectNames
      <3>3. QED
        BY <3>1, <3>2 DEF Told, Results, ResultIs
    <2>3. CASE GenerateChangeset
      BY <2>3 DEF GenerateChangeset, Answers, Told, Results, ResultIs, ValueObjectNames
    <2>4. CASE CreateDefaultTopology
      BY <2>4 DEF CreateDefaultTopology, Answers, Told, Results, ResultIs, ValueObjectNames
    <2>5. CASE NotifyVideoOutcome
      BY <2>5 DEF NotifyVideoOutcome, Answers, Told, Results, ResultIs, ValueObjectNames
    <2>6. CASE CombineResults
      BY <2>6 DEF CombineResults, Answers, Told, Results, ResultIs, ValueObjectNames
    <2>7. CASE CheckReadiness
      BY <2>7 DEF CheckReadiness, Answers, Told, Results, ResultIs, ValueObjectNames
    <2>8. CASE JudgeError
      BY <2>8 DEF JudgeError, Answers, Told, Results, ResultIs, ValueObjectNames
    <2>9. CASE BackOff
      BY <2>9 DEF BackOff, Answers, Told, Results, ResultIs, ValueObjectNames
    <2>10. CASE RegisterMetrics
      BY <2>10 DEF RegisterMetrics, Answers, Told, Results, ResultIs, ValueObjectNames
    <2>11. QED
      BY <2>1, <2>2, <2>3, <2>4, <2>5, <2>6, <2>7, <2>8, <2>9, <2>10 DEF Next
  <1>3. QED
    BY <1>1, <1>2, PTL DEF Spec

\* The assumption on the argument that is being called with.
LEMMA CalledWith ==
    ASSUME Told
    PROVE  LET a == called.argument
               f == called.function
           IN /\ f = "generateChangeset" => a \in Seq(Commits)
              /\ f = "createDefaultTopology" => IsTopology(a)
              /\ f = "createNotifierEmailHelper" => IsOutcome(a)
              /\ f = "all" => AreResults(a)
              /\ f = "createReadinessCheck" => a \in Seq(Pings)
              /\ f = "isRetryableError" => a.class \in Classes \cup {"unknown"}
              /\ f = "computeBackoffMs" =>
                    /\ a.attempt \in Int /\ IsOption(a.options.multiplier, Nat)
                    /\ a.options.baseDelayMs \in 0..Infinity - 1
                    /\ a.options.maxDelayMs \in 0..Infinity
              /\ f = "createMetrics" => a \in Seq(MetricCalls)
              /\ f = "VideoFile" => a.name \in Seq(CodeUnits) /\ a.contentType \in Seq(CodeUnits)
              /\ f \in ValueObjectNames \ {"VideoFile"} => a \in Seq(CodeUnits)
  BY LibraryAssumption DEF Told, ValueObjectNames

\* generate-changeset.mjs, for every number of commits: the bump of a package is
\* the one the documents give the feat and fix commits that touch it, whatever
\* their order, unless a breaking chore touches it.
THEOREM BumpIsHighestHolds == Spec => []BumpIsHighest
  <1>1. Told => BumpIsHighest
    <2> SUFFICES ASSUME Told, Returned("generateChangeset"), NEW p \in Packages,
                        \A c \in Touching(p) : ~(c.type = "chore" /\ c.breaking)
                 PROVE  LET counted == {c \in Touching(p) : c.type \in {"feat", "fix"}} IN
                        answer[p] = IF \E c \in counted : c.breaking THEN Major
                                    ELSE IF \E c \in counted : c.type = "feat" THEN Minor
                                    ELSE IF counted # {} THEN Patch ELSE NoBump
      BY DEF BumpIsHighest
    <2>1. called.argument \in Seq(Commits) /\ answer = PerPackage(called.argument)
      BY CalledWith DEF Told, Results, ResultIs, Returned, answer
    <2>2. \A c \in ToSet(called.argument) : p \in c.dirs => ~(c.type = "chore" /\ c.breaking)
      BY DEF Touching
    <2>3. {c \in Touching(p) : c.type \in {"feat", "fix"}}
             = {c \in ToSet(called.argument) : p \in c.dirs /\ c.type \in {"feat", "fix"}}
      BY DEF Touching
    <2> HIDE DEF answer
    <2>4. QED
      BY <2>1, <2>2, <2>3, BumpAsDocumented
  <1>2. QED
    BY <1>1, ToldHolds, PTL

\* topology.ts and notifierEmailHelper.ts, for every topology whose dead-letter
\* names are its own: dead letters reach the shared queue and no other, and an
\* outcome reaches every queue bound to it and the one schema it is made for.
THEOREM MessagesArriveHolds == Spec => []MessagesArrive
  <1>1. Told => MessagesArrive
    <2>1. ASSUME Told, Returned("createDefaultTopology"), DlxOf(called.argument) # Events
          PROVE  DeadLettersArrive(called.argument)
      <3>1. IsTopology(called.argument)
        BY <2>1, CalledWith DEF Returned
      <3>2. LET o == called.argument IN
            answers = <<[exchanges |-> Exchanges(o), queues |-> Queues(o), bindings |-> Bindings(o)]>>
        BY <2>1 DEF Told, Results, ResultIs, Returned
      <3>3. QED
        BY <2>1, <3>1, <3>2, DeadLettersDoArrive
    <2>2. ASSUME Told, Returned("createNotifierEmailHelper")
          PROVE  OutcomeArrives(called.argument)
      <3>1. IsOutcome(called.argument)
        BY <2>2, CalledWith DEF Returned
      <3>2. LET a == called.argument
                sent == PublishVideoOutcome(a.type, a.input)
            IN answers = <<[reached |-> Routed(a.topology, sent.exchange, sent.routingKey),
                            parsed |-> [t \in EventTypes |-> ParseEvent(t, sent.message)]]>>
        BY <2>2 DEF Told, Results, ResultIs, Returned
      <3>3. QED
        BY <3>1, <3>2, OutcomeDoesArrive
    <2>3. QED
      BY <2>1, <2>2 DEF MessagesArrive
  <1>2. QED
    BY <1>1, ToldHolds, PTL

\* result.ts, create-readiness-check.ts and metrics.ts, for every number of
\* results, of checks and of calls on one registry: the first failure is the
\* answer, and nothing behind it is looked at or registered.
THEOREM FirstFailureWinsHolds == Spec => []FirstFailureWins
  <1>1. Told => FirstFailureWins
    <2>1. ASSUME Told, Returned("all")  PROVE FirstError(called.argument)
      <3>1. AreResults(called.argument) /\ answers = <<All(called.argument)>>
        BY <2>1, CalledWith DEF Told, Results, ResultIs, Returned
      <3>2. QED
        BY <3>1, AllIsFirstError
    <2>2. ASSUME Told, Returned("createReadinessCheck")  PROVE FirstFailure(called.argument)
      <3>1. called.argument \in Seq(Pings) /\ answers = <<ReadinessCheck(called.argument)>>
        BY <2>2, CalledWith DEF Told, Results, ResultIs, Returned
      <3>2. QED
        BY <3>1, ReadinessIsFirstFailure
    <2>3. ASSUME Told, Returned("createMetrics")  PROVE FirstClash(called.argument)
      <3> DEFINE calls == called.argument
      <3>1. calls \in Seq(MetricCalls) /\ answer = Registries(calls)
        BY <2>3, CalledWith DEF Told, Results, ResultIs, Returned, answer
      <3> HIDE DEF calls, answer
      <3>2. /\ answer \in Seq(RegistryStates) /\ Len(answer) = Len(calls) + 1
            /\ \A i \in 1..Len(calls) : answer[i + 1] = Call(answer[i], calls[i])
        BY <3>1, RegistriesFollow
      <3>3. ASSUME NEW i \in DOMAIN calls, calls[i].function = "createMetrics"
            PROVE  LET names == Names(calls[i].collectDefaults)
                       taken == {j \in DOMAIN names : names[j] \in answer[i].names}
                       added == {names[j] : j \in {k \in DOMAIN names : \A t \in taken : k < t}}
                   IN answer[i + 1] = [service |-> calls[i].service,
                                       names |-> answer[i].names \cup added, thrown |-> taken # {}]
        <4>1. /\ i \in 1..Len(calls) /\ calls[i] \in MetricCalls /\ answer[i] \in RegistryStates
              /\ answer[i + 1] = Call(answer[i], calls[i])
          BY <3>1, <3>2
        <4>2. calls[i].service \in Services /\ calls[i].collectDefaults \in BOOLEAN
          BY <3>3, <4>1 DEF MetricCalls, Services
        <4>3. answer[i + 1] = CreateMetrics(answer[i], calls[i].service, calls[i].collectDefaults)
          BY <3>3, <4>1 DEF Call
        <4>4. QED
          BY <4>1, <4>2, <4>3, CreateMetricsStops
      <3>4. \A c \in BOOLEAN :
               Names(c) = IF c THEN <<DefaultMetrics>> \o TechnicalMetrics ELSE TechnicalMetrics
        <4>1. TechnicalMetrics \in Seq(STRING \cup Technical)
          BY DEF TechnicalMetrics, Technical, ToSet
        <4> HIDE DEF Technical
        <4>2. <<>> \o TechnicalMetrics = TechnicalMetrics
          BY <4>1
        <4>3. QED
          BY <4>2 DEF Names
      <3>5. FirstClash(calls)
        <4> SUFFICES ASSUME NEW i \in DOMAIN calls, calls[i].function = "createMetrics"
                     PROVE  LET names == IF calls[i].collectDefaults
                                         THEN <<DefaultMetrics>> \o TechnicalMetrics
                                         ELSE TechnicalMetrics
                                taken == {j \in DOMAIN names : names[j] \in answer[i].names}
                                added == {names[j] : j \in {k \in DOMAIN names : \A t \in taken : k < t}}
                            IN answer[i + 1] = [service |-> calls[i].service,
                                                names |-> answer[i].names \cup added,
                                                thrown |-> taken # {}]
          BY DEF FirstClash
        <4>1. calls[i].collectDefaults \in BOOLEAN
          BY <3>1 DEF MetricCalls
        <4> DEFINE names == Names(calls[i].collectDefaults)
        <4>2. names = IF calls[i].collectDefaults THEN <<DefaultMetrics>> \o TechnicalMetrics
                                                  ELSE TechnicalMetrics
          BY <3>4, <4>1
        <4>3. LET taken == {j \in DOMAIN names : names[j] \in answer[i].names}
                  added == {names[j] : j \in {k \in DOMAIN names : \A t \in taken : k < t}}
              IN answer[i + 1] = [service |-> calls[i].service,
                                  names |-> answer[i].names \cup added, thrown |-> taken # {}]
          BY <3>3
        <4> HIDE DEF names
        <4>4. QED
          BY <4>2, <4>3
      <3>6. QED
        BY <3>5 DEF calls
    <2>4. QED
      BY <2>1, <2>2, <2>3 DEF FirstFailureWins
  <1>2. QED
    BY <1>1, ToldHolds, PTL

\* is-retryable.ts and retry.ts, for every error and for every attempt, base, cap
\* and multiplier but base 0 with an infinite power: what an error advises, and
\* that each wait is the multiple of the one before, up to the cap.
THEOREM RetryAdviceHoldsAlways == Spec => []RetryAdviceHolds
  <1>1. Told => RetryAdviceHolds
    <2>1. ASSUME Told, Returned("isRetryableError")  PROVE ErrorsAdvise(called.argument)
      <3> DEFINE a == called.argument
      <3>1. a.class \in Classes \cup {"unknown"}
        BY <2>1, CalledWith DEF Returned
      <3>2. LET thrown == IF a.class = "unknown" THEN Unknown ELSE New(a.class, a.options)
            IN answers = <<[thrown |-> thrown, retryable |-> IsRetryableError(thrown)]>>
        BY <2>1 DEF Told, Results, ResultIs, Returned
      <3> HIDE DEF a
      <3>3. QED
        BY <3>1, <3>2, ErrorsDoAdvise DEF a
    <2>2. ASSUME Told, Returned("computeBackoffMs")  PROVE WaitsGrow(called.argument)
      <3> DEFINE a == called.argument
      <3>1. /\ a.attempt \in Int /\ IsOption(a.options.multiplier, Nat)
            /\ a.options.baseDelayMs \in 0..Infinity - 1
            /\ a.options.maxDelayMs \in 0..Infinity
        BY <2>2, CalledWith DEF Returned
      <3>2. answers = <<ComputeBackoffMs(a.attempt, a.options)>>
        BY <2>2 DEF Told, Results, ResultIs, Returned
      <3> HIDE DEF a
      <3>3. WaitsGrow(a)
        BY <3>1, <3>2, WaitsDoGrow
      <3>4. QED
        BY <3>3 DEF a
    <2>3. QED
      BY <2>1, <2>2 DEF RetryAdviceHolds
  <1>2. QED
    BY <1>1, ToldHolds, PTL

\* cpf.ts, cnpj.ts and password.ts, for every string: a document is taken for the
\* check digits of the rule, and a password for the bytes it really has.
THEOREM ValidationAgreesHolds == Spec => []ValidationAgrees
  <1>1. Told => ValidationAgrees
    <2>1. ASSUME Told, Returned("Cpf"), Len(DigitsOf(called.argument)) = 11,
                 ~RefusedFor("INVALID_CHARACTERS")
          PROVE  LET n == Numbers(DigitsOf(called.argument)) IN
                 answer.ok <=> CpfHolds(n) /\ \E i \in DOMAIN n : n[i] # n[1]
      <3>1. called.argument \in Seq(CodeUnits) /\ answer = Create("Cpf", called.argument)
        BY <2>1, CalledWith DEF Told, Results, ResultIs, Returned, answer, ValueObjectNames
      <3> DEFINE raw == called.argument
      <3>2. Create("Cpf", raw).ok \/ Create("Cpf", raw).error.code # "INVALID_CHARACTERS"
        BY <2>1, <3>1 DEF RefusedFor
      <3> HIDE DEF answer
      <3>3. QED
        BY <2>1, <3>1, <3>2, CpfAgrees
    <2>2. ASSUME Told, Returned("Cnpj"), Len(DigitsOf(called.argument)) = 14,
                 ~RefusedFor("INVALID_CHARACTERS")
          PROVE  LET n == Numbers(DigitsOf(called.argument)) IN
                 answer.ok <=> CnpjHolds(n) /\ \E i \in DOMAIN n : n[i] # n[1]
      <3>1. called.argument \in Seq(CodeUnits) /\ answer = Create("Cnpj", called.argument)
        BY <2>2, CalledWith DEF Told, Results, ResultIs, Returned, answer, ValueObjectNames
      <3> DEFINE raw == called.argument
      <3>2. Create("Cnpj", raw).ok \/ Create("Cnpj", raw).error.code # "INVALID_CHARACTERS"
        BY <2>2, <3>1 DEF RefusedFor
      <3> HIDE DEF answer
      <3>3. QED
        BY <2>2, <3>1, <3>2, CnpjAgrees
    <2>3. ASSUME Told  PROVE DocumentsAgree
      BY <2>1, <2>2, <2>3 DEF DocumentsAgree
    <2>4. ASSUME Told, Returned("Password"), WellFormed(called.argument)
          PROVE  /\ answer.ok => Utf8Bytes(called.argument) <= PasswordMaxBytes
                 /\ RefusedFor("TOO_LONG") => Utf8Bytes(called.argument) > PasswordMaxBytes
      <3>1. called.argument \in Seq(CodeUnits) /\ answer = Create("Password", called.argument)
        BY <2>4, CalledWith DEF Told, Results, ResultIs, Returned, answer, ValueObjectNames
      <3> HIDE DEF answer
      <3>2. QED
        BY <2>4, <3>1, PasswordDoesFit DEF RefusedFor
    <2>5. QED
      BY <2>3, <2>4 DEF ValidationAgrees, PasswordFits
  <1>2. QED
    BY <1>1, ToldHolds, PTL

\* The classes whose accepted values are parsed to themselves.
LEMMA StableNames ==
    ASSUME Told, called.function \in ValueObjectNames \ {"Email"}
    PROVE  IsStable(called.function, called.argument)
  <1> DEFINE raw == called.argument
             name == called.function
  <1>1. CASE name = "VideoFile"
    <2>1. raw.name \in Seq(CodeUnits) /\ raw.contentType \in Seq(CodeUnits)
      BY <1>1, CalledWith
    <2>2. IsStable("VideoFile", raw)
      BY <2>1, VideoFileIsStable
    <2>3. QED
      BY <1>1, <2>2
  <1>2. CASE name # "VideoFile"
    <2>1. raw \in Seq(CodeUnits)
      BY <1>2, CalledWith
    <2> HIDE DEF raw
    <2>2. IsStable("Cpf", raw) /\ IsStable("Cnpj", raw) /\ IsStable("Phone", raw)
      BY <2>1, CpfIsStable, CnpjIsStable, PhoneIsStable
    <2>3. IsStable("Name", raw) /\ IsStable("Password", raw) /\ IsStable("VideoFileName", raw)
      BY <2>1, NameIsStable, PasswordIsStable, VideoFileNameIsStable
    <2>4. name \in {"Cpf", "Cnpj", "Phone", "Name", "Password", "VideoFileName"}
      BY <1>2 DEF ValueObjectNames
    <2> HIDE DEF name
    <2>5. IsStable(name, raw)
      BY <2>2, <2>3, <2>4
    <2>6. QED
      BY <2>5 DEF name, raw
  <1>3. QED
    BY <1>1, <1>2

\* What RoundTrips says of an answer, from what parsing the value gives.
LEMMA DoesRoundTrip ==
    ASSUME NEW name \in ValueObjectNames, answer = Create(name, called.argument),
           Parse(name, called.argument).ok =>
              LET v == Parse(name, called.argument).value IN
              /\ Parse(name, called.argument) = Ok(v)
              /\ (name = "Email" /\ Len(v) > EmailMax) \/ Parse(name, v) = Ok(v)
              /\ name = "VideoFile" => v = [name |-> v.name, contentType |-> v.contentType]
    PROVE  RoundTrips(name)
  <1> DEFINE raw == called.argument
             parsed == Parse(name, raw)
             v == parsed.value
  <1>1. /\ answer.ok \in BOOLEAN /\ answer.ok = parsed.ok
        /\ parsed.ok => answer = parsed
        /\ ~parsed.ok => answer.error.valueObject = name
    BY CreateIs
  <1>2. parsed.ok => /\ parsed = Ok(v)
                     /\ (name = "Email" /\ Len(v) > EmailMax) \/ Parse(name, v) = Ok(v)
                     /\ name = "VideoFile" => v = [name |-> v.name, contentType |-> v.contentType]
    OBVIOUS
  <1> HIDE DEF answer, parsed, v
  <1>3. Is(name, raw) = answer.ok
    BY <1>1 DEF Is, parsed
  <1>4. ASSUME answer.ok
        PROVE  LET json == ToJSON(name, answer.value) IN
               /\ \/ name = "Email" /\ Len(answer.value) > EmailMax
                  \/ Create(name, answer.value) = answer /\ Equals(name, answer.value, answer.value)
               /\ IF name = "Password" THEN ~Is(name, json) ELSE json = answer.value
    <2>1. answer.value = v /\ answer = Ok(v)
      BY <1>1, <1>2, <1>4 DEF v
    <2>2. Equals(name, v, v)
      BY DEF Equals
    <2>3. Parse(name, v) = Ok(v) => Create(name, v) = Ok(v)
      <3> SUFFICES ASSUME Parse(name, v) = Ok(v)  PROVE Create(name, v) = Ok(v)
        OBVIOUS
      <3>1. Ok(v).ok = TRUE
        BY DEF Ok
      <3>2. QED
        BY <3>1, CreateIs
    <2>4. (name = "Email" /\ Len(v) > EmailMax) \/ Parse(name, v) = Ok(v)
      BY <1>1, <1>2, <1>4
    <2>5. \/ name = "Email" /\ Len(answer.value) > EmailMax
          \/ Create(name, answer.value) = answer /\ Equals(name, answer.value, answer.value)
      BY <2>1, <2>2, <2>3, <2>4
    <2>6. name = "Password" => ~Is(name, ToJSON(name, answer.value))
      <3>1. ~Is("Password", Redacted)
        <4>1. <<>> \in Seq(CodeUnits)
          OBVIOUS
        <4>2. QED
          BY <4>1, PasswordIsStable
      <3>2. name = "Password" => ToJSON(name, answer.value) = Redacted
        BY DEF ToJSON
      <3>3. QED
        BY <3>1, <3>2
    <2>7. name # "Password" => ToJSON(name, answer.value) = answer.value
      <3>1. CASE name = "VideoFile"
        <4>1. ToJSON(name, v) = [name |-> v.name, contentType |-> v.contentType]
          BY <3>1 DEF ToJSON
        <4>2. QED
          BY <1>1, <1>2, <1>4, <2>1, <3>1, <4>1
      <3>2. CASE name # "VideoFile"
        BY <3>2 DEF ToJSON
      <3>3. QED
        BY <3>1, <3>2
    <2>8. QED
      BY <2>5, <2>6, <2>7
  <1>5. QED
    BY <1>1, <1>3, <1>4 DEF RoundTrips, raw

\* value-object.ts, for every class and every string: what create answered is
\* accepted again, unchanged, except an email that its lower case makes too long;
\* its JSON is the value itself, except a password's, which is no password; and
\* phone.ts: with or without the country code a phone is the same phone.
THEOREM ValuesAreStableAlways == Spec => []ValuesAreStable
  <1>1. ASSUME Told, NEW name \in ValueObjectNames, Returned(name)  PROVE RoundTrips(name)
    <2> DEFINE raw == called.argument
    <2>1. called.function = name /\ answer = Create(name, raw)
      BY <1>1 DEF Told, Results, ResultIs, Returned, answer
    <2> HIDE DEF answer
    <2>2. CASE name = "Email"
      <3>1. raw \in Seq(CodeUnits)
        BY <1>1, <2>1, <2>2, CalledWith
      <3>2. Parse(name, raw).ok =>
               LET v == Parse(name, raw).value IN
               /\ Parse(name, raw) = Ok(v)
               /\ (name = "Email" /\ Len(v) > EmailMax) \/ Parse(name, v) = Ok(v)
               /\ name = "VideoFile" => v = [name |-> v.name, contentType |-> v.contentType]
        BY <2>2, <3>1, EmailIsStable
      <3>3. QED
        BY <2>1, <3>2, DoesRoundTrip
    <2>3. CASE name # "Email"
      <3>1. IsStable(name, raw)
        BY <1>1, <2>1, <2>3, StableNames
      <3>2. name = "VideoFile" /\ Parse(name, raw).ok =>
               LET v == Parse(name, raw).value IN
               v = [name |-> v.name, contentType |-> v.contentType]
        <4> SUFFICES ASSUME name = "VideoFile"
                     PROVE  Parse("VideoFile", raw).ok =>
                               LET v == Parse("VideoFile", raw).value IN
                               v = [name |-> v.name, contentType |-> v.contentType]
          OBVIOUS
        <4>1. raw.name \in Seq(CodeUnits) /\ raw.contentType \in Seq(CodeUnits)
          BY <1>1, <2>1, CalledWith
        <4>2. QED
          BY <4>1, VideoFileIsStable
      <3>3. Parse(name, raw).ok =>
               LET v == Parse(name, raw).value IN
               /\ Parse(name, raw) = Ok(v)
               /\ (name = "Email" /\ Len(v) > EmailMax) \/ Parse(name, v) = Ok(v)
               /\ name = "VideoFile" => v = [name |-> v.name, contentType |-> v.contentType]
        BY <3>1, <3>2 DEF IsStable
      <3>4. QED
        BY <2>1, <3>3, DoesRoundTrip
    <2>4. QED
      BY <2>2, <2>3
  <1>2. ASSUME Told, Returned("Phone"), answer.ok
        PROVE  Create("Phone", CountryCode \o answer.value) = answer
    <2> DEFINE raw == called.argument
    <2>1. raw \in Seq(CodeUnits) /\ answer = Create("Phone", raw)
      BY <1>2, CalledWith DEF Told, Results, ResultIs, Returned, answer, ValueObjectNames
    <2> HIDE DEF answer, raw
    <2>2. "Phone" \in ValueObjectNames /\ \A s : Parse("Phone", s) = Phone(s)
      BY DEF ValueObjectNames, Parse
    <2>3. Phone(raw).ok /\ answer = Phone(raw)
      BY <1>2, <2>1, <2>2, CreateIs
    <2> DEFINE v == Phone(raw).value
    <2>4. Phone(raw) = Ok(v) /\ v \in Seq(Digits) /\ IsPhone(v)
      BY <2>1, <2>3, PhoneAccepts
    <2> HIDE DEF v
    <2>5. answer.value = v
      BY <2>3 DEF v
    <2> DEFINE long == CountryCode \o v
    <2>6. Phone(long) = Ok(v)
      BY <2>4, CodeIsOptional
    <2>7. Ok(v).ok = TRUE
      BY DEF Ok
    <2> HIDE DEF long
    <2>8. Create("Phone", long) = Ok(v)
      BY <2>2, <2>6, <2>7, CreateIs
    <2>9. QED
      BY <2>3, <2>4, <2>5, <2>8 DEF long
  <1>3. Told => ValuesAreStable
    BY <1>1, <1>2 DEF ValuesAreStable, CountryCodeIsOptional
  <1>4. QED
    BY <1>3, ToldHolds, PTL
=============================================================================
