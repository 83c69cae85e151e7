---------------------------- MODULE Figures_proofs ----------------------------
(***************************************************************************)
(* Proofs about the figures a user is shown: the announcements (the        *)
(* arithmetic of the estimate, the windows and the plans, for every        *)
(* vehicle, plan and instant) and the bill of a session (for every tariff, *)
(* course of draws and restarts of the meter).                             *)
(***************************************************************************)
EXTENDS SchedulePlans, Bill, FiniteSetTheorems, WellFoundedInduction, TLAPS

----------------------------------------------------------------------------
(***************************************************************************)
(* Folds over finite sets.  Inclusion is well-founded on them, so a set    *)
(* for which a statement fails would have a least subset for which it      *)
(* does: that takes the place of induction here.                           *)
(***************************************************************************)

\* Every set of finite sets has a least one.
LEMMA FiniteMinimal ==
    ASSUME NEW S, NEW T, T \subseteq FiniteSubsetsOf(S), T # {}
    PROVE  \E x \in T : \A y \in T : y \subseteq x => y = x
<1>1. \E x \in T : \A y \in T : ~(<<y, x>> \in StrictSubsetOrdering(S))
  BY WFMin, FS_StrictSubsetOrderingWellFounded
<1> QED BY <1>1 DEF StrictSubsetOrdering, FiniteSubsetsOf

\* A fold over a finite set, with the elements chosen and the step as functions.
Folds(h, A, V, pick, step, base) ==
    /\ h \in [SUBSET A -> V]
    /\ \A q \in SUBSET A :
          h[q] = IF q = {} THEN base ELSE step[<<pick[q], h[q \ {pick[q]}]>>]

Folding(S, V, pick, step, base) ==
    /\ IsFiniteSet(S) /\ base \in V
    /\ pick \in [SUBSET S -> S \cup {base}]
    /\ \A q \in SUBSET S : q # {} => pick[q] \in q
    /\ step \in [S \X V -> V]

LEMMA FoldsAgree ==
    ASSUME NEW S, NEW V, NEW pick, NEW step, NEW base, Folding(S, V, pick, step, base),
           NEW A \in SUBSET S, NEW B \in SUBSET S, NEW g, NEW h,
           Folds(g, A, V, pick, step, base), Folds(h, B, V, pick, step, base),
           NEW q \in SUBSET (A \cap B)
    PROVE  g[q] = h[q]
<1> DEFINE T == {x \in SUBSET (A \cap B) : g[x] # h[x]}
<1> SUFFICES ASSUME T # {}  PROVE FALSE
  OBVIOUS
<1>1. T \subseteq FiniteSubsetsOf(S)
  BY FS_Subset DEF Folding, FiniteSubsetsOf
<1> HIDE DEF T
<1>2. PICK x \in T : \A y \in T : y \subseteq x => y = x
  BY <1>1, FiniteMinimal
<1>3. x \in SUBSET (A \cap B) /\ g[x] # h[x]
  BY <1>2 DEF T
<1>4. x # {}
  BY <1>3 DEF Folds
<1>5. pick[x] \in x
  BY <1>3, <1>4 DEF Folding
<1> DEFINE y == x \ {pick[x]}
<1>6. y \subseteq x /\ y # x /\ y \in SUBSET (A \cap B)
  BY <1>3, <1>5
<1>7. g[y] = h[y]
  BY <1>2, <1>6 DEF T
<1> QED  BY <1>3, <1>4, <1>7 DEF Folds

LEMMA FoldExists ==
    ASSUME NEW S, NEW V, NEW pick, NEW step, NEW base, Folding(S, V, pick, step, base)
    PROVE  \E h : Folds(h, S, V, pick, step, base)
<1> DEFINE F(h, A) == Folds(h, A, V, pick, step, base)
           T == {A \in SUBSET S : ~ \E h : F(h, A)}
<1> SUFFICES ASSUME T # {}  PROVE FALSE
  OBVIOUS
<1>1. T \subseteq FiniteSubsetsOf(S)
  BY FS_Subset DEF Folding, FiniteSubsetsOf
<1> HIDE DEF T
<1>2. PICK A \in T : \A B \in T : B \subseteq A => B = A
  BY <1>1, FiniteMinimal
<1>3. A \in SUBSET S /\ ~ \E h : F(h, A)
  BY <1>2 DEF T
<1>4. \A B \in SUBSET A : B # A => \E h : F(h, B)
  BY <1>2, <1>3 DEF T
<1> DEFINE sub(B) == CHOOSE h : F(h, B)
<1> HIDE DEF F
<1>5. \A B \in SUBSET A : B # A => F(sub(B), B)
  BY <1>4
<1> HIDE DEF sub
<1>6. \A B \in SUBSET A : B # A => sub(B)[B] \in V
  BY <1>5 DEF F, Folds
<1> DEFINE a == pick[A]
           top == IF A = {} THEN base ELSE step[<<a, sub(A \ {a})[A \ {a}]>>]
           h == [q \in SUBSET A |-> IF q = A THEN top ELSE sub(q)[q]]
<1>7. top \in V
  <2>1. CASE A = {}
    BY <2>1 DEF Folding
  <2>2. CASE A # {}
    <3>1. a \in A /\ a \in S
      BY <1>3, <2>2 DEF Folding
    <3>2. sub(A \ {a})[A \ {a}] \in V
      BY <1>6, <3>1
    <3> HIDE DEF a
    <3> QED  BY <2>2, <3>1, <3>2 DEF Folding
  <2> QED  BY <2>1, <2>2
<1>8. h \in [SUBSET A -> V]
  BY <1>6, <1>7
<1>9. ASSUME NEW q \in SUBSET A
      PROVE  h[q] = IF q = {} THEN base ELSE step[<<pick[q], h[q \ {pick[q]}]>>]
  <2>1. CASE q = {} /\ q = A
    BY <2>1
  <2>2. CASE q = {} /\ q # A
    <3>1. sub(q)[q] = base
      BY <1>5, <2>2 DEF F, Folds
    <3> QED  BY <2>2, <3>1
  <2>3. CASE q # {}
    <3>1. pick[q] \in q
      BY <1>3, <2>3 DEF Folding
    <3> DEFINE r == q \ {pick[q]}
    <3>2. r \in SUBSET A /\ r # A /\ r \subseteq q
      BY <3>1
    <3>3. h[r] = sub(r)[r]
      BY <3>2
    <3>4. CASE q = A
      BY <2>3, <3>3, <3>4
    <3>5. CASE q # A
      <4>1. h[q] = sub(q)[q]
        BY <3>5
      <4>2. sub(q)[q] = step[<<pick[q], sub(q)[r]>>]
        BY <1>5, <2>3, <3>5 DEF F, Folds
      <4>3. sub(q)[r] = sub(r)[r]
        <5>1. F(sub(q), q) /\ F(sub(r), r)
          BY <1>5, <3>2, <3>5
        <5>2. r \in SUBSET (q \cap r) /\ q \in SUBSET S /\ r \in SUBSET S
          BY <1>3, <3>2
        <5> HIDE DEF r
        <5>3. ASSUME NEW g, NEW k, F(g, q), F(k, r)
              PROVE  g[r] = k[r]
          BY <5>2, <5>3, FoldsAgree DEF F
        <5> QED  BY <5>1, <5>3
      <4> QED  BY <2>3, <3>3, <4>1, <4>2, <4>3
    <3> QED  BY <3>4, <3>5
  <2> QED  BY <2>1, <2>2, <2>3
<1>10. F(h, A)
  BY <1>8, <1>9 DEF F, Folds
<1> QED  BY <1>3, <1>10

LEMMA MaxIsThere ==
    ASSUME NEW S \in SUBSET Int, IsFiniteSet(S), S # {}
    PROVE  Max(S) \in S /\ \A y \in S : Max(S) >= y
<1> DEFINE Top(A, x) == x \in A /\ \A y \in A : x >= y
           T == {A \in SUBSET S : A # {} /\ ~ \E x \in A : \A y \in A : x >= y}
<1>1. \E x \in S : \A y \in S : x >= y
  <2> SUFFICES ASSUME T # {}  PROVE FALSE
    OBVIOUS
  <2>1. T \subseteq FiniteSubsetsOf(S)
    BY FS_Subset DEF FiniteSubsetsOf
  <2> HIDE DEF T
  <2>2. PICK A \in T : \A B \in T : B \subseteq A => B = A
    BY <2>1, FiniteMinimal
  <2>3. A \in SUBSET S /\ A # {} /\ ~ \E x \in A : \A y \in A : x >= y
    BY <2>2 DEF T
  <2>4. PICK a \in A : TRUE
    BY <2>3
  <2> DEFINE B == A \ {a}
  <2>5. B \subseteq A /\ B # A /\ B \in SUBSET S
    BY <2>3, <2>4
  <2>6. B = {} \/ \E x \in B : \A y \in B : x >= y
    BY <2>2, <2>5 DEF T
  <2>7. CASE B = {}
    <3>1. A = {a} /\ a \in Int
      BY <2>3, <2>4, <2>7
    <3> QED  BY <2>3, <3>1
  <2>8. CASE \E x \in B : \A y \in B : x >= y
    <3>1. PICK m \in B : \A y \in B : m >= y
      BY <2>8
    <3>2. m \in A /\ m \in Int /\ a \in Int /\ \A y \in A : y \in Int /\ (y = a \/ m >= y)
      BY <2>3, <2>4, <3>1
    <3>3. CASE a >= m
      <4>1. \A y \in A : a >= y
        BY <3>2, <3>3
      <4> QED  BY <2>3, <2>4, <4>1
    <3>4. CASE m >= a
      <4>1. \A y \in A : m >= y
        BY <3>2, <3>4
      <4> QED  BY <2>3, <3>2, <4>1
    <3> QED  BY <3>2, <3>3, <3>4
  <2> QED  BY <2>6, <2>7, <2>8
<1> QED  BY <1>1 DEF Max

LEMMA MinIsThere ==
    ASSUME NEW S \in SUBSET Int, IsFiniteSet(S), S # {}
    PROVE  Min(S) \in S /\ \A y \in S : Min(S) <= y
<1> DEFINE g == [x \in S |-> 0 - x]
           N == {g[x] : x \in S}
<1>1. N \in SUBSET Int /\ N # {} /\ g \in [S -> N] /\ \A n \in N : \E x \in S : g[x] = n
  <2>1. \A x \in S : g[x] \in Int
    OBVIOUS
  <2>2. g \in [S -> N] /\ \A n \in N : \E x \in S : g[x] = n
    <3>1. g = [x \in S |-> g[x]]
      OBVIOUS
    <3> HIDE DEF g
    <3> QED  BY <3>1
  <2> HIDE DEF g
  <2> QED  BY <2>1, <2>2
<1>2. IsFiniteSet(N)
  <2> HIDE DEF g, N
  <2> QED  BY <1>1, FS_Surjection DEF Surjection
<1>3. Max(N) \in N /\ \A y \in N : Max(N) >= y
  BY <1>1, <1>2, MaxIsThere
<1>4. PICK m \in S : Max(N) = 0 - m
  BY <1>3
<1>5. ASSUME NEW y \in S  PROVE m <= y
  <2>1. 0 - y \in N
    OBVIOUS
  <2>2. m \in Int /\ y \in Int /\ 0 - m >= 0 - y
    BY <1>3, <1>4, <2>1
  <2> QED  BY <2>2
<1> QED  BY <1>5 DEF Min

SumOf(w, iter) ==
    [q \in SUBSET (DOMAIN w) |->
        IF q = {} THEN 0
        ELSE w[CHOOSE x \in q : TRUE] + iter[q \ {CHOOSE x \in q : TRUE}]]

LEMMA SumUnfolds ==
    ASSUME NEW w
    PROVE  SumFunction(w) = (CHOOSE iter : iter = SumOf(w, iter))[DOMAIN w]
BY DEF SumFunction, SumFunctionOnSet, FoldFunctionOnSet, MapThenFoldSet, SumOf

SumIter(w) == CHOOSE iter : iter = SumOf(w, iter)

LEMMA SumIterates ==
    ASSUME NEW w, IsFiniteSet(DOMAIN w), \A b \in DOMAIN w : w[b] \in Nat
    PROVE  /\ SumIter(w) = SumOf(w, SumIter(w))
           /\ \A q \in SUBSET (DOMAIN w) : SumIter(w)[q] \in Nat
<1> DEFINE S == DOMAIN w
           pick == [q \in SUBSET S |-> IF q = {} THEN 0 ELSE CHOOSE x \in q : TRUE]
           step == [p \in S \X Nat |-> w[p[1]] + p[2]]
           it == CHOOSE iter : iter = SumOf(w, iter)
<1>1. Folding(S, Nat, pick, step, 0)
  BY DEF Folding
<1>2. PICK h : Folds(h, S, Nat, pick, step, 0)
  BY <1>1, FoldExists
<1>3. h = SumOf(w, h)
  <2>1. h = [q \in SUBSET S |-> h[q]]
    BY <1>2 DEF Folds
  <2>2. ASSUME NEW q \in SUBSET S
        PROVE  h[q] = IF q = {} THEN 0
                      ELSE w[CHOOSE x \in q : TRUE] + h[q \ {CHOOSE x \in q : TRUE}]
    <3>1. CASE q = {}
      BY <1>2, <3>1 DEF Folds
    <3>2. CASE q # {}
      <4>1. pick[q] = (CHOOSE x \in q : TRUE) /\ pick[q] \in S
        BY <3>2
      <4>2. h[q \ {pick[q]}] \in Nat
        BY <1>2, <4>1 DEF Folds
      <4> DEFINE v == h[q \ {pick[q]}]
                 y == pick[q]
      <4>3. h[q] = step[<<y, v>>] /\ y \in S /\ v \in Nat
        BY <1>2, <3>2, <4>1, <4>2 DEF Folds
      <4> HIDE DEF v, y
      <4>4. step[<<y, v>>] = w[y] + v
        BY <4>3
      <4> QED  BY <3>2, <4>1, <4>3, <4>4 DEF v, y
    <3> QED  BY <3>1, <3>2
  <2> QED  BY <2>1, <2>2 DEF SumOf
<1>4. it = SumOf(w, it)
  BY <1>3
<1> HIDE DEF it
<1> DEFINE T == {q \in SUBSET S : it[q] \notin Nat}
<1>5. T = {}
  <2> SUFFICES ASSUME T # {}  PROVE FALSE
    OBVIOUS
  <2>1. T \subseteq FiniteSubsetsOf(S)
    BY FS_Subset DEF FiniteSubsetsOf
  <2> HIDE DEF T
  <2>2. PICK x \in T : \A y \in T : y \subseteq x => y = x
    BY <2>1, FiniteMinimal
  <2>3. x \in SUBSET S /\ it[x] \notin Nat
    BY <2>2 DEF T
  <2> DEFINE b == CHOOSE y \in x : TRUE
  <2>4. it[x] = IF x = {} THEN 0 ELSE w[b] + it[x \ {b}]
    BY <1>4, <2>3 DEF SumOf
  <2>5. x # {} /\ b \in x
    BY <2>3, <2>4
  <2>6. it[x \ {b}] \in Nat
    BY <2>2, <2>3, <2>5 DEF T
  <2> HIDE DEF b
  <2> QED  BY <2>3, <2>4, <2>5, <2>6
<1>6. it = SumIter(w)
  BY DEF it, SumIter
<1> QED  BY <1>4, <1>5, <1>6

LEMMA SumIsNat ==
    ASSUME NEW w, IsFiniteSet(DOMAIN w), \A b \in DOMAIN w : w[b] \in Nat
    PROVE  SumFunction(w) \in Nat
BY SumIterates, SumUnfolds DEF SumIter

\* The sum does not depend on the order the fold takes the elements in.
LEMMA SumAnyOrder ==
    ASSUME NEW w, IsFiniteSet(DOMAIN w), \A b \in DOMAIN w : w[b] \in Nat,
           NEW q \in SUBSET (DOMAIN w), NEW b \in q
    PROVE  SumIter(w)[q] = w[b] + SumIter(w)[q \ {b}]
<1> DEFINE S == DOMAIN w
           it == SumIter(w)
           Good(x) == \A y \in x : it[x] = w[y] + it[x \ {y}]
           T == {x \in SUBSET S : ~Good(x)}
<1>1. T = {}
  <2> SUFFICES ASSUME T # {}  PROVE FALSE
    OBVIOUS
  <2>1. T \subseteq FiniteSubsetsOf(S)
    BY FS_Subset DEF FiniteSubsetsOf
  <2>2. it = SumOf(w, it) /\ \A x \in SUBSET S : it[x] \in Nat
    BY SumIterates
  <2> HIDE DEF T, it
  <2>3. PICK x \in T : \A y \in T : y \subseteq x => y = x
    BY <2>1, FiniteMinimal
  <2>4. x \in SUBSET S /\ ~Good(x)
    BY <2>3 DEF T
  <2>5. PICK y \in x : it[x] # w[y] + it[x \ {y}]
    BY <2>4
  <2> DEFINE c == CHOOSE z \in x : TRUE
             r == x \ {y}
             t == x \ {c}
  <2>6. c \in x
    BY <2>5
  <2>7. it[x] = w[c] + it[t]
    BY <2>2, <2>4, <2>5 DEF SumOf
  <2> HIDE DEF c
  <2>8. c # y
    BY <2>5, <2>7
  <2>9. Good(r) /\ Good(t)
    <3>1. r \in SUBSET S /\ r \subseteq x /\ r # x
      BY <2>4, <2>5
    <3>2. t \in SUBSET S /\ t \subseteq x /\ t # x
      BY <2>4, <2>6
    <3> HIDE DEF Good, r, t
    <3> QED  BY <2>3, <3>1, <3>2 DEF T
  <2>10. t \ {y} = r \ {c} /\ y \in t /\ c \in r
    BY <2>5, <2>6, <2>8
  <2>11. it[t] = w[y] + it[t \ {y}] /\ it[r] = w[c] + it[t \ {y}]
    BY <2>9, <2>10
  <2>12. w[c] \in Nat /\ w[y] \in Nat /\ it[t \ {y}] \in Nat
    BY <2>2, <2>4, <2>5, <2>6
  <2> HIDE DEF r, t
  <2>13. it[x] # w[y] + it[r]
    BY <2>5 DEF r
  <2> QED  BY <2>7, <2>11, <2>12, <2>13
<1> QED  BY <1>1

\* Nothing is lost with what counts for nothing.
LEMMA SumSkipsZeros ==
    ASSUME NEW w, IsFiniteSet(DOMAIN w), \A b \in DOMAIN w : w[b] \in Nat,
           NEW z, DOMAIN z \subseteq DOMAIN w, \A b \in DOMAIN z : z[b] = w[b],
           \A b \in DOMAIN w \ DOMAIN z : w[b] = 0
    PROVE  SumFunction(w) = SumFunction(z)
<1> DEFINE S == DOMAIN w
           Z == DOMAIN z
           iw == SumIter(w)
           iz == SumIter(z)
           Good(x) == iw[x] = iz[x \cap Z]
           T == {x \in SUBSET S : ~Good(x)}
<1>1. IsFiniteSet(Z) /\ \A b \in Z : z[b] \in Nat
  BY FS_Subset
<1>2. /\ iw = SumOf(w, iw) /\ \A x \in SUBSET S : iw[x] \in Nat
      /\ iz = SumOf(z, iz) /\ \A x \in SUBSET Z : iz[x] \in Nat
  BY <1>1, SumIterates
<1>3. \A x \in SUBSET S : \A b \in x : iw[x] = w[b] + iw[x \ {b}]
  BY SumAnyOrder
<1>4. \A x \in SUBSET Z : \A b \in x : iz[x] = z[b] + iz[x \ {b}]
  BY <1>1, SumAnyOrder
<1>5. iw[{}] = 0 /\ iz[{}] = 0
  BY <1>2 DEF SumOf
<1>6. SumFunction(w) = iw[S] /\ SumFunction(z) = iz[Z]
  BY SumUnfolds DEF SumIter
<1> HIDE DEF iw, iz
<1>7. T = {}
  <2> SUFFICES ASSUME T # {}  PROVE FALSE
    OBVIOUS
  <2>1. T \subseteq FiniteSubsetsOf(S)
    BY FS_Subset DEF FiniteSubsetsOf
  <2> HIDE DEF T
  <2>2. PICK x \in T : \A y \in T : y \subseteq x => y = x
    BY <2>1, FiniteMinimal
  <2>3. x \in SUBSET S /\ ~Good(x)
    BY <2>2 DEF T
  <2>4. x # {}
    <3>1. {} \cap Z = {}
      OBVIOUS
    <3> QED  BY <1>5, <2>3, <3>1
  <2>5. PICK b \in x : TRUE
    BY <2>4
  <2> DEFINE r == x \ {b}
  <2>6. r \in SUBSET S /\ r \subseteq x /\ r # x
    BY <2>3, <2>5
  <2>7. Good(r)
    <3> HIDE DEF Good, r
    <3> QED  BY <2>2, <2>6 DEF T
  <2>8. iw[x] = w[b] + iw[r] /\ iw[r] \in Nat
    BY <1>2, <1>3, <2>3, <2>5, <2>6
  <2>9. CASE b \in Z
    <3>1. (x \cap Z) \ {b} = r \cap Z /\ b \in x \cap Z /\ x \cap Z \in SUBSET Z
      BY <2>5, <2>9
    <3>2. iz[x \cap Z] = z[b] + iz[r \cap Z]
      BY <1>4, <3>1
    <3> QED  BY <2>3, <2>7, <2>8, <2>9, <3>2
  <2>10. CASE b \notin Z
    <3>1. r \cap Z = x \cap Z /\ w[b] = 0
      BY <2>3, <2>5, <2>10
    <3>2. iw[x] = iw[r]
      BY <2>8, <3>1
    <3> QED  BY <2>3, <2>7, <3>1, <3>2
  <2> QED  BY <2>9, <2>10
<1>8. S \cap Z = Z
  OBVIOUS
<1> QED  BY <1>6, <1>7, <1>8

LastLeastOf(score, iter) ==
    [q \in SUBSET (DOMAIN score) |->
        IF q = {} THEN Never
        ELSE IF iter[q \ {Max(q)}] = Never THEN Max(q)
        ELSE IF score[Max(q)] <= score[iter[q \ {Max(q)}]] THEN Max(q)
        ELSE iter[q \ {Max(q)}]]

LEMMA LastLeastUnfolds ==
    ASSUME NEW score
    PROVE  LastLeast(score) = (CHOOSE iter : iter = LastLeastOf(score, iter))[DOMAIN score]
BY DEF LastLeast, MapThenFoldSet, LastLeastOf

\* One of the candidates, and the best of the last ones.
IsLastLeast(score, q, best) ==
    /\ best \in q
    /\ (\A c \in q : score[c] \in Int) =>
          \A c \in q : score[best] <= score[c] /\ (score[c] = score[best] => c <= best)

LEMMA LastLeastIsLeast ==
    ASSUME NEW score, IsFiniteSet(DOMAIN score), DOMAIN score \in SUBSET Nat
    PROVE  IF DOMAIN score = {} THEN LastLeast(score) = Never
           ELSE IsLastLeast(score, DOMAIN score, LastLeast(score))
<1> DEFINE S == DOMAIN score
           V == S \cup {Never}
           pick == [q \in SUBSET S |-> IF q = {} THEN Never ELSE Max(q)]
           step == [p \in S \X V |-> IF p[2] = Never THEN p[1]
                                     ELSE IF score[p[1]] <= score[p[2]] THEN p[1] ELSE p[2]]
           it == CHOOSE iter : iter = LastLeastOf(score, iter)
<1>0. \A q \in SUBSET S : q # {} => Max(q) \in q /\ \A y \in q : Max(q) >= y
  <2> TAKE q \in SUBSET S
  <2> HAVE q # {}
  <2> QED  BY MaxIsThere, FS_Subset
<1>1. Folding(S, V, pick, step, Never)
  <2>1. \A q \in SUBSET S : q # {} => pick[q] \in q
    BY <1>0
  <2>2. pick \in [SUBSET S -> S \cup {Never}]
    BY <1>0
  <2>3. step \in [S \X V -> V]
    OBVIOUS
  <2> HIDE DEF pick, step
  <2> QED  BY <2>1, <2>2, <2>3 DEF Folding
<1>2. PICK h : Folds(h, S, V, pick, step, Never)
  <2> HIDE DEF pick, step, V, S
  <2> QED  BY <1>1, FoldExists
<1>3. h = LastLeastOf(score, h)
  <2>1. h = [q \in SUBSET S |-> h[q]]
    BY <1>2 DEF Folds
  <2>2. ASSUME NEW q \in SUBSET S
        PROVE  h[q] = IF q = {} THEN Never
                      ELSE IF h[q \ {Max(q)}] = Never THEN Max(q)
                      ELSE IF score[Max(q)] <= score[h[q \ {Max(q)}]] THEN Max(q)
                      ELSE h[q \ {Max(q)}]
    <3>1. CASE q = {}
      BY <1>2, <3>1 DEF Folds
    <3>2. CASE q # {}
      <4> DEFINE y == Max(q)
                 v == h[q \ {y}]
      <4>1. pick[q] = y /\ y \in S
        BY <1>0, <3>2
      <4>2. v \in V
        BY <1>2 DEF Folds
      <4>3. h[q] = step[<<y, v>>]
        BY <1>2, <3>2, <4>1 DEF Folds
      <4> HIDE DEF v, y
      <4>4. step[<<y, v>>] = IF v = Never THEN y ELSE IF score[y] <= score[v] THEN y ELSE v
        BY <4>1, <4>2
      <4> QED  BY <3>2, <4>3, <4>4 DEF v, y
    <3> QED  BY <3>1, <3>2
  <2> QED  BY <2>1, <2>2 DEF LastLeastOf
<1>4. it = LastLeastOf(score, it)
  BY <1>3
<1> HIDE DEF it
<1> DEFINE Good(q) == IF q = {} THEN it[q] = Never ELSE IsLastLeast(score, q, it[q])
           T == {q \in SUBSET S : ~Good(q)}
<1>5. T = {}
  <2> SUFFICES ASSUME T # {}  PROVE FALSE
    OBVIOUS
  <2>1. T \subseteq FiniteSubsetsOf(S)
    BY FS_Subset DEF FiniteSubsetsOf
  <2> HIDE DEF T
  <2>2. PICK x \in T : \A y \in T : y \subseteq x => y = x
    BY <2>1, FiniteMinimal
  <2>3. x \in SUBSET S /\ ~Good(x)
    BY <2>2 DEF T
  <2> HIDE DEF Good
  <2>4. x # {}
    BY <1>4, <2>3 DEF LastLeastOf, Good
  <2> DEFINE m == Max(x)
             r == x \ {m}
             v == it[r]
  <2>5. m \in x /\ m \in Nat /\ \A y \in x : y \in Nat /\ y <= m
    BY <1>0, <2>3, <2>4
  <2>6. it[x] = IF v = Never THEN m ELSE IF score[m] <= score[v] THEN m ELSE v
    BY <1>4, <2>3, <2>4 DEF LastLeastOf
  <2>7. Good(r)
    BY <2>2, <2>3, <2>5 DEF T
  <2> HIDE DEF m
  <2>8. CASE r = {}
    <3>1. x = {m} /\ v = Never
      BY <2>5, <2>7, <2>8 DEF Good
    <3> HIDE DEF v
    <3>2. it[x] = m
      BY <2>6, <3>1
    <3>3. IsLastLeast(score, x, m)
      BY <2>5, <3>1 DEF IsLastLeast
    <3> QED  BY <2>3, <2>4, <3>2, <3>3 DEF Good
  <2>9. CASE r # {}
    <3>0. IsLastLeast(score, r, v)
      BY <2>7, <2>9 DEF Good
    <3> HIDE DEF v
    <3>1. v \in x /\ v \in Nat /\ v <= m /\ v # Never
      <4>1. v \in r
        BY <3>0 DEF IsLastLeast
      <4> QED  BY <2>5, <4>1 DEF Never
    <3>2. \A c \in x : c = m \/ c \in r
      OBVIOUS
    <3> HIDE DEF r
    <3>3. it[x] \in x
      BY <2>5, <2>6, <3>1
    <3>4. ASSUME \A c \in x : score[c] \in Int, NEW c \in x
          PROVE  score[it[x]] <= score[c] /\ (score[c] = score[it[x]] => c <= it[x])
      <4>1. /\ score[m] \in Int /\ score[v] \in Int /\ score[c] \in Int /\ c \in Nat /\ c <= m
            /\ c = m \/ (score[v] <= score[c] /\ (score[c] = score[v] => c <= v))
        BY <2>5, <3>0, <3>1, <3>2, <3>4 DEF IsLastLeast, r
      <4>2. CASE score[m] <= score[v]
        BY <2>5, <2>6, <3>1, <4>1, <4>2
      <4>3. CASE ~(score[m] <= score[v])
        BY <2>5, <2>6, <3>1, <4>1, <4>3
      <4> QED  BY <4>2, <4>3
    <3>5. IsLastLeast(score, x, it[x])
      BY <3>3, <3>4 DEF IsLastLeast
    <3> QED  BY <2>3, <2>4, <3>5 DEF Good
  <2> QED  BY <2>8, <2>9
<1> QED  BY <1>5, LastLeastUnfolds DEF it

----------------------------------------------------------------------------
(* The estimate.                                                           *)

LEMMA Distribute ==
    ASSUME NEW x \in Int, NEW y \in Int, NEW z \in Int
    PROVE  x * (y + z) = x * y + x * z /\ x * y \in Int
OBVIOUS

LEMMA SumOfParts ==
    ASSUME NEW x \in Int, NEW y \in Int, NEW z \in Int
    PROVE  /\ x * z + y * z = (x + y) * z /\ (x + 1) * z = x * z + z
           /\ x * z \in Int /\ y * z \in Int
OBVIOUS

LEMMA NatProduct == ASSUME NEW x \in Nat, NEW y \in Nat  PROVE x * y \in Nat
OBVIOUS

\* The phases are whole numbers of fifteenths, none of them negative.
LEMMA PhaseTypes ==
    ASSUME NEW v \in Sheets
    PROVE  CC(v) \in Nat /\ PreCC(v) \in Nat /\ CV(v) \in Nat
<1>1. /\ v.t0to80 \in Nat /\ v.t20to80 \in Nat /\ v.t0to100 \in Nat /\ v.t20to100 \in Nat
      /\ v.full \in Nat
  BY DEF Sheets
<1>2. CC(v) \in Nat
  BY <1>1 DEF CC
<1>3. CC(v) \div 3 \in Nat
  BY <1>2
<1>4. PreCC(v) \in Nat
  BY <1>1, <1>3 DEF PreCC, Difference
<1>5. CV(v) \in Nat
  BY <1>1, <1>3 DEF CV, Difference
<1> QED  BY <1>2, <1>4, <1>5

\* What is left to charge from a to b, before it is rounded up to minutes.
Left(v, a, b) ==
    11 * (3 * PreCC(v) * Span(a, b, 0, 20) + CC(v) * Span(a, b, 20, 80)
              + 3 * CV(v) * Span(a, b, 80, 100))

LEMMA LeftAdds ==
    ASSUME NEW v \in Sheets, NEW a \in Int, NEW h \in Int, NEW b \in Int, a <= h, h <= b
    PROVE  /\ Left(v, a, b) = Left(v, a, h) + Left(v, h, b)
           /\ Left(v, a, h) \in Nat /\ Left(v, h, b) \in Nat
<1> DEFINE pre == 3 * PreCC(v)
           cc  == CC(v)
           cv  == 3 * CV(v)
           p1  == Span(a, h, 0, 20)
           p2  == Span(h, b, 0, 20)
           c1  == Span(a, h, 20, 80)
           c2  == Span(h, b, 20, 80)
           v1  == Span(a, h, 80, 100)
           v2  == Span(h, b, 80, 100)
<1>1. pre \in Nat /\ cc \in Nat /\ cv \in Nat
  BY PhaseTypes
<1>2. /\ Span(a, b, 0, 20) = p1 + p2 /\ Span(a, b, 20, 80) = c1 + c2
      /\ Span(a, b, 80, 100) = v1 + v2
      /\ p1 \in Nat /\ p2 \in Nat /\ c1 \in Nat /\ c2 \in Nat /\ v1 \in Nat /\ v2 \in Nat
  <2>1. Span(a, b, 0, 20) = p1 + p2 /\ p1 \in Nat /\ p2 \in Nat
    BY DEF Span
  <2>2. Span(a, b, 20, 80) = c1 + c2 /\ c1 \in Nat /\ c2 \in Nat
    BY DEF Span
  <2>3. Span(a, b, 80, 100) = v1 + v2 /\ v1 \in Nat /\ v2 \in Nat
    BY DEF Span
  <2> QED  BY <2>1, <2>2, <2>3
<1>3. /\ Left(v, a, b) = 11 * (pre * Span(a, b, 0, 20) + cc * Span(a, b, 20, 80)
                                  + cv * Span(a, b, 80, 100))
      /\ Left(v, a, h) = 11 * (pre * p1 + cc * c1 + cv * v1)
      /\ Left(v, h, b) = 11 * (pre * p2 + cc * c2 + cv * v2)
  BY DEF Left
<1> HIDE DEF pre, cc, cv, p1, p2, c1, c2, v1, v2
<1>4. /\ pre * (p1 + p2) = pre * p1 + pre * p2
      /\ cc * (c1 + c2) = cc * c1 + cc * c2
      /\ cv * (v1 + v2) = cv * v1 + cv * v2
  BY <1>1, <1>2, Distribute
<1>5. /\ pre * p1 \in Nat /\ pre * p2 \in Nat /\ cc * c1 \in Nat /\ cc * c2 \in Nat
      /\ cv * v1 \in Nat /\ cv * v2 \in Nat
  BY <1>1, <1>2, NatProduct
<1> DEFINE q1 == pre * p1
           q2 == pre * p2
           q3 == cc * c1
           q4 == cc * c2
           q5 == cv * v1
           q6 == cv * v2
<1>6. /\ Left(v, a, b) = 11 * (q1 + q2 + q3 + q4 + q5 + q6)
      /\ Left(v, a, h) = 11 * (q1 + q3 + q5) /\ Left(v, h, b) = 11 * (q2 + q4 + q6)
      /\ {q1, q2, q3, q4, q5, q6} \subseteq Nat
  BY <1>2, <1>3, <1>4, <1>5
<1> HIDE DEF q1, q2, q3, q4, q5, q6
<1> QED  BY <1>6

LEMMA EstimateRounds ==
    ASSUME NEW v \in Sheets, NEW a \in Int, NEW b \in Int, a < b, CCKnown(v)
    PROVE  /\ EstimateMinutes(v, a, b) = (Left(v, a, b) + 8999) \div 9000
           /\ EstimateMinutes(v, a, b) \in Nat
<1>1. Left(v, a, b) \in Nat
  BY LeftAdds
<1>2. EstimateMinutes(v, a, b) = CeilDiv(Left(v, a, b), 9000)
  BY DEF EstimateMinutes, Left
<1> HIDE DEF Left
<1> QED  BY <1>1, <1>2 DEF CeilDiv

\* A charge in two parts is estimated at least as long as in one, and at most
\* a minute longer.
LEMMA SplitsRoundUp ==
    ASSUME NEW v \in Sheets, NEW a \in Int, NEW h \in Int, NEW b \in Int, a < h, h <= b, CCKnown(v)
    PROVE  LET whole == EstimateMinutes(v, a, b)
               parts == EstimateMinutes(v, a, h) + EstimateMinutes(v, h, b)
           IN  whole <= parts /\ parts <= whole + 1
<1> DEFINE x == Left(v, a, h)
           y == Left(v, h, b)
<1>1. x \in Nat /\ y \in Nat /\ Left(v, a, b) = x + y
  BY LeftAdds
<1>2. /\ EstimateMinutes(v, a, b) = (x + y + 8999) \div 9000
      /\ EstimateMinutes(v, a, h) = (x + 8999) \div 9000
  BY <1>1, EstimateRounds
<1>3. EstimateMinutes(v, h, b) = IF h = b THEN 0 ELSE (y + 8999) \div 9000
  BY <1>1, EstimateRounds DEF EstimateMinutes
<1>4. h = b => y = 0
  BY PhaseTypes DEF Left, Span
<1> HIDE DEF x, y
<1> QED  BY <1>1, <1>2, <1>3, <1>4
\* Times of the data sheet are covered with the tenth on top, phase by phase.
LEMMA SheetIsCovered ==
    ASSUME NEW v \in Sheets, v.t20to80 > 0
    PROVE  /\ 10 * EstimateMinutes(v, 20, 80) >= 11 * v.t20to80
           /\ v.t0to80 > v.t20to80 => 10 * EstimateMinutes(v, 0, 80) >= 11 * v.t0to80
           /\ v.t20to100 > v.t20to80 => 10 * EstimateMinutes(v, 20, 100) >= 11 * v.t20to100
           /\ v.t0to100 - v.t20to100 = v.t0to80 - v.t20to80 /\ v.t20to100 > v.t20to80
                  => 10 * EstimateMinutes(v, 0, 100) >= 11 * v.t0to100
<1>1. /\ v.t0to80 \in Nat /\ v.t20to80 \in Nat /\ v.t0to100 \in Nat /\ v.t20to100 \in Nat
      /\ v.full \in Nat
  BY DEF Sheets
<1>2. CCKnown(v) /\ CC(v) = 15 * v.t20to80
  BY <1>1 DEF CCKnown, CC
<1>3. v.t0to80 > v.t20to80 => PreCC(v) = 15 * (v.t0to80 - v.t20to80)
  BY <1>1 DEF PreCC, Difference
<1>4. v.t20to100 > v.t20to80 => CV(v) = 15 * (v.t20to100 - v.t20to80)
  BY <1>1 DEF CV, Difference
<1>5. PreCC(v) \in Nat /\ CV(v) \in Nat
  BY PhaseTypes
<1>6. /\ Span(20, 80, 0, 20) = 0 /\ Span(20, 80, 20, 80) = 60 /\ Span(20, 80, 80, 100) = 0
      /\ Span(0, 80, 0, 20) = 20 /\ Span(0, 80, 20, 80) = 60 /\ Span(0, 80, 80, 100) = 0
      /\ Span(20, 100, 0, 20) = 0 /\ Span(20, 100, 20, 80) = 60 /\ Span(20, 100, 80, 100) = 20
      /\ Span(0, 100, 0, 20) = 20 /\ Span(0, 100, 20, 80) = 60 /\ Span(0, 100, 80, 100) = 20
  BY DEF Span
<1> DEFINE pre == PreCC(v)
           cv == CV(v)
           t == v.t20to80
<1>7. /\ pre \in Nat /\ cv \in Nat /\ t \in Nat
      /\ Left(v, 20, 80) = 9900 * t
      /\ Left(v, 0, 80) = 660 * pre + 9900 * t
      /\ Left(v, 20, 100) = 9900 * t + 660 * cv
      /\ Left(v, 0, 100) = 660 * pre + 9900 * t + 660 * cv
  BY <1>1, <1>2, <1>5, <1>6 DEF Left
<1>8. /\ EstimateMinutes(v, 20, 80) = (Left(v, 20, 80) + 8999) \div 9000
      /\ EstimateMinutes(v, 0, 80) = (Left(v, 0, 80) + 8999) \div 9000
      /\ EstimateMinutes(v, 20, 100) = (Left(v, 20, 100) + 8999) \div 9000
      /\ EstimateMinutes(v, 0, 100) = (Left(v, 0, 100) + 8999) \div 9000
  BY <1>2, EstimateRounds
<1>9. /\ v.t0to80 > t => pre = 15 * (v.t0to80 - t)
      /\ v.t20to100 > t => cv = 15 * (v.t20to100 - t)
  BY <1>3, <1>4
<1> HIDE DEF pre, cv
<1>10. /\ 10 * EstimateMinutes(v, 20, 80) >= 11 * t
       /\ v.t0to80 > t => 10 * EstimateMinutes(v, 0, 80) >= 11 * v.t0to80
       /\ v.t20to100 > t => 10 * EstimateMinutes(v, 20, 100) >= 11 * v.t20to100
  BY <1>1, <1>7, <1>8, <1>9
<1>11. ASSUME v.t0to100 - v.t20to100 = v.t0to80 - t, v.t20to100 > t
       PROVE  10 * EstimateMinutes(v, 0, 100) >= 11 * v.t0to100
  <2>1. 660 * cv = 9900 * (v.t20to100 - t)
    BY <1>1, <1>9, <1>11
  <2>2. 660 * pre >= 9900 * (v.t0to100 - v.t20to100)
    BY <1>1, <1>7, <1>9, <1>11
  <2>3. Left(v, 0, 100) >= 9900 * v.t0to100 /\ Left(v, 0, 100) \in Nat
    BY <1>1, <1>7, <2>1, <2>2
  <2> HIDE DEF Left
  <2> QED  BY <1>1, <1>8, <2>3
<1> QED  BY <1>10, <1>11

----------------------------------------------------------------------------
(* The inputs do not change; the clock does not run backwards.             *)

PlansTypes ==
    /\ now \in Nat
    /\ vehicle \in Vehicles /\ plan \in Plans /\ forecast \in Forecasts

\* The inputs of the endpoints stay what PlansAssumption says, whatever the time.
THEOREM PlansInvariant == PlansSpec => []PlansTypes
<1>1. PlansInit => PlansTypes
  BY PlansAssumption DEF PlansInit, PlansTypes
<1>2. PlansTypes /\ [PlansTick]_plansVars => PlansTypes'
  BY TimesAssumption DEF PlansTypes, PlansTick, plansVars
<1> QED  BY <1>1, <1>2, PTL DEF PlansSpec

\* What the inputs are, in the form the lemmas need.
LEMMA InputTypes ==
    ASSUME PlansTypes
    PROVE  /\ vehicle \in Sheets /\ vehicle.current \in 0 .. 100 /\ vehicle.target \in 0 .. 100
           /\ HoldPercent \in 0 .. vehicle.target
           /\ now \in Nat /\ Minute \in Nat \ {0} /\ Day \in Nat \ {0} /\ Bucket \in Nat \ {0}
           /\ plan.type \in {"daily", "carbon"} /\ plan.two \in BOOLEAN
           /\ plan.from \in 0 .. Day - 1 /\ plan.to \in {Never} \cup 0 .. Day - 1
           /\ Carbon => plan.to # Never
<1>1. vehicle \in Sheets
  BY PlansAssumption DEF PlansTypes
<1>2. vehicle.current \in 0 .. 100 /\ vehicle.target \in 0 .. 100
  BY <1>1 DEF Sheets
<1>3. HoldPercent \in 0 .. vehicle.target
  BY <1>2 DEF HoldPercent
<1> QED  BY <1>1, <1>2, <1>3, PlansAssumption, TimesAssumption DEF PlansTypes, Carbon

\* Whatever the data sheet says, the estimate is on the late side.
LEMMA ConservativeState == ASSUME PlansTypes  PROVE EstimateIsConservative
<1>1. ASSUME Known, vehicle.current < HoldPercent
      PROVE  Stage1 + Stage2 \in Whole .. Whole + Minute
  <2> DEFINE w == EstimateMinutes(vehicle, vehicle.current, vehicle.target)
             e1 == EstimateMinutes(vehicle, vehicle.current, HoldPercent)
             e2 == EstimateMinutes(vehicle, HoldPercent, vehicle.target)
  <2>1. /\ vehicle.current \in Int /\ HoldPercent \in Int /\ vehicle.target \in Int
        /\ HoldPercent <= vehicle.target /\ vehicle \in Sheets /\ CCKnown(vehicle)
    BY <1>1, InputTypes DEF Known
  <2>2. w <= e1 + e2 /\ e1 + e2 <= w + 1
    BY <1>1, <2>1, SplitsRoundUp
  <2>3. w \in Nat /\ e1 \in Nat /\ e2 \in Nat
    BY <1>1, <2>1, EstimateRounds DEF EstimateMinutes
  <2>4. Whole = w * Minute /\ Stage1 = e1 * Minute /\ Stage2 = e2 * Minute
    BY DEF Whole, Stage1, Stage2
  <2> HIDE DEF w, e1, e2
  <2>5. Minute \in Nat
    BY InputTypes
  <2>6. CASE e1 + e2 = w
    BY <2>3, <2>4, <2>5, <2>6, SumOfParts
  <2>7. CASE e1 + e2 = w + 1
    BY <2>3, <2>4, <2>5, <2>7, SumOfParts
  <2> QED  BY <2>2, <2>3, <2>6, <2>7
<1>2. vehicle \in Sheets
  BY InputTypes
<1> QED  BY <1>1, <1>2, SheetIsCovered DEF EstimateIsConservative

\* An estimate is on the late side: in two parts it is no shorter, at most by a
\* minute longer, and the times of the data sheet are covered with a tenth on
\* top (chargeestimate.go), for every data sheet.
THEOREM EstimatesHold == PlansSpec => []EstimateIsConservative
BY PlansInvariant, ConservativeState, PTL

----------------------------------------------------------------------------
(* The searches.                                                           *)

LEMMA QuotientFits ==
    ASSUME NEW x \in Int, NEW n \in Nat \ {0}, NEW i \in 0 .. x \div n
    PROVE  i * n <= x /\ i * n \in Nat
<1>1. i * n <= (x \div n) * n
  OBVIOUS
<1>2. (x \div n) * n <= x
  OBVIOUS
<1> QED  BY <1>1, <1>2

LEMMA OverlapIsNat ==
    ASSUME NEW b \in Int, NEW s \in Int, NEW e \in Int
    PROVE  Overlap(b, s, e) \in Nat
<1>1. b * Bucket \in Int /\ (b + 1) * Bucket \in Int
  BY TimesAssumption
<1> DEFINE x == b * Bucket
           y == (b + 1) * Bucket
<1> HIDE DEF x, y
<1>2. x \in Int /\ y \in Int
  BY <1>1 DEF x, y
<1>3. Overlap(b, s, e) = LET from == IF s > x THEN s ELSE x
                             to == IF e < y THEN e ELSE y
                         IN  IF from < to THEN to - from ELSE 0
  BY DEF Overlap, x, y
<1> QED  BY <1>2, <1>3

\* Every start that is tried is in the range asked for.
LEMMA CandidatesFit ==
    ASSUME NEW f, NEW from \in Nat, NEW latest \in Int, NEW d
    PROVE  /\ Candidates(f, from, latest, d) \subseteq from .. latest
           /\ Candidates(f, from, latest, d) \subseteq Nat
           /\ IsFiniteSet(Candidates(f, from, latest, d))
<1> DEFINE first == AlignToHalfHour(from)
           k == (latest - first) \div Bucket
           g == [i \in 0 .. k |-> first + i * Bucket]
           grid == {first + i * Bucket : i \in 0 .. k}
<1>1. first \in Int /\ Bucket \in Nat \ {0}
  BY TimesAssumption DEF AlignToHalfHour
<1>2. k \in Int
  BY <1>1
<1>3. \A c \in grid : c \in Int /\ c <= latest
  <2> TAKE c \in grid
  <2>1. PICK i \in 0 .. k : c = first + i * Bucket
    OBVIOUS
  <2>0. i \in Nat /\ latest - first \in Int /\ i <= (latest - first) \div Bucket
    BY <1>1, <1>2, <2>1
  <2>2. i * Bucket <= latest - first /\ i * Bucket \in Nat
    <3> HIDE DEF first
    <3> QED  BY <1>1, <2>0, QuotientFits, NatProduct
  <2> DEFINE n == i * Bucket
  <2> HIDE DEF n, first
  <2>3. c = first + n /\ n <= latest - first /\ n \in Nat
    BY <2>1, <2>2 DEF n
  <2> QED  BY <1>1, <2>3
<1>4. IsFiniteSet(grid)
  <2>1. g \in [0 .. k -> grid] /\ \A c \in grid : \E i \in 0 .. k : g[i] = c
    OBVIOUS
  <2>2. IsFiniteSet(0 .. k)
    BY <1>2, FS_Interval
  <2> HIDE DEF g, grid, k
  <2> QED  BY <2>1, <2>2, FS_Surjection DEF Surjection
<1>5. Candidates(f, from, latest, d) = {c \in grid : c >= from /\ TotalWeight(f, c, c + d) > 0}
  BY DEF Candidates
<1> HIDE DEF grid
<1>6. Candidates(f, from, latest, d) \subseteq grid /\ \A c \in Candidates(f, from, latest, d) : c >= from
  BY <1>5
<1> QED  BY <1>3, <1>4, <1>6, FS_Subset

\* A search answers with a start it tried, if there is one.
LEMMA SearchesFit ==
    ASSUME NEW f, NEW from \in Nat, NEW latest \in Int, NEW d, NEW end
    PROVE  /\ FindOptimalStart(f, from, latest, d) \in {Never} \cup from .. latest
           /\ FindBalancedStart(f, from, latest, end, d) \in {Never} \cup from .. latest
<1> DEFINE cs == Candidates(f, from, latest, d)
<1>1. cs \subseteq from .. latest /\ cs \in SUBSET Nat /\ IsFiniteSet(cs)
  BY CandidatesFit
<1>2. ASSUME NEW score, DOMAIN score = cs
      PROVE  LastLeast(score) \in {Never} \cup from .. latest
  BY <1>1, <1>2, LastLeastIsLeast DEF IsLastLeast
<1>3. FindOptimalStart(f, from, latest, d) \in {Never} \cup from .. latest
  BY <1>2 DEF FindOptimalStart
<1>4. \E score : DOMAIN score = cs /\ FindBalancedStart(f, from, latest, end, d) = LastLeast(score)
  BY DEF FindBalancedStart
<1> QED  BY <1>2, <1>3, <1>4

----------------------------------------------------------------------------
(* The announcements.                                                      *)

LEMMA ClockTypes ==
    ASSUME NEW t \in Int, NEW a \in Int, NEW b \in Int
    PROVE  /\ ResolveDeadline(t, a) \in Int
           /\ ResolveWindow(t, a, b).start \in Int /\ ResolveWindow(t, a, b).end \in Int
<1>1. Midnight(t) \in Int /\ Day \in Nat
  BY TimesAssumption DEF Midnight
<1> QED  BY <1>1 DEF ResolveDeadline, ResolveWindow

LEMMA Durations ==
    ASSUME PlansTypes, Known
    PROVE  Whole \in Nat /\ Stage1 \in Nat /\ Stage2 \in Nat
<1>1. \A a, b \in 0 .. 100 : EstimateMinutes(vehicle, a, b) \in Nat
  <2> TAKE a, b \in 0 .. 100
  <2>1. CASE a < b
    BY <2>1, InputTypes, EstimateRounds DEF Known
  <2>2. CASE ~(a < b)
    BY <2>2 DEF EstimateMinutes
  <2> QED  BY <2>1, <2>2
<1>2. vehicle.current \in 0 .. 100 /\ vehicle.target \in 0 .. 100 /\ HoldPercent \in 0 .. 100
      /\ Minute \in Nat
  BY InputTypes
<1>3. \A a, b \in 0 .. 100 : EstimateMinutes(vehicle, a, b) * Minute \in Nat
  BY <1>1, <1>2, NatProduct
<1> QED  BY <1>2, <1>3 DEF Whole, Stage1, Stage2

LEMMA WindowTypes ==
    ASSUME PlansTypes, Carbon
    PROVE  /\ Window.start \in Int /\ Window.end \in Int
           /\ SearchFrom \in Nat /\ SearchFrom >= Window.start /\ SearchFrom >= now
<1>1. plan.from \in Int /\ plan.to \in Int /\ now \in Int /\ now \in Nat
  BY InputTypes DEF Never
<1>2. Window.start \in Int /\ Window.end \in Int
  BY <1>1, ClockTypes DEF Window, WindowAt
<1> HIDE DEF Window
<1> QED  BY <1>1, <1>2 DEF SearchFrom

\* The estimated start is announced for a charge that ends in time.
LEMMA StartMeetsDeadline ==
    ASSUME PlansTypes, Carbon, EstimatedStart(now) # Never
    PROVE  /\ EstimatedStart(now) + Whole <= Window.end
           /\ EstimatedStart(now) < SearchFrom => SearchFrom + Whole > Window.end
<1> DEFINE latest == Window.end - Whole
           f == SliceBuckets(forecast, SearchFrom, Window.end)
           best == FindOptimalStart(f, SearchFrom, latest, Whole)
           start == EstimatedStart(now)
<1>1. Candidate /\ Known
  BY DEF EstimatedStart
<1>2. Window.end \in Int /\ SearchFrom \in Nat /\ Whole \in Nat
  BY <1>1, Durations, WindowTypes
<1>3. start = IF SearchFrom >= latest THEN latest
              ELSE IF DOMAIN f = {} THEN Never ELSE IF best = Never THEN latest ELSE best
  BY <1>1 DEF EstimatedStart, Window, SearchFrom
<1>4. best \in {Never} \cup SearchFrom .. latest
  BY <1>2, SearchesFit
<1> HIDE DEF best, f, start
<1>5. start = latest \/ (SearchFrom < latest /\ start \in SearchFrom .. latest)
  BY <1>2, <1>3, <1>4 DEF start
<1>6. start + Whole <= Window.end /\ (start < SearchFrom => SearchFrom + Whole > Window.end)
  BY <1>2, <1>5
<1> QED  BY <1>6 DEF start

\* So is the resume time, for the second stage.
LEMMA ResumeMeetsDeadline ==
    ASSUME PlansTypes, Carbon, ResumeTime(plan.to) # Never
    PROVE  /\ ResumeTime(plan.to) + Stage2 <= ResolveDeadline(now, plan.to)
           /\ ResumeTime(plan.to) < now => now + Stage2 > ResolveDeadline(now, plan.to)
<1> DEFINE deadline == ResolveDeadline(now, plan.to)
           latest == deadline - Stage2
           f == SliceBuckets(forecast, now, deadline)
           best == FindBalancedStart(f, now, latest, deadline, Stage2)
           start == ResumeTime(plan.to)
<1>1. Known
  BY DEF ResumeTime
<1>2. now \in Nat /\ Stage2 \in Nat /\ deadline \in Int
  <2>1. now \in Nat /\ now \in Int /\ plan.to \in Int
    BY InputTypes DEF Never
  <2> QED  BY <1>1, <2>1, Durations, ClockTypes
<1>3. start = IF now >= latest THEN latest ELSE IF DOMAIN f = {} THEN Never ELSE best
  BY <1>1 DEF ResumeTime
<1>4. best \in {Never} \cup now .. latest
  BY <1>2, SearchesFit
<1> HIDE DEF best, f, start
<1>5. start = latest \/ (now < latest /\ start \in now .. latest)
  BY <1>2, <1>3, <1>4 DEF start
<1> HIDE DEF deadline
<1>6. start + Stage2 <= deadline /\ (start < now => now + Stage2 > deadline)
  BY <1>2, <1>5
<1> QED  BY <1>6 DEF start, deadline

\* A charge announced for a window is over in time, and so is the second stage
\* of a session that holds, for every forecast and vehicle.
THEOREM AnnouncedStartsHold == PlansSpec => []AnnouncedStartMeetsDeadline
<1>1. PlansTypes => AnnouncedStartMeetsDeadline
  BY StartMeetsDeadline, ResumeMeetsDeadline DEF AnnouncedStartMeetsDeadline
<1> QED  BY <1>1, PlansInvariant, PTL

----------------------------------------------------------------------------
(* The stages.                                                             *)

LEMMA StageStartFits ==
    ASSUME PlansTypes, Carbon, NEW from \in Nat, NEW latest \in Int, NEW d,
           StageStart(from, latest, d) # Never
    PROVE  /\ StageStart(from, latest, d) \in Int /\ StageStart(from, latest, d) <= latest
           /\ StageStart(from, latest, d) >= from \/ StageStart(from, latest, d) = latest
<1> DEFINE f == SliceBuckets(forecast, from, Window.end)
           best == FindBalancedStart(f, from, latest, Window.end, d)
<1>1. best \in {Never} \cup from .. latest
  BY SearchesFit
<1>2. StageStart(from, latest, d) =
        IF from >= latest THEN latest
        ELSE IF DOMAIN f = {} THEN Never ELSE IF best = Never THEN latest ELSE best
  BY DEF StageStart
<1> HIDE DEF best, f
<1> QED  BY <1>1, <1>2

LEMMA StagesFit == ASSUME PlansTypes  PROVE StagesFitTheWindow
<1> SUFFICES ASSUME Carbon, TwoStage, CarbonStages # NoStages
             PROVE  /\ CarbonStages[1] <= CarbonStages[2] /\ CarbonStages[2] <= CarbonStages[3]
                    /\ CarbonStages[3] <= CarbonStages[4]
                    /\ CarbonStages[4] <= Window.end
                    /\ TargetReachable => CarbonStages[1] >= Window.start
                    /\ CarbonStages[3] >= SearchFrom \/ CarbonStages[3] = Window.end - Stage2
  BY DEF StagesFitTheWindow
<1>1. CarbonStagesKnown
  BY DEF CarbonStages
<1>2. Candidate /\ Known /\ WorthwhileTwoStage
  BY <1>1 DEF CarbonStagesKnown, WorthwhileTwoStage
<1>3. /\ Window.start \in Int /\ Window.end \in Int /\ SearchFrom \in Nat
      /\ SearchFrom >= Window.start /\ Stage1 \in Nat /\ Stage2 \in Nat
  BY <1>2, WindowTypes, Durations
<1> DEFINE s1 == Stage1Start
           from2 == IF s1 + Stage1 < SearchFrom THEN SearchFrom ELSE s1 + Stage1
           s2 == StageStart(from2, Window.end - Stage2, Stage2)
<1>4. s1 \in Int
  <2>1. s1 # Never => s1 \in Int
    BY <1>3, StageStartFits DEF Stage1Start
  <2> QED  BY <2>1 DEF Never
<1>5. CarbonStages = StagesAt(s1, s2)
  BY <1>1, <1>3, <1>4 DEF CarbonStages
<1>6. s1 # Never /\ s2 # Never /\ CarbonStages = <<s1, s1 + Stage1, s2, s2 + Stage2>>
  BY <1>5 DEF StagesAt
<1>7. s1 <= Window.end - Stage1 - Stage2
      /\ (s1 >= SearchFrom \/ s1 = Window.end - Stage1 - Stage2)
  BY <1>3, <1>6, StageStartFits DEF Stage1Start
<1>8. from2 \in Nat /\ from2 >= SearchFrom /\ from2 >= s1 + Stage1
  BY <1>3, <1>4
<1>9. /\ s2 \in Int /\ s2 <= Window.end - Stage2
      /\ s2 >= from2 \/ s2 = Window.end - Stage2
  <2> HIDE DEF from2
  <2> QED  BY <1>3, <1>6, <1>8, StageStartFits
<1>10. TargetReachable => Window.end - Window.start >= Stage1 + Stage2
  BY <1>2 DEF TargetReachable
<1> HIDE DEF s1, s2, from2
<1>11. /\ s1 <= s1 + Stage1 /\ s1 + Stage1 <= s2 /\ s2 <= s2 + Stage2
       /\ s2 + Stage2 <= Window.end
       /\ TargetReachable => s1 >= Window.start
       /\ s2 >= SearchFrom \/ s2 = Window.end - Stage2
  BY <1>3, <1>4, <1>7, <1>8, <1>9, <1>10
<1> QED  BY <1>6, <1>11

\* The stages announced for a carbon-aware schedule follow one another and end
\* with the window, whatever the forecast, and begin in it unless the handler
\* warns.
THEOREM StagesHold == PlansSpec => []StagesFitTheWindow
BY PlansInvariant, StagesFit, PTL

LEMMA DailyAgrees == ASSUME PlansTypes  PROVE DailyPlanAgreesWithWarning
<1> SUFFICES ASSUME ~Carbon, TwoStage, DailyStages # NoStages
             PROVE  (DailyStages[2] <= DailyStages[3]) = TargetReachable
  BY DEF DailyPlanAgreesWithWarning
<1>1. Candidate /\ Known /\ WorthwhileTwoStage /\ plan.to # Never
  BY DEF DailyStages, TwoStage
<1>2. DailyStart \in Int /\ DailyEnd \in Int /\ Stage1 \in Nat /\ Stage2 \in Nat
  <2>1. now \in Int /\ plan.from \in Int /\ plan.to \in Int
    BY InputTypes DEF Never
  <2>2. DailyStart \in Int
    BY <2>1, ClockTypes DEF DailyStart
  <2>3. DailyEnd \in Int
    BY <2>1, <2>2, ClockTypes DEF DailyEnd
  <2> QED  BY <1>1, <2>2, <2>3, Durations
<1>3. DailyStages[2] = DailyStart + Stage1 /\ DailyStages[3] = DailyEnd - Stage2
  BY <1>1 DEF DailyStages
<1>4. TargetReachable <=> DailyEnd - DailyStart >= Stage1 + Stage2
  BY <1>1 DEF TargetReachable
<1> HIDE DEF TargetReachable
<1>5. TargetReachable \in BOOLEAN
  BY DEF TargetReachable
<1> QED  BY <1>2, <1>3, <1>4, <1>5

\* The stages of a daily schedule overlap exactly when the handler warns, for
\* every start, ready-by time and vehicle.
THEOREM DailyPlansHold == PlansSpec => []DailyPlanAgreesWithWarning
BY PlansInvariant, DailyAgrees, PTL

----------------------------------------------------------------------------
(* The balance of cleanness and lateness.                                  *)

LEMMA ScoresAreInt ==
    ASSUME NEW f, IsFiniteSet(DOMAIN f), DOMAIN f \subseteq Int, \A b \in DOMAIN f : f[b] \in Nat,
           NEW s \in Int, NEW e \in Int, TotalWeight(f, s, e) > 0
    PROVE  ScoreWindow(f, s, e) \in Int
<1> DEFINE w == [b \in DOMAIN f |-> Overlap(b, s, e)]
           g == [b \in DOMAIN f |-> f[b] * Overlap(b, s, e)]
<1>1. \A b \in DOMAIN f : w[b] \in Nat
  BY OverlapIsNat
<1>2. \A b \in DOMAIN f : g[b] \in Nat
  <2> TAKE b \in DOMAIN f
  <2>1. Overlap(b, s, e) \in Nat /\ f[b] \in Nat
    BY OverlapIsNat
  <2> QED  BY <2>1, NatProduct
<1>3. DOMAIN w = DOMAIN f /\ DOMAIN g = DOMAIN f
  OBVIOUS
<1> HIDE DEF w, g
<1>4. SumFunction(w) \in Nat /\ SumFunction(g) \in Nat
  BY <1>1, <1>2, <1>3, SumIsNat
<1> DEFINE total == SumFunction(g)
           weight == SumFunction(w)
<1>5. ScoreWindow(f, s, e) = (ScoreScale * total) \div weight /\ weight > 0
  BY DEF ScoreWindow, TotalWeight, w, g
<1> HIDE DEF total, weight
<1>6. ScoreScale * total \in Nat /\ weight \in Nat
  BY <1>4, TimesAssumption, NatProduct DEF total, weight
<1> QED  BY <1>5, <1>6

LEMMA ImageIsFinite ==
    ASSUME NEW g, IsFiniteSet(DOMAIN g)
    PROVE  IsFiniteSet({g[c] : c \in DOMAIN g})
<1> DEFINE R == {g[c] : c \in DOMAIN g}
           h == [c \in DOMAIN g |-> g[c]]
<1>1. h \in [DOMAIN g -> R] /\ \A r \in R : \E c \in DOMAIN g : h[c] = r
  OBVIOUS
<1> HIDE DEF h, R
<1>2. IsFiniteSet(R)
  BY <1>1, FS_Surjection DEF Surjection
<1> QED  BY <1>2 DEF R

\* Scores of both kinds, each weighted with the positive range of the other:
\* better in one and no worse in the other is a lower sum.
LEMMA WeighedOrder ==
    ASSUME NEW x \in Int, NEW y \in Int, NEW u \in Int, NEW v \in Int,
           NEW n \in Nat \ {0}, NEW m \in Nat \ {0}, x <= y, u < v
    PROVE  x * n + u * m < y * n + v * m
<1>1. x * n <= y * n
  OBVIOUS
<1>2. u * m < v * m
  OBVIOUS
<1>3. x * n \in Int /\ y * n \in Int /\ u * m \in Int /\ v * m \in Int
  OBVIOUS
<1> DEFINE a == x * n
           b == y * n
           c == u * m
           d == v * m
<1> HIDE DEF a, b, c, d
<1>4. a <= b /\ c < d /\ {a, b, c, d} \subseteq Int
  BY <1>1, <1>2, <1>3 DEF a, b, c, d
<1>5. a + c < b + d
  BY <1>4
<1> QED  BY <1>5 DEF a, b, c, d

LEMMA BalancedIsBest ==
    ASSUME NEW f, IsFiniteSet(DOMAIN f), DOMAIN f \subseteq Int, \A b \in DOMAIN f : f[b] \in Nat,
           NEW from \in Nat, NEW latest \in Int, NEW end \in Int, NEW d \in Nat,
           FindBalancedStart(f, from, latest, end, d) # Never
    PROVE  LET best == FindBalancedStart(f, from, latest, end, d)
           IN  /\ best \in from .. latest
               /\ \A c \in Candidates(f, from, latest, d) :
                    ~(c > best /\ ScoreWindow(f, c, c + d) <= ScoreWindow(f, best, best + d))
<1> DEFINE cs == Candidates(f, from, latest, d)
           carbon == [c \in cs |-> ScoreWindow(f, c, c + d)]
           dwell == [c \in cs |-> end - (c + d)]
           carbons == {ScoreWindow(f, c, c + d) : c \in cs}
           dwells == {end - (c + d) : c \in cs}
           span(S) == IF Max(S) = Min(S) THEN 1 ELSE Max(S) - Min(S)
           n == span(dwells)
           m == span(carbons)
           lc == Min(carbons)
           ld == Min(dwells)
           score == [c \in cs |-> (ScoreWindow(f, c, c + d) - lc) * n + ((end - (c + d)) - ld) * m]
           best == LastLeast(score)
<1>1. FindBalancedStart(f, from, latest, end, d) = best
  BY DEF FindBalancedStart
<1>2. cs \subseteq from .. latest /\ cs \subseteq Nat /\ IsFiniteSet(cs)
  BY CandidatesFit
<1>3. \A c \in cs : ScoreWindow(f, c, c + d) \in Int
  <2> TAKE c \in cs
  <2>1. TotalWeight(f, c, c + d) > 0
    BY DEF Candidates
  <2> QED  BY <1>2, <2>1, ScoresAreInt
<1>4. cs # {} /\ IsLastLeast(score, cs, best)
  <2>1. DOMAIN score = cs
    OBVIOUS
  <2> HIDE DEF score, cs
  <2> QED  BY <1>1, <1>2, <2>1, LastLeastIsLeast
<1>5. ASSUME NEW S \in SUBSET Int, IsFiniteSet(S), S # {}
      PROVE  Min(S) \in Int /\ span(S) \in Nat \ {0}
  <2>1. Max(S) \in S /\ \A y \in S : Max(S) >= y
    BY <1>5, MaxIsThere
  <2>2. Min(S) \in S
    BY <1>5, MinIsThere
  <2>3. Max(S) \in Int /\ Min(S) \in Int /\ Max(S) >= Min(S)
    BY <2>1, <2>2
  <2> QED  BY <2>3
<1>6. carbons \in SUBSET Int /\ IsFiniteSet(carbons) /\ carbons # {}
  <2>1. carbons = {carbon[c] : c \in DOMAIN carbon} /\ DOMAIN carbon = cs
    OBVIOUS
  <2>2. carbons \in SUBSET Int /\ carbons # {}
    BY <1>3, <1>4
  <2> HIDE DEF carbon, carbons, cs
  <2> QED  BY <1>2, <2>1, <2>2, ImageIsFinite
<1>7. dwells \in SUBSET Int /\ IsFiniteSet(dwells) /\ dwells # {}
  <2>1. dwells = {dwell[c] : c \in DOMAIN dwell} /\ DOMAIN dwell = cs
    OBVIOUS
  <2>2. dwells \in SUBSET Int /\ dwells # {}
    BY <1>2, <1>4
  <2> HIDE DEF dwell, dwells, cs
  <2> QED  BY <1>2, <2>1, <2>2, ImageIsFinite
<1>8. lc \in Int /\ ld \in Int /\ n \in Nat \ {0} /\ m \in Nat \ {0}
  <2> HIDE DEF carbons, dwells, span
  <2> QED  BY <1>5, <1>6, <1>7
<1> HIDE DEF lc, ld, n, m, best
<1>9. \A c \in cs : /\ score[c] = (ScoreWindow(f, c, c + d) - lc) * n + ((end - (c + d)) - ld) * m
                    /\ c \in Int
                    /\ ScoreWindow(f, c, c + d) - lc \in Int /\ (end - (c + d)) - ld \in Int
  BY <1>2, <1>3, <1>8
<1>10. \A c \in cs : score[c] \in Int
  <2> TAKE c \in cs
  <2> DEFINE x == ScoreWindow(f, c, c + d) - lc
             u == (end - (c + d)) - ld
  <2>1. score[c] = x * n + u * m /\ x \in Int /\ u \in Int
    BY <1>9
  <2> HIDE DEF x, u, score
  <2> QED  BY <1>8, <2>1, Distribute
<1> HIDE DEF score
<1>11. best \in cs /\ \A c \in cs : score[best] <= score[c]
  BY <1>4, <1>10 DEF IsLastLeast
<1>12. ASSUME NEW c \in cs, c > best, ScoreWindow(f, c, c + d) <= ScoreWindow(f, best, best + d)
       PROVE  FALSE
  <2> DEFINE x == ScoreWindow(f, c, c + d) - lc
             y == ScoreWindow(f, best, best + d) - lc
             u == (end - (c + d)) - ld
             v == (end - (best + d)) - ld
  <2>1. x <= y /\ u < v /\ {x, y, u, v} \subseteq Int
    BY <1>3, <1>8, <1>9, <1>11, <1>12
  <2>2. score[c] = x * n + u * m /\ score[best] = y * n + v * m
    BY <1>9, <1>11
  <2> HIDE DEF x, y, u, v
  <2>3. x * n + u * m < y * n + v * m
    BY <1>8, <2>1, WeighedOrder
  <2>4. score[c] \in Int /\ score[best] \in Int /\ score[best] <= score[c]
    BY <1>10, <1>11
  <2> QED  BY <2>2, <2>3, <2>4
<1> HIDE DEF cs
<1>13. best \in from .. latest
  BY <1>2, <1>11
<1> QED  BY <1>1, <1>12, <1>13 DEF cs

LEMMA SlicesAreForecasts ==
    ASSUME NEW f, IsFiniteSet(DOMAIN f), DOMAIN f \subseteq Int, \A b \in DOMAIN f : f[b] \in Nat,
           NEW from, NEW to
    PROVE  LET s == SliceBuckets(f, from, to)
           IN  /\ IsFiniteSet(DOMAIN s) /\ DOMAIN s \subseteq DOMAIN f
               /\ \A b \in DOMAIN s : s[b] = f[b]
<1> DEFINE s == SliceBuckets(f, from, to)
<1>1. DOMAIN s \subseteq DOMAIN f /\ \A b \in DOMAIN s : s[b] = f[b]
  BY DEF SliceBuckets
<1> HIDE DEF s
<1>2. IsFiniteSet(DOMAIN s)
  BY <1>1, FS_Subset
<1> QED  BY <1>1, <1>2 DEF s

LEMMA ParetoState == ASSUME PlansTypes  PROVE BalancedIsPareto
<1> DEFINE latest == Window.end - Stage1 - Stage2
           f == SliceBuckets(forecast, SearchFrom, Window.end)
           best == FindBalancedStart(f, SearchFrom, latest, Window.end, Stage1)
<1> SUFFICES ASSUME Carbon, Known, best # Never
             PROVE  /\ best \in SearchFrom .. latest
                    /\ \A c \in Candidates(f, SearchFrom, latest, Stage1) :
                        ~(c > best /\ ScoreWindow(f, c, c + Stage1)
                                          <= ScoreWindow(f, best, best + Stage1))
  BY DEF BalancedIsPareto
<1>1. /\ Window.end \in Int /\ SearchFrom \in Nat /\ Stage1 \in Nat /\ Stage2 \in Nat
      /\ latest \in Int
  BY WindowTypes, Durations
<1>2. /\ IsFiniteSet(DOMAIN forecast) /\ DOMAIN forecast \subseteq Int
      /\ \A b \in DOMAIN forecast : forecast[b] \in Nat
  BY PlansAssumption DEF PlansTypes
<1>3. IsFiniteSet(DOMAIN f) /\ DOMAIN f \subseteq Int /\ \A b \in DOMAIN f : f[b] \in Nat
  BY <1>2, SlicesAreForecasts
<1> HIDE DEF f, latest
<1> QED  BY <1>1, <1>3, BalancedIsBest

\* Of the starts tried for a two-stage charge none is as clean and as late as
\* the chosen one and better in one of the two, whatever the forecast.
THEOREM BalanceHolds == PlansSpec => []BalancedIsPareto
BY PlansInvariant, ParetoState, PTL

----------------------------------------------------------------------------
(* The bisection.                                                          *)

\* Sets of numbers that hold 0 and with a number the next one hold all.
LEMMA Counting ==
    ASSUME NEW S, 0 \in S, \A n \in Nat : n \in S => n + 1 \in S
    PROVE  \A n \in Nat : n \in S
<1> SUFFICES ASSUME NEW b \in Nat, b \notin S  PROVE FALSE
  OBVIOUS
<1> DEFINE T == {0 .. n : n \in Nat \ S}
<1>1. T \subseteq FiniteSubsetsOf(Nat) /\ T # {}
  <2>1. \A n \in Nat \ S : IsFiniteSet(0 .. n) /\ 0 .. n \subseteq Nat
    BY FS_Interval
  <2>2. 0 .. b \in T
    OBVIOUS
  <2> QED  BY <2>1, <2>2 DEF FiniteSubsetsOf
<1> HIDE DEF T
<1>2. PICK x \in T : \A y \in T : y \subseteq x => y = x
  BY <1>1, FiniteMinimal
<1>3. PICK n \in Nat \ S : x = 0 .. n
  BY <1>2 DEF T
<1>4. n - 1 \in Nat \ S
  <2>1. n # 0 /\ n - 1 \in Nat
    BY <1>3
  <2>2. (n - 1) + 1 = n
    BY <1>3
  <2> QED  BY <1>3, <2>1, <2>2
<1>5. 0 .. (n - 1) \in T
  BY <1>4 DEF T
<1>6. 0 .. (n - 1) \subseteq 0 .. n /\ n \notin 0 .. (n - 1) /\ n \in 0 .. n
  BY <1>3
<1> QED  BY <1>2, <1>3, <1>5, <1>6

Ranges == (0 .. 101) \X (0 .. 101)
Half(v, a, minutes, r) ==
    LET mid == (r[1] + r[2]) \div 2
    IN  IF EstimateMinutes(v, a, mid) <= minutes THEN <<mid, r[2]>> ELSE <<r[1], mid>>
SearchAt(v, a, minutes, s, r) ==
    IF r[2] - r[1] <= 1 THEN r[1] ELSE s[Half(v, a, minutes, r)]
SearchOf(v, a, minutes, s) == [r \in Ranges |-> SearchAt(v, a, minutes, s, r)]

LEMMA SearchUnfolds ==
    ASSUME NEW v, NEW a, NEW minutes
    PROVE  ProjectPercent(v, a, minutes) =
              IF minutes <= 0 \/ ~CCKnown(v) THEN a
              ELSE (CHOOSE s : s = SearchOf(v, a, minutes, s))[<<a, 101>>]
BY DEF ProjectPercent, SearchOf, SearchAt, Half, Ranges

\* Half a range is shorter.
LEMMA HalvesShrink ==
    ASSUME NEW v, NEW a, NEW minutes, NEW r \in Ranges, r[2] - r[1] > 1
    PROVE  LET h == Half(v, a, minutes, r)
           IN  /\ h \in Ranges /\ h[1] < h[2] /\ h[2] - h[1] < r[2] - r[1]
<1> DEFINE mid == (r[1] + r[2]) \div 2
<1>1. r[1] \in 0 .. 101 /\ r[2] \in 0 .. 101
  BY DEF Ranges
<1>2. mid \in 0 .. 101 /\ r[1] < mid /\ mid < r[2]
  <2> DEFINE p == r[1]
             q == r[2]
  <2>1. p \in 0 .. 101 /\ q \in 0 .. 101 /\ q - p > 1 /\ mid = (p + q) \div 2
    BY <1>1
  <2> HIDE DEF p, q, mid
  <2>2. mid \in 0 .. 101 /\ p < mid /\ mid < q
    BY <2>1
  <2> QED  BY <2>2 DEF p, q
<1>3. Half(v, a, minutes, r) \in {<<mid, r[2]>>, <<r[1], mid>>}
  BY DEF Half
<1> HIDE DEF mid
<1>4. \A h \in {<<mid, r[2]>>, <<r[1], mid>>} :
        h \in Ranges /\ h[1] < h[2] /\ h[2] - h[1] < r[2] - r[1]
  BY <1>1, <1>2 DEF Ranges
<1> QED  BY <1>3, <1>4

RangesUpTo(n) == {r \in Ranges : r[2] - r[1] <= n + 1}
SearchesUpTo(v, a, minutes, n, s) ==
    DOMAIN s = RangesUpTo(n) /\ \A r \in RangesUpTo(n) : s[r] = SearchAt(v, a, minutes, s, r)

LEMMA RangeTypes ==
    /\ \A r \in Ranges : r[1] \in 0 .. 101 /\ r[2] \in 0 .. 101 /\ r[1] \in Int /\ r[2] \in Int
    /\ \A n \in Int : \A r : r \in RangesUpTo(n) <=> r \in Ranges /\ r[2] - r[1] <= n + 1
BY DEF Ranges, RangesUpTo

\* An answer depends on the answers for shorter ranges only.
LEMMA SearchStep ==
    ASSUME NEW v, NEW a, NEW minutes, NEW n \in Nat, NEW s, NEW t,
           \A r \in RangesUpTo(n) : t[r] = s[r],
           NEW r \in RangesUpTo(n + 1)
    PROVE  SearchAt(v, a, minutes, t, r) = SearchAt(v, a, minutes, s, r)
<1> DEFINE h == Half(v, a, minutes, r)
<1>1. r \in Ranges /\ r[1] \in Int /\ r[2] \in Int /\ r[2] - r[1] <= n + 2
  BY RangeTypes
<1>2. CASE r[2] - r[1] <= 1
  BY <1>2 DEF SearchAt
<1>3. CASE ~(r[2] - r[1] <= 1)
  <2>1. h \in Ranges /\ h[2] - h[1] < r[2] - r[1]
    BY <1>1, <1>3, HalvesShrink
  <2> HIDE DEF h
  <2>2. h[1] \in Int /\ h[2] \in Int
    BY <2>1, RangeTypes
  <2>3. h \in RangesUpTo(n)
    BY <1>1, <2>1, <2>2, RangeTypes
  <2>4. t[h] = s[h]
    BY <2>3
  <2> QED  BY <1>3, <2>4 DEF SearchAt, h
<1> QED  BY <1>2, <1>3

LEMMA SearchExists ==
    ASSUME NEW v, NEW a, NEW minutes
    PROVE  \E s : s = SearchOf(v, a, minutes, s)
<1> DEFINE S == {n \in Nat : \E s : SearchesUpTo(v, a, minutes, n, s)}
<1>1. 0 \in S
  <2> DEFINE s == [r \in RangesUpTo(0) |-> r[1]]
  <2>1. \A r \in RangesUpTo(0) : r[2] - r[1] <= 1
    BY RangeTypes
  <2>2. DOMAIN s = RangesUpTo(0) /\ \A r \in RangesUpTo(0) : s[r] = r[1]
    OBVIOUS
  <2> HIDE DEF s
  <2>3. SearchesUpTo(v, a, minutes, 0, s)
    BY <2>1, <2>2 DEF SearchesUpTo, SearchAt
  <2> QED  BY <2>3
<1>2. ASSUME NEW n \in Nat, n \in S  PROVE n + 1 \in S
  <2>1. PICK s : SearchesUpTo(v, a, minutes, n, s)
    BY <1>2
  <2> DEFINE t == [r \in RangesUpTo(n + 1) |-> SearchAt(v, a, minutes, s, r)]
  <2>2. ASSUME NEW r \in RangesUpTo(n)  PROVE r \in RangesUpTo(n + 1)
    <3>1. r \in Ranges /\ r[2] - r[1] <= n + 1 /\ r[1] \in Int /\ r[2] \in Int
      BY RangeTypes
    <3>2. r[2] - r[1] <= (n + 1) + 1
      BY <3>1
    <3> QED  BY <3>1, <3>2, RangeTypes
  <2>3. DOMAIN t = RangesUpTo(n + 1)
        /\ \A r \in RangesUpTo(n + 1) : t[r] = SearchAt(v, a, minutes, s, r)
    OBVIOUS
  <2> HIDE DEF t
  <2>4. \A r \in RangesUpTo(n) : t[r] = s[r]
    BY <2>1, <2>2, <2>3 DEF SearchesUpTo
  <2>5. \A r \in RangesUpTo(n + 1) : SearchAt(v, a, minutes, t, r) = SearchAt(v, a, minutes, s, r)
    BY <2>4, SearchStep
  <2>6. SearchesUpTo(v, a, minutes, n + 1, t)
    BY <2>3, <2>5 DEF SearchesUpTo
  <2> QED  BY <2>6
<1> HIDE DEF S
<1>3. 101 \in S
  BY <1>1, <1>2, Counting
<1>4. PICK s : SearchesUpTo(v, a, minutes, 101, s)
  BY <1>3 DEF S
<1>5. \A r \in Ranges : r \in RangesUpTo(101)
  BY RangeTypes
<1> DEFINE t == [r \in Ranges |-> s[r]]
<1>6. t = [r \in Ranges |-> t[r]] /\ \A r \in Ranges : t[r] = s[r]
  OBVIOUS
<1> HIDE DEF t
<1>7. ASSUME NEW r \in Ranges  PROVE t[r] = SearchAt(v, a, minutes, t, r)
  <2>1. \A q \in RangesUpTo(101) : t[q] = s[q]
    BY <1>6, RangeTypes
  <2>2. r \in RangesUpTo(102)
    BY RangeTypes
  <2>3. SearchAt(v, a, minutes, t, r) = SearchAt(v, a, minutes, s, r)
    BY <2>1, <2>2, SearchStep
  <2> QED  BY <1>4, <1>5, <1>6, <2>3 DEF SearchesUpTo
<1>8. t = SearchOf(v, a, minutes, t)
  BY <1>6, <1>7 DEF SearchOf
<1> QED  BY <1>8

LEMMA Adjacent ==
    ASSUME NEW x \in Int, NEW y \in Int, x < y, y - x <= 1
    PROVE  y = x + 1
OBVIOUS

LEMMA MiddleIsPercent ==
    ASSUME NEW x \in 0 .. 101, NEW y \in 0 .. 101
    PROVE  (x + y) \div 2 \in 0 .. 101
OBVIOUS

\* From a percent that can be reached and one that cannot, the search finds
\* the border between the two.
LEMMA SearchFindsBorder ==
    ASSUME NEW v, NEW a, NEW minutes \in Int, NEW s, s = SearchOf(v, a, minutes, s),
           \A q \in 0 .. 101 : EstimateMinutes(v, a, q) \in Int,
           NEW r \in Ranges, r[1] < r[2],
           EstimateMinutes(v, a, r[1]) <= minutes,
           r[2] = 101 \/ EstimateMinutes(v, a, r[2]) > minutes
    PROVE  LET p == s[r]
           IN  /\ p \in 0 .. 100 /\ EstimateMinutes(v, a, p) <= minutes
               /\ p + 1 = 101 \/ EstimateMinutes(v, a, p + 1) > minutes
<1> DEFINE reach(q) == EstimateMinutes(v, a, q) <= minutes
           Begins(q) == /\ q \in Ranges /\ q[1] < q[2] /\ EstimateMinutes(v, a, q[1]) <= minutes
                        /\ q[2] = 101 \/ EstimateMinutes(v, a, q[2]) > minutes
           Border(p) == /\ p \in 0 .. 100 /\ EstimateMinutes(v, a, p) <= minutes
                        /\ p + 1 = 101 \/ EstimateMinutes(v, a, p + 1) > minutes
           S == {n \in Nat : \A q \in RangesUpTo(n) : Begins(q) => Border(s[q])}
<1>1. \A q \in Ranges : s[q] = SearchAt(v, a, minutes, s, q)
  BY DEF SearchOf
<1>2. 0 \in S
  <2> SUFFICES ASSUME NEW q \in RangesUpTo(0), Begins(q)  PROVE Border(s[q])
    OBVIOUS
  <2>1. q \in Ranges /\ q[1] \in 0 .. 101 /\ q[2] \in 0 .. 101 /\ q[2] - q[1] <= 1
    BY RangeTypes
  <2>2. q[2] = q[1] + 1
    <3>1. q[1] \in Int /\ q[2] \in Int /\ q[1] < q[2]
      BY <2>1, RangeTypes
    <3> HIDE DEF Begins
    <3> QED  BY <2>1, <3>1, Adjacent
  <2>3. s[q] = q[1]
    BY <1>1, <2>1 DEF SearchAt
  <2> QED  BY <2>1, <2>2, <2>3
<1>3. ASSUME NEW n \in Nat, n \in S  PROVE n + 1 \in S
  <2> SUFFICES ASSUME NEW q \in RangesUpTo(n + 1), Begins(q)  PROVE Border(s[q])
    OBVIOUS
  <2> HIDE DEF Border
  <2>1. q \in Ranges /\ q[1] \in 0 .. 101 /\ q[2] \in 0 .. 101 /\ q[2] - q[1] <= n + 2
    BY RangeTypes
  <2>2. CASE q[2] - q[1] <= 1
    <3>1. q[2] = q[1] + 1
      <4>1. q[1] \in Int /\ q[2] \in Int /\ q[1] < q[2]
        BY <2>1, RangeTypes
      <4> HIDE DEF Begins
      <4> QED  BY <2>2, <4>1, Adjacent
    <3>2. s[q] = q[1]
      BY <1>1, <2>1, <2>2 DEF SearchAt
    <3> QED  BY <2>1, <3>1, <3>2 DEF Border
  <2>3. CASE ~(q[2] - q[1] <= 1)
    <3> DEFINE h == Half(v, a, minutes, q)
               mid == (q[1] + q[2]) \div 2
    <3>1. q[2] - q[1] > 1
      <4>1. PICK x \in 0 .. 101 : x = q[1]
        BY <2>1
      <4>2. PICK y \in 0 .. 101 : y = q[2]
        BY <2>1
      <4>3. y - x > 1
        BY <2>3, <4>1, <4>2
      <4> QED  BY <4>1, <4>2, <4>3
    <3>2. h \in Ranges /\ h[1] < h[2] /\ h[2] - h[1] < q[2] - q[1]
      BY <2>1, <3>1, HalvesShrink
    <3>3. s[q] = s[h]
      BY <1>1, <2>1, <2>3 DEF SearchAt
    <3>4. mid \in 0 .. 101
      BY <2>1, MiddleIsPercent
    <3>5. h = IF EstimateMinutes(v, a, mid) <= minutes THEN <<mid, q[2]>> ELSE <<q[1], mid>>
      BY DEF Half
    <3>6. EstimateMinutes(v, a, mid) \in Int
      BY <3>4
    <3> HIDE DEF h, mid
    <3>7. Begins(h)
      BY <3>2, <3>5, <3>6
    <3>8. h \in RangesUpTo(n)
      <4>1. h[1] \in Int /\ h[2] \in Int /\ q[1] \in Int /\ q[2] \in Int
        BY <2>1, <3>2, RangeTypes
      <4>2. h[2] - h[1] <= n + 1
        <5> DEFINE len == h[2] - h[1]
                   old == q[2] - q[1]
        <5>1. len \in Int /\ old \in Int /\ len < old /\ old <= n + 2
          <6>1. len \in Int /\ old \in Int
            BY <4>1
          <6>2. len < old
            BY <3>2
          <6>3. old <= n + 2
            BY <2>1
          <6> QED  BY <6>1, <6>2, <6>3
        <5> HIDE DEF len, old
        <5>2. len <= n + 1
          BY <5>1
        <5> QED  BY <5>2 DEF len
      <4> QED  BY <3>2, <4>2, RangeTypes
    <3> HIDE DEF Begins
    <3> QED  BY <1>3, <3>3, <3>7, <3>8
  <2> QED  BY <2>2, <2>3
<1> HIDE DEF S
<1>4. 101 \in S
  BY <1>2, <1>3, Counting
<1>5. r \in RangesUpTo(101) /\ Begins(r)
  BY RangeTypes
<1> HIDE DEF Border, Begins
<1>6. Border(s[r])
  BY <1>4, <1>5 DEF S
<1> QED  BY <1>6 DEF Border

\* A phase never takes no time at all, once there is an estimate.
LEMMA PhasesTakeTime ==
    ASSUME NEW v \in Sheets, CCKnown(v)
    PROVE  CC(v) > 0 /\ PreCC(v) > 0 /\ CV(v) > 0
<1>1. /\ v.t0to80 \in Nat /\ v.t20to80 \in Nat /\ v.t0to100 \in Nat /\ v.t20to100 \in Nat
      /\ v.full \in Nat
  BY DEF Sheets
<1>2. CC(v) \in Nat /\ CC(v) >= 9
  BY <1>1 DEF CC, CCKnown
<1>3. CC(v) \div 3 \in Nat /\ CC(v) \div 3 > 0
  <2> DEFINE c == CC(v)
  <2> HIDE DEF c
  <2>1. c \div 3 \in Nat /\ c \div 3 > 0
    BY <1>2 DEF c
  <2> QED  BY <2>1 DEF c
<1> HIDE DEF CCKnown
<1>4. PreCC(v) > 0
  BY <1>1, <1>3 DEF PreCC, Difference
<1>5. CV(v) > 0
  BY <1>1, <1>3 DEF CV, Difference
<1> QED  BY <1>2, <1>4, <1>5

LEMMA PositiveProduct ==
    ASSUME NEW x \in Int, NEW y \in Nat, x > 0
    PROVE  x * y >= y /\ x * y \in Nat
OBVIOUS

\* Farther takes longer, and some time at all.
LEMMA EstimateGrows ==
    ASSUME NEW v \in Sheets, CCKnown(v), NEW a \in 0 .. 100, NEW b \in 0 .. 100, NEW c \in 0 .. 100,
           b <= c
    PROVE  /\ EstimateMinutes(v, a, b) <= EstimateMinutes(v, a, c)
           /\ EstimateMinutes(v, a, b) \in Nat
           /\ a < b => EstimateMinutes(v, a, b) > 0
<1>1. EstimateMinutes(v, a, b) \in Nat /\ EstimateMinutes(v, a, c) \in Nat
  <2>1. ASSUME NEW x \in 0 .. 100  PROVE EstimateMinutes(v, a, x) \in Nat
    <3>1. CASE a < x
      <4>1. a \in Int /\ x \in Int
        OBVIOUS
      <4> QED  BY <3>1, <4>1, EstimateRounds
    <3>2. CASE ~(a < x)
      BY <3>2 DEF EstimateMinutes
    <3> QED  BY <3>1, <3>2
  <2> QED  BY <2>1
<1>2. CASE a >= b
  BY <1>1, <1>2 DEF EstimateMinutes
<1>3. CASE a < b
  <2> DEFINE x == Left(v, a, b)
             y == Left(v, b, c)
  <2>1. Left(v, a, c) = x + y /\ x \in Nat /\ y \in Nat
    BY <1>3, LeftAdds
  <2>2. EstimateMinutes(v, a, b) = (x + 8999) \div 9000
        /\ EstimateMinutes(v, a, c) = (x + y + 8999) \div 9000
    <3>1. a \in Int /\ b \in Int /\ c \in Int /\ a < c
      BY <1>3
    <3> QED  BY <1>3, <2>1, <3>1, EstimateRounds
  <2>3. x > 0
    <3> DEFINE p == 3 * PreCC(v)
               k == CC(v)
               w == 3 * CV(v)
               d == Span(a, b, 0, 20)
               e == Span(a, b, 20, 80)
               f == Span(a, b, 80, 100)
    <3>1. d \in Nat /\ e \in Nat /\ f \in Nat /\ d + e + f > 0
      BY <1>3 DEF Span
    <3>2. p \in Int /\ k \in Int /\ w \in Int /\ p > 0 /\ k > 0 /\ w > 0
      BY PhasesTakeTime, PhaseTypes
    <3>3. x = 11 * (p * d + k * e + w * f)
      BY DEF Left
    <3> HIDE DEF p, k, w, d, e, f, x
    <3>4. p * d >= d /\ k * e >= e /\ w * f >= f /\ p * d \in Nat /\ k * e \in Nat /\ w * f \in Nat
      BY <3>1, <3>2, PositiveProduct
    <3> DEFINE pd == p * d
               ke == k * e
               wf == w * f
    <3>5. x = 11 * (pd + ke + wf) /\ pd >= d /\ ke >= e /\ wf >= f /\ {pd, ke, wf} \subseteq Nat
      BY <3>3, <3>4
    <3> HIDE DEF pd, ke, wf
    <3> QED  BY <3>1, <3>5
  <2> HIDE DEF x, y
  <2> QED  BY <1>3, <2>1, <2>2, <2>3
<1> QED  BY <1>2, <1>3
\* The bisection announces the last percent that can be reached.
LEMMA ProjectionIsTheBorder ==
    ASSUME NEW v \in Sheets, CCKnown(v), NEW a \in 0 .. 100, NEW minutes \in Nat
    PROVE  /\ ProjectPercent(v, a, minutes) \in 0 .. 100
           /\ \A q \in a .. 100 :
                  (EstimateMinutes(v, a, q) <= minutes) <=> q <= ProjectPercent(v, a, minutes)
<1> DEFINE p == ProjectPercent(v, a, minutes)
           e(q) == EstimateMinutes(v, a, q)
<1>1. \A q \in 0 .. 101 : e(q) \in Nat
  <2> TAKE q \in 0 .. 101
  <2>1. a \in Int /\ q \in Int
    OBVIOUS
  <2>2. CASE a < q
    BY <2>1, <2>2, EstimateRounds
  <2>3. CASE ~(a < q)
    BY <2>3 DEF EstimateMinutes
  <2> QED  BY <2>2, <2>3
<1>2. \A b, c \in 0 .. 100 : b <= c => e(b) <= e(c)
  BY EstimateGrows
<1>3. \A b \in 0 .. 100 : a < b => e(b) > 0
  <2> TAKE b \in 0 .. 100
  <2>1. b <= b
    OBVIOUS
  <2> QED  BY <2>1, EstimateGrows
<1>4. \A b \in 0 .. 100 : b <= a => e(b) = 0
  BY DEF EstimateMinutes
<1>5. CASE minutes = 0
  <2>1. p = a
    <3>1. minutes <= 0
      BY <1>5
    <3> QED  BY <3>1 DEF ProjectPercent
  <2> HIDE DEF p, e
  <2> QED  BY <1>1, <1>3, <1>4, <1>5, <2>1 DEF e, p
<1>6. CASE minutes > 0
  <2> DEFINE s == CHOOSE t : t = SearchOf(v, a, minutes, t)
             r == <<a, 101>>
  <2>1. s = SearchOf(v, a, minutes, s)
    BY SearchExists
  <2>2. p = s[r]
    BY <1>6, SearchUnfolds
  <2>3. r \in Ranges /\ r[1] = a /\ r[2] = 101 /\ r[1] < r[2]
    BY DEF Ranges
  <2>4. e(a) = 0
    BY <1>4
  <2> HIDE DEF s, r
  <2>5. minutes \in Int /\ \A q \in 0 .. 101 : EstimateMinutes(v, a, q) \in Int
    BY <1>1
  <2>6. EstimateMinutes(v, a, r[1]) <= minutes
    BY <2>3, <2>4
  <2>7. /\ p \in 0 .. 100 /\ e(p) <= minutes
        /\ p + 1 = 101 \/ e(p + 1) > minutes
    BY <2>1, <2>2, <2>3, <2>5, <2>6, SearchFindsBorder
  <2> HIDE DEF p, e
  <2>8. ASSUME NEW q \in a .. 100, q <= p  PROVE e(q) <= minutes
    <3>1. q \in 0 .. 100
      OBVIOUS
    <3>2. e(q) <= e(p)
      BY <1>2, <2>7, <2>8, <3>1
    <3> QED  BY <1>1, <2>7, <3>1, <3>2
  <2>9. ASSUME NEW q \in a .. 100, ~(q <= p)  PROVE ~(e(q) <= minutes)
    <3> DEFINE n == p + 1
    <3>1. q \in 0 .. 100 /\ n \in 0 .. 100 /\ n <= q /\ n # 101
      BY <2>7, <2>9
    <3>2. e(n) > minutes
      BY <2>7, <3>1
    <3> HIDE DEF n
    <3>3. e(n) <= e(q)
      BY <1>2, <3>1
    <3>4. e(n) \in Nat /\ e(q) \in Nat
      BY <1>1, <3>1
    <3> QED  BY <3>2, <3>3, <3>4
  <2> QED  BY <2>7, <2>8, <2>9 DEF e, p
<1> QED  BY <1>5, <1>6

\* The window a schedule is in, or the next one, is not over yet.
LEMMA WindowIsOpen ==
    ASSUME NEW t \in Int, NEW a \in Int, NEW b \in Nat
    PROVE  ResolveWindow(t, a, b).end > t
<1>1. Midnight(t) \in Int /\ Day \in Nat /\ t < Midnight(t) + Day
  BY TimesAssumption DEF Midnight
<1> QED  BY <1>1 DEF ResolveWindow

LEMMA ScaledOrder ==
    ASSUME NEW x \in Int, NEW y \in Int, NEW k \in Nat, k > 0
    PROVE  x * k < y * k <=> x < y
OBVIOUS

LEMMA ProjectionState == ASSUME PlansTypes  PROVE ProjectionIsTheBestReachable
<1> DEFINE left == (Window.end - now) \div Minute
           p == ProjectPercent(vehicle, vehicle.current, left)
           reachable(q) == EstimateMinutes(vehicle, vehicle.current, q) <= left
<1> SUFFICES ASSUME Carbon, Known, Candidate
             PROVE  /\ \A q \in vehicle.current .. 100 : reachable(q) = (q <= p)
                    /\ (p < vehicle.target) = (left * Minute < Whole)
  BY DEF ProjectionIsTheBestReachable
<1>1. /\ vehicle \in Sheets /\ vehicle.current \in 0 .. 100 /\ vehicle.target \in 0 .. 100
      /\ now \in Int /\ Minute \in Nat /\ Minute > 0
      /\ plan.from \in Int /\ plan.to \in Nat
  BY InputTypes DEF Never
<1>2. Window.end \in Int /\ Window.end > now
  BY <1>1, WindowTypes, WindowIsOpen DEF Window, WindowAt
<1>3. left \in Nat
  <2> DEFINE gap == Window.end - now
  <2>1. gap \in Nat
    BY <1>1, <1>2
  <2> HIDE DEF gap
  <2>2. gap \div Minute \in Nat
    BY <1>1, <2>1
  <2> QED  BY <2>2 DEF gap
<1> HIDE DEF left
<1>4. \A q \in vehicle.current .. 100 :
        (EstimateMinutes(vehicle, vehicle.current, q) <= left) <=> q <= p
  BY <1>1, <1>3, ProjectionIsTheBorder DEF Known
<1>5. vehicle.target \in vehicle.current .. 100
  BY <1>1 DEF Candidate
<1> DEFINE e == EstimateMinutes(vehicle, vehicle.current, vehicle.target)
<1>6. e \in Nat
  <2>1. vehicle.current \in Int /\ vehicle.target \in Int /\ vehicle.current < vehicle.target
    BY <1>1 DEF Candidate
  <2> QED  BY <1>1, <2>1, EstimateRounds DEF Known
<1>7. (left * Minute < Whole) <=> (left < e)
  <2>1. Whole = e * Minute
    BY DEF Whole
  <2>2. left \in Int /\ e \in Int /\ Minute \in Nat /\ Minute > 0
    BY <1>1, <1>3, <1>6
  <2> HIDE DEF e
  <2>3. left * Minute < e * Minute <=> left < e
    BY <2>2, ScaledOrder
  <2> QED  BY <2>1, <2>3
<1>8. p \in Int
  <2>1. p \in 0 .. 100
    BY <1>1, <1>3, ProjectionIsTheBorder DEF Known
  <2> HIDE DEF p
  <2> QED  BY <2>1
<1> HIDE DEF p
<1>9. ~(e <= left) <=> ~(vehicle.target <= p)
  BY <1>4, <1>5
<1> HIDE DEF e
<1>10. (p < vehicle.target) <=> (left * Minute < Whole)
  BY <1>1, <1>3, <1>6, <1>7, <1>8, <1>9
<1> QED  BY <1>4, <1>10

\* A shortfall notification announces the highest percent that is reached in
\* the time there is (schedule_service.go:890).
THEOREM ProjectionsHold == PlansSpec => []ProjectionIsTheBestReachable
BY PlansInvariant, ProjectionState, PTL

----------------------------------------------------------------------------
(***************************************************************************)
(* As time goes by, the announced start never comes sooner.  A window is   *)
(* the first one whose end is still to come, so it stays until it is over. *)
(* The half-hours that are over by then were not part of any start that is *)
(* still tried, so the scores stay, and the search loses only starts that  *)
(* have passed: it keeps its answer or gives a later one.                  *)
(***************************************************************************)

LEMMA NextInstance ==
    ASSUME NEW j \in Int, NEW k \in Int, NEW n \in Nat \ {0}, j * n < (k + 1) * n
    PROVE  j <= k
<1>1. SUFFICES ASSUME k + 1 <= j PROVE FALSE
  OBVIOUS
<1> DEFINE i == k + 1
<1>2. i \in Int
  OBVIOUS
<1> HIDE DEF i
<1>3. i <= j => ~(j * n < i * n)
  BY <1>2, ScaledOrder
<1> QED  BY <1>1, <1>3 DEF i

LEMMA NextMultiple ==
    ASSUME NEW k \in Int, NEW n \in Int
    PROVE  (k + 1) * n = k * n + n
OBVIOUS

LEMMA DayStarts ==
    ASSUME NEW t \in Int
    PROVE  \E k \in Int : Midnight(t) = k * Day /\ Midnight(t) <= t /\ t < Midnight(t) + Day
<1> DEFINE k == t \div Day
<1>1. k \in Int /\ t = k * Day + (t % Day) /\ t % Day \in 0 .. Day - 1
  <2>1. Day \in Nat \ {0}
    BY TimesAssumption
  <2> QED  BY <2>1
<1>2. Day \in Nat /\ t % Day \in Int /\ k * Day \in Int
  BY <1>1, TimesAssumption
<1> HIDE DEF k
<1> DEFINE m == k * Day
           r == t % Day
<1>3. t = m + r /\ m \in Int /\ r \in Int /\ 0 <= r /\ r < Day
  BY <1>1, <1>2
<1>4. Midnight(t) = t - r
  BY DEF Midnight
<1> HIDE DEF m, r
<1>5. Midnight(t) = m /\ m <= t /\ t < m + Day
  BY <1>2, <1>3, <1>4
<1> QED  BY <1>1, <1>5 DEF m

IsFirst(w, t, a, b) ==
    /\ \E k \in Int : w.end = k * Day + b
    /\ w.end > t /\ w.end <= t + Day
    /\ w.start = w.end - (b - a + (IF b > a THEN 0 ELSE Day))

\* A window is the first one that is not over.
LEMMA WindowIsFirst ==
    ASSUME NEW t \in Int, NEW a \in 0 .. Day - 1, NEW b \in 0 .. Day - 1
    PROVE  IsFirst(ResolveWindow(t, a, b), t, a, b)
<1> DEFINE w == ResolveWindow(t, a, b)
           m == Midnight(t)
           e == m + b + (IF b > a THEN 0 ELSE Day)
           s == m + a
           shift == CASE t < s /\ t < e - Day -> -Day
                      [] t >= e -> Day
                      [] OTHER -> 0
<1>1. PICK k \in Int : m = k * Day /\ m <= t /\ t < m + Day
  BY DayStarts
<1>2. /\ Day \in Nat /\ Day > 0 /\ m \in Int /\ a \in Int /\ b \in Int
      /\ 0 <= a /\ a < Day /\ 0 <= b /\ b < Day
  <2>1. Day \in Nat /\ Day > 0
    BY TimesAssumption
  <2>2. k * Day \in Int
    BY <2>1
  <2> QED  BY <1>1, <2>1, <2>2
<1>3. w.start = s + shift /\ w.end = e + shift
  BY DEF ResolveWindow
<1> HIDE DEF w
<1> HIDE DEF m
<1>4. \/ t < s /\ t < e - Day /\ shift = -Day
      \/ t >= e /\ shift = Day
      \/ ~(t < s /\ t < e - Day) /\ ~(t >= e) /\ shift = 0
  <2>1. CASE t < s /\ t < e - Day
    <3>1. ~(t >= e)
      BY <1>1, <1>2, <2>1
    <3> QED  BY <2>1, <3>1
  <2>2. CASE ~(t < s /\ t < e - Day) /\ t >= e
    BY <2>2
  <2>3. CASE ~(t < s /\ t < e - Day) /\ ~(t >= e)
    BY <2>3
  <2> QED  BY <2>1, <2>2, <2>3
<1> HIDE DEF shift
<1>5. w.end > t /\ w.end <= t + Day
      /\ w.start = w.end - (b - a + (IF b > a THEN 0 ELSE Day))
      /\ w.end \in {m - Day + b, m + b, m + Day + b, m + Day + Day + b}
  BY <1>1, <1>2, <1>3, <1>4
<1>6. \E j \in Int : w.end = j * Day + b
  <2>1. /\ m - Day = (k - 1) * Day /\ m + Day = (k + 1) * Day
        /\ m + Day + Day = (k + 2) * Day
    <3>1. /\ (k - 1) * Day = k * Day - Day /\ (k + 1) * Day = k * Day + Day
          /\ (k + 2) * Day = k * Day + Day + Day
      BY <1>2
    <3> QED  BY <1>1, <3>1
  <2>2. k \in Int /\ k - 1 \in Int /\ k + 1 \in Int /\ k + 2 \in Int
    OBVIOUS
  <2>3. CASE w.end = m - Day + b
    BY <2>1, <2>2, <2>3
  <2>4. CASE w.end = m + b
    BY <1>1, <2>2, <2>4
  <2>5. CASE w.end = m + Day + b
    BY <2>1, <2>2, <2>5
  <2>6. CASE w.end = m + Day + Day + b
    BY <2>1, <2>2, <2>6
  <2> QED  BY <1>5, <2>3, <2>4, <2>5, <2>6
<1> QED  BY <1>5, <1>6 DEF w, IsFirst

\* It stays until it is over; the next one ends later.
LEMMA WindowStays ==
    ASSUME NEW t \in Int, NEW u \in Int, t <= u, NEW a \in 0 .. Day - 1, NEW b \in 0 .. Day - 1
    PROVE  LET v == ResolveWindow(t, a, b)
               w == ResolveWindow(u, a, b)
           IN  \/ w.end = v.end /\ w.start = v.start
               \/ u >= v.end /\ w.end >= v.end
<1> DEFINE v == ResolveWindow(t, a, b)
           w == ResolveWindow(u, a, b)
           length == b - a + (IF b > a THEN 0 ELSE Day)
<1>1. Day \in Nat /\ Day > 0 /\ b \in Int
  BY TimesAssumption
<1>2. PICK j \in Int : /\ v.end = j * Day + b /\ v.end > t /\ v.end <= t + Day
                       /\ v.start = v.end - length
  <2>1. IsFirst(v, t, a, b)
    BY WindowIsFirst
  <2> HIDE DEF v
  <2> QED  BY <2>1 DEF IsFirst
<1>3. PICK k \in Int : /\ w.end = k * Day + b /\ w.end > u /\ w.end <= u + Day
                       /\ w.start = w.end - length
  <2>1. IsFirst(w, u, a, b)
    BY WindowIsFirst
  <2> HIDE DEF w
  <2> QED  BY <2>1 DEF IsFirst
<1> HIDE DEF v, w, length
<1> DEFINE x == j * Day
           y == k * Day
<1>4. x \in Int /\ y \in Int /\ v.end = x + b /\ w.end = y + b
  BY <1>1, <1>2, <1>3
<1> HIDE DEF x, y
<1>5. CASE u >= v.end
  BY <1>1, <1>3, <1>4, <1>5 DEF v, w
<1>6. CASE u < v.end
  <2>1. x < y + Day /\ y < x + Day
    BY <1>1, <1>2, <1>3, <1>4, <1>6
  <2>2. x + Day = (j + 1) * Day /\ y + Day = (k + 1) * Day
    BY <1>1, NextMultiple DEF x, y
  <2>3. j <= k /\ k <= j
    BY <1>1, <2>1, <2>2, NextInstance DEF x, y
  <2>4. j = k
    BY <2>3
  <2> QED  BY <1>2, <1>3, <2>4 DEF v, w
<1> QED  BY <1>1, <1>2, <1>4, <1>5, <1>6

\* What a charge within the slice weighs and scores does not depend on it.
LEMMA SlicesWeigh ==
    ASSUME NEW f, IsFiniteSet(DOMAIN f), DOMAIN f \subseteq Int, \A b \in DOMAIN f : f[b] \in Nat,
           NEW from \in Int, NEW to \in Int, NEW s \in Int, NEW e \in Int, from <= s, e <= to
    PROVE  /\ TotalWeight(SliceBuckets(f, from, to), s, e) = TotalWeight(f, s, e)
           /\ ScoreWindow(SliceBuckets(f, from, to), s, e) = ScoreWindow(f, s, e)
<1> DEFINE g == SliceBuckets(f, from, to)
           w == [b \in DOMAIN f |-> Overlap(b, s, e)]
           x == [b \in DOMAIN g |-> Overlap(b, s, e)]
           y == [b \in DOMAIN f |-> f[b] * Overlap(b, s, e)]
           z == [b \in DOMAIN g |-> g[b] * Overlap(b, s, e)]
<1>1. /\ DOMAIN g = {b \in DOMAIN f : Overlap(b, from, to) > 0}
      /\ \A b \in DOMAIN g : g[b] = f[b]
  BY DEF SliceBuckets
<1>2. \A b \in DOMAIN f : Overlap(b, s, e) \in Nat /\ f[b] * Overlap(b, s, e) \in Nat
  <2> TAKE b \in DOMAIN f
  <2>1. Overlap(b, s, e) \in Nat /\ f[b] \in Nat
    BY OverlapIsNat
  <2> QED  BY <2>1, NatProduct
<1>3. \A b \in DOMAIN f \ DOMAIN g : Overlap(b, s, e) = 0
  <2> TAKE b \in DOMAIN f \ DOMAIN g
  <2>1. b \in Int /\ Overlap(b, s, e) \in Nat /\ Overlap(b, from, to) \in Nat
    BY OverlapIsNat
  <2>2. Overlap(b, from, to) = 0
    BY <1>1, <2>1
  <2> DEFINE p == b * Bucket
             q == (b + 1) * Bucket
  <2>3. p \in Int /\ q \in Int
    BY <2>1, TimesAssumption
  <2>4. /\ Overlap(b, s, e) = LET l == IF s > p THEN s ELSE p
                                  h == IF e < q THEN e ELSE q
                              IN  IF l < h THEN h - l ELSE 0
        /\ Overlap(b, from, to) = LET l == IF from > p THEN from ELSE p
                                      h == IF to < q THEN to ELSE q
                                  IN  IF l < h THEN h - l ELSE 0
    BY DEF Overlap
  <2> HIDE DEF p, q
  <2> QED  BY <2>2, <2>3, <2>4
<1> HIDE DEF g
<1>4. SumFunction(w) = SumFunction(x)
  <2>1. /\ DOMAIN w = DOMAIN f /\ DOMAIN x = DOMAIN g /\ DOMAIN g \subseteq DOMAIN f
        /\ \A b \in DOMAIN f : w[b] = Overlap(b, s, e)
        /\ \A b \in DOMAIN g : x[b] = Overlap(b, s, e)
    BY <1>1
  <2> HIDE DEF w, x
  <2> QED  BY <1>2, <1>3, <2>1, SumSkipsZeros
<1>5. SumFunction(y) = SumFunction(z)
  <2>1. /\ DOMAIN y = DOMAIN f /\ DOMAIN z = DOMAIN g /\ DOMAIN g \subseteq DOMAIN f
        /\ \A b \in DOMAIN f : y[b] = f[b] * Overlap(b, s, e)
        /\ \A b \in DOMAIN g : z[b] = f[b] * Overlap(b, s, e)
    BY <1>1
  <2>2. \A b \in DOMAIN f \ DOMAIN g : y[b] = 0
    BY <1>3, <2>1
  <2> HIDE DEF y, z
  <2> QED  BY <1>2, <2>1, <2>2, SumSkipsZeros
<1>6. /\ TotalWeight(f, s, e) = SumFunction(w) /\ TotalWeight(g, s, e) = SumFunction(x)
      /\ ScoreWindow(f, s, e) = (ScoreScale * SumFunction(y)) \div TotalWeight(f, s, e)
      /\ ScoreWindow(g, s, e) = (ScoreScale * SumFunction(z)) \div TotalWeight(g, s, e)
  BY DEF TotalWeight, ScoreWindow
<1> HIDE DEF w, x, y, z
<1> QED  BY <1>4, <1>5, <1>6 DEF g

LEMMA QuotientIsMost ==
    ASSUME NEW x \in Int, NEW n \in Nat \ {0}, NEW i \in Int, i * n <= x
    PROVE  i <= x \div n
<1> DEFINE q == x \div n
<1>1. q \in Int /\ x = q * n + (x % n) /\ x % n \in 0 .. n - 1
  OBVIOUS
<1> HIDE DEF q
<1>2. (q + 1) * n = q * n + n /\ q * n \in Int /\ i * n \in Int
  BY <1>1
<1> DEFINE a == q * n
           b == i * n
           c == (q + 1) * n
           r == x % n
<1>3. c = a + n /\ a \in Int /\ b \in Int /\ b <= x /\ x = a + r /\ r < n /\ r \in Int
  BY <1>1, <1>2
<1> HIDE DEF a, b, c, r
<1>4. b < c
  BY <1>3
<1>5. i * n < (q + 1) * n
  BY <1>4 DEF b, c
<1>6. i <= q
  BY <1>1, <1>5, NextInstance
<1> QED  BY <1>6 DEF q

\* The starts that are tried are the half-hours in the range that the forecast
\* says something about.
LEMMA CandidatesAre ==
    ASSUME NEW f, NEW from \in Nat, NEW latest \in Int, NEW d, NEW c
    PROVE  c \in Candidates(f, from, latest, d) <=>
              /\ c \in from .. latest /\ \E k \in Int : c = k * Bucket
              /\ TotalWeight(f, c, c + d) > 0
<1> DEFINE first == AlignToHalfHour(from)
           q == from \div Bucket
<1>1. Bucket \in Nat \ {0}
  BY TimesAssumption
<1>2. q \in Int /\ from = q * Bucket + (from % Bucket) /\ from % Bucket \in 0 .. Bucket - 1
  BY <1>1
<1>3. first = q * Bucket /\ first \in Int /\ first <= from
  <2> DEFINE m == q * Bucket
             r == from % Bucket
  <2>1. m \in Int /\ from = m + r /\ r \in Int /\ 0 <= r /\ first = from - r
    BY <1>1, <1>2 DEF AlignToHalfHour
  <2> HIDE DEF m, r, first
  <2>2. first = m /\ first \in Int /\ first <= from
    BY <2>1
  <2> QED  BY <2>2 DEF m
<1> HIDE DEF first, q
<1>4. c \in Candidates(f, from, latest, d) <=>
          /\ \E i \in 0 .. (latest - first) \div Bucket : c = first + i * Bucket
          /\ c >= from /\ TotalWeight(f, c, c + d) > 0
  BY DEF Candidates, first
<1>5. ASSUME NEW i \in 0 .. (latest - first) \div Bucket, c = first + i * Bucket
      PROVE  c \in Int /\ \E k \in Int : c = k * Bucket
  <2>1. i \in Int /\ i * Bucket \in Int
    BY <1>1
  <2>2. c = (q + i) * Bucket
    BY <1>1, <1>2, <1>3, <1>5, <2>1
  <2>3. q + i \in Int
    BY <1>2, <2>1
  <2> QED  BY <1>1, <2>2, <2>3
<1>6. ASSUME c \in from .. latest, NEW k \in Int, c = k * Bucket
      PROVE  \E i \in 0 .. (latest - first) \div Bucket : c = first + i * Bucket
  <2> DEFINE i == k - q
  <2>1. i \in Int /\ i * Bucket = k * Bucket - q * Bucket
    BY <1>1, <1>2
  <2>2. i * Bucket = c - first /\ c \in Int
    BY <1>3, <1>6, <2>1
  <2>3. i * Bucket <= latest - first /\ latest - first \in Int
    BY <1>3, <1>6, <2>2
  <2>4. i <= (latest - first) \div Bucket
    BY <1>1, <2>1, <2>3, QuotientIsMost
  <2>5. i >= 0
    <3> HIDE DEF i
    <3> DEFINE m == i * Bucket
    <3>1. m >= 0 /\ m \in Int
      BY <1>3, <1>6, <2>2
    <3>2. i < 0 => m < 0
      BY <1>1, <2>1
    <3> HIDE DEF m
    <3> QED  BY <2>1, <3>1, <3>2
  <2>6. c = first + i * Bucket
    <3> DEFINE m == i * Bucket
    <3>1. m = c - first
      BY <2>2
    <3> HIDE DEF m
    <3>2. c = first + m
      BY <1>3, <2>2, <3>1
    <3> QED  BY <3>2 DEF m
  <2>7. (latest - first) \div Bucket \in Int
    BY <1>1, <2>3
  <2> QED  BY <2>1, <2>4, <2>5, <2>6, <2>7
<1>7. ASSUME c \in Candidates(f, from, latest, d)
      PROVE  c \in from .. latest
  BY <1>7, CandidatesFit
<1> QED  BY <1>4, <1>5, <1>6, <1>7

\* A search that begins later, in the same window, ends up no sooner.
LEMMA LaterSearchIsLater ==
    ASSUME NEW f, IsFiniteSet(DOMAIN f), DOMAIN f \subseteq Int, \A b \in DOMAIN f : f[b] \in Nat,
           NEW t \in Nat, NEW u \in Nat, t <= u, NEW end \in Int, NEW d \in Nat
    PROVE  LET latest == end - d
               p == FindOptimalStart(SliceBuckets(f, t, end), t, latest, d)
               q == FindOptimalStart(SliceBuckets(f, u, end), u, latest, d)
           IN  /\ q # Never => p # Never /\ p <= q
               /\ p # Never => p <= latest
<1> DEFINE latest == end - d
           g == SliceBuckets(f, t, end)
           h == SliceBuckets(f, u, end)
           C == Candidates(g, t, latest, d)
           D == Candidates(h, u, latest, d)
           sc == [c \in C |-> ScoreWindow(g, c, c + d)]
           sd == [c \in D |-> ScoreWindow(h, c, c + d)]
           p == FindOptimalStart(g, t, latest, d)
           q == FindOptimalStart(h, u, latest, d)
           score(c) == ScoreWindow(f, c, c + d)
<1>1. latest \in Int
  OBVIOUS
<1>2. \A c \in t .. latest :
          TotalWeight(g, c, c + d) = TotalWeight(f, c, c + d) /\ ScoreWindow(g, c, c + d) = score(c)
  <2> TAKE c \in t .. latest
  <2>1. c \in Int /\ c + d \in Int /\ t <= c /\ c + d <= end /\ t \in Int
    OBVIOUS
  <2> QED  BY <2>1, SlicesWeigh
<1>3. \A c \in u .. latest :
          TotalWeight(h, c, c + d) = TotalWeight(f, c, c + d) /\ ScoreWindow(h, c, c + d) = score(c)
  <2> TAKE c \in u .. latest
  <2>1. c \in Int /\ c + d \in Int /\ u <= c /\ c + d <= end /\ u \in Int
    OBVIOUS
  <2> QED  BY <2>1, SlicesWeigh
<1>4. C \subseteq t .. latest /\ D \subseteq u .. latest /\ C \in SUBSET Nat /\ D \in SUBSET Nat
      /\ IsFiniteSet(C) /\ IsFiniteSet(D)
  BY <1>1, CandidatesFit
<1>5. \A c : c \in D <=> c \in C /\ c >= u
  <2> TAKE c
  <2>1. c \in C <=> /\ c \in t .. latest /\ \E k \in Int : c = k * Bucket
                    /\ TotalWeight(g, c, c + d) > 0
    <3> HIDE DEF g, latest
    <3> QED  BY <1>1, CandidatesAre
  <2>2. c \in D <=> /\ c \in u .. latest /\ \E k \in Int : c = k * Bucket
                    /\ TotalWeight(h, c, c + d) > 0
    <3> HIDE DEF h, latest
    <3> QED  BY <1>1, CandidatesAre
  <2> HIDE DEF C, D, g, h, latest
  <2>3. c \in u .. latest <=> c \in t .. latest /\ c >= u
    BY <1>1
  <2> QED  BY <1>2, <1>3, <2>1, <2>2, <2>3
<1>6. \A c \in C : score(c) \in Int
  <2> TAKE c \in C
  <2>1. c \in t .. latest /\ TotalWeight(g, c, c + d) > 0
    <3> HIDE DEF g, latest
    <3> QED  BY <1>1, CandidatesAre
  <2>2. TotalWeight(f, c, c + d) > 0 /\ c \in Int /\ c + d \in Int
    BY <1>2, <2>1
  <2> HIDE DEF C
  <2> QED  BY <2>2, ScoresAreInt
<1>7. p = LastLeast(sc) /\ q = LastLeast(sd)
  BY DEF FindOptimalStart
<1>8. /\ DOMAIN sc = C /\ \A c \in C : sc[c] = score(c)
      /\ DOMAIN sd = D /\ \A c \in D : sd[c] = score(c)
  <2> HIDE DEF C, D, g, h, score
  <2> QED  BY <1>2, <1>3, <1>4
<1> HIDE DEF C, D, sc, sd, p, q, g, h, score
<1>9. /\ IF C = {} THEN p = Never ELSE IsLastLeast(sc, C, p)
      /\ IF D = {} THEN q = Never ELSE IsLastLeast(sd, D, q)
  BY <1>4, <1>7, <1>8, LastLeastIsLeast
<1>10. p # Never => p \in C
  BY <1>9 DEF IsLastLeast
<1>11. ASSUME q # Never  PROVE p # Never /\ p <= q
  <2>1. D # {} /\ IsLastLeast(sd, D, q) /\ q \in D
    BY <1>9, <1>11 DEF IsLastLeast
  <2>2. q \in C /\ q >= u /\ q \in Nat
    BY <1>4, <1>5, <2>1
  <2>3. IsLastLeast(sc, C, p) /\ p \in C /\ p \in Nat
    BY <1>4, <1>9, <2>2 DEF IsLastLeast
  <2>4. score(p) <= score(q) /\ (score(q) = score(p) => q <= p)
    BY <1>6, <1>8, <2>2, <2>3 DEF IsLastLeast
  <2>5. CASE p >= u
    <3>1. p \in D
      BY <1>5, <2>3, <2>5
    <3>2. \A c \in D : sd[c] \in Int
      BY <1>5, <1>6, <1>8
    <3>3. score(q) <= score(p) /\ (score(p) = score(q) => p <= q)
      BY <1>8, <2>1, <3>1, <3>2 DEF IsLastLeast
    <3>4. score(p) \in Int /\ score(q) \in Int
      BY <1>6, <2>2, <2>3
    <3>5. p <= q
      BY <2>4, <3>3, <3>4
    <3> QED  BY <2>3, <3>5 DEF Never
  <2>6. CASE ~(p >= u)
    BY <2>2, <2>3, <2>6 DEF Never
  <2> QED  BY <2>5, <2>6
<1>12. p # Never => p <= latest
  <2>1. p # Never => p \in t .. latest
    BY <1>4, <1>10
  <2> HIDE DEF latest
  <2> QED  BY <2>1
<1> QED  BY <1>11, <1>12 DEF p, q, g, h

From(t) == IF t > WindowAt(t).start THEN t ELSE WindowAt(t).start
Best(t) ==
    FindOptimalStart(SliceBuckets(forecast, From(t), WindowAt(t).end), From(t),
                     WindowAt(t).end - Whole, Whole)

LEMMA StartsInOrder ==
    ASSUME PlansTypes, Carbon, NEW t \in Nat, NEW u \in Nat, t <= u,
           EstimatedStart(t) # Never, EstimatedStart(u) # Never
    PROVE  EstimatedStart(t) <= EstimatedStart(u)
<1> DEFINE v == WindowAt(t)
           w == WindowAt(u)
           x == EstimatedStart(t)
           y == EstimatedStart(u)
<1>1. Candidate /\ Known
  BY DEF EstimatedStart
<1>2. Whole \in Nat
  BY <1>1, Durations
<1>3. t \in Int /\ u \in Int /\ plan.from \in 0 .. Day - 1 /\ plan.to \in 0 .. Day - 1
  <2>1. plan.to # Never /\ plan.to \in {Never} \cup 0 .. Day - 1 /\ plan.from \in 0 .. Day - 1
    BY InputTypes
  <2> QED  BY <2>1
<1>4. v.start \in Int /\ v.end \in Int /\ w.start \in Int /\ w.end \in Int
  <2>1. plan.from \in Int /\ plan.to \in Int
    BY <1>3, TimesAssumption
  <2> QED  BY <1>3, <2>1, ClockTypes DEF WindowAt
<1>5. \/ w.end = v.end /\ w.start = v.start
      \/ u >= v.end /\ w.end >= v.end
  BY <1>3, WindowStays DEF WindowAt
<1>6. /\ x = IF From(t) >= v.end - Whole THEN v.end - Whole
             ELSE IF DOMAIN SliceBuckets(forecast, From(t), v.end) = {} THEN Never
             ELSE IF Best(t) = Never THEN v.end - Whole ELSE Best(t)
      /\ y = IF From(u) >= w.end - Whole THEN w.end - Whole
             ELSE IF DOMAIN SliceBuckets(forecast, From(u), w.end) = {} THEN Never
             ELSE IF Best(u) = Never THEN w.end - Whole ELSE Best(u)
  BY <1>1 DEF EstimatedStart, From, Best
<1>7. /\ From(t) \in Nat /\ From(u) \in Nat /\ From(u) >= u
      /\ w.start = v.start => From(t) <= From(u)
  BY <1>4 DEF From
<1>8. /\ Best(t) \in {Never} \cup From(t) .. v.end - Whole
      /\ Best(u) \in {Never} \cup From(u) .. w.end - Whole
  <2>1. v.end - Whole \in Int /\ w.end - Whole \in Int
    BY <1>2, <1>4
  <2> HIDE DEF v, w
  <2>2. From(t) \in Nat /\ From(u) \in Nat
    BY <1>7
  <2> QED  BY <2>1, <2>2, SearchesFit DEF Best, v, w
<1>9. CASE w.end = v.end /\ w.start = v.start
  <2>1. Best(u) # Never => Best(t) # Never /\ Best(t) <= Best(u)
    <3>1. forecast \in Forecasts
      BY DEF PlansTypes
    <3>2. IsFiniteSet(DOMAIN forecast) /\ DOMAIN forecast \subseteq Int
          /\ \A b \in DOMAIN forecast : forecast[b] \in Nat
      BY <3>1, PlansAssumption
    <3>3. From(t) \in Nat /\ From(u) \in Nat /\ From(t) <= From(u)
      BY <1>7, <1>9
    <3>4. Best(u) = FindOptimalStart(SliceBuckets(forecast, From(u), v.end), From(u),
                                     v.end - Whole, Whole)
      BY <1>9 DEF Best
    <3>5. Best(t) = FindOptimalStart(SliceBuckets(forecast, From(t), v.end), From(t),
                                     v.end - Whole, Whole)
      BY DEF Best
    <3> HIDE DEF v, w
    <3> QED  BY <1>2, <1>4, <3>2, <3>3, <3>4, <3>5, LaterSearchIsLater
  <2> DEFINE latest == v.end - Whole
  <2>2. latest \in Int /\ From(t) \in Int /\ From(u) \in Int /\ From(t) <= From(u)
    BY <1>2, <1>4, <1>7, <1>9
  <2>3. /\ x \in {latest, Best(t)} /\ y \in {latest, Best(u)}
        /\ x = Best(t) /\ x # latest => From(t) < latest
        /\ From(t) < latest /\ Best(t) # Never => x = Best(t)
        /\ y # latest => y = Best(u) /\ Best(u) # Never /\ From(u) < latest
    <3> HIDE DEF v, w, x, y
    <3>1. w.end - Whole = latest
      BY <1>9
    <3> HIDE DEF latest
    <3>2. x # Never /\ y # Never
      BY DEF x, y
    <3> QED  BY <1>6, <1>9, <2>2, <3>1, <3>2 DEF latest
  <2>4. Best(t) # Never => Best(t) \in Int /\ Best(t) <= latest
    BY <1>8, <2>2
  <2>5. x <= latest /\ x \in Int
    <3>1. x # Never
      OBVIOUS
    <3> HIDE DEF x, latest
    <3> QED  BY <2>2, <2>3, <2>4, <3>1
  <2>6. CASE y = latest
    BY <2>5, <2>6
  <2>7. CASE y # latest
    <3>1. y = Best(u) /\ Best(u) # Never /\ From(u) < latest
      BY <2>3, <2>7
    <3>2. Best(t) # Never /\ Best(t) <= Best(u)
      BY <2>1, <3>1
    <3>3. From(t) < latest
      <4> HIDE DEF latest
      <4> QED  BY <2>2, <3>1
    <3>4. x = Best(t)
      BY <2>3, <3>2, <3>3
    <3> QED  BY <3>1, <3>2, <3>4
  <2> QED  BY <2>6, <2>7
<1>10. CASE u >= v.end /\ w.end >= v.end
  <2>1. x <= v.end - Whole /\ x \in Int
    <3>1. x # Never
      OBVIOUS
    <3> HIDE DEF x, v
    <3> QED  BY <1>2, <1>4, <1>6, <1>7, <1>8, <3>1
  <2>2. y = w.end - Whole \/ y >= u
    <3>1. y # Never
      OBVIOUS
    <3> HIDE DEF y, w
    <3> QED  BY <1>2, <1>4, <1>6, <1>7, <1>8, <3>1
  <2>3. y \in Int
    <3>1. y # Never
      OBVIOUS
    <3> HIDE DEF y, w
    <3> QED  BY <1>2, <1>4, <1>6, <1>7, <1>8, <3>1
  <2> HIDE DEF x, y, v, w
  <2>4. x <= y
    BY <1>2, <1>4, <1>10, <2>1, <2>2, <2>3
  <2> QED  BY <2>4 DEF x, y
<1> QED  BY <1>5, <1>9, <1>10

\* The start announced for a carbon-aware schedule never comes sooner as time
\* goes by, from one window to the next, whatever the forecast.
THEOREM AnnouncedStartsAreStable == PlansSpec => AnnouncedStartNeverComesSooner
<1>1. ASSUME PlansTypes, [PlansTick]_plansVars,
             Carbon, Never \notin {EstimatedStart(now), EstimatedStart(now')}
      PROVE  EstimatedStart(now) <= EstimatedStart(now')
  <2>1. now \in Nat /\ now' \in Nat /\ now <= now'
    BY <1>1, TimesAssumption DEF PlansTypes, PlansTick, plansVars
  <2> QED  BY <1>1, <2>1, StartsInOrder
<1> QED  BY <1>1, PlansInvariant, PTL DEF PlansSpec, AnnouncedStartNeverComesSooner

----------------------------------------------------------------------------
(***************************************************************************)
(* Sums over sets of indices, for the bill: what they do when an index is  *)
(* added, when the set is split, and how large they get.                   *)
(***************************************************************************)

\* Sets of sets that hold {} and with a set all that have one element more.
LEMMA Growing ==
    ASSUME NEW S, IsFiniteSet(S), NEW T, {} \in T,
           \A x \in SUBSET S : x \in T => \A b \in S \ x : x \cup {b} \in T
    PROVE  SUBSET S \subseteq T
<1> DEFINE U == {x \in SUBSET S : x \notin T}
<1> SUFFICES ASSUME U # {}  PROVE FALSE
  OBVIOUS
<1>1. U \subseteq FiniteSubsetsOf(S)
  BY FS_Subset DEF FiniteSubsetsOf
<1> HIDE DEF U
<1>2. PICK x \in U : \A y \in U : y \subseteq x => y = x
  BY <1>1, FiniteMinimal
<1>3. x \in SUBSET S /\ x \notin T
  BY <1>2 DEF U
<1>4. PICK b \in x : TRUE
  BY <1>3
<1> DEFINE y == x \ {b}
<1>5. y \in SUBSET S /\ y \subseteq x /\ y # x /\ b \in S \ y /\ y \cup {b} = x
  BY <1>3, <1>4
<1> HIDE DEF y
<1>6. y \in T
  BY <1>2, <1>5 DEF U
<1> QED  BY <1>3, <1>5, <1>6

\* The sum of f over A.
Total(f, A) == SumFunction(Restrict(f, A))

Summable(f, S) == IsFiniteSet(S) /\ S \subseteq DOMAIN f /\ \A b \in S : f[b] \in Nat

\* What a restricted function is.
LEMMA Restricted ==
    ASSUME NEW f, NEW A
    PROVE  DOMAIN Restrict(f, A) = A /\ \A b \in A : Restrict(f, A)[b] = f[b]
BY DEF Restrict

\* A sum of numbers is one.
LEMMA TotalIsNat ==
    ASSUME NEW f, NEW A, Summable(f, A)
    PROVE  Total(f, A) \in Nat
<1> DEFINE w == Restrict(f, A)
<1>1. DOMAIN w = A /\ \A b \in A : w[b] = f[b]
  BY Restricted
<1> HIDE DEF w
<1>2. SumFunction(w) \in Nat
  BY <1>1, SumIsNat DEF Summable
<1> QED  BY <1>2 DEF Total, w

\* Over nothing it is nothing.
LEMMA TotalOfNone == ASSUME NEW f  PROVE Total(f, {}) = 0
<1> DEFINE w == Restrict(f, {})
<1>1. DOMAIN w = {}
  BY Restricted
<1> HIDE DEF w
<1>2. IsFiniteSet(DOMAIN w) /\ \A b \in DOMAIN w : w[b] \in Nat
  BY <1>1, FS_EmptySet
<1>3. SumIter(w) = SumOf(w, SumIter(w))
  BY <1>2, SumIterates
<1>4. SumIter(w)[{}] = 0
  BY <1>1, <1>3 DEF SumOf
<1>5. SumFunction(w) = SumIter(w)[DOMAIN w]
  BY SumUnfolds DEF SumIter
<1> QED  BY <1>1, <1>4, <1>5 DEF Total, w

\* Zeros may be left out.
LEMMA TotalSkips ==
    ASSUME NEW f, NEW A, Summable(f, A), NEW B \in SUBSET A, \A b \in A \ B : f[b] = 0
    PROVE  Total(f, A) = Total(f, B)
<1> DEFINE w == Restrict(f, A)
           z == Restrict(f, B)
<1>1. /\ DOMAIN w = A /\ \A b \in A : w[b] = f[b]
      /\ DOMAIN z = B /\ \A b \in B : z[b] = f[b]
  BY Restricted
<1> HIDE DEF w, z
<1>2. IsFiniteSet(A) /\ \A b \in A : f[b] \in Nat
  BY DEF Summable
<1>3. SumFunction(w) = SumFunction(z)
  BY <1>1, <1>2, SumSkipsZeros
<1> QED  BY <1>3 DEF Total, w, z

\* Only the values over the set count.
LEMMA TotalDepends ==
    ASSUME NEW f, NEW g, NEW A, \A b \in A : f[b] = g[b]
    PROVE  Total(f, A) = Total(g, A)
<1>1. Restrict(f, A) = Restrict(g, A)
  BY DEF Restrict
<1> QED  BY <1>1 DEF Total

\* One element more: sum with its value, which without it might as well be 0.
LEMMA TotalAdds ==
    ASSUME NEW f, NEW A, Summable(f, A), NEW b \in A
    PROVE  Total(f, A) = f[b] + Total(f, A \ {b})
<1> DEFINE B == A \ {b}
           g == [x \in A |-> IF x = b THEN 0 ELSE f[x]]
           w == Restrict(f, A)
           z == Restrict(g, A)
<1>1. IsFiniteSet(A) /\ \A x \in A : f[x] \in Nat /\ g[x] \in Nat
  BY DEF Summable
<1>2. /\ DOMAIN w = A /\ \A x \in A : w[x] = f[x]
      /\ DOMAIN z = A /\ \A x \in A : z[x] = IF x = b THEN 0 ELSE f[x]
  BY Restricted
<1>3. Summable(g, A)
  BY <1>1 DEF Summable
<1>4. Total(g, A) = Total(g, B)
  BY <1>3, TotalSkips
<1>5. Total(g, B) = Total(f, B)
  BY TotalDepends
<1>6. \A x \in A : w[x] \in Nat /\ z[x] \in Nat
  BY <1>1, <1>2
<1> HIDE DEF w, z, g
<1> DEFINE iw == SumIter(w)
           iz == SumIter(z)
<1>7. /\ iw = SumOf(w, iw) /\ \A x \in SUBSET A : iw[x] \in Nat
      /\ iz = SumOf(z, iz) /\ \A x \in SUBSET A : iz[x] \in Nat
  BY <1>1, <1>2, <1>6, SumIterates
<1>8. /\ \A x \in SUBSET A : \A c \in x : iw[x] = w[c] + iw[x \ {c}]
      /\ \A x \in SUBSET A : \A c \in x : iz[x] = z[c] + iz[x \ {c}]
  BY <1>1, <1>2, <1>6, SumAnyOrder
<1>9. SumFunction(w) = iw[A] /\ SumFunction(z) = iz[A]
  BY <1>2, SumUnfolds DEF SumIter
<1>10. iw[{}] = 0 /\ iz[{}] = 0
  BY <1>2, <1>7 DEF SumOf
<1> HIDE DEF iw, iz
<1> DEFINE T == {x \in SUBSET A : x \subseteq B => iw[x] = iz[x]}
<1>11. SUBSET A \subseteq T
  <2>1. {} \in T
    BY <1>10
  <2>2. ASSUME NEW x \in SUBSET A, x \in T, NEW c \in A \ x  PROVE x \cup {c} \in T
    <3>1. SUFFICES ASSUME x \cup {c} \subseteq B  PROVE iw[x \cup {c}] = iz[x \cup {c}]
      OBVIOUS
    <3>2. (x \cup {c}) \ {c} = x /\ c # b /\ x \subseteq B
      BY <2>2, <3>1
    <3>3. iw[x] = iz[x] /\ w[c] = z[c]
      BY <1>2, <2>2, <3>2
    <3>4. iw[x \cup {c}] = w[c] + iw[x] /\ iz[x \cup {c}] = z[c] + iz[x]
      BY <1>8, <2>2, <3>2
    <3> QED  BY <3>3, <3>4
  <2> HIDE DEF T
  <2> QED  BY <1>1, <2>1, <2>2, Growing
<1>12. iw[B] = iz[B] /\ iw[A] = w[b] + iw[B] /\ iz[A] = z[b] + iz[B] /\ iz[B] \in Nat
  <2>1. B \in T
    BY <1>11
  <2> QED  BY <1>7, <1>8, <2>1
<1>13. w[b] = f[b] /\ z[b] = 0 /\ f[b] \in Nat
  BY <1>1, <1>2
<1>14. SumFunction(w) = f[b] + SumFunction(z)
  BY <1>9, <1>12, <1>13
<1> QED  BY <1>4, <1>5, <1>14 DEF Total, w, z

\* Over two sets apart from each other.
LEMMA TotalSplits ==
    ASSUME NEW f, NEW S, Summable(f, S), NEW A \in SUBSET S, NEW B \in SUBSET S, A \cap B = {}
    PROVE  Total(f, A \cup B) = Total(f, A) + Total(f, B)
<1> DEFINE T == {x \in SUBSET S : x \cap A = {} => Total(f, A \cup x) = Total(f, A) + Total(f, x)}
<1>1. \A x \in SUBSET S : Summable(f, x) /\ Total(f, x) \in Nat
  BY FS_Subset, TotalIsNat DEF Summable
<1>2. {} \in T
  <2>1. A \cup {} = A
    OBVIOUS
  <2> QED  BY <1>1, <2>1, TotalOfNone
<1>3. ASSUME NEW x \in SUBSET S, x \in T, NEW b \in S \ x  PROVE x \cup {b} \in T
  <2>1. SUFFICES ASSUME (x \cup {b}) \cap A = {}
                 PROVE  Total(f, A \cup (x \cup {b})) = Total(f, A) + Total(f, x \cup {b})
    OBVIOUS
  <2>2. /\ x \cap A = {} /\ b \notin A \cup x
        /\ (A \cup (x \cup {b})) \ {b} = A \cup x /\ (x \cup {b}) \ {b} = x
    BY <1>3, <2>1
  <2>3. Total(f, A \cup (x \cup {b})) = f[b] + Total(f, A \cup x)
    <3>1. b \in A \cup (x \cup {b}) /\ Summable(f, A \cup (x \cup {b}))
      BY <1>1, <1>3
    <3> QED  BY <2>2, <3>1, TotalAdds
  <2>4. Total(f, x \cup {b}) = f[b] + Total(f, x)
    <3>1. b \in x \cup {b} /\ Summable(f, x \cup {b})
      BY <1>1, <1>3
    <3> QED  BY <2>2, <3>1, TotalAdds
  <2>5. Total(f, A \cup x) = Total(f, A) + Total(f, x)
    BY <1>3, <2>2
  <2>6. f[b] \in Nat /\ Total(f, A) \in Nat /\ Total(f, x) \in Nat
    BY <1>1, <1>3 DEF Summable
  <2> QED  BY <2>3, <2>4, <2>5, <2>6
<1> HIDE DEF T
<1>4. SUBSET S \subseteq T
  BY <1>2, <1>3, Growing DEF Summable
<1> QED  BY <1>4 DEF T

\* If no value is over m.
LEMMA TotalFits ==
    ASSUME NEW f, NEW S, Summable(f, S), NEW m \in Nat, \A b \in S : f[b] <= m
    PROVE  Total(f, S) <= Cardinality(S) * m
<1> DEFINE T == {x \in SUBSET S : Total(f, x) <= Cardinality(x) * m}
<1>1. \A x \in SUBSET S : Summable(f, x) /\ Total(f, x) \in Nat /\ Cardinality(x) \in Nat
  BY FS_Subset, FS_CardinalityType, TotalIsNat DEF Summable
<1>2. {} \in T
  BY TotalOfNone, FS_EmptySet
<1>3. ASSUME NEW x \in SUBSET S, x \in T, NEW b \in S \ x  PROVE x \cup {b} \in T
  <2>1. Total(f, x \cup {b}) = f[b] + Total(f, x)
    <3>1. b \in x \cup {b} /\ Summable(f, x \cup {b}) /\ (x \cup {b}) \ {b} = x
      BY <1>1, <1>3
    <3> QED  BY <3>1, TotalAdds
  <2>2. Cardinality(x \cup {b}) = Cardinality(x) + 1
    BY <1>1, <1>3, FS_AddElement DEF Summable
  <2> DEFINE c == Cardinality(x)
  <2>3. (c + 1) * m = c * m + m /\ c * m \in Int
    <3>1. c \in Nat
      BY <1>1
    <3> HIDE DEF c
    <3> QED  BY <3>1, NextMultiple
  <2>4. Total(f, x) <= c * m /\ f[b] <= m /\ f[b] \in Nat /\ Total(f, x) \in Nat
    BY <1>1, <1>3 DEF Summable
  <2> HIDE DEF c
  <2>5. f[b] + Total(f, x) <= (c + 1) * m
    BY <2>3, <2>4
  <2> QED  BY <1>3, <2>1, <2>2, <2>5 DEF c
<1> HIDE DEF T
<1>4. SUBSET S \subseteq T
  BY <1>2, <1>3, Growing DEF Summable
<1> QED  BY <1>4 DEF T

----------------------------------------------------------------------------
(***************************************************************************)
(* The bill. The readings follow the meter, and what two of them differ by *)
(* was drawn between them, or less if the meter restarted there; as a      *)
(* reading is left out only until the last one is stale, little is drawn   *)
(* without one. The invariant says so for the polls at any rate, Q, as the *)
(* windows that count are read only in the end: what is billed by the poll *)
(* of the reading and what was drawn differ by a short interval for each   *)
(* change of the rate and by a long one for each restart.                  *)
(***************************************************************************)

Most == Max(Draws)
Short == (Stale - 1) * Most
Long == Stale * Most

Drawn(A) == Total(drawn, A)

Reported == IF readings = <<>> THEN 0 ELSE LastReading.at
Base == IF readings = <<>> THEN StartTotal ELSE LastReading.kwh
Since == Reported + 1 .. poll

Of(Q) == {i \in DOMAIN readings : readings[i].at \in Q}
Billed(Q) == Total(Increments, Of(Q))

Changes(Q, n) == {t \in 1 .. n - 1 : (t \in Q) # (t + 1 \in Q)}

BillTypes ==
    /\ poll \in Nat /\ meter \in Nat /\ resets \in Nat
    /\ drawn \in Seq(Draws) /\ Len(drawn) = poll
    /\ readings \in Seq([at : Nat, kwh : Nat]) /\ Reported <= poll
    /\ windows \in WindowLists
    /\ bill \in [st : {"none", "priced", "frozen"}, windows : WindowLists \cup {<<>>},
                 offPeak : Nat, whole : Nat]
    /\ bill.st # "none" => bill.windows \in WindowLists

\* Only a stale interval's draws may be without a reading.
Quiet == \A t \in Since : drawn[t] > 0 => readings # <<>> /\ t < Reported + Stale

\* What is billed for the polls in Q, up to the last reading.
Near(Q, r) ==
    /\ Billed(Q) <= Drawn(Q \cap (1 .. Reported)) + Cardinality(Changes(Q, Reported)) * Short
    /\ Drawn(Q \cap (1 .. Reported))
           <= Billed(Q) + Cardinality(Changes(Q, Reported)) * Short + r * Long

\* r intervals between readings had a restart in them, if the one since the
\* last reading has none.
Metered ==
    /\ meter <= Base + Drawn(Since)
    /\ \E r \in 0 .. resets :
        /\ r = resets => meter = Base + Drawn(Since)
        /\ \A Q \in SUBSET Nat : Near(Q, r)

Frozen ==
    bill.st = "frozen" =>
        /\ bill.whole = Billed(Nat)
        /\ bill.offPeak = Billed({t \in Nat : IsOffPeak(t, bill.windows)})

BillInv == BillTypes /\ Quiet /\ Metered /\ Frozen

\* The constants are numbers, and a long interval is a poll more than a short.
LEMMA BillNumbers ==
    /\ Most \in Nat /\ \A d \in Draws : d \in Nat /\ d <= Most
    /\ Stale \in Nat /\ Stale - 1 \in Nat /\ Short \in Nat /\ Long \in Nat /\ Long = Short + Most
<1>1. Most \in Draws /\ \A d \in Draws : d <= Most
  <2>1. Draws \in SUBSET Int
    BY BillAssumption
  <2>2. Max(Draws) \in Draws /\ \A d \in Draws : Max(Draws) >= d
    BY <2>1, BillAssumption, MaxIsThere
  <2> QED  BY <2>1, <2>2 DEF Most
<1>2. Most \in Nat /\ Stale \in Nat \ {0} /\ \A d \in Draws : d \in Nat
  BY <1>1, BillAssumption
<1> DEFINE k == Stale - 1
<1>3. k \in Nat /\ Stale = k + 1
  BY <1>2
<1>4. k * Most \in Nat /\ (k + 1) * Most = k * Most + Most
  <2> HIDE DEF k
  <2> QED  BY <1>2, <1>3, NextMultiple, NatProduct
<1>5. Short = k * Most /\ Long = (k + 1) * Most
  BY <1>3 DEF Short, Long
<1> HIDE DEF k
<1>6. Short \in Nat /\ Long = Short + Most /\ Long \in Nat
  BY <1>2, <1>4, <1>5
<1> QED  BY <1>1, <1>2, <1>3, <1>6 DEF k

\* The draws can be summed.
LEMMA DrawsAdd ==
    ASSUME BillTypes, NEW A \in SUBSET (1 .. poll)
    PROVE  Summable(drawn, A) /\ Drawn(A) \in Nat /\ \A t \in A : drawn[t] <= Most
<1>1. A \subseteq DOMAIN drawn /\ \A t \in A : drawn[t] \in Draws
  BY DEF BillTypes
<1>2. IsFiniteSet(A)
  <2>1. IsFiniteSet(1 .. poll)
    BY FS_Interval DEF BillTypes
  <2> QED  BY <2>1, FS_Subset
<1>3. Summable(drawn, A)
  BY <1>1, <1>2, BillNumbers DEF Summable
<1> QED  BY <1>1, <1>3, BillNumbers, TotalIsNat DEF Drawn

\* The last reading, or the start, lies before the polls since.
LEMMA ReportedIsNat ==
    ASSUME BillTypes
    PROVE  Reported \in Nat /\ Base \in Nat /\ Since \in SUBSET (1 .. poll)
<1>1. Reported \in Nat /\ Base \in Nat
  <2>1. CASE readings = <<>>
    BY <2>1 DEF Reported, Base, StartTotal
  <2>2. CASE readings # <<>>
    <3> DEFINE T == [at : Nat, kwh : Nat]
    <3>1. readings \in Seq(T)
      BY DEF BillTypes
    <3> HIDE DEF T
    <3>2. Len(readings) \in 1 .. Len(readings)
      BY <2>2, <3>1
    <3>3. LastReading \in T
      BY <3>1, <3>2 DEF LastReading
    <3> QED  BY <2>2, <3>3 DEF Reported, Base, T
  <2> QED  BY <2>1, <2>2
<1> QED  BY <1>1 DEF Since, BillTypes

\* What has been drawn since the last reading was drawn in less than a stale
\* interval.
LEMMA SinceIsShort ==
    ASSUME BillTypes, Quiet, NEW A \in SUBSET Since
    PROVE  Drawn(A) <= Short
<1> DEFINE W == Reported + 1 .. Reported + (Stale - 1)
           B == A \cap W
<1>1. Reported \in Nat /\ A \in SUBSET (1 .. poll) /\ Stale - 1 \in Nat /\ Most \in Nat
      /\ Short \in Nat
  BY ReportedIsNat, BillNumbers
<1>2. Drawn(A) = Drawn(B)
  <2>1. ASSUME NEW t \in A \ B  PROVE drawn[t] = 0
    <3>1. t \in Since /\ t \in Int /\ ~(t < Reported + Stale) /\ drawn[t] \in Nat
      <4>1. t \in Since /\ t \in 1 .. poll /\ t >= Reported + 1
        BY <1>1, <2>1 DEF Since
      <4>2. drawn[t] \in Nat
        BY <1>1, <2>1, DrawsAdd DEF Summable
      <4>3. ~(t < Reported + Stale)
        BY <1>1, <2>1, <4>1, BillNumbers
      <4> QED  BY <4>1, <4>2, <4>3
    <3> QED  BY <3>1 DEF Quiet
  <2> QED  BY <1>1, <2>1, DrawsAdd, TotalSkips DEF Drawn
<1>3. Drawn(B) <= Cardinality(B) * Most
  <2>1. B \in SUBSET (1 .. poll)
    BY <1>1
  <2> HIDE DEF B
  <2> QED  BY <1>1, <2>1, DrawsAdd, TotalFits DEF Drawn
<1>4. Cardinality(B) \in Nat /\ Cardinality(B) <= Stale - 1
  <2>1. IsFiniteSet(W) /\ Cardinality(W) = Stale - 1
    <3> DEFINE a == Reported + 1
               b == Reported + (Stale - 1)
    <3>1. a \in Int /\ b \in Int /\ (IF a > b THEN 0 ELSE b - a + 1) = Stale - 1
      BY <1>1
    <3> HIDE DEF a, b
    <3>2. IsFiniteSet(a .. b) /\ Cardinality(a .. b) = Stale - 1
      BY <3>1, FS_Interval
    <3> QED  BY <3>2 DEF a, b
  <2>2. B \in SUBSET W
    OBVIOUS
  <2> HIDE DEF W, B
  <2> QED  BY <2>1, <2>2, FS_Subset, FS_CardinalityType
<1>5. Cardinality(B) * Most <= Short
  <2> DEFINE c == Cardinality(B)
             k == Stale - 1
  <2>1. c \in Nat /\ k \in Nat /\ c <= k /\ Short = k * Most
    BY <1>1, <1>4 DEF Short
  <2> HIDE DEF c, k
  <2>2. c * Most <= k * Most
    BY <1>1, <2>1
  <2> QED  BY <2>1, <2>2 DEF c
<1>6. Drawn(B) \in Nat /\ Cardinality(B) * Most \in Nat
  <2>1. B \in SUBSET (1 .. poll)
    BY <1>1
  <2> HIDE DEF B
  <2> QED  BY <1>1, <1>4, <2>1, DrawsAdd, NatProduct
<1> HIDE DEF B
<1> QED  BY <1>1, <1>2, <1>3, <1>5, <1>6

\* Between two polls at different rates the rate changes.
LEMMA ChangeBetween ==
    ASSUME NEW Q, NEW t \in Nat, NEW n \in Nat, t < n, (t \in Q) # (n \in Q)
    PROVE  \E e \in t .. n - 1 : (e \in Q) # (e + 1 \in Q)
<1> DEFINE S == {x \in t .. n - 1 : (x \in Q) # (n \in Q)}
           m == Max(S)
<1>1. S \in SUBSET Int /\ t \in S
  OBVIOUS
<1>2. IsFiniteSet(S)
  <2>1. IsFiniteSet(t .. n - 1)
    BY FS_Interval
  <2> QED  BY <2>1, FS_Subset
<1>3. m \in S /\ \A y \in S : m >= y
  <2> HIDE DEF S
  <2> QED  BY <1>1, <1>2, MaxIsThere
<1> HIDE DEF m
<1>4. m + 1 \notin S /\ m \in t .. n - 1
  BY <1>3
<1>5. (m + 1 \in Q) = (n \in Q)
  <2>1. CASE m + 1 = n
    BY <2>1
  <2>2. CASE m + 1 # n
    <3>1. m + 1 \in t .. n - 1
      BY <1>4, <2>2
    <3> QED  BY <1>4, <3>1
  <2> QED  BY <2>1, <2>2
<1> QED  BY <1>3, <1>4, <1>5

\* The changes up to a later poll are no fewer, and more if the rate differs.
LEMMA ChangesCount ==
    ASSUME NEW Q, NEW a \in Nat, NEW n \in Nat, a <= n
    PROVE  /\ Cardinality(Changes(Q, a)) \in Nat /\ Cardinality(Changes(Q, n)) \in Nat
           /\ Cardinality(Changes(Q, a)) <= Cardinality(Changes(Q, n))
           /\ \A t \in a + 1 .. n : (t \in Q) # (n \in Q) =>
                  Cardinality(Changes(Q, a)) + 1 <= Cardinality(Changes(Q, n))
<1> DEFINE A == Changes(Q, a)
           N == Changes(Q, n)
<1>1. IsFiniteSet(N) /\ A \in SUBSET N
  <2>1. IsFiniteSet(1 .. n - 1)
    BY FS_Interval
  <2>2. N \in SUBSET (1 .. n - 1) /\ A \in SUBSET N
    BY DEF Changes
  <2> HIDE DEF A, N
  <2> QED  BY <2>1, <2>2, FS_Subset
<1>2. /\ IsFiniteSet(A) /\ Cardinality(A) \in Nat /\ Cardinality(N) \in Nat
      /\ Cardinality(A) <= Cardinality(N)
  <2> HIDE DEF A, N
  <2> QED  BY <1>1, FS_Subset, FS_CardinalityType
<1>3. ASSUME NEW t \in a + 1 .. n, (t \in Q) # (n \in Q)
      PROVE  Cardinality(A) + 1 <= Cardinality(N)
  <2>1. t \in Nat /\ t < n /\ t > a
    BY <1>3
  <2>2. PICK e \in t .. n - 1 : (e \in Q) # (e + 1 \in Q)
    BY <1>3, <2>1, ChangeBetween
  <2>3. e \in N /\ e \notin A
    BY <2>1, <2>2 DEF Changes
  <2>4. A \cup {e} \in SUBSET N
    BY <1>1, <2>3
  <2>5. Cardinality(A \cup {e}) = Cardinality(A) + 1
    <3> HIDE DEF A
    <3> QED  BY <1>2, <2>3, FS_AddElement
  <2>6. Cardinality(A \cup {e}) <= Cardinality(N)
    <3> HIDE DEF A, N
    <3> QED  BY <1>1, <2>4, FS_Subset
  <2> QED  BY <2>5, <2>6
<1> QED  BY <1>2, <1>3

\* The increments are no less than nothing, whatever the meter does.
LEMMA BilledIsNat ==
    ASSUME readings \in Seq([at : Nat, kwh : Nat]), NEW Q
    PROVE  Summable(Increments, Of(Q)) /\ Billed(Q) \in Nat
<1>1. DOMAIN readings = 1 .. Len(readings) /\ Len(readings) \in Nat
      /\ \A i \in DOMAIN readings : readings[i].kwh \in Nat
  <2> DEFINE T == [at : Nat, kwh : Nat]
  <2>1. \A x \in T : x.kwh \in Nat
    OBVIOUS
  <2>2. readings \in Seq(T)
    OBVIOUS
  <2> HIDE DEF T
  <2>3. /\ DOMAIN readings = 1 .. Len(readings) /\ Len(readings) \in Nat
        /\ \A i \in DOMAIN readings : readings[i] \in T
    BY <2>2
  <2> QED  BY <2>1, <2>3
<1>2. \A i \in DOMAIN readings : Delta(i) \in Nat
  <2> TAKE i \in DOMAIN readings
  <2>1. readings[i].kwh \in Nat /\ (i # 1 => readings[i - 1].kwh \in Nat)
    <3>1. i \in 1 .. Len(readings) /\ (i # 1 => i - 1 \in 1 .. Len(readings))
      BY <1>1
    <3> QED  BY <1>1, <3>1
  <2> DEFINE before == IF i = 1 THEN StartTotal ELSE readings[i - 1].kwh
             d == readings[i].kwh - before
  <2>4. before \in Nat
    BY <2>1 DEF StartTotal
  <2>2. d \in Int
    <3> HIDE DEF before
    <3> QED  BY <2>1, <2>4
  <2>3. Delta(i) = IF d > 0 THEN d ELSE 0
    BY DEF Delta
  <2> HIDE DEF d
  <2> QED  BY <2>2, <2>3
<1>3. IsFiniteSet(Of(Q))
  <2>1. PICK n \in Nat : DOMAIN readings = 1 .. n
    BY <1>1
  <2>2. IsFiniteSet(1 .. n)
    BY <2>1, FS_Interval
  <2>3. Of(Q) \in SUBSET (1 .. n)
    BY <2>1 DEF Of
  <2> QED  BY <2>2, <2>3, FS_Subset
<1>4. Summable(Increments, Of(Q))
  BY <1>2, <1>3 DEF Summable, Increments, Of
<1> QED  BY <1>4, TotalIsNat DEF Billed

Above(x, y) == IF x > y THEN x - y ELSE 0

\* A reading more.
LEMMA ReadingAdds ==
    ASSUME BillTypes, NEW x \in [at : Nat, kwh : Nat], readings' = Append(readings, x)
    PROVE  /\ readings' \in Seq([at : Nat, kwh : Nat])
           /\ Reported' = x.at /\ Base' = x.kwh
           /\ \A Q : Billed(Q)' = Billed(Q) + IF x.at \in Q THEN Above(x.kwh, Base) ELSE 0
<1> DEFINE T == [at : Nat, kwh : Nat]
<1>1. readings \in Seq(T) /\ x \in T
  BY DEF BillTypes
<1>0. PICK n \in Nat : n = Len(readings) + 1
  <2> HIDE DEF T
  <2> QED  BY <1>1
<1>2. /\ readings' \in Seq(T) /\ Len(readings) \in Nat /\ Len(readings') = n /\ readings'[n] = x
      /\ DOMAIN readings = 1 .. Len(readings) /\ DOMAIN readings' = 1 .. n
      /\ \A i \in DOMAIN readings : readings'[i] = readings[i] /\ i # n
  <2> HIDE DEF T
  <2> QED  BY <1>0, <1>1
<1>3. readings' # <<>>
  BY <1>2
<1>4. Reported' = x.at /\ Base' = x.kwh
  BY <1>2, <1>3 DEF Reported, Base, LastReading
<1>5. \A i \in DOMAIN readings : Delta(i)' = Delta(i)
  <2> TAKE i \in DOMAIN readings
  <2>1. i \in 1 .. Len(readings) /\ (i # 1 => i - 1 \in DOMAIN readings)
    BY <1>2
  <2>2. readings'[i] = readings[i] /\ (i # 1 => readings'[i - 1] = readings[i - 1])
    BY <1>2, <2>1
  <2> QED  BY <2>2 DEF Delta
<1>6. Delta(n)' = Above(x.kwh, Base)
  <2>1. CASE readings = <<>>
    <3>1. n = 1 /\ Base = StartTotal
      BY <1>0, <2>1 DEF Base
    <3> QED  BY <1>2, <3>1 DEF Delta, Above, StartTotal
  <2>2. CASE readings # <<>>
    <3>1. n # 1 /\ n - 1 = Len(readings) /\ Len(readings) \in DOMAIN readings
      <4> HIDE DEF T
      <4> QED  BY <1>0, <1>1, <1>2, <2>2
    <3>2. Base = readings[n - 1].kwh /\ readings'[n - 1] = readings[n - 1]
      BY <1>2, <2>2, <3>1 DEF Base, LastReading
    <3>3. Delta(n)' = IF x.kwh - Base > 0 THEN x.kwh - Base ELSE 0
      BY <1>2, <3>1, <3>2 DEF Delta
    <3>4. x.kwh \in Nat /\ Base \in Nat
      BY ReportedIsNat
    <3> QED  BY <3>3, <3>4 DEF Above
  <2> QED  BY <2>1, <2>2
<1>7. Increments' = [i \in 1 .. n |-> Delta(i)']
  BY <1>2 DEF Increments
<1>8. ASSUME NEW Q  PROVE Billed(Q)' = Billed(Q) + IF x.at \in Q THEN Above(x.kwh, Base) ELSE 0
  <2>1. Of(Q)' = Of(Q) \cup (IF x.at \in Q THEN {n} ELSE {}) /\ n \notin Of(Q)
    <3>1. DOMAIN readings' = DOMAIN readings \cup {n} /\ n \notin DOMAIN readings
      BY <1>0, <1>2
    <3> QED  BY <1>2, <3>1 DEF Of
  <2>2. Total(Increments', Of(Q)) = Total(Increments, Of(Q))
    <3>1. \A i \in Of(Q) : Increments'[i] = Increments[i]
      <4> TAKE i \in Of(Q)
      <4>1. i \in DOMAIN readings /\ i \in 1 .. n
        BY <1>0, <1>2 DEF Of
      <4> QED  BY <1>5, <1>7, <4>1 DEF Increments
    <3> HIDE DEF Increments
    <3> QED  BY <3>1, TotalDepends
  <2>3. Billed(Q)' = Total(Increments', Of(Q)')
    BY DEF Billed
  <2>4. CASE x.at \notin Q
    <3>1. Of(Q)' = Of(Q)
      BY <2>1, <2>4
    <3>2. Billed(Q) \in Nat
      BY <1>1, BilledIsNat
    <3> QED  BY <2>2, <2>3, <2>4, <3>1, <3>2 DEF Billed
  <2>5. CASE x.at \in Q
    <3> DEFINE O == Of(Q) \cup {n}
    <3>1. Of(Q)' = O /\ n \in O /\ O \ {n} = Of(Q)
      BY <2>1, <2>5
    <3>2. Summable(Increments', O)
      <4>1. Summable(Increments, Of(Q))
        BY <1>1, BilledIsNat
      <4>2. IsFiniteSet(O)
        BY <4>1, FS_AddElement DEF Summable
      <4>3. O \subseteq 1 .. n /\ \A i \in O : i # n => i \in Of(Q) /\ i \in DOMAIN readings
        BY <1>0, <1>2 DEF Of
      <4>4. DOMAIN Increments' = 1 .. n /\ \A i \in 1 .. n : Increments'[i] = Delta(i)'
        BY <1>7
      <4>5. Above(x.kwh, Base) \in Nat
        <5>1. x.kwh \in Nat /\ Base \in Nat
          BY ReportedIsNat
        <5> QED  BY <5>1 DEF Above
      <4>6. \A i \in O : Increments'[i] \in Nat
        <5> TAKE i \in O
        <5>1. CASE i = n
          BY <1>0, <1>6, <4>3, <4>4, <4>5, <5>1
        <5>2. CASE i # n
          <6>1. Increments'[i] = Increments[i] /\ i \in Of(Q)
            BY <1>5, <4>3, <4>4, <5>2 DEF Increments
          <6> QED  BY <4>1, <6>1 DEF Summable
        <5> QED  BY <5>1, <5>2
      <4> HIDE DEF O
      <4> QED  BY <4>2, <4>3, <4>4, <4>6 DEF Summable
    <3>3. Total(Increments', O) = Increments'[n] + Total(Increments', O \ {n})
      <4> HIDE DEF O
      <4> QED  BY <3>1, <3>2, TotalAdds
    <3>4. Increments'[n] = Above(x.kwh, Base)
      BY <1>2, <1>6, <1>7
    <3>5. Billed(Q) \in Nat /\ Above(x.kwh, Base) \in Nat
      <4>1. x.kwh \in Nat /\ Base \in Nat
        BY ReportedIsNat
      <4> QED  BY <1>1, <4>1, BilledIsNat DEF Above
    <3> HIDE DEF O
    <3>6. Billed(Q) = Total(Increments, Of(Q))
      BY DEF Billed
    <3>7. Billed(Q)' = Above(x.kwh, Base) + Billed(Q)
      BY <2>2, <2>3, <3>1, <3>3, <3>4, <3>6
    <3> QED  BY <2>5, <3>5, <3>7
  <2> QED  BY <2>4, <2>5
<1> QED  BY <1>2, <1>4, <1>8

\* An index that was not there.
LEMMA TotalWith ==
    ASSUME NEW f, NEW A, NEW b, b \notin A, Summable(f, A), b \in DOMAIN f, f[b] \in Nat
    PROVE  Summable(f, A \cup {b}) /\ Total(f, A \cup {b}) = f[b] + Total(f, A)
<1>1. PICK B : B = A \cup {b}
  OBVIOUS
<1>2. b \in B /\ B \ {b} = A
  BY <1>1
<1>3. IsFiniteSet(B)
  BY <1>1, FS_AddElement DEF Summable
<1>4. Summable(f, B)
  BY <1>1, <1>3 DEF Summable
<1>5. Total(f, B) = f[b] + Total(f, B \ {b})
  BY <1>2, <1>4, TotalAdds
<1> QED  BY <1>1, <1>2, <1>4, <1>5

\* The draws in a set of polls, at the rate of Q or not.
LEMMA TotalParts ==
    ASSUME NEW f, NEW S, Summable(f, S), NEW Q
    PROVE  Total(f, S) = Total(f, Q \cap S) + Total(f, S \ Q)
<1>1. PICK P : P = Q \cap S
  OBVIOUS
<1>2. PICK N : N = S \ Q
  OBVIOUS
<1>3. P \in SUBSET S /\ N \in SUBSET S /\ P \cap N = {} /\ P \cup N = S
  BY <1>1, <1>2
<1>4. Total(f, P \cup N) = Total(f, P) + Total(f, N)
  BY <1>3, TotalSplits
<1> QED  BY <1>1, <1>2, <1>3, <1>4

\* A poll more.
LEMMA DrawnGrows ==
    ASSUME BillTypes, NEW d \in Draws, drawn' = Append(drawn, d), NEW n \in Nat, n = poll + 1
    PROVE  /\ drawn' \in Seq(Draws) /\ Len(drawn') = n /\ drawn'[n] = d
           /\ \A t \in 1 .. poll : drawn'[t] = drawn[t]
           /\ \A A \in SUBSET (1 .. poll) :
                 Total(drawn', A) = Drawn(A) /\ Total(drawn', A \cup {n}) = Drawn(A) + d
<1>1. drawn \in Seq(Draws) /\ Len(drawn) = poll /\ poll \in Nat
  BY DEF BillTypes
<1>2. /\ drawn' \in Seq(Draws) /\ Len(drawn') = n /\ drawn'[n] = d
      /\ \A t \in 1 .. poll : drawn'[t] = drawn[t]
  BY <1>1
<1>3. ASSUME NEW A \in SUBSET (1 .. poll)
      PROVE  Total(drawn', A) = Drawn(A) /\ Total(drawn', A \cup {n}) = Drawn(A) + d
  <2>1. Total(drawn', A) = Drawn(A)
    BY <1>2, TotalDepends DEF Drawn
  <2>2. n \notin A /\ n \in DOMAIN drawn' /\ A \subseteq DOMAIN drawn'
    BY <1>1, <1>2
  <2>3. IsFiniteSet(A) /\ \A t \in A : drawn[t] \in Nat
    BY DrawsAdd DEF Summable
  <2>4. Summable(drawn', A)
    BY <1>2, <2>2, <2>3 DEF Summable
  <2>5. d \in Nat /\ Drawn(A) \in Nat
    BY BillNumbers, DrawsAdd
  <2>6. Total(drawn', A \cup {n}) = drawn'[n] + Total(drawn', A)
    BY <1>2, <2>2, <2>4, <2>5, TotalWith
  <2>7. Total(drawn', A \cup {n}) = d + Drawn(A)
    BY <1>2, <2>1, <2>6
  <2> QED  BY <2>1, <2>5, <2>7
<1> QED  BY <1>2, <1>3

\* Without a new reading, what is billed stays.
LEMMA ReadingsStand ==
    ASSUME readings' = readings
    PROVE  Reported' = Reported /\ Base' = Base /\ \A Q : Billed(Q)' = Billed(Q)
<1>1. Increments' = Increments
  BY DEF Increments, Delta
<1>2. \A Q : Of(Q)' = Of(Q)
  BY DEF Of
<1> QED  BY <1>1, <1>2 DEF Reported, Base, LastReading, Billed

\* And so does what it is compared with.
LEMMA NearStands ==
    ASSUME BillTypes, readings' = readings, NEW Q, NEW r, Near(Q, r),
           drawn' = drawn \/ \E d \in Draws : drawn' = Append(drawn, d)
    PROVE  Near(Q, r)'
<1> DEFINE A == Q \cap (1 .. Reported)
<1>1. A \in SUBSET (1 .. poll) /\ Reported' = Reported /\ Billed(Q)' = Billed(Q)
  BY ReportedIsNat, ReadingsStand DEF BillTypes
<1>2. Total(drawn', A) = Drawn(A)
  <2>1. CASE drawn' = drawn
    BY <2>1 DEF Drawn
  <2>2. ASSUME NEW d \in Draws, drawn' = Append(drawn, d)  PROVE Total(drawn', A) = Drawn(A)
    <3>1. PICK n \in Nat : n = poll + 1
      BY DEF BillTypes
    <3> HIDE DEF A
    <3> QED  BY <1>1, <2>2, <3>1, DrawnGrows
  <2> QED  BY <2>1, <2>2
<1>3. Drawn(A)' = Total(drawn', A)
  BY <1>1 DEF Drawn
<1>4. Cardinality(Changes(Q, Reported))' = Cardinality(Changes(Q, Reported))
  BY <1>1 DEF Changes
<1> QED  BY <1>1, <1>2, <1>3, <1>4 DEF Near

\* What has been drawn up to the next poll, at the rate of Q.
LEMMA DrawnUpTo ==
    ASSUME BillTypes, NEW d \in Draws, drawn' = Append(drawn, d), NEW n \in Nat, n = poll + 1, NEW Q
    PROVE  Total(drawn', Q \cap (1 .. n)) =
               Drawn(Q \cap (1 .. Reported)) + Drawn(Q \cap Since) + (IF n \in Q THEN d ELSE 0)
<1>1. /\ Reported \in Nat /\ Since \in SUBSET (1 .. poll) /\ Reported <= poll /\ poll \in Nat
  BY ReportedIsNat DEF BillTypes
<1>2. PICK A : A = Q \cap (1 .. Reported)
  OBVIOUS
<1>3. PICK P : P = Q \cap Since
  OBVIOUS
<1>4. PICK U : U = A \cup P
  OBVIOUS
<1>5. A \in SUBSET (1 .. poll) /\ P \in SUBSET (1 .. poll) /\ A \cap P = {} /\ U \in SUBSET (1 .. poll)
  BY <1>1, <1>2, <1>3, <1>4 DEF Since
<1>6. Summable(drawn, U) /\ Drawn(U) \in Nat
  BY <1>5, DrawsAdd
<1>7. A \in SUBSET U /\ P \in SUBSET U
  BY <1>4
<1>15. A \cap P = {} /\ Summable(drawn, U)
  BY <1>5, <1>6
<1>14. Total(drawn, A \cup P) = Total(drawn, A) + Total(drawn, P)
  BY <1>7, <1>15, TotalSplits
<1>8. Drawn(U) = Drawn(A) + Drawn(P) /\ Drawn(U) \in Nat
  BY <1>4, <1>6, <1>14 DEF Drawn
<1>9. Total(drawn', U) = Drawn(U) /\ Total(drawn', U \cup {n}) = Drawn(U) + d
  BY <1>5, DrawnGrows
<1>10. Q \cap (1 .. n) = IF n \in Q THEN U \cup {n} ELSE U
  <2>1. 1 .. n = (1 .. Reported) \cup Since \cup {n}
    BY <1>1 DEF Since
  <2> QED  BY <1>2, <1>3, <1>4, <2>1
<1>11. CASE n \in Q
  BY <1>2, <1>3, <1>8, <1>9, <1>10, <1>11
<1>12. CASE n \notin Q
  <2>1. Q \cap (1 .. n) = U
    BY <1>10, <1>12
  <2>2. Total(drawn', Q \cap (1 .. n)) = Drawn(A) + Drawn(P)
    BY <1>8, <1>9, <2>1
  <2>3. Drawn(A) + Drawn(P) + 0 = Drawn(A) + Drawn(P)
    BY <1>5, DrawsAdd
  <2> QED  BY <1>2, <1>3, <1>12, <2>2, <2>3
<1> QED  BY <1>11, <1>12

\* Energy at another rate than the new reading's is energy before a change.
LEMMA OtherRate ==
    ASSUME BillTypes, NEW n \in Nat, n = poll + 1, NEW Q
    PROVE  LET a == Cardinality(Changes(Q, Reported))
               c == Cardinality(Changes(Q, n))
           IN  /\ a \in Nat /\ c \in Nat /\ a <= c
               /\ (n \in Q /\ Drawn(Since \ Q) > 0) \/ (n \notin Q /\ Drawn(Q \cap Since) > 0)
                     => a + 1 <= c
<1> DEFINE a == Cardinality(Changes(Q, Reported))
           c == Cardinality(Changes(Q, n))
<1>1. Reported \in Nat /\ Reported <= poll /\ poll \in Nat /\ Since = Reported + 1 .. poll
  BY ReportedIsNat DEF BillTypes, Since
<1>2. /\ a \in Nat /\ c \in Nat /\ a <= c
      /\ \A t \in Reported + 1 .. n : (t \in Q) # (n \in Q) => a + 1 <= c
  BY <1>1, ChangesCount
<1> HIDE DEF a, c
<1>3. Drawn({}) = 0
  BY TotalOfNone DEF Drawn
<1>4. ASSUME n \in Q, Drawn(Since \ Q) > 0  PROVE a + 1 <= c
  <2>1. Since \ Q # {}
    BY <1>3, <1>4
  <2>2. PICK t \in Since \ Q : TRUE
    BY <2>1
  <2>3. t \in Reported + 1 .. n /\ t \notin Q
    BY <1>1, <2>2
  <2> QED  BY <1>2, <1>4, <2>3
<1>5. ASSUME n \notin Q, Drawn(Q \cap Since) > 0  PROVE a + 1 <= c
  <2>1. Q \cap Since # {}
    BY <1>3, <1>5
  <2>2. PICK t \in Q \cap Since : TRUE
    BY <2>1
  <2>3. t \in Reported + 1 .. n /\ t \in Q
    BY <1>1, <2>2
  <2> QED  BY <1>2, <1>5, <2>3
<1> QED  BY <1>2, <1>4, <1>5 DEF a, c

\* The draws since the last reading, at the rate of Q or not.
LEMMA SinceParts ==
    ASSUME BillTypes, NEW Q
    PROVE  Drawn(Since) = Drawn(Q \cap Since) + Drawn(Since \ Q)
<1>1. Since \in SUBSET (1 .. poll)
  BY ReportedIsNat
<1>2. Summable(drawn, Since)
  BY <1>1, DrawsAdd
<1>3. Total(drawn, Since) = Total(drawn, Q \cap Since) + Total(drawn, Since \ Q)
  BY <1>2, TotalParts
<1> QED  BY <1>3 DEF Drawn

\* A reading more: what it bills at the rate of its poll was drawn at that
\* rate but for a stale interval's draws, and only if the rate has changed.
LEMMA NearNext ==
    ASSUME BillTypes, Quiet, meter <= Base + Drawn(Since),
           NEW d \in Draws, drawn' = Append(drawn, d), NEW n \in Nat, n = poll + 1,
           readings' = Append(readings, [at |-> n, kwh |-> meter + d]),
           NEW r \in 0 .. resets, r = resets => meter = Base + Drawn(Since),
           NEW Q, Near(Q, r), NEW q \in Nat, q = IF r = resets THEN r ELSE r + 1
    PROVE  Near(Q, q)'
<1>1. /\ Reported \in Nat /\ Base \in Nat /\ Since \in SUBSET (1 .. poll) /\ Reported <= poll
      /\ meter \in Nat /\ poll \in Nat /\ resets \in Nat /\ d \in Nat /\ d <= Most
      /\ Most \in Nat /\ Short \in Nat /\ Long \in Nat /\ Long = Short + Most
  BY ReportedIsNat, BillNumbers DEF BillTypes
<1>2. PICK x \in [at : Nat, kwh : Nat] : x = [at |-> n, kwh |-> meter + d]
  BY <1>1
<1>3. readings' = Append(readings, x) /\ x.at = n /\ x.kwh = meter + d
  BY <1>2
<1>4. Reported' = n /\ Billed(Q)' = Billed(Q) + IF n \in Q THEN Above(meter + d, Base) ELSE 0
  <2>1. Reported' = x.at /\ Billed(Q)' = Billed(Q) + IF x.at \in Q THEN Above(x.kwh, Base) ELSE 0
    BY <1>2, <1>3, ReadingAdds
  <2> QED  BY <1>3, <2>1
<1>5. PICK o : o = Drawn(Q \cap (1 .. Reported))
  OBVIOUS
<1>6. PICK p : p = Drawn(Q \cap Since)
  OBVIOUS
<1>7. PICK m : m = Drawn(Since \ Q)
  OBVIOUS
<1>8. PICK b : b = Billed(Q)
  OBVIOUS
<1>9. PICK a : a = Cardinality(Changes(Q, Reported))
  OBVIOUS
<1>10. PICK c : c = Cardinality(Changes(Q, n))
  OBVIOUS
<1>11. o \in Nat /\ p \in Nat /\ m \in Nat /\ p <= Short /\ m <= Short
  <2>1. Q \cap (1 .. Reported) \in SUBSET (1 .. poll)
    BY <1>1
  <2>2. /\ Q \cap Since \in SUBSET Since /\ Since \ Q \in SUBSET Since
        /\ Q \cap Since \in SUBSET (1 .. poll) /\ Since \ Q \in SUBSET (1 .. poll)
    BY <1>1
  <2>3. o \in Nat
    BY <1>5, <2>1, DrawsAdd
  <2>4. p \in Nat /\ p <= Short
    BY <1>6, <2>2, DrawsAdd, SinceIsShort
  <2>5. m \in Nat /\ m <= Short
    BY <1>7, <2>2, DrawsAdd, SinceIsShort
  <2> QED  BY <2>3, <2>4, <2>5
<1>12. Drawn(Since) = p + m
  BY <1>6, <1>7, SinceParts
<1>13. b \in Nat
  BY <1>8, BilledIsNat DEF BillTypes
<1>14. b <= o + a * Short /\ o <= b + a * Short + r * Long
  BY <1>5, <1>8, <1>9 DEF Near
<1>15. /\ a \in Nat /\ c \in Nat /\ a <= c
       /\ (n \in Q /\ m > 0) \/ (n \notin Q /\ p > 0) => a + 1 <= c
  BY <1>6, <1>7, <1>9, <1>10, OtherRate
<1>16. PICK k : k = a * Short
  OBVIOUS
<1>17. PICK l : l = c * Short
  OBVIOUS
<1>18. PICK v : v = r * Long
  OBVIOUS
<1>19. k \in Nat /\ l \in Nat /\ k <= l /\ (a + 1 <= c => k + Short <= l)
  <2>1. a * Short \in Nat /\ c * Short \in Nat /\ a * Short <= c * Short
    BY <1>1, <1>15, NatProduct
  <2>2. a + 1 <= c => (a + 1) * Short <= c * Short
    BY <1>1, <1>15
  <2>3. (a + 1) * Short = a * Short + Short
    BY <1>1, <1>15, NextMultiple
  <2> QED  BY <1>16, <1>17, <2>1, <2>2, <2>3
<1>20. v \in Nat /\ q * Long = IF r = resets THEN v ELSE v + (Short + Most)
  <2>1. r \in Nat
    BY <1>1
  <2>2. r * Long \in Nat /\ (r + 1) * Long = r * Long + Long
    BY <1>1, <2>1, NatProduct, NextMultiple
  <2> QED  BY <1>1, <1>18, <2>2
<1>23. PICK e : e = IF n \in Q THEN Above(meter + d, Base) ELSE 0
  OBVIOUS
<1>24. PICK g : g = IF n \in Q THEN d ELSE 0
  OBVIOUS
<1>25. b + e <= o + p + g + l /\ o + p + g <= b + e + l + q * Long
  <2>1. b <= o + k /\ o <= b + k + v
    BY <1>14, <1>16, <1>18
  <2>2. meter <= Base + p + m /\ (r = resets => meter = Base + p + m)
    BY <1>1, <1>11, <1>12
  <2>3. (n \in Q /\ m > 0) \/ (n \notin Q /\ p > 0) => k + Short <= l
    BY <1>15, <1>19
  <2>5. /\ o \in Nat /\ p \in Nat /\ m \in Nat /\ b \in Nat /\ k \in Nat /\ l \in Nat /\ v \in Nat
        /\ Short \in Nat /\ Most \in Nat /\ d \in Nat /\ meter \in Nat /\ Base \in Nat
        /\ d <= Most /\ p <= Short /\ m <= Short /\ k <= l
    BY <1>1, <1>11, <1>13, <1>19, <1>20
  <2>4. PICK y \in Nat : y = q * Long
    BY <1>20, <2>5
  <2>9. y \in Nat
    BY <2>4
  <2>6. (r = resets /\ y = v) \/ (r # resets /\ y = v + (Short + Most))
    BY <1>20, <2>4
  <2>7. CASE n \in Q
    <3>1. g = d /\ e = IF meter + d > Base THEN meter + d - Base ELSE 0
      BY <1>23, <1>24, <2>5, <2>7 DEF Above
    <3>2. b + e <= o + p + g + l /\ o + p + g <= b + e + l + y
      BY <2>1, <2>2, <2>3, <2>5, <2>6, <2>7, <2>9, <3>1
    <3> QED  BY <2>4, <3>2
  <2>8. CASE n \notin Q
    <3>1. g = 0 /\ e = 0
      BY <1>23, <1>24, <2>8
    <3>2. b + e <= o + p + g + l /\ o + p + g <= b + e + l + y
      BY <2>1, <2>2, <2>3, <2>5, <2>6, <2>8, <2>9, <3>1
    <3> QED  BY <2>4, <3>2
  <2> QED  BY <2>7, <2>8
<1>26. /\ Billed(Q)' = b + e
       /\ Drawn(Q \cap (1 .. Reported))' = o + p + g
       /\ Cardinality(Changes(Q, Reported))' = c
  <2>1. Billed(Q)' = b + e
    BY <1>4, <1>8, <1>23
  <2>2. Drawn(Q \cap (1 .. Reported))' = Total(drawn', Q \cap (1 .. n))
    BY <1>4 DEF Drawn
  <2>3. Drawn(Q \cap (1 .. Reported))' = o + p + g
    BY <1>5, <1>6, <1>24, <2>2, DrawnUpTo
  <2>4. Cardinality(Changes(Q, Reported))' = c
    BY <1>4, <1>10 DEF Changes
  <2> QED  BY <2>1, <2>3, <2>4
<1> QED  BY <1>17, <1>25, <1>26 DEF Near

\* Nothing drawn, nothing billed.
LEMMA BillStarts == BillInit => BillInv
<1> SUFFICES ASSUME BillInit  PROVE BillInv
  OBVIOUS
<1> USE DEF BillInit
<1>1. poll = 0 /\ drawn = <<>> /\ readings = <<>> /\ resets = 0 /\ meter = 2 /\ bill = NoBill
      /\ windows \in WindowLists
  BY DEF StartTotal
<1>2. Reported = 0 /\ Base = 2 /\ Since = {}
  BY <1>1 DEF Reported, Base, Since, StartTotal
<1>3. BillTypes
  BY <1>1, <1>2 DEF BillTypes, NoBill
<1>4. \A Q : Billed(Q) = 0 /\ Drawn(Q \cap (1 .. Reported)) = 0
  <2> TAKE Q
  <2>1. Of(Q) = {} /\ Q \cap (1 .. Reported) = {}
    BY <1>1, <1>2 DEF Of
  <2> QED  BY <2>1, TotalOfNone DEF Billed, Drawn
<1>5. Quiet
  BY <1>2 DEF Quiet
<1>6. \A Q : Near(Q, 0)
  <2> TAKE Q
  <2>1. PICK a : a = Cardinality(Changes(Q, Reported))
    OBVIOUS
  <2>2. a \in Nat
    BY <1>2, <2>1, ChangesCount
  <2>3. Short \in Nat /\ Long \in Nat
    BY BillNumbers
  <2>4. a * Short \in Nat /\ 0 * Long = 0
    BY <2>2, <2>3, NatProduct
  <2>5. /\ 0 <= 0 + a * Short
        /\ 0 <= 0 + a * Short + 0 * Long
    BY <2>4
  <2> QED  BY <1>4, <2>1, <2>5 DEF Near
<1>7. Metered
  <2>1. Drawn(Since) = 0
    BY <1>2, TotalOfNone DEF Drawn
  <2>2. 0 \in 0 .. resets /\ meter <= Base + Drawn(Since) /\ meter = Base + Drawn(Since)
    BY <1>1, <1>2, <2>1
  <2> QED  BY <1>6, <2>2 DEF Metered
<1>8. Frozen
  BY <1>1 DEF Frozen, NoBill
<1> QED  BY <1>3, <1>5, <1>7, <1>8 DEF BillInv

\* A poll that leaves a reading.
LEMMA PollIsStored ==
    ASSUME BillInv, NEW d \in Draws, NEW store, PollReading(d, store),
           d > 0 /\ ShouldStore(poll', store)
    PROVE  BillInv'
<1>1. BillTypes /\ Quiet /\ Metered
  BY DEF BillInv
<1>2. PICK n \in Nat : n = poll + 1
  BY <1>1 DEF BillTypes
<1>3. /\ bill.st # "frozen" /\ poll' = n /\ drawn' = Append(drawn, d) /\ meter' = meter + d
      /\ readings' = Append(readings, [at |-> n, kwh |-> meter + d])
      /\ windows' = windows /\ bill' = bill /\ resets' = resets
  BY <1>2 DEF PollReading
<1>4. /\ meter \in Nat /\ d \in Nat /\ meter + d \in Nat /\ resets \in Nat /\ poll \in Nat
  BY <1>1, BillNumbers DEF BillTypes
<1>5. PICK x \in [at : Nat, kwh : Nat] : x = [at |-> n, kwh |-> meter + d]
  BY <1>4
<1>6. readings' = Append(readings, x) /\ x.at = n /\ x.kwh = meter + d
  BY <1>3, <1>5
<1>7. readings' \in Seq([at : Nat, kwh : Nat]) /\ Reported' = n /\ Base' = meter + d
  BY <1>1, <1>5, <1>6, ReadingAdds
<1>8. BillTypes'
  <2>1. drawn' \in Seq(Draws) /\ Len(drawn') = n
    BY <1>1, <1>2, <1>3, DrawnGrows
  <2> QED  BY <1>1, <1>3, <1>4, <1>7, <2>1 DEF BillTypes
<1>9. Since' = {}
  BY <1>3, <1>7 DEF Since
<1>10. Quiet'
  BY <1>9 DEF Quiet
<1>11. Drawn(Since)' = 0
  BY <1>9, TotalOfNone DEF Drawn
<1>12. meter <= Base + Drawn(Since)
  BY <1>1 DEF Metered
<1>13. PICK r \in 0 .. resets : /\ r = resets => meter = Base + Drawn(Since)
                                /\ \A Q \in SUBSET Nat : Near(Q, r)
  BY <1>1 DEF Metered
<1>14. PICK q \in Nat : q = IF r = resets THEN r ELSE r + 1
  BY <1>4
<1>15. q \in 0 .. resets
  BY <1>4, <1>14
<1>16. ASSUME NEW Q \in SUBSET Nat  PROVE Near(Q, q)'
  <2>1. Near(Q, r)
    BY <1>13
  <2> QED  BY <1>1, <1>2, <1>3, <1>12, <1>13, <1>14, <2>1, NearNext
<1>17. Metered'
  <2>1. meter' = Base' + Drawn(Since)' /\ meter' <= Base' + Drawn(Since)'
    BY <1>3, <1>4, <1>7, <1>11
  <2>2. q \in 0 .. resets'
    BY <1>3, <1>15
  <2> QED  BY <1>16, <2>1, <2>2 DEF Metered
<1>18. Frozen'
  BY <1>3 DEF Frozen
<1> QED  BY <1>8, <1>10, <1>17, <1>18 DEF BillInv

\* A poll that leaves none: it drew nothing, or the last reading is not stale.
LEMMA PollIsLeftOut ==
    ASSUME BillInv, NEW d \in Draws, NEW store, PollReading(d, store),
           ~(d > 0 /\ ShouldStore(poll', store))
    PROVE  BillInv'
<1>1. BillTypes /\ Quiet /\ Metered
  BY DEF BillInv
<1>2. PICK n \in Nat : n = poll + 1
  BY <1>1 DEF BillTypes
<1>3. /\ bill.st # "frozen" /\ poll' = n /\ drawn' = Append(drawn, d) /\ meter' = meter + d
      /\ readings' = readings
      /\ windows' = windows /\ bill' = bill /\ resets' = resets
  BY <1>2 DEF PollReading
<1>4. /\ meter \in Nat /\ d \in Nat /\ meter + d \in Nat /\ resets \in Nat /\ poll \in Nat
      /\ Reported \in Nat /\ Base \in Nat /\ Reported <= poll /\ Since \in SUBSET (1 .. poll)
  BY <1>1, BillNumbers, ReportedIsNat DEF BillTypes
<1>5. Reported' = Reported /\ Base' = Base
  BY <1>3, ReadingsStand
<1>6. /\ drawn' \in Seq(Draws) /\ Len(drawn') = n /\ drawn'[n] = d
      /\ \A t \in 1 .. poll : drawn'[t] = drawn[t]
  BY <1>1, <1>2, <1>3, DrawnGrows
<1>7. Total(drawn', Since \cup {n}) = Drawn(Since) + d
  BY <1>1, <1>2, <1>3, <1>4, DrawnGrows
<1>8. BillTypes'
  <2>1. Reported' <= n
    BY <1>2, <1>4, <1>5
  <2> QED  BY <1>1, <1>3, <1>4, <1>6, <2>1 DEF BillTypes
<1>9. Since' = Since \cup {n}
  BY <1>2, <1>3, <1>4, <1>5 DEF Since
<1>10. Quiet'
  <2>1. ASSUME NEW t \in Since', drawn'[t] > 0
        PROVE  readings # <<>> /\ t < Reported + Stale
    <3>1. CASE t \in Since
      BY <1>1, <1>4, <1>6, <2>1, <3>1 DEF Quiet
    <3>2. CASE t = n
      <4>1. ~ShouldStore(n, store)
        BY <1>3, <1>6, <2>1, <3>2
      <4>2. readings # <<>> /\ ~(n - LastReading.at >= Stale)
        BY <4>1 DEF ShouldStore
      <4>3. Reported = LastReading.at
        BY <4>2 DEF Reported
      <4> QED  BY <1>4, <3>2, <4>2, <4>3, BillNumbers
    <3> QED  BY <1>9, <2>1, <3>1, <3>2
  <2> QED  BY <1>3, <1>5, <2>1 DEF Quiet
<1>11. Drawn(Since)' = Drawn(Since) + d /\ Drawn(Since) \in Nat
  <2>1. Drawn(Since)' = Total(drawn', Since')
    BY DEF Drawn
  <2>2. Drawn(Since) \in Nat
    BY <1>1, <1>4, DrawsAdd
  <2>3. Drawn(Since)' = Total(drawn', Since \cup {n})
    BY <1>9, <2>1
  <2> QED  BY <1>7, <2>2, <2>3
<1>12. Metered'
  <2>1. PICK r \in 0 .. resets : /\ r = resets => meter = Base + Drawn(Since)
                                 /\ \A Q \in SUBSET Nat : Near(Q, r)
    BY <1>1 DEF Metered
  <2>2. \A Q \in SUBSET Nat : Near(Q, r)'
    BY <1>1, <1>3, <2>1, NearStands
  <2>3. meter <= Base + Drawn(Since)
    BY <1>1 DEF Metered
  <2>4. /\ meter' <= Base' + Drawn(Since)'
        /\ r = resets' => meter' = Base' + Drawn(Since)'
    <3>1. PICK w \in Nat : w = Drawn(Since)
      BY <1>11
    <3>2. Drawn(Since)' = w + d /\ Base' = Base /\ meter' = meter + d /\ resets' = resets
      BY <1>3, <1>5, <1>11, <3>1
    <3>3. meter <= Base + w /\ (r = resets => meter = Base + w)
      BY <2>1, <2>3, <3>1
    <3>4. meter \in Nat /\ d \in Nat /\ Base \in Nat
      BY <1>4
    <3>5. meter + d <= Base + (w + d) /\ (r = resets => meter + d = Base + (w + d))
      BY <3>1, <3>3, <3>4
    <3> QED  BY <3>2, <3>5
  <2>5. r \in 0 .. resets'
    BY <1>3
  <2> QED  BY <2>2, <2>4, <2>5 DEF Metered
<1>13. Frozen'
  BY <1>3 DEF Frozen
<1> QED  BY <1>8, <1>10, <1>12, <1>13 DEF BillInv

\* The steps that move neither the polls nor the readings.
LEMMA Unpolled ==
    ASSUME BillTypes, Quiet, UNCHANGED <<poll, drawn, readings>>
    PROVE  /\ Reported' = Reported /\ Base' = Base /\ Drawn(Since)' = Drawn(Since) /\ Quiet'
           /\ \A Q, r : Near(Q, r) => Near(Q, r)'
<1>1. Reported' = Reported /\ Base' = Base
  BY ReadingsStand
<1>2. Since' = Since
  BY <1>1 DEF Since
<1>3. Drawn(Since)' = Drawn(Since)
  BY <1>2 DEF Drawn
<1>4. Quiet'
  BY <1>1, <1>2 DEF Quiet
<1>5. ASSUME NEW Q, NEW r, Near(Q, r)  PROVE Near(Q, r)'
  BY <1>5, NearStands
<1> QED  BY <1>1, <1>3, <1>4, <1>5

\* A restart of the meter spoils the interval it falls into.
LEMMA ResetsKeep ==
    ASSUME BillInv, MeterResets
    PROVE  BillInv'
<1>1. BillTypes /\ Quiet /\ Metered
  BY DEF BillInv
<1>2. /\ bill.st # "frozen" /\ resets' = resets + 1 /\ meter' = 0 /\ resets \in Nat
      /\ poll' = poll /\ drawn' = drawn /\ readings' = readings /\ windows' = windows /\ bill' = bill
  BY <1>1 DEF MeterResets, BillTypes
<1>3. /\ Reported' = Reported /\ Base' = Base /\ Drawn(Since)' = Drawn(Since) /\ Quiet'
      /\ \A Q, r : Near(Q, r) => Near(Q, r)'
  BY <1>1, <1>2, Unpolled
<1>4. BillTypes'
  BY <1>1, <1>2, <1>3 DEF BillTypes
<1>5. Base \in Nat /\ Drawn(Since) \in Nat
  BY <1>1, ReportedIsNat, DrawsAdd
<1>6. Metered'
  <2>1. PICK r \in 0 .. resets : \A Q \in SUBSET Nat : Near(Q, r)
    BY <1>1 DEF Metered
  <2>2. \A Q \in SUBSET Nat : Near(Q, r)'
    BY <1>3, <2>1
  <2>3. r \in 0 .. resets' /\ r # resets' /\ meter' <= Base' + Drawn(Since)'
    BY <1>2, <1>3, <1>5
  <2> QED  BY <2>2, <2>3 DEF Metered
<1>7. Frozen'
  BY <1>2 DEF Frozen
<1> QED  BY <1>3, <1>4, <1>6, <1>7 DEF BillInv

\* The steps that leave the meter alone as well.
LEMMA Unmetered ==
    ASSUME BillTypes, Quiet, Metered, UNCHANGED <<poll, drawn, meter, readings, resets>>
    PROVE  Quiet' /\ Metered' /\ Reported' = Reported
<1>1. /\ Reported' = Reported /\ Base' = Base /\ Drawn(Since)' = Drawn(Since) /\ Quiet'
      /\ \A Q, r : Near(Q, r) => Near(Q, r)'
  BY Unpolled
<1>2. PICK r \in 0 .. resets : /\ r = resets => meter = Base + Drawn(Since)
                               /\ \A Q \in SUBSET Nat : Near(Q, r)
  BY DEF Metered
<1>3. \A Q \in SUBSET Nat : Near(Q, r)'
  BY <1>1, <1>2
<1>4. meter <= Base + Drawn(Since)
  BY DEF Metered
<1>5. /\ r \in 0 .. resets' /\ (r = resets' => meter' = Base' + Drawn(Since)')
      /\ meter' <= Base' + Drawn(Since)'
  BY <1>1, <1>2, <1>4
<1> QED  BY <1>1, <1>3, <1>5 DEF Metered

\* A settled bill stands.
LEMMA FrozenStands ==
    ASSUME Frozen, UNCHANGED <<readings, bill>>
    PROVE  Frozen'
<1>1. PICK W : W = {t \in Nat : IsOffPeak(t, bill.windows)}
  OBVIOUS
<1>2. {t \in Nat : IsOffPeak(t, bill.windows)}' = W
  BY <1>1
<1>3. Billed(Nat)' = Billed(Nat) /\ Billed(W)' = Billed(W)
  BY ReadingsStand
<1>4. Billed({t \in Nat : IsOffPeak(t, bill.windows)})' = Billed(W)'
  BY <1>2 DEF Billed, Of
<1>5. CASE bill.st = "frozen"
  <2>1. bill.whole = Billed(Nat) /\ bill.offPeak = Billed(W)
    BY <1>1, <1>5 DEF Frozen
  <2> QED  BY <1>3, <1>4, <2>1 DEF Frozen
<1>6. CASE bill.st # "frozen"
  BY <1>6 DEF Frozen
<1> QED  BY <1>5, <1>6

\* The tariff is changed: the bill has its own copy of the windows.
LEMMA SettingsKeep ==
    ASSUME BillInv, NEW ws \in WindowLists, UpdateSettings(ws)
    PROVE  BillInv'
<1>1. BillTypes /\ Quiet /\ Metered /\ Frozen
  BY DEF BillInv
<1>2. windows' = ws /\ UNCHANGED <<poll, drawn, meter, readings, bill, resets>>
  BY DEF UpdateSettings
<1>3. Quiet' /\ Metered' /\ Reported' = Reported
  BY <1>1, <1>2, Unmetered
<1>4. BillTypes'
  BY <1>1, <1>2, <1>3 DEF BillTypes
<1>5. Frozen'
  BY <1>1, <1>2, FrozenStands
<1> QED  BY <1>3, <1>4, <1>5 DEF BillInv

\* The tariff is read: no number changes.
LEMMA TariffKeeps ==
    ASSUME BillInv, ReadTariff
    PROVE  BillInv'
<1>1. BillTypes /\ Quiet /\ Metered /\ Frozen
  BY DEF BillInv
<1>2. /\ bill.st = "none" /\ bill' = [bill EXCEPT !.st = "priced", !.windows = windows]
      /\ UNCHANGED <<poll, drawn, meter, readings, windows, resets>>
  BY DEF ReadTariff
<1>3. Quiet' /\ Metered' /\ Reported' = Reported
  BY <1>1, <1>2, Unmetered
<1>4. /\ bill \in [st : {"none", "priced", "frozen"}, windows : WindowLists \cup {<<>>},
                   offPeak : Nat, whole : Nat]
      /\ windows \in WindowLists
  BY <1>1 DEF BillTypes
<1>5. /\ bill' \in [st : {"none", "priced", "frozen"}, windows : WindowLists \cup {<<>>},
                    offPeak : Nat, whole : Nat]
      /\ bill'.st = "priced" /\ bill'.windows = windows
  BY <1>2, <1>4
<1>6. BillTypes'
  BY <1>1, <1>2, <1>3, <1>4, <1>5 DEF BillTypes
<1>7. Frozen'
  BY <1>5 DEF Frozen
<1> QED  BY <1>3, <1>6, <1>7 DEF BillInv

\* The calculator's sums, as the invariant has them.
LEMMA SumsAreBilled ==
    ASSUME readings \in Seq([at : Nat, kwh : Nat]), NEW ws
    PROVE  /\ BilledEnergy = Billed(Nat)
           /\ OffPeakOf(ws) = Billed({t \in Nat : IsOffPeak(t, ws)})
<1> DEFINE T == [at : Nat, kwh : Nat]
<1>1. \A i \in DOMAIN readings : readings[i].at \in Nat
  <2>1. \A x \in T : x.at \in Nat
    OBVIOUS
  <2>2. readings \in Seq(T)
    OBVIOUS
  <2> HIDE DEF T
  <2>3. \A i \in DOMAIN readings : readings[i] \in T
    BY <2>2
  <2> QED  BY <2>1, <2>3
<1>2. Of(Nat) = DOMAIN readings
  BY <1>1 DEF Of
<1>3. Restrict(Increments, DOMAIN readings) = Increments
  BY DEF Restrict, Increments
<1>4. BilledEnergy = Billed(Nat)
  BY <1>2, <1>3 DEF BilledEnergy, Billed, Total
<1>5. Of({t \in Nat : IsOffPeak(t, ws)}) = {i \in DOMAIN readings : IsOffPeak(readings[i].at, ws)}
  BY <1>1 DEF Of
<1>6. OffPeakOf(ws) = Billed({t \in Nat : IsOffPeak(t, ws)})
  BY <1>5 DEF OffPeakOf, Billed, Total
<1> QED  BY <1>4, <1>6

\* The sums are taken over the readings of this moment.
LEMMA CostKeeps ==
    ASSUME BillInv, CalculateSessionCost
    PROVE  BillInv'
<1>1. BillTypes /\ Quiet /\ Metered /\ Frozen
  BY DEF BillInv
<1>2. /\ bill.st = "priced"
      /\ bill' = [bill EXCEPT !.st = "frozen", !.whole = BilledEnergy, !.offPeak = OffPeakOf(bill.windows)]
      /\ UNCHANGED <<poll, drawn, meter, readings, windows, resets>>
  BY DEF CalculateSessionCost
<1>3. Quiet' /\ Metered' /\ Reported' = Reported
  BY <1>1, <1>2, Unmetered
<1>4. /\ bill \in [st : {"none", "priced", "frozen"}, windows : WindowLists \cup {<<>>},
                   offPeak : Nat, whole : Nat]
      /\ bill.windows \in WindowLists
  BY <1>1, <1>2 DEF BillTypes
<1>5. PICK W : W = {t \in Nat : IsOffPeak(t, bill.windows)}
  OBVIOUS
<1>6. BilledEnergy = Billed(Nat) /\ OffPeakOf(bill.windows) = Billed(W)
  BY <1>1, <1>5, SumsAreBilled DEF BillTypes
<1>7. Billed(Nat) \in Nat /\ Billed(W) \in Nat
  BY <1>1, BilledIsNat DEF BillTypes
<1>8. /\ bill' \in [st : {"none", "priced", "frozen"}, windows : WindowLists \cup {<<>>},
                    offPeak : Nat, whole : Nat]
      /\ bill'.windows = bill.windows /\ bill'.whole = Billed(Nat) /\ bill'.offPeak = Billed(W)
  BY <1>2, <1>4, <1>6, <1>7
<1>9. BillTypes'
  BY <1>1, <1>2, <1>3, <1>4, <1>8 DEF BillTypes
<1>10. Frozen'
  <2>1. Billed(Nat)' = Billed(Nat) /\ Billed(W)' = Billed(W)
    BY <1>2, ReadingsStand
  <2>2. {t \in Nat : IsOffPeak(t, bill.windows)}' = W
    BY <1>5, <1>8
  <2>3. Billed({t \in Nat : IsOffPeak(t, bill.windows)})' = Billed(W)'
    BY <2>2 DEF Billed, Of
  <2> QED  BY <1>8, <2>1, <2>3 DEF Frozen
<1> QED  BY <1>3, <1>9, <1>10 DEF BillInv

\* The invariant, over all steps.
LEMMA BillInvHolds == BillSpec => []BillInv
<1>1. ASSUME BillInv, [BillNext]_billVars  PROVE BillInv'
  <2>1. ASSUME NEW d \in Draws, NEW store \in BOOLEAN, PollReading(d, store)  PROVE BillInv'
    BY <1>1, <2>1, PollIsStored, PollIsLeftOut
  <2>2. CASE MeterResets
    BY <1>1, <2>2, ResetsKeep
  <2>3. CASE ReadTariff
    BY <1>1, <2>3, TariffKeeps
  <2>4. CASE CalculateSessionCost
    BY <1>1, <2>4, CostKeeps
  <2>5. ASSUME NEW ws \in WindowLists, UpdateSettings(ws)  PROVE BillInv'
    BY <1>1, <2>5, SettingsKeep
  <2>6. CASE UNCHANGED billVars
    <3>1. BillTypes /\ Quiet /\ Metered /\ Frozen
      BY <1>1 DEF BillInv
    <3>2. UNCHANGED <<poll, drawn, meter, readings, windows, bill, resets>>
      BY <2>6 DEF billVars
    <3>3. Quiet' /\ Metered' /\ Reported' = Reported
      BY <3>1, <3>2, Unmetered
    <3>4. Frozen'
      BY <3>1, <3>2, FrozenStands
    <3>5. BillTypes'
      BY <3>1, <3>2, <3>3 DEF BillTypes
    <3> QED  BY <3>3, <3>4, <3>5 DEF BillInv
  <2> QED  BY <1>1, <2>1, <2>2, <2>3, <2>4, <2>5, <2>6 DEF BillNext
<1> QED  BY <1>1, BillStarts, PTL DEF BillSpec

\* A number is a multiple and its remainder.
LEMMA Quotient ==
    ASSUME NEW z \in Int, NEW n \in Nat \ {0}
    PROVE  \E k \in Int : z = k * n + (z % n)
<1> DEFINE k == z \div n
<1>1. k \in Int /\ z = k * n + (z % n)
  OBVIOUS
<1> HIDE DEF k
<1> QED  BY <1>1

\* The remainder is the one number that leaves a multiple.
LEMMA Remainder ==
    ASSUME NEW z \in Int, NEW k \in Int, NEW n \in Nat \ {0}, NEW r \in 0 .. n - 1, z = k * n + r
    PROVE  z % n = r
<1>1. PICK q \in Int : z = q * n + (z % n)
  BY Quotient
<1>2. PICK s \in 0 .. n - 1 : s = z % n
  OBVIOUS
<1>3. PICK a \in Int : a = k * n
  OBVIOUS
<1>4. PICK b \in Int : b = q * n
  OBVIOUS
<1>5. (k + 1) * n = a + n /\ (q + 1) * n = b + n
  BY <1>3, <1>4, NextMultiple
<1>6. z = a + r /\ z = b + s
  BY <1>1, <1>2, <1>3, <1>4
<1>7. b < a + n /\ a < b + n
  BY <1>6
<1>8. q * n < (k + 1) * n /\ k * n < (q + 1) * n
  BY <1>3, <1>4, <1>5, <1>7
<1>9. q <= k /\ k <= q
  BY <1>8, NextInstance
<1>10. q = k
  BY <1>9
<1>11. a = b
  BY <1>3, <1>4, <1>10
<1>12. r = s
  BY <1>6, <1>11
<1> QED  BY <1>2, <1>12

\* The minutes of a poll are counted from midnight or from the window's start.
LEMMA WithinFromStart ==
    ASSUME NEW t \in Nat, NEW w \in [start : 0 .. DayLength - 1, end : 0 .. DayLength - 1]
    PROVE  Within(t, w) <=> (t - w.start) % DayLength < (w.end - w.start) % DayLength
<1>1. PICK D \in Nat \ {0} : D = DayLength
  BY BillAssumption
<1>2. PICK a \in 0 .. D - 1 : a = w.start
  BY <1>1
<1>3. PICK b \in 0 .. D - 1 : b = w.end
  BY <1>1
<1>4. PICK k \in Int : t = k * D + (t % D)
  <2>1. t \in Int /\ D \in Nat \ {0}
    BY <1>1
  <2> QED  BY <2>1, Quotient
<1>5. PICK m \in 0 .. D - 1 : m = t % D
  OBVIOUS
<1>6. PICK c \in Int : c = k * D
  OBVIOUS
<1>7. t = c + m
  BY <1>4, <1>5, <1>6
<1>8. PICK x \in 0 .. D - 1 : x = IF a <= m THEN m - a ELSE m - a + D
  BY <1>1, <1>2, <1>5
<1>9. PICK y \in 0 .. D - 1 : y = IF a <= b THEN b - a ELSE b - a + D
  BY <1>1, <1>2, <1>3
<1>10. (t - a) % D = x
  <2>1. CASE a <= m
    <3>1. t - a = k * D + x /\ t - a \in Int
      BY <1>6, <1>7, <1>8, <2>1
    <3> QED  BY <3>1, Remainder
  <2>2. CASE ~(a <= m)
    <3>1. PICK h \in Int : h = k - 1
      OBVIOUS
    <3>2. (h + 1) * D = h * D + D
      BY NextMultiple
    <3>3. h + 1 = k
      BY <3>1
    <3>4. k * D = h * D + D
      BY <3>2, <3>3
    <3>5. PICK e \in Int : e = h * D
      OBVIOUS
    <3>6. c = e + D
      BY <1>6, <3>4, <3>5
    <3>7. t - a = e + x /\ t - a \in Int
      BY <1>7, <1>8, <2>2, <3>6
    <3>8. t - a = h * D + x
      BY <3>5, <3>7
    <3> QED  BY <3>7, <3>8, Remainder
  <2> QED  BY <2>1, <2>2
<1>11. (b - a) % D = y
  <2>1. 0 * D = 0 /\ (0 - 1) * D = 0 - D
    OBVIOUS
  <2>2. CASE a <= b
    <3>1. b - a \in Int /\ b - a = 0 * D + y
      BY <1>9, <2>1, <2>2
    <3> QED  BY <3>1, Remainder
  <2>3. CASE ~(a <= b)
    <3>1. PICK h \in Int : h = 0 - 1
      OBVIOUS
    <3>2. h * D = 0 - D
      BY <2>1, <3>1
    <3>3. b - a \in Int /\ b - a = h * D + y
      BY <1>9, <2>3, <3>2
    <3> QED  BY <3>3, Remainder
  <2> QED  BY <2>2, <2>3
<1>12. Within(t, w) <=> \/ a < b /\ a <= m /\ m < b
                        \/ b < a /\ (a <= m \/ m < b)
  BY <1>1, <1>2, <1>3, <1>5 DEF Within
<1>13. (\/ a < b /\ a <= m /\ m < b
        \/ b < a /\ (a <= m \/ m < b)) <=> x < y
  BY <1>8, <1>9
<1> QED  BY <1>1, <1>2, <1>3, <1>10, <1>11, <1>12, <1>13

\* The polls that the calculator takes for off-peak are the windows' polls.
LEMMA CheapIsOffPeak ==
    ASSUME poll \in Nat, NEW ws \in WindowLists
    PROVE  CheapPolls(ws) = {t \in Nat : IsOffPeak(t, ws)} \cap (1 .. poll)
<1> DEFINE T == [start : 0 .. DayLength - 1, end : 0 .. DayLength - 1]
<1>1. ws \in Seq(T)
  BY BillAssumption
<1>2. \A i \in DOMAIN ws : ws[i] \in T
  <2> HIDE DEF T
  <2> QED  BY <1>1
<1>3. ASSUME NEW t \in 1 .. poll
      PROVE  IsOffPeak(t, ws) <=> \E i \in DOMAIN ws :
                 (t - ws[i].start) % DayLength < (ws[i].end - ws[i].start) % DayLength
  <2>1. t \in Nat
    OBVIOUS
  <2>2. \A i \in DOMAIN ws :
            Within(t, ws[i]) <=>
                (t - ws[i].start) % DayLength < (ws[i].end - ws[i].start) % DayLength
    BY <1>2, <2>1, WithinFromStart
  <2> QED  BY <2>2 DEF IsOffPeak
<1>4. \A t \in 1 .. poll : t \in Nat
  OBVIOUS
<1> QED  BY <1>3, <1>4 DEF CheapPolls

\* The whole of the draws.
LEMMA WholeIsDrawn ==
    ASSUME BillTypes
    PROVE  /\ SumFunction(drawn) = Drawn(1 .. poll)
           /\ \A A \in SUBSET (1 .. poll) : SumFunction(Restrict(drawn, A)) = Drawn(A)
<1>1. drawn \in Seq(Draws) /\ Len(drawn) = poll
  BY DEF BillTypes
<1>2. DOMAIN drawn = 1 .. poll /\ drawn = [i \in 1 .. poll |-> drawn[i]]
  BY <1>1
<1>3. Restrict(drawn, 1 .. poll) = drawn
  BY <1>2 DEF Restrict
<1> QED  BY <1>3 DEF Drawn, Total

\* The draws at the rate of Q: before the last reading, and since it.
LEMMA DrawnInTwo ==
    ASSUME BillTypes, NEW Q
    PROVE  Drawn(Q \cap (1 .. poll)) = Drawn(Q \cap (1 .. Reported)) + Drawn(Q \cap Since)
<1>1. /\ Reported \in Nat /\ Since \in SUBSET (1 .. poll) /\ Reported <= poll /\ poll \in Nat
  BY ReportedIsNat DEF BillTypes
<1>2. PICK A : A = Q \cap (1 .. Reported)
  OBVIOUS
<1>3. PICK P : P = Q \cap Since
  OBVIOUS
<1>4. PICK U : U = Q \cap (1 .. poll)
  OBVIOUS
<1>5. 1 .. poll = (1 .. Reported) \cup Since /\ (1 .. Reported) \cap Since = {}
  BY <1>1 DEF Since
<1>6. A \in SUBSET U /\ P \in SUBSET U /\ A \cap P = {} /\ A \cup P = U
  BY <1>2, <1>3, <1>4, <1>5
<1>7. U \in SUBSET (1 .. poll)
  BY <1>4
<1>8. Summable(drawn, U)
  BY <1>7, DrawsAdd
<1>9. Total(drawn, A \cup P) = Total(drawn, A) + Total(drawn, P)
  BY <1>6, <1>8, TotalSplits
<1> QED  BY <1>2, <1>3, <1>4, <1>6, <1>9 DEF Drawn

\* What the restarts of the meter and the changes of the rate may cost.
LEMMA LostEnergy ==
    ASSUME NEW n \in Nat, NEW e \in Nat
    PROVE  /\ MostDrawn((Stale - 1) + Stale * n) = Short + n * Long
           /\ MostDrawn((Stale - 1) * e) = e * Short
           /\ MostDrawn((Stale - 1) + Stale * n + (Stale - 1) * e) = Short + n * Long + e * Short
<1>1. PICK m \in Nat : m = Most
  BY BillNumbers
<1>2. PICK s \in Nat : s = Stale
  BY BillNumbers
<1>3. PICK k \in Int : k = Stale - 1
  BY BillNumbers
<1>4. Short = k * m /\ Long = s * m
  BY <1>1, <1>2, <1>3 DEF Short, Long
<1>5. (k + s * n) * m = k * m + n * (s * m)
  <2>1. (k + s * n) * m = k * m + (s * n) * m
    OBVIOUS
  <2>2. (s * n) * m = n * (s * m)
    OBVIOUS
  <2> QED  BY <2>1, <2>2
<1>6. (k * e) * m = e * (k * m)
  OBVIOUS
<1>7. (k + s * n + k * e) * m = (k + s * n) * m + (k * e) * m
  OBVIOUS
<1> QED  BY <1>1, <1>2, <1>3, <1>4, <1>5, <1>6, <1>7 DEF MostDrawn, Most

\* The rate does not change but at the edges.
LEMMA ChangesAreEdges ==
    ASSUME BillTypes, NEW Q
    PROVE  /\ Edges(Q \cap (1 .. poll)) \in Nat
           /\ Cardinality(Changes(Q, Reported)) \in Nat
           /\ Cardinality(Changes(Q, Reported)) <= Edges(Q \cap (1 .. poll))
<1>1. poll \in Nat /\ Reported \in Nat /\ Reported <= poll
  BY ReportedIsNat DEF BillTypes
<1> DEFINE c == Q \cap (1 .. poll)
<1>2. \A t \in 1 .. poll - 1 : t \in 1 .. poll /\ t + 1 \in 1 .. poll
  BY <1>1
<1>3. {t \in 1 .. poll - 1 : (t \in c) # (t + 1 \in c)} = Changes(Q, poll)
  BY <1>2 DEF Changes
<1>4. Edges(c) = Cardinality(Changes(Q, poll))
  BY <1>3 DEF Edges
<1> QED  BY <1>1, <1>4, ChangesCount

\* At whatever rate: up to the last reading the bill is off by a short
\* interval for each change of the rate and a long one for each restart.
LEMMA BilledFor ==
    ASSUME BillTypes, Quiet, Metered, NEW Q \in SUBSET Nat
    PROVE  LET e == Edges(Q \cap (1 .. poll))
               all == Drawn(Q \cap (1 .. poll))
           IN  /\ Billed(Q) <= all + e * Short
               /\ all <= Billed(Q) + e * Short + resets * Long + Short
<1>1. PICK r \in 0 .. resets : Near(Q, r)
  BY DEF Metered
<1>2. /\ Reported \in Nat /\ Since \in SUBSET (1 .. poll) /\ Reported <= poll /\ poll \in Nat
      /\ Short \in Nat /\ Long \in Nat /\ resets \in Nat /\ r \in Nat /\ r <= resets
  BY <1>1, ReportedIsNat, BillNumbers DEF BillTypes
<1>3. PICK a : a = Cardinality(Changes(Q, Reported))
  OBVIOUS
<1>4. PICK e : e = Edges(Q \cap (1 .. poll))
  OBVIOUS
<1>5. a \in Nat /\ e \in Nat /\ a <= e
  BY <1>3, <1>4, ChangesAreEdges
<1>6. PICK b : b = Billed(Q)
  OBVIOUS
<1>7. PICK o : o = Drawn(Q \cap (1 .. Reported))
  OBVIOUS
<1>8. PICK p : p = Drawn(Q \cap Since)
  OBVIOUS
<1>9. b \in Nat /\ o \in Nat /\ p \in Nat /\ p <= Short
  <2>1. b \in Nat
    BY <1>6, BilledIsNat DEF BillTypes
  <2>2. /\ Q \cap (1 .. Reported) \in SUBSET (1 .. poll)
        /\ Q \cap Since \in SUBSET (1 .. poll) /\ Q \cap Since \in SUBSET Since
    BY <1>2
  <2>3. o \in Nat
    BY <1>7, <2>2, DrawsAdd
  <2>4. p \in Nat /\ p <= Short
    BY <1>8, <2>2, DrawsAdd, SinceIsShort
  <2> QED  BY <2>1, <2>3, <2>4
<1>10. b <= o + a * Short /\ o <= b + a * Short + r * Long
  BY <1>1, <1>3, <1>6, <1>7 DEF Near
<1>11. Drawn(Q \cap (1 .. poll)) = o + p
  BY <1>7, <1>8, DrawnInTwo
<1>12. a * Short \in Nat /\ e * Short \in Nat /\ a * Short <= e * Short
  BY <1>2, <1>5, NatProduct
<1>13. r * Long \in Nat /\ resets * Long \in Nat /\ r * Long <= resets * Long
  BY <1>2, NatProduct
<1>14. b <= (o + p) + e * Short
  BY <1>9, <1>10, <1>12
<1>15. o + p <= b + e * Short + resets * Long + Short
  BY <1>2, <1>9, <1>10, <1>12, <1>13
<1> QED  BY <1>4, <1>6, <1>11, <1>14, <1>15

\* One rate for the whole session: no edges.
LEMMA NoEdges == ASSUME poll \in Nat  PROVE Edges(Nat \cap (1 .. poll)) = 0
<1>1. \A t \in 1 .. poll - 1 : t \in Nat \cap (1 .. poll) /\ t + 1 \in Nat \cap (1 .. poll)
  OBVIOUS
<1>2. {t \in 1 .. poll - 1 : (t \in Nat \cap (1 .. poll)) # (t + 1 \in Nat \cap (1 .. poll))} = {}
  BY <1>1
<1> QED  BY <1>2, FS_EmptySet DEF Edges

\* The property in a state.
LEMMA BillIsCovered == ASSUME BillInv  PROVE BillCoversEnergy
<1>1. BillTypes /\ Quiet /\ Metered /\ Frozen /\ poll \in Nat /\ resets \in Nat
  BY DEF BillInv, BillTypes
<1> SUFFICES ASSUME bill.st = "frozen"  PROVE BillCoversEnergy
  BY DEF BillCoversEnergy
<1>2. bill.windows \in WindowLists
  BY <1>1 DEF BillTypes
<1>3. PICK W \in SUBSET Nat : W = {t \in Nat : IsOffPeak(t, bill.windows)}
  OBVIOUS
<1>4. PICK cheap : cheap = CheapPolls(bill.windows)
  OBVIOUS
<1>5. cheap = W \cap (1 .. poll)
  BY <1>1, <1>2, <1>3, <1>4, CheapIsOffPeak
<1>6. bill.whole = Billed(Nat) /\ bill.offPeak = Billed(W)
  BY <1>1, <1>3 DEF Frozen
<1>7. PICK e : e = Edges(cheap)
  OBVIOUS
<1>8. e \in Nat
  BY <1>1, <1>5, <1>7, ChangesAreEdges
<1>9. PICK off : off = SumFunction(Restrict(drawn, cheap))
  OBVIOUS
<1>10. PICK whole : whole = SumFunction(drawn)
  OBVIOUS
<1>11. off = Drawn(W \cap (1 .. poll)) /\ whole = Drawn(Nat \cap (1 .. poll))
  <2>1. Nat \cap (1 .. poll) = 1 .. poll /\ cheap \in SUBSET (1 .. poll)
    BY <1>5
  <2>2. off = Drawn(cheap)
    BY <1>1, <1>9, <2>1, WholeIsDrawn
  <2>3. whole = Drawn(1 .. poll)
    BY <1>1, <1>10, WholeIsDrawn
  <2> QED  BY <1>5, <2>1, <2>2, <2>3
<1>12. off \in Nat /\ whole \in Nat
  <2>1. W \cap (1 .. poll) \in SUBSET (1 .. poll) /\ Nat \cap (1 .. poll) \in SUBSET (1 .. poll)
    OBVIOUS
  <2> QED  BY <1>1, <1>11, <2>1, DrawsAdd
<1>13. bill.whole \in Nat /\ bill.offPeak \in Nat
  BY <1>1, <1>6, BilledIsNat DEF BillTypes
<1>14. Short \in Nat /\ resets * Long \in Nat /\ e * Short \in Nat
  BY <1>1, <1>8, BillNumbers, NatProduct
<1>15. PICK u \in Nat : u = Short + resets * Long
  BY <1>14
<1>16. PICK v \in Nat : v = e * Short
  BY <1>14
<1>17. bill.whole <= whole /\ whole <= bill.whole + u
  <2>1. PICK z : z = Edges(Nat \cap (1 .. poll))
    OBVIOUS
  <2>2. z = 0
    BY <1>1, <2>1, NoEdges
  <2>3. Nat \in SUBSET Nat
    OBVIOUS
  <2>4. /\ Billed(Nat) <= whole + z * Short
        /\ whole <= Billed(Nat) + z * Short + resets * Long + Short
    BY <1>1, <1>11, <2>1, <2>3, BilledFor
  <2>5. z * Short = 0
    BY <1>14, <2>2
  <2>6. /\ Billed(Nat) <= whole + 0
        /\ whole <= Billed(Nat) + 0 + resets * Long + Short
    BY <2>4, <2>5
  <2> QED  BY <1>6, <1>12, <1>13, <1>14, <1>15, <2>6
<1>18. bill.offPeak <= off + v /\ off <= bill.offPeak + v + u
  <2>1. /\ Billed(W) <= off + e * Short
        /\ off <= Billed(W) + e * Short + resets * Long + Short
    BY <1>1, <1>3, <1>5, <1>7, <1>11, BilledFor
  <2> QED  BY <1>6, <1>12, <1>13, <1>14, <1>15, <1>16, <2>1
<1>19. PICK lost : lost = (Stale - 1) + Stale * resets
  OBVIOUS
<1>20. PICK slack : slack = (Stale - 1) * Edges(cheap)
  OBVIOUS
<1>21. MostDrawn(lost) = u /\ MostDrawn(slack) = v /\ MostDrawn(lost + slack) = u + v
  BY <1>1, <1>7, <1>8, <1>15, <1>16, <1>19, <1>20, LostEnergy
<1>22. bill.whole \in whole - MostDrawn(lost) .. whole
  BY <1>12, <1>13, <1>17, <1>21
<1>23. bill.offPeak \in off - MostDrawn(lost + slack) .. off + MostDrawn(slack)
  BY <1>12, <1>13, <1>18, <1>21
<1> QED  BY <1>4, <1>9, <1>10, <1>19, <1>20, <1>22, <1>23 DEF BillCoversEnergy

\* A bill is never for more than was drawn, misses no more than was drawn since
\* the last reading and around the restarts of the meter, and has at the wrong
\* rate no more than a stale interval's draws for each change of the rate
\* (cost_calculator.go, session_monitoring_service.go).
THEOREM BillsCoverEnergy == BillSpec => []BillCoversEnergy
BY BillInvHolds, BillIsCovered, PTL
=============================================================================
