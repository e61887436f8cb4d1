---------------------------- MODULE EmbeddingProofs ---------------------------
(***************************************************************************)
(* Theorems about the embedding service, for every request, batch size and *)
(* interleaving of its tasks.                                              *)
(***************************************************************************)
EXTENDS Embedding, FiniteSetTheorems, SequenceTheorems, WellFoundedInduction, TLAPS

-----------------------------------------------------------------------------
(* Counting up.  A theorem of induction that takes a predicate is out of   *)
(* reach; one that takes the set of the numbers that have it is not.       *)

LEMMA LeastOf ==
  ASSUME NEW I, I \subseteq Nat, I # {}
  PROVE  \E x \in I : \A y \in I : x <= y
<1> DEFINE R == OpToRel(<, Nat)
<1>1. IsWellFoundedOn(R, Nat)
  BY NatLessThanWellFounded
<1>2. \A x, y \in Nat : y < x => <<y, x>> \in R
  BY DEF OpToRel
<1> HIDE DEF R
<1>3. PICK x \in I : \A y \in I : ~ (<<y, x>> \in R)
  BY <1>1, WFMin
<1>4. ASSUME NEW y \in I PROVE x <= y
  <2>1. x \in Nat /\ y \in Nat
    OBVIOUS
  <2>2. ~ (y < x)
    BY <1>2, <1>3, <2>1
  <2> QED
    BY <2>1, <2>2
<1> QED
  BY <1>4

LEMMA CountUp ==
  ASSUME NEW n \in Nat, NEW Good, 0 \in Good,
         \A k \in 0..n : k < n /\ k \in Good => k + 1 \in Good
  PROVE  0..n \subseteq Good
<1> DEFINE Bad == 0..n \ Good
<1>1. SUFFICES ASSUME Bad # {} PROVE FALSE
  OBVIOUS
<1>2. Bad \subseteq Nat
  OBVIOUS
<1>3. PICK k \in Bad : \A j \in Bad : k <= j
  BY <1>1, <1>2, LeastOf
<1>4. k \in 0..n /\ k # 0 /\ k \notin Good
  OBVIOUS
<1>5. k - 1 \in 0..n /\ k - 1 < n /\ ~ (k <= k - 1) /\ (k - 1) + 1 = k
  BY <1>4
<1>6. k - 1 \in Good
  BY <1>3, <1>5
<1> QED
  BY <1>4, <1>5, <1>6

-----------------------------------------------------------------------------
(* Folds, by subsets of positions (FoldLeft's definition) and by position. *)

LEMMA TopOfRange ==
  ASSUME NEW k \in Nat \ {0}
  PROVE  Max(1..k) = k /\ (1..k) \ {k} = 1..k - 1
<1>1. k \in 1..k /\ \A y \in 1..k : k >= y
  OBVIOUS
<1>2. \A x \in 1..k : (\A y \in 1..k : x >= y) => x = k
  BY <1>1
<1>3. Max(1..k) = k
  BY <1>1, <1>2 DEF Max
<1>4. (1..k) \ {k} = 1..k - 1
  OBVIOUS
<1> QED
  BY <1>3, <1>4

\* The largest of some of the first k + 1 numbers, where it is the last.
LEMMA TopOfSome ==
  ASSUME NEW k \in Nat, NEW S, S \subseteq 1..k + 1, k + 1 \in S
  PROVE  Max(S) = k + 1 /\ S \ {k + 1} \subseteq 1..k
<1>1. k + 1 \in S /\ \A y \in S : k + 1 >= y
  OBVIOUS
<1>2. \A x \in S : (\A y \in S : x >= y) => x = k + 1
  BY <1>1
<1>3. Max(S) = k + 1
  BY <1>1, <1>2 DEF Max
<1>4. S \ {k + 1} \subseteq 1..k
  OBVIOUS
<1> QED
  BY <1>3, <1>4

\* What is left of a nonempty set of positions has a largest one to go on with.
LEMMA TopIsThere ==
  ASSUME NEW k \in Nat, NEW S, S \subseteq 1..k, S # {}
  PROVE  Max(S) \in S
<1> DEFINE D == {k - x : x \in S}
<1>0. \A x \in S : x \in Nat /\ x <= k /\ k - x \in Nat
  OBVIOUS
<1>1. D \subseteq Nat /\ D # {}
  BY <1>0
<1>2. PICK d \in D : \A e \in D : d <= e
  <2> HIDE DEF D
  <2> QED
    BY <1>1, LeastOf
<1>3. PICK x \in S : d = k - x
  OBVIOUS
<1>4. ASSUME NEW y \in S PROVE x >= y
  <2>1. k - y \in D
    OBVIOUS
  <2>2. k - x <= k - y
    BY <1>2, <1>3, <2>1
  <2> QED
    BY <1>0, <2>2
<1> QED
  BY <1>4 DEF Max

\* A function that folds s with step, which takes members of B to such, by
\* subsets of its positions.
Folding(g, B, step, base, n, s) ==
  /\ g[{}] = base
  /\ \A S \in SUBSET (1..n) :
       S # {} /\ g[S \ {Max(S)}] \in B => g[S] = step[<<g[S \ {Max(S)}], s[Max(S)]>>]

LEMMA FoldingStarts ==
  ASSUME NEW B, NEW base \in B, NEW step, NEW s
  PROVE  \E g \in [SUBSET (1..0) -> B] : Folding(g, B, step, base, 0, s)
<1> DEFINE g == [S \in SUBSET (1..0) |-> base]
<1>1. 1..0 = {}
  OBVIOUS
<1>2. g \in [SUBSET (1..0) -> B]
  OBVIOUS
<1>3. Folding(g, B, step, base, 0, s)
  BY <1>1 DEF Folding
<1> HIDE DEF g
<1> QED
  BY <1>2, <1>3

LEMMA FoldingGoesOn ==
  ASSUME NEW B, NEW step, NEW base \in B, NEW j \in Nat, NEW s,
         \A b \in B : step[<<b, s[j + 1]>>] \in B,
         NEW g \in [SUBSET (1..j) -> B], Folding(g, B, step, base, j, s)
  PROVE  \E h \in [SUBSET (1..j + 1) -> B] : Folding(h, B, step, base, j + 1, s)
<1> DEFINE h == [S \in SUBSET (1..j + 1) |->
                   IF j + 1 \in S THEN step[<<g[S \ {j + 1}], s[j + 1]>>] ELSE g[S]]
<1>1. \A S \in SUBSET (1..j + 1) : j + 1 \notin S => S \in SUBSET (1..j)
  OBVIOUS
<1>2. \A S \in SUBSET (1..j + 1) : h[S] =
        IF j + 1 \in S THEN step[<<g[S \ {j + 1}], s[j + 1]>>] ELSE g[S]
  OBVIOUS
<1>3. DOMAIN h = SUBSET (1..j + 1) /\ h = [S \in DOMAIN h |-> h[S]]
  OBVIOUS
<1> HIDE DEF h
<1>4. ASSUME NEW S \in SUBSET (1..j + 1), j + 1 \in S
      PROVE  /\ h[S] = step[<<h[S \ {Max(S)}], s[Max(S)]>>]
             /\ h[S] \in B
  <2>1. Max(S) = j + 1 /\ S \ {j + 1} \in SUBSET (1..j)
    BY <1>4, TopOfSome
  <2>2. S \ {j + 1} \in SUBSET (1..j + 1) /\ j + 1 \notin S \ {j + 1}
    OBVIOUS
  <2>3. h[S \ {j + 1}] = g[S \ {j + 1}] /\ g[S \ {j + 1}] \in B
    BY <1>2, <2>1, <2>2
  <2>4. h[S] = step[<<g[S \ {j + 1}], s[j + 1]>>]
    BY <1>2, <1>4
  <2> QED
    BY <2>1, <2>3, <2>4
<1>5. ASSUME NEW S \in SUBSET (1..j + 1), j + 1 \notin S
      PROVE  /\ S # {} => h[S] = step[<<h[S \ {Max(S)}], s[Max(S)]>>]
             /\ h[S] = g[S] /\ h[S] \in B
  <2>1. S \in SUBSET (1..j) /\ h[S] = g[S] /\ g[S] \in B
    BY <1>1, <1>2, <1>5
  <2> DEFINE T == S \ {Max(S)}
  <2>2. T \in SUBSET (1..j + 1) /\ j + 1 \notin T
    BY <1>5
  <2>3. h[T] = g[T]
    BY <1>2, <2>2
  <2>4. S # {} => g[S] = step[<<g[T], s[Max(S)]>>]
    <3>1. T \in SUBSET (1..j) /\ g[T] \in B
      BY <2>1
    <3> QED
      BY <2>1, <3>1 DEF Folding
  <2> QED
    BY <2>1, <2>3, <2>4
<1>6. h \in [SUBSET (1..j + 1) -> B]
  BY <1>3, <1>4, <1>5
<1>7. h[{}] = base
  BY <1>5 DEF Folding
<1>8. Folding(h, B, step, base, j + 1, s)
  BY <1>4, <1>5, <1>7 DEF Folding
<1> QED
  BY <1>6, <1>8

LEMMA FoldingExists ==
  ASSUME NEW B, NEW step, NEW base \in B, NEW n \in Nat, NEW s,
         \A b \in B, k \in 1..n : step[<<b, s[k]>>] \in B
  PROVE  \E g \in [SUBSET (1..n) -> B] : Folding(g, B, step, base, n, s)
<1> DEFINE P(k)  == \E g \in [SUBSET (1..k) -> B] : Folding(g, B, step, base, k, s)
           Good  == {k \in 0..n : P(k)}
<1>1. P(0)
  BY FoldingStarts
<1>2. ASSUME NEW k \in 0..n, k < n, P(k) PROVE P(k + 1)
  <2>1. \A b \in B : step[<<b, s[k + 1]>>] \in B
    <3>1. k + 1 \in 1..n
      BY <1>2
    <3> QED
      BY <3>1
  <2>2. PICK g \in [SUBSET (1..k) -> B] : Folding(g, B, step, base, k, s)
    BY <1>2
  <2>3. k \in Nat
    OBVIOUS
  <2>4. \E h \in [SUBSET (1..k + 1) -> B] : Folding(h, B, step, base, k + 1, s)
    BY <2>1, <2>2, <2>3, FoldingGoesOn
  <2> QED
    BY <2>4
<1> HIDE DEF P
<1>3. 0 \in Good /\ \A k \in 0..n : k < n /\ k \in Good => k + 1 \in Good
  BY <1>1, <1>2
<1>4. 0..n \subseteq Good
  <2> HIDE DEF Good
  <2> QED
    BY <1>3, CountUp
<1>5. P(n)
  BY <1>4
<1> QED
  BY <1>5 DEF P

\* Such a fold, one position after the other.
Run(t, step, base, n, s) ==
  t[0] = base /\ \A k \in 1..n : t[k] = step[<<t[k - 1], s[k]>>]

Keeps(step, B, n, s) == \A b \in B, k \in 1..n : step[<<b, s[k]>>] \in B

\* Whatever folds s takes one position after the other.
LEMMA FoldingByPosition ==
  ASSUME NEW B, NEW step, NEW base \in B, NEW n \in Nat, NEW s,
         Keeps(step, B, n, s), NEW g, Folding(g, B, step, base, n, s)
  PROVE  \E t \in [0..n -> B] : Run(t, step, base, n, s) /\ t[n] = g[1..n]
<1>1. ASSUME NEW k \in 0..n, k < n, g[1..k] \in B
      PROVE  g[1..k + 1] = step[<<g[1..k], s[k + 1]>>] /\ g[1..k + 1] \in B
  <2>1. k + 1 \in Nat \ {0} /\ (k + 1) - 1 = k
    OBVIOUS
  <2>2. Max(1..k + 1) = k + 1 /\ (1..k + 1) \ {k + 1} = 1..k
    BY <2>1, TopOfRange
  <2>3. 1..k + 1 \in SUBSET (1..n) /\ 1..k + 1 # {}
    <3>1. k \in Nat /\ k + 1 \in 1..k + 1 /\ \A x \in 1..k + 1 : x \in 1..n
      BY <1>1
    <3> QED
      BY <3>1
  <2>4. \A b \in B : step[<<b, s[k + 1]>>] \in B
    <3>1. k + 1 \in 1..n
      BY <1>1
    <3> QED
      BY <3>1 DEF Keeps
  <2>5. g[1..k + 1] = step[<<g[(1..k + 1) \ {Max(1..k + 1)}], s[Max(1..k + 1)]>>]
    <3>1. g[(1..k + 1) \ {Max(1..k + 1)}] \in B
      BY <1>1, <2>2
    <3> QED
      BY <2>3, <3>1 DEF Folding
  <2> QED
    BY <1>1, <2>2, <2>4, <2>5
<1>2. 1..0 = {}
  OBVIOUS
<1>3. g[1..0] = base
  BY <1>2 DEF Folding
<1> DEFINE Good == {k \in 0..n : g[1..k] \in B}
<1>4. 0 \in Good /\ \A k \in 0..n : k < n /\ k \in Good => k + 1 \in Good
  <2>1. 0 \in Good
    BY <1>3
  <2>2. ASSUME NEW k \in 0..n, k < n, k \in Good PROVE k + 1 \in Good
    <3>1. g[1..k] \in B /\ k + 1 \in 0..n
      BY <2>2
    <3> QED
      BY <1>1, <2>2, <3>1
  <2> QED
    BY <2>1, <2>2
<1>5. \A k \in 0..n : g[1..k] \in B
  <2>1. 0..n \subseteq Good
    <3> HIDE DEF Good
    <3> QED
      BY <1>4, CountUp
  <2> QED
    BY <2>1
<1> DEFINE t == [k \in 0..n |-> g[1..k]]
<1>6. t \in [0..n -> B]
  BY <1>5
<1>7. t[0] = base /\ t[n] = g[1..n]
  BY <1>3
<1>8. \A k \in 1..n : t[k] = step[<<t[k - 1], s[k]>>]
  <2> TAKE k \in 1..n
  <2>1. k - 1 \in 0..n /\ k - 1 < n /\ (k - 1) + 1 = k
    OBVIOUS
  <2>2. g[1..k] = step[<<g[1..k - 1], s[k]>>]
    BY <1>1, <1>5, <2>1
  <2> QED
    BY <2>1, <2>2
<1>9. Run(t, step, base, n, s)
  BY <1>7, <1>8 DEF Run
<1> QED
  BY <1>6, <1>7, <1>9

-----------------------------------------------------------------------------
(* Tokens.                                                                 *)

Texts == DOMAIN TokensOf

LEMMA CountRun ==
  ASSUME NEW cost, \A x \in Texts : cost[x] \in Nat, NEW s \in Seq(Texts)
  PROVE  \E t \in [0..Len(s) -> Nat] :
           /\ t[0] = 0 /\ t[Len(s)] = Count(cost, s)
           /\ \A k \in 1..Len(s) : t[k] = t[k - 1] + cost[s[k]]
<1> DEFINE n    == Len(s)
           step == [p \in Nat \X Texts |-> p[1] + cost[p[2]]]
<1>1. n \in Nat /\ s \in [1..n -> Texts] /\ DOMAIN s = 1..n
  OBVIOUS
<1>2. \A b \in Nat, k \in 1..n : step[<<b, s[k]>>] \in Nat
  BY <1>1
<1>3. \A b \in Nat, x \in Texts : step[<<b, x>>] = b + cost[x]
  OBVIOUS
<1> HIDE DEF n, step
<1>4. PICK g \in [SUBSET (1..n) -> Nat] : Folding(g, Nat, step, 0, n, s)
  BY <1>1, <1>2, FoldingExists
<1>5. g = [S \in SUBSET DOMAIN s |->
             IF S = {} THEN 0 ELSE g[S \ {Max(S)}] + cost[s[Max(S)]]]
  <2>1. ASSUME NEW S \in SUBSET (1..n)
        PROVE  g[S] = IF S = {} THEN 0 ELSE g[S \ {Max(S)}] + cost[s[Max(S)]]
    <3>1. CASE S = {}
      BY <1>4, <3>1 DEF Folding
    <3>2. CASE S # {}
      <4>1. s[Max(S)] \in Texts
        BY <1>1, <3>2, TopIsThere
      <4>2. g[S \ {Max(S)}] \in Nat
        BY <1>4
      <4>3. g[S] = step[<<g[S \ {Max(S)}], s[Max(S)]>>]
        BY <1>4, <3>2, <4>2 DEF Folding
      <4> QED
        BY <1>3, <3>2, <4>1, <4>2, <4>3
    <3> QED
      BY <3>1, <3>2
  <2> QED
    BY <1>1, <1>4, <2>1
<1>6. PICK h :
        /\ h = [S \in SUBSET DOMAIN s |->
                  IF S = {} THEN 0 ELSE h[S \ {Max(S)}] + cost[s[Max(S)]]]
        /\ Count(cost, s) = h[DOMAIN s]
  BY <1>5 DEF Count, FoldLeft, MapThenFoldSet
<1>7. Folding(h, Nat, step, 0, n, s)
  <2>1. h[{}] = 0
    BY <1>6
  <2>2. ASSUME NEW S \in SUBSET (1..n), S # {}, h[S \ {Max(S)}] \in Nat
        PROVE  h[S] = step[<<h[S \ {Max(S)}], s[Max(S)]>>]
    <3>1. s[Max(S)] \in Texts
      BY <1>1, <2>2, TopIsThere
    <3>2. h[S] = h[S \ {Max(S)}] + cost[s[Max(S)]]
      BY <1>1, <1>6, <2>2
    <3> QED
      BY <1>3, <2>2, <3>1, <3>2
  <2> QED
    BY <2>1, <2>2 DEF Folding
<1>8. PICK t \in [0..n -> Nat] : Run(t, step, 0, n, s) /\ t[n] = h[1..n]
  <2>1. Keeps(step, Nat, n, s)
    BY <1>2 DEF Keeps
  <2>2. 0 \in Nat
    OBVIOUS
  <2>3. n \in Nat
    BY <1>1
  <2> QED
    BY ONLY <1>7, <2>1, <2>2, <2>3, FoldingByPosition, SMT
<1>9. \A k \in 1..n : t[k] = t[k - 1] + cost[s[k]]
  <2> TAKE k \in 1..n
  <2>1. t[k - 1] \in Nat /\ s[k] \in Texts
    BY <1>1
  <2> QED
    BY <1>3, <1>8, <2>1 DEF Run
<1> QED
  BY <1>1, <1>6, <1>8, <1>9 DEF n, Run

LEMMA TokensRun ==
  ASSUME NEW s \in Seq(Texts)
  PROVE  \E t \in [0..Len(s) -> Nat] :
           /\ t[0] = 0 /\ t[Len(s)] = Tokens(s)
           /\ \A k \in 1..Len(s) : t[k] = t[k - 1] + TokensOf[s[k]]
<1>1. \A x \in Texts : TokensOf[x] \in Nat
  BY EmbeddingAssumption DEF Texts
<1> QED
  BY <1>1, CountRun DEF Tokens

LEMMA ChargedType ==
  ASSUME NEW s \in Seq(Texts)
  PROVE  Charged(s) \in Nat
<1>1. \A x \in Texts : ChargeOf[x] \in Nat
  BY EmbeddingAssumption DEF Texts
<1>2. PICK t \in [0..Len(s) -> Nat] : t[Len(s)] = Count(ChargeOf, s)
  BY <1>1, CountRun
<1> QED
  BY <1>2 DEF Charged

LEMMA TokensType ==
  ASSUME NEW s \in Seq(Texts)
  PROVE  Tokens(s) \in Nat
<1>1. PICK t \in [0..Len(s) -> Nat] : t[Len(s)] = Tokens(s)
  BY TokensRun
<1> QED
  BY <1>1

LEMMA TokensEmpty == Tokens(<<>>) = 0
<1>1. <<>> \in Seq(Texts) /\ Len(<<>>) = 0
  OBVIOUS
<1>2. PICK t : t[0] = 0 /\ t[Len(<<>>)] = Tokens(<<>>)
  BY <1>1, TokensRun
<1> QED
  BY <1>1, <1>2

LEMMA TokensAppend ==
  ASSUME NEW s \in Seq(Texts), NEW x \in Texts
  PROVE  Tokens(Append(s, x)) = Tokens(s) + TokensOf[x]
<1> DEFINE n == Len(s)
           r == Append(s, x)
<1>1. /\ n \in Nat /\ r \in Seq(Texts) /\ Len(r) = n + 1 /\ r[n + 1] = x
      /\ \A k \in 1..n : r[k] = s[k] /\ s[k] \in Texts /\ k \in 1..n + 1
  OBVIOUS
<1>2. PICK t \in [0..n -> Nat] :
        t[0] = 0 /\ t[n] = Tokens(s) /\ \A k \in 1..n : t[k] = t[k - 1] + TokensOf[s[k]]
  BY TokensRun
<1> HIDE DEF n, r
<1>3. PICK u \in [0..Len(r) -> Nat] :
        /\ u[0] = 0 /\ u[Len(r)] = Tokens(r)
        /\ \A k \in 1..Len(r) : u[k] = u[k - 1] + TokensOf[r[k]]
  BY <1>1, TokensRun
<1> DEFINE Good == {k \in 0..n : t[k] = u[k]}
<1>4. 0 \in Good
  BY <1>1, <1>2, <1>3
<1>5. ASSUME NEW k \in 0..n, k < n, k \in Good PROVE k + 1 \in Good
  <2>1. k + 1 \in 1..n /\ k + 1 \in 1..n + 1 /\ (k + 1) - 1 = k /\ t[k] = u[k]
    BY <1>1, <1>5
  <2>2. t[k + 1] = t[k] + TokensOf[s[k + 1]]
    BY <1>2, <2>1
  <2>3. u[k + 1] = u[k] + TokensOf[r[k + 1]] /\ r[k + 1] = s[k + 1]
    BY <1>1, <1>3, <2>1
  <2>4. t[k + 1] = u[k + 1] /\ k + 1 \in 0..n
    BY <1>1, <2>1, <2>2, <2>3
  <2> QED
    BY <2>4
<1>6. t[n] = u[n]
  <2>1. 0..n \subseteq Good
    <3> HIDE DEF Good
    <3> QED
      BY <1>1, <1>4, <1>5, CountUp
  <2> QED
    BY <1>1, <2>1
<1>7. u[n + 1] = u[n] + TokensOf[r[n + 1]]
  BY <1>1, <1>3
<1> QED
  BY <1>1, <1>2, <1>3, <1>6, <1>7 DEF r

-----------------------------------------------------------------------------
(* Sequences of sequences.                                                 *)

LEMMA ConcatRun ==
  ASSUME NEW T, NEW s \in Seq(Seq(T))
  PROVE  \E t \in [0..Len(s) -> Seq(T)] :
           /\ t[0] = <<>> /\ t[Len(s)] = Concat(s)
           /\ \A k \in 1..Len(s) : t[k] = t[k - 1] \o s[k]
<1> DEFINE B    == Seq(T)
           n    == Len(s)
           step == [p \in B \X B |-> p[1] \o p[2]]
<1>1. n \in Nat /\ s \in [1..n -> B] /\ DOMAIN s = 1..n /\ <<>> \in B
  OBVIOUS
<1>2. \A b \in B, c \in B : step[<<b, c>>] = b \o c /\ b \o c \in B
  <2>1. \A b \in B, c \in B : b \o c \in B
    OBVIOUS
  <2> HIDE DEF B
  <2>2. \A b \in B, c \in B : step[<<b, c>>] = b \o c
    OBVIOUS
  <2> QED
    BY <2>1, <2>2
<1> HIDE DEF B, n, step
<1>3. Keeps(step, B, n, s) /\ \A b \in B, k \in 1..n : step[<<b, s[k]>>] \in B
  BY <1>1, <1>2 DEF Keeps
<1>4. PICK g \in [SUBSET (1..n) -> B] : Folding(g, B, step, <<>>, n, s)
  BY <1>1, <1>3, FoldingExists
<1>5. g = [S \in SUBSET DOMAIN s |->
             IF S = {} THEN <<>> ELSE g[S \ {Max(S)}] \o s[Max(S)]]
  <2>1. ASSUME NEW S \in SUBSET (1..n)
        PROVE  g[S] = IF S = {} THEN <<>> ELSE g[S \ {Max(S)}] \o s[Max(S)]
    <3>1. CASE S = {}
      BY <1>4, <3>1 DEF Folding
    <3>2. CASE S # {}
      <4>1. s[Max(S)] \in B
        BY <1>1, <3>2, TopIsThere
      <4>2. g[S \ {Max(S)}] \in B
        BY <1>4
      <4>3. g[S] = step[<<g[S \ {Max(S)}], s[Max(S)]>>]
        BY <1>4, <3>2, <4>2 DEF Folding
      <4> QED
        BY <1>2, <3>2, <4>1, <4>2, <4>3
    <3> QED
      BY <3>1, <3>2
  <2> QED
    BY <1>1, <1>4, <2>1
<1>6. PICK h :
        /\ h = [S \in SUBSET DOMAIN s |->
                  IF S = {} THEN <<>> ELSE h[S \ {Max(S)}] \o s[Max(S)]]
        /\ Concat(s) = h[DOMAIN s]
  BY <1>5 DEF Concat, FoldLeft, MapThenFoldSet
<1>7. Folding(h, B, step, <<>>, n, s)
  <2>1. h[{}] = <<>>
    BY <1>6
  <2>2. ASSUME NEW S \in SUBSET (1..n), S # {}, h[S \ {Max(S)}] \in B
        PROVE  h[S] = step[<<h[S \ {Max(S)}], s[Max(S)]>>]
    <3>1. s[Max(S)] \in B
      BY <1>1, <2>2, TopIsThere
    <3>2. h[S] = h[S \ {Max(S)}] \o s[Max(S)]
      BY <1>1, <1>6, <2>2
    <3> QED
      BY <1>2, <2>2, <3>1, <3>2
  <2> QED
    BY <2>1, <2>2 DEF Folding
<1>8. PICK t \in [0..n -> B] : Run(t, step, <<>>, n, s) /\ t[n] = h[1..n]
  BY <1>1, <1>3, <1>7, FoldingByPosition
<1>9. \A k \in 1..n : t[k] = t[k - 1] \o s[k]
  <2> TAKE k \in 1..n
  <2>1. t[k - 1] \in B /\ s[k] \in B
    BY <1>1
  <2> QED
    BY <1>2, <1>8, <2>1 DEF Run
<1>10. t[0] = <<>> /\ t[n] = Concat(s)
  BY <1>1, <1>6, <1>8 DEF Run
<1> QED
  BY <1>9, <1>10 DEF n, B

LEMMA ConcatType ==
  ASSUME NEW T, NEW s \in Seq(Seq(T))
  PROVE  Concat(s) \in Seq(T)
<1>1. PICK t \in [0..Len(s) -> Seq(T)] : t[Len(s)] = Concat(s)
  BY ConcatRun
<1>2. Len(s) \in 0..Len(s)
  OBVIOUS
<1> QED
  BY <1>1, <1>2

LEMMA ConcatAppend ==
  ASSUME NEW T, NEW s \in Seq(Seq(T)), NEW x \in Seq(T)
  PROVE  Concat(Append(s, x)) = Concat(s) \o x
<1> DEFINE n == Len(s)
           r == Append(s, x)
<1>1. /\ n \in Nat /\ r \in Seq(Seq(T)) /\ Len(r) = n + 1 /\ r[n + 1] = x
      /\ \A k \in 1..n : r[k] = s[k] /\ s[k] \in Seq(T) /\ k \in 1..n + 1
  OBVIOUS
<1>2. PICK t \in [0..n -> Seq(T)] :
        /\ t[0] = <<>> /\ t[n] = Concat(s)
        /\ \A k \in 1..n : t[k] = t[k - 1] \o s[k]
  BY ConcatRun
<1> HIDE DEF n, r
<1>3. PICK u \in [0..Len(r) -> Seq(T)] :
        /\ u[0] = <<>> /\ u[Len(r)] = Concat(r)
        /\ \A k \in 1..Len(r) : u[k] = u[k - 1] \o r[k]
  BY <1>1, ConcatRun
<1> DEFINE Good == {k \in 0..n : t[k] = u[k]}
<1>4. 0 \in Good
  BY <1>1, <1>2, <1>3
<1>5. ASSUME NEW k \in 0..n, k < n, k \in Good PROVE k + 1 \in Good
  <2>1. k + 1 \in 1..n /\ k + 1 \in 1..n + 1 /\ (k + 1) - 1 = k /\ t[k] = u[k]
    BY <1>1, <1>5
  <2>2. t[k + 1] = t[k] \o s[k + 1]
    BY <1>2, <2>1
  <2>3. u[k + 1] = u[k] \o r[k + 1] /\ r[k + 1] = s[k + 1]
    BY <1>1, <1>3, <2>1
  <2>4. t[k + 1] = u[k + 1] /\ k + 1 \in 0..n
    BY <1>1, <2>1, <2>2, <2>3
  <2> QED
    BY <2>4
<1>6. t[n] = u[n]
  <2>1. 0..n \subseteq Good
    <3> HIDE DEF Good
    <3> QED
      BY <1>1, <1>4, <1>5, CountUp
  <2> QED
    BY <1>1, <2>1
<1>7. u[n + 1] = u[n] \o r[n + 1]
  <2>1. n \in Nat /\ Len(r) = n + 1
    BY <1>1
  <2>2. n + 1 \in 1..Len(r) /\ (n + 1) - 1 = n
    BY <2>1
  <2> QED
    BY <1>3, <2>2
<1> QED
  BY <1>1, <1>2, <1>3, <1>6, <1>7 DEF r

\* Where every part is whole or shorter than it should be, the whole has its
\* length only if nothing is missing.
LEMMA NothingMissing ==
  ASSUME NEW T, NEW s \in Seq(Seq(T)), NEW r \in Seq(Seq(T)), Len(r) = Len(s),
         \A i \in 1..Len(s) : r[i] = s[i] \/ Len(r[i]) < Len(s[i]),
         Len(Concat(r)) = Len(Concat(s))
  PROVE  Concat(r) = Concat(s)
<1> DEFINE n == Len(s)
<1>1. n \in Nat /\ \A k \in 1..n : s[k] \in Seq(T) /\ r[k] \in Seq(T)
  OBVIOUS
<1>2. PICK t \in [0..n -> Seq(T)] :
        /\ t[0] = <<>> /\ t[n] = Concat(s)
        /\ \A k \in 1..n : t[k] = t[k - 1] \o s[k]
  BY ConcatRun
<1>3. PICK u \in [0..Len(r) -> Seq(T)] :
        /\ u[0] = <<>> /\ u[Len(r)] = Concat(r)
        /\ \A k \in 1..Len(r) : u[k] = u[k - 1] \o r[k]
  BY ConcatRun
<1> HIDE DEF n
<1> DEFINE Good == {k \in 0..n : u[k] = t[k] \/ Len(u[k]) < Len(t[k])}
<1>4. 0 \in Good
  BY <1>1, <1>2, <1>3
<1>5. ASSUME NEW k \in 0..n, k < n, k \in Good PROVE k + 1 \in Good
  <2>1. k + 1 \in 1..n /\ (k + 1) - 1 = k /\ (u[k] = t[k] \/ Len(u[k]) < Len(t[k]))
    BY <1>1, <1>5
  <2>2. t[k + 1] = t[k] \o s[k + 1] /\ u[k + 1] = u[k] \o r[k + 1]
    BY <1>2, <1>3, <2>1 DEF n
  <2>3. t[k] \in Seq(T) /\ u[k] \in Seq(T) /\ s[k + 1] \in Seq(T) /\ r[k + 1] \in Seq(T)
    BY <1>1, <1>2, <1>3, <2>1 DEF n
  <2>4. r[k + 1] = s[k + 1] \/ Len(r[k + 1]) < Len(s[k + 1])
    BY <2>1 DEF n
  <2>5. /\ Len(t[k + 1]) = Len(t[k]) + Len(s[k + 1])
        /\ Len(u[k + 1]) = Len(u[k]) + Len(r[k + 1])
        /\ Len(t[k]) \in Nat /\ Len(u[k]) \in Nat
        /\ Len(s[k + 1]) \in Nat /\ Len(r[k + 1]) \in Nat
    BY <2>2, <2>3
  <2>6. u[k + 1] = t[k + 1] \/ Len(u[k + 1]) < Len(t[k + 1])
    <3>1. CASE u[k] = t[k] /\ r[k + 1] = s[k + 1]
      BY <2>2, <3>1
    <3>2. CASE ~ (u[k] = t[k] /\ r[k + 1] = s[k + 1])
      <4>1. /\ Len(u[k]) <= Len(t[k]) /\ Len(r[k + 1]) <= Len(s[k + 1])
            /\ Len(u[k]) < Len(t[k]) \/ Len(r[k + 1]) < Len(s[k + 1])
        BY <2>1, <2>4, <2>5, <3>2
      <4>2. Len(u[k]) + Len(r[k + 1]) < Len(t[k]) + Len(s[k + 1])
        <5>1. \A a, b, c, d \in Nat :
                a <= b /\ c <= d /\ (a < b \/ c < d) => a + c < b + d
          OBVIOUS
        <5> QED
          BY <2>5, <4>1, <5>1
      <4> QED
        BY <2>5, <4>2
    <3> QED
      BY <3>1, <3>2
  <2> QED
    BY <2>1, <2>6
<1>6. u[n] = t[n] \/ Len(u[n]) < Len(t[n])
  <2>1. 0..n \subseteq Good
    <3> HIDE DEF Good
    <3> QED
      BY <1>1, <1>4, <1>5, CountUp
  <2> QED
    BY <1>1, <2>1
<1>7. u[n] = Concat(r) /\ t[n] = Concat(s) /\ u[n] \in Seq(T)
  BY <1>1, <1>2, <1>3 DEF n
<1> QED
  BY <1>6, <1>7

-----------------------------------------------------------------------------
(* Batches.                                                                *)

LEMMA FrontAndLast ==
  ASSUME NEW T, NEW b \in Seq(T), b # <<>>
  PROVE  /\ Front(b) \in Seq(T) /\ Last(b) \in T /\ Last(b) = b[Len(b)]
         /\ Len(b) \in Nat \ {0} /\ Len(Front(b)) = Len(b) - 1
         /\ \A i \in 1..Len(b) - 1 : Front(b)[i] = b[i]
         /\ b = Append(Front(b), Last(b))
<1>1. Len(b) \in Nat \ {0}
  OBVIOUS
<1>2. Last(b) = b[Len(b)] /\ Last(b) \in T
  BY <1>1 DEF Last
<1>3. /\ Front(b) \in Seq(T) /\ Len(Front(b)) = Len(b) - 1
      /\ \A i \in 1..Len(b) - 1 : Front(b)[i] = b[i]
  <2>1. \A i \in 1..Len(b) - 1 : b[i] \in T
    BY <1>1
  <2>2. Front(b) = [i \in 1..Len(b) - 1 |-> b[i]]
    BY <1>1 DEF Front
  <2>3. Front(b) \in Seq(T)
    BY <1>1, <2>1, <2>2
  <2> QED
    BY <1>1, <2>2, <2>3
<1>4. b = Append(Front(b), Last(b))
  BY <1>1, <1>2, <1>3
<1> QED
  BY <1>1, <1>2, <1>3, <1>4

BatchLists == Seq(Seq(Texts)) \ {<<>>}

\* The two ways for a text to be taken, the parts by position.
LEMMA AddMeaning ==
  ASSUME NEW b \in BatchLists, NEW x \in Texts
  PROVE  LET n == Len(b)
             m == AddToBatches(b, x)
         IN /\ n \in Nat \ {0} /\ m \in BatchLists
            /\ Fits(b[n], x) =>
                 /\ Len(m) = n /\ m[n] = Append(b[n], x)
                 /\ \A i \in 1..n - 1 : m[i] = b[i]
                 /\ m = Append(Front(b), Append(Last(b), x))
            /\ ~Fits(b[n], x) =>
                 /\ Len(m) = n + 1 /\ m[n + 1] = <<x>>
                 /\ \A i \in 1..n : m[i] = b[i]
                 /\ m = Append(b, <<x>>)
<1> DEFINE n == Len(b)
           m == AddToBatches(b, x)
           f == Front(b)
           l == Last(b)
<1>1. b \in Seq(Seq(Texts)) /\ b # <<>>
  BY DEF BatchLists
<1>2. /\ f \in Seq(Seq(Texts)) /\ l \in Seq(Texts) /\ l = b[n]
      /\ n \in Nat \ {0} /\ Len(f) = n - 1
      /\ \A i \in 1..n - 1 : f[i] = b[i]
  BY <1>1, FrontAndLast
<1>3. m = IF Fits(l, x) THEN f \o <<Append(l, x)>> ELSE Append(b, <<x>>)
  BY DEF AddToBatches
<1> HIDE DEF m, f, l
<1>4. CASE Fits(l, x)
  <2>1. Append(l, x) \in Seq(Texts)
    BY <1>2
  <2>2. f \o <<Append(l, x)>> = Append(f, Append(l, x))
    BY <1>2, <2>1
  <2>3. m = Append(f, Append(l, x))
    BY <1>3, <1>4, <2>2
  <2>4. /\ m \in Seq(Seq(Texts)) /\ Len(m) = n /\ m[n] = Append(l, x)
        /\ \A i \in 1..n - 1 : m[i] = f[i]
    BY <1>2, <2>1, <2>3
  <2>5. m # <<>>
    BY <1>2, <2>4
  <2> QED
    BY <1>2, <1>4, <2>3, <2>4, <2>5 DEF BatchLists, m, f, l
<1>5. CASE ~Fits(l, x)
  <2>1. m = Append(b, <<x>>) /\ <<x>> \in Seq(Texts)
    BY <1>3, <1>5
  <2>2. /\ m \in Seq(Seq(Texts)) /\ Len(m) = n + 1 /\ m[n + 1] = <<x>>
        /\ \A i \in 1..n : m[i] = b[i]
    BY <1>1, <1>2, <2>1
  <2>3. m # <<>>
    BY <1>2, <2>2
  <2> QED
    BY <1>2, <1>5, <2>1, <2>2, <2>3 DEF BatchLists, m
<1> QED
  BY <1>4, <1>5

LEMMA BatchesRun ==
  ASSUME NEW s \in Seq(Texts), s # <<>>
  PROVE  \E t \in [0..Len(s) -> BatchLists] :
           /\ t[0] = <<<<>>>> /\ t[Len(s)] = Batches(s)
           /\ \A k \in 1..Len(s) : t[k] = AddToBatches(t[k - 1], s[k])
<1> DEFINE B    == BatchLists
           n    == Len(s)
           base == <<<<>>>>
           step == [p \in B \X Texts |-> AddToBatches(p[1], p[2])]
<1>1. n \in Nat /\ s \in [1..n -> Texts] /\ DOMAIN s = 1..n
  OBVIOUS
<1>2. \A b \in B, x \in Texts : step[<<b, x>>] = AddToBatches(b, x)
                                /\ AddToBatches(b, x) \in B
  BY AddMeaning
<1>3. base \in B
  <2>1. <<>> \in Seq(Texts)
    OBVIOUS
  <2>2. base \in Seq(Seq(Texts)) /\ Len(base) = 1
    BY <2>1
  <2> QED
    BY <2>2 DEF BatchLists
<1> HIDE DEF B, n, base, step
<1>4. Keeps(step, B, n, s) /\ \A b \in B, k \in 1..n : step[<<b, s[k]>>] \in B
  BY <1>1, <1>2 DEF Keeps
<1>5. PICK g \in [SUBSET (1..n) -> B] : Folding(g, B, step, base, n, s)
  BY <1>1, <1>3, <1>4, FoldingExists
<1>6. g = [S \in SUBSET DOMAIN s |->
             IF S = {} THEN base ELSE AddToBatches(g[S \ {Max(S)}], s[Max(S)])]
  <2>1. ASSUME NEW S \in SUBSET (1..n)
        PROVE  g[S] = IF S = {} THEN base ELSE AddToBatches(g[S \ {Max(S)}], s[Max(S)])
    <3>1. CASE S = {}
      BY <1>5, <3>1 DEF Folding
    <3>2. CASE S # {}
      <4>1. s[Max(S)] \in Texts
        BY <1>1, <3>2, TopIsThere
      <4>2. g[S \ {Max(S)}] \in B
        BY <1>5
      <4>3. g[S] = step[<<g[S \ {Max(S)}], s[Max(S)]>>]
        BY <1>5, <3>2, <4>2 DEF Folding
      <4> QED
        BY <1>2, <3>2, <4>1, <4>2, <4>3
    <3> QED
      BY <3>1, <3>2
  <2> QED
    BY <1>1, <1>5, <2>1
<1>7. PICK h :
        /\ h = [S \in SUBSET DOMAIN s |->
                  IF S = {} THEN base ELSE AddToBatches(h[S \ {Max(S)}], s[Max(S)])]
        /\ Batches(s) = h[DOMAIN s]
  BY <1>6 DEF Batches, FoldLeft, MapThenFoldSet, base
<1>8. Folding(h, B, step, base, n, s)
  <2>1. h[{}] = base
    BY <1>7
  <2>2. ASSUME NEW S \in SUBSET (1..n), S # {}, h[S \ {Max(S)}] \in B
        PROVE  h[S] = step[<<h[S \ {Max(S)}], s[Max(S)]>>]
    <3>1. s[Max(S)] \in Texts
      BY <1>1, <2>2, TopIsThere
    <3>2. h[S] = AddToBatches(h[S \ {Max(S)}], s[Max(S)])
      BY <1>1, <1>7, <2>2
    <3> QED
      BY <1>2, <2>2, <3>1, <3>2
  <2> QED
    BY <2>1, <2>2 DEF Folding
<1>9. PICK t \in [0..n -> B] : Run(t, step, base, n, s) /\ t[n] = h[1..n]
  BY <1>1, <1>3, <1>4, <1>8, FoldingByPosition
<1>10. \A k \in 1..n : t[k] = AddToBatches(t[k - 1], s[k])
  <2> TAKE k \in 1..n
  <2>1. t[k - 1] \in B /\ s[k] \in Texts
    BY <1>1
  <2> QED
    BY <1>2, <1>9, <2>1 DEF Run
<1>11. t[0] = base /\ t[n] = Batches(s)
  BY <1>1, <1>7, <1>9 DEF Run
<1> QED
  BY <1>10, <1>11 DEF n, B, base

\* Batches that keep the limits, none of which could have taken the text
\* that opens the next.
Full(m) ==
  /\ \A i \in 1..Len(m) : Len(m[i]) \in 1..BatchSize
  /\ \A i \in 1..Len(m) : Len(m[i]) > 1 => Tokens(m[i]) <= MaxBatchTokens
  /\ \A i \in 1..Len(m) - 1 : ~Fits(m[i], Head(m[i + 1]))

LEMMA FullStep ==
  ASSUME NEW b \in BatchLists, NEW x \in Texts, Full(b) \/ b = <<<<>>>>
  PROVE  Full(AddToBatches(b, x))
<1> DEFINE n == Len(b)
           m == AddToBatches(b, x)
<1>1. /\ n \in Nat \ {0}
      /\ Fits(b[n], x) => /\ Len(m) = n /\ m[n] = Append(b[n], x)
                          /\ \A i \in 1..n - 1 : m[i] = b[i]
      /\ ~Fits(b[n], x) => /\ Len(m) = n + 1 /\ m[n + 1] = <<x>>
                           /\ \A i \in 1..n : m[i] = b[i]
  BY AddMeaning
<1>2. \A i \in 1..n : b[i] \in Seq(Texts)
  BY DEF BatchLists
<1>3. b = <<<<>>>> => n = 1 /\ b[n] = <<>>
  OBVIOUS
<1>4. BatchSize \in Nat \ {0} /\ MaxBatchTokens \in Nat
  BY EmbeddingAssumption
<1> HIDE DEF n, m
<1>5. CASE Fits(b[n], x)
  <2>1. /\ Len(m) = n /\ m[n] = Append(b[n], x) /\ b[n] \in Seq(Texts)
        /\ \A i \in 1..n - 1 : m[i] = b[i]
    BY <1>1, <1>2, <1>5
  <2>2. /\ Len(b[n]) < BatchSize /\ Len(b[n]) \in Nat /\ Len(m[n]) = Len(b[n]) + 1
        /\ Len(b[n]) > 0 => Tokens(b[n]) + TokensOf[x] <= MaxBatchTokens
    BY <1>5, <2>1 DEF Fits
  <2>3. Len(m[n]) \in 1..BatchSize
    BY <1>4, <2>2
  <2>4. Len(m[n]) > 1 => Tokens(m[n]) <= MaxBatchTokens
    BY <2>1, <2>2, TokensAppend
  <2>5. CASE b = <<<<>>>>
    <3>1. n = 1 /\ 1..n = {n} /\ 1..n - 1 = {}
      BY <1>3, <2>5
    <3> QED
      BY <2>1, <2>3, <2>4, <3>1 DEF Full, m
  <2>6. CASE Full(b)
    <3>1. ASSUME NEW i \in 1..n
          PROVE  /\ Len(m[i]) \in 1..BatchSize
                 /\ Len(m[i]) > 1 => Tokens(m[i]) <= MaxBatchTokens
      <4>1. CASE i = n
        BY <2>3, <2>4, <4>1
      <4>2. CASE i # n
        <5>1. m[i] = b[i]
          BY <1>1, <2>1, <4>2
        <5> QED
          BY <2>6, <5>1 DEF Full, n
      <4> QED
        BY <4>1, <4>2
    <3>2. ASSUME NEW i \in 1..n - 1
          PROVE  ~Fits(m[i], Head(m[i + 1]))
      <4>1. m[i] = b[i] /\ i + 1 \in 1..n
        BY <1>1, <2>1
      <4>2. Head(m[i + 1]) = Head(b[i + 1])
        <5>1. CASE i + 1 = n
          <6>1. Len(b[n]) \in 1..BatchSize
            BY <1>1, <2>6 DEF Full, n
          <6>2. Head(Append(b[n], x)) = Head(b[n])
            BY <2>1, <6>1
          <6> QED
            BY <2>1, <5>1, <6>2
        <5>2. CASE i + 1 # n
          BY <1>1, <2>1, <4>1, <5>2
        <5> QED
          BY <5>1, <5>2
      <4>3. ~Fits(b[i], Head(b[i + 1]))
        BY <2>6 DEF Full, n
      <4> QED
        BY <4>1, <4>2, <4>3
    <3> QED
      BY <2>1, <3>1, <3>2 DEF Full, m
  <2> QED
    BY <2>5, <2>6
<1>6. CASE ~Fits(b[n], x)
  <2>1. Full(b)
    <3>1. Fits(<<>>, x)
      BY <1>4 DEF Fits
    <3> QED
      BY <1>3, <1>6, <3>1
  <2>2. /\ Len(m) = n + 1 /\ m[n + 1] = <<x>>
        /\ \A i \in 1..n : m[i] = b[i]
    BY <1>1, <1>6
  <2>3. Len(<<x>>) = 1 /\ Head(<<x>>) = x
    OBVIOUS
  <2>4. ASSUME NEW i \in 1..n + 1
        PROVE  Len(m[i]) \in 1..BatchSize /\ (Len(m[i]) > 1 => Tokens(m[i]) <= MaxBatchTokens)
    <3>1. CASE i = n + 1
      <4>1. Len(m[i]) = 1
        BY <2>2, <2>3, <3>1
      <4>2. 1 \in 1..BatchSize /\ ~ (1 > 1)
        BY <1>4
      <4> QED
        BY <4>1, <4>2
    <3>2. CASE i # n + 1
      <4>1. i \in 1..n
        BY <1>1, <3>2
      <4> QED
        BY <2>1, <2>2, <4>1 DEF Full, n
    <3> QED
      BY <3>1, <3>2
  <2>5. ASSUME NEW i \in 1..n
        PROVE  ~Fits(m[i], Head(m[i + 1]))
    <3>1. CASE i = n
      BY <1>6, <2>2, <2>3, <3>1
    <3>2. CASE i # n
      <4>1. i \in 1..n - 1 /\ i + 1 \in 1..n
        BY <1>1, <3>2
      <4>2. ~Fits(b[i], Head(b[i + 1]))
        BY <2>1, <4>1 DEF Full, n
      <4> QED
        BY <2>2, <4>1, <4>2
    <3> QED
      BY <3>1, <3>2
  <2>6. (n + 1) - 1 = n
    BY <1>1
  <2> QED
    BY <2>2, <2>4, <2>5, <2>6 DEF Full, m
<1> QED
  BY <1>5, <1>6

LEMMA ConcatStep ==
  ASSUME NEW b \in BatchLists, NEW x \in Texts
  PROVE  Concat(AddToBatches(b, x)) = Append(Concat(b), x)
<1> DEFINE n == Len(b)
           f == Front(b)
           l == Last(b)
<1>1. b \in Seq(Seq(Texts)) /\ b # <<>>
  BY DEF BatchLists
<1>2. /\ f \in Seq(Seq(Texts)) /\ l \in Seq(Texts) /\ b = Append(f, l)
  BY <1>1, FrontAndLast
<1>3. /\ Concat(f) \in Seq(Texts) /\ Concat(b) \in Seq(Texts)
      /\ Append(l, x) \in Seq(Texts) /\ <<x>> \in Seq(Texts)
  BY <1>1, <1>2, ConcatType
<1>4. CASE Fits(b[n], x)
  <2>1. AddToBatches(b, x) = Append(f, Append(l, x))
    BY <1>4, AddMeaning
  <2>2. Concat(AddToBatches(b, x)) = Concat(f) \o Append(l, x)
    BY <1>2, <1>3, <2>1, ConcatAppend
  <2>3. Concat(b) = Concat(f) \o l
    BY <1>2, ConcatAppend
  <2>4. \A u, v \in Seq(Texts) : u \o Append(v, x) = Append(u \o v, x)
    OBVIOUS
  <2> QED
    BY <1>2, <1>3, <2>2, <2>3, <2>4
<1>5. CASE ~Fits(b[n], x)
  <2>1. AddToBatches(b, x) = Append(b, <<x>>)
    BY <1>5, AddMeaning
  <2>2. Concat(AddToBatches(b, x)) = Concat(b) \o <<x>>
    BY <1>1, <1>3, <2>1, ConcatAppend
  <2>3. \A u \in Seq(Texts) : u \o <<x>> = Append(u, x)
    OBVIOUS
  <2> QED
    BY <1>3, <2>2, <2>3
<1> QED
  BY <1>4, <1>5

LEMMA ConcatOfNone == Concat(<<>>) = <<>> /\ Concat(<<<<>>>>) = <<>>
<1>1. <<>> \in Seq(Seq(Texts)) /\ <<>> \in Seq(Texts) /\ Len(<<>>) = 0
  OBVIOUS
<1>2. PICK t : t[0] = <<>> /\ t[Len(<<>>)] = Concat(<<>>)
  BY <1>1, ConcatRun
<1>3. Concat(<<>>) = <<>>
  BY <1>1, <1>2
<1>4. Append(<<>>, <<>>) = <<<<>>>>
  OBVIOUS
<1>5. Concat(<<<<>>>>) = Concat(<<>>) \o <<>>
  BY <1>1, <1>4, ConcatAppend
<1> QED
  BY <1>3, <1>5

LEMMA BatchesMeaning ==
  ASSUME NEW s \in Seq(Texts)
  PROVE  Batches(s) \in Seq(Seq(Texts)) /\ Concat(Batches(s)) = s /\ Full(Batches(s))
<1>1. CASE s = <<>>
  <2>1. Batches(s) = <<>> /\ Len(<<>>) = 0 /\ 1..0 = {} /\ 1..0 - 1 = {}
    BY <1>1 DEF Batches
  <2>2. <<>> \in Seq(Seq(Texts))
    OBVIOUS
  <2> QED
    BY <1>1, <2>1, <2>2, ConcatOfNone DEF Full
<1>2. CASE s # <<>>
  <2> DEFINE n == Len(s)
  <2>1. n \in Nat \ {0} /\ \A k \in 1..n : s[k] \in Texts
    BY <1>2
  <2>2. PICK t \in [0..n -> BatchLists] :
          /\ t[0] = <<<<>>>> /\ t[n] = Batches(s)
          /\ \A k \in 1..n : t[k] = AddToBatches(t[k - 1], s[k])
    BY <1>2, BatchesRun
  <2>3. SubSeq(s, 1, 0) = <<>> /\ SubSeq(s, 1, n) = s
    OBVIOUS
  <2>4. \A k \in 0..n : k < n => SubSeq(s, 1, k + 1) = Append(SubSeq(s, 1, k), s[k + 1])
    <3> SUFFICES ASSUME NEW k \in 0..n, k < n
                 PROVE  SubSeq(s, 1, k + 1) = Append(SubSeq(s, 1, k), s[k + 1])
      OBVIOUS
    <3>1. k \in Nat /\ k + 1 \in 1..n
      OBVIOUS
    <3>2. SubSeq(s, 1, k) = [i \in 1..k |-> s[i]]
          /\ SubSeq(s, 1, k + 1) = [i \in 1..k + 1 |-> s[i]]
      BY <3>1
    <3>3. \A i \in 1..k : s[i] \in Texts
      BY <2>1, <3>1
    <3> QED
      BY <3>1, <3>2, <3>3
  <2> HIDE DEF n
  <2> DEFINE P(k) == (k > 0 => Full(t[k])) /\ Concat(t[k]) = SubSeq(s, 1, k)
             Good == {k \in 0..n : P(k)}
  <2>5. P(0)
    BY <2>2, <2>3, ConcatOfNone
  <2>6. ASSUME NEW k \in 0..n, k < n, P(k) PROVE P(k + 1)
    <3>1. k + 1 \in 1..n /\ (k + 1) - 1 = k /\ t[k] \in BatchLists /\ s[k + 1] \in Texts
      BY <2>1, <2>6
    <3>2. t[k + 1] = AddToBatches(t[k], s[k + 1])
      BY <2>2, <3>1
    <3>3. Full(t[k]) \/ t[k] = <<<<>>>>
      BY <2>2, <2>6
    <3>4. Full(t[k + 1])
      BY <3>1, <3>2, <3>3, FullStep
    <3>5. Concat(t[k + 1]) = Append(Concat(t[k]), s[k + 1])
      BY <3>1, <3>2, ConcatStep
    <3> QED
      BY <2>4, <2>6, <3>4, <3>5
  <2> HIDE DEF P
  <2>7. 0 \in Good
    BY <2>1, <2>5
  <2>8. \A k \in 0..n : k < n /\ k \in Good => k + 1 \in Good
    BY <2>1, <2>6
  <2>9. 0..n \subseteq Good
    <3> HIDE DEF Good
    <3> QED
      BY <2>1, <2>7, <2>8, CountUp
  <2>10. P(n)
    BY <2>1, <2>9
  <2>11. Full(Batches(s)) /\ Concat(Batches(s)) = s
    BY <2>1, <2>2, <2>3, <2>10 DEF P, n
  <2>12. Batches(s) \in Seq(Seq(Texts))
    BY <2>1, <2>2 DEF BatchLists
  <2> QED
    BY <2>11, <2>12
<1> QED
  BY <1>1, <1>2

-----------------------------------------------------------------------------
(* What the service keeps.                                                 *)

TaskSet ==
  [call : Nat, index : Nat, texts : Seq(Texts), state : TaskStates,
   attempt : Nat, answer : Seq(Texts)]

\* The batches of the call under way are all there, as they were cut, and
\* what is done was answered by one of the answers there are.
TaskInv ==
  /\ asked \in Requests \cup {Nothing}
  /\ call \in Nat
  /\ tasks \subseteq TaskSet
  /\ \A t \in tasks : t.call <= call
  /\ \A t \in tasks : t.state = "done" => t.answer \in Answers(t)
  /\ asked # Nothing =>
       /\ \A t \in tasks :
            Mine(t) => t.index \in DOMAIN Batches(asked) /\ t.texts = Batches(asked)[t.index]
       /\ \A i \in DOMAIN Batches(asked) : \E t \in tasks : Mine(t) /\ t.index = i
  /\ asked # Nothing => reply = Nothing

\* Nothing is counted that was not charged, as long as nothing is estimated.
SpendInv ==
  /\ meter \in Nat /\ estimated \in Nat /\ billed \in Nat
  /\ ledger \in Seq(Nat)
  /\ MeterIsAFloor

LEMMA RequestsAreTexts ==
  ASSUME NEW r \in Requests
  PROVE  /\ r \in Seq(Texts) /\ r # Nothing
         /\ Batches(r) \in Seq(Seq(Texts)) /\ Concat(Batches(r)) = r
         /\ \A i \in DOMAIN Batches(r) : Batches(r)[i] \in Seq(Texts) /\ i \in Nat
<1>1. r \in Seq(Texts) /\ r # Nothing
  BY EmbeddingAssumption DEF Texts
<1>2. Batches(r) \in Seq(Seq(Texts)) /\ Concat(Batches(r)) = r
  BY <1>1, BatchesMeaning
<1>3. \A i \in DOMAIN Batches(r) : Batches(r)[i] \in Seq(Texts) /\ i \in Nat
  BY <1>2
<1> QED
  BY <1>1, <1>2, <1>3

\* An answer without one of the vectors, or with one of them twice.
LEMMA CutsOf ==
  ASSUME NEW T, NEW s \in Seq(T), NEW i \in DOMAIN s
  PROVE  /\ RemoveAt(s, i) \in Seq(T) /\ Len(RemoveAt(s, i)) < Len(s)
         /\ InsertAt(s, i, s[i]) \in Seq(T) /\ Len(InsertAt(s, i, s[i])) > Len(s)
<1>1. i \in 1..Len(s) /\ Len(s) \in Nat /\ \A j \in 1..Len(s) : s[j] \in T
  OBVIOUS
<1>2. SubSeq(s, 1, i - 1) \in Seq(T) /\ Len(SubSeq(s, 1, i - 1)) = i - 1
  <2>1. 1 \in Int /\ i - 1 \in Int /\ \A j \in 1..i - 1 : s[j] \in T
    BY <1>1
  <2>2. Len(SubSeq(s, 1, i - 1)) = IF 1 <= i - 1 THEN (i - 1) - 1 + 1 ELSE 0
    BY <2>1, SubSeqProperties
  <2>3. SubSeq(s, 1, i - 1) \in Seq(T)
    BY <2>1, SubSeqProperties
  <2> QED
    BY <1>1, <2>2, <2>3
<1>3. /\ SubSeq(s, i + 1, Len(s)) \in Seq(T)
      /\ Len(SubSeq(s, i + 1, Len(s))) = Len(s) - i
  <2>1. i + 1 \in Int /\ Len(s) \in Int /\ \A j \in i + 1..Len(s) : s[j] \in T
    BY <1>1
  <2>2. Len(SubSeq(s, i + 1, Len(s))) =
          IF i + 1 <= Len(s) THEN Len(s) - (i + 1) + 1 ELSE 0
    BY <2>1, SubSeqProperties
  <2>3. SubSeq(s, i + 1, Len(s)) \in Seq(T)
    BY <2>1, SubSeqProperties
  <2> QED
    BY <1>1, <2>2, <2>3
<1>4. SubSeq(s, i, Len(s)) \in Seq(T)
  <2>1. i \in Int /\ Len(s) \in Int /\ \A j \in i..Len(s) : s[j] \in T
    BY <1>1
  <2> QED
    BY <2>1, SubSeqProperties
<1>5. \A u, v \in Seq(T) : u \o v \in Seq(T) /\ Len(u \o v) = Len(u) + Len(v)
  OBVIOUS
<1>6. RemoveAt(s, i) \in Seq(T) /\ Len(RemoveAt(s, i)) = (i - 1) + (Len(s) - i)
  BY <1>2, <1>3, <1>5 DEF RemoveAt
<1>7. InsertAt(s, i, s[i]) \in Seq(T) /\ Len(InsertAt(s, i, s[i])) > Len(s)
  <2>1. <<s[i]>> \in Seq(T) /\ Len(<<s[i]>>) = 1
    BY <1>1
  <2>2. /\ SubSeq(s, 1, i - 1) \o <<s[i]>> \in Seq(T)
        /\ Len(SubSeq(s, 1, i - 1) \o <<s[i]>>) = i
    BY <1>1, <1>2, <1>5, <2>1
  <2> QED
    BY <1>4, <1>5, <2>2 DEF InsertAt
<1> QED
  BY <1>1, <1>6, <1>7

LEMMA AnswersAreSeqs ==
  ASSUME NEW t \in TaskSet, NEW a \in Answers(t), NEW T, t.texts \in Seq(T)
  PROVE  a \in Seq(T)
<1> DEFINE s == t.texts
<1>1. s \in Seq(T) /\ \A i \in DOMAIN s : RemoveAt(s, i) \in Seq(T)
                                     /\ InsertAt(s, i, s[i]) \in Seq(T)
  BY CutsOf
<1>2. a = s \/ \E i \in DOMAIN s : a = RemoveAt(s, i) \/ a = InsertAt(s, i, s[i])
  BY DEF Answers
<1> QED
  BY <1>1, <1>2

\* An answer that does not hold too much is the right one or a short one.
LEMMA AnswersAreShort ==
  ASSUME NEW t \in TaskSet, NEW a \in Answers(t), ~(Len(a) > Len(t.texts))
  PROVE  a \in Seq(Texts) /\ (a = t.texts \/ Len(a) < Len(t.texts))
<1> DEFINE s == t.texts
<1>1. s \in Seq(Texts)
  BY DEF TaskSet
<1>2. \A i \in DOMAIN s : /\ RemoveAt(s, i) \in Seq(Texts)
                         /\ Len(RemoveAt(s, i)) < Len(s)
                         /\ Len(InsertAt(s, i, s[i])) > Len(s)
  BY <1>1, CutsOf
<1>3. a = s \/ \E i \in DOMAIN s : a = RemoveAt(s, i) \/ a = InsertAt(s, i, s[i])
  BY DEF Answers
<1> QED
  BY <1>1, <1>2, <1>3

LEMMA BecomeKeeps ==
  ASSUME TaskInv, NEW t \in tasks, NEW u \in TaskSet,
         u.call = t.call, u.index = t.index, u.texts = t.texts,
         u.state = "done" => u.answer \in Answers(t),
         Become(t, u), UNCHANGED <<asked, call, reply>>
  PROVE  TaskInv'
<1>1. /\ asked' = asked /\ call' = call /\ reply' = reply
      /\ tasks' \subseteq (tasks \ {t}) \cup {u} /\ tasks \ {t} \subseteq tasks'
      /\ asked # Nothing /\ t.call = call => u \in tasks'
  BY DEF Become
<1>2. Answers(u) = Answers(t)
  BY DEF Answers
<1>3. tasks' \subseteq TaskSet
  BY <1>1 DEF TaskInv
<1>4. ASSUME NEW v \in tasks'
      PROVE  v.call <= call /\ (v.state = "done" => v.answer \in Answers(v))
  BY <1>1, <1>2 DEF TaskInv
<1>5. ASSUME asked # Nothing, NEW v \in tasks', Mine(v)
      PROVE  v.index \in DOMAIN Batches(asked) /\ v.texts = Batches(asked)[v.index]
  BY <1>1, <1>5 DEF TaskInv, Mine
<1>6. ASSUME asked # Nothing, NEW i \in DOMAIN Batches(asked)
      PROVE  \E v \in tasks' : Mine(v) /\ v.index = i
  <2>1. PICK v \in tasks : Mine(v) /\ v.index = i
    BY <1>6 DEF TaskInv
  <2>2. CASE v = t
    BY <1>1, <1>6, <2>1, <2>2 DEF Mine
  <2>3. CASE v # t
    BY <1>1, <2>1, <2>3
  <2> QED
    BY <2>2, <2>3
<1>7. \A v : Mine(v)' <=> Mine(v)
  BY <1>1 DEF Mine
<1>8. asked \in Requests \cup {Nothing} /\ call \in Nat /\ (asked # Nothing => reply = Nothing)
  BY DEF TaskInv
<1> QED
  BY <1>1, <1>3, <1>4, <1>5, <1>6, <1>7, <1>8 DEF TaskInv

LEMMA AskStep ==
  ASSUME TaskInv, NEW texts \in Requests, EmbedDocuments(texts)
  PROVE  TaskInv'
<1> DEFINE cut == Batches(texts)
           new == {[call |-> call + 1, index |-> i, texts |-> cut[i],
                    state |-> "waiting", attempt |-> 0, answer |-> <<>>] : i \in DOMAIN cut}
<1>1. /\ asked' = texts /\ call' = call + 1 /\ reply' = Nothing /\ call \in Nat
      /\ tasks' = tasks \cup new
  BY DEF EmbedDocuments, TaskInv
<1>2. \A i \in DOMAIN cut : cut[i] \in Seq(Texts) /\ i \in Nat
  BY RequestsAreTexts
<1> HIDE DEF cut
<1>3. ASSUME NEW v \in new
      PROVE  /\ v \in TaskSet /\ v.call = call + 1 /\ v.state # "done"
             /\ v.index \in DOMAIN cut /\ v.texts = cut[v.index]
  <2>1. PICK i \in DOMAIN cut :
          v = [call |-> call + 1, index |-> i, texts |-> cut[i],
               state |-> "waiting", attempt |-> 0, answer |-> <<>>]
    BY <1>3
  <2>2. cut[i] \in Seq(Texts) /\ i \in Nat /\ <<>> \in Seq(Texts) /\ call + 1 \in Nat
    BY <1>1, <1>2
  <2>3. v \in TaskSet
    BY <2>1, <2>2 DEF TaskSet, TaskStates
  <2> QED
    BY <2>1, <2>3
<1>4. ASSUME NEW i \in DOMAIN cut
      PROVE  \E v \in new : v.call = call + 1 /\ v.index = i
  <2> DEFINE v == [call |-> call + 1, index |-> i, texts |-> cut[i],
                   state |-> "waiting", attempt |-> 0, answer |-> <<>>]
  <2>1. v \in new /\ v.call = call + 1 /\ v.index = i
    OBVIOUS
  <2> HIDE DEF v, new
  <2> QED
    BY <2>1
<1> HIDE DEF new
<1>5. \A v \in tasks : v.call # call + 1 /\ v.call <= call + 1
  <2>1. \A v \in tasks : v.call \in Nat /\ v.call <= call
    BY DEF TaskInv, TaskSet
  <2> QED
    BY <1>1, <2>1
<1>6. tasks' \subseteq TaskSet /\ \A v \in tasks' : v.call <= call'
  BY <1>1, <1>3, <1>5 DEF TaskInv
<1>7. \A v \in tasks' : v.state = "done" => v.answer \in Answers(v)
  BY <1>1, <1>3 DEF TaskInv
<1>8. \A v \in tasks' : Mine(v)' =>
        v.index \in DOMAIN Batches(asked') /\ v.texts = Batches(asked')[v.index]
  BY <1>1, <1>3, <1>5 DEF Mine, cut
<1>9. \A i \in DOMAIN Batches(asked') : \E v \in tasks' : Mine(v)' /\ v.index = i
  BY <1>1, <1>4 DEF Mine, cut
<1> QED
  BY <1>1, <1>6, <1>7, <1>8, <1>9 DEF TaskInv

\* What one of the tasks does.
TaskMoves(t) ==
  \/ Acquire(t) \/ Wake(t)
  \/ \E a \in Answers(t), reported \in BOOLEAN : Serve(t, a, reported)
  \/ ServeNarrow(t)
  \/ \E charge \in {0, Charged(t.texts)} : Retry(t, charge) \/ Fail(t, charge, FALSE)
  \/ Fail(t, 0, TRUE)

LEMMA TaskMovesKeep ==
  ASSUME TaskInv, NEW t \in tasks, TaskMoves(t)
  PROVE  TaskInv'
<1>0. t \in TaskSet
  BY DEF TaskInv
<1>1. CASE Acquire(t)
  <2> DEFINE u == [t EXCEPT !.state = "calling", !.attempt = 1]
  <2>1. /\ u \in TaskSet /\ u.state = "calling"
        /\ u.call = t.call /\ u.index = t.index /\ u.texts = t.texts
    BY <1>0 DEF TaskSet, TaskStates
  <2>2. Become(t, u) /\ UNCHANGED <<asked, call, reply>>
    BY <1>1 DEF Acquire
  <2> HIDE DEF u
  <2> QED
    BY <2>1, <2>2, BecomeKeeps
<1>2. CASE Wake(t)
  <2> DEFINE u == [t EXCEPT !.state = "calling", !.attempt = @ + 1]
  <2>1. /\ u \in TaskSet /\ u.state = "calling"
        /\ u.call = t.call /\ u.index = t.index /\ u.texts = t.texts
    <3> DEFINE A == Seq(Texts)
               n == t.attempt + 1
    <3>1. t \in [call : Nat, index : Nat, texts : A, state : TaskStates, attempt : Nat,
                 answer : A] /\ n \in Nat /\ u = [t EXCEPT !.state = "calling", !.attempt = n]
      BY <1>0 DEF TaskSet
    <3> HIDE DEF A, n, u
    <3>2. "calling" \in TaskStates
      BY DEF TaskStates
    <3>3. u \in [call : Nat, index : Nat, texts : A, state : TaskStates, attempt : Nat,
                 answer : A]
      BY <3>1, <3>2
    <3>4. /\ u.state = "calling"
          /\ u.call = t.call /\ u.index = t.index /\ u.texts = t.texts
      BY <3>1
    <3> QED
      BY <3>3, <3>4 DEF TaskSet, A
  <2>2. Become(t, u) /\ UNCHANGED <<asked, call, reply>>
    BY <1>2 DEF Wake
  <2> HIDE DEF u
  <2> QED
    BY <2>1, <2>2, BecomeKeeps
<1>3. ASSUME NEW a \in Answers(t), NEW reported \in BOOLEAN, Serve(t, a, reported)
      PROVE  TaskInv'
  <2> DEFINE u == [t EXCEPT !.state = "done", !.answer = a]
  <2>0. a \in Seq(Texts)
    BY <1>0, AnswersAreSeqs DEF TaskSet
  <2>1. /\ u \in TaskSet /\ u.answer = a
        /\ u.call = t.call /\ u.index = t.index /\ u.texts = t.texts
    <3> DEFINE A == Seq(Texts)
    <3>1. t \in [call : Nat, index : Nat, texts : A, state : TaskStates, attempt : Nat,
                 answer : A] /\ a \in A
      BY <1>0, <2>0 DEF TaskSet
    <3> HIDE DEF A
    <3>2. "done" \in TaskStates
      BY DEF TaskStates
    <3>3. u \in [call : Nat, index : Nat, texts : A, state : TaskStates, attempt : Nat,
                 answer : A]
      BY <3>1, <3>2
    <3>4. u.answer = a /\ u.call = t.call /\ u.index = t.index /\ u.texts = t.texts
      BY <3>1
    <3> QED
      BY <3>3, <3>4 DEF TaskSet, A
  <2>2. Become(t, u) /\ UNCHANGED <<asked, call, reply>>
    BY <1>3 DEF Serve
  <2> HIDE DEF u
  <2> QED
    BY <2>1, <2>2, BecomeKeeps
<1>4. CASE ServeNarrow(t) \/ Fail(t, 0, TRUE)
           \/ \E charge \in {0, Charged(t.texts)} : Fail(t, charge, FALSE)
  <2> DEFINE u == [t EXCEPT !.state = "raised"]
  <2>1. /\ u \in TaskSet /\ u.state = "raised"
        /\ u.call = t.call /\ u.index = t.index /\ u.texts = t.texts
    BY <1>0 DEF TaskSet, TaskStates
  <2>2. Become(t, u) /\ UNCHANGED <<asked, call, reply>>
    BY <1>4 DEF ServeNarrow, Fail
  <2> HIDE DEF u
  <2> QED
    BY <2>1, <2>2, BecomeKeeps
<1>5. CASE \E charge \in {0, Charged(t.texts)} : Retry(t, charge)
  <2> DEFINE u == [t EXCEPT !.state = "sleeping"]
  <2>1. /\ u \in TaskSet /\ u.state = "sleeping"
        /\ u.call = t.call /\ u.index = t.index /\ u.texts = t.texts
    BY <1>0 DEF TaskSet, TaskStates
  <2>2. Become(t, u) /\ UNCHANGED <<asked, call, reply>>
    BY <1>5 DEF Retry
  <2> HIDE DEF u
  <2> QED
    BY <2>1, <2>2, BecomeKeeps
<1> QED
  BY <1>1, <1>2, <1>3, <1>4, <1>5 DEF TaskMoves

LEMMA TaskStep == TaskInv /\ [EmbeddingNext]_embeddingVars => TaskInv'
<1> SUFFICES ASSUME TaskInv, [EmbeddingNext]_embeddingVars PROVE TaskInv'
  OBVIOUS
<1>1. CASE BeginRun \/ EndRun \/ UNCHANGED embeddingVars
  BY <1>1 DEF BeginRun, EndRun, embeddingVars, TaskInv, Mine
<1>2. CASE NewProcess \/ Return \/ Raise
  <2>1. asked' = Nothing /\ call' = call /\ tasks' \subseteq tasks
    BY <1>2 DEF NewProcess, Return, Raise, Leave
  <2> QED
    BY <2>1 DEF TaskInv
<1>3. CASE \E texts \in Requests : EmbedDocuments(texts)
  BY <1>3, AskStep
<1>4. CASE Settle
  <2>1. PICK t \in tasks : TaskMoves(t)
    BY <1>4 DEF Settle, TaskMoves
  <2> QED
    BY <2>1, TaskMovesKeep
<1> QED
  BY <1>1, <1>2, <1>3, <1>4 DEF EmbeddingNext

LEMMA Tasks == EmbeddingSpec => []TaskInv
<1>1. EmbeddingInit => TaskInv
  BY DEF EmbeddingInit, TaskInv
<1> QED
  BY <1>1, TaskStep, PTL DEF EmbeddingSpec

-----------------------------------------------------------------------------

(* The batches of a call are its texts in order; none is empty, none is    *)
(* above a limit that one text alone does not exceed, and none could have  *)
(* taken the text that opens the next: for any request, any limits.        *)
(* (_batch)                                                                *)
THEOREM BatchesAreFull == EmbeddingSpec => []BatchesFillUp
<1>1. TaskInv => BatchesFillUp
  <2> SUFFICES ASSUME TaskInv, asked # Nothing PROVE BatchesFillUp
    BY DEF BatchesFillUp
  <2>1. asked \in Requests
    BY DEF TaskInv
  <2>2. asked \in Seq(Texts)
    BY <2>1, RequestsAreTexts
  <2> DEFINE cut == Batches(asked)
  <2>3. cut \in Seq(Seq(Texts)) /\ Concat(cut) = asked /\ Full(cut)
    BY <2>2, BatchesMeaning
  <2> HIDE DEF cut
  <2>4. Len(cut) \in Nat /\ DOMAIN cut = 1..Len(cut)
    BY <2>3
  <2>5. \A i \in DOMAIN cut : i < Len(cut) => i \in 1..Len(cut) - 1
    BY <2>4
  <2> QED
    BY <2>3, <2>4, <2>5 DEF BatchesFillUp, Full, cut
<1> QED
  BY <1>1, Tasks, PTL

LEMMA SpendStep == TaskInv /\ SpendInv /\ [EmbeddingNext]_embeddingVars => SpendInv'
<1> SUFFICES ASSUME TaskInv, SpendInv, [EmbeddingNext]_embeddingVars PROVE SpendInv'
  OBVIOUS
<1>0. /\ meter \in Nat /\ estimated \in Nat /\ billed \in Nat
      /\ ledger \in Seq(Nat) /\ \A i \in DOMAIN ledger : ledger[i] \in Nat
      /\ estimated = 0 => meter <= billed /\ \A i \in DOMAIN ledger : ledger[i] <= billed
  BY DEF SpendInv, MeterIsAFloor
<1>1. ASSUME NEW more \in Nat, billed' = billed + more, ledger' = ledger,
             \/ meter' \in {meter, meter + more} /\ estimated' = estimated
             \/ meter' \in Nat /\ estimated' = estimated + 1
      PROVE  SpendInv'
  <2>1. meter' \in Nat /\ estimated' \in Nat /\ billed' \in Nat
    BY <1>0, <1>1
  <2>2. ASSUME estimated' = 0
        PROVE  meter' <= billed' /\ \A i \in DOMAIN ledger : ledger[i] <= billed'
    <3>1. estimated = 0 /\ meter' \in {meter, meter + more}
      BY <1>0, <1>1, <2>2
    <3> QED
      BY <1>0, <1>1, <3>1
  <2> QED
    BY <1>0, <1>1, <2>1, <2>2 DEF SpendInv, MeterIsAFloor
<1>2. CASE UNCHANGED <<stats, billed, ledger>>
  BY <1>0, <1>2 DEF SpendInv, MeterIsAFloor, stats
<1>3. CASE EndRun
  <2>1. /\ meter' = meter /\ estimated' = estimated /\ billed' = billed
        /\ ledger' = Append(ledger, meter)
    BY <1>3 DEF EndRun, stats
  <2>2. /\ ledger' \in Seq(Nat)
        /\ estimated = 0 => \A i \in DOMAIN ledger' : ledger'[i] <= billed
    BY <1>0, <2>1
  <2> QED
    BY <1>0, <2>1, <2>2 DEF SpendInv, MeterIsAFloor
<1>4. CASE NewProcess
  BY <1>4 DEF NewProcess, SpendInv, MeterIsAFloor
<1>5. CASE BeginRun \/ (\E texts \in Requests : EmbedDocuments(texts)) \/ Return \/ Raise
           \/ UNCHANGED embeddingVars
  BY <1>2, <1>5 DEF BeginRun, EmbedDocuments, Return, Raise, embeddingVars
<1>6. CASE Settle
  <2>1. PICK t \in tasks : TaskMoves(t)
    BY <1>6 DEF Settle, TaskMoves
  <2>2. t.texts \in Seq(Texts)
    BY DEF TaskInv, TaskSet
  <2>3. Tokens(t.texts) \in Nat /\ Charged(t.texts) \in Nat /\ 0 \in Nat
    BY <2>2, TokensType, ChargedType
  <2>4. CASE Acquire(t) \/ Wake(t)
    BY <1>2, <2>4 DEF Acquire, Wake
  <2>5. CASE \E a \in Answers(t), reported \in BOOLEAN : Serve(t, a, reported)
    <3>1. PICK reported \in BOOLEAN :
            /\ billed' = billed + Charged(t.texts) /\ ledger' = ledger
            /\ meter' = meter + (IF reported THEN Charged(t.texts) ELSE Tokens(t.texts))
            /\ estimated' = estimated + (IF reported THEN 0 ELSE 1)
      BY <2>5 DEF Serve, Bill, Meter
    <3>2. \/ meter' = meter + Charged(t.texts) /\ estimated' = estimated
          \/ meter' \in Nat /\ estimated' = estimated + 1
      BY <1>0, <2>3, <3>1
    <3> QED
      BY <1>1, <2>3, <3>1, <3>2
  <2>6. CASE ServeNarrow(t) \/ Fail(t, 0, TRUE)
             \/ \E charge \in {0, Charged(t.texts)} : Retry(t, charge) \/ Fail(t, charge, FALSE)
    <3>1. meter' = meter /\ estimated' = estimated /\ ledger' = ledger
          /\ \E charge \in {0, Charged(t.texts)} : billed' = billed + charge
      BY <2>6 DEF ServeNarrow, Retry, Fail, Bill, stats
    <3>2. PICK charge \in Nat : billed' = billed + charge
      BY <2>3, <3>1
    <3> QED
      BY <1>1, <3>1, <3>2
  <2> QED
    BY <2>1, <2>4, <2>5, <2>6 DEF TaskMoves
<1> QED
  BY <1>2, <1>3, <1>4, <1>5, <1>6 DEF EmbeddingNext

(* Where the provider reported every count, what a process counts as spent *)
(* was spent, whatever is retried, lost or still coming in of a failed     *)
(* call, for any number of calls and runs.  (_tokens_for, finish_run)      *)
THEOREM NothingOverCounted == EmbeddingSpec => []MeterIsAFloor
<1>1. EmbeddingInit => SpendInv
  BY DEF EmbeddingInit, SpendInv, MeterIsAFloor
<1>2. SpendInv => MeterIsAFloor
  BY DEF SpendInv
<1> QED
  BY <1>1, <1>2, SpendStep, Tasks, PTL DEF EmbeddingSpec

\* The call returns the vectors of its texts, or it is not the call that
\* returns.
LEMMA GatheredIsAsked ==
  ASSUME TaskInv, asked # Nothing, AllDone, Len(Gathered) = Len(asked)
  PROVE  Gathered \in IF Overrun THEN [DOMAIN asked -> Texts] ELSE {asked}
<1> DEFINE cut     == Batches(asked)
           answers == [i \in DOMAIN cut |-> Batch(i).answer]
<1>1. asked \in Requests
  BY DEF TaskInv
<1>2. cut \in Seq(Seq(Texts)) /\ Concat(cut) = asked /\ asked \in Seq(Texts)
  BY <1>1, RequestsAreTexts
<1>3. ASSUME NEW i \in DOMAIN cut
      PROVE  /\ Batch(i).answer \in Seq(Texts)
             /\ \/ Overrun \/ Batch(i).answer = cut[i]
                \/ Len(Batch(i).answer) < Len(cut[i])
  <2>1. \E t \in tasks : Mine(t) /\ t.index = i
    BY <1>3 DEF TaskInv
  <2>2. Batch(i) \in tasks /\ Mine(Batch(i)) /\ Batch(i).index = i
    BY <2>1 DEF Batch
  <2> DEFINE t == Batch(i)
  <2> HIDE DEF t
  <2>3. t \in TaskSet /\ t.texts = cut[i] /\ t.state = "done" /\ t.answer \in Answers(t)
    BY <2>2 DEF TaskInv, AllDone, t
  <2>4. t.answer \in Seq(Texts)
    BY <2>3, AnswersAreSeqs DEF TaskSet
  <2>5. ASSUME ~Overrun
        PROVE  t.answer = t.texts \/ Len(t.answer) < Len(t.texts)
    <3>1. ~(Len(t.answer) > Len(t.texts))
      BY <2>2, <2>5 DEF Overrun, t
    <3> QED
      BY <2>3, <3>1, AnswersAreShort
  <2> QED
    BY <2>3, <2>4, <2>5 DEF t
<1>4. Gathered = Concat(answers)
  BY DEF Gathered
<1> HIDE DEF cut
<1>5. DOMAIN cut = 1..Len(cut) /\ Len(cut) \in Nat
  BY <1>2
<1>6. /\ answers \in Seq(Seq(Texts)) /\ Len(answers) = Len(cut)
      /\ \A i \in 1..Len(cut) :
           Overrun \/ answers[i] = cut[i] \/ Len(answers[i]) < Len(cut[i])
  BY <1>3, <1>5
<1> HIDE DEF answers
<1>7. CASE Overrun
  <2>1. Gathered \in Seq(Texts)
    BY <1>4, <1>6, ConcatType
  <2> QED
    BY <1>2, <1>7, <2>1
<1>8. CASE ~Overrun
  <2>1. \A i \in 1..Len(cut) : answers[i] = cut[i] \/ Len(answers[i]) < Len(cut[i])
    BY <1>6, <1>8
  <2>2. Gathered = asked
    BY <1>2, <1>4, <1>6, <2>1, NothingMissing
  <2> QED
    BY <1>8, <2>2
<1> QED
  BY <1>7, <1>8

(* Each step of embed_documents is a step of the call that                 *)
(* EmbeddingContract describes, or none.  So a call that returns has       *)
(* returned the vectors of exactly its texts, in order, whatever was       *)
(* retried, lost or answered out of order, and whatever earlier calls left *)
(* running, unless one of its batches was answered with a vector too many. *)
(* (This is AlignedOrRaised without its fairness.)                         *)
(* (embed_documents, _with_retry)                                          *)
THEOREM ServiceKeepsContract ==
  EmbeddingSpec =>
    Contract!ContractInit /\ [][Contract!ContractNext]_(Contract!contractVars)
<1>1. EmbeddingInit => Contract!ContractInit
  BY DEF EmbeddingInit, Contract!ContractInit
<1>2. TaskInv /\ [EmbeddingNext]_embeddingVars
        => [Contract!ContractNext]_(Contract!contractVars)
  <2> SUFFICES ASSUME TaskInv, [EmbeddingNext]_embeddingVars
               PROVE  Contract!ContractNext \/ UNCHANGED <<asked, reply>>
    BY DEF Contract!contractVars
  <2>1. CASE BeginRun \/ EndRun \/ Settle \/ UNCHANGED embeddingVars
    BY <2>1 DEF BeginRun, EndRun, Settle, Acquire, Wake, Serve, ServeNarrow, Retry, Fail,
                embeddingVars
  <2>2. CASE \E texts \in Requests : EmbedDocuments(texts)
    BY <2>2 DEF EmbedDocuments, Contract!ContractNext, Contract!Ask
  <2>3. CASE Return
    <3>1. /\ reply' \in IF Overrun THEN [DOMAIN asked -> Texts] ELSE {asked}
          /\ asked' = Nothing /\ asked # Nothing
      BY <2>3, GatheredIsAsked DEF Return
    <3> QED
      BY <3>1 DEF Contract!ContractNext, Contract!Deliver, Texts
  <2>4. CASE Raise
    <3>1. reply' = Nothing /\ asked' = Nothing /\ asked # Nothing
      BY <2>4 DEF Raise, TaskInv
    <3> QED
      BY <3>1 DEF Contract!ContractNext, Contract!GiveUp
  <2>5. CASE NewProcess
    BY <2>5 DEF NewProcess, Contract!ContractNext, Contract!GiveUp, Contract!Forget
  <2> QED
    BY <2>1, <2>2, <2>3, <2>4, <2>5 DEF EmbeddingNext
<1> QED
  BY <1>1, <1>2, Tasks, PTL DEF EmbeddingSpec

-----------------------------------------------------------------------------
(* Permits.                                                                *)

BusyStates == {"calling", "sleeping"}

Busy == {t \in tasks : t.state \in BusyStates}

\* A permit is in the semaphore or with one of the tasks that hold one, and a
\* batch has one task.
PermitInv ==
  /\ running \in BOOLEAN /\ call \in 0..MaxCalls /\ process \in 1..MaxProcesses
  /\ \A t \in tasks :
       /\ t.call >= 1 /\ t.index >= 1 /\ t.attempt <= MaxAttempts
       /\ t.state = "sleeping" => t.attempt < MaxAttempts
       /\ t.state # "done" => t.answer = <<>>
  /\ \A t, u \in tasks : t.call = u.call /\ t.index = u.index => t = u
  /\ slots \in 0..MaxConcurrency
  /\ IsFiniteSet(Busy) /\ slots + Cardinality(Busy) = MaxConcurrency

LEMMA AnswersAreTheTexts ==
  ASSUME NEW t \in TaskSet, NEW a \in Answers(t)
  PROVE  Range(a) \subseteq Range(t.texts)
<1> DEFINE R == Range(t.texts)
<1>1. t.texts \in Seq(R)
  <2>1. t.texts \in Seq(Texts)
    BY DEF TaskSet
  <2> QED
    BY <2>1 DEF Range
<1> HIDE DEF R
<1>2. a \in Seq(R)
  BY <1>1, AnswersAreSeqs
<1>3. \A j \in DOMAIN a : a[j] \in R
  BY <1>2
<1> QED
  BY <1>3 DEF R, Range

\* A task that changes its state changes who holds a permit, by itself at most.
LEMMA BusyBecomes ==
  ASSUME PermitInv, NEW t \in tasks, NEW u,
         u.call = t.call, u.index = t.index, u.state # t.state, Become(t, u)
  PROVE  /\ u \notin tasks
         /\ u.state \in BusyStates => Busy' = (Busy \ {t}) \cup {u}
         /\ u.state \notin BusyStates => Busy' = Busy \ {t}
         /\ \A v, w \in tasks' : v.call = w.call /\ v.index = w.index => v = w
<1>1. \A v \in tasks : v.call = t.call /\ v.index = t.index => v = t
  BY DEF PermitInv
<1>2. u \notin tasks
  BY <1>1
<1>3. /\ tasks' \subseteq (tasks \ {t}) \cup {u} /\ tasks \ {t} \subseteq tasks'
      /\ u.state \in BusyStates => tasks' = (tasks \ {t}) \cup {u}
  BY DEF Become, Over, BusyStates
<1>4. u.state \in BusyStates => Busy' = (Busy \ {t}) \cup {u}
  BY <1>3 DEF Busy
<1>5. u.state \notin BusyStates => Busy' = Busy \ {t}
  BY <1>3 DEF Busy
<1>6. ASSUME NEW v \in tasks', NEW w \in tasks', v.call = w.call, v.index = w.index
      PROVE  v = w
  <2>1. v \in tasks \ {t} \/ v = u
    BY <1>3
  <2>2. w \in tasks \ {t} \/ w = u
    BY <1>3
  <2>3. CASE v \in tasks \ {t} /\ w \in tasks \ {t}
    BY <1>6, <2>3 DEF PermitInv
  <2> QED
    BY <1>1, <1>6, <2>1, <2>2, <2>3
<1> QED
  BY <1>2, <1>4, <1>5, <1>6

LEMMA PermitsMove ==
  ASSUME TaskInv, PermitInv, NEW t \in tasks, NEW u \in TaskSet,
         u.call = t.call, u.index = t.index, u.state # t.state,
         u.attempt <= MaxAttempts,
         u.state = "sleeping" => u.attempt < MaxAttempts,
         u.state # "done" => u.answer = <<>>,
         Become(t, u), UNCHANGED <<running, call, process>>,
         \/ t \in Busy /\ u.state \in BusyStates /\ slots' = slots
         \/ t \notin Busy /\ u.state \in BusyStates /\ slots > 0 /\ slots' = slots - 1
         \/ t \in Busy /\ u.state \notin BusyStates /\ slots' = slots + 1
  PROVE  PermitInv'
<1>1. /\ u \notin tasks
      /\ u.state \in BusyStates => Busy' = (Busy \ {t}) \cup {u}
      /\ u.state \notin BusyStates => Busy' = Busy \ {t}
      /\ \A v, w \in tasks' : v.call = w.call /\ v.index = w.index => v = w
  BY BusyBecomes
<1>2. running' \in BOOLEAN /\ call' \in 0..MaxCalls /\ process' \in 1..MaxProcesses
  BY DEF PermitInv
<1>3. \A v \in tasks' :
        /\ v.call >= 1 /\ v.index >= 1 /\ v.attempt <= MaxAttempts
        /\ v.state = "sleeping" => v.attempt < MaxAttempts
        /\ v.state # "done" => v.answer = <<>>
  <2>1. \A v \in tasks' : v \in tasks \/ v = u
    BY DEF Become
  <2>2. t.call >= 1 /\ t.index >= 1
    BY DEF PermitInv
  <2> QED
    BY <2>1, <2>2 DEF PermitInv
<1> DEFINE B == Busy
           c == Cardinality(B)
           r == Cardinality(B \ {t})
           m == MaxConcurrency
<1>4. IsFiniteSet(B) /\ c \in Nat /\ m \in Nat /\ slots \in 0..m /\ slots + c = m
  BY EmbeddingAssumption, FS_CardinalityType DEF PermitInv
<1>5. /\ IsFiniteSet(B \ {t}) /\ r \in Nat
      /\ t \in B => r = c - 1
      /\ t \notin B => r = c
  BY <1>4, FS_RemoveElement, FS_CardinalityType
<1>6. /\ IsFiniteSet((B \ {t}) \cup {u})
      /\ Cardinality((B \ {t}) \cup {u}) = r + 1
  <2>1. u \notin B \ {t}
    BY <1>1 DEF Busy
  <2> HIDE DEF B
  <2> QED
    BY <1>5, <2>1, FS_AddElement
<1> HIDE DEF c, r, m
<1>7. CASE t \in Busy /\ u.state \in BusyStates /\ slots' = slots
  <2>1. IsFiniteSet(Busy') /\ Cardinality(Busy') = r + 1
    BY <1>1, <1>6, <1>7
  <2>2. slots + (r + 1) = m
    BY <1>4, <1>5, <1>7
  <2>3. slots' \in 0..MaxConcurrency /\ slots' + Cardinality(Busy') = MaxConcurrency
    BY <1>4, <1>7, <2>1, <2>2 DEF m
  <2> QED
    BY <1>1, <1>2, <1>3, <2>1, <2>3 DEF PermitInv
<1>8. CASE t \notin Busy /\ u.state \in BusyStates /\ slots > 0 /\ slots' = slots - 1
  <2>1. IsFiniteSet(Busy') /\ Cardinality(Busy') = r + 1
    BY <1>1, <1>6, <1>8
  <2>2. (slots - 1) + (r + 1) = m /\ slots - 1 \in 0..m
    BY <1>4, <1>5, <1>8
  <2>3. slots' \in 0..MaxConcurrency /\ slots' + Cardinality(Busy') = MaxConcurrency
    BY <1>8, <2>1, <2>2 DEF m
  <2> QED
    BY <1>1, <1>2, <1>3, <2>1, <2>3 DEF PermitInv
<1>9. CASE t \in Busy /\ u.state \notin BusyStates /\ slots' = slots + 1
  <2>1. IsFiniteSet(Busy') /\ Cardinality(Busy') = r
    BY <1>1, <1>5, <1>9 DEF r
  <2>2. (slots + 1) + r = m /\ slots + 1 \in 0..m
    BY <1>4, <1>5, <1>9
  <2>3. slots' \in 0..MaxConcurrency /\ slots' + Cardinality(Busy') = MaxConcurrency
    BY <1>9, <2>1, <2>2 DEF m
  <2> QED
    BY <1>1, <1>2, <1>3, <2>1, <2>3 DEF PermitInv
<1> QED
  BY <1>7, <1>8, <1>9

LEMMA PermitTask ==
  ASSUME TaskInv, PermitInv, NEW t \in tasks, TaskMoves(t)
  PROVE  PermitInv'
<1> DEFINE A == Seq(Texts)
           T == [call : Nat, index : Nat, texts : A, state : TaskStates, attempt : Nat,
                 answer : A]
<1>0. t \in T /\ TaskSet = T
  BY DEF TaskInv, TaskSet
<1>1. /\ t.attempt \in Nat /\ t.attempt <= MaxAttempts /\ MaxAttempts \in Nat \ {0}
      /\ t.state = "sleeping" => t.attempt < MaxAttempts
      /\ t.state # "done" => t.answer = <<>>
  BY <1>0, EmbeddingAssumption DEF PermitInv
<1>2. /\ t \in Busy <=> t.state \in BusyStates
      /\ {"calling", "sleeping", "raised", "done"} \subseteq TaskStates
  BY DEF Busy, TaskStates
<1> DEFINE u(s, n, a) == [t EXCEPT !.state = s, !.attempt = n, !.answer = a]
<1>3. ASSUME NEW s \in TaskStates, NEW n \in Nat, NEW a \in A
      PROVE  /\ u(s, n, a) \in TaskSet
             /\ u(s, n, a).call = t.call /\ u(s, n, a).index = t.index
             /\ u(s, n, a).state = s /\ u(s, n, a).attempt = n /\ u(s, n, a).answer = a
  <2> HIDE DEF A
  <2> QED
    BY <1>0
<1>4. t.answer \in A
  BY <1>0
<1> HIDE DEF A, T, u
<1>5. CASE Acquire(t)
  <2> DEFINE v == u("calling", 1, t.answer)
  <2>1. /\ Become(t, v) /\ t.state = "waiting"
        /\ slots > 0 /\ slots' = slots - 1 /\ UNCHANGED <<running, call, process>>
    BY <1>0, <1>5 DEF Acquire, T, u
  <2>3. /\ v \in TaskSet /\ v.call = t.call /\ v.index = t.index
        /\ v.state = "calling" /\ v.attempt = 1 /\ v.answer = t.answer
    BY <1>1, <1>2, <1>3, <1>4
  <2> HIDE DEF v
  <2>4. v.attempt <= MaxAttempts
    BY <1>1, <2>1, <2>3
  <2> QED
    BY <1>1, <1>2, <2>1, <2>3, <2>4, PermitsMove DEF BusyStates
<1>6. CASE Wake(t)
  <2> DEFINE v == u("calling", t.attempt + 1, t.answer)
  <2>1. /\ Become(t, v) /\ t.state = "sleeping"
        /\ slots' = slots /\ UNCHANGED <<running, call, process>>
    BY <1>0, <1>6 DEF Wake, T, u
  <2>3. /\ v \in TaskSet /\ v.call = t.call /\ v.index = t.index
        /\ v.state = "calling" /\ v.attempt = t.attempt + 1 /\ v.answer = t.answer
    BY <1>1, <1>2, <1>3, <1>4
  <2> HIDE DEF v
  <2>4. v.attempt <= MaxAttempts
    BY <1>1, <2>1, <2>3
  <2> QED
    BY <1>1, <1>2, <2>1, <2>3, <2>4, PermitsMove DEF BusyStates
<1>7. ASSUME NEW a \in Answers(t), NEW reported \in BOOLEAN, Serve(t, a, reported)
      PROVE  PermitInv'
  <2> DEFINE v == u("done", t.attempt, a)
  <2>1. /\ Become(t, v) /\ t.state = "calling"
        /\ slots' = slots + 1 /\ UNCHANGED <<running, call, process>>
    BY <1>0, <1>7 DEF Serve, T, u
  <2>2. a \in A
    BY <1>0, AnswersAreSeqs DEF TaskSet, A
  <2>3. /\ v \in TaskSet /\ v.call = t.call /\ v.index = t.index
        /\ v.state = "done" /\ v.attempt = t.attempt /\ v.answer = a
    BY <1>1, <1>2, <1>3, <2>2
  <2> HIDE DEF v
  <2>4. v.attempt <= MaxAttempts
    BY <1>1, <2>1, <2>3
  <2> QED
    BY <1>1, <1>2, <2>1, <2>3, <2>4, PermitsMove DEF BusyStates
<1>8. CASE ServeNarrow(t) \/ Fail(t, 0, TRUE)
           \/ \E charge \in {0, Charged(t.texts)} : Fail(t, charge, FALSE)
  <2> DEFINE v == u("raised", t.attempt, t.answer)
  <2>1. /\ Become(t, v) /\ t.state = "calling"
        /\ slots' = slots + 1 /\ UNCHANGED <<running, call, process>>
    BY <1>0, <1>8 DEF ServeNarrow, Fail, T, u
  <2>3. /\ v \in TaskSet /\ v.call = t.call /\ v.index = t.index
        /\ v.state = "raised" /\ v.attempt = t.attempt /\ v.answer = t.answer
    BY <1>1, <1>2, <1>3, <1>4
  <2> HIDE DEF v
  <2>4. v.attempt <= MaxAttempts
    BY <1>1, <2>1, <2>3
  <2> QED
    BY <1>1, <1>2, <2>1, <2>3, <2>4, PermitsMove DEF BusyStates
<1>9. CASE \E charge \in {0, Charged(t.texts)} : Retry(t, charge)
  <2> DEFINE v == u("sleeping", t.attempt, t.answer)
  <2>1. /\ Become(t, v) /\ t.state = "calling"
        /\ t.attempt < MaxAttempts
        /\ slots' = slots /\ UNCHANGED <<running, call, process>>
    BY <1>0, <1>9 DEF Retry, ShouldRetry, T, u
  <2>3. /\ v \in TaskSet /\ v.call = t.call /\ v.index = t.index
        /\ v.state = "sleeping" /\ v.attempt = t.attempt /\ v.answer = t.answer
    BY <1>1, <1>2, <1>3, <1>4
  <2> HIDE DEF v
  <2>4. v.attempt <= MaxAttempts
    BY <1>1, <2>1, <2>3
  <2> QED
    BY <1>1, <1>2, <2>1, <2>3, <2>4, PermitsMove DEF BusyStates
<1> QED
  BY <1>5, <1>6, <1>7, <1>8, <1>9 DEF TaskMoves

LEMMA PermitAsk ==
  ASSUME TaskInv, PermitInv, NEW texts \in Requests, EmbedDocuments(texts)
  PROVE  PermitInv'
<1> DEFINE cut == Batches(texts)
           new == {[call |-> call + 1, index |-> i, texts |-> cut[i],
                    state |-> "waiting", attempt |-> 0, answer |-> <<>>] : i \in DOMAIN cut}
<1>1. /\ call' = call + 1 /\ call < MaxCalls /\ call \in 0..MaxCalls /\ MaxCalls \in Nat
      /\ tasks' = tasks \cup new /\ UNCHANGED <<running, process, slots>>
  BY EmbeddingAssumption DEF EmbedDocuments, PermitInv
<1>2. \A i \in DOMAIN cut : i \in Nat /\ i >= 1
  <2>1. cut \in Seq(Seq(Texts))
    BY RequestsAreTexts
  <2> QED
    BY <2>1
<1> HIDE DEF cut
<1>3. \A v \in new : /\ v.call = call + 1 /\ v.index >= 1 /\ v.attempt = 0
                     /\ v.state = "waiting" /\ v.answer = <<>>
  BY <1>2
<1>4. \A v, w \in new : v.index = w.index => v = w
  OBVIOUS
<1> HIDE DEF new
<1>5. \A v \in tasks : v.call # call + 1
  <2>1. \A v \in tasks : v.call \in Nat /\ v.call <= call
    BY DEF TaskInv, TaskSet
  <2> QED
    BY <1>1, <2>1
<1>6. \A v, w \in tasks' : v.call = w.call /\ v.index = w.index => v = w
  BY <1>1, <1>3, <1>4, <1>5 DEF PermitInv
<1>7. Busy' = Busy
  BY <1>1, <1>3 DEF Busy, BusyStates
<1>8. \A v \in tasks' :
        /\ v.call >= 1 /\ v.index >= 1 /\ v.attempt <= MaxAttempts
        /\ v.state = "sleeping" => v.attempt < MaxAttempts
        /\ v.state # "done" => v.answer = <<>>
  BY <1>1, <1>3, EmbeddingAssumption DEF PermitInv
<1>9. call' \in 0..MaxCalls
  BY <1>1
<1> QED
  BY <1>1, <1>6, <1>7, <1>8, <1>9 DEF PermitInv

LEMMA PermitStep == TaskInv /\ PermitInv /\ [EmbeddingNext]_embeddingVars => PermitInv'
<1> SUFFICES ASSUME TaskInv, PermitInv, [EmbeddingNext]_embeddingVars PROVE PermitInv'
  OBVIOUS
<1>1. CASE BeginRun \/ EndRun \/ UNCHANGED embeddingVars
  BY <1>1 DEF BeginRun, EndRun, embeddingVars, PermitInv, Busy
<1>2. CASE Return \/ Raise
  <2>1. /\ tasks' \subseteq tasks /\ UNCHANGED <<call, slots, process>>
        /\ running' \in BOOLEAN
    BY <1>2 DEF Return, Raise, Leave, PermitInv
  <2>2. Busy' = Busy
    BY <1>2 DEF Return, Raise, Leave, Busy, Over, BusyStates
  <2> QED
    BY <2>1, <2>2 DEF PermitInv
<1>3. CASE NewProcess
  <2>1. /\ tasks' = {} /\ slots' = MaxConcurrency /\ call' = call /\ running' = FALSE
        /\ process' = process + 1 /\ process < MaxProcesses
    BY <1>3 DEF NewProcess
  <2>2. Busy' = {}
    BY <2>1 DEF Busy
  <2>3. process' \in 1..MaxProcesses
    BY <2>1, EmbeddingAssumption DEF PermitInv
  <2>4. slots' \in 0..MaxConcurrency /\ slots' + 0 = MaxConcurrency
    BY <2>1, EmbeddingAssumption
  <2> QED
    BY <2>1, <2>2, <2>3, <2>4, FS_EmptySet DEF PermitInv
<1>4. CASE \E texts \in Requests : EmbedDocuments(texts)
  BY <1>4, PermitAsk
<1>5. CASE Settle
  <2>1. PICK t \in tasks : TaskMoves(t)
    BY <1>5 DEF Settle, TaskMoves
  <2> QED
    BY <2>1, PermitTask
<1> QED
  BY <1>1, <1>2, <1>3, <1>4, <1>5 DEF EmbeddingNext

(* Every variable keeps its type; above all no permit is lost or given out *)
(* twice, whatever is retried, raised or left running by a call that       *)
(* failed, and no batch is sent more often than allowed.  (_with_retry)    *)
THEOREM EmbeddingTypes == EmbeddingSpec => []EmbeddingTypeOK
<1>1. EmbeddingInit => SpendInv /\ PermitInv
  <2> SUFFICES ASSUME EmbeddingInit PROVE SpendInv /\ PermitInv
    OBVIOUS
  <2>1. SpendInv
    BY DEF EmbeddingInit, SpendInv, MeterIsAFloor
  <2>2. Busy = {} /\ tasks = {} /\ slots = MaxConcurrency
    BY DEF EmbeddingInit, Busy
  <2>3. MaxConcurrency \in 0..MaxConcurrency /\ MaxConcurrency + 0 = MaxConcurrency
    BY EmbeddingAssumption
  <2>4. running \in BOOLEAN /\ call \in 0..MaxCalls /\ process \in 1..MaxProcesses
    <3>1. running = FALSE /\ call = 0 /\ process = 1
      BY DEF EmbeddingInit
    <3>2. 0 \in 0..MaxCalls /\ 1 \in 1..MaxProcesses
      BY EmbeddingAssumption
    <3> QED
      BY <3>1, <3>2
  <2>5. PermitInv
    BY <2>2, <2>3, <2>4, FS_EmptySet DEF PermitInv
  <2> QED
    BY <2>1, <2>5
<1>2. TaskInv /\ SpendInv /\ PermitInv => EmbeddingTypeOK
  <2> SUFFICES ASSUME TaskInv, SpendInv, PermitInv PROVE EmbeddingTypeOK
    OBVIOUS
  <2>1. ASSUME NEW t \in tasks
        PROVE  /\ t.call \in 1..call /\ t.index \in Nat \ {0}
               /\ t.state \in TaskStates /\ t.attempt \in 0..MaxAttempts
               /\ Range(t.answer) \subseteq Range(t.texts)
    <3>1. t \in TaskSet /\ t.call <= call /\ call \in Nat
      BY DEF TaskInv
    <3>2. /\ t.call \in Nat /\ t.index \in Nat /\ t.attempt \in Nat /\ t.state \in TaskStates
          /\ t.call >= 1 /\ t.index >= 1 /\ t.attempt <= MaxAttempts /\ MaxAttempts \in Nat
      BY <3>1, EmbeddingAssumption DEF TaskSet, PermitInv
    <3>3. Range(t.answer) \subseteq Range(t.texts)
      <4>1. CASE t.state = "done"
        BY <3>1, <4>1, AnswersAreTheTexts DEF TaskInv
      <4>2. CASE t.state # "done"
        <5>1. t.answer = <<>>
          BY <4>2 DEF PermitInv
        <5> QED
          BY <5>1 DEF Range
      <4> QED
        BY <4>1, <4>2
    <3> QED
      BY <3>1, <3>2, <3>3
  <2>2. Busy = {t \in tasks : t.state \in {"calling", "sleeping"}}
    BY DEF Busy, BusyStates
  <2> QED
    BY <2>1, <2>2 DEF EmbeddingTypeOK, TaskInv, SpendInv, PermitInv
<1> QED
  BY <1>1, <1>2, Tasks, TaskStep, SpendStep, PermitStep, PTL DEF EmbeddingSpec

=============================================================================
