---------------------------- MODULE ChunkingProofs ----------------------------
(***************************************************************************)
(* Theorems about the chunkers, for every file, budget and overlap: what a *)
(* chunk says of its place is so, no text is lost, and what exceeds the    *)
(* budget is what cannot be cut.                                           *)
(***************************************************************************)
EXTENDS Chunking, EmbeddingProofs

-----------------------------------------------------------------------------
(* Sequences that lie in others.                                           *)

\* s is what d has from a on.
Lies(s, d, a) ==
  /\ a \in Nat \ {0} /\ a + Len(s) - 1 <= Len(d)
  /\ \A j \in 1..Len(s) : s[j] = d[a + j - 1]

LEMMA NothingLies ==
  ASSUME NEW T, NEW d \in Seq(T), NEW a \in 1..Len(d) + 1
  PROVE  <<>> \in Seq(T) /\ Lies(<<>>, d, a)
BY DEF Lies

LEMMA OneLies ==
  ASSUME NEW T, NEW d \in Seq(T), NEW a \in 1..Len(d)
  PROVE  <<d[a]>> \in Seq(T) /\ Len(<<d[a]>>) = 1 /\ Lies(<<d[a]>>, d, a)
BY DEF Lies

LEMMA LiesLonger ==
  ASSUME NEW T, NEW d \in Seq(T), NEW s \in Seq(T), NEW a, Lies(s, d, a),
         a + Len(s) <= Len(d)
  PROVE  /\ Append(s, d[a + Len(s)]) \in Seq(T)
         /\ Len(Append(s, d[a + Len(s)])) = Len(s) + 1
         /\ Lies(Append(s, d[a + Len(s)]), d, a)
<1> DEFINE x == d[a + Len(s)]
           r == Append(s, x)
<1>1. a \in Nat \ {0} /\ Len(s) \in Nat /\ Len(d) \in Nat /\ x \in T
  BY DEF Lies
<1> HIDE DEF x
<1>2. /\ r \in Seq(T) /\ Len(r) = Len(s) + 1 /\ r[Len(s) + 1] = x
      /\ \A j \in 1..Len(s) : r[j] = s[j]
  BY <1>1
<1> HIDE DEF r
<1>3. ASSUME NEW j \in 1..Len(r) PROVE r[j] = d[a + j - 1]
  <2>1. CASE j = Len(s) + 1
    <3>1. a + j - 1 = a + Len(s)
      BY <1>1, <2>1
    <3> QED
      BY <1>2, <2>1, <3>1 DEF x
  <2>2. CASE j # Len(s) + 1
    <3>1. j \in 1..Len(s)
      BY <1>1, <1>2, <2>2
    <3> QED
      BY <1>2, <3>1 DEF Lies
  <2> QED
    BY <2>1, <2>2
<1>4. a + Len(r) - 1 <= Len(d)
  BY <1>1, <1>2
<1>5. Lies(r, d, a)
  BY <1>1, <1>3, <1>4 DEF Lies
<1> QED
  BY <1>2, <1>5 DEF r, x

LEMMA LiesTogether ==
  ASSUME NEW T, NEW d \in Seq(T), NEW s \in Seq(T), NEW t \in Seq(T), NEW a,
         Lies(s, d, a), Lies(t, d, a + Len(s))
  PROVE  /\ s \o t \in Seq(T) /\ Len(s \o t) = Len(s) + Len(t)
         /\ Lies(s \o t, d, a)
<1> DEFINE r == s \o t
<1>1. a \in Nat \ {0} /\ Len(s) \in Nat /\ Len(t) \in Nat /\ Len(d) \in Nat
  BY DEF Lies
<1>2. /\ r \in Seq(T) /\ Len(r) = Len(s) + Len(t)
      /\ \A j \in 1..Len(s) + Len(t) : r[j] = IF j <= Len(s) THEN s[j] ELSE t[j - Len(s)]
  OBVIOUS
<1> HIDE DEF r
<1>3. ASSUME NEW j \in 1..Len(r) PROVE r[j] = d[a + j - 1]
  <2>1. CASE j <= Len(s)
    <3>1. j \in 1..Len(s) /\ r[j] = s[j]
      BY <1>1, <1>2, <2>1
    <3> QED
      BY <3>1 DEF Lies
  <2>2. CASE ~ (j <= Len(s))
    <3>1. /\ j - Len(s) \in 1..Len(t) /\ r[j] = t[j - Len(s)]
          /\ a + Len(s) + (j - Len(s)) - 1 = a + j - 1
      BY <1>1, <1>2, <2>2
    <3> QED
      BY <3>1 DEF Lies
  <2> QED
    BY <2>1, <2>2
<1>4. a + Len(r) - 1 <= Len(d)
  BY <1>1, <1>2 DEF Lies
<1>5. Lies(r, d, a)
  BY <1>1, <1>3, <1>4 DEF Lies
<1> QED
  BY <1>2, <1>5 DEF r

LEMMA LiesWithin ==
  ASSUME NEW T, NEW d \in Seq(T), NEW s \in Seq(T), NEW t \in Seq(T), NEW a, NEW c,
         Lies(s, d, a), Lies(t, s, c)
  PROVE  Lies(t, d, a + c - 1)
<1>1. /\ a \in Nat \ {0} /\ c \in Nat \ {0}
      /\ Len(s) \in Nat /\ Len(t) \in Nat /\ Len(d) \in Nat
      /\ a + Len(s) - 1 <= Len(d) /\ c + Len(t) - 1 <= Len(s)
  BY DEF Lies
<1>2. ASSUME NEW j \in 1..Len(t) PROVE t[j] = d[(a + c - 1) + j - 1]
  <2>1. c + j - 1 \in 1..Len(s) /\ a + (c + j - 1) - 1 = (a + c - 1) + j - 1
    BY <1>1
  <2>2. t[j] = s[c + j - 1]
    BY DEF Lies
  <2>3. s[c + j - 1] = d[a + (c + j - 1) - 1]
    BY <2>1 DEF Lies
  <2> QED
    BY <2>1, <2>2, <2>3
<1>3. a + c - 1 \in Nat \ {0} /\ (a + c - 1) + Len(t) - 1 <= Len(d)
  BY <1>1
<1> QED
  BY <1>2, <1>3 DEF Lies

LEMMA SubSeqLies ==
  ASSUME NEW T, NEW d \in Seq(T), NEW a \in 1..Len(d) + 1, NEW b \in a - 1..Len(d)
  PROVE  /\ SubSeq(d, a, b) \in Seq(T) /\ Len(SubSeq(d, a, b)) = b - a + 1
         /\ Lies(SubSeq(d, a, b), d, a)
<1>1. SubSeq(d, a, b) = [i \in 1..(b - a + 1) |-> d[i + a - 1]]
  OBVIOUS
<1>2. \A i \in 1..(b - a + 1) : i + a - 1 \in 1..Len(d) /\ a + i - 1 = i + a - 1
  OBVIOUS
<1>3. b - a + 1 \in Nat
  OBVIOUS
<1>4. SubSeq(d, a, b) \in Seq(T) /\ Len(SubSeq(d, a, b)) = b - a + 1
  BY <1>1, <1>2, <1>3
<1>5. a + (b - a + 1) - 1 <= Len(d) /\ a \in Nat \ {0}
  OBVIOUS
<1> QED
  BY <1>1, <1>2, <1>4, <1>5 DEF Lies

LEMMA LiesIsSubSeq ==
  ASSUME NEW T, NEW d \in Seq(T), NEW s \in Seq(T), NEW a, NEW b \in Int,
         Lies(s, d, a), Len(s) = b - a + 1
  PROVE  s = SubSeq(d, a, b)
<1>1. a \in Nat \ {0} /\ Len(s) \in Nat /\ Len(d) \in Nat /\ b <= Len(d) /\ a <= b + 1
  BY DEF Lies
<1>2. a \in 1..Len(d) + 1 /\ b \in a - 1..Len(d)
  BY <1>1
<1>3. /\ SubSeq(d, a, b) \in Seq(T) /\ Len(SubSeq(d, a, b)) = Len(s)
      /\ Lies(SubSeq(d, a, b), d, a)
  BY <1>2, SubSeqLies
<1> DEFINE r == SubSeq(d, a, b)
<1> HIDE DEF r
<1>4. \A j \in 1..Len(s) : r[j] = s[j]
  BY <1>3 DEF Lies, r
<1>5. r = s
  BY <1>3, <1>4 DEF r
<1> QED
  BY <1>5 DEF r

-----------------------------------------------------------------------------
(* Blocks, and how the lines of a text are read into them.                 *)

Blk == [first : Int, last : Int, text : Seq(LineSet), atomic : BOOLEAN]

SplitAcc == [blocks : Seq(Blk), current : Seq(LineSet), start : Int, fenced : BOOLEAN]

LEMMA BlockType ==
  ASSUME NEW first \in Int, NEW text \in Seq(LineSet), NEW atomic \in BOOLEAN
  PROVE  LET b == Block(first, text, atomic)
         IN /\ b \in Blk /\ b.first = first /\ b.last = first + Len(text) - 1
            /\ b.text = text /\ b.atomic = atomic
BY DEF Block, Blk

LEMMA FinishMeaning ==
  ASSUME NEW acc \in SplitAcc
  PROVE  LET r == Finish(acc)
         IN /\ r \in SplitAcc
            /\ acc.current = <<>> => r = acc
            /\ acc.current # <<>> =>
                 /\ r.blocks = Append(acc.blocks, Block(acc.start, acc.current, acc.fenced))
                 /\ r.current = <<>> /\ ~r.fenced
<1>1. CASE acc.current = <<>>
  BY <1>1 DEF Finish
<1>2. CASE acc.current # <<>>
  <2> DEFINE A == Seq(Blk)
             L == Seq(LineSet)
             b == Block(acc.start, acc.current, acc.fenced)
             e == Append(acc.blocks, b)
  <2>1. b \in Blk
    BY BlockType DEF SplitAcc
  <2>2. e \in A /\ <<>> \in L
    BY <2>1 DEF SplitAcc
  <2>3. Finish(acc) = [acc EXCEPT !.blocks = e, !.current = <<>>, !.fenced = FALSE]
    BY <1>2 DEF Finish, SplitAcc
  <2>4. acc \in [blocks : A, current : L, start : Int, fenced : BOOLEAN]
    BY DEF SplitAcc
  <2> HIDE DEF A, L, e, b
  <2>5. /\ Finish(acc) \in [blocks : A, current : L, start : Int, fenced : BOOLEAN]
        /\ Finish(acc).blocks = e /\ Finish(acc).current = <<>> /\ ~Finish(acc).fenced
    BY <2>2, <2>3, <2>4
  <2> QED
    BY <1>2, <2>5 DEF SplitAcc, A, L, e, b
<1> QED
  BY <1>1, <1>2

LEMMA CollectMeaning ==
  ASSUME NEW acc \in SplitAcc, NEW line \in LineSet, NEW i \in Int
  PROVE  LET r == Collect(acc, line, i)
         IN /\ r \in SplitAcc
            /\ r.blocks = acc.blocks /\ r.fenced = acc.fenced
            /\ r.current = Append(acc.current, line)
            /\ r.start = IF acc.current = <<>> THEN i ELSE acc.start
            /\ LET f == [r EXCEPT !.fenced = TRUE]
               IN /\ f \in SplitAcc /\ f.blocks = r.blocks /\ f.current = r.current
                  /\ f.start = r.start /\ f.fenced
<1> DEFINE A == Seq(Blk)
           L == Seq(LineSet)
           c == Append(acc.current, line)
           t == IF acc.current = <<>> THEN i ELSE acc.start
<1>1. c \in L
  BY DEF SplitAcc
<1>2. acc \in [blocks : A, current : L, start : Int, fenced : BOOLEAN]
  BY DEF SplitAcc
<1>3. Collect(acc, line, i) = [acc EXCEPT !.current = c, !.start = t]
  BY <1>2 DEF Collect
<1> HIDE DEF A, L, c
<1>4. t \in Int
  BY <1>2
<1> HIDE DEF t
<1> DEFINE r == Collect(acc, line, i)
<1>5. /\ r \in [blocks : A, current : L, start : Int, fenced : BOOLEAN]
      /\ r.blocks = acc.blocks /\ r.current = c /\ r.start = t /\ r.fenced = acc.fenced
  BY <1>1, <1>2, <1>3, <1>4
<1> HIDE DEF r
<1> DEFINE f == [r EXCEPT !.fenced = TRUE]
<1>6. /\ f \in [blocks : A, current : L, start : Int, fenced : BOOLEAN]
      /\ f.blocks = r.blocks /\ f.current = r.current /\ f.start = r.start /\ f.fenced
  BY <1>5
<1> QED
  BY <1>5, <1>6 DEF SplitAcc, A, L, c, t, r

LEMMA ReadLineType ==
  ASSUME NEW acc \in SplitAcc, NEW line \in LineSet, NEW i \in Int,
         NEW respectFences, NEW structured
  PROVE  ReadLine(acc, line, i, respectFences, structured) \in SplitAcc
<1>1. Finish(acc) \in SplitAcc /\ Collect(acc, line, i) \in SplitAcc
  BY FinishMeaning, CollectMeaning
<1>2. /\ Finish(Collect(acc, line, i)) \in SplitAcc
      /\ Collect(Finish(acc), line, i) \in SplitAcc
      /\ [Collect(Finish(acc), line, i) EXCEPT !.fenced = TRUE] \in SplitAcc
  BY <1>1, FinishMeaning, CollectMeaning
<1> QED
  BY <1>1, <1>2 DEF ReadLine

LEMMA SplitRun ==
  ASSUME NEW d \in Seq(LineSet), NEW respectFences, NEW structured
  PROVE  \E t \in [0..Len(d) -> SplitAcc] :
           /\ t[0] = NoBlocks
           /\ SplitIntoBlocks(d, respectFences, structured) = Finish(t[Len(d)]).blocks
           /\ \A k \in 1..Len(d) :
                t[k] = ReadLine(t[k - 1], d[k], k, respectFences, structured)
<1> DEFINE n    == Len(d)
           s    == Numbers(d)
           next(acc, x) == ReadLine(acc, d[x], x, respectFences, structured)
           step == [p \in SplitAcc \X (1..Len(d)) |-> next(p[1], p[2])]
<1>1. n \in Nat /\ s \in [1..n -> (1..Len(d))] /\ DOMAIN s = 1..n /\ \A k \in 1..n : s[k] = k
  BY DEF Numbers
<1>2. NoBlocks \in SplitAcc
  BY DEF NoBlocks, SplitAcc
<1>3. \A acc \in SplitAcc, x \in (1..Len(d)) : next(acc, x) \in SplitAcc
  BY ReadLineType
<1> HIDE DEF n, s, next
<1>4. \A acc \in SplitAcc, x \in (1..Len(d)) : step[<<acc, x>>] = next(acc, x)
  OBVIOUS
<1> HIDE DEF step
<1>5. /\ Keeps(step, SplitAcc, n, s)
      /\ \A b \in SplitAcc, k \in 1..n : step[<<b, s[k]>>] \in SplitAcc
  BY <1>1, <1>3, <1>4 DEF Keeps
<1>6. PICK g \in [SUBSET (1..n) -> SplitAcc] : Folding(g, SplitAcc, step, NoBlocks, n, s)
  BY <1>1, <1>2, <1>5, FoldingExists
<1>7. g = [S \in SUBSET DOMAIN s |->
             IF S = {} THEN NoBlocks ELSE next(g[S \ {Max(S)}], s[Max(S)])]
  <2>1. ASSUME NEW S \in SUBSET (1..n)
        PROVE  g[S] = IF S = {} THEN NoBlocks ELSE next(g[S \ {Max(S)}], s[Max(S)])
    <3>1. CASE S = {}
      BY <1>6, <3>1 DEF Folding
    <3>2. CASE S # {}
      <4>1. s[Max(S)] \in (1..Len(d)) /\ g[S \ {Max(S)}] \in SplitAcc
        BY <1>1, <1>6, <3>2, TopIsThere
      <4>2. g[S] = step[<<g[S \ {Max(S)}], s[Max(S)]>>]
        BY <1>6, <3>2, <4>1 DEF Folding
      <4> QED
        BY <1>4, <3>2, <4>1, <4>2
    <3> QED
      BY <3>1, <3>2
  <2> QED
    BY <1>1, <1>6, <2>1
<1>8. PICK h :
        /\ h = [S \in SUBSET DOMAIN s |->
                  IF S = {} THEN NoBlocks ELSE next(h[S \ {Max(S)}], s[Max(S)])]
        /\ SplitIntoBlocks(d, respectFences, structured) = Finish(h[DOMAIN s]).blocks
  BY <1>7 DEF SplitIntoBlocks, FoldLeft, MapThenFoldSet, s, next
<1>9. Folding(h, SplitAcc, step, NoBlocks, n, s)
  <2>1. h[{}] = NoBlocks
    BY <1>8
  <2>2. ASSUME NEW S \in SUBSET (1..n), S # {}, h[S \ {Max(S)}] \in SplitAcc
        PROVE  h[S] = step[<<h[S \ {Max(S)}], s[Max(S)]>>]
    <3>1. s[Max(S)] \in (1..Len(d))
      BY <1>1, <2>2, TopIsThere
    <3>2. h[S] = next(h[S \ {Max(S)}], s[Max(S)])
      BY <1>1, <1>8, <2>2
    <3> QED
      BY <1>4, <2>2, <3>1, <3>2
  <2> QED
    BY <2>1, <2>2 DEF Folding
<1>10. PICK t \in [0..n -> SplitAcc] : Run(t, step, NoBlocks, n, s) /\ t[n] = h[1..n]
  BY ONLY <1>1, <1>2, <1>5, <1>9, FoldingByPosition, SMT
<1>11. \A k \in 1..n : t[k] = next(t[k - 1], s[k])
  <2> TAKE k \in 1..n
  <2>1. t[k - 1] \in SplitAcc /\ s[k] \in (1..Len(d))
    BY <1>1
  <2> QED
    BY <1>4, <1>10, <2>1 DEF Run
<1>12. t[0] = NoBlocks /\ SplitIntoBlocks(d, respectFences, structured) = Finish(t[n]).blocks
  BY <1>1, <1>8, <1>10 DEF Run
<1> QED
  BY <1>1, <1>11, <1>12 DEF n, s, next

\* The block b is what d has at the lines b names.
Placed(b, d) ==
  /\ b \in Blk /\ b.text # <<>>
  /\ Lies(b.text, d, b.first)
  /\ b.last = b.first + Len(b.text) - 1

LEMMA PlacedMeaning ==
  ASSUME NEW d \in Seq(LineSet), NEW b, Placed(b, d)
  PROVE  /\ b.first \in 1..Len(d) /\ b.last \in b.first..Len(d)
         /\ b.first \in Int /\ b.last \in Int /\ Len(d) \in Int
         /\ 1 <= b.first /\ b.first <= b.last /\ b.last <= Len(d)
         /\ b.text \in Seq(LineSet) /\ Len(b.text) \in Nat \ {0}
         /\ Len(b.text) = b.last - b.first + 1
         /\ \A j \in 1..Len(b.text) : b.text[j] = d[b.first + j - 1]
<1>1. b.text \in Seq(LineSet) /\ b.text # <<>>
  BY DEF Placed, Blk
<1>2. Len(b.text) \in Nat \ {0}
  BY <1>1
<1> QED
  BY <1>1, <1>2 DEF Placed, Lies

InSome(m, bs) == \E k \in DOMAIN bs : bs[k].first <= m /\ m <= bs[k].last

\* What is known of the blocks once the first i lines of d have been read;
\* rf says whether fences are kept whole.
ReadBlock(b, d, i, rf) ==
  Placed(b, d) /\ d[b.first] # Empty /\ b.last <= i /\ (b.atomic => rf)

SplitInv(acc, d, i, rf) ==
  /\ acc \in SplitAcc
  /\ \A k \in DOMAIN acc.blocks : ReadBlock(acc.blocks[k], d, i, rf)
  /\ \A k, l \in DOMAIN acc.blocks : k < l => acc.blocks[k].last < acc.blocks[l].first
  /\ acc.current # <<>> =>
       /\ Lies(acc.current, d, acc.start) /\ acc.start + Len(acc.current) = i + 1
       /\ d[acc.start] # Empty
       /\ \A k \in DOMAIN acc.blocks : acc.blocks[k].last < acc.start
  /\ acc.fenced => rf /\ acc.current # <<>>
  /\ \A m \in 1..i : \/ d[m] = Empty \/ InSome(m, acc.blocks)
                     \/ acc.current # <<>> /\ acc.start <= m

LEMMA FinishKeeps ==
  ASSUME NEW d \in Seq(LineSet), NEW i \in 0..Len(d), NEW rf \in BOOLEAN,
         NEW acc, SplitInv(acc, d, i, rf)
  PROVE  SplitInv(Finish(acc), d, i, rf) /\ Finish(acc).current = <<>>
<1> DEFINE r == Finish(acc)
<1>0. acc \in SplitAcc
  BY DEF SplitInv
<1>1. CASE acc.current = <<>>
  <2>1. r = acc
    BY <1>0, <1>1, FinishMeaning
  <2> QED
    BY <1>1, <2>1
<1>2. CASE acc.current # <<>>
  <2> DEFINE b == Block(acc.start, acc.current, acc.fenced)
             n == Len(acc.blocks)
  <2>1. /\ r \in SplitAcc /\ r.blocks = Append(acc.blocks, b)
        /\ r.current = <<>> /\ ~r.fenced
    BY <1>0, <1>2, FinishMeaning
  <2>2. /\ acc.start \in Int /\ acc.current \in Seq(LineSet) /\ acc.fenced \in BOOLEAN
        /\ acc.blocks \in Seq(Blk)
    BY <1>0 DEF SplitAcc
  <2>3. /\ b \in Blk /\ b.first = acc.start /\ b.last = acc.start + Len(acc.current) - 1
        /\ b.text = acc.current /\ b.atomic = acc.fenced
    BY <2>2, BlockType
  <2>4. /\ Lies(acc.current, d, acc.start) /\ acc.start + Len(acc.current) = i + 1
        /\ d[acc.start] # Empty
        /\ \A k \in DOMAIN acc.blocks : acc.blocks[k].last < acc.start
    BY <1>2 DEF SplitInv
  <2> HIDE DEF b, r
  <2>5. b.last = i /\ b.last <= i
    <3>1. Len(acc.current) \in Nat
      BY <2>2
    <3> QED
      BY <2>2, <2>3, <2>4, <3>1
  <2>6. Placed(b, d)
    BY <1>2, <2>3, <2>4 DEF Placed
  <2>7. ReadBlock(b, d, i, rf)
    BY <2>3, <2>4, <2>5, <2>6 DEF ReadBlock, SplitInv
  <2>8. /\ DOMAIN r.blocks = 1..n + 1 /\ r.blocks[n + 1] = b /\ n \in Nat
        /\ DOMAIN acc.blocks = 1..n
        /\ \A k \in 1..n : r.blocks[k] = acc.blocks[k]
    BY <2>1, <2>2, <2>3
  <2> HIDE DEF n
  <2>9. \A k \in DOMAIN r.blocks : k = n + 1 \/ k \in DOMAIN acc.blocks
    BY <2>8
  <2>10. \A k \in DOMAIN r.blocks : ReadBlock(r.blocks[k], d, i, rf)
    BY <2>7, <2>8, <2>9 DEF SplitInv
  <2>11. ASSUME NEW k \in DOMAIN r.blocks, NEW l \in DOMAIN r.blocks, k < l
         PROVE  r.blocks[k].last < r.blocks[l].first
    <3>1. k \in DOMAIN acc.blocks
      BY <2>8, <2>11
    <3>2. CASE l = n + 1
      BY <2>3, <2>4, <2>8, <3>1, <3>2
    <3>3. CASE l \in DOMAIN acc.blocks
      BY <2>8, <2>11, <3>1, <3>3 DEF SplitInv
    <3> QED
      BY <2>9, <3>2, <3>3
  <2>12. ASSUME NEW m \in 1..i PROVE d[m] = Empty \/ InSome(m, r.blocks)
    <3>1. CASE InSome(m, acc.blocks)
      BY <2>8, <3>1 DEF InSome
    <3>2. CASE acc.start <= m
      <4>1. b.first <= m /\ m <= b.last
        BY <2>3, <2>5, <3>2
      <4>2. n + 1 \in DOMAIN r.blocks
        BY <2>8
      <4> QED
        BY <2>8, <4>1, <4>2 DEF InSome
    <3> QED
      BY <3>1, <3>2 DEF SplitInv
  <2>13. SplitInv(r, d, i, rf)
    BY <2>1, <2>10, <2>11, <2>12 DEF SplitInv
  <2> QED
    BY <2>1, <2>13 DEF r
<1> QED
  BY <1>1, <1>2

LEMMA CollectKeeps ==
  ASSUME NEW d \in Seq(LineSet), NEW i \in 1..Len(d), NEW rf \in BOOLEAN,
         NEW acc, SplitInv(acc, d, i - 1, rf), acc.current = <<>> => d[i] # Empty
  PROVE  /\ SplitInv(Collect(acc, d[i], i), d, i, rf)
         /\ rf => SplitInv([Collect(acc, d[i], i) EXCEPT !.fenced = TRUE], d, i, rf)
<1> DEFINE r == Collect(acc, d[i], i)
           f == [r EXCEPT !.fenced = TRUE]
<1>0. acc \in SplitAcc /\ d[i] \in LineSet /\ i \in Int /\ i - 1 \in Int
  BY DEF SplitInv
<1>1. /\ r \in SplitAcc
      /\ r.blocks = acc.blocks /\ r.fenced = acc.fenced
      /\ r.current = Append(acc.current, d[i])
      /\ r.start = IF acc.current = <<>> THEN i ELSE acc.start
      /\ f \in SplitAcc /\ f.blocks = r.blocks /\ f.current = r.current
      /\ f.start = r.start /\ f.fenced
  BY <1>0, CollectMeaning
<1>2. acc.current \in Seq(LineSet) /\ acc.blocks \in Seq(Blk) /\ acc.start \in Int
  BY <1>0 DEF SplitAcc
<1> HIDE DEF f, r
<1>3. r.current # <<>> /\ r.current \in Seq(LineSet)
  <2>1. /\ Append(acc.current, d[i]) \in Seq(LineSet)
        /\ Len(Append(acc.current, d[i])) = Len(acc.current) + 1 /\ Len(acc.current) \in Nat
    BY <1>0, <1>2
  <2>2. Append(acc.current, d[i]) # <<>>
    BY <2>1
  <2> QED
    BY <1>1, <2>1, <2>2
<1>4. \A k \in DOMAIN acc.blocks : acc.blocks[k].last \in Int /\ acc.blocks[k].last <= i - 1
  <2> TAKE k \in DOMAIN acc.blocks
  <2>1. ReadBlock(acc.blocks[k], d, i - 1, rf) /\ acc.blocks[k] \in Blk
    BY <1>2 DEF SplitInv
  <2> QED
    BY <2>1 DEF ReadBlock, Blk
<1>5. /\ Lies(r.current, d, r.start) /\ r.start + Len(r.current) = i + 1
      /\ d[r.start] # Empty
      /\ \A k \in DOMAIN r.blocks : r.blocks[k].last < r.start
  <2>1. CASE acc.current = <<>>
    <3>1. r.current = <<d[i]>> /\ r.start = i
      BY <1>1, <2>1
    <3>2. Lies(<<d[i]>>, d, i) /\ Len(<<d[i]>>) = 1
      BY OneLies
    <3> QED
      BY <1>0, <1>1, <1>4, <2>1, <3>1, <3>2
  <2>2. CASE acc.current # <<>>
    <3>1. /\ Lies(acc.current, d, acc.start)
          /\ acc.start + Len(acc.current) = (i - 1) + 1
          /\ d[acc.start] # Empty
          /\ \A k \in DOMAIN acc.blocks : acc.blocks[k].last < acc.start
      BY <2>2 DEF SplitInv
    <3>2. Len(acc.current) \in Nat /\ acc.start + Len(acc.current) = i
      BY <1>2, <3>1
    <3>3. acc.start + Len(acc.current) <= Len(d)
      BY <3>2
    <3>4. /\ Lies(Append(acc.current, d[acc.start + Len(acc.current)]), d, acc.start)
          /\ Len(Append(acc.current, d[acc.start + Len(acc.current)])) = Len(acc.current) + 1
      BY <1>2, <3>1, <3>3, LiesLonger
    <3>5. r.start = acc.start
      BY <1>1, <2>2
    <3> QED
      BY <1>1, <1>2, <3>1, <3>2, <3>4, <3>5
  <2> QED
    BY <2>1, <2>2
<1>6. \A k \in DOMAIN r.blocks : ReadBlock(r.blocks[k], d, i, rf)
  <2> TAKE k \in DOMAIN r.blocks
  <2>1. ReadBlock(r.blocks[k], d, i - 1, rf)
    BY <1>1 DEF SplitInv
  <2>2. r.blocks[k].last <= i
    BY <1>0, <1>1, <1>4
  <2> QED
    BY <2>1, <2>2 DEF ReadBlock
<1>7. \A k, l \in DOMAIN r.blocks : k < l => r.blocks[k].last < r.blocks[l].first
  BY <1>1 DEF SplitInv
<1>8. ASSUME NEW m \in 1..i
      PROVE  d[m] = Empty \/ InSome(m, r.blocks) \/ r.start <= m
  <2>1. CASE m = i
    <3>1. r.start <= i
      <4>1. Len(r.current) \in Nat \ {0} /\ r.start \in Int
        BY <1>1, <1>3 DEF SplitAcc
      <4> QED
        BY <1>5, <4>1
    <3> QED
      BY <2>1, <3>1
  <2>2. CASE m # i
    <3>1. m \in 1..i - 1
      BY <2>2
    <3>2. \/ d[m] = Empty \/ InSome(m, acc.blocks)
          \/ acc.current # <<>> /\ acc.start <= m
      BY <3>1 DEF SplitInv
    <3> QED
      BY <1>1, <3>2
  <2> QED
    BY <2>1, <2>2
<1>9. SplitInv(r, d, i, rf)
  <2>1. r.fenced => rf
    BY <1>1 DEF SplitInv
  <2> QED
    BY <1>1, <1>3, <1>5, <1>6, <1>7, <1>8, <2>1 DEF SplitInv
<1>10. rf => SplitInv(f, d, i, rf)
  BY <1>1, <1>3, <1>5, <1>6, <1>7, <1>8 DEF SplitInv
<1> QED
  BY <1>9, <1>10 DEF r, f

LEMMA SkipKeeps ==
  ASSUME NEW d \in Seq(LineSet), NEW i \in 1..Len(d), NEW rf \in BOOLEAN,
         NEW acc, SplitInv(acc, d, i - 1, rf), acc.current = <<>>, d[i] = Empty
  PROVE  SplitInv(acc, d, i, rf)
<1>1. acc.blocks \in Seq(Blk) /\ acc \in SplitAcc
  BY DEF SplitInv, SplitAcc
<1>2. \A k \in DOMAIN acc.blocks : ReadBlock(acc.blocks[k], d, i, rf)
  <2> TAKE k \in DOMAIN acc.blocks
  <2>1. ReadBlock(acc.blocks[k], d, i - 1, rf) /\ acc.blocks[k] \in Blk
    BY <1>1 DEF SplitInv
  <2> QED
    BY <2>1 DEF ReadBlock, Blk
<1>3. \A m \in 1..i : m = i \/ m \in 1..i - 1
  OBVIOUS
<1>4. \A m \in 1..i : d[m] = Empty \/ InSome(m, acc.blocks)
  BY <1>3 DEF SplitInv
<1> QED
  BY <1>1, <1>2, <1>4 DEF SplitInv

\* One more line.
LEMMA ReadLineKeeps ==
  ASSUME NEW d \in Seq(LineSet), NEW i \in 1..Len(d), NEW rf \in BOOLEAN, NEW structured,
         NEW acc, SplitInv(acc, d, i - 1, rf)
  PROVE  SplitInv(ReadLine(acc, d[i], i, rf, structured), d, i, rf)
<1> DEFINE r == ReadLine(acc, d[i], i, rf, structured)
<1>1. i - 1 \in 0..Len(d) /\ i \in 0..Len(d)
  OBVIOUS
<1>2. SplitInv(Finish(acc), d, i - 1, rf) /\ Finish(acc).current = <<>>
  BY ONLY <1>1, FinishKeeps, SplitInv(acc, d, i - 1, rf), d \in Seq(LineSet), rf \in BOOLEAN
<1>3. acc.fenced \in BOOLEAN
  BY DEF SplitInv, SplitAcc
<1>4. CASE acc.fenced
  <2>1. acc.current # <<>>
    BY <1>4 DEF SplitInv
  <2>2. SplitInv(Collect(acc, d[i], i), d, i, rf)
    BY <2>1, CollectKeeps
  <2>3. SplitInv(Finish(Collect(acc, d[i], i)), d, i, rf)
    BY <1>1, <2>2, FinishKeeps
  <2>4. r = IF d[i] \in Plain THEN Finish(Collect(acc, d[i], i)) ELSE Collect(acc, d[i], i)
    BY <1>4 DEF ReadLine
  <2> QED
    BY <2>2, <2>3, <2>4
<1>5. CASE ~acc.fenced /\ rf /\ d[i] \in Fences
  <2>1. d[i] # Empty
    BY <1>5, ChunkingAssumption
  <2>2. SplitInv([Collect(Finish(acc), d[i], i) EXCEPT !.fenced = TRUE], d, i, rf)
    BY <1>2, <1>5, <2>1, CollectKeeps
  <2>3. r = [Collect(Finish(acc), d[i], i) EXCEPT !.fenced = TRUE]
    BY <1>5, <2>1 DEF ReadLine
  <2> QED
    BY <2>2, <2>3
<1>6. CASE ~acc.fenced /\ ~ (rf /\ d[i] \in Fences) /\ d[i] = Empty
  <2>1. SplitInv(Finish(acc), d, i, rf)
    BY <1>2, <1>6, SkipKeeps
  <2>2. r = Finish(acc)
    BY <1>6 DEF ReadLine
  <2> QED
    BY <2>1, <2>2
<1>7. CASE ~acc.fenced /\ ~ (rf /\ d[i] \in Fences) /\ d[i] # Empty
  <2>1. /\ SplitInv(Collect(Finish(acc), d[i], i), d, i, rf)
        /\ SplitInv(Collect(acc, d[i], i), d, i, rf)
    BY <1>2, <1>7, CollectKeeps
  <2>2. r = Collect(IF structured /\ d[i] \notin Indented THEN Finish(acc) ELSE acc,
                    d[i], i)
    BY <1>7 DEF ReadLine
  <2> QED
    BY <2>1, <2>2
<1> QED
  BY <1>3, <1>4, <1>5, <1>6, <1>7

\* Blocks of the lines lo to hi of d: each at its lines, in order, and every
\* line with text in one of them.
Parts(bs, d, lo, hi) ==
  /\ bs \in Seq(Blk)
  /\ \A k \in DOMAIN bs : /\ Placed(bs[k], d) /\ d[bs[k].first] # Empty
                          /\ lo <= bs[k].first /\ bs[k].last <= hi
  /\ \A k, l \in DOMAIN bs : k < l => bs[k].last < bs[l].first
  /\ \A m \in lo..hi : d[m] = Empty \/ InSome(m, bs)

LEMMA SplitParts ==
  ASSUME NEW d \in Seq(LineSet), NEW rf \in BOOLEAN, NEW structured
  PROVE  LET bs == SplitIntoBlocks(d, rf, structured)
         IN /\ Parts(bs, d, 1, Len(d))
            /\ \A k \in DOMAIN bs : bs[k].atomic => rf
<1> DEFINE n  == Len(d)
           bs == SplitIntoBlocks(d, rf, structured)
<1>1. n \in Nat
  OBVIOUS
<1>2. PICK t \in [0..n -> SplitAcc] :
        /\ t[0] = NoBlocks
        /\ bs = Finish(t[n]).blocks
        /\ \A k \in 1..n : t[k] = ReadLine(t[k - 1], d[k], k, rf, structured)
  BY SplitRun
<1> HIDE DEF bs
<1> DEFINE Good == {k \in 0..n : SplitInv(t[k], d, k, rf)}
<1>3. 0 \in Good
  <2>1. SplitInv(NoBlocks, d, 0, rf)
    BY DEF SplitInv, NoBlocks, SplitAcc
  <2> QED
    BY <1>1, <1>2, <2>1
<1>4. ASSUME NEW k \in 0..n, k < n, k \in Good PROVE k + 1 \in Good
  <2>1. k + 1 \in 1..n /\ (k + 1) - 1 = k /\ k + 1 \in 0..n /\ SplitInv(t[k], d, k, rf)
    BY <1>1, <1>4
  <2>2. t[k + 1] = ReadLine(t[k], d[k + 1], k + 1, rf, structured)
    BY <1>2, <2>1
  <2>3. SplitInv(t[k], d, (k + 1) - 1, rf)
    BY <2>1
  <2>4. SplitInv(ReadLine(t[k], d[k + 1], k + 1, rf, structured), d, k + 1, rf)
    BY <2>1, <2>3, ReadLineKeeps
  <2> QED
    BY <2>1, <2>2, <2>4
<1>5. SplitInv(t[n], d, n, rf)
  <2>1. 0..n \subseteq Good
    <3> HIDE DEF Good
    <3> QED
      BY <1>1, <1>3, <1>4, CountUp
  <2> QED
    BY <1>1, <2>1
<1> DEFINE r == Finish(t[n])
<1>6. SplitInv(r, d, n, rf) /\ r.current = <<>> /\ r.blocks = bs
  BY <1>1, <1>2, <1>5, FinishKeeps
<1> HIDE DEF r
<1>7. bs \in Seq(Blk) /\ \A k \in DOMAIN bs : ReadBlock(bs[k], d, n, rf)
  BY <1>6 DEF SplitInv, SplitAcc
<1>8. \A k \in DOMAIN bs : 1 <= bs[k].first
  BY <1>7, PlacedMeaning DEF ReadBlock
<1>9. /\ \A k, l \in DOMAIN bs : k < l => bs[k].last < bs[l].first
      /\ \A m \in 1..n : d[m] = Empty \/ InSome(m, bs)
  BY <1>6 DEF SplitInv
<1> QED
  BY <1>7, <1>8, <1>9 DEF Parts, ReadBlock, bs

-----------------------------------------------------------------------------
(* Groups of blocks, merged.                                               *)

LEMMA GapLies ==
  ASSUME NEW n \in Nat
  PROVE  /\ Gap(n) \in Seq(LineSet) /\ Len(Gap(n)) = n
         /\ \A i \in 1..n : Gap(n)[i] = Empty
BY ChunkingAssumption DEF Gap

LEMMA JoinMeaning ==
  ASSUME NEW a \in Blk, NEW b \in Blk
  PROVE  LET r == Join(a, b)
         IN /\ r \in Blk /\ r.first = a.first /\ r.last = b.last
            /\ r.atomic = (a.atomic /\ b.atomic)
            /\ r.text = a.text \o (IF b.first > a.last THEN Gap(b.first - a.last - 1)
                                   ELSE Gap(1)) \o b.text
<1> DEFINE L == Seq(LineSet)
           g == IF b.first > a.last THEN Gap(b.first - a.last - 1) ELSE Gap(1)
           t == a.text \o g \o b.text
           c == a.atomic /\ b.atomic
<1>1. /\ a.text \in L /\ b.text \in L /\ a.first \in Int /\ a.last \in Int
      /\ b.first \in Int /\ b.last \in Int /\ a.atomic \in BOOLEAN /\ b.atomic \in BOOLEAN
  BY DEF Blk
<1>2. g \in L
  <2>1. CASE b.first > a.last
    <3>1. b.first - a.last - 1 \in Nat
      BY <1>1, <2>1
    <3> QED
      BY <2>1, <3>1, GapLies
  <2>2. CASE ~ (b.first > a.last)
    <3>1. 1 \in Nat
      OBVIOUS
    <3> QED
      BY <2>2, <3>1, GapLies
  <2> QED
    BY <2>1, <2>2
<1> HIDE DEF g
<1>3. t \in L
  BY <1>1, <1>2
<1>4. c \in BOOLEAN
  OBVIOUS
<1>5. a \in [first : Int, last : Int, text : L, atomic : BOOLEAN]
  BY DEF Blk
<1>6. Join(a, b) = [a EXCEPT !.text = t, !.last = b.last, !.atomic = c]
  BY <1>5 DEF Join, g
<1> HIDE DEF L, t, c
<1>7. LET r == Join(a, b)
      IN /\ r \in [first : Int, last : Int, text : L, atomic : BOOLEAN]
         /\ r.first = a.first /\ r.last = b.last /\ r.atomic = c /\ r.text = t
  BY <1>1, <1>3, <1>4, <1>5, <1>6
<1> QED
  BY <1>7 DEF Blk, L, t, c, g

\* Two blocks with nothing but empty lines between them.
LEMMA JoinPlaced ==
  ASSUME NEW d \in Seq(LineSet), NEW a, NEW b, Placed(a, d), Placed(b, d),
         a.last < b.first, \A m \in a.last + 1..b.first - 1 : d[m] = Empty
  PROVE  Placed(Join(a, b), d)
<1> DEFINE n == b.first - a.last - 1
           g == Gap(n)
           r == Join(a, b)
<1>0. a.text \in Seq(LineSet) /\ b.text \in Seq(LineSet)
  BY PlacedMeaning
<1>1. /\ Len(a.text) = a.last - a.first + 1 /\ Len(b.text) = b.last - b.first + 1
      /\ a.first \in Int /\ a.last \in Int /\ b.first \in Int /\ b.last \in Int
      /\ 1 <= a.first /\ a.first <= a.last /\ b.first <= b.last /\ b.last <= Len(d)
      /\ Len(d) \in Int
  BY PlacedMeaning
<1>2. a \in Blk /\ b \in Blk /\ Lies(a.text, d, a.first) /\ Lies(b.text, d, b.first)
  BY DEF Placed
<1>3. n \in Nat /\ b.first > a.last
  BY <1>1
<1> HIDE DEF n
<1>4. g \in Seq(LineSet) /\ Len(g) = n /\ \A i \in 1..n : g[i] = Empty
  BY <1>3, GapLies
<1> HIDE DEF g
<1>5. Lies(g, d, a.first + Len(a.text))
  <2>1. a.first + Len(a.text) = a.last + 1 /\ a.last + 1 + n = b.first
    BY ONLY <1>1 DEF n
  <2>2. a.last + 1 \in Nat \ {0} /\ a.last + 1 + n - 1 <= Len(d)
    <3>1. a.last + 1 \in Nat \ {0}
      BY <1>1
    <3> QED
      BY <1>1, <1>3, <2>1, <3>1
  <2>3. ASSUME NEW j \in 1..n PROVE g[j] = d[a.last + 1 + j - 1]
    <3>1. a.last + 1 + j - 1 \in a.last + 1..b.first - 1
      BY <1>1, <1>3, <2>1
    <3>2. d[a.last + 1 + j - 1] = Empty
      BY <3>1
    <3> QED
      BY <1>4, <3>2
  <2>4. a.last + 1 + Len(g) - 1 <= Len(d) /\ \A j \in 1..Len(g) : g[j] = d[a.last + 1 + j - 1]
    BY <1>4, <2>2, <2>3
  <2> QED
    BY <2>1, <2>2, <2>4 DEF Lies
<1>6. /\ a.text \o g \in Seq(LineSet) /\ Len(a.text \o g) = Len(a.text) + n
      /\ Lies(a.text \o g, d, a.first)
  <2> DEFINE s == a.text
             f == a.first
  <2>1. s \in Seq(LineSet) /\ Lies(s, d, f) /\ Lies(g, d, f + Len(s))
    BY <1>0, <1>2, <1>5
  <2> HIDE DEF s, f
  <2>2. s \o g \in Seq(LineSet) /\ Len(s \o g) = Len(s) + Len(g) /\ Lies(s \o g, d, f)
    BY <1>4, <2>1, LiesTogether
  <2> QED
    BY <1>4, <2>2 DEF s, f
<1> DEFINE h == a.text \o g
<1> HIDE DEF h
<1>7. a.first + Len(h) = b.first
  <2>1. Len(h) = Len(a.text) + n
    BY <1>6 DEF h
  <2> QED
    BY ONLY <1>1, <2>1 DEF n
<1>8. /\ h \o b.text \in Seq(LineSet) /\ Len(h \o b.text) = Len(h) + Len(b.text)
      /\ Lies(h \o b.text, d, a.first)
  BY <1>0, <1>2, <1>6, <1>7, LiesTogether DEF h
<1>9. /\ r \in Blk /\ r.first = a.first /\ r.last = b.last /\ r.text = h \o b.text
  BY <1>2, <1>3, JoinMeaning DEF h, g, n
<1> HIDE DEF r
<1>10. r.last = r.first + Len(r.text) - 1 /\ Len(r.text) > 0
  <2>1. Len(r.text) = Len(h) + Len(b.text) /\ Len(h) = Len(a.text) + n
    BY <1>6, <1>8, <1>9 DEF h
  <2>2. r.first = a.first /\ r.last = b.last
    BY <1>9
  <2>3. Len(r.text) \in Int /\ Len(h) \in Int
    BY <1>1, <1>3, <2>1
  <2>4. \A af, al, bf, bl, z, w \in Int :
          /\ af <= al /\ al < bf /\ bf <= bl
          /\ af + z = bf /\ w = z + (bl - bf + 1)
          => bl = af + w - 1 /\ w > 0
    OBVIOUS
  <2>5. Len(r.text) = Len(h) + (b.last - b.first + 1)
    BY <1>1, <2>1
  <2> QED
    BY <1>1, <1>3, <1>7, <2>2, <2>3, <2>4, <2>5
<1>11. Placed(r, d)
  BY <1>8, <1>9, <1>10 DEF Placed
<1> QED
  BY <1>11 DEF r

\* Neighbours among the blocks.
LEMMA PartsAreNeighbours ==
  ASSUME NEW d \in Seq(LineSet), NEW lo \in Nat \ {0}, NEW hi \in 0..Len(d),
         NEW bs, Parts(bs, d, lo, hi), NEW k \in 1..Len(bs), k + 1 \in 1..Len(bs)
  PROVE  /\ bs[k].last < bs[k + 1].first
         /\ \A m \in bs[k].last + 1..bs[k + 1].first - 1 : d[m] = Empty
<1>1. bs \in Seq(Blk) /\ DOMAIN bs = 1..Len(bs) /\ Len(bs) \in Nat
  BY DEF Parts
<1>2. k \in DOMAIN bs /\ k + 1 \in DOMAIN bs /\ k < k + 1
  BY <1>1
<1>3. \A l \in DOMAIN bs : /\ bs[l].first \in Int /\ bs[l].last \in Int
                           /\ bs[l].first <= bs[l].last
                           /\ lo <= bs[l].first /\ bs[l].last <= hi
  <2> TAKE l \in DOMAIN bs
  <2>1. Placed(bs[l], d) /\ lo <= bs[l].first /\ bs[l].last <= hi
    BY DEF Parts
  <2>2. bs[l].first \in 1..Len(d) /\ bs[l].last \in bs[l].first..Len(d)
    BY <2>1, PlacedMeaning
  <2> QED
    BY <2>1, <2>2
<1>4. \A i, l \in DOMAIN bs : i < l => bs[i].last < bs[l].first
  BY DEF Parts
<1>5. ASSUME NEW m \in bs[k].last + 1..bs[k + 1].first - 1, d[m] # Empty
      PROVE  FALSE
  <2>1. m \in lo..hi
    BY <1>2, <1>3
  <2>2. PICK l \in DOMAIN bs : bs[l].first <= m /\ m <= bs[l].last
    BY <1>5, <2>1 DEF Parts, InSome
  <2>3. CASE l <= k
    <3>1. bs[l].last <= bs[k].last
      <4>1. CASE l = k
        BY <1>3, <4>1
      <4>2. CASE l < k
        <5>1. bs[l].last < bs[k].first
          BY <1>2, <1>4, <4>2
        <5> QED
          BY <1>2, <1>3, <5>1
      <4> QED
        BY <1>1, <2>3, <4>1, <4>2
    <3> QED
      BY <1>2, <1>3, <2>2, <3>1
  <2>4. CASE ~ (l <= k)
    <3>1. bs[k + 1].first <= bs[l].first
      <4>1. CASE l = k + 1
        BY <1>3, <4>1
      <4>2. CASE l # k + 1
        <5>1. k + 1 < l
          BY <1>1, <2>4, <4>2
        <5>2. bs[k + 1].last < bs[l].first
          BY <1>2, <1>4, <5>1
        <5> QED
          BY <1>2, <1>3, <5>2
      <4> QED
        BY <4>1, <4>2
    <3> QED
      BY <1>2, <1>3, <2>2, <3>1
  <2> QED
    BY <2>3, <2>4
<1> QED
  BY <1>2, <1>4, <1>5

Groups == Seq(Blk) \ {<<>>}

LEMMA MergeRun ==
  ASSUME NEW group \in Groups
  PROVE  \E t \in [0..Len(group) - 1 -> Blk] :
           /\ t[0] = Head(group)
           /\ Merge(group) = t[Len(group) - 1]
           /\ \A k \in 1..Len(group) - 1 : t[k] = Join(t[k - 1], group[k + 1])
<1> DEFINE n    == Len(group) - 1
           s    == Tail(group)
           next(acc, x) == Join(acc, x)
           step == [p \in Blk \X Blk |-> next(p[1], p[2])]
<1>1. /\ n \in Nat /\ s \in [1..n -> Blk] /\ DOMAIN s = 1..n
      /\ \A k \in 1..n : s[k] = group[k + 1]
  <2>1. group \in Seq(Blk) /\ group # <<>>
    BY DEF Groups
  <2>2. /\ Tail(group) \in Seq(Blk) /\ Len(Tail(group)) = Len(group) - 1
        /\ \A k \in 1..Len(Tail(group)) : Tail(group)[k] = group[k + 1]
    BY <2>1, HeadTailProperties
  <2>3. Len(group) \in Nat \ {0}
    BY <2>1
  <2> DEFINE r == Tail(group)
             m == Len(group) - 1
  <2>4. r \in Seq(Blk) /\ Len(r) = m /\ \A k \in 1..m : r[k] = group[k + 1]
    BY <2>2
  <2>5. m \in Nat
    BY <2>3
  <2> HIDE DEF r, m
  <2>6. r \in [1..m -> Blk] /\ DOMAIN r = 1..m
    BY <2>4, <2>5
  <2> QED
    BY <2>4, <2>5, <2>6 DEF r, m
<1>2. Head(group) \in Blk
  BY DEF Groups
<1>3. \A acc \in Blk, x \in Blk : next(acc, x) \in Blk
  BY JoinMeaning
<1> HIDE DEF n, s, next
<1>4. \A acc \in Blk, x \in Blk : step[<<acc, x>>] = next(acc, x)
  OBVIOUS
<1> HIDE DEF step
<1>5. Keeps(step, Blk, n, s) /\ \A b \in Blk, k \in 1..n : step[<<b, s[k]>>] \in Blk
  BY <1>1, <1>3, <1>4 DEF Keeps
<1>6. PICK g \in [SUBSET (1..n) -> Blk] : Folding(g, Blk, step, Head(group), n, s)
  BY <1>1, <1>2, <1>5, FoldingExists
<1>7. g = [S \in SUBSET DOMAIN s |->
             IF S = {} THEN Head(group) ELSE next(g[S \ {Max(S)}], s[Max(S)])]
  <2>1. ASSUME NEW S \in SUBSET (1..n)
        PROVE  g[S] = IF S = {} THEN Head(group) ELSE next(g[S \ {Max(S)}], s[Max(S)])
    <3>1. CASE S = {}
      BY <1>6, <3>1 DEF Folding
    <3>2. CASE S # {}
      <4>1. s[Max(S)] \in Blk /\ g[S \ {Max(S)}] \in Blk
        BY <1>1, <1>6, <3>2, TopIsThere
      <4>2. g[S] = step[<<g[S \ {Max(S)}], s[Max(S)]>>]
        BY <1>6, <3>2, <4>1 DEF Folding
      <4> QED
        BY <1>4, <3>2, <4>1, <4>2
    <3> QED
      BY <3>1, <3>2
  <2> QED
    BY <1>1, <1>6, <2>1
<1>8. PICK h :
        /\ h = [S \in SUBSET DOMAIN s |->
                  IF S = {} THEN Head(group) ELSE next(h[S \ {Max(S)}], s[Max(S)])]
        /\ Merge(group) = h[DOMAIN s]
  BY <1>7 DEF Merge, FoldLeft, MapThenFoldSet, s, next
<1>9. Folding(h, Blk, step, Head(group), n, s)
  <2>1. h[{}] = Head(group)
    BY <1>8
  <2>2. ASSUME NEW S \in SUBSET (1..n), S # {}, h[S \ {Max(S)}] \in Blk
        PROVE  h[S] = step[<<h[S \ {Max(S)}], s[Max(S)]>>]
    <3>1. s[Max(S)] \in Blk
      BY <1>1, <2>2, TopIsThere
    <3>2. h[S] = next(h[S \ {Max(S)}], s[Max(S)])
      BY <1>1, <1>8, <2>2
    <3> QED
      BY <1>4, <2>2, <3>1, <3>2
  <2> QED
    BY <2>1, <2>2 DEF Folding
<1>10. PICK t \in [0..n -> Blk] : Run(t, step, Head(group), n, s) /\ t[n] = h[1..n]
  BY ONLY <1>1, <1>2, <1>5, <1>9, FoldingByPosition, SMT
<1>11. \A k \in 1..n : t[k] = next(t[k - 1], s[k])
  <2> TAKE k \in 1..n
  <2>1. t[k - 1] \in Blk /\ s[k] \in Blk
    BY <1>1
  <2> QED
    BY <1>4, <1>10, <2>1 DEF Run
<1>12. t[0] = Head(group) /\ Merge(group) = t[n]
  BY <1>1, <1>8, <1>10 DEF Run
<1> QED
  BY <1>1, <1>11, <1>12 DEF n, s, next

LEMMA MergeType ==
  ASSUME NEW group \in Groups
  PROVE  Merge(group) \in Blk
<1>1. PICK t \in [0..Len(group) - 1 -> Blk] : Merge(group) = t[Len(group) - 1]
  BY MergeRun
<1>2. Len(group) - 1 \in 0..Len(group) - 1
  BY DEF Groups
<1> QED
  BY <1>1, <1>2

LEMMA MergePlaced ==
  ASSUME NEW d \in Seq(LineSet), NEW lo \in Nat \ {0}, NEW hi \in 0..Len(d),
         NEW bs, Parts(bs, d, lo, hi), NEW group \in Groups, NEW a, Lies(group, bs, a)
  PROVE  LET m == Merge(group)
         IN /\ Placed(m, d) /\ d[m.first] # Empty
            /\ m.first = group[1].first /\ m.last = group[Len(group)].last
            /\ m.atomic <=> \A j \in 1..Len(group) : group[j].atomic
<1> DEFINE n == Len(group) - 1
<1>1. n \in Nat /\ group \in Seq(Blk) /\ Len(group) = n + 1
  BY DEF Groups
<1>2. PICK t \in [0..n -> Blk] :
        /\ t[0] = Head(group) /\ Merge(group) = t[n]
        /\ \A k \in 1..n : t[k] = Join(t[k - 1], group[k + 1])
  BY MergeRun
<1> HIDE DEF n
<1>3. /\ bs \in Seq(Blk) /\ a \in Nat \ {0} /\ a + n <= Len(bs) /\ Len(bs) \in Nat
      /\ \A j \in 1..n + 1 : group[j] = bs[a + j - 1] /\ a + j - 1 \in 1..Len(bs)
  BY <1>1 DEF Lies, Parts
<1>4. \A j \in 1..n + 1 : /\ Placed(group[j], d) /\ d[group[j].first] # Empty
                          /\ group[j] \in Blk
  <2> TAKE j \in 1..n + 1
  <2>1. group[j] = bs[a + j - 1] /\ a + j - 1 \in DOMAIN bs
    BY <1>3
  <2> QED
    BY <2>1 DEF Parts, Placed
<1> DEFINE P(k) == /\ Placed(t[k], d) /\ t[k].first = group[1].first
                   /\ t[k].last = group[k + 1].last
                   /\ t[k].atomic <=> \A j \in 1..k + 1 : group[j].atomic
           Good == {k \in 0..n : P(k)}
<1>5. P(0)
  <2>1. t[0] = group[1] /\ 1 \in 1..n + 1 /\ 1..0 + 1 = {1}
    BY <1>1, <1>2
  <2>2. Placed(t[0], d)
    BY <1>4, <2>1
  <2> QED
    BY <2>1, <2>2
<1>6. ASSUME NEW k \in 0..n, k < n, P(k) PROVE P(k + 1)
  <2>1. /\ k + 1 \in 1..n /\ (k + 1) - 1 = k /\ (k + 1) + 1 = k + 2
        /\ k + 1 \in 1..n + 1 /\ k + 2 \in 1..n + 1 /\ k \in 0..n /\ k + 1 \in 0..n
    BY <1>1, <1>6
  <2> DEFINE b == group[k + 2]
  <2>2. t[k + 1] = Join(t[k], b)
    <3>1. t[k + 1] = Join(t[(k + 1) - 1], group[(k + 1) + 1])
      BY <1>2, <2>1
    <3> QED
      BY <2>1, <3>1
  <2>3. /\ a + k \in 1..Len(bs) /\ (a + k) + 1 \in 1..Len(bs)
        /\ group[k + 1] = bs[a + k] /\ b = bs[(a + k) + 1]
    <3>1. a + (k + 1) - 1 = a + k /\ a + (k + 2) - 1 = (a + k) + 1
      BY <1>3, <2>1
    <3> QED
      BY <1>3, <2>1, <3>1
  <2>4. /\ group[k + 1].last < b.first
        /\ \A m \in group[k + 1].last + 1..b.first - 1 : d[m] = Empty
    BY <2>3, PartsAreNeighbours
  <2>5. Placed(b, d) /\ b \in Blk /\ t[k] \in Blk
    BY <1>4, <2>1
  <2> HIDE DEF b
  <2>6. t[k].last < b.first /\ \A m \in t[k].last + 1..b.first - 1 : d[m] = Empty
    BY <1>6, <2>4
  <2>7. Placed(t[k + 1], d)
    BY <1>6, <2>2, <2>5, <2>6, JoinPlaced
  <2>8. /\ t[k + 1].first = t[k].first /\ t[k + 1].last = b.last
        /\ t[k + 1].atomic = (t[k].atomic /\ b.atomic)
    <3> DEFINE c == t[k]
               r == t[k + 1]
    <3>1. r = Join(c, b) /\ c \in Blk /\ b \in Blk
      BY <2>2, <2>5
    <3> HIDE DEF c, r
    <3>2. r.first = c.first /\ r.last = b.last /\ r.atomic = (c.atomic /\ b.atomic)
      BY <3>1, JoinMeaning
    <3> QED
      BY <3>2 DEF c, r
  <2>9. t[k + 1].atomic <=> \A j \in 1..k + 2 : group[j].atomic
    <3>1. \A j \in 1..k + 2 : j = k + 2 \/ j \in 1..k + 1
      OBVIOUS
    <3>2. k + 2 \in 1..k + 2 /\ \A j \in 1..k + 1 : j \in 1..k + 2
      OBVIOUS
    <3> HIDE DEF P
    <3>3. t[k].atomic <=> \A j \in 1..k + 1 : group[j].atomic
      BY <1>6 DEF P
    <3> QED
      BY ONLY <2>8, <3>1, <3>2, <3>3, Zenon DEF b
  <2> QED
    BY <1>6, <2>1, <2>7, <2>8, <2>9 DEF b
<1>7. P(n)
  <2> HIDE DEF P
  <2>1. 0 \in Good /\ \A k \in 0..n : k < n /\ k \in Good => k + 1 \in Good
    BY <1>1, <1>5, <1>6
  <2>2. 0..n \subseteq Good
    <3> HIDE DEF Good
    <3> QED
      BY <1>1, <2>1, CountUp
  <2> QED
    BY <1>1, <2>2
<1>8. d[group[1].first] # Empty
  <2>1. 1 \in 1..n + 1
    BY <1>1
  <2> QED
    BY <1>4, <2>1
<1> QED
  BY <1>1, <1>2, <1>7, <1>8

-----------------------------------------------------------------------------
(* Sizes.  c sums up the lines of d, each with the end of line that joins  *)
(* it to the next.                                                         *)

Costs(c, d) ==
  /\ c \in [0..Len(d) -> Nat] /\ c[0] = 0
  /\ \A k \in 1..Len(d) : c[k] = c[k - 1] + (BytesOf[d[k]] + 1)

LEMMA CostsExist ==
  ASSUME NEW d \in Seq(LineSet)
  PROVE  \E c : Costs(c, d)
<1> DEFINE n    == Len(d)
           step == [p \in Nat \X LineSet |-> p[1] + (BytesOf[p[2]] + 1)]
<1>1. n \in Nat /\ \A k \in 1..n : d[k] \in LineSet
  OBVIOUS
<1>2. \A l \in LineSet : BytesOf[l] + 1 \in Nat
  BY ChunkingAssumption
<1>3. \A b \in Nat, l \in LineSet : step[<<b, l>>] = b + (BytesOf[l] + 1)
  OBVIOUS
<1> HIDE DEF n, step
<1>4. \A b \in Nat, l \in LineSet : step[<<b, l>>] \in Nat
  <2> TAKE b \in Nat, l \in LineSet
  <2>1. BytesOf[l] + 1 \in Nat
    BY <1>2
  <2> QED
    BY <1>3, <2>1
<1>5. Keeps(step, Nat, n, d) /\ \A b \in Nat, k \in 1..n : step[<<b, d[k]>>] \in Nat
  BY <1>1, <1>4 DEF Keeps
<1>6. 0 \in Nat
  OBVIOUS
<1>7. PICK g \in [SUBSET (1..n) -> Nat] : Folding(g, Nat, step, 0, n, d)
  BY <1>1, <1>5, <1>6, FoldingExists
<1>8. PICK c \in [0..n -> Nat] : Run(c, step, 0, n, d) /\ c[n] = g[1..n]
  BY ONLY <1>1, <1>5, <1>6, <1>7, FoldingByPosition, SMT
<1>9. \A k \in 1..n : c[k] = c[k - 1] + (BytesOf[d[k]] + 1)
  <2> TAKE k \in 1..n
  <2>1. c[k - 1] \in Nat /\ d[k] \in LineSet
    BY <1>1
  <2> QED
    BY <1>3, <1>8, <2>1 DEF Run
<1>10. c[0] = 0
  BY <1>8 DEF Run
<1> QED
  BY <1>8, <1>9, <1>10 DEF Costs, n

LEMMA CostsGrow ==
  ASSUME NEW d \in Seq(LineSet), NEW c, Costs(c, d),
         NEW i \in 0..Len(d), NEW j \in i..Len(d)
  PROVE  c[i] \in Nat /\ c[j] \in Nat /\ c[i] <= c[j] /\ (i < j => c[i] < c[j])
<1>1. Len(d) \in Nat /\ i \in Nat /\ j \in Nat /\ i <= j /\ j <= Len(d)
  OBVIOUS
<1> DEFINE n    == j - i
           P(k) == c[i] <= c[i + k] /\ (k > 0 => c[i] < c[i + k])
           Good == {k \in 0..n : P(k)}
<1>2. n \in Nat /\ i + 0 = i /\ i + n = j
  BY <1>1
<1> HIDE DEF n
<1>3. \A k \in 0..Len(d) : c[k] \in Nat
  BY DEF Costs
<1>4. 0 \in Good
  BY <1>1, <1>2, <1>3
<1>5. ASSUME NEW k \in 0..n, k < n, k \in Good PROVE k + 1 \in Good
  <2>1. /\ i + k \in 0..Len(d) /\ i + k + 1 \in 1..Len(d) /\ (i + k + 1) - 1 = i + k
        /\ i + (k + 1) = i + k + 1 /\ i + k + 1 \in 0..Len(d) /\ k + 1 \in 0..n
    BY <1>1, <1>2, <1>5
  <2>2. c[i + k + 1] = c[i + k] + (BytesOf[d[i + k + 1]] + 1)
    BY <2>1 DEF Costs
  <2>3. BytesOf[d[i + k + 1]] \in Nat
    BY <2>1, ChunkingAssumption
  <2>4. c[i] \in Nat /\ c[i + k] \in Nat /\ c[i + k + 1] \in Nat /\ c[i] <= c[i + k]
    BY <1>1, <1>3, <1>5, <2>1
  <2>5. c[i] < c[i + k + 1]
    BY <2>2, <2>3, <2>4
  <2> QED
    BY <2>1, <2>4, <2>5
<1>6. n \in Good
  <2>1. 0..n \subseteq Good
    <3> HIDE DEF Good
    <3> QED
      BY <1>2, <1>4, <1>5, CountUp
  <2> QED
    BY <1>2, <2>1
<1>7. P(n)
  BY <1>6
<1> QED
  BY <1>1, <1>2, <1>3, <1>7

LEMMA SizeRun ==
  ASSUME NEW text \in Seq(LineSet)
  PROVE  \E t \in [0..Len(text) -> Int] :
           /\ t[0] = Len(text) - 1
           /\ Size(text) = t[Len(text)]
           /\ \A k \in 1..Len(text) : t[k] = t[k - 1] + BytesOf[text[k]]
<1> DEFINE n    == Len(text)
           s    == text
           next(acc, x) == acc + BytesOf[x]
           step == [p \in Int \X LineSet |-> next(p[1], p[2])]
<1>1. n \in Nat /\ s \in [1..n -> LineSet] /\ DOMAIN s = 1..n
  OBVIOUS
<1>2. Len(text) - 1 \in Int
  OBVIOUS
<1>3. \A acc \in Int, x \in LineSet : next(acc, x) \in Int
  BY ChunkingAssumption
<1> HIDE DEF n, s, next
<1>4. \A acc \in Int, x \in LineSet : step[<<acc, x>>] = next(acc, x)
  OBVIOUS
<1> HIDE DEF step
<1>5. Keeps(step, Int, n, s) /\ \A b \in Int, k \in 1..n : step[<<b, s[k]>>] \in Int
  BY <1>1, <1>3, <1>4 DEF Keeps
<1>6. PICK g \in [SUBSET (1..n) -> Int] : Folding(g, Int, step, Len(text) - 1, n, s)
  BY <1>1, <1>2, <1>5, FoldingExists
<1>7. g = [S \in SUBSET DOMAIN s |->
             IF S = {} THEN Len(text) - 1 ELSE next(g[S \ {Max(S)}], s[Max(S)])]
  <2>1. ASSUME NEW S \in SUBSET (1..n)
        PROVE  g[S] = IF S = {} THEN Len(text) - 1 ELSE next(g[S \ {Max(S)}], s[Max(S)])
    <3>1. CASE S = {}
      BY <1>6, <3>1 DEF Folding
    <3>2. CASE S # {}
      <4>1. s[Max(S)] \in LineSet /\ g[S \ {Max(S)}] \in Int
        BY <1>1, <1>6, <3>2, TopIsThere
      <4>2. g[S] = step[<<g[S \ {Max(S)}], s[Max(S)]>>]
        BY <1>6, <3>2, <4>1 DEF Folding
      <4> QED
        BY <1>4, <3>2, <4>1, <4>2
    <3> QED
      BY <3>1, <3>2
  <2> QED
    BY <1>1, <1>6, <2>1
<1>8. PICK h :
        /\ h = [S \in SUBSET DOMAIN s |->
                  IF S = {} THEN Len(text) - 1 ELSE next(h[S \ {Max(S)}], s[Max(S)])]
        /\ Size(text) = h[DOMAIN s]
  BY <1>7 DEF Size, FoldLeft, MapThenFoldSet, s, next
<1>9. Folding(h, Int, step, Len(text) - 1, n, s)
  <2>1. h[{}] = Len(text) - 1
    BY <1>8
  <2>2. ASSUME NEW S \in SUBSET (1..n), S # {}, h[S \ {Max(S)}] \in Int
        PROVE  h[S] = step[<<h[S \ {Max(S)}], s[Max(S)]>>]
    <3>1. s[Max(S)] \in LineSet
      BY <1>1, <2>2, TopIsThere
    <3>2. h[S] = next(h[S \ {Max(S)}], s[Max(S)])
      BY <1>1, <1>8, <2>2
    <3> QED
      BY <1>4, <2>2, <3>1, <3>2
  <2> QED
    BY <2>1, <2>2 DEF Folding
<1>10. PICK t \in [0..n -> Int] : Run(t, step, Len(text) - 1, n, s) /\ t[n] = h[1..n]
  BY ONLY <1>1, <1>2, <1>5, <1>9, FoldingByPosition, SMT
<1>11. \A k \in 1..n : t[k] = next(t[k - 1], s[k])
  <2> TAKE k \in 1..n
  <2>1. t[k - 1] \in Int /\ s[k] \in LineSet
    BY <1>1
  <2> QED
    BY <1>4, <1>10, <2>1 DEF Run
<1>12. t[0] = Len(text) - 1 /\ Size(text) = t[n]
  BY <1>1, <1>8, <1>10 DEF Run
<1> QED
  BY <1>1, <1>11, <1>12 DEF n, s, next

\* Size is what the sums differ by, but for one end of line.
LEMMA SizeByCosts ==
  ASSUME NEW d \in Seq(LineSet), NEW c, Costs(c, d),
         NEW s \in Seq(LineSet), s # <<>>, NEW a, Lies(s, d, a)
  PROVE  Size(s) = c[a + Len(s) - 1] - c[a - 1] - 1
<1> DEFINE n == Len(s)
<1>1. n \in Nat \ {0} /\ a \in Nat \ {0} /\ a + n - 1 <= Len(d) /\ Len(d) \in Nat
  BY DEF Lies
<1>2. PICK t \in [0..n -> Int] :
        /\ t[0] = n - 1 /\ Size(s) = t[n]
        /\ \A k \in 1..n : t[k] = t[k - 1] + BytesOf[s[k]]
  BY SizeRun
<1>3. \A j \in 1..n : s[j] = d[a + j - 1] /\ s[j] \in LineSet
  BY DEF Lies
<1> HIDE DEF n
<1> DEFINE P(k) == t[k] + k = n - 1 + (c[a + k - 1] - c[a - 1])
           Good == {k \in 0..n : P(k)}
<1>4. \A k \in 0..Len(d) : c[k] \in Nat
  BY DEF Costs
<1>5. P(0)
  <2>1. a + 0 - 1 = a - 1 /\ a - 1 \in 0..Len(d)
    BY <1>1
  <2>2. c[a - 1] \in Nat /\ c[a + 0 - 1] = c[a - 1] /\ t[0] = n - 1
    BY <1>2, <1>4, <2>1
  <2> QED
    BY ONLY <1>1, <2>2
<1>6. ASSUME NEW k \in 0..n, k < n, P(k) PROVE P(k + 1)
  <2>1. /\ k + 1 \in 1..n /\ (k + 1) - 1 = k /\ a + (k + 1) - 1 = a + k
        /\ a + k \in 1..Len(d) /\ (a + k) - 1 = a + k - 1 /\ a - 1 \in 0..Len(d)
        /\ a + k - 1 \in 0..Len(d) /\ a + k \in 0..Len(d)
    BY <1>1, <1>6
  <2>2. t[k + 1] = t[k] + BytesOf[s[k + 1]]
    BY <1>2, <2>1
  <2>3. c[a + k] = c[a + k - 1] + (BytesOf[d[a + k]] + 1)
    BY <2>1 DEF Costs
  <2>4. s[k + 1] = d[a + k] /\ BytesOf[s[k + 1]] \in Nat
    BY <1>3, <2>1, ChunkingAssumption
  <2>5. /\ t[k] \in Int /\ c[a + k - 1] \in Nat /\ c[a - 1] \in Nat /\ c[a + k] \in Nat
        /\ t[k] + k = n - 1 + (c[a + k - 1] - c[a - 1])
    BY <1>2, <1>4, <1>6, <2>1
  <2>6. t[k + 1] + (k + 1) = n - 1 + (c[a + k] - c[a - 1])
    <3> DEFINE w == BytesOf[s[k + 1]]
               u == t[k + 1]
               v == t[k]
               x == c[a + k - 1]
               y == c[a - 1]
               z == c[a + k]
    <3>1. /\ u = v + w /\ z = x + (w + 1) /\ v + k = n - 1 + (x - y)
          /\ w \in Int /\ v \in Int /\ x \in Int /\ y \in Int /\ k \in Int /\ n \in Int
      <4>1. z = x + (w + 1)
        BY ONLY <2>3, <2>4
      <4>2. u = v + w /\ v + k = n - 1 + (x - y)
        BY ONLY <2>2, <2>5
      <4>3. w \in Int /\ v \in Int /\ x \in Int /\ y \in Int /\ k \in Int /\ n \in Int
        <5>1. k \in Int /\ n \in Int
          BY <1>1
        <5>2. w \in Int
          BY ONLY <2>4
        <5>3. v \in Int /\ x \in Int /\ y \in Int
          BY ONLY <2>5
        <5> QED
          BY <5>1, <5>2, <5>3
      <4> QED
        BY <4>1, <4>2, <4>3
    <3> HIDE DEF u, v, w, x, y, z
    <3>2. u + (k + 1) = n - 1 + (z - y)
      BY ONLY <3>1
    <3> QED
      BY <3>2 DEF u, y, z
  <2> QED
    BY <2>1, <2>6
<1>7. P(n)
  <2> HIDE DEF P
  <2>1. 0 \in Good /\ \A k \in 0..n : k < n /\ k \in Good => k + 1 \in Good
    BY <1>1, <1>5, <1>6
  <2>2. 0..n \subseteq Good
    <3> HIDE DEF Good
    <3> QED
      BY <1>1, <2>1, CountUp
  <2> QED
    BY <1>1, <2>2
<1>8. t[n] \in Int /\ c[a + n - 1] \in Nat /\ c[a - 1] \in Nat
  BY <1>1, <1>2, <1>4
<1>9. t[n] = c[a + n - 1] - c[a - 1] - 1
  BY <1>1, <1>7, <1>8
<1> QED
  BY <1>2, <1>9 DEF n

LEMMA Times ==
  ASSUME NEW x \in Nat, NEW y \in Nat, NEW z \in Nat, x <= y
  PROVE  z * x <= z * y
<1>1. z * (y - x) \in Nat /\ z * y = z * x + z * (y - x) /\ z * x \in Nat
  OBVIOUS
<1> QED
  BY <1>1

\* What survives of the rounding.
LEMMA NearestMeaning ==
  ASSUME NEW n \in Nat, NEW m \in Nat \ {0}, NEW b \in Nat
  PROVE  /\ Nearest(n, m) \in Nat
         /\ n < b * m => Nearest(n, m) <= b
         /\ Nearest(n, m) < b => n < b * m
<1> DEFINE q == n \div m
           r == n % m
<1>1. q \in Nat /\ r \in 0..m - 1 /\ n = m * q + r
  BY SMTT(30)
<1>2. Nearest(n, m) = q \/ Nearest(n, m) = q + 1
  BY DEF Nearest
<1> HIDE DEF q, r
<1>3. n < b * m => q < b
  <2> SUFFICES ASSUME ~ (q < b) PROVE ~ (n < b * m)
    OBVIOUS
  <2>1. b <= q
    BY <1>1
  <2>2. m * b <= m * q
    BY <1>1, <2>1, Times
  <2>3. m * b = b * m /\ m * b \in Nat /\ m * q \in Nat
    BY <1>1
  <2> QED
    BY <1>1, <2>2, <2>3
<1>4. q < b => n < b * m
  <2> SUFFICES ASSUME q < b PROVE n < b * m
    OBVIOUS
  <2>1. q + 1 <= b /\ q + 1 \in Nat
    BY <1>1
  <2>2. m * (q + 1) <= m * b
    BY <1>1, <2>1, Times
  <2>3. m * (q + 1) = m * q + m /\ m * b = b * m /\ m * b \in Nat /\ m * q \in Nat
    BY <1>1
  <2> QED
    BY <1>1, <2>2, <2>3
<1> QED
  BY <1>1, <1>2, <1>3, <1>4

LEMMA EstimateMeaning ==
  ASSUME NEW s \in Seq(LineSet), s # <<>>
  PROVE  /\ Size(s) \in Nat /\ EstimateTokens(s) \in Nat
         /\ s[1] # Empty => EstimateTokens(s) > 0
         /\ Size(s) < BudgetBytes => EstimateTokens(s) <= ChunkBudget
         /\ EstimateTokens(s) < ChunkBudget => Size(s) < BudgetBytes
<1>1. PICK c : Costs(c, s)
  BY CostsExist
<1>2. Len(s) \in Nat \ {0}
  OBVIOUS
<1>3. Lies(s, s, 1)
  BY <1>2 DEF Lies
<1>4. Size(s) = c[Len(s)] - c[0] - 1
  <2>1. 1 + Len(s) - 1 = Len(s) /\ 1 - 1 = 0
    BY <1>2
  <2> QED
    BY <1>1, <1>3, <2>1, SizeByCosts
<1>5. /\ c[0] = 0 /\ c[0] < c[Len(s)] /\ c[Len(s)] \in Nat
      /\ c[1] <= c[Len(s)] /\ c[1] \in Nat
  <2>1. 0 \in 0..Len(s) /\ 1 \in 0..Len(s) /\ Len(s) \in 0..Len(s) /\ Len(s) \in 1..Len(s)
    BY <1>2
  <2>2. c[0] < c[Len(s)] /\ c[Len(s)] \in Nat
    BY <1>1, <1>2, <2>1, CostsGrow
  <2>3. c[1] <= c[Len(s)] /\ c[1] \in Nat
    BY <1>1, <1>2, <2>1, CostsGrow
  <2> QED
    BY <1>1, <2>2, <2>3 DEF Costs
<1>6. Size(s) \in Nat
  BY <1>4, <1>5
<1>7. s[1] # Empty => Size(s) > 0
  <2> SUFFICES ASSUME s[1] # Empty PROVE Size(s) > 0
    OBVIOUS
  <2>1. 1 \in 1..Len(s) /\ s[1] \in LineSet \ {Empty}
    BY <1>2
  <2>2. c[1] = c[1 - 1] + (BytesOf[s[1]] + 1)
    BY <1>1, <2>1 DEF Costs
  <2>3. BytesOf[s[1]] \in Nat /\ BytesOf[s[1]] > 0
    BY <2>1, ChunkingAssumption
  <2>4. c[1] > 1
    BY <1>5, <2>2, <2>3
  <2> QED
    BY <1>4, <1>5, <2>4
<1> DEFINE n == Size(s)
           q == Nearest(n, BytesPerToken)
<1>8. EstimateTokens(s) = IF n <= 0 THEN 0 ELSE IF q = 0 THEN 1 ELSE q
  BY DEF EstimateTokens
<1>9. ChunkBudget \in Nat \ {0} /\ BytesPerToken \in Nat \ {0}
  BY ChunkingAssumption
<1> HIDE DEF n
<1>10. /\ q \in Nat /\ n \in Nat
       /\ n < BudgetBytes => q <= ChunkBudget
       /\ q < ChunkBudget => n < BudgetBytes
  BY <1>6, <1>9, NearestMeaning DEF BudgetBytes, n
<1>11. BudgetBytes \in Nat /\ BudgetBytes > 0
  <2>1. 1 * ChunkBudget = ChunkBudget /\ 1 <= BytesPerToken
    BY <1>9
  <2>2. ChunkBudget * 1 <= ChunkBudget * BytesPerToken
    BY <1>9, Times
  <2>3. ChunkBudget * BytesPerToken \in Nat
    BY <1>9
  <2> QED
    BY <1>9, <2>2, <2>3 DEF BudgetBytes
<1> HIDE DEF q
<1> QED
  BY <1>6, <1>7, <1>8, <1>9, <1>10, <1>11 DEF n

LEMMA WithoutFencesRun ==
  ASSUME NEW T, NEW group \in Seq(T)
  PROVE  \E t \in [0..Len(group) -> Seq(T)] :
           /\ t[0] = <<>>
           /\ WithoutFences(group) = t[Len(group)]
           /\ \A k \in 1..Len(group) : t[k] = IF group[k].atomic THEN t[k - 1]
                                     ELSE Append(t[k - 1], group[k])
<1> DEFINE B    == Seq(T)
           n    == Len(group)
           s    == group
           next(acc, x) == IF x.atomic THEN acc ELSE Append(acc, x)
           step == [p \in B \X T |-> next(p[1], p[2])]
<1>1. n \in Nat /\ s \in [1..n -> T] /\ DOMAIN s = 1..n
  OBVIOUS
<1>2. <<>> \in B
  OBVIOUS
<1>3. \A acc \in B, x \in T : next(acc, x) \in B
  OBVIOUS
<1> HIDE DEF B, n, s, next
<1>4. \A acc \in B, x \in T : step[<<acc, x>>] = next(acc, x)
  OBVIOUS
<1> HIDE DEF step
<1>5. Keeps(step, B, n, s) /\ \A b \in B, k \in 1..n : step[<<b, s[k]>>] \in B
  BY <1>1, <1>3, <1>4 DEF Keeps
<1>6. PICK g \in [SUBSET (1..n) -> B] : Folding(g, B, step, <<>>, n, s)
  BY <1>1, <1>2, <1>5, FoldingExists
<1>7. g = [S \in SUBSET DOMAIN s |->
             IF S = {} THEN <<>> ELSE next(g[S \ {Max(S)}], s[Max(S)])]
  <2>1. ASSUME NEW S \in SUBSET (1..n)
        PROVE  g[S] = IF S = {} THEN <<>> ELSE next(g[S \ {Max(S)}], s[Max(S)])
    <3>1. CASE S = {}
      BY <1>6, <3>1 DEF Folding
    <3>2. CASE S # {}
      <4>1. s[Max(S)] \in T /\ g[S \ {Max(S)}] \in B
        BY <1>1, <1>6, <3>2, TopIsThere
      <4>2. g[S] = step[<<g[S \ {Max(S)}], s[Max(S)]>>]
        BY <1>6, <3>2, <4>1 DEF Folding
      <4> QED
        BY <1>4, <3>2, <4>1, <4>2
    <3> QED
      BY <3>1, <3>2
  <2> QED
    BY <1>1, <1>6, <2>1
<1>8. PICK h :
        /\ h = [S \in SUBSET DOMAIN s |->
                  IF S = {} THEN <<>> ELSE next(h[S \ {Max(S)}], s[Max(S)])]
        /\ WithoutFences(group) = h[DOMAIN s]
  BY <1>7 DEF WithoutFences, FoldLeft, MapThenFoldSet, s, next
<1>9. Folding(h, B, step, <<>>, n, s)
  <2>1. h[{}] = <<>>
    BY <1>8
  <2>2. ASSUME NEW S \in SUBSET (1..n), S # {}, h[S \ {Max(S)}] \in B
        PROVE  h[S] = step[<<h[S \ {Max(S)}], s[Max(S)]>>]
    <3>1. s[Max(S)] \in T
      BY <1>1, <2>2, TopIsThere
    <3>2. h[S] = next(h[S \ {Max(S)}], s[Max(S)])
      BY <1>1, <1>8, <2>2
    <3> QED
      BY <1>4, <2>2, <3>1, <3>2
  <2> QED
    BY <2>1, <2>2 DEF Folding
<1>10. PICK t \in [0..n -> B] : Run(t, step, <<>>, n, s) /\ t[n] = h[1..n]
  BY ONLY <1>1, <1>2, <1>5, <1>9, FoldingByPosition, SMT
<1>11. \A k \in 1..n : t[k] = next(t[k - 1], s[k])
  <2> TAKE k \in 1..n
  <2>1. t[k - 1] \in B /\ s[k] \in T
    BY <1>1
  <2> QED
    BY <1>4, <1>10, <2>1 DEF Run
<1>12. t[0] = <<>> /\ WithoutFences(group) = t[n]
  BY <1>1, <1>8, <1>10 DEF Run
<1> QED
  BY <1>1, <1>11, <1>12 DEF B, n, s, next

\* Where nothing is a fence, nothing is left out.
LEMMA NothingLeftOut ==
  ASSUME NEW group \in Seq(Blk), \A k \in 1..Len(group) : ~group[k].atomic
  PROVE  WithoutFences(group) = group
<1> DEFINE n == Len(group)
<1>1. n \in Nat /\ \A k \in 1..n : group[k] \in Blk
  OBVIOUS
<1>2. PICK t \in [0..n -> Seq(Blk)] :
        /\ t[0] = <<>>
        /\ WithoutFences(group) = t[n]
        /\ \A k \in 1..n : t[k] = IF group[k].atomic THEN t[k - 1]
                                  ELSE Append(t[k - 1], group[k])
  BY WithoutFencesRun
<1> DEFINE P(k) == Len(t[k]) = k /\ \A j \in 1..k : t[k][j] = group[j]
           Good == {k \in 0..n : P(k)}
<1>3. P(0)
  BY <1>2
<1>4. ASSUME NEW k \in 0..n, k < n, P(k) PROVE P(k + 1)
  <2>1. k + 1 \in 1..n /\ (k + 1) - 1 = k /\ t[k] \in Seq(Blk) /\ group[k + 1] \in Blk
    BY <1>1, <1>2, <1>4
  <2>2. t[k + 1] = Append(t[k], group[k + 1])
    BY <1>2, <2>1
  <2> QED
    BY <1>4, <2>1, <2>2
<1>5. P(n)
  <2> HIDE DEF P, n
  <2>1. 0 \in Good /\ \A k \in 0..n : k < n /\ k \in Good => k + 1 \in Good
    BY <1>1, <1>3, <1>4
  <2>2. 0..n \subseteq Good
    <3> HIDE DEF Good
    <3> QED
      BY <1>1, <2>1, CountUp
  <2> QED
    BY <1>1, <2>2
<1>6. t[n] \in Seq(Blk)
  BY <1>1, <1>2
<1> QED
  BY <1>2, <1>5, <1>6

\* What is carried over ends the group, where fences are not kept whole or
\* nothing is to be carried over.
LEMMA CarryOverMeaning ==
  ASSUME NEW group \in Seq(Blk), NEW overlap \in Nat,
         overlap = 0 \/ \A k \in 1..Len(group) : ~group[k].atomic
  PROVE  /\ CarryOver(group, overlap) \in Seq(Blk)
         /\ overlap = 0 => CarryOver(group, overlap) = <<>>
         /\ \E c \in 1..Len(group) + 1 : /\ Lies(CarryOver(group, overlap), group, c)
                                         /\ c + Len(CarryOver(group, overlap))
                                              = Len(group) + 1
<1>1. Len(group) \in Nat
  OBVIOUS
<1>2. CASE overlap = 0
  <2>1. CarryOver(group, overlap) = <<>>
    BY <1>2 DEF CarryOver
  <2>2. Len(group) + 1 \in 1..Len(group) + 1
    BY <1>1
  <2>3. Lies(<<>>, group, Len(group) + 1)
    BY <2>2, NothingLies
  <2>4. Len(group) + 1 + Len(<<>>) = Len(group) + 1
    BY <1>1
  <2> QED
    BY <2>1, <2>2, <2>3, <2>4
<1>3. CASE overlap # 0
  <2> DEFINE first == IF Len(group) > overlap THEN Len(group) - overlap + 1 ELSE 1
             r     == SubSeq(group, first, Len(group))
  <2>1. first \in 1..Len(group) + 1 /\ Len(group) \in first - 1..Len(group)
    BY <1>1, <1>3
  <2> HIDE DEF first
  <2>2. r \in Seq(Blk) /\ Len(r) = Len(group) - first + 1 /\ Lies(r, group, first)
    BY <2>1, SubSeqLies
  <2>3. CarryOver(group, overlap) = WithoutFences(r)
    BY <1>3 DEF CarryOver, first
  <2> HIDE DEF r
  <2>4. \A k \in 1..Len(r) : ~r[k].atomic
    <3> TAKE k \in 1..Len(r)
    <3>1. r[k] = group[first + k - 1] /\ first + k - 1 \in 1..Len(group)
      BY <1>1, <2>1, <2>2 DEF Lies
    <3> QED
      BY <1>3, <3>1
  <2>5. CarryOver(group, overlap) = r
    BY <2>2, <2>3, <2>4, NothingLeftOut
  <2>6. first + Len(r) = Len(group) + 1
    BY <1>1, <2>1, <2>2
  <2> QED
    BY <1>3, <2>1, <2>2, <2>5, <2>6
<1> QED
  BY <1>2, <1>3

LEMMA CarryOverType ==
  ASSUME NEW T, NEW group \in Seq(T), NEW overlap \in Nat
  PROVE  CarryOver(group, overlap) \in Seq(T)
<1>1. Len(group) \in Nat
  OBVIOUS
<1>2. CASE overlap = 0
  BY <1>2 DEF CarryOver
<1>3. CASE overlap # 0
  <2> DEFINE first == IF Len(group) > overlap THEN Len(group) - overlap + 1 ELSE 1
             r     == SubSeq(group, first, Len(group))
  <2>1. first \in 1..Len(group) + 1 /\ Len(group) \in first - 1..Len(group)
    BY <1>1, <1>3
  <2> HIDE DEF first
  <2>2. r \in Seq(T)
    BY <2>1, SubSeqLies
  <2>3. CarryOver(group, overlap) = WithoutFences(r)
    BY <1>3 DEF CarryOver, first
  <2> HIDE DEF r
  <2>4. PICK t \in [0..Len(r) -> Seq(T)] : WithoutFences(r) = t[Len(r)]
    BY <2>2, WithoutFencesRun
  <2>5. Len(r) \in 0..Len(r)
    BY <2>2
  <2> QED
    BY <2>3, <2>4, <2>5
<1> QED
  BY <1>2, <1>3

LEMMA BlkText ==
  ASSUME NEW b \in Blk, b.text # <<>>
  PROVE  b.text \in Seq(LineSet) /\ EstimateTokens(b.text) \in Nat
<1>1. b.text \in Seq(LineSet)
  BY DEF Blk
<1> QED
  BY <1>1, EstimateMeaning

\* The blocks that are not empty.
Filled == {b \in Blk : b.text # <<>>}

LEMMA TokensInRun ==
  ASSUME NEW group \in Seq(Filled)
  PROVE  \E t \in [0..Len(group) -> Nat] :
           /\ t[0] = 0
           /\ TokensIn(group) = t[Len(group)]
           /\ \A k \in 1..Len(group) : t[k] = t[k - 1] + EstimateTokens(group[k].text)
<1> DEFINE n    == Len(group)
           s    == group
           next(acc, x) == acc + EstimateTokens(x.text)
           step == [p \in Nat \X Filled |-> next(p[1], p[2])]
<1>1. n \in Nat /\ s \in [1..n -> Filled] /\ DOMAIN s = 1..n
  OBVIOUS
<1>2. 0 \in Nat
  OBVIOUS
<1>3. \A acc \in Nat, x \in Filled : next(acc, x) \in Nat
  BY BlkText DEF Filled
<1> HIDE DEF n, s, next
<1>4. \A acc \in Nat, x \in Filled : step[<<acc, x>>] = next(acc, x)
  OBVIOUS
<1> HIDE DEF step
<1>5. Keeps(step, Nat, n, s) /\ \A b \in Nat, k \in 1..n : step[<<b, s[k]>>] \in Nat
  BY <1>1, <1>3, <1>4 DEF Keeps
<1>6. PICK g \in [SUBSET (1..n) -> Nat] : Folding(g, Nat, step, 0, n, s)
  BY <1>1, <1>2, <1>5, FoldingExists
<1>7. g = [S \in SUBSET DOMAIN s |->
             IF S = {} THEN 0 ELSE next(g[S \ {Max(S)}], s[Max(S)])]
  <2>1. ASSUME NEW S \in SUBSET (1..n)
        PROVE  g[S] = IF S = {} THEN 0 ELSE next(g[S \ {Max(S)}], s[Max(S)])
    <3>1. CASE S = {}
      BY <1>6, <3>1 DEF Folding
    <3>2. CASE S # {}
      <4>1. s[Max(S)] \in Filled /\ g[S \ {Max(S)}] \in Nat
        BY <1>1, <1>6, <3>2, TopIsThere
      <4>2. g[S] = step[<<g[S \ {Max(S)}], s[Max(S)]>>]
        BY <1>6, <3>2, <4>1 DEF Folding
      <4> QED
        BY <1>4, <3>2, <4>1, <4>2
    <3> QED
      BY <3>1, <3>2
  <2> QED
    BY <1>1, <1>6, <2>1
<1>8. PICK h :
        /\ h = [S \in SUBSET DOMAIN s |->
                  IF S = {} THEN 0 ELSE next(h[S \ {Max(S)}], s[Max(S)])]
        /\ TokensIn(group) = h[DOMAIN s]
  BY <1>7 DEF TokensIn, FoldLeft, MapThenFoldSet, s, next
<1>9. Folding(h, Nat, step, 0, n, s)
  <2>1. h[{}] = 0
    BY <1>8
  <2>2. ASSUME NEW S \in SUBSET (1..n), S # {}, h[S \ {Max(S)}] \in Nat
        PROVE  h[S] = step[<<h[S \ {Max(S)}], s[Max(S)]>>]
    <3>1. s[Max(S)] \in Filled
      BY <1>1, <2>2, TopIsThere
    <3>2. h[S] = next(h[S \ {Max(S)}], s[Max(S)])
      BY <1>1, <1>8, <2>2
    <3> QED
      BY <1>4, <2>2, <3>1, <3>2
  <2> QED
    BY <2>1, <2>2 DEF Folding
<1>10. PICK t \in [0..n -> Nat] : Run(t, step, 0, n, s) /\ t[n] = h[1..n]
  BY ONLY <1>1, <1>2, <1>5, <1>9, FoldingByPosition, SMT
<1>11. \A k \in 1..n : t[k] = next(t[k - 1], s[k])
  <2> TAKE k \in 1..n
  <2>1. t[k - 1] \in Nat /\ s[k] \in Filled
    BY <1>1
  <2> QED
    BY <1>4, <1>10, <2>1 DEF Run
<1>12. t[0] = 0 /\ TokensIn(group) = t[n]
  BY <1>1, <1>8, <1>10 DEF Run
<1> QED
  BY <1>1, <1>11, <1>12 DEF n, s, next

\* No block is larger than its group.
LEMMA TokensInAtLeast ==
  ASSUME NEW group \in Seq(Filled)
  PROVE  /\ TokensIn(group) \in Nat
         /\ \A j \in 1..Len(group) : EstimateTokens(group[j].text) <= TokensIn(group)
<1> DEFINE n == Len(group)
<1>1. n \in Nat /\ \A k \in 1..n : EstimateTokens(group[k].text) \in Nat
  BY BlkText DEF Filled
<1>2. PICK t \in [0..n -> Nat] :
        /\ t[0] = 0 /\ TokensIn(group) = t[n]
        /\ \A k \in 1..n : t[k] = t[k - 1] + EstimateTokens(group[k].text)
  BY TokensInRun
<1> HIDE DEF n
<1> DEFINE P(k) == \A j \in 1..k : EstimateTokens(group[j].text) <= t[k]
           Good == {k \in 0..n : P(k)}
<1>3. P(0)
  OBVIOUS
<1>4. ASSUME NEW k \in 0..n, k < n, P(k) PROVE P(k + 1)
  <2>1. k + 1 \in 1..n /\ (k + 1) - 1 = k /\ t[k] \in Nat
    BY <1>1, <1>2, <1>4
  <2> DEFINE e == EstimateTokens(group[k + 1].text)
  <2>2. t[k + 1] = t[k] + e /\ e \in Nat
    BY <1>1, <1>2, <2>1
  <2> HIDE DEF e
  <2>3. ASSUME NEW j \in 1..k + 1 PROVE EstimateTokens(group[j].text) <= t[k + 1]
    <3>1. CASE j = k + 1
      BY <2>1, <2>2, <3>1 DEF e
    <3>2. CASE j # k + 1
      <4>1. j \in 1..k /\ j \in 1..n
        BY <1>1, <2>1, <3>2
      <4>2. EstimateTokens(group[j].text) <= t[k] /\ EstimateTokens(group[j].text) \in Nat
        BY <1>1, <1>4, <4>1
      <4> QED
        BY <2>1, <2>2, <4>2
    <3> QED
      BY <3>1, <3>2
  <2> QED
    BY <2>3
<1>5. P(n)
  <2> HIDE DEF P
  <2>1. 0 \in Good /\ \A k \in 0..n : k < n /\ k \in Good => k + 1 \in Good
    BY <1>1, <1>3, <1>4
  <2>2. 0..n \subseteq Good
    <3> HIDE DEF Good
    <3> QED
      BY <1>1, <2>1, CountUp
  <2> QED
    BY <1>1, <2>2
<1>6. t[n] \in Nat
  BY <1>1, <1>2
<1> QED
  BY <1>2, <1>5, <1>6 DEF n

-----------------------------------------------------------------------------
(* How blocks are packed.                                                  *)

PackAcc == [packed : Seq(Blk), group : Seq(Filled)]

\* Where nothing is carried over, the blocks of a group of several are each
\* below the budget.
Tight(group, overlap) ==
  overlap = 0 /\ Len(group) > 1 =>
    \A j \in 1..Len(group) : EstimateTokens(group[j].text) < ChunkBudget

\* p is a group of neighbours among bs, merged, with the m-th among them.
GroupOf(p, bs, m, overlap) ==
  \E group \in Seq(Filled), a \in Nat :
    /\ group # <<>> /\ Lies(group, bs, a) /\ Tight(group, overlap)
    /\ a <= m /\ m < a + Len(group)
    /\ p = Merge(group)

GroupInv(acc, bs, k, overlap) ==
  /\ acc \in PackAcc
  /\ k > 0 => acc.group # <<>>
  /\ \E a \in Nat : Lies(acc.group, bs, a) /\ a + Len(acc.group) = k + 1
  /\ Tight(acc.group, overlap)
  /\ \A j \in DOMAIN acc.packed :
       \E m \in 1..Len(bs) : GroupOf(acc.packed[j], bs, m, overlap)
  /\ \A m \in 1..k :
       m > k - Len(acc.group) \/ \E j \in DOMAIN acc.packed :
                                   GroupOf(acc.packed[j], bs, m, overlap)

LEMMA MergeOfFilled ==
  ASSUME NEW group \in Seq(Filled), group # <<>>
  PROVE  Merge(group) \in Blk
<1>1. group \in Groups
  BY DEF Groups, Filled
<1> QED
  BY <1>1, MergeType

\* The two ways for a block to be added.
LEMMA AddBlockMeaning ==
  ASSUME NEW acc \in PackAcc, NEW b \in Filled, NEW overlap \in Nat
  PROVE  LET r == AddBlock(acc, b, overlap)
             over == /\ acc.group # <<>>
                     /\ TokensIn(acc.group) + EstimateTokens(b.text) > ChunkBudget
         IN /\ r \in PackAcc
            /\ over => /\ r.packed = Append(acc.packed, Merge(acc.group))
                       /\ r.group = Append(CarryOver(acc.group, overlap), b)
            /\ ~over => r.packed = acc.packed /\ r.group = Append(acc.group, b)
<1> DEFINE A == Seq(Blk)
           G == Seq(Filled)
           over == /\ acc.group # <<>>
                   /\ TokensIn(acc.group) + EstimateTokens(b.text) > ChunkBudget
           p == Append(acc.packed, Merge(acc.group))
           g == Append(CarryOver(acc.group, overlap), b)
           h == Append(acc.group, b)
<1>1. acc \in [packed : A, group : G] /\ acc.packed \in A /\ acc.group \in G
  BY DEF PackAcc
<1>2. acc.group # <<>> => p \in A
  BY <1>1, MergeOfFilled
<1>3. CarryOver(acc.group, overlap) \in G
  BY <1>1, CarryOverType
<1>4. g \in G /\ h \in G
  BY <1>1, <1>3
<1>5. AddBlock(acc, b, overlap) =
        IF over THEN [packed |-> p, group |-> g] ELSE [acc EXCEPT !.group = h]
  BY <1>1 DEF AddBlock
<1> HIDE DEF A, G, p, g, h
<1>6. CASE over
  <2>1. AddBlock(acc, b, overlap) = [packed |-> p, group |-> g]
    BY <1>5, <1>6
  <2> QED
    BY <1>2, <1>4, <1>6, <2>1 DEF PackAcc, A, G, p, g
<1>7. CASE ~over
  <2>1. AddBlock(acc, b, overlap) = [acc EXCEPT !.group = h]
    BY <1>5, <1>7
  <2> HIDE DEF over
  <2>2. LET r == AddBlock(acc, b, overlap)
        IN r \in [packed : A, group : G] /\ r.packed = acc.packed /\ r.group = h
    BY <1>1, <1>4, <2>1
  <2> QED
    BY <1>7, <2>2 DEF PackAcc, A, G, h, over
<1> QED
  BY <1>6, <1>7

LEMMA PackedRun ==
  ASSUME NEW bs \in Seq(Filled), NEW overlap \in Nat
  PROVE  \E t \in [0..Len(bs) -> PackAcc] :
           /\ t[0] = NoGroup
           /\ Packed(bs, overlap) = EndGroup(t[Len(bs)])
           /\ \A k \in 1..Len(bs) : t[k] = AddBlock(t[k - 1], bs[k], overlap)
<1> DEFINE n    == Len(bs)
           s    == bs
           next(acc, x) == AddBlock(acc, x, overlap)
           step == [p \in PackAcc \X Filled |-> next(p[1], p[2])]
<1>1. n \in Nat /\ s \in [1..n -> Filled] /\ DOMAIN s = 1..n
  OBVIOUS
<1>2. NoGroup \in PackAcc
  BY DEF NoGroup, PackAcc
<1>3. \A acc \in PackAcc, x \in Filled : next(acc, x) \in PackAcc
  BY AddBlockMeaning
<1> HIDE DEF n, s, next
<1>4. \A acc \in PackAcc, x \in Filled : step[<<acc, x>>] = next(acc, x)
  OBVIOUS
<1> HIDE DEF step
<1>5. /\ Keeps(step, PackAcc, n, s)
      /\ \A b \in PackAcc, k \in 1..n : step[<<b, s[k]>>] \in PackAcc
  BY <1>1, <1>3, <1>4 DEF Keeps
<1>6. PICK g \in [SUBSET (1..n) -> PackAcc] : Folding(g, PackAcc, step, NoGroup, n, s)
  BY <1>1, <1>2, <1>5, FoldingExists
<1>7. g = [S \in SUBSET DOMAIN s |->
             IF S = {} THEN NoGroup ELSE next(g[S \ {Max(S)}], s[Max(S)])]
  <2>1. ASSUME NEW S \in SUBSET (1..n)
        PROVE  g[S] = IF S = {} THEN NoGroup ELSE next(g[S \ {Max(S)}], s[Max(S)])
    <3>1. CASE S = {}
      BY <1>6, <3>1 DEF Folding
    <3>2. CASE S # {}
      <4>1. s[Max(S)] \in Filled /\ g[S \ {Max(S)}] \in PackAcc
        BY <1>1, <1>6, <3>2, TopIsThere
      <4>2. g[S] = step[<<g[S \ {Max(S)}], s[Max(S)]>>]
        BY <1>6, <3>2, <4>1 DEF Folding
      <4> QED
        BY <1>4, <3>2, <4>1, <4>2
    <3> QED
      BY <3>1, <3>2
  <2> QED
    BY <1>1, <1>6, <2>1
<1>8. PICK h :
        /\ h = [S \in SUBSET DOMAIN s |->
                  IF S = {} THEN NoGroup ELSE next(h[S \ {Max(S)}], s[Max(S)])]
        /\ Packed(bs, overlap) = EndGroup(h[DOMAIN s])
  BY <1>7 DEF Packed, FoldLeft, MapThenFoldSet, s, next
<1>9. Folding(h, PackAcc, step, NoGroup, n, s)
  <2>1. h[{}] = NoGroup
    BY <1>8
  <2>2. ASSUME NEW S \in SUBSET (1..n), S # {}, h[S \ {Max(S)}] \in PackAcc
        PROVE  h[S] = step[<<h[S \ {Max(S)}], s[Max(S)]>>]
    <3>1. s[Max(S)] \in Filled
      BY <1>1, <2>2, TopIsThere
    <3>2. h[S] = next(h[S \ {Max(S)}], s[Max(S)])
      BY <1>1, <1>8, <2>2
    <3> QED
      BY <1>4, <2>2, <3>1, <3>2
  <2> QED
    BY <2>1, <2>2 DEF Folding
<1>10. PICK t \in [0..n -> PackAcc] : Run(t, step, NoGroup, n, s) /\ t[n] = h[1..n]
  BY ONLY <1>1, <1>2, <1>5, <1>9, FoldingByPosition, SMT
<1>11. \A k \in 1..n : t[k] = next(t[k - 1], s[k])
  <2> TAKE k \in 1..n
  <2>1. t[k - 1] \in PackAcc /\ s[k] \in Filled
    BY <1>1
  <2> QED
    BY <1>4, <1>10, <2>1 DEF Run
<1>12. t[0] = NoGroup /\ Packed(bs, overlap) = EndGroup(t[n])
  BY <1>1, <1>8, <1>10 DEF Run
<1> QED
  BY <1>1, <1>11, <1>12 DEF n, s, next

LEMMA AddBlockKeeps ==
  ASSUME NEW bs \in Seq(Filled), NEW overlap \in Nat,
         overlap = 0 \/ \A k \in 1..Len(bs) : ~bs[k].atomic,
         \A k \in 1..Len(bs) : bs[k].text[1] # Empty,
         NEW k \in 1..Len(bs), NEW acc, GroupInv(acc, bs, k - 1, overlap)
  PROVE  GroupInv(AddBlock(acc, bs[k], overlap), bs, k, overlap)
<1> DEFINE b    == bs[k]
           r    == AddBlock(acc, b, overlap)
           g    == acc.group
           over == g # <<>> /\ TokensIn(g) + EstimateTokens(b.text) > ChunkBudget
<1>1. b \in Filled /\ acc \in PackAcc /\ g \in Seq(Filled) /\ acc.packed \in Seq(Blk)
  BY DEF GroupInv, PackAcc
<1>2. /\ r \in PackAcc
      /\ over => /\ r.packed = Append(acc.packed, Merge(g))
                 /\ r.group = Append(CarryOver(g, overlap), b)
      /\ ~over => r.packed = acc.packed /\ r.group = Append(g, b)
  BY <1>1, AddBlockMeaning
<1>3. PICK a \in Nat : Lies(g, bs, a) /\ a + Len(g) = (k - 1) + 1
  BY DEF GroupInv
<1>4. /\ a \in Nat \ {0} /\ Len(g) \in Nat /\ a + Len(g) = k /\ k \in Nat \ {0}
      /\ Len(bs) \in Nat /\ k <= Len(bs)
  BY <1>1, <1>3 DEF Lies
<1>5. \A j \in 1..Len(g) : g[j] = bs[a + j - 1] /\ a + j - 1 \in 1..Len(bs)
  BY <1>3, <1>4 DEF Lies
<1>6. \A j \in 1..Len(g) : /\ EstimateTokens(g[j].text) \in Nat
                           /\ EstimateTokens(g[j].text) > 0
  <2> TAKE j \in 1..Len(g)
  <2>0. g[j] \in Filled
    BY <1>1
  <2>1. g[j].text \in Seq(LineSet) /\ g[j].text # <<>>
    BY <2>0 DEF Filled, Blk
  <2>2. g[j].text[1] # Empty
    BY <1>5
  <2> QED
    BY <2>1, <2>2, EstimateMeaning
<1>7. EstimateTokens(b.text) \in Nat /\ EstimateTokens(b.text) > 0
  <2>1. b.text \in Seq(LineSet) /\ b.text # <<>> /\ b.text[1] # Empty
    BY <1>1 DEF Filled, Blk
  <2> QED
    BY <2>1, EstimateMeaning
<1>8. /\ TokensIn(g) \in Nat
      /\ \A j \in 1..Len(g) : EstimateTokens(g[j].text) <= TokensIn(g)
  BY <1>1, TokensInAtLeast
<1>9. ChunkBudget \in Nat
  BY ChunkingAssumption
<1> HIDE DEF b, r, g, over
<1>10. CASE over
  <2> DEFINE c == CarryOver(g, overlap)
             m == Merge(g)
  <2>1. g # <<>> /\ Len(g) > 0
    BY <1>1, <1>10 DEF over
  <2>2. overlap = 0 \/ \A j \in 1..Len(g) : ~g[j].atomic
    BY <1>5
  <2>3. g \in Seq(Blk)
    BY <1>1 DEF Filled
  <2>4. PICK f \in 1..Len(g) + 1 : Lies(c, g, f) /\ f + Len(c) = Len(g) + 1
    BY <2>2, <2>3, CarryOverMeaning
  <2>5. c \in Seq(Filled) /\ (overlap = 0 => c = <<>>)
    BY <1>1, <2>2, <2>3, CarryOverType, CarryOverMeaning
  <2>6. m \in Blk
    BY <1>1, <2>1, MergeOfFilled
  <2>7. r.packed = Append(acc.packed, m) /\ r.group = Append(c, b)
    BY <1>2, <1>10
  <2> HIDE DEF c
  <2>8. Len(c) \in Nat /\ f \in Nat \ {0} /\ f + Len(c) = Len(g) + 1
    BY <2>4, <2>5
  <2>9. Lies(c, bs, a + f - 1)
    BY <1>1, <1>3, <2>4, <2>5, LiesWithin
  <2>10. a + f - 1 \in Nat /\ (a + f - 1) + Len(c) = k
    BY <1>4, <2>8
  <2>11. /\ Append(c, bs[k]) \in Seq(Filled) /\ Len(Append(c, bs[k])) = Len(c) + 1
         /\ Lies(Append(c, bs[k]), bs, a + f - 1)
    BY <1>4, <2>5, <2>9, <2>10, LiesLonger
  <2>12. Lies(r.group, bs, a + f - 1) /\ Len(r.group) = Len(c) + 1 /\ r.group # <<>>
    BY <2>7, <2>8, <2>11 DEF b
  <2>13. Tight(r.group, overlap)
    <3>1. overlap = 0 => Len(c) = 0
      BY <2>5
    <3> QED
      BY <2>12, <3>1 DEF Tight
  <2>14. \A x \in Nat : a <= x /\ x < k => GroupOf(m, bs, x, overlap)
    <3> TAKE x \in Nat
    <3>1. Tight(g, overlap)
      BY DEF GroupInv, g
    <3> QED
      BY <1>1, <1>3, <1>4, <2>1, <3>1 DEF GroupOf
  <2>15. /\ DOMAIN r.packed = 1..Len(acc.packed) + 1 /\ Len(acc.packed) \in Nat
         /\ DOMAIN acc.packed = 1..Len(acc.packed)
         /\ r.packed[Len(acc.packed) + 1] = m
         /\ \A j \in 1..Len(acc.packed) : r.packed[j] = acc.packed[j]
    BY <1>1, <2>6, <2>7
  <2> HIDE DEF m
  <2>16. \A j \in DOMAIN r.packed : j = Len(acc.packed) + 1 \/ j \in DOMAIN acc.packed
    BY <2>15
  <2>17. ASSUME NEW j \in DOMAIN r.packed
         PROVE  \E x \in 1..Len(bs) : GroupOf(r.packed[j], bs, x, overlap)
    <3>1. CASE j = Len(acc.packed) + 1
      <4>1. a \in 1..Len(bs) /\ a \in Nat /\ a <= a /\ a < k
        BY <1>4, <2>1
      <4> QED
        BY <2>14, <2>15, <3>1, <4>1
    <3>2. CASE j \in DOMAIN acc.packed
      BY <2>15, <3>2 DEF GroupInv
    <3> QED
      BY <2>16, <3>1, <3>2
  <2>18. ASSUME NEW x \in 1..k, ~ (x > k - Len(r.group))
         PROVE  \E j \in DOMAIN r.packed : GroupOf(r.packed[j], bs, x, overlap)
    <3>1. x \in 1..k - 1 /\ x \in Nat /\ x < k
      BY <1>4, <2>8, <2>12, <2>18
    <3>2. CASE a <= x
      <4>1. Len(acc.packed) + 1 \in DOMAIN r.packed
        BY <2>15
      <4> QED
        BY <2>14, <2>15, <3>1, <3>2, <4>1
    <3>3. CASE ~ (a <= x)
      <4>1. ~ (x > (k - 1) - Len(g))
        BY <1>4, <3>1, <3>3
      <4>2. PICK j \in DOMAIN acc.packed : GroupOf(acc.packed[j], bs, x, overlap)
        BY <3>1, <4>1 DEF GroupInv, g
      <4>3. j \in DOMAIN r.packed /\ r.packed[j] = acc.packed[j]
        BY <2>15
      <4> QED
        BY <4>2, <4>3
    <3> QED
      BY <3>2, <3>3
  <2>19. \E y \in Nat : Lies(r.group, bs, y) /\ y + Len(r.group) = k + 1
    <3>0. Len(r.group) = Len(c) + 1
      BY <2>12
    <3>9. (a + f - 1) + (Len(c) + 1) = k + 1
      BY ONLY <1>4, <2>8, <2>10
    <3>1. (a + f - 1) + Len(r.group) = k + 1
      BY <3>0, <3>9
    <3> QED
      BY <2>10, <2>12, <3>1
  <2>20. GroupInv(r, bs, k, overlap)
    BY <1>2, <2>12, <2>13, <2>17, <2>18, <2>19 DEF GroupInv
  <2> QED
    BY <2>20 DEF r, b
<1>11. CASE ~over
  <2>1. r.packed = acc.packed /\ r.group = Append(g, b)
    BY <1>2, <1>11
  <2>2. /\ Append(g, bs[k]) \in Seq(Filled) /\ Len(Append(g, bs[k])) = Len(g) + 1
        /\ Lies(Append(g, bs[k]), bs, a)
    BY <1>1, <1>3, <1>4, LiesLonger
  <2>30. Lies(r.group, bs, a) /\ Len(r.group) = Len(g) + 1
    BY <2>1, <2>2 DEF b
  <2>31. r.group # <<>>
    <3>1. Len(r.group) # 0
      BY <1>4, <2>30
    <3> QED
      BY <3>1
  <2>3. Lies(r.group, bs, a) /\ Len(r.group) = Len(g) + 1 /\ r.group # <<>>
    BY <2>30, <2>31
  <2>4. Tight(r.group, overlap)
    <3>1. SUFFICES ASSUME Len(r.group) > 1
                   PROVE  \A j \in 1..Len(r.group) :
                            EstimateTokens(r.group[j].text) < ChunkBudget
      BY DEF Tight
    <3>2. g # <<>> /\ Len(g) > 0
      BY <1>1, <1>4, <2>3, <3>1
    <3>3. ~ (TokensIn(g) + EstimateTokens(b.text) > ChunkBudget)
      BY <1>11, <3>2 DEF over
    <3>4. TokensIn(g) > 0
      <4>1. 1 \in 1..Len(g)
        BY <1>4, <3>2
      <4> QED
        BY <1>6, <1>8, <4>1
    <3>5. EstimateTokens(b.text) < ChunkBudget /\ TokensIn(g) < ChunkBudget
      BY <1>7, <1>8, <1>9, <3>3, <3>4
    <3> TAKE j \in 1..Len(r.group)
    <3>6. CASE j = Len(g) + 1
      <4>1. r.group[j] = b
        BY <1>1, <2>1, <3>6
      <4> QED
        BY <3>5, <4>1
    <3>7. CASE j # Len(g) + 1
      <4>1. j \in 1..Len(g)
        BY <1>4, <2>3, <3>7
      <4>2. r.group[j] = g[j]
        BY <1>1, <2>1, <4>1
      <4> QED
        BY <1>6, <1>8, <1>9, <3>5, <4>1, <4>2
    <3> QED
      BY <3>6, <3>7
  <2>5. ASSUME NEW x \in 1..k, ~ (x > k - Len(r.group))
        PROVE  \E j \in DOMAIN r.packed : GroupOf(r.packed[j], bs, x, overlap)
    <3>1. x \in 1..k - 1 /\ ~ (x > (k - 1) - Len(g))
      BY <1>4, <2>3, <2>5
    <3> QED
      BY <2>1, <3>1 DEF GroupInv, g
  <2>6. \E y \in Nat : Lies(r.group, bs, y) /\ y + Len(r.group) = k + 1
    <3>0. Len(r.group) = Len(g) + 1
      BY <2>3
    <3>9. a + (Len(g) + 1) = k + 1
      BY ONLY <1>4
    <3>1. a + Len(r.group) = k + 1
      BY <3>0, <3>9
    <3>2. a \in Nat /\ Lies(r.group, bs, a)
      BY <1>4, <2>3
    <3> QED
      BY <3>1, <3>2
  <2>7. \A j \in DOMAIN r.packed : \E x \in 1..Len(bs) : GroupOf(r.packed[j], bs, x, overlap)
    BY <2>1 DEF GroupInv
  <2>8. GroupInv(r, bs, k, overlap)
    BY <1>2, <2>3, <2>4, <2>5, <2>6, <2>7 DEF GroupInv
  <2> QED
    BY <2>8 DEF r, b
<1> QED
  BY <1>10, <1>11

\* Every group that is packed is one of neighbours, and every block is in one.
LEMMA PackedMeaning ==
  ASSUME NEW bs \in Seq(Filled), NEW overlap \in Nat,
         overlap = 0 \/ \A k \in 1..Len(bs) : ~bs[k].atomic,
         \A k \in 1..Len(bs) : bs[k].text[1] # Empty
  PROVE  LET p == Packed(bs, overlap)
         IN /\ p \in Seq(Blk)
            /\ \A j \in DOMAIN p : \E m \in 1..Len(bs) : GroupOf(p[j], bs, m, overlap)
            /\ \A m \in 1..Len(bs) : \E j \in DOMAIN p : GroupOf(p[j], bs, m, overlap)
<1> DEFINE n == Len(bs)
           p == Packed(bs, overlap)
<1>1. n \in Nat
  OBVIOUS
<1>2. PICK t \in [0..n -> PackAcc] :
        /\ t[0] = NoGroup
        /\ p = EndGroup(t[n])
        /\ \A k \in 1..n : t[k] = AddBlock(t[k - 1], bs[k], overlap)
  BY PackedRun
<1> HIDE DEF p
<1> DEFINE Good == {k \in 0..n : GroupInv(t[k], bs, k, overlap)}
<1>3. 0 \in Good
  <2>1. <<>> \in Seq(Filled) /\ Lies(<<>>, bs, 1) /\ 1 + Len(<<>>) = 0 + 1
    BY <1>1 DEF Lies
  <2>2. GroupInv(NoGroup, bs, 0, overlap)
    <3>1. NoGroup \in PackAcc /\ NoGroup.group = <<>> /\ NoGroup.packed = <<>>
      BY DEF NoGroup, PackAcc
    <3>2. Tight(<<>>, overlap)
      BY DEF Tight
    <3>3. 1 \in Nat
      OBVIOUS
    <3> QED
      BY <2>1, <3>1, <3>2, <3>3 DEF GroupInv
  <2> QED
    BY <1>1, <1>2, <2>2
<1>4. ASSUME NEW k \in 0..n, k < n, k \in Good PROVE k + 1 \in Good
  <2>1. /\ k + 1 \in 1..n /\ (k + 1) - 1 = k /\ k + 1 \in 0..n
        /\ GroupInv(t[k], bs, k, overlap)
    BY <1>1, <1>4
  <2>2. t[k + 1] = AddBlock(t[k], bs[k + 1], overlap)
    BY <1>2, <2>1
  <2>3. GroupInv(t[k], bs, (k + 1) - 1, overlap)
    BY <2>1
  <2>4. GroupInv(AddBlock(t[k], bs[k + 1], overlap), bs, k + 1, overlap)
    BY <2>1, <2>3, AddBlockKeeps
  <2> QED
    BY <2>1, <2>2, <2>4
<1>5. GroupInv(t[n], bs, n, overlap)
  <2>1. 0..n \subseteq Good
    <3> HIDE DEF Good
    <3> QED
      BY <1>1, <1>3, <1>4, CountUp
  <2> QED
    BY <1>1, <2>1
<1> DEFINE g == t[n].group
           q == t[n].packed
<1>6. g \in Seq(Filled) /\ q \in Seq(Blk) /\ (n > 0 => g # <<>>)
  BY <1>5 DEF GroupInv, PackAcc
<1>7. PICK a \in Nat : Lies(g, bs, a) /\ a + Len(g) = n + 1
  BY <1>5 DEF GroupInv
<1>8. /\ \A j \in DOMAIN q : \E m \in 1..n : GroupOf(q[j], bs, m, overlap)
      /\ \A m \in 1..n : m > n - Len(g) \/ \E j \in DOMAIN q : GroupOf(q[j], bs, m, overlap)
      /\ Tight(g, overlap)
  BY <1>5 DEF GroupInv
<1>9. p = IF g = <<>> THEN q ELSE Append(q, Merge(g))
  BY <1>2 DEF EndGroup
<1> HIDE DEF g, q
<1>10. CASE g = <<>>
  <2>1. n = 0 /\ p = q /\ Len(g) = 0
    BY <1>1, <1>6, <1>9, <1>10
  <2> QED
    BY <1>6, <1>8, <2>1 DEF p
<1>11. CASE g # <<>>
  <2> DEFINE m == Merge(g)
  <2>1. /\ m \in Blk /\ Len(g) \in Nat \ {0} /\ a \in Nat \ {0} /\ a \in 1..n
        /\ Len(g) = n + 1 - a
    BY <1>1, <1>6, <1>7, <1>11, MergeOfFilled DEF Lies
  <2>2. \A x \in 1..n : a <= x => GroupOf(m, bs, x, overlap)
    <3> TAKE x \in 1..n
    <3>1. x \in Nat /\ x < a + Len(g)
      BY <1>1, <2>1
    <3> QED
      BY <1>6, <1>7, <1>8, <1>11, <2>1, <3>1 DEF GroupOf
  <2>3. /\ p \in Seq(Blk) /\ DOMAIN p = 1..Len(q) + 1 /\ Len(q) \in Nat
        /\ DOMAIN q = 1..Len(q)
        /\ p[Len(q) + 1] = m /\ \A j \in 1..Len(q) : p[j] = q[j]
    BY <1>6, <1>9, <1>11, <2>1
  <2> HIDE DEF m
  <2>4. ASSUME NEW j \in DOMAIN p
        PROVE  \E x \in 1..n : GroupOf(p[j], bs, x, overlap)
    <3>1. CASE j = Len(q) + 1
      <4>1. a <= a
        BY <2>1
      <4> QED
        BY <2>1, <2>2, <2>3, <3>1, <4>1
    <3>2. CASE j \in DOMAIN q
      BY <1>8, <2>3, <3>2
    <3> QED
      BY <2>3, <3>1, <3>2
  <2>5. ASSUME NEW x \in 1..n
        PROVE  \E j \in DOMAIN p : GroupOf(p[j], bs, x, overlap)
    <3>1. CASE a <= x
      <4>1. Len(q) + 1 \in DOMAIN p
        BY <2>3
      <4> QED
        BY <2>2, <2>3, <3>1, <4>1
    <3>2. CASE ~ (a <= x)
      <4>1. ~ (x > n - Len(g))
        BY <1>1, <2>1, <3>2
      <4>2. PICK j \in DOMAIN q : GroupOf(q[j], bs, x, overlap)
        BY <1>8, <4>1
      <4>3. j \in DOMAIN p /\ p[j] = q[j]
        BY <2>3
      <4> QED
        BY <4>2, <4>3
    <3> QED
      BY <3>1, <3>2
  <2> QED
    BY <2>3, <2>4, <2>5 DEF p
<1> QED
  BY <1>10, <1>11

-----------------------------------------------------------------------------
(* How what is over the budget is cut.                                     *)

ByAcc == [parts : Seq(Blk), current : Seq(LineSet), used : Int, start : Int]

LEMMA FlushMeaning ==
  ASSUME NEW acc \in ByAcc
  PROVE  LET p == Block(acc.start, acc.current, FALSE)
         IN /\ Flush(acc) \in Seq(Blk) /\ acc.parts \in Seq(Blk)
            /\ acc.current \in Seq(LineSet) /\ acc.start \in Int /\ acc.used \in Int
            /\ p \in Blk
            /\ Spelled(acc.current) => Flush(acc) = Append(acc.parts, p)
            /\ ~Spelled(acc.current) => Flush(acc) = acc.parts
<1> DEFINE p == Block(acc.start, acc.current, FALSE)
<1>1. /\ acc.parts \in Seq(Blk) /\ acc.current \in Seq(LineSet)
      /\ acc.start \in Int /\ acc.used \in Int
  BY DEF ByAcc
<1>2. p \in Blk
  BY <1>1, BlockType
<1>3. Flush(acc) = IF Spelled(acc.current) THEN Append(acc.parts, p) ELSE acc.parts
  BY DEF Flush
<1> HIDE DEF p
<1>4. Append(acc.parts, p) \in Seq(Blk)
  BY <1>1, <1>2
<1> QED
  BY <1>1, <1>2, <1>3, <1>4 DEF p

\* The two ways for a line to be added.
LEMMA AddLineMeaning ==
  ASSUME NEW acc \in ByAcc, NEW line \in LineSet, NEW at \in Int
  PROVE  LET r    == AddLine(acc, line, at)
             cost == BytesOf[line] + 1
             over == acc.current # <<>> /\ acc.used + cost > BudgetBytes
         IN /\ r \in ByAcc /\ cost \in Nat
            /\ over => /\ r.parts = Flush(acc) /\ r.current = <<line>>
                       /\ r.used = cost /\ r.start = at
            /\ ~over => /\ r.parts = acc.parts /\ r.current = Append(acc.current, line)
                        /\ r.used = acc.used + cost /\ r.start = acc.start
<1> DEFINE A    == Seq(Blk)
           L    == Seq(LineSet)
           cost == BytesOf[line] + 1
           over == acc.current # <<>> /\ acc.used + cost > BudgetBytes
           f    == Flush(acc)
           one  == <<line>>
           more == Append(acc.current, line)
           r    == AddLine(acc, line, at)
<1>1. /\ acc \in [parts : A, current : L, used : Int, start : Int]
      /\ f \in A /\ acc.current \in L /\ acc.used \in Int /\ acc.start \in Int
  BY FlushMeaning DEF ByAcc
<1>2. cost \in Nat
  BY ChunkingAssumption
<1>3. one \in L /\ more \in L
  BY <1>1
<1>4. r = IF over THEN [parts |-> f, current |-> one, used |-> cost, start |-> at]
          ELSE [acc EXCEPT !.current = more, !.used = acc.used + cost]
  BY <1>1 DEF AddLine
<1> HIDE DEF A, L, cost, f, one, more, r
<1>5. CASE over
  <2>1. r = [parts |-> f, current |-> one, used |-> cost, start |-> at]
    BY <1>4, <1>5
  <2>2. r \in [parts : A, current : L, used : Int, start : Int]
    BY <1>1, <1>2, <1>3, <2>1
  <2>3. r.parts = f /\ r.current = one /\ r.used = cost /\ r.start = at
    BY <2>1
  <2> QED
    BY <1>2, <1>5, <2>2, <2>3 DEF ByAcc, A, L, cost, f, one, r
<1>6. CASE ~over
  <2>1. r = [acc EXCEPT !.current = more, !.used = acc.used + cost]
    BY <1>4, <1>6
  <2>2. acc.used + cost \in Int
    BY <1>1, <1>2
  <2> HIDE DEF over
  <2>3. r \in [parts : A, current : L, used : Int, start : Int]
    BY <1>1, <1>3, <2>1, <2>2
  <2>4. /\ r.parts = acc.parts /\ r.current = more /\ r.used = acc.used + cost
        /\ r.start = acc.start
    BY <1>1, <2>1
  <2> QED
    BY <1>2, <1>6, <2>3, <2>4 DEF ByAcc, A, L, cost, over, more, r
<1> QED
  BY <1>5, <1>6

LEMMA ByReadType ==
  ASSUME NEW b \in Blk, NEW acc \in ByAcc, NEW i \in 1..Len(b.text)
  PROVE  AddLine(acc, b.text[i], b.first + i - 1) \in ByAcc
<1>1. b.text \in Seq(LineSet) /\ b.first \in Int
  BY DEF Blk
<1>2. b.text[i] \in LineSet /\ b.first + i - 1 \in Int
  BY <1>1
<1> QED
  BY <1>2, AddLineMeaning

LEMMA LinePartsRun ==
  ASSUME NEW m \in Blk
  PROVE  \E t \in [0..Len(m.text) -> ByAcc] :
           /\ t[0] = NoParts(m)
           /\ LineParts(m) = Flush(t[Len(m.text)])
           /\ \A k \in 1..Len(m.text) : t[k] = AddLine(t[k - 1], m.text[k], m.first + k - 1)
<1> DEFINE n    == Len(m.text)
           s    == Numbers(m.text)
           next(acc, x) == AddLine(acc, m.text[x], m.first + x - 1)
           step == [p \in ByAcc \X (1..Len(m.text)) |-> next(p[1], p[2])]
<1>1. /\ n \in Nat /\ s \in [1..n -> 1..Len(m.text)] /\ DOMAIN s = 1..n
      /\ \A k \in 1..n : s[k] = k
  BY DEF Numbers, Blk
<1>2. NoParts(m) \in ByAcc
  BY DEF NoParts, ByAcc, Blk
<1>3. \A acc \in ByAcc, x \in (1..Len(m.text)) : next(acc, x) \in ByAcc
  BY ByReadType
<1> HIDE DEF n, s, next
<1>4. \A acc \in ByAcc, x \in (1..Len(m.text)) : step[<<acc, x>>] = next(acc, x)
  OBVIOUS
<1> HIDE DEF step
<1>5. Keeps(step, ByAcc, n, s) /\ \A b \in ByAcc, k \in 1..n : step[<<b, s[k]>>] \in ByAcc
  BY <1>1, <1>3, <1>4 DEF Keeps
<1>6. PICK g \in [SUBSET (1..n) -> ByAcc] : Folding(g, ByAcc, step, NoParts(m), n, s)
  BY <1>1, <1>2, <1>5, FoldingExists
<1>7. g = [S \in SUBSET DOMAIN s |->
             IF S = {} THEN NoParts(m) ELSE next(g[S \ {Max(S)}], s[Max(S)])]
  <2>1. ASSUME NEW S \in SUBSET (1..n)
        PROVE  g[S] = IF S = {} THEN NoParts(m) ELSE next(g[S \ {Max(S)}], s[Max(S)])
    <3>1. CASE S = {}
      BY <1>6, <3>1 DEF Folding
    <3>2. CASE S # {}
      <4>1. s[Max(S)] \in (1..Len(m.text)) /\ g[S \ {Max(S)}] \in ByAcc
        BY <1>1, <1>6, <3>2, TopIsThere
      <4>2. g[S] = step[<<g[S \ {Max(S)}], s[Max(S)]>>]
        BY <1>6, <3>2, <4>1 DEF Folding
      <4> QED
        BY <1>4, <3>2, <4>1, <4>2
    <3> QED
      BY <3>1, <3>2
  <2> QED
    BY <1>1, <1>6, <2>1
<1>8. PICK h :
        /\ h = [S \in SUBSET DOMAIN s |->
                  IF S = {} THEN NoParts(m) ELSE next(h[S \ {Max(S)}], s[Max(S)])]
        /\ LineParts(m) = Flush(h[DOMAIN s])
  BY <1>7 DEF LineParts, FoldLeft, MapThenFoldSet, s, next
<1>9. Folding(h, ByAcc, step, NoParts(m), n, s)
  <2>1. h[{}] = NoParts(m)
    BY <1>8
  <2>2. ASSUME NEW S \in SUBSET (1..n), S # {}, h[S \ {Max(S)}] \in ByAcc
        PROVE  h[S] = step[<<h[S \ {Max(S)}], s[Max(S)]>>]
    <3>1. s[Max(S)] \in (1..Len(m.text))
      BY <1>1, <2>2, TopIsThere
    <3>2. h[S] = next(h[S \ {Max(S)}], s[Max(S)])
      BY <1>1, <1>8, <2>2
    <3> QED
      BY <1>4, <2>2, <3>1, <3>2
  <2> QED
    BY <2>1, <2>2 DEF Folding
<1>10. PICK t \in [0..n -> ByAcc] : Run(t, step, NoParts(m), n, s) /\ t[n] = h[1..n]
  BY ONLY <1>1, <1>2, <1>5, <1>9, FoldingByPosition, SMT
<1>11. \A k \in 1..n : t[k] = next(t[k - 1], s[k])
  <2> TAKE k \in 1..n
  <2>1. t[k - 1] \in ByAcc /\ s[k] \in (1..Len(m.text))
    BY <1>1
  <2> QED
    BY <1>4, <1>10, <2>1 DEF Run
<1>12. t[0] = NoParts(m) /\ LineParts(m) = Flush(t[n])
  BY <1>1, <1>8, <1>10 DEF Run
<1> QED
  BY <1>1, <1>11, <1>12 DEF n, s, next

\* p is cut from m: within the budget unless it is one line, and no shorter
\* than it had to be.
Piece(p, m, d, c) ==
  /\ Placed(p, d) /\ m.first <= p.first /\ p.last <= m.last /\ ~p.atomic
  /\ p.first = p.last \/ c[p.last] - c[p.first - 1] <= BudgetBytes
  /\ p.last = m.last \/ c[p.last + 1] - c[p.first - 1] > BudgetBytes

PiecesTo(bs, m, d, c, e) ==
  /\ bs \in Seq(Blk)
  /\ \A j \in DOMAIN bs : Piece(bs[j], m, d, c)
  /\ \A n \in m.first..e : d[n] = Empty \/ InSome(n, bs)

ByInv(acc, m, d, c, k) ==
  /\ acc \in ByAcc
  /\ Lies(acc.current, d, acc.start) /\ m.first <= acc.start
  /\ acc.start + Len(acc.current) = m.first + k
  /\ k > 0 => acc.current # <<>>
  /\ acc.used = c[m.first + k - 1] - c[acc.start - 1]
  /\ Len(acc.current) <= 1 \/ acc.used <= BudgetBytes
  /\ PiecesTo(acc.parts, m, d, c, acc.start - 1)

LEMMA FlushKeeps ==
  ASSUME NEW d \in Seq(LineSet), NEW m, Placed(m, d), NEW c, Costs(c, d),
         NEW k \in 0..Len(m.text), NEW acc, ByInv(acc, m, d, c, k), acc.current # <<>>,
         k = Len(m.text) \/ c[m.first + k] - c[acc.start - 1] > BudgetBytes
  PROVE  PiecesTo(Flush(acc), m, d, c, m.first + k - 1)
<1> DEFINE a == acc.start
           s == acc.current
           e == m.first + k - 1
           p == Block(a, s, FALSE)
           bs == acc.parts
<1>1. acc \in ByAcc /\ bs \in Seq(Blk) /\ s \in Seq(LineSet) /\ a \in Int /\ p \in Blk
  BY FlushMeaning DEF ByInv
<1>2. /\ Lies(s, d, a) /\ m.first <= a /\ a + Len(s) = m.first + k
      /\ acc.used = c[e] - c[a - 1] /\ (Len(s) <= 1 \/ acc.used <= BudgetBytes)
      /\ PiecesTo(bs, m, d, c, a - 1)
  BY DEF ByInv
<1>3. /\ m.first \in Nat \ {0} /\ m.last \in Nat /\ Len(m.text) = m.last - m.first + 1
      /\ k \in Nat /\ k <= Len(m.text) /\ Len(m.text) \in Nat
  BY PlacedMeaning
<1>4. p.first = a /\ p.last = a + Len(s) - 1 /\ p.text = s /\ ~p.atomic
  BY <1>1, BlockType
<1>5. s # <<>> /\ Len(s) \in Nat \ {0}
  BY <1>1
<1>6. a \in Nat \ {0}
  BY <1>2 DEF Lies
<1>7. /\ Flush(acc) \in Seq(Blk)
      /\ Spelled(s) => Flush(acc) = Append(bs, p)
      /\ ~Spelled(s) => Flush(acc) = bs
  BY <1>1, FlushMeaning
<1> HIDE DEF p, s, a, bs
<1>8. Placed(p, d)
  BY <1>1, <1>2, <1>4, <1>5 DEF Placed
<1>9. /\ p.last = e /\ e <= m.last /\ a <= e /\ e + 1 = m.first + k
      /\ k = Len(m.text) => e = m.last
      /\ Len(s) <= 1 => a = e
  BY <1>2, <1>3, <1>4, <1>5, <1>6
<1>10. Piece(p, m, d, c)
  <2>1. p.last = m.last \/ c[p.last + 1] - c[p.first - 1] > BudgetBytes
    BY <1>4, <1>9 DEF a
  <2>2. p.first = p.last \/ c[p.last] - c[p.first - 1] <= BudgetBytes
    BY <1>2, <1>4, <1>9
  <2>3. m.first <= p.first /\ p.last <= m.last
    BY <1>2, <1>4, <1>9
  <2> QED
    BY <1>4, <1>8, <2>1, <2>2, <2>3 DEF Piece
<1> HIDE DEF e
<1>11. \A n \in m.first..e : n \in m.first..a - 1 \/ (a <= n /\ n <= p.last)
  BY <1>3, <1>6, <1>9
<1>12. \A n \in m.first..a - 1 : d[n] = Empty \/ InSome(n, bs)
  BY <1>2 DEF PiecesTo
<1>13. CASE Spelled(s)
  <2> DEFINE r == Append(bs, p)
  <2>1. /\ DOMAIN r = 1..Len(bs) + 1 /\ Len(bs) \in Nat /\ DOMAIN bs = 1..Len(bs)
        /\ r[Len(bs) + 1] = p /\ \A j \in 1..Len(bs) : r[j] = bs[j]
    BY <1>1
  <2> HIDE DEF r
  <2>2. \A j \in DOMAIN r : Piece(r[j], m, d, c)
    <3> TAKE j \in DOMAIN r
    <3>1. CASE j = Len(bs) + 1
      BY <1>10, <2>1, <3>1
    <3>2. CASE j \in DOMAIN bs
      BY <1>2, <2>1, <3>2 DEF PiecesTo
    <3> QED
      BY <2>1, <3>1, <3>2
  <2>3. ASSUME NEW n \in m.first..e PROVE d[n] = Empty \/ InSome(n, r)
    <3>1. CASE n \in m.first..a - 1
      <4>1. d[n] = Empty \/ InSome(n, bs)
        BY <1>12, <3>1
      <4>2. DOMAIN bs \subseteq DOMAIN r /\ \A j \in DOMAIN bs : r[j] = bs[j]
        BY <2>1
      <4> QED
        BY <4>1, <4>2 DEF InSome
    <3>2. CASE a <= n /\ n <= p.last
      <4>1. Len(bs) + 1 \in DOMAIN r
        BY <2>1
      <4> QED
        BY <1>4, <2>1, <3>2, <4>1 DEF InSome
    <3> QED
      BY <1>11, <3>1, <3>2
  <2> QED
    BY <1>7, <1>13, <2>2, <2>3 DEF PiecesTo, r, e
<1>14. CASE ~Spelled(s)
  <2>1. ASSUME NEW n \in m.first..e PROVE d[n] = Empty \/ InSome(n, bs)
    <3>1. CASE n \in m.first..a - 1
      BY <1>12, <3>1
    <3>2. CASE a <= n /\ n <= p.last
      <4>1. n \in Int
        BY <1>3
      <4> DEFINE j == n - a + 1
      <4>2. j \in 1..Len(s) /\ a + j - 1 = n
        BY <1>4, <1>5, <1>6, <3>2, <4>1
      <4> HIDE DEF j
      <4>3. s[j] = d[n]
        BY <1>2, <4>2 DEF Lies
      <4>4. j \in DOMAIN s
        BY <1>1, <4>2
      <4> QED
        BY <1>14, <4>3, <4>4 DEF Spelled
    <3> QED
      BY <1>11, <3>1, <3>2
  <2> QED
    BY <1>2, <1>7, <1>14, <2>1 DEF PiecesTo, e
<1> QED
  BY <1>13, <1>14

LEMMA AddLineKeeps ==
  ASSUME NEW d \in Seq(LineSet), NEW m, Placed(m, d), NEW c, Costs(c, d),
         NEW k \in 1..Len(m.text), NEW acc, ByInv(acc, m, d, c, k - 1)
  PROVE  ByInv(AddLine(acc, m.text[k], m.first + k - 1), m, d, c, k)
<1> DEFINE a    == acc.start
           s    == acc.current
           bs   == acc.parts
           line == m.text[k]
           at   == m.first + k - 1
           cost == BytesOf[line] + 1
           over == s # <<>> /\ acc.used + cost > BudgetBytes
           r    == AddLine(acc, line, at)
<1>0. acc \in ByAcc /\ s \in Seq(LineSet) /\ acc.used \in Int
  BY FlushMeaning DEF ByInv
<1>1. acc \in ByAcc /\ s \in Seq(LineSet) /\ Len(s) \in Nat /\ acc.used \in Int
  BY <1>0
<1>2. /\ Lies(s, d, a) /\ m.first <= a /\ a + Len(s) = m.first + (k - 1)
      /\ k - 1 > 0 => s # <<>>
      /\ acc.used = c[m.first + (k - 1) - 1] - c[a - 1]
      /\ Len(s) <= 1 \/ acc.used <= BudgetBytes
      /\ PiecesTo(bs, m, d, c, a - 1)
  BY DEF ByInv
<1>3. /\ m.first \in Nat \ {0} /\ m.last \in Nat /\ m.last <= Len(d) /\ Len(d) \in Nat
      /\ Len(m.text) = m.last - m.first + 1 /\ m.text \in Seq(LineSet)
      /\ k \in Nat \ {0} /\ k <= Len(m.text) /\ Len(m.text) \in Nat
  BY PlacedMeaning
<1>30. line = d[at]
  BY PlacedMeaning
<1>4. a \in Nat \ {0}
  BY <1>2 DEF Lies
<1>50. a + Len(s) = m.first + (k - 1)
  BY <1>2
<1>51. /\ at \in 1..Len(d) /\ at \in Int
       /\ at = a + Len(s) /\ at - 1 = m.first + (k - 1) - 1 /\ at + 1 = m.first + k
       /\ at - 1 \in 0..Len(d) /\ at \in 0..Len(d) /\ a - 1 \in 0..Len(d)
       /\ a + (Len(s) + 1) = m.first + k
  <2> DEFINE f == m.first
             z == m.last
             l == Len(m.text)
             y == Len(s)
             e == Len(d)
  <2>1. /\ f \in Nat \ {0} /\ z \in Nat /\ z <= e /\ e \in Nat /\ l = z - f + 1
        /\ k \in Nat \ {0} /\ k <= l
    BY <1>3
  <2>2. y \in Nat /\ a \in Nat \ {0} /\ a + y = f + (k - 1) /\ at = f + k - 1
    BY <1>1, <1>4, <1>50
  <2> HIDE DEF a, f, z, l, y, e, at
  <2>3. /\ at \in 1..e /\ at \in Int
        /\ at = a + y /\ at - 1 = f + (k - 1) - 1 /\ at + 1 = f + k
        /\ a + (y + 1) = f + k
    BY ONLY <2>1, <2>2
  <2>4. at - 1 \in 0..e /\ at \in 0..e /\ a - 1 \in 0..e
    BY ONLY <2>1, <2>2
  <2> QED
    BY <2>3, <2>4 DEF f, y, e
<1>5. /\ line \in LineSet /\ at \in 1..Len(d) /\ line = d[at] /\ at \in Int
      /\ at = a + Len(s) /\ at - 1 = m.first + (k - 1) - 1 /\ at + 1 = m.first + k
  BY <1>3, <1>30, <1>51
<1>6. /\ r \in ByAcc /\ cost \in Nat
      /\ over => /\ r.parts = Flush(acc) /\ r.current = <<line>>
                 /\ r.used = cost /\ r.start = at
      /\ ~over => /\ r.parts = bs /\ r.current = Append(s, line)
                  /\ r.used = acc.used + cost /\ r.start = a
  BY <1>1, <1>5, AddLineMeaning
<1>7. /\ c[at] = c[at - 1] + cost /\ c[at] \in Nat /\ c[at - 1] \in Nat
      /\ c[a - 1] \in Nat
  <2>1. at - 1 \in 0..Len(d) /\ at \in 0..Len(d) /\ a - 1 \in 0..Len(d)
    BY <1>51
  <2>2. c[at] = c[at - 1] + (BytesOf[d[at]] + 1)
    BY <1>5 DEF Costs
  <2> QED
    BY <1>5, <2>1, <2>2 DEF Costs
<1> HIDE DEF r, cost, line
<1>8. CASE over
  <2>1. c[m.first + (k - 1)] - c[a - 1] > BudgetBytes
    <3>1. acc.used + cost > BudgetBytes /\ acc.used = c[at - 1] - c[a - 1]
      BY <1>2, <1>5, <1>8
    <3>2. BudgetBytes \in Nat
      BY ChunkingAssumption DEF BudgetBytes
    <3>3. c[at] - c[a - 1] > BudgetBytes
      BY ONLY <1>1, <1>6, <1>7, <3>1, <3>2
    <3>4. at = m.first + (k - 1)
      BY <1>3
    <3> QED
      BY <3>3, <3>4
  <2>2. PiecesTo(Flush(acc), m, d, c, m.first + (k - 1) - 1)
    <3>1. k - 1 \in 0..Len(m.text)
      BY <1>3
    <3> QED
      BY <1>8, <2>1, <3>1, FlushKeeps
  <2>3. /\ r.parts = Flush(acc) /\ r.current = <<line>> /\ r.used = cost /\ r.start = at
    BY <1>6, <1>8
  <2>4. <<line>> # <<>> /\ Len(<<line>>) = 1 /\ Lies(<<line>>, d, at)
    BY <1>5, OneLies DEF line
  <2> HIDE DEF at
  <2>5. PiecesTo(r.parts, m, d, c, r.start - 1)
    BY <1>5, <2>2, <2>3
  <2>6. /\ Lies(r.current, d, r.start) /\ r.current # <<>> /\ Len(r.current) <= 1
        /\ r.start + Len(r.current) = m.first + k
    BY <1>5, <2>3, <2>4
  <2>7. m.first <= r.start
    BY <1>1, <1>2, <1>3, <1>4, <1>5, <2>3
  <2>8. r.used = c[m.first + k - 1] - c[r.start - 1]
    <3>1. cost = c[at] - c[at - 1]
      BY <1>6, <1>7
    <3> QED
      BY <2>3, <3>1 DEF at
  <2>9. ByInv(r, m, d, c, k)
    BY <1>6, <2>5, <2>6, <2>7, <2>8 DEF ByInv
  <2> QED
    BY <2>9 DEF r, line, at
<1>9. CASE ~over
  <2>1. /\ r.parts = bs /\ r.current = Append(s, line)
        /\ r.used = acc.used + cost /\ r.start = a
    BY <1>6, <1>9
  <2>2. /\ Len(Append(s, d[a + Len(s)])) = Len(s) + 1
        /\ Lies(Append(s, d[a + Len(s)]), d, a)
    <3>1. a + Len(s) <= Len(d)
      BY <1>5
    <3> QED
      BY <1>1, <1>2, <3>1, LiesLonger
  <2>3. Append(s, line) = Append(s, d[a + Len(s)])
    BY <1>5
  <2>4. Len(r.current) = Len(s) + 1 /\ Lies(r.current, d, r.start)
    BY <2>1, <2>2, <2>3
  <2>5. r.current # <<>>
    <3>1. Len(r.current) # 0
      BY <1>1, <2>4
    <3> QED
      BY <3>1
  <2>6. Len(r.current) <= 1 \/ r.used <= BudgetBytes
    <3>1. CASE s = <<>>
      BY <2>4, <3>1
    <3>2. CASE s # <<>>
      <4>1. ~ (acc.used + cost > BudgetBytes)
        BY <1>9, <3>2
      <4>2. BudgetBytes \in Nat
        BY ChunkingAssumption DEF BudgetBytes
      <4>3. acc.used + cost <= BudgetBytes
        BY ONLY <1>1, <1>6, <4>1, <4>2
      <4> QED
        BY <2>1, <4>3
    <3> QED
      BY <3>1, <3>2
  <2>7. r.start + Len(r.current) = m.first + k
    <3>1. a + (Len(s) + 1) = m.first + k
      BY <1>51
    <3> QED
      BY <2>1, <2>4, <3>1
  <2>8. r.used = c[m.first + k - 1] - c[r.start - 1]
    <3>1. acc.used = c[at - 1] - c[a - 1]
      BY <1>2, <1>5
    <3> HIDE DEF at, a
    <3>2. acc.used + cost = c[at] - c[a - 1]
      BY ONLY <1>1, <1>6, <1>7, <3>1
    <3> QED
      BY <2>1, <3>2 DEF at, a
  <2>9. m.first <= r.start /\ PiecesTo(r.parts, m, d, c, r.start - 1)
    BY <1>2, <2>1
  <2>10. ByInv(r, m, d, c, k)
    BY <1>6, <2>4, <2>5, <2>6, <2>7, <2>8, <2>9 DEF ByInv
  <2> QED
    BY <2>10 DEF r, line, at
<1> QED
  BY <1>8, <1>9

\* What is cut from a block that may be cut.
LEMMA ByLinesMeaning ==
  ASSUME NEW d \in Seq(LineSet), NEW m, Placed(m, d), d[m.first] # Empty, ~m.atomic,
         NEW c, Costs(c, d)
  PROVE  PiecesTo(ByLines(m), m, d, c, m.last)
<1> DEFINE n == Len(m.text)
           p == LineParts(m)
<1>1. /\ m.first \in Nat \ {0} /\ m.last \in Nat /\ m.first <= m.last /\ m.last <= Len(d)
      /\ n = m.last - m.first + 1 /\ m.text \in Seq(LineSet) /\ n \in Nat \ {0}
      /\ Len(d) \in Nat
  BY PlacedMeaning
<1>2. m \in Blk
  BY DEF Placed
<1>3. PICK t \in [0..n -> ByAcc] :
        /\ t[0] = NoParts(m) /\ p = Flush(t[n])
        /\ \A k \in 1..n : t[k] = AddLine(t[k - 1], m.text[k], m.first + k - 1)
  BY <1>2, LinePartsRun
<1> HIDE DEF p
<1> DEFINE Good == {k \in 0..n : ByInv(t[k], m, d, c, k)}
<1>4. ByInv(NoParts(m), m, d, c, 0)
  <2> DEFINE r == NoParts(m)
  <2>1. /\ r.parts = <<>> /\ r.current = <<>> /\ r.used = 0 /\ r.start = m.first
        /\ r \in ByAcc
    BY <1>1 DEF NoParts, ByAcc
  <2> HIDE DEF r
  <2>2. Lies(<<>>, d, m.first) /\ Len(<<>>) = 0
    BY <1>1, NothingLies
  <2>3. m.first + 0 - 1 = m.first - 1 /\ m.first + 0 = m.first /\ m.first <= m.first
    BY <1>1
  <2>4. 0 = c[m.first - 1] - c[m.first - 1]
    <3>1. m.first - 1 \in 0..Len(d)
      BY <1>1
    <3>2. c[m.first - 1] \in Nat
      BY <3>1 DEF Costs
    <3> QED
      BY <3>2
  <2>5. PiecesTo(<<>>, m, d, c, m.first - 1)
    <3>1. \A x \in m.first..m.first - 1 : FALSE
      BY <1>1
    <3> QED
      BY <3>1 DEF PiecesTo
  <2>6. ByInv(r, m, d, c, 0)
    BY <2>1, <2>2, <2>3, <2>4, <2>5 DEF ByInv
  <2> QED
    BY <2>6 DEF r
<1>5. 0 \in Good
  BY <1>1, <1>3, <1>4
<1>6. ASSUME NEW k \in 0..n, k < n, k \in Good PROVE k + 1 \in Good
  <2>1. k + 1 \in 1..n /\ (k + 1) - 1 = k /\ k + 1 \in 0..n
    BY <1>1, <1>6
  <2>2. t[k + 1] = AddLine(t[k], m.text[k + 1], m.first + (k + 1) - 1)
    BY <1>3, <2>1
  <2>3. ByInv(t[k], m, d, c, (k + 1) - 1)
    BY <1>6, <2>1
  <2>4. ByInv(AddLine(t[k], m.text[k + 1], m.first + (k + 1) - 1), m, d, c, k + 1)
    BY <2>1, <2>3, AddLineKeeps
  <2> QED
    BY <2>1, <2>2, <2>4
<1>7. ByInv(t[n], m, d, c, n)
  <2>1. 0..n \subseteq Good
    <3> HIDE DEF Good, n
    <3> QED
      BY <1>1, <1>5, <1>6, CountUp
  <2> QED
    BY <1>1, <2>1
<1>8. PiecesTo(p, m, d, c, m.last)
  <2>1. t[n].current # <<>> /\ n \in 0..Len(m.text) /\ m.first + n - 1 = m.last
    BY <1>1, <1>7 DEF ByInv
  <2>2. PiecesTo(Flush(t[n]), m, d, c, m.first + n - 1)
    BY <1>7, <2>1, FlushKeeps
  <2> QED
    BY <1>3, <2>1, <2>2
<1>9. p # <<>>
  <2>1. m.first \in m.first..m.last
    BY <1>1
  <2>2. InSome(m.first, p)
    BY <1>8, <2>1 DEF PiecesTo
  <2> QED
    BY <2>2 DEF InSome
<1>10. CASE n <= 1
  <2>1. ByLines(m) = <<m>>
    BY <1>10 DEF ByLines
  <2>2. m.first = m.last
    BY <1>1, <1>10
  <2>3. Piece(m, m, d, c)
    BY <1>1, <2>2 DEF Piece
  <2>4. <<m>> \in Seq(Blk) /\ DOMAIN <<m>> = {1} /\ <<m>>[1] = m
    BY <1>2
  <2>5. \A x \in m.first..m.last : InSome(x, <<m>>)
    BY <1>1, <2>4 DEF InSome
  <2> QED
    BY <2>1, <2>3, <2>4, <2>5 DEF PiecesTo
<1>11. CASE ~ (n <= 1)
  <2>1. ByLines(m) = p
    BY <1>1, <1>9, <1>11 DEF ByLines, p
  <2> QED
    BY <1>8, <2>1
<1> QED
  BY <1>10, <1>11

\* A chunk within the budget, or one that cannot be cut.
Allowed(b) ==
  \/ EstimateTokens(b.text) <= ChunkBudget
  \/ Len(b.text) = 1
  \/ b.atomic

\* bs are cut from the lines lo..hi of d, and leave nothing out.
Chunked(bs, d, lo, hi) ==
  /\ bs \in Seq(Blk)
  /\ \A j \in DOMAIN bs : /\ Placed(bs[j], d) /\ Allowed(bs[j])
                          /\ lo <= bs[j].first /\ bs[j].last <= hi
  /\ \A n \in lo..hi : d[n] = Empty \/ InSome(n, bs)

\* One of bs has all of f, or some of it and something else.
HoldsOrShares(b, f) ==
  \/ b.first <= f.first /\ f.last <= b.last
  \/ /\ b.first <= f.last /\ f.first <= b.last
     /\ b.first < f.first \/ b.last > f.last

LEMMA PieceFits ==
  ASSUME NEW d \in Seq(LineSet), NEW c, Costs(c, d), NEW m, NEW p, Piece(p, m, d, c)
  PROVE  Allowed(p)
<1>1. Placed(p, d) /\ (p.first = p.last \/ c[p.last] - c[p.first - 1] <= BudgetBytes)
  BY DEF Piece
<1>2. /\ p.first \in Nat \ {0} /\ p.last \in Nat /\ p.first <= p.last /\ p.last <= Len(d)
      /\ Len(p.text) = p.last - p.first + 1 /\ p.text \in Seq(LineSet)
      /\ Len(d) \in Nat
  BY <1>1, PlacedMeaning
<1>3. CASE p.first = p.last
  <2>1. Len(p.text) = 1
    BY <1>2, <1>3
  <2> QED
    BY <2>1 DEF Allowed
<1>4. CASE p.first # p.last
  <2> DEFINE x == c[p.last]
             y == c[p.first - 1]
  <2>1. Lies(p.text, d, p.first) /\ p.text # <<>>
    BY <1>1 DEF Placed
  <2>2. Size(p.text) = c[p.first + Len(p.text) - 1] - c[p.first - 1] - 1
    BY <1>2, <2>1, SizeByCosts
  <2>3. p.first + Len(p.text) - 1 = p.last /\ p.last \in 0..Len(d) /\ p.first - 1 \in 0..Len(d)
    BY <1>2
  <2>4. Size(p.text) = x - y - 1 /\ x \in Nat /\ y \in Nat /\ x - y <= BudgetBytes
    BY <1>1, <1>4, <2>2, <2>3 DEF Costs
  <2>5. BudgetBytes \in Nat
    BY ChunkingAssumption DEF BudgetBytes
  <2> HIDE DEF x, y
  <2>6. Size(p.text) < BudgetBytes
    BY <2>4, <2>5
  <2>7. EstimateTokens(p.text) <= ChunkBudget
    BY <1>2, <2>1, <2>6, EstimateMeaning
  <2> QED
    BY <2>7 DEF Allowed
<1> QED
  BY <1>3, <1>4

LEMMA DivideMeaning ==
  ASSUME NEW d \in Seq(LineSet), NEW m, Placed(m, d), d[m.first] # Empty
  PROVE  Chunked(Divide(m), d, m.first, m.last)
<1>1. /\ m \in Blk /\ m.first \in Nat /\ m.last \in Nat /\ m.first <= m.last
  BY PlacedMeaning DEF Placed
<1>2. CASE m.atomic \/ EstimateTokens(m.text) <= ChunkBudget
  <2>1. Divide(m) = <<m>> /\ Allowed(m)
    BY <1>2 DEF Divide, Allowed
  <2>2. <<m>> \in Seq(Blk) /\ DOMAIN <<m>> = {1} /\ <<m>>[1] = m
    BY <1>1
  <2>3. \A n \in m.first..m.last : InSome(n, <<m>>)
    BY <1>1, <2>2 DEF InSome
  <2> QED
    BY <1>1, <2>1, <2>2, <2>3 DEF Chunked
<1>3. CASE ~ (m.atomic \/ EstimateTokens(m.text) <= ChunkBudget)
  <2>1. Divide(m) = ByLines(m) /\ ~m.atomic
    BY <1>3 DEF Divide
  <2>2. PICK c : Costs(c, d)
    BY CostsExist
  <2>3. PiecesTo(ByLines(m), m, d, c, m.last)
    BY <2>1, <2>2, ByLinesMeaning
  <2> DEFINE bs == ByLines(m)
  <2>4. ASSUME NEW j \in DOMAIN bs
        PROVE  /\ Placed(bs[j], d) /\ Allowed(bs[j])
               /\ m.first <= bs[j].first /\ bs[j].last <= m.last
    <3>1. Piece(bs[j], m, d, c)
      BY <2>3 DEF PiecesTo
    <3>2. Allowed(bs[j])
      BY <2>2, <3>1, PieceFits
    <3> QED
      BY <3>1, <3>2 DEF Piece
  <2> QED
    BY <2>1, <2>3, <2>4 DEF PiecesTo, Chunked
<1> QED
  BY <1>2, <1>3

\* A fence in a block that is divided: it is short, so a cut that starts where
\* it starts does not end before it.
LEMMA FenceInDivided ==
  ASSUME NEW d \in Seq(LineSet), NEW m, Placed(m, d), d[m.first] # Empty,
         NEW f, Placed(f, d), d[f.first] # Empty, m.first <= f.first, f.last <= m.last,
         EstimateTokens(f.text) < ChunkBudget \/ m.atomic
  PROVE  \E j \in DOMAIN Divide(m) : HoldsOrShares(Divide(m)[j], f)
<1>1. /\ m \in Blk /\ m.first \in Nat \ {0} /\ m.last \in Nat /\ m.first <= m.last
      /\ m.last <= Len(d) /\ Len(d) \in Nat
  BY PlacedMeaning DEF Placed
<1>2. /\ f.first \in Nat \ {0} /\ f.last \in Nat /\ f.first <= f.last
      /\ f.text \in Seq(LineSet) /\ Len(f.text) = f.last - f.first + 1
      /\ f.text # <<>> /\ Lies(f.text, d, f.first)
  BY PlacedMeaning DEF Placed
<1>3. CASE m.atomic \/ EstimateTokens(m.text) <= ChunkBudget
  <2>1. Divide(m) = <<m>>
    BY <1>3 DEF Divide
  <2>2. DOMAIN <<m>> = {1} /\ <<m>>[1] = m
    OBVIOUS
  <2>3. HoldsOrShares(m, f)
    BY DEF HoldsOrShares
  <2> QED
    BY <2>1, <2>2, <2>3
<1>4. CASE ~ (m.atomic \/ EstimateTokens(m.text) <= ChunkBudget)
  <2> DEFINE bs == ByLines(m)
  <2>1. Divide(m) = bs /\ ~m.atomic /\ EstimateTokens(f.text) < ChunkBudget
    BY <1>4 DEF Divide
  <2>2. PICK c : Costs(c, d)
    BY CostsExist
  <2>3. PiecesTo(bs, m, d, c, m.last)
    BY <2>1, <2>2, ByLinesMeaning
  <2>4. f.first \in m.first..m.last
    BY <1>1, <1>2
  <2>5. PICK j \in DOMAIN bs : bs[j].first <= f.first /\ f.first <= bs[j].last
    BY <2>3, <2>4 DEF PiecesTo, InSome
  <2> DEFINE p == bs[j]
  <2>6. Piece(p, m, d, c)
    BY <2>3 DEF PiecesTo
  <2>7. /\ p.first \in Nat \ {0} /\ p.last \in Nat /\ p.first <= p.last /\ p.last <= m.last
        /\ p.first <= f.first /\ f.first <= p.last
        /\ p.last = m.last \/ c[p.last + 1] - c[p.first - 1] > BudgetBytes
    BY <2>5, <2>6, PlacedMeaning DEF Piece
  <2> HIDE DEF p
  <2>8. CASE p.first < f.first
    <3>1. HoldsOrShares(p, f)
      BY <1>2, <2>7, <2>8 DEF HoldsOrShares
    <3> QED
      BY <2>1, <3>1 DEF p
  <2>9. CASE ~ (p.first < f.first)
    <3>1. p.first = f.first
      BY <1>2, <2>7, <2>9
    <3>2. ASSUME p.last < f.last PROVE FALSE
      <4> DEFINE x == c[f.last]
                 y == c[f.first - 1]
                 z == c[p.last + 1]
      <4>1. Size(f.text) < BudgetBytes
        BY <1>2, <2>1, EstimateMeaning
      <4>2. Size(f.text) = c[f.first + Len(f.text) - 1] - c[f.first - 1] - 1
        BY <1>2, <2>2, SizeByCosts
      <4>3. f.first + Len(f.text) - 1 = f.last
        BY <1>2
      <4>4. p.last + 1 \in 0..Len(d) /\ f.last \in p.last + 1..Len(d)
            /\ f.first - 1 \in 0..Len(d) /\ p.last # m.last
        BY <1>1, <1>2, <2>7, <3>2
      <4>5. z \in Nat /\ x \in Nat /\ z <= x
        BY <2>2, <4>4, CostsGrow
      <4>6. y \in Nat
        BY <2>2, <4>4 DEF Costs
      <4>7. z - y > BudgetBytes
        BY <2>7, <3>1, <4>4
      <4>8. x - y - 1 < BudgetBytes
        BY <4>1, <4>2, <4>3
      <4>9. BudgetBytes \in Nat
        BY ChunkingAssumption DEF BudgetBytes
      <4> HIDE DEF x, y, z
      <4> QED
        BY ONLY <4>5, <4>6, <4>7, <4>8, <4>9
    <3>3. HoldsOrShares(p, f)
      BY <1>2, <2>7, <3>1, <3>2 DEF HoldsOrShares
    <3> QED
      BY <2>1, <3>3 DEF p
  <2> QED
    BY <2>8, <2>9
<1> QED
  BY <1>3, <1>4

-----------------------------------------------------------------------------
(* What a flattened sequence has.                                          *)

LEMMA ContainsEither ==
  ASSUME NEW T, NEW a \in Seq(T), NEW b \in Seq(T), NEW x
  PROVE  Contains(a \o b, x) <=> Contains(a, x) \/ Contains(b, x)
<1> DEFINE r == a \o b
<1>1. /\ Len(r) = Len(a) + Len(b) /\ Len(a) \in Nat /\ Len(b) \in Nat
      /\ \A j \in 1..Len(a) + Len(b) : r[j] = IF j <= Len(a) THEN a[j] ELSE b[j - Len(a)]
  OBVIOUS
<1> HIDE DEF r
<1>2. ASSUME Contains(r, x) PROVE Contains(a, x) \/ Contains(b, x)
  <2>1. PICK j \in 1..Len(r) : r[j] = x
    BY <1>2 DEF Contains
  <2>2. CASE j <= Len(a)
    <3>1. j \in 1..Len(a) /\ a[j] = x
      BY <1>1, <2>1, <2>2
    <3> QED
      BY <3>1 DEF Contains
  <2>3. CASE ~ (j <= Len(a))
    <3>1. j - Len(a) \in 1..Len(b) /\ b[j - Len(a)] = x
      BY <1>1, <2>1, <2>3
    <3> QED
      BY <3>1 DEF Contains
  <2> QED
    BY <2>2, <2>3
<1>3. ASSUME Contains(a, x) PROVE Contains(r, x)
  <2>1. PICK j \in 1..Len(a) : a[j] = x
    BY <1>3 DEF Contains
  <2>2. j \in 1..Len(r) /\ r[j] = x
    BY <1>1, <2>1
  <2> QED
    BY <2>2 DEF Contains
<1>4. ASSUME Contains(b, x) PROVE Contains(r, x)
  <2>1. PICK j \in 1..Len(b) : b[j] = x
    BY <1>4 DEF Contains
  <2>2. /\ j + Len(a) \in 1..Len(a) + Len(b) /\ ~ (j + Len(a) <= Len(a))
        /\ (j + Len(a)) - Len(a) = j
    BY <1>1, <2>1
  <2>3. j + Len(a) \in 1..Len(r) /\ r[j + Len(a)] = x
    BY <1>1, <2>1, <2>2
  <2> QED
    BY <2>3 DEF Contains
<1> QED
  BY <1>2, <1>3, <1>4 DEF r

LEMMA FlattenRun ==
  ASSUME NEW T, NEW s \in Seq(Seq(T)), s # <<>>
  PROVE  \E t \in [1..Len(s) -> Seq(T)] :
           /\ FlattenSeq(s) = t[Len(s)]
           /\ t[1] = s[1]
           /\ \A k \in 1..Len(s) : k > 1 => t[k] = t[k - 1] \o s[k]
<1> DEFINE B == Seq(T)
           n == Len(s)
<1>1. n \in Nat \ {0} /\ \A k \in 1..n : s[k] \in B
  OBVIOUS
<1>2. PICK t \in [0..n -> B] :
        t[0] = <<>> /\ \A k \in 1..n : t[k] = t[k - 1] \o s[k]
  BY ConcatRun
<1>3. t[1] = s[1]
  <2>1. 1 \in 1..n /\ 1 - 1 = 0
    BY <1>1
  <2>2. t[1] = <<>> \o s[1] /\ s[1] \in Seq(T)
    BY <1>1, <1>2, <2>1
  <2> QED
    BY <2>2
<1> DEFINE next(h, i) == IF i = 1 THEN s[i] ELSE h[i - 1] \o s[i]
           g == [i \in 1..n |-> t[i]]
<1>4. g = [i \in 1..n |-> next(g, i)]
  <2>1. ASSUME NEW i \in 1..n PROVE g[i] = next(g, i)
    <3>1. CASE i = 1
      BY <1>3, <3>1
    <3>2. CASE i # 1
      <4>1. i - 1 \in 1..n
        BY <1>1, <3>2
      <4> QED
        BY <1>2, <3>2, <4>1
    <3> QED
      BY <3>1, <3>2
  <2> QED
    BY <2>1
<1> HIDE DEF g
<1>5. PICK h : h = [i \in 1..n |-> IF i = 1 THEN s[i] ELSE h[i - 1] \o s[i]]
               /\ FlattenSeq(s) = h[n]
  <2>1. Len(s) # 0
    BY <1>1
  <2>2. g = [i \in 1..Len(s) |-> IF i = 1 THEN s[i] ELSE g[i - 1] \o s[i]]
    BY <1>4
  <2> QED
    BY <2>1, <2>2 DEF FlattenSeq
<1>6. \A i \in 1..n : h[i] = IF i = 1 THEN s[i] ELSE h[i - 1] \o s[i]
  BY <1>5
<1> HIDE DEF n
<1> DEFINE Good == {k \in 0..n : k > 0 => h[k] = t[k]}
<1>7. 0 \in Good
  BY <1>1
<1>8. ASSUME NEW k \in 0..n, k < n, k \in Good PROVE k + 1 \in Good
  <2>1. k + 1 \in 1..n /\ (k + 1) - 1 = k /\ k + 1 \in 0..n /\ k \in Nat
    BY <1>1, <1>8
  <2>2. CASE k = 0
    <3>1. h[1] = s[1]
      BY <1>6, <2>1, <2>2
    <3> QED
      BY <1>3, <2>1, <2>2, <3>1
  <2>3. CASE k # 0
    <3>1. k + 1 # 1 /\ k > 0
      BY <2>1, <2>3
    <3>2. h[k + 1] = h[(k + 1) - 1] \o s[k + 1] /\ t[k + 1] = t[(k + 1) - 1] \o s[k + 1]
      BY <1>2, <1>6, <2>1, <3>1
    <3>3. h[k] = t[k]
      BY <1>8, <3>1
    <3> QED
      BY <2>1, <3>2, <3>3
  <2> QED
    BY <2>2, <2>3
<1>9. 0..n \subseteq Good
  <2> HIDE DEF Good
  <2> QED
    BY <1>1, <1>7, <1>8, CountUp
<1>10. h[n] = t[n]
  <2>1. n \in 0..n /\ n > 0
    BY <1>1
  <2> QED
    BY <1>9, <2>1
<1> DEFINE u == [i \in 1..n |-> t[i]]
<1>11. u \in [1..n -> B] /\ \A i \in 1..n : u[i] = t[i]
  BY <1>2
<1> HIDE DEF u
<1>12. FlattenSeq(s) = u[n] /\ u[1] = s[1]
  <2>1. n \in 1..n /\ 1 \in 1..n
    BY <1>1
  <2>2. u[n] = t[n] /\ u[1] = t[1]
    BY <1>11, <2>1
  <2> QED
    BY <1>3, <1>5, <1>10, <2>2
<1>13. ASSUME NEW k \in 1..n, k > 1 PROVE u[k] = u[k - 1] \o s[k]
  <2>1. k - 1 \in 1..n
    BY <1>1, <1>13
  <2> QED
    BY <1>2, <1>11, <2>1
<1> QED
  BY <1>11, <1>12, <1>13 DEF n

LEMMA FlattenMeaning ==
  ASSUME NEW T, NEW s \in Seq(Seq(T))
  PROVE  /\ FlattenSeq(s) \in Seq(T)
         /\ \A x : Contains(FlattenSeq(s), x) <=> \E i \in 1..Len(s) : Contains(s[i], x)
<1>1. CASE s = <<>>
  <2>1. FlattenSeq(s) = <<>> /\ Len(s) = 0
    BY <1>1 DEF FlattenSeq
  <2>2. <<>> \in Seq(T) /\ \A x : ~Contains(<<>>, x)
    BY DEF Contains
  <2> QED
    BY <2>1, <2>2
<1>2. CASE s # <<>>
  <2> DEFINE n == Len(s)
  <2>1. n \in Nat \ {0} /\ \A k \in 1..n : s[k] \in Seq(T)
    BY <1>2
  <2>2. PICK t \in [1..n -> Seq(T)] :
          /\ FlattenSeq(s) = t[n] /\ t[1] = s[1]
          /\ \A k \in 1..n : k > 1 => t[k] = t[k - 1] \o s[k]
    BY <1>2, FlattenRun
  <2> HIDE DEF n
  <2> DEFINE Has(k) == \A x : Contains(t[k], x) <=> \E i \in 1..k : Contains(s[i], x)
             Good == {k \in 0..n : k > 0 => Has(k)}
  <2>3. 0 \in Good
    BY <2>1
  <2>4. ASSUME NEW k \in 0..n, k < n, k \in Good PROVE k + 1 \in Good
    <3>1. k + 1 \in 1..n /\ (k + 1) - 1 = k /\ k + 1 \in 0..n /\ k \in Nat
      BY <2>1, <2>4
    <3>2. CASE k = 0
      <4>1. Has(1)
        <5>1. \A i \in 1..1 : i = 1
          OBVIOUS
        <5>2. 1 \in 1..1
          OBVIOUS
        <5> QED
          BY <2>2, <5>1, <5>2
      <4> QED
        BY <3>1, <3>2, <4>1
    <3>3. CASE k # 0
      <4>1. k + 1 > 1 /\ k > 0 /\ k \in 1..n
        BY <2>1, <3>1, <3>3
      <4>2. t[k + 1] = t[k] \o s[k + 1] /\ t[k] \in Seq(T) /\ s[k + 1] \in Seq(T)
        BY <2>1, <2>2, <3>1, <4>1
      <4>3. Has(k)
        BY <2>4, <4>1
      <4>4. ASSUME NEW x
            PROVE  Contains(t[k + 1], x) <=> \E i \in 1..k + 1 : Contains(s[i], x)
        <5>1. Contains(t[k + 1], x) <=> Contains(t[k], x) \/ Contains(s[k + 1], x)
          BY <4>2, ContainsEither
        <5>2. \A i \in 1..k + 1 : i \in 1..k \/ i = k + 1
          BY <3>1
        <5>3. k + 1 \in 1..k + 1 /\ \A i \in 1..k : i \in 1..k + 1
          BY <3>1
        <5>4. Contains(t[k], x) <=> \E i \in 1..k : Contains(s[i], x)
          BY <4>3
        <5> QED
          BY <5>1, <5>2, <5>3, <5>4
      <4> QED
        BY <3>1, <4>4
    <3> QED
      BY <3>2, <3>3
  <2>5. Has(n)
    <3>1. 0..n \subseteq Good
      <4> HIDE DEF Good
      <4> QED
        BY <2>1, <2>3, <2>4, CountUp
    <3>2. n \in 0..n /\ n > 0
      BY <2>1
    <3>3. n \in Good
      BY <3>1, <3>2
    <3> QED
      BY <3>2, <3>3
  <2>6. n \in 1..n
    BY <2>1
  <2> QED
    BY <2>2, <2>5, <2>6 DEF n
<1> QED
  BY <1>1, <1>2

-----------------------------------------------------------------------------
(* What is packed and cut, of the blocks of a part of a text.              *)

LEMMA PartsAreFilled ==
  ASSUME NEW d \in Seq(LineSet), NEW lo, NEW hi, NEW bs, Parts(bs, d, lo, hi)
  PROVE  bs \in Seq(Filled) /\ \A k \in 1..Len(bs) : bs[k].text[1] # Empty
<1>1. bs \in Seq(Blk) /\ DOMAIN bs = 1..Len(bs) /\ Len(bs) \in Nat
  BY DEF Parts
<1>2. ASSUME NEW k \in 1..Len(bs) PROVE bs[k] \in Filled /\ bs[k].text[1] # Empty
  <2>1. Placed(bs[k], d) /\ d[bs[k].first] # Empty
    BY <1>1 DEF Parts
  <2>2. bs[k] \in Blk /\ bs[k].text # <<>>
    BY <2>1 DEF Placed
  <2>3. /\ Len(bs[k].text) \in Nat \ {0} /\ bs[k].first \in Int
        /\ \A j \in 1..Len(bs[k].text) : bs[k].text[j] = d[bs[k].first + j - 1]
    BY <2>1, PlacedMeaning
  <2>4. bs[k].text[1] = d[bs[k].first + 1 - 1] /\ bs[k].first + 1 - 1 = bs[k].first
    BY <2>3
  <2> QED
    BY <2>1, <2>2, <2>4 DEF Filled
<1> QED
  BY <1>1, <1>2

\* Where the k-th block is among those of a group.
LEMMA GroupMeaning ==
  ASSUME NEW d \in Seq(LineSet), NEW lo \in Nat \ {0}, NEW hi \in 0..Len(d),
         NEW bs, Parts(bs, d, lo, hi), NEW overlap \in Nat,
         NEW k \in 1..Len(bs), NEW p, GroupOf(p, bs, k, overlap)
  PROVE  /\ Placed(p, d) /\ d[p.first] # Empty /\ lo <= p.first /\ p.last <= hi
         /\ p.first <= bs[k].first /\ bs[k].last <= p.last
         /\ overlap = 0 /\ bs[k].atomic =>
              EstimateTokens(bs[k].text) < ChunkBudget \/ p.atomic
<1>1. PICK group \in Seq(Filled), a \in Nat :
        /\ group # <<>> /\ Lies(group, bs, a) /\ Tight(group, overlap)
        /\ a <= k /\ k < a + Len(group) /\ p = Merge(group)
  BY DEF GroupOf
<1> DEFINE n == Len(group)
           z == a + n - 1
<1>2. /\ group \in Groups /\ n \in Nat \ {0} /\ bs \in Seq(Blk) /\ Len(bs) \in Nat
      /\ DOMAIN bs = 1..Len(bs)
  BY <1>1 DEF Groups, Filled, Parts
<1>3. /\ a \in Nat \ {0} /\ z <= Len(bs)
      /\ \A j \in 1..n : group[j] = bs[a + j - 1]
  BY <1>1 DEF Lies
<1>4. a \in 1..Len(bs) /\ z \in 1..Len(bs) /\ a <= k /\ k <= z /\ a + 1 - 1 = a
  BY <1>1, <1>2, <1>3
<1>5. group[1] = bs[a] /\ group[n] = bs[z]
  <2>1. 1 \in 1..n /\ n \in 1..n
    BY <1>2
  <2> QED
    BY <1>3, <1>4, <2>1
<1>6. /\ Placed(p, d) /\ d[p.first] # Empty
      /\ p.first = bs[a].first /\ p.last = bs[z].last
      /\ p.atomic <=> \A j \in 1..n : group[j].atomic
  BY <1>1, <1>2, <1>5, MergePlaced
<1>7. \A j \in 1..Len(bs) : /\ Placed(bs[j], d) /\ lo <= bs[j].first /\ bs[j].last <= hi
  BY <1>2 DEF Parts
<1>8. \A j \in 1..Len(bs) : /\ bs[j].first \in Int /\ bs[j].last \in Int
                            /\ bs[j].first <= bs[j].last
  BY <1>7, PlacedMeaning
<1>9. \A i, j \in 1..Len(bs) : i < j => bs[i].last < bs[j].first
  BY <1>2 DEF Parts
<1> HIDE DEF n, z
<1>10. p.first <= bs[k].first
  <2>1. CASE a = k
    BY <1>6, <1>8, <2>1
  <2>2. CASE a # k
    <3>1. a < k
      BY <1>4, <2>2
    <3>2. bs[a].last < bs[k].first
      BY <1>4, <1>9, <3>1
    <3>3. bs[a].first <= bs[a].last /\ bs[a].first \in Int /\ bs[a].last \in Int
          /\ bs[k].first \in Int
      BY <1>4, <1>8
    <3> QED
      BY <1>6, <3>2, <3>3
  <2> QED
    BY <2>1, <2>2
<1>11. bs[k].last <= p.last
  <2>1. CASE z = k
    BY <1>6, <1>8, <2>1
  <2>2. CASE z # k
    <3>1. k < z
      BY <1>4, <2>2
    <3>2. bs[k].last < bs[z].first
      BY <1>4, <1>9, <3>1
    <3>3. bs[z].first <= bs[z].last /\ bs[z].first \in Int /\ bs[z].last \in Int
          /\ bs[k].last \in Int
      BY <1>4, <1>8
    <3> QED
      BY <1>6, <3>2, <3>3
  <2> QED
    BY <2>1, <2>2
<1>12. ASSUME overlap = 0, bs[k].atomic
       PROVE  EstimateTokens(bs[k].text) < ChunkBudget \/ p.atomic
  <2>1. CASE n = 1
    <3>1. a = k /\ \A j \in 1..n : j = 1
      BY <1>2, <1>4, <2>1 DEF z
    <3> QED
      BY <1>5, <1>6, <1>12, <3>1
  <2>2. CASE n # 1
    <3>1. n > 1
      BY <1>2, <2>2
    <3>2. \A j \in 1..n : EstimateTokens(group[j].text) < ChunkBudget
      BY <1>1, <1>12, <3>1 DEF Tight, n
    <3>3. k - a + 1 \in 1..n /\ a + (k - a + 1) - 1 = k
      BY <1>2, <1>4 DEF z
    <3>4. group[k - a + 1] = bs[k]
      BY <1>3, <3>3
    <3> QED
      BY <3>2, <3>3, <3>4
  <2> QED
    BY <2>1, <2>2
<1>13. lo <= p.first /\ p.last <= hi
  BY <1>4, <1>6, <1>7
<1> QED
  BY <1>6, <1>10, <1>11, <1>12, <1>13

LEMMA PackedAre ==
  ASSUME NEW d \in Seq(LineSet), NEW lo \in Nat \ {0}, NEW hi \in 0..Len(d),
         NEW bs, Parts(bs, d, lo, hi), NEW overlap \in Nat,
         overlap = 0 \/ \A k \in 1..Len(bs) : ~bs[k].atomic
  PROVE  LET r == PackBlocks(bs, overlap)
         IN /\ Chunked(r, d, lo, hi)
            /\ overlap = 0 =>
                 \A k \in 1..Len(bs) : bs[k].atomic =>
                   \E j \in DOMAIN r : HoldsOrShares(r[j], bs[k])
<1> DEFINE p == Packed(bs, overlap)
           q == [i \in DOMAIN p |-> Divide(p[i])]
           r == PackBlocks(bs, overlap)
<1>1. bs \in Seq(Filled) /\ \A k \in 1..Len(bs) : bs[k].text[1] # Empty
  BY PartsAreFilled
<1>2. /\ p \in Seq(Blk)
      /\ \A j \in DOMAIN p : \E m \in 1..Len(bs) : GroupOf(p[j], bs, m, overlap)
      /\ \A m \in 1..Len(bs) : \E j \in DOMAIN p : GroupOf(p[j], bs, m, overlap)
  BY <1>1, PackedMeaning
<1>3. r = FlattenSeq(q)
  BY DEF PackBlocks
<1> HIDE DEF p
<1>4. DOMAIN p = 1..Len(p) /\ Len(p) \in Nat
  BY <1>2
<1>5. ASSUME NEW j \in 1..Len(p)
      PROVE  /\ Placed(p[j], d) /\ d[p[j].first] # Empty
             /\ lo <= p[j].first /\ p[j].last <= hi
             /\ Chunked(q[j], d, p[j].first, p[j].last)
             /\ q[j] \in Seq(Blk) /\ q[j] = Divide(p[j])
  <2>1. PICK m \in 1..Len(bs) : GroupOf(p[j], bs, m, overlap)
    BY <1>2, <1>4
  <2>2. /\ Placed(p[j], d) /\ d[p[j].first] # Empty
        /\ lo <= p[j].first /\ p[j].last <= hi
    BY <2>1, GroupMeaning
  <2>3. q[j] = Divide(p[j])
    BY <1>4
  <2>4. Chunked(Divide(p[j]), d, p[j].first, p[j].last)
    BY <2>2, DivideMeaning
  <2> QED
    BY <2>2, <2>3, <2>4 DEF Chunked
<1>6. q \in Seq(Seq(Blk)) /\ Len(q) = Len(p)
  <2> DEFINE B == Seq(Blk)
  <2>1. DOMAIN q = 1..Len(p) /\ \A j \in 1..Len(p) : q[j] \in B
    BY <1>4, <1>5
  <2>2. q = [j \in 1..Len(p) |-> q[j]]
    BY <1>4
  <2> HIDE DEF B, q
  <2>3. q \in Seq(B) /\ Len(q) = Len(p)
    BY <1>4, <2>1, <2>2
  <2> QED
    BY <2>3 DEF B
<1> HIDE DEF q, r
<1>7. /\ r \in Seq(Blk)
      /\ \A x : Contains(r, x) <=> \E i \in 1..Len(p) : Contains(q[i], x)
  BY <1>3, <1>6, FlattenMeaning
<1>8. ASSUME NEW j \in DOMAIN r
      PROVE  /\ Placed(r[j], d) /\ Allowed(r[j])
             /\ lo <= r[j].first /\ r[j].last <= hi
  <2>1. Contains(r, r[j])
    BY <1>7 DEF Contains
  <2>2. PICK i \in 1..Len(p) : Contains(q[i], r[j])
    BY <1>7, <2>1
  <2>3. PICK l \in 1..Len(q[i]) : q[i][l] = r[j]
    BY <2>2 DEF Contains
  <2>4. l \in DOMAIN q[i]
    BY <1>5
  <2>5. /\ Placed(r[j], d) /\ Allowed(r[j])
        /\ p[i].first <= r[j].first /\ r[j].last <= p[i].last
    BY <1>5, <2>3, <2>4 DEF Chunked
  <2>6. /\ p[i].first \in Int /\ p[i].last \in Int /\ r[j].first \in Int /\ r[j].last \in Int
        /\ lo <= p[i].first /\ p[i].last <= hi
    BY <1>5, <2>5, PlacedMeaning
  <2> QED
    BY <2>5, <2>6
<1>9. ASSUME NEW i \in 1..Len(p), NEW l \in DOMAIN q[i]
      PROVE  \E j \in DOMAIN r : r[j] = q[i][l]
  <2>1. l \in 1..Len(q[i])
    BY <1>5
  <2>2. Contains(q[i], q[i][l])
    BY <2>1 DEF Contains
  <2>3. Contains(r, q[i][l])
    BY <1>7, <2>2
  <2>4. DOMAIN r = 1..Len(r)
    BY <1>7
  <2> QED
    BY <2>3, <2>4 DEF Contains
<1>10. ASSUME NEW n \in lo..hi, d[n] # Empty PROVE InSome(n, r)
  <2>1. PICK k \in DOMAIN bs : bs[k].first <= n /\ n <= bs[k].last
    BY <1>10 DEF Parts, InSome
  <2>2. k \in 1..Len(bs)
    BY <1>1
  <2>3. PICK i \in 1..Len(p) : GroupOf(p[i], bs, k, overlap)
    BY <1>2, <1>4, <2>2
  <2>4. p[i].first <= bs[k].first /\ bs[k].last <= p[i].last
    BY <2>2, <2>3, GroupMeaning
  <2>5. /\ bs[k].first \in Int /\ bs[k].last \in Int /\ p[i].first \in Int /\ p[i].last \in Int
    <3>1. Placed(bs[k], d)
      BY <2>1 DEF Parts
    <3>2. Placed(p[i], d)
      BY <1>5
    <3> QED
      BY <3>1, <3>2, PlacedMeaning
  <2>6. n \in p[i].first..p[i].last
    BY <2>1, <2>4, <2>5
  <2>7. PICK l \in DOMAIN q[i] : q[i][l].first <= n /\ n <= q[i][l].last
    BY <1>5, <1>10, <2>6 DEF Chunked, InSome
  <2> QED
    BY <1>9, <2>7 DEF InSome
<1>11. ASSUME overlap = 0, NEW k \in 1..Len(bs), bs[k].atomic
       PROVE  \E j \in DOMAIN r : HoldsOrShares(r[j], bs[k])
  <2>1. PICK i \in 1..Len(p) : GroupOf(p[i], bs, k, overlap)
    BY <1>2, <1>4
  <2>2. /\ p[i].first <= bs[k].first /\ bs[k].last <= p[i].last
        /\ EstimateTokens(bs[k].text) < ChunkBudget \/ p[i].atomic
    BY <1>11, <2>1, GroupMeaning
  <2>3. Placed(bs[k], d) /\ d[bs[k].first] # Empty
    BY <1>1 DEF Parts
  <2>4. \E l \in DOMAIN Divide(p[i]) : HoldsOrShares(Divide(p[i])[l], bs[k])
    BY <1>5, <2>2, <2>3, FenceInDivided
  <2>5. PICK l \in DOMAIN q[i] : HoldsOrShares(q[i][l], bs[k])
    BY <1>5, <2>4
  <2> QED
    BY <1>9, <2>5
<1>12. Chunked(r, d, lo, hi)
  BY <1>7, <1>8, <1>10 DEF Chunked
<1> QED
  BY <1>11, <1>12 DEF r

-----------------------------------------------------------------------------
(* What the empty lines around a text are stripped to.                     *)

LEMMA LeastAndGreatest ==
  ASSUME NEW n \in Nat, NEW S, S \subseteq 1..n, S # {}
  PROVE  /\ \E i \in S : \A j \in S : i <= j
         /\ \E i \in S : \A j \in S : j <= i
<1>1. S \subseteq Nat
  OBVIOUS
<1>2. \E i \in S : \A j \in S : i <= j
  BY <1>1, LeastOf
<1> DEFINE D == {n - x : x \in S}
<1>3. \A x \in S : x \in Nat /\ n - x \in Nat
  OBVIOUS
<1>4. D \subseteq Nat /\ D # {}
  BY <1>3
<1>5. PICK y \in D : \A z \in D : y <= z
  <2> HIDE DEF D
  <2> QED
    BY <1>4, LeastOf
<1>6. PICK i \in S : y = n - i
  OBVIOUS
<1>7. ASSUME NEW j \in S PROVE j <= i
  <2>1. n - j \in D
    OBVIOUS
  <2>2. n - i <= n - j
    BY <1>5, <1>6, <2>1
  <2> HIDE DEF D
  <2> QED
    BY <1>3, <2>2
<1> QED
  BY <1>2, <1>7

LEMMA StrippedMeaning ==
  ASSUME NEW text \in Seq(LineSet), Spelled(text)
  PROVE  \E a \in 1..Len(text), b \in 1..Len(text) :
           /\ a <= b /\ Stripped(text) = SubSeq(text, a, b) /\ text[a] # Empty
           /\ \A j \in 1..Len(text) : text[j] # Empty => a <= j /\ j <= b
<1> DEFINE n == Len(text)
           S == {i \in DOMAIN text : text[i] # Empty}
           a == CHOOSE i \in S : \A j \in S : i <= j
           b == CHOOSE i \in S : \A j \in S : j <= i
<1>1. n \in Nat /\ DOMAIN text = 1..n /\ S \subseteq 1..n
  OBVIOUS
<1>2. S # {}
  BY DEF Spelled
<1>3. Stripped(text) = SubSeq(text, a, b)
  BY DEF Stripped
<1>4. (\E i \in S : \A j \in S : i <= j) /\ (\E i \in S : \A j \in S : j <= i)
  <2> HIDE DEF S, n
  <2> QED
    BY <1>1, <1>2, LeastAndGreatest
<1>5. a \in S /\ \A j \in S : a <= j
  <2> HIDE DEF S
  <2> QED
    BY <1>4
<1>6. b \in S /\ \A j \in S : j <= b
  <2> HIDE DEF S, a
  <2> QED
    BY <1>4
<1> HIDE DEF a, b
<1>7. a \in 1..n /\ b \in 1..n /\ a <= b /\ text[a] # Empty
  BY <1>1, <1>5, <1>6
<1>8. \A j \in 1..n : text[j] # Empty => a <= j /\ j <= b
  BY <1>1, <1>5, <1>6
<1> QED
  BY <1>3, <1>7, <1>8

-----------------------------------------------------------------------------
(* How a markdown file is read into sections.                              *)

Sec == [start : Int, text : Seq(LineSet)]

SecAcc == [sections : Seq(Sec), current : Seq(LineSet), start : Int, fenced : BOOLEAN]

LEMMA EndSectionMeaning ==
  ASSUME NEW acc \in SecAcc
  PROVE  LET s == [start |-> acc.start, text |-> Stripped(acc.current)]
         IN /\ EndSection(acc) \in Seq(Sec)
            /\ acc.sections \in Seq(Sec) /\ acc.current \in Seq(LineSet)
            /\ acc.start \in Int /\ acc.fenced \in BOOLEAN
            /\ Spelled(acc.current) =>
                 s \in Sec /\ EndSection(acc) = Append(acc.sections, s)
            /\ ~Spelled(acc.current) => EndSection(acc) = acc.sections
<1> DEFINE s == [start |-> acc.start, text |-> Stripped(acc.current)]
<1>1. /\ acc.sections \in Seq(Sec) /\ acc.current \in Seq(LineSet)
      /\ acc.start \in Int /\ acc.fenced \in BOOLEAN
  BY DEF SecAcc
<1>2. EndSection(acc) = IF Spelled(acc.current) THEN Append(acc.sections, s)
                        ELSE acc.sections
  BY DEF EndSection
<1>3. ASSUME Spelled(acc.current) PROVE s \in Sec
  <2> DEFINE t == acc.current
  <2>1. t \in Seq(LineSet) /\ Len(t) \in Nat
    BY <1>1
  <2> HIDE DEF t
  <2>2. PICK a \in 1..Len(t), b \in 1..Len(t) : a <= b /\ Stripped(t) = SubSeq(t, a, b)
    BY <1>3, <2>1, StrippedMeaning DEF t
  <2>3. a \in 1..Len(t) + 1 /\ b \in a - 1..Len(t)
    BY <2>1, <2>2
  <2>4. SubSeq(t, a, b) \in Seq(LineSet)
    BY <2>1, <2>3, SubSeqLies
  <2> QED
    BY <1>1, <2>2, <2>4 DEF Sec, t
<1> HIDE DEF s
<1>4. Spelled(acc.current) => Append(acc.sections, s) \in Seq(Sec)
  BY <1>1, <1>3
<1> QED
  BY <1>1, <1>2, <1>3, <1>4 DEF s

\* The two ways for a line to be read.
LEMMA ReadSectionMeaning ==
  ASSUME NEW acc \in SecAcc, NEW line \in LineSet, NEW i \in Int
  PROVE  LET r       == ReadSection(acc, line, i)
             heading == DepthOf[line] \in 1..SplitDepth /\ ~acc.fenced
         IN /\ r \in SecAcc
            /\ heading => /\ r.sections = EndSection(acc) /\ r.current = <<line>>
                          /\ r.start = i /\ line # Empty
            /\ ~heading => /\ r.sections = acc.sections /\ r.start = acc.start
                           /\ r.current = Append(acc.current, line)
<1> DEFINE A       == Seq(Sec)
           L       == Seq(LineSet)
           heading == DepthOf[line] \in 1..SplitDepth /\ ~acc.fenced
           e       == EndSection(acc)
           one     == <<line>>
           more    == Append(acc.current, line)
           flip    == (line \in Fences) # acc.fenced
           r       == ReadSection(acc, line, i)
<1>1. /\ acc \in [sections : A, current : L, start : Int, fenced : BOOLEAN]
      /\ e \in A /\ acc.current \in L
  BY EndSectionMeaning DEF SecAcc
<1>2. one \in L /\ more \in L
  BY <1>1
<1>3. flip \in BOOLEAN
  OBVIOUS
<1>4. r = IF heading THEN [acc EXCEPT !.sections = e, !.current = one, !.start = i]
          ELSE [acc EXCEPT !.current = more, !.fenced = flip]
  BY <1>1 DEF ReadSection
<1>5. heading => line # Empty
  BY ChunkingAssumption
<1> HIDE DEF A, L, heading, e, one, more, flip, r
<1>6. CASE heading
  <2>1. r = [acc EXCEPT !.sections = e, !.current = one, !.start = i]
    BY <1>4, <1>6
  <2>2. r \in [sections : A, current : L, start : Int, fenced : BOOLEAN]
    BY <1>1, <1>2, <2>1
  <2>3. r.sections = e /\ r.current = one /\ r.start = i
    BY <1>1, <2>1
  <2> QED
    BY <1>5, <1>6, <2>2, <2>3 DEF SecAcc, A, L, heading, e, one, r
<1>7. CASE ~heading
  <2>1. r = [acc EXCEPT !.current = more, !.fenced = flip]
    BY <1>4, <1>7
  <2>2. r \in [sections : A, current : L, start : Int, fenced : BOOLEAN]
    BY <1>1, <1>2, <1>3, <2>1
  <2>3. r.sections = acc.sections /\ r.current = more /\ r.start = acc.start
    BY <1>1, <2>1
  <2> QED
    BY <1>7, <2>2, <2>3 DEF SecAcc, A, L, heading, more, r
<1> QED
  BY <1>6, <1>7

LEMMA ReadSectionType ==
  ASSUME NEW d \in Seq(LineSet), NEW acc \in SecAcc, NEW i \in 1..Len(d)
  PROVE  ReadSection(acc, d[i], i) \in SecAcc
<1>1. d[i] \in LineSet /\ i \in Int
  OBVIOUS
<1> QED
  BY <1>1, ReadSectionMeaning

LEMMA SectionsRun ==
  ASSUME NEW d \in Seq(LineSet)
  PROVE  \E t \in [0..Len(d) -> SecAcc] :
           /\ t[0] = NoSections
           /\ Sections(d) = EndSection(t[Len(d)])
           /\ \A k \in 1..Len(d) : t[k] = ReadSection(t[k - 1], d[k], k)
<1> DEFINE n    == Len(d)
           s    == Numbers(d)
           next(acc, x) == ReadSection(acc, d[x], x)
           step == [p \in SecAcc \X (1..Len(d)) |-> next(p[1], p[2])]
<1>1. n \in Nat /\ s \in [1..n -> (1..Len(d))] /\ DOMAIN s = 1..n /\ \A k \in 1..n : s[k] = k
  BY DEF Numbers
<1>2. NoSections \in SecAcc
  BY DEF NoSections, SecAcc
<1>3. \A acc \in SecAcc, x \in (1..Len(d)) : next(acc, x) \in SecAcc
  BY ReadSectionType
<1> HIDE DEF n, s, next
<1>4. \A acc \in SecAcc, x \in (1..Len(d)) : step[<<acc, x>>] = next(acc, x)
  OBVIOUS
<1> HIDE DEF step
<1>5. Keeps(step, SecAcc, n, s) /\ \A b \in SecAcc, k \in 1..n : step[<<b, s[k]>>] \in SecAcc
  BY <1>1, <1>3, <1>4 DEF Keeps
<1>6. PICK g \in [SUBSET (1..n) -> SecAcc] : Folding(g, SecAcc, step, NoSections, n, s)
  BY <1>1, <1>2, <1>5, FoldingExists
<1>7. g = [S \in SUBSET DOMAIN s |->
             IF S = {} THEN NoSections ELSE next(g[S \ {Max(S)}], s[Max(S)])]
  <2>1. ASSUME NEW S \in SUBSET (1..n)
        PROVE  g[S] = IF S = {} THEN NoSections ELSE next(g[S \ {Max(S)}], s[Max(S)])
    <3>1. CASE S = {}
      BY <1>6, <3>1 DEF Folding
    <3>2. CASE S # {}
      <4>1. s[Max(S)] \in (1..Len(d)) /\ g[S \ {Max(S)}] \in SecAcc
        BY <1>1, <1>6, <3>2, TopIsThere
      <4>2. g[S] = step[<<g[S \ {Max(S)}], s[Max(S)]>>]
        BY <1>6, <3>2, <4>1 DEF Folding
      <4> QED
        BY <1>4, <3>2, <4>1, <4>2
    <3> QED
      BY <3>1, <3>2
  <2> QED
    BY <1>1, <1>6, <2>1
<1>8. PICK h :
        /\ h = [S \in SUBSET DOMAIN s |->
                  IF S = {} THEN NoSections ELSE next(h[S \ {Max(S)}], s[Max(S)])]
        /\ Sections(d) = EndSection(h[DOMAIN s])
  BY <1>7 DEF Sections, FoldLeft, MapThenFoldSet, s, next
<1>9. Folding(h, SecAcc, step, NoSections, n, s)
  <2>1. h[{}] = NoSections
    BY <1>8
  <2>2. ASSUME NEW S \in SUBSET (1..n), S # {}, h[S \ {Max(S)}] \in SecAcc
        PROVE  h[S] = step[<<h[S \ {Max(S)}], s[Max(S)]>>]
    <3>1. s[Max(S)] \in (1..Len(d))
      BY <1>1, <2>2, TopIsThere
    <3>2. h[S] = next(h[S \ {Max(S)}], s[Max(S)])
      BY <1>1, <1>8, <2>2
    <3> QED
      BY <1>4, <2>2, <3>1, <3>2
  <2> QED
    BY <2>1, <2>2 DEF Folding
<1>10. PICK t \in [0..n -> SecAcc] : Run(t, step, NoSections, n, s) /\ t[n] = h[1..n]
  BY ONLY <1>1, <1>2, <1>5, <1>9, FoldingByPosition, SMT
<1>11. \A k \in 1..n : t[k] = next(t[k - 1], s[k])
  <2> TAKE k \in 1..n
  <2>1. t[k - 1] \in SecAcc /\ s[k] \in (1..Len(d))
    BY <1>1
  <2> QED
    BY <1>4, <1>10, <2>1 DEF Run
<1>12. t[0] = NoSections /\ Sections(d) = EndSection(t[n])
  BY <1>1, <1>8, <1>10 DEF Run
<1> QED
  BY <1>1, <1>11, <1>12 DEF n, s, next

\* sec is what is spelled in the lines from its start to e, where no line but
\* the first of the file starts a section without being a heading.
SecAt(sec, d, e) ==
  /\ sec.start \in Nat \ {0} /\ sec.start <= e /\ e <= Len(d)
  /\ sec.start = 1 \/ d[sec.start] # Empty
  /\ Spelled(SubSeq(d, sec.start, e))
  /\ sec.text = Stripped(SubSeq(d, sec.start, e))

\* The k-th of the sections ends at e, before any other starts.
Extends(ss, k, d, e) ==
  SecAt(ss[k], d, e) /\ \A l \in DOMAIN ss : ss[l].start <= ss[k].start \/ e < ss[l].start

Sectioned(ss, d, i) ==
  /\ ss \in Seq(Sec)
  /\ \A k \in DOMAIN ss : \E e \in 0..i : Extends(ss, k, d, e)
  /\ \A n \in 1..i : \/ d[n] = Empty
                     \/ \E k \in DOMAIN ss, e \in 0..i :
                          Extends(ss, k, d, e) /\ ss[k].start <= n /\ n <= e

SecInv(acc, d, i) ==
  /\ acc \in SecAcc
  /\ Lies(acc.current, d, acc.start) /\ acc.start + Len(acc.current) = i + 1
  /\ acc.start = 1 \/ d[acc.start] # Empty
  /\ Sectioned(acc.sections, d, acc.start - 1)

LEMMA EndSectionKeeps ==
  ASSUME NEW d \in Seq(LineSet), NEW i \in 0..Len(d), NEW acc, SecInv(acc, d, i)
  PROVE  Sectioned(EndSection(acc), d, i)
<1> DEFINE a  == acc.start
           t  == acc.current
           ss == acc.sections
           s  == [start |-> a, text |-> Stripped(t)]
<1>0. acc \in SecAcc
  BY DEF SecInv
<1>1. /\ EndSection(acc) \in Seq(Sec) /\ ss \in Seq(Sec) /\ t \in Seq(LineSet)
      /\ a \in Int
      /\ Spelled(t) => s \in Sec /\ EndSection(acc) = Append(ss, s)
      /\ ~Spelled(t) => EndSection(acc) = ss
  BY <1>0, EndSectionMeaning
<1>2. /\ Lies(t, d, a) /\ a + Len(t) = i + 1 /\ (a = 1 \/ d[a] # Empty)
      /\ Sectioned(ss, d, a - 1)
  BY DEF SecInv
<1>3. s.start = a /\ s.text = Stripped(t)
  OBVIOUS
<1> HIDE DEF s, a, t, ss
<1>4. a \in Nat \ {0} /\ Len(t) \in Nat /\ Len(d) \in Nat /\ i \in Nat /\ i <= Len(d)
      /\ a - 1 <= i
  BY <1>1, <1>2 DEF Lies
<1>5. t = SubSeq(d, a, i)
  <2>1. Len(t) = i - a + 1 /\ i \in Int
    BY <1>2, <1>4
  <2>2. Lies(t, d, a) /\ t \in Seq(LineSet)
    BY <1>1, <1>2
  <2> QED
    BY <2>1, <2>2, LiesIsSubSeq
<1>6. \A e \in 0..a - 1 : e \in 0..i /\ e < a
  BY <1>4
<1>7. CASE ~Spelled(t)
  <2>1. \A k \in DOMAIN ss : \E e \in 0..i : Extends(ss, k, d, e)
    BY <1>2, <1>6 DEF Sectioned
  <2>2. ASSUME NEW n \in 1..i, d[n] # Empty
        PROVE  \E k \in DOMAIN ss, e \in 0..i :
                 Extends(ss, k, d, e) /\ ss[k].start <= n /\ n <= e
    <3>1. n \in 1..a - 1
      <4>1. SUFFICES ASSUME ~ (n <= a - 1) PROVE FALSE
        BY <1>4
      <4> DEFINE j == n - a + 1
      <4>2. j \in 1..Len(t) /\ a + j - 1 = n
        BY <1>2, <1>4, <4>1
      <4> HIDE DEF j
      <4>3. t[j] = d[n]
        BY <1>2, <4>2 DEF Lies
      <4>4. j \in DOMAIN t
        BY <1>1, <4>2
      <4> QED
        BY <1>7, <2>2, <4>3, <4>4 DEF Spelled
    <3> QED
      BY <1>2, <1>6, <2>2, <3>1 DEF Sectioned
  <2> QED
    BY <1>1, <1>7, <2>1, <2>2 DEF Sectioned
<1>8. CASE Spelled(t)
  <2> DEFINE r == Append(ss, s)
             n == Len(ss)
  <2>1. EndSection(acc) = r /\ s \in Sec /\ r \in Seq(Sec)
    BY <1>1, <1>8
  <2>2. /\ n \in Nat /\ DOMAIN ss = 1..n /\ DOMAIN r = 1..n + 1 /\ r[n + 1] = s
        /\ \A k \in 1..n : r[k] = ss[k]
    BY <1>1, <2>1
  <2> HIDE DEF r, n
  <2>3. a <= i
    <3>1. PICK j \in DOMAIN t : t[j] # Empty
      BY <1>8 DEF Spelled
    <3>2. j \in 1..Len(t)
      BY <1>1, <3>1
    <3> QED
      BY <1>2, <1>4, <3>2
  <2>4. \A k \in DOMAIN ss : ss[k].start < a /\ ss[k].start \in Nat
    <3> TAKE k \in DOMAIN ss
    <3>1. PICK e \in 0..a - 1 : Extends(ss, k, d, e)
      BY <1>2 DEF Sectioned
    <3>2. ss[k].start \in Nat /\ ss[k].start <= e
      BY <3>1 DEF Extends, SecAt
    <3> QED
      BY <1>4, <3>2
  <2>5. Extends(r, n + 1, d, i)
    <3>1. SecAt(s, d, i)
      BY <1>2, <1>3, <1>4, <1>5, <1>8, <2>3 DEF SecAt
    <3>2. \A l \in DOMAIN r : r[l].start <= a
      <4> TAKE l \in DOMAIN r
      <4>1. CASE l = n + 1
        BY <1>3, <1>4, <2>2, <4>1
      <4>2. CASE l \in DOMAIN ss
        BY <1>4, <2>2, <2>4, <4>2
      <4> QED
        BY <2>2, <4>1, <4>2
    <3> QED
      BY <1>3, <2>2, <3>1, <3>2 DEF Extends
  <2>6. ASSUME NEW k \in DOMAIN ss, NEW e \in 0..a - 1, Extends(ss, k, d, e)
        PROVE  Extends(r, k, d, e) /\ e \in 0..i /\ k \in DOMAIN r /\ r[k] = ss[k]
    <3>1. r[k] = ss[k] /\ k \in DOMAIN r
      BY <2>2
    <3>2. e \in 0..i /\ e < a
      BY <1>6
    <3>3. ASSUME NEW l \in DOMAIN r PROVE r[l].start <= r[k].start \/ e < r[l].start
      <4>1. CASE l = n + 1
        BY <1>3, <2>2, <3>2, <4>1
      <4>2. CASE l \in DOMAIN ss
        BY <2>2, <2>6, <3>1, <4>2 DEF Extends
      <4> QED
        BY <2>2, <4>1, <4>2
    <3> QED
      BY <2>6, <3>1, <3>2, <3>3 DEF Extends
  <2>7. i \in 0..i /\ n + 1 \in DOMAIN r
    BY <1>4, <2>2
  <2>8. ASSUME NEW k \in DOMAIN r PROVE \E e \in 0..i : Extends(r, k, d, e)
    <3>1. CASE k = n + 1
      BY <2>5, <2>7, <3>1
    <3>2. CASE k \in DOMAIN ss
      <4>1. PICK e \in 0..a - 1 : Extends(ss, k, d, e)
        BY <1>2, <3>2 DEF Sectioned
      <4> QED
        BY <2>6, <3>2, <4>1
    <3> QED
      BY <2>2, <3>1, <3>2
  <2>9. ASSUME NEW x \in 1..i, d[x] # Empty
        PROVE  \E k \in DOMAIN r, e \in 0..i :
                 Extends(r, k, d, e) /\ r[k].start <= x /\ x <= e
    <3>1. CASE x \in 1..a - 1
      <4>1. PICK k \in DOMAIN ss, e \in 0..a - 1 :
              Extends(ss, k, d, e) /\ ss[k].start <= x /\ x <= e
        BY <1>2, <2>9, <3>1 DEF Sectioned
      <4>2. Extends(r, k, d, e) /\ e \in 0..i /\ k \in DOMAIN r /\ r[k] = ss[k]
        BY <2>6, <4>1
      <4> QED
        BY <4>1, <4>2
    <3>2. CASE ~ (x \in 1..a - 1)
      <4>1. a <= x /\ x <= i
        BY <1>4, <3>2
      <4> QED
        BY <1>3, <2>2, <2>5, <2>7, <4>1
    <3> QED
      BY <3>1, <3>2
  <2>10. Sectioned(r, d, i)
    BY <2>1, <2>8, <2>9 DEF Sectioned
  <2> QED
    BY <2>1, <2>10
<1> QED
  BY <1>7, <1>8

LEMMA ReadSectionKeeps ==
  ASSUME NEW d \in Seq(LineSet), NEW i \in 1..Len(d), NEW acc, SecInv(acc, d, i - 1)
  PROVE  SecInv(ReadSection(acc, d[i], i), d, i)
<1> DEFINE r       == ReadSection(acc, d[i], i)
           heading == DepthOf[d[i]] \in 1..SplitDepth /\ ~acc.fenced
           a       == acc.start
           t       == acc.current
<1>1. /\ acc \in SecAcc /\ d[i] \in LineSet /\ i \in Int /\ i \in Nat \ {0} /\ i <= Len(d)
      /\ Len(d) \in Nat
  BY DEF SecInv
<1>2. /\ Lies(t, d, a) /\ a + Len(t) = (i - 1) + 1 /\ (a = 1 \/ d[a] # Empty)
      /\ Sectioned(acc.sections, d, a - 1)
  BY DEF SecInv
<1>3. /\ r \in SecAcc
      /\ heading => /\ r.sections = EndSection(acc) /\ r.current = <<d[i]>>
                    /\ r.start = i /\ d[i] # Empty
      /\ ~heading => /\ r.sections = acc.sections /\ r.start = a
                     /\ r.current = Append(t, d[i])
  BY <1>1, ReadSectionMeaning
<1>4. t \in Seq(LineSet)
  BY <1>1, EndSectionMeaning
<1>5. a \in Nat \ {0} /\ Len(t) \in Nat /\ a + Len(t) = i
  BY <1>1, <1>2, <1>4 DEF Lies
<1> HIDE DEF r, heading, a, t
<1>6. CASE heading
  <2>1. Sectioned(r.sections, d, i - 1)
    <3>1. i - 1 \in 0..Len(d)
      BY <1>1
    <3>2. Sectioned(EndSection(acc), d, i - 1)
      BY <3>1, EndSectionKeeps
    <3> QED
      BY <1>3, <1>6, <3>2
  <2>2. Len(<<d[i]>>) = 1 /\ Lies(<<d[i]>>, d, i)
    BY OneLies
  <2>3. r.start = i /\ r.current = <<d[i]>> /\ d[i] # Empty
    BY <1>3, <1>6
  <2>4. i + 1 = i + 1
    OBVIOUS
  <2>5. SecInv(r, d, i)
    BY <1>3, <2>1, <2>2, <2>3 DEF SecInv
  <2> QED
    BY <2>5 DEF r
<1>7. CASE ~heading
  <2>1. r.sections = acc.sections /\ r.start = a /\ r.current = Append(t, d[i])
    BY <1>3, <1>7
  <2>2. /\ Len(Append(t, d[a + Len(t)])) = Len(t) + 1
        /\ Lies(Append(t, d[a + Len(t)]), d, a)
    <3>1. a + Len(t) <= Len(d)
      BY <1>1, <1>5
    <3> QED
      BY <1>2, <1>4, <3>1, LiesLonger
  <2>3. Lies(r.current, d, a) /\ Len(r.current) = Len(t) + 1
    BY <1>5, <2>1, <2>2
  <2>4. a + (Len(t) + 1) = i + 1
    BY <1>1, <1>5
  <2>5. SecInv(r, d, i)
    BY <1>2, <1>3, <2>1, <2>3, <2>4 DEF SecInv
  <2> QED
    BY <2>5 DEF r
<1> QED
  BY <1>6, <1>7

LEMMA SectionsMeaning ==
  ASSUME NEW d \in Seq(LineSet)
  PROVE  Sectioned(Sections(d), d, Len(d))
<1> DEFINE n == Len(d)
<1>1. n \in Nat
  OBVIOUS
<1>2. PICK t \in [0..n -> SecAcc] :
        /\ t[0] = NoSections /\ Sections(d) = EndSection(t[n])
        /\ \A k \in 1..n : t[k] = ReadSection(t[k - 1], d[k], k)
  BY SectionsRun
<1> DEFINE Good == {k \in 0..n : SecInv(t[k], d, k)}
<1>3. 0 \in Good
  <2> DEFINE r == NoSections
  <2>1. r \in SecAcc /\ r.sections = <<>> /\ r.current = <<>> /\ r.start = 1
    BY DEF NoSections, SecAcc
  <2> HIDE DEF r
  <2>2. Lies(<<>>, d, 1) /\ Len(<<>>) = 0 /\ 1 + 0 = 0 + 1
    BY <1>1, NothingLies
  <2>3. Sectioned(<<>>, d, 1 - 1)
    <3>1. \A x \in 1..1 - 1 : FALSE
      OBVIOUS
    <3>2. <<>> \in Seq(Sec) /\ DOMAIN <<>> = {}
      OBVIOUS
    <3> QED
      BY <3>1, <3>2 DEF Sectioned
  <2>4. SecInv(r, d, 0)
    BY <2>1, <2>2, <2>3 DEF SecInv
  <2> QED
    BY <1>1, <1>2, <2>4 DEF r
<1>4. ASSUME NEW k \in 0..n, k < n, k \in Good PROVE k + 1 \in Good
  <2>1. k + 1 \in 1..n /\ (k + 1) - 1 = k /\ k + 1 \in 0..n
    BY <1>1, <1>4
  <2>2. t[k + 1] = ReadSection(t[k], d[k + 1], k + 1)
    BY <1>2, <2>1
  <2>3. SecInv(t[k], d, (k + 1) - 1)
    BY <1>4, <2>1
  <2>4. SecInv(ReadSection(t[k], d[k + 1], k + 1), d, k + 1)
    BY <2>1, <2>3, ReadSectionKeeps
  <2> QED
    BY <2>1, <2>2, <2>4
<1>5. SecInv(t[n], d, n)
  <2>1. 0..n \subseteq Good
    <3> HIDE DEF Good, n
    <3> QED
      BY <1>1, <1>3, <1>4, CountUp
  <2> QED
    BY <1>1, <2>1
<1>6. n \in 0..Len(d)
  BY <1>1
<1>7. Sectioned(EndSection(t[n]), d, n)
  BY <1>5, <1>6, EndSectionKeeps
<1> QED
  BY <1>2, <1>7

-----------------------------------------------------------------------------
(* How a section is chunked.                                               *)

LEMMA SectionText ==
  ASSUME NEW d \in Seq(LineSet), NEW sec, NEW e \in Nat, SecAt(sec, d, e)
  PROVE  LET t == sec.text
             a == sec.start
         IN /\ t \in Seq(LineSet) /\ t # <<>> /\ Len(t) \in Nat \ {0}
            /\ a \in Nat \ {0} /\ a + Len(t) - 1 <= e /\ e <= Len(d)
            /\ d[a] # Empty =>
                 /\ Lies(t, d, a)
                 /\ \A n \in a..e : d[n] # Empty => n <= a + Len(t) - 1
<1> DEFINE t == sec.text
           a == sec.start
           u == SubSeq(d, a, e)
<1>1. /\ a \in Nat \ {0} /\ a <= e /\ e <= Len(d) /\ Spelled(u) /\ t = Stripped(u)
      /\ Len(d) \in Nat
  BY DEF SecAt
<1> HIDE DEF t, a
<1>2. u \in Seq(LineSet) /\ Len(u) = e - a + 1 /\ Lies(u, d, a)
  <2>1. a \in 1..Len(d) + 1 /\ e \in a - 1..Len(d)
    BY <1>1
  <2> QED
    BY <2>1, SubSeqLies
<1> HIDE DEF u
<1>3. PICK x \in 1..Len(u), y \in 1..Len(u) :
        /\ x <= y /\ t = SubSeq(u, x, y) /\ u[x] # Empty
        /\ \A j \in 1..Len(u) : u[j] # Empty => x <= j /\ j <= y
  BY <1>1, <1>2, StrippedMeaning
<1>4. x \in Nat \ {0} /\ y \in Nat /\ x <= y /\ y <= Len(u) /\ Len(u) \in Nat
  BY <1>1, <1>2, <1>3
<1>5. t \in Seq(LineSet) /\ Len(t) = y - x + 1 /\ Lies(t, u, x)
  <2>1. x \in 1..Len(u) + 1 /\ y \in x - 1..Len(u)
    BY <1>4
  <2> QED
    BY <1>2, <1>3, <2>1, SubSeqLies
<1>6. Len(t) \in Nat \ {0} /\ a + Len(t) - 1 <= e
  BY <1>1, <1>2, <1>4, <1>5
<1>7. t # <<>>
  BY <1>6
<1>8. ASSUME d[a] # Empty
      PROVE  /\ Lies(t, d, a)
             /\ \A n \in a..e : d[n] # Empty => n <= a + Len(t) - 1
  <2>1. u[1] = d[a] /\ 1 \in 1..Len(u)
    <3>1. 1 \in 1..Len(u) /\ a + 1 - 1 = a
      BY <1>1, <1>4
    <3> QED
      BY <1>2, <3>1 DEF Lies
  <2>2. x = 1
    BY <1>3, <1>4, <1>8, <2>1
  <2>30. Lies(t, d, a + x - 1)
    <3>1. Lies(u, d, a) /\ Lies(t, u, x) /\ u \in Seq(LineSet) /\ t \in Seq(LineSet)
      BY <1>2, <1>5
    <3> QED
      BY <3>1, LiesWithin
  <2>31. a + x - 1 = a
    BY <1>1, <2>2
  <2>3. Lies(t, d, a + x - 1) /\ a + x - 1 = a
    BY <2>30, <2>31
  <2>4. ASSUME NEW n \in a..e, d[n] # Empty PROVE n <= a + Len(t) - 1
    <3> DEFINE j == n - a + 1
    <3>1. j \in 1..Len(u) /\ a + j - 1 = n
      BY <1>1, <1>2
    <3> HIDE DEF j
    <3>2. u[j] = d[n]
      BY <1>2, <3>1 DEF Lies
    <3>3. j <= y
      BY <1>3, <2>4, <3>1, <3>2
    <3>4. Len(t) = y /\ j \in Int
      BY <1>4, <1>5, <2>2, <3>1
    <3> QED
      BY <1>1, <1>4, <3>1, <3>3, <3>4
  <2> QED
    BY <2>3, <2>4
<1> QED
  BY <1>1, <1>5, <1>6, <1>7, <1>8 DEF t, a

LEMMA ShiftedMeaning ==
  ASSUME NEW b \in Blk, NEW by \in Int
  PROVE  LET r == Shifted(b, by)
         IN /\ r \in Blk /\ r.first = b.first + by /\ r.last = b.last + by
            /\ r.text = b.text /\ r.atomic = b.atomic
            /\ b.first \in Int /\ b.last \in Int
<1> DEFINE L == Seq(LineSet)
           f == b.first + by
           l == b.last + by
           r == Shifted(b, by)
<1>1. /\ b \in [first : Int, last : Int, text : L, atomic : BOOLEAN]
      /\ b.first \in Int /\ b.last \in Int
  BY DEF Blk
<1>2. f \in Int /\ l \in Int
  BY <1>1
<1>3. r = [b EXCEPT !.first = f, !.last = l]
  BY <1>1 DEF Shifted
<1> HIDE DEF L, f, l, r
<1>4. /\ r \in [first : Int, last : Int, text : L, atomic : BOOLEAN]
      /\ r.first = f /\ r.last = l /\ r.text = b.text /\ r.atomic = b.atomic
  BY <1>1, <1>2, <1>3
<1> QED
  BY <1>1, <1>4 DEF Blk, L, f, l, r

LEMMA ShiftedParts ==
  ASSUME NEW d \in Seq(LineSet), NEW t \in Seq(LineSet), NEW a, Lies(t, d, a),
         NEW bs, Parts(bs, t, 1, Len(t))
  PROVE  Parts([i \in DOMAIN bs |-> Shifted(bs[i], a - 1)], d, a, a + Len(t) - 1)
<1> DEFINE n == Len(bs)
           r == [i \in DOMAIN bs |-> Shifted(bs[i], a - 1)]
           z == a + Len(t) - 1
<1>1. /\ a \in Nat \ {0} /\ Len(t) \in Nat /\ Len(d) \in Nat /\ z <= Len(d)
      /\ a - 1 \in Int
  BY DEF Lies
<1>2. bs \in Seq(Blk) /\ n \in Nat /\ DOMAIN bs = 1..n /\ \A k \in 1..n : bs[k] \in Blk
  BY DEF Parts
<1>3. ASSUME NEW k \in 1..n
      PROVE  /\ r[k] \in Blk /\ r[k].first = bs[k].first + (a - 1)
             /\ r[k].last = bs[k].last + (a - 1) /\ r[k].text = bs[k].text
             /\ bs[k].first \in Int /\ bs[k].last \in Int
  <2>1. r[k] = Shifted(bs[k], a - 1)
    BY <1>2
  <2> QED
    BY <1>1, <1>2, <2>1, ShiftedMeaning
<1>4. DOMAIN r = 1..n /\ r = [k \in 1..n |-> r[k]]
  BY <1>2
<1> HIDE DEF r
<1>5. r \in Seq(Blk)
  BY <1>2, <1>3, <1>4
<1>6. ASSUME NEW k \in 1..n
      PROVE  /\ Placed(r[k], d) /\ d[r[k].first] # Empty
             /\ a <= r[k].first /\ r[k].last <= z
  <2>1. /\ Placed(bs[k], t) /\ t[bs[k].first] # Empty
    BY <1>2 DEF Parts
  <2> DEFINE f == bs[k].first
             l == bs[k].last
             x == bs[k].text
  <2>2. /\ f \in Int /\ l \in Int /\ 1 <= f /\ f <= l /\ l <= Len(t)
        /\ x \in Seq(LineSet) /\ Len(x) \in Nat /\ Len(x) = l - f + 1 /\ x # <<>>
        /\ Lies(x, t, f)
    BY <2>1, PlacedMeaning DEF Placed
  <2>3. r[k].first = f + (a - 1) /\ r[k].last = l + (a - 1) /\ r[k].text = x /\ r[k] \in Blk
    BY <1>3
  <2> HIDE DEF f, l, x
  <2>4. Lies(x, d, a + f - 1)
    BY <2>2, LiesWithin
  <2>5. /\ a + f - 1 = f + (a - 1) /\ l + (a - 1) = f + (a - 1) + Len(x) - 1
        /\ a <= f + (a - 1) /\ l + (a - 1) <= z
    BY <1>1, <2>2
  <2>6. Placed(r[k], d)
    BY <2>2, <2>3, <2>4, <2>5 DEF Placed
  <2>7. d[f + (a - 1)] = t[f]
    <3>1. f \in 1..Len(t)
      BY <1>1, <2>2
    <3>2. t[f] = d[a + f - 1]
      BY <3>1 DEF Lies
    <3> QED
      BY <2>5, <3>2
  <2>8. d[r[k].first] # Empty
    BY <2>1, <2>3, <2>7 DEF f
  <2> QED
    BY <2>3, <2>5, <2>6, <2>8
<1>7. ASSUME NEW k \in 1..n, NEW l \in 1..n, k < l PROVE r[k].last < r[l].first
  <2>1. bs[k].last < bs[l].first
    BY <1>2, <1>7 DEF Parts
  <2>2. /\ bs[k].last \in Int /\ bs[l].first \in Int
        /\ r[k].last = bs[k].last + (a - 1) /\ r[l].first = bs[l].first + (a - 1)
    BY <1>3
  <2> QED
    BY <1>1, <2>1, <2>2
<1>8. ASSUME NEW m \in a..z, d[m] # Empty PROVE InSome(m, r)
  <2> DEFINE j == m - a + 1
  <2>1. j \in 1..Len(t) /\ a + j - 1 = m /\ m = j + (a - 1)
    BY <1>1
  <2> HIDE DEF j
  <2>2. t[j] = d[m]
    BY <2>1 DEF Lies
  <2>3. PICK k \in DOMAIN bs : bs[k].first <= j /\ j <= bs[k].last
    BY <1>8, <2>1, <2>2 DEF Parts, InSome
  <2>4. /\ k \in 1..n /\ bs[k].first \in Int /\ bs[k].last \in Int
        /\ r[k].first = bs[k].first + (a - 1) /\ r[k].last = bs[k].last + (a - 1)
    BY <1>2, <1>3, <2>3
  <2>5. r[k].first <= m /\ m <= r[k].last
    BY <1>1, <2>1, <2>3, <2>4
  <2> QED
    BY <1>4, <2>4, <2>5 DEF InSome
<1> HIDE DEF z
<1>9. Parts(r, d, a, z)
  BY <1>4, <1>5, <1>6, <1>7, <1>8 DEF Parts
<1> QED
  BY <1>9 DEF r, z

\* A section, in a text that has it where it says.
LEMMA SectionChunks ==
  ASSUME NEW d \in Seq(LineSet), NEW sec, sec.text \in Seq(LineSet), sec.text # <<>>,
         Lies(sec.text, d, sec.start)
  PROVE  LET r  == MarkdownChunks(sec)
             bs == SplitIntoBlocks(sec.text, TRUE, FALSE)
         IN /\ Chunked(r, d, sec.start, sec.start + Len(sec.text) - 1)
            /\ \A k \in DOMAIN bs : bs[k].atomic =>
                 \E j \in DOMAIN r : HoldsOrShares(r[j], Shifted(bs[k], sec.start - 1))
<1> DEFINE a  == sec.start
           t  == sec.text
           z  == a + Len(t) - 1
           r  == MarkdownChunks(sec)
           bs == SplitIntoBlocks(t, TRUE, FALSE)
           sh == [i \in DOMAIN bs |-> Shifted(bs[i], a - 1)]
           w  == Block(a, t, FALSE)
<1>1. t \in Seq(LineSet) /\ t # <<>> /\ Lies(t, d, a)
  OBVIOUS
<1>2. r = IF EstimateTokens(t) <= ChunkBudget THEN <<w>> ELSE PackBlocks(sh, 0)
  BY DEF MarkdownChunks
<1> HIDE DEF a, t, r
<1>3. /\ a \in Nat \ {0} /\ Len(t) \in Nat \ {0} /\ z <= Len(d) /\ Len(d) \in Nat
      /\ a <= z /\ z \in 0..Len(d) /\ a \in Int /\ a - 1 \in Int
  BY <1>1 DEF Lies
<1>4. Parts(bs, t, 1, Len(t))
  BY <1>1, SplitParts
<1> HIDE DEF bs
<1>5. bs \in Seq(Blk)
  BY <1>4 DEF Parts
<1>6. ASSUME NEW k \in DOMAIN bs
      PROVE  LET s == Shifted(bs[k], a - 1)
             IN s.atomic = bs[k].atomic /\ a <= s.first /\ s.last <= z
  <2>1. bs[k] \in Blk /\ 1 <= bs[k].first /\ bs[k].last <= Len(t)
    BY <1>4, <1>5 DEF Parts
  <2>2. LET s == Shifted(bs[k], a - 1)
        IN /\ s.first = bs[k].first + (a - 1) /\ s.last = bs[k].last + (a - 1)
           /\ s.atomic = bs[k].atomic /\ bs[k].first \in Int /\ bs[k].last \in Int
    BY <1>3, <2>1, ShiftedMeaning
  <2> QED
    BY <1>3, <2>1, <2>2
<1>7. CASE EstimateTokens(t) <= ChunkBudget
  <2>1. r = <<w>>
    BY <1>2, <1>7
  <2>2. w \in Blk /\ w.first = a /\ w.last = z /\ w.text = t /\ ~w.atomic
    BY <1>1, <1>3, BlockType
  <2> HIDE DEF w, z
  <2>3. Placed(w, d)
    BY <1>1, <1>3, <2>2 DEF Placed, z
  <2>4. Allowed(w)
    BY <1>7, <2>2 DEF Allowed
  <2>5. r \in Seq(Blk) /\ DOMAIN r = {1} /\ r[1] = w
    BY <2>1, <2>2
  <2>6. \A n \in a..z : InSome(n, r)
    BY <1>3, <2>2, <2>5 DEF InSome
  <2>7. Chunked(r, d, a, z)
    <3>1. a <= w.first /\ w.last <= z
      BY <1>3, <2>2
    <3> QED
      BY <2>3, <2>4, <2>5, <2>6, <3>1 DEF Chunked
  <2>8. ASSUME NEW k \in DOMAIN bs
        PROVE  \E j \in DOMAIN r : HoldsOrShares(r[j], Shifted(bs[k], a - 1))
    <3>1. HoldsOrShares(w, Shifted(bs[k], a - 1))
      BY <1>6, <2>2 DEF HoldsOrShares
    <3> QED
      BY <2>5, <3>1
  <2> QED
    BY <2>7, <2>8 DEF a, t, z, bs, r
<1>8. CASE ~ (EstimateTokens(t) <= ChunkBudget)
  <2>1. r = PackBlocks(sh, 0)
    BY <1>2, <1>8
  <2>2. Parts(sh, d, a, z)
    BY <1>1, <1>4, ShiftedParts
  <2>3. DOMAIN sh = DOMAIN bs /\ DOMAIN sh = 1..Len(sh)
    BY <2>2 DEF Parts
  <2>4. \A k \in DOMAIN bs : sh[k] = Shifted(bs[k], a - 1)
    OBVIOUS
  <2> HIDE DEF sh, z
  <2>5. /\ Chunked(r, d, a, z)
        /\ \A k \in 1..Len(sh) : sh[k].atomic =>
             \E j \in DOMAIN r : HoldsOrShares(r[j], sh[k])
    BY <1>3, <2>1, <2>2, PackedAre
  <2>6. ASSUME NEW k \in DOMAIN bs, bs[k].atomic
        PROVE  \E j \in DOMAIN r : HoldsOrShares(r[j], Shifted(bs[k], a - 1))
    <3>1. sh[k] = Shifted(bs[k], a - 1) /\ k \in 1..Len(sh)
      BY <2>3, <2>4
    <3>2. sh[k].atomic
      BY <1>6, <2>6, <3>1
    <3> QED
      BY <2>5, <3>1, <3>2
  <2> QED
    BY <2>5, <2>6 DEF a, t, z, bs, r
<1> QED
  BY <1>7, <1>8

-----------------------------------------------------------------------------
(* How a file is chunked.                                                  *)

\* ShiftedPreamble, of any text.
Preamble(d, i) ==
  /\ d[1] = Empty
  /\ \A n \in DOMAIN Sections(d) : Sections(d)[n].start \notin 2..i

\* The chunk's text is what the text d has at the lines it names.
InFile(c, d) ==
  /\ c.first \in 1..Len(d) /\ c.last \in 1..Len(d)
  /\ c.text = SubSeq(d, c.first, c.last)

Found(n, r, d) ==
  \E j \in DOMAIN r : /\ n \in r[j].first..r[j].last
                      /\ r[j].text[n - r[j].first + 1] = d[n]

\* A chunk placed in the file has there what it says, and holds its lines.
LEMMA PlacedInFile ==
  ASSUME NEW d \in Seq(LineSet), NEW c, Placed(c, d)
  PROVE  /\ InFile(c, d)
         /\ \A n \in Int : c.first <= n /\ n <= c.last =>
              n \in c.first..c.last /\ c.text[n - c.first + 1] = d[n]
<1> DEFINE f == c.first
           l == c.last
           t == c.text
<1>1. /\ f \in Nat \ {0} /\ l \in Nat /\ f <= l /\ l <= Len(d) /\ Len(d) \in Nat
      /\ t \in Seq(LineSet) /\ Len(t) = l - f + 1 /\ Lies(t, d, f)
  BY PlacedMeaning DEF Placed
<1> HIDE DEF f, l, t
<1>2. t = SubSeq(d, f, l)
  <2>1. l \in Int
    BY <1>1
  <2> QED
    BY <1>1, <2>1, LiesIsSubSeq
<1>3. f \in 1..Len(d) /\ l \in 1..Len(d)
  BY <1>1
<1>4. ASSUME NEW n \in Int, f <= n, n <= l PROVE n \in f..l /\ t[n - f + 1] = d[n]
  <2>1. n - f + 1 \in 1..Len(t) /\ f + (n - f + 1) - 1 = n /\ n \in f..l
    BY <1>1, <1>4
  <2>2. \A j \in 1..Len(t) : t[j] = d[f + j - 1]
    BY <1>1 DEF Lies
  <2> QED
    BY <2>1, <2>2
<1> QED
  BY <1>2, <1>3, <1>4 DEF InFile, f, l, t

\* A file that is not markdown.
LEMMA TextFile ==
  ASSUME NEW d \in Seq(LineSet), format # "markdown"
  PROVE  LET r == ChunksOfFile(d)
         IN /\ r \in Seq(Blk)
            /\ \A j \in DOMAIN r : Allowed(r[j]) /\ InFile(r[j], d)
            /\ \A n \in 1..Len(d) : d[n] = Empty \/ Found(n, r, d)
<1> DEFINE structured == format = "structured"
           bs == SplitIntoBlocks(d, FALSE, structured)
           r  == ChunksOfFile(d)
<1>1. r = PackBlocks(bs, Overlap)
  BY DEF ChunksOfFile
<1> HIDE DEF r, structured
<1>2. Parts(bs, d, 1, Len(d)) /\ \A k \in DOMAIN bs : ~bs[k].atomic
  BY SplitParts
<1> HIDE DEF bs
<1>3. /\ Overlap \in Nat /\ 1 \in Nat \ {0} /\ Len(d) \in 0..Len(d)
      /\ \A k \in 1..Len(bs) : ~bs[k].atomic
  BY <1>2, ChunkingAssumption DEF Parts
<1>4. Chunked(r, d, 1, Len(d))
  BY <1>1, <1>2, <1>3, PackedAre
<1>5. r \in Seq(Blk) /\ \A j \in DOMAIN r : Allowed(r[j]) /\ Placed(r[j], d)
  BY <1>4 DEF Chunked
<1>6. \A j \in DOMAIN r : InFile(r[j], d)
  BY <1>5, PlacedInFile
<1>7. ASSUME NEW n \in 1..Len(d), d[n] # Empty PROVE Found(n, r, d)
  <2>1. PICK j \in DOMAIN r : r[j].first <= n /\ n <= r[j].last
    BY <1>4, <1>7 DEF Chunked, InSome
  <2>2. n \in r[j].first..r[j].last /\ r[j].text[n - r[j].first + 1] = d[n]
    BY <1>5, <2>1, PlacedInFile
  <2> QED
    BY <2>2 DEF Found
<1> QED
  BY <1>5, <1>6, <1>7 DEF r

\* A section is in the file where it says, or it is a shifted preamble and has
\* a text of its own.
LEMMA SectionPlaced ==
  ASSUME NEW d \in Seq(LineSet), NEW k \in DOMAIN Sections(d), NEW e \in 0..Len(d),
         Extends(Sections(d), k, d, e)
  PROVE  LET sec == Sections(d)[k]
             r   == MarkdownChunks(sec)
             bs  == SplitIntoBlocks(sec.text, TRUE, FALSE)
         IN /\ r \in Seq(Blk)
            /\ \A j \in DOMAIN r : /\ Allowed(r[j])
                                   /\ r[j].first \in 1..Len(d) /\ r[j].last \in 1..Len(d)
                                   /\ InFile(r[j], d) \/ Preamble(d, r[j].first)
            /\ \A n \in 1..Len(d) : sec.start <= n /\ n <= e =>
                 d[n] = Empty \/ Found(n, r, d) \/ Preamble(d, n)
            /\ \A l \in DOMAIN bs : bs[l].atomic =>
                 \E j \in DOMAIN r : HoldsOrShares(r[j], Shifted(bs[l], sec.start - 1))
<1> DEFINE ss  == Sections(d)
           sec == ss[k]
           a   == sec.start
           t   == sec.text
           r   == MarkdownChunks(sec)
           bs  == SplitIntoBlocks(t, TRUE, FALSE)
           z   == a + Len(t) - 1
           Chunks(D) == /\ Chunked(r, D, a, z)
                        /\ \A l \in DOMAIN bs : bs[l].atomic =>
                             \E j \in DOMAIN r : HoldsOrShares(r[j], Shifted(bs[l], a - 1))
<1>1. e \in Nat /\ e <= Len(d) /\ Len(d) \in Nat
  OBVIOUS
<1>2. SecAt(sec, d, e) /\ \A l \in DOMAIN ss : ss[l].start <= a \/ e < ss[l].start
  BY DEF Extends
<1>3. /\ t \in Seq(LineSet) /\ t # <<>> /\ Len(t) \in Nat \ {0}
      /\ a \in Nat \ {0} /\ z <= e
      /\ d[a] # Empty => /\ Lies(t, d, a)
                         /\ \A n \in a..e : d[n] # Empty => n <= z
  BY <1>1, <1>2, SectionText
<1>4. a = 1 \/ d[a] # Empty
  BY <1>2 DEF SecAt
<1>5. \A D \in Seq(LineSet) : Lies(t, D, a) => Chunks(D)
  BY <1>3, SectionChunks
<1>6. Sectioned(ss, d, Len(d))
  BY SectionsMeaning
<1>7. \A l \in DOMAIN ss : ss[l].start \in Nat
  BY <1>6 DEF Sectioned, Extends, SecAt
<1> HIDE DEF sec, ss, r, bs, t
<1>8. CASE d[a] # Empty
  <2>1. Chunks(d)
    BY <1>3, <1>5, <1>8
  <2>2. r \in Seq(Blk) /\ \A j \in DOMAIN r : Allowed(r[j]) /\ Placed(r[j], d)
    BY <2>1 DEF Chunked
  <2>3. \A j \in DOMAIN r : InFile(r[j], d)
    BY <2>2, PlacedInFile
  <2>4. ASSUME NEW n \in 1..Len(d), a <= n, n <= e, d[n] # Empty PROVE Found(n, r, d)
    <3>1. n \in a..z
      BY <1>3, <1>8, <2>4
    <3>2. PICK j \in DOMAIN r : r[j].first <= n /\ n <= r[j].last
      BY <2>1, <2>4, <3>1 DEF Chunked, InSome
    <3>3. n \in r[j].first..r[j].last /\ r[j].text[n - r[j].first + 1] = d[n]
      BY <2>2, <3>2, PlacedInFile
    <3> QED
      BY <3>3 DEF Found
  <2> QED
    BY <2>1, <2>2, <2>3, <2>4 DEF InFile, ss, sec, r, bs, t
<1>9. CASE d[a] = Empty
  <2>1. a = 1 /\ d[1] = Empty
    BY <1>4, <1>9
  <2>2. Lies(t, t, 1)
    BY <1>3 DEF Lies
  <2>3. Chunks(t)
    BY <1>3, <1>5, <2>1, <2>2
  <2>4. /\ r \in Seq(Blk)
        /\ \A j \in DOMAIN r : Allowed(r[j]) /\ Placed(r[j], t) /\ r[j].last <= z
    BY <2>3 DEF Chunked
  <2>5. \A i \in Int : i <= e => Preamble(d, i)
    <3> TAKE i \in Int
    <3> HAVE i <= e
    <3>1. ASSUME NEW l \in DOMAIN ss PROVE ss[l].start \notin 2..i
      <4>1. ss[l].start <= 1 \/ e < ss[l].start
        BY <1>2, <2>1 DEF sec
      <4>2. ss[l].start \in Nat
        BY <1>7
      <4> QED
        BY <1>1, <4>1, <4>2
    <3> QED
      BY <2>1, <3>1 DEF Preamble, ss
  <2>6. ASSUME NEW j \in DOMAIN r
        PROVE  /\ r[j].first \in 1..Len(d) /\ r[j].last \in 1..Len(d)
               /\ Preamble(d, r[j].first)
    <3>1. /\ r[j].first \in Int /\ r[j].last \in Int /\ 1 <= r[j].first
          /\ r[j].first <= r[j].last /\ r[j].last <= z
      BY <1>3, <2>4, PlacedMeaning
    <3>2. r[j].first <= e /\ r[j].last <= Len(d)
      BY <1>1, <1>3, <3>1
    <3> QED
      BY <1>1, <2>5, <3>1, <3>2
  <2>7. \A n \in 1..Len(d) : n <= e => Preamble(d, n)
    BY <2>5
  <2> QED
    BY <2>3, <2>4, <2>6, <2>7 DEF ss, sec, r, bs, t
<1> QED
  BY <1>8, <1>9

LEMMA MarkdownFile ==
  ASSUME NEW d \in Seq(LineSet), format = "markdown"
  PROVE  LET r  == ChunksOfFile(d)
             ss == Sections(d)
         IN /\ r \in Seq(Blk)
            /\ \A j \in DOMAIN r : /\ Allowed(r[j])
                                   /\ r[j].first \in 1..Len(d) /\ r[j].last \in 1..Len(d)
                                   /\ InFile(r[j], d) \/ Preamble(d, r[j].first)
            /\ \A n \in 1..Len(d) : d[n] = Empty \/ Found(n, r, d) \/ Preamble(d, n)
            /\ \A k \in DOMAIN ss :
                 LET bs == SplitIntoBlocks(ss[k].text, TRUE, FALSE) IN
                 \A l \in DOMAIN bs : bs[l].atomic =>
                   \E j \in DOMAIN r : HoldsOrShares(r[j], Shifted(bs[l], ss[k].start - 1))
<1> DEFINE ss == Sections(d)
           q  == [i \in DOMAIN ss |-> MarkdownChunks(ss[i])]
           r  == ChunksOfFile(d)
           Held(k) == LET bs == SplitIntoBlocks(ss[k].text, TRUE, FALSE) IN
                      \A l \in DOMAIN bs : bs[l].atomic =>
                        \E j \in DOMAIN q[k] :
                          HoldsOrShares(q[k][j], Shifted(bs[l], ss[k].start - 1))
<1>1. r = FlattenSeq(q)
  BY DEF ChunksOfFile
<1>2. Sectioned(ss, d, Len(d))
  BY SectionsMeaning
<1>3. ss \in Seq(Sec) /\ DOMAIN ss = 1..Len(ss) /\ Len(ss) \in Nat
  BY <1>2 DEF Sectioned
<1>4. ASSUME NEW k \in DOMAIN ss
      PROVE  /\ q[k] \in Seq(Blk) /\ Held(k)
             /\ \A j \in DOMAIN q[k] :
                  /\ Allowed(q[k][j])
                  /\ q[k][j].first \in 1..Len(d) /\ q[k][j].last \in 1..Len(d)
                  /\ InFile(q[k][j], d) \/ Preamble(d, q[k][j].first)
  <2>1. PICK e \in 0..Len(d) : Extends(ss, k, d, e)
    BY <1>2 DEF Sectioned
  <2>2. q[k] = MarkdownChunks(Sections(d)[k])
    OBVIOUS
  <2> QED
    BY <2>1, <2>2, SectionPlaced
<1>5. ASSUME NEW k \in DOMAIN ss, NEW e \in 0..Len(d), Extends(ss, k, d, e),
             NEW n \in 1..Len(d), ss[k].start <= n, n <= e
      PROVE  d[n] = Empty \/ Found(n, q[k], d) \/ Preamble(d, n)
  <2>1. q[k] = MarkdownChunks(Sections(d)[k])
    OBVIOUS
  <2> QED
    BY <1>5, <2>1, SectionPlaced
<1>6. q \in Seq(Seq(Blk)) /\ Len(q) = Len(ss)
  <2> DEFINE B == Seq(Blk)
  <2>1. DOMAIN q = 1..Len(ss) /\ \A j \in 1..Len(ss) : q[j] \in B
    BY <1>3, <1>4
  <2>2. q = [j \in 1..Len(ss) |-> q[j]]
    BY <1>3
  <2> HIDE DEF B, q, ss
  <2>3. q \in Seq(B) /\ Len(q) = Len(ss)
    BY <1>3, <2>1, <2>2
  <2> QED
    BY <2>3 DEF B
<1> HIDE DEF q, r, ss
<1>7. /\ r \in Seq(Blk)
      /\ \A x : Contains(r, x) <=> \E i \in 1..Len(ss) : Contains(q[i], x)
  BY <1>1, <1>6, FlattenMeaning
<1>8. ASSUME NEW j \in DOMAIN r
      PROVE  \E k \in DOMAIN ss : \E l \in DOMAIN q[k] : r[j] = q[k][l]
  <2>1. Contains(r, r[j])
    BY <1>7 DEF Contains
  <2>2. PICK k \in 1..Len(ss) : Contains(q[k], r[j])
    BY <1>7, <2>1
  <2>3. PICK l \in 1..Len(q[k]) : q[k][l] = r[j]
    BY <2>2 DEF Contains
  <2>4. l \in DOMAIN q[k] /\ k \in DOMAIN ss
    BY <1>3, <1>4
  <2> QED
    BY <2>3, <2>4
<1>9. ASSUME NEW k \in DOMAIN ss, NEW l \in DOMAIN q[k]
      PROVE  \E j \in DOMAIN r : r[j] = q[k][l]
  <2>0. q[k] \in Seq(Blk)
    BY <1>4
  <2>1. l \in 1..Len(q[k]) /\ k \in 1..Len(ss)
    BY <1>3, <2>0
  <2>2. Contains(q[k], q[k][l])
    BY <2>1 DEF Contains
  <2>3. Contains(r, q[k][l])
    BY <1>7, <2>1, <2>2
  <2>4. DOMAIN r = 1..Len(r)
    BY <1>7
  <2> QED
    BY <2>3, <2>4 DEF Contains
<1>10. ASSUME NEW j \in DOMAIN r
       PROVE  /\ Allowed(r[j])
              /\ r[j].first \in 1..Len(d) /\ r[j].last \in 1..Len(d)
              /\ InFile(r[j], d) \/ Preamble(d, r[j].first)
  <2>1. PICK k \in DOMAIN ss : \E l \in DOMAIN q[k] : r[j] = q[k][l]
    BY <1>8
  <2>2. PICK l \in DOMAIN q[k] : r[j] = q[k][l]
    BY <2>1
  <2> QED
    BY <1>4, <2>2
<1>11. ASSUME NEW n \in 1..Len(d), d[n] # Empty
       PROVE  Found(n, r, d) \/ Preamble(d, n)
  <2>1. PICK k \in DOMAIN ss, e \in 0..Len(d) :
          Extends(ss, k, d, e) /\ ss[k].start <= n /\ n <= e
    BY <1>2, <1>11 DEF Sectioned
  <2>2. Found(n, q[k], d) \/ Preamble(d, n)
    BY <1>5, <1>11, <2>1
  <2>3. ASSUME Found(n, q[k], d) PROVE Found(n, r, d)
    BY <1>9, <2>3 DEF Found
  <2> QED
    BY <2>2, <2>3
<1>12. ASSUME NEW k \in DOMAIN ss
       PROVE  LET bs == SplitIntoBlocks(ss[k].text, TRUE, FALSE) IN
              \A l \in DOMAIN bs : bs[l].atomic =>
                \E j \in DOMAIN r : HoldsOrShares(r[j], Shifted(bs[l], ss[k].start - 1))
  <2> DEFINE bs == SplitIntoBlocks(ss[k].text, TRUE, FALSE)
  <2> SUFFICES ASSUME NEW l \in DOMAIN bs, bs[l].atomic
               PROVE  \E j \in DOMAIN r :
                        HoldsOrShares(r[j], Shifted(bs[l], ss[k].start - 1))
    OBVIOUS
  <2>1. PICK i \in DOMAIN q[k] : HoldsOrShares(q[k][i], Shifted(bs[l], ss[k].start - 1))
    BY <1>4
  <2> QED
    BY <1>9, <2>1
<1> QED
  BY <1>7, <1>10, <1>11, <1>12 DEF r, ss

-----------------------------------------------------------------------------
(* Theorems.                                                               *)

\* The chunks are those of the file as it is.
ChunksAreOfTheFile ==
  /\ format \in Formats
  /\ document \in Seq(LineSet) /\ Len(document) <= MaxLines
  /\ chunks = ChunksOfFile(document)

LEMMA FileMeaning ==
  ASSUME format \in Formats, NEW d \in Seq(LineSet)
  PROVE  LET r == ChunksOfFile(d)
         IN /\ r \in Seq(Blk)
            /\ \A j \in DOMAIN r : /\ Allowed(r[j])
                                   /\ r[j].first \in 1..Len(d) /\ r[j].last \in 1..Len(d)
                                   /\ InFile(r[j], d) \/ Preamble(d, r[j].first)
            /\ \A n \in 1..Len(d) : d[n] = Empty \/ Found(n, r, d) \/ Preamble(d, n)
            /\ format # "markdown" =>
                 /\ \A j \in DOMAIN r : InFile(r[j], d)
                 /\ \A n \in 1..Len(d) : d[n] = Empty \/ Found(n, r, d)
<1>1. CASE format = "markdown"
  BY <1>1, MarkdownFile
<1>2. CASE format # "markdown"
  <2> DEFINE r == ChunksOfFile(d)
  <2>1. /\ r \in Seq(Blk)
        /\ \A j \in DOMAIN r : Allowed(r[j]) /\ InFile(r[j], d)
        /\ \A n \in 1..Len(d) : d[n] = Empty \/ Found(n, r, d)
    BY <1>2, TextFile
  <2> HIDE DEF r
  <2>2. \A j \in DOMAIN r : r[j].first \in 1..Len(d) /\ r[j].last \in 1..Len(d)
    BY <2>1 DEF InFile
  <2> QED
    BY <2>1, <2>2 DEF r
<1> QED
  BY <1>1, <1>2

LEMMA NothingIsChunked ==
  ASSUME format \in Formats
  PROVE  ChunksOfFile(<<>>) = <<>>
<1> DEFINE r == ChunksOfFile(<<>>)
<1>1. <<>> \in Seq(LineSet) /\ Len(<<>>) = 0
  OBVIOUS
<1>2. r \in Seq(Blk) /\ \A j \in DOMAIN r : r[j].first \in 1..0
  BY <1>1, FileMeaning
<1> HIDE DEF r
<1>3. \A x \in 1..0 : FALSE
  OBVIOUS
<1>4. DOMAIN r = {}
  BY <1>2, <1>3
<1>5. r = <<>>
  BY <1>2, <1>4
<1> QED
  BY <1>5 DEF r

\* In every state the chunks are those of the file, so that FileMeaning says
\* what they are.
THEOREM ChunksAreOfTheFileAlways == ChunkingSpec => []ChunksAreOfTheFile
<1>1. ChunkingInit => ChunksAreOfTheFile
  <2> SUFFICES ASSUME ChunkingInit PROVE ChunksAreOfTheFile
    OBVIOUS
  <2>1. format \in Formats /\ document = <<>> /\ chunks = <<>>
    BY DEF ChunkingInit
  <2>2. chunks = ChunksOfFile(document)
    BY <2>1, NothingIsChunked
  <2>3. document \in Seq(LineSet) /\ Len(document) <= MaxLines
    BY <2>1, ChunkingAssumption
  <2> QED
    BY <2>1, <2>2, <2>3 DEF ChunksAreOfTheFile
<1>2. ChunksAreOfTheFile /\ [ChunkingNext]_chunkingVars => ChunksAreOfTheFile'
  <2> SUFFICES ASSUME ChunksAreOfTheFile, [ChunkingNext]_chunkingVars
               PROVE  ChunksAreOfTheFile'
    OBVIOUS
  <2>1. CASE UNCHANGED chunkingVars
    BY <2>1 DEF ChunksAreOfTheFile, chunkingVars, ChunksOfFile
  <2>2. ASSUME NEW line \in LineSet, Chunk(line) PROVE ChunksAreOfTheFile'
    <3>1. document \in Seq(LineSet) /\ Len(document) \in Nat /\ Len(document) < MaxLines
      BY <2>2 DEF ChunksAreOfTheFile, Chunk
    <3>2. document' = Append(document, line) /\ format' = format
      BY <2>2 DEF Chunk
    <3>3. document' \in Seq(LineSet) /\ Len(document') <= MaxLines
      BY <3>1, <3>2, ChunkingAssumption
    <3>4. chunks' = ChunksOfFile(document)'
      BY <2>2, <3>2 DEF Chunk, ChunksOfFile
    <3> QED
      BY <3>2, <3>3, <3>4 DEF ChunksAreOfTheFile
  <2> QED
    BY <2>1, <2>2 DEF ChunkingNext
<1> QED
  BY <1>1, <1>2, PTL DEF ChunkingSpec

\* Every chunk is of lines the file has.
THEOREM ChunkingType == ChunkingSpec => []ChunkingTypeOK
<1>1. ChunksAreOfTheFile => ChunkingTypeOK
  <2> SUFFICES ASSUME ChunksAreOfTheFile PROVE ChunkingTypeOK
    OBVIOUS
  <2>1. /\ format \in Formats /\ document \in Seq(LineSet) /\ Len(document) <= MaxLines
        /\ chunks = ChunksOfFile(document)
    BY DEF ChunksAreOfTheFile
  <2>2. /\ chunks \in Seq(Blk)
        /\ \A i \in DOMAIN chunks : /\ chunks[i].first \in 1..Len(document)
                                    /\ chunks[i].last \in 1..Len(document)
    BY <2>1, FileMeaning
  <2>3. DOMAIN document = 1..Len(document)
    BY <2>1
  <2>4. \A i \in DOMAIN chunks : chunks[i] \in Blk
    BY <2>2
  <2>5. \A i \in DOMAIN chunks :
          /\ chunks[i].text \in Seq(LineSet) /\ chunks[i].atomic \in BOOLEAN
          /\ {chunks[i].first, chunks[i].last} \subseteq DOMAIN document
    BY <2>2, <2>3, <2>4 DEF Blk
  <2> QED
    BY <2>1, <2>5 DEF ChunkingTypeOK
<1> QED
  BY <1>1, ChunksAreOfTheFileAlways, PTL

\* What a chunk's text is: merging, carrying over and cutting keep each line
\* where it is, in every file but one that starts with empty lines, before its
\* first heading.
THEOREM ChunksAreWhereTheySay == ChunkingSpec => []TextIsAtItsLines
<1>1. ChunksAreOfTheFile => TextIsAtItsLines
  <2> SUFFICES ASSUME ChunksAreOfTheFile, NEW i \in DOMAIN chunks
               PROVE  ShiftedPreamble(chunks[i].first)
                      \/ chunks[i].text = SubSeq(document, chunks[i].first, chunks[i].last)
    BY DEF TextIsAtItsLines
  <2>1. format \in Formats /\ document \in Seq(LineSet) /\ chunks = ChunksOfFile(document)
    BY DEF ChunksAreOfTheFile
  <2>2. \/ InFile(chunks[i], document)
        \/ format = "markdown" /\ Preamble(document, chunks[i].first)
    BY <2>1, FileMeaning
  <2> QED
    BY <2>2 DEF InFile, Preamble, ShiftedPreamble
<1> QED
  BY <1>1, ChunksAreOfTheFileAlways, PTL

\* No line with text is lost, whatever the budget, the overlap and the file.
THEOREM NoLineIsLost == ChunkingSpec => []EveryLineIsInAChunk
<1>1. ChunksAreOfTheFile => EveryLineIsInAChunk
  <2> SUFFICES ASSUME ChunksAreOfTheFile, NEW n \in DOMAIN document, document[n] # Empty,
                      ~ShiftedPreamble(n)
               PROVE  \E i \in DOMAIN chunks :
                        LET c == chunks[i] IN
                        n \in c.first..c.last /\ c.text[n - c.first + 1] = document[n]
    BY DEF EveryLineIsInAChunk
  <2>1. format \in Formats /\ document \in Seq(LineSet) /\ chunks = ChunksOfFile(document)
    BY DEF ChunksAreOfTheFile
  <2>2. n \in 1..Len(document)
    BY <2>1
  <2>3. \/ Found(n, chunks, document)
        \/ format = "markdown" /\ Preamble(document, n)
    BY <2>1, <2>2, FileMeaning
  <2>4. Found(n, chunks, document)
    BY <2>3 DEF Preamble, ShiftedPreamble
  <2> QED
    BY <2>4 DEF Found
<1> QED
  BY <1>1, ChunksAreOfTheFileAlways, PTL

\* What is over the budget is one line or a fence, and a fence that is cut
\* shares a chunk with other text, for every budget and rounding.
THEOREM OnlyWhatMayBeIsCut == ChunkingSpec => []CutsAreWhereTheyMayBe
<1>1. ChunksAreOfTheFile => CutsAreWhereTheyMayBe
  <2> SUFFICES ASSUME ChunksAreOfTheFile PROVE CutsAreWhereTheyMayBe
    OBVIOUS
  <2>1. format \in Formats /\ document \in Seq(LineSet) /\ chunks = ChunksOfFile(document)
    BY DEF ChunksAreOfTheFile
  <2>2. \A i \in DOMAIN chunks : \/ EstimateTokens(chunks[i].text) <= ChunkBudget
                                 \/ Len(chunks[i].text) = 1
                                 \/ chunks[i].atomic
    BY <2>1, FileMeaning DEF Allowed
  <2> DEFINE blocks(s) == SplitIntoBlocks(s.text, TRUE, FALSE)
             fencesIn(s) == LET b == blocks(s) IN
               {Shifted(b[i], s.start - 1) : i \in {j \in DOMAIN b : b[j].atomic}}
             ss == Sections(document)
             fences == IF format # "markdown" THEN {}
                       ELSE UNION {fencesIn(ss[i]) : i \in DOMAIN ss}
             touched(f) ==
               {i \in DOMAIN chunks : chunks[i].first <= f.last /\ f.first <= chunks[i].last}
             holds(i, f) == chunks[i].first <= f.first /\ f.last <= chunks[i].last
  <2>3. ASSUME NEW f \in fences
        PROVE  \/ \E i \in DOMAIN chunks : holds(i, f)
               \/ \E i \in touched(f) : chunks[i].first < f.first \/ chunks[i].last > f.last
    <3>1. format = "markdown"
      OBVIOUS
    <3>2. PICK k \in DOMAIN ss : f \in fencesIn(ss[k])
      BY <3>1
    <3>3. PICK l \in DOMAIN blocks(ss[k]) :
            blocks(ss[k])[l].atomic /\ f = Shifted(blocks(ss[k])[l], ss[k].start - 1)
      BY <3>2
    <3>4. PICK j \in DOMAIN chunks : HoldsOrShares(chunks[j], f)
      BY <2>1, <3>1, <3>3, MarkdownFile
    <3> QED
      BY <3>4 DEF HoldsOrShares
  <2> QED
    BY <2>2, <2>3 DEF CutsAreWhereTheyMayBe
<1> QED
  BY <1>1, ChunksAreOfTheFileAlways, PTL

=============================================================================
