----------------------------- MODULE SearchProofs -----------------------------
(***************************************************************************)
(* Theorems about a search call, for every ranking, filter, limit and      *)
(* every interleaving with edits, commits and index runs.                  *)
(***************************************************************************)
EXTENDS Search, EmbeddingProofs

-----------------------------------------------------------------------------
(* Filters: each dialect keeps what the filter means.                      *)

\* What a filter means, in no dialect.
Kept(p, filters) ==
  /\ filters.repo # Absent => RepoOf[p] = filters.repo
  /\ filters.docType # Absent => DocType[p] = filters.docType
  /\ filters.docTypes # {} => DocType[p] \in filters.docTypes
  /\ DocType[p] \notin filters.exclude

LEMMA ExactTermsMeaning ==
  ASSUME NEW filters
  PROVE  /\ DOMAIN ExactTerms(filters) \subseteq {"repo", "doc_type"}
         /\ "repo" \in DOMAIN ExactTerms(filters) <=> filters.repo # Absent
         /\ "doc_type" \in DOMAIN ExactTerms(filters) <=> filters.docType # Absent
         /\ filters.repo # Absent => ExactTerms(filters)["repo"] = filters.repo
         /\ filters.docType # Absent => ExactTerms(filters)["doc_type"] = filters.docType
BY DEF ExactTerms

\* The conditions that all of the dialects share.
Exactly(p, exact) == \A key \in DOMAIN exact : Field(p, key) = exact[key]

LEMMA ExactlyMeaning ==
  ASSUME NEW p, NEW filters
  PROVE  Exactly(p, ExactTerms(filters)) <=>
           /\ filters.repo # Absent => RepoOf[p] = filters.repo
           /\ filters.docType # Absent => DocType[p] = filters.docType
<1>1. Field(p, "repo") = RepoOf[p] /\ Field(p, "doc_type") = DocType[p]
  BY DEF Field
<1> QED
  BY <1>1, ExactTermsMeaning DEF Exactly

LEMMA QdrantMeaning ==
  ASSUME NEW p, NEW filters
  PROVE  QdrantPasses(p, filters) <=> Kept(p, filters)
<1> DEFINE exact == ExactTerms(filters)
           terms == {<<key, {exact[key]}>> : key \in DOMAIN exact}
           types == IF filters.docTypes = {} THEN {} ELSE {<<"doc_type", filters.docTypes>>}
           not   == {<<"doc_type", {type}>> : type \in filters.exclude}
<1>0. BuildFilter(filters) = [must |-> terms \cup types, mustNot |-> not]
  BY DEF BuildFilter
<1>1. Field(p, "doc_type") = DocType[p]
  BY DEF Field
<1> HIDE DEF exact
<1>2. (\A c \in terms : Field(p, c[1]) \in c[2]) <=> Exactly(p, exact)
  <2>1. ASSUME \A c \in terms : Field(p, c[1]) \in c[2], NEW key \in DOMAIN exact
        PROVE  Field(p, key) = exact[key]
    <3>1. <<key, {exact[key]}>> \in terms
      OBVIOUS
    <3> QED
      BY <2>1, <3>1
  <2>2. ASSUME Exactly(p, exact), NEW c \in terms
        PROVE  Field(p, c[1]) \in c[2]
    <3>1. PICK key \in DOMAIN exact : c = <<key, {exact[key]}>>
      OBVIOUS
    <3> QED
      BY <2>2, <3>1 DEF Exactly
  <2> QED
    BY <2>1, <2>2 DEF Exactly
<1>3. (\A c \in types : Field(p, c[1]) \in c[2])
        <=> (filters.docTypes # {} => DocType[p] \in filters.docTypes)
  <2>1. CASE filters.docTypes = {}
    BY <2>1
  <2>2. CASE filters.docTypes # {}
    <3>1. types = {<<"doc_type", filters.docTypes>>}
      BY <2>2
    <3> HIDE DEF types
    <3> QED
      BY <1>1, <2>2, <3>1
  <2> QED
    BY <2>1, <2>2
<1>4. (\A c \in not : Field(p, c[1]) \notin c[2]) <=> DocType[p] \notin filters.exclude
  <2>1. ASSUME \A c \in not : Field(p, c[1]) \notin c[2], DocType[p] \in filters.exclude
        PROVE  FALSE
    <3>1. <<"doc_type", {DocType[p]}>> \in not
      BY <2>1
    <3> QED
      BY <1>1, <2>1, <3>1
  <2>2. ASSUME DocType[p] \notin filters.exclude, NEW c \in not
        PROVE  Field(p, c[1]) \notin c[2]
    <3>1. PICK type \in filters.exclude : c = <<"doc_type", {type}>>
      OBVIOUS
    <3> QED
      BY <1>1, <2>2, <3>1
  <2> QED
    BY <2>1, <2>2
<1> HIDE DEF terms, types, not
<1>5. QdrantPasses(p, filters) <=>
        /\ \A c \in terms : Field(p, c[1]) \in c[2]
        /\ \A c \in types : Field(p, c[1]) \in c[2]
        /\ \A c \in not : Field(p, c[1]) \notin c[2]
  BY <1>0 DEF QdrantPasses
<1> QED
  BY <1>2, <1>3, <1>4, <1>5, ExactlyMeaning DEF Kept, exact

LEMMA VectorMeaning ==
  ASSUME NEW p, NEW filters
  PROVE  VectorPasses(p, filters) <=> Kept(p, filters)
<1> DEFINE exact == ExactTerms(filters)
           terms == {<<key, "$eq", exact[key]>> : key \in DOMAIN exact}
           types == IF filters.docTypes = {} THEN {}
                    ELSE {<<"doc_type", "$in", filters.docTypes>>}
           not   == IF filters.exclude = {} THEN {}
                    ELSE {<<"doc_type", "$nin", filters.exclude>>}
<1>0. VectorFilter(filters) = terms \cup types \cup not
  BY DEF VectorFilter
<1>1. Field(p, "doc_type") = DocType[p]
  BY DEF Field
<1>2. \A key, value : /\ Holds(p, key, "$eq", value) <=> Field(p, key) = value
                      /\ Holds(p, key, "$in", value) <=> Field(p, key) \in value
                      /\ Holds(p, key, "$nin", value) <=> Field(p, key) \notin value
  BY DEF Holds
<1> HIDE DEF exact
<1>3. (\A c \in terms : Holds(p, c[1], c[2], c[3])) <=> Exactly(p, exact)
  <2>1. ASSUME \A c \in terms : Holds(p, c[1], c[2], c[3]), NEW key \in DOMAIN exact
        PROVE  Field(p, key) = exact[key]
    <3>1. <<key, "$eq", exact[key]>> \in terms
      OBVIOUS
    <3>2. Holds(p, key, "$eq", exact[key])
      BY <2>1, <3>1
    <3> QED
      BY <1>2, <3>2
  <2>2. ASSUME Exactly(p, exact), NEW c \in terms
        PROVE  Holds(p, c[1], c[2], c[3])
    <3>1. PICK key \in DOMAIN exact : c = <<key, "$eq", exact[key]>>
      OBVIOUS
    <3>2. Holds(p, key, "$eq", exact[key])
      BY <1>2, <2>2 DEF Exactly
    <3> QED
      BY <3>1, <3>2
  <2> QED
    BY <2>1, <2>2 DEF Exactly
<1>4. (\A c \in types : Holds(p, c[1], c[2], c[3]))
        <=> (filters.docTypes # {} => DocType[p] \in filters.docTypes)
  <2>1. CASE filters.docTypes = {}
    BY <2>1
  <2>2. CASE filters.docTypes # {}
    <3>1. types = {<<"doc_type", "$in", filters.docTypes>>}
      BY <2>2
    <3> HIDE DEF types
    <3>2. (\A c \in types : Holds(p, c[1], c[2], c[3]))
            <=> Holds(p, "doc_type", "$in", filters.docTypes)
      BY <3>1
    <3> QED
      BY <1>1, <1>2, <2>2, <3>2
  <2> QED
    BY <2>1, <2>2
<1>5. (\A c \in not : Holds(p, c[1], c[2], c[3])) <=> DocType[p] \notin filters.exclude
  <2>1. CASE filters.exclude = {}
    BY <2>1
  <2>2. CASE filters.exclude # {}
    <3>1. not = {<<"doc_type", "$nin", filters.exclude>>}
      BY <2>2
    <3> HIDE DEF not
    <3>2. (\A c \in not : Holds(p, c[1], c[2], c[3]))
            <=> Holds(p, "doc_type", "$nin", filters.exclude)
      BY <3>1
    <3> QED
      BY <1>1, <1>2, <2>2, <3>2
  <2> QED
    BY <2>1, <2>2
<1> HIDE DEF terms, types, not
<1>6. VectorPasses(p, filters) <=>
        /\ \A c \in terms : Holds(p, c[1], c[2], c[3])
        /\ \A c \in types : Holds(p, c[1], c[2], c[3])
        /\ \A c \in not : Holds(p, c[1], c[2], c[3])
  BY <1>0 DEF VectorPasses
<1> QED
  BY <1>3, <1>4, <1>5, <1>6, ExactlyMeaning DEF Kept, exact

LEMMA TextMeaning ==
  ASSUME NEW p, NEW filters
  PROVE  TextPasses(p, filters) <=> QdrantPasses(p, filters)
<1> DEFINE not == {<<"doc_type", type>> : type \in filters.exclude}
           but == {<<"doc_type", {type}>> : type \in filters.exclude}
<1>1. /\ SearchClauses(filters).filter = BuildFilter(filters).must
      /\ SearchClauses(filters).mustNot = not /\ BuildFilter(filters).mustNot = but
  BY DEF SearchClauses, BuildFilter
<1>2. (\E c \in not : Field(p, c[1]) = c[2]) <=> Field(p, "doc_type") \in filters.exclude
  <2>1. ASSUME NEW c \in not, Field(p, c[1]) = c[2]
        PROVE  Field(p, "doc_type") \in filters.exclude
    <3>1. PICK type \in filters.exclude : c = <<"doc_type", type>>
      OBVIOUS
    <3> QED
      BY <2>1, <3>1
  <2>2. ASSUME Field(p, "doc_type") \in filters.exclude
        PROVE  \E c \in not : Field(p, c[1]) = c[2]
    <3>1. <<"doc_type", Field(p, "doc_type")>> \in not
      BY <2>2
    <3> HIDE DEF not
    <3> QED
      BY <3>1
  <2> QED
    BY <2>1, <2>2
<1>3. (\A c \in but : Field(p, c[1]) \notin c[2])
        <=> Field(p, "doc_type") \notin filters.exclude
  <2>1. ASSUME \A c \in but : Field(p, c[1]) \notin c[2],
               Field(p, "doc_type") \in filters.exclude
        PROVE  FALSE
    <3>1. <<"doc_type", {Field(p, "doc_type")}>> \in but
      BY <2>1
    <3> QED
      BY <2>1, <3>1
  <2>2. ASSUME Field(p, "doc_type") \notin filters.exclude, NEW c \in but
        PROVE  Field(p, c[1]) \notin c[2]
    <3>1. PICK type \in filters.exclude : c = <<"doc_type", {type}>>
      OBVIOUS
    <3> QED
      BY <2>2, <3>1
  <2> QED
    BY <2>1, <2>2
<1> HIDE DEF not, but
<1> QED
  BY <1>1, <1>2, <1>3 DEF TextPasses, QdrantPasses

\* Adding an operator to a key adds its condition.
LEMMA AddOperatorMeaning ==
  ASSUME NEW p, NEW match, NEW key, NEW op, NEW value,
         key \in DOMAIN match => op \notin DOMAIN match[key]
  PROVE  LET more == AddOperator(match, key, op, value)
             all(m) == \A k \in DOMAIN m : \A o \in DOMAIN m[k] : Holds(p, k, o, m[k][o])
         IN all(more) <=> all(match) /\ Holds(p, key, op, value)
<1> DEFINE ops    == IF key \in DOMAIN match THEN DOMAIN match[key] ELSE {}
           more   == AddOperator(match, key, op, value)
           all(m) == \A k \in DOMAIN m : \A o \in DOMAIN m[k] : Holds(p, k, o, m[k][o])
<1>1. /\ DOMAIN more = DOMAIN match \cup {key}
      /\ \A k \in DOMAIN match \ {key} : more[k] = match[k]
      /\ more[key] = [o \in ops \cup {op} |-> IF o = op THEN value ELSE match[key][o]]
  BY DEF AddOperator
<1>2. /\ DOMAIN more[key] = ops \cup {op}
      /\ more[key][op] = value
      /\ op \notin ops
      /\ \A o \in ops : more[key][o] = match[key][o]
  BY <1>1
<1>3. key \notin DOMAIN match => ops = {}
  OBVIOUS
<1>4. key \in DOMAIN match => ops = DOMAIN match[key]
  OBVIOUS
<1> HIDE DEF more, ops
<1>5. ASSUME all(more) PROVE all(match) /\ Holds(p, key, op, value)
  BY <1>1, <1>2, <1>3, <1>4, <1>5
<1>6. ASSUME all(match), Holds(p, key, op, value) PROVE all(more)
  <2> SUFFICES ASSUME NEW k \in DOMAIN more, NEW o \in DOMAIN more[k]
               PROVE  Holds(p, k, o, more[k][o])
    OBVIOUS
  <2>1. CASE k # key
    BY <1>1, <1>6, <2>1
  <2>2. CASE k = key /\ o = op
    BY <1>2, <1>6, <2>2
  <2>3. CASE k = key /\ o # op
    BY <1>2, <1>3, <1>4, <1>6, <2>3
  <2> QED
    BY <2>1, <2>2, <2>3
<1> QED
  BY <1>5, <1>6 DEF more

LEMMA MatchMeaning ==
  ASSUME NEW p, NEW filters
  PROVE  MatchPasses(p, filters) <=> Kept(p, filters)
<1> DEFINE exact == ExactTerms(filters)
           eq    == [key \in DOMAIN exact |-> [op \in {"$eq"} |-> exact[key]]]
           in    == IF filters.docTypes = {} THEN eq
                    ELSE AddOperator(eq, "doc_type", "$in", filters.docTypes)
           nin   == IF filters.exclude = {} THEN in
                    ELSE AddOperator(in, "doc_type", "$nin", filters.exclude)
           all(m) == \A k \in DOMAIN m : \A o \in DOMAIN m[k] : Holds(p, k, o, m[k][o])
<1>1. MatchPasses(p, filters) <=> all(nin)
  BY DEF MatchPasses, MatchStage
<1>2. Field(p, "doc_type") = DocType[p]
  BY DEF Field
<1>3. \A key, value : /\ Holds(p, key, "$eq", value) <=> Field(p, key) = value
                      /\ Holds(p, key, "$in", value) <=> Field(p, key) \in value
                      /\ Holds(p, key, "$nin", value) <=> Field(p, key) \notin value
  BY DEF Holds
<1> HIDE DEF exact
<1>4. /\ DOMAIN eq = DOMAIN exact
      /\ \A key \in DOMAIN exact : DOMAIN eq[key] = {"$eq"} /\ eq[key]["$eq"] = exact[key]
  OBVIOUS
<1> HIDE DEF eq
<1>5. all(eq) <=> Exactly(p, exact)
  BY <1>3, <1>4 DEF Exactly
<1>6. /\ all(in) <=> all(eq) /\ (filters.docTypes # {} => DocType[p] \in filters.docTypes)
      /\ "doc_type" \in DOMAIN in => "$nin" \notin DOMAIN in["doc_type"]
  <2>1. CASE filters.docTypes = {}
    BY <1>4, <2>1
  <2>2. CASE filters.docTypes # {}
    <3>1. in = AddOperator(eq, "doc_type", "$in", filters.docTypes)
      BY <2>2
    <3>2. "doc_type" \in DOMAIN eq => "$in" \notin DOMAIN eq["doc_type"]
      BY <1>4
    <3>3. "$nin" \notin DOMAIN in["doc_type"]
      BY <1>4, <3>1 DEF AddOperator
    <3> HIDE DEF in
    <3>4. all(in) <=> all(eq) /\ Holds(p, "doc_type", "$in", filters.docTypes)
      BY <3>1, <3>2, AddOperatorMeaning
    <3> QED
      BY <1>2, <1>3, <2>2, <3>3, <3>4
  <2> QED
    BY <2>1, <2>2
<1> HIDE DEF in
<1>7. all(nin) <=> all(in) /\ DocType[p] \notin filters.exclude
  <2>1. CASE filters.exclude = {}
    BY <2>1
  <2>2. CASE filters.exclude # {}
    <3>1. nin = AddOperator(in, "doc_type", "$nin", filters.exclude)
      BY <2>2
    <3> HIDE DEF nin
    <3>2. all(nin) <=> all(in) /\ Holds(p, "doc_type", "$nin", filters.exclude)
      BY <1>6, <3>1, AddOperatorMeaning
    <3> QED
      BY <1>2, <1>3, <3>2
  <2> QED
    BY <2>1, <2>2
<1> HIDE DEF nin, all
<1> QED
  BY <1>1, <1>5, <1>6, <1>7, ExactlyMeaning DEF Kept, exact

(* The four dialects keep the same files whatever is filtered by: not only *)
(* by what the tools ask for today, but by any repository, any type, any   *)
(* set of types to keep and any to drop, in any state.                     *)
(* (build_filter, vector_filter, search_clauses, match_stage)              *)
THEOREM DialectsMeanTheSame == SearchSpec => []DialectsAgree
<1>1. \A p, filters : /\ VectorPasses(p, filters) <=> QdrantPasses(p, filters)
                      /\ TextPasses(p, filters) <=> QdrantPasses(p, filters)
                      /\ MatchPasses(p, filters) <=> QdrantPasses(p, filters)
  BY QdrantMeaning, VectorMeaning, TextMeaning, MatchMeaning
<1>2. DialectsAgree
  BY <1>1 DEF DialectsAgree
<1> QED
  BY <1>2, PTL

-----------------------------------------------------------------------------
(* Ranking.                                                                *)

\* An injection shows that one finite set is no larger than another.
LEMMA NoLarger ==
  ASSUME NEW S, NEW T, IsFiniteSet(T), NEW f \in [S -> T],
         \A x, y \in S : f[x] = f[y] => x = y
  PROVE  IsFiniteSet(S) /\ Cardinality(S) <= Cardinality(T)
<1>1. f \in Injection(S, T)
  BY DEF Injection, IsInjective
<1> QED
  BY <1>1, FS_Injection

LEMMA FirstNumbers ==
  ASSUME NEW m \in Nat
  PROVE  IsFiniteSet(1..m) /\ Cardinality(1..m) = m
<1>1. IsFiniteSet(1..m) /\ Cardinality(1..m) = IF 1 > m THEN 0 ELSE m - 1 + 1
  BY FS_Interval
<1>2. (IF 1 > m THEN 0 ELSE m - 1 + 1) = m
  OBVIOUS
<1> QED
  BY <1>1, <1>2

\* Counting up to a member numbers the members of a finite set in order.
LEMMA Numbered ==
  ASSUME NEW P \in SUBSET Int, IsFiniteSet(P)
  PROVE  LET count(i) == Cardinality({j \in P : j <= i}) IN
         /\ Cardinality(P) \in Nat
         /\ \A i \in P : count(i) \in 1..Cardinality(P)
         /\ \A i, j \in P : count(i) = count(j) => i = j
         /\ \A k \in 1..Cardinality(P) : \E i \in P : count(i) = k
<1> DEFINE count(i) == Cardinality({j \in P : j <= i})
           upto(i)  == {j \in P : j <= i}
           n        == Cardinality(P)
<1>1. n \in Nat
  BY FS_CardinalityType
<1>2. ASSUME NEW i \in P
      PROVE  count(i) \in 1..n /\ IsFiniteSet(upto(i))
  <2>1. upto(i) \in SUBSET P /\ i \in upto(i)
    OBVIOUS
  <2> HIDE DEF upto
  <2>2. IsFiniteSet(upto(i)) /\ Cardinality(upto(i)) <= n
    BY <2>1, FS_Subset
  <2>3. Cardinality(upto(i)) \in Nat /\ Cardinality(upto(i)) # 0
    BY <2>1, <2>2, FS_CardinalityType, FS_EmptySet
  <2>4. count(i) = Cardinality(upto(i))
    BY DEF upto
  <2> QED
    BY <1>1, <2>2, <2>3, <2>4
<1>3. ASSUME NEW i \in P, NEW j \in P, i < j
      PROVE  count(i) # count(j)
  <2>1. upto(i) \in SUBSET upto(j)
    <3>1. \A x \in P : x \in Int /\ (x <= i => x <= j)
      BY <1>3
    <3> QED
      BY <3>1
  <2>2. j \in upto(j) /\ j \notin upto(i)
    BY <1>3
  <2>3. /\ IsFiniteSet(upto(j))
        /\ count(i) = Cardinality(upto(i)) /\ count(j) = Cardinality(upto(j))
    BY <1>2
  <2> HIDE DEF upto, count
  <2> QED
    BY <2>1, <2>2, <2>3, FS_Subset
<1>4. ASSUME NEW i \in P, NEW j \in P, count(i) = count(j)
      PROVE  i = j
  <2>1. i \in Int /\ j \in Int
    OBVIOUS
  <2> HIDE DEF count
  <2> QED
    BY <1>3, <1>4, <2>1
<1> DEFINE f == [i \in P |-> count(i)]
<1>5. IsFiniteSet(1..n) /\ Cardinality(1..n) = n
  BY <1>1, FirstNumbers
<1>6. f \in Injection(P, 1..n)
  <2>1. f \in [P -> 1..n]
    BY <1>2
  <2>2. \A i, j \in P : f[i] = f[j] => i = j
    BY <1>4
  <2> HIDE DEF f
  <2> QED
    BY <2>1, <2>2 DEF Injection, IsInjective
<1>7. f \in Surjection(P, 1..n)
  <2> HIDE DEF f
  <2> QED
    BY <1>5, <1>6, FS_Injection DEF n
<1>8. \A k \in 1..n : \E i \in P : f[i] = k
  <2> HIDE DEF f
  <2> QED
    BY <1>7 DEF Surjection
<1> QED
  BY <1>1, <1>2, <1>4, <1>8

\* So Picked takes each number of P once.
LEMMA PickedMeaning ==
  ASSUME NEW P \in SUBSET Int, IsFiniteSet(P), NEW f
  PROVE  /\ Cardinality(P) \in Nat
         /\ DOMAIN Picked(f, P) = 1..Cardinality(P)
         /\ \E at \in [1..Cardinality(P) -> P] :
              /\ \A k \in 1..Cardinality(P) : Picked(f, P)[k] = f[at[k]]
              /\ \A j, k \in 1..Cardinality(P) : at[j] = at[k] => j = k
              /\ \A i \in P : \E k \in 1..Cardinality(P) : at[k] = i
<1> DEFINE count(i) == Cardinality({j \in P : j <= i})
           n        == Cardinality(P)
           at       == [k \in 1..n |-> CHOOSE i \in P : count(i) = k]
<1>1. /\ n \in Nat
      /\ \A i \in P : count(i) \in 1..n
      /\ \A i, j \in P : count(i) = count(j) => i = j
      /\ \A k \in 1..n : \E i \in P : count(i) = k
  BY Numbered
<1>2. Picked(f, P) = [k \in 1..n |-> f[at[k]]]
  BY DEF Picked
<1> HIDE DEF n, count
<1>3. \A k \in 1..n : at[k] \in P /\ count(at[k]) = k
  <2> SUFFICES ASSUME NEW k \in 1..n PROVE at[k] \in P /\ count(at[k]) = k
    OBVIOUS
  <2>1. PICK i \in P : count(i) = k
    BY <1>1
  <2>2. at[k] = CHOOSE x \in P : count(x) = k
    OBVIOUS
  <2> QED
    BY <2>1, <2>2
<1>4. at \in [1..n -> P]
  BY <1>3
<1> HIDE DEF at
<1>5. /\ \A j, k \in 1..n : at[j] = at[k] => j = k
      /\ \A i \in P : \E k \in 1..n : at[k] = i
  BY <1>1, <1>3
<1> QED
  BY <1>1, <1>2, <1>4, <1>5 DEF n

Distinct(s) == \A j, k \in 1..Len(s) : s[j] = s[k] => j = k

LEMMA PickedSeq ==
  ASSUME NEW T, NEW P \in SUBSET Int, IsFiniteSet(P), NEW f, \A i \in P : f[i] \in T
  PROVE  /\ Picked(f, P) \in Seq(T)
         /\ Cardinality(P) \in Nat /\ Len(Picked(f, P)) = Cardinality(P)
         /\ (\A i, j \in P : f[i] = f[j] => i = j) => Distinct(Picked(f, P))
<1> DEFINE n == Cardinality(P)
           s == Picked(f, P)
<1>1. n \in Nat /\ DOMAIN s = 1..n /\ s = [k \in 1..n |-> s[k]]
  BY PickedMeaning DEF Picked
<1>2. PICK at \in [1..n -> P] :
        /\ \A k \in 1..n : s[k] = f[at[k]]
        /\ \A j, k \in 1..n : at[j] = at[k] => j = k
        /\ \A i \in P : \E k \in 1..n : at[k] = i
  BY ONLY P \in SUBSET Int, IsFiniteSet(P), PickedMeaning
<1> HIDE DEF n, s
<1>3. s \in Seq(T) /\ Len(s) = n
  <2>1. \A k \in 1..n : s[k] \in T
    BY <1>2
  <2> QED
    BY <1>1, <2>1
<1>4. ASSUME \A i, j \in P : f[i] = f[j] => i = j PROVE Distinct(s)
  <2> SUFFICES ASSUME NEW j \in 1..n, NEW k \in 1..n, s[j] = s[k] PROVE j = k
    BY <1>3 DEF Distinct
  <2>1. at[j] \in P /\ at[k] \in P /\ f[at[j]] = f[at[k]]
    BY <1>2
  <2> QED
    BY <1>2, <1>4, <2>1
<1> QED
  BY <1>1, <1>3, <1>4 DEF n, s

LEMMA TakeMeaning ==
  ASSUME NEW T, NEW s \in Seq(T), NEW n \in Nat
  PROVE  /\ Take(s, n) \in Seq(T) /\ Len(Take(s, n)) \in 0..Len(s)
         /\ Len(Take(s, n)) >= n \/ Len(Take(s, n)) = Len(s)
         /\ \A i \in 1..Len(Take(s, n)) : Take(s, n)[i] = s[i]
<1> DEFINE m == IF n < Len(s) THEN n ELSE Len(s)
<1>1. m \in 0..Len(s) /\ m <= Len(s) /\ Len(s) \in Nat /\ (m = n \/ m = Len(s))
  OBVIOUS
<1>2. Take(s, n) = SubSeq(s, 1, m)
  BY DEF Take
<1> HIDE DEF m
<1>3. \A i \in 1..m : s[i] \in T
  BY <1>1
<1>4. /\ SubSeq(s, 1, m) \in Seq(T)
      /\ Len(SubSeq(s, 1, m)) = IF 1 <= m THEN m - 1 + 1 ELSE 0
      /\ \A i \in 1..m - 1 + 1 : SubSeq(s, 1, m)[i] = s[1 + i - 1]
  BY <1>1, <1>3, SubSeqProperties
<1>5. Len(SubSeq(s, 1, m)) = m /\ \A i \in 1..m : SubSeq(s, 1, m)[i] = s[i]
  BY <1>1, <1>4
<1> QED
  BY <1>1, <1>2, <1>4, <1>5

LEMMA TakeDistinct ==
  ASSUME NEW T, NEW s \in Seq(T), NEW n \in Nat, Distinct(s)
  PROVE  Distinct(Take(s, n))
<1>1. /\ Len(Take(s, n)) \in 0..Len(s)
      /\ \A i \in 1..Len(Take(s, n)) : Take(s, n)[i] = s[i]
  BY TakeMeaning
<1>2. \A i \in 1..Len(Take(s, n)) : i \in 1..Len(s)
  BY <1>1
<1> QED
  BY <1>1, <1>2 DEF Distinct

\* Every chunk has a place in the order, of its own.
LEMMA ChunkIds ==
  /\ Len(DenseOrder) \in Nat
  /\ \A c \in Chunks : Id(c) \in 1..Len(DenseOrder) /\ DenseOrder[Id(c)] = c
  /\ IsFiniteSet(Chunks)
<1>1. /\ Len(DenseOrder) \in Nat /\ DOMAIN DenseOrder = 1..Len(DenseOrder)
  BY SearchAssumption
<1>2. ASSUME NEW c \in Chunks
      PROVE  Id(c) \in 1..Len(DenseOrder) /\ DenseOrder[Id(c)] = c
  <2>1. \E i \in DOMAIN DenseOrder : DenseOrder[i] = c
    BY DEF Chunks, ToSet
  <2> QED
    BY <1>1, <2>1 DEF Id
<1> DEFINE f == [c \in Chunks |-> Id(c)]
<1>3. f \in [Chunks -> 1..Len(DenseOrder)] /\ \A c, d \in Chunks : f[c] = f[d] => c = d
  BY <1>2
<1>4. IsFiniteSet(1..Len(DenseOrder))
  BY <1>1, FS_Interval
<1> HIDE DEF f
<1> QED
  BY <1>1, <1>2, <1>3, <1>4, NoLarger

\* A branch returns distinct chunks, and all that match or as many as asked.
LEMMA TopMeaning ==
  ASSUME NEW kept, NEW n \in Nat, NEW order \in Seq(Chunks), IsInjective(order)
  PROVE  Top(order, kept, n) \in Seq(Chunks) /\ Distinct(Top(order, kept, n))
<1> DEFINE P == {i \in DOMAIN order : order[i] \in indexed /\ order[i][1] \in kept}
<1>1. DOMAIN order = 1..Len(order) /\ Len(order) \in Nat
  OBVIOUS
<1>2. P \in SUBSET Int /\ IsFiniteSet(P)
  <2>1. P \in SUBSET (1..Len(order))
    BY <1>1
  <2>2. IsFiniteSet(1..Len(order)) /\ 1..Len(order) \subseteq Int
    BY <1>1, FS_Interval
  <2> HIDE DEF P
  <2>3. IsFiniteSet(P)
    BY <2>1, <2>2, FS_Subset
  <2> QED
    BY <2>1, <2>2, <2>3
<1>3. \A i \in P : order[i] \in Chunks
  BY <1>1
<1>4. \A i, j \in P : order[i] = order[j] => i = j
  BY DEF IsInjective
<1> HIDE DEF P
<1>5. Picked(order, P) \in Seq(Chunks) /\ Distinct(Picked(order, P))
  BY <1>2, <1>3, <1>4, PickedSeq
<1>6. Top(order, kept, n) = Take(Picked(order, P), n)
  BY DEF Top, P
<1> QED
  BY <1>5, <1>6, TakeMeaning, TakeDistinct

LEMMA TopIsFull ==
  ASSUME NEW kept, NEW n \in Nat,
         NEW M, M \subseteq {c \in indexed \cap Chunks : c[1] \in kept}
  PROVE  /\ Len(Top(DenseOrder, kept, n)) \in Nat
         /\ Len(Top(DenseOrder, kept, n)) >= n
            \/ Len(Top(DenseOrder, kept, n)) >= Cardinality(M)
<1> DEFINE P == {i \in DOMAIN DenseOrder :
                   DenseOrder[i] \in indexed /\ DenseOrder[i][1] \in kept}
<1>1. DOMAIN DenseOrder = 1..Len(DenseOrder) /\ Len(DenseOrder) \in Nat
  BY SearchAssumption
<1>2. P \in SUBSET Int /\ IsFiniteSet(P)
  <2>1. P \in SUBSET (1..Len(DenseOrder))
    BY <1>1
  <2>2. IsFiniteSet(1..Len(DenseOrder)) /\ 1..Len(DenseOrder) \subseteq Int
    BY <1>1, FS_Interval
  <2> HIDE DEF P
  <2>3. IsFiniteSet(P)
    BY <2>1, <2>2, FS_Subset
  <2> QED
    BY <2>1, <2>2, <2>3
<1>3. \A i \in P : DenseOrder[i] \in Chunks
  BY <1>1, SearchAssumption
<1> DEFINE f == [c \in M |-> Id(c)]
<1>4. f \in [M -> P] /\ \A c, d \in M : f[c] = f[d] => c = d
  BY <1>1, ChunkIds
<1>5. Cardinality(M) <= Cardinality(P) /\ Cardinality(M) \in Nat
  <2> HIDE DEF f, P
  <2> QED
    BY <1>2, <1>4, NoLarger, FS_CardinalityType
<1> HIDE DEF P
<1>6. /\ Picked(DenseOrder, P) \in Seq(Chunks)
      /\ Len(Picked(DenseOrder, P)) = Cardinality(P) /\ Cardinality(P) \in Nat
  BY <1>2, <1>3, PickedSeq
<1>7. Top(DenseOrder, kept, n) = Take(Picked(DenseOrder, P), n)
  BY DEF Top, P
<1> DEFINE t == Take(Picked(DenseOrder, P), n)
<1>8. Len(t) \in 0..Cardinality(P) /\ (Len(t) >= n \/ Len(t) = Cardinality(P))
  BY <1>6, TakeMeaning
<1> HIDE DEF t
<1>9. Len(t) \in Nat /\ (Len(t) >= n \/ Len(t) >= Cardinality(M))
  BY <1>5, <1>6, <1>8
<1> QED
  BY <1>7, <1>9 DEF t

LEMMA ScaleType == Scale \in Nat
<1> DEFINE n    == PrefetchLimit
           s    == [rank \in 1..n |-> RrfK + rank]
           step == [p \in Nat \X Nat |-> p[1] * p[2]]
<1>1. n \in Nat /\ DOMAIN s = 1..n /\ \A k \in 1..n : s[k] \in Nat
  BY SearchAssumption DEF RrfK
<1>2. \A b \in Nat, x \in Nat : step[<<b, x>>] = b * x /\ b * x \in Nat
  OBVIOUS
<1>3. Scale = FoldLeft(LAMBDA product, divisor : product * divisor, 1, s)
  BY DEF Scale
<1> HIDE DEF s, step
<1>4. \A b \in Nat, k \in 1..n : step[<<b, s[k]>>] \in Nat
  BY <1>1, <1>2
<1>5. 1 \in Nat
  OBVIOUS
<1> HIDE DEF n
<1>6. PICK g \in [SUBSET (1..n) -> Nat] : Folding(g, Nat, step, 1, n, s)
  BY <1>1, <1>4, <1>5, FoldingExists
<1>7. g = [S \in SUBSET DOMAIN s |->
             IF S = {} THEN 1 ELSE g[S \ {Max(S)}] * s[Max(S)]]
  <2>1. ASSUME NEW S \in SUBSET (1..n)
        PROVE  g[S] = IF S = {} THEN 1 ELSE g[S \ {Max(S)}] * s[Max(S)]
    <3>1. CASE S = {}
      BY <1>6, <3>1 DEF Folding
    <3>2. CASE S # {}
      <4>1. s[Max(S)] \in Nat
        BY <1>1, <3>2, TopIsThere
      <4>2. g[S \ {Max(S)}] \in Nat
        BY <1>6
      <4>3. g[S] = step[<<g[S \ {Max(S)}], s[Max(S)]>>]
        BY <1>6, <3>2, <4>2 DEF Folding
      <4> QED
        BY <1>2, <3>2, <4>1, <4>2, <4>3
    <3> QED
      BY <3>1, <3>2
  <2> QED
    BY <1>1, <1>6, <2>1
<1>8. PICK h :
        /\ h = [S \in SUBSET DOMAIN s |->
                  IF S = {} THEN 1 ELSE h[S \ {Max(S)}] * s[Max(S)]]
        /\ Scale = h[DOMAIN s]
  BY <1>3, <1>7 DEF FoldLeft, MapThenFoldSet
<1>9. Folding(h, Nat, step, 1, n, s)
  <2>1. h[{}] = 1
    BY <1>8
  <2>2. ASSUME NEW S \in SUBSET (1..n), S # {}, h[S \ {Max(S)}] \in Nat
        PROVE  h[S] = step[<<h[S \ {Max(S)}], s[Max(S)]>>]
    <3>1. s[Max(S)] \in Nat
      BY <1>1, <2>2, TopIsThere
    <3>2. h[S] = h[S \ {Max(S)}] * s[Max(S)]
      BY <1>1, <1>8, <2>2
    <3> QED
      BY <1>2, <2>2, <3>1, <3>2
  <2> QED
    BY <2>1, <2>2 DEF Folding
<1>10. Keeps(step, Nat, n, s)
  BY <1>4 DEF Keeps
<1>11. PICK t \in [0..n -> Nat] : Run(t, step, 1, n, s) /\ t[n] = h[1..n]
  BY ONLY <1>1, <1>5, <1>9, <1>10, FoldingByPosition, SMT
<1> QED
  BY <1>1, <1>8, <1>11

LEMMA ShareType ==
  ASSUME NEW branch \in Seq(Chunks), NEW c
  PROVE  Share(branch, c) \in Nat
<1>1. CASE c \notin ToSet(branch)
  BY <1>1 DEF Share
<1>2. CASE c \in ToSet(branch)
  <2> DEFINE rank == CHOOSE r \in DOMAIN branch : branch[r] = c
  <2>1. \E r \in DOMAIN branch : branch[r] = c
    BY <1>2 DEF ToSet
  <2>2. rank \in DOMAIN branch
    BY <2>1
  <2>3. rank \in Nat
    BY <2>2
  <2>4. Share(branch, c) = Scale \div (RrfK + rank)
    BY <1>2 DEF Share
  <2> HIDE DEF rank
  <2>5. \A a, b \in Nat : b > 0 => a \div b \in Nat
    OBVIOUS
  <2>6. RrfK + rank \in Nat /\ RrfK + rank > 0
    BY <2>3 DEF RrfK
  <2> QED
    BY <2>4, <2>5, <2>6, ScaleType
<1> QED
  BY <1>1, <1>2

\* The score decides, and of equal scores the id.
LEMMA PlaceMeaning ==
  ASSUME NEW dense \in Seq(Chunks), NEW text \in Seq(Chunks)
  PROVE  /\ \A c \in Chunks : Place(dense, text, c) \in Int
         /\ \A c, d \in Chunks : Place(dense, text, c) = Place(dense, text, d) => c = d
<1> DEFINE m        == Len(DenseOrder)
           score(c) == Share(dense, c) + Share(text, c)
<1>1. ASSUME NEW c \in Chunks
      PROVE  /\ Place(dense, text, c) = Id(c) - score(c) * (m + 1)
             /\ Id(c) \in Nat /\ 1 <= Id(c) /\ Id(c) <= m /\ score(c) \in Nat /\ m \in Nat
  BY ShareType, ChunkIds DEF Place
<1> HIDE DEF m, score
<1>2. \A i, s, n \in Nat : i - s * (n + 1) \in Int
  OBVIOUS
<1>3. \A s, t, n \in Nat : s < t => s * (n + 1) + n + 1 <= t * (n + 1)
  <2> TAKE s, t, n \in Nat
  <2> HAVE s < t
  <2>1. PICK d \in Nat : t = s + d + 1
    <3>1. t - s - 1 \in Nat /\ t = s + (t - s - 1) + 1
      OBVIOUS
    <3> QED
      BY <3>1
  <2>2. t * (n + 1) = s * (n + 1) + d * (n + 1) + n + 1 /\ d * (n + 1) \in Nat
    BY <2>1
  <2> QED
    BY <2>2
<1>4. ASSUME NEW c \in Chunks, NEW d \in Chunks,
             Place(dense, text, c) = Place(dense, text, d)
      PROVE  c = d
  <2>0. m \in Nat
    BY <1>1
  <2>1. Id(c) - score(c) * (m + 1) = Id(d) - score(d) * (m + 1)
    BY <1>1, <1>4
  <2>2. /\ Id(c) \in Nat /\ 1 <= Id(c) /\ Id(c) <= m /\ score(c) \in Nat
        /\ Id(d) \in Nat /\ 1 <= Id(d) /\ Id(d) <= m /\ score(d) \in Nat
    BY <1>1
  <2>3. \A a, b, s, t, n \in Nat :
          s < t /\ 1 <= a /\ a <= n /\ 1 <= b /\ b <= n
            => a - s * (n + 1) # b - t * (n + 1)
    <3> TAKE a, b, s, t, n \in Nat
    <3> HAVE s < t /\ 1 <= a /\ a <= n /\ 1 <= b /\ b <= n
    <3> DEFINE x == s * (n + 1)
               y == t * (n + 1)
    <3>1. x + n + 1 <= y /\ x \in Nat /\ y \in Nat
      BY <1>3
    <3> HIDE DEF x, y
    <3>2. a - x # b - y
      BY <3>1
    <3> QED
      BY <3>2 DEF x, y
  <2>4. score(c) = score(d)
    <3>1. ~ (score(c) < score(d))
      BY <2>0, <2>1, <2>2, <2>3
    <3>2. ~ (score(d) < score(c))
      BY <2>0, <2>1, <2>2, <2>3
    <3> QED
      BY <2>2, <3>1, <3>2
  <2>5. Id(c) = Id(d)
    <3> DEFINE x == score(d) * (m + 1)
    <3>1. x \in Int /\ Id(c) - x = Id(d) - x
      BY <2>0, <2>1, <2>2, <2>4
    <3> HIDE DEF x
    <3> QED
      BY <2>2, <3>1
  <2> QED
    BY <2>5, ChunkIds
<1> QED
  BY <1>1, <1>2, <1>4

\* Fusion keeps every chunk of both branches, up to the cut.
LEMMA FuseMeaning ==
  ASSUME NEW dense \in Seq(Chunks), NEW text \in Seq(Chunks), NEW n \in Nat, Distinct(dense)
  PROVE  /\ Fuse(dense, text, n) \in Seq(Chunks)
         /\ Len(Fuse(dense, text, n)) >= n \/ Len(Fuse(dense, text, n)) >= Len(dense)
<1> DEFINE found  == ToSet(dense) \cup ToSet(text)
           places == {Place(dense, text, c) : c \in found}
           at     == [x \in places |-> CHOOSE c \in found : Place(dense, text, c) = x]
           all    == Picked(at, places)
<1>1. /\ found \subseteq Chunks /\ \A i \in 1..Len(dense) : dense[i] \in found
      /\ DOMAIN dense = 1..Len(dense) /\ Len(dense) \in Nat
  BY DEF ToSet
<1>2. Fuse(dense, text, n) = Take(all, n)
  BY DEF Fuse
<1> HIDE DEF found
<1>3. \A x \in places : at[x] \in found /\ Place(dense, text, at[x]) = x
  <2> TAKE x \in places
  <2>1. \E c \in found : Place(dense, text, c) = x
    OBVIOUS
  <2>2. at[x] = CHOOSE c \in found : Place(dense, text, c) = x
    OBVIOUS
  <2> QED
    BY <2>1, <2>2
<1>4. places \in SUBSET Int
  BY <1>1, PlaceMeaning
<1>5. at \in [places -> found] /\ \A x, y \in places : at[x] = at[y] => x = y
  BY <1>3
<1>6. \A c \in found : Place(dense, text, c) \in places
  OBVIOUS
<1> HIDE DEF places, at
<1>7. IsFiniteSet(found)
  BY <1>1, ChunkIds, FS_Subset
<1>8. IsFiniteSet(places)
  BY <1>5, <1>7, NoLarger
<1> DEFINE f == [i \in 1..Len(dense) |-> Place(dense, text, dense[i])]
<1>9. f \in [1..Len(dense) -> places]
  BY <1>1, <1>6
<1>10. \A i, j \in 1..Len(dense) : f[i] = f[j] => i = j
  <2> SUFFICES ASSUME NEW i \in 1..Len(dense), NEW j \in 1..Len(dense), f[i] = f[j]
               PROVE  i = j
    OBVIOUS
  <2>1. dense[i] \in Chunks /\ dense[j] \in Chunks
    BY <1>1
  <2>2. Place(dense, text, dense[i]) = Place(dense, text, dense[j])
    OBVIOUS
  <2>3. dense[i] = dense[j]
    BY <2>1, <2>2, PlaceMeaning
  <2> QED
    BY <2>3 DEF Distinct
<1> HIDE DEF f
<1>11. Cardinality(1..Len(dense)) = Len(dense)
  BY <1>1, FirstNumbers
<1>12. Len(dense) <= Cardinality(places) /\ Cardinality(places) \in Nat
  <2>1. Cardinality(1..Len(dense)) <= Cardinality(places)
    BY ONLY <1>8, <1>9, <1>10, NoLarger
  <2>2. Cardinality(places) \in Nat
    BY <1>8, FS_CardinalityType
  <2> QED
    BY <1>11, <2>1, <2>2
<1>13. \A x \in places : at[x] \in Chunks
  BY <1>1, <1>3
<1>14. all \in Seq(Chunks) /\ Len(all) = Cardinality(places)
  BY <1>4, <1>8, <1>13, PickedSeq
<1> HIDE DEF all
<1>15. /\ Take(all, n) \in Seq(Chunks)
       /\ Len(Take(all, n)) >= n \/ Len(Take(all, n)) = Len(all)
  BY <1>14, TakeMeaning
<1> QED
  BY <1>2, <1>12, <1>14, <1>15

\* The reranker reorders and drops nothing.
LEMMA AttachMeaning ==
  ASSUME NEW T, NEW candidates \in Seq(T), NEW scores \in [DOMAIN candidates -> {0, 1}]
  PROVE  /\ Attach(candidates, scores) \in Seq(T)
         /\ Len(Attach(candidates, scores)) = Len(candidates)
<1> DEFINE D == 1..Len(candidates)
           I == {i \in D : scores[i] = 1}
           O == {i \in D : scores[i] = 0}
<1>1. Len(candidates) \in Nat /\ DOMAIN candidates = D
  OBVIOUS
<1>2. IsFiniteSet(D) /\ Cardinality(D) = Len(candidates)
  BY <1>1, FirstNumbers
<1>3. D = I \cup O /\ I \cap O = {} /\ I \in SUBSET D /\ O \in SUBSET D /\ D \subseteq Int
  BY <1>1
<1>4. Attach(candidates, scores) = Picked(candidates, I) \o Picked(candidates, O)
  BY <1>1 DEF Attach
<1>5. \A i \in D : candidates[i] \in T
  BY <1>1
<1> HIDE DEF D, I, O
<1>6. IsFiniteSet(I) /\ IsFiniteSet(O) /\ I \in SUBSET Int /\ O \in SUBSET Int
  BY <1>2, <1>3, FS_Subset
<1>7. Len(candidates) = Cardinality(I) + Cardinality(O)
  <2>1. Cardinality(I \cup O) = Cardinality(I) + Cardinality(O) - Cardinality(I \cap O)
    BY <1>6, FS_Union
  <2>2. Cardinality(I \cap O) = 0
    BY <1>3, FS_EmptySet
  <2>3. Cardinality(I) \in Nat /\ Cardinality(O) \in Nat
    BY <1>6, FS_CardinalityType
  <2> QED
    BY <1>2, <1>3, <2>1, <2>2, <2>3
<1>8. /\ Picked(candidates, I) \in Seq(T)
      /\ Len(Picked(candidates, I)) = Cardinality(I)
  BY <1>3, <1>5, <1>6, PickedSeq
<1>9. /\ Picked(candidates, O) \in Seq(T)
      /\ Len(Picked(candidates, O)) = Cardinality(O)
  BY <1>3, <1>5, <1>6, PickedSeq
<1> DEFINE a == Picked(candidates, I)
           b == Picked(candidates, O)
<1> HIDE DEF a, b
<1>10. a \o b \in Seq(T) /\ Len(a \o b) = Len(a) + Len(b)
  BY <1>8, <1>9 DEF a, b
<1> QED
  BY <1>4, <1>7, <1>8, <1>9, <1>10 DEF a, b

-----------------------------------------------------------------------------
(* The budget.                                                             *)

HitSet == [chunk : Chunks, at : Checkouts, stale : BOOLEAN, truncated : BOOLEAN]

PackSet == [results : Seq(HitSet), spent : Nat, open : BOOLEAN]

LEMMA CostType ==
  ASSUME NEW hit \in HitSet, NEW bodies
  PROVE  Cost(hit, bodies) \in Nat
<1>1. hit.chunk \in Chunks
  BY DEF HitSet
<1>2. CostOf[hit.chunk[2]] \in Nat /\ AnchorTokens \in Nat
  BY <1>1, SearchAssumption
<1> QED
  BY <1>2 DEF Cost

LEMMA PackOneType ==
  ASSUME NEW packed \in PackSet, NEW hit \in HitSet, NEW bodies \in BOOLEAN
  PROVE  PackOne(packed, hit, bodies) \in PackSet
<1> DEFINE remaining == MaxTokens - packed.spent
           over      == Cost(hit, bodies) > remaining
           floor     == IF bodies THEN MinChunkTokens ELSE 1
           more      == Append(packed.results, [hit EXCEPT !.truncated = bodies /\ over])
           cost      == IF bodies /\ over THEN remaining ELSE Cost(hit, bodies)
<1>1. /\ packed.results \in Seq(HitSet) /\ packed.spent \in Nat /\ packed.open \in BOOLEAN
      /\ MaxTokens \in Nat
  BY SearchAssumption DEF PackSet
<1>2. \/ PackOne(packed, hit, bodies) = [packed EXCEPT !.open = FALSE]
      \/ PackOne(packed, hit, bodies) =
           [packed EXCEPT !.results = more, !.spent = packed.spent + cost]
  BY DEF PackOne
<1>3. [hit EXCEPT !.truncated = bodies /\ over] \in HitSet
  BY DEF HitSet
<1>4. more \in Seq(HitSet)
  BY <1>1, <1>3
<1>5. packed.spent + cost \in Nat
  <2>1. Cost(hit, bodies) \in Nat
    BY CostType
  <2> QED
    BY <1>1, <2>1
<1> HIDE DEF more, cost
<1>6. [packed EXCEPT !.open = FALSE] \in PackSet
  BY DEF PackSet
<1>7. [packed EXCEPT !.results = more, !.spent = packed.spent + cost] \in PackSet
  <2> DEFINE A == Seq(HitSet)
  <2>1. packed \in [results : A, spent : Nat, open : BOOLEAN] /\ more \in A
    BY <1>4 DEF PackSet
  <2> HIDE DEF A
  <2>2. [packed EXCEPT !.results = more, !.spent = packed.spent + cost]
          \in [results : A, spent : Nat, open : BOOLEAN]
    BY <1>5, <2>1
  <2> QED
    BY <2>2 DEF A, PackSet
<1> QED
  BY <1>2, <1>6, <1>7

LEMMA PackRun ==
  ASSUME NEW hits \in Seq(HitSet), NEW bodies \in BOOLEAN
  PROVE  \E t \in [0..Len(hits) -> PackSet] :
           /\ t[0] = EmptyPack /\ t[Len(hits)].results = Pack(hits, bodies)
           /\ \A k \in 1..Len(hits) : t[k] = PackOne(t[k - 1], hits[k], bodies)
<1> DEFINE n    == Len(hits)
           step == [p \in PackSet \X HitSet |-> PackOne(p[1], p[2], bodies)]
<1>1. n \in Nat /\ DOMAIN hits = 1..n /\ \A k \in 1..n : hits[k] \in HitSet
  OBVIOUS
<1>2. \A b \in PackSet, x \in HitSet : step[<<b, x>>] = PackOne(b, x, bodies)
  OBVIOUS
<1> HIDE DEF n, step
<1>3. \A b \in PackSet, k \in 1..n : step[<<b, hits[k]>>] \in PackSet
  BY <1>1, <1>2, PackOneType
<1>4. EmptyPack \in PackSet
  BY DEF EmptyPack, PackSet
<1>5. PICK g \in [SUBSET (1..n) -> PackSet] : Folding(g, PackSet, step, EmptyPack, n, hits)
  BY <1>1, <1>3, <1>4, FoldingExists
<1>6. g = [S \in SUBSET DOMAIN hits |->
             IF S = {} THEN EmptyPack ELSE PackOne(g[S \ {Max(S)}], hits[Max(S)], bodies)]
  <2>1. ASSUME NEW S \in SUBSET (1..n)
        PROVE  g[S] = IF S = {} THEN EmptyPack
                      ELSE PackOne(g[S \ {Max(S)}], hits[Max(S)], bodies)
    <3>1. CASE S = {}
      BY <1>5, <3>1 DEF Folding
    <3>2. CASE S # {}
      <4>1. hits[Max(S)] \in HitSet
        BY <1>1, <3>2, TopIsThere
      <4>2. g[S \ {Max(S)}] \in PackSet
        BY <1>5
      <4>3. g[S] = step[<<g[S \ {Max(S)}], hits[Max(S)]>>]
        BY <1>5, <3>2, <4>2 DEF Folding
      <4> QED
        BY <1>2, <3>2, <4>1, <4>2, <4>3
    <3> QED
      BY <3>1, <3>2
  <2> QED
    BY <1>1, <1>5, <2>1
<1>7. PICK h :
        /\ h = [S \in SUBSET DOMAIN hits |->
                  IF S = {} THEN EmptyPack
                  ELSE PackOne(h[S \ {Max(S)}], hits[Max(S)], bodies)]
        /\ Pack(hits, bodies) = h[DOMAIN hits].results
  BY <1>6 DEF Pack, FoldLeft, MapThenFoldSet
<1>8. Folding(h, PackSet, step, EmptyPack, n, hits)
  <2>1. h[{}] = EmptyPack
    BY <1>7
  <2>2. ASSUME NEW S \in SUBSET (1..n), S # {}, h[S \ {Max(S)}] \in PackSet
        PROVE  h[S] = step[<<h[S \ {Max(S)}], hits[Max(S)]>>]
    <3>1. hits[Max(S)] \in HitSet
      BY <1>1, <2>2, TopIsThere
    <3>2. h[S] = PackOne(h[S \ {Max(S)}], hits[Max(S)], bodies)
      BY <1>1, <1>7, <2>2
    <3> QED
      BY <1>2, <2>2, <3>1, <3>2
  <2> QED
    BY <2>1, <2>2 DEF Folding
<1>9. Keeps(step, PackSet, n, hits)
  BY <1>3 DEF Keeps
<1>10. PICK t \in [0..n -> PackSet] : Run(t, step, EmptyPack, n, hits) /\ t[n] = h[1..n]
  BY ONLY <1>1, <1>4, <1>8, <1>9, FoldingByPosition
<1>11. \A k \in 1..n : t[k] = PackOne(t[k - 1], hits[k], bodies)
  <2> TAKE k \in 1..n
  <2>1. t[k - 1] \in PackSet /\ hits[k] \in HitSet
    BY <1>1
  <2> QED
    BY <1>2, <1>10, <2>1 DEF Run
<1> QED
  BY <1>1, <1>7, <1>10, <1>11 DEF n, Run

\* What one result counts.
Charge(result, bodies) == IF result.truncated THEN 0 ELSE Cost(result, bodies)

LEMMA SpentRun ==
  ASSUME NEW s \in Seq(HitSet), NEW bodies
  PROVE  \E t \in [0..Len(s) -> Nat] :
           /\ t[0] = 0 /\ t[Len(s)] = Spent(s, bodies)
           /\ \A k \in 1..Len(s) : t[k] = t[k - 1] + Charge(s[k], bodies)
<1> DEFINE n    == Len(s)
           step == [p \in Nat \X HitSet |-> p[1] + Charge(p[2], bodies)]
<1>1. n \in Nat /\ DOMAIN s = 1..n /\ \A k \in 1..n : s[k] \in HitSet
  OBVIOUS
<1>2. \A b \in Nat, x \in HitSet : step[<<b, x>>] = b + Charge(x, bodies)
  OBVIOUS
<1>3. \A b \in Nat, x \in HitSet : b + Charge(x, bodies) \in Nat
  BY CostType DEF Charge
<1>4. 0 \in Nat
  OBVIOUS
<1> HIDE DEF n, step
<1>5. \A b \in Nat, k \in 1..n : step[<<b, s[k]>>] \in Nat
  BY <1>1, <1>2, <1>3
<1>6. PICK g \in [SUBSET (1..n) -> Nat] : Folding(g, Nat, step, 0, n, s)
  BY <1>1, <1>5, FoldingExists
<1>7. g = [S \in SUBSET DOMAIN s |->
             IF S = {} THEN 0 ELSE g[S \ {Max(S)}] + Charge(s[Max(S)], bodies)]
  <2>1. ASSUME NEW S \in SUBSET (1..n)
        PROVE  g[S] = IF S = {} THEN 0 ELSE g[S \ {Max(S)}] + Charge(s[Max(S)], bodies)
    <3>1. CASE S = {}
      BY <1>6, <3>1 DEF Folding
    <3>2. CASE S # {}
      <4>1. s[Max(S)] \in HitSet
        BY <1>1, <3>2, TopIsThere
      <4>2. g[S \ {Max(S)}] \in Nat
        BY <1>6
      <4>3. g[S] = step[<<g[S \ {Max(S)}], s[Max(S)]>>]
        BY <1>6, <3>2, <4>2 DEF Folding
      <4> QED
        BY <1>2, <3>2, <4>1, <4>2, <4>3
    <3> QED
      BY <3>1, <3>2
  <2> QED
    BY <1>1, <1>6, <2>1
<1>8. PICK h :
        /\ h = [S \in SUBSET DOMAIN s |->
                  IF S = {} THEN 0 ELSE h[S \ {Max(S)}] + Charge(s[Max(S)], bodies)]
        /\ Spent(s, bodies) = h[DOMAIN s]
  BY <1>7 DEF Spent, Charge, FoldLeft, MapThenFoldSet
<1>9. Folding(h, Nat, step, 0, n, s)
  <2>1. h[{}] = 0
    BY <1>8
  <2>2. ASSUME NEW S \in SUBSET (1..n), S # {}, h[S \ {Max(S)}] \in Nat
        PROVE  h[S] = step[<<h[S \ {Max(S)}], s[Max(S)]>>]
    <3>1. s[Max(S)] \in HitSet
      BY <1>1, <2>2, TopIsThere
    <3>2. h[S] = h[S \ {Max(S)}] + Charge(s[Max(S)], bodies)
      BY <1>1, <1>8, <2>2
    <3> QED
      BY <1>2, <2>2, <3>1, <3>2
  <2> QED
    BY <2>1, <2>2 DEF Folding
<1>10. Keeps(step, Nat, n, s)
  BY <1>5 DEF Keeps
<1>11. PICK t \in [0..n -> Nat] : Run(t, step, 0, n, s) /\ t[n] = h[1..n]
  BY ONLY <1>1, <1>4, <1>9, <1>10, FoldingByPosition, SMT
<1>12. \A k \in 1..n : t[k] = t[k - 1] + Charge(s[k], bodies)
  <2> TAKE k \in 1..n
  <2>1. t[k - 1] \in Nat /\ s[k] \in HitSet
    BY <1>1
  <2> QED
    BY <1>2, <1>11, <2>1 DEF Run
<1> QED
  BY <1>1, <1>8, <1>11, <1>12 DEF n, Run

LEMMA SpentEmpty == ASSUME NEW bodies PROVE Spent(<<>>, bodies) = 0
<1>1. <<>> \in Seq(HitSet) /\ Len(<<>>) = 0
  OBVIOUS
<1>2. PICK t : t[0] = 0 /\ t[Len(<<>>)] = Spent(<<>>, bodies)
  BY <1>1, SpentRun
<1> QED
  BY <1>1, <1>2

LEMMA SpentAppend ==
  ASSUME NEW s \in Seq(HitSet), NEW x \in HitSet, NEW bodies
  PROVE  /\ Spent(Append(s, x), bodies) = Spent(s, bodies) + Charge(x, bodies)
         /\ Spent(s, bodies) \in Nat
<1> DEFINE n == Len(s)
           r == Append(s, x)
<1>1. /\ n \in Nat /\ r \in Seq(HitSet) /\ Len(r) = n + 1 /\ r[n + 1] = x
      /\ \A k \in 1..n : r[k] = s[k] /\ k \in 1..n + 1
  OBVIOUS
<1>2. PICK t \in [0..n -> Nat] :
        /\ t[0] = 0 /\ t[n] = Spent(s, bodies)
        /\ \A k \in 1..n : t[k] = t[k - 1] + Charge(s[k], bodies)
  BY SpentRun
<1> HIDE DEF n, r
<1>3. PICK u \in [0..Len(r) -> Nat] :
        /\ u[0] = 0 /\ u[Len(r)] = Spent(r, bodies)
        /\ \A k \in 1..Len(r) : u[k] = u[k - 1] + Charge(r[k], bodies)
  BY <1>1, SpentRun
<1> DEFINE Good == {k \in 0..n : t[k] = u[k]}
<1>4. 0 \in Good
  BY <1>1, <1>2, <1>3
<1>5. ASSUME NEW k \in 0..n, k < n, k \in Good PROVE k + 1 \in Good
  <2>1. k + 1 \in 1..n /\ k + 1 \in 1..n + 1 /\ (k + 1) - 1 = k /\ t[k] = u[k]
    BY <1>1, <1>5
  <2>2. t[k + 1] = t[k] + Charge(s[k + 1], bodies)
    BY <1>2, <2>1
  <2>3. u[k + 1] = u[k] + Charge(r[k + 1], bodies) /\ r[k + 1] = s[k + 1]
    BY <1>1, <1>3, <2>1
  <2>4. t[k + 1] = u[k + 1] /\ k + 1 \in 0..n
    BY <1>1, <2>1, <2>2, <2>3
  <2> QED
    BY <2>4
<1>6. t[n] = u[n] /\ t[n] \in Nat
  <2>1. 0..n \subseteq Good
    <3> HIDE DEF Good
    <3> QED
      BY <1>1, <1>4, <1>5, CountUp
  <2> QED
    BY <1>1, <2>1
<1>7. u[n + 1] = u[n] + Charge(r[n + 1], bodies)
  BY <1>1, <1>3
<1> QED
  BY <1>1, <1>2, <1>3, <1>6, <1>7 DEF r

LEMMA SpentType ==
  ASSUME NEW s \in Seq(HitSet), NEW bodies
  PROVE  Spent(s, bodies) \in Nat
<1>1. PICK t \in [0..Len(s) -> Nat] :
        /\ t[0] = 0 /\ t[Len(s)] = Spent(s, bodies)
        /\ \A k \in 1..Len(s) : t[k] = t[k - 1] + Charge(s[k], bodies)
  BY SpentRun
<1>2. Len(s) \in 0..Len(s)
  OBVIOUS
<1> QED
  BY <1>1, <1>2

\* What holds of a pack that has seen the first k hits.  What was charged can
\* exceed the budget by a first location alone, and a clipped body uses it up,
\* so that nothing follows either.
PackInv(packed, hits, bodies, k) ==
  LET results == packed.results
      spent   == packed.spent
  IN /\ Len(results) <= k /\ (packed.open => Len(results) = k)
     /\ k > 0 \/ ~packed.open => Len(results) > 0
     /\ Len(results) = 0 => spent = 0
     /\ \A i \in 1..Len(results) :
          results[i] = [hits[i] EXCEPT !.truncated = results[i].truncated]
     /\ \A i \in 1..Len(results) :
          results[i].truncated => i = Len(results) /\ bodies /\ spent = MaxTokens
     /\ Spent(results, bodies) <= spent
     /\ spent <= MaxTokens \/ (Len(results) = 1 /\ ~bodies)

LEMMA PackOneInv ==
  ASSUME NEW hits \in Seq(HitSet), NEW bodies \in BOOLEAN,
         NEW k \in Nat, k < Len(hits), NEW packed \in PackSet,
         PackInv(packed, hits, bodies, k)
  PROVE  PackInv(PackOne(packed, hits[k + 1], bodies), hits, bodies, k + 1)
<1> DEFINE hit       == hits[k + 1]
           results   == packed.results
           spent     == packed.spent
           remaining == MaxTokens - spent
           cost      == Cost(hit, bodies)
           over      == cost > remaining
           floor     == IF bodies THEN MinChunkTokens ELSE 1
           last      == [hit EXCEPT !.truncated = bodies /\ over]
           more      == Append(results, last)
           sum       == spent + (IF bodies /\ over THEN remaining ELSE cost)
           shut      == \/ ~packed.open
                        \/ results # <<>> /\ (remaining < floor \/ (over /\ ~bodies))
           n         == Len(results)
<1>1. /\ hit \in HitSet /\ results \in Seq(HitSet) /\ spent \in Nat /\ packed.open \in BOOLEAN
      /\ n \in Nat /\ MaxTokens \in Nat /\ floor \in Nat /\ floor >= 1 /\ MaxTokens >= 1
  BY SearchAssumption DEF PackSet
<1>2. cost \in Nat
  BY <1>1, CostType
<1>3. /\ n <= k /\ (packed.open => n = k)
      /\ k > 0 \/ ~packed.open => n > 0
      /\ n = 0 => spent = 0
      /\ \A i \in 1..n : results[i] = [hits[i] EXCEPT !.truncated = results[i].truncated]
      /\ \A i \in 1..n : results[i].truncated => i = n /\ bodies /\ spent = MaxTokens
      /\ Spent(results, bodies) <= spent
      /\ spent <= MaxTokens \/ (n = 1 /\ ~bodies)
  BY DEF PackInv
<1>4. results = <<>> <=> n = 0
  BY <1>1
<1>5. CASE shut
  <2>1. PackOne(packed, hit, bodies) = [packed EXCEPT !.open = FALSE]
    BY <1>5 DEF PackOne
  <2>2. /\ [packed EXCEPT !.open = FALSE].results = results
        /\ [packed EXCEPT !.open = FALSE].spent = spent
        /\ [packed EXCEPT !.open = FALSE].open = FALSE
    BY DEF PackSet
  <2>3. n > 0
    <3>1. CASE packed.open
      BY <1>1, <1>4, <1>5, <3>1
    <3>2. CASE ~packed.open
      BY <1>3, <3>2
    <3> QED
      BY <3>1, <3>2
  <2> QED
    BY <1>1, <1>3, <2>1, <2>2, <2>3 DEF PackInv
<1>6. CASE ~shut
  <2>1. PackOne(packed, hit, bodies) = [packed EXCEPT !.results = more, !.spent = sum]
    BY <1>6 DEF PackOne
  <2>2. /\ [packed EXCEPT !.results = more, !.spent = sum].results = more
        /\ [packed EXCEPT !.results = more, !.spent = sum].spent = sum
        /\ [packed EXCEPT !.results = more, !.spent = sum].open = packed.open
    BY DEF PackSet
  <2>3. /\ packed.open /\ n = k
        /\ n > 0 => remaining >= floor /\ ~(over /\ ~bodies)
        /\ n = 0 => spent = 0
    BY <1>1, <1>3, <1>4, <1>6
  <2>4. /\ last \in HitSet /\ (last.truncated <=> bodies /\ over) /\ last.chunk = hit.chunk
        /\ last = [hit EXCEPT !.truncated = last.truncated]
    BY <1>1 DEF HitSet
  <2> HIDE DEF last
  <2>5. Charge(last, bodies) = IF bodies /\ over THEN 0 ELSE cost
    <3>1. Cost(last, bodies) = cost
      BY <2>4 DEF Cost
    <3> HIDE DEF over, cost
    <3> QED
      BY <2>4, <3>1 DEF Charge
  <2>6. /\ more \in Seq(HitSet) /\ Len(more) = n + 1 /\ more[n + 1] = last
        /\ \A i \in 1..n : more[i] = results[i]
    BY <1>1, <2>4
  <2>7. /\ Spent(more, bodies) = Spent(results, bodies) + Charge(last, bodies)
        /\ Spent(results, bodies) \in Nat
    BY <1>1, <2>4, SpentAppend
  <2> HIDE DEF more, hit, cost, results, spent, floor
  <2>8. spent <= MaxTokens /\ (n > 0 => spent < MaxTokens)
    BY <1>1, <1>3, <2>3
  <2>9. /\ Spent(more, bodies) <= sum
        /\ sum <= MaxTokens \/ (n + 1 = 1 /\ ~bodies)
        /\ last.truncated => bodies /\ sum = MaxTokens
    <3>1. CASE bodies /\ over
      <4>1. sum = MaxTokens
        BY <1>1, <3>1
      <4> HIDE DEF over
      <4>2. Charge(last, bodies) = 0
        BY <2>5, <3>1
      <4>3. Spent(more, bodies) = Spent(results, bodies)
        BY <2>7, <4>2
      <4>4. Spent(results, bodies) <= spent
        BY <1>3
      <4> HIDE DEF sum
      <4>5. Spent(more, bodies) <= sum
        BY <1>1, <2>7, <2>8, <4>1, <4>3, <4>4
      <4>6. sum <= MaxTokens
        BY <1>1, <4>1
      <4>7. bodies
        BY <3>1
      <4> QED
        BY <4>1, <4>5, <4>6, <4>7, Zenon
    <3>2. CASE ~(bodies /\ over)
      BY <1>1, <1>2, <1>3, <2>3, <2>4, <2>5, <2>7, <2>8, <3>2
    <3> QED
      BY <3>1, <3>2
  <2> HIDE DEF sum
  <2>10. ASSUME NEW i \in 1..n + 1
         PROVE  /\ more[i] = [hits[i] EXCEPT !.truncated = more[i].truncated]
                /\ more[i].truncated => i = n + 1 /\ bodies /\ sum = MaxTokens
    <3>1. CASE i = n + 1
      BY <2>3, <2>4, <2>6, <2>9, <3>1 DEF hit
    <3>2. CASE i # n + 1
      <4>1. i \in 1..n /\ n > 0
        BY <1>1, <3>2
      <4>2. ~results[i].truncated /\ more[i] = results[i]
        BY <1>1, <1>3, <2>6, <2>8, <4>1
      <4>3. results[i] = [hits[i] EXCEPT !.truncated = results[i].truncated]
        BY <1>3, <4>1
      <4> QED
        BY <4>2, <4>3
    <3> QED
      BY <3>1, <3>2
  <2>11. PackInv([packed EXCEPT !.results = more, !.spent = sum], hits, bodies, k + 1)
    <3> DEFINE p == [packed EXCEPT !.results = more, !.spent = sum]
    <3>1. p.results = more /\ p.spent = sum
      BY <2>2
    <3>2. n + 1 <= k + 1 /\ n + 1 = k + 1 /\ n + 1 > 0 /\ n + 1 # 0
      BY <1>1, <2>3
    <3> HIDE DEF p
    <3> QED
      BY <2>6, <2>9, <2>10, <3>1, <3>2 DEF PackInv
  <2> QED
    BY <2>1, <2>11 DEF hit
<1> QED
  BY <1>5, <1>6

\* What ResponseFits says, of any hits.
LEMMA PackMeaning ==
  ASSUME NEW hits \in Seq(HitSet), NEW bodies \in BOOLEAN
  PROVE  LET results == Pack(hits, bodies) IN
         /\ results \in Seq(HitSet) /\ Len(results) <= Len(hits)
         /\ Len(hits) > 0 => Len(results) > 0
         /\ \A i \in 1..Len(results) :
              results[i] = [hits[i] EXCEPT !.truncated = results[i].truncated]
         /\ \A i \in 1..Len(results) :
              results[i].truncated => i = Len(results) /\ bodies
         /\ Spent(results, bodies) <= MaxTokens \/ (Len(results) = 1 /\ ~bodies)
<1> DEFINE n == Len(hits)
<1>1. n \in Nat
  OBVIOUS
<1>2. PICK t \in [0..n -> PackSet] :
        /\ t[0] = EmptyPack /\ t[n].results = Pack(hits, bodies)
        /\ \A k \in 1..n : t[k] = PackOne(t[k - 1], hits[k], bodies)
  BY PackRun
<1> DEFINE Good == {k \in 0..n : PackInv(t[k], hits, bodies, k)}
<1>3. 0 \in Good
  <2>1. PackInv(EmptyPack, hits, bodies, 0)
    BY SpentEmpty, SearchAssumption DEF PackInv, EmptyPack
  <2> QED
    BY <1>1, <1>2, <2>1
<1>4. ASSUME NEW k \in 0..n, k < n, k \in Good PROVE k + 1 \in Good
  <2>1. k + 1 \in 1..n /\ (k + 1) - 1 = k /\ k \in Nat /\ PackInv(t[k], hits, bodies, k)
    BY <1>1, <1>4
  <2>2. t[k + 1] = PackOne(t[k], hits[k + 1], bodies)
    BY <1>2, <2>1
  <2>3. t[k] \in PackSet
    BY <1>2
  <2>4. PackInv(t[k + 1], hits, bodies, k + 1)
    BY <1>4, <2>1, <2>2, <2>3, PackOneInv
  <2> QED
    BY <1>1, <2>1, <2>4
<1>5. PackInv(t[n], hits, bodies, n) /\ t[n] \in PackSet
  <2>1. 0..n \subseteq Good
    <3> HIDE DEF Good
    <3> QED
      BY <1>1, <1>3, <1>4, CountUp
  <2> QED
    BY <1>1, <1>2, <2>1
<1> DEFINE p == t[n]
<1>6. p.results \in Seq(HitSet) /\ p.spent \in Nat /\ p.results = Pack(hits, bodies)
  BY <1>2, <1>5 DEF PackSet
<1>7. Spent(p.results, bodies) \in Nat
  BY <1>6, SpentType
<1> HIDE DEF p
<1>8. PackInv(p, hits, bodies, n)
  BY <1>5 DEF p
<1> QED
  BY <1>1, <1>6, <1>7, <1>8, SearchAssumption DEF PackInv

-----------------------------------------------------------------------------
(* The call under way.                                                     *)

Tools   == {"search_code", "find_guidance", "get_file_context"}
Stages  == {"search", "text", "rerank", "stale", "lens"}
Fusions == {"hybrid", "dense_only", "sparse_only"}
Tried   == {Filters(tool, includeTests) : tool \in Tools, includeTests \in BOOLEAN}
Trees   == [Checkouts -> [Paths -> Versions \cup {Absent}]]

CallSet ==
  [tool : Tools, path : Paths \cup {Absent}, limit : Limits, bodies : BOOLEAN,
   tree : BOOLEAN, filters : Tried, stage : Stages, dense : Seq(Chunks),
   hits : Seq(HitSet), held : SUBSET (Checkouts \X Chunks), dirty : SUBSET Paths,
   moved : SUBSET Paths, stable : SUBSET Chunks, ready : BOOLEAN]

StateOK ==
  /\ setup \in [backend : {"qdrant", "mongo"}, fusion : Fusions,
                reranker : {"none", "degrade", "fail"}]
  /\ disk \in Trees /\ head \in Trees
  /\ indexed \in SUBSET Chunks

\* The call has seen all that is there now.
Watching(request) ==
  /\ \A c \in Checkouts, p \in Paths : HeldIn(c, p, disk[c][p]) \subseteq request.held
  /\ \A p \in Paths : disk["main"][p] # head["main"][p] => p \in request.dirty
  /\ Renamed(head["main"], disk["tree"]) \subseteq request.moved
  /\ request.stable \subseteq indexed
  /\ request.ready => "dense" \in built

\* A hit that was judged and not flagged was there when it was judged, and it
\* still is unless its file has been written since, which left it uncommitted
\* before the write or after it.
Fresh(hit, request) ==
  \/ hit.stale
  \/ hit.chunk[1] \in Unjudgeable
  \/ /\ <<"main", hit.chunk>> \in request.held
     /\ \/ hit.chunk[1] \in request.dirty
        \/ hit.chunk \in ChunksIn(hit.chunk[1], disk["main"][hit.chunk[1]])

Judged(request) ==
  \A i \in 1..Len(request.hits) :
    /\ request.hits[i].at = "main"
    /\ request.stage = "lens" => Fresh(request.hits[i], request)

Matching(request) == {c \in request.stable : QdrantPasses(c[1], request.filters)}

Bounds(request) ==
  {Cardinality(Matching(request)), request.limit, PrefetchLimit}
    \cup (IF setup.reranker = "none" THEN {} ELSE {Candidates})

DepthFor(request) ==
  IF setup.reranker = "none" \/ Candidates < request.limit THEN request.limit ELSE Candidates

\* Is a full answer owed to the call.
Owed(request) ==
  /\ request.ready
  /\ request.tool # "get_file_context" /\ setup.fusion # "sparse_only"

\* How much each stage has to hold for the answer to be full.
Enough(request) ==
  /\ request.stage = "text" => Distinct(request.dense)
  /\ Owed(request) =>
    /\ request.stage = "text" =>
         \E bound \in {PrefetchLimit, Cardinality(Matching(request))} :
           Len(request.dense) >= bound
    /\ request.stage = "rerank" =>
         \E bound \in {DepthFor(request), PrefetchLimit, Cardinality(Matching(request))} :
           Len(request.hits) >= bound
    /\ request.stage \in {"stale", "lens"} =>
         \E bound \in Bounds(request) : Len(request.hits) >= bound

CallOK(request) ==
  request \in CallSet /\ Watching(request) /\ Judged(request) /\ Enough(request)

SearchInv == StateOK /\ (query # Absent => CallOK(query))

LEMMA MatchingType ==
  ASSUME NEW request \in CallSet
  PROVE  /\ IsFiniteSet(Matching(request)) /\ Cardinality(Matching(request)) \in Nat
         /\ Matching(request) \subseteq Chunks
<1>1. request.stable \in SUBSET Chunks
  BY DEF CallSet
<1>2. Matching(request) \in SUBSET Chunks
  BY <1>1 DEF Matching
<1> QED
  BY <1>2, ChunkIds, FS_Subset, FS_CardinalityType

LEMMA NumbersType ==
  ASSUME StateOK, NEW request \in CallSet
  PROVE  /\ PrefetchLimit \in Nat /\ Candidates \in Nat /\ request.limit \in Nat
         /\ DepthFor(request) \in Nat
<1>1. /\ PrefetchLimit \in Nat /\ Candidates \in Nat /\ request.limit \in Nat
  BY SearchAssumption DEF CallSet
<1> QED
  BY <1>1 DEF DepthFor

LEMMA ChunksInType ==
  ASSUME NEW p \in Paths, NEW v \in Versions \cup {Absent}
  PROVE  ChunksIn(p, v) \in SUBSET Chunks
<1>1. CASE v = Absent
  BY <1>1 DEF ChunksIn
<1>2. CASE v # Absent
  BY <1>2, SearchAssumption
<1> QED
  BY <1>1, <1>2

LEMMA HeldInType ==
  ASSUME NEW tree \in Trees, NEW c \in Checkouts, NEW p \in Paths
  PROVE  HeldIn(c, p, tree[c][p]) \in SUBSET (Checkouts \X Chunks)
<1>1. tree[c][p] \in Versions \cup {Absent}
  BY DEF Trees
<1>2. ChunksIn(p, tree[c][p]) \in SUBSET Chunks
  BY <1>1, ChunksInType
<1> QED
  BY <1>2 DEF HeldIn

LEMMA SearchStarts == SearchInit => SearchInv
<1> SUFFICES ASSUME SearchInit PROVE SearchInv
  OBVIOUS
<1>1. FirstVersion \in Versions /\ FirstVersion # Absent
  BY SearchAssumption DEF FirstVersion
<1>2. disk \in Trees /\ head \in Trees
  BY <1>1 DEF SearchInit, Trees
<1>3. indexed \in SUBSET Chunks
  <2>1. \A p \in Paths : disk["main"][p] \in Versions \cup {Absent}
    BY <1>2 DEF Trees, Checkouts
  <2>2. \A p \in Paths : ChunksIn(p, disk["main"][p]) \in SUBSET Chunks
    BY <2>1, ChunksInType
  <2> QED
    BY <2>2 DEF SearchInit
<1> QED
  BY <1>2, <1>3 DEF SearchInit, SearchInv, StateOK, Fusions

\* What a step of the world must respect for a call under way to stay honest:
\* a main checkout's file is only changed from, or to, what is not committed.
LEMMA WorldKeeps ==
  ASSUME SearchInv, setup' = setup, disk' \in Trees, head' \in Trees,
         indexed' \in SUBSET Chunks, built \subseteq built', Witness,
         \A p \in Paths : \/ disk'["main"][p] = disk["main"][p]
                          \/ disk["main"][p] # head["main"][p]
                          \/ disk'["main"][p] # head'["main"][p]
  PROVE  SearchInv'
<1>1. StateOK'
  BY DEF SearchInv, StateOK
<1>2. CASE query = Absent
  <2>1. query' = Absent
    BY <1>2 DEF Witness
  <2> QED
    BY <1>1, <2>1 DEF SearchInv
<1>3. CASE query # Absent
  <2> DEFINE held   == query.held \cup UNION {HeldIn(c, p, disk'[c][p]) :
                                               c \in Checkouts, p \in Paths}
             dirty  == query.dirty \cup {p \in Paths : disk'["main"][p] # head'["main"][p]}
             moved  == query.moved \cup Renamed(head'["main"], disk'["tree"])
             stable == query.stable \cap indexed'
  <2>1. query' = [query EXCEPT !.held = held, !.dirty = dirty, !.moved = moved,
                               !.stable = stable]
    BY <1>3 DEF Witness
  <2>2. CallOK(query) /\ query \in CallSet
    BY <1>3 DEF SearchInv, CallOK
  <2>3. /\ query.held \in SUBSET (Checkouts \X Chunks) /\ query.dirty \in SUBSET Paths
        /\ query.moved \in SUBSET Paths /\ query.ready \in BOOLEAN
        /\ query.stable \in SUBSET Chunks /\ query.hits \in Seq(HitSet)
    BY <2>2 DEF CallSet
  <2>4. held \in SUBSET (Checkouts \X Chunks)
    <3>1. \A c \in Checkouts, p \in Paths :
            HeldIn(c, p, disk'[c][p]) \in SUBSET (Checkouts \X Chunks)
      BY HeldInType
    <3> QED
      BY <2>3, <3>1
  <2>5. dirty \in SUBSET Paths /\ moved \in SUBSET Paths /\ stable \in SUBSET Chunks
    BY <2>3 DEF Renamed
  <2>6. /\ \A c \in Checkouts, p \in Paths : HeldIn(c, p, disk'[c][p]) \subseteq held
        /\ query.held \subseteq held /\ query.dirty \subseteq dirty
        /\ \A p \in Paths : disk'["main"][p] # head'["main"][p] => p \in dirty
        /\ Renamed(head'["main"], disk'["tree"]) \subseteq moved
        /\ stable \subseteq query.stable /\ stable \subseteq indexed'
    OBVIOUS
  <2> HIDE DEF held, dirty, moved, stable
  <2>7. /\ query' \in CallSet
        /\ query'.held = held /\ query'.dirty = dirty /\ query'.moved = moved
        /\ query'.stable = stable /\ query'.ready = query.ready
        /\ query'.tool = query.tool /\ query'.limit = query.limit
        /\ query'.filters = query.filters
        /\ query'.stage = query.stage /\ query'.dense = query.dense
        /\ query'.hits = query.hits
    <3> DEFINE A == Seq(Chunks)
               B == Seq(HitSet)
               C == SUBSET (Checkouts \X Chunks)
    <3>1. CallSet =
            [tool : Tools, path : Paths \cup {Absent}, limit : Limits, bodies : BOOLEAN,
             tree : BOOLEAN, filters : Tried, stage : Stages, dense : A,
             hits : B, held : C, dirty : SUBSET Paths, moved : SUBSET Paths,
             stable : SUBSET Chunks, ready : BOOLEAN]
      BY DEF CallSet
    <3>2. held \in C
      BY <2>4
    <3> HIDE DEF A, B, C
    <3> QED
      BY <2>1, <2>2, <2>5, <3>1, <3>2
  <2>8. Watching(query)'
    <3>1. query.ready => "dense" \in built'
      BY <2>2 DEF CallOK, Watching
    <3> QED
      BY <2>6, <2>7, <3>1 DEF Watching
  <2>9. Judged(query)'
    <3> SUFFICES ASSUME NEW i \in 1..Len(query.hits)
                 PROVE  /\ query.hits[i].at = "main"
                        /\ query.stage = "lens" => Fresh(query.hits[i], query)'
      BY <2>7 DEF Judged
    <3> DEFINE hit == query.hits[i]
               p   == hit.chunk[1]
    <3>1. hit \in HitSet /\ query'.hits[i] = hit
      BY <2>3, <2>7
    <3>2. hit.at = "main" /\ (query.stage = "lens" => Fresh(hit, query))
      BY <2>2, <2>7 DEF CallOK, Judged
    <3>3. p \in Paths
      BY <3>1, SearchAssumption DEF HitSet
    <3>4. CASE query.stage = "lens" /\ ~hit.stale /\ p \notin Unjudgeable
      <4>1. /\ <<"main", hit.chunk>> \in query.held
            /\ p \in query.dirty \/ hit.chunk \in ChunksIn(p, disk["main"][p])
        BY <3>2, <3>4 DEF Fresh
      <4>2. p \in dirty \/ hit.chunk \in ChunksIn(p, disk'["main"][p])
        <5>1. disk["main"][p] # head["main"][p] => p \in query.dirty
          BY <2>2, <3>3 DEF CallOK, Watching
        <5> QED
          BY <2>6, <3>3, <4>1, <5>1
      <4>3. <<"main", hit.chunk>> \in held
        BY <2>6, <4>1
      <4> QED
        BY <2>7, <3>1, <3>2, <4>2, <4>3 DEF Fresh
    <3> QED
      BY <2>7, <3>1, <3>2, <3>4 DEF Fresh
  <2>10. Enough(query)'
    <3>1. /\ IsFiniteSet(Matching(query)) /\ Cardinality(Matching(query)) \in Nat
          /\ Cardinality(Matching(query'))  \in Nat
      BY <2>2, <2>7, MatchingType
    <3>2. Matching(query') \subseteq Matching(query)
      BY <2>6, <2>7 DEF Matching
    <3>3. Cardinality(Matching(query')) <= Cardinality(Matching(query))
      BY <3>1, <3>2, FS_Subset
    <3> DEFINE m == Cardinality(Matching(query))
               w == Cardinality(Matching(query'))
    <3> HIDE DEF m, w
    <3>4. m \in Nat /\ w \in Nat /\ w <= m
      BY <3>1, <3>3 DEF m, w
    <3>5. /\ Len(query.dense) \in Nat /\ Len(query.hits) \in Nat
          /\ \A n \in Nat : n >= m => n >= w
      BY <2>2, <3>4 DEF CallSet
    <3>6. /\ Len(query.dense) >= m => Len(query.dense) >= w
          /\ Len(query.hits) >= m => Len(query.hits) >= w
      BY <3>5
    <3>7. Owed(query)' <=> Owed(query)
      BY <2>7 DEF Owed
    <3> SUFFICES ASSUME Owed(query), Enough(query)
                 PROVE  Enough(query)'
      BY <2>2, <2>7, <3>7 DEF Enough, CallOK
    <3> QED
      BY <2>7, <3>6 DEF Enough, Bounds, DepthFor, m, w
  <2> QED
    BY <1>1, <2>7, <2>8, <2>9, <2>10 DEF SearchInv, CallOK
<1> QED
  BY <1>2, <1>3

LEMMA WorldActionsKeep ==
  ASSUME SearchInv,
         \/ \E c \in Checkouts, p \in Paths, v \in Versions \cup {Absent} : Write(c, p, v)
         \/ \E c \in Checkouts : Commit(c)
         \/ AddTree
         \/ \E p \in Paths : Reindex(p)
         \/ Build
  PROVE  SearchInv'
<1>1. disk \in Trees /\ head \in Trees /\ indexed \in SUBSET Chunks
  BY DEF SearchInv, StateOK
<1>2. "main" \in Checkouts /\ "tree" \in Checkouts
  BY DEF Checkouts
<1>3. CASE \E c \in Checkouts, p \in Paths, v \in Versions \cup {Absent} : Write(c, p, v)
  <2>1. PICK c \in Checkouts, p \in Paths, v \in Versions \cup {Absent} : Write(c, p, v)
    BY <1>3
  <2>2. /\ disk[c][p] # v /\ disk' = [disk EXCEPT ![c][p] = v]
        /\ head' = head /\ indexed' = indexed /\ setup' = setup /\ built' = built /\ Witness
    BY <2>1 DEF Write, World
  <2>3. disk' \in Trees
    BY <1>1, <2>2 DEF Trees
  <2>4. ASSUME NEW q \in Paths
        PROVE  \/ disk'["main"][q] = disk["main"][q]
               \/ disk["main"][q] # head["main"][q]
               \/ disk'["main"][q] # head'["main"][q]
    <3>1. CASE c = "main" /\ q = p
      <4>1. disk'["main"][q] = v
        BY <1>1, <1>2, <2>2, <3>1 DEF Trees
      <4> QED
        BY <2>2, <3>1, <4>1
    <3>2. CASE ~(c = "main" /\ q = p)
      BY <1>1, <1>2, <2>2, <3>2 DEF Trees
    <3> QED
      BY <3>1, <3>2
  <2> QED
    BY <1>1, <2>2, <2>3, <2>4, WorldKeeps
<1>4. CASE \E c \in Checkouts : Commit(c)
  <2>1. PICK c \in Checkouts : Commit(c)
    BY <1>4
  <2>2. /\ disk' = disk /\ head' = [head EXCEPT ![c] = disk[c]]
        /\ indexed' = indexed /\ setup' = setup /\ built' = built /\ Witness
    BY <2>1 DEF Commit, World
  <2>3. head' \in Trees
    BY <1>1, <2>2 DEF Trees
  <2> QED
    BY <1>1, <2>2, <2>3, WorldKeeps
<1>5. CASE AddTree
  <2>1. /\ disk' = [disk EXCEPT !["tree"] = head["main"]]
        /\ head' = [head EXCEPT !["tree"] = head["main"]]
        /\ indexed' = indexed /\ setup' = setup /\ built' = built /\ Witness
    BY <1>5 DEF AddTree, World
  <2>2. disk' \in Trees /\ head' \in Trees /\ disk'["main"] = disk["main"]
    BY <1>1, <1>2, <2>1 DEF Trees
  <2> QED
    BY <1>1, <2>1, <2>2, WorldKeeps
<1>6. CASE \E p \in Paths : Reindex(p)
  <2>1. PICK p \in Paths : Reindex(p)
    BY <1>6
  <2>2. /\ indexed' = {c \in indexed : c[1] # p} \cup ChunksIn(p, disk["main"][p])
        /\ disk' = disk /\ head' = head /\ setup' = setup /\ built' = built /\ Witness
    BY <2>1 DEF Reindex, World
  <2>3. ChunksIn(p, disk["main"][p]) \in SUBSET Chunks
    <3>1. disk["main"][p] \in Versions \cup {Absent}
      BY <1>1, <1>2 DEF Trees
    <3> QED
      BY <3>1, ChunksInType
  <2>4. indexed' \in SUBSET Chunks
    BY <1>1, <2>2, <2>3
  <2> QED
    BY <1>1, <2>2, <2>4, WorldKeeps
<1>7. CASE Build
  <2>1. /\ disk' = disk /\ head' = head /\ indexed' = indexed /\ setup' = setup
        /\ built \subseteq built' /\ Witness
    BY <1>7 DEF Build, World
  <2> QED
    BY <1>1, <2>1, WorldKeeps
<1> QED
  BY <1>3, <1>4, <1>5, <1>6, <1>7

LEMMA AskKeeps ==
  ASSUME SearchInv, AskAny
  PROVE  SearchInv'
<1>1. PICK limit \in Limits, given \in {Absent, "none", "tree"}, bodies \in BOOLEAN,
           tool \in Tools, path \in Paths \cup {Absent} :
        Ask(tool, path, limit, given, bodies)
  BY DEF AskAny, Tools
<1>2. PICK includeTests \in BOOLEAN :
        \/ query' = Absent
        \/ query' = [tool |-> tool, path |-> path, limit |-> limit, bodies |-> bodies,
                 tree |-> given = "tree", filters |-> Filters(tool, includeTests),
                 stage |-> "search", dense |-> <<>>, hits |-> <<>>,
                 held |-> UNION {HeldIn(c, p, disk[c][p]) : c \in Checkouts, p \in Paths},
                 dirty |-> {p \in Paths : disk["main"][p] # head["main"][p]},
                 moved |-> Renamed(head["main"], disk["tree"]),
                 stable |-> indexed, ready |-> "dense" \in built]
  BY <1>1 DEF Ask
<1>3. UNCHANGED <<setup, disk, head, indexed, built>>
  BY <1>1 DEF Ask, worldVars
<1>4. StateOK'
  BY <1>3 DEF SearchInv, StateOK
<1>5. CASE query' = Absent
  BY <1>4, <1>5 DEF SearchInv
<1>6. CASE query' # Absent
  <2> DEFINE held  == UNION {HeldIn(c, p, disk[c][p]) : c \in Checkouts, p \in Paths}
             dirty == {p \in Paths : disk["main"][p] # head["main"][p]}
             moved == Renamed(head["main"], disk["tree"])
             ready == "dense" \in built
             found == Filters(tool, includeTests)
             named == given = "tree"
  <2>1. query' = [tool |-> tool, path |-> path, limit |-> limit, bodies |-> bodies,
                  tree |-> named, filters |-> found,
                  stage |-> "search", dense |-> <<>>, hits |-> <<>>,
                  held |-> held, dirty |-> dirty, moved |-> moved,
                  stable |-> indexed, ready |-> ready]
    BY <1>2, <1>6
  <2>2. held \in SUBSET (Checkouts \X Chunks)
    <3>1. disk \in Trees
      BY DEF SearchInv, StateOK
    <3>2. \A c \in Checkouts, p \in Paths :
            HeldIn(c, p, disk[c][p]) \in SUBSET (Checkouts \X Chunks)
      BY <3>1, HeldInType
    <3> QED
      BY <3>2
  <2>3. /\ dirty \in SUBSET Paths /\ indexed \in SUBSET Chunks /\ found \in Tried
        /\ named \in BOOLEAN /\ ready \in BOOLEAN /\ moved \in SUBSET Paths
    BY DEF SearchInv, StateOK, Tried, Renamed
  <2>4. /\ \A c \in Checkouts, p \in Paths : HeldIn(c, p, disk[c][p]) \subseteq held
        /\ \A p \in Paths : disk["main"][p] # head["main"][p] => p \in dirty
    OBVIOUS
  <2> HIDE DEF held, dirty, moved, ready, found, named
  <2>5. query' \in CallSet
    <3> DEFINE A == Seq(Chunks)
               B == Seq(HitSet)
               C == SUBSET (Checkouts \X Chunks)
    <3>1. CallSet =
            [tool : Tools, path : Paths \cup {Absent}, limit : Limits, bodies : BOOLEAN,
             tree : BOOLEAN, filters : Tried, stage : Stages, dense : A,
             hits : B, held : C, dirty : SUBSET Paths, moved : SUBSET Paths,
             stable : SUBSET Chunks, ready : BOOLEAN]
      BY DEF CallSet
    <3>2. held \in C /\ <<>> \in A /\ <<>> \in B /\ "search" \in Stages
      BY <2>2 DEF Stages
    <3> HIDE DEF A, B, C
    <3> QED
      BY <2>1, <2>3, <3>1, <3>2
  <2>6. /\ query'.held = held /\ query'.dirty = dirty /\ query'.moved = moved
        /\ query'.stable = indexed /\ query'.ready = ready
        /\ query'.stage = "search" /\ query'.hits = <<>>
    BY <2>1
  <2>7. Watching(query)'
    BY <1>3, <2>4, <2>6 DEF Watching, moved, ready
  <2>8. Judged(query)' /\ Enough(query)'
    BY <2>6 DEF Judged, Enough
  <2> QED
    BY <1>4, <2>5, <2>7, <2>8 DEF SearchInv, CallOK
<1> QED
  BY <1>5, <1>6

\* A step of the call that leaves the world alone and goes on with these hits.
LEMMA StepKeeps ==
  ASSUME SearchInv, query # Absent, UNCHANGED <<setup, worldVars>>,
         NEW stage \in Stages \ {"text"}, NEW hits \in Seq(HitSet),
         query' = [query EXCEPT !.stage = stage, !.hits = hits],
         \A i \in 1..Len(hits) :
           hits[i].at = "main" /\ (stage = "lens" => Fresh(hits[i], query)),
         Owed(query) =>
           /\ stage = "rerank" =>
                \E bound \in {DepthFor(query), PrefetchLimit, Cardinality(Matching(query))} :
                  Len(hits) >= bound
           /\ stage \in {"stale", "lens"} =>
                \E bound \in Bounds(query) : Len(hits) >= bound
  PROVE  SearchInv'
<1>1. UNCHANGED <<setup, disk, head, indexed, built>>
  BY DEF worldVars
<1>2. StateOK'
  BY <1>1 DEF SearchInv, StateOK
<1>3. CallOK(query) /\ query \in CallSet /\ query.dense \in Seq(Chunks)
  BY DEF SearchInv, CallOK, CallSet
<1>4. /\ query' \in CallSet
      /\ query'.stage = stage /\ query'.dense = query.dense /\ query'.hits = hits
      /\ query'.tool = query.tool /\ query'.limit = query.limit
      /\ query'.filters = query.filters /\ query'.held = query.held
      /\ query'.dirty = query.dirty /\ query'.moved = query.moved
      /\ query'.stable = query.stable /\ query'.ready = query.ready
  <2> DEFINE A == Seq(Chunks)
             B == Seq(HitSet)
             C == SUBSET (Checkouts \X Chunks)
  <2>1. CallSet =
          [tool : Tools, path : Paths \cup {Absent}, limit : Limits, bodies : BOOLEAN,
           tree : BOOLEAN, filters : Tried, stage : Stages, dense : A,
           hits : B, held : C, dirty : SUBSET Paths, moved : SUBSET Paths,
           stable : SUBSET Chunks, ready : BOOLEAN]
    BY DEF CallSet
  <2>2. hits \in B /\ stage \in Stages
    OBVIOUS
  <2> HIDE DEF A, B, C
  <2> QED
    BY <1>3, <2>1, <2>2
<1>5. Watching(query)'
  BY <1>1, <1>3, <1>4 DEF CallOK, Watching
<1>6. Judged(query)'
  BY <1>1, <1>4 DEF Judged, Fresh
<1>7. Enough(query)'
  <2>1. /\ DepthFor(query)' = DepthFor(query) /\ Bounds(query)' = Bounds(query)
        /\ Matching(query)' = Matching(query) /\ Owed(query)' = Owed(query)
    BY <1>1, <1>4 DEF DepthFor, Bounds, Matching, Owed
  <2> QED
    BY <1>1, <1>4, <2>1 DEF Enough
<1> QED
  BY <1>2, <1>4, <1>5, <1>6, <1>7 DEF SearchInv, CallOK

LEMMA HitsMeaning ==
  ASSUME NEW ranked \in Seq(Chunks)
  PROVE  /\ Hits(ranked) \in Seq(HitSet) /\ Len(Hits(ranked)) = Len(ranked)
         /\ \A i \in 1..Len(ranked) : Hits(ranked)[i].at = "main"
<1>1. DOMAIN ranked = 1..Len(ranked) /\ Len(ranked) \in Nat
  OBVIOUS
<1>2. \A i \in 1..Len(ranked) : Hit(ranked[i]) \in HitSet /\ Hit(ranked[i]).at = "main"
  BY <1>1 DEF Hit, HitSet, Checkouts
<1>3. Hits(ranked) = [i \in 1..Len(ranked) |-> Hit(ranked[i])]
  BY <1>1 DEF Hits
<1>4. Hits(ranked) \in Seq(HitSet) /\ Len(Hits(ranked)) = Len(ranked)
  BY <1>1, <1>2, <1>3
<1> QED
  BY <1>2, <1>3, <1>4

\* What a search asks of the branches, on either backend.
LEMMA DepthIs ==
  ASSUME SearchInv, query # Absent
  PROVE  Depth = DepthFor(query) /\ Depth \in Nat /\ PrefetchLimit \in Nat
BY NumbersType DEF SearchInv, CallOK, Depth, DepthFor

\* A branch by similarity over the files that a dialect keeps.
LEMMA DenseIsFull ==
  ASSUME SearchInv, query # Absent, NEW n \in Nat,
         NEW kept, kept = {p \in Paths : Kept(p, query.filters)}
  PROVE  LET ranked == Top(DenseOrder, kept, n) IN
         /\ ranked \in Seq(Chunks) /\ Distinct(ranked)
         /\ Len(ranked) >= n \/ Len(ranked) >= Cardinality(Matching(query))
<1>1. /\ query.stable \subseteq indexed /\ query.stable \in SUBSET Chunks
  BY DEF SearchInv, CallOK, CallSet, Watching
<1>2. \A c \in Chunks : c[1] \in Paths
  BY SearchAssumption
<1>3. Matching(query) \subseteq {c \in indexed \cap Chunks : c[1] \in kept}
  BY <1>1, <1>2, QdrantMeaning DEF Matching
<1> DEFINE M == Matching(query)
<1> HIDE DEF M
<1>4. Len(Top(DenseOrder, kept, n)) >= n \/ Len(Top(DenseOrder, kept, n)) >= Cardinality(M)
  BY <1>3, TopIsFull DEF M
<1>5. DenseOrder \in Seq(Chunks) /\ IsInjective(DenseOrder)
  BY SearchAssumption
<1> QED
  BY <1>4, <1>5, TopMeaning DEF M

LEMMA TextType ==
  ASSUME NEW n \in Nat, NEW kept
  PROVE  Top(TextOrder, kept, n) \in Seq(Chunks)
<1>1. TextOrder \in Seq(Chunks) /\ IsInjective(TextOrder)
  BY SearchAssumption
<1> QED
  BY <1>1, TopMeaning

\* The files that each dialect keeps.
LEMMA KeptFiles ==
  ASSUME NEW filters
  PROVE  /\ {p \in Paths : QdrantPasses(p, filters)} = {p \in Paths : Kept(p, filters)}
         /\ {p \in Paths : VectorPasses(p, filters)} = {p \in Paths : Kept(p, filters)}
BY QdrantMeaning, VectorMeaning

\* What a search found goes on to the reranker.
LEMMA FoundKeeps ==
  ASSUME SearchInv, query # Absent, UNCHANGED <<setup, worldVars>>,
         NEW ranked \in Seq(Chunks),
         query' = [query EXCEPT !.stage = "rerank", !.hits = Hits(ranked)],
         Owed(query) =>
           \/ Len(ranked) >= Depth
           \/ Len(ranked) >= PrefetchLimit
           \/ Len(ranked) >= Cardinality(Matching(query))
  PROVE  SearchInv'
<1>1. Hits(ranked) \in Seq(HitSet) /\ Len(Hits(ranked)) = Len(ranked)
  BY HitsMeaning
<1>2. \A i \in 1..Len(Hits(ranked)) : Hits(ranked)[i].at = "main"
  BY <1>1, HitsMeaning
<1>3. "rerank" \in Stages \ {"text"} /\ Depth = DepthFor(query)
  BY DepthIs DEF Stages
<1>4. Owed(query) =>
        \E bound \in {DepthFor(query), PrefetchLimit, Cardinality(Matching(query))} :
          Len(Hits(ranked)) >= bound
  BY <1>1, <1>3
<1> DEFINE hits == Hits(ranked)
<1> HIDE DEF hits
<1> QED
  BY <1>1, <1>2, <1>3, <1>4, StepKeeps DEF hits

\* The two ways of fusing on the server, and the one on the client.
LEMMA FusedIsFull ==
  ASSUME SearchInv, query # Absent, NEW m \in Nat,
         NEW first \in Seq(Chunks), Distinct(first), NEW second \in Seq(Chunks)
  PROVE  LET fused == Fuse(first, second, Depth) IN
         /\ fused \in Seq(Chunks)
         /\ Len(first) >= PrefetchLimit \/ Len(first) >= m =>
              Len(fused) >= Depth \/ Len(fused) >= PrefetchLimit \/ Len(fused) >= m
<1> DEFINE fused == Fuse(first, second, Depth)
<1>1. Depth \in Nat /\ PrefetchLimit \in Nat
  BY DepthIs
<1>2. fused \in Seq(Chunks) /\ (Len(fused) >= Depth \/ Len(fused) >= Len(first))
  BY <1>1, FuseMeaning
<1> HIDE DEF fused
<1>3. Len(fused) \in Nat /\ Len(first) \in Nat
  BY <1>2
<1>4. Len(first) >= PrefetchLimit \/ Len(first) >= m =>
        Len(fused) >= Depth \/ Len(fused) >= PrefetchLimit \/ Len(fused) >= m
  BY <1>1, <1>2, <1>3
<1> QED
  BY <1>2, <1>4 DEF fused

LEMMA QdrantSearchKeeps ==
  ASSUME SearchInv, QdrantSearch
  PROVE  SearchInv'
<1> DEFINE kept   == {p \in Paths : QdrantPasses(p, query.filters)}
           dense(n) == Top(DenseOrder, kept, n)
           text(n)  == Top(TextOrder, kept, n)
           ranked == CASE setup.fusion = "dense_only"  -> dense(Depth)
                       [] setup.fusion = "sparse_only" -> text(Depth)
                       [] setup.fusion = "hybrid"      ->
                            Fuse(dense(PrefetchLimit), text(PrefetchLimit), Depth)
           m == Cardinality(Matching(query))
<1>1. /\ query # Absent /\ UNCHANGED <<setup, worldVars>>
      /\ query' = [query EXCEPT !.stage = "rerank", !.hits = Hits(ranked)]
  BY DEF QdrantSearch, Searching, Step
<1>2. Depth \in Nat /\ PrefetchLimit \in Nat
  BY <1>1, DepthIs
<1>3. kept = {p \in Paths : Kept(p, query.filters)}
  BY KeptFiles
<1>4. ASSUME NEW n \in Nat
      PROVE  /\ dense(n) \in Seq(Chunks) /\ Distinct(dense(n))
             /\ Len(dense(n)) >= n \/ Len(dense(n)) >= m
             /\ text(n) \in Seq(Chunks)
  BY <1>1, <1>3, DenseIsFull, TextType
<1>5. setup.fusion \in Fusions
  BY DEF SearchInv, StateOK
<1>6. m \in Nat
  BY <1>1, MatchingType DEF SearchInv, CallOK
<1> HIDE DEF kept, dense, text, m
<1>7. /\ ranked \in Seq(Chunks)
      /\ setup.fusion # "sparse_only" =>
           Len(ranked) >= Depth \/ Len(ranked) >= PrefetchLimit \/ Len(ranked) >= m
  <2>1. CASE setup.fusion = "dense_only"
    BY <1>2, <1>4, <2>1
  <2>2. CASE setup.fusion = "sparse_only"
    BY <1>2, <1>4, <2>2
  <2>3. CASE setup.fusion = "hybrid"
    <3> DEFINE first  == dense(PrefetchLimit)
               second == text(PrefetchLimit)
    <3>1. ranked = Fuse(first, second, Depth)
      BY <2>3
    <3>2. /\ first \in Seq(Chunks) /\ Distinct(first)
          /\ Len(first) >= PrefetchLimit \/ Len(first) >= m
          /\ second \in Seq(Chunks)
      BY <1>2, <1>4
    <3> HIDE DEF first, second, ranked
    <3> QED
      BY <1>1, <1>6, <3>1, <3>2, FusedIsFull
  <2> QED
    BY <1>5, <2>1, <2>2, <2>3 DEF Fusions
<1> HIDE DEF ranked
<1> QED
  BY <1>1, <1>7, FoundKeeps DEF m, Owed

\* Mongo's branches, which filter in dialects of their own; where the call
\* found the vector index ready, it still is.
LEMMA StagesAre ==
  ASSUME SearchInv, query # Absent, NEW n \in Nat
  PROVE  /\ DenseStages(n) \in Seq(Chunks) /\ Distinct(DenseStages(n))
         /\ query.ready => \/ Len(DenseStages(n)) >= n
                           \/ Len(DenseStages(n)) >= Cardinality(Matching(query))
         /\ TextStages(n) \in Seq(Chunks)
<1> DEFINE kept == {p \in Paths : VectorPasses(p, query.filters)}
<1>1. kept = {p \in Paths : Kept(p, query.filters)}
  BY KeptFiles
<1>2. DenseStages(n) = IF "dense" \notin built THEN <<>> ELSE Top(DenseOrder, kept, n)
  BY DEF DenseStages
<1> HIDE DEF kept
<1>3. TextStages(n) \in Seq(Chunks)
  BY TextType DEF TextStages
<1>4. query.ready => "dense" \in built
  BY DEF SearchInv, CallOK, Watching
<1>5. CASE "dense" \in built
  BY <1>1, <1>2, <1>3, <1>5, DenseIsFull
<1>6. CASE "dense" \notin built
  <2>1. DenseStages(n) = <<>>
    BY <1>2, <1>6
  <2>2. DenseStages(n) \in Seq(Chunks) /\ Distinct(DenseStages(n))
    BY <2>1 DEF Distinct
  <2> QED
    BY <1>3, <1>4, <1>6, <2>2
<1> QED
  BY <1>5, <1>6

LEMMA MongoSearchKeeps ==
  ASSUME SearchInv, MongoSearch
  PROVE  SearchInv'
<1> DEFINE ranked == IF setup.fusion = "dense_only" THEN DenseStages(Depth)
                     ELSE TextStages(Depth)
<1>1. /\ query # Absent /\ UNCHANGED <<setup, worldVars>> /\ setup.fusion # "hybrid"
      /\ query' = [query EXCEPT !.stage = "rerank", !.hits = Hits(ranked)]
  BY DEF MongoSearch, Searching, Step
<1>2. Depth \in Nat /\ setup.fusion \in Fusions
  BY <1>1, DepthIs DEF SearchInv, StateOK
<1>3. /\ ranked \in Seq(Chunks)
      /\ Owed(query) =>
           Len(ranked) >= Depth \/ Len(ranked) >= Cardinality(Matching(query))
  BY <1>1, <1>2, StagesAre DEF Fusions, Owed
<1> HIDE DEF ranked
<1> QED
  BY <1>1, <1>3, FoundKeeps

LEMMA RankFusionKeeps ==
  ASSUME SearchInv, RankFusion
  PROVE  SearchInv'
<1> DEFINE first  == DenseStages(PrefetchLimit)
           second == TextStages(PrefetchLimit)
           ranked == Fuse(first, second, Depth)
           m      == Cardinality(Matching(query))
<1>1. /\ query # Absent /\ UNCHANGED <<setup, worldVars>>
      /\ query' = [query EXCEPT !.stage = "rerank", !.hits = Hits(ranked)]
  BY DEF RankFusion, Hybrid, Searching, Step
<1>2. PrefetchLimit \in Nat /\ m \in Nat
  BY <1>1, DepthIs, MatchingType DEF SearchInv, CallOK
<1>3. /\ first \in Seq(Chunks) /\ Distinct(first)
      /\ Owed(query) => Len(first) >= PrefetchLimit \/ Len(first) >= m
      /\ second \in Seq(Chunks)
  BY <1>1, <1>2, StagesAre DEF Owed
<1> HIDE DEF first, second, m
<1>4. /\ ranked \in Seq(Chunks)
      /\ Owed(query) =>
           Len(ranked) >= Depth \/ Len(ranked) >= PrefetchLimit \/ Len(ranked) >= m
  BY <1>1, <1>2, <1>3, FusedIsFull
<1> HIDE DEF ranked
<1> QED
  BY <1>1, <1>4, FoundKeeps DEF m

LEMMA NoRankFusionKeeps ==
  ASSUME SearchInv, NoRankFusion
  PROVE  SearchInv'
<1>1. /\ query # Absent /\ UNCHANGED <<setup, worldVars>>
      /\ query' = [query EXCEPT !.stage = "search", !.hits = <<>>]
  BY DEF NoRankFusion, Hybrid, Searching, Step
<1> DEFINE hits == <<>>
<1>2. "search" \in Stages \ {"text"} /\ hits \in Seq(HitSet) /\ 1..Len(hits) = {}
  BY DEF Stages
<1>3. query' = [query EXCEPT !.stage = "search", !.hits = hits]
  BY <1>1
<1> HIDE DEF hits
<1> QED
  BY <1>1, <1>2, <1>3, StepKeeps

LEMMA DenseBranchKeeps ==
  ASSUME SearchInv, DenseBranch
  PROVE  SearchInv'
<1> DEFINE dense == DenseStages(PrefetchLimit)
<1>1. /\ query # Absent /\ UNCHANGED <<setup, worldVars>>
      /\ query' = [query EXCEPT !.stage = "text", !.dense = dense]
  BY DEF DenseBranch, Hybrid, Searching
<1>2. UNCHANGED <<setup, disk, head, indexed, built>>
  BY <1>1 DEF worldVars
<1>3. StateOK'
  BY <1>2 DEF SearchInv, StateOK
<1>4. CallOK(query) /\ query \in CallSet /\ query.hits \in Seq(HitSet)
  BY <1>1 DEF SearchInv, CallOK, CallSet
<1>5. PrefetchLimit \in Nat
  BY SearchAssumption
<1>6. /\ dense \in Seq(Chunks) /\ Distinct(dense)
      /\ Owed(query) =>
           Len(dense) >= PrefetchLimit \/ Len(dense) >= Cardinality(Matching(query))
  BY <1>1, <1>5, StagesAre DEF Owed
<1> HIDE DEF dense
<1>7. /\ query' \in CallSet
      /\ query'.stage = "text" /\ query'.dense = dense /\ query'.hits = query.hits
      /\ query'.tool = query.tool /\ query'.limit = query.limit
      /\ query'.filters = query.filters /\ query'.held = query.held
      /\ query'.dirty = query.dirty /\ query'.moved = query.moved
      /\ query'.stable = query.stable /\ query'.ready = query.ready
  <2> DEFINE A == Seq(Chunks)
             B == Seq(HitSet)
             C == SUBSET (Checkouts \X Chunks)
  <2>1. CallSet =
          [tool : Tools, path : Paths \cup {Absent}, limit : Limits, bodies : BOOLEAN,
           tree : BOOLEAN, filters : Tried, stage : Stages, dense : A,
           hits : B, held : C, dirty : SUBSET Paths, moved : SUBSET Paths,
           stable : SUBSET Chunks, ready : BOOLEAN]
    BY DEF CallSet
  <2>2. dense \in A /\ "text" \in Stages
    BY <1>6 DEF Stages
  <2> HIDE DEF A, B, C
  <2> QED
    BY <1>1, <1>4, <2>1, <2>2
<1>8. Watching(query)'
  BY <1>2, <1>4, <1>7 DEF CallOK, Watching
<1>9. Judged(query)'
  BY <1>4, <1>7 DEF CallOK, Judged
<1>10. Enough(query)'
  <2>1. Matching(query)' = Matching(query) /\ Owed(query)' = Owed(query)
    BY <1>2, <1>7 DEF Matching, Owed
  <2> QED
    BY <1>6, <1>7, <2>1 DEF Enough
<1> QED
  BY <1>3, <1>7, <1>8, <1>9, <1>10 DEF SearchInv, CallOK

LEMMA TextBranchKeeps ==
  ASSUME SearchInv, TextBranch
  PROVE  SearchInv'
<1> DEFINE first  == query.dense
           second == TextStages(PrefetchLimit)
           ranked == Fuse(first, second, Depth)
           m      == Cardinality(Matching(query))
<1>1. /\ query # Absent /\ query.stage = "text" /\ UNCHANGED <<setup, worldVars>>
      /\ query' = [query EXCEPT !.stage = "rerank", !.hits = Hits(ranked)]
  BY DEF TextBranch, Step
<1>2. PrefetchLimit \in Nat /\ m \in Nat
  BY <1>1, DepthIs, MatchingType DEF SearchInv, CallOK
<1>3. /\ first \in Seq(Chunks) /\ Distinct(first)
      /\ Owed(query) =>
           Len(first) >= PrefetchLimit \/ Len(first) >= m
  BY <1>1 DEF SearchInv, CallOK, CallSet, Enough
<1>4. second \in Seq(Chunks)
  BY <1>1, <1>2, StagesAre
<1> HIDE DEF first, second, m
<1>5. /\ ranked \in Seq(Chunks)
      /\ Owed(query) =>
           Len(ranked) >= Depth \/ Len(ranked) >= PrefetchLimit \/ Len(ranked) >= m
  BY <1>1, <1>2, <1>3, <1>4, FusedIsFull
<1> HIDE DEF ranked
<1> QED
  BY <1>1, <1>5, FoundKeeps DEF m

LEMMA ChunksForPathKeeps ==
  ASSUME SearchInv, ChunksForPath
  PROVE  SearchInv'
<1>1. PICK some :
        Step("stale",
             Hits(Picked(DenseOrder, {i \in DOMAIN DenseOrder : DenseOrder[i] \in some})))
  BY DEF ChunksForPath
<1> DEFINE listed == {i \in DOMAIN DenseOrder : DenseOrder[i] \in some}
           ranked == Picked(DenseOrder, listed)
<1>2. /\ query # Absent /\ query.tool = "get_file_context" /\ UNCHANGED <<setup, worldVars>>
      /\ query' = [query EXCEPT !.stage = "stale", !.hits = Hits(ranked)]
  BY <1>1 DEF ChunksForPath, Step
<1>3. /\ DOMAIN DenseOrder = 1..Len(DenseOrder) /\ Len(DenseOrder) \in Nat
      /\ \A i \in DOMAIN DenseOrder : DenseOrder[i] \in Chunks
  BY SearchAssumption
<1>4. listed \in SUBSET Int /\ IsFiniteSet(listed)
  <2>1. listed \in SUBSET (1..Len(DenseOrder))
    BY <1>3
  <2>2. IsFiniteSet(1..Len(DenseOrder)) /\ 1..Len(DenseOrder) \subseteq Int
    BY <1>3, FS_Interval
  <2> HIDE DEF listed
  <2> QED
    BY <2>1, <2>2, FS_Subset
<1>5. ranked \in Seq(Chunks)
  <2>1. \A i \in listed : DenseOrder[i] \in Chunks
    BY <1>3
  <2> HIDE DEF listed
  <2> QED
    BY <1>4, <2>1, PickedSeq
<1> HIDE DEF ranked
<1>6. /\ Hits(ranked) \in Seq(HitSet) /\ Len(Hits(ranked)) = Len(ranked)
      /\ \A i \in 1..Len(Hits(ranked)) : Hits(ranked)[i].at = "main"
  BY <1>5, HitsMeaning
<1>7. "stale" \in Stages \ {"text"}
  BY DEF Stages
<1>8. ~Owed(query)
  BY <1>2 DEF Owed
<1> DEFINE hits == Hits(ranked)
<1> HIDE DEF hits
<1> QED
  BY <1>2, <1>6, <1>7, <1>8, StepKeeps DEF hits

\* Whatever the reranker's scores are, what it gives back reaches a bound.
LEMMA RerankKeeps ==
  ASSUME SearchInv, Rerank
  PROVE  SearchInv'
<1> DEFINE candidates == Take(query.hits, Candidates)
<1>1. PICK scores \in [DOMAIN candidates -> {0, 1}] :
        Step("stale", Take(Attach(candidates, scores), query.limit))
  BY DEF Rerank
<1> DEFINE attached == Attach(candidates, scores)
           hits     == Take(attached, query.limit)
<1>2. /\ query # Absent /\ query.stage = "rerank" /\ setup.reranker # "none"
      /\ UNCHANGED <<setup, worldVars>>
      /\ query' = [query EXCEPT !.stage = "stale", !.hits = hits]
  BY <1>1 DEF Rerank, Step
<1>3. CallOK(query) /\ query \in CallSet /\ query.hits \in Seq(HitSet) /\ StateOK
  BY <1>2 DEF SearchInv, CallOK, CallSet
<1>4. Candidates \in Nat /\ query.limit \in Nat /\ PrefetchLimit \in Nat
  BY <1>3, NumbersType
<1> DEFINE Main == {hit \in HitSet : hit.at = "main"}
<1>5. query.hits \in Seq(Main)
  <2>1. \A i \in 1..Len(query.hits) : query.hits[i] \in Main
    BY <1>3 DEF CallOK, Judged
  <2> HIDE DEF Main
  <2> QED
    BY <1>3, <2>1
<1> HIDE DEF Main
<1>6. /\ candidates \in Seq(Main) /\ Len(candidates) \in 0..Len(query.hits)
      /\ Len(candidates) >= Candidates \/ Len(candidates) = Len(query.hits)
  BY <1>4, <1>5, TakeMeaning
<1> HIDE DEF candidates
<1>7. attached \in Seq(Main) /\ Len(attached) = Len(candidates)
  BY <1>6, AttachMeaning
<1> HIDE DEF attached
<1>8. /\ hits \in Seq(Main) /\ Len(hits) \in 0..Len(attached)
      /\ Len(hits) >= query.limit \/ Len(hits) = Len(attached)
  BY <1>4, <1>7, TakeMeaning
<1> HIDE DEF hits
<1>9. /\ hits \in Seq(HitSet)
      /\ \A i \in 1..Len(hits) : hits[i].at = "main"
  BY <1>8 DEF Main
<1>10. ASSUME Owed(query)
       PROVE  \E bound \in Bounds(query) : Len(hits) >= bound
  <2> DEFINE m == Cardinality(Matching(query))
  <2>1. m \in Nat
    BY <1>3, MatchingType
  <2>2. /\ DepthFor(query) = query.limit \/ DepthFor(query) = Candidates
        /\ Bounds(query) = {m, query.limit, PrefetchLimit, Candidates}
    BY <1>2 DEF DepthFor, Bounds
  <2> HIDE DEF m
  <2>3. \/ Len(query.hits) >= query.limit \/ Len(query.hits) >= Candidates
        \/ Len(query.hits) >= PrefetchLimit \/ Len(query.hits) >= m
    BY <1>2, <1>3, <1>10, <2>2 DEF CallOK, Enough, m
  <2>4. Len(query.hits) \in Nat
    BY <1>3
  <2>5. \/ Len(hits) >= query.limit \/ Len(hits) >= Candidates
        \/ Len(hits) >= PrefetchLimit \/ Len(hits) >= m
    BY <1>4, <1>6, <1>7, <1>8, <2>1, <2>3, <2>4
  <2> QED
    BY <2>2, <2>5
<1>11. "stale" \in Stages \ {"text"}
  BY DEF Stages
<1> QED
  BY <1>2, <1>9, <1>10, <1>11, StepKeeps

LEMMA KeepOrderKeeps ==
  ASSUME SearchInv, KeepOrder
  PROVE  SearchInv'
<1> DEFINE hits == Take(query.hits, query.limit)
<1>1. /\ query # Absent /\ query.stage = "rerank" /\ UNCHANGED <<setup, worldVars>>
      /\ query' = [query EXCEPT !.stage = "stale", !.hits = hits]
  BY DEF KeepOrder, Step
<1>2. CallOK(query) /\ query \in CallSet /\ query.hits \in Seq(HitSet) /\ StateOK
  BY <1>1 DEF SearchInv, CallOK, CallSet
<1>3. Candidates \in Nat /\ query.limit \in Nat /\ PrefetchLimit \in Nat
  BY <1>2, NumbersType
<1>4. /\ hits \in Seq(HitSet) /\ Len(hits) \in 0..Len(query.hits)
      /\ Len(hits) >= query.limit \/ Len(hits) = Len(query.hits)
      /\ \A i \in 1..Len(hits) : hits[i] = query.hits[i]
  BY <1>2, <1>3, TakeMeaning
<1> HIDE DEF hits
<1>5. \A i \in 1..Len(hits) : hits[i].at = "main"
  <2> TAKE i \in 1..Len(hits)
  <2>1. i \in 1..Len(query.hits)
    BY <1>2, <1>4
  <2> QED
    BY <1>2, <1>4, <2>1 DEF CallOK, Judged
<1>6. ASSUME Owed(query)
      PROVE  \E bound \in Bounds(query) : Len(hits) >= bound
  <2> DEFINE m == Cardinality(Matching(query))
  <2>1. /\ {m, query.limit, PrefetchLimit} \subseteq Bounds(query)
        /\ DepthFor(query) \in Bounds(query)
    BY DEF Bounds, DepthFor
  <2>2. PICK bound \in {DepthFor(query), PrefetchLimit, m} : Len(query.hits) >= bound
    BY <1>1, <1>2, <1>6 DEF CallOK, Enough
  <2> HIDE DEF m
  <2> QED
    BY <1>4, <2>1, <2>2
<1>7. "stale" \in Stages \ {"text"}
  BY DEF Stages
<1> QED
  BY <1>1, <1>4, <1>5, <1>6, <1>7, StepKeeps

\* What is not flagged was in the file as it is now, which the call has seen.
LEMMA MarkStaleKeeps ==
  ASSUME SearchInv, MarkStale
  PROVE  SearchInv'
<1> DEFINE now(hit)    == disk["main"][hit.chunk[1]]
           judged(hit) == [hit EXCEPT !.stale =
                             /\ hit.chunk[1] \notin Unjudgeable \/ now(hit) = Absent
                             /\ hit.chunk \notin ChunksIn(hit.chunk[1], now(hit))]
           hits        == [i \in DOMAIN query.hits |-> judged(query.hits[i])]
<1>1. /\ query # Absent /\ query.stage = "stale" /\ UNCHANGED <<setup, worldVars>>
      /\ query' = [query EXCEPT !.stage = "lens", !.hits = hits]
  BY DEF MarkStale, Step
<1>2. CallOK(query) /\ query \in CallSet /\ query.hits \in Seq(HitSet)
  BY <1>1 DEF SearchInv, CallOK, CallSet
<1>3. ASSUME NEW hit \in HitSet, hit.at = "main"
      PROVE  /\ judged(hit) \in HitSet /\ judged(hit).at = "main"
             /\ Fresh(judged(hit), query)
  <2>1. hit.chunk[1] \in Paths /\ "main" \in Checkouts
    BY SearchAssumption DEF HitSet, Checkouts
  <2>2. HeldIn("main", hit.chunk[1], now(hit)) \subseteq query.held
    BY <1>2, <2>1 DEF CallOK, Watching
  <2>3. /\ judged(hit) \in HitSet /\ judged(hit).at = "main"
        /\ judged(hit).chunk = hit.chunk
        /\ judged(hit).stale <=> /\ hit.chunk[1] \notin Unjudgeable \/ now(hit) = Absent
                                 /\ hit.chunk \notin ChunksIn(hit.chunk[1], now(hit))
    BY <1>3 DEF HitSet
  <2>4. hit.chunk \in ChunksIn(hit.chunk[1], now(hit)) => <<"main", hit.chunk>> \in query.held
    BY <2>2 DEF HeldIn
  <2> QED
    BY <2>3, <2>4 DEF Fresh
<1>4. /\ DOMAIN query.hits = 1..Len(query.hits) /\ Len(query.hits) \in Nat
      /\ \A i \in 1..Len(query.hits) : query.hits[i] \in HitSet /\ query.hits[i].at = "main"
  BY <1>2 DEF CallOK, Judged
<1> HIDE DEF judged
<1>5. /\ hits \in Seq(HitSet) /\ Len(hits) = Len(query.hits)
      /\ \A i \in 1..Len(hits) : hits[i].at = "main" /\ Fresh(hits[i], query)
  BY <1>3, <1>4
<1>6. Owed(query) =>
        \E bound \in Bounds(query) : Len(query.hits) >= bound
  BY <1>1, <1>2 DEF CallOK, Enough
<1>7. "lens" \in Stages \ {"text"}
  BY DEF Stages
<1> HIDE DEF hits
<1> QED
  BY <1>1, <1>5, <1>6, <1>7, StepKeeps

LEMMA SearchKeeps == SearchInv /\ [SearchNext]_searchVars => SearchInv'
<1> SUFFICES ASSUME SearchInv, [SearchNext]_searchVars PROVE SearchInv'
  OBVIOUS
<1>1. ASSUME query' = Absent, UNCHANGED <<setup, worldVars>>
      PROVE  SearchInv'
  BY <1>1 DEF SearchInv, StateOK, worldVars
<1>2. CASE Lens \/ NoLens
  BY <1>1, <1>2 DEF Lens, NoLens, Respond
<1>3. CASE CallRaises
  BY <1>1, <1>3 DEF CallRaises
<1>4. CASE UNCHANGED searchVars
  BY <1>4 DEF searchVars, worldVars, SearchInv, StateOK, CallOK, Watching, Judged, Fresh,
              Enough, Owed, Matching, Bounds, DepthFor
<1> QED
  BY <1>2, <1>3, <1>4, WorldActionsKeep, AskKeeps, QdrantSearchKeeps, MongoSearchKeeps,
     RankFusionKeeps, NoRankFusionKeeps, DenseBranchKeeps, TextBranchKeeps,
     ChunksForPathKeeps, RerankKeeps, KeepOrderKeeps, MarkStaleKeeps DEF SearchNext

-----------------------------------------------------------------------------
(* The response.                                                           *)

\* A hit that may be shown with the flag it has.
Honest(hit, request) ==
  \/ hit.stale
  \/ <<hit.at, hit.chunk>> \in request.held
  \/ hit.chunk[1] \in Unjudgeable
  \/ hit.at = "tree" /\ hit.chunk[1] \in request.dirty \cup request.moved \cup Quoted

LEMMA RespondMeaning ==
  ASSUME SearchInv, query # Absent, query.stage = "lens",
         NEW hits \in Seq(HitSet), Len(hits) = Len(query.hits), Respond(hits),
         \A i \in 1..Len(hits) : Honest(hits[i], query)
  PROVE  /\ UnflaggedIsCurrent'
         /\ AnswerIsFull'
         /\ ResponseFits'
<1> DEFINE results == Pack(hits, query.bodies)
<1>1. /\ answer' = [hits |-> hits, results |-> results, call |-> query]
      /\ setup' = setup
  BY DEF Respond
<1>2. CallOK(query) /\ query \in CallSet /\ query.bodies \in BOOLEAN
  BY DEF SearchInv, CallOK, CallSet
<1>3. /\ results \in Seq(HitSet) /\ Len(results) <= Len(hits)
      /\ Len(hits) > 0 => Len(results) > 0
      /\ \A i \in 1..Len(results) :
           results[i] = [hits[i] EXCEPT !.truncated = results[i].truncated]
      /\ \A i \in 1..Len(results) :
           results[i].truncated => i = Len(results) /\ query.bodies
      /\ \/ Spent(results, query.bodies) <= MaxTokens
         \/ Len(results) = 1 /\ ~query.bodies
  BY <1>2, PackMeaning
<1> HIDE DEF results
<1>4. /\ answer'.hits = hits /\ answer'.results = results /\ answer'.call = query
  BY <1>1
<1>5. /\ DOMAIN results = 1..Len(results) /\ Len(results) \in Nat /\ Len(hits) \in Nat
      /\ \A i \in 1..Len(results) : i \in 1..Len(hits) /\ hits[i] \in HitSet
  BY <1>3
<1>6. ASSUME NEW i \in 1..Len(results)
      PROVE  /\ results[i].chunk = hits[i].chunk /\ results[i].at = hits[i].at
             /\ results[i].stale = hits[i].stale
  <2>1. results[i] = [hits[i] EXCEPT !.truncated = results[i].truncated] /\ hits[i] \in HitSet
    BY <1>3, <1>5
  <2> QED
    BY <2>1 DEF HitSet
<1>7. UnflaggedIsCurrent'
  <2>1. \A i \in 1..Len(results) : Honest(results[i], query)
    BY <1>5, <1>6 DEF Honest
  <2> QED
    BY <1>4, <1>5, <2>1 DEF UnflaggedIsCurrent, Honest
<1>8. AnswerIsFull'
  <2>1. Owed(query) =>
          \E bound \in Bounds(query) : Len(hits) >= bound
    BY <1>2 DEF CallOK, Enough
  <2> QED
    BY <1>1, <1>4, <2>1 DEF AnswerIsFull, Bounds, Matching, Owed
<1>9. ResponseFits'
  <2>1. hits # <<>> => results # <<>>
    BY <1>3, <1>5
  <2> QED
    BY <1>3, <1>4, <1>5, <1>6, <2>1 DEF ResponseFits
<1> QED
  BY <1>7, <1>8, <1>9

\* Where the worktree's copy is not marked, it is the main checkout's: HEAD
\* is what both of them hold, unless the main checkout's was not committed, or
\* git gave the file another name than its own.
LEMMA LensIsHonest ==
  ASSUME SearchInv, Lens \/ NoLens
  PROVE  /\ UnflaggedIsCurrent'
         /\ AnswerIsFull'
         /\ ResponseFits'
<1>1. query # Absent /\ query.stage = "lens"
  BY DEF Lens, NoLens
<1>2. CallOK(query) /\ query \in CallSet /\ query.hits \in Seq(HitSet)
  BY <1>1 DEF SearchInv, CallOK, CallSet
<1>3. /\ DOMAIN query.hits = 1..Len(query.hits) /\ Len(query.hits) \in Nat
      /\ \A i \in 1..Len(query.hits) : /\ query.hits[i] \in HitSet
                                       /\ query.hits[i].at = "main"
                                       /\ Fresh(query.hits[i], query)
  BY <1>1, <1>2 DEF CallOK, Judged
<1>4. CASE NoLens
  <2>1. \A i \in 1..Len(query.hits) : Honest(query.hits[i], query)
    BY <1>3 DEF Fresh, Honest
  <2> QED
    BY <1>1, <1>2, <1>4, <2>1, RespondMeaning DEF NoLens
<1>5. CASE Lens
  <2>0. PICK diverged \in Diverged :
          Respond([i \in DOMAIN query.hits |->
                     [query.hits[i] EXCEPT !.at = "tree",
                        !.stale = query.hits[i].stale \/ query.hits[i].chunk[1] \in diverged]])
    BY <1>5 DEF Lens
  <2> DEFINE seen(hit) == [hit EXCEPT !.at = "tree",
                                      !.stale = hit.stale \/ hit.chunk[1] \in diverged]
             hits      == [i \in DOMAIN query.hits |-> seen(query.hits[i])]
  <2>1. Respond(hits)
    BY <2>0
  <2>4. \A p \in Paths \ Quoted :
          p \notin diverged /\ p \notin query.moved => disk["tree"][p] = head["main"][p]
    <3>1. PICK gone \in Renames(head["main"], disk["tree"]) :
            diverged = {p \in Paths \ Quoted : head["main"][p] # disk["tree"][p]} \ gone
      BY <2>0 DEF Diverged
    <3>2. gone \subseteq Renamed(head["main"], disk["tree"])
      BY <3>1 DEF Renames
    <3>3. Renamed(head["main"], disk["tree"]) \subseteq query.moved
      BY <1>2 DEF CallOK, Watching
    <3> QED
      BY <3>1, <3>2, <3>3
  <2>2. ASSUME NEW hit \in HitSet, hit.at = "main", Fresh(hit, query)
        PROVE  seen(hit) \in HitSet /\ Honest(seen(hit), query)
    <3> DEFINE p == hit.chunk[1]
    <3>1. p \in Paths /\ "tree" \in Checkouts
      BY SearchAssumption DEF HitSet, Checkouts
    <3>2. /\ seen(hit) \in HitSet /\ seen(hit).at = "tree" /\ seen(hit).chunk = hit.chunk
          /\ seen(hit).stale <=> hit.stale \/ p \in diverged
      BY <3>1 DEF HitSet
    <3>3. CASE /\ ~hit.stale /\ p \notin diverged /\ p \notin Unjudgeable
               /\ p \notin query.dirty \cup query.moved \cup Quoted
      <4>1. hit.chunk \in ChunksIn(p, disk["main"][p])
        BY <2>2, <3>3 DEF Fresh
      <4>2. disk["tree"][p] = head["main"][p]
        BY <2>4, <3>1, <3>3
      <4>3. disk["main"][p] = head["main"][p]
        BY <1>2, <3>1, <3>3 DEF CallOK, Watching
      <4>4. HeldIn("tree", p, disk["tree"][p]) \subseteq query.held
        BY <1>2, <3>1 DEF CallOK, Watching
      <4>5. <<"tree", hit.chunk>> \in query.held
        BY <4>1, <4>2, <4>3, <4>4 DEF HeldIn
      <4> QED
        BY <3>2, <4>5 DEF Honest
    <3>4. CASE ~ (/\ ~hit.stale /\ p \notin diverged /\ p \notin Unjudgeable
                  /\ p \notin query.dirty \cup query.moved \cup Quoted)
      BY <3>2, <3>4 DEF Honest
    <3> QED
      BY <3>2, <3>3, <3>4
  <2> HIDE DEF seen
  <2>3. /\ hits \in Seq(HitSet) /\ Len(hits) = Len(query.hits)
        /\ \A i \in 1..Len(hits) : Honest(hits[i], query)
    BY <1>3, <2>2
  <2> HIDE DEF hits
  <2> QED
    BY <1>1, <2>1, <2>3, RespondMeaning
<1> QED
  BY <1>4, <1>5

LEMMA AnswersStay ==
  ASSUME SearchInv, SearchNext, ~(Lens \/ NoLens)
  PROVE  answer' = Absent \/ (answer' = answer /\ setup' = setup)
<1>1. CASE \E c \in Checkouts, p \in Paths, v \in Versions \cup {Absent} : Write(c, p, v)
  BY <1>1 DEF Write, World
<1>2. CASE \E c \in Checkouts : Commit(c)
  BY <1>2 DEF Commit, World
<1>3. CASE AddTree \/ Build \/ \E p \in Paths : Reindex(p)
  BY <1>3 DEF AddTree, Build, Reindex, World
<1>4. CASE AskAny
  BY <1>4 DEF AskAny, Ask
<1>5. CASE QdrantSearch \/ MongoSearch \/ RankFusion \/ NoRankFusion \/ TextBranch
  BY <1>5 DEF QdrantSearch, MongoSearch, RankFusion, NoRankFusion, TextBranch, Step
<1>6. CASE DenseBranch \/ CallRaises
  BY <1>6 DEF DenseBranch, CallRaises
<1>7. CASE ChunksForPath \/ Rerank \/ KeepOrder \/ MarkStale
  BY <1>7 DEF ChunksForPath, Rerank, KeepOrder, MarkStale, Step
<1> QED
  BY <1>1, <1>2, <1>3, <1>4, <1>5, <1>6, <1>7 DEF SearchNext

LEMMA AnswersKeep ==
  /\ SearchInit => UnflaggedIsCurrent /\ AnswerIsFull /\ ResponseFits
  /\ SearchInv /\ UnflaggedIsCurrent /\ [SearchNext]_searchVars => UnflaggedIsCurrent'
  /\ SearchInv /\ AnswerIsFull /\ [SearchNext]_searchVars => AnswerIsFull'
  /\ SearchInv /\ ResponseFits /\ [SearchNext]_searchVars => ResponseFits'
<1>1. SearchInit => UnflaggedIsCurrent /\ AnswerIsFull /\ ResponseFits
  BY DEF SearchInit, UnflaggedIsCurrent, AnswerIsFull, ResponseFits
<1>2. ASSUME SearchInv, [SearchNext]_searchVars
      PROVE  \/ Lens \/ NoLens
             \/ answer' = Absent
             \/ answer' = answer /\ setup' = setup
  BY <1>2, AnswersStay DEF searchVars
<1>3. ASSUME answer' = answer, setup' = setup
      PROVE  /\ UnflaggedIsCurrent => UnflaggedIsCurrent'
             /\ AnswerIsFull => AnswerIsFull'
             /\ ResponseFits => ResponseFits'
  BY <1>3 DEF UnflaggedIsCurrent, AnswerIsFull, ResponseFits
<1>4. ASSUME answer' = Absent
      PROVE  UnflaggedIsCurrent' /\ AnswerIsFull' /\ ResponseFits'
  BY <1>4 DEF UnflaggedIsCurrent, AnswerIsFull, ResponseFits
<1> QED
  BY <1>1, <1>2, <1>3, <1>4, LensIsHonest

LEMMA SearchInvHolds == SearchSpec => []SearchInv
BY SearchStarts, SearchKeeps, PTL DEF SearchSpec

(* A result that carries no flag could be opened where it says, and held   *)
(* the text it was matched by, at some moment of the call: for any files,  *)
(* any number of edits, commits and index runs between any two awaits,     *)
(* whatever the store and the reranker answered and whichever pairs git    *)
(* took for renames.  Excepted are files that cannot be re-read and, of    *)
(* the worktree's copies, those of files that the main checkout had        *)
(* changed, that git may have taken for renamed away, or whose names it    *)
(* quotes.                                                                 *)
(* (mark_stale, WorktreeLens.apply, DivergenceScanner.diverged)            *)
THEOREM UnflaggedIsCurrentHolds == SearchSpec => []UnflaggedIsCurrent
BY SearchInvHolds, AnswersKeep, PTL DEF SearchSpec

(* An answer that holds fewer hits than the limit, the depth of a branch   *)
(* and the reranker's cap allow holds as many as there are chunks that     *)
(* match and that were in the collection throughout the call: for any      *)
(* ranking, any filter and either backend, once the vector index is ready  *)
(* when the call is made, be the text index ready or not.                  *)
(* (search, _hybrid, _client_side_fusion, rerank)                          *)
THEOREM AnswerIsFullHolds == SearchSpec => []AnswerIsFull
BY SearchInvHolds, AnswersKeep, PTL DEF SearchSpec

(* A response keeps to its budget and flags what it cut, for any budget,   *)
(* any floor, any costs and any number of hits.  (ResultBudget.pack)       *)
THEOREM ResponseFitsHolds == SearchSpec => []ResponseFits
BY SearchInvHolds, AnswersKeep, PTL DEF SearchSpec

-----------------------------------------------------------------------------
(* Types.                                                                  *)

LEMMA SearchTypeKeeps ==
  SearchInv /\ SearchInv' /\ SearchTypeOK /\ [SearchNext]_searchVars => SearchTypeOK'
<1> SUFFICES ASSUME SearchInv, SearchInv', SearchTypeOK, [SearchNext]_searchVars
             PROVE  SearchTypeOK'
  OBVIOUS
<1> DEFINE Call  == query # Absent =>
                      /\ query.stage = "text" => rankFusion = "no"
                      /\ query.hits # <<>> => query.stage \in {"rerank", "stale", "lens"}
           Said  == answer # Absent => query = Absent \/ answer.call.stage = "lens"
           Tries == /\ rankFusion \in {"unknown", "yes", "no"}
                    /\ rankFusion # "unknown" =>
                         setup.backend = "mongo" /\ setup.fusion = "hybrid"
           Rest  == /\ hasTree \in BOOLEAN /\ built \subseteq Branches
                    /\ world \in 0..MaxWorld /\ queries \in 0..MaxQueries
<1>1. Call /\ Said /\ Tries /\ Rest /\ MaxWorld \in Nat /\ MaxQueries \in Nat
  BY SearchAssumption DEF SearchTypeOK
<1>2. SUFFICES (Call /\ Said /\ Tries /\ Rest)'
  BY <1>2 DEF SearchTypeOK, SearchInv, StateOK, Trees, CallOK, CallSet, Stages
<1>3. ASSUME World, hasTree' \in BOOLEAN, built' \subseteq Branches
      PROVE  (Call /\ Said /\ Tries /\ Rest)'
  <2>1. /\ world' \in 0..MaxWorld /\ queries' = queries /\ rankFusion' = rankFusion
        /\ setup' = setup /\ answer' = answer
    BY <1>1, <1>3 DEF World
  <2>2. CASE query = Absent
    BY <1>1, <1>3, <2>1, <2>2 DEF World, Witness
  <2>3. CASE query # Absent
    <3>1. query \in CallSet
      BY <2>3 DEF SearchInv, CallOK
    <3>2. query'.stage = query.stage /\ query'.hits = query.hits
      BY <1>3, <2>3, <3>1 DEF World, Witness, CallSet
    <3> QED
      BY <1>1, <1>3, <2>1, <2>3, <3>2
  <2> QED
    BY <2>2, <2>3
<1>4. ASSUME AskAny
      PROVE  (Call /\ Said /\ Tries /\ Rest)'
  <2>1. PICK tool, path, limit, given, bodies : Ask(tool, path, limit, given, bodies)
    BY <1>4 DEF AskAny
  <2>2. query' = Absent \/ (query'.stage = "search" /\ query'.hits = <<>>)
    BY <2>1 DEF Ask
  <2>3. /\ queries' \in 0..MaxQueries /\ answer' = Absent
        /\ UNCHANGED <<setup, hasTree, built, world, rankFusion>>
    BY <1>1, <2>1 DEF Ask, worldVars
  <2> QED
    BY <1>1, <2>2, <2>3
<1>5. ASSUME query # Absent, NEW stage \in {"search", "rerank", "stale", "lens"}, NEW hits,
             stage = "search" => hits = <<>>, Step(stage, hits)
      PROVE  (Call /\ Said /\ Rest)' /\ setup' = setup
  <2>1. query \in CallSet
    BY <1>5 DEF SearchInv, CallOK
  <2>2. query'.stage = stage /\ query'.hits = hits
    BY <1>5, <2>1 DEF Step, CallSet
  <2>3. UNCHANGED <<setup, answer, hasTree, built, world, queries>>
    BY <1>5 DEF Step, worldVars
  <2> QED
    BY <1>1, <1>5, <2>2, <2>3
<1>6. ASSUME query # Absent, DenseBranch
      PROVE  (Call /\ Said /\ Tries /\ Rest)'
  <2>1. query \in CallSet /\ query.stage = "search" /\ rankFusion = "no"
    BY <1>6 DEF SearchInv, CallOK, DenseBranch, Hybrid, Searching
  <2>2. query'.stage = "text" /\ query'.hits = query.hits /\ query.hits = <<>>
    BY <1>1, <1>6, <2>1 DEF DenseBranch, CallSet
  <2>3. UNCHANGED <<setup, answer, hasTree, built, world, queries, rankFusion>>
    BY <1>6 DEF DenseBranch, worldVars
  <2> QED
    BY <1>1, <1>6, <2>1, <2>2, <2>3
<1>7. ASSUME Lens \/ NoLens
      PROVE  (Call /\ Said /\ Tries /\ Rest)'
  <2>1. PICK hits : Respond(hits)
    BY <1>7 DEF Lens, NoLens
  <2> QED
    BY <1>1, <2>1 DEF Respond, worldVars
<1>8. ASSUME QdrantSearch \/ MongoSearch \/ TextBranch \/ ChunksForPath
             \/ Rerank \/ KeepOrder \/ MarkStale
      PROVE  (Call /\ Said /\ Tries /\ Rest)'
  <2>1. /\ query # Absent /\ rankFusion' = rankFusion
        /\ \E stage \in {"rerank", "stale", "lens"} : \E hits : Step(stage, hits)
    <3>1. CASE QdrantSearch \/ MongoSearch \/ TextBranch
      BY <3>1 DEF QdrantSearch, MongoSearch, TextBranch, Searching
    <3>2. CASE ChunksForPath \/ Rerank \/ KeepOrder \/ MarkStale
      BY <3>2 DEF ChunksForPath, Rerank, KeepOrder, MarkStale
    <3> QED
      BY <1>8, <3>1, <3>2
  <2> QED
    BY <1>1, <1>5, <2>1
<1>9. ASSUME RankFusion \/ NoRankFusion
      PROVE  (Call /\ Said /\ Tries /\ Rest)'
  <2>1. /\ query # Absent /\ setup.backend = "mongo" /\ setup.fusion = "hybrid"
        /\ rankFusion' \in {"yes", "no"}
        /\ \E stage \in {"search", "rerank"} : \E hits :
             Step(stage, hits) /\ (stage = "search" => hits = <<>>)
    BY <1>9 DEF RankFusion, NoRankFusion, Hybrid, Searching
  <2>2. (Call /\ Said /\ Rest)' /\ setup' = setup
    BY <1>5, <2>1
  <2> QED
    BY <2>1, <2>2
<1>10. ASSUME CallRaises \/ UNCHANGED searchVars
       PROVE  (Call /\ Said /\ Tries /\ Rest)'
  BY <1>1, <1>10 DEF CallRaises, searchVars, worldVars
<1>11. ASSUME \/ \E c \in Checkouts, p \in Paths, v \in Versions \cup {Absent} : Write(c, p, v)
              \/ \E c \in Checkouts : Commit(c)
              \/ AddTree
              \/ \E p \in Paths : Reindex(p)
              \/ Build
       PROVE  World /\ hasTree' \in BOOLEAN /\ built' \subseteq Branches
  BY <1>1, <1>11 DEF Write, Commit, AddTree, Reindex, Build
<1> QED
  BY <1>3, <1>4, <1>6, <1>7, <1>8, <1>9, <1>10, <1>11
     DEF SearchNext, DenseBranch, Hybrid, Searching

(* What a call keeps between two awaits has its types, and the stage it is *)
(* at says which of it is there: hits after a branch was fused, and a      *)
(* second aggregation of Mongo only in a process that found $rankFusion    *)
(* missing.  (SearchService.search, MongoStore._client_side_fusion)        *)
THEOREM SearchTypes == SearchSpec => []SearchTypeOK
<1>1. SearchInit => SearchTypeOK
  <2> SUFFICES ASSUME SearchInit PROVE SearchTypeOK
    OBVIOUS
  <2>1. disk \in Trees /\ head \in Trees /\ indexed \in SUBSET Chunks
    BY SearchStarts DEF SearchInv, StateOK
  <2>2. world \in 0..MaxWorld /\ queries \in 0..MaxQueries
    BY SearchAssumption DEF SearchInit
  <2>3. hasTree \in BOOLEAN /\ built \subseteq Branches
    BY DEF SearchInit
  <2>4. rankFusion = "unknown" /\ query = Absent /\ answer = Absent
    BY DEF SearchInit
  <2> QED
    BY <2>1, <2>2, <2>3, <2>4 DEF SearchTypeOK, Trees
<1> QED
  BY <1>1, SearchInvHolds, SearchTypeKeeps, PTL DEF SearchSpec

=============================================================================
