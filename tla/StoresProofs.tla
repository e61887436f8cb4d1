----------------------------- MODULE StoresProofs -----------------------------
(***************************************************************************)
(* Theorems about Stores, for any files, chunks and page size, and any     *)
(* number of edits, switches, copies and crashes.                          *)
(***************************************************************************)
EXTENDS Stores, FiniteSetTheorems, WellFoundedInduction, TLAPS

-----------------------------------------------------------------------------
(* A page of the scroll.                                                   *)

LEMMA LeastExists ==
  ASSUME NEW I, I \subseteq Nat, I # {}
  PROVE  \E x \in I : \A y \in I : x <= y
<1> DEFINE R == OpToRel(<, Nat)
<1>1. IsWellFoundedOn(R, Nat)
  BY NatLessThanWellFounded
<1>2. \A x, y \in Nat : y < x => <<y, x>> \in R
  BY DEF OpToRel
<1> HIDE DEF R
<1>3. PICK x \in I : \A y \in I : ~ (<<y, x>> \in R)
  BY <1>1, WFMin
<1>4. ASSUME NEW y \in I PROVE x <= y
  <2>1. x \in Nat /\ y \in Nat
    OBVIOUS
  <2>2. ~ (y < x)
    BY <1>2, <1>3, <2>1
  <2> QED
    BY <2>1, <2>2
<1> QED
  BY <1>4

LEMMA GreatestExists ==
  ASSUME NEW n \in Nat, NEW I, I \subseteq 0..n, I # {}
  PROVE  \E x \in I : \A y \in I : y <= x
<1> DEFINE D == {n - i : i \in I}
<1>0. \A i \in I : i \in Int /\ 0 <= i /\ i <= n
  OBVIOUS
<1>1. D \subseteq Nat /\ D # {}
  <2>1. ASSUME NEW d \in D PROVE d \in Nat
    <3>1. PICK i \in I : d = n - i
      OBVIOUS
    <3> QED
      BY <1>0, <3>1
  <2> QED
    BY <2>1
<1> HIDE DEF D
<1>2. PICK d \in D : \A e \in D : d <= e
  BY <1>1, LeastExists
<1>3. PICK x \in I : d = n - x
  BY DEF D
<1>4. ASSUME NEW y \in I PROVE y <= x
  <2>1. n - y \in D
    BY DEF D
  <2>2. n - x <= n - y
    BY <1>2, <1>3, <2>1
  <2> QED
    BY <1>0, <2>2
<1> QED
  BY <1>4

\* The position a scroll stops at is the last of a page that skips nothing.
LEMMA PageSkipsNothing ==
  ASSUME StoresTypeOK, copying # Missing, Ahead # {}
  PROVE  LET m == CHOOSE i \in NextPage : \A j \in NextPage : j <= i
         IN  /\ m \in copying.at + 1..Len(IdOrder)
             /\ NextPage = {i \in Ahead : i <= m}
<1> DEFINE m == CHOOSE i \in NextPage : \A j \in NextPage : j <= i
           before(i) == {j \in Ahead : j < i}
<1>1. copying.at \in 0..Len(IdOrder) /\ Len(IdOrder) \in Nat /\ PageSize \in Nat \ {0}
  BY StoresAssumption DEF StoresTypeOK, Copy
<1>2. Ahead \subseteq copying.at + 1..Len(IdOrder) /\ Ahead \subseteq 0..Len(IdOrder)
  BY <1>1 DEF Ahead
<1>3. IsFiniteSet(Ahead)
  <2>1. IsFiniteSet(0..Len(IdOrder))
    BY <1>1, FS_Interval
  <2> QED
    BY <1>2, <2>1, FS_Subset
<1>0. Ahead \subseteq Nat
  BY <1>1, <1>2
<1>4. NextPage = {i \in Ahead : Cardinality(before(i)) < PageSize}
  BY DEF NextPage
<1>5. NextPage # {}
  <2>1. PICK i \in Ahead : \A j \in Ahead : i <= j
    BY <1>0, LeastExists
  <2>3. \A j \in Ahead : ~ (j < i)
    BY <1>0, <2>1
  <2>2. before(i) = {}
    BY <2>3
  <2> QED
    BY <1>1, <1>4, <2>2, FS_EmptySet
<1>6. \E i \in NextPage : \A j \in NextPage : j <= i
  BY <1>1, <1>2, <1>4, <1>5, GreatestExists
<1>7. m \in NextPage /\ \A j \in NextPage : j <= m
  BY <1>6
<1> HIDE DEF m
<1>8. ASSUME NEW i \in Ahead, i <= m PROVE i \in NextPage
  <2>0. m \in Ahead
    BY <1>4, <1>7
  <2>6. \A j \in Ahead : j < i => j < m
    BY <1>0, <1>8, <2>0
  <2>1. before(i) \subseteq before(m) /\ before(m) \subseteq Ahead
    BY <2>6
  <2>2. IsFiniteSet(before(m))
    BY <1>3, <2>1, FS_Subset
  <2>3. /\ Cardinality(before(i)) <= Cardinality(before(m)) /\ IsFiniteSet(before(i))
    BY <2>1, <2>2, FS_Subset
  <2>4. Cardinality(before(i)) \in Nat /\ Cardinality(before(m)) \in Nat
    BY <2>2, <2>3, FS_CardinalityType
  <2>5. Cardinality(before(m)) < PageSize
    BY <1>4, <1>7
  <2> HIDE DEF before
  <2> QED
    BY <1>1, <1>4, <2>3, <2>4, <2>5
<1>9. m \in Ahead
  BY <1>4, <1>7
<1>10. NextPage = {i \in Ahead : i <= m}
  BY <1>4, <1>7, <1>8
<1> QED
  BY <1>2, <1>9, <1>10 DEF m

-----------------------------------------------------------------------------
(* Types.                                                                  *)

LEMMA SeenTyped ==
  ASSUME copying \in Copy \cup {Missing}, NEW b, NEW s, NEW now \in SUBSET Ids
  PROVE  Seen(b, s, now) \in Copy \cup {Missing}
BY DEF Seen, Copy

LEMMA PointsTyped ==
  ASSUME StoresTypeOK, NEW b \in Backends, NEW s \in Spaces, NEW now \in SUBSET Ids,
         SetPoints(b, s, now)
  PROVE  /\ points' \in [Backends -> [Spaces -> SUBSET Ids]]
         /\ copying' \in Copy \cup {Missing}
BY SeenTyped DEF StoresTypeOK, SetPoints

\* What is done for the file in hand is done to its own chunks.
HandInv == held # Missing => held.stale \cup held.produced \subseteq IdsOf(held.file)

LEMMA TypeStep ==
  StoresTypeOK /\ HandInv /\ [StoresNext]_storesVars => StoresTypeOK'
<1> SUFFICES ASSUME StoresTypeOK, HandInv, [StoresNext]_storesVars PROVE StoresTypeOK'
  OBVIOUS
<1> USE StoresAssumption DEF StoresTypeOK, outside, manifest, bounds
<1>1. Here \in SUBSET Ids /\ space \in Spaces /\ "home" \in Backends
  BY DEF Here, Backends
<1>2. ASSUME NEW f \in Files, NEW r \in Revisions \cup {Missing}, Change(f, r)
      PROVE  StoresTypeOK'
  BY <1>2 DEF Change
<1>3. ASSUME NEW s \in Spaces, SwitchSpace(s) PROVE StoresTypeOK'
  BY <1>3 DEF SwitchSpace
<1>4. ASSUME NEW f \in Files, Upsert(f) PROVE StoresTypeOK'
  <2> DEFINE produced == Produced(f, content[f])
             known    == chunkRows[space] \cap IdsOf(f)
  <2>1. content[f] \in Revisions /\ produced \in SUBSET Ids /\ known \in SUBSET Ids
    BY <1>1, <1>4 DEF Upsert, Needs
  <2>2. held' \in Hand
    BY <1>4, <2>1 DEF Upsert, Hand
  <2>3. SetPoints("home", space, Here \cup (produced \ known))
    BY <1>4 DEF Upsert
  <2>4. Here \cup (produced \ known) \in SUBSET Ids
    BY <1>1, <2>1
  <2>5. /\ points' \in [Backends -> [Spaces -> SUBSET Ids]]
        /\ copying' \in Copy \cup {Missing}
    BY <1>1, <2>3, <2>4, PointsTyped
  <2> QED
    BY <1>4, <2>2, <2>5 DEF Upsert
<1>5. ASSUME NEW f \in Files, RemovePoints(f) PROVE StoresTypeOK'
  <2>1. SetPoints("home", space, Here \ IdsOf(f)) /\ Here \ IdsOf(f) \in SUBSET Ids
    BY <1>1, <1>5 DEF RemovePoints
  <2>2. /\ points' \in [Backends -> [Spaces -> SUBSET Ids]]
        /\ copying' \in Copy \cup {Missing}
    BY <1>1, <2>1, PointsTyped
  <2> QED
    BY <1>5, <2>2 DEF RemovePoints
<1>6. CASE DeleteStale
  <2>1. held' \in Hand
    BY <1>6 DEF DeleteStale, Hand
  <2>2. SetPoints("home", space, Here \ held.stale) /\ Here \ held.stale \in SUBSET Ids
    BY <1>1, <1>6 DEF DeleteStale
  <2>3. /\ points' \in [Backends -> [Spaces -> SUBSET Ids]]
        /\ copying' \in Copy \cup {Missing}
    BY <1>1, <2>2, PointsTyped
  <2> QED
    BY <1>6, <2>1, <2>3 DEF DeleteStale
<1>7. CASE RecordFile
  <2>1. /\ held.file \in Files /\ held.revision \in Revisions
        /\ held.produced \subseteq Ids
    BY <1>7 DEF RecordFile, Hand
  <2>2. row' \in [Files -> Revisions \cup {Missing}] /\ marks' \in [Spaces -> SUBSET Files]
        /\ chunkRows' \in [Spaces -> SUBSET Ids]
    BY <1>7, <2>1 DEF RecordFile
  <2>3. \A f \in Files : row[f] # Missing \/ f = held.file => row'[f] # Missing
    BY <1>7, <2>1 DEF RecordFile
  <2>4. \A s \in Spaces : marks'[s] \subseteq marks[s] \cup {held.file}
    BY <1>7 DEF RecordFile
  <2>5. \A s \in Spaces : chunkRows'[s] \subseteq chunkRows[s] \cup held.produced
    BY <1>7 DEF RecordFile
  <2>6. copying' \in Copy \cup {Missing}
    BY <1>1, <1>7, SeenTyped DEF RecordFile
  <2>7. \A s \in Spaces : \A f \in marks'[s] : row'[f] # Missing
    BY <2>1, <2>3, <2>4
  <2>8. \A id \in held.produced : id[1] = held.file
    BY <1>7 DEF RecordFile, HandInv, IdsOf
  <2>9. \A s \in Spaces : \A id \in chunkRows'[s] : row'[id[1]] # Missing
    BY <2>1, <2>3, <2>5, <2>8
  <2> QED
    BY <1>7, <2>2, <2>6, <2>7, <2>9 DEF RecordFile
<1>8. CASE ForgetRow
  <2>1. copying' \in Copy \cup {Missing}
    BY <1>1, <1>8, SeenTyped DEF ForgetRow
  <2>2. \A s \in Spaces : \A id \in chunkRows'[s] : id[1] # victim
    BY <1>8 DEF ForgetRow, IdsOf
  <2> QED
    BY <1>8, <2>1, <2>2 DEF ForgetRow
<1>9. ASSUME NEW o \in BOOLEAN, StartMirror(o) PROVE StoresTypeOK'
  <2> DEFINE c == Command("mirror", <<"home", space>>, <<"other", space>>)
  <2>0. c \in Copy
    BY <1>1 DEF Command, Here, Copy, Backends
  <2>1. copying' \in Copy
    <3>1. copying' = [c EXCEPT !.fresh = o]
      BY <1>9 DEF StartMirror
    <3> HIDE DEF c
    <3> QED
      BY <2>0, <3>1 DEF Copy
  <2>2. points' \in [Backends -> [Spaces -> SUBSET Ids]]
    BY <1>9 DEF StartMirror
  <2> QED
    BY <1>9, <2>1, <2>2 DEF StartMirror
<1>10. CASE StartReproject
  <2>1. copying' \in Copy
    BY <1>1, <1>10 DEF StartReproject, Command, Here, Copy, Backends, Spaces
  <2> QED
    BY <1>10, <2>1 DEF StartReproject
<1>11. CASE Scroll
  <2> DEFINE m == CHOOSE i \in NextPage : \A j \in NextPage : j <= i
  <2>1. copying \in Copy /\ Ahead # {}
    BY <1>11 DEF Scroll
  <2>2. m \in copying.at + 1..Len(IdOrder) /\ NextPage \subseteq 1..Len(IdOrder)
    BY <1>11, <2>1, PageSkipsNothing DEF Scroll, Ahead, NextPage, Copy
  <2>3. copying' = [copying EXCEPT !.page = {IdOrder[i] : i \in NextPage}, !.at = m]
    BY <1>11 DEF Scroll
  <2>4. {IdOrder[i] : i \in NextPage} \subseteq Ids
    BY <2>2
  <2>6. m \in 0..Len(IdOrder)
    BY <2>1, <2>2, StoresAssumption DEF Copy
  <2> HIDE DEF m
  <2>5. copying' \in Copy
    BY <2>1, <2>3, <2>4, <2>6 DEF Copy
  <2> QED
    BY <1>11, <2>5 DEF Scroll
<1>12. CASE WritePage
  <2>1. copying' \in Copy
    BY <1>12 DEF WritePage, Copy
  <2>2. points' \in [Backends -> [Spaces -> SUBSET Ids]]
    BY <1>12 DEF WritePage, Copy
  <2> QED
    BY <1>12, <2>1, <2>2 DEF WritePage
<1>13. CASE EndScroll
  BY <1>13 DEF EndScroll, Copy
<1>14. CASE CopyChunkRows
  <2>1. copying' \in Copy
    BY <1>14 DEF CopyChunkRows, Copy
  <2>2. chunkRows' \in [Spaces -> SUBSET Ids]
        /\ \A s \in Spaces : chunkRows'[s] \subseteq chunkRows[s] \cup chunkRows["wide"]
    BY <1>14 DEF CopyChunkRows, Spaces
  <2> QED
    BY <1>14, <2>1, <2>2 DEF CopyChunkRows, Spaces
<1>15. CASE CopyFileRows
  <2>1. copying' \in Copy
    BY <1>15 DEF CopyFileRows, Copy
  <2>2. marks' \in [Spaces -> SUBSET Files]
        /\ \A s \in Spaces : marks'[s] \subseteq marks[s] \cup marks["wide"]
    BY <1>15 DEF CopyFileRows, Spaces
  <2> QED
    BY <1>15, <2>1, <2>2 DEF CopyFileRows, Spaces
<1>16. CASE EndCommand
  BY <1>16 DEF EndCommand
<1>17. CASE Kill
  BY <1>17 DEF Kill, Hand
<1>18. CASE UNCHANGED storesVars
  BY <1>18 DEF storesVars
<1> QED
  BY <1>2, <1>3, <1>4, <1>5, <1>6, <1>7, <1>8, <1>9, <1>10, <1>11, <1>12, <1>13, <1>14,
     <1>15, <1>16, <1>17, <1>18 DEF StoresNext

LEMMA HandStep == StoresTypeOK /\ HandInv /\ [StoresNext]_storesVars => HandInv'
<1> SUFFICES ASSUME StoresTypeOK, HandInv, [StoresNext]_storesVars PROVE HandInv'
  OBVIOUS
<1> USE DEF HandInv
<1>1. ASSUME NEW f \in Files, Upsert(f) PROVE HandInv'
  <2>1. content[f] \in Revisions
    BY <1>1 DEF Upsert, Needs, StoresTypeOK
  <2>2. Produced(f, content[f]) \subseteq IdsOf(f)
    BY <2>1, StoresAssumption DEF Produced, IdsOf
  <2>3. held'.file = f /\ held'.produced = Produced(f, content[f])
        /\ held'.stale \subseteq IdsOf(f)
    BY <1>1 DEF Upsert
  <2> QED
    BY <2>2, <2>3 DEF IdsOf
<1>2. CASE DeleteStale
  BY <1>2 DEF DeleteStale, StoresTypeOK, Hand, IdsOf
<1>3. CASE held' = Missing \/ held' = held
  BY <1>3 DEF IdsOf
<1> QED
  BY <1>1, <1>2, <1>3 DEF StoresNext, Change, SwitchSpace, RecordFile, RemovePoints,
     ForgetRow, StartMirror, StartReproject, Scroll, WritePage, EndScroll, CopyChunkRows,
     CopyFileRows, EndCommand, Kill, storesVars

LEMMA StoresInitTypes == StoresInit => StoresTypeOK /\ HandInv
<1> SUFFICES ASSUME StoresInit PROVE StoresTypeOK /\ HandInv
  OBVIOUS
<1>1. content \in [Files -> Revisions \cup {Missing}]
  BY StoresAssumption DEF StoresInit
<1>2. /\ row \in [Files -> Revisions \cup {Missing}]
      /\ marks \in [Spaces -> SUBSET Files] /\ \A s \in Spaces : marks[s] = {}
      /\ chunkRows \in [Spaces -> SUBSET Ids] /\ \A s \in Spaces : chunkRows[s] = {}
      /\ points \in [Backends -> [Spaces -> SUBSET Ids]]
  BY DEF StoresInit
<1> QED
  BY <1>1, <1>2, StoresAssumption DEF StoresInit, StoresTypeOK, HandInv, Spaces

(* Every variable keeps its type, and the manifest its foreign keys: a     *)
(* mark or a chunk row of any space is of a file that has a row, however   *)
(* indexing, removal, copies and kills are interleaved.                    *)
THEOREM StoresTypes == StoresSpec => [](StoresTypeOK /\ HandInv)
<1> QED
  BY StoresInitTypes, TypeStep, HandStep, PTL DEF StoresSpec

-----------------------------------------------------------------------------
(* Copies.                                                                 *)

Target == points[copying.to[1]][copying.to[2]]

\* A copy reads the active space at home and writes elsewhere; as long as no
\* indexer was at work, what it saw at its start is what is there.
RouteInv ==
  /\ spoiled \subseteq {"narrow"}
  /\ copying # Missing =>
       /\ copying.from = <<"home", space>>
       /\ \/ /\ copying.kind = "mirror" /\ copying.to = <<"other", space>>
             /\ copying.stage \in {"scroll", "done"}
          \/ /\ copying.kind = "reproject" /\ copying.to = <<"home", "narrow">>
             /\ space = "wide" /\ ~copying.fresh
       /\ ~copying.raced => (IndexerIdle /\ copying.kept = Here)

\* What was there all along is behind the scroll only if it was copied or is
\* in the page that is about to be.
CopyInv ==
  copying # Missing =>
    /\ copying.kept \subseteq Here /\ Here \cup copying.page \subseteq copying.ever
    /\ \A i \in 1..copying.at :
         IdOrder[i] \in copying.kept => IdOrder[i] \in copying.page \cup Target
    /\ copying.stage # "scroll" => copying.page = {} /\ copying.kept \subseteq Target
    /\ copying.fresh => Target \subseteq copying.ever

TransferInv == StoresTypeOK /\ HandInv /\ RouteInv /\ CopyInv

\* The indexer writes one collection, the one that is being read.
LEMMA WritesWhereItIsRead ==
  ASSUME TransferInv, NEW now \in SUBSET Ids, space' = space, spoiled' = spoiled,
         points' = [points EXCEPT !["home"][space] = now],
         copying' = Seen("home", space, now)
  PROVE  RouteInv' /\ CopyInv'
<1> USE DEF TransferInv
<1>1. CASE copying = Missing
  BY <1>1 DEF Seen, RouteInv, CopyInv
<1>2. CASE copying # Missing
  <2>1. copying \in Copy /\ copying.from = <<"home", space>> /\ space \in Spaces
    BY <1>2 DEF StoresTypeOK, RouteInv
  <2>2. copying' = [copying EXCEPT !.kept = @ \cap now, !.ever = @ \cup now, !.raced = TRUE]
    BY <1>2, <2>1 DEF Seen
  <2>3. /\ copying'.kind = copying.kind /\ copying'.from = copying.from
        /\ copying'.to = copying.to /\ copying'.stage = copying.stage
        /\ copying'.at = copying.at /\ copying'.page = copying.page
        /\ copying'.fresh = copying.fresh /\ copying'.raced = TRUE
        /\ copying'.kept = copying.kept \cap now /\ copying'.ever = copying.ever \cup now
    BY <2>1, <2>2 DEF Copy
  <2>4. copying.to # <<"home", space>> /\ copying.to \in Backends \X Spaces
    BY <1>2, <2>1 DEF RouteInv, Copy
  <2>5. Here' = now
    BY <2>1 DEF Here, StoresTypeOK, Backends
  <2>6. Target' = Target
    BY <2>1, <2>3, <2>4 DEF Target, StoresTypeOK, Backends
  <2>7. RouteInv'
    BY <1>2, <2>3 DEF RouteInv
  <2>8. CopyInv'
    BY <1>2, <2>3, <2>5, <2>6 DEF CopyInv
  <2> QED
    BY <2>7, <2>8
<1> QED
  BY <1>1, <1>2

LEMMA TransferStep ==
  TransferInv /\ [StoresNext]_storesVars => RouteInv' /\ CopyInv'
<1> SUFFICES ASSUME TransferInv, [StoresNext]_storesVars PROVE RouteInv' /\ CopyInv'
  OBVIOUS
<1> USE DEF outside, manifest, bounds
<1>1. Here \in SUBSET Ids /\ space \in Spaces
      /\ points = [points EXCEPT !["home"][space] = Here]
  BY DEF Here, TransferInv, StoresTypeOK, Backends
<1>2. ASSUME NEW f \in Files, Upsert(f) PROVE RouteInv' /\ CopyInv'
  <2> DEFINE now == Here \cup (Produced(f, content[f]) \ (chunkRows[space] \cap IdsOf(f)))
  <2>1. now \in SUBSET Ids
    BY <1>1, <1>2, StoresAssumption DEF Upsert, Needs, TransferInv, StoresTypeOK
  <2>2. SetPoints("home", space, now) /\ space' = space /\ spoiled' = spoiled
    BY <1>2 DEF Upsert
  <2> QED
    BY <2>1, <2>2, WritesWhereItIsRead DEF SetPoints
<1>3. ASSUME NEW f \in Files, RemovePoints(f) PROVE RouteInv' /\ CopyInv'
  <2>1. /\ Here \ IdsOf(f) \in SUBSET Ids /\ SetPoints("home", space, Here \ IdsOf(f))
        /\ space' = space /\ spoiled' = spoiled
    BY <1>1, <1>3 DEF RemovePoints
  <2> QED
    BY <2>1, WritesWhereItIsRead DEF SetPoints
<1>4. CASE DeleteStale
  <2>1. /\ Here \ held.stale \in SUBSET Ids /\ SetPoints("home", space, Here \ held.stale)
        /\ space' = space /\ spoiled' = spoiled
    BY <1>1, <1>4 DEF DeleteStale
  <2> QED
    BY <2>1, WritesWhereItIsRead DEF SetPoints
<1>5. CASE RecordFile \/ ForgetRow
  <2>1. /\ copying' = Seen("home", space, Here) /\ points' = points
        /\ space' = space /\ spoiled' = spoiled
    BY <1>5 DEF RecordFile, ForgetRow
  <2> QED
    BY <1>1, <2>1, WritesWhereItIsRead
<1> USE DEF TransferInv
<1>6. ASSUME NEW s \in Spaces, SwitchSpace(s) PROVE RouteInv' /\ CopyInv'
  BY <1>6 DEF SwitchSpace, RouteInv, CopyInv
<1>7. ASSUME NEW o \in BOOLEAN, StartMirror(o) PROVE RouteInv' /\ CopyInv'
  <2> DEFINE c == Command("mirror", <<"home", space>>, <<"other", space>>)
  <2>1. /\ c.kind = "mirror" /\ c.from = <<"home", space>> /\ c.to = <<"other", space>>
        /\ c.stage = "scroll" /\ c.at = 0 /\ c.page = {} /\ c.kept = Here /\ c.ever = Here
        /\ c.raced = ~IndexerIdle
    BY DEF Command, Here
  <2>2. copying' = [c EXCEPT !.fresh = o]
    BY <1>7 DEF StartMirror
  <2>3. c = [kind |-> c.kind, from |-> c.from, to |-> c.to, stage |-> c.stage, at |-> c.at,
             page |-> c.page, fresh |-> c.fresh, kept |-> c.kept, ever |-> c.ever,
             raced |-> c.raced]
    BY DEF Command
  <2> HIDE DEF c
  <2>4. /\ copying'.kind = "mirror" /\ copying'.from = <<"home", space>>
        /\ copying'.to = <<"other", space>> /\ copying'.stage = "scroll"
        /\ copying'.at = 0 /\ copying'.page = {}
        /\ copying'.kept = Here /\ copying'.ever = Here
        /\ copying'.raced = ~IndexerIdle /\ copying'.fresh = o
    BY <2>1, <2>2, <2>3
  <2>5. /\ Here' = Here /\ space' = space /\ spoiled' = spoiled
        /\ IndexerIdle' = IndexerIdle
        /\ o => points'["other"][space] = {}
    BY <1>1, <1>7 DEF StartMirror, Here, StoresTypeOK, Backends, IndexerIdle
  <2>6. o => Target' = {}
    BY <2>4, <2>5 DEF Target
  <2>7. 1..copying'.at = {}
    BY <2>4
  <2>8. RouteInv'
    BY <2>4, <2>5 DEF RouteInv, TransferInv
  <2>9. CopyInv'
    BY <2>4, <2>5, <2>6, <2>7 DEF CopyInv
  <2> QED
    BY <2>8, <2>9
<1>8. CASE StartReproject
  <2>1. /\ copying'.kind = "reproject" /\ copying'.from = <<"home", "wide">>
        /\ copying'.to = <<"home", "narrow">> /\ copying'.stage = "scroll"
        /\ copying'.at = 0 /\ copying'.page = {} /\ copying'.fresh = FALSE
        /\ copying'.kept = Here /\ copying'.ever = Here
        /\ copying'.raced = ~IndexerIdle
    BY <1>8 DEF StartReproject, Command, Here
  <2>2. /\ Here' = Here /\ space' = space /\ spoiled' = spoiled /\ space = "wide"
        /\ IndexerIdle' = IndexerIdle
    BY <1>8 DEF StartReproject, Here, IndexerIdle
  <2>3. 1..copying'.at = {}
    BY <2>1
  <2>4. RouteInv'
    BY <2>1, <2>2 DEF RouteInv
  <2>5. CopyInv'
    BY <2>1, <2>2, <2>3 DEF CopyInv
  <2> QED
    BY <2>4, <2>5
<1>9. CASE Scroll
  <2> DEFINE m == CHOOSE i \in NextPage : \A j \in NextPage : j <= i
             page == {IdOrder[i] : i \in NextPage}
  <2>1. /\ copying \in Copy /\ copying # Missing /\ Ahead # {}
        /\ copying.stage = "scroll" /\ copying.page = {}
    BY <1>9 DEF Scroll, StoresTypeOK
  <2>2. m \in copying.at + 1..Len(IdOrder) /\ NextPage = {i \in Ahead : i <= m}
    BY <2>1, PageSkipsNothing
  <2>3. copying' = [copying EXCEPT !.page = page, !.at = m]
    BY <1>9 DEF Scroll
  <2> HIDE DEF m
  <2>4. /\ copying'.kind = copying.kind /\ copying'.from = copying.from
        /\ copying'.to = copying.to /\ copying'.stage = "scroll"
        /\ copying'.at = m /\ copying'.page = page
        /\ copying'.fresh = copying.fresh /\ copying'.raced = copying.raced
        /\ copying'.kept = copying.kept /\ copying'.ever = copying.ever
    BY <2>1, <2>3 DEF Copy
  <2>5. /\ Here' = Here /\ Target' = Target /\ space' = space /\ spoiled' = spoiled
        /\ IndexerIdle' = IndexerIdle
    BY <1>9, <2>4 DEF Scroll, Here, Target, IndexerIdle
  <2>6. Source = Here
    BY <2>1 DEF Source, Here, RouteInv
  <2>7. page \subseteq Here
    BY <2>2, <2>6 DEF Ahead
  <2>8. ASSUME NEW i \in 1..m, IdOrder[i] \in copying.kept
        PROVE  IdOrder[i] \in page \cup Target
    <3>1. CASE i <= copying.at
      <4>1. i \in 1..copying.at
        BY <2>1, <2>2, <3>1, StoresAssumption DEF Copy
      <4> QED
        BY <2>1, <2>8, <4>1 DEF CopyInv
    <3>2. CASE ~(i <= copying.at)
      <4>1. i \in copying.at + 1..Len(IdOrder) /\ i <= m
        BY <2>1, <2>2, <3>2, StoresAssumption DEF Copy
      <4>2. i \in NextPage
        BY <2>1, <2>2, <2>6, <2>8, <4>1 DEF Ahead, CopyInv
      <4> QED
        BY <4>2
    <3> QED
      BY <3>1, <3>2
  <2> HIDE DEF page
  <2>9. RouteInv'
    BY <2>1, <2>4, <2>5 DEF RouteInv
  <2>10. CopyInv'
    BY <2>1, <2>4, <2>5, <2>7, <2>8 DEF CopyInv
  <2> QED
    BY <2>9, <2>10
<1>10. CASE WritePage
  <2>1. copying \in Copy /\ copying # Missing /\ copying.page # {}
    BY <1>10 DEF WritePage, StoresTypeOK
  <2>2. /\ copying'.kind = copying.kind /\ copying'.from = copying.from
        /\ copying'.to = copying.to /\ copying'.stage = copying.stage
        /\ copying'.at = copying.at /\ copying'.page = {}
        /\ copying'.fresh = copying.fresh /\ copying'.raced = copying.raced
        /\ copying'.kept = copying.kept /\ copying'.ever = copying.ever
    BY <1>10, <2>1 DEF WritePage, Copy
  <2>3. copying.to # <<"home", space>> /\ copying.to \in Backends \X Spaces
    BY <2>1 DEF RouteInv, Copy
  <2>4. Target' = Target \cup copying.page
    BY <1>10, <2>2, <2>3 DEF WritePage, Target, StoresTypeOK
  <2>5. /\ Here' = Here /\ space' = space /\ spoiled' = spoiled
        /\ IndexerIdle' = IndexerIdle
    BY <1>1, <1>10, <2>3 DEF WritePage, Here, IndexerIdle, StoresTypeOK, Backends
  <2>6. RouteInv'
    BY <2>1, <2>2, <2>5 DEF RouteInv
  <2>7. CopyInv'
    BY <2>1, <2>2, <2>4, <2>5 DEF CopyInv
  <2> QED
    BY <2>6, <2>7
<1>11. CASE EndScroll
  <2>1. /\ copying \in Copy /\ copying # Missing /\ copying.page = {} /\ Ahead = {}
        /\ copying.stage = "scroll"
    BY <1>11 DEF EndScroll, StoresTypeOK
  <2>2. /\ copying'.kind = copying.kind /\ copying'.from = copying.from
        /\ copying'.to = copying.to /\ copying'.at = copying.at /\ copying'.page = {}
        /\ copying'.stage = (IF copying.kind = "mirror" THEN "done" ELSE "chunks")
        /\ copying'.fresh = copying.fresh /\ copying'.raced = copying.raced
        /\ copying'.kept = copying.kept /\ copying'.ever = copying.ever
    BY <1>11, <2>1 DEF EndScroll, Copy
  <2>3. /\ Here' = Here /\ Target' = Target /\ space' = space /\ spoiled' = spoiled
        /\ IndexerIdle' = IndexerIdle
    BY <1>11, <2>2 DEF EndScroll, Here, Target, IndexerIdle
  <2>4. Source = Here
    BY <2>1 DEF Source, Here, RouteInv
  <2>5. ASSUME NEW id \in copying.kept PROVE id \in Target
    <3>1. id \in Here /\ id \in Ids
      BY <1>1, <2>1 DEF CopyInv
    <3>2. PICK i \in 1..Len(IdOrder) : id = IdOrder[i]
      BY <3>1, StoresAssumption DEF Ids, ToSet
    <3>3. i \notin copying.at + 1..Len(IdOrder)
      BY <2>1, <2>4, <3>1, <3>2 DEF Ahead
    <3>4. i \in 1..copying.at
      BY <2>1, <3>2, <3>3, StoresAssumption DEF Copy
    <3> QED
      BY <2>1, <3>2, <3>4 DEF CopyInv
  <2>6. RouteInv'
    BY <2>1, <2>2, <2>3 DEF RouteInv
  <2>7. CopyInv'
    BY <2>1, <2>2, <2>3, <2>5 DEF CopyInv
  <2> QED
    BY <2>6, <2>7
<1>12. CASE CopyChunkRows \/ CopyFileRows
  <2>1. copying \in Copy /\ copying # Missing /\ copying.stage \in {"chunks", "files"}
    BY <1>12 DEF CopyChunkRows, CopyFileRows, StoresTypeOK
  <2>2. /\ copying'.kind = copying.kind /\ copying'.from = copying.from
        /\ copying'.to = copying.to /\ copying'.at = copying.at
        /\ copying'.page = copying.page
        /\ copying'.stage \in {"files", "done"}
        /\ copying'.fresh = copying.fresh /\ copying'.raced = copying.raced
        /\ copying'.kept = copying.kept /\ copying'.ever = copying.ever
    BY <1>12, <2>1 DEF CopyChunkRows, CopyFileRows, Copy
  <2>3. /\ Here' = Here /\ Target' = Target /\ space' = space
        /\ spoiled' \subseteq spoiled \cup {"narrow"}
        /\ IndexerIdle' = IndexerIdle
    BY <1>12, <2>2 DEF CopyChunkRows, CopyFileRows, Here, Target, IndexerIdle
  <2>4. RouteInv'
    BY <2>1, <2>2, <2>3 DEF RouteInv
  <2>5. CopyInv'
    BY <2>1, <2>2, <2>3 DEF CopyInv
  <2> QED
    BY <2>4, <2>5
<1>13. CASE EndCommand
  BY <1>13 DEF EndCommand, RouteInv, CopyInv
<1>14. CASE Kill
  BY <1>14 DEF Kill, RouteInv, CopyInv, Here, Target, IndexerIdle
<1>15. CASE UNCHANGED <<space, points, held, victim, copying, spoiled>>
  BY <1>15 DEF RouteInv, CopyInv, Here, Target, IndexerIdle
<1> QED
  BY <1>2, <1>3, <1>4, <1>5, <1>6, <1>7, <1>8, <1>9, <1>10, <1>11, <1>12, <1>13, <1>14,
     <1>15 DEF StoresNext, Change, storesVars

LEMMA Transfers == StoresSpec => []TransferInv
<1>1. StoresInit => RouteInv /\ CopyInv
  BY DEF StoresInit, RouteInv, CopyInv
<1> QED
  BY <1>1, StoresInitTypes, TypeStep, HandStep, TransferStep, PTL DEF StoresSpec, TransferInv

(* A mirror that ends has every point that was in its source all along,    *)
(* and with --overwrite none that never was: whatever was written to the   *)
(* source under it, at every size of page and however often it was begun   *)
(* again.  A page takes the next points that are there, so what the scroll *)
(* has passed is copied, in hand, or came later (CopyInv).                 *)
THEOREM MirrorsAreComplete == StoresSpec => []MirrorHoldsSource
<1>1. TransferInv => MirrorHoldsSource
  BY DEF TransferInv, CopyInv, MirrorHoldsSource, Target
<1> QED
  BY <1>1, Transfers, PTL

-----------------------------------------------------------------------------
(* What the manifest claims.                                               *)

\* What a file in hand goes up with is there, or was claimed to be.
WorkInv ==
  held # Missing =>
    /\ held.stale \cap held.produced = {}
    /\ chunkRows[space] \cap IdsOf(held.file) \subseteq held.stale \cup held.produced
    /\ \A id \in held.produced : id \in Here \/ held.file \in lost \/ space \in spoiled

\* Between the calls of a file's work its rows claim what has gone: those of
\* the active space, and only what is about to be forgotten.
Excused(id) ==
  id[1] = victim \/ (held # Missing /\ held.stage = "deleted" /\ id \in held.stale)

ClaimInv ==
  \A s \in Spaces \ spoiled : \A id \in chunkRows[s] :
    id \in points["home"][s] \/ id[1] \in lost \/ (s = space /\ Excused(id))

StoresInv == TransferInv /\ WorkInv /\ ClaimInv

\* A step that adds points at home or none, and neither rows nor work.
LEMMA MoreAtHome ==
  ASSUME StoresInv, UNCHANGED <<chunkRows, held, victim>>,
         space' = space \/ IndexerIdle,
         lost \subseteq lost', spoiled \subseteq spoiled',
         \A s \in Spaces : points["home"][s] \subseteq points'["home"][s]
  PROVE  WorkInv' /\ ClaimInv'
<1> USE DEF StoresInv, TransferInv
<1>1. WorkInv'
  BY DEF WorkInv, Here, IdsOf, IndexerIdle, StoresTypeOK
<1>2. ClaimInv'
  <2> SUFFICES ASSUME NEW s \in Spaces \ spoiled', NEW id \in chunkRows'[s]
               PROVE  id \in points'["home"][s] \/ id[1] \in lost'
                      \/ (s = space' /\ Excused(id)')
    BY DEF ClaimInv
  <2>1. id \in points["home"][s] \/ id[1] \in lost \/ (s = space /\ Excused(id))
    BY DEF ClaimInv
  <2>2. id[1] # Missing
    BY StoresAssumption DEF StoresTypeOK
  <2>3. Excused(id)' <=> Excused(id)
    BY DEF Excused
  <2> QED
    BY <2>1, <2>2, <2>3 DEF Excused, IndexerIdle
<1> QED
  BY <1>1, <1>2

LEMMA ClaimStep ==
  StoresInv /\ [StoresNext]_storesVars => WorkInv' /\ ClaimInv'
<1> SUFFICES ASSUME StoresInv, [StoresNext]_storesVars PROVE WorkInv' /\ ClaimInv'
  OBVIOUS
<1> USE DEF outside, manifest, bounds
<1>0. StoresTypeOK /\ HandInv /\ RouteInv /\ CopyInv /\ WorkInv /\ ClaimInv
  BY DEF StoresInv, TransferInv
<1>1. /\ Here \in SUBSET Ids /\ space \in Spaces /\ "home" \in Backends
      /\ \A s \in Spaces : chunkRows[s] \subseteq Ids
      /\ \A id \in Ids : id[1] \in Files /\ id[1] # Missing
  BY <1>0, StoresAssumption DEF Here, StoresTypeOK, Backends
<1>2. ASSUME NEW f \in Files, Upsert(f) PROVE WorkInv' /\ ClaimInv'
  <2> DEFINE produced == Produced(f, content[f])
             known    == chunkRows[space] \cap IdsOf(f)
             now      == Here \cup (produced \ known)
  <2>1. /\ held'.file = f /\ held'.produced = produced /\ held'.stale = known \ produced
        /\ held'.stage = "upserted" /\ held = Missing /\ victim = Missing
        /\ points' = [points EXCEPT !["home"][space] = now]
        /\ UNCHANGED <<chunkRows, victim, space, lost, spoiled>>
    BY <1>2 DEF Upsert, SetPoints, IndexerIdle
  <2>2. produced \subseteq IdsOf(f)
    BY <1>0, <1>2, StoresAssumption
    DEF Upsert, Needs, StoresTypeOK, Produced, IdsOf
  <2>3. /\ Here' = now /\ Here \subseteq now
        /\ \A s \in Spaces : points["home"][s] \subseteq points'["home"][s]
    BY <1>0, <1>1, <2>1 DEF Here, StoresTypeOK
  <2>4. ASSUME NEW id \in produced, id \in known
        PROVE  id \in Here \/ f \in lost \/ space \in spoiled
    <3>1. id[1] = f /\ id \in Ids
      BY <2>2, <2>4 DEF IdsOf
    <3> QED
      BY <1>0, <1>1, <2>1, <2>4, <3>1 DEF ClaimInv, Excused, Here
  <2> HIDE DEF produced
  <2>5. WorkInv'
    BY <2>1, <2>3, <2>4 DEF WorkInv, IdsOf
  <2>6. ClaimInv'
    BY <1>0, <1>1, <2>1, <2>3 DEF ClaimInv, Excused
  <2> QED
    BY <2>5, <2>6
<1>3. CASE DeleteStale
  <2>1. /\ held # Missing /\ held \in Hand
        /\ held' = [held EXCEPT !.stage = "deleted"]
        /\ points' = [points EXCEPT !["home"][space] = Here \ held.stale]
        /\ UNCHANGED <<chunkRows, victim, space, lost, spoiled>>
    BY <1>0, <1>3 DEF DeleteStale, SetPoints, StoresTypeOK
  <2>2. /\ held'.file = held.file /\ held'.produced = held.produced
        /\ held'.stale = held.stale /\ held'.stage = "deleted" /\ held' # Missing
    BY <2>1, StoresAssumption DEF Hand
  <2>3. /\ Here' = Here \ held.stale
        /\ \A s \in Spaces :
             points["home"][s] \subseteq
               points'["home"][s] \cup (IF s = space THEN held.stale ELSE {})
    BY <1>0, <1>1, <2>1 DEF Here, StoresTypeOK
  <2>4. WorkInv'
    BY <1>0, <2>1, <2>2, <2>3 DEF WorkInv, IdsOf
  <2>5. ClaimInv'
    BY <1>0, <2>1, <2>2, <2>3 DEF ClaimInv, Excused
  <2> QED
    BY <2>4, <2>5
<1>4. CASE RecordFile
  <2>1. /\ held # Missing /\ held \in Hand /\ held' = Missing
        /\ chunkRows' = [chunkRows EXCEPT ![space] = (@ \ held.stale) \cup held.produced]
        /\ UNCHANGED <<points, victim, space, lost, spoiled>>
    BY <1>0, <1>4 DEF RecordFile, StoresTypeOK
  <2>2. /\ \A id \in held.produced : id \in Here \/ id[1] \in lost \/ space \in spoiled
        /\ held.stale \cap held.produced = {}
    BY <1>0, <2>1 DEF WorkInv, HandInv, IdsOf
  <2>3. ASSUME NEW s \in Spaces \ spoiled, NEW id \in chunkRows'[s]
        PROVE  id \in points["home"][s] \/ id[1] \in lost \/ (s = space /\ id[1] = victim)
    <3>1. CASE s = space /\ id \in held.produced
      BY <2>2, <2>3, <3>1 DEF Here
    <3>2. CASE s # space \/ id \notin held.produced
      <4>1. id \in chunkRows[s] /\ (s = space => id \notin held.stale)
        BY <1>0, <1>1, <2>1, <2>3, <3>2 DEF StoresTypeOK
      <4> QED
        BY <1>0, <4>1 DEF ClaimInv, Excused
    <3> QED
      BY <3>1, <3>2
  <2>4. WorkInv'
    BY <2>1 DEF WorkInv
  <2>5. ClaimInv'
    BY <2>1, <2>3 DEF ClaimInv, Excused
  <2> QED
    BY <2>4, <2>5
<1>5. ASSUME NEW f \in Files, RemovePoints(f) PROVE WorkInv' /\ ClaimInv'
  <2>1. /\ held = Missing /\ held' = Missing /\ victim = Missing /\ victim' = f
        /\ points' = [points EXCEPT !["home"][space] = Here \ IdsOf(f)]
        /\ UNCHANGED <<chunkRows, space, lost, spoiled>>
    BY <1>5 DEF RemovePoints, SetPoints, IndexerIdle
  <2>2. \A s \in Spaces : \A id \in points["home"][s] :
          id \in points'["home"][s] \/ (s = space /\ id[1] = f)
    BY <1>0, <1>1, <2>1 DEF Here, StoresTypeOK, IdsOf
  <2>3. WorkInv'
    BY <2>1 DEF WorkInv
  <2>4. ClaimInv'
    BY <1>0, <1>1, <2>1, <2>2 DEF ClaimInv, Excused
  <2> QED
    BY <2>3, <2>4
<1>6. CASE ForgetRow
  <2>1. /\ victim # Missing /\ victim' = Missing
        /\ \A s \in Spaces : chunkRows'[s] = chunkRows[s] \ IdsOf(victim)
        /\ UNCHANGED <<points, held, space, lost, spoiled>>
    BY <1>6 DEF ForgetRow
  <2>2. \A s \in Spaces : \A id \in chunkRows'[s] : id[1] # victim /\ id \in chunkRows[s]
    BY <1>1, <2>1 DEF IdsOf
  <2>3. WorkInv'
    BY <1>0, <1>1, <2>1 DEF WorkInv, Here, IdsOf
  <2>4. ClaimInv'
    BY <1>0, <1>1, <2>1, <2>2 DEF ClaimInv, Excused
  <2> QED
    BY <2>3, <2>4
<1>7. CASE CopyChunkRows
  <2>1. /\ copying # Missing /\ copying.kind = "reproject" /\ space = "wide"
        /\ copying.to = <<"home", "narrow">> /\ copying.kept \subseteq Target
        /\ ~copying.raced => (IndexerIdle /\ copying.kept = Here)
    BY <1>0, <1>7 DEF CopyChunkRows, RouteInv, CopyInv
  <2>2. /\ chunkRows' = [chunkRows EXCEPT !["narrow"] = @ \cup chunkRows["wide"]]
        /\ spoiled' = (IF copying.raced THEN spoiled \cup {"narrow"} ELSE spoiled)
        /\ UNCHANGED <<points, held, victim, space, lost>>
    BY <1>7 DEF CopyChunkRows
  <2>3. WorkInv'
    <3>1. chunkRows'[space] = chunkRows[space] /\ spoiled \subseteq spoiled'
      BY <1>0, <2>1, <2>2 DEF StoresTypeOK
    <3> QED
      BY <1>0, <2>2, <3>1 DEF WorkInv, Here, IdsOf
  <2>4. ASSUME ~copying.raced, NEW id \in chunkRows["wide"]
        PROVE  id \in points["home"]["narrow"] \/ id[1] \in lost
    <3>1. "wide" \notin spoiled /\ "wide" \in Spaces /\ id \in Ids
      BY <1>0, <1>1 DEF RouteInv, Spaces
    <3>2. id \in Here \/ id[1] \in lost
      BY <1>0, <1>1, <2>1, <2>4, <3>1 DEF ClaimInv, Excused, IndexerIdle, Here
    <3> QED
      BY <2>1, <2>4, <3>2 DEF Target
  <2>5. ClaimInv'
    <3> SUFFICES ASSUME NEW s \in Spaces \ spoiled', NEW id \in chunkRows'[s]
                 PROVE  id \in points["home"][s] \/ id[1] \in lost
                        \/ (s = space /\ Excused(id))
      BY <2>2 DEF ClaimInv, Excused
    <3>1. s \in Spaces \ spoiled
      BY <2>2
    <3>2. id \in chunkRows[s] \/ (s = "narrow" /\ ~copying.raced /\ id \in chunkRows["wide"])
      BY <1>0, <2>2 DEF StoresTypeOK
    <3> QED
      BY <1>0, <2>4, <3>1, <3>2 DEF ClaimInv
  <2> QED
    BY <2>3, <2>5
<1>8. CASE Kill
  <2>1. CASE copying # Missing /\ UNCHANGED <<held, victim, lost>>
    BY <1>8, <2>1, MoreAtHome DEF Kill
  <2>2. CASE /\ held' = Missing /\ victim' = Missing
             /\ lost' = lost \cup ({victim} \ {Missing})
                             \cup (IF held # Missing /\ held.stage = "deleted"
                                   THEN {held.file} ELSE {})
    <3>1. UNCHANGED <<points, chunkRows, space, spoiled>>
      BY <1>8 DEF Kill
    <3>2. \A id \in Ids : Excused(id) => id[1] \in lost'
      BY <1>0, <1>1, <2>2 DEF Excused, HandInv, IdsOf
    <3>3. WorkInv'
      BY <2>2 DEF WorkInv
    <3>4. ClaimInv'
      BY <1>0, <1>1, <2>2, <3>1, <3>2 DEF ClaimInv
    <3> QED
      BY <3>3, <3>4
  <2> QED
    BY <1>8, <2>1, <2>2 DEF Kill
<1>9. CASE WritePage
  <2>1. \A b \in Backends, s \in Spaces : points[b][s] \subseteq points'[b][s]
    BY <1>0, <1>9 DEF WritePage, StoresTypeOK
  <2> QED
    BY <1>1, <1>9, <2>1, MoreAtHome DEF WritePage
<1>10. ASSUME NEW o \in BOOLEAN, StartMirror(o) PROVE WorkInv' /\ ClaimInv'
  <2>1. points'["home"] = points["home"]
    BY <1>0, <1>10 DEF StartMirror, StoresTypeOK, Backends
  <2> QED
    BY <1>10, <2>1, MoreAtHome DEF StartMirror
<1>11. ASSUME NEW s \in Spaces, SwitchSpace(s) PROVE WorkInv' /\ ClaimInv'
  BY <1>11, MoreAtHome DEF SwitchSpace
<1>12. CASE UNCHANGED <<space, chunkRows, points, held, victim, lost>>
            /\ spoiled \subseteq spoiled'
  BY <1>12, MoreAtHome
<1> QED
  BY <1>2, <1>3, <1>4, <1>5, <1>6, <1>7, <1>8, <1>9, <1>10, <1>11, <1>12
  DEF StoresNext, Change, StartReproject, Scroll, EndScroll, CopyFileRows, EndCommand,
      storesVars

(* What the manifest says is in a space is in its collection, the derived  *)
(* ones as well, in any order of indexing, removals, switches, copies and  *)
(* kills.  The rows of a derived space are copied after the vectors, from  *)
(* a space whose own claim holds and which nobody wrote to; the property's *)
(* exceptions are what ClaimInv has to excuse, and a completed piece of    *)
(* work leaves nothing excused behind.                                     *)
THEOREM ClaimsAreStored == StoresSpec => []ClaimedIsStored
<1>1. StoresInit => WorkInv /\ ClaimInv
  BY DEF StoresInit, WorkInv, ClaimInv
<1>2. StoresInv => ClaimedIsStored
  <2> SUFFICES ASSUME StoresInv, NEW s \in Spaces \ spoiled, NEW id \in chunkRows[s]
               PROVE  \/ id \in points["home"][s] \/ id[1] \in lost
                      \/ InHand(id[1])
    BY DEF ClaimedIsStored
  <2>1. Excused(id) => InHand(id[1])
    BY DEF Excused, InHand, StoresInv, TransferInv, HandInv, IdsOf
  <2> QED
    BY <2>1 DEF StoresInv, ClaimInv
<1> QED
  BY <1>1, <1>2, StoresInitTypes, TypeStep, HandStep, TransferStep, ClaimStep, PTL, Transfers
  DEF StoresSpec, StoresInv

=============================================================================
