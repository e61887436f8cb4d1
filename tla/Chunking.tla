------------------------------- MODULE Chunking -------------------------------
(***************************************************************************)
(* How the text and the markdown chunkers cut a file: into blocks, packed  *)
(* up to a budget, and divided at line ends where a group is still over it.*)
(* A line is a value; what the cutting depends on (its length, whether it  *)
(* is a heading, a fence, indented) is given by the constants.  The budget *)
(* is in tokens and is estimated from bytes, with rounding: a sum of       *)
(* estimates is not the estimate of the sum, and the blank lines between   *)
(* blocks are in neither, which is what the hazards here come from.        *)
(***************************************************************************)
EXTENDS Integers, Sequences, SequencesExt

CONSTANTS
  LineSet,        \* the lines a file is made of
  Empty,          \* the one without text
  BytesOf,        \* line -> its length
  DepthOf,        \* line -> the depth of the heading it is, or 0
  Fences,         \* lines that open a fence
  Plain,          \* those without an info string, which also close one
  Indented,       \* lines that start with a space
  ChunkBudget,    \* tokens, the header's share taken off
  BytesPerToken,
  SplitDepth,     \* split_on_heading_depth
  Overlap,        \* overlap_paragraphs
  MaxLines        \* bound

ASSUME ChunkingAssumption ==
  /\ Empty \in LineSet
  /\ BytesOf \in [LineSet -> Nat] /\ \A l \in LineSet \ {Empty} : BytesOf[l] > 0
  /\ DepthOf \in [LineSet -> Nat] /\ DepthOf[Empty] = 0
  /\ Plain \subseteq Fences /\ Fences \subseteq LineSet \ {Empty}
  /\ ChunkBudget \in Nat \ {0} /\ BytesPerToken \in Nat \ {0}
  /\ SplitDepth \in Nat /\ Overlap \in Nat /\ MaxLines \in Nat

VARIABLES format, document, chunks

chunkingVars == <<format, document, chunks>>

Formats == {"markdown", "text", "structured"}

Spelled(s) == \E i \in DOMAIN s : s[i] # Empty

Numbers(s) == [i \in DOMAIN s |-> i]

-----------------------------------------------------------------------------
(* token_estimate.py.                                                      *)

Size(text) == FoldLeft(LAMBDA n, l : n + BytesOf[l], Len(text) - 1, text)

\* round(): to the nearest, and halves to the even one.
Nearest(n, d) ==
  LET q == n \div d
      r == 2 * (n % d)
  IN IF r > d \/ (r = d /\ q % 2 = 1) THEN q + 1 ELSE q

EstimateTokens(text) ==
  IF Size(text) <= 0 THEN 0
  ELSE IF Nearest(Size(text), BytesPerToken) = 0 THEN 1
  ELSE Nearest(Size(text), BytesPerToken)

BudgetBytes == ChunkBudget * BytesPerToken

-----------------------------------------------------------------------------
(* block_splitter.py.                                                      *)

Block(first, text, atomic) ==
  [first |-> first, last |-> first + Len(text) - 1, text |-> text, atomic |-> atomic]

\* _finish, and the end of a fence, closed or not.
Finish(acc) ==
  IF acc.current = <<>> THEN acc
  ELSE [acc EXCEPT !.blocks = Append(@, Block(acc.start, acc.current, acc.fenced)),
                   !.current = <<>>, !.fenced = FALSE]

Collect(acc, line, i) ==
  [acc EXCEPT !.current = Append(@, line),
              !.start = IF acc.current = <<>> THEN i ELSE @]

NoBlocks == [blocks |-> <<>>, current |-> <<>>, start |-> 1, fenced |-> FALSE]

ReadLine(acc, line, i, respectFences, structured) ==
  CASE acc.fenced ->
         IF line \in Plain THEN Finish(Collect(acc, line, i)) ELSE Collect(acc, line, i)
    [] ~acc.fenced /\ respectFences /\ line \in Fences ->
         [Collect(Finish(acc), line, i) EXCEPT !.fenced = TRUE]
    [] ~acc.fenced /\ line = Empty -> Finish(acc)
    [] OTHER ->
         Collect(IF structured /\ line \notin Indented THEN Finish(acc) ELSE acc, line, i)

SplitIntoBlocks(text, respectFences, structured) ==
  LET read(acc, i) == ReadLine(acc, text[i], i, respectFences, structured)
  IN Finish(FoldLeft(read, NoBlocks, Numbers(text))).blocks

Gap(n) == [i \in 1..n |-> Empty]

\* Mutant: one blank line between two blocks, whatever there was.
MergeLoosely(group) ==
  LET join(merged, next) ==
        [merged EXCEPT !.text = @ \o Gap(1) \o next.text,
                       !.last = next.last, !.atomic = @ /\ next.atomic]
  IN FoldLeft(join, Head(group), Tail(group))

\* _merge: the blank lines that were there.
Join(merged, next) ==
  LET between == IF next.first > merged.last
                 THEN Gap(next.first - merged.last - 1) ELSE Gap(1)
  IN [merged EXCEPT !.text = @ \o between \o next.text,
                    !.last = next.last, !.atomic = @ /\ next.atomic]

Merge(group) == FoldLeft(Join, Head(group), Tail(group))

WithoutFences(group) ==
  LET keep(tail, b) == IF b.atomic THEN tail ELSE Append(tail, b)
  IN FoldLeft(keep, <<>>, group)

CarryOver(group, overlap) ==
  LET first == IF Len(group) > overlap THEN Len(group) - overlap + 1 ELSE 1
  IN IF overlap <= 0 THEN <<>> ELSE WithoutFences(SubSeq(group, first, Len(group)))

\* _by_lines: as many lines as the budget has bytes for, each with the end
\* of line that joins it to the one before.
Flush(acc) ==
  IF Spelled(acc.current)
  THEN Append(acc.parts, Block(acc.start, acc.current, FALSE))
  ELSE acc.parts

NoParts(block) == [parts |-> <<>>, current |-> <<>>, used |-> 0, start |-> block.first]

AddLine(acc, line, at) ==
  LET cost == BytesOf[line] + 1 IN
  IF acc.current # <<>> /\ acc.used + cost > BudgetBytes
  THEN [parts |-> Flush(acc), current |-> <<line>>, used |-> cost, start |-> at]
  ELSE [acc EXCEPT !.current = Append(@, line), !.used = @ + cost]

LineParts(block) ==
  LET read(acc, i) == AddLine(acc, block.text[i], block.first + i - 1)
  IN Flush(FoldLeft(read, NoParts(block), Numbers(block.text)))

ByLines(block) ==
  LET parts == LineParts(block)
  IN IF \/ Len(block.text) <= 1
        \/ Len(block.text) # block.last - block.first + 1
        \/ parts = <<>>
     THEN <<block>> ELSE parts

\* Mutant: a fence is divided like anything else.
DivideAnything(block) ==
  IF EstimateTokens(block.text) <= ChunkBudget THEN <<block>> ELSE ByLines(block)

Divide(block) ==
  IF block.atomic \/ EstimateTokens(block.text) <= ChunkBudget
  THEN <<block>> ELSE ByLines(block)

TokensIn(group) == FoldLeft(LAMBDA n, b : n + EstimateTokens(b.text), 0, group)

AddBlock(acc, block, overlap) ==
  IF acc.group # <<>> /\ TokensIn(acc.group) + EstimateTokens(block.text) > ChunkBudget
  THEN [packed |-> Append(acc.packed, Merge(acc.group)),
        group |-> Append(CarryOver(acc.group, overlap), block)]
  ELSE [acc EXCEPT !.group = Append(@, block)]

NoGroup == [packed |-> <<>>, group |-> <<>>]

EndGroup(acc) ==
  IF acc.group = <<>> THEN acc.packed ELSE Append(acc.packed, Merge(acc.group))

Packed(blocks, overlap) ==
  LET add(acc, block) == AddBlock(acc, block, overlap)
  IN EndGroup(FoldLeft(add, NoGroup, blocks))

PackBlocks(blocks, overlap) ==
  LET packed == Packed(blocks, overlap)
  IN FlattenSeq([i \in DOMAIN packed |-> Divide(packed[i])])

-----------------------------------------------------------------------------
(* The chunkers.                                                           *)

Stripped(text) ==
  LET spelled == {i \in DOMAIN text : text[i] # Empty} IN
  SubSeq(text, CHOOSE i \in spelled : \A j \in spelled : i <= j,
               CHOOSE i \in spelled : \A j \in spelled : j <= i)

\* Mutant: what comes before the first heading has no section.
SectionsUnderHeadings(text) ==
  LET heading(i) == DepthOf[text[i]] \in 1..SplitDepth
      starts == {i \in DOMAIN text : heading(i)}
      upTo(i) == CHOOSE j \in i..Len(text) :
                   (j = Len(text) \/ j + 1 \in starts) /\ \A k \in i + 1..j : k \notin starts
  IN [n \in DOMAIN SetToSortSeq(starts, <) |->
        LET i == SetToSortSeq(starts, <)[n] IN
        [start |-> i, text |-> Stripped(SubSeq(text, i, upTo(i)))]]

\* _sections: a heading starts one, unless it is in a fence; here any fence
\* line ends a fence.
EndSection(acc) ==
  IF Spelled(acc.current)
  THEN Append(acc.sections, [start |-> acc.start, text |-> Stripped(acc.current)])
  ELSE acc.sections

NoSections == [sections |-> <<>>, current |-> <<>>, start |-> 1, fenced |-> FALSE]

ReadSection(acc, line, i) ==
  IF DepthOf[line] \in 1..SplitDepth /\ ~acc.fenced
  THEN [acc EXCEPT !.sections = EndSection(acc), !.current = <<line>>, !.start = i]
  ELSE [acc EXCEPT !.current = Append(@, line), !.fenced = (line \in Fences) # @]

Sections(text) ==
  LET read(acc, i) == ReadSection(acc, text[i], i)
  IN EndSection(FoldLeft(read, NoSections, Numbers(text)))

Shifted(block, by) == [block EXCEPT !.first = @ + by, !.last = @ + by]

MarkdownChunks(section) ==
  IF EstimateTokens(section.text) <= ChunkBudget
  THEN <<Block(section.start, section.text, FALSE)>>
  ELSE LET blocks == SplitIntoBlocks(section.text, TRUE, FALSE) IN
       PackBlocks([i \in DOMAIN blocks |-> Shifted(blocks[i], section.start - 1)], 0)

ChunksOfFile(text) ==
  IF format = "markdown"
  THEN FlattenSeq([i \in DOMAIN Sections(text) |-> MarkdownChunks(Sections(text)[i])])
  ELSE PackBlocks(SplitIntoBlocks(text, FALSE, format = "structured"), Overlap)

ChunkingInit == format \in Formats /\ document = <<>> /\ chunks = <<>>

\* A file gets one more line, and is chunked again.
Chunk(line) ==
  /\ Len(document) < MaxLines
  /\ document' = Append(document, line)
  /\ chunks' = ChunksOfFile(document')
  /\ UNCHANGED format

ChunkingNext == \E line \in LineSet : Chunk(line)

ChunkingSpec == ChunkingInit /\ [][ChunkingNext]_chunkingVars

-----------------------------------------------------------------------------
(* Properties.                                                             *)

ChunkingTypeOK ==
  /\ format \in Formats
  /\ document \in Seq(LineSet) /\ Len(document) <= MaxLines
  /\ \A i \in DOMAIN chunks :
       /\ chunks[i].text \in Seq(LineSet) /\ chunks[i].atomic \in BOOLEAN
       /\ {chunks[i].first, chunks[i].last} \subseteq DOMAIN document

\* The lines before the first heading of a markdown file that starts with
\* empty lines: the section is said to start at line 1 and its text does not.
ShiftedPreamble(i) ==
  /\ format = "markdown" /\ document[1] = Empty
  /\ \A n \in DOMAIN Sections(document) : Sections(document)[n].start \notin 2..i

\* A chunk's text is what the file has at the lines the chunk names, which is
\* what a result is cited by and what mark_stale looks for.
TextIsAtItsLines ==
  \A i \in DOMAIN chunks :
    LET c == chunks[i] IN
    ShiftedPreamble(c.first) \/ c.text = SubSeq(document, c.first, c.last)

\* No text is lost between the blocks, the groups and the cuts: every line
\* that is not empty is in a chunk, at its line.
EveryLineIsInAChunk ==
  \A n \in DOMAIN document :
    \/ document[n] = Empty
    \/ ShiftedPreamble(n)
    \/ \E i \in DOMAIN chunks :
         LET c == chunks[i] IN
         n \in c.first..c.last /\ c.text[n - c.first + 1] = document[n]

\* Only what cannot be cut is over the budget (a chunk marked indivisible):
\* one line, or a fence; and a fence is cut only where it shares a group with
\* other text, whose estimates added up to the budget and whose text did not.
CutsAreWhereTheyMayBe ==
  LET fencesIn(s) == LET b == SplitIntoBlocks(s.text, TRUE, FALSE) IN
        {Shifted(b[i], s.start - 1) : i \in {j \in DOMAIN b : b[j].atomic}}
      fences == IF format # "markdown" THEN {}
                ELSE UNION {fencesIn(Sections(document)[i]) : i \in DOMAIN Sections(document)}
      touched(f) ==
        {i \in DOMAIN chunks : chunks[i].first <= f.last /\ f.first <= chunks[i].last}
      holds(i, f) == chunks[i].first <= f.first /\ f.last <= chunks[i].last
  IN /\ \A i \in DOMAIN chunks :
          \/ EstimateTokens(chunks[i].text) <= ChunkBudget
          \/ Len(chunks[i].text) = 1
          \/ chunks[i].atomic
     /\ \A f \in fences :
          \/ \E i \in DOMAIN chunks : holds(i, f)
          \/ \E i \in touched(f) : chunks[i].first < f.first \/ chunks[i].last > f.last

=============================================================================
