-------------------------------- MODULE Stores --------------------------------
(***************************************************************************)
(* One manifest, several collections.  An index lives in a backend (Qdrant *)
(* or MongoDB) and an embedding space; `mirror` copies the active          *)
(* collection to the other backend (storage/store_mirror.py) and           *)
(* `reproject` derives a narrower space from it (search/reprojector.py,    *)
(* Manifest.copy_space), while an indexer may be at work.                  *)
(*                                                                         *)
(* The manifest knows spaces and not backends.  A copy is a scroll of the  *)
(* source in id order, written page by page; nothing holds the source      *)
(* still, and a command can be killed between any two calls.  The ladder   *)
(* of an index run is module Indexer's; here a file needs work or not.  A  *)
(* collection that does not exist is an empty one.                         *)
(***************************************************************************)
EXTENDS Naturals, FiniteSets, SequencesExt

CONSTANTS
  Files,
  ChunksOf,      \* [Revisions -> sets of chunks]
  Withheld,      \* revisions that hold a secret
  IdOrder,       \* the chunk ids, <<file, chunk>>, in the order of a scroll
  Missing,
  PageSize,      \* points per page and per write (256)
  MaxEdits,      \* bound: changes to files
  MaxSwitches,   \* bound: changes of the configured dimensions
  MaxCommands,   \* bound: copies started
  MaxCrashes     \* bound: processes killed

Revisions == DOMAIN ChunksOf
Spaces    == {"wide", "narrow"}
Backends  == {"home", "other"}
Ids       == ToSet(IdOrder)

IdsOf(f) == {id \in Ids : id[1] = f}

\* Chunker and chunk_id: what a revision of a file is cut into.
Produced(f, revision) == {f} \X ChunksOf[revision]

\* A file in hand, and a copy command under way.
Hand ==
  [file : Files, revision : Revisions, stale : SUBSET Ids, produced : SUBSET Ids,
   stage : {"upserted", "deleted"}]

Copy ==
  [kind : {"mirror", "reproject"}, from : Backends \X Spaces, to : Backends \X Spaces,
   stage : {"scroll", "chunks", "files", "done"}, at : 0..Len(IdOrder),
   page : SUBSET Ids, fresh : BOOLEAN, kept : SUBSET Ids, ever : SUBSET Ids,
   raced : BOOLEAN]

ASSUME StoresAssumption ==
  /\ \A f \in Files, r \in Revisions : Produced(f, r) \subseteq Ids
  /\ \A id \in Ids : id[1] \in Files
  /\ Withheld \subseteq Revisions /\ Withheld # Revisions
  /\ Missing \notin Files \cup Revisions \cup Hand \cup Copy
  /\ IdOrder \in Seq(Ids) /\ IsInjective(IdOrder)
  /\ PageSize \in Nat \ {0}
  /\ MaxEdits \in Nat /\ MaxSwitches \in Nat
  /\ MaxCommands \in Nat /\ MaxCrashes \in Nat

VARIABLES
  content,   \* [Files -> revision on disk, or Missing]
  edits,
  space,     \* the active space
  switches,
  row,       \* files: the revision recorded, or Missing
  marks,     \* file_spaces: [Spaces -> files that are complete]
  chunkRows, \* chunks: [Spaces -> ids]
  points,    \* [Backends -> [Spaces -> ids]]
  held,      \* the file in hand: its vectors are being written, or Missing
  victim,    \* the file being removed: its vectors went, its row has not
  copying,   \* the copy command under way, or Missing
  commands, crashes,
  lost,      \* files whose work was cut short (read by no step)
  spoiled    \* spaces derived while an indexer was at work (likewise)

outside    == <<content, edits>>
manifest   == <<row, marks, chunkRows>>
bounds     == <<switches, commands, crashes>>
storesVars ==
  <<outside, space, manifest, points, held, victim, copying, bounds, lost, spoiled>>

StoresTypeOK ==
  /\ content \in [Files -> Revisions \cup {Missing}] /\ edits \in 0..MaxEdits
  /\ space \in Spaces /\ switches \in 0..MaxSwitches
  /\ row \in [Files -> Revisions \cup {Missing}]
  /\ marks \in [Spaces -> SUBSET Files]
  /\ chunkRows \in [Spaces -> SUBSET Ids]
  /\ \A s \in Spaces :
       /\ \A f \in marks[s] : row[f] # Missing
       /\ \A id \in chunkRows[s] : row[id[1]] # Missing
  /\ points \in [Backends -> [Spaces -> SUBSET Ids]]
  /\ held \in Hand \cup {Missing} /\ victim \in Files \cup {Missing}
  /\ copying \in Copy \cup {Missing}
  /\ commands \in 0..MaxCommands /\ crashes \in 0..MaxCrashes
  /\ lost \subseteq Files /\ spoiled \subseteq Spaces

StoresInit ==
  /\ content \in [Files -> {CHOOSE r \in Revisions \ Withheld : TRUE}]
  /\ edits = 0 /\ space = "wide" /\ switches = 0
  /\ row = [f \in Files |-> Missing]
  /\ marks = [s \in Spaces |-> {}] /\ chunkRows = [s \in Spaces |-> {}]
  /\ points = [b \in Backends |-> [s \in Spaces |-> {}]]
  /\ held = Missing /\ victim = Missing /\ copying = Missing
  /\ commands = 0 /\ crashes = 0
  /\ lost = {} /\ spoiled = {}

Change(f, revision) ==
  /\ edits < MaxEdits /\ content[f] # revision
  /\ content' = [content EXCEPT ![f] = revision] /\ edits' = edits + 1
  /\ UNCHANGED <<space, manifest, points, held, victim, copying, bounds, lost, spoiled>>

IndexerIdle == held = Missing /\ victim = Missing

\* EMBEDDING_DIMENSIONS is changed, and the processes are restarted.
SwitchSpace(s) ==
  /\ s # space /\ switches < MaxSwitches
  /\ IndexerIdle /\ copying = Missing
  /\ space' = s /\ switches' = switches + 1
  /\ UNCHANGED <<outside, manifest, points, held, victim, copying, commands, crashes,
                 lost, spoiled>>

-----------------------------------------------------------------------------
(* The indexer, on the home backend and the active space.                  *)

\* A copy that reads from (b, s) sees points come and go: `kept` were there
\* all along, `ever` at some moment.
Seen(b, s, now) ==
  IF copying # Missing /\ copying.from = <<b, s>>
  THEN [copying EXCEPT !.kept = @ \cap now, !.ever = @ \cup now, !.raced = TRUE]
  ELSE copying

SetPoints(b, s, now) ==
  /\ points' = [points EXCEPT ![b][s] = now]
  /\ copying' = Seen(b, s, now)

Here == points["home"][space]

Needs(f) ==
  /\ content[f] \notin Withheld \cup {Missing}
  /\ row[f] # content[f] \/ f \notin marks[space]

\* _flush, first call: what the chunk rows do not have goes up.
Upsert(f) ==
  /\ IndexerIdle /\ Needs(f)
  /\ LET produced == Produced(f, content[f])
         known    == chunkRows[space] \cap IdsOf(f)
     IN /\ held' = [file |-> f, revision |-> content[f], stale |-> known \ produced,
                    produced |-> produced, stage |-> "upserted"]
        /\ SetPoints("home", space, Here \cup (produced \ known))
  /\ UNCHANGED <<outside, space, manifest, victim, bounds, lost, spoiled>>

\* Second call: what they have and the file no longer produces goes.
DeleteStale ==
  /\ held # Missing /\ held.stage = "upserted"
  /\ held' = [held EXCEPT !.stage = "deleted"]
  /\ SetPoints("home", space, Here \ held.stale)
  /\ UNCHANGED <<outside, space, manifest, victim, bounds, lost, spoiled>>

\* The manifest last.
RecordFile ==
  /\ held # Missing /\ held.stage = "deleted"
  /\ row' = [row EXCEPT ![held.file] = held.revision]
  /\ marks' = [marks EXCEPT ![space] = @ \cup {held.file}]
  /\ chunkRows' = [chunkRows EXCEPT ![space] = (@ \ held.stale) \cup held.produced]
  /\ copying' = Seen("home", space, Here)
  /\ held' = Missing
  /\ UNCHANGED <<outside, space, points, victim, bounds, lost, spoiled>>

\* _purge of a withheld file, and _remove_orphans of one that is gone: by
\* path, whatever the manifest knows.
RemovePoints(f) ==
  /\ IndexerIdle
  /\ content[f] \in Withheld \/ (content[f] = Missing /\ row[f] # Missing)
  /\ IdsOf(f) \cap Here # {} \/ row[f] # Missing
  /\ victim' = f
  /\ SetPoints("home", space, Here \ IdsOf(f))
  /\ UNCHANGED <<outside, space, manifest, held, bounds, lost, spoiled>>

\* Mutant: the rows of the active space only.
ForgetRowHere ==
  /\ victim # Missing
  /\ row' = [row EXCEPT ![victim] = Missing]
  /\ marks' = [marks EXCEPT ![space] = @ \ {victim}]
  /\ chunkRows' = [chunkRows EXCEPT ![space] = @ \ IdsOf(victim)]
  /\ copying' = Seen("home", space, Here)
  /\ victim' = Missing
  /\ UNCHANGED <<outside, space, points, held, bounds, lost, spoiled>>

\* forget_file: the rows of every space.
ForgetRow ==
  /\ victim # Missing
  /\ row' = [row EXCEPT ![victim] = Missing]
  /\ marks' = [s \in Spaces |-> marks[s] \ {victim}]
  /\ chunkRows' = [s \in Spaces |-> chunkRows[s] \ IdsOf(victim)]
  /\ copying' = Seen("home", space, Here)
  /\ victim' = Missing
  /\ UNCHANGED <<outside, space, points, held, bounds, lost, spoiled>>

-----------------------------------------------------------------------------
(* Copies.                                                                 *)

Command(kind, from, to) ==
  [kind |-> kind, from |-> from, to |-> to, stage |-> "scroll", at |-> 0,
   page |-> {}, fresh |-> FALSE,
   kept |-> points[from[1]][from[2]], ever |-> points[from[1]][from[2]],
   raced |-> ~IndexerIdle]

\* mirror --to other: --overwrite drops the target first.
StartMirror(overwrite) ==
  /\ copying = Missing /\ commands < MaxCommands
  /\ Here # {}
  /\ copying' = [Command("mirror", <<"home", space>>, <<"other", space>>)
                   EXCEPT !.fresh = overwrite]
  /\ points' = [points EXCEPT !["other"][space] = IF overwrite THEN {} ELSE @]
  /\ commands' = commands + 1
  /\ UNCHANGED <<outside, space, manifest, held, victim, switches, crashes, lost, spoiled>>

\* reproject: truncation only, so from the wider space.
StartReproject ==
  /\ copying = Missing /\ commands < MaxCommands
  /\ space = "wide"
  /\ copying' = Command("reproject", <<"home", "wide">>, <<"home", "narrow">>)
  /\ commands' = commands + 1
  /\ UNCHANGED <<outside, space, manifest, points, held, victim, switches, crashes,
                 lost, spoiled>>

Source == points[copying.from[1]][copying.from[2]]

\* Positions of the scroll that still hold a point.
Ahead == {i \in copying.at + 1..Len(IdOrder) : IdOrder[i] \in Source}

\* The next page: up to PageSize points in id order.
NextPage ==
  {i \in Ahead : Cardinality({j \in Ahead : j < i}) < PageSize}

Scroll ==
  /\ copying # Missing /\ copying.stage = "scroll" /\ copying.page = {}
  /\ Ahead # {}
  /\ copying' = [copying EXCEPT !.page = {IdOrder[i] : i \in NextPage},
                                !.at = CHOOSE i \in NextPage : \A j \in NextPage : j <= i]
  /\ UNCHANGED <<outside, space, manifest, points, held, victim, bounds, lost, spoiled>>

\* Mutant: only full pages are written.
WriteFullPage ==
  /\ copying # Missing /\ copying.page # {}
  /\ points' = [points EXCEPT ![copying.to[1]][copying.to[2]] =
                  IF Cardinality(copying.page) < PageSize THEN @ ELSE @ \cup copying.page]
  /\ copying' = [copying EXCEPT !.page = {}]
  /\ UNCHANGED <<outside, space, manifest, held, victim, bounds, lost, spoiled>>

\* upsert_points: points keyed by chunk id, the last page included.
WritePage ==
  /\ copying # Missing /\ copying.page # {}
  /\ points' = [points EXCEPT ![copying.to[1]][copying.to[2]] = @ \cup copying.page]
  /\ copying' = [copying EXCEPT !.page = {}]
  /\ UNCHANGED <<outside, space, manifest, held, victim, bounds, lost, spoiled>>

\* Mutant: the rows first, and then the vectors.
EndScrollEarly ==
  /\ copying # Missing /\ copying.stage = "scroll"
  /\ (Ahead = {} /\ copying.page = {}) \/ copying.kind = "reproject"
  /\ copying' = [copying EXCEPT !.stage = IF copying.kind = "mirror" THEN "done"
                                          ELSE "chunks"]
  /\ UNCHANGED <<outside, space, manifest, points, held, victim, bounds, lost, spoiled>>

EndScroll ==
  /\ copying # Missing /\ copying.stage = "scroll" /\ copying.page = {} /\ Ahead = {}
  /\ copying' = [copying EXCEPT !.stage = IF copying.kind = "mirror" THEN "done"
                                          ELSE "chunks"]
  /\ UNCHANGED <<outside, space, manifest, points, held, victim, bounds, lost, spoiled>>

\* copy_space, the first of its two statements: rows are added and updated,
\* and those the target had are left.
CopyChunkRows ==
  /\ copying # Missing /\ copying.stage = "chunks"
  /\ chunkRows' = [chunkRows EXCEPT !["narrow"] = @ \cup chunkRows["wide"]]
  /\ copying' = [copying EXCEPT !.stage = "files"]
  /\ spoiled' = IF copying.raced THEN spoiled \cup {"narrow"} ELSE spoiled
  /\ UNCHANGED <<outside, space, row, marks, points, held, victim, bounds, lost>>

\* The second.
CopyFileRows ==
  /\ copying # Missing /\ copying.stage = "files"
  /\ marks' = [marks EXCEPT !["narrow"] = @ \cup marks["wide"]]
  /\ copying' = [copying EXCEPT !.stage = "done"]
  /\ spoiled' = IF copying.raced THEN spoiled \cup {"narrow"} ELSE spoiled
  /\ UNCHANGED <<outside, space, row, chunkRows, points, held, victim, bounds, lost>>

EndCommand ==
  /\ copying # Missing /\ copying.stage = "done"
  /\ copying' = Missing
  /\ UNCHANGED <<outside, space, manifest, points, held, victim, bounds, lost, spoiled>>

\* The copy is killed, or the indexer with a file in hand.
Kill ==
  /\ crashes < MaxCrashes /\ crashes' = crashes + 1
  /\ \/ copying # Missing /\ copying' = Missing /\ UNCHANGED <<held, victim, lost>>
     \/ /\ ~IndexerIdle /\ held' = Missing /\ victim' = Missing
        /\ lost' = lost \cup ({victim} \ {Missing})
                        \cup (IF held # Missing /\ held.stage = "deleted"
                              THEN {held.file} ELSE {})
        /\ UNCHANGED copying
  /\ UNCHANGED <<outside, space, manifest, points, switches, commands, spoiled>>

StoresNext ==
  \/ \E f \in Files : \E r \in Revisions \cup {Missing} : Change(f, r)
  \/ \E s \in Spaces : SwitchSpace(s)
  \/ \E f \in Files : Upsert(f) \/ RemovePoints(f)
  \/ DeleteStale \/ RecordFile \/ ForgetRow
  \/ \E o \in BOOLEAN : StartMirror(o)
  \/ StartReproject
  \/ Scroll \/ WritePage \/ EndScroll \/ CopyChunkRows \/ CopyFileRows \/ EndCommand
  \/ Kill

StoresSpec == StoresInit /\ [][StoresNext]_storesVars

-----------------------------------------------------------------------------
(* Properties.                                                             *)

InHand(f) == f = victim \/ (held # Missing /\ f = held.file)

(* What the manifest says is in a space is in its collection, for spaces   *)
(* that were derived as well as for those that were indexed, and after any *)
(* number of copies that were killed half way.  The exceptions are files   *)
(* whose own work was cut short (module Indexer has that run), and spaces  *)
(* derived while an indexer wrote to the source, which nothing forbids.    *)
(* (reproject, copy_space, _flush)                                         *)
ClaimedIsStored ==
  \A s \in Spaces \ spoiled : \A id \in chunkRows[s] :
    id \in points["home"][s] \/ id[1] \in lost \/ InHand(id[1])

(* A mirror that ends has every point that was in the source all along,    *)
(* whatever was written there meanwhile and however often it was resumed,  *)
(* and with --overwrite it has no point that the source did not have.      *)
(* (StoreMirror.mirror)                                                    *)
MirrorHoldsSource ==
  copying # Missing /\ copying.kind = "mirror" /\ copying.stage = "done" =>
    LET target == points[copying.to[1]][copying.to[2]] IN
    /\ copying.kept \subseteq target
    /\ copying.fresh => target \subseteq copying.ever

=============================================================================
