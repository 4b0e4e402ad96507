---------------------------- MODULE ClassicBody ----------------------------
(***************************************************************************)
(* The body codec of classic tags (classic.rs) around the block editor.    *)
(*                                                                         *)
(* A classic body has no lengths of its own: the root's fixed bytes, then, *)
(* in the order of the fields, each block's header, fixed bytes and the    *)
(* data of its elements.  Whether a block is there at all is said by an    *)
(* inline word of the root.  Halo CE blocks have no header and the inline  *)
(* word is their count; a Halo 2 block's header gives its version, count   *)
(* and element size, and its inline word counts only as zero or not.  One  *)
(* word too many or too few puts everything after it out of step.          *)
(*                                                                         *)
(* A file is a sequence of words; sizes and lengths count words.  The root *)
(* has one word per block.  Its own header, inline structs, references and *)
(* string ids are left out.                                                *)
(***************************************************************************)
EXTENDS TagBlock

CONSTANTS
  BlockOrder,  \* the root's block fields in order
  Scripted,    \* the blocks a script edits
  Files        \* the files a run starts from: engine, layout and words

VARIABLES
  engine,      \* HaloCe, Halo2V1 (12-byte headers) or Halo2V2 (16-byte ones)
  inline,      \* inline[b]: the root's word for block b
  trailing,    \* what follows the structured body (Halo 2 root only)
  disk,        \* the body of the file
  edited       \* whether the tag was edited after it was opened or saved

bodyVars == <<blockVars, engine, inline, trailing, disk, edited>>

(* A legacy count is a signed half.                                        *)
Limit == HalfRange \div 2

(* A file has the root's words, one for each block; every block has its    *)
(* place in the root.  What a script adds can be counted in any header.    *)
ASSUME BodyAssumption ==
  /\ BlockOrder \in Seq(BlockName)
  /\ \A b \in BlockName : \E k \in DOMAIN BlockOrder : BlockOrder[k] = b
  /\ \A j, k \in DOMAIN BlockOrder : BlockOrder[j] = BlockOrder[k] => j = k
  /\ Scripted \subseteq BlockName
  /\ \A f \in Files : /\ f.engine \in {"HaloCe", "Halo2V1", "Halo2V2"}
                      /\ f.layout \in Layouts
                      /\ f.words \in Seq(Word) /\ Len(f.words) >= Len(BlockOrder)
  /\ MaxElements \in 0..(Limit - 1)
  /\ \A d \in Blob : Len(d) < Limit

IsHalo2(eng) == eng # "HaloCe"
LegacyHeader(eng) == eng = "Halo2V1"

(* Files are shorter than a half's range: a word that fits has no high half.*)
Fits(word, n) == word[2] = 0 /\ word[1] <= n
Drop(s, n) == SubSeq(s, n + 1, Len(s))

ResolveVersion(lay, version) ==
  IF Fits(version, Len(lay.versions) - 1) THEN lay.versions[version[1] + 1] ELSE lay.base

InferVersion(lay, variant) ==
  LET at == {k \in DOMAIN lay.versions : lay.versions[k] = variant}
  IN  IF at = {} THEN 0 ELSE (CHOOSE k \in at : \A j \in at : k <= j) - 1
-----------------------------------------------------------------------------
(***************************************************************************)
(* Block headers.  The legacy form packs version and count in one word. A  *)
(* legacy count is signed: a negative one is larger than any file, and so  *)
(* is the half that stands for it here.                                    *)
(***************************************************************************)
HeaderWords(eng) == IF LegacyHeader(eng) THEN 3 ELSE 4

Header(eng, version, count, size) ==
  IF LegacyHeader(eng)
  THEN <<Signature, <<version, count % HalfRange>>, U32(size)>>
  ELSE <<Signature, U32(version), U32(count), U32(size)>>

HeaderVersion(eng, h) == IF LegacyHeader(eng) THEN <<h[2][1], 0>> ELSE h[2]
HeaderCount(eng, h)   == IF LegacyHeader(eng) THEN <<h[2][2], 0>> ELSE h[3]
HeaderSize(h)         == h[Len(h)]

WithCount(h, n) ==
  IF Len(h) = 3 THEN [h EXCEPT ![2] = <<@[1], n % HalfRange>>]
                ELSE [h EXCEPT ![3] = U32(n)]
-----------------------------------------------------------------------------
(***************************************************************************)
(* Decoding.  The cursor is what is left of the file; ok is FALSE once the *)
(* decoder has given up.                                                   *)
(***************************************************************************)
CheckedBlockExtent(count, size, rest) ==
  \/ count = Zero
  \/ /\ size # Zero
     /\ Fits(count, Len(rest)) /\ Fits(size, Len(rest))
     /\ count[1] * size[1] <= Len(rest)

(* The data of one element.  An element too short to hold the length word  *)
(* has no data sub-chunk.                                                  *)
DecodeElement(c, raw, variant) ==
  IF Len(raw) < 2
  THEN [c EXCEPT !.elements = Append(@, Tree(variant, <<>>))]
  ELSE IF c.ok /\ Fits(raw[2], Len(c.rest))
  THEN [c EXCEPT !.rest = Drop(@, raw[2][1]),
                 !.elements = Append(@, Tree(variant, <<SubSeq(c.rest, 1, raw[2][1])>>))]
  ELSE [c EXCEPT !.ok = FALSE]

Failed(rest) == [ok |-> FALSE, rest |-> rest, block |-> EmptyBlock]

(* The data of n elements, one after the other.                            *)
ReadElements(raw, size, variant, rest, n) ==
  LET start == [ok |-> TRUE, rest |-> rest, elements |-> <<>>]
      after[i \in 0..n] ==
        IF i = 0 THEN start ELSE DecodeElement(after[i - 1], Slice(raw, size, i), variant)
  IN  after[n]

DecodeElements(header, count, size, variant, rest) ==
  IF ~CheckedBlockExtent(count, size, rest) THEN Failed(rest)
  ELSE LET raw == SubSeq(rest, 1, count[1] * size[1])
           end == ReadElements(raw, size[1], variant, Drop(rest, Len(raw)), count[1])
       IN  [ok |-> end.ok, rest |-> end.rest,
            block |-> BlockData(raw, end.elements, header, FALSE)]

(* A zero inline word is an empty block, which has no header.              *)
DecodeBlock(eng, lay, word, rest) ==
  LET n == HeaderWords(eng)
      h == SubSeq(rest, 1, n)
  IN  IF word = Zero THEN [Failed(rest) EXCEPT !.ok = TRUE]
      ELSE IF ~IsHalo2(eng)
      THEN DecodeElements(<<>>, word, U32(lay.width[lay.base]), lay.base, rest)
      ELSE IF Len(rest) < n THEN Failed(rest)
      ELSE DecodeElements(h, HeaderCount(eng, h), HeaderSize(h),
                          ResolveVersion(lay, HeaderVersion(eng, h)), Drop(rest, n))

Place(b) == CHOOSE k \in DOMAIN BlockOrder : BlockOrder[k] = b

(* The root's blocks, one after the other.                                 *)
DecodeNext(eng, lay, word, c, b) ==
  LET d == DecodeBlock(eng, lay, word[b], c.rest)
  IN  [ok |-> c.ok /\ d.ok, rest |-> d.rest, blocks |-> [c.blocks EXCEPT ![b] = d.block]]

ReadRoot(eng, lay, word, rest) ==
  LET start == [ok |-> TRUE, rest |-> rest, blocks |-> [b \in BlockName |-> EmptyBlock]]
      after[k \in 0..Len(BlockOrder)] ==
        IF k = 0 THEN start ELSE DecodeNext(eng, lay, word, after[k - 1], BlockOrder[k])
  IN  after[Len(BlockOrder)]

(* What is left over is kept for Halo 2 and an error for Halo CE.          *)
Decode(eng, lay, words) ==
  LET word == [b \in BlockName |-> words[Place(b)]]
      end  == ReadRoot(eng, lay, word, Drop(words, Len(BlockOrder)))
  IN  [ok |-> end.ok /\ (IsHalo2(eng) \/ end.rest = <<>>),
       blocks |-> end.blocks, inline |-> word, trailing |-> end.rest]
-----------------------------------------------------------------------------
(***************************************************************************)
(* Encoding.  Inline words and data lengths are set in a copy of the fixed *)
(* words.  A block's own inline word is synced in Halo CE, and in Halo 2   *)
(* only once the block is dirty: until then it may be any word not zero.   *)
(***************************************************************************)
SyncInlineAlways(b) == U32(Count(b))   \* mutant

SyncInline(b) ==
  IF ~IsHalo2(engine) \/ blocks[b].dirty THEN U32(Count(b)) ELSE inline[b]

SyncFixedCounts(raw, tree) ==
  IF Len(raw) < 2 \/ tree.data = <<>> THEN raw ELSE [raw EXCEPT ![2] = U32(Len(tree.data[1]))]

(* Mutant: a header in hand is never rebuilt.                              *)
HeaderKept(b) ==
  LET block   == blocks[b]
      version == InferVersion(layout, block.elements[1].variant)
  IN  IF ~IsHalo2(engine) \/ Count(b) = 0 THEN <<>>
      ELSE IF block.header = <<>>
      THEN Header(engine, version, Count(b), Len(block.raw) \div Count(b))
      ELSE WithCount(block.header, Count(b))

(* A header in hand is rebuilt only if the block is dirty, the header has  *)
(* the 16-byte form and the engine is a Halo 2; otherwise its count is set *)
(* and the rest kept.  An empty Halo 2 block has none whatever is in hand. *)
CanonicalHeader(b) ==
  LET block   == blocks[b]
      size    == Len(block.raw) \div Count(b)
      version == InferVersion(layout, block.elements[1].variant)
  IN  IF IsHalo2(engine) /\ Count(b) = 0 THEN <<>>
      ELSE IF block.header = <<>>
      THEN IF IsHalo2(engine) THEN Header(engine, version, Count(b), size) ELSE <<>>
      ELSE IF IsHalo2(engine) /\ block.dirty /\ Len(block.header) = 4
      THEN <<Signature, U32(version), U32(Count(b)), U32(size)>>
      ELSE WithCount(block.header, Count(b))

EncodeBlock(b) ==
  LET size == ElementSize(b)
      tree(i) == blocks[b].elements[i]
      each(Op(_)) == FlattenSeq([i \in 1..Count(b) |-> Op(i)])
      fixed(i) == SyncFixedCounts(Slice(blocks[b].raw, size, i), tree(i))
      data(i) == FlattenSeq(tree(i).data)
  IN  CanonicalHeader(b) \o each(fixed) \o each(data)

Encode ==
  [k \in 1..Len(BlockOrder) |-> SyncInline(BlockOrder[k])]
    \o FlattenSeq([k \in 1..Len(BlockOrder) |-> EncodeBlock(BlockOrder[k])])
    \o trailing
-----------------------------------------------------------------------------
Init ==
  /\ InitBlocks
  /\ edited = FALSE
  /\ \E f \in Files :
       LET d == Decode(f.engine, f.layout, f.words)
       IN  /\ d.ok
           /\ engine = f.engine /\ layout = f.layout /\ disk = f.words
           /\ blocks = d.blocks /\ inline = d.inline /\ trailing = d.trailing

EditTag ==
  /\ \E b \in Scripted : EditBlock(b)
  /\ edited' = (edited \/ blocks' # blocks)
  /\ UNCHANGED <<engine, inline, trailing, disk>>

(* Encoding leaves the tag in memory as it is.                             *)
Save ==
  /\ disk' = Encode
  /\ edited' = FALSE
  /\ UNCHANGED <<blockVars, engine, inline, trailing>>

(* A file the decoder gives up on is not opened.                           *)
Open ==
  LET d == Decode(engine, layout, disk)
  IN  /\ d.ok
      /\ blocks' = d.blocks /\ inline' = d.inline /\ trailing' = d.trailing
      /\ edited' = FALSE
      /\ UNCHANGED <<layout, clip, engine, disk>>

Next == EditTag \/ Save \/ Open

Spec == Init /\ [][Next]_bodyVars
-----------------------------------------------------------------------------
(* Types; and a Halo CE body has neither headers nor anything after it.    *)
BodyTypeOK ==
  /\ BlockTypeOK
  /\ inline \in [BlockName -> Word]
  /\ disk \in Seq(Word)
  /\ ~IsHalo2(engine) => /\ trailing = <<>>
                         /\ \A b \in BlockName : blocks[b].header = <<>>

(***************************************************************************)
(* write_classic_body's comment: "structural edits (add/remove block       *)
(* elements, resize data) serialize correctly".  The file a save would     *)
(* write opens, and reads back with the elements that are in memory.  A    *)
(* data field that is not there reads as an empty one.                     *)
(***************************************************************************)
Reading(raw, tree) ==
  [fixed   |-> [k \in 1..Len(raw) |-> IF k = 2 THEN Zero ELSE raw[k]],
   variant |-> tree.variant,
   data    |-> FlattenSeq(tree.data)]

Readings(lay, bs) ==
  [b \in BlockName |->
    LET n == Len(bs[b].elements)
    IN  [i \in 1..n |-> Reading(Slice(bs[b].raw, Len(bs[b].raw) \div n, i), bs[b].elements[i])]]

SavedEditsReadBack ==
  LET d == Decode(engine, layout, Encode)
  IN  /\ d.ok
      /\ Readings(layout, d.blocks) = Readings(layout, blocks)
      /\ d.trailing = trailing

(***************************************************************************)
(* The same comment: for an unmodified tree "read->write stays             *)
(* byte-exact", inline words that are not counts included.                 *)
(***************************************************************************)
UntouchedIsByteExact == ~edited => Encode = disk
-----------------------------------------------------------------------------
(***************************************************************************)
(* The files for which all this holds, in every state that can be reached. *)
(* The shapes are the widths and variants of the elements in the file, and *)
(* that of a new element.  A sound file has a data field in every element, *)
(* one variant for a width (a snapshot is checked for its width alone),    *)
(* and no block with a header and no elements (the encoder leaves such a   *)
(* header out, and the inline word in).  Where the 16-byte header is not   *)
(* the engine's own, the layout must not ask the editor for one and every  *)
(* element is as wide as a new one: a legacy header keeps its size.        *)
(***************************************************************************)
Shape(size, variant) == [size |-> size, variant |-> variant]

Shapes(lay, bs) ==
  {Shape(lay.width[lay.base], lay.base)}
    \cup {Shape(WidthOf(bs[b]), bs[b].elements[1].variant) :
             b \in {c \in BlockName : bs[c].elements # <<>>}}

SoundShapes(eng, lay, shapes) ==
  /\ \A s \in shapes :
       /\ s.size \in 2..(Limit - 1)
       /\ IF lay.versions = <<>> THEN s.variant = lay.base ELSE s.variant \in Range(lay.versions)
       /\ \A t \in shapes : s.size = t.size => s = t
       /\ eng # "Halo2V2" => ~lay.h2 /\ s.size = lay.width[lay.base]
  /\ Len(lay.versions) < HalfRange

SoundFile(f) ==
  LET d == Decode(f.engine, f.layout, f.words)
  IN  d.ok => /\ Len(f.words) < Limit
              /\ SoundShapes(f.engine, f.layout, Shapes(f.layout, d.blocks))
              /\ \A b \in BlockName : d.blocks[b].elements = <<>> => d.inline[b] = Zero
=============================================================================
