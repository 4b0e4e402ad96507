------------------------------ MODULE TagBlock ------------------------------
(***************************************************************************)
(* The in-memory tag block (data.rs TagBlockData) and its editor (api.rs   *)
(* TagBlockMut).  A block keeps its elements twice over: one flat buffer   *)
(* with every element's fixed bytes, and one struct tree per element; each *)
(* edit changes both.  An element's width is the buffer's length over the  *)
(* number of elements: in a Halo 2 block it is what the block header       *)
(* declared, and neither the layout's nor another block's.                 *)
(*                                                                         *)
(* The unit of the buffer is a word of two 16-bit halves.  The structs     *)
(* have two fields: a plain one in word 1, and in word 2 the length of a   *)
(* data field, whose bytes are in the tree; further words are padding.     *)
(***************************************************************************)
EXTENDS Naturals, FiniteSets, Sequences, SequencesExt

CONSTANTS
  BlockName,   \* the blocks of the tag; they have one element struct
  Layouts,     \* the layouts a tag may have: see Layout
  Image(_),    \* Image(l): the blocks a tag of layout l may be read with
  Datum,       \* what a script writes to a plain field
  Blob,        \* what a script writes to a data field
  MaxElements  \* bound on the elements of a block

VARIABLES
  layout,      \* the tag's layout; it never changes
  blocks,      \* blocks[b]: the TagBlockData of block b
  clip         \* the TagBlockElement in hand: <<>> or <<snapshot>>

blockVars == <<layout, blocks, clip>>

(* A layout: the latest struct variant, the variants by version (none if   *)
(* the struct has no versions), the words of each variant and whether      *)
(* looks_like_h2_classic_layout holds of it.                               *)
Layout(l) ==
  /\ DOMAIN l = {"base", "versions", "width", "h2"}
  /\ l.base \in DOMAIN l.width
  /\ l.versions \in Seq(DOMAIN l.width)
  /\ l.versions # <<>> => l.h2

Word == Nat \X Nat
Zero == <<0, 0>>
HalfRange == 65536
U32(n) == <<n % HalfRange, n \div HalfRange>>
Signature == <<25188, 29798>>            \* dfbt

(* A struct tree: the variant the element uses and its data field, <<>> if *)
(* the tree has no such sub-chunk and <<bytes>> if it has.                 *)
Variant == UNION {DOMAIN l.width : l \in Layouts}
TreeType == [variant : Variant, data : Seq(Seq(Word))]
Tree(v, data) == [variant |-> v, data |-> data]
NewDefault(v) == Tree(v, <<<<>>>>)

BlockData(raw, elements, header, dirty) ==
  [raw |-> raw, elements |-> elements, header |-> header, dirty |-> dirty]

EmptyBlock == BlockData(<<>>, <<>>, <<>>, FALSE)

(* The blocks a tag may be read with, and every width of an element: those *)
(* of the layouts and those that were read.                                *)
ReadBlocks == {image[b] : image \in UNION {Image(l) : l \in Layouts}, b \in BlockName}
WidthOf(block) == Len(block.raw) \div Len(block.elements)
FilledBlocks == {x \in ReadBlocks : x.elements # <<>>}
Widths == (UNION {Range(l.width) : l \in Layouts}) \cup {WidthOf(x) : x \in FilledBlocks}

(* The struct is not empty, and a reader makes blocks of whole elements.   *)
ASSUME BlockAssumption ==
  /\ \A l \in Layouts : /\ Layout(l)
                        /\ \A image \in Image(l) : image \in [BlockName -> ReadBlocks]
  /\ Widths \subseteq Nat \ {0}
  /\ \A x \in ReadBlocks :
       /\ x = BlockData(x.raw, x.elements, x.header, x.dirty)
       /\ x.raw \in Seq(Word) /\ x.elements \in Seq(TreeType) /\ x.dirty \in BOOLEAN
       /\ x.header \in Seq(Word) /\ Len(x.header) \in {0, 3, 4}
       /\ IF x.elements = <<>> THEN x.raw = <<>>
          ELSE Len(x.raw) = Len(x.elements) * WidthOf(x)
  /\ Datum \subseteq Word /\ Blob \subseteq Seq(Word)

Count(b) == Len(blocks[b].elements)

ElementSize(b) ==
  IF blocks[b].elements # <<>> /\ blocks[b].raw # <<>>
  THEN Len(blocks[b].raw) \div Count(b)
  ELSE layout.width[layout.base]

ElementStruct(b) ==
  IF blocks[b].elements # <<>> THEN blocks[b].elements[1].variant ELSE layout.base

(* Element i's words, for a width of size words.                           *)
Slice(raw, size, i) == SubSeq(raw, (i - 1) * size + 1, i * size)
ElementRaw(b, i) == Slice(blocks[b].raw, ElementSize(b), i)

(* Vec::splice and Vec::drain on the flat buffer, at element boundaries.   *)
Splice(raw, size, i, words) ==
  SubSeq(raw, 1, (i - 1) * size) \o words \o SubSeq(raw, (i - 1) * size + 1, Len(raw))
Drain(raw, size, i) ==
  SubSeq(raw, 1, (i - 1) * size) \o SubSeq(raw, i * size + 1, Len(raw))

(* Mutant: whatever the layout looks like.                                 *)
EnsureHeaderAlways(b, size) ==
  IF blocks[b].header # <<>> \/ blocks[b].elements # <<>>
  THEN blocks[b].header
  ELSE <<Signature, Zero, Zero, U32(size)>>

EnsureH2Header(b, size) ==
  IF blocks[b].header # <<>> \/ blocks[b].elements # <<>> \/ ~layout.h2
  THEN blocks[b].header
  ELSE <<Signature, Zero, Zero, U32(size)>>

(* Every structural edit marks the block dirty.                            *)
Become(b, raw, elements, header) ==
  /\ blocks' = [blocks EXCEPT ![b] = BlockData(raw, elements, header, TRUE)]
  /\ UNCHANGED <<layout, clip>>
-----------------------------------------------------------------------------
(* add_element is insert_element at the end.                               *)
InsertElement(b, i) ==
  LET size  == ElementSize(b)
      fresh == NewDefault(ElementStruct(b))
  IN  Become(b, Splice(blocks[b].raw, size, i, [k \in 1..size |-> Zero]),
                InsertAt(blocks[b].elements, i, fresh),
                EnsureH2Header(b, size))

DuplicateElement(b, i) ==
  Become(b, Splice(blocks[b].raw, ElementSize(b), i + 1, ElementRaw(b, i)),
            InsertAt(blocks[b].elements, i + 1, blocks[b].elements[i]),
            blocks[b].header)

DeleteElement(b, i) ==
  Become(b, Drain(blocks[b].raw, ElementSize(b), i),
            RemoveAt(blocks[b].elements, i),
            blocks[b].header)

(* The lower region takes the higher one's words, then the other way round *)
(* from a copy.                                                            *)
Exchange(raw, size, i, j) ==
  LET at(k) == (k - 1) \div size + 1
  IN  [k \in 1..Len(raw) |->
         CASE at(k) = i -> raw[k + (j - 1) * size - (i - 1) * size]
           [] at(k) = j -> raw[k + (i - 1) * size - (j - 1) * size]
           [] OTHER     -> raw[k]]

SwapElements(b, i, j) ==
  /\ i # j
  /\ Become(b, Exchange(blocks[b].raw, ElementSize(b), i, j),
               [blocks[b].elements EXCEPT ![i] = blocks[b].elements[j],
                                          ![j] = blocks[b].elements[i]],
               blocks[b].header)

(* Mutant: the words go to where the target was before the removal.        *)
MoveToOldPlace(b, from, to) ==
  LET size == ElementSize(b)
      at   == IF from < to THEN to - 1 ELSE to
  IN  /\ from # to
      /\ Become(b, Splice(Drain(blocks[b].raw, size, from), size, at, ElementRaw(b, from)),
                   InsertAt(RemoveAt(blocks[b].elements, from), to, blocks[b].elements[from]),
                   blocks[b].header)

MoveElement(b, from, to) ==
  LET size == ElementSize(b)
  IN  /\ from # to
      /\ Become(b, Splice(Drain(blocks[b].raw, size, from), size, to, ElementRaw(b, from)),
                   InsertAt(RemoveAt(blocks[b].elements, from), to, blocks[b].elements[from]),
                   blocks[b].header)

(* The header stays: the encoder leaves it out of an empty block.          *)
ClearBlock(b) == Become(b, <<>>, <<>>, blocks[b].header)

ElementSnapshot(b, i) ==
  /\ clip' = <<[raw |-> ElementRaw(b, i), tree |-> blocks[b].elements[i]]>>
  /\ UNCHANGED <<layout, blocks>>

(* Mutant: the snapshot's width is not checked.                            *)
PasteAnyWidth(b, i) ==
  /\ clip # <<>>
  /\ Become(b, Splice(blocks[b].raw, ElementSize(b), i, clip[1].raw),
               InsertAt(blocks[b].elements, i, clip[1].tree),
               EnsureH2Header(b, ElementSize(b)))

(* The snapshot must have the block's element struct, which all blocks     *)
(* here have, and the width of its elements; otherwise it is Incompatible. *)
PasteElement(b, i) ==
  /\ clip # <<>>
  /\ Len(clip[1].raw) = ElementSize(b)
  /\ Become(b, Splice(blocks[b].raw, ElementSize(b), i, clip[1].raw),
               InsertAt(blocks[b].elements, i, clip[1].tree),
               EnsureH2Header(b, ElementSize(b)))

(* set_field through element_mut: a plain field lives in the buffer; a     *)
(* data field in the tree, which refuses one the tree has no place for.    *)
WritePlain(b, i, d) ==
  /\ blocks' = [blocks EXCEPT ![b].raw[(i - 1) * ElementSize(b) + 1] = d]
  /\ UNCHANGED <<layout, clip>>

WriteData(b, i, d) ==
  /\ blocks[b].elements[i].data # <<>>
  /\ blocks' = [blocks EXCEPT ![b].elements[i].data = <<d>>]
  /\ UNCHANGED <<layout, clip>>
-----------------------------------------------------------------------------
InitBlocks ==
  /\ layout \in Layouts
  /\ blocks \in Image(layout)
  /\ clip = <<>>

(* The editor's edits, its index guards and the bound.                     *)
Grow(b) ==
  /\ Count(b) < MaxElements
  /\ \/ \E i \in 1..(Count(b) + 1) : InsertElement(b, i) \/ PasteElement(b, i)
     \/ \E i \in 1..Count(b) : DuplicateElement(b, i)

Rearrange(b) ==
  \/ ClearBlock(b)
  \/ \E i \in 1..Count(b) :
       \/ DeleteElement(b, i)
       \/ \E j \in 1..Count(b) : SwapElements(b, i, j) \/ MoveElement(b, i, j)

SetField(b) ==
  \E i \in 1..Count(b) :
    \/ ElementSnapshot(b, i)
    \/ \E d \in Datum : WritePlain(b, i, d)
    \/ \E d \in Blob : WriteData(b, i, d)

EditBlock(b) == Grow(b) \/ Rearrange(b) \/ SetField(b)

NextEdit == \E b \in BlockName : EditBlock(b)

BlockSpec == InitBlocks /\ [][NextEdit]_blockVars
-----------------------------------------------------------------------------
(* Types; and the buffer holds the elements, each of the same width.       *)
BlockTypeOK ==
  /\ Layout(layout)
  /\ \A b \in BlockName :
       /\ blocks[b].raw \in Seq(Word)
       /\ blocks[b].elements \in Seq(TreeType)
       /\ Len(blocks[b].header) \in {0, 3, 4}
       /\ Len(blocks[b].raw) = Count(b) * ElementSize(b)

(***************************************************************************)
(* TagBlockData's comment: element i's bytes are the i-th region of the    *)
(* buffer.  The block is the sequence of pairs of a region and a tree, and *)
(* every edit does to those pairs what it should do to the elements        *)
(* (ElementSeq).                                                           *)
(***************************************************************************)
Held(raw, tree) == [raw |-> raw, tree |-> tree]
Fresh(size, v) == Held([k \in 1..size |-> Zero], NewDefault(v))

Content ==
  [b \in BlockName |-> [i \in 1..Count(b) |-> Held(ElementRaw(b, i), blocks[b].elements[i])]]

Tag == INSTANCE ElementSeq WITH
  Block   <- BlockName,
  Element <- [raw : Seq(Word), tree : TreeType],
  Blank   <- {Fresh(size, v) : size \in Widths, v \in Variant},
  content <- Content,
  clip    <- clip

ImplementsElementSeq == Tag!Spec
=============================================================================
