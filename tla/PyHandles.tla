----------------------------- MODULE PyHandles -----------------------------
(***************************************************************************)
(* The Python handles of blam-tags-py (src/manual/handles.rs).             *)
(*                                                                         *)
(* A handle does not borrow the tag: it stores an anchor, a field path and *)
(* the number of structural edits the file had seen, and walks the path    *)
(* again on every access.  The file keeps the path of every structural     *)
(* edit, and check_generation refuses a handle when a later edit landed on *)
(* a block that contains what the handle addresses.  This module models    *)
(* the tag's block tree, the edit log, the ways of making a handle and the *)
(* edits made through one; the question is whether a handle that is not    *)
(* refused still addresses what it was made for.                           *)
(*                                                                         *)
(* Elements are nodes with an identity, which the code does not have: it   *)
(* is what "the same element" means.  Inline structs, arrays and resources *)
(* (path steps no structural edit touches) and scalar fields are left out. *)
(***************************************************************************)
EXTENDS Naturals, FiniteSets, Sequences, SequencesExt

CONSTANTS
  Node,        \* element identities, the anchors' own structs included
  Field,       \* block field names
  Anchor,      \* the top-level structs a handle may start from
  Positions,   \* the block fields the layouts have: an anchor, then field names
  RootOf,      \* RootOf[a]: the node of anchor a's struct
  Optional,    \* the anchors whose stream can be attached and removed
  InitKids,    \* the block contents of the tag as read
  InitPlace,   \* the position of every node of the tag as read
  InitUsed,    \* the nodes of the tag as read
  TypedIndices,\* the subscripts a script types; 0 is none
  MaxEdits,    \* bound on the edit log
  MaxHandles   \* bound on the live handles

ASSUME HandleAssumption ==
  /\ Positions \subseteq Seq(Anchor \cup Field)
  /\ Optional \subseteq Anchor
  /\ RootOf \in [Anchor -> Node]
  /\ InitUsed \subseteq Node
  /\ InitKids \in [Node -> [Field -> Seq(Node)]]
  /\ InitPlace \in [Node -> Seq(Anchor \cup Field)]
  /\ \A a \in Anchor : RootOf[a] \in InitUsed /\ InitPlace[RootOf[a]] = <<a>>
  /\ \A n \in Node, f \in Field :
       /\ InitKids[n][f] \in Seq({m \in InitUsed : InitPlace[m] = Append(InitPlace[n], f)})
       /\ n \notin InitUsed => InitKids[n][f] = <<>>
  /\ TypedIndices \subseteq Nat
  /\ MaxEdits \in Nat /\ MaxHandles \in Nat

VARIABLES
  kids,      \* kids[n][f]: the elements of block f of struct n, in order
  place,     \* place[n]: the position of the block node n belongs to
  used,      \* the nodes handed out so far; an identity is never reused
  attached,  \* the anchors whose struct exists
  log,       \* PyTagFile.1: the path of every structural edit
  handles    \* the handles Python holds

vars == <<kids, place, used, attached, log, handles>>

(***************************************************************************)
(* Paths.  A segment names a field, carries the field's ordinal or not     *)
(* (pinned) and selects an element; element k of the code is index k + 1   *)
(* here and index 0 is "no subscript".                                     *)
(***************************************************************************)
Segment == [field : Field, pinned : BOOLEAN, index : Nat]

Pinned(f) == [field |-> f, pinned |-> TRUE, index |-> 0]

(* The position of the field path p leads to from anchor a.                *)
PositionOf(a, p) == <<a>> \o [i \in 1..Len(p) |-> p[i].field]

WithIndex(p, k) == [p EXCEPT ![Len(p)].index = k]

(* Mutant: only a longer path has an ancestor.                             *)
IsProperAncestorOf(e, p) ==
  /\ Len(e) < Len(p)
  /\ \A i \in 1..Len(e) : e[i].field = p[i].field /\ e[i].pinned = p[i].pinned

IsAncestorOf(e, p) ==
  /\ Len(e) <= Len(p)
  /\ \A i \in 1..Len(e) : e[i].field = p[i].field /\ e[i].pinned = p[i].pinned

(* Mutants: the subscript does not count; or the block counts as inside.   *)
LandsAboveDeeper(e, p) == IsAncestorOf(e, p) /\ Len(p) > Len(e)
LandsAboveOrOn(e, p) == IsAncestorOf(e, p)

(* An edit lands above a path that goes on below the edited block or       *)
(* selects one of its elements.                                            *)
LandsAbove(e, p) ==
  /\ IsAncestorOf(e, p)
  /\ Len(p) > Len(e) \/ p[Len(e)].index # 0

(* The number of descents a handle's path takes: a field handle stops at   *)
(* the struct that holds the field.                                        *)
Depth(h) == IF h.kind = "struct" THEN Len(h.path) ELSE Len(h.path) - 1

(* Mutant: the first edit after the handle was made is skipped.            *)
AcceptedSkipping(h) ==
  \A j \in (h.generation + 2)..Len(log) : ~LandsAbove(log[j], h.path)

Accepted(h) == \A j \in (h.generation + 1)..Len(log) : ~LandsAbove(log[j], h.path)

(***************************************************************************)
(* Resolution (path.rs): a descent into a block with no subscript takes    *)
(* element 0.  Walk is the route of structs the first n segments of p take *)
(* from anchor a, and Follows says that the route exists.                  *)
(***************************************************************************)
ElementOf(seg) == IF seg.index = 0 THEN 1 ELSE seg.index

Steps(p, i, from, to) ==
  LET block == kids[from][p[i].field]
      k     == ElementOf(p[i])
  IN  k \in 1..Len(block) /\ block[k] = to

Follows(a, p, n, r) ==
  /\ a \in attached
  /\ r \in Seq(Node)
  /\ Len(r) = n + 1
  /\ r[1] = RootOf[a]
  /\ \A i \in 1..n : Steps(p, i, r[i], r[i + 1])

Walk(a, p, n) ==
  LET reach[i \in 1..(n + 1)] ==
        IF i = 1 THEN {RootOf[a]}
        ELSE {m \in used : \E from \in reach[i - 1] : Steps(p, i - 1, from, m)}
  IN  IF \A i \in 1..(n + 1) : reach[i] # {}
      THEN [i \in 1..(n + 1) |-> CHOOSE m \in reach[i] : TRUE]
      ELSE <<>>

Handle(kind, a, p, g, r) ==
  [kind |-> kind, anchor |-> a, path |-> p, generation |-> g, route |-> r]

(* A validated access through h: it is not refused and its path resolves.  *)
Valid(h) == Accepted(h) /\ Follows(h.anchor, h.path, Depth(h),
                                   Walk(h.anchor, h.path, Depth(h)))

(* The block a field handle resolves to: field Name of struct Holder.       *)
Holder(h) == Walk(h.anchor, h.path, Depth(h))[Len(h.path)]
Name(h)   == h.path[Len(h.path)].field
Block(h)  == kids[Holder(h)][Name(h)]

(* Python holds h and may drop any other handle at any time.               *)
Hold(h) ==
  /\ \E kept \in SUBSET handles :
       Cardinality(kept) < MaxHandles /\ handles' = kept \cup {h}
  /\ UNCHANGED <<kids, place, used, attached, log>>

(* Hand out a handle over path p if the path resolves, at edit count g.    *)
Make(kind, a, p, g) ==
  LET n == IF kind = "struct" THEN Len(p) ELSE Len(p) - 1
      r == Walk(a, p, n)
  IN  Follows(a, p, n, r) /\ Hold(Handle(kind, a, p, g, r))

-----------------------------------------------------------------------------
(***************************************************************************)
(* Navigation: root() and the stream accessors, TagStruct.field,           *)
(* TagField.as_block and TagBlock.__getitem__.  Each validates its handle  *)
(* and makes the new one at the current edit count.                        *)
(***************************************************************************)
Root(a) == a \in attached /\ Make("struct", a, <<>>, Len(log))

FieldOf(h, f) ==
  /\ h.kind = "struct"
  /\ Append(PositionOf(h.anchor, h.path), f) \in Positions
  /\ Valid(h)
  /\ Make("field", h.anchor, Append(h.path, Pinned(f)), Len(log))

AsBlock(h) ==
  /\ h.kind = "field"
  /\ Valid(h)
  /\ Make("field", h.anchor, h.path, Len(log))

GetItem(h) ==
  /\ h.kind = "field"
  /\ Valid(h)
  /\ \E k \in 1..Len(Block(h)) :
       Make("struct", h.anchor, WithIndex(h.path, k), Len(log))

(***************************************************************************)
(* Paths typed by the script: TagStruct.descend keeps the parsed segments  *)
(* as they are, TagStruct.field_path all but the last, and both hand on    *)
(* the generation of the handle they were called on.                       *)
(***************************************************************************)
TypedSegment == [field : Field, pinned : {FALSE}, index : TypedIndices]
TypedPath == {<<s>> : s \in TypedSegment} \cup {<<s, t>> : s, t \in TypedSegment}

Descend(h, typed) ==
  /\ h.kind = "struct"
  /\ PositionOf(h.anchor, h.path \o typed) \in Positions
  /\ Valid(h)
  /\ Make("struct", h.anchor, h.path \o typed, h.generation)

FieldPath(h, typed, f) ==
  /\ h.kind = "struct"
  /\ LET full == h.path \o typed
     IN  /\ Append(PositionOf(h.anchor, full), f) \in Positions
         /\ Valid(h)
         /\ Make("field", h.anchor, Append(full, Pinned(f)), h.generation)
-----------------------------------------------------------------------------
(***************************************************************************)
(* Structural edits (PyTagBlock::mutate over api.rs TagBlockMut): validate *)
(* the handle, resolve its block, edit the block, record the path.  An     *)
(* edit the block refuses (an index out of range, an incompatible          *)
(* snapshot) records nothing and changes nothing.                          *)
(***************************************************************************)
Mutate(h) ==
  /\ h.kind = "field"
  /\ Len(log) < MaxEdits
  /\ Valid(h)
  /\ log' = Append(log, h.path)
  /\ UNCHANGED <<attached, handles>>

SetBlock(h, s) == kids' = [kids EXCEPT ![Holder(h)][Name(h)] = s]

(* add and insert: a new element, its own blocks empty.                    *)
Insert(h) ==
  /\ \E x \in Node \ used, i \in 1..(Len(Block(h)) + 1) :
       /\ SetBlock(h, InsertAt(Block(h), i, x))
       /\ place' = [place EXCEPT ![x] = Append(place[Holder(h)], Name(h))]
       /\ used' = used \cup {x}

Delete(h) ==
  /\ \E i \in 1..Len(Block(h)) : SetBlock(h, RemoveAt(Block(h), i))
  /\ UNCHANGED <<place, used>>

Swap(h) ==
  /\ \E i, j \in 1..Len(Block(h)) :
       SetBlock(h, [Block(h) EXCEPT ![i] = Block(h)[j], ![j] = Block(h)[i]])
  /\ UNCHANGED <<place, used>>

MoveElement(h) ==
  /\ \E i, j \in 1..Len(Block(h)) :
       SetBlock(h, InsertAt(RemoveAt(Block(h), i), j, Block(h)[i]))
  /\ UNCHANGED <<place, used>>

Clear(h) ==
  /\ SetBlock(h, <<>>)
  /\ UNCHANGED <<place, used>>

(* tree is n and every element inside it.                                  *)
Subtree(n, tree) ==
  /\ n \in tree
  /\ \A m \in tree, f \in Field : Range(kids[m][f]) \subseteq tree
  /\ \A m \in tree \ {n} : \E q \in tree, f \in Field : m \in Range(kids[q][f])

(* Put a deep copy of element n, with fresh identities, at index i of h's  *)
(* block.                                                                  *)
Copy(h, n, i) ==
  \E tree \in SUBSET used :
    /\ Subtree(n, tree)
    /\ \E c \in [tree -> Node \ used] :
         LET Source(m) == CHOOSE q \in tree : c[q] = m
         IN  /\ IsInjective(c)
             /\ kids' = [m \in Node |->
                  IF m \in Range(c)
                  THEN [f \in Field |-> [k \in 1..Len(kids[Source(m)][f]) |->
                                           c[kids[Source(m)][f][k]]]]
                  ELSE IF m = Holder(h)
                       THEN [kids[m] EXCEPT ![Name(h)] = InsertAt(Block(h), i, c[n])]
                       ELSE kids[m]]
             /\ place' = [m \in Node |->
                  IF m \in Range(c) THEN place[Source(m)] ELSE place[m]]
             /\ used' = used \cup Range(c)

Duplicate(h) ==
  /\ \E i \in 1..Len(Block(h)) : Copy(h, Block(h)[i], i + 1)

(* Mutant: an element of another struct is pasted.                         *)
PasteUnchecked(h) ==
  \E n \in used, i \in 1..(Len(Block(h)) + 1) : Copy(h, n, i)

(* The snapshot may come from any block with this element struct, and may  *)
(* outlive the element it was taken from.                                  *)
Paste(h) ==
  /\ \E n \in used, i \in 1..(Len(Block(h)) + 1) :
       place[n] = Append(place[Holder(h)], Name(h)) /\ Copy(h, n, i)

(***************************************************************************)
(* The optional streams (file.rs add_/remove_): neither is a recorded      *)
(* edit.  A stream attached again starts with empty blocks.                *)
(***************************************************************************)
RemoveStream(a) ==
  /\ a \in Optional \cap attached
  /\ attached' = attached \ {a}
  /\ UNCHANGED <<kids, place, used, log, handles>>

AttachStream(a) ==
  /\ a \in Optional \ attached
  /\ attached' = attached \cup {a}
  /\ kids' = [kids EXCEPT ![RootOf[a]] = [f \in Field |-> <<>>]]
  /\ UNCHANGED <<place, used, log, handles>>
-----------------------------------------------------------------------------
Init ==
  /\ kids = InitKids
  /\ place = InitPlace
  /\ used = InitUsed
  /\ attached = Anchor
  /\ log = <<>>
  /\ handles = {}

Edit(h) ==
  /\ Mutate(h)
  /\ \/ Insert(h)
     \/ Delete(h)
     \/ Swap(h)
     \/ MoveElement(h)
     \/ Clear(h)
     \/ Duplicate(h)
     \/ Paste(h)

Navigate ==
  \/ \E a \in Anchor : Root(a) \/ RemoveStream(a) \/ AttachStream(a)
  \/ \E h \in handles :
       \/ \E f \in Field : FieldOf(h, f)
       \/ AsBlock(h)
       \/ GetItem(h)
       \/ Edit(h)

TypePath ==
  \E h \in handles, typed \in TypedPath :
    \/ Descend(h, typed)
    \/ \E f \in Field : FieldPath(h, typed, f)

Next == Navigate \/ TypePath

(* Scripts that only navigate, and scripts that also type paths.           *)
NavigateSpec == Init /\ [][Navigate]_vars
Spec == Init /\ [][Next]_vars
-----------------------------------------------------------------------------
HandleType ==
  [kind : {"struct", "field"}, anchor : Anchor, path : Seq(Segment),
   generation : Nat, route : Seq(Node)]

(* The used nodes that stand at the position of block f of node n.         *)
At(n, f) == {m \in used : place[m] = Append(place[n], f)}

(* A block holds used nodes that stand at its position, and a node that is *)
(* not used has empty blocks.                                              *)
TreeOK ==
  \A n \in Node, f \in Field :
    /\ kids[n][f] \in Seq(At(n, f))
    /\ n \notin used => kids[n][f] = <<>>

(* Types, and the shape of the block tree and of the handles: a route has  *)
(* one struct for every step of its handle's path, and no handle is newer  *)
(* than the log.                                                           *)
TypeOK ==
  /\ kids \in [Node -> [Field -> Seq(Node)]]
  /\ place \in [Node -> Seq(Anchor \cup Field)]
  /\ used \subseteq Node
  /\ attached \subseteq Anchor
  /\ log \in Seq(Seq(Segment))
  /\ handles \subseteq HandleType
  /\ TreeOK
  /\ \A h \in handles :
       /\ h.kind = "field" => h.path # <<>>
       /\ Len(h.route) = Depth(h) + 1
       /\ h.generation <= Len(log)
  /\ \A j \in 1..Len(log) : log[j] # <<>>

(***************************************************************************)
(* handles.rs:20-34, GUIDE.md "The staleness rule": an edit must not make  *)
(* a handle silently address a different element.  A handle that is not    *)
(* refused either fails to resolve or reaches, struct by struct, what it   *)
(* reached when it was made.                                               *)
(***************************************************************************)
Addresses(h) ==
  LET r == Walk(h.anchor, h.path, Depth(h))
  IN  Follows(h.anchor, h.path, Depth(h), r) => r = h.route

NeverMisaddressed == \A h \in handles : Accepted(h) => Addresses(h)

(***************************************************************************)
(* The same for scripts that type paths, as far as it goes: is_ancestor_of *)
(* compares ordinals as well as names and an index left out is no          *)
(* subscript, so a handle is protected from an edit only if its path and   *)
(* the edit's are spelled alike and, for a struct handle, the path names   *)
(* the element it ends at.                                                 *)
(***************************************************************************)
SpelledAlike(e, p) ==
  (/\ Len(e) <= Len(p)
   /\ \A i \in 1..Len(e) : e[i].field = p[i].field)
  => \A i \in 1..Len(e) : e[i].pinned = p[i].pinned

NamesItsElement(h) == \/ h.kind = "field"
                      \/ h.path = <<>>
                      \/ h.path[Len(h.path)].index # 0

Protected(h) ==
  /\ Accepted(h)
  /\ NamesItsElement(h)
  /\ \A j \in (h.generation + 1)..Len(log) : SpelledAlike(log[j], h.path)

SpelledAlikeIsSafe == \A h \in handles : Protected(h) => Addresses(h)

(***************************************************************************)
(* Why: a route runs through the positions its path spells, whatever is    *)
(* edited later (OnPath), and each step of a protected handle's path       *)
(* selects what it selected or nothing (Intact).  Two paths that reach one *)
(* block field therefore spell the same names, so that an edit of that     *)
(* block is in the log as an ancestor.  Inv is inductive.                  *)
(***************************************************************************)
OnPath(a, p, n, r) ==
  /\ r \in Seq(used)
  /\ Len(r) = n + 1
  /\ r[1] = RootOf[a]
  /\ \A i \in 1..n : place[r[i + 1]] = Append(place[r[i]], p[i].field)

Intact(h) ==
  \A i \in 1..Depth(h) : \A m \in used :
    Steps(h.path, i, h.route[i], m) => m = h.route[i + 1]

RootsOK == \A a \in Anchor : RootOf[a] \in used /\ place[RootOf[a]] = <<a>>

Inv ==
  /\ TypeOK
  /\ RootsOK
  /\ \A h \in handles : OnPath(h.anchor, h.path, Depth(h), h.route)
  /\ \A h \in handles : Protected(h) => Intact(h)

(* What navigation alone adds: every segment is pinned, a struct handle    *)
(* names its element and a field handle selects none.                      *)
AllPinned(p) == \A i \in 1..Len(p) : p[i].pinned

NavInv ==
  /\ \A h \in handles :
       /\ AllPinned(h.path) /\ NamesItsElement(h)
       /\ h.kind = "field" => h.path[Len(h.path)].index = 0
  /\ \A j \in 1..Len(log) : AllPinned(log[j])

(***************************************************************************)
(* handles.rs:33, GUIDE.md:409: the block handle an edit was made through  *)
(* outlives the edit -- its contents shifted, its identity did not -- and  *)
(* so does every handle to a struct above the block.                       *)
(***************************************************************************)
SurvivesItsEdit ==
  [][\A h \in handles, g \in handles :
       (/\ Len(log') > Len(log)
        /\ log'[Len(log')] = h.path
        /\ Accepted(g)
        /\ g.anchor = h.anchor
        /\ g.path = h.path \/ Len(g.path) < Len(h.path))
       => Accepted(g)']_vars
=============================================================================
