----------------------------- MODULE ElementSeq -----------------------------
(***************************************************************************)
(* What tag blocks promise their editors: a block is a sequence of         *)
(* elements, an edit touches one block and moves whole elements, an        *)
(* element keeps what it holds wherever it goes, and a snapshot is the     *)
(* element as it was when it was taken.                                    *)
(***************************************************************************)
EXTENDS Naturals, Sequences, SequencesExt

CONSTANTS
  Block,    \* the blocks
  Element,  \* what an element can hold
  Blank     \* what a fresh element can hold

VARIABLES
  content,  \* content[b]: the elements of block b, in order
  clip      \* the snapshot in hand: <<>> or <<element>>

vars == <<content, clip>>

Become(b, s) == content' = [content EXCEPT ![b] = s] /\ UNCHANGED clip

Snapshot(b, i) == clip' = <<content[b][i]>> /\ UNCHANGED content

(* An edit of the fields of one element.                                   *)
Rewrite(b, i) ==
  /\ Len(content'[b]) = Len(content[b])
  /\ content'[b][i] \in Element
  /\ Become(b, [content[b] EXCEPT ![i] = content'[b][i]])

Init ==
  /\ content \in [Block -> Seq(Element)]
  /\ clip = <<>>

(* Edits that put an element at an index, and edits of an element there.   *)
Put(b) ==
  \E i \in 1..(Len(content[b]) + 1) :
    \/ \E e \in Blank : Become(b, InsertAt(content[b], i, e))
    \/ clip # <<>> /\ Become(b, InsertAt(content[b], i, clip[1]))

Edit(b) ==
  \E i \in 1..Len(content[b]) :
    LET s == content[b]
    IN  \/ Become(b, InsertAt(s, i + 1, s[i]))
        \/ Become(b, RemoveAt(s, i))
        \/ \E j \in 1..Len(s) :
             \/ Become(b, [s EXCEPT ![i] = s[j], ![j] = s[i]])
             \/ Become(b, InsertAt(RemoveAt(s, i), j, s[i]))
        \/ Rewrite(b, i)
        \/ Snapshot(b, i)

Next == \E b \in Block : Put(b) \/ Edit(b) \/ Become(b, <<>>)

Spec == Init /\ [][Next]_vars
=============================================================================
