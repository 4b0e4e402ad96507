----------------------------- MODULE MCTagBlock -----------------------------
(***************************************************************************)
(* One block, of an unversioned and of a versioned struct.  The versioned  *)
(* struct's older variant is wider than its latest, and the block was read *)
(* with elements of the older one, so that clearing and refilling it       *)
(* changes the width of its elements while a snapshot keeps the old one.   *)
(***************************************************************************)
EXTENDS TagBlock

Plain     == [base |-> "v1", versions |-> <<>>, width |-> [v1 |-> 2], h2 |-> FALSE]
Versioned == [base |-> "v1", versions |-> <<"v0", "v1">>,
              width |-> [v0 |-> 3, v1 |-> 2], h2 |-> TRUE]

MCLayouts == {Plain, Versioned}

Element(w, n) == [k \in 1..w |-> IF k = 1 THEN <<n, 0>> ELSE Zero]

MCImage(l) ==
  LET v == IF l = Plain THEN "v1" ELSE "v0"
      two == BlockData(Element(l.width[v], 1) \o Element(l.width[v], 2),
                       <<Tree(v, <<<<>>>>), Tree(v, <<<<>>>>)>>, <<>>, FALSE)
  IN  {[b \in BlockName |-> x] : x \in {EmptyBlock, two}}

MCDatum == {<<9, 0>>}
MCBlob  == {<<<<5, 5>>>>}
=============================================================================
