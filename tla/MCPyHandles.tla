---------------------------- MODULE MCPyHandles ----------------------------
(***************************************************************************)
(* A biped-like tag: a root with a block of two seats, the first of which  *)
(* boards two seats more, and an empty dependency list.                   *)
(***************************************************************************)
EXTENDS PyHandles, TLC

CONSTANTS root, list, a1, a2, b1, x1, x2

MCRootOf == [a \in Anchor |-> IF a = "Root" THEN root ELSE list]
MCPositions ==
  {p \in {<<"Root", "seats">>, <<"Root", "seats", "boarding">>,
          <<"DependencyList", "dependencies">>} : p[1] \in Anchor}
MCInitUsed == {root, list, a1, a2, b1} \cap Node
MCInitKids ==
  [n \in Node |-> [f \in Field |->
    CASE n = root /\ f = "seats"  -> <<a1, a2>>
      [] n = a1 /\ f = "boarding" -> <<b1>>
      [] OTHER                    -> <<>>]]
MCInitPlace ==
  [n \in Node |->
    CASE n = root       -> <<"Root">>
      [] n = list       -> <<"DependencyList">>
      [] n \in {a1, a2} -> <<"Root", "seats">>
      [] n = b1         -> <<"Root", "seats", "boarding">>
      [] OTHER          -> <<>>]

Symmetry == Permutations(Node \ MCInitUsed)
=============================================================================
