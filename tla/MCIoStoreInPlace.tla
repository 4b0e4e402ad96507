-------------------------- MODULE MCIoStoreInPlace --------------------------
(***************************************************************************)
(* Two paths.  Game containers, indexed and hashed, with a tag and with a  *)
(* package without bulk data beside it; a mod overlay that has neither     *)
(* index, hash nor header and holds one tag.                               *)
(***************************************************************************)
EXTENDS IoStoreInPlace, TLC

CONSTANTS a, b, x, y, plain, rich

MCLength == (x :> 1) @@ (y :> 2)

Tag(p) == <<[id |-> ChunkId(p, "bundle"), block |-> Bundle(p, plain, MCLength[x])],
            [id |-> ChunkId(p, "bulk"), block |-> Bulk(x)]>>
Asset(p) == <<[id |-> ChunkId(p, "bundle"), block |-> Bundle(p, plain, 0)]>>

Game == [chunks |-> Tag(a), store |-> TRUE, indexed |-> TRUE, hashed |-> TRUE]
Mixed == [chunks |-> Tag(a) \o Asset(b), store |-> TRUE, indexed |-> TRUE, hashed |-> TRUE]
Overlay == [chunks |-> Tag(a), store |-> FALSE, indexed |-> FALSE, hashed |-> FALSE]

MCOrigins == {Game, Mixed, Overlay}
GameOnly == {Game}
=============================================================================
