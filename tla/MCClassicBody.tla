--------------------------- MODULE MCClassicBody ---------------------------
(***************************************************************************)
(* Two blocks; a script edits the first, and the second shows whether what *)
(* follows an edited block is still read where it is.  Block A has one     *)
(* element or none, block B one element with a word of data.               *)
(***************************************************************************)
EXTENDS ClassicBody

Plain     == [base |-> "v1", versions |-> <<>>, width |-> [v1 |-> 2], h2 |-> FALSE]
Versioned == [base |-> "v1", versions |-> <<"v0", "v1">>,
              width |-> [v0 |-> 3, v1 |-> 2], h2 |-> TRUE]

MCLayouts == {Plain, Versioned}
MCBlockOrder == <<"A", "B">>
MCBlob == {<<<<5, 5>>>>}

(* A file with inline words x and y, and element width w of version v in   *)
(* block A; version 1, or the only one, in block B.                        *)
File(eng, lay, x, y, v, w, after) ==
  LET latest == IF lay.versions = <<>> THEN 0 ELSE Len(lay.versions) - 1
      head(version, size) == IF eng = "HaloCe" THEN <<>> ELSE Header(eng, version, 1, size)
      fixed == [k \in 1..w |-> IF k = 2 THEN Zero ELSE <<k, 0>>]
  IN  [engine |-> eng, layout |-> lay,
       words |-> <<x, y>> \o (IF x = Zero THEN <<>> ELSE head(v, w) \o fixed)
                 \o head(latest, 2)
                 \o <<<<3, 0>>, U32(1), <<4, 4>>>> \o after]

One == U32(1)
Garbage == <<77, 1>>

SoundFiles ==
  {File("HaloCe", Plain, One, One, 0, 2, <<>>),
   File("HaloCe", Plain, Zero, One, 0, 2, <<>>),
   File("Halo2V1", Plain, Garbage, Garbage, 0, 2, <<<<8, 8>>>>),
   File("Halo2V2", Plain, Zero, Garbage, 0, 2, <<>>),
   File("Halo2V2", Plain, Garbage, One, 0, 3, <<<<8, 8>>>>),
   File("Halo2V2", Versioned, One, Garbage, 0, 3, <<>>),
   File("Halo2V2", Versioned, Garbage, Garbage, 7, 2, <<>>)}

(* These are the files that the theorems speak of; the others are not.     *)
ASSUME SoundFilesAreSound == \A f \in SoundFiles : SoundFile(f)

LegacyFiles ==
  {File("Halo2V1", Versioned, Zero, One, 0, 2, <<>>),
   File("Halo2V1", Versioned, One, One, 0, 3, <<>>)}

TruncatedFiles == {File("Halo2V2", Plain, One, One, 0, 1, <<>>)}

ASSUME OthersAreNot == \A f \in LegacyFiles \cup TruncatedFiles : ~SoundFile(f)

MCImage(l) ==
  {Decode(f.engine, f.layout, f.words).blocks : f \in {g \in Files : g.layout = l}}
=============================================================================
