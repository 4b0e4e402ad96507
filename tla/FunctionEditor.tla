--------------------------- MODULE FunctionEditor ---------------------------
(***************************************************************************)
(* The editor of a mapping function (tag_function/editor.rs and curve.rs): *)
(* a master type and one graph, or two when the function is ranged.  A     *)
(* curve graph is kept twice, as segments for the editor and compiled to   *)
(* the pieces that are evaluated; every edit of one graph reads both back, *)
(* settles them and writes both again.                                     *)
(*                                                                         *)
(* Of a control point only the x matters here: its y travels with it, and  *)
(* the inner handles of a spline move nothing else.  Both kinds of spline  *)
(* behave as one.  Refused edits change nothing and are not steps.         *)
(***************************************************************************)
EXTENDS Integers, Sequences, FiniteSets

CONSTANTS
  MaxSegments, \* bound: segments of a curve, 4 in the code
  Unit,        \* x = 1, in ticks of the 0.001 by which an x is bumped
  Xs           \* bound: the places a point is moved to or inserted at

ASSUME FunctionAssumption ==
  MaxSegments \in Nat \ {0} /\ Unit \in Nat \ {0} /\ Xs \subseteq Int

VARIABLES type, ranged, graphs

functionVars == <<type, ranged, graphs>>

MasterTypes == {"basic", "curve", "periodic", "exponent", "transition"}
Params == {"default", "other"}
Slots == DOMAIN graphs
EndOfLine == 100 * Unit  \* f32::MAX

-----------------------------------------------------------------------------
(* Settling a curve: postprocess_to_compact *)

Linear(g, i) == i \in DOMAIN g /\ g[i].kind = "linear"

(* Where each segment ends: never left of where the one before it does.    *)
Ends(g) ==
  LET end[i \in 0 .. Len(g)] ==
        IF i = 0 THEN 0
        ELSE LET e == IF i = Len(g) THEN Unit ELSE g[i].end
             IN  IF e < end[i - 1] THEN end[i - 1] + 1 ELSE e
  IN  end

Bumped(x, low) == IF x < low THEN low ELSE x
MaySmooth(g, i, j) == j \in DOMAIN g /\ ~Linear(g, i) /\ ~Linear(g, j)

Settle(g) ==
  LET ends == Ends(g) IN
  [i \in DOMAIN g |->
    [kind |-> g[i].kind,
     start |-> IF i = 1 THEN 0 ELSE Bumped(g[i].start, ends[i - 1]),
     end |-> ends[i],
     left |-> g[i].left /\ MaySmooth(g, i, i - 1),
     right |-> g[i].right /\ MaySmooth(g, i, i + 1)]]

(* The pieces, each of the points and the kind it was compiled from.       *)
Compile(g) ==
  [i \in DOMAIN g |->
    [kind |-> g[i].kind, start |-> g[i].start, end |-> g[i].end,
     ending |-> IF i = Len(g) THEN EndOfLine ELSE g[i].end]]

(* Mutant: the pieces are compiled before the segments settle.             *)
CompileFirst(g) == [editor |-> Settle(g), compact |-> Compile(g)]

Curve(g) == [editor |-> Settle(g), compact |-> Compile(Settle(g))]

Segment(kind, start, end, left, right) ==
  [kind |-> kind, start |-> start, end |-> end, left |-> left, right |-> right]

DefaultGraph(target) ==
  IF target = "curve"
  THEN LET line == <<Segment("linear", 0, Unit, FALSE, FALSE)>>
       IN  [editor |-> line, compact |-> Compile(line)]
  ELSE [params |-> "default"]

(* The graphs a rebuilt function has; a constant's carry nothing.          *)
Rebuilt(target, twice) ==
  IF target = "basic" THEN <<>>
  ELSE [s \in 1 .. (IF twice THEN 2 ELSE 1) |-> DefaultGraph(target)]

FunctionInit == type = "basic" /\ ranged = FALSE /\ graphs = <<>>

-----------------------------------------------------------------------------
(* The whole function *)

SetMasterType(target) ==
  /\ type # target
  /\ type' = target
  /\ ranged' = (ranged /\ target # "basic")
  /\ graphs' = Rebuilt(target, ranged')

SetRanged ==
  /\ ranged' = ~ranged
  /\ graphs' = Rebuilt(type, ranged')
  /\ UNCHANGED type

(* set_typed_graph: the parameters of one graph.                           *)
SetParams(slot, p) ==
  /\ type \in {"periodic", "exponent", "transition"}
  /\ graphs' = [graphs EXCEPT ![slot].params = p]
  /\ UNCHANGED <<type, ranged>>

-----------------------------------------------------------------------------
(* The segments of one graph *)

Stride(kind) == IF kind = "linear" THEN 1 ELSE 3

(* point_index_from_segment: the index of the point where segment i starts.*)
PointIndex(g, i) == (i - 1) + 2 * Cardinality({j \in 1 .. i - 1 : ~Linear(g, j)})

(* Mutants: a shared point moves where it starts a segment only; a join is *)
(* made smooth on one side only.                                           *)
StartMovedTo(g, index, x) ==
  [i \in DOMAIN g |-> [g[i] EXCEPT !.start = IF PointIndex(g, i) = index THEN x ELSE @]]
JoinSetLeft(g, i, smooth) ==
  [j \in DOMAIN g |-> [g[j] EXCEPT !.left = IF j = i THEN smooth ELSE @]]

(* A point that joins two segments moves in both.                          *)
PointMovedTo(g, index, x) ==
  [i \in DOMAIN g |->
    [g[i] EXCEPT !.start = IF PointIndex(g, i) = index THEN x ELSE @,
                 !.end = IF PointIndex(g, i) + Stride(g[i].kind) = index THEN x ELSE @]]

JoinSet(g, i, smooth) ==
  [j \in DOMAIN g |->
    [g[j] EXCEPT !.left = IF j = i THEN smooth ELSE @,
                 !.right = IF j + 1 = i THEN smooth ELSE @]]

Replaced(g, i, j, new) == SubSeq(g, 1, i - 1) \o new \o SubSeq(g, j + 1, Len(g))

(* Mutant: the number of segments has no limit.                            *)
AnyRoom(g) == Len(g) <= MaxSegments

Room(g) == Len(g) < MaxSegments

Clamped(x) == IF x < 0 THEN 0 ELSE IF x > Unit THEN Unit ELSE x

Inserted(g, x) ==
  {Replaced(g, i, i, <<Segment("linear", g[i].start, x, g[i].left, FALSE),
                       Segment("linear", x, g[i].end, FALSE, g[i].right)>>)
     : i \in {j \in DOMAIN g : Room(g) /\ g[j].start < x /\ x < g[j].end}}

(* Two segments that meet at the point become a linear one.                *)
Deleted(g, index) ==
  {Replaced(g, i, i + 1, <<Segment("linear", g[i].start, g[i + 1].end, g[i].left, g[i + 1].right)>>)
     : i \in {j \in 1 .. Len(g) - 1 : PointIndex(g, j + 1) = index}}

(* Mutant: the other graph is given the edited segments too.               *)
BothOf(slot, g) == [s \in Slots |-> g]

Editors(slot, g) == [s \in Slots |-> IF s = slot THEN g ELSE graphs[s].editor]

(* apply_curve_graphs: every graph settles and is compiled again.          *)
Apply(slot, g) ==
  /\ graphs' = [s \in Slots |-> Curve(Editors(slot, g)[s])]
  /\ UNCHANGED <<type, ranged>>

Editor(slot) == graphs[slot].editor
Points(g) == 0 .. PointIndex(g, Len(g) + 1)

SetControlPoint(slot, x) ==
  \E index \in Points(Editor(slot)) : Apply(slot, PointMovedTo(Editor(slot), index, x))

SetSegmentType(slot, kind) ==
  \E i \in DOMAIN Editor(slot) : Apply(slot, [Editor(slot) EXCEPT ![i].kind = kind])

SetJoinMode(slot, smooth) ==
  \E i \in 1 .. Len(Editor(slot)) + 1 : Apply(slot, JoinSet(Editor(slot), i, smooth))

InsertPoint(slot, x) ==
  \E g \in Inserted(Editor(slot), Clamped(x)) : Apply(slot, g)

DeletePoint(slot) ==
  \E index \in Points(Editor(slot)) : \E g \in Deleted(Editor(slot), index) : Apply(slot, g)

EditCurve(slot) ==
  /\ type = "curve"
  /\ \/ \E x \in Xs : SetControlPoint(slot, x) \/ InsertPoint(slot, x)
     \/ \E kind \in {"linear", "spline"} : SetSegmentType(slot, kind)
     \/ \E smooth \in BOOLEAN : SetJoinMode(slot, smooth)
     \/ DeletePoint(slot)

EditSlot(slot) == EditCurve(slot) \/ \E p \in Params : SetParams(slot, p)

FunctionNext ==
  \/ \E target \in MasterTypes : SetMasterType(target)
  \/ SetRanged
  \/ \E slot \in Slots : EditSlot(slot)

FunctionSpec == FunctionInit /\ [][FunctionNext]_functionVars

-----------------------------------------------------------------------------
(* Properties *)

IsSegment(s) == s.kind \in {"linear", "spline"} /\ s.left \in BOOLEAN /\ s.right \in BOOLEAN

FunctionTypeOK ==
  /\ type \in MasterTypes /\ ranged \in BOOLEAN
  /\ Len(graphs) = IF type = "basic" THEN 0 ELSE IF ranged THEN 2 ELSE 1
  /\ \A s \in Slots :
       IF type = "curve"
       THEN Len(Editor(s)) \in 1 .. MaxSegments /\ \A i \in DOMAIN Editor(s) : IsSegment(Editor(s)[i])
       ELSE graphs[s].params \in Params

(* A curve is a line from x = 0: neighbours share their join and agree on  *)
(* whether it is smooth, which only one between two splines is; no segment *)
(* runs backwards.  Points may be dropped anywhere, in any order, between  *)
(* any changes of kind.                                                    *)
CurvesAreContinuous ==
  type = "curve" => \A s \in Slots : LET g == Editor(s) IN
    /\ g[1].start = 0 /\ ~g[1].left /\ ~g[Len(g)].right /\ g[Len(g)].end >= Unit
    /\ \A i \in DOMAIN g : g[i].start <= g[i].end
    /\ \A i \in 1 .. Len(g) - 1 :
         /\ g[i].end = g[i + 1].start
         /\ g[i].right = g[i + 1].left
         /\ g[i].right => ~Linear(g, i) /\ ~Linear(g, i + 1)

(* What is evaluated is what the editor shows: MultiPartCompact::evaluate  *)
(* takes the first piece that does not end before the input, and it was    *)
(* compiled from the segment the input lies in.                            *)
FirstPiece(c, x) ==
  CHOOSE i \in DOMAIN c : x <= c[i].ending /\ \A j \in 1 .. i - 1 : c[j].ending < x

InputsFindTheirSegment ==
  type = "curve" => \A s \in Slots, x \in 0 .. Unit :
    LET i == FirstPiece(graphs[s].compact, x)
        piece == graphs[s].compact[i]
        segment == Editor(s)[i]
    IN  /\ segment.start <= x /\ x <= segment.end
        /\ <<piece.kind, piece.start, piece.end>> = <<segment.kind, segment.start, segment.end>>

(* An edit changes one graph at most, though both are read back, settled,  *)
(* compiled and written again.                                             *)
EditsSpareTheOther ==
  [][UNCHANGED <<type, ranged>> =>
       \A s, t \in Slots : s # t => graphs'[s] = graphs[s] \/ graphs'[t] = graphs[t]]_functionVars

(* editor.rs:288-290: "Enabling a non-constant function creates a valid    *)
(* second compact that duplicates the primary graph; disabling removes     *)
(* it": the primary graph stays either way, and both are equal at first.   *)
RangingKeepsPrimary ==
  [][ranged' # ranged /\ type' = type /\ type # "basic" =>
       graphs'[1] = graphs[1] /\ (ranged' => graphs'[2] = graphs[1])]_functionVars
=============================================================================
