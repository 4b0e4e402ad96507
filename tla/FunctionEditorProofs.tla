------------------------ MODULE FunctionEditorProofs ------------------------
(***************************************************************************)
(* What holds of the tag function editor for every limit on segments,      *)
(* every resolution and every set of places a point may be put.            *)
(*                                                                         *)
(* The inductive invariant, FunctionInv, says of every curve it keeps that *)
(* its segments are joined, that settling it again changes nothing and     *)
(* that its pieces were compiled from it (Drawn).  Each edit is shown to   *)
(* keep the segments joined, and settling joined segments to give a curve  *)
(* that settling leaves alone.  The ends of a settled curve are a function *)
(* defined segment by segment: what holds of all of them is shown by way   *)
(* of the least segment for which it would not.                            *)
(***************************************************************************)
EXTENDS FunctionEditor, NaturalsInduction, WellFoundedInduction, SequenceTheorems, FiniteSetTheorems, TLAPS

-----------------------------------------------------------------------------
(* Numbers, and the ends of segments *)

(* A set of numbers that is not empty has a least one.                     *)
LEMMA LeastNumber ==
  ASSUME NEW T \in SUBSET Nat, T # {}
  PROVE  \E m \in T : \A k \in T : m <= k
  <1> DEFINE R == {ss \in Nat \X Nat : ss[1] < ss[2]}
  <1>1. IsWellFoundedOn(R, Nat)
    BY NatLessThanWellFounded, Zenon DEF OpToRel
  <1>2. \E x \in T : \A y \in T : ~(<<y, x>> \in R)
    <2> HIDE DEF R
    <2> QED
      BY <1>1, WFMin, Zenon
  <1>3. PICK x \in T : \A y \in T : ~(<<y, x>> \in R)
    BY <1>2
  <1>4. ASSUME NEW y \in T PROVE x <= y
    <2>1. ~(<<y, x>> \in R)
      BY <1>3
    <2>2. ~(y < x)
      BY <2>1, SMT
    <2> QED
      BY <2>2, SMT
  <1> QED
    BY <1>4


-----------------------------------------------------------------------------
(* Where segment i ends, by what the ends before it are.                   *)
EndOf(g, ends, i) ==
  IF i = 0 THEN 0
  ELSE LET e == IF i = Len(g) THEN Unit ELSE g[i].end
       IN  IF e < ends[i - 1] THEN ends[i - 1] + 1 ELSE e

(* There are such ends, however many segments there are: the least number  *)
(* for which there were none would follow one for which there are.         *)
LEMMA PrefixHasEnds ==
  ASSUME NEW g, NEW m \in Nat
  PROVE  \E ends : ends = [i \in 0 .. m |-> EndOf(g, ends, i)]
  <1> DEFINE P(k) == \E ends : ends = [i \in 0 .. k |-> EndOf(g, ends, i)]
             Bad == {k \in Nat : ~P(k)}
  <1>1. P(0)
    <2> DEFINE ends == [i \in 0 .. 0 |-> 0]
    <2>1. \A i \in 0 .. 0 : EndOf(g, ends, i) = 0
      BY DEF EndOf
    <2>2. ends = [i \in 0 .. 0 |-> EndOf(g, ends, i)]
      BY <2>1
    <2> QED
      BY <2>2
  <1>2. ASSUME NEW k \in Nat, P(k) PROVE P(k + 1)
    <2>1. PICK ends : ends = [i \in 0 .. k |-> EndOf(g, ends, i)]
      BY <1>2
    <2> DEFINE more == [i \in 0 .. k + 1 |-> IF i = k + 1 THEN EndOf(g, ends, k + 1) ELSE ends[i]]
    <2>2. \A i \in 0 .. k : more[i] = ends[i]
      OBVIOUS
    <2>3. more[k + 1] = EndOf(g, ends, k + 1)
      OBVIOUS
    <2>4. DOMAIN more = 0 .. k + 1 /\ more = [i \in 0 .. k + 1 |-> more[i]]
      OBVIOUS
    <2> HIDE DEF more
    <2>5. \A i \in 1 .. k + 1 : EndOf(g, more, i) = EndOf(g, ends, i)
      <3> SUFFICES ASSUME NEW i \in 1 .. k + 1 PROVE EndOf(g, more, i) = EndOf(g, ends, i)
        OBVIOUS
      <3>1. more[i - 1] = ends[i - 1]
        BY <2>2
      <3> QED
        BY <3>1 DEF EndOf
    <2>6. ASSUME NEW i \in 0 .. k + 1 PROVE more[i] = EndOf(g, more, i)
      <3>1. CASE i = 0
        BY <2>1, <2>2, <3>1 DEF EndOf
      <3>2. CASE i = k + 1
        BY <2>3, <2>5, <3>2
      <3>3. CASE i \in 1 .. k
        BY <2>1, <2>2, <2>5, <3>3
      <3> QED
        BY <3>1, <3>2, <3>3
    <2>7. more = [i \in 0 .. k + 1 |-> EndOf(g, more, i)]
      BY <2>4, <2>6
    <2> QED
      BY <2>7
  <1> HIDE DEF P
  <1>3. Bad = {}
    <2> SUFFICES ASSUME Bad # {} PROVE FALSE
      OBVIOUS
    <2>1. PICK k \in Bad : \A j \in Bad : k <= j
      BY LeastNumber
    <2>2. k # 0
      BY <1>1
    <2>3. k - 1 \in Nat /\ k - 1 \notin Bad /\ (k - 1) + 1 = k
      BY <2>1, <2>2
    <2>4. P(k)
      BY <1>2, <2>3
    <2> QED
      BY <2>4
  <1> QED
    BY <1>3 DEF P

(* The ends of a curve are the one function that has each end follow the last. *)
LEMMA EndsAre ==
  ASSUME NEW g, Len(g) \in Nat
  PROVE  Ends(g) = [i \in 0 .. Len(g) |-> EndOf(g, Ends(g), i)]
  <1>1. PICK ends : ends = [i \in 0 .. Len(g) |-> EndOf(g, ends, i)]
    BY PrefixHasEnds
  <1>2. Ends(g) = CHOOSE f : f = [i \in 0 .. Len(g) |-> EndOf(g, f, i)]
    BY DEF Ends, EndOf
  <1> QED
    BY <1>1, <1>2

-----------------------------------------------------------------------------
(* Curves *)

(* A segment with all its parts.                                           *)
IsSegmentAt(s) ==
  /\ s = Segment(s.kind, s.start, s.end, s.left, s.right)
  /\ IsSegment(s) /\ s.start \in Int /\ s.end \in Int

Sequence(g) == Len(g) \in Nat /\ g = [i \in 1 .. Len(g) |-> g[i]]

(* A run of segments in which neighbours share a point and its smoothness. *)
Joined(g) ==
  /\ Sequence(g) /\ Len(g) \in 1 .. MaxSegments
  /\ \A i \in 1 .. Len(g) : IsSegmentAt(g[i])
  /\ \A i \in 1 .. Len(g) - 1 : g[i].end = g[i + 1].start /\ g[i].right = g[i + 1].left

(* No end lies left of the one before it, nor of where the segment said,   *)
(* and the last is not left of x = 1.                                      *)
LEMMA EndsRise ==
  ASSUME NEW g, Joined(g)
  PROVE  /\ \A i \in 0 .. Len(g) : Ends(g)[i] \in Nat
         /\ Ends(g)[0] = 0
         /\ \A i \in 1 .. Len(g) : Ends(g)[i - 1] <= Ends(g)[i]
         /\ \A i \in 1 .. Len(g) - 1 : g[i].end <= Ends(g)[i]
         /\ Ends(g)[Len(g)] >= Unit
  <1> DEFINE ends == Ends(g)
             n == Len(g)
             Bad == {i \in Nat : i <= n /\ ends[i] \notin Nat}
  <1>1. n \in Nat /\ n # 0 /\ Unit \in Nat /\ \A i \in 1 .. n : g[i].end \in Int
    BY FunctionAssumption DEF Joined, IsSegmentAt
  <1>2. \A i \in 0 .. n : ends[i] = EndOf(g, ends, i)
    BY <1>1, EndsAre
  <1> HIDE DEF ends
  <1>3. ends[0] = 0
    BY <1>1, <1>2 DEF EndOf
  <1>4. ASSUME NEW i \in 1 .. n, ends[i - 1] \in Nat
        PROVE  /\ ends[i] \in Nat /\ ends[i - 1] <= ends[i]
               /\ i # n => g[i].end <= ends[i]
               /\ i = n => Unit <= ends[i]
    <2> DEFINE e == IF i = n THEN Unit ELSE g[i].end
    <2>1. e \in Int
      BY <1>1
    <2>2. ends[i] = IF e < ends[i - 1] THEN ends[i - 1] + 1 ELSE e
      BY <1>1, <1>2 DEF EndOf
    <2> HIDE DEF e
    <2>3. ends[i] \in Nat /\ ends[i - 1] <= ends[i] /\ e <= ends[i]
      BY <1>4, <2>1, <2>2
    <2> QED
      BY <2>3 DEF e
  <1>5. Bad = {}
    <2> SUFFICES ASSUME Bad # {} PROVE FALSE
      OBVIOUS
    <2>1. PICK k \in Bad : \A j \in Bad : k <= j
      BY LeastNumber
    <2>2. k # 0
      BY <1>3, <2>1
    <2>3. k \in 1 .. n /\ k - 1 \in Nat /\ k - 1 <= n /\ k - 1 \notin Bad
      BY <1>1, <2>1, <2>2
    <2>4. ends[k - 1] \in Nat
      BY <2>3
    <2> QED
      BY <1>4, <2>3, <2>4
  <1>6. \A i \in 0 .. n : ends[i] \in Nat
    BY <1>1, <1>5
  <1>7. \A i \in 1 .. n : i - 1 \in 0 .. n
    BY <1>1
  <1>8. \A i \in 1 .. n : /\ ends[i - 1] <= ends[i]
                          /\ i # n => g[i].end <= ends[i]
                          /\ i = n => Unit <= ends[i]
    BY <1>4, <1>6, <1>7
  <1>9. \A i \in 1 .. n - 1 : g[i].end <= ends[i]
    BY <1>1, <1>8
  <1>10. ends[n] >= Unit
    BY <1>1, <1>6, <1>8
  <1> QED
    BY <1>3, <1>6, <1>8, <1>9, <1>10 DEF ends

(* The length of a sequence given by its elements.                         *)
LEMMA LengthOf ==
  ASSUME NEW n \in Nat, NEW h, h = [i \in 1 .. n |-> h[i]]
  PROVE  Len(h) = n
  <1>1. h \in [1 .. n -> {h[i] : i \in 1 .. n}]
    OBVIOUS
  <1>2. h \in Seq({h[i] : i \in 1 .. n}) /\ DOMAIN h = 1 .. n
    BY <1>1, SeqDef
  <1>3. Len(h) \in Nat /\ DOMAIN h = 1 .. Len(h)
    BY <1>2, LenProperties
  <1> QED
    BY <1>2, <1>3

(* What settling makes of each segment of a curve.                         *)
LEMMA SettledAre ==
  ASSUME NEW g, Joined(g)
  PROVE  /\ Sequence(Settle(g)) /\ Len(Settle(g)) = Len(g)
         /\ \A i \in 1 .. Len(g) :
              /\ Settle(g)[i] = Segment(g[i].kind, Ends(g)[i - 1], Ends(g)[i],
                                        g[i].left /\ MaySmooth(g, i, i - 1), g[i].right /\ MaySmooth(g, i, i + 1))
  <1> DEFINE n == Len(g)
             t == Settle(g)
  <1>1. n \in Nat /\ DOMAIN g = 1 .. n
    BY DEF Joined, Sequence
  <1>2. t = [i \in 1 .. n |-> t[i]]
    BY <1>1 DEF Settle
  <1>4. Len(t) = n
    <2> HIDE DEF t
    <2> QED
      BY <1>1, <1>2, LengthOf
  <1>5. ASSUME NEW i \in 1 .. n
        PROVE  t[i] = Segment(g[i].kind, Ends(g)[i - 1], Ends(g)[i],
                              g[i].left /\ MaySmooth(g, i, i - 1), g[i].right /\ MaySmooth(g, i, i + 1))
    <2> DEFINE start == IF i = 1 THEN 0 ELSE Bumped(g[i].start, Ends(g)[i - 1])
    <2>1. t[i] = Segment(g[i].kind, start, Ends(g)[i], g[i].left /\ MaySmooth(g, i, i - 1), g[i].right /\ MaySmooth(g, i, i + 1))
      BY <1>1 DEF Settle, Segment
    <2>2. start = Ends(g)[i - 1]
      <3>1. CASE i = 1
        BY <3>1, EndsRise
      <3>2. CASE i # 1
        <4>1. PICK j \in 1 .. n - 1 : j + 1 = i /\ j = i - 1
          BY <1>1, <3>2
        <4>2. g[i].start = g[j].end
          BY <4>1 DEF Joined
        <4>3. g[j].end <= Ends(g)[j] /\ Ends(g)[j] \in Nat /\ g[j].end \in Int
          <5>1. g[j].end <= Ends(g)[j]
            BY <4>1, EndsRise
          <5>2. j \in 0 .. n /\ j \in 1 .. n
            BY <1>1, <4>1
          <5>3. Ends(g)[j] \in Nat
            BY <5>2, EndsRise
          <5>4. g[j].end \in Int
            BY <5>2 DEF Joined, IsSegmentAt
          <5> QED
            BY <5>1, <5>3, <5>4
        <4> QED
          BY <3>2, <4>1, <4>2, <4>3 DEF Bumped
      <3> QED
        BY <3>1, <3>2
    <2> QED
      BY <2>1, <2>2
  <1> QED
    BY <1>1, <1>2, <1>4, <1>5 DEF Sequence

(* The parts of a segment.                                                 *)
LEMMA SegmentFields ==
  ASSUME NEW k, NEW x, NEW y, NEW l, NEW r
  PROVE  /\ Segment(k, x, y, l, r).kind = k /\ Segment(k, x, y, l, r).start = x /\ Segment(k, x, y, l, r).end = y
         /\ Segment(k, x, y, l, r).left = l /\ Segment(k, x, y, l, r).right = r
  BY DEF Segment

(* Settling a joined curve gives a joined one, and settling it again       *)
(* changes nothing.                                                        *)
LEMMA SettledIsJoined ==
  ASSUME NEW g, Joined(g)
  PROVE  Joined(Settle(g)) /\ \A i \in 1 .. Len(g) : Linear(Settle(g), i) = Linear(g, i)
  <1> DEFINE n == Len(g)
             t == Settle(g)
             ends == Ends(g)
  <1>1. n \in Nat /\ n # 0 /\ DOMAIN g = 1 .. n /\ \A i \in 1 .. n : IsSegmentAt(g[i])
    BY DEF Joined, Sequence
  <1>2. Sequence(t) /\ Len(t) = n
    BY SettledAre
  <1>3. \A i \in 1 .. n : /\ t[i] = Segment(t[i].kind, t[i].start, t[i].end, t[i].left, t[i].right)
                          /\ t[i].kind = g[i].kind /\ t[i].start = ends[i - 1] /\ t[i].end = ends[i]
                          /\ t[i].left = (g[i].left /\ MaySmooth(g, i, i - 1)) /\ t[i].right = (g[i].right /\ MaySmooth(g, i, i + 1))
    BY SettledAre, SegmentFields
  <1>4. \A i \in 0 .. n : ends[i] \in Int
    BY EndsRise
  <1> HIDE DEF t, ends
  <1>5. ASSUME NEW i \in 1 .. n PROVE IsSegmentAt(t[i])
    <2>1. i - 1 \in 0 .. n /\ i \in 0 .. n
      BY <1>1
    <2>2. t[i].kind \in {"linear", "spline"}
      BY <1>1, <1>3 DEF IsSegmentAt, IsSegment
    <2>3. t[i].left \in BOOLEAN /\ t[i].right \in BOOLEAN
      BY <1>3
    <2> QED
      BY <1>3, <1>4, <2>1, <2>2, <2>3 DEF IsSegmentAt, IsSegment
  <1>6. ASSUME NEW i \in 1 .. n - 1 PROVE t[i].end = t[i + 1].start /\ t[i].right = t[i + 1].left
    <2>1. i \in 1 .. n /\ i + 1 \in 1 .. n /\ (i + 1) - 1 = i
      BY <1>1
    <2>2. g[i].right = g[i + 1].left
      BY <1>6 DEF Joined
    <2>3. MaySmooth(g, i, i + 1) = MaySmooth(g, i + 1, i)
      BY <1>1, <2>1 DEF MaySmooth
    <2> QED
      BY <1>3, <2>1, <2>2, <2>3
  <1>7. DOMAIN t = 1 .. n
    BY <1>1, <1>2 DEF Sequence
  <1>8. \A i \in 1 .. n : Linear(t, i) = Linear(g, i)
    BY <1>1, <1>3, <1>7 DEF Linear
  <1>9. Joined(t)
    BY <1>2, <1>5, <1>6 DEF Joined
  <1> QED
    BY <1>8, <1>9 DEF t

(* The ends of a settled curve stay where they are.                        *)
LEMMA EndsStay ==
  ASSUME NEW g, Joined(g)
  PROVE  \A i \in 0 .. Len(g) : Ends(Settle(g))[i] = Ends(g)[i]
  <1> DEFINE n == Len(g)
             t == Settle(g)
             ends == Ends(g)
             again == Ends(t)
             Bad == {i \in Nat : i <= n /\ again[i] # ends[i]}
  <1>1. n \in Nat /\ Len(t) = n /\ Joined(t)
    BY SettledAre, SettledIsJoined DEF Joined
  <1>2. \A i \in 1 .. n : t[i].end = ends[i]
    BY SettledAre, SegmentFields
  <1>3. \A i \in 0 .. n : again[i] = EndOf(t, again, i)
    BY <1>1, EndsAre
  <1>4. \A i \in 0 .. n : ends[i] = EndOf(g, ends, i)
    BY <1>1, EndsAre
  <1>5. \A i \in 0 .. n : ends[i] \in Nat
    BY EndsRise
  <1>6. \A i \in 1 .. n : ends[i - 1] <= ends[i]
    BY EndsRise
  <1> HIDE DEF t, ends, again
  <1>7. again[0] = ends[0]
    BY <1>1, <1>3, <1>4 DEF EndOf
  <1>8. ASSUME NEW i \in 1 .. n, again[i - 1] = ends[i - 1] PROVE again[i] = ends[i]
    <2>1. i \in 0 .. n /\ i - 1 \in 0 .. n
      BY <1>1
    <2>2. CASE i = n
      BY <1>1, <1>3, <1>4, <1>8, <2>1, <2>2 DEF EndOf
    <2>3. CASE i # n
      <3>1. again[i] = IF ends[i] < ends[i - 1] THEN ends[i - 1] + 1 ELSE ends[i]
        BY <1>1, <1>2, <1>3, <1>8, <2>1, <2>3 DEF EndOf
      <3>2. ends[i] \in Nat /\ ends[i - 1] \in Nat /\ ends[i - 1] <= ends[i]
        BY <1>5, <1>6, <2>1
      <3> QED
        BY <3>1, <3>2
    <2> QED
      BY <2>2, <2>3
  <1>9. Bad = {}
    <2> SUFFICES ASSUME Bad # {} PROVE FALSE
      OBVIOUS
    <2>1. PICK k \in Bad : \A j \in Bad : k <= j
      BY LeastNumber
    <2>2. k # 0
      BY <1>7, <2>1
    <2>3. k \in 1 .. n /\ k - 1 \in Nat /\ k - 1 <= n /\ k - 1 \notin Bad
      BY <1>1, <2>1, <2>2
    <2>4. again[k - 1] = ends[k - 1]
      BY <2>3
    <2> QED
      BY <1>8, <2>3, <2>4
  <1>10. \A i \in 0 .. n : again[i] = ends[i]
    BY <1>1, <1>9
  <1> QED
    BY <1>10 DEF again, ends, t

(* Settling a curve again changes nothing.                                 *)
LEMMA SettlesOnce ==
  ASSUME NEW g, Joined(g)
  PROVE  Settle(Settle(g)) = Settle(g)
  <1> DEFINE n == Len(g)
             t == Settle(g)
             u == Settle(t)
  <1>1. n \in Nat /\ DOMAIN g = 1 .. n
    BY DEF Joined, Sequence
  <1>2. Sequence(t) /\ Len(t) = n /\ Joined(t) /\ \A i \in 1 .. n : Linear(t, i) = Linear(g, i)
    BY SettledAre, SettledIsJoined
  <1>3. Sequence(u) /\ Len(u) = n
    BY <1>2, SettledAre
  <1>4. DOMAIN t = 1 .. n
    BY <1>2 DEF Sequence
  <1>5. \A i, j \in 1 .. n : MaySmooth(t, i, j) = MaySmooth(g, i, j)
    BY <1>1, <1>2, <1>4 DEF MaySmooth
  <1>6. \A i \in 1 .. n : MaySmooth(t, i, i - 1) = MaySmooth(g, i, i - 1) /\ MaySmooth(t, i, i + 1) = MaySmooth(g, i, i + 1)
    BY <1>1, <1>4, <1>5 DEF MaySmooth
  <1>7. ASSUME NEW i \in 1 .. n PROVE u[i] = t[i]
    <2>1. t[i] = Segment(g[i].kind, Ends(g)[i - 1], Ends(g)[i],
                         g[i].left /\ MaySmooth(g, i, i - 1), g[i].right /\ MaySmooth(g, i, i + 1))
      BY SettledAre
    <2>2. u[i] = Segment(t[i].kind, Ends(t)[i - 1], Ends(t)[i],
                         t[i].left /\ MaySmooth(t, i, i - 1), t[i].right /\ MaySmooth(t, i, i + 1))
      BY <1>2, SettledAre
    <2>3. Ends(t)[i - 1] = Ends(g)[i - 1] /\ Ends(t)[i] = Ends(g)[i]
      <3>1. i \in 0 .. n /\ i - 1 \in 0 .. n
        BY <1>1
      <3> QED
        BY <3>1, EndsStay
    <2>4. /\ t[i].kind = g[i].kind
          /\ t[i].left = (g[i].left /\ MaySmooth(g, i, i - 1)) /\ t[i].right = (g[i].right /\ MaySmooth(g, i, i + 1))
      BY <2>1, SegmentFields
    <2> HIDE DEF t, u
    <2>5. (t[i].left /\ MaySmooth(t, i, i - 1)) = (g[i].left /\ MaySmooth(g, i, i - 1))
      BY <1>6, <2>4
    <2>6. (t[i].right /\ MaySmooth(t, i, i + 1)) = (g[i].right /\ MaySmooth(g, i, i + 1))
      BY <1>6, <2>4
    <2> QED
      BY <2>1, <2>2, <2>3, <2>4, <2>5, <2>6
  <1> HIDE DEF t, u
  <1>8. t = [i \in 1 .. n |-> t[i]] /\ u = [i \in 1 .. n |-> u[i]]
    BY <1>2, <1>3 DEF Sequence
  <1>9. u = t
    BY <1>7, <1>8
  <1> QED
    BY <1>9 DEF u, t

-----------------------------------------------------------------------------
(* A curve graph as it is kept: settled, and compiled from what it shows.  *)
Drawn(c) ==
  /\ Joined(c.editor) /\ Settle(c.editor) = c.editor
  /\ c = [editor |-> c.editor, compact |-> Compile(c.editor)]

(* What an edit writes is a curve as it is kept.                           *)
LEMMA CurveIsDrawn ==
  ASSUME NEW g, Joined(g)
  PROVE  Drawn(Curve(g))
  <1>1. Joined(Settle(g)) /\ Settle(Settle(g)) = Settle(g)
    BY SettledIsJoined, SettlesOnce
  <1>2. Curve(g).editor = Settle(g) /\ Curve(g) = [editor |-> Settle(g), compact |-> Compile(Settle(g))]
    BY DEF Curve
  <1> QED
    BY <1>1, <1>2 DEF Drawn

(* Read back, settled and compiled again, a curve is what it was.          *)
LEMMA DrawnAgain ==
  ASSUME NEW c, Drawn(c)
  PROVE  Curve(c.editor) = c
  BY DEF Drawn, Curve

(* So is the line a new curve starts as.                                   *)
LEMMA TheLineIsDrawn == Drawn(DefaultGraph("curve"))
  <1> DEFINE line == <<Segment("linear", 0, Unit, FALSE, FALSE)>>
  <1>1. Unit \in Nat /\ 1 \in 1 .. MaxSegments
    BY FunctionAssumption
  <1>2. Len(line) = 1 /\ DOMAIN line = 1 .. 1 /\ line[1] = Segment("linear", 0, Unit, FALSE, FALSE)
    OBVIOUS
  <1>3. line = [i \in 1 .. 1 |-> line[i]]
    OBVIOUS
  <1> HIDE DEF line
  <1>4. IsSegmentAt(line[1])
    <2>1. /\ line[1].kind = "linear" /\ line[1].start = 0 /\ line[1].end = Unit
          /\ line[1].left = FALSE /\ line[1].right = FALSE
      BY <1>2 DEF Segment
    <2>2. line[1] = Segment(line[1].kind, line[1].start, line[1].end, line[1].left, line[1].right)
      BY <1>2, <2>1, Zenon
    <2>3. IsSegment(line[1])
      BY <2>1 DEF IsSegment
    <2>4. line[1].start \in Int /\ line[1].end \in Int
      BY <1>1, <2>1
    <2> QED
      BY <2>2, <2>3, <2>4, Zenon DEF IsSegmentAt
  <1>5. Joined(line)
    <2>1. Sequence(line)
      BY <1>2, <1>3 DEF Sequence
    <2>2. \A i \in 1 .. Len(line) : IsSegmentAt(line[i])
      <3>1. ASSUME NEW i \in 1 .. Len(line) PROVE i = 1
        BY <1>2
      <3> QED
        BY <1>4, <3>1, Zenon
    <2>3. \A i \in 1 .. Len(line) - 1 : line[i].end = line[i + 1].start /\ line[i].right = line[i + 1].left
      BY <1>2
    <2> QED
      BY <1>1, <1>2, <2>1, <2>2, <2>3 DEF Joined
  <1>6. Ends(line)[0] = 0 /\ Ends(line)[1] = Unit
    <2>1. Ends(line) = [i \in 0 .. 1 |-> EndOf(line, Ends(line), i)]
      BY <1>2, EndsAre
    <2>2. Ends(line)[0] = 0
      BY <2>1 DEF EndOf
    <2>3. Ends(line)[1] = EndOf(line, Ends(line), 1)
      BY <2>1
    <2> QED
      BY <1>1, <1>2, <2>2, <2>3 DEF EndOf
  <1>7. Sequence(Settle(line)) /\ Len(Settle(line)) = 1
    BY <1>2, <1>5, SettledAre
  <1>8. Settle(line)[1] = line[1]
    <2>1. Settle(line)[1] = Segment(line[1].kind, Ends(line)[0], Ends(line)[1],
                 line[1].left /\ MaySmooth(line, 1, 0), line[1].right /\ MaySmooth(line, 1, 2))
      <3>1. 1 \in 1 .. Len(line) /\ 1 - 1 = 0 /\ 1 + 1 = 2
        BY <1>2
      <3> QED
        BY <1>5, <3>1, SettledAre
    <2>2. line[1].kind = "linear" /\ line[1].left = FALSE /\ line[1].right = FALSE
      BY <1>2 DEF Segment
    <2>3. Settle(line)[1] = Segment("linear", 0, Unit, FALSE, FALSE)
      BY <1>6, <2>1, <2>2
    <2> QED
      BY <1>2, <2>3
  <1>9. Settle(line) = line
    BY <1>3, <1>7, <1>8 DEF Sequence
  <1>10. DefaultGraph("curve") = [editor |-> line, compact |-> Compile(line)]
    BY DEF DefaultGraph, line
  <1> QED
    BY <1>5, <1>9, <1>10 DEF Drawn

(* The point that ends a segment is the one that starts the next.          *)
LEMMA NextPoint ==
  ASSUME NEW g, NEW i \in Nat \ {0}, i \in DOMAIN g
  PROVE  PointIndex(g, i + 1) = PointIndex(g, i) + Stride(g[i].kind)
  <1> DEFINE Before == {j \in 1 .. i - 1 : ~Linear(g, j)}
             Upto == {j \in 1 .. (i + 1) - 1 : ~Linear(g, j)}
  <1>1. IsFiniteSet(Before) /\ Cardinality(Before) \in Nat
    <2>1. IsFiniteSet(1 .. i - 1)
      BY FS_Interval
    <2>2. IsFiniteSet(Before)
      BY <2>1, FS_Subset
    <2> QED
      BY <2>2, FS_CardinalityType
  <1>2. i \notin Before
    OBVIOUS
  <1>3. PointIndex(g, i) = (i - 1) + 2 * Cardinality(Before) /\ PointIndex(g, i + 1) = ((i + 1) - 1) + 2 * Cardinality(Upto)
    BY DEF PointIndex
  <1>4. CASE Linear(g, i)
    <2>1. Upto = Before
      BY <1>4
    <2>2. g[i].kind = "linear"
      BY <1>4 DEF Linear
    <2> HIDE DEF Before, Upto
    <2> QED
      BY <1>1, <1>3, <2>1, <2>2 DEF Stride
  <1>5. CASE ~Linear(g, i)
    <2>1. Upto = Before \cup {i}
      BY <1>5 DEF Linear
    <2>2. g[i].kind # "linear"
      BY <1>5 DEF Linear
    <2>3. Cardinality(Before \cup {i}) = Cardinality(Before) + 1
      BY <1>1, <1>2, FS_AddElement
    <2> HIDE DEF Before, Upto
    <2> QED
      BY <1>1, <1>3, <2>1, <2>2, <2>3 DEF Stride
  <1> QED
    BY <1>4, <1>5

(* A segment of a curve with other ends, or another smoothness.            *)
LEMMA SegmentIs ==
  ASSUME NEW k \in {"linear", "spline"}, NEW x \in Int, NEW y \in Int, NEW l \in BOOLEAN, NEW r \in BOOLEAN
  PROVE  IsSegmentAt(Segment(k, x, y, l, r))
  BY DEF IsSegmentAt, IsSegment, Segment

(* The parts of a segment are what they should be.                         *)
LEMMA SegmentParts ==
  ASSUME NEW s, IsSegmentAt(s)
  PROVE  /\ s.kind \in {"linear", "spline"} /\ s.start \in Int /\ s.end \in Int
         /\ s.left \in BOOLEAN /\ s.right \in BOOLEAN
  BY DEF IsSegmentAt, IsSegment

(* A point of a curve moved, in both segments that share it.               *)
LEMMA MovingKeepsJoined ==
  ASSUME NEW g, Joined(g), NEW index, NEW x \in Int
  PROVE  Joined(PointMovedTo(g, index, x))
  <1> DEFINE n == Len(g)
             h == PointMovedTo(g, index, x)
             Start(i) == IF PointIndex(g, i) = index THEN x ELSE g[i].start
             End(i) == IF PointIndex(g, i) + Stride(g[i].kind) = index THEN x ELSE g[i].end
  <1>1. n \in Nat /\ n \in 1 .. MaxSegments /\ DOMAIN g = 1 .. n /\ \A i \in 1 .. n : IsSegmentAt(g[i])
    BY DEF Joined, Sequence
  <1>2. ASSUME NEW i \in 1 .. n PROVE h[i] = Segment(g[i].kind, Start(i), End(i), g[i].left, g[i].right)
    <2>1. g[i] = Segment(g[i].kind, g[i].start, g[i].end, g[i].left, g[i].right)
      BY <1>1 DEF IsSegmentAt
    <2>2. h[i] = [g[i] EXCEPT !.start = Start(i), !.end = End(i)]
      BY <1>1, <2>1 DEF PointMovedTo, Segment
    <2> HIDE DEF Start, End, h
    <2> QED
      BY <2>1, <2>2 DEF Segment
  <1>3. h = [i \in 1 .. n |-> h[i]]
    BY <1>1 DEF PointMovedTo
  <1>4. ASSUME NEW i \in 1 .. n PROVE Start(i) \in Int /\ End(i) \in Int
    BY <1>1 DEF IsSegmentAt
  <1>5. ASSUME NEW i \in 1 .. n - 1 PROVE End(i) = Start(i + 1) /\ g[i].right = g[i + 1].left
    <2>1. g[i].end = g[i + 1].start /\ g[i].right = g[i + 1].left
      BY DEF Joined
    <2>2. PointIndex(g, i + 1) = PointIndex(g, i) + Stride(g[i].kind)
      BY <1>1, NextPoint
    <2> QED
      BY <2>1, <2>2
  <1> HIDE DEF h, Start, End
  <1>6. ASSUME NEW i \in 1 .. n PROVE IsSegmentAt(h[i])
    <2>1. /\ g[i].kind \in {"linear", "spline"} /\ g[i].start \in Int /\ g[i].end \in Int
          /\ g[i].left \in BOOLEAN /\ g[i].right \in BOOLEAN
      BY <1>1, SegmentParts
    <2>2. h[i] = Segment(g[i].kind, Start(i), End(i), g[i].left, g[i].right)
      BY <1>2
    <2> QED
      BY <1>4, <2>1, <2>2, SegmentIs, Zenon
  <1>7. \A i \in 1 .. n - 1 : h[i].end = h[i + 1].start /\ h[i].right = h[i + 1].left
    <2> SUFFICES ASSUME NEW i \in 1 .. n - 1 PROVE h[i].end = h[i + 1].start /\ h[i].right = h[i + 1].left
      OBVIOUS
    <2>1. i \in 1 .. n /\ i + 1 \in 1 .. n
      BY <1>1
    <2>2. h[i].end = End(i) /\ h[i].right = g[i].right
      BY <1>2, <2>1, SegmentFields
    <2>3. h[i + 1].start = Start(i + 1) /\ h[i + 1].left = g[i + 1].left
      BY <1>2, <2>1, SegmentFields
    <2> QED
      BY <1>5, <2>2, <2>3
  <1>8. Len(h) = n
    BY <1>1, <1>3, LengthOf
  <1>9. Joined(h)
    BY <1>1, <1>3, <1>6, <1>7, <1>8 DEF Joined, Sequence
  <1> QED
    BY <1>9 DEF h

(* A segment made linear or a spline.                                      *)
LEMMA KindKeepsJoined ==
  ASSUME NEW g, Joined(g), NEW i \in DOMAIN g, NEW kind \in {"linear", "spline"}
  PROVE  Joined([g EXCEPT ![i].kind = kind])
  <1> DEFINE n == Len(g)
             h == [g EXCEPT ![i].kind = kind]
             Kind(j) == IF j = i THEN kind ELSE g[j].kind
  <1>1. n \in Nat /\ n \in 1 .. MaxSegments /\ DOMAIN g = 1 .. n /\ \A j \in 1 .. n : IsSegmentAt(g[j])
    BY DEF Joined, Sequence
  <1>2. ASSUME NEW j \in 1 .. n PROVE h[j] = Segment(Kind(j), g[j].start, g[j].end, g[j].left, g[j].right)
    <2>1. g[j] = Segment(g[j].kind, g[j].start, g[j].end, g[j].left, g[j].right)
      BY <1>1 DEF IsSegmentAt
    <2>2. CASE j = i
      <3>1. h[j] = [g[j] EXCEPT !.kind = kind]
        BY <1>1, <2>2
      <3> QED
        BY <2>1, <2>2, <3>1 DEF Segment
    <2>3. CASE j # i
      BY <1>1, <2>1, <2>3
    <2> QED
      BY <2>2, <2>3
  <1>3. h = [j \in 1 .. n |-> h[j]]
    BY <1>1
  <1>4. ASSUME NEW j \in 1 .. n PROVE Kind(j) \in {"linear", "spline"}
    BY <1>1 DEF IsSegmentAt, IsSegment
  <1> HIDE DEF h, Kind
  <1>6. ASSUME NEW j \in 1 .. n PROVE IsSegmentAt(h[j])
    <2>1. /\ g[j].kind \in {"linear", "spline"} /\ g[j].start \in Int /\ g[j].end \in Int
          /\ g[j].left \in BOOLEAN /\ g[j].right \in BOOLEAN
      BY <1>1, SegmentParts
    <2>2. h[j] = Segment(Kind(j), g[j].start, g[j].end, g[j].left, g[j].right)
      BY <1>2
    <2> QED
      BY <1>4, <2>1, <2>2, SegmentIs, Zenon
  <1>7. \A j \in 1 .. n - 1 : h[j].end = h[j + 1].start /\ h[j].right = h[j + 1].left
    <2> SUFFICES ASSUME NEW j \in 1 .. n - 1 PROVE h[j].end = h[j + 1].start /\ h[j].right = h[j + 1].left
      OBVIOUS
    <2>1. j \in 1 .. n /\ j + 1 \in 1 .. n
      BY <1>1
    <2>2. h[j].end = g[j].end /\ h[j].right = g[j].right
      BY <1>2, <2>1, SegmentFields
    <2>3. h[j + 1].start = g[j + 1].start /\ h[j + 1].left = g[j + 1].left
      BY <1>2, <2>1, SegmentFields
    <2> QED
      BY <2>2, <2>3 DEF Joined
  <1>8. Len(h) = n
    BY <1>1, <1>3, LengthOf
  <1>9. Joined(h)
    BY <1>1, <1>3, <1>6, <1>7, <1>8 DEF Joined, Sequence
  <1> QED
    BY <1>9 DEF h

(* A join made smooth or sharp, on both its sides.                         *)
LEMMA JoinKeepsJoined ==
  ASSUME NEW g, Joined(g), NEW i \in Int, NEW smooth \in BOOLEAN
  PROVE  Joined(JoinSet(g, i, smooth))
  <1> DEFINE n == Len(g)
             h == JoinSet(g, i, smooth)
             Left(j) == IF j = i THEN smooth ELSE g[j].left
             Right(j) == IF j + 1 = i THEN smooth ELSE g[j].right
  <1>1. n \in Nat /\ n \in 1 .. MaxSegments /\ DOMAIN g = 1 .. n /\ \A j \in 1 .. n : IsSegmentAt(g[j])
    BY DEF Joined, Sequence
  <1>2. ASSUME NEW j \in 1 .. n PROVE h[j] = Segment(g[j].kind, g[j].start, g[j].end, Left(j), Right(j))
    <2>1. g[j] = Segment(g[j].kind, g[j].start, g[j].end, g[j].left, g[j].right)
      BY <1>1 DEF IsSegmentAt
    <2>2. h[j] = [g[j] EXCEPT !.left = Left(j), !.right = Right(j)]
      BY <1>1, <2>1 DEF JoinSet, Segment
    <2> HIDE DEF Left, Right, h
    <2> QED
      BY <2>1, <2>2 DEF Segment
  <1>3. h = [j \in 1 .. n |-> h[j]]
    BY <1>1 DEF JoinSet
  <1>4. ASSUME NEW j \in 1 .. n PROVE Left(j) \in BOOLEAN /\ Right(j) \in BOOLEAN
    BY <1>1 DEF IsSegmentAt, IsSegment
  <1>5. ASSUME NEW j \in 1 .. n - 1 PROVE g[j].end = g[j + 1].start /\ Right(j) = Left(j + 1)
    BY DEF Joined
  <1> HIDE DEF h, Left, Right
  <1>6. ASSUME NEW j \in 1 .. n PROVE IsSegmentAt(h[j])
    <2>1. /\ g[j].kind \in {"linear", "spline"} /\ g[j].start \in Int /\ g[j].end \in Int
          /\ g[j].left \in BOOLEAN /\ g[j].right \in BOOLEAN
      BY <1>1, SegmentParts
    <2>2. h[j] = Segment(g[j].kind, g[j].start, g[j].end, Left(j), Right(j))
      BY <1>2
    <2> QED
      BY <1>4, <2>1, <2>2, SegmentIs, Zenon
  <1>7. \A j \in 1 .. n - 1 : h[j].end = h[j + 1].start /\ h[j].right = h[j + 1].left
    <2> SUFFICES ASSUME NEW j \in 1 .. n - 1 PROVE h[j].end = h[j + 1].start /\ h[j].right = h[j + 1].left
      OBVIOUS
    <2>1. j \in 1 .. n /\ j + 1 \in 1 .. n
      BY <1>1
    <2>2. h[j].end = g[j].end /\ h[j].right = Right(j)
      BY <1>2, <2>1, SegmentFields
    <2>3. h[j + 1].start = g[j + 1].start /\ h[j + 1].left = Left(j + 1)
      BY <1>2, <2>1, SegmentFields
    <2> QED
      BY <1>5, <2>2, <2>3
  <1>8. Len(h) = n
    BY <1>1, <1>3, LengthOf
  <1>9. Joined(h)
    BY <1>1, <1>3, <1>6, <1>7, <1>8 DEF Joined, Sequence
  <1> QED
    BY <1>9 DEF h

(* A sequence of segments, for the facts about sequences.                  *)
LEMMA SequenceHas ==
  ASSUME NEW g, Sequence(g), NEW S, \A i \in 1 .. Len(g) : g[i] \in S
  PROVE  g \in Seq(S) /\ DOMAIN g = 1 .. Len(g)
  <1>1. g \in [1 .. Len(g) -> S]
    BY DEF Sequence
  <1> QED
    BY <1>1, SeqDef DEF Sequence

(* A curve in which segments i to j gave way to new ones.                  *)
Spliced(g, i, j, new, h) ==
  /\ Sequence(h) /\ Len(h) = (i - 1) + Len(new) + (Len(g) - j)
  /\ \A k \in 1 .. i - 1 : h[k] = g[k]
  /\ \A k \in 1 .. Len(new) : h[(i - 1) + k] = new[k]
  /\ \A k \in 1 .. Len(g) - j : h[(i - 1) + Len(new) + k] = g[j + k]

(* Replaced gives just that curve.                                         *)
LEMMA ReplacedIs ==
  ASSUME NEW g, Sequence(g), NEW new, Sequence(new), NEW i \in 1 .. Len(g), NEW j \in i .. Len(g)
  PROVE  Spliced(g, i, j, new, Replaced(g, i, j, new))
  <1> DEFINE h == Replaced(g, i, j, new)
             n == Len(g)
             m == Len(new)
             S == {g[k] : k \in 1 .. n} \cup {new[k] : k \in 1 .. m}
             head == SubSeq(g, 1, i - 1)
             tail == SubSeq(g, j + 1, n)
             front == head \o new
  <1>1. n \in Nat /\ m \in Nat /\ i \in Int /\ j \in Int /\ i <= j /\ j <= n /\ 1 <= i
    BY DEF Sequence
  <1>2. (\A k \in 1 .. n : g[k] \in S) /\ \A k \in 1 .. m : new[k] \in S
    OBVIOUS
  <1> HIDE DEF S
  <1>3. head \in Seq(S) /\ Len(head) = i - 1 /\ \A k \in 1 .. i - 1 : head[k] = g[k]
    <2>1. \A k \in 1 .. i - 1 : g[k] \in S
      BY <1>1, <1>2
    <2>2. /\ head \in Seq(S)
          /\ Len(head) = IF 1 <= i - 1 THEN (i - 1) - 1 + 1 ELSE 0
          /\ \A k \in 1 .. (i - 1) - 1 + 1 : head[k] = g[1 + k - 1]
      BY <1>1, <2>1, SubSeqProperties
    <2> HIDE DEF head
    <2>3. ASSUME NEW k \in 1 .. i - 1 PROVE head[k] = g[k]
      <3>1. k \in 1 .. (i - 1) - 1 + 1 /\ 1 + k - 1 = k
        BY <1>1
      <3> QED
        BY <2>2, <3>1
    <2> QED
      BY <1>1, <2>2, <2>3
  <1>4. tail \in Seq(S) /\ Len(tail) = n - j /\ \A k \in 1 .. n - j : tail[k] = g[j + k]
    <2>1. \A k \in j + 1 .. n : g[k] \in S
      BY <1>1, <1>2
    <2>2. /\ tail \in Seq(S)
          /\ Len(tail) = IF j + 1 <= n THEN n - (j + 1) + 1 ELSE 0
          /\ \A k \in 1 .. n - (j + 1) + 1 : tail[k] = g[(j + 1) + k - 1]
      BY <1>1, <2>1, SubSeqProperties
    <2> HIDE DEF tail
    <2>3. ASSUME NEW k \in 1 .. n - j PROVE tail[k] = g[j + k]
      <3>1. k \in 1 .. n - (j + 1) + 1 /\ (j + 1) + k - 1 = j + k
        BY <1>1
      <3> QED
        BY <2>2, <3>1
    <2> QED
      BY <1>1, <2>2, <2>3
  <1>5. new \in Seq(S)
    BY <1>2, SequenceHas
  <1> HIDE DEF head, tail
  <1>6. /\ front \in Seq(S) /\ Len(front) = (i - 1) + m
        /\ \A k \in 1 .. (i - 1) + m : front[k] = IF k <= i - 1 THEN head[k] ELSE new[k - (i - 1)]
    <2>1. /\ front \in Seq(S) /\ Len(front) = Len(head) + Len(new)
          /\ \A k \in 1 .. Len(head) + Len(new) : front[k] = IF k <= Len(head) THEN head[k] ELSE new[k - Len(head)]
      BY <1>3, <1>5, ConcatProperties
    <2> HIDE DEF front
    <2> QED
      BY <1>3, <2>1
  <1> HIDE DEF front
  <1>7. h = front \o tail
    BY DEF Replaced, front, head, tail
  <1> HIDE DEF h
  <1>8. /\ h \in Seq(S) /\ Len(h) = (i - 1) + m + (n - j)
        /\ \A k \in 1 .. (i - 1) + m + (n - j) : h[k] = IF k <= (i - 1) + m THEN front[k] ELSE tail[k - ((i - 1) + m)]
    <2>1. /\ h \in Seq(S) /\ Len(h) = Len(front) + Len(tail)
          /\ \A k \in 1 .. Len(front) + Len(tail) : h[k] = IF k <= Len(front) THEN front[k] ELSE tail[k - Len(front)]
      <3>1. front \in Seq(S) /\ tail \in Seq(S)
        BY <1>4, <1>6
      <3> QED
        BY <1>7, <3>1, ConcatProperties
    <2>2. Len(front) = (i - 1) + m /\ Len(tail) = n - j
      BY <1>4, <1>6
    <2> QED
      BY <2>1, <2>2
  <1>9. Sequence(h)
    BY <1>8, LenProperties DEF Sequence
  <1>10. ASSUME NEW k \in 1 .. i - 1 PROVE h[k] = g[k]
    <2>1. k \in 1 .. (i - 1) + m + (n - j) /\ k \in 1 .. (i - 1) + m /\ k <= (i - 1) + m /\ k <= i - 1
      BY <1>1
    <2> QED
      BY <1>3, <1>6, <1>8, <2>1
  <1>11. ASSUME NEW k \in 1 .. m PROVE h[(i - 1) + k] = new[k]
    <2>1. PICK x \in 1 .. (i - 1) + m : x = (i - 1) + k
      BY <1>1
    <2>2. x \in 1 .. (i - 1) + m + (n - j) /\ x <= (i - 1) + m /\ ~(x <= i - 1) /\ x - (i - 1) = k
      BY <1>1, <2>1
    <2>3. h[x] = front[x]
      BY <1>8, <2>2
    <2>4. front[x] = new[k]
      BY <1>6, <2>2
    <2> QED
      BY <2>1, <2>3, <2>4
  <1>12. ASSUME NEW k \in 1 .. n - j PROVE h[(i - 1) + m + k] = g[j + k]
    <2>1. PICK x \in 1 .. (i - 1) + m + (n - j) : x = (i - 1) + m + k
      <3>1. (i - 1) + m + k \in 1 .. (i - 1) + m + (n - j)
        BY <1>1
      <3> QED
        BY <3>1
    <2>2. ~(x <= (i - 1) + m) /\ x - ((i - 1) + m) = k
      BY <1>1, <2>1
    <2>3. h[x] = tail[k]
      BY <1>8, <2>2
    <2> QED
      BY <1>4, <2>1, <2>3
  <1>13. Spliced(g, i, j, new, h)
    BY <1>8, <1>9, <1>10, <1>11, <1>12 DEF Spliced
  <1> QED
    BY <1>13 DEF h

-----------------------------------------------------------------------------
(* Two segments that share a point, and whether it is smooth.              *)
Meets(s, t) == s.end = t.start /\ s.right = t.left

(* New segments that begin and end as the ones they replace.               *)
Fits(g, i, j, new) ==
  /\ Sequence(new) /\ Len(new) # 0
  /\ Len(new) + (i - 1) + (Len(g) - j) <= MaxSegments
  /\ \A k \in 1 .. Len(new) : IsSegmentAt(new[k])
  /\ \A k \in 1 .. Len(new) - 1 : Meets(new[k], new[k + 1])
  /\ new[1].start = g[i].start /\ new[1].left = g[i].left
  /\ new[Len(new)].end = g[j].end /\ new[Len(new)].right = g[j].right

(* A joined curve stays joined when the new segments fit in.               *)
LEMMA ReplacingKeepsJoined ==
  ASSUME NEW g, Joined(g), NEW i \in 1 .. Len(g), NEW j \in i .. Len(g), NEW new, Fits(g, i, j, new)
  PROVE  Joined(Replaced(g, i, j, new))
  <1> DEFINE n == Len(g)
             m == Len(new)
             h == Replaced(g, i, j, new)
             length == (i - 1) + m + (n - j)
  <1>1. /\ n \in Nat /\ m \in Nat /\ m # 0 /\ i \in Int /\ j \in Int /\ i <= j /\ j <= n /\ 1 <= i
        /\ MaxSegments \in Nat /\ m + (i - 1) + (n - j) <= MaxSegments
    BY FunctionAssumption DEF Joined, Fits, Sequence
  <1>2. /\ Sequence(h) /\ Len(h) = length
        /\ \A k \in 1 .. i - 1 : h[k] = g[k]
        /\ \A k \in 1 .. m : h[(i - 1) + k] = new[k]
        /\ \A k \in 1 .. n - j : h[(i - 1) + m + k] = g[j + k]
    <2>1. Sequence(g) /\ Sequence(new)
      BY DEF Joined, Fits
    <2>2. Spliced(g, i, j, new, h)
      BY <2>1, ReplacedIs
    <2> HIDE DEF h
    <2> QED
      BY <2>2 DEF Spliced
  <1>3. (\A k \in 1 .. n : IsSegmentAt(g[k])) /\ \A k \in 1 .. n - 1 : Meets(g[k], g[k + 1])
    BY DEF Joined, Meets
  <1>4. (\A k \in 1 .. m : IsSegmentAt(new[k])) /\ \A k \in 1 .. m - 1 : Meets(new[k], new[k + 1])
    BY DEF Fits
  <1>5. new[1].start = g[i].start /\ new[1].left = g[i].left /\ new[m].end = g[j].end /\ new[m].right = g[j].right
    BY DEF Fits
  <1> HIDE DEF n, m, h
  <1>6. length \in Nat /\ length \in 1 .. MaxSegments
    BY <1>1
  <1>7. ASSUME NEW k \in 1 .. length PROVE IsSegmentAt(h[k])
    <2>1. CASE k <= i - 1
      <3>1. k \in 1 .. i - 1 /\ k \in 1 .. n
        BY <1>1, <2>1
      <3> QED
        BY <1>2, <1>3, <3>1
    <2>2. CASE i - 1 < k /\ k <= (i - 1) + m
      <3>1. PICK x \in 1 .. m : k = (i - 1) + x
        <4>1. k - (i - 1) \in 1 .. m /\ k = (i - 1) + (k - (i - 1))
          BY <1>1, <2>2
        <4> QED
          BY <4>1
      <3> QED
        BY <1>2, <1>4, <3>1
    <2>3. CASE (i - 1) + m < k
      <3>1. PICK x \in 1 .. n - j : k = (i - 1) + m + x
        <4>1. k - ((i - 1) + m) \in 1 .. n - j /\ k = (i - 1) + m + (k - ((i - 1) + m))
          BY <1>1, <2>3
        <4> QED
          BY <4>1
      <3>2. j + x \in 1 .. n
        BY <1>1
      <3> QED
        BY <1>2, <1>3, <3>1, <3>2
    <2> QED
      BY <1>1, <2>1, <2>2, <2>3
  <1>8. ASSUME NEW k \in 1 .. length - 1 PROVE Meets(h[k], h[k + 1])
    <2>1. CASE k + 1 <= i - 1
      <3>1. k \in 1 .. i - 1 /\ k + 1 \in 1 .. i - 1 /\ k \in 1 .. n - 1
        BY <1>1, <2>1
      <3>2. h[k] = g[k] /\ h[k + 1] = g[k + 1]
        BY <1>2, <3>1
      <3> QED
        BY <1>3, <3>1, <3>2
    <2>2. CASE k = i - 1
      <3>1. k \in 1 .. i - 1 /\ k \in 1 .. n - 1 /\ k + 1 = i /\ (i - 1) + 1 = k + 1 /\ 1 \in 1 .. m
        BY <1>1, <2>2
      <3>2. h[k] = g[k]
        BY <1>2, <3>1
      <3>3. h[(i - 1) + 1] = new[1]
        BY <1>2, <3>1
      <3>4. h[k + 1] = new[1]
        BY <3>1, <3>3
      <3>5. Meets(g[k], g[i])
        BY <1>3, <3>1
      <3> QED
        BY <1>5, <3>2, <3>4, <3>5 DEF Meets
    <2>3. CASE i - 1 < k /\ k < (i - 1) + m
      <3>1. PICK x \in 1 .. m - 1 : k = (i - 1) + x
        <4>1. k - (i - 1) \in 1 .. m - 1 /\ k = (i - 1) + (k - (i - 1))
          BY <1>1, <2>3
        <4> QED
          BY <4>1
      <3>2. x \in 1 .. m /\ x + 1 \in 1 .. m /\ k + 1 = (i - 1) + (x + 1)
        BY <1>1, <3>1
      <3>3. h[k] = new[x] /\ h[k + 1] = new[x + 1]
        BY <1>2, <3>1, <3>2
      <3> QED
        BY <1>4, <3>3
    <2>4. CASE k = (i - 1) + m
      <3>1. m \in 1 .. m /\ 1 \in 1 .. n - j /\ k + 1 = (i - 1) + m + 1 /\ j \in 1 .. n - 1
        BY <1>1, <2>4
      <3>2. h[k] = new[m] /\ h[k + 1] = g[j + 1]
        BY <1>2, <2>4, <3>1
      <3>3. Meets(g[j], g[j + 1])
        BY <1>3, <3>1
      <3> QED
        BY <1>5, <3>2, <3>3 DEF Meets
    <2>5. CASE (i - 1) + m < k
      <3>1. PICK x \in 1 .. n - j : k = (i - 1) + m + x
        <4>1. k - ((i - 1) + m) \in 1 .. n - j /\ k = (i - 1) + m + (k - ((i - 1) + m))
          BY <1>1, <2>5
        <4> QED
          BY <4>1
      <3>2. x + 1 \in 1 .. n - j /\ k + 1 = (i - 1) + m + (x + 1) /\ j + x \in 1 .. n - 1 /\ (j + x) + 1 = j + (x + 1)
        BY <1>1, <3>1
      <3>3. h[k] = g[j + x] /\ h[k + 1] = g[j + (x + 1)]
        BY <1>2, <3>1, <3>2
      <3>4. Meets(g[j + x], g[(j + x) + 1])
        BY <1>3, <3>2
      <3> QED
        BY <3>2, <3>3, <3>4
    <2> QED
      BY <1>1, <2>1, <2>2, <2>3, <2>4, <2>5
  <1>9. Joined(h)
    BY <1>2, <1>6, <1>7, <1>8 DEF Joined, Meets
  <1> QED
    BY <1>9 DEF h

(* A sequence of two segments.                                             *)
LEMMA PairOf ==
  ASSUME NEW a, NEW b
  PROVE  Sequence(<<a, b>>) /\ Len(<<a, b>>) = 2 /\ <<a, b>>[1] = a /\ <<a, b>>[2] = b
  BY DEF Sequence

(* The same, of one segment.                                               *)
LEMMA OneOf ==
  ASSUME NEW a
  PROVE  Sequence(<<a>>) /\ Len(<<a>>) = 1 /\ <<a>>[1] = a
  BY DEF Sequence

(* A point put inside a segment.                                           *)
LEMMA InsertingKeepsJoined ==
  ASSUME NEW g, Joined(g), NEW x \in Int, NEW h \in Inserted(g, x)
  PROVE  Joined(h)
  <1>1. PICK i \in DOMAIN g :
          Room(g) /\ h = Replaced(g, i, i, <<Segment("linear", g[i].start, x, g[i].left, FALSE),
                                             Segment("linear", x, g[i].end, FALSE, g[i].right)>>)
    BY DEF Inserted
  <1> DEFINE n == Len(g)
             s == Segment("linear", g[i].start, x, g[i].left, FALSE)
             t == Segment("linear", x, g[i].end, FALSE, g[i].right)
             new == <<s, t>>
  <1>2. n \in Nat /\ i \in 1 .. n /\ IsSegmentAt(g[i]) /\ MaxSegments \in Nat /\ n + 1 <= MaxSegments
    BY <1>1, FunctionAssumption DEF Joined, Sequence, Room
  <1>3. Sequence(new) /\ Len(new) = 2 /\ new[1] = s /\ new[2] = t
    BY PairOf
  <1>4. /\ g[i].start \in Int /\ g[i].end \in Int /\ g[i].left \in BOOLEAN /\ g[i].right \in BOOLEAN
        /\ FALSE \in BOOLEAN /\ "linear" \in {"linear", "spline"}
    BY <1>2, SegmentParts
  <1>5. IsSegmentAt(s) /\ IsSegmentAt(t)
    BY <1>4, SegmentIs, Zenon
  <1>6. /\ s.start = g[i].start /\ s.left = g[i].left /\ s.end = x /\ s.right = FALSE
        /\ t.start = x /\ t.left = FALSE /\ t.end = g[i].end /\ t.right = g[i].right
    BY DEF Segment
  <1> HIDE DEF s, t
  <1>7. Meets(s, t)
    BY <1>6 DEF Meets
  <1> HIDE DEF new
  <1>8. \A k \in 1 .. Len(new) : IsSegmentAt(new[k])
    <2>1. ASSUME NEW k \in 1 .. Len(new) PROVE k = 1 \/ k = 2
      BY <1>3
    <2> QED
      BY <1>3, <1>5, <2>1
  <1>9. \A k \in 1 .. Len(new) - 1 : Meets(new[k], new[k + 1])
    <2>1. ASSUME NEW k \in 1 .. Len(new) - 1 PROVE k = 1 /\ k + 1 = 2
      BY <1>3
    <2> QED
      BY <1>3, <1>7, <2>1
  <1>10. Len(new) + (i - 1) + (n - i) <= MaxSegments /\ Len(new) # 0
    BY <1>2, <1>3
  <1>11. Fits(g, i, i, new)
    BY <1>3, <1>6, <1>8, <1>9, <1>10 DEF Fits
  <1>12. i \in i .. n
    BY <1>2
  <1>13. h = Replaced(g, i, i, new)
    BY <1>1 DEF new, s, t
  <1> QED
    BY <1>2, <1>11, <1>12, <1>13, ReplacingKeepsJoined

(* A point deleted between two segments.                                   *)
LEMMA DeletingKeepsJoined ==
  ASSUME NEW g, Joined(g), NEW index, NEW h \in Deleted(g, index)
  PROVE  Joined(h)
  <1>1. PICK i \in 1 .. Len(g) - 1 :
          h = Replaced(g, i, i + 1, <<Segment("linear", g[i].start, g[i + 1].end, g[i].left, g[i + 1].right)>>)
    BY DEF Deleted
  <1> DEFINE n == Len(g)
             s == Segment("linear", g[i].start, g[i + 1].end, g[i].left, g[i + 1].right)
             new == <<s>>
  <1>2. /\ n \in Nat /\ i \in 1 .. n /\ i + 1 \in 1 .. n /\ IsSegmentAt(g[i]) /\ IsSegmentAt(g[i + 1])
        /\ MaxSegments \in Nat /\ n <= MaxSegments
    BY <1>1, FunctionAssumption DEF Joined
  <1>3. Sequence(new) /\ Len(new) = 1 /\ new[1] = s
    BY OneOf
  <1>4. /\ g[i].start \in Int /\ g[i + 1].end \in Int /\ g[i].left \in BOOLEAN /\ g[i + 1].right \in BOOLEAN
        /\ "linear" \in {"linear", "spline"}
    BY <1>2, SegmentParts
  <1>5. IsSegmentAt(s)
    BY <1>4, SegmentIs, Zenon
  <1>6. s.start = g[i].start /\ s.left = g[i].left /\ s.end = g[i + 1].end /\ s.right = g[i + 1].right
    BY DEF Segment
  <1> HIDE DEF s, new
  <1>8. \A k \in 1 .. Len(new) : IsSegmentAt(new[k])
    <2>1. ASSUME NEW k \in 1 .. Len(new) PROVE k = 1
      BY <1>3
    <2> QED
      BY <1>3, <1>5, <2>1
  <1>9. \A k \in 1 .. Len(new) - 1 : Meets(new[k], new[k + 1])
    BY <1>3
  <1>10. Len(new) + (i - 1) + (n - (i + 1)) <= MaxSegments /\ Len(new) # 0
    BY <1>2, <1>3
  <1>11. Fits(g, i, i + 1, new)
    BY <1>3, <1>6, <1>8, <1>9, <1>10 DEF Fits
  <1>12. i + 1 \in i .. n
    BY <1>2
  <1>13. h = Replaced(g, i, i + 1, new)
    BY <1>1 DEF new, s
  <1> QED
    BY <1>2, <1>11, <1>12, <1>13, ReplacingKeepsJoined

-----------------------------------------------------------------------------
(* The graphs a function keeps: as many as its type and its range ask for, *)
(* each a curve as drawn or a set of parameters.                           *)
Count(target, twice) == IF target = "basic" THEN 0 ELSE IF twice THEN 2 ELSE 1

Graph(target, c) ==
  IF target = "curve" THEN Drawn(c) ELSE c = [params |-> c.params] /\ c.params \in Params

Kept(target, twice, G) ==
  /\ target \in MasterTypes /\ twice \in BOOLEAN
  /\ Sequence(G) /\ Len(G) = Count(target, twice)
  /\ \A s \in 1 .. Len(G) : Graph(target, G[s])

FunctionInv == Kept(type, ranged, graphs)

(* A function rebuilt for another type or range keeps such graphs.         *)
LEMMA RebuiltIsKept ==
  ASSUME NEW target \in MasterTypes, NEW twice \in BOOLEAN
  PROVE  Kept(target, twice, Rebuilt(target, twice))
  <1>1. Graph(target, DefaultGraph(target))
    <2>1. CASE target = "curve"
      BY <2>1, TheLineIsDrawn DEF Graph
    <2>2. CASE target # "curve"
      BY <2>2 DEF Graph, DefaultGraph, Params
    <2> QED
      BY <2>1, <2>2
  <1>2. CASE target = "basic"
    <2>1. Rebuilt(target, twice) = <<>>
      BY <1>2 DEF Rebuilt
    <2>2. Sequence(<<>>) /\ Len(<<>>) = 0
      BY DEF Sequence
    <2> QED
      BY <1>2, <2>1, <2>2 DEF Kept, Count
  <1>3. CASE target # "basic"
    <2> DEFINE n == IF twice THEN 2 ELSE 1
               G == [s \in 1 .. n |-> DefaultGraph(target)]
    <2>1. Rebuilt(target, twice) = G
      BY <1>3 DEF Rebuilt
    <2>2. n \in Nat /\ n = Count(target, twice)
      BY <1>3 DEF Count
    <2>3. G = [s \in 1 .. n |-> G[s]] /\ \A s \in 1 .. n : G[s] = DefaultGraph(target)
      OBVIOUS
    <2> HIDE DEF G, n
    <2>4. Len(G) = n
      BY <2>2, <2>3, LengthOf
    <2> QED
      BY <1>1, <2>1, <2>2, <2>3, <2>4 DEF Kept, Sequence
  <1> QED
    BY <1>2, <1>3

(* An edit of one curve: that curve is drawn anew, the others stay.        *)
LEMMA ApplyingKeeps ==
  ASSUME FunctionInv, type = "curve", NEW slot \in Slots, NEW g, Joined(g), Apply(slot, g)
  PROVE  FunctionInv' /\ \A s \in Slots : s # slot => graphs'[s] = graphs[s]
  <1> DEFINE n == Len(graphs)
  <1>1. /\ n \in Nat /\ Slots = 1 .. n /\ \A s \in 1 .. n : Drawn(graphs[s])
        /\ ranged \in BOOLEAN /\ n = Count(type, ranged)
    BY DEF FunctionInv, Kept, Sequence, Slots, Graph
  <1>2. graphs' = [s \in 1 .. n |-> Curve(Editors(slot, g)[s])] /\ type' = type /\ ranged' = ranged
    BY <1>1 DEF Apply
  <1>3. graphs'[slot] = Curve(g)
    BY <1>1, <1>2 DEF Editors
  <1>4. \A s \in Slots : s # slot => graphs'[s] = graphs[s]
    <2> SUFFICES ASSUME NEW s \in Slots, s # slot PROVE graphs'[s] = graphs[s]
      OBVIOUS
    <2>1. graphs'[s] = Curve(graphs[s].editor)
      BY <1>1, <1>2 DEF Editors
    <2> QED
      BY <1>1, <2>1, DrawnAgain
  <1>5. \A s \in 1 .. n : Drawn(graphs'[s])
    <2>1. Drawn(Curve(g))
      BY CurveIsDrawn
    <2> QED
      BY <1>1, <1>3, <1>4, <2>1
  <1>6. graphs' = [s \in 1 .. n |-> graphs'[s]]
    BY <1>2
  <1>7. Len(graphs') = n
    BY <1>1, <1>6, LengthOf
  <1>8. type' \in MasterTypes /\ ranged' \in BOOLEAN
    BY <1>2 DEF FunctionInv, Kept
  <1>9. Kept(type', ranged', graphs')
    BY <1>1, <1>2, <1>5, <1>6, <1>7, <1>8 DEF Kept, Sequence, Graph
  <1> QED
    BY <1>4, <1>9 DEF FunctionInv

(* Whatever the edit, it applies a curve of joined segments.               *)
LEMMA EditsAreJoined ==
  ASSUME FunctionInv, NEW slot \in Slots, EditCurve(slot)
  PROVE  \E g : Joined(g) /\ Apply(slot, g)
  <1> DEFINE e == Editor(slot)
  <1>1. type = "curve"
    BY DEF EditCurve
  <1>2. Joined(e)
    BY <1>1 DEF FunctionInv, Kept, Sequence, Slots, Graph, Drawn, Editor
  <1>3. Len(e) \in Nat
    BY <1>2 DEF Joined
  <1>4. ASSUME NEW x \in Xs, SetControlPoint(slot, x) PROVE \E g : Joined(g) /\ Apply(slot, g)
    <2>1. x \in Int
      BY FunctionAssumption
    <2>2. PICK index : Apply(slot, PointMovedTo(e, index, x))
      BY <1>4 DEF SetControlPoint
    <2>3. Joined(PointMovedTo(e, index, x))
      BY <1>2, <2>1, MovingKeepsJoined
    <2> QED
      BY <2>2, <2>3
  <1>5. ASSUME NEW x \in Xs, InsertPoint(slot, x) PROVE \E g : Joined(g) /\ Apply(slot, g)
    <2>1. Clamped(x) \in Int
      BY FunctionAssumption DEF Clamped
    <2>2. PICK g \in Inserted(e, Clamped(x)) : Apply(slot, g)
      BY <1>5 DEF InsertPoint
    <2>3. Joined(g)
      BY <1>2, <2>1, <2>2, InsertingKeepsJoined
    <2> QED
      BY <2>2, <2>3
  <1>6. ASSUME NEW kind \in {"linear", "spline"}, SetSegmentType(slot, kind) PROVE \E g : Joined(g) /\ Apply(slot, g)
    <2>1. PICK i \in DOMAIN e : Apply(slot, [e EXCEPT ![i].kind = kind])
      BY <1>6 DEF SetSegmentType
    <2>2. Joined([e EXCEPT ![i].kind = kind])
      BY <1>2, KindKeepsJoined
    <2> QED
      BY <2>1, <2>2
  <1>7. ASSUME NEW smooth \in BOOLEAN, SetJoinMode(slot, smooth) PROVE \E g : Joined(g) /\ Apply(slot, g)
    <2>1. PICK i \in 1 .. Len(e) + 1 : Apply(slot, JoinSet(e, i, smooth))
      BY <1>7 DEF SetJoinMode
    <2>2. Joined(JoinSet(e, i, smooth))
      BY <1>2, <1>3, JoinKeepsJoined
    <2> QED
      BY <2>1, <2>2
  <1>8. ASSUME DeletePoint(slot) PROVE \E g : Joined(g) /\ Apply(slot, g)
    <2>1. PICK index, g : g \in Deleted(e, index) /\ Apply(slot, g)
      BY <1>8 DEF DeletePoint
    <2>2. Joined(g)
      BY <1>2, <2>1, DeletingKeepsJoined
    <2> QED
      BY <2>1, <2>2
  <1> QED
    BY <1>4, <1>5, <1>6, <1>7, <1>8 DEF EditCurve

(* New parameters of one graph.                                            *)
LEMMA ParamsKeep ==
  ASSUME FunctionInv, NEW slot \in Slots, NEW p \in Params, SetParams(slot, p)
  PROVE  FunctionInv' /\ \A s \in Slots : s # slot => graphs'[s] = graphs[s]
  <1> DEFINE n == Len(graphs)
  <1>1. /\ n \in Nat /\ Slots = 1 .. n /\ ranged \in BOOLEAN /\ n = Count(type, ranged)
        /\ \A s \in 1 .. n : Graph(type, graphs[s])
    BY DEF FunctionInv, Kept, Sequence, Slots
  <1>2. /\ type # "curve" /\ type' = type /\ ranged' = ranged
        /\ graphs' = [graphs EXCEPT ![slot].params = p]
    BY DEF SetParams
  <1>3. \A s \in Slots : s # slot => graphs'[s] = graphs[s]
    BY <1>2 DEF Slots
  <1>4. graphs' = [s \in 1 .. n |-> graphs'[s]]
    BY <1>1, <1>2 DEF Slots
  <1>5. Graph(type, graphs'[slot])
    <2>1. graphs'[slot] = [graphs[slot] EXCEPT !.params = p]
      BY <1>2 DEF Slots
    <2>2. graphs[slot] = [params |-> graphs[slot].params]
      BY <1>1, <1>2 DEF Graph
    <2>3. graphs'[slot] = [params |-> p]
      BY <2>1, <2>2
    <2> QED
      BY <1>2, <2>3 DEF Graph
  <1>6. \A s \in 1 .. n : Graph(type, graphs'[s])
    BY <1>1, <1>3, <1>5
  <1>7. Len(graphs') = n
    BY <1>1, <1>4, LengthOf
  <1>8. type' \in MasterTypes /\ ranged' \in BOOLEAN
    BY <1>2 DEF FunctionInv, Kept
  <1>9. Kept(type', ranged', graphs')
    BY <1>1, <1>2, <1>4, <1>6, <1>7, <1>8 DEF Kept, Sequence
  <1> QED
    BY <1>3, <1>9 DEF FunctionInv

(* A function starts with the graphs it should keep, and has them after    *)
(* every step: FunctionInv is inductive.                                   *)
LEMMA FunctionInvInit ==
  ASSUME FunctionInit
  PROVE  FunctionInv
  <1>1. Kept("basic", FALSE, Rebuilt("basic", FALSE))
    <2>1. "basic" \in MasterTypes /\ FALSE \in BOOLEAN
      BY DEF MasterTypes
    <2> QED
      BY <2>1, RebuiltIsKept, Zenon
  <1>2. Rebuilt("basic", FALSE) = <<>>
    BY DEF Rebuilt
  <1> QED
    BY <1>1, <1>2 DEF FunctionInit, FunctionInv

(* Every step of the editor keeps the graphs as they should be.            *)
LEMMA FunctionInvNext ==
  ASSUME FunctionInv, [FunctionNext]_functionVars
  PROVE  FunctionInv'
  <1>1. ranged \in BOOLEAN /\ type \in MasterTypes
    BY DEF FunctionInv, Kept
  <1>2. ASSUME NEW target \in MasterTypes, SetMasterType(target) PROVE FunctionInv'
    <2>1. ranged' = (ranged /\ target # "basic")
      BY <1>2 DEF SetMasterType
    <2>2. ranged' \in BOOLEAN
      BY <2>1
    <2>3. type' = target /\ graphs' = Rebuilt(target, ranged')
      BY <1>2 DEF SetMasterType
    <2>4. Kept(target, ranged', Rebuilt(target, ranged'))
      BY <2>2, RebuiltIsKept
    <2> QED
      BY <2>3, <2>4 DEF FunctionInv
  <1>3. ASSUME SetRanged PROVE FunctionInv'
    <2>1. ranged' \in BOOLEAN /\ type' = type /\ graphs' = Rebuilt(type, ranged')
      BY <1>3 DEF SetRanged
    <2>2. Kept(type, ranged', Rebuilt(type, ranged'))
      BY <1>1, <2>1, RebuiltIsKept
    <2> QED
      BY <2>1, <2>2 DEF FunctionInv
  <1>4. ASSUME NEW slot \in Slots, EditCurve(slot) PROVE FunctionInv'
    <2>1. type = "curve"
      BY <1>4 DEF EditCurve
    <2> QED
      BY <1>4, <2>1, EditsAreJoined, ApplyingKeeps
  <1>5. ASSUME NEW slot \in Slots, NEW p \in Params, SetParams(slot, p) PROVE FunctionInv'
    BY <1>5, ParamsKeep
  <1>6. ASSUME UNCHANGED functionVars PROVE FunctionInv'
    BY <1>6 DEF FunctionInv, functionVars
  <1> QED
    BY <1>2, <1>3, <1>4, <1>5, <1>6 DEF FunctionNext, EditSlot

(* Hence in every state the editor reaches.                                *)
LEMMA FunctionInvAlways == FunctionSpec => []FunctionInv
  BY FunctionInvInit, FunctionInvNext, PTL DEF FunctionSpec

-----------------------------------------------------------------------------
(* What a drawn curve is.                                                  *)
LEMMA DrawnIs ==
  ASSUME NEW c, Drawn(c)
  PROVE  LET g == c.editor
             n == Len(g)
         IN  /\ n \in Nat /\ n # 0 /\ n <= MaxSegments /\ DOMAIN g = 1 .. n
             /\ \A i \in 1 .. n : IsSegment(g[i]) /\ g[i].start \in Int /\ g[i].end \in Int /\ g[i].start <= g[i].end
             /\ g[1].start = 0 /\ ~g[1].left /\ ~g[n].right /\ g[n].end >= Unit
             /\ \A i \in 1 .. n - 1 :
                  /\ g[i].end = g[i + 1].start /\ g[i].right = g[i + 1].left
                  /\ g[i].right => ~Linear(g, i) /\ ~Linear(g, i + 1)
  <1> DEFINE g == c.editor
             n == Len(g)
             ends == Ends(g)
  <1>1. Joined(g) /\ Settle(g) = g
    BY DEF Drawn
  <1> HIDE DEF g
  <1>2. /\ n \in Nat /\ n # 0 /\ n <= MaxSegments /\ DOMAIN g = 1 .. n
        /\ \A i \in 1 .. n : IsSegmentAt(g[i])
        /\ \A i \in 1 .. n - 1 : g[i].end = g[i + 1].start /\ g[i].right = g[i + 1].left
    BY <1>1, FunctionAssumption DEF Joined, Sequence
  <1>3. ASSUME NEW i \in 1 .. n
        PROVE  /\ g[i].start = ends[i - 1] /\ g[i].end = ends[i]
               /\ g[i].left = (g[i].left /\ MaySmooth(g, i, i - 1)) /\ g[i].right = (g[i].right /\ MaySmooth(g, i, i + 1))
    BY <1>1, SettledAre, SegmentFields
  <1>4. /\ ends[0] = 0 /\ ends[n] >= Unit
        /\ \A i \in 1 .. n : ends[i - 1] <= ends[i]
    BY <1>1, EndsRise
  <1> HIDE DEF n, ends
  <1>5. \A i \in 1 .. n : g[i].left \in BOOLEAN /\ g[i].right \in BOOLEAN
    BY <1>2 DEF IsSegmentAt, IsSegment
  <1>6. 1 \in 1 .. n /\ n \in 1 .. n /\ 1 - 1 = 0
    BY <1>2
  <1>7. g[1].start = 0 /\ g[n].end >= Unit
    BY <1>3, <1>4, <1>6
  <1>8. ~g[1].left /\ ~g[n].right
    <2>1. ~MaySmooth(g, 1, 1 - 1) /\ ~MaySmooth(g, n, n + 1)
      BY <1>2 DEF MaySmooth
    <2> QED
      BY <1>3, <1>5, <1>6, <2>1
  <1>9. \A i \in 1 .. n : IsSegment(g[i]) /\ g[i].start \in Int /\ g[i].end \in Int /\ g[i].start <= g[i].end
    <2>1. \A i \in 1 .. n : g[i].start <= g[i].end
      BY <1>3, <1>4
    <2> QED
      BY <1>2, <2>1 DEF IsSegmentAt
  <1>10. \A i \in 1 .. n - 1 : g[i].right => ~Linear(g, i) /\ ~Linear(g, i + 1)
    <2> SUFFICES ASSUME NEW i \in 1 .. n - 1, g[i].right PROVE ~Linear(g, i) /\ ~Linear(g, i + 1)
      OBVIOUS
    <2>1. i \in 1 .. n
      BY <1>2
    <2>2. MaySmooth(g, i, i + 1)
      BY <1>3, <1>5, <2>1
    <2> QED
      BY <2>2 DEF MaySmooth
  <1> QED
    BY <1>2, <1>7, <1>8, <1>9, <1>10 DEF n, g

(* The editor has as many graphs as its type and range ask for, and no     *)
(* insertion, deletion or rebuild leaves a curve without a segment, with   *)
(* more than MaxSegments, or with a malformed one.                         *)
THEOREM FunctionTypes == FunctionSpec => []FunctionTypeOK
  <1>1. ASSUME FunctionInv PROVE FunctionTypeOK
    <2>1. /\ type \in MasterTypes /\ ranged \in BOOLEAN /\ Len(graphs) = Count(type, ranged)
          /\ Slots = 1 .. Len(graphs) /\ \A s \in Slots : Graph(type, graphs[s])
      BY <1>1 DEF FunctionInv, Kept, Sequence, Slots
    <2>2. ASSUME NEW s \in Slots, type = "curve"
          PROVE  Len(Editor(s)) \in 1 .. MaxSegments /\ \A i \in DOMAIN Editor(s) : IsSegment(Editor(s)[i])
      <3>1. Drawn(graphs[s])
        BY <2>1, <2>2 DEF Graph
      <3> DEFINE g == graphs[s].editor
      <3>2. /\ Len(g) \in Nat /\ Len(g) # 0 /\ Len(g) <= MaxSegments /\ DOMAIN g = 1 .. Len(g)
            /\ \A i \in 1 .. Len(g) : IsSegment(g[i])
        BY <3>1, DrawnIs
      <3>3. Len(g) \in 1 .. MaxSegments
        BY <3>2, FunctionAssumption
      <3> QED
        BY <3>2, <3>3 DEF Editor
    <2>3. ASSUME NEW s \in Slots, type # "curve" PROVE graphs[s].params \in Params
      BY <2>1, <2>3 DEF Graph
    <2> QED
      BY <2>1, <2>2, <2>3 DEF FunctionTypeOK, Count
  <1> QED
    BY <1>1, FunctionInvAlways, PTL

(* However points are dropped and kinds and joins changed, every curve     *)
(* runs from x = 0 at least to x = 1 without a gap, never backwards, and   *)
(* is smooth only between two splines: apply_curve_graphs settles it.      *)
THEOREM CurvesStayContinuous == FunctionSpec => []CurvesAreContinuous
  <1>1. ASSUME FunctionInv PROVE CurvesAreContinuous
    <2> SUFFICES ASSUME type = "curve", NEW s \in Slots
                 PROVE  LET g == Editor(s) IN
                          /\ g[1].start = 0 /\ ~g[1].left /\ ~g[Len(g)].right /\ g[Len(g)].end >= Unit
                          /\ \A i \in DOMAIN g : g[i].start <= g[i].end
                          /\ \A i \in 1 .. Len(g) - 1 :
                               /\ g[i].end = g[i + 1].start
                               /\ g[i].right = g[i + 1].left
                               /\ g[i].right => ~Linear(g, i) /\ ~Linear(g, i + 1)
      BY DEF CurvesAreContinuous
    <2>1. Drawn(graphs[s])
      BY <1>1 DEF FunctionInv, Kept, Sequence, Slots, Graph
    <2> QED
      BY <2>1, DrawnIs DEF Editor
  <1> QED
    BY <1>1, FunctionInvAlways, PTL

(* The first piece that does not end before the input was compiled from    *)
(* the segment the input lies in.                                          *)
LEMMA FirstPieceIs ==
  ASSUME NEW c, Drawn(c), NEW x \in 0 .. Unit
  PROVE  LET i == FirstPiece(c.compact, x)
             piece == c.compact[i]
             segment == c.editor[i]
         IN  /\ segment.start <= x /\ x <= segment.end
             /\ <<piece.kind, piece.start, piece.end>> = <<segment.kind, segment.start, segment.end>>
  <1> DEFINE g == c.editor
             p == c.compact
             n == Len(g)
  <1>1. /\ n \in Nat /\ n # 0 /\ DOMAIN g = 1 .. n
        /\ \A i \in 1 .. n : g[i].start \in Int /\ g[i].end \in Int
        /\ g[1].start = 0 /\ g[n].end >= Unit
        /\ \A i \in 1 .. n - 1 : g[i].end = g[i + 1].start
    BY DrawnIs
  <1>2. p = Compile(g)
    BY DEF Drawn
  <1> HIDE DEF g, p
  <1>3. /\ DOMAIN p = 1 .. n
        /\ \A i \in 1 .. n : /\ p[i].kind = g[i].kind /\ p[i].start = g[i].start /\ p[i].end = g[i].end
                             /\ p[i].ending = IF i = n THEN EndOfLine ELSE g[i].end
    BY <1>1, <1>2 DEF Compile
  <1> HIDE DEF n
  <1>4. x \in Int /\ 0 <= x /\ x <= Unit /\ Unit \in Int /\ x <= EndOfLine /\ EndOfLine \in Int
    BY FunctionAssumption DEF EndOfLine
  <1> DEFINE Reaching == {i \in 1 .. n : x <= p[i].ending}
             First(i) == x <= p[i].ending /\ \A j \in 1 .. i - 1 : p[j].ending < x
  <1>5. Reaching \in SUBSET Nat /\ n \in Reaching
    BY <1>1, <1>3, <1>4
  <1>6. PICK m \in Reaching : \A k \in Reaching : m <= k
    <2> HIDE DEF Reaching
    <2> QED
      BY <1>5, LeastNumber
  <1>7. m \in DOMAIN p /\ First(m)
    <2>1. ASSUME NEW j \in 1 .. m - 1 PROVE p[j].ending < x
      <3>1. j \in 1 .. n /\ j \notin Reaching /\ j # n
        BY <1>1, <1>6
      <3>2. p[j].ending \in Int /\ ~(x <= p[j].ending)
        BY <1>1, <1>3, <3>1
      <3> QED
        BY <1>4, <3>2
    <2> QED
      BY <1>3, <1>6, <2>1
  <1> DEFINE i == FirstPiece(p, x)
  <1>8. i \in DOMAIN p /\ First(i)
    <2>1. i = CHOOSE k \in DOMAIN p : First(k)
      BY DEF FirstPiece
    <2> HIDE DEF First, i
    <2> QED
      BY <1>7, <2>1
  <1> HIDE DEF i
  <1>9. i \in 1 .. n /\ x <= p[i].ending /\ \A j \in 1 .. i - 1 : p[j].ending < x
    BY <1>3, <1>8
  <1>10. g[i].start <= x
    <2>1. CASE i = 1
      BY <1>1, <1>4, <2>1
    <2>2. CASE i # 1
      <3>1. PICK j \in 1 .. n - 1 : j + 1 = i /\ j \in 1 .. i - 1 /\ j \in 1 .. n /\ j # n
        <4>1. i - 1 \in 1 .. n - 1 /\ (i - 1) + 1 = i /\ i - 1 \in 1 .. i - 1 /\ i - 1 \in 1 .. n /\ i - 1 # n
          BY <1>1, <1>9, <2>2
        <4> QED
          BY <4>1
      <3>2. g[j].end < x /\ g[j].end = g[i].start
        BY <1>1, <1>3, <1>9, <3>1
      <3> QED
        BY <1>1, <1>4, <3>1, <3>2
    <2> QED
      BY <2>1, <2>2
  <1>11. x <= g[i].end
    BY <1>1, <1>3, <1>4, <1>9
  <1>12. <<p[i].kind, p[i].start, p[i].end>> = <<g[i].kind, g[i].start, g[i].end>>
    BY <1>3, <1>9
  <1> QED
    BY <1>10, <1>11, <1>12 DEF i, p, g

(* Every input from 0 to 1 is evaluated by the piece compiled from the     *)
(* segment the editor shows it in.                                         *)
THEOREM InputsAlwaysFindTheirSegment == FunctionSpec => []InputsFindTheirSegment
  <1>1. ASSUME FunctionInv PROVE InputsFindTheirSegment
    <2>1. ASSUME type = "curve", NEW s \in Slots PROVE Drawn(graphs[s])
      BY <1>1, <2>1 DEF FunctionInv, Kept, Sequence, Slots, Graph
    <2> QED
      BY <2>1, FirstPieceIs DEF InputsFindTheirSegment, Editor
  <1> QED
    BY <1>1, FunctionInvAlways, PTL

(* An edit of one graph of a ranged function leaves the other as it was,   *)
(* though it was settled and compiled again: settling settles once.        *)
THEOREM EditsAlwaysSpareTheOther == FunctionSpec => EditsSpareTheOther
  <1> DEFINE Spared == UNCHANGED <<type, ranged>> =>
               \A s, t \in Slots : s # t => graphs'[s] = graphs[s] \/ graphs'[t] = graphs[t]
  <1>1. ASSUME FunctionInv, [FunctionNext]_functionVars PROVE Spared
    <2>1. ranged \in BOOLEAN
      BY <1>1 DEF FunctionInv, Kept
    <2>2. ASSUME NEW target \in MasterTypes, SetMasterType(target) PROVE type' # type
      BY <2>2 DEF SetMasterType
    <2>3. ASSUME SetRanged PROVE ranged' # ranged
      BY <2>1, <2>3 DEF SetRanged
    <2>4. ASSUME NEW slot \in Slots, EditSlot(slot) PROVE \A s \in Slots : s # slot => graphs'[s] = graphs[s]
      <3>1. CASE EditCurve(slot)
        <4>1. type = "curve"
          BY <3>1 DEF EditCurve
        <4> QED
          BY <1>1, <3>1, <4>1, EditsAreJoined, ApplyingKeeps
      <3>2. ASSUME NEW p \in Params, SetParams(slot, p) PROVE \A s \in Slots : s # slot => graphs'[s] = graphs[s]
        BY <1>1, <3>2, ParamsKeep
      <3> QED
        BY <2>4, <3>1, <3>2 DEF EditSlot
    <2>5. ASSUME UNCHANGED functionVars PROVE graphs' = graphs
      BY <2>5 DEF functionVars
    <2> QED
      BY <1>1, <2>2, <2>3, <2>4, <2>5 DEF FunctionNext
  <1>2. FunctionInv /\ [FunctionNext]_functionVars => [Spared]_functionVars
    BY <1>1
  <1> QED
    BY <1>2, FunctionInvAlways, PTL DEF FunctionSpec, EditsSpareTheOther
=============================================================================
