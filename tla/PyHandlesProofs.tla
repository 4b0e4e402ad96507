-------------------------- MODULE PyHandlesProofs --------------------------
(***************************************************************************)
(* Proofs about the Python handles, for every tag shape, every number of   *)
(* elements, edits and handles.                                            *)
(***************************************************************************)
EXTENDS PyHandles, TLAPS, WellFoundedInduction

(* The least-number principle, for sets of numbers: what the proofs use in *)
(* place of induction.                                                     *)
LEMMA LeastNumber ==
  ASSUME NEW T \in SUBSET Nat, T # {}
  PROVE  \E m \in T : \A k \in T : m <= k
<1> DEFINE R == {ss \in Nat \X Nat : ss[1] < ss[2]}
<1>1. IsWellFoundedOn(R, Nat)  BY NatLessThanWellFounded, Zenon DEF OpToRel
<1>2. \E x \in T : \A y \in T : ~(<<y, x>> \in R)
  <2> HIDE DEF R
  <2>1. QED  BY <1>1, WFMin, Zenon
<1>3. PICK x \in T : \A y \in T : ~(<<y, x>> \in R)  BY <1>2
<1>4. ASSUME NEW y \in T  PROVE x <= y
  <2>1. ~(<<y, x>> \in R)  BY <1>3
  <2>2. ~(y < x)  BY <2>1, SMT
  <2>3. QED  BY <2>2, SMT
<1>5. QED  BY <1>4, SMT

(* The block operations keep the elements in the set they were in.         *)
LEMMA ConcatType ==
  ASSUME NEW T, NEW s \in Seq(T), NEW t \in Seq(T)
  PROVE  s \o t \in Seq(T)
OBVIOUS

LEMMA SubSeqType ==
  ASSUME NEW T, NEW s \in Seq(T), NEW i \in Nat, NEW j \in Nat, i >= 1, j <= Len(s)
  PROVE  SubSeq(s, i, j) \in Seq(T)
<1>1. \A k \in i..j : s[k] \in T  BY SMT
<1>2. QED  BY <1>1, SMT

LEMMA InsertAtType ==
  ASSUME NEW T, NEW s \in Seq(T), NEW x \in T, NEW i \in 1..(Len(s) + 1)
  PROVE  InsertAt(s, i, x) \in Seq(T)
<1>1. SubSeq(s, 1, i - 1) \in Seq(T)  BY SubSeqType, SMT
<1>2. SubSeq(s, i, Len(s)) \in Seq(T)  BY SubSeqType, SMT
<1>3. <<x>> \in Seq(T)  BY SMT
<1>4. QED  BY <1>1, <1>2, <1>3, ConcatType DEF InsertAt

LEMMA RemoveAtType ==
  ASSUME NEW T, NEW s \in Seq(T), NEW i \in 1..Len(s)
  PROVE  /\ RemoveAt(s, i) \in Seq(T)
         /\ Len(RemoveAt(s, i)) = Len(s) - 1
<1> DEFINE u == SubSeq(s, 1, i - 1)
           v == SubSeq(s, i + 1, Len(s))
<1>1. u \in Seq(T) /\ Len(u) = i - 1  BY SubSeqType, SMT
<1>2. v \in Seq(T) /\ Len(v) = Len(s) - i  BY SubSeqType, SMT
<1>3. RemoveAt(s, i) = u \o v  BY DEF RemoveAt
<1> HIDE DEF u, v
<1>4. Len(u \o v) = Len(u) + Len(v)  BY <1>1, <1>2, SMT
<1>5. Len(u \o v) = Len(s) - 1  BY <1>1, <1>2, <1>4, SMT
<1>6. QED  BY <1>1, <1>2, <1>3, <1>5, ConcatType

LEMMA SwapType ==
  ASSUME NEW T, NEW s \in Seq(T), NEW i \in 1..Len(s), NEW j \in 1..Len(s)
  PROVE  [s EXCEPT ![i] = s[j], ![j] = s[i]] \in Seq(T)
<1>1. s \in [1..Len(s) -> T]  BY SMT
<1>2. [s EXCEPT ![i] = s[j], ![j] = s[i]] \in [1..Len(s) -> T]  BY <1>1, SMT
<1>3. QED  BY <1>2, SMT
-----------------------------------------------------------------------------
(* A route that runs through the positions of its path stands, after i - 1 *)
(* steps, at a position of length i that spells the path's first names.    *)
LEMMA RouteSpells ==
  ASSUME NEW a \in Anchor, NEW p \in Seq(Segment), NEW n \in Nat, n <= Len(p),
         NEW r, OnPath(a, p, n, r), RootsOK, used \subseteq Node,
         place \in [Node -> Seq(Anchor \cup Field)]
  PROVE  \A i \in 1..(n + 1) :
           /\ Len(place[r[i]]) = i
           /\ \A j \in 2..i : place[r[i]][j] = p[j - 1].field
<1> DEFINE Good(i) == /\ Len(place[r[i]]) = i
                      /\ \A j \in 2..i : place[r[i]][j] = p[j - 1].field
           Bad == {i \in 1..(n + 1) : ~Good(i)}
<1>1. r \in Seq(Node) /\ Len(r) = n + 1  BY SMT DEF OnPath
<1>2. Good(1)
  <2>1. place[r[1]] = <<a>>  BY DEF OnPath, RootsOK
  <2>2. QED  BY <2>1, SMT
<1>3. ASSUME NEW i \in 1..n, Good(i)  PROVE Good(i + 1)
  <2>1. place[r[i + 1]] = Append(place[r[i]], p[i].field)  BY DEF OnPath
  <2>2. r[i] \in Node /\ place[r[i]] \in Seq(Anchor \cup Field)  BY <1>1, SMT
  <2>3. p[i].field \in Field
    <3>1. i \in 1..Len(p)  BY SMT
    <3>2. p[i] \in Segment  BY <3>1, SMT
    <3>3. QED  BY <3>2 DEF Segment
  <2>4. /\ Len(place[r[i + 1]]) = i + 1
        /\ place[r[i + 1]][i + 1] = p[i].field
        /\ \A j \in 1..i : place[r[i + 1]][j] = place[r[i]][j]
    BY <1>3, <2>1, <2>2, <2>3, SMT
  <2>5. QED  BY <1>3, <2>4, SMT
<1>4. Bad = {}
  <2>1. SUFFICES ASSUME Bad # {}  PROVE FALSE  OBVIOUS
  <2>2. PICK m \in Bad : \A k \in Bad : m <= k
    <3>1. Bad \in SUBSET Nat  BY SMT
    <3> HIDE DEF Bad
    <3>2. QED  BY <2>1, <3>1, LeastNumber
  <2>3. m # 1 /\ m \in 1..(n + 1)  BY <1>2
  <2>4. m - 1 \in 1..n  BY <2>3, SMT
  <2>5. m - 1 \notin Bad  BY <2>2, <2>3, SMT
  <2>6. Good(m - 1)  BY <2>4, <2>5, SMT
  <2> HIDE DEF Good
  <2>7. Good(m - 1 + 1)  BY <1>3, <2>4, <2>6
  <2>8. m - 1 + 1 = m  BY <2>3, SMT
  <2>9. QED  BY <2>7, <2>8
<1>5. QED  BY <1>4
(* A path that resolves leads through the positions it spells.             *)
LEMMA FollowsOnPath ==
  ASSUME Inv, NEW a \in Anchor, NEW p \in Seq(Segment), NEW n \in Nat, n <= Len(p),
         NEW r, Follows(a, p, n, r)
  PROVE  OnPath(a, p, n, r)
<1>1. /\ r \in Seq(Node) /\ Len(r) = n + 1 /\ r[1] = RootOf[a]
      /\ \A i \in 1..n : Steps(p, i, r[i], r[i + 1])
  BY DEF Follows
<1>2. \A i \in 1..n : r[i] \in Node /\ p[i].field \in Field
  <2>1. ASSUME NEW i \in 1..n  PROVE r[i] \in Node /\ p[i].field \in Field
    <3>1. i \in 1..Len(p) /\ i \in 1..Len(r)  BY <1>1, SMT
    <3>2. p[i] \in Segment /\ r[i] \in Node  BY <3>1, <1>1, SMT
    <3>3. QED  BY <3>2 DEF Segment
  <2>2. QED  BY <2>1
<1>3. ASSUME NEW i \in 1..n
      PROVE  r[i + 1] \in At(r[i], p[i].field)
  <2>1. kids[r[i]][p[i].field] \in Seq(At(r[i], p[i].field))
    BY <1>2 DEF Inv, TypeOK, TreeOK
  <2>2. \E k \in 1..Len(kids[r[i]][p[i].field]) : kids[r[i]][p[i].field][k] = r[i + 1]
    BY <1>1 DEF Steps
  <2>3. QED  BY <2>1, <2>2, SMT
<1>4. \A i \in 1..Len(r) : r[i] \in used
  <2>1. r[1] \in used  BY <1>1 DEF Inv, RootsOK
  <2>2. ASSUME NEW i \in 1..Len(r), i # 1  PROVE r[i] \in used
    <3>1. i - 1 \in 1..n /\ (i - 1) + 1 = i  BY <1>1, <2>2, SMT
    <3>2. r[(i - 1) + 1] \in used  BY <1>3, <3>1 DEF At
    <3>3. QED  BY <3>1, <3>2
  <2>3. QED  BY <2>1, <2>2
<1>5. r \in Seq(used)  BY <1>1, <1>4, SMT
<1>6. \A i \in 1..n : place[r[i + 1]] = Append(place[r[i]], p[i].field)
  BY <1>3 DEF At
<1>7. QED  BY <1>1, <1>5, <1>6 DEF OnPath

(* A protected handle that resolves reaches what it was made for.          *)
LEMMA IntactAddresses ==
  ASSUME NEW h \in handles, Inv, Intact(h)
  PROVE  Addresses(h)
<1> DEFINE n == Depth(h)
           r == Walk(h.anchor, h.path, Depth(h))
<1>1. h \in HandleType  BY DEF Inv, TypeOK
<1>2. n \in Nat /\ n <= Len(h.path) /\ h.anchor \in Anchor /\ h.path \in Seq(Segment)
  <2>1. h.path \in Seq(Segment) /\ h.anchor \in Anchor  BY <1>1 DEF HandleType
  <2>2. h.kind = "field" => h.path # <<>>  BY DEF Inv, TypeOK
  <2>3. h.kind \in {"struct", "field"}  BY <1>1 DEF HandleType
  <2>4. QED  BY <2>1, <2>2, <2>3, SMT DEF Depth
<1> HIDE DEF n
<1>3. SUFFICES ASSUME Follows(h.anchor, h.path, n, r)  PROVE r = h.route
  BY DEF Addresses, n
<1>4. OnPath(h.anchor, h.path, n, r)  BY <1>2, <1>3, FollowsOnPath
<1>5. OnPath(h.anchor, h.path, n, h.route)  BY DEF Inv, n
<1> HIDE DEF r
<1>6. /\ r \in Seq(used) /\ Len(r) = n + 1 /\ r[1] = RootOf[h.anchor]
      /\ h.route \in Seq(used) /\ Len(h.route) = n + 1 /\ h.route[1] = RootOf[h.anchor]
  BY <1>4, <1>5 DEF OnPath
<1> DEFINE Bad == {i \in 1..(n + 1) : r[i] # h.route[i]}
<1>7. Bad = {}
  <2>1. SUFFICES ASSUME Bad # {}  PROVE FALSE  OBVIOUS
  <2>2. PICK m \in Bad : \A k \in Bad : m <= k
    <3>1. Bad \in SUBSET Nat  BY <1>2, SMT
    <3> HIDE DEF Bad
    <3>2. QED  BY <2>1, <3>1, LeastNumber
  <2>3. m # 1  BY <1>6
  <2>4. m - 1 \in 1..n /\ (m - 1) + 1 = m  BY <1>2, <2>3, SMT
  <2>5. r[m - 1] = h.route[m - 1]  BY <1>2, <2>2, <2>4, SMT
  <2>6. Steps(h.path, m - 1, r[m - 1], r[(m - 1) + 1])  BY <1>3, <2>4 DEF Follows
  <2>7. r[m] \in used  BY <1>2, <1>6, <2>4, SMT
  <2>8. Steps(h.path, m - 1, h.route[m - 1], r[m])  BY <2>4, <2>5, <2>6
  <2>9. r[m] = h.route[(m - 1) + 1]  BY <2>4, <2>7, <2>8 DEF Intact, n
  <2>10. QED  BY <2>4, <2>9
<1>8. QED  BY <1>2, <1>6, <1>7, SMT
-----------------------------------------------------------------------------
LEMMA HandleFacts ==
  ASSUME Inv, NEW h \in handles
  PROVE  /\ h.kind \in {"struct", "field"} /\ h.anchor \in Anchor
         /\ h.path \in Seq(Segment) /\ h.route \in Seq(Node)
         /\ h.generation \in Nat /\ h.generation <= Len(log)
         /\ h.kind = "field" => h.path # <<>> /\ Depth(h) = Len(h.path) - 1
         /\ h.kind = "struct" => Depth(h) = Len(h.path)
         /\ Depth(h) \in Nat /\ Depth(h) <= Len(h.path)
<1>1. h \in HandleType  BY DEF Inv, TypeOK
<1>2. /\ h.kind = "field" => h.path # <<>>
      /\ h.generation <= Len(log)
  BY DEF Inv, TypeOK
<1>3. QED  BY <1>1, <1>2, SMT DEF HandleType, Depth

LEMMA InitInv == Init => Inv
<1> SUFFICES ASSUME Init  PROVE Inv  OBVIOUS
<1> USE DEF Init
<1>1. RootsOK  BY HandleAssumption DEF RootsOK
<1>2. TreeOK  BY HandleAssumption DEF TreeOK, At
<1>3. log \in Seq(Seq(Segment)) /\ Len(log) = 0  BY SMT
<1>4. TypeOK  BY HandleAssumption, <1>2, <1>3, SMT DEF TypeOK
<1>5. QED  BY <1>1, <1>4 DEF Inv

(* A handle made from a path that resolves, at an edit count not above the *)
(* present one, keeps the invariant.                                       *)
LEMMA MakeInv ==
  ASSUME Inv, NEW kind \in {"struct", "field"}, NEW a \in Anchor,
         NEW p \in Seq(Segment), kind = "field" => p # <<>>,
         NEW g \in Nat, g <= Len(log), Make(kind, a, p, g)
  PROVE  Inv'
<1> DEFINE n == IF kind = "struct" THEN Len(p) ELSE Len(p) - 1
           r == Walk(a, p, n)
           H == Handle(kind, a, p, g, r)
<1>1. Follows(a, p, n, r) /\ Hold(H)  BY DEF Make
<1>2. n \in Nat /\ n <= Len(p)  BY SMT
<1>3. OnPath(a, p, n, r)  BY <1>1, <1>2, FollowsOnPath
<1>4. PICK kept \in SUBSET handles : handles' = kept \cup {H}  BY <1>1 DEF Hold
<1>5. UNCHANGED <<kids, place, used, attached, log>>  BY <1>1 DEF Hold
<1> HIDE DEF r
<1>6. /\ H.kind = kind /\ H.anchor = a /\ H.path = p /\ H.generation = g /\ H.route = r
      /\ Depth(H) = n
  BY SMT DEF Handle, Depth
<1> HIDE DEF n
<1>7. r \in Seq(Node) /\ Len(r) = n + 1  BY <1>1 DEF Follows
<1>8. H \in HandleType  BY <1>7 DEF Handle, HandleType
<1> HIDE DEF H
<1>9. TypeOK'
  <2>1. TypeOK  BY DEF Inv
  <2>2. handles' \subseteq HandleType  BY <1>4, <1>8, <2>1 DEF TypeOK
  <2>3. \A h \in handles' : /\ h.kind = "field" => h.path # <<>>
                            /\ Len(h.route) = Depth(h) + 1
                            /\ h.generation <= Len(log)
    BY <1>4, <1>6, <1>7, <2>1 DEF TypeOK
  <2>4. QED  BY <1>5, <2>1, <2>2, <2>3 DEF TypeOK, TreeOK, At
<1>10. RootsOK'  BY <1>5 DEF Inv, RootsOK
<1>11. \A h \in handles' : OnPath(h.anchor, h.path, Depth(h), h.route)
  BY <1>3, <1>4, <1>6 DEF Inv
<1>12. Intact(H)
  <2>1. SUFFICES ASSUME NEW i \in 1..n, NEW m \in used, Steps(p, i, r[i], m)
                 PROVE  m = r[i + 1]
    BY <1>6 DEF Intact
  <2>2. Steps(p, i, r[i], r[i + 1])  BY <1>1 DEF Follows
  <2>3. QED  BY <2>1, <2>2 DEF Steps
<1>13. \A h \in handles' : Protected(h)' => Intact(h)
  <2>1. SUFFICES ASSUME NEW h \in kept, Protected(h)'  PROVE Intact(h)
    BY <1>4, <1>12
  <2>2. Protected(h)  BY <1>5, <2>1 DEF Protected, Accepted, NamesItsElement
  <2>3. QED  BY <2>2 DEF Inv
<1>14. QED  BY <1>5, <1>9, <1>10, <1>11, <1>13 DEF Inv, OnPath, Intact, Steps, Depth
-----------------------------------------------------------------------------
(* The block an accepted edit is made through.                             *)
LEMMA HolderFacts ==
  ASSUME Inv, NEW h \in handles, Mutate(h)
  PROVE  /\ h.kind = "field" /\ Len(h.path) \in Nat \ {0}
         /\ OnPath(h.anchor, h.path, Depth(h), Walk(h.anchor, h.path, Depth(h)))
         /\ Holder(h) \in used /\ Holder(h) \in Node /\ Name(h) \in Field
         /\ Block(h) = kids[Holder(h)][Name(h)]
         /\ Block(h) \in Seq(At(Holder(h), Name(h)))
<1> DEFINE r == Walk(h.anchor, h.path, Depth(h))
<1>1. h.kind = "field" /\ Valid(h)  BY DEF Mutate
<1>2. /\ h.anchor \in Anchor /\ h.path \in Seq(Segment) /\ h.path # <<>>
      /\ Depth(h) \in Nat /\ Depth(h) = Len(h.path) - 1
  BY <1>1, HandleFacts
<1>3. Len(h.path) \in Nat \ {0} /\ Depth(h) <= Len(h.path)  BY <1>2, SMT
<1>4. OnPath(h.anchor, h.path, Depth(h), r)
  <2>1. Follows(h.anchor, h.path, Depth(h), r)  BY <1>1 DEF Valid
  <2>2. QED  BY <1>2, <1>3, <2>1, FollowsOnPath
<1> HIDE DEF r
<1>5. r[Len(h.path)] \in used
  <2>1. r \in Seq(used) /\ Len(r) = Depth(h) + 1  BY <1>4 DEF OnPath
  <2>2. Len(h.path) \in 1..Len(r)  BY <1>2, <1>3, <2>1, SMT
  <2>3. QED  BY <2>1, <2>2, SMT
<1>6. Holder(h) = r[Len(h.path)]  BY DEF Holder, r
<1>7. Name(h) \in Field
  <2>1. h.path[Len(h.path)] \in Segment  BY <1>2, <1>3, SMT
  <2>2. QED  BY <2>1 DEF Name, Segment
<1>8. Holder(h) \in Node  BY <1>5, <1>6 DEF Inv, TypeOK
<1>9. Block(h) = kids[Holder(h)][Name(h)]  BY DEF Block
<1>10. Block(h) \in Seq(At(Holder(h), Name(h)))  BY <1>7, <1>8, <1>9 DEF Inv, TypeOK, TreeOK
<1>11. QED  BY <1>1, <1>3, <1>4, <1>5, <1>6, <1>7, <1>8, <1>9, <1>10 DEF r

(* A handle that an edit through h leaves protected takes no step through  *)
(* the edited block: otherwise the edit's path would be its ancestor.      *)
LEMMA ProtectedAvoidsBlock ==
  ASSUME Inv, NEW h \in handles, Mutate(h),
         NEW g \in handles, Protected(g)',
         NEW i \in 1..Depth(g), g.route[i] = Holder(h), g.path[i].field = Name(h)
  PROVE  FALSE
<1> DEFINE r == Walk(h.anchor, h.path, Depth(h))
           l == Len(h.path)
           e == h.path
           p == g.path
<1>1. /\ h.anchor \in Anchor /\ e \in Seq(Segment) /\ Depth(h) \in Nat
      /\ Depth(h) <= Len(e) /\ Depth(h) = l - 1 /\ l \in Nat \ {0}
      /\ OnPath(h.anchor, e, Depth(h), r) /\ Holder(h) = r[l]
  BY HandleFacts, HolderFacts DEF Holder
<1>2. /\ g.anchor \in Anchor /\ p \in Seq(Segment) /\ Depth(g) \in Nat
      /\ Depth(g) <= Len(p) /\ g.kind \in {"struct", "field"}
      /\ g.kind = "field" => Depth(g) = Len(p) - 1
      /\ g.generation \in Nat /\ g.generation <= Len(log)
  BY HandleFacts
<1>3. OnPath(g.anchor, p, Depth(g), g.route)  BY DEF Inv
<1>4. i \in 1..(Depth(g) + 1) /\ l \in 1..(Depth(h) + 1)  BY <1>1, <1>2, SMT
<1> HIDE DEF r
<1>5. i = l /\ \A j \in 1..(i - 1) : p[j].field = e[j].field
  <2>1. g.route[i] = r[l]  BY <1>1
  <2>2. RootsOK /\ used \subseteq Node /\ place \in [Node -> Seq(Anchor \cup Field)]
    BY DEF Inv, TypeOK
  <2> HIDE DEF l, e, p
  <2>3. /\ Len(place[g.route[i]]) = i
        /\ \A j \in 2..i : place[g.route[i]][j] = p[j - 1].field
    BY <1>2, <1>3, <1>4, <2>2, RouteSpells
  <2>4. /\ Len(place[r[l]]) = l
        /\ \A j \in 2..l : place[r[l]][j] = e[j - 1].field
    <3>1. \A k \in 1..(Depth(h) + 1) :
            /\ Len(place[r[k]]) = k
            /\ \A j \in 2..k : place[r[k]][j] = e[j - 1].field
      <4>1. h.anchor \in Anchor /\ e \in Seq(Segment) /\ Depth(h) \in Nat  BY <1>1
      <4>2. Depth(h) <= Len(e)  BY <1>1
      <4>3. OnPath(h.anchor, e, Depth(h), r)  BY <1>1
      <4>4. QED  BY <2>2, <4>1, <4>2, <4>3, RouteSpells
    <3>2. QED  BY <1>4, <3>1
  <2>5. i = l  BY <2>1, <2>3, <2>4
  <2>6. ASSUME NEW j \in 1..(i - 1)  PROVE p[j].field = e[j].field
    <3>1. j + 1 \in 2..i /\ (j + 1) - 1 = j  BY <1>2, SMT
    <3>2. QED  BY <2>1, <2>3, <2>4, <2>5, <3>1
  <2>7. QED  BY <2>5, <2>6
<1>6. l <= Len(p)  BY <1>2, <1>5, SMT
<1>7. \A j \in 1..l : e[j].field = p[j].field
  <2>1. \A j \in 1..l : j = l \/ j \in 1..(l - 1)  BY <1>1, SMT
  <2>2. QED  BY <1>5, <2>1 DEF Name
<1>8. /\ log \in Seq(Seq(Segment)) /\ log' = Append(log, e)
  BY DEF Inv, TypeOK, Mutate
<1>9. /\ Len(log') = Len(log) + 1 /\ log'[Len(log')] = e
      /\ Len(log') \in (g.generation + 1)..Len(log')
  BY <1>1, <1>2, <1>8, SMT
<1>10. \A j \in 1..l : e[j].pinned = p[j].pinned
  <2>1. SpelledAlike(e, p)
    <3>1. \A j \in (g.generation + 1)..Len(log') : SpelledAlike(log'[j], p)
      BY DEF Protected, SpelledAlike
    <3>2. QED  BY <1>9, <3>1
  <2>2. QED  BY <1>6, <1>7, <2>1 DEF SpelledAlike
<1>11. IsAncestorOf(e, p)  BY <1>6, <1>7, <1>10 DEF IsAncestorOf
<1>12. Len(p) > Len(e) \/ p[Len(e)].index # 0
  <2>1. CASE g.kind = "field"  BY <1>1, <1>2, <1>5, <2>1, SMT
  <2>2. CASE g.kind = "struct" /\ Len(p) = l
    <3>1. NamesItsElement(g)  BY DEF Protected, NamesItsElement
    <3>2. p # <<>>  BY <1>1, <2>2, SMT
    <3>3. QED  BY <2>2, <3>1, <3>2 DEF NamesItsElement
  <2>3. CASE g.kind = "struct" /\ Len(p) # l  BY <1>1, <1>2, <1>6, <2>3, SMT
  <2>4. QED  BY <1>2, <2>1, <2>2, <2>3
<1>13. LandsAbove(e, p)  BY <1>11, <1>12 DEF LandsAbove
<1>14. ~LandsAbove(e, p)
  <2>1. \A j \in (g.generation + 1)..Len(log') : ~LandsAbove(log'[j], p)
    BY DEF Protected, Accepted, LandsAbove, IsAncestorOf
  <2>2. QED  BY <1>9, <2>1
<1>15. QED  BY <1>13, <1>14

(* An edit that changes one block, keeps the tree and moves no node to     *)
(* another position keeps the invariant.                                   *)
LEMMA EditInv ==
  ASSUME Inv, NEW h \in handles, Mutate(h),
         kids' \in [Node -> [Field -> Seq(Node)]],
         place' \in [Node -> Seq(Anchor \cup Field)],
         used' \subseteq Node, used \subseteq used', TreeOK',
         \A m \in used : place'[m] = place[m],
         \A m \in used, f \in Field :
           ~(m = Holder(h) /\ f = Name(h)) => kids'[m][f] = kids[m][f]
  PROVE  Inv'
<1>1. log' = Append(log, h.path) /\ UNCHANGED <<attached, handles>>  BY DEF Mutate
<1>2. TypeOK  BY DEF Inv
<1>3. h.path \in Seq(Segment) /\ h.path # <<>>  BY HandleFacts, HolderFacts
<1>4. /\ log' \in Seq(Seq(Segment)) /\ Len(log') = Len(log) + 1
      /\ \A j \in 1..Len(log') : log'[j] # <<>>
      /\ \A j \in 1..Len(log) : log'[j] = log[j]
  BY <1>1, <1>2, <1>3, SMT DEF TypeOK
<1>5. TypeOK'
  <2>1. ASSUME NEW g \in handles
        PROVE  /\ g.kind = "field" => g.path # <<>>
               /\ Len(g.route) = Depth(g) + 1
               /\ g.generation <= Len(log')
    <3>1. g.generation \in Nat /\ g.generation <= Len(log)  BY HandleFacts
    <3>2. g.generation <= Len(log')  BY <1>2, <1>4, <3>1, SMT DEF TypeOK
    <3>3. QED  BY <1>2, <3>2 DEF TypeOK
  <2>2. QED  BY <1>1, <1>2, <1>4, <2>1 DEF TypeOK, Depth
<1>6. RootsOK'  BY DEF Inv, RootsOK
<1>7. ASSUME NEW g \in handles
      PROVE  OnPath(g.anchor, g.path, Depth(g), g.route)'
  <2>1. OnPath(g.anchor, g.path, Depth(g), g.route)  BY DEF Inv
  <2>2. Depth(g) \in Nat  BY HandleFacts
  <2>3. g.route \in Seq(used')  BY <2>1, SMT DEF OnPath
  <2>4. ASSUME NEW i \in 1..Depth(g)
        PROVE  place'[g.route[i + 1]] = Append(place'[g.route[i]], g.path[i].field)
    <3>1. g.route \in Seq(used) /\ Len(g.route) = Depth(g) + 1  BY <2>1 DEF OnPath
    <3>2. i \in 1..Len(g.route) /\ i + 1 \in 1..Len(g.route)  BY <2>2, <3>1, SMT
    <3>3. g.route[i] \in used /\ g.route[i + 1] \in used  BY <3>1, <3>2, SMT
    <3>4. QED  BY <2>1, <3>3 DEF OnPath
  <2>5. QED  BY <2>1, <2>3, <2>4 DEF OnPath, Depth
<1>8. ASSUME NEW g \in handles, Protected(g)'  PROVE Intact(g)'
  <2>1. Protected(g)
    <3>1. g.generation \in Nat  BY HandleFacts
    <3>2. \A j \in (g.generation + 1)..Len(log) :
            j \in 1..Len(log) /\ j \in (g.generation + 1)..Len(log')
      BY <1>2, <1>4, <3>1, SMT DEF TypeOK
    <3>3. Accepted(g)
      <4>1. \A j \in (g.generation + 1)..Len(log') : ~LandsAbove(log'[j], g.path)
        BY <1>8 DEF Protected, Accepted, LandsAbove, IsAncestorOf
      <4>2. QED  BY <1>4, <3>2, <4>1 DEF Accepted
    <3>4. \A j \in (g.generation + 1)..Len(log) : SpelledAlike(log[j], g.path)
      <4>1. \A j \in (g.generation + 1)..Len(log') : SpelledAlike(log'[j], g.path)
        BY <1>8 DEF Protected, SpelledAlike
      <4>2. QED  BY <1>4, <3>2, <4>1
    <3>5. NamesItsElement(g)  BY <1>8 DEF Protected, NamesItsElement
    <3>6. QED  BY <3>3, <3>4, <3>5 DEF Protected
  <2>2. Intact(g)  BY <2>1 DEF Inv
  <2>3. SUFFICES ASSUME NEW i \in 1..Depth(g), NEW m \in used',
                        Steps(g.path, i, g.route[i], m)'
                 PROVE  m = g.route[i + 1]
    BY DEF Intact, Depth
  <2>4. Depth(g) \in Nat /\ Depth(g) <= Len(g.path) /\ g.path \in Seq(Segment)
    BY HandleFacts
  <2>5. g.path[i].field \in Field
    <3>1. g.path[i] \in Segment  BY <2>4, SMT
    <3>2. QED  BY <3>1 DEF Segment
  <2>6. g.route[i] \in used
    <3>1. OnPath(g.anchor, g.path, Depth(g), g.route)  BY DEF Inv
    <3>2. QED  BY <2>4, <3>1, SMT DEF OnPath
  <2>7. ~(g.route[i] = Holder(h) /\ g.path[i].field = Name(h))
    BY <1>8, ProtectedAvoidsBlock
  <2>8. kids'[g.route[i]][g.path[i].field] = kids[g.route[i]][g.path[i].field]
    BY <2>5, <2>6, <2>7
  <2>9. Steps(g.path, i, g.route[i], m)  BY <2>3, <2>8 DEF Steps, ElementOf
  <2>10. m \in used
    <3>1. kids[g.route[i]][g.path[i].field] \in Seq(At(g.route[i], g.path[i].field))
      BY <1>2, <2>5, <2>6 DEF TypeOK, TreeOK
    <3>2. \E k \in 1..Len(kids[g.route[i]][g.path[i].field]) :
            kids[g.route[i]][g.path[i].field][k] = m
      BY <2>9 DEF Steps
    <3>3. m \in At(g.route[i], g.path[i].field)  BY <3>1, <3>2, SMT
    <3>4. QED  BY <3>3 DEF At
  <2>11. QED  BY <2>2, <2>9, <2>10 DEF Intact
<1>9. QED  BY <1>1, <1>5, <1>6, <1>7, <1>8 DEF Inv
-----------------------------------------------------------------------------
(* Rewriting a block with elements that stand at its position.             *)
LEMMA SetBlockInv ==
  ASSUME Inv, NEW h \in handles, Mutate(h),
         NEW s \in Seq(At(Holder(h), Name(h))), SetBlock(h, s), UNCHANGED <<place, used>>
  PROVE  Inv'
<1>1. TypeOK  BY DEF Inv
<1>2. Holder(h) \in used /\ Holder(h) \in Node /\ Name(h) \in Field  BY HolderFacts
<1>3. \A n \in Node, f \in Field :
        kids'[n][f] = IF n = Holder(h) /\ f = Name(h) THEN s ELSE kids[n][f]
  BY <1>1, <1>2 DEF SetBlock, TypeOK
<1>4. s \in Seq(Node)
  <2>1. At(Holder(h), Name(h)) \subseteq Node  BY <1>1 DEF At, TypeOK
  <2>2. QED  BY <2>1, SMT
<1>5. kids' \in [Node -> [Field -> Seq(Node)]]  BY <1>1, <1>2, <1>4 DEF SetBlock, TypeOK
<1>6. TreeOK'
  <2>1. SUFFICES ASSUME NEW n \in Node, NEW f \in Field
                 PROVE  /\ kids'[n][f] \in Seq(At(n, f))
                        /\ n \notin used => kids'[n][f] = <<>>
    BY DEF TreeOK, At
  <2>2. kids[n][f] \in Seq(At(n, f)) /\ (n \notin used => kids[n][f] = <<>>)
    BY <1>1 DEF TypeOK, TreeOK
  <2>3. QED  BY <1>2, <1>3, <2>2
<1>7. \A m \in used, f \in Field :
        ~(m = Holder(h) /\ f = Name(h)) => kids'[m][f] = kids[m][f]
  BY <1>1, <1>3 DEF TypeOK
<1>8. QED  BY <1>1, <1>5, <1>6, <1>7, EditInv DEF TypeOK

LEMMA InsertInv ==
  ASSUME Inv, NEW h \in handles, Mutate(h), Insert(h)
  PROVE  Inv'
<1>1. TypeOK  BY DEF Inv
<1>2. /\ Holder(h) \in used /\ Holder(h) \in Node /\ Name(h) \in Field
      /\ Block(h) \in Seq(At(Holder(h), Name(h)))
  BY HolderFacts
<1>3. PICK x \in Node \ used, i \in 1..(Len(Block(h)) + 1) :
        /\ SetBlock(h, InsertAt(Block(h), i, x))
        /\ place' = [place EXCEPT ![x] = Append(place[Holder(h)], Name(h))]
        /\ used' = used \cup {x}
  BY DEF Insert
<1> DEFINE s == InsertAt(Block(h), i, x)
<1>4. place' \in [Node -> Seq(Anchor \cup Field)]
  <2>1. Append(place[Holder(h)], Name(h)) \in Seq(Anchor \cup Field)
    BY <1>1, <1>2, SMT DEF TypeOK
  <2>2. QED  BY <1>1, <1>3, <2>1 DEF TypeOK
<1>5. /\ place'[x] = Append(place[Holder(h)], Name(h))
      /\ \A m \in used : place'[m] = place[m]
  BY <1>1, <1>3 DEF TypeOK
<1>6. used' \subseteq Node /\ used \subseteq used'  BY <1>1, <1>3 DEF TypeOK
<1>7. \A n \in used, f \in Field : At(n, f) \subseteq At(n, f)'
  BY <1>5, <1>6 DEF At
<1> DEFINE S == {m \in used' : place'[m] = Append(place'[Holder(h)], Name(h))}
<1>8. s \in Seq(S)
  <2>1. At(Holder(h), Name(h)) \subseteq S  BY <1>2, <1>5, <1>6 DEF At
  <2>2. x \in S  BY <1>2, <1>3, <1>5
  <2> HIDE DEF S
  <2>3. Block(h) \in Seq(S)  BY <1>2, <2>1, SMT
  <2>4. QED  BY <2>2, <2>3, InsertAtType
<1> HIDE DEF s
<1>9. \A n \in Node, f \in Field :
        kids'[n][f] = IF n = Holder(h) /\ f = Name(h) THEN s ELSE kids[n][f]
  BY <1>1, <1>2, <1>3 DEF SetBlock, TypeOK, s
<1>10. S \subseteq Node  BY <1>6
<1>11. s \in Seq(Node)
  <2> HIDE DEF S
  <2>1. QED  BY <1>8, <1>10, SMT
<1>12. kids' \in [Node -> [Field -> Seq(Node)]]
  BY <1>1, <1>2, <1>3, <1>11 DEF SetBlock, TypeOK, s
<1>13. TreeOK'
  <2>1. SUFFICES ASSUME NEW n \in Node, NEW f \in Field
                 PROVE  /\ kids'[n][f] \in Seq(At(n, f)')
                        /\ n \notin used' => kids'[n][f] = <<>>
    BY DEF TreeOK, At
  <2>2. kids[n][f] \in Seq(At(n, f)) /\ (n \notin used => kids[n][f] = <<>>)
    BY <1>1 DEF TypeOK, TreeOK
  <2>3. CASE n = Holder(h) /\ f = Name(h)
    <3>1. At(n, f)' = S  BY <2>3 DEF At
    <3> HIDE DEF S
    <3>2. QED  BY <1>2, <1>6, <1>8, <1>9, <2>3, <3>1
  <2>4. CASE ~(n = Holder(h) /\ f = Name(h)) /\ n \in used
    <3>1. At(n, f) \subseteq At(n, f)'  BY <1>7, <2>4
    <3>2. kids[n][f] \in Seq(At(n, f)')  BY <2>2, <3>1, SMT
    <3>3. QED  BY <1>6, <1>9, <2>4, <3>2
  <2>5. CASE n \notin used
    <3>1. kids'[n][f] = <<>>  BY <1>2, <1>9, <2>2, <2>5
    <3>2. <<>> \in Seq(At(n, f)')  BY SMT
    <3>3. QED  BY <3>1, <3>2
  <2>6. QED  BY <2>3, <2>4, <2>5
<1>14. \A m \in used, f \in Field :
         ~(m = Holder(h) /\ f = Name(h)) => kids'[m][f] = kids[m][f]
  BY <1>1, <1>9 DEF TypeOK
<1>15. QED  BY <1>4, <1>5, <1>6, <1>12, <1>13, <1>14, EditInv
(* The deep copy: every node of the tree gets a fresh image that stands    *)
(* where the node stands.                                                  *)
LEMMA CopyInv ==
  ASSUME Inv, NEW h \in handles, Mutate(h), NEW n0 \in used,
         place[n0] = Append(place[Holder(h)], Name(h)),
         NEW i \in 1..(Len(Block(h)) + 1), Copy(h, n0, i)
  PROVE  Inv'
<1>1. TypeOK  BY DEF Inv
<1>2. /\ Holder(h) \in used /\ Holder(h) \in Node /\ Name(h) \in Field
      /\ Block(h) = kids[Holder(h)][Name(h)]
      /\ Block(h) \in Seq(At(Holder(h), Name(h)))
  BY HolderFacts
<1>3. PICK tree \in SUBSET used : Subtree(n0, tree) /\ \E c \in [tree -> Node \ used] :
         LET Source(m) == CHOOSE q \in tree : c[q] = m
         IN  /\ IsInjective(c)
             /\ kids' = [m \in Node |->
                  IF m \in Range(c)
                  THEN [f \in Field |-> [k \in 1..Len(kids[Source(m)][f]) |->
                                           c[kids[Source(m)][f][k]]]]
                  ELSE IF m = Holder(h)
                       THEN [kids[m] EXCEPT ![Name(h)] = InsertAt(Block(h), i, c[n0])]
                       ELSE kids[m]]
             /\ place' = [m \in Node |->
                  IF m \in Range(c) THEN place[Source(m)] ELSE place[m]]
             /\ used' = used \cup Range(c)
  BY DEF Copy
<1>4. PICK c \in [tree -> Node \ used] :
         LET Source(m) == CHOOSE q \in tree : c[q] = m
         IN  /\ IsInjective(c)
             /\ kids' = [m \in Node |->
                  IF m \in Range(c)
                  THEN [f \in Field |-> [k \in 1..Len(kids[Source(m)][f]) |->
                                           c[kids[Source(m)][f][k]]]]
                  ELSE IF m = Holder(h)
                       THEN [kids[m] EXCEPT ![Name(h)] = InsertAt(Block(h), i, c[n0])]
                       ELSE kids[m]]
             /\ place' = [m \in Node |->
                  IF m \in Range(c) THEN place[Source(m)] ELSE place[m]]
             /\ used' = used \cup Range(c)
  BY <1>3
<1> DEFINE Source(m) == CHOOSE q \in tree : c[q] = m
           s == InsertAt(Block(h), i, c[n0])
           S == {m \in used' : place'[m] = Append(place'[Holder(h)], Name(h))}
<1>5. /\ \A q \in tree : c[q] \in Range(c) /\ c[q] \in Node \ used
      /\ Range(c) \subseteq Node \ used
      /\ \A m \in Range(c) : \E q \in tree : c[q] = m
  BY DEF Range
<1>6. \A m \in Range(c) : Source(m) \in tree /\ c[Source(m)] = m  BY <1>5
<1>7. \A q \in tree : Source(c[q]) = q  BY <1>4, <1>5, <1>6 DEF IsInjective
<1> HIDE DEF Source, s, S
<1>8. /\ \A m \in Range(c) : place'[m] = place[Source(m)]
      /\ \A m \in Node : m \notin Range(c) => place'[m] = place[m]
      /\ DOMAIN place' = Node
  BY <1>4, <1>5 DEF Source
<1>9. place' \in [Node -> Seq(Anchor \cup Field)]
  <2>1. place' \in [Node -> Seq(Anchor \cup Field)]
          <=> \A m \in Node : place'[m] \in Seq(Anchor \cup Field)
    BY <1>4
  <2>2. \A m \in Node : place[m] \in Seq(Anchor \cup Field)  BY <1>1 DEF TypeOK
  <2>3. \A m \in Range(c) : Source(m) \in Node  BY <1>1, <1>6 DEF TypeOK
  <2>4. QED  BY <1>8, <2>1, <2>2, <2>3
<1>10. used' \subseteq Node /\ used \subseteq used' /\ Range(c) \subseteq used'
  BY <1>1, <1>4, <1>5 DEF TypeOK
<1>11. \A m \in used : place'[m] = place[m]  BY <1>1, <1>5, <1>8 DEF TypeOK
<1>12. \A q \in tree : c[q] \in used' /\ place'[c[q]] = place[q]
  BY <1>5, <1>7, <1>8, <1>10
<1>13. s \in Seq(S)
  <2>1. At(Holder(h), Name(h)) \subseteq S  BY <1>2, <1>10, <1>11 DEF At, S
  <2>2. c[n0] \in S
    <3>1. n0 \in tree  BY <1>3 DEF Subtree
    <3>2. QED  BY <1>2, <1>11, <1>12, <3>1 DEF S
  <2>3. Block(h) \in Seq(S)  BY <1>2, <2>1, SMT
  <2>4. QED  BY <2>2, <2>3, InsertAtType DEF s
<1>14. \A m \in Node, f \in Field :
         kids'[m][f] = IF m \in Range(c)
                       THEN [k \in 1..Len(kids[Source(m)][f]) |-> c[kids[Source(m)][f][k]]]
                       ELSE IF m = Holder(h) /\ f = Name(h) THEN s ELSE kids[m][f]
  BY <1>1, <1>2, <1>4 DEF TypeOK, Source, s
<1>15. ASSUME NEW m \in Range(c), NEW f \in Field
       PROVE  kids'[m][f] \in Seq({q \in used' : place'[q] = Append(place'[m], f)})
  <2> DEFINE t == kids[Source(m)][f]
             Q == {q \in used' : place'[q] = Append(place'[m], f)}
  <2>1. Source(m) \in tree /\ Source(m) \in Node  BY <1>1, <1>6 DEF TypeOK
  <2>2. t \in Seq(At(Source(m), f))  BY <1>1, <2>1 DEF TypeOK, TreeOK
  <2>3. Range(t) \subseteq tree  BY <1>3, <2>1 DEF Subtree
  <2>4. ASSUME NEW k \in 1..Len(t)  PROVE c[t[k]] \in Q
    <3>1. t[k] \in tree  BY <2>2, <2>3, SMT DEF Range
    <3>2. place[t[k]] = Append(place[Source(m)], f)
      <4>1. t[k] \in At(Source(m), f)  BY <2>2, SMT
      <4>2. QED  BY <4>1 DEF At
    <3>3. QED  BY <1>8, <1>12, <3>1, <3>2
  <2>5. m \in Node  BY <1>5
  <2>6. kids'[m][f] = [k \in 1..Len(t) |-> c[t[k]]]  BY <1>14, <2>5
  <2>7. Len(t) \in Nat  BY <2>2, SMT
  <2> HIDE DEF t, Q
  <2>8. kids'[m][f] \in Seq(Q)  BY <2>4, <2>6, <2>7, SMT
  <2>9. QED  BY <2>8 DEF Q
<1>16. TreeOK'
  <2>1. SUFFICES ASSUME NEW n \in Node, NEW f \in Field
                 PROVE  /\ kids'[n][f] \in Seq(At(n, f)')
                        /\ n \notin used' => kids'[n][f] = <<>>
    BY DEF TreeOK, At
  <2>2. kids[n][f] \in Seq(At(n, f)) /\ (n \notin used => kids[n][f] = <<>>)
    BY <1>1 DEF TypeOK, TreeOK
  <2>3. CASE n \in Range(c)  BY <1>10, <1>15, <2>3 DEF At
  <2>4. CASE n = Holder(h) /\ f = Name(h)
    <3>1. At(n, f)' = S  BY <2>4 DEF At, S
    <3>2. n \notin Range(c)  BY <1>2, <1>5, <2>4
    <3>3. QED  BY <1>2, <1>10, <1>13, <1>14, <2>4, <3>1, <3>2
  <2>5. CASE ~(n = Holder(h) /\ f = Name(h)) /\ n \in used
    <3>1. At(n, f) \subseteq At(n, f)'  BY <1>10, <1>11, <2>5 DEF At
    <3>2. kids[n][f] \in Seq(At(n, f)')  BY <2>2, <3>1, SMT
    <3>3. n \notin Range(c)  BY <1>5, <2>5
    <3>4. QED  BY <1>10, <1>14, <2>5, <3>2, <3>3
  <2>6. CASE n \notin used /\ n \notin Range(c)
    <3>1. kids'[n][f] = <<>>  BY <1>2, <1>14, <2>2, <2>6
    <3>2. <<>> \in Seq(At(n, f)')  BY SMT
    <3>3. QED  BY <3>1, <3>2
  <2>7. QED  BY <2>3, <2>4, <2>5, <2>6
<1>17. kids' \in [Node -> [Field -> Seq(Node)]]
  <2>1. \A n \in Node, f \in Field : kids'[n][f] \in Seq(Node)
    <3>1. SUFFICES ASSUME NEW n \in Node, NEW f \in Field
                   PROVE  kids'[n][f] \in Seq(Node)
      OBVIOUS
    <3>2. kids'[n][f] \in Seq(At(n, f)')  BY <1>16 DEF TreeOK, At
    <3>3. At(n, f)' \subseteq Node  BY <1>10 DEF At
    <3>4. QED  BY <3>2, <3>3, SMT
  <2>2. \A n \in Node : kids'[n] \in [Field -> Seq(Node)]
    <3>1. SUFFICES ASSUME NEW n \in Node
                   PROVE  kids'[n] = [f \in Field |-> kids'[n][f]]
      BY <2>1
    <3>2. kids[n] \in [Field -> Seq(Node)]  BY <1>1 DEF TypeOK
    <3>3. CASE n \in Range(c)  BY <1>4, <3>3
    <3>4. CASE n \notin Range(c) /\ n = Holder(h)
      <4>1. kids'[n] = [kids[n] EXCEPT ![Name(h)] = s]  BY <1>4, <3>4 DEF s
      <4>2. QED  BY <3>2, <4>1
    <3>5. CASE n \notin Range(c) /\ n # Holder(h)
      <4>1. kids'[n] = kids[n]  BY <1>4, <3>5
      <4>2. QED  BY <3>2, <4>1
    <3>6. QED  BY <3>3, <3>4, <3>5
  <2>3. kids' = [n \in Node |-> kids'[n]]  BY <1>4
  <2>4. QED  BY <2>2, <2>3
<1>18. \A m \in used, f \in Field :
         ~(m = Holder(h) /\ f = Name(h)) => kids'[m][f] = kids[m][f]
  BY <1>1, <1>5, <1>14 DEF TypeOK
<1>19. QED  BY <1>9, <1>10, <1>11, <1>16, <1>17, <1>18, EditInv
-----------------------------------------------------------------------------
LEMMA EditStep ==
  ASSUME Inv, NEW h \in handles, Edit(h)
  PROVE  Inv'
<1> DEFINE B == Block(h)
           T == At(Holder(h), Name(h))
<1>1. Mutate(h)  BY DEF Edit
<1>2. B \in Seq(T)  BY <1>1, HolderFacts
<1>3. Len(B) \in Nat /\ \A i \in 1..Len(B) : B[i] \in T  BY <1>2, SMT
<1> HIDE DEF B, T
<1>4. CASE Insert(h)  BY <1>1, <1>4, InsertInv
<1>5. CASE Delete(h)
  <2>1. PICK i \in 1..Len(B) : SetBlock(h, RemoveAt(B, i))  BY <1>5 DEF Delete, B
  <2>2. RemoveAt(B, i) \in Seq(T)  BY <1>2, RemoveAtType
  <2>3. UNCHANGED <<place, used>>  BY <1>5 DEF Delete
  <2>4. QED  BY <1>1, <2>1, <2>2, <2>3, SetBlockInv DEF T
<1>6. CASE Swap(h)
  <2>1. PICK i \in 1..Len(B), j \in 1..Len(B) :
          SetBlock(h, [B EXCEPT ![i] = B[j], ![j] = B[i]])
    BY <1>6 DEF Swap, B
  <2>2. [B EXCEPT ![i] = B[j], ![j] = B[i]] \in Seq(T)  BY <1>2, SwapType
  <2>3. UNCHANGED <<place, used>>  BY <1>6 DEF Swap
  <2>4. QED  BY <1>1, <2>1, <2>2, <2>3, SetBlockInv DEF T
<1>7. CASE MoveElement(h)
  <2>1. PICK i \in 1..Len(B), j \in 1..Len(B) :
          SetBlock(h, InsertAt(RemoveAt(B, i), j, B[i]))
    BY <1>7 DEF MoveElement, B
  <2>2. RemoveAt(B, i) \in Seq(T) /\ Len(RemoveAt(B, i)) = Len(B) - 1
    BY <1>2, RemoveAtType
  <2>3. j \in 1..(Len(RemoveAt(B, i)) + 1)  BY <1>3, <2>2, SMT
  <2>4. InsertAt(RemoveAt(B, i), j, B[i]) \in Seq(T)
    BY <1>3, <2>2, <2>3, InsertAtType
  <2>5. UNCHANGED <<place, used>>  BY <1>7 DEF MoveElement
  <2>6. QED  BY <1>1, <2>1, <2>4, <2>5, SetBlockInv DEF T
<1>8. CASE Clear(h)
  <2>1. <<>> \in Seq(T)  BY SMT
  <2>2. QED  BY <1>1, <1>8, <2>1, SetBlockInv DEF Clear, T
<1>9. CASE Duplicate(h)
  <2>1. PICK i \in 1..Len(B) : Copy(h, B[i], i + 1)  BY <1>9 DEF Duplicate, B
  <2>2. B[i] \in used /\ place[B[i]] = Append(place[Holder(h)], Name(h))
    BY <1>3 DEF T, At
  <2>3. i + 1 \in 1..(Len(B) + 1)  BY <1>3, SMT
  <2>4. QED  BY <1>1, <2>1, <2>2, <2>3, CopyInv DEF B
<1>10. CASE Paste(h)
  <2>1. PICK n \in used, i \in 1..(Len(B) + 1) :
          place[n] = Append(place[Holder(h)], Name(h)) /\ Copy(h, n, i)
    BY <1>10 DEF Paste, B
  <2>2. QED  BY <1>1, <2>1, CopyInv DEF B
<1>11. QED
  BY <1>4, <1>5, <1>6, <1>7, <1>8, <1>9, <1>10 DEF Edit

LEMMA StreamStep ==
  ASSUME Inv, NEW a \in Anchor, RemoveStream(a) \/ AttachStream(a)
  PROVE  Inv'
<1>1. UNCHANGED <<place, used, log, handles>>  BY DEF RemoveStream, AttachStream
<1>2. TypeOK  BY DEF Inv
<1>3. RootOf[a] \in Node  BY <1>2 DEF Inv, RootsOK, TypeOK
<1>4. attached' \subseteq Anchor  BY <1>2 DEF RemoveStream, AttachStream, TypeOK
<1>5. \A n \in Node, f \in Field : kids'[n][f] = kids[n][f] \/ kids'[n][f] = <<>>
  BY <1>2, <1>3 DEF RemoveStream, AttachStream, TypeOK
<1>6. TreeOK'
  <2>1. SUFFICES ASSUME NEW n \in Node, NEW f \in Field
                 PROVE  /\ kids'[n][f] \in Seq(At(n, f))
                        /\ n \notin used => kids'[n][f] = <<>>
    BY <1>1 DEF TreeOK, At
  <2>2. kids[n][f] \in Seq(At(n, f)) /\ (n \notin used => kids[n][f] = <<>>)
    BY <1>2 DEF TypeOK, TreeOK
  <2>3. <<>> \in Seq(At(n, f))  BY SMT
  <2>4. QED  BY <1>5, <2>2, <2>3
<1>7. kids' \in [Node -> [Field -> Seq(Node)]]
  <2>1. [f \in Field |-> <<>>] \in [Field -> Seq(Node)]  BY SMT
  <2>2. QED  BY <1>2, <2>1 DEF RemoveStream, AttachStream, TypeOK
<1>8. TypeOK'  BY <1>1, <1>2, <1>4, <1>6, <1>7 DEF TypeOK
<1>9. ASSUME NEW h \in handles, Protected(h)'  PROVE Intact(h)'
  <2>1. Protected(h)  BY <1>1, <1>9 DEF Protected, Accepted, NamesItsElement
  <2>2. Intact(h)  BY <2>1 DEF Inv
  <2>3. /\ OnPath(h.anchor, h.path, Depth(h), h.route) /\ h.path \in Seq(Segment)
        /\ Depth(h) \in Nat /\ Depth(h) <= Len(h.path)
    BY HandleFacts DEF Inv
  <2>4. SUFFICES ASSUME NEW i \in 1..Depth(h), NEW m \in used,
                        Steps(h.path, i, h.route[i], m)'
                 PROVE  m = h.route[i + 1]
    BY <1>1 DEF Intact
  <2>5. h.path[i].field \in Field
    <3>1. h.path[i] \in Segment  BY <2>3, SMT
    <3>2. QED  BY <3>1 DEF Segment
  <2>6. h.route[i] \in Node
    <3>1. h.route[i] \in used  BY <2>3, SMT DEF OnPath
    <3>2. QED  BY <1>2, <3>1 DEF TypeOK
  <2>7. kids'[h.route[i]][h.path[i].field] # <<>>
    <3>1. 1..Len(kids'[h.route[i]][h.path[i].field]) # {}  BY <2>4 DEF Steps
    <3>2. QED  BY <3>1, SMT
  <2>8. Steps(h.path, i, h.route[i], m)  BY <1>5, <2>4, <2>5, <2>6, <2>7 DEF Steps, ElementOf
  <2>9. QED  BY <2>2, <2>8 DEF Intact
<1>10. QED  BY <1>1, <1>8, <1>9 DEF Inv, RootsOK, OnPath

LEMMA PinnedType == \A f \in Field : Pinned(f) \in Segment
  BY SMT DEF Pinned, Segment

LEMMA TypedPathType ==
  ASSUME NEW typed \in TypedPath  PROVE typed \in Seq(Segment)
<1>1. TypedSegment \subseteq Segment  BY HandleAssumption DEF TypedSegment, Segment
<1>2. \A x, y \in Segment : <<x>> \in Seq(Segment) /\ <<x, y>> \in Seq(Segment)  BY SMT
<1>3. CASE \E x \in TypedSegment : typed = <<x>>  BY <1>1, <1>2, <1>3
<1>4. CASE \E x, y \in TypedSegment : typed = <<x, y>>  BY <1>1, <1>2, <1>4
<1>5. QED  BY <1>3, <1>4 DEF TypedPath

LEMMA WithIndexType ==
  ASSUME NEW p \in Seq(Segment), p # <<>>, NEW k \in Nat
  PROVE  WithIndex(p, k) \in Seq(Segment) /\ WithIndex(p, k) # <<>>
<1>1. Len(p) \in 1..Len(p)  BY SMT
<1>2. p[Len(p)] \in Segment  BY <1>1, SMT
<1>3. [p[Len(p)] EXCEPT !.index = k] \in Segment  BY <1>2 DEF Segment
<1> DEFINE x == [p[Len(p)] EXCEPT !.index = k]
<1>4. WithIndex(p, k) = [p EXCEPT ![Len(p)] = x]  BY DEF WithIndex
<1> HIDE DEF x
<1>5. [p EXCEPT ![Len(p)] = x] \in Seq(Segment)  BY <1>1, <1>3, SMT DEF x
<1>6. Len([p EXCEPT ![Len(p)] = x]) = Len(p)  BY <1>1, SMT
<1>7. QED  BY <1>1, <1>4, <1>5, <1>6, SMT
LEMMA NavigateStep ==
  ASSUME Inv, Navigate
  PROVE  Inv'
<1>1. Len(log) \in Nat  BY SMT DEF Inv, TypeOK
<1>2. CASE \E a \in Anchor : Root(a)
  <2>1. PICK a \in Anchor : Root(a)  BY <1>2
  <2>2. <<>> \in Seq(Segment)  BY SMT
  <2>3. Make("struct", a, <<>>, Len(log))  BY <2>1 DEF Root
  <2>4. \A p \in Seq(Segment) : Make("struct", a, p, Len(log)) => Inv'
    BY <1>1, MakeInv
  <2>5. QED  BY <2>2, <2>3, <2>4, Zenon
<1>3. CASE \E a \in Anchor : RemoveStream(a) \/ AttachStream(a)  BY <1>3, StreamStep
<1>4. CASE \E h \in handles, f \in Field : FieldOf(h, f)
  <2>1. PICK h \in handles, f \in Field : FieldOf(h, f)  BY <1>4
  <2>2. h.anchor \in Anchor /\ h.path \in Seq(Segment)  BY HandleFacts
  <2>3. Append(h.path, Pinned(f)) \in Seq(Segment) /\ Append(h.path, Pinned(f)) # <<>>
    BY <2>2, PinnedType, SMT
  <2>4. Make("field", h.anchor, Append(h.path, Pinned(f)), Len(log))  BY <2>1 DEF FieldOf
  <2> DEFINE p == Append(h.path, Pinned(f))
  <2> HIDE DEF p
  <2>5. p \in Seq(Segment) /\ p # <<>> /\ Make("field", h.anchor, p, Len(log))
    BY <2>3, <2>4 DEF p
  <2>6. QED  BY <1>1, <2>2, <2>5, MakeInv
<1>5. CASE \E h \in handles : AsBlock(h)
  <2>1. PICK h \in handles : AsBlock(h)  BY <1>5
  <2>2. h.anchor \in Anchor /\ h.path \in Seq(Segment) /\ h.path # <<>>
    BY <2>1, HandleFacts DEF AsBlock
  <2>3. Make("field", h.anchor, h.path, Len(log))  BY <2>1 DEF AsBlock
  <2>4. QED  BY <1>1, <2>2, <2>3, MakeInv
<1>6. CASE \E h \in handles : GetItem(h)
  <2>1. PICK h \in handles : GetItem(h)  BY <1>6
  <2>2. h.anchor \in Anchor /\ h.path \in Seq(Segment) /\ h.path # <<>>
    BY <2>1, HandleFacts DEF GetItem
  <2>3. PICK k \in 1..Len(Block(h)) :
          Make("struct", h.anchor, WithIndex(h.path, k), Len(log))
    BY <2>1 DEF GetItem
  <2>4. k \in Nat  BY SMT
  <2>5. WithIndex(h.path, k) \in Seq(Segment)  BY <2>2, <2>4, WithIndexType
  <2>6. QED  BY <1>1, <2>2, <2>3, <2>5, MakeInv
<1>7. CASE \E h \in handles : Edit(h)  BY <1>7, EditStep
<1>8. QED  BY <1>2, <1>3, <1>4, <1>5, <1>6, <1>7 DEF Navigate

LEMMA TypePathStep ==
  ASSUME Inv, TypePath
  PROVE  Inv'
<1>1. PICK h \in handles, typed \in TypedPath :
        Descend(h, typed) \/ \E f \in Field : FieldPath(h, typed, f)
  BY DEF TypePath
<1>2. /\ h.anchor \in Anchor /\ h.path \in Seq(Segment)
      /\ h.generation \in Nat /\ h.generation <= Len(log)
  BY HandleFacts
<1> DEFINE p == h.path \o typed
<1>3. p \in Seq(Segment)  BY <1>2, TypedPathType, ConcatType
<1>4. CASE Descend(h, typed)  BY <1>2, <1>3, <1>4, MakeInv DEF Descend
<1>5. CASE \E f \in Field : FieldPath(h, typed, f)
  <2>1. PICK f \in Field : Make("field", h.anchor, Append(p, Pinned(f)), h.generation)
    BY <1>5 DEF FieldPath
  <2> HIDE DEF p
  <2>2. Append(p, Pinned(f)) \in Seq(Segment) /\ Append(p, Pinned(f)) # <<>>
    BY <1>3, PinnedType, SMT
  <2>3. QED  BY <1>2, <2>1, <2>2, MakeInv
<1>6. QED  BY <1>1, <1>4, <1>5

LEMMA StutterStep ==
  ASSUME Inv, UNCHANGED vars
  PROVE  Inv'
<1> USE DEF vars
<1>1. TypeOK' /\ RootsOK'  BY DEF Inv, TypeOK, TreeOK, At, RootsOK
<1>2. \A h \in handles' : OnPath(h.anchor, h.path, Depth(h), h.route)'
  BY DEF Inv, OnPath, Depth
<1>3. ASSUME NEW h \in handles, Protected(h)'  PROVE Intact(h)'
  <2>1. Protected(h)  BY <1>3 DEF Protected, Accepted, NamesItsElement
  <2>2. QED  BY <2>1 DEF Inv, Intact, Steps
<1>4. QED  BY <1>1, <1>2, <1>3 DEF Inv

(***************************************************************************)
(* Inv is an invariant of every script.                                    *)
(***************************************************************************)
THEOREM InvHolds == Spec => []Inv
<1>1. Inv /\ [Next]_vars => Inv'  BY NavigateStep, TypePathStep, StutterStep DEF Next
<1>2. QED  BY <1>1, InitInv, PTL DEF Spec

(* handles.rs, check_generation: types and the shape of the tree and of    *)
(* the handles, whatever the script does.                                  *)
THEOREM TypeCorrect == Spec => []TypeOK
<1>1. Inv => TypeOK  BY DEF Inv
<1>2. QED  BY <1>1, InvHolds, PTL

(***************************************************************************)
(* A handle whose path is spelled like the edits' never silently addresses *)
(* another element, even in scripts that type paths.                       *)
(***************************************************************************)
THEOREM SpelledAlikeHolds == Spec => []SpelledAlikeIsSafe
<1>1. Inv => SpelledAlikeIsSafe
  <2>1. SUFFICES ASSUME Inv, NEW h \in handles, Protected(h)  PROVE Addresses(h)
    BY DEF SpelledAlikeIsSafe
  <2>2. Intact(h)  BY <2>1 DEF Inv
  <2>3. QED  BY <2>1, <2>2, IntactAddresses
<1>2. QED  BY <1>1, InvHolds, PTL
-----------------------------------------------------------------------------
LEMMA MakeNav ==
  ASSUME Inv, NavInv, NEW kind \in {"struct", "field"}, NEW a, NEW p \in Seq(Segment), NEW g,
         Make(kind, a, p, g), AllPinned(p),
         kind = "struct" => p = <<>> \/ p[Len(p)].index # 0,
         kind = "field" => p[Len(p)].index = 0
  PROVE  NavInv'
<1> DEFINE n == IF kind = "struct" THEN Len(p) ELSE Len(p) - 1
           r == Walk(a, p, n)
           H == Handle(kind, a, p, g, r)
<1>1. Hold(H)  BY DEF Make
<1>2. PICK kept \in SUBSET handles : handles' = kept \cup {H}  BY <1>1 DEF Hold
<1>3. log' = log  BY <1>1 DEF Hold
<1> HIDE DEF r
<1>4. H.kind = kind /\ H.path = p  BY DEF Handle
<1> HIDE DEF H, n
<1>5. /\ AllPinned(H.path) /\ NamesItsElement(H)
      /\ H.kind = "field" => H.path[Len(H.path)].index = 0
  BY <1>4 DEF NamesItsElement
<1>6. \A h \in handles' :
        /\ AllPinned(h.path) /\ NamesItsElement(h)
        /\ h.kind = "field" => h.path[Len(h.path)].index = 0
  BY <1>2, <1>5 DEF NavInv
<1>7. QED  BY <1>3, <1>6 DEF NavInv, NamesItsElement, AllPinned

LEMMA NavStep ==
  ASSUME Inv, NavInv, Navigate
  PROVE  NavInv'
<1>1. CASE \E a \in Anchor : Root(a)
  <2>1. PICK a \in Anchor : Root(a)  BY <1>1
  <2>2. <<>> \in Seq(Segment) /\ AllPinned(<<>>)  BY SMT DEF AllPinned
  <2>3. QED  BY <2>1, <2>2, MakeNav DEF Root
<1>2. CASE \E a \in Anchor : RemoveStream(a) \/ AttachStream(a)
  BY <1>2 DEF RemoveStream, AttachStream, NavInv
<1>3. CASE \E h \in handles, f \in Field : FieldOf(h, f)
  <2>1. PICK h \in handles, f \in Field : FieldOf(h, f)  BY <1>3
  <2> DEFINE p == Append(h.path, Pinned(f))
  <2>2. h.path \in Seq(Segment) /\ AllPinned(h.path)  BY HandleFacts DEF NavInv
  <2>3. p \in Seq(Segment) /\ p[Len(p)] = Pinned(f)  BY <2>2, PinnedType, SMT
  <2>4. AllPinned(p)
    <3>1. \A i \in 1..Len(p) : p[i] = Pinned(f) \/ (i \in 1..Len(h.path) /\ p[i] = h.path[i])
      BY <2>2, PinnedType, SMT
    <3>2. QED  BY <2>2, <3>1 DEF AllPinned, Pinned
  <2>5. p[Len(p)].index = 0  BY <2>3 DEF Pinned
  <2>6. Make("field", h.anchor, p, Len(log))  BY <2>1 DEF FieldOf
  <2> HIDE DEF p
  <2>7. QED  BY <2>3, <2>4, <2>5, <2>6, MakeNav
<1>4. CASE \E h \in handles : AsBlock(h)
  <2>1. PICK h \in handles : AsBlock(h)  BY <1>4
  <2>2. h.path \in Seq(Segment)  BY HandleFacts
  <2>3. QED  BY <2>1, <2>2, MakeNav DEF AsBlock, NavInv
<1>5. CASE \E h \in handles : GetItem(h)
  <2>1. PICK h \in handles : GetItem(h)  BY <1>5
  <2>2. h.path \in Seq(Segment) /\ h.path # <<>> /\ AllPinned(h.path)
    BY <2>1, HandleFacts DEF GetItem, NavInv
  <2>3. PICK k \in 1..Len(Block(h)) :
          Make("struct", h.anchor, WithIndex(h.path, k), Len(log))
    BY <2>1 DEF GetItem
  <2>4. k \in Nat /\ k # 0  BY SMT
  <2> DEFINE p == WithIndex(h.path, k)
  <2>5. p \in Seq(Segment)  BY <2>2, <2>4, WithIndexType
  <2>6. Len(h.path) \in 1..Len(h.path) /\ h.path[Len(h.path)] \in Segment
    <3>1. Len(h.path) \in 1..Len(h.path)  BY <2>2, SMT
    <3>2. QED  BY <2>2, <3>1, SMT
  <2>7. Len(p) = Len(h.path)  BY <2>2, <2>6, SMT DEF WithIndex
  <2>8. p[Len(p)].index = k  BY <2>2, <2>6, <2>7, SMT DEF WithIndex, Segment
  <2>9. \A i \in 1..Len(p) : p[i].pinned = h.path[i].pinned
    BY <2>2, <2>6, <2>7, SMT DEF WithIndex, Segment
  <2>10. AllPinned(p)  BY <2>2, <2>7, <2>9 DEF AllPinned
  <2> HIDE DEF p
  <2>11. Make("struct", h.anchor, p, Len(log))  BY <2>3 DEF p
  <2>12. QED  BY <2>4, <2>5, <2>8, <2>10, <2>11, MakeNav
<1>6. CASE \E h \in handles : Edit(h)
  <2>1. PICK h \in handles : Mutate(h)  BY <1>6 DEF Edit
  <2>2. log' = Append(log, h.path) /\ handles' = handles  BY <2>1 DEF Mutate
  <2>3. h.path \in Seq(Segment) /\ log \in Seq(Seq(Segment))  BY HandleFacts DEF Inv, TypeOK
  <2>4. \A j \in 1..Len(log') : log'[j] = h.path \/ (j \in 1..Len(log) /\ log'[j] = log[j])
    BY <2>2, <2>3, SMT
  <2>5. \A j \in 1..Len(log') : AllPinned(log'[j])  BY <2>4 DEF NavInv
  <2>6. QED  BY <2>2, <2>5 DEF NavInv, NamesItsElement, AllPinned
<1>7. QED  BY <1>1, <1>2, <1>3, <1>4, <1>5, <1>6 DEF Navigate

LEMMA NavigateInv == NavigateSpec => [](Inv /\ NavInv)
<1>1. Init => NavInv
  <2>1. SUFFICES ASSUME Init  PROVE NavInv  OBVIOUS
  <2>2. 1..Len(log) = {} /\ handles = {}  BY <2>1, SMT DEF Init
  <2>3. QED  BY <2>2 DEF NavInv
<1>2. NavInv /\ UNCHANGED vars => NavInv'
  BY DEF NavInv, NamesItsElement, AllPinned, vars
<1>3. Inv /\ NavInv /\ [Navigate]_vars => (Inv /\ NavInv)'
  BY <1>2, NavigateStep, StutterStep, NavStep
<1>4. QED  BY <1>1, <1>3, InitInv, PTL DEF NavigateSpec

(***************************************************************************)
(* handles.rs:20-34: in a script that navigates, whatever it edits, no     *)
(* handle that the guard accepts silently addresses another element.       *)
(***************************************************************************)
THEOREM NavigationIsSafe == NavigateSpec => []NeverMisaddressed
<1>1. Inv /\ NavInv => NeverMisaddressed
  <2>1. SUFFICES ASSUME Inv, NavInv, NEW h \in handles, Accepted(h)  PROVE Addresses(h)
    BY DEF NeverMisaddressed
  <2>2. Protected(h)
    <3>1. /\ h.path \in Seq(Segment) /\ log \in Seq(Seq(Segment))
          /\ h.generation \in Nat /\ AllPinned(h.path)
      BY <2>1, HandleFacts DEF Inv, TypeOK, NavInv
    <3>2. ASSUME NEW j \in (h.generation + 1)..Len(log)  PROVE SpelledAlike(log[j], h.path)
      <4>1. j \in 1..Len(log)  BY <3>1, SMT
      <4>2. log[j] \in Seq(Segment) /\ AllPinned(log[j])  BY <2>1, <3>1, <4>1, SMT DEF NavInv
      <4>3. SUFFICES ASSUME Len(log[j]) <= Len(h.path), NEW i \in 1..Len(log[j])
                     PROVE  log[j][i].pinned = h.path[i].pinned
        BY DEF SpelledAlike
      <4>4. i \in 1..Len(h.path)  BY <3>1, <4>2, <4>3, SMT
      <4>5. log[j][i] \in Segment /\ h.path[i] \in Segment  BY <3>1, <4>2, <4>4, SMT
      <4>6. log[j][i].pinned \in BOOLEAN /\ h.path[i].pinned \in BOOLEAN  BY <4>5 DEF Segment
      <4>7. QED  BY <3>1, <4>2, <4>4, <4>6, Zenon DEF AllPinned
    <3>3. QED  BY <2>1, <3>2 DEF Protected, NavInv
  <2>3. Intact(h)  BY <2>1, <2>2 DEF Inv
  <2>4. QED  BY <2>1, <2>3, IntactAddresses
<1>2. QED  BY <1>1, NavigateInv, PTL
LEMMA SurvivesStep ==
  ASSUME Inv, NavInv, Navigate, NEW h \in handles, NEW g \in handles,
         Len(log') > Len(log), log'[Len(log')] = h.path, Accepted(g),
         g.path = h.path \/ Len(g.path) < Len(h.path)
  PROVE  Accepted(g)'
<1>1. log \in Seq(Seq(Segment)) /\ Len(log) \in Nat  BY SMT DEF Inv, TypeOK
<1>2. PICK e \in handles : Mutate(e)
  <2>1. \A kind, a, p, n : Make(kind, a, p, n) => log' = log  BY DEF Make, Hold
  <2>2. log' # log  BY <1>1, SMT
  <2>3. QED
    BY <2>1, <2>2 DEF Navigate, Root, FieldOf, AsBlock, GetItem, RemoveStream, AttachStream, Edit
<1>3. /\ e.kind = "field" /\ e.path \in Seq(Segment) /\ log' = Append(log, e.path)
      /\ e.path[Len(e.path)].index = 0
  BY <1>2, HandleFacts DEF Mutate, NavInv
<1>4. Len(log') = Len(log) + 1 /\ log'[Len(log')] = e.path
  BY <1>1, <1>3, SMT
<1>5. \A j \in 1..Len(log) : log'[j] = log[j]  BY <1>1, <1>3, SMT
<1>6. h.path \in Seq(Segment) /\ g.path \in Seq(Segment) /\ g.generation \in Nat
  BY HandleFacts
<1>7. ~LandsAbove(h.path, g.path)
  <2>1. CASE g.path = h.path
    <3>1. g.path[Len(g.path)].index = 0  BY <1>3, <1>4, <2>1
    <3>2. ~(Len(g.path) > Len(h.path))  BY <1>6, <2>1, SMT
    <3>3. QED  BY <2>1, <3>1, <3>2 DEF LandsAbove
  <2>2. CASE Len(g.path) < Len(h.path)
    <3>1. ~(Len(h.path) <= Len(g.path))  BY <1>6, <2>2, SMT
    <3>2. QED  BY <3>1 DEF LandsAbove, IsAncestorOf
  <2>3. QED  BY <2>1, <2>2
<1>8. ASSUME NEW j \in (g.generation + 1)..Len(log')
      PROVE  ~LandsAbove(log'[j], g.path)
  <2>1. j = Len(log') \/ (j \in (g.generation + 1)..Len(log) /\ j \in 1..Len(log))
    BY <1>1, <1>4, <1>6, SMT
  <2>2. CASE j = Len(log')  BY <1>7, <2>2
  <2>3. CASE j \in (g.generation + 1)..Len(log) /\ j \in 1..Len(log)
    BY <1>5, <2>3 DEF Accepted
  <2>4. QED  BY <2>1, <2>2, <2>3
<1>9. QED  BY <1>8 DEF Accepted, LandsAbove, IsAncestorOf

(***************************************************************************)
(* handles.rs:33: an edit leaves the block handle it was made through, and *)
(* every handle above it, accepted.                                        *)
(***************************************************************************)
THEOREM EditsSpareTheirBlock == NavigateSpec => SurvivesItsEdit
<1> DEFINE Spared ==
      \A h \in handles, g \in handles :
        (/\ Len(log') > Len(log)
         /\ log'[Len(log')] = h.path
         /\ Accepted(g)
         /\ g.anchor = h.anchor
         /\ g.path = h.path \/ Len(g.path) < Len(h.path))
        => Accepted(g)'
<1>1. Inv /\ NavInv /\ Navigate => Spared  BY SurvivesStep
<1>2. Inv /\ NavInv /\ [Navigate]_vars => [Spared]_vars  BY <1>1
<1>3. QED  BY <1>2, NavigateInv, PTL DEF NavigateSpec, SurvivesItsEdit
=============================================================================
