------------------------- MODULE ClassicBodyProofs -------------------------
(***************************************************************************)
(* The block editor implements a sequence of elements, and the body codec  *)
(* loses none of them: for every layout, width, number of blocks, number   *)
(* of elements and every sound file.                                       *)
(*                                                                         *)
(* First the editor.  BlockInv says that every block is a whole number of  *)
(* elements of one width, and that the width is one that the layouts or a  *)
(* reader gave.  The lemmas on buffers (Splice, Drain, Exchange) say what  *)
(* becomes of the regions at element boundaries; Pairs turns a buffer and  *)
(* its trees into the sequence of elements, and each edit is shown to do   *)
(* to Pairs what ElementSeq says.                                          *)
(*                                                                         *)
(* Then the codec.  A block is Clean when it is what the decoder makes of  *)
(* its own words: such blocks are read back from the words they are        *)
(* written as (BodyReadsBack), and a sound file is decoded to nothing      *)
(* else (SoundFileReads).  A block is Live when the edits may have come    *)
(* over it: it is written as the words of a Clean block with the same      *)
(* elements (LiveEncodes).  The edits keep blocks Live (EditLive), saving  *)
(* and opening make them Clean, and BodyInv says so of the whole tag and   *)
(* of the file beside it.                                                  *)
(***************************************************************************)
EXTENDS ClassicBody, NaturalsInduction, WellFoundedInduction, SequenceTheorems,
        TLAPS

(* Products of a number of elements and a width. *)
LEMMA Product == ASSUME NEW k \in Nat, NEW size \in Nat
  PROVE  k * size \in Nat /\ (k + 1) * size = k * size + size
BY SMT

(* More elements of one width are no shorter.                              *)
LEMMA ProductGrows == ASSUME NEW n \in Nat, NEW k \in Nat, k <= n, NEW size \in Nat
  PROVE  k * size <= n * size
<1>1. n - k \in Nat  BY SMT
<1>2. (n - k) * size \in Nat  BY <1>1, SMT
<1>3. n * size = k * size + (n - k) * size  BY <1>1, SMT
<1>4. k * size \in Nat /\ n * size \in Nat  BY SMT
<1>5. QED  BY <1>2, <1>3, <1>4, SMT

(* The element that a word stands in.                                      *)
LEMMA Quotient == ASSUME NEW a \in Nat, NEW s \in Nat \ {0}, NEW r \in 0..(s - 1)
  PROVE  (a * s + r) \div s = a
BY SMT
(* The width is the length over the number of elements.                    *)
LEMMA QuotientOf == ASSUME NEW n \in Nat \ {0}, NEW w \in Nat PROVE (n * w) \div n = w
BY SMT

(* Words put into a sequence after the first a of it. *)
LEMMA PutIn ==
  ASSUME NEW T, NEW s \in Seq(T), NEW words \in Seq(T), NEW a \in 0..Len(s)
  PROVE  LET c == SubSeq(s, 1, a) \o words \o SubSeq(s, a + 1, Len(s))
         IN  /\ c \in Seq(T)
             /\ Len(c) = Len(s) + Len(words)
             /\ \A k \in 1..(Len(s) + Len(words)) :
                  c[k] = IF k <= a THEN s[k] ELSE IF k <= a + Len(words) THEN words[k - a]
                         ELSE s[k - Len(words)]
<1> DEFINE n == Len(s)
           m == Len(words)
           x == SubSeq(s, 1, a)
           y == SubSeq(s, a + 1, n)
           c == x \o words \o y
<1>1. n \in Nat /\ m \in Nat /\ a \in Nat /\ a <= n  BY SMT
<1>2. \A i \in 1..n : s[i] \in T  BY SMT
<1>3. x \in Seq(T) /\ Len(x) = a /\ \A k \in 1..a : x[k] = s[k]
  <2>1. \A i \in 1..a : s[i] \in T  BY <1>1, <1>2, SMT
  <2>2. /\ x \in Seq(T) /\ Len(x) = IF 1 <= a THEN a - 1 + 1 ELSE 0
        /\ \A k \in 1..(a - 1 + 1) : x[k] = s[1 + k - 1]
    BY <1>1, <2>1, SubSeqProperties
  <2> HIDE DEF x
  <2>3. QED  BY <1>1, <2>2, SMT
<1>4. y \in Seq(T) /\ Len(y) = n - a /\ \A k \in 1..(n - a) : y[k] = s[a + k]
  <2>1. \A i \in (a + 1)..n : s[i] \in T  BY <1>1, <1>2, SMT
  <2>2. /\ y \in Seq(T) /\ Len(y) = IF a + 1 <= n THEN n - (a + 1) + 1 ELSE 0
        /\ \A k \in 1..(n - (a + 1) + 1) : y[k] = s[(a + 1) + k - 1]
    BY <1>1, <2>1, SubSeqProperties
  <2> HIDE DEF y
  <2>3. QED  BY <1>1, <2>2, SMT
<1> HIDE DEF x, y
<1>5. /\ x \o words \in Seq(T) /\ Len(x \o words) = a + m
      /\ \A k \in 1..(a + m) : (x \o words)[k] = IF k <= a THEN x[k] ELSE words[k - a]
  <2>1. /\ x \o words \in Seq(T) /\ Len(x \o words) = Len(x) + Len(words)
        /\ \A k \in 1..Len(x) + Len(words) :
             (x \o words)[k] = IF k <= Len(x) THEN x[k] ELSE words[k - Len(x)]
    BY <1>3, ConcatProperties
  <2>2. QED  BY <1>3, <2>1
<1> DEFINE z == x \o words
<1> HIDE DEF z
<1>6. /\ z \in Seq(T) /\ Len(z) = a + m
      /\ \A k \in 1..(a + m) : z[k] = IF k <= a THEN x[k] ELSE words[k - a]
  BY <1>5 DEF z
<1>7. /\ z \o y \in Seq(T) /\ Len(z \o y) = (a + m) + (n - a)
      /\ \A k \in 1..((a + m) + (n - a)) : (z \o y)[k] = IF k <= a + m THEN z[k] ELSE y[k - (a + m)]
  <2>1. /\ z \o y \in Seq(T) /\ Len(z \o y) = Len(z) + Len(y)
        /\ \A k \in 1..Len(z) + Len(y) : (z \o y)[k] = IF k <= Len(z) THEN z[k] ELSE y[k - Len(z)]
    BY <1>4, <1>6, ConcatProperties
  <2>2. QED  BY <1>4, <1>6, <2>1
<1>8. c = z \o y  BY DEF z
<1> HIDE DEF c, n, m
<1>9. c \in Seq(T) /\ Len(c) = n + m
  <2>1. (a + m) + (n - a) = n + m  BY <1>1, SMT
  <2>2. QED  BY <1>7, <1>8, <2>1
<1>10. ASSUME NEW k \in 1..(n + m)
       PROVE  c[k] = IF k <= a THEN s[k] ELSE IF k <= a + m THEN words[k - a] ELSE s[k - m]
  <2>0. k \in 1..((a + m) + (n - a)) /\ (k <= a => k <= a + m /\ k \in 1..a)
    BY <1>1, SMT
  <2>1. CASE k <= a
    <3>1. c[k] = z[k] /\ k \in 1..(a + m)  BY <1>1, <1>7, <1>8, <2>0, <2>1, SMT
    <3>2. z[k] = x[k]  BY <1>6, <2>1, <3>1
    <3>3. QED  BY <1>3, <2>0, <2>1, <3>1, <3>2
  <2>2. CASE ~(k <= a) /\ k <= a + m
    <3>1. c[k] = z[k] /\ k \in 1..(a + m)  BY <1>1, <1>7, <1>8, <2>0, <2>2, SMT
    <3>2. z[k] = words[k - a]  BY <1>6, <2>2, <3>1
    <3>3. QED  BY <2>2, <3>1, <3>2
  <2>3. CASE ~(k <= a + m)
    <3>1. c[k] = y[k - (a + m)]  BY <1>1, <1>7, <1>8, <2>3, SMT
    <3>2. k - (a + m) \in 1..(n - a) /\ a + (k - (a + m)) = k - m  BY <1>1, <2>3, SMT
    <3>3. QED  BY <1>1, <1>4, <2>3, <3>1, <3>2, SMT
  <2>4. QED  BY <2>1, <2>2, <2>3
<1>11. QED  BY <1>9, <1>10 DEF c, x, y, n, m

(* What is left of a sequence without its part after a up to c. *)
LEMMA TakeOut ==
  ASSUME NEW T, NEW s \in Seq(T), NEW c \in 0..Len(s), NEW a \in 0..c
  PROVE  LET d == SubSeq(s, 1, a) \o SubSeq(s, c + 1, Len(s))
         IN  /\ d \in Seq(T)
             /\ Len(d) = Len(s) - (c - a)
             /\ \A k \in 1..(Len(s) - (c - a)) : d[k] = IF k <= a THEN s[k] ELSE s[k + (c - a)]
<1> DEFINE n == Len(s)
           x == SubSeq(s, 1, a)
           y == SubSeq(s, c + 1, n)
           d == x \o y
<1>1. n \in Nat /\ c \in Nat /\ a \in Nat /\ a <= c /\ c <= n  BY SMT
<1>2. \A i \in 1..n : s[i] \in T  BY SMT
<1>3. x \in Seq(T) /\ Len(x) = a /\ \A k \in 1..a : x[k] = s[k]
  <2>1. \A i \in 1..a : s[i] \in T  BY <1>1, <1>2, SMT
  <2>2. /\ x \in Seq(T) /\ Len(x) = IF 1 <= a THEN a - 1 + 1 ELSE 0
        /\ \A k \in 1..(a - 1 + 1) : x[k] = s[1 + k - 1]
    BY <1>1, <2>1, SubSeqProperties
  <2> HIDE DEF x
  <2>3. QED  BY <1>1, <2>2, SMT
<1>4. y \in Seq(T) /\ Len(y) = n - c /\ \A k \in 1..(n - c) : y[k] = s[c + k]
  <2>1. \A i \in (c + 1)..n : s[i] \in T  BY <1>1, <1>2, SMT
  <2>2. /\ y \in Seq(T) /\ Len(y) = IF c + 1 <= n THEN n - (c + 1) + 1 ELSE 0
        /\ \A k \in 1..(n - (c + 1) + 1) : y[k] = s[(c + 1) + k - 1]
    BY <1>1, <2>1, SubSeqProperties
  <2> HIDE DEF y
  <2>3. QED  BY <1>1, <2>2, SMT
<1> HIDE DEF x, y
<1>5. /\ d \in Seq(T) /\ Len(d) = a + (n - c)
      /\ \A k \in 1..(a + (n - c)) : d[k] = IF k <= a THEN x[k] ELSE y[k - a]
  <2>1. /\ d \in Seq(T) /\ Len(d) = Len(x) + Len(y)
        /\ \A k \in 1..Len(x) + Len(y) : d[k] = IF k <= Len(x) THEN x[k] ELSE y[k - Len(x)]
    BY <1>3, <1>4, ConcatProperties
  <2>2. QED  BY <1>3, <1>4, <2>1
<1> HIDE DEF d, n
<1>6. Len(d) = n - (c - a)  BY <1>1, <1>5, SMT
<1>7. ASSUME NEW k \in 1..(n - (c - a)) PROVE d[k] = IF k <= a THEN s[k] ELSE s[k + (c - a)]
  <2>1. CASE k <= a
    <3>1. k \in 1..a /\ k \in 1..(a + (n - c))  BY <1>1, <2>1, SMT
    <3>2. d[k] = x[k]  BY <1>5, <2>1, <3>1
    <3>3. QED  BY <1>3, <2>1, <3>1, <3>2
  <2>2. CASE ~(k <= a)
    <3>0. k \in 1..(a + (n - c))  BY <1>1, SMT
    <3>1. d[k] = y[k - a]  BY <1>5, <2>2, <3>0
    <3>2. k - a \in 1..(n - c) /\ c + (k - a) = k + (c - a)  BY <1>1, <2>2, SMT
    <3>3. QED  BY <1>1, <1>4, <2>2, <3>1, <3>2, SMT
  <2>3. QED  BY <2>1, <2>2
<1>8. QED  BY <1>5, <1>6, <1>7 DEF d, x, y, n

(* SequencesExt's InsertAt, index by index.                                *)
LEMMA InsertFacts ==
  ASSUME NEW T, NEW s \in Seq(T), NEW e \in T, NEW i \in 1..(Len(s) + 1)
  PROVE  /\ InsertAt(s, i, e) \in Seq(T)
         /\ Len(InsertAt(s, i, e)) = Len(s) + 1
         /\ \A k \in 1..(Len(s) + 1) :
              InsertAt(s, i, e)[k] = IF k < i THEN s[k] ELSE IF k = i THEN e ELSE s[k - 1]
<1> DEFINE a == i - 1
           w == <<e>>
           c == InsertAt(s, i, e)
<1>1. a \in 0..Len(s) /\ a + 1 = i /\ Len(s) \in Nat /\ i \in Nat  BY SMT
<1>2. w \in Seq(T) /\ Len(w) = 1 /\ w[1] = e  OBVIOUS
<1>3. c = SubSeq(s, 1, a) \o w \o SubSeq(s, a + 1, Len(s))  BY <1>1 DEF InsertAt
<1> HIDE DEF a, w, c
<1>4. /\ c \in Seq(T) /\ Len(c) = Len(s) + Len(w)
      /\ \A k \in 1..(Len(s) + Len(w)) :
           c[k] = IF k <= a THEN s[k] ELSE IF k <= a + Len(w) THEN w[k - a] ELSE s[k - Len(w)]
  BY <1>1, <1>2, <1>3, PutIn
<1>5. ASSUME NEW k \in 1..(Len(s) + 1)
      PROVE  c[k] = IF k < i THEN s[k] ELSE IF k = i THEN e ELSE s[k - 1]
  <2>1. c[k] = IF k <= a THEN s[k] ELSE IF k <= a + 1 THEN w[k - a] ELSE s[k - 1]
    BY <1>2, <1>4
  <2>2. (k <= a <=> k < i) /\ (k <= a + 1 /\ ~(k <= a) <=> k = i) /\ (k = i => k - a = 1)
    BY <1>1, SMT
  <2>3. QED  BY <1>2, <2>1, <2>2
<1>6. QED  BY <1>2, <1>4, <1>5 DEF c

(* SequencesExt's RemoveAt, index by index.                                *)
LEMMA RemoveFacts ==
  ASSUME NEW T, NEW s \in Seq(T), NEW i \in 1..Len(s)
  PROVE  /\ RemoveAt(s, i) \in Seq(T)
         /\ Len(RemoveAt(s, i)) = Len(s) - 1
         /\ \A k \in 1..(Len(s) - 1) : RemoveAt(s, i)[k] = IF k < i THEN s[k] ELSE s[k + 1]
<1> DEFINE a == i - 1
           d == RemoveAt(s, i)
<1>1. i \in 0..Len(s) /\ a \in 0..i /\ i - a = 1 /\ Len(s) \in Nat  BY SMT
<1>2. d = SubSeq(s, 1, a) \o SubSeq(s, i + 1, Len(s))  BY DEF RemoveAt
<1>3. \A k \in 1..(Len(s) - 1) : k <= a <=> k < i  BY SMT
<1> HIDE DEF a, d
<1>4. /\ d \in Seq(T) /\ Len(d) = Len(s) - (i - a)
      /\ \A k \in 1..(Len(s) - (i - a)) : d[k] = IF k <= a THEN s[k] ELSE s[k + (i - a)]
  BY <1>1, <1>2, TakeOut
<1>5. QED  BY <1>1, <1>3, <1>4 DEF d

(* n elements of a width, and where element k of them begins. *)
Sized(raw, n, size) == raw \in Seq(Word) /\ Len(raw) = n * size
Base(size, k) == (k - 1) * size

(* Where element i starts and ends in the buffer.                          *)
LEMMA BaseFacts ==
  ASSUME NEW size \in Nat, NEW k \in Nat \ {0}
  PROVE  /\ Base(size, k) \in Nat
         /\ Base(size, k + 1) = Base(size, k) + size
         /\ k * size = Base(size, k) + size
         /\ Base(size, k + 1) = k * size
<1> DEFINE j == k - 1
<1>1. j \in Nat /\ j + 1 = k /\ (k + 1) - 1 = k  BY SMT
<1>2. j * size \in Nat /\ k * size = j * size + size  BY <1>1, Product
<1>3. QED  BY <1>1, <1>2 DEF Base

(* A later element starts no earlier.                                      *)
LEMMA BaseGrows ==
  ASSUME NEW size \in Nat, NEW k \in Nat \ {0}, NEW j \in Nat \ {0}, k <= j
  PROVE  Base(size, k) <= Base(size, j)
<1>1. k - 1 \in Nat /\ j - 1 \in Nat /\ k - 1 <= j - 1  BY SMT
<1>2. QED  BY <1>1, ProductGrows DEF Base

(* A whole buffer ends where one more element would begin.                 *)
LEMMA SizedBase ==
  ASSUME NEW n \in Nat, NEW size \in Nat, NEW raw, Sized(raw, n, size)
  PROVE  Len(raw) = Base(size, n + 1) /\ raw \in Seq(Word) /\ Len(raw) \in Nat
<1>1. (n + 1) - 1 = n  BY SMT
<1>2. QED  BY <1>1, LenProperties DEF Sized, Base

(* Element k's words. *)
LEMMA SliceFacts ==
  ASSUME NEW n \in Nat, NEW size \in Nat, NEW raw, Sized(raw, n, size), NEW k \in 1..n
  PROVE  /\ Slice(raw, size, k) \in Seq(Word)
         /\ Len(Slice(raw, size, k)) = size
         /\ \A m \in 1..size : /\ Slice(raw, size, k)[m] = raw[Base(size, k) + m]
                               /\ Base(size, k) + m \in 1..Len(raw)
<1> DEFINE p == Base(size, k)
           q == Base(size, k + 1)
           r == Len(raw)
           c == SubSeq(raw, p + 1, q)
<1>1. k \in Nat \ {0} /\ k + 1 <= n + 1 /\ n + 1 \in Nat \ {0} /\ k + 1 \in Nat \ {0}  BY SMT
<1>2. p \in Nat /\ q = p + size /\ q = k * size  BY <1>1, BaseFacts
<1>3. q <= r /\ r \in Nat /\ raw \in Seq(Word)  BY <1>1, SizedBase, BaseGrows
<1>4. Slice(raw, size, k) = c  BY <1>2 DEF Slice, Base
<1> HIDE DEF p, q, r
<1>5. \A j \in p + 1..q : raw[j] \in Word
  <2>1. \A j \in 1..r : raw[j] \in Word  BY <1>3, SMT DEF r
  <2>2. QED  BY <1>2, <1>3, <2>1, SMT
<1>6. /\ c \in Seq(Word) /\ Len(c) = IF p + 1 <= q THEN q - (p + 1) + 1 ELSE 0
      /\ \A m \in 1..(q - (p + 1) + 1) : c[m] = raw[(p + 1) + m - 1]
  <2>1. p + 1 \in Int /\ q \in Int  BY <1>2, SMT
  <2>2. QED  BY <1>5, <2>1, SubSeqProperties
<1> HIDE DEF c
<1>7. Len(c) = size  BY <1>2, <1>6, SMT
<1>8. ASSUME NEW m \in 1..size PROVE c[m] = raw[p + m] /\ p + m \in 1..r
  <2>1. m \in 1..(q - (p + 1) + 1) /\ (p + 1) + m - 1 = p + m /\ p + m \in 1..r
    BY <1>2, <1>3, SMT
  <2>2. QED  BY <1>6, <2>1
<1>9. QED  BY <1>4, <1>6, <1>7, <1>8 DEF p, r

(* An element's words, one by one.                                         *)
LEMMA SliceIs ==
  ASSUME NEW n \in Nat, NEW size \in Nat, NEW raw, Sized(raw, n, size),
         NEW k \in 1..n, NEW words \in Seq(Word), Len(words) = size,
         \A m \in 1..size : raw[Base(size, k) + m] = words[m]
  PROVE  Slice(raw, size, k) = words
<1>1. /\ Slice(raw, size, k) \in Seq(Word)
      /\ Len(Slice(raw, size, k)) = size
      /\ \A m \in 1..size : /\ Slice(raw, size, k)[m] = raw[Base(size, k) + m]
                            /\ Base(size, k) + m \in 1..Len(raw)
  BY SliceFacts
<1>2. \A m \in 1..Len(Slice(raw, size, k)) : Slice(raw, size, k)[m] = words[m]
  BY <1>1
<1>3. QED  BY <1>1, <1>2, SeqEqual

(* The elements: a region of the buffer with a tree each. *)
Element == [raw : Seq(Word), tree : TreeType]
Pairs(raw, els, size) == [k \in 1..Len(els) |-> Held(Slice(raw, size, k), els[k])]

(* Pairs is a sequence of as many elements as there are trees.             *)
LEMMA PairsType ==
  ASSUME NEW size \in Nat, NEW els \in Seq(TreeType), NEW raw, Sized(raw, Len(els), size)
  PROVE  /\ Pairs(raw, els, size) \in Seq(Element)
         /\ Len(Pairs(raw, els, size)) = Len(els)
         /\ \A k \in 1..Len(els) : Pairs(raw, els, size)[k] = Held(Slice(raw, size, k), els[k])
<1> DEFINE n == Len(els)
           P == Pairs(raw, els, size)
<1>1. n \in Nat /\ \A k \in 1..n : els[k] \in TreeType  BY LenProperties, ElementOfSeq
<1>2. \A k \in 1..n : Held(Slice(raw, size, k), els[k]) \in Element
  BY <1>1, SliceFacts DEF Held, Element
<1>3. P = [k \in 1..n |-> Held(Slice(raw, size, k), els[k])]  BY DEF Pairs
<1> HIDE DEF n
<1>4. P \in [1..n -> Element]  BY <1>2, <1>3
<1>5. P \in Seq(Element)  BY <1>1, <1>4, SeqDef
<1>6. Len(P) = n  BY <1>1, <1>3
<1>7. QED  BY <1>3, <1>5, <1>6 DEF n
-----------------------------------------------------------------------------
(* Vec::splice puts whole elements in, and the others stay whole.          *)
LEMMA SpliceFacts ==
  ASSUME NEW n \in Nat, NEW size \in Nat, NEW raw, Sized(raw, n, size),
         NEW i \in 1..(n + 1), NEW words \in Seq(Word), Len(words) = size
  PROVE  /\ Sized(Splice(raw, size, i, words), n + 1, size)
         /\ \A k \in 1..(n + 1) : Slice(Splice(raw, size, i, words), size, k) =
              IF k < i THEN Slice(raw, size, k) ELSE IF k = i THEN words ELSE Slice(raw, size, k - 1)
<1> DEFINE a == Base(size, i)
           c == Splice(raw, size, i, words)
<1>1. i \in Nat \ {0} /\ n + 1 \in Nat \ {0} /\ i <= n + 1 /\ n + 1 \in Nat  BY SMT
<1>2. raw \in Seq(Word) /\ Len(raw) = Base(size, n + 1) /\ Len(raw) \in Nat  BY SizedBase
<1>3. a \in 0..Len(raw) /\ a \in Nat
  <2>1. a \in Nat /\ a <= Len(raw)  BY <1>1, <1>2, BaseFacts, BaseGrows
  <2>2. QED  BY <1>2, <2>1, SMT
<1>4. c = SubSeq(raw, 1, a) \o words \o SubSeq(raw, a + 1, Len(raw))  BY DEF Splice, Base
<1> HIDE DEF c
<1>5. /\ c \in Seq(Word)
      /\ Len(c) = Len(raw) + size
      /\ \A k \in 1..(Len(raw) + size) :
           c[k] = IF k <= a THEN raw[k] ELSE IF k <= a + size THEN words[k - a] ELSE raw[k - size]
  <2> HIDE DEF a
  <2>1. QED  BY <1>2, <1>3, <1>4, PutIn
<1>6. Sized(c, n + 1, size)
  <2>1. Base(size, n + 1) = n * size  BY SizedBase, <1>2 DEF Sized
  <2>2. (n + 1) * size = n * size + size  BY Product
  <2>3. QED  BY <1>2, <1>5, <2>1, <2>2 DEF Sized
<1>7. ASSUME NEW k \in 1..(n + 1)
      PROVE  Slice(c, size, k) =
               IF k < i THEN Slice(raw, size, k) ELSE IF k = i THEN words ELSE Slice(raw, size, k - 1)
  <2> DEFINE p == Base(size, k)
  <2>1. k \in Nat \ {0} /\ k <= n + 1 /\ k + 1 \in Nat \ {0} /\ p \in Nat /\ Base(size, k + 1) = p + size
    <3>1. k \in Nat \ {0} /\ k <= n + 1 /\ k + 1 \in Nat \ {0}  BY SMT
    <3>2. QED  BY <3>1, BaseFacts
  <2>2. \A m \in 1..size : p + m \in 1..(Len(raw) + size)
    <3>1. p <= Len(raw)  BY <1>1, <1>2, <2>1, BaseGrows
    <3> DEFINE r == Len(raw)
    <3>2. r \in Nat /\ p \in Nat /\ p <= r  BY <1>2, <2>1, <3>1
    <3> HIDE DEF p, r
    <3>3. \A m \in 1..size : p + m \in 1..(r + size)  BY <3>2, SMT
    <3>4. QED  BY <3>3 DEF r
  <2>3. CASE k < i
    <3>1. k \in 1..n /\ k + 1 <= i  BY <1>1, <2>3, SMT
    <3>2. p + size <= a  BY <1>1, <2>1, <3>1, BaseGrows
    <3>3. ASSUME NEW m \in 1..size PROVE c[p + m] = Slice(raw, size, k)[m]
      <4>1. p + m <= a  BY <1>3, <2>1, <3>2, SMT
      <4>2. c[p + m] = raw[p + m]  BY <1>5, <2>2, <4>1
      <4>3. QED  BY <3>1, <4>2, SliceFacts
    <3>4. Slice(raw, size, k) \in Seq(Word) /\ Len(Slice(raw, size, k)) = size
      BY <3>1, SliceFacts
    <3>5. Slice(c, size, k) = Slice(raw, size, k)
      BY <1>1, <1>6, <3>3, <3>4, SliceIs
    <3>6. QED  BY <2>3, <3>5
  <2>4. CASE k = i
    <3>0. p = a  BY <2>4
    <3>1. ASSUME NEW m \in 1..size PROVE c[p + m] = words[m]
      <4>1. PICK j : j = p + m  OBVIOUS
      <4>2. ~(j <= a) /\ j <= a + size /\ j - a = m
        <5>1. j = a + m /\ a \in Nat  BY <1>3, <3>0, <4>1
        <5> HIDE DEF p, a
        <5>2. QED  BY <5>1, SMT
      <4>3. j \in 1..(Len(raw) + size)  BY <2>2, <4>1
      <4>4. c[j] = IF j <= a THEN raw[j] ELSE IF j <= a + size THEN words[j - a] ELSE raw[j - size]
        BY <1>5, <4>3
      <4>5. c[j] = words[m]  BY <4>2, <4>4
      <4>6. QED  BY <4>1, <4>5
    <3>2. Slice(c, size, k) = words  BY <1>1, <1>6, <3>1, SliceIs
    <3>3. QED  BY <2>4, <3>2
  <2>5. CASE i < k
    <3>1. k - 1 \in 1..n /\ k - 1 \in Nat \ {0} /\ (k - 1) + 1 = k /\ i <= k - 1 /\ ~(k < i) /\ k # i
      BY <1>1, <2>5, SMT
    <3>2. p = Base(size, k - 1) + size /\ Base(size, k - 1) \in Nat /\ a <= Base(size, k - 1)
      <4>1. Base(size, k - 1) \in Nat /\ Base(size, (k - 1) + 1) = Base(size, k - 1) + size
        BY <3>1, BaseFacts
      <4>2. a <= Base(size, k - 1)  BY <1>1, <3>1, BaseGrows
      <4>3. Base(size, (k - 1) + 1) = p  BY <3>1
      <4> HIDE DEF p
      <4>4. QED  BY <4>1, <4>2, <4>3
    <3>3. ASSUME NEW m \in 1..size PROVE c[p + m] = Slice(raw, size, k - 1)[m]
      <4> DEFINE q == Base(size, k - 1)
      <4>1. PICK j : j = p + m  OBVIOUS
      <4>2. ~(j <= a) /\ ~(j <= a + size) /\ j - size = q + m
        <5>1. a \in Nat /\ q \in Nat /\ j = q + size + m /\ a <= q  BY <1>3, <3>2, <4>1
        <5> HIDE DEF a, q
        <5>2. QED  BY <5>1, SMT
      <4>3. j \in 1..(Len(raw) + size)  BY <2>2, <4>1
      <4>4. c[j] = IF j <= a THEN raw[j] ELSE IF j <= a + size THEN words[j - a] ELSE raw[j - size]
        BY <1>5, <4>3
      <4>5. Slice(raw, size, k - 1)[m] = raw[q + m]  BY <3>1, SliceFacts
      <4>6. c[j] = raw[q + m]  BY <4>2, <4>4
      <4>7. QED  BY <4>1, <4>5, <4>6
    <3>4. Slice(raw, size, k - 1) \in Seq(Word) /\ Len(Slice(raw, size, k - 1)) = size
      BY <3>1, SliceFacts
    <3> DEFINE w == Slice(raw, size, k - 1)
    <3>5. w \in Seq(Word) /\ Len(w) = size /\ \A m \in 1..size : c[Base(size, k) + m] = w[m]
      BY <3>3, <3>4
    <3> HIDE DEF w
    <3>6. Slice(c, size, k) = w  BY <1>1, <1>6, <3>5, SliceIs
    <3>7. QED  BY <3>1, <3>6 DEF w
  <2>6. k < i \/ k = i \/ i < k  BY <1>1, <2>1, SMT
  <2>7. QED  BY <2>3, <2>4, <2>5, <2>6
<1>8. QED  BY <1>6, <1>7 DEF c

(* Vec::drain takes a whole element out.                                   *)
LEMMA DrainFacts ==
  ASSUME NEW n \in Nat, NEW size \in Nat, NEW raw, Sized(raw, n, size), NEW i \in 1..n
  PROVE  /\ Sized(Drain(raw, size, i), n - 1, size)
         /\ \A k \in 1..(n - 1) : Slice(Drain(raw, size, i), size, k) =
              IF k < i THEN Slice(raw, size, k) ELSE Slice(raw, size, k + 1)
<1> DEFINE a == Base(size, i)
           e == Base(size, i + 1)
           c == Drain(raw, size, i)
<1>1. i \in Nat \ {0} /\ i + 1 \in Nat \ {0} /\ n + 1 \in Nat \ {0} /\ i + 1 <= n + 1
      /\ n - 1 \in Nat /\ (n - 1) + 1 = n
  BY SMT
<1>2. raw \in Seq(Word) /\ Len(raw) = Base(size, n + 1) /\ Len(raw) \in Nat  BY SizedBase
<1>3. a \in Nat /\ e = a + size /\ e = i * size  BY <1>1, BaseFacts
<1>4. e \in 0..Len(raw) /\ a \in 0..e /\ e - a = size
  <2>1. e <= Len(raw)  BY <1>1, <1>2, BaseGrows
  <2> HIDE DEF a, e
  <2>2. QED  BY <1>2, <1>3, <2>1, SMT
<1>5. c = SubSeq(raw, 1, a) \o SubSeq(raw, e + 1, Len(raw))  BY <1>3 DEF Drain, Base
<1> HIDE DEF c
<1>6. /\ c \in Seq(Word) /\ Len(c) = Len(raw) - size
      /\ \A k \in 1..(Len(raw) - size) : c[k] = IF k <= a THEN raw[k] ELSE raw[k + size]
  <2> HIDE DEF a, e
  <2>1. QED  BY <1>2, <1>4, <1>5, TakeOut
<1>7. Sized(c, n - 1, size)
  <2>1. n * size = (n - 1) * size + size  BY <1>1, Product
  <2>2. (n - 1) * size \in Nat  BY <1>1, Product
  <2>3. Len(c) = (n - 1) * size + size - size  BY <1>6, <2>1 DEF Sized
  <2>4. Len(c) = (n - 1) * size
    <3> DEFINE x == (n - 1) * size
    <3>1. x \in Nat /\ Len(c) = x + size - size  BY <2>2, <2>3
    <3> HIDE DEF x
    <3>2. Len(c) = x  BY <3>1, SMT
    <3>3. QED  BY <3>2 DEF x
  <2>5. QED  BY <1>6, <2>4 DEF Sized
<1>8. ASSUME NEW k \in 1..(n - 1)
      PROVE  Slice(c, size, k) = IF k < i THEN Slice(raw, size, k) ELSE Slice(raw, size, k + 1)
  <2> DEFINE p == Base(size, k)
  <2>1. k \in 1..n /\ k + 1 \in 1..n /\ k \in Nat \ {0} /\ k + 1 \in Nat \ {0}  BY SMT
  <2>2. p \in Nat /\ Base(size, k + 1) = p + size  BY <2>1, BaseFacts
  <2>3. ASSUME NEW m \in 1..size PROVE p + m \in 1..(Len(raw) - size)
    <3>1. p + m \in 1..Len(c)  BY <1>1, <1>7, SliceFacts
    <3>2. QED  BY <1>6, <3>1
  <2>4. CASE k < i
    <3>1. k + 1 <= i  BY <1>1, <2>4, SMT
    <3>2. p + size <= a  BY <1>1, <2>1, <2>2, <3>1, BaseGrows
    <3>3. ASSUME NEW m \in 1..size PROVE c[p + m] = Slice(raw, size, k)[m]
      <4>1. p + m <= a  BY <1>3, <2>2, <3>2, SMT
      <4>2. c[p + m] = raw[p + m]  BY <1>6, <2>3, <4>1
      <4>3. QED  BY <2>1, <4>2, SliceFacts
    <3>4. Slice(raw, size, k) \in Seq(Word) /\ Len(Slice(raw, size, k)) = size
      BY <2>1, SliceFacts
    <3>5. Slice(c, size, k) = Slice(raw, size, k)
      BY <1>1, <1>7, <3>3, <3>4, SliceIs
    <3>6. QED  BY <2>4, <3>5
  <2>5. CASE ~(k < i)
    <3>1. i <= k  BY <1>1, <2>5, SMT
    <3>2. a <= p  BY <1>1, <2>1, <3>1, BaseGrows
    <3>3. ASSUME NEW m \in 1..size PROVE c[p + m] = Slice(raw, size, k + 1)[m]
      <4>1. ~(p + m <= a) /\ p + m + size = Base(size, k + 1) + m
        <5> DEFINE q == Base(size, k + 1)
        <5>1. a \in Nat /\ p \in Nat /\ q = p + size /\ a <= p  BY <1>3, <2>2, <3>2
        <5> HIDE DEF p, a, q
        <5>2. ~(p + m <= a) /\ p + m + size = q + m  BY <5>1, SMT
        <5>3. QED  BY <5>2 DEF q
      <4>2. c[p + m] = raw[p + m + size]  BY <1>6, <2>3, <4>1
      <4>3. Slice(raw, size, k + 1)[m] = raw[Base(size, k + 1) + m]  BY <2>1, SliceFacts
      <4>4. QED  BY <4>1, <4>2, <4>3
    <3>4. Slice(raw, size, k + 1) \in Seq(Word) /\ Len(Slice(raw, size, k + 1)) = size
      BY <2>1, SliceFacts
    <3>5. Slice(c, size, k) = Slice(raw, size, k + 1)
      BY <1>1, <1>7, <3>3, <3>4, SliceIs
    <3>6. QED  BY <2>5, <3>5
  <2>6. QED  BY <2>4, <2>5
<1>9. QED  BY <1>7, <1>8 DEF c

(* Every place of the buffer is in some element.                           *)
LEMMA InSomeElement ==
  ASSUME NEW n \in Nat, NEW size \in Nat \ {0}, NEW x \in 1..(n * size)
  PROVE  \E k \in 1..n, m \in 1..size : x = Base(size, k) + m
<1> DEFINE q == (x - 1) \div size
           r == (x - 1) % size
<1>1. q \in Nat /\ r \in 0..(size - 1) /\ x - 1 = q * size + r  BY SMT
<1> HIDE DEF q, r
<1>2. q < n
  <2>1. CASE n <= q
    <3>1. n * size <= q * size  BY <1>1, <2>1, ProductGrows
    <3> DEFINE y == n * size
               z == q * size
    <3>2. y \in Nat /\ z \in Nat /\ y <= z /\ x \in 1..y /\ x - 1 = z + r
      BY <1>1, <3>1, Product
    <3> HIDE DEF y, z
    <3>3. FALSE  BY <1>1, <3>2, SMT
    <3>4. QED  BY <3>3
  <2>2. QED  BY <1>1, <2>1, SMT
<1>3. q + 1 \in 1..n /\ r + 1 \in 1..size /\ (q + 1) - 1 = q  BY <1>1, <1>2, SMT
<1>4. x = Base(size, q + 1) + (r + 1)
  <2> DEFINE z == q * size
  <2>1. z \in Nat /\ x - 1 = z + r /\ Base(size, q + 1) = z  BY <1>1, <1>3, Product DEF Base
  <2> HIDE DEF z
  <2>2. x = z + (r + 1)  BY <1>1, <2>1, SMT
  <2>3. QED  BY <2>1, <2>2
<1>5. QED  BY <1>3, <1>4

(* swap_elements exchanges two regions and leaves the others.              *)
LEMMA ExchangeFacts ==
  ASSUME NEW n \in Nat, NEW size \in Nat \ {0}, NEW raw, Sized(raw, n, size),
         NEW i \in 1..n, NEW j \in 1..n
  PROVE  /\ Sized(Exchange(raw, size, i, j), n, size)
         /\ \A k \in 1..n : Slice(Exchange(raw, size, i, j), size, k) =
              Slice(raw, size, IF k = i THEN j ELSE IF k = j THEN i ELSE k)
<1> DEFINE other(k) == IF k = i THEN j ELSE IF k = j THEN i ELSE k
           c == Exchange(raw, size, i, j)
           at(x) == (x - 1) \div size + 1
<1>1. c = [x \in 1..Len(raw) |-> CASE at(x) = i -> raw[x + Base(size, j) - Base(size, i)]
                                   [] at(x) = j -> raw[x + Base(size, i) - Base(size, j)]
                                   [] OTHER     -> raw[x]]
  BY DEF Exchange, Base
<1>2. raw \in Seq(Word) /\ Len(raw) = n * size /\ Len(raw) \in Nat  BY LenProperties DEF Sized
<1>3. Base(size, i) \in Nat /\ Base(size, j) \in Nat
  <2>1. i \in Nat \ {0} /\ j \in Nat \ {0} /\ size \in Nat  BY SMT
  <2>2. QED  BY <2>1, BaseFacts
<1> HIDE DEF c
<1>4. ASSUME NEW k \in 1..n, NEW m \in 1..size
      PROVE  /\ Base(size, k) + m \in 1..Len(raw)
             /\ c[Base(size, k) + m] = raw[Base(size, other(k)) + m]
             /\ raw[Base(size, other(k)) + m] \in Word
  <2> DEFINE p == Base(size, k)
  <2>1. p \in Nat /\ p + m \in 1..Len(raw)
    <3>1. k \in Nat \ {0}  BY SMT
    <3>2. QED  BY <3>1, BaseFacts, SliceFacts
  <2>2. PICK x : x = p + m  OBVIOUS
  <2>3. (x - 1) \div size + 1 = k
    <3> DEFINE h == k - 1
               r == m - 1
    <3>1. h \in Nat /\ r \in 0..(size - 1) /\ h + 1 = k  BY SMT
    <3>2. h * size \in Nat  BY <3>1, Product
    <3>3. x - 1 = h * size + r
      <4> DEFINE z == h * size
      <4>1. z \in Nat /\ x = z + m  BY <2>2, <3>2 DEF Base
      <4> HIDE DEF z
      <4>2. x - 1 = z + (m - 1)  BY <4>1, SMT
      <4>3. QED  BY <4>2 DEF z
    <3> HIDE DEF h, r
    <3>4. (h * size + r) \div size = h  BY <3>1, Quotient
    <3>5. QED  BY <3>1, <3>3, <3>4
  <2>4. x \in 1..Len(raw) /\ at(x) = k  BY <2>1, <2>2, <2>3
  <2> HIDE DEF at
  <2>5. c[x] = CASE k = i -> raw[x + Base(size, j) - Base(size, i)]
                 [] k = j -> raw[x + Base(size, i) - Base(size, j)]
                 [] OTHER -> raw[x]
    BY <1>1, <2>4
  <2>6. c[x] = raw[Base(size, other(k)) + m]
    <3>1. CASE k = i
      <4> DEFINE y == Base(size, j)
                 z == Base(size, i)
      <4>1. y \in Nat /\ z \in Nat /\ x = z + m  BY <1>3, <2>2, <3>1
      <4> HIDE DEF y, z
      <4>2. x + y - z = y + m  BY <4>1, SMT
      <4>3. c[x] = raw[x + y - z]  BY <2>5, <3>1 DEF y, z
      <4>4. c[x] = raw[y + m]  BY <4>2, <4>3
      <4>5. QED  BY <3>1, <4>4 DEF y
    <3>2. CASE k # i /\ k = j
      <4> DEFINE y == Base(size, i)
                 z == Base(size, j)
      <4>1. y \in Nat /\ z \in Nat /\ x = z + m  BY <1>3, <2>2, <3>2
      <4> HIDE DEF y, z
      <4>2. x + y - z = y + m  BY <4>1, SMT
      <4>3. c[x] = raw[x + y - z]  BY <2>5, <3>2 DEF y, z
      <4>4. c[x] = raw[y + m]  BY <4>2, <4>3
      <4>5. QED  BY <3>2, <4>4 DEF y
    <3>3. CASE k # i /\ k # j
      <4>1. c[x] = raw[x]  BY <2>5, <3>3
      <4>2. QED  BY <2>2, <3>3, <4>1
    <3>4. QED  BY <3>1, <3>2, <3>3
  <2>7. raw[Base(size, other(k)) + m] \in Word
    <3>1. other(k) \in 1..n  OBVIOUS
    <3> HIDE DEF other
    <3>2. Base(size, other(k)) + m \in 1..Len(raw)  BY <3>1, SliceFacts
    <3>3. QED  BY <1>2, <3>2, ElementOfSeq
  <2>8. QED  BY <2>1, <2>2, <2>6, <2>7
<1>5. \A x \in 1..Len(raw) : c[x] \in Word
  <2> TAKE x \in 1..Len(raw)
  <2>0. x \in 1..(n * size)  BY <1>2
  <2>1. PICK k \in 1..n, m \in 1..size : x = Base(size, k) + m  BY <2>0, InSomeElement
  <2> HIDE DEF other
  <2>2. QED  BY <1>4, <2>1
<1>6. Sized(c, n, size)
  <2>1. DOMAIN c = 1..Len(raw) /\ c = [x \in 1..Len(raw) |-> c[x]]  BY <1>1
  <2>2. c \in [1..Len(raw) -> Word]  BY <1>5, <2>1
  <2>3. c \in Seq(Word) /\ Len(c) = Len(raw)  BY <1>2, <2>1, <2>2, SeqDef, LenProperties
  <2>4. QED  BY <1>2, <2>3 DEF Sized
<1>7. ASSUME NEW k \in 1..n PROVE Slice(c, size, k) = Slice(raw, size, other(k))
  <2>1. other(k) \in 1..n  OBVIOUS
  <2> DEFINE w == Slice(raw, size, other(k))
  <2>2. ASSUME NEW m \in 1..size PROVE c[Base(size, k) + m] = w[m]
    <3> HIDE DEF other
    <3>1. c[Base(size, k) + m] = raw[Base(size, other(k)) + m]  BY <1>4
    <3>2. w[m] = raw[Base(size, other(k)) + m]  BY <2>1, SliceFacts
    <3>3. QED  BY <3>1, <3>2
  <2> HIDE DEF other
  <2>3. w \in Seq(Word) /\ Len(w) = size  BY <2>1, SliceFacts
  <2> HIDE DEF w
  <2>4. Slice(c, size, k) = w  BY <1>6, <2>2, <2>3, SliceIs
  <2>5. QED  BY <2>4 DEF w
<1>8. QED  BY <1>6, <1>7 DEF c
-----------------------------------------------------------------------------
(* What an edit of buffer and trees does to the pairs of them.             *)
LEMMA PairsInsert ==
  ASSUME NEW size \in Nat, NEW els \in Seq(TreeType), NEW raw, Sized(raw, Len(els), size),
         NEW i \in 1..(Len(els) + 1), NEW words \in Seq(Word), Len(words) = size, NEW t \in TreeType
  PROVE  Pairs(Splice(raw, size, i, words), InsertAt(els, i, t), size)
           = InsertAt(Pairs(raw, els, size), i, Held(words, t))
<1> DEFINE n == Len(els)
           P == Pairs(raw, els, size)
           e == Held(words, t)
           c == Splice(raw, size, i, words)
           ts == InsertAt(els, i, t)
           Q == Pairs(c, ts, size)
<1>1. n \in Nat /\ n + 1 \in Nat  BY LenProperties
<1>2. e \in Element  BY DEF Held, Element
<1>3. /\ ts \in Seq(TreeType) /\ Len(ts) = n + 1
      /\ \A k \in 1..(n + 1) : ts[k] = IF k < i THEN els[k] ELSE IF k = i THEN t ELSE els[k - 1]
  BY InsertFacts
<1>4. /\ Sized(c, n + 1, size)
      /\ \A k \in 1..(n + 1) : Slice(c, size, k) =
           IF k < i THEN Slice(raw, size, k) ELSE IF k = i THEN words ELSE Slice(raw, size, k - 1)
  BY <1>1, SpliceFacts
<1>5. P \in Seq(Element) /\ Len(P) = n /\ \A k \in 1..n : P[k] = Held(Slice(raw, size, k), els[k])
  BY PairsType
<1> HIDE DEF c, ts
<1>6. /\ Q \in Seq(Element) /\ Len(Q) = n + 1
      /\ \A k \in 1..(n + 1) : Q[k] = Held(Slice(c, size, k), ts[k])
  BY <1>3, <1>4, PairsType
<1> HIDE DEF P, e, Q
<1>7. /\ InsertAt(P, i, e) \in Seq(Element) /\ Len(InsertAt(P, i, e)) = n + 1
      /\ \A k \in 1..(n + 1) : InsertAt(P, i, e)[k] = IF k < i THEN P[k] ELSE IF k = i THEN e ELSE P[k - 1]
  BY <1>2, <1>5, InsertFacts
<1>8. ASSUME NEW k \in 1..(n + 1) PROVE Q[k] = InsertAt(P, i, e)[k]
  <2>1. CASE k < i
    <3>1. k \in 1..n  BY <1>1, <2>1, SMT
    <3>2. QED  BY <1>3, <1>4, <1>5, <1>6, <1>7, <2>1, <3>1
  <2>2. CASE k = i
    <3>1. ~(k < i)  BY <1>1, <2>2, SMT
    <3>2. QED  BY <1>3, <1>4, <1>6, <1>7, <2>2, <3>1 DEF e
  <2>3. CASE ~(k < i) /\ k # i
    <3>1. k - 1 \in 1..n  BY <1>1, <2>3, SMT
    <3>2. QED  BY <1>3, <1>4, <1>5, <1>6, <1>7, <2>3, <3>1
  <2>4. QED  BY <2>1, <2>2, <2>3
<1>9. Q = InsertAt(P, i, e)  BY <1>6, <1>7, <1>8, SeqEqual
<1>10. QED  BY <1>9 DEF Q, P, e, c, ts, n

(* Draining a region and dropping its tree removes one element.            *)
LEMMA PairsRemove ==
  ASSUME NEW size \in Nat, NEW els \in Seq(TreeType), NEW raw, Sized(raw, Len(els), size),
         NEW i \in 1..Len(els)
  PROVE  Pairs(Drain(raw, size, i), RemoveAt(els, i), size) = RemoveAt(Pairs(raw, els, size), i)
<1> DEFINE n == Len(els)
           P == Pairs(raw, els, size)
           c == Drain(raw, size, i)
           ts == RemoveAt(els, i)
           Q == Pairs(c, ts, size)
<1>1. n \in Nat /\ n - 1 \in Nat /\ \A k \in 1..(n - 1) : k \in 1..n /\ k + 1 \in 1..n
  <2>1. n \in Nat /\ i \in 1..n  BY LenProperties
  <2> HIDE DEF n
  <2>2. QED  BY <2>1, SMT
<1>3. /\ ts \in Seq(TreeType) /\ Len(ts) = n - 1
      /\ \A k \in 1..(n - 1) : ts[k] = IF k < i THEN els[k] ELSE els[k + 1]
  BY RemoveFacts
<1>4. /\ Sized(c, n - 1, size)
      /\ \A k \in 1..(n - 1) : Slice(c, size, k) =
           IF k < i THEN Slice(raw, size, k) ELSE Slice(raw, size, k + 1)
  BY <1>1, DrainFacts
<1>5. P \in Seq(Element) /\ Len(P) = n /\ \A k \in 1..n : P[k] = Held(Slice(raw, size, k), els[k])
  BY PairsType
<1> HIDE DEF c, ts
<1>6. /\ Q \in Seq(Element) /\ Len(Q) = n - 1
      /\ \A k \in 1..(n - 1) : Q[k] = Held(Slice(c, size, k), ts[k])
  BY <1>3, <1>4, PairsType
<1> HIDE DEF P, Q
<1>7. /\ RemoveAt(P, i) \in Seq(Element) /\ Len(RemoveAt(P, i)) = n - 1
      /\ \A k \in 1..(n - 1) : RemoveAt(P, i)[k] = IF k < i THEN P[k] ELSE P[k + 1]
  BY <1>5, RemoveFacts
<1>8. ASSUME NEW k \in 1..(n - 1) PROVE Q[k] = RemoveAt(P, i)[k]
  <2>1. k \in 1..n /\ k + 1 \in 1..n  BY <1>1
  <2>2. CASE k < i  BY <1>3, <1>4, <1>5, <1>6, <1>7, <2>1, <2>2
  <2>3. CASE ~(k < i)  BY <1>3, <1>4, <1>5, <1>6, <1>7, <2>1, <2>3
  <2>4. QED  BY <2>2, <2>3
<1>9. Q = RemoveAt(P, i)  BY <1>6, <1>7, <1>8, SeqEqual
<1>10. QED  BY <1>9 DEF Q, P, c, ts, n

Swapped(s, i, j) == [s EXCEPT ![i] = s[j], ![j] = s[i]]

(* Two entries of a sequence exchanged, index by index.                    *)
LEMMA SwapFacts ==
  ASSUME NEW T, NEW s \in Seq(T), NEW i \in 1..Len(s), NEW j \in 1..Len(s)
  PROVE  /\ Swapped(s, i, j) \in Seq(T)
         /\ Len(Swapped(s, i, j)) = Len(s)
         /\ \A k \in 1..Len(s) : Swapped(s, i, j)[k] = s[IF k = i THEN j ELSE IF k = j THEN i ELSE k]
<1> DEFINE d == [s EXCEPT ![i] = s[j], ![j] = s[i]]
           n == Len(s)
<1>1. n \in Nat /\ DOMAIN s = 1..n /\ s \in [1..n -> T]  BY LenProperties
<1>2. s[i] \in T /\ s[j] \in T  BY ElementOfSeq
<1> HIDE DEF n
<1>3. d \in [1..n -> T]  BY <1>1, <1>2
<1>4. d \in Seq(T) /\ Len(d) = n
  <2> HIDE DEF d
  <2>1. d \in Seq(T)  BY <1>1, <1>3, SeqDef
  <2>2. DOMAIN d = 1..n  BY <1>3
  <2>3. QED  BY <1>1, <2>1, <2>2, LenProperties
<1>5. \A k \in 1..n : d[k] = s[IF k = i THEN j ELSE IF k = j THEN i ELSE k]
  BY <1>1
<1>6. QED  BY <1>4, <1>5 DEF n, Swapped

(* Exchanging two regions and two trees exchanges two elements.            *)
LEMMA PairsExchange ==
  ASSUME NEW size \in Nat \ {0}, NEW els \in Seq(TreeType), NEW raw, Sized(raw, Len(els), size),
         NEW i \in 1..Len(els), NEW j \in 1..Len(els)
  PROVE  Pairs(Exchange(raw, size, i, j), Swapped(els, i, j), size) = Swapped(Pairs(raw, els, size), i, j)
<1> DEFINE n == Len(els)
           at(k) == IF k = i THEN j ELSE IF k = j THEN i ELSE k
           P == Pairs(raw, els, size)
           D == Swapped(P, i, j)
           c == Exchange(raw, size, i, j)
           ts == Swapped(els, i, j)
           Q == Pairs(c, ts, size)
<1>1. n \in Nat /\ size \in Nat  BY LenProperties
<1>2. \A k \in 1..n : at(k) \in 1..n  OBVIOUS
<1>3. ts \in Seq(TreeType) /\ Len(ts) = n /\ \A k \in 1..n : ts[k] = els[at(k)]  BY SwapFacts
<1>4. Sized(c, n, size) /\ \A k \in 1..n : Slice(c, size, k) = Slice(raw, size, at(k))
  BY <1>1, ExchangeFacts
<1>5. P \in Seq(Element) /\ Len(P) = n /\ \A k \in 1..n : P[k] = Held(Slice(raw, size, k), els[k])
  BY <1>1, PairsType
<1> HIDE DEF c, ts
<1>6. Q \in Seq(Element) /\ Len(Q) = n /\ \A k \in 1..n : Q[k] = Held(Slice(c, size, k), ts[k])
  BY <1>1, <1>3, <1>4, PairsType
<1> HIDE DEF P, Q
<1>7. D \in Seq(Element) /\ Len(D) = n /\ \A k \in 1..n : D[k] = P[at(k)]  BY <1>5, SwapFacts
<1> HIDE DEF D
<1>8. ASSUME NEW k \in 1..n PROVE Q[k] = D[k]
  <2>1. PICK m \in 1..n : m = at(k)  BY <1>2
  <2>2. ts[k] = els[m] /\ Slice(c, size, k) = Slice(raw, size, m) /\ D[k] = P[m]
    BY <1>3, <1>4, <1>7, <2>1
  <2>3. QED  BY <1>5, <1>6, <2>2
<1>9. Q = D  BY <1>6, <1>7, <1>8, SeqEqual
<1>10. QED  BY <1>9 DEF Q, D, P, c, ts, n
-----------------------------------------------------------------------------
(* The inductive invariant: every buffer holds the elements, each of a     *)
(* width that some layout has or that was read.                            *)
Block == [raw : Seq(Word), elements : Seq(TreeType), header : Seq(Word), dirty : BOOLEAN]

SizeIn(x, l) ==
  IF x.elements # <<>> /\ x.raw # <<>>
  THEN Len(x.raw) \div Len(x.elements) ELSE l.width[l.base]
HeldIn(x, l) == Pairs(x.raw, x.elements, SizeIn(x, l))

Whole(x, l) ==
  /\ x \in Block
  /\ Len(x.header) \in {0, 3, 4}
  /\ SizeIn(x, l) \in Widths
  /\ Sized(x.raw, Len(x.elements), SizeIn(x, l))

BlockInv ==
  /\ layout \in Layouts
  /\ DOMAIN blocks = BlockName /\ blocks = [b \in BlockName |-> blocks[b]]
  /\ \A b \in BlockName : Whole(blocks[b], layout)
  /\ clip = <<>> \/ \E e \in Element : clip = <<e>>

(* The width of an empty block is one of the widths.                       *)
LEMMA BaseWidth ==
  ASSUME NEW l \in Layouts
  PROVE  l.width[l.base] \in Widths /\ l.base \in Variant
<1>1. l.base \in DOMAIN l.width  BY BlockAssumption DEF Layout
<1>2. l.width[l.base] \in Range(l.width)  BY <1>1 DEF Range
<1>3. QED  BY <1>1, <1>2 DEF Widths, Variant

(* Whole elements of one width make a whole block.                         *)
LEMMA MakeWhole ==
  ASSUME NEW l \in Layouts, NEW x \in Block, Len(x.header) \in {0, 3, 4},
         NEW size \in Widths, Sized(x.raw, Len(x.elements), size)
  PROVE  Whole(x, l) /\ HeldIn(x, l) = Pairs(x.raw, x.elements, size)
<1> DEFINE raw == x.raw
           els == x.elements
           w == SizeIn(x, l)
<1>1. els \in Seq(TreeType)  BY DEF Block
<1>2. size \in Nat \ {0} /\ size \in Nat  BY BlockAssumption
<1>3. ASSUME els = <<>>
      PROVE  w \in Widths /\ Sized(raw, Len(els), w) /\ Pairs(raw, els, w) = Pairs(raw, els, size)
  <2>1. Len(els) = 0  BY <1>3
  <2>2. w = l.width[l.base]  BY <1>3 DEF SizeIn
  <2>3. w \in Widths /\ w \in Nat  BY <2>2, BaseWidth, BlockAssumption
  <2> HIDE DEF w
  <2>4. Len(raw) = 0  BY <1>2, <2>1, SMT DEF Sized
  <2>5. Sized(raw, Len(els), w)  BY <2>1, <2>3, <2>4, SMT DEF Sized
  <2>6. Pairs(raw, els, w) = Pairs(raw, els, size)  BY <2>1 DEF Pairs
  <2>7. QED  BY <2>3, <2>5, <2>6
<1>4. ASSUME els # <<>>
      PROVE  w \in Widths /\ Sized(raw, Len(els), w) /\ Pairs(raw, els, w) = Pairs(raw, els, size)
  <2>1. Len(els) \in Nat \ {0}  BY <1>1, <1>4, EmptySeq, LenProperties
  <2>2. Len(raw) = Len(els) * size  BY DEF Sized
  <2>3. raw # <<>>
    <3>1. Base(size, Len(els)) \in Nat /\ Len(raw) = Base(size, Len(els)) + size
      BY <1>2, <2>1, <2>2, BaseFacts
    <3> DEFINE y == Base(size, Len(els))
    <3>2. y \in Nat /\ Len(raw) = y + size  BY <3>1
    <3> HIDE DEF y
    <3>3. Len(raw) # 0  BY <1>2, <3>2, SMT
    <3>4. QED  BY <3>3
  <2>4. w = (Len(els) * size) \div Len(els)  BY <1>4, <2>2, <2>3 DEF SizeIn
  <2>5. w = size  BY <1>2, <2>1, <2>4, QuotientOf
  <2>6. QED  BY <2>5
<1>5. w \in Widths /\ Sized(raw, Len(els), w) /\ Pairs(raw, els, w) = Pairs(raw, els, size)
  BY <1>3, <1>4
<1>6. QED  BY <1>5 DEF Whole, HeldIn

(* The refinement mapping, block by block; and after a step.               *)
LEMMA ContentIs == Content = [b \in BlockName |-> HeldIn(blocks[b], layout)]
BY DEF Content, HeldIn, Pairs, Count, ElementRaw, ElementSize, SizeIn

(* The same after a step.                                                  *)
LEMMA ContentWas == Content' = [b \in BlockName |-> HeldIn(blocks'[b], layout')]
BY DEF Content, HeldIn, Pairs, Count, ElementRaw, ElementSize, SizeIn

(* What a block's fields are, and what it holds.                           *)
LEMMA BlockFacts ==
  ASSUME BlockInv, NEW b \in BlockName
  PROVE  /\ blocks[b].raw \in Seq(Word) /\ blocks[b].elements \in Seq(TreeType)
         /\ blocks[b].header \in Seq(Word) /\ Len(blocks[b].header) \in {0, 3, 4}
         /\ blocks[b].dirty \in BOOLEAN
         /\ blocks[b] = BlockData(blocks[b].raw, blocks[b].elements, blocks[b].header, blocks[b].dirty)
         /\ ElementSize(b) \in Widths /\ ElementSize(b) \in Nat \ {0} /\ ElementSize(b) \in Nat
         /\ Sized(blocks[b].raw, Len(blocks[b].elements), ElementSize(b))
         /\ Count(b) = Len(blocks[b].elements) /\ Count(b) \in Nat
         /\ Content[b] = Pairs(blocks[b].raw, blocks[b].elements, ElementSize(b))
         /\ Content[b] \in Seq(Element) /\ Len(Content[b]) = Count(b)
         /\ \A k \in 1..Count(b) : Content[b][k] = Held(ElementRaw(b, k), blocks[b].elements[k])
<1>1. Whole(blocks[b], layout)  BY DEF BlockInv
<1>2. /\ blocks[b].raw \in Seq(Word) /\ blocks[b].elements \in Seq(TreeType)
      /\ blocks[b].header \in Seq(Word) /\ blocks[b].dirty \in BOOLEAN
      /\ blocks[b] = BlockData(blocks[b].raw, blocks[b].elements, blocks[b].header, blocks[b].dirty)
  BY <1>1 DEF Whole, Block, BlockData
<1>3. Count(b) = Len(blocks[b].elements) /\ Count(b) \in Nat  BY <1>2, LenProperties DEF Count
<1>4. ElementSize(b) = SizeIn(blocks[b], layout)  BY DEF ElementSize, SizeIn, Count
<1>5. ElementSize(b) \in Widths /\ ElementSize(b) \in Nat \ {0} /\ ElementSize(b) \in Nat
  BY <1>1, <1>4, BlockAssumption DEF Whole
<1>6. Sized(blocks[b].raw, Len(blocks[b].elements), ElementSize(b))  BY <1>1, <1>4 DEF Whole
<1>7. Content[b] = Pairs(blocks[b].raw, blocks[b].elements, ElementSize(b))
  BY <1>4, ContentIs DEF HeldIn
<1>8. /\ Content[b] \in Seq(Element) /\ Len(Content[b]) = Len(blocks[b].elements)
      /\ \A k \in 1..Len(blocks[b].elements) :
           Content[b][k] = Held(ElementRaw(b, k), blocks[b].elements[k])
  BY <1>2, <1>5, <1>6, <1>7, PairsType DEF ElementRaw
<1>9. QED  BY <1>1, <1>2, <1>3, <1>5, <1>6, <1>7, <1>8 DEF Whole

(* Every edit gives a block whole elements of one width.                   *)
LEMMA KeepsBlock ==
  ASSUME BlockInv, NEW b \in BlockName, NEW x \in Block, Len(x.header) \in {0, 3, 4},
         NEW size \in Widths, Sized(x.raw, Len(x.elements), size),
         blocks' = [blocks EXCEPT ![b] = x], UNCHANGED <<layout, clip>>
  PROVE  BlockInv' /\ Content' = [Content EXCEPT ![b] = Pairs(x.raw, x.elements, size)]
<1>1. layout \in Layouts /\ DOMAIN blocks = BlockName  BY DEF BlockInv
<1>2. Whole(x, layout) /\ HeldIn(x, layout) = Pairs(x.raw, x.elements, size)  BY <1>1, MakeWhole
<1>3. /\ DOMAIN blocks' = BlockName /\ blocks' = [c \in BlockName |-> blocks'[c]]
      /\ blocks'[b] = x /\ \A c \in BlockName \ {b} : blocks'[c] = blocks[c]
  BY <1>1
<1>4. \A c \in BlockName : Whole(blocks'[c], layout)  BY <1>2, <1>3 DEF BlockInv
<1>5. BlockInv'  BY <1>1, <1>3, <1>4 DEF BlockInv
<1>6. Content' = [c \in BlockName |-> HeldIn(blocks'[c], layout)]  BY ContentWas
<1>7. QED  BY <1>2, <1>3, <1>5, <1>6, ContentIs
-----------------------------------------------------------------------------
(* A structural edit leaves a block of whole elements.                     *)
LEMMA Becomes ==
  ASSUME BlockInv, NEW b \in BlockName, NEW raw, NEW els \in Seq(TreeType),
         NEW header \in Seq(Word), Len(header) \in {0, 3, 4},
         NEW size \in Widths, Sized(raw, Len(els), size), Become(b, raw, els, header)
  PROVE  BlockInv' /\ clip' = clip /\ Content' = [Content EXCEPT ![b] = Pairs(raw, els, size)]
<1>1. PICK x : x = BlockData(raw, els, header, TRUE)  OBVIOUS
<1>2. x \in Block /\ x.raw = raw /\ x.elements = els /\ x.header = header
  BY <1>1 DEF BlockData, Block, Sized
<1>3. blocks' = [blocks EXCEPT ![b] = x] /\ UNCHANGED <<layout, clip>>  BY <1>1 DEF Become
<1>4. Len(x.header) \in {0, 3, 4} /\ Sized(x.raw, Len(x.elements), size)  BY <1>2
<1>5. BlockInv' /\ Content' = [Content EXCEPT ![b] = Pairs(x.raw, x.elements, size)]
  BY <1>2, <1>3, <1>4, KeepsBlock
<1>6. QED  BY <1>2, <1>3, <1>5

(* An element put into a block, an edit's or a snapshot's.                 *)
LEMMA PutElement ==
  ASSUME BlockInv, NEW b \in BlockName, NEW i \in 1..(Count(b) + 1),
         NEW words \in Seq(Word), Len(words) = ElementSize(b), NEW t \in TreeType,
         NEW header \in Seq(Word), Len(header) \in {0, 3, 4},
         Become(b, Splice(blocks[b].raw, ElementSize(b), i, words),
                   InsertAt(blocks[b].elements, i, t), header)
  PROVE  /\ BlockInv'
         /\ Content' = [Content EXCEPT ![b] = InsertAt(Content[b], i, Held(words, t))]
         /\ clip' = clip
<1> DEFINE size == ElementSize(b)
           raw == blocks[b].raw
           els == blocks[b].elements
           c == Splice(raw, size, i, words)
           ts == InsertAt(els, i, t)
<1>1. /\ els \in Seq(TreeType) /\ size \in Widths /\ size \in Nat /\ Sized(raw, Len(els), size)
      /\ Len(els) = Count(b) /\ Len(els) \in Nat /\ Content[b] = Pairs(raw, els, size)
  BY BlockFacts
<1>2. Become(b, c, ts, header)  OBVIOUS
<1> HIDE DEF size, raw, els
<1>3. i \in 1..(Len(els) + 1) /\ Len(words) = size  BY <1>1 DEF size
<1>4. ts \in Seq(TreeType) /\ Len(ts) = Len(els) + 1  BY <1>1, <1>3, InsertFacts
<1>5. Sized(c, Len(els) + 1, size)  BY <1>1, <1>3, SpliceFacts
<1>6. Pairs(c, ts, size) = InsertAt(Content[b], i, Held(words, t))  BY <1>1, <1>3, PairsInsert
<1> HIDE DEF c, ts
<1>7. ts \in Seq(TreeType) /\ size \in Widths /\ Sized(c, Len(ts), size)  BY <1>1, <1>4, <1>5
<1>8. BlockInv'  BY <1>2, <1>7, Becomes
<1>9. clip' = clip  BY <1>2, <1>7, Becomes
<1>10. Content' = [Content EXCEPT ![b] = Pairs(c, ts, size)]  BY <1>2, <1>7, Becomes
<1>11. QED  BY <1>6, <1>8, <1>9, <1>10

(* A rearrangement within one block is a step of ElementSeq.               *)
LEMMA Rearranged ==
  ASSUME BlockInv, NEW b \in BlockName, NEW raw, NEW els \in Seq(TreeType),
         Sized(raw, Len(els), ElementSize(b)), NEW s, Pairs(raw, els, ElementSize(b)) = s,
         Become(b, raw, els, blocks[b].header)
  PROVE  BlockInv' /\ Tag!Become(b, s)
<1>1. PICK h : h = blocks[b].header  OBVIOUS
<1>2. PICK size : size = ElementSize(b)  OBVIOUS
<1>3. h \in Seq(Word) /\ Len(h) \in {0, 3, 4} /\ size \in Widths  BY <1>1, <1>2, BlockFacts
<1>4. Become(b, raw, els, h) /\ Sized(raw, Len(els), size) /\ Pairs(raw, els, size) = s  BY <1>1, <1>2
<1>5. BlockInv'  BY <1>3, <1>4, Becomes
<1>6. clip' = clip  BY <1>3, <1>4, Becomes
<1>7. Content' = [Content EXCEPT ![b] = Pairs(raw, els, size)]  BY <1>3, <1>4, Becomes
<1>8. QED  BY <1>4, <1>5, <1>6, <1>7 DEF Tag!Become

(* The operators that ElementSeq sees are the ones of this module.         *)
LEMMA SameInsert == \A s, i, e : Tag!InsertAt(s, i, e) = InsertAt(s, i, e)
BY DEF Tag!InsertAt, InsertAt

(* And they remove an element alike.                                       *)
LEMMA SameRemove == \A s, i : Tag!RemoveAt(s, i) = RemoveAt(s, i)
BY DEF Tag!RemoveAt, RemoveAt

(* The editor's header has a length that readers know.                     *)
LEMMA HeaderFacts ==
  ASSUME BlockInv, NEW b \in BlockName
  PROVE  /\ EnsureH2Header(b, ElementSize(b)) \in Seq(Word)
         /\ Len(EnsureH2Header(b, ElementSize(b))) \in {0, 3, 4}
<1>1. /\ blocks[b].header \in Seq(Word) /\ Len(blocks[b].header) \in {0, 3, 4}
      /\ ElementSize(b) \in Nat
  BY BlockFacts
<1> DEFINE s == ElementSize(b)
<1> HIDE DEF s
<1>2. s \in Nat  BY <1>1 DEF s
<1>3. s % 65536 \in Nat /\ s \div 65536 \in Nat  BY <1>2, SMT
<1>4. U32(s) \in Word  BY <1>3 DEF U32, HalfRange, Word
<1>5. Signature \in Word /\ Zero \in Word  BY DEF Signature, Zero, Word
<1> DEFINE h == <<Signature, Zero, Zero, U32(s)>>
<1>6. h \in Seq(Word) /\ Len(h) = 4
  <2> DEFINE x == U32(s)
             y == Signature
             z == Zero
  <2>1. x \in Word /\ y \in Word /\ z \in Word  BY <1>4, <1>5
  <2> HIDE DEF x, y, z
  <2>2. <<y, z, z, x>> \in Seq(Word) /\ Len(<<y, z, z, x>>) = 4  BY <2>1
  <2>3. QED  BY <2>2 DEF x, y, z
<1> HIDE DEF h
<1>7. EnsureH2Header(b, ElementSize(b)) = blocks[b].header \/ EnsureH2Header(b, ElementSize(b)) = h
  BY DEF EnsureH2Header, h, s
<1>8. QED  BY <1>1, <1>6, <1>7

(* What stands in element i, whatever it is wanted for.                    *)
LEMMA ElementFacts ==
  ASSUME BlockInv, NEW b \in BlockName, NEW i \in 1..Count(b)
  PROVE  /\ ElementRaw(b, i) \in Seq(Word) /\ Len(ElementRaw(b, i)) = ElementSize(b)
         /\ blocks[b].elements[i] \in TreeType
         /\ Content[b][i] = Held(ElementRaw(b, i), blocks[b].elements[i])
         /\ Content[b][i] \in Element
<1>1. /\ blocks[b].elements \in Seq(TreeType) /\ ElementSize(b) \in Nat
      /\ Sized(blocks[b].raw, Len(blocks[b].elements), ElementSize(b))
      /\ Count(b) = Len(blocks[b].elements) /\ Count(b) \in Nat
      /\ Content[b] \in Seq(Element) /\ Len(Content[b]) = Count(b)
      /\ \A k \in 1..Count(b) : Content[b][k] = Held(ElementRaw(b, k), blocks[b].elements[k])
  BY BlockFacts
<1>2. i \in 1..Len(blocks[b].elements)  BY <1>1
<1>3. ElementRaw(b, i) \in Seq(Word) /\ Len(ElementRaw(b, i)) = ElementSize(b)
  BY <1>1, <1>2, SliceFacts DEF ElementRaw
<1>4. blocks[b].elements[i] \in TreeType /\ Content[b][i] \in Element
  BY <1>1, <1>2, ElementOfSeq
<1>5. QED  BY <1>1, <1>3, <1>4

(* insert_element inserts a fresh element, and only that.                  *)
LEMMA InsertStep ==
  ASSUME BlockInv, NEW b \in BlockName, NEW i \in 1..(Count(b) + 1), InsertElement(b, i)
  PROVE  BlockInv' /\ Tag!Next
<1> DEFINE size == ElementSize(b)
           words == [k \in 1..size |-> Zero]
           v == ElementStruct(b)
           t == NewDefault(v)
<1>1. size \in Widths /\ size \in Nat  BY BlockFacts
<1>2. words \in Seq(Word) /\ Len(words) = size
  <2>1. Zero \in Word  BY DEF Zero, Word
  <2> HIDE DEF size
  <2>2. words \in [1..size -> Word]  BY <2>1
  <2> HIDE DEF words
  <2>3. words \in Seq(Word)  BY <1>1, <2>2, SeqDef
  <2>4. DOMAIN words = 1..size  BY <2>2
  <2>5. QED  BY <1>1, <2>3, <2>4, LenProperties
<1>3. v \in Variant
  <2>1. CASE blocks[b].elements = <<>>
    <3>1. layout \in Layouts  BY DEF BlockInv
    <3>2. QED  BY <2>1, <3>1, BaseWidth DEF ElementStruct
  <2>2. CASE blocks[b].elements # <<>>
    <3>1. blocks[b].elements \in Seq(TreeType)  BY BlockFacts
    <3>2. Len(blocks[b].elements) \in Nat \ {0}  BY <2>2, <3>1, EmptySeq, LenProperties
    <3>3. 1 \in 1..Len(blocks[b].elements)  BY <3>2, SMT
    <3>4. blocks[b].elements[1] \in TreeType  BY <3>1, <3>3, ElementOfSeq
    <3>5. QED  BY <2>2, <3>4 DEF ElementStruct, TreeType
  <2>3. QED  BY <2>1, <2>2
<1>4. t \in TreeType
  <2>1. <<<<>>>> \in Seq(Seq(Word))
    <3> DEFINE e == <<>>
    <3>1. e \in Seq(Word)  OBVIOUS
    <3> HIDE DEF e
    <3>2. <<e>> \in Seq(Seq(Word))  BY <3>1
    <3>3. QED  BY <3>2 DEF e
  <2>2. QED  BY <1>3, <2>1 DEF NewDefault, Tree, TreeType
<1>5. Become(b, Splice(blocks[b].raw, size, i, words), InsertAt(blocks[b].elements, i, t),
             EnsureH2Header(b, size))
  BY DEF InsertElement
<1>6. EnsureH2Header(b, size) \in Seq(Word) /\ Len(EnsureH2Header(b, size)) \in {0, 3, 4}
  BY HeaderFacts
<1> HIDE DEF words, t
<1>7. /\ BlockInv' /\ Content' = [Content EXCEPT ![b] = InsertAt(Content[b], i, Held(words, t))]
      /\ clip' = clip
  BY <1>2, <1>4, <1>5, <1>6, PutElement
<1>8. Held(words, t) = Fresh(size, v)  BY DEF words, t, Fresh
<1>9. i \in 1..(Len(Content[b]) + 1)  BY BlockFacts
<1> HIDE DEF size, v
<1>10. Fresh(size, v) \in {Fresh(n, u) : n \in Widths, u \in Variant}  BY <1>1, <1>3
<1>11. Tag!Become(b, Tag!InsertAt(Content[b], i, Fresh(size, v)))
  BY <1>7, <1>8, SameInsert DEF Tag!Become
<1>12. Tag!Put(b)  BY <1>9, <1>10, <1>11 DEF Tag!Put
<1>13. QED  BY <1>7, <1>12 DEF Tag!Next

(* A snapshot goes in only where its words are as many as an element's.    *)
LEMMA PasteStep ==
  ASSUME BlockInv, NEW b \in BlockName, NEW i \in 1..(Count(b) + 1), PasteElement(b, i)
  PROVE  BlockInv' /\ Tag!Next
<1>1. PICK e \in Element : clip = <<e>>  BY DEF BlockInv, PasteElement
<1>2. clip[1] = e /\ clip # <<>>  BY <1>1
<1>3. e.raw \in Seq(Word) /\ e.tree \in TreeType /\ e = Held(e.raw, e.tree)
  BY DEF Element, Held
<1>4. Len(e.raw) = ElementSize(b)  BY <1>2 DEF PasteElement
<1>5. Become(b, Splice(blocks[b].raw, ElementSize(b), i, e.raw),
                InsertAt(blocks[b].elements, i, e.tree), EnsureH2Header(b, ElementSize(b)))
  BY <1>2 DEF PasteElement
<1>6. /\ EnsureH2Header(b, ElementSize(b)) \in Seq(Word)
      /\ Len(EnsureH2Header(b, ElementSize(b))) \in {0, 3, 4}
  BY HeaderFacts
<1>7. BlockInv'  BY <1>3, <1>4, <1>5, <1>6, PutElement
<1>8. clip' = clip  BY <1>3, <1>4, <1>5, <1>6, PutElement
<1>9. Content' = [Content EXCEPT ![b] = InsertAt(Content[b], i, Held(e.raw, e.tree))]
  BY <1>3, <1>4, <1>5, <1>6, PutElement
<1>10. Content' = [Content EXCEPT ![b] = InsertAt(Content[b], i, clip[1])]  BY <1>2, <1>3, <1>9
<1>11. Tag!Become(b, Tag!InsertAt(Content[b], i, clip[1]))
  BY <1>8, <1>10, SameInsert DEF Tag!Become
<1>12. i \in 1..(Len(Content[b]) + 1)  BY BlockFacts
<1>13. Tag!Put(b)  BY <1>2, <1>11, <1>12 DEF Tag!Put
<1>14. QED  BY <1>7, <1>13 DEF Tag!Next

(* duplicate_element puts a copy after the element.                        *)
LEMMA DuplicateStep ==
  ASSUME BlockInv, NEW b \in BlockName, NEW i \in 1..Count(b), DuplicateElement(b, i)
  PROVE  BlockInv' /\ Tag!Next
<1>1. /\ ElementRaw(b, i) \in Seq(Word) /\ Len(ElementRaw(b, i)) = ElementSize(b)
      /\ blocks[b].elements[i] \in TreeType
      /\ Content[b][i] = Held(ElementRaw(b, i), blocks[b].elements[i])
  BY ElementFacts
<1>2. Count(b) \in Nat /\ Len(Content[b]) = Count(b)  BY BlockFacts
<1>3. i + 1 \in 1..(Count(b) + 1)  BY <1>2, SMT
<1>4. blocks[b].header \in Seq(Word) /\ Len(blocks[b].header) \in {0, 3, 4}  BY BlockFacts
<1>5. Become(b, Splice(blocks[b].raw, ElementSize(b), i + 1, ElementRaw(b, i)),
                InsertAt(blocks[b].elements, i + 1, blocks[b].elements[i]), blocks[b].header)
  BY DEF DuplicateElement
<1>6. BlockInv'  BY <1>1, <1>3, <1>4, <1>5, PutElement
<1>7. clip' = clip  BY <1>1, <1>3, <1>4, <1>5, PutElement
<1>8. Content' = [Content EXCEPT ![b] =
                    InsertAt(Content[b], i + 1, Held(ElementRaw(b, i), blocks[b].elements[i]))]
  BY <1>1, <1>3, <1>4, <1>5, PutElement
<1>9. Tag!Become(b, Tag!InsertAt(Content[b], i + 1, Content[b][i]))
  BY <1>1, <1>7, <1>8, SameInsert DEF Tag!Become
<1>10. Tag!Edit(b)  BY <1>2, <1>9 DEF Tag!Edit
<1>11. QED  BY <1>6, <1>10 DEF Tag!Next

(* remove_element removes the element.                                     *)
LEMMA DeleteStep ==
  ASSUME BlockInv, NEW b \in BlockName, NEW i \in 1..Count(b), DeleteElement(b, i)
  PROVE  BlockInv' /\ Tag!Next
<1> DEFINE size == ElementSize(b)
           raw == blocks[b].raw
           els == blocks[b].elements
           P == Content[b]
           c == Drain(raw, size, i)
           ts == RemoveAt(els, i)
<1>1. /\ els \in Seq(TreeType) /\ size \in Nat /\ Sized(raw, Len(els), size)
      /\ Len(els) = Count(b) /\ Len(els) \in Nat /\ P = Pairs(raw, els, size) /\ Len(P) = Count(b)
  BY BlockFacts
<1>2. Become(b, c, ts, blocks[b].header)  BY DEF DeleteElement
<1> HIDE DEF size, raw, els, P
<1>3. i \in 1..Len(els)  BY <1>1
<1>4. ts \in Seq(TreeType) /\ Len(ts) = Len(els) - 1  BY <1>3, <1>1, RemoveFacts
<1>5. Sized(c, Len(els) - 1, size)  BY <1>1, <1>3, DrainFacts
<1>6. Pairs(c, ts, size) = RemoveAt(P, i)  BY <1>1, <1>3, PairsRemove
<1> HIDE DEF c, ts
<1>7. /\ Sized(c, Len(ts), ElementSize(b))
      /\ Pairs(c, ts, ElementSize(b)) = Tag!RemoveAt(Content[b], i)
  BY <1>4, <1>5, <1>6, SameRemove DEF size, P
<1>8. BlockInv' /\ Tag!Become(b, Tag!RemoveAt(Content[b], i))  BY <1>2, <1>4, <1>7, Rearranged
<1>9. i \in 1..Len(Content[b])  BY <1>1 DEF P
<1>10. Tag!Edit(b)  BY <1>8, <1>9 DEF Tag!Edit
<1>11. QED  BY <1>8, <1>10 DEF Tag!Next

(* swap_elements exchanges two elements, buffer and trees alike.           *)
LEMMA SwapStep ==
  ASSUME BlockInv, NEW b \in BlockName, NEW i \in 1..Count(b), NEW j \in 1..Count(b),
         SwapElements(b, i, j)
  PROVE  BlockInv' /\ Tag!Next
<1> DEFINE size == ElementSize(b)
           raw == blocks[b].raw
           els == blocks[b].elements
           P == Content[b]
           c == Exchange(raw, size, i, j)
           ts == Swapped(els, i, j)
           D == Swapped(P, i, j)
<1>1. /\ els \in Seq(TreeType) /\ size \in Nat \ {0} /\ Sized(raw, Len(els), size)
      /\ Len(els) = Count(b) /\ Len(els) \in Nat /\ P = Pairs(raw, els, size) /\ Len(P) = Count(b)
  BY BlockFacts
<1>2. Become(b, c, ts, blocks[b].header)  BY DEF SwapElements, Swapped
<1> HIDE DEF size, raw, els, P
<1>3. i \in 1..Len(els) /\ j \in 1..Len(els)  BY <1>1
<1>4. ts \in Seq(TreeType) /\ Len(ts) = Len(els)  BY <1>3, <1>1, SwapFacts
<1>5. Sized(c, Len(els), size)  BY <1>1, <1>3, ExchangeFacts
<1>6. Pairs(c, ts, size) = D  BY <1>1, <1>3, PairsExchange
<1> HIDE DEF c, ts, D
<1>7. Sized(c, Len(ts), ElementSize(b)) /\ Pairs(c, ts, ElementSize(b)) = D
  BY <1>4, <1>5, <1>6 DEF size
<1>8. BlockInv' /\ Tag!Become(b, D)  BY <1>2, <1>4, <1>7, Rearranged
<1>9. i \in 1..Len(Content[b]) /\ j \in 1..Len(Content[b])  BY <1>1 DEF P
<1>10. Tag!Become(b, [Content[b] EXCEPT ![i] = Content[b][j], ![j] = Content[b][i]])
  BY <1>8 DEF D, P, Swapped
<1>11. Tag!Edit(b)  BY <1>9, <1>10 DEF Tag!Edit
<1>12. QED  BY <1>8, <1>11 DEF Tag!Next

(* A move is a removal, then an insertion into what it left.               *)
LEMMA MoveStep ==
  ASSUME BlockInv, NEW b \in BlockName, NEW from \in 1..Count(b), NEW to \in 1..Count(b),
         MoveElement(b, from, to)
  PROVE  BlockInv' /\ Tag!Next
<1> DEFINE size == ElementSize(b)
           raw == blocks[b].raw
           els == blocks[b].elements
           words == ElementRaw(b, from)
           t == blocks[b].elements[from]
           e == Content[b][from]
           P == Content[b]
           c == Drain(raw, size, from)
           ts == RemoveAt(els, from)
           d == Splice(c, size, to, words)
           us == InsertAt(ts, to, t)
<1>1. /\ els \in Seq(TreeType) /\ size \in Widths /\ size \in Nat /\ Sized(raw, Len(els), size)
      /\ Len(els) = Count(b) /\ Len(els) \in Nat
      /\ P = Pairs(raw, els, size) /\ Len(P) = Count(b)
      /\ blocks[b].header \in Seq(Word) /\ Len(blocks[b].header) \in {0, 3, 4}
  BY BlockFacts
<1>2. words \in Seq(Word) /\ Len(words) = size /\ t \in TreeType /\ e = Held(words, t)
  BY ElementFacts
<1>3. Become(b, d, us, blocks[b].header)  BY DEF MoveElement
<1> HIDE DEF size, raw, els, words, t, e, P
<1>4. /\ from \in 1..Len(els) /\ to \in 1..((Len(els) - 1) + 1) /\ Len(els) - 1 \in Nat
      /\ (Len(els) - 1) + 1 = Len(els)
  <2>1. from \in 1..Len(els) /\ to \in 1..Len(els) /\ Len(els) \in Nat  BY <1>1
  <2> DEFINE n == Len(els)
  <2> HIDE DEF n
  <2>2. from \in 1..n /\ to \in 1..((n - 1) + 1) /\ n - 1 \in Nat /\ (n - 1) + 1 = n
    BY <2>1, SMT DEF n
  <2>3. QED  BY <2>2 DEF n
<1>5. ts \in Seq(TreeType) /\ Len(ts) = Len(els) - 1  BY <1>1, <1>4, RemoveFacts
<1>6. Sized(c, Len(ts), size)  BY <1>1, <1>4, <1>5, DrainFacts
<1>7. Pairs(c, ts, size) = RemoveAt(P, from)  BY <1>1, <1>4, PairsRemove
<1> HIDE DEF c, ts
<1>8. to \in 1..(Len(ts) + 1) /\ Len(ts) \in Nat  BY <1>4, <1>5
<1>9. us \in Seq(TreeType) /\ Len(us) = Len(ts) + 1  BY <1>2, <1>5, <1>8, InsertFacts
<1>10. Sized(d, Len(ts) + 1, size)  BY <1>1, <1>2, <1>6, <1>8, SpliceFacts
<1>11. Pairs(d, us, size) = InsertAt(Pairs(c, ts, size), to, Held(words, t))
  BY <1>1, <1>2, <1>5, <1>6, <1>8, PairsInsert
<1> HIDE DEF d, us
<1>12. Pairs(d, us, ElementSize(b)) = Tag!InsertAt(Tag!RemoveAt(Content[b], from), to, Content[b][from])
  BY <1>2, <1>7, <1>11, SameInsert, SameRemove DEF size, P, e
<1>13. Sized(d, Len(us), ElementSize(b))  BY <1>9, <1>10 DEF size
<1>14. BlockInv' /\ Tag!Become(b, Tag!InsertAt(Tag!RemoveAt(Content[b], from), to, Content[b][from]))
  BY <1>3, <1>9, <1>12, <1>13, Rearranged
<1>15. from \in 1..Len(Content[b]) /\ to \in 1..Len(Content[b])  BY <1>1 DEF P
<1>16. Tag!Edit(b)  BY <1>14, <1>15 DEF Tag!Edit
<1>17. QED  BY <1>14, <1>16 DEF Tag!Next

(* clear leaves no element.                                                *)
LEMMA ClearStep ==
  ASSUME BlockInv, NEW b \in BlockName, ClearBlock(b)
  PROVE  BlockInv' /\ Tag!Next
<1> DEFINE size == ElementSize(b)
           none == <<>>
<1>1. size \in Nat  BY BlockFacts
<1>2. Become(b, none, none, blocks[b].header)  BY DEF ClearBlock
<1> HIDE DEF size
<1>3. none \in Seq(TreeType) /\ none \in Seq(Word) /\ Len(none) = 0  OBVIOUS
<1>4. Pairs(none, none, size) = none  BY <1>3 DEF Pairs
<1> HIDE DEF none
<1>5. 0 * size = 0  BY <1>1, SMT
<1>6. Sized(none, Len(none), ElementSize(b)) /\ Pairs(none, none, ElementSize(b)) = none
  BY <1>3, <1>4, <1>5 DEF Sized, size
<1>7. BlockInv' /\ Tag!Become(b, none)  BY <1>2, <1>3, <1>6, Rearranged
<1>8. Tag!Become(b, <<>>)  BY <1>7 DEF none
<1>9. QED  BY <1>7, <1>8 DEF Tag!Next

(* element_snapshot changes no block.                                      *)
LEMMA SnapshotStep ==
  ASSUME BlockInv, NEW b \in BlockName, NEW i \in 1..Count(b), ElementSnapshot(b, i)
  PROVE  BlockInv' /\ Tag!Next
<1>1. /\ Content[b][i] = Held(ElementRaw(b, i), blocks[b].elements[i])
      /\ Content[b][i] \in Element
  BY ElementFacts
<1>2. clip' = <<Content[b][i]>>  BY <1>1 DEF ElementSnapshot, Held
<1>3. layout' = layout /\ blocks' = blocks  BY DEF ElementSnapshot
<1>4. Content' = Content  BY <1>3, ContentIs, ContentWas
<1>5. BlockInv'  BY <1>1, <1>2, <1>3 DEF BlockInv
<1>6. i \in 1..Len(Content[b])  BY BlockFacts
<1>7. Tag!Snapshot(b, i)  BY <1>2, <1>4 DEF Tag!Snapshot
<1>8. Tag!Edit(b)  BY <1>6, <1>7 DEF Tag!Edit
<1>9. QED  BY <1>5, <1>8 DEF Tag!Next

(* An edit of one element's fields is seen in that element alone.          *)
LEMMA OnlyThat ==
  ASSUME BlockInv, NEW b \in BlockName, NEW i \in 1..Count(b),
         NEW q \in Seq(Element), Len(q) = Count(b),
         \A k \in 1..Count(b) : k # i => q[k] = Content[b][k],
         Content' = [Content EXCEPT ![b] = q], clip' = clip
  PROVE  Tag!Next
<1> DEFINE p == Content[b]
           n == Count(b)
<1>1. p \in Seq(Element) /\ Len(p) = n /\ n \in Nat  BY BlockFacts
<1>2. DOMAIN Content = BlockName  BY DEF Content
<1>3. Content'[b] = q  BY <1>2
<1>4. q[i] \in Element  BY ElementOfSeq
<1>5. q = [p EXCEPT ![i] = q[i]]
  <2>1. DOMAIN q = 1..n /\ DOMAIN p = 1..n /\ q = [k \in 1..n |-> q[k]] /\ p = [k \in 1..n |-> p[k]]
    <3>1. q \in [1..Len(q) -> Element] /\ p \in [1..Len(p) -> Element]  BY <1>1, LenProperties
    <3> HIDE DEF p, n
    <3>2. Len(q) = n  BY DEF n
    <3>3. QED  BY <1>1, <3>1, <3>2
  <2>2. \A k \in 1..n : q[k] = [p EXCEPT ![i] = q[i]][k]  BY <2>1
  <2> HIDE DEF p, n
  <2>3. QED  BY <2>1, <2>2
<1>6. Content' = [Content EXCEPT ![b] = [Content[b] EXCEPT ![i] = Content'[b][i]]]
  BY <1>3, <1>5
<1>7. Tag!Rewrite(b, i)  BY <1>1, <1>3, <1>4, <1>6 DEF Tag!Rewrite, Tag!Become, Element
<1>8. i \in 1..Len(Content[b])  BY <1>1
<1>9. Tag!Edit(b)  BY <1>7, <1>8 DEF Tag!Edit
<1>10. QED  BY <1>9 DEF Tag!Next

WithWord(raw, size, i, d) == [raw EXCEPT ![(i - 1) * size + 1] = d]

(* A word written within element i changes that element alone.             *)
LEMMA PutWord ==
  ASSUME NEW n \in Nat, NEW size \in Nat \ {0}, NEW raw, Sized(raw, n, size),
         NEW i \in 1..n, NEW d \in Word
  PROVE  /\ Sized(WithWord(raw, size, i, d), n, size)
         /\ \A k \in 1..n : k # i => Slice(WithWord(raw, size, i, d), size, k) = Slice(raw, size, k)
<1> DEFINE a == Base(size, i)
           p == (i - 1) * size + 1
           c == [raw EXCEPT ![p] = d]
<1>1. size \in Nat /\ 1 \in 1..size /\ i \in Nat \ {0} /\ i + 1 \in Nat \ {0}  BY SMT
<1>2. p = a + 1  BY DEF Base
<1>3. a \in Nat /\ a + 1 \in 1..Len(raw)  BY <1>1, BaseFacts, SliceFacts
<1>4. raw \in Seq(Word) /\ Len(raw) = n * size /\ Len(raw) \in Nat  BY LenProperties DEF Sized
<1> HIDE DEF p, a
<1>5. /\ c \in Seq(Word) /\ Len(c) = Len(raw)
      /\ \A x \in 1..Len(raw) : x # a + 1 => c[x] = raw[x]
  <2>1. raw \in [1..Len(raw) -> Word] /\ DOMAIN raw = 1..Len(raw)  BY <1>4, LenProperties
  <2>2. c \in [1..Len(raw) -> Word]  BY <2>1
  <2>3. \A x \in 1..Len(raw) : x # a + 1 => c[x] = raw[x]  BY <1>2, <2>1
  <2> HIDE DEF c
  <2>4. c \in Seq(Word)  BY <1>4, <2>2, SeqDef
  <2>5. DOMAIN c = 1..Len(raw)  BY <2>2
  <2>6. QED  BY <1>4, <2>3, <2>4, <2>5, LenProperties
<1> HIDE DEF c
<1>6. Sized(c, n, size)  BY <1>4, <1>5 DEF Sized
<1>7. ASSUME NEW k \in 1..n, k # i PROVE Slice(c, size, k) = Slice(raw, size, k)
  <2> DEFINE b == Base(size, k)
  <2>1. k \in Nat \ {0} /\ k + 1 \in Nat \ {0} /\ (k < i \/ i < k) /\ i \in Nat \ {0}
    BY <1>7, SMT
  <2>2. b \in Nat /\ Base(size, k + 1) = b + size /\ Base(size, i + 1) = a + size
    BY <1>1, <2>1, BaseFacts DEF a
  <2>3. (k < i => b + size <= a) /\ (i < k => a + size <= b)
    <3>1. CASE k < i
      <4>1. k + 1 <= i /\ ~(i < k)  BY <2>1, <3>1, SMT
      <4>2. Base(size, k + 1) <= Base(size, i)  BY <1>1, <2>1, <4>1, BaseGrows
      <4>3. QED  BY <2>2, <4>1, <4>2 DEF a
    <3>2. CASE i < k
      <4>1. i + 1 <= k /\ ~(k < i)  BY <2>1, <3>2, SMT
      <4>2. Base(size, i + 1) <= Base(size, k)  BY <1>1, <2>1, <4>1, BaseGrows
      <4>3. QED  BY <2>2, <4>1, <4>2
    <3>3. QED  BY <2>1, <3>1, <3>2
  <2>4. ASSUME NEW m \in 1..size PROVE c[b + m] = Slice(raw, size, k)[m]
    <3>1. PICK x : x = b + m  OBVIOUS
    <3>2. x # a + 1
      <4>1. x = b + m /\ a \in Nat /\ b \in Nat /\ (b + size <= a \/ a + size <= b) /\ size \in Nat \ {0}
        BY <1>3, <2>1, <2>2, <2>3, <3>1
      <4> HIDE DEF b
      <4>2. QED  BY <4>1, SMT
    <3>3. x \in 1..Len(raw) /\ Slice(raw, size, k)[m] = raw[x]  BY <1>1, <3>1, SliceFacts
    <3>4. QED  BY <1>5, <3>1, <3>2, <3>3
  <2> DEFINE w == Slice(raw, size, k)
  <2>5. w \in Seq(Word) /\ Len(w) = size /\ \A m \in 1..size : c[Base(size, k) + m] = w[m]
    BY <1>1, <2>4, SliceFacts
  <2> HIDE DEF w
  <2>6. Slice(c, size, k) = w  BY <1>1, <1>6, <2>5, SliceIs
  <2>7. QED  BY <2>6 DEF w
<1>8. QED  BY <1>6, <1>7 DEF c, p, WithWord

(* A plain field's word changes one element.                               *)
LEMMA PlainStep ==
  ASSUME BlockInv, NEW b \in BlockName, NEW i \in 1..Count(b), NEW d \in Datum, WritePlain(b, i, d)
  PROVE  BlockInv' /\ Tag!Next
<1> DEFINE n == Count(b)
<1>1. PICK size : size = ElementSize(b)  OBVIOUS
<1>2. PICK raw : raw = blocks[b].raw  OBVIOUS
<1>3. PICK els : els = blocks[b].elements  OBVIOUS
<1>4. PICK c : c = WithWord(raw, size, i, d)  OBVIOUS
<1>5. PICK x : x = [blocks[b] EXCEPT !.raw = c]  OBVIOUS
<1>6. /\ blocks[b] \in Block /\ Len(blocks[b].header) \in {0, 3, 4}
      /\ els \in Seq(TreeType) /\ size \in Widths /\ size \in Nat \ {0} /\ size \in Nat
      /\ Sized(raw, n, size) /\ n = Len(els) /\ n \in Nat
      /\ \A k \in 1..n : Content[b][k] = Held(Slice(raw, size, k), els[k])
  BY <1>1, <1>2, <1>3, BlockFacts DEF BlockInv, Whole, ElementRaw
<1>7. d \in Word  BY BlockAssumption
<1> HIDE DEF n
<1>8. i \in 1..n  BY DEF n
<1>9. /\ Sized(c, n, size)
      /\ \A k \in 1..n : k # i => Slice(c, size, k) = Slice(raw, size, k)
  BY <1>4, <1>6, <1>7, <1>8, PutWord
<1>10. /\ x \in Block /\ x.raw = c /\ x.elements = els /\ x.header = blocks[b].header
  BY <1>3, <1>5, <1>6, <1>9 DEF Block, Sized
<1>11. blocks' = [blocks EXCEPT ![b] = x] /\ UNCHANGED <<layout, clip>>
  BY <1>1, <1>2, <1>4, <1>5 DEF WritePlain, WithWord
<1>12. Len(x.header) \in {0, 3, 4} /\ Sized(x.raw, Len(x.elements), size)  BY <1>6, <1>9, <1>10
<1>13. BlockInv'  BY <1>6, <1>10, <1>11, <1>12, KeepsBlock
<1>14. Content' = [Content EXCEPT ![b] = Pairs(x.raw, x.elements, size)]
  BY <1>6, <1>10, <1>11, <1>12, KeepsBlock
<1>15. PICK q : q = Pairs(c, els, size)  OBVIOUS
<1>16. q \in Seq(Element) /\ Len(q) = n /\ \A k \in 1..n : q[k] = Held(Slice(c, size, k), els[k])
  BY <1>6, <1>9, <1>15, PairsType
<1>17. \A k \in 1..n : k # i => q[k] = Content[b][k]  BY <1>6, <1>9, <1>16
<1>18. Content' = [Content EXCEPT ![b] = q] /\ clip' = clip  BY <1>10, <1>11, <1>14, <1>15
<1>19. Tag!Next  BY <1>16, <1>17, <1>18, OnlyThat DEF n
<1>20. QED  BY <1>13, <1>19

(* A data field's bytes change one element's tree.                         *)
LEMMA DataStep ==
  ASSUME BlockInv, NEW b \in BlockName, NEW i \in 1..Count(b), NEW d \in Blob, WriteData(b, i, d)
  PROVE  BlockInv' /\ Tag!Next
<1> DEFINE n == Count(b)
<1>1. PICK size : size = ElementSize(b)  OBVIOUS
<1>2. PICK raw : raw = blocks[b].raw  OBVIOUS
<1>3. PICK els : els = blocks[b].elements  OBVIOUS
<1>4. PICK ts : ts = [els EXCEPT ![i].data = <<d>>]  OBVIOUS
<1>5. PICK x : x = [blocks[b] EXCEPT !.elements = ts]  OBVIOUS
<1>6. /\ blocks[b] \in Block /\ Len(blocks[b].header) \in {0, 3, 4}
      /\ els \in Seq(TreeType) /\ size \in Widths /\ size \in Nat \ {0} /\ size \in Nat
      /\ Sized(raw, n, size) /\ n = Len(els) /\ n \in Nat
      /\ \A k \in 1..n : Content[b][k] = Held(Slice(raw, size, k), els[k])
  BY <1>1, <1>2, <1>3, BlockFacts DEF BlockInv, Whole, ElementRaw
<1> HIDE DEF n
<1>7. i \in 1..n  BY DEF n
<1>8. ts \in Seq(TreeType) /\ Len(ts) = n /\ \A k \in 1..n : k # i => ts[k] = els[k]
  <2>1. els \in [1..n -> TreeType] /\ DOMAIN els = 1..n  BY <1>6, LenProperties
  <2>2. d \in Seq(Word)  BY BlockAssumption
  <2>3. <<d>> \in Seq(Seq(Word))  BY <2>2
  <2>4. els[i] \in TreeType  BY <1>7, <2>1
  <2>5. [els[i] EXCEPT !.data = <<d>>] \in TreeType  BY <2>3, <2>4 DEF TreeType
  <2>6. ts = [els EXCEPT ![i] = [els[i] EXCEPT !.data = <<d>>]]  BY <1>4
  <2>7. ts \in [1..n -> TreeType]  BY <2>1, <2>5, <2>6
  <2>8. \A k \in 1..n : k # i => ts[k] = els[k]  BY <2>1, <2>6
  <2>9. ts \in Seq(TreeType)  BY <1>6, <2>7, SeqDef
  <2>10. DOMAIN ts = 1..n  BY <2>7
  <2>11. QED  BY <1>6, <2>8, <2>9, <2>10, LenProperties
<1>9. x \in Block /\ x.raw = raw /\ x.elements = ts /\ x.header = blocks[b].header
  BY <1>2, <1>5, <1>6, <1>8 DEF Block
<1>10. blocks' = [blocks EXCEPT ![b] = x] /\ UNCHANGED <<layout, clip>>
  BY <1>3, <1>4, <1>5 DEF WriteData
<1>11. Len(x.header) \in {0, 3, 4} /\ Sized(x.raw, Len(x.elements), size)  BY <1>6, <1>8, <1>9
<1>12. BlockInv'  BY <1>6, <1>9, <1>10, <1>11, KeepsBlock
<1>13. Content' = [Content EXCEPT ![b] = Pairs(x.raw, x.elements, size)]
  BY <1>6, <1>9, <1>10, <1>11, KeepsBlock
<1>14. PICK q : q = Pairs(raw, ts, size)  OBVIOUS
<1>15. q \in Seq(Element) /\ Len(q) = n /\ \A k \in 1..n : q[k] = Held(Slice(raw, size, k), ts[k])
  BY <1>6, <1>8, <1>14, PairsType
<1>16. \A k \in 1..n : k # i => q[k] = Content[b][k]  BY <1>6, <1>8, <1>15
<1>17. Content' = [Content EXCEPT ![b] = q] /\ clip' = clip  BY <1>9, <1>10, <1>13, <1>14
<1>18. Tag!Next  BY <1>15, <1>16, <1>17, OnlyThat DEF n
<1>19. QED  BY <1>12, <1>18
-----------------------------------------------------------------------------
(* The width of a block that was read is one of the widths.                *)
LEMMA ReadWidth == \A x \in FilledBlocks : WidthOf(x) \in Widths
BY DEF Widths

(* What a reader makes is whole, by the assumption.                        *)
LEMMA ReadIsWhole ==
  ASSUME NEW l \in Layouts, NEW x \in ReadBlocks
  PROVE  Whole(x, l)
<1>1. /\ x = BlockData(x.raw, x.elements, x.header, x.dirty)
      /\ x.raw \in Seq(Word) /\ x.elements \in Seq(TreeType) /\ x.dirty \in BOOLEAN
      /\ x.header \in Seq(Word) /\ Len(x.header) \in {0, 3, 4}
      /\ IF x.elements = <<>> THEN x.raw = <<>> ELSE Len(x.raw) = Len(x.elements) * WidthOf(x)
  BY BlockAssumption
<1>2. x \in Block
  <2>1. BlockData(x.raw, x.elements, x.header, x.dirty) \in Block  BY <1>1 DEF BlockData, Block
  <2>2. QED  BY <1>1, <2>1
<1>3. CASE x.elements = <<>>
  <2>1. PICK size : size = l.width[l.base]  OBVIOUS
  <2>2. size \in Widths /\ size \in Nat  BY <2>1, BaseWidth, BlockAssumption
  <2>3. Len(x.raw) = 0 /\ Len(x.elements) = 0  BY <1>1, <1>3
  <2>4. 0 * size = 0  BY <2>2, SMT
  <2>5. Sized(x.raw, Len(x.elements), size)  BY <1>1, <2>3, <2>4 DEF Sized
  <2>6. QED  BY <1>1, <1>2, <2>2, <2>5, MakeWhole
<1>4. CASE x.elements # <<>>
  <2>1. PICK size : size = WidthOf(x)  OBVIOUS
  <2>2. size \in Widths
    <3>1. x \in FilledBlocks  BY <1>4 DEF FilledBlocks
    <3>2. QED  BY <2>1, <3>1, ReadWidth
  <2>3. Sized(x.raw, Len(x.elements), size)  BY <1>1, <1>4, <2>1 DEF Sized
  <2>4. QED  BY <1>1, <1>2, <2>2, <2>3, MakeWhole
<1>5. QED  BY <1>3, <1>4

(* So is every block of the first state.                                   *)
LEMMA InitWhole == InitBlocks => BlockInv
<1> SUFFICES ASSUME InitBlocks PROVE BlockInv  OBVIOUS
<1>1. layout \in Layouts /\ clip = <<>>  BY DEF InitBlocks
<1>2. blocks \in [BlockName -> ReadBlocks]  BY <1>1, BlockAssumption DEF InitBlocks
<1>3. \A b \in BlockName : Whole(blocks[b], layout)  BY <1>1, <1>2, ReadIsWhole
<1>4. DOMAIN blocks = BlockName /\ blocks = [b \in BlockName |-> blocks[b]]  BY <1>2
<1>5. QED  BY <1>1, <1>3, <1>4 DEF BlockInv

(* The first state is one of ElementSeq.                                   *)
LEMMA InitSeq == BlockInv /\ clip = <<>> => Tag!Init
<1> SUFFICES ASSUME BlockInv, clip = <<>> PROVE Tag!Init  OBVIOUS
<1>1. \A b \in BlockName : Content[b] \in Seq(Element)  BY BlockFacts
<1>2. DOMAIN Content = BlockName /\ Content = [b \in BlockName |-> Content[b]]  BY DEF Content
<1>3. Content \in [BlockName -> Seq([raw : Seq(Word), tree : TreeType])]
  BY <1>1, <1>2 DEF Element
<1>4. QED  BY <1>3 DEF Tag!Init

(* One step of the editor is one step of the sequence of elements.         *)
LEMMA EditStep == BlockInv /\ NextEdit => BlockInv' /\ Tag!Next
<1> SUFFICES ASSUME BlockInv, NextEdit PROVE BlockInv' /\ Tag!Next  OBVIOUS
<1>1. PICK b \in BlockName : EditBlock(b)  BY DEF NextEdit
<1>2. CASE Grow(b)
  <2>1. CASE \E i \in 1..(Count(b) + 1) : InsertElement(b, i) \/ PasteElement(b, i)
    BY <2>1, InsertStep, PasteStep
  <2>2. CASE \E i \in 1..Count(b) : DuplicateElement(b, i)
    BY <2>2, DuplicateStep
  <2>3. QED  BY <1>2, <2>1, <2>2 DEF Grow
<1>3. CASE Rearrange(b)
  <2>1. CASE ClearBlock(b)  BY <2>1, ClearStep
  <2>2. ASSUME NEW i \in 1..Count(b), DeleteElement(b, i) PROVE BlockInv' /\ Tag!Next
    BY <2>2, DeleteStep
  <2>3. ASSUME NEW i \in 1..Count(b), NEW j \in 1..Count(b), SwapElements(b, i, j)
        PROVE  BlockInv' /\ Tag!Next
    BY <2>3, SwapStep
  <2>4. ASSUME NEW i \in 1..Count(b), NEW j \in 1..Count(b), MoveElement(b, i, j)
        PROVE  BlockInv' /\ Tag!Next
    BY <2>4, MoveStep
  <2>5. QED  BY <1>3, <2>1, <2>2, <2>3, <2>4 DEF Rearrange
<1>4. CASE SetField(b)
  <2>1. ASSUME NEW i \in 1..Count(b), ElementSnapshot(b, i) PROVE BlockInv' /\ Tag!Next
    BY <2>1, SnapshotStep
  <2>2. ASSUME NEW i \in 1..Count(b), NEW d \in Datum, WritePlain(b, i, d) PROVE BlockInv' /\ Tag!Next
    BY <2>2, PlainStep
  <2>3. ASSUME NEW i \in 1..Count(b), NEW d \in Blob, WriteData(b, i, d) PROVE BlockInv' /\ Tag!Next
    BY <2>3, DataStep
  <2>4. QED  BY <1>4, <2>1, <2>2, <2>3 DEF SetField
<1>5. QED  BY <1>1, <1>2, <1>3, <1>4 DEF EditBlock

(* Whatever does not change the tag changes nothing of this.               *)
LEMMA Stutters ==
  BlockInv /\ UNCHANGED blockVars => BlockInv' /\ UNCHANGED <<Content, clip>>
<1> SUFFICES ASSUME BlockInv, UNCHANGED blockVars PROVE BlockInv' /\ UNCHANGED <<Content, clip>>
  OBVIOUS
<1>1. layout' = layout /\ blocks' = blocks /\ clip' = clip  BY DEF blockVars
<1>2. Content' = Content  BY <1>1, ContentIs, ContentWas
<1>3. BlockInv'  BY <1>1 DEF BlockInv
<1>4. QED  BY <1>1, <1>2, <1>3

(* The invariant gives the type invariant.                                 *)
LEMMA WholeIsTyped == BlockInv => BlockTypeOK
<1> SUFFICES ASSUME BlockInv PROVE BlockTypeOK  OBVIOUS
<1>1. Layout(layout)  BY BlockAssumption DEF BlockInv
<1>2. ASSUME NEW b \in BlockName
      PROVE  /\ blocks[b].raw \in Seq(Word) /\ blocks[b].elements \in Seq(TreeType)
             /\ Len(blocks[b].header) \in {0, 3, 4}
             /\ Len(blocks[b].raw) = Count(b) * ElementSize(b)
  <2>1. /\ Sized(blocks[b].raw, Len(blocks[b].elements), ElementSize(b))
        /\ Count(b) = Len(blocks[b].elements)
    BY BlockFacts
  <2>2. QED  BY <2>1, BlockFacts DEF Sized
<1>3. QED  BY <1>1, <1>2 DEF BlockTypeOK

(* Whatever is edited, an element's words and its tree stand at one index: *)
(* the buffer holds whole elements, as many as there are trees.            *)
THEOREM BlocksStayWhole == BlockSpec => []BlockTypeOK
<1>1. InitBlocks => BlockInv  BY InitWhole
<1>2. BlockInv /\ [NextEdit]_blockVars => BlockInv'  BY EditStep, Stutters
<1>3. BlockInv => BlockTypeOK  BY WholeIsTyped
<1>4. QED  BY <1>1, <1>2, <1>3, PTL DEF BlockSpec

(* TagBlockMut's editor implements a sequence of elements: every edit does *)
(* to whole elements what it says, for any layouts, widths and blocks.     *)
THEOREM BlocksAreSequences == BlockSpec => ImplementsElementSeq
<1>1. InitBlocks => BlockInv /\ Tag!Init
  <2>1. InitBlocks => clip = <<>>  BY DEF InitBlocks
  <2>2. QED  BY <2>1, InitWhole, InitSeq
<1>2. BlockInv /\ [NextEdit]_blockVars => BlockInv'  BY EditStep, Stutters
<1>3. BlockInv /\ [NextEdit]_blockVars => [Tag!Next]_(Tag!vars)
  BY EditStep, Stutters DEF Tag!vars
<1>4. QED  BY <1>1, <1>2, <1>3, PTL DEF BlockSpec, ImplementsElementSeq, Tag!Spec
-----------------------------------------------------------------------------
(* Sequences: prefixes, rests and recursions along them *)

(* A set of numbers that is not empty has a least one.                     *)
LEMMA LeastNumber ==
  ASSUME NEW T \in SUBSET Nat, T # {}
  PROVE  \E m \in T : \A k \in T : m <= k
<1> DEFINE R == {ss \in Nat \X Nat : ss[1] < ss[2]}
<1>1. IsWellFoundedOn(R, Nat)  BY NatLessThanWellFounded, Zenon DEF OpToRel
<1>2. \E x \in T : \A y \in T : ~(<<y, x>> \in R)
  <2> HIDE DEF R
  <2>1. QED  BY <1>1, WFMin, Zenon
<1>3. PICK x \in T : \A y \in T : ~(<<y, x>> \in R)  BY <1>2
<1>4. ASSUME NEW y \in T PROVE x <= y
  <2>1. ~(<<y, x>> \in R)  BY <1>3
  <2>2. ~(y < x)  BY <2>1, SMT
  <2>3. QED  BY <2>2, SMT
<1>5. QED  BY <1>4

(* Numbers up to n with a property: 0 has it, and the one after a number   *)
(* that has it.                                                            *)
LEMMA Inductive ==
  ASSUME NEW n \in Nat, NEW Good \in SUBSET Nat, 0 \in Good,
         \A i \in 1..n : i - 1 \in Good => i \in Good
  PROVE  \A i \in 0..n : i \in Good
<1> DEFINE Bad == {i \in 0..n : i \notin Good}
<1>1. Bad \in SUBSET Nat  BY SMT
<1>2. CASE Bad # {}
  <2>1. PICK m \in Bad : \A k \in Bad : m <= k  BY <1>1, <1>2, LeastNumber
  <2>2. m \in 0..n /\ m \notin Good  BY <2>1
  <2>3. m # 0  BY <2>2
  <2>4. m \in 1..n /\ m - 1 \in 0..n /\ ~(m <= m - 1)  BY <2>2, <2>3, SMT
  <2>5. m - 1 \notin Bad  BY <2>1, <2>4
  <2>6. m - 1 \in Good  BY <2>4, <2>5
  <2>7. QED  BY <2>2, <2>4, <2>6
<1>3. CASE Bad = {}  BY <1>3
<1>4. QED  BY <1>2, <1>3

(* A sequence of steps through states of S, each given by step.            *)
Runs(f, n, start, step) ==
  /\ DOMAIN f = 0..n /\ f = [i \in 0..n |-> f[i]]
  /\ f[0] = start
  /\ \A i \in 1..n : f[i] = step[<<f[i - 1], i>>]

(* There is one, however many steps there are.                             *)
LEMMA RunExists ==
  ASSUME NEW S, NEW n \in Nat, NEW start \in S, NEW step \in [S \X (1..n) -> S]
  PROVE  \E f \in [0..n -> S] : Runs(f, n, start, step)
<1> DEFINE P(k) == \E f \in [0..k -> S] : Runs(f, k, start, step)
           Good == {k \in Nat : k <= n => P(k)}
<1>1. P(0)
  <2> DEFINE f == [i \in 0..0 |-> start]
  <2>1. f \in [0..0 -> S] /\ f[0] = start /\ DOMAIN f = 0..0 /\ f = [i \in 0..0 |-> f[i]]  OBVIOUS
  <2>2. \A i \in 1..0 : FALSE  BY SMT
  <2> HIDE DEF f
  <2>3. Runs(f, 0, start, step)  BY <2>1, <2>2 DEF Runs
  <2>4. QED  BY <2>1, <2>3
<1>2. ASSUME NEW k \in 1..n, P(k - 1) PROVE P(k)
  <2>1. PICK f \in [0..(k - 1) -> S] : Runs(f, k - 1, start, step)  BY <1>2
  <2>2. k - 1 \in 0..(k - 1) /\ k \in Nat /\ k - 1 \in Nat  BY SMT
  <2>3. f[k - 1] \in S  BY <2>2
  <2> DEFINE y == step[<<f[k - 1], k>>]
             g == [i \in 0..k |-> IF i = k THEN y ELSE f[i]]
  <2>4. y \in S  BY <2>3
  <2> HIDE DEF y
  <2>5. \A i \in 0..k : i = k \/ i \in 0..(k - 1)  BY <2>2, SMT
  <2>6. g \in [0..k -> S]  BY <2>4, <2>5
  <2>7. g[k] = y  BY <2>2, SMT
  <2>8. \A i \in 0..(k - 1) : g[i] = f[i]  BY <2>2, SMT
  <2> HIDE DEF g
  <2>9. DOMAIN g = 0..k /\ g = [i \in 0..k |-> g[i]]  BY <2>6
  <2>10. g[0] = start
    <3>1. 0 \in 0..(k - 1)  BY <2>2, SMT
    <3>2. QED  BY <2>1, <2>8, <3>1 DEF Runs
  <2>11. ASSUME NEW i \in 1..k PROVE g[i] = step[<<g[i - 1], i>>]
    <3>1. i - 1 \in 0..(k - 1)  BY <2>2, SMT
    <3>2. g[i - 1] = f[i - 1]  BY <2>8, <3>1
    <3>3. CASE i = k  BY <2>7, <3>2, <3>3 DEF y
    <3>4. CASE i # k
      <4>1. i \in 1..(k - 1) /\ i \in 0..(k - 1)  BY <2>2, <3>4, SMT
      <4>2. f[i] = step[<<f[i - 1], i>>]  BY <2>1, <4>1 DEF Runs
      <4>3. QED  BY <2>8, <3>2, <4>1, <4>2
    <3>5. QED  BY <3>3, <3>4
  <2>12. Runs(g, k, start, step)  BY <2>9, <2>10, <2>11 DEF Runs
  <2>13. QED  BY <2>6, <2>12
<1>3. 0 \in Good  BY <1>1
<1>4. \A i \in 1..n : i - 1 \in Good => i \in Good
  <2> SUFFICES ASSUME NEW i \in 1..n, i - 1 \in Good PROVE i \in Good  OBVIOUS
  <2>1. i \in Nat /\ i - 1 <= n  BY SMT
  <2>2. P(i - 1)  BY <2>1
  <2>3. P(i)  BY <1>2, <2>2
  <2> HIDE DEF P
  <2>4. QED  BY <2>1, <2>3
<1>5. Good \in SUBSET Nat  OBVIOUS
<1> HIDE DEF P
<1>6. n \in Good
  <2> HIDE DEF Good
  <2>1. n \in 0..n  BY SMT
  <2>2. QED  BY <1>3, <1>4, <1>5, <2>1, Inductive
<1>7. P(n)  BY <1>6, SMT
<1>8. QED  BY <1>7 DEF P

(* A sequence is its first n elements and the rest.                        *)
LEMMA SplitAt ==
  ASSUME NEW T, NEW s \in Seq(T), NEW n \in 0..Len(s)
  PROVE  /\ SubSeq(s, 1, n) \in Seq(T) /\ Len(SubSeq(s, 1, n)) = n
         /\ Drop(s, n) \in Seq(T) /\ Len(Drop(s, n)) = Len(s) - n
         /\ \A k \in 1..n : SubSeq(s, 1, n)[k] = s[k]
         /\ s = SubSeq(s, 1, n) \o Drop(s, n)
<1> DEFINE m == Len(s)
<1>1. m \in Nat /\ n \in Nat /\ n <= m  BY LenProperties, SMT
<1>2. \A i \in 1..m : s[i] \in T  BY ElementOfSeq
<1> HIDE DEF m
<1>3. \A i \in 1..n : s[i] \in T  BY <1>1, <1>2, SMT
<1>4. /\ SubSeq(s, 1, n) \in Seq(T)
      /\ Len(SubSeq(s, 1, n)) = IF 1 <= n THEN n - 1 + 1 ELSE 0
      /\ \A i \in 1..(n - 1 + 1) : SubSeq(s, 1, n)[i] = s[1 + i - 1]
  <2>1. 1 \in Int /\ n \in Int  BY <1>1, SMT
  <2>2. QED  BY <1>3, <2>1, SubSeqProperties
<1>5. Len(SubSeq(s, 1, n)) = n  BY <1>1, <1>4, SMT
<1>6. \A k \in 1..n : SubSeq(s, 1, n)[k] = s[k]
  <2> SUFFICES ASSUME NEW k \in 1..n PROVE SubSeq(s, 1, n)[k] = s[k]  OBVIOUS
  <2>1. k \in 1..(n - 1 + 1) /\ 1 + k - 1 = k  BY <1>1, SMT
  <2>2. SubSeq(s, 1, n)[k] = s[1 + k - 1]  BY <1>4, <2>1
  <2>3. QED  BY <2>1, <2>2
<1>7. \A i \in (n + 1)..m : s[i] \in T  BY <1>1, <1>2, SMT
<1>8. /\ SubSeq(s, n + 1, m) \in Seq(T)
      /\ Len(SubSeq(s, n + 1, m)) = IF n + 1 <= m THEN m - (n + 1) + 1 ELSE 0
  <2>1. n + 1 \in Int /\ m \in Int  BY <1>1, SMT
  <2>2. QED  BY <1>7, <2>1, SubSeqProperties
<1>9. Len(SubSeq(s, n + 1, m)) = m - n  BY <1>1, <1>8, SMT
<1>10. SubSeq(s, 1, n) \o SubSeq(s, n + 1, m) = SubSeq(s, 1, m)
  <2>1. 1 \in 1..(m + 1) /\ n \in (1 - 1)..m /\ m \in n..m  BY <1>1, SMT
  <2>2. QED  BY <2>1, ConcatAdjacentSubSeq DEF m
<1>11. SubSeq(s, 1, m) = s  BY SubSeqFull DEF m
<1>12. QED  BY <1>4, <1>5, <1>6, <1>8, <1>9, <1>10, <1>11 DEF Drop, m

(* What was put in front is in front, and the rest is the rest.            *)
LEMMA JoinedAt ==
  ASSUME NEW T, NEW s \in Seq(T), NEW t \in Seq(T)
  PROVE  /\ s \o t \in Seq(T) /\ Len(s \o t) = Len(s) + Len(t)
         /\ SubSeq(s \o t, 1, Len(s)) = s
         /\ Drop(s \o t, Len(s)) = t
<1> DEFINE w == s \o t
           n == Len(s)
<1>1. w \in Seq(T) /\ Len(w) = Len(s) + Len(t)
      /\ \A i \in 1..Len(s) + Len(t) : w[i] = IF i <= Len(s) THEN s[i] ELSE t[i - Len(s)]
  BY ConcatProperties
<1>2. n \in 0..Len(w)
  <2>1. n \in Nat /\ Len(t) \in Nat  BY LenProperties
  <2>2. QED  BY <1>1, <2>1, SMT
<1> HIDE DEF w
<1>3. /\ SubSeq(w, 1, n) \in Seq(T) /\ Len(SubSeq(w, 1, n)) = n
      /\ Drop(w, n) \in Seq(T)
      /\ \A k \in 1..n : SubSeq(w, 1, n)[k] = w[k]
      /\ w = SubSeq(w, 1, n) \o Drop(w, n)
  BY <1>1, <1>2, SplitAt
<1>4. \A k \in 1..n : SubSeq(w, 1, n)[k] = s[k]
  <2> SUFFICES ASSUME NEW k \in 1..n PROVE SubSeq(w, 1, n)[k] = s[k]  OBVIOUS
  <2>1. k \in 1..(Len(s) + Len(t)) /\ k <= Len(s)
    <3>1. Len(s) \in Nat /\ Len(t) \in Nat  BY LenProperties
    <3>2. QED  BY <3>1, SMT DEF n
  <2>2. w[k] = s[k]  BY <1>1, <2>1
  <2>3. QED  BY <1>3, <2>2
<1>5. SubSeq(w, 1, n) = s  BY <1>3, <1>4, SeqEqual
<1>6. s \o t = s \o Drop(w, n)  BY <1>3, <1>5 DEF w
<1>7. Drop(w, n) = t  BY <1>3, <1>6, ConcatSimplifications
<1>8. QED  BY <1>1, <1>5, <1>7 DEF w

-----------------------------------------------------------------------------
(* Flattened sequences *)

(* Concatenation, under a name of its own.                                 *)
Cat(x, y) == x \o y

(* Joining keeps types and lengths, may be regrouped, and <<>> is neutral. *)
LEMMA CatFacts ==
  ASSUME NEW T
  PROVE  /\ \A x, y \in Seq(T) : Cat(x, y) \in Seq(T) /\ Len(Cat(x, y)) = Len(x) + Len(y)
         /\ \A x, y, z \in Seq(T) : Cat(Cat(x, y), z) = Cat(x, Cat(y, z))
         /\ \A x \in Seq(T) : Cat(x, <<>>) = x /\ Cat(<<>>, x) = x
<1>1. \A x, y \in Seq(T) : Cat(x, y) \in Seq(T) /\ Len(Cat(x, y)) = Len(x) + Len(y)
  BY ConcatProperties DEF Cat
<1>2. \A x, y, z \in Seq(T) : Cat(Cat(x, y), z) = Cat(x, Cat(y, z))
  BY ConcatAssociative, SMT DEF Cat
<1>3. \A x \in Seq(T) : Cat(x, <<>>) = x /\ Cat(<<>>, x) = x  BY ConcatEmptySeq DEF Cat
<1>4. QED  BY <1>1, <1>2, <1>3

(* What FlattenSeq of the community modules is defined by.                 *)
Flattening(g, ss) == g = [i \in 1..Len(ss) |-> IF i = 1 THEN ss[i] ELSE g[i - 1] \o ss[i]]

(* FlattenSeq is the end of the function it recurses by.                   *)
LEMMA FlattenIs ==
  ASSUME NEW ss, Len(ss) # 0
  PROVE  FlattenSeq(ss) = (CHOOSE g : Flattening(g, ss))[Len(ss)]
BY DEF FlattenSeq, Flattening

(* A sequence flattened up to its i-th element, for every i.               *)
Growing(pre, ss) ==
  /\ pre[0] = <<>>
  /\ \A i \in 1..Len(ss) : pre[i] = pre[i - 1] \o ss[i]

(* The prefixes of the pieces, each joined to the last, run to FlattenSeq. *)
LEMMA FlattenRuns ==
  ASSUME NEW T, NEW ss \in Seq(Seq(T))
  PROVE  \E pre \in [0..Len(ss) -> Seq(T)] : Growing(pre, ss) /\ pre[Len(ss)] = FlattenSeq(ss)
<1> DEFINE n == Len(ss)
           step == [p \in Seq(T) \X (1..n) |-> p[1] \o ss[p[2]]]
<1>1. n \in Nat /\ \A i \in 1..n : ss[i] \in Seq(T)  BY LenProperties, ElementOfSeq
<1> HIDE DEF n
<1>2. step \in [Seq(T) \X (1..n) -> Seq(T)]
  <2> SUFFICES ASSUME NEW p \in Seq(T) \X (1..n) PROVE p[1] \o ss[p[2]] \in Seq(T)  OBVIOUS
  <2>1. p[1] \in Seq(T) /\ p[2] \in 1..n  OBVIOUS
  <2>2. ss[p[2]] \in Seq(T)  BY <1>1, <2>1
  <2>3. QED  BY <2>1, <2>2, ConcatProperties
<1>3. \A s \in Seq(T), i \in 1..n : step[<<s, i>>] = s \o ss[i]  OBVIOUS
<1>4. <<>> \in Seq(T)  OBVIOUS
<1> HIDE DEF step
<1>5. PICK pre \in [0..n -> Seq(T)] : Runs(pre, n, <<>>, step)  BY <1>1, <1>2, <1>4, RunExists
<1>6. pre[0] = <<>> /\ \A i \in 1..n : pre[i] = pre[i - 1] \o ss[i]
  <2>1. ASSUME NEW i \in 1..n PROVE pre[i] = pre[i - 1] \o ss[i]
    <3>1. i - 1 \in 0..n  BY <1>1, SMT
    <3>2. pre[i - 1] \in Seq(T)  BY <3>1
    <3>3. pre[i] = step[<<pre[i - 1], i>>]  BY <1>5 DEF Runs
    <3>4. QED  BY <1>3, <3>2, <3>3
  <2>2. QED  BY <1>5, <2>1 DEF Runs
<1>7. Growing(pre, ss)  BY <1>6 DEF Growing, n
<1>8. pre[n] = FlattenSeq(ss)
  <2>1. CASE n = 0
    <3>1. ss = <<>>  BY <2>1, EmptySeq DEF n
    <3>2. FlattenSeq(ss) = <<>>  BY <3>1 DEF FlattenSeq
    <3>3. QED  BY <1>6, <2>1, <3>2
  <2>2. CASE n # 0
    <3> DEFINE f == [i \in 1..n |-> pre[i]]
               g == CHOOSE h : Flattening(h, ss)
    <3>1. f = [i \in 1..n |-> IF i = 1 THEN ss[i] ELSE f[i - 1] \o ss[i]]
      <4> SUFFICES ASSUME NEW i \in 1..n
                   PROVE  pre[i] = IF i = 1 THEN ss[i] ELSE f[i - 1] \o ss[i]
        OBVIOUS
      <4>1. CASE i = 1
        <5>0. 1 - 1 = 0  BY SMT
        <5>1. pre[i] = pre[0] \o ss[1]  BY <1>6, <4>1, <5>0
        <5>2. ss[1] \in Seq(T)  BY <1>1, <4>1
        <5>3. <<>> \o ss[1] = ss[1]  BY <5>2, ConcatEmptySeq
        <5>4. QED  BY <1>6, <4>1, <5>1, <5>3
      <4>2. CASE i # 1
        <5>1. i - 1 \in 1..n  BY <1>1, <4>2, SMT
        <5>2. f[i - 1] = pre[i - 1]  BY <5>1
        <5>3. QED  BY <1>6, <4>2, <5>2
      <4>3. QED  BY <4>1, <4>2
    <3>2. Flattening(f, ss)  BY <3>1 DEF Flattening, n
    <3> HIDE DEF f
    <3>3. Flattening(g, ss)  BY <3>2
    <3> HIDE DEF g
    <3>4. \A i \in 1..n : g[i] = IF i = 1 THEN ss[i] ELSE g[i - 1] \o ss[i]
      BY <3>3 DEF Flattening, n
    <3> DEFINE Good == {k \in Nat : k \in 1..n => g[k] = pre[k]}
    <3>5. 0 \in Good  OBVIOUS
    <3>6. \A k \in 1..n : k - 1 \in Good => k \in Good
      <4> SUFFICES ASSUME NEW k \in 1..n, k - 1 \in Good PROVE g[k] = pre[k]  BY SMT
      <4>1. CASE k = 1
        <5>1. g[k] = ss[1]  BY <3>4, <4>1
        <5>0. 1 - 1 = 0  BY SMT
        <5>2. pre[k] = pre[0] \o ss[1] /\ ss[1] \in Seq(T)  BY <1>1, <1>6, <4>1, <5>0
        <5>3. <<>> \o ss[1] = ss[1]  BY <5>2, ConcatEmptySeq
        <5>4. QED  BY <1>6, <5>1, <5>2, <5>3
      <4>2. CASE k # 1
        <5>1. k - 1 \in 1..n  BY <1>1, <4>2, SMT
        <5>2. g[k - 1] = pre[k - 1]  BY <5>1
        <5>3. g[k] = g[k - 1] \o ss[k]  BY <3>4, <4>2
        <5>4. QED  BY <1>6, <5>2, <5>3
      <4>3. QED  BY <4>1, <4>2
    <3>7. \A k \in 0..n : k \in Good
      <4>1. Good \in SUBSET Nat  OBVIOUS
      <4> HIDE DEF Good
      <4>2. QED  BY <1>1, <3>5, <3>6, <4>1, Inductive
    <3>8. n \in 1..n /\ n \in 0..n  BY <1>1, <2>2, SMT
    <3>9. n \in Good  BY <3>7, <3>8
    <3>10. g[n] = pre[n]  BY <3>8, <3>9
    <3>11. FlattenSeq(ss) = g[n]  BY <2>2, FlattenIs DEF g, n
    <3>12. QED  BY <3>10, <3>11
  <2>3. QED  BY <2>1, <2>2
<1>9. QED  BY <1>7, <1>8 DEF n

(* Nothing flattened, and one sequence flattened.                          *)
LEMMA FlattenNone == FlattenSeq(<<>>) = <<>>
BY DEF FlattenSeq

(* One piece flattens to itself.                                           *)
LEMMA FlattenOne == ASSUME NEW T, NEW d \in Seq(T) PROVE FlattenSeq(<<d>>) = d
<1>1. <<d>> \in Seq(Seq(T)) /\ Len(<<d>>) = 1 /\ <<d>>[1] = d  OBVIOUS
<1>2. PICK pre : Growing(pre, <<d>>) /\ pre[Len(<<d>>)] = FlattenSeq(<<d>>)
  BY <1>1, FlattenRuns
<1>3. pre[1] = pre[0] \o <<d>>[1] /\ pre[0] = <<>>
  <2>1. 1 \in 1..1 /\ 1 - 1 = 0  BY SMT
  <2>2. QED  BY <1>1, <1>2, <2>1 DEF Growing
<1>4. <<>> \o d = d  BY ConcatEmptySeq
<1>5. QED  BY <1>1, <1>2, <1>3, <1>4

(* What is left of the flattened sequence, and what follows it, after its  *)
(* i-th element, for every i.                                              *)
Rests(suf, ss, rest) ==
  /\ suf[Len(ss)] = rest
  /\ \A i \in 1..Len(ss) : suf[i - 1] = ss[i] \o suf[i]

(* What is left after each piece: before the first one, it is all of them  *)
(* and the rest.                                                           *)
LEMMA FlattenRests ==
  ASSUME NEW T, NEW ss \in Seq(Seq(T)), NEW rest \in Seq(T),
         NEW suf \in [0..Len(ss) -> Seq(T)], Rests(suf, ss, rest)
  PROVE  suf[0] = FlattenSeq(ss) \o rest /\ FlattenSeq(ss) \in Seq(T)
<1> DEFINE n == Len(ss)
<1>1. n \in Nat /\ \A i \in 1..n : ss[i] \in Seq(T)  BY LenProperties, ElementOfSeq
<1>2. PICK pre \in [0..n -> Seq(T)] : Growing(pre, ss) /\ pre[n] = FlattenSeq(ss)
  BY FlattenRuns
<1>3. pre[0] = <<>> /\ \A i \in 1..n : pre[i] = Cat(pre[i - 1], ss[i])  BY <1>2 DEF Growing, Cat
<1>4. suf[n] = rest /\ \A i \in 1..n : suf[i - 1] = Cat(ss[i], suf[i])  BY DEF Rests, Cat
<1> HIDE DEF n
<1>5. suf \in [0..n -> Seq(T)] /\ \A x \in Seq(T) : Cat(<<>>, x) = x  BY CatFacts DEF n
<1>a. \A x, y, z \in Seq(T) : Cat(Cat(x, y), z) = Cat(x, Cat(y, z))  BY CatFacts
<1> DEFINE Good == {i \in Nat : i \in 0..n => Cat(pre[i], suf[i]) = suf[0]}
<1>6. 0 \in Good
  <2>1. 0 \in 0..n  BY <1>1, SMT
  <2>2. suf[0] \in Seq(T)  BY <1>5, <2>1
  <2>3. Cat(<<>>, suf[0]) = suf[0]  BY <1>5, <2>2
  <2>4. QED  BY <1>3, <2>3
<1>7. \A i \in 1..n : i - 1 \in Good => i \in Good
  <2>0. \A i \in 1..n : i \in Nat  BY SMT
  <2> SUFFICES ASSUME NEW i \in 1..n, i - 1 \in Good PROVE Cat(pre[i], suf[i]) = suf[0]  BY <2>0
  <2>1. i \in 0..n /\ i - 1 \in 0..n  BY <1>1, SMT
  <2>2. pre[i - 1] \in Seq(T) /\ suf[i] \in Seq(T) /\ ss[i] \in Seq(T)  BY <1>1, <1>5, <2>1
  <2>3. Cat(Cat(pre[i - 1], ss[i]), suf[i]) = Cat(pre[i - 1], Cat(ss[i], suf[i]))
    <3>1. \A y, z \in Seq(T) : Cat(Cat(pre[i - 1], y), z) = Cat(pre[i - 1], Cat(y, z))
      BY <1>a, <2>2
    <3>2. QED  BY <2>2, <3>1
  <2>4. Cat(pre[i - 1], suf[i - 1]) = suf[0]  BY <2>1
  <2>5. pre[i] = Cat(pre[i - 1], ss[i]) /\ suf[i - 1] = Cat(ss[i], suf[i])  BY <1>3, <1>4
  <2>6. QED  BY <2>3, <2>4, <2>5, Zenon
<1>8. \A i \in 0..n : i \in Good
  <2>1. Good \in SUBSET Nat  OBVIOUS
  <2> HIDE DEF Good
  <2>2. QED  BY <1>1, <1>6, <1>7, <2>1, Inductive
<1>9. n \in 0..n  BY <1>1, SMT
<1>10. Cat(pre[n], suf[n]) = suf[0] /\ pre[n] \in Seq(T)  BY <1>8, <1>9
<1>11. QED  BY <1>2, <1>4, <1>10 DEF Cat

(* What is left after each piece exists, for all pieces.                   *)
LEMMA RestsExist ==
  ASSUME NEW T, NEW ss \in Seq(Seq(T)), NEW rest \in Seq(T)
  PROVE  \E suf \in [0..Len(ss) -> Seq(T)] :
           Rests(suf, ss, rest) /\ suf[0] = FlattenSeq(ss) \o rest
<1> DEFINE n == Len(ss)
           step == [p \in Seq(T) \X (1..n) |-> ss[n + 1 - p[2]] \o p[1]]
<1>1. n \in Nat /\ \A i \in 1..n : ss[i] \in Seq(T)  BY LenProperties, ElementOfSeq
<1> HIDE DEF n
<1>2. \A i \in 1..n : n + 1 - i \in 1..n  BY <1>1, SMT
<1>3. step \in [Seq(T) \X (1..n) -> Seq(T)]
  <2> SUFFICES ASSUME NEW p \in Seq(T) \X (1..n) PROVE ss[n + 1 - p[2]] \o p[1] \in Seq(T)  OBVIOUS
  <2>1. p[1] \in Seq(T) /\ p[2] \in 1..n  OBVIOUS
  <2>2. ss[n + 1 - p[2]] \in Seq(T)  BY <1>1, <1>2, <2>1
  <2>3. QED  BY <2>1, <2>2, ConcatProperties
<1>4. \A s \in Seq(T), i \in 1..n : step[<<s, i>>] = ss[n + 1 - i] \o s  OBVIOUS
<1> HIDE DEF step
<1>5. PICK f \in [0..n -> Seq(T)] : Runs(f, n, rest, step)  BY <1>1, <1>3, RunExists
<1>6. \A i \in 0..n : n - i \in 0..n  BY <1>1, SMT
<1> DEFINE suf == [i \in 0..n |-> f[n - i]]
<1>7. suf \in [0..n -> Seq(T)]  BY <1>6
<1>8. suf[n] = rest
  <2>1. n \in 0..n /\ n - n = 0  BY <1>1, SMT
  <2>2. QED  BY <1>5, <2>1 DEF Runs
<1>9. ASSUME NEW i \in 1..n PROVE suf[i - 1] = ss[i] \o suf[i]
  <2>1. PICK k : k = n + 1 - i  OBVIOUS
  <2>2. k \in 1..n /\ k - 1 \in 0..n /\ n - (i - 1) = k /\ n - i = k - 1 /\ n + 1 - k = i
        /\ i \in 0..n /\ i - 1 \in 0..n
    BY <1>1, <2>1, SMT
  <2>3. f[k] = step[<<f[k - 1], k>>] /\ f[k - 1] \in Seq(T)  BY <1>5, <2>2 DEF Runs
  <2>4. f[k] = ss[n + 1 - k] \o f[k - 1]  BY <1>4, <2>2, <2>3
  <2>5. suf[i - 1] = f[k] /\ suf[i] = f[k - 1]  BY <2>2
  <2>6. QED  BY <2>2, <2>4, <2>5
<1> HIDE DEF suf
<1>10. Rests(suf, ss, rest)  BY <1>8, <1>9 DEF Rests, n
<1>11. suf \in [0..Len(ss) -> Seq(T)]  BY <1>7 DEF n
<1>12. suf[0] = FlattenSeq(ss) \o rest  BY <1>10, <1>11, FlattenRests
<1>13. QED  BY <1>10, <1>11, <1>12

(* Flattening gives a sequence.                                            *)
LEMMA FlattenType ==
  ASSUME NEW T, NEW ss \in Seq(Seq(T)) PROVE FlattenSeq(ss) \in Seq(T)
<1>1. PICK pre \in [0..Len(ss) -> Seq(T)] : pre[Len(ss)] = FlattenSeq(ss)  BY FlattenRuns
<1>2. Len(ss) \in 0..Len(ss)
  <2>1. Len(ss) \in Nat  BY LenProperties
  <2>2. QED  BY <2>1, SMT
<1>3. QED  BY <1>1, <1>2

(* Flattened words of one width are a buffer of those elements.            *)
LEMMA FlattenSlices ==
  ASSUME NEW ss \in Seq(Seq(Word)), NEW size \in Nat, \A i \in 1..Len(ss) : Len(ss[i]) = size
  PROVE  /\ Sized(FlattenSeq(ss), Len(ss), size)
         /\ \A k \in 1..Len(ss) : Slice(FlattenSeq(ss), size, k) = ss[k]
<1> DEFINE n == Len(ss)
<1>1. n \in Nat /\ \A i \in 1..n : ss[i] \in Seq(Word) /\ Len(ss[i]) = size
  BY LenProperties, ElementOfSeq
<1>2. PICK pre \in [0..n -> Seq(Word)] : Growing(pre, ss) /\ pre[n] = FlattenSeq(ss)
  BY FlattenRuns
<1>3. pre[0] = <<>> /\ \A i \in 1..n : pre[i] = pre[i - 1] \o ss[i]  BY <1>2 DEF Growing
<1> HIDE DEF n
<1> DEFINE Holds(i) == Sized(pre[i], i, size) /\ \A k \in 1..i : Slice(pre[i], size, k) = ss[k]
           Good == {i \in Nat : i \in 0..n => Holds(i)}
<1>4. 0 \in Good
  <2>1. Len(pre[0]) = 0 /\ pre[0] \in Seq(Word)  BY <1>3
  <2>2. 0 * size = 0  BY SMT
  <2>3. \A k \in 1..0 : FALSE  BY SMT
  <2>4. QED  BY <2>1, <2>2, <2>3 DEF Sized
<1>5. \A i \in 1..n : i - 1 \in Good => i \in Good
  <2> SUFFICES ASSUME NEW i \in 1..n, i - 1 \in Good PROVE Holds(i)  BY SMT
  <2>1. i - 1 \in 0..n /\ i - 1 \in Nat /\ (i - 1) + 1 = i /\ i \in 1..((i - 1) + 1)  BY <1>1, SMT
  <2>2. PICK j \in Nat : j = i - 1  BY <2>1
  <2>3. PICK r : r = pre[j]  OBVIOUS
  <2>4. Sized(r, j, size) /\ \A k \in 1..j : Slice(r, size, k) = ss[k]  BY <2>1, <2>2, <2>3
  <2>5. r \in Seq(Word) /\ Len(r) = j * size /\ Len(r) \in Nat  BY <2>4, LenProperties DEF Sized
  <2>6. Splice(r, size, i, ss[i]) = r \o ss[i]
    <3>1. Splice(r, size, i, ss[i]) = SubSeq(r, 1, Len(r)) \o ss[i] \o SubSeq(r, Len(r) + 1, Len(r))
      BY <2>2, <2>5 DEF Splice
    <3>2. SubSeq(r, 1, Len(r)) = r  BY <2>5, SubSeqFull
    <3>3. SubSeq(r, Len(r) + 1, Len(r)) = <<>>
      <4>1. Len(r) + 1 \in Int /\ Len(r) \in Int /\ Len(r) < Len(r) + 1  BY <2>5, SMT
      <4>2. QED  BY <4>1, SubSeqEmpty
    <3>4. r \o ss[i] \in Seq(Word)  BY <1>1, <2>5, ConcatProperties
    <3>5. (r \o ss[i]) \o <<>> = r \o ss[i]  BY <3>4, ConcatEmptySeq
    <3>6. QED  BY <3>1, <3>2, <3>3, <3>5
  <2>7. pre[i] = Splice(r, size, i, ss[i])  BY <1>3, <2>2, <2>3, <2>6
  <2>8. i = j + 1 /\ i \in 1..(j + 1)  BY <2>1, <2>2
  <2>9. /\ Sized(pre[i], j + 1, size)
        /\ \A k \in 1..(j + 1) : Slice(pre[i], size, k) =
             IF k < i THEN Slice(r, size, k) ELSE IF k = i THEN ss[i] ELSE Slice(r, size, k - 1)
    BY <1>1, <2>4, <2>7, <2>8, SpliceFacts
  <2>10. ASSUME NEW k \in 1..i PROVE Slice(pre[i], size, k) = ss[k]
    <3>1. k \in 1..(j + 1) /\ (k < i => k \in 1..j) /\ (k < i \/ k = i)  BY <2>8, SMT
    <3>2. QED  BY <2>4, <2>9, <3>1
  <2>11. QED  BY <2>8, <2>9, <2>10
<1>6. \A i \in 0..n : i \in Good
  <2>1. Good \in SUBSET Nat  OBVIOUS
  <2> HIDE DEF Good
  <2>2. QED  BY <1>1, <1>4, <1>5, <2>1, Inductive
<1>7. n \in 0..n  BY <1>1, SMT
<1>8. Holds(n)  BY <1>6, <1>7
<1>9. QED  BY <1>2, <1>8 DEF n

-----------------------------------------------------------------------------
(* The data of a block's elements *)

(* Numbers below a half's range have no high half.                         *)
LEMMA SmallNumber ==
  ASSUME NEW n \in Nat, n < HalfRange
  PROVE  U32(n) = <<n, 0>> /\ U32(n) \in Word /\ U32(n)[1] = n /\ U32(n)[2] = 0
<1>1. n % 65536 = n /\ n \div 65536 = 0  BY SMT DEF HalfRange
<1>2. U32(n) = <<n, 0>>  BY <1>1 DEF U32, HalfRange
<1>3. QED  BY <1>2 DEF Word

(* A word read as a number no greater than a small m is that small number. *)
LEMMA FittingWord ==
  ASSUME NEW w \in Word, NEW m \in Nat, m < HalfRange, Fits(w, m)
  PROVE  w[1] \in Nat /\ w[1] <= m /\ w = U32(w[1])
<1>1. PICK x \in Nat, y \in Nat : w = <<x, y>>  BY DEF Word
<1>2. y = 0 /\ x <= m  BY <1>1 DEF Fits
<1>3. x < HalfRange  BY <1>2, SMT DEF HalfRange
<1>4. U32(x) = <<x, 0>>  BY <1>3, SmallNumber
<1>5. QED  BY <1>1, <1>2, <1>4

(* A small number, written as a word, is read as that number.              *)
LEMMA SmallFits ==
  ASSUME NEW n \in Nat, n < HalfRange, NEW m \in Nat, n <= m
  PROVE  Fits(U32(n), m)
BY SmallNumber DEF Fits

(* The decoder's cursor, at the start and along the elements.              *)
Cursor == [ok : BOOLEAN, rest : Seq(Word), elements : Seq(TreeType)]
At(rest, elements) == [ok |-> TRUE, rest |-> rest, elements |-> elements]

Reads(c, raw, size, v, rest, n) ==
  /\ DOMAIN c = 0..n /\ c = [i \in 0..n |-> c[i]]
  /\ c[0] = At(rest, <<>>)
  /\ \A i \in 1..n : c[i] = DecodeElement(c[i - 1], Slice(raw, size, i), v)

ReadStep(g, raw, size, v, rest, i) ==
  IF i = 0 THEN At(rest, <<>>) ELSE DecodeElement(g[i - 1], Slice(raw, size, i), v)

(* ReadElements is the end of the function it recurses by.                 *)
LEMMA ReadChooses ==
  ASSUME NEW raw, NEW size, NEW v, NEW rest, NEW n
  PROVE  ReadElements(raw, size, v, rest, n)
           = (CHOOSE g : g = [i \in 0..n |-> ReadStep(g, raw, size, v, rest, i)])[n]
BY DEF ReadElements, ReadStep, At

(* The decoder goes from element to element; it can go one way only.       *)
LEMMA ReadIs ==
  ASSUME NEW n \in Nat, NEW raw, NEW size, NEW v, NEW rest,
         NEW c, Reads(c, raw, size, v, rest, n)
  PROVE  ReadElements(raw, size, v, rest, n) = c[n]
<1> DEFINE step(g, i) == ReadStep(g, raw, size, v, rest, i)
           g == CHOOSE h : h = [i \in 0..n |-> ReadStep(h, raw, size, v, rest, i)]
<1>1. c = [i \in 0..n |-> ReadStep(c, raw, size, v, rest, i)]
  <2>1. ASSUME NEW i \in 0..n PROVE c[i] = ReadStep(c, raw, size, v, rest, i)
    <3>1. i = 0 \/ i \in 1..n  BY SMT
    <3>2. QED  BY <3>1 DEF Reads, ReadStep
  <2>2. c = [i \in 0..n |-> c[i]]  BY DEF Reads
  <2>3. [i \in 0..n |-> c[i]] = [i \in 0..n |-> ReadStep(c, raw, size, v, rest, i)]  BY <2>1
  <2>4. QED  BY <2>2, <2>3
<1>2. g = [i \in 0..n |-> ReadStep(g, raw, size, v, rest, i)]  BY <1>1
<1> HIDE DEF g
<1>3. \A i \in 0..n : g[i] = ReadStep(g, raw, size, v, rest, i)  BY <1>2
<1> DEFINE Good == {i \in Nat : i \in 0..n => g[i] = c[i]}
<1>4. 0 \in Good
  <2>1. 0 \in 0..n  BY SMT
  <2>2. g[0] = At(rest, <<>>)  BY <1>3, <2>1 DEF ReadStep
  <2>3. QED  BY <2>2 DEF Reads
<1>5. \A i \in 1..n : i - 1 \in Good => i \in Good
  <2>0. \A i \in 1..n : i \in Nat  BY SMT
  <2> SUFFICES ASSUME NEW i \in 1..n, i - 1 \in Good PROVE g[i] = c[i]  BY <2>0
  <2>1. i \in 0..n /\ i - 1 \in 0..n /\ i # 0  BY SMT
  <2>2. g[i] = DecodeElement(g[i - 1], Slice(raw, size, i), v)  BY <1>3, <2>1 DEF ReadStep
  <2>3. g[i - 1] = c[i - 1]  BY <2>1
  <2>4. QED  BY <2>2, <2>3 DEF Reads
<1>6. \A i \in 0..n : i \in Good
  <2>1. Good \in SUBSET Nat  OBVIOUS
  <2> HIDE DEF Good
  <2>2. QED  BY <1>4, <1>5, <2>1, Inductive
<1>7. n \in 0..n  BY SMT
<1>8. g[n] = c[n]  BY <1>6, <1>7
<1>9. QED  BY <1>8, ReadChooses DEF g

(* An element that is read leaves a cursor.                                *)
LEMMA ReadKeepsCursor ==
  ASSUME NEW c \in Cursor, NEW raw \in Seq(Word), NEW v \in Variant
  PROVE  DecodeElement(c, raw, v) \in Cursor
<1>1. c.ok \in BOOLEAN /\ c.rest \in Seq(Word) /\ c.elements \in Seq(TreeType)  BY DEF Cursor
<1>2. c = [ok |-> c.ok, rest |-> c.rest, elements |-> c.elements]  BY DEF Cursor
<1>3. CASE Len(raw) < 2
  <2>1. Tree(v, <<>>) \in TreeType  BY DEF Tree, TreeType
  <2>2. PICK es : es = Append(c.elements, Tree(v, <<>>))  OBVIOUS
  <2>3. es \in Seq(TreeType)  BY <1>1, <2>1, <2>2, AppendProperties
  <2>4. DecodeElement(c, raw, v) = [c EXCEPT !.elements = es]  BY <1>3, <2>2 DEF DecodeElement
  <2>5. QED  BY <2>3, <2>4 DEF Cursor
<1>4. CASE ~(Len(raw) < 2) /\ c.ok /\ Fits(raw[2], Len(c.rest))
  <2>1. PICK m : m = raw[2][1]  OBVIOUS
  <2>2. m \in 0..Len(c.rest)
    <3>1. 2 \in 1..Len(raw)
      <4>1. Len(raw) \in Nat  BY LenProperties
      <4>2. QED  BY <1>4, <4>1, SMT
    <3>2. raw[2] \in Word  BY <3>1, ElementOfSeq
    <3>3. PICK x \in Nat, y \in Nat : raw[2] = <<x, y>>  BY <3>2 DEF Word
    <3>4. m = x /\ x <= Len(c.rest)  BY <1>4, <2>1, <3>3 DEF Fits
    <3>5. Len(c.rest) \in Nat  BY <1>1, LenProperties
    <3>6. QED  BY <3>4, <3>5, SMT
  <2>3. SubSeq(c.rest, 1, m) \in Seq(Word) /\ Drop(c.rest, m) \in Seq(Word)
    BY <1>1, <2>2, SplitAt
  <2>4. Tree(v, <<SubSeq(c.rest, 1, m)>>) \in TreeType
    <3>1. PICK d \in Seq(Word) : d = SubSeq(c.rest, 1, m)  BY <2>3
    <3>2. <<d>> \in Seq(Seq(Word))  OBVIOUS
    <3>3. QED  BY <3>1, <3>2 DEF Tree, TreeType
  <2>5. PICK es : es = Append(c.elements, Tree(v, <<SubSeq(c.rest, 1, m)>>))  OBVIOUS
  <2>6. es \in Seq(TreeType)  BY <1>1, <2>4, <2>5, AppendProperties
  <2>7. PICK r : r = Drop(c.rest, m)  OBVIOUS
  <2>8. DecodeElement(c, raw, v) = [c EXCEPT !.rest = r, !.elements = es]
    BY <1>4, <2>1, <2>5, <2>7 DEF DecodeElement
  <2>9. QED  BY <2>3, <2>6, <2>7, <2>8 DEF Cursor
<1>5. CASE ~(Len(raw) < 2) /\ ~(c.ok /\ Fits(raw[2], Len(c.rest)))
  <2>1. DecodeElement(c, raw, v) = [c EXCEPT !.ok = FALSE]  BY <1>5 DEF DecodeElement
  <2>2. QED  BY <2>1 DEF Cursor
<1>6. QED  BY <1>3, <1>4, <1>5

(* So the decoder does go from element to element.                         *)
LEMMA ReadsExist ==
  ASSUME NEW n \in Nat, NEW size \in Nat, NEW raw, Sized(raw, n, size), NEW v \in Variant,
         NEW rest \in Seq(Word)
  PROVE  \E c \in [0..n -> Cursor] : Reads(c, raw, size, v, rest, n)
<1> DEFINE step == [p \in Cursor \X (1..n) |-> DecodeElement(p[1], Slice(raw, size, p[2]), v)]
<1>1. \A i \in 1..n : Slice(raw, size, i) \in Seq(Word)  BY SliceFacts
<1>2. step \in [Cursor \X (1..n) -> Cursor]
  <2> SUFFICES ASSUME NEW p \in Cursor \X (1..n)
               PROVE  DecodeElement(p[1], Slice(raw, size, p[2]), v) \in Cursor
    OBVIOUS
  <2>1. p[1] \in Cursor /\ p[2] \in 1..n  OBVIOUS
  <2>2. QED  BY <1>1, <2>1, ReadKeepsCursor
<1>3. \A c \in Cursor, i \in 1..n : step[<<c, i>>] = DecodeElement(c, Slice(raw, size, i), v)
  OBVIOUS
<1> HIDE DEF step
<1>4. At(rest, <<>>) \in Cursor  BY DEF At, Cursor
<1>5. PICK c \in [0..n -> Cursor] : Runs(c, n, At(rest, <<>>), step)
  BY <1>2, <1>4, RunExists
<1>6. ASSUME NEW i \in 1..n PROVE c[i] = DecodeElement(c[i - 1], Slice(raw, size, i), v)
  <2>1. i - 1 \in 0..n  BY SMT
  <2>2. c[i - 1] \in Cursor  BY <2>1
  <2>3. c[i] = step[<<c[i - 1], i>>]  BY <1>5 DEF Runs
  <2>4. QED  BY <1>3, <2>2, <2>3
<1>7. Reads(c, raw, size, v, rest, n)  BY <1>5, <1>6 DEF Runs, Reads
<1>8. QED  BY <1>7

(* The trees of variant v that hold the first i data of ds.                *)
TreesOf(ds, v, i) == [j \in 1..i |-> Tree(v, <<ds[j]>>)]

(* One more element read is one more tree at the end.                      *)
LEMMA TreesGrow ==
  ASSUME NEW ds \in Seq(Seq(Word)), NEW v \in Variant, NEW i \in 1..Len(ds)
  PROVE  /\ TreesOf(ds, v, i) \in Seq(TreeType) /\ Len(TreesOf(ds, v, i)) = i
         /\ Append(TreesOf(ds, v, i - 1), Tree(v, <<ds[i]>>)) = TreesOf(ds, v, i)
<1> DEFINE t(j) == Tree(v, <<ds[j]>>)
<1>1. i \in Nat /\ i - 1 \in Nat /\ i \in 1..i /\ \A j \in 1..i : j \in 1..Len(ds)
  <2>1. Len(ds) \in Nat  BY LenProperties
  <2>2. QED  BY <2>1, SMT
<1>2. \A j \in 1..i : t(j) \in TreeType
  <2> SUFFICES ASSUME NEW j \in 1..i PROVE t(j) \in TreeType  OBVIOUS
  <2>1. PICK d \in Seq(Word) : d = ds[j]  BY <1>1, ElementOfSeq
  <2>2. <<d>> \in Seq(Seq(Word))  OBVIOUS
  <2>3. QED  BY <2>1, <2>2 DEF Tree, TreeType
<1> HIDE DEF t
<1>3. \A k \in 0..i : [j \in 1..k |-> t(j)] \in Seq(TreeType) /\ Len([j \in 1..k |-> t(j)]) = k
  <2> SUFFICES ASSUME NEW k \in 0..i
               PROVE  [j \in 1..k |-> t(j)] \in Seq(TreeType) /\ Len([j \in 1..k |-> t(j)]) = k
    OBVIOUS
  <2>1. k \in Nat /\ \A j \in 1..k : j \in 1..i  BY <1>1, SMT
  <2>2. \A j \in 1..k : t(j) \in TreeType  BY <1>2, <2>1
  <2>3. QED  BY <2>1, <2>2
<1>4. i \in 0..i /\ i - 1 \in 0..i  BY <1>1, SMT
<1> DEFINE a == [j \in 1..(i - 1) |-> t(j)]
           b == [j \in 1..i |-> t(j)]
           e == t(i)
<1>5. a \in Seq(TreeType) /\ Len(a) = i - 1 /\ b \in Seq(TreeType) /\ Len(b) = i  BY <1>3, <1>4
<1>6. e \in TreeType  BY <1>1, <1>2
<1>7. (\A j \in 1..(i - 1) : a[j] = t(j)) /\ \A j \in 1..i : b[j] = t(j)  OBVIOUS
<1> HIDE DEF a, b, e
<1>8. /\ Append(a, e) \in Seq(TreeType) /\ Len(Append(a, e)) = Len(a) + 1
      /\ \A j \in 1..Len(a) : Append(a, e)[j] = a[j]
      /\ Append(a, e)[Len(a) + 1] = e
  BY <1>5, <1>6, AppendProperties
<1>9. Len(Append(a, e)) = i /\ Append(a, e)[i] = e /\ \A j \in 1..(i - 1) : Append(a, e)[j] = a[j]
  <2>1. (i - 1) + 1 = i  BY <1>1, SMT
  <2>2. QED  BY <1>5, <1>8, <2>1
<1>10. \A j \in 1..i : Append(a, e)[j] = b[j]
  <2> SUFFICES ASSUME NEW j \in 1..i PROVE Append(a, e)[j] = b[j]  OBVIOUS
  <2>1. j = i \/ j \in 1..(i - 1)  BY <1>1, SMT
  <2>2. QED  BY <1>7, <1>9, <2>1 DEF e
<1>11. Append(a, e) = b  BY <1>5, <1>8, <1>9, <1>10, SeqEqual
<1>12. QED  BY <1>5, <1>11 DEF a, b, e, t, TreesOf

-----------------------------------------------------------------------------
(* The fixed words of element i say how long its data is.                  *)
Tells(raw, size, ds) ==
  \A i \in 1..Len(ds) : Len(ds[i]) < Limit /\ Slice(raw, size, i)[2] = U32(Len(ds[i]))

(* The two bounds on words, as numbers.                                    *)
LEMMA Limits == Limit = 32768 /\ HalfRange = 65536
<1>1. 65536 \div 2 = 32768  BY SMT
<1>2. QED  BY <1>1 DEF Limit, HalfRange

(* The cursor moved on.                                                    *)
Moved(c, r, es) == [c EXCEPT !.rest = r, !.elements = es]

(* A cursor moved on is the cursor at the new place.                       *)
LEMMA AtBecomes ==
  ASSUME NEW w, NEW es, NEW r, NEW fs
  PROVE  Moved(At(w, es), r, fs) = At(r, fs)
<1>1. PICK c : c = At(w, es)  OBVIOUS
<1>2. c = [ok |-> TRUE, rest |-> w, elements |-> es]  BY <1>1 DEF At
<1>3. PICK d : d = [c EXCEPT !.rest = r, !.elements = fs]  OBVIOUS
<1>4. c \in [ok : {TRUE}, rest : {w, r}, elements : {es, fs}]  BY <1>2
<1>5. d \in [ok : {TRUE}, rest : {w, r}, elements : {es, fs}]  BY <1>3, <1>4
<1>6. d.rest = r /\ d.elements = fs /\ d.ok = TRUE  BY <1>3, <1>4
<1>7. d = [ok |-> d.ok, rest |-> d.rest, elements |-> d.elements]  BY <1>5
<1>8. QED  BY <1>1, <1>3, <1>6, <1>7 DEF At, Moved

(* What a length word says is read, and no more.                           *)
LEMMA ReadOne ==
  ASSUME NEW raw, Len(raw) \in Nat, Len(raw) >= 2, NEW d \in Seq(Word), Len(d) < Limit,
         raw[2] = U32(Len(d)), NEW rest \in Seq(Word), NEW es, NEW v
  PROVE  DecodeElement(At(d \o rest, es), raw, v) = At(rest, Append(es, Tree(v, <<d>>)))
<1>1. PICK m \in Nat : m = Len(d)  BY LenProperties
<1>2. PICK w : w = d \o rest  OBVIOUS
<1>3. w \in Seq(Word) /\ Len(w) = m + Len(rest) /\ SubSeq(w, 1, m) = d /\ Drop(w, m) = rest
  BY <1>1, <1>2, JoinedAt
<1>4. Len(rest) \in Nat /\ Len(w) \in Nat /\ m <= Len(w)
  <2>1. Len(rest) \in Nat  BY LenProperties
  <2>2. QED  BY <1>3, <2>1, SMT
<1>5. m < HalfRange  BY <1>1, Limits, SMT
<1>6. raw[2] = <<m, 0>> /\ raw[2][1] = m  BY <1>1, <1>5, SmallNumber
<1>7. Fits(raw[2], Len(w))  BY <1>4, <1>6 DEF Fits
<1>8. ~(Len(raw) < 2)  BY SMT
<1>9. PICK c : c = At(w, es)  OBVIOUS
<1>10. c.ok /\ c.rest = w /\ c.elements = es /\ c = [ok |-> TRUE, rest |-> w, elements |-> es]
  BY <1>9 DEF At
<1>11. DecodeElement(c, raw, v)
         = [c EXCEPT !.rest = Drop(w, m), !.elements = Append(es, Tree(v, <<SubSeq(w, 1, m)>>))]
  BY <1>6, <1>7, <1>8, <1>10 DEF DecodeElement
<1>12. PICK r, fs : r = Drop(w, m) /\ fs = Append(es, Tree(v, <<SubSeq(w, 1, m)>>))  OBVIOUS
<1>13. DecodeElement(c, raw, v) = Moved(c, r, fs)  BY <1>11, <1>12 DEF Moved
<1>14. Moved(c, r, fs) = At(r, fs)  BY <1>9, AtBecomes
<1>15. r = rest /\ fs = Append(es, Tree(v, <<d>>))  BY <1>3, <1>12
<1>16. c = At(d \o rest, es)  BY <1>2, <1>9
<1>17. QED  BY <1>13, <1>14, <1>15, <1>16

(* The data that the fixed words tell of are read back, whatever follows.  *)
LEMMA ReadsBack ==
  ASSUME NEW size \in Nat, size >= 2, NEW ds \in Seq(Seq(Word)), NEW raw,
         Sized(raw, Len(ds), size), Tells(raw, size, ds), NEW v \in Variant, NEW rest \in Seq(Word)
  PROVE  ReadElements(raw, size, v, FlattenSeq(ds) \o rest, Len(ds))
           = At(rest, TreesOf(ds, v, Len(ds)))
<1> DEFINE n == Len(ds)
<1>1. n \in Nat /\ \A i \in 1..n : ds[i] \in Seq(Word)  BY LenProperties, ElementOfSeq
<1>a. \A i \in 1..n : Len(Slice(raw, size, i)) = size
  <2>1. Sized(raw, n, size)  OBVIOUS
  <2> HIDE DEF n
  <2>2. QED  BY <1>1, <2>1, SliceFacts
<1>2. PICK suf \in [0..n -> Seq(Word)] : Rests(suf, ds, rest) /\ suf[0] = FlattenSeq(ds) \o rest
  BY RestsExist
<1>3. suf[n] = rest /\ \A i \in 1..n : suf[i - 1] = ds[i] \o suf[i]  BY <1>2 DEF Rests
<1> DEFINE c == [i \in 0..n |-> At(suf[i], TreesOf(ds, v, i))]
<1> HIDE DEF n
<1>4. DOMAIN c = 0..n /\ c = [i \in 0..n |-> c[i]]  OBVIOUS
<1>5. \A i \in 0..n : c[i] = At(suf[i], TreesOf(ds, v, i))  OBVIOUS
<1>6. 0 \in 0..n /\ n \in 0..n  BY <1>1, SMT
<1>7. TreesOf(ds, v, 0) = <<>>
  <2>1. 1..0 = {}  BY SMT
  <2>2. QED  BY <2>1 DEF TreesOf
<1> HIDE DEF c
<1>8. c[0] = At(FlattenSeq(ds) \o rest, <<>>)  BY <1>2, <1>5, <1>6, <1>7
<1>9. ASSUME NEW i \in 1..n PROVE c[i] = DecodeElement(c[i - 1], Slice(raw, size, i), v)
  <2>1. i \in 0..n /\ i - 1 \in 0..n  BY <1>1, SMT
  <2>2. Len(Slice(raw, size, i)) = size  BY <1>a
  <2>3. PICK r : r = Slice(raw, size, i)  OBVIOUS
  <2>4. PICK d \in Seq(Word) : d = ds[i]  BY <1>1
  <2>5. Len(r) \in Nat /\ Len(r) >= 2 /\ Len(d) < Limit /\ r[2] = U32(Len(d))
    BY <2>2, <2>3, <2>4 DEF Tells, n
  <2>6. PICK s \in Seq(Word) : s = suf[i]  BY <2>1
  <2>7. PICK es : es = TreesOf(ds, v, i - 1)  OBVIOUS
  <2>8. DecodeElement(At(d \o s, es), r, v) = At(s, Append(es, Tree(v, <<d>>)))
    BY <2>5, ReadOne
  <2>9. c[i - 1] = At(d \o s, es)  BY <1>3, <1>5, <2>1, <2>4, <2>6, <2>7
  <2>10. Append(es, Tree(v, <<d>>)) = TreesOf(ds, v, i)  BY <2>4, <2>7, TreesGrow DEF n
  <2>11. QED  BY <1>5, <2>1, <2>3, <2>6, <2>8, <2>9, <2>10
<1>10. Reads(c, raw, size, v, FlattenSeq(ds) \o rest, n)  BY <1>4, <1>8, <1>9 DEF Reads
<1>11. ReadElements(raw, size, v, FlattenSeq(ds) \o rest, n) = c[n]  BY <1>1, <1>10, ReadIs
<1>12. QED  BY <1>3, <1>5, <1>6, <1>11 DEF n

(* One element read: what was taken is a datum of the length told.         *)
LEMMA OneWasRead ==
  ASSUME NEW c \in Cursor, NEW raw \in Seq(Word), Len(raw) >= 2, NEW v \in Variant,
         Len(c.rest) < Limit, DecodeElement(c, raw, v).ok
  PROVE  \E d \in Seq(Word) :
           /\ c.ok
           /\ Len(d) < Limit /\ raw[2] = U32(Len(d))
           /\ DecodeElement(c, raw, v).rest \in Seq(Word)
           /\ c.rest = d \o DecodeElement(c, raw, v).rest
           /\ DecodeElement(c, raw, v).elements = Append(c.elements, Tree(v, <<d>>))
<1>1. /\ c.rest \in Seq(Word) /\ Len(c.rest) \in Nat /\ Len(raw) \in Nat
      /\ c = [ok |-> c.ok, rest |-> c.rest, elements |-> c.elements]
  BY LenProperties DEF Cursor
<1>2. ~(Len(raw) < 2) /\ 2 \in 1..Len(raw)  BY <1>1, SMT
<1>3. c.ok /\ Fits(raw[2], Len(c.rest))
  <2>1. SUFFICES ASSUME ~(c.ok /\ Fits(raw[2], Len(c.rest))) PROVE FALSE  OBVIOUS
  <2>2. DecodeElement(c, raw, v) = [c EXCEPT !.ok = FALSE]  BY <1>2, <2>1 DEF DecodeElement
  <2>3. [c EXCEPT !.ok = FALSE].ok = FALSE  BY <1>1
  <2>4. QED  BY <2>2, <2>3
<1>4. raw[2] \in Word  BY <1>2, ElementOfSeq
<1>5. PICK m : m = raw[2][1]  OBVIOUS
<1>6. m \in Nat /\ m <= Len(c.rest) /\ raw[2] = U32(m)
  <2>1. Len(c.rest) < HalfRange  BY <1>1, Limits, SMT
  <2>2. QED  BY <1>1, <1>3, <1>4, <1>5, <2>1, FittingWord
<1>7. m \in 0..Len(c.rest) /\ m < Limit  BY <1>1, <1>6, Limits, SMT
<1>8. PICK d : d = SubSeq(c.rest, 1, m)  OBVIOUS
<1>9. PICK r : r = Drop(c.rest, m)  OBVIOUS
<1>10. d \in Seq(Word) /\ Len(d) = m /\ r \in Seq(Word) /\ c.rest = d \o r
  <2>1. PICK s \in Seq(Word) : s = c.rest  BY <1>1
  <2>2. m \in 0..Len(s)  BY <1>7, <2>1
  <2>3. /\ SubSeq(s, 1, m) \in Seq(Word) /\ Len(SubSeq(s, 1, m)) = m
        /\ Drop(s, m) \in Seq(Word)
        /\ s = SubSeq(s, 1, m) \o Drop(s, m)
    BY <2>2, SplitAt
  <2>4. d = SubSeq(s, 1, m) /\ r = Drop(s, m)  BY <1>8, <1>9, <2>1
  <2>5. QED  BY <2>1, <2>3, <2>4
<1>11. PICK es : es = Append(c.elements, Tree(v, <<d>>))  OBVIOUS
<1>12. DecodeElement(c, raw, v) = [c EXCEPT !.rest = r, !.elements = es]
  BY <1>2, <1>3, <1>5, <1>8, <1>9, <1>11 DEF DecodeElement
<1>13. [c EXCEPT !.rest = r, !.elements = es].rest = r
       /\ [c EXCEPT !.rest = r, !.elements = es].elements = es
  BY <1>1
<1>14. QED  BY <1>3, <1>6, <1>7, <1>10, <1>11, <1>12, <1>13

(* Reading takes words away and puts none back.                            *)
LEMMA ReadShrinks ==
  ASSUME NEW c \in Cursor, NEW raw \in Seq(Word), NEW v \in Variant
  PROVE  Len(DecodeElement(c, raw, v).rest) <= Len(c.rest)
<1>1. c.rest \in Seq(Word) /\ Len(c.rest) \in Nat
      /\ c = [ok |-> c.ok, rest |-> c.rest, elements |-> c.elements]
  BY LenProperties DEF Cursor
<1>2. CASE Len(raw) < 2
  <2>1. PICK es : es = Append(c.elements, Tree(v, <<>>))  OBVIOUS
  <2>2. DecodeElement(c, raw, v) = [c EXCEPT !.elements = es]  BY <1>2, <2>1 DEF DecodeElement
  <2>3. [c EXCEPT !.elements = es].rest = c.rest  BY <1>1
  <2>4. QED  BY <1>1, <2>2, <2>3, SMT
<1>3. CASE ~(Len(raw) < 2) /\ c.ok /\ Fits(raw[2], Len(c.rest))
  <2>1. PICK m : m = raw[2][1]  OBVIOUS
  <2>2. m \in 0..Len(c.rest)
    <3>1. 2 \in 1..Len(raw)
      <4>1. Len(raw) \in Nat  BY LenProperties
      <4>2. QED  BY <1>3, <4>1, SMT
    <3>2. raw[2] \in Word  BY <3>1, ElementOfSeq
    <3>3. PICK x \in Nat, y \in Nat : raw[2] = <<x, y>>  BY <3>2 DEF Word
    <3>4. m = x /\ x <= Len(c.rest)  BY <1>3, <2>1, <3>3 DEF Fits
    <3>5. QED  BY <1>1, <3>4, SMT
  <2>3. PICK r : r = Drop(c.rest, m)  OBVIOUS
  <2>4. Len(r) = Len(c.rest) - m
    <3>1. PICK s \in Seq(Word) : s = c.rest  BY <1>1
    <3>2. m \in 0..Len(s)  BY <2>2, <3>1
    <3>3. Len(Drop(s, m)) = Len(s) - m  BY <3>2, SplitAt
    <3>4. QED  BY <2>3, <3>1, <3>3
  <2>5. PICK es : es = Append(c.elements, Tree(v, <<SubSeq(c.rest, 1, m)>>))  OBVIOUS
  <2>6. DecodeElement(c, raw, v) = [c EXCEPT !.rest = r, !.elements = es]
    BY <1>3, <2>1, <2>3, <2>5 DEF DecodeElement
  <2>7. [c EXCEPT !.rest = r, !.elements = es].rest = r  BY <1>1
  <2>8. QED  BY <1>1, <2>2, <2>4, <2>6, <2>7, SMT
<1>4. CASE ~(Len(raw) < 2) /\ ~(c.ok /\ Fits(raw[2], Len(c.rest)))
  <2>1. DecodeElement(c, raw, v) = [c EXCEPT !.ok = FALSE]  BY <1>4 DEF DecodeElement
  <2>2. [c EXCEPT !.ok = FALSE].rest = c.rest  BY <1>1
  <2>3. QED  BY <1>1, <2>1, <2>2, SMT
<1>5. QED  BY <1>2, <1>3, <1>4

(* All the elements read: the words are their data and what is left.       *)
LEMMA ReadsWhole ==
  ASSUME NEW n \in Nat, NEW size \in Nat, size >= 2, NEW raw, Sized(raw, n, size),
         NEW v \in Variant, NEW rest \in Seq(Word), Len(rest) < Limit,
         ReadElements(raw, size, v, rest, n).ok
  PROVE  \E ds \in Seq(Seq(Word)), left \in Seq(Word) :
           /\ Len(ds) = n /\ Tells(raw, size, ds)
           /\ rest = FlattenSeq(ds) \o left /\ Len(left) <= Len(rest)
           /\ ReadElements(raw, size, v, rest, n) = At(left, TreesOf(ds, v, n))
<1>1. PICK c \in [0..n -> Cursor] : Reads(c, raw, size, v, rest, n)  BY ReadsExist
<1>2. c[0] = At(rest, <<>>)
      /\ \A i \in 1..n : c[i] = DecodeElement(c[i - 1], Slice(raw, size, i), v)
  BY <1>1 DEF Reads
<1>3. c[n].ok  BY <1>1, ReadIs
<1>4. \A i \in 0..n : c[i].rest \in Seq(Word) /\ Len(c[i].rest) \in Nat
  BY LenProperties DEF Cursor
<1>5. Len(rest) \in Nat /\ Len(rest) < Limit /\ Limit \in Nat  BY LenProperties, Limits
<1>6. \A i \in 1..n : Slice(raw, size, i) \in Seq(Word) /\ Len(Slice(raw, size, i)) = size
  BY SliceFacts
<1>7. \A i \in 1..n : i \in 0..n /\ i - 1 \in 0..n  BY SMT
<1>8. \A i \in 0..n : Len(c[i].rest) <= Len(rest)
  <2> DEFINE Good == {i \in Nat : i \in 0..n => Len(c[i].rest) <= Len(rest)}
  <2>1. 0 \in Good
    <3>1. c[0].rest = rest  BY <1>2 DEF At
    <3>2. QED  BY <1>5, <3>1, SMT
  <2>2. \A i \in 1..n : i - 1 \in Good => i \in Good
    <3>1. \A i \in 1..n : i \in Nat  BY SMT
    <3> SUFFICES ASSUME NEW i \in 1..n, i - 1 \in Good PROVE Len(c[i].rest) <= Len(rest)  BY <3>1
    <3>2. Len(c[i - 1].rest) <= Len(rest) /\ c[i - 1] \in Cursor  BY <1>7
    <3>3. Len(c[i].rest) <= Len(c[i - 1].rest)  BY <1>2, <1>6, <3>2, ReadShrinks
    <3>4. Len(c[i].rest) \in Nat /\ Len(c[i - 1].rest) \in Nat  BY <1>4, <1>7
    <3>5. QED  BY <1>5, <3>2, <3>3, <3>4, SMT
  <2>3. \A i \in 0..n : i \in Good
    <3>1. Good \in SUBSET Nat  OBVIOUS
    <3> HIDE DEF Good
    <3>2. QED  BY <2>1, <2>2, <3>1, Inductive
  <2>4. QED  BY <2>3
<1> DEFINE Taken(i, d) ==
             /\ c[i - 1].ok
             /\ Len(d) < Limit /\ Slice(raw, size, i)[2] = U32(Len(d))
             /\ c[i - 1].rest = d \o c[i].rest
<1>9. ASSUME NEW i \in 1..n, c[i].ok PROVE \E d \in Seq(Word) : Taken(i, d)
  <2>1. PICK r \in Seq(Word) : r = Slice(raw, size, i)  BY <1>6
  <2>2. Len(r) >= 2  BY <1>6, <2>1, SMT
  <2>3. PICK b \in Cursor : b = c[i - 1]  BY <1>7
  <2>4. Len(b.rest) < Limit
    <3>1. Len(c[i - 1].rest) <= Len(rest) /\ Len(c[i - 1].rest) \in Nat  BY <1>4, <1>7, <1>8
    <3>2. QED  BY <1>5, <2>3, <3>1, SMT
  <2>5. c[i] = DecodeElement(b, r, v)  BY <1>2, <2>1, <2>3
  <2>6. DecodeElement(b, r, v).ok  BY <1>9, <2>5
  <2>7. PICK d \in Seq(Word) : /\ b.ok
                               /\ Len(d) < Limit /\ r[2] = U32(Len(d))
                               /\ b.rest = d \o DecodeElement(b, r, v).rest
    BY <2>2, <2>4, <2>6, OneWasRead
  <2>8. Taken(i, d)  BY <2>1, <2>3, <2>5, <2>7
  <2>9. QED  BY <2>8
<1>10. \A i \in 0..n : c[i].ok
  <2> DEFINE Good == {k \in Nat : k \in 0..n => c[n - k].ok}
  <2>1. 0 \in Good
    <3>1. n - 0 = n  BY SMT
    <3>2. QED  BY <1>3, <3>1
  <2>2. \A k \in 1..n : k - 1 \in Good => k \in Good
    <3>1. \A k \in 1..n : k \in Nat  BY SMT
    <3> SUFFICES ASSUME NEW k \in 1..n, k - 1 \in Good PROVE c[n - k].ok  BY <3>1
    <3>2. PICK i : i = n - (k - 1)  OBVIOUS
    <3>3. i \in 1..n /\ i - 1 = n - k  BY <3>2, SMT
    <3>4. c[i].ok  BY <1>7, <3>2
    <3>5. c[i - 1].ok  BY <1>9, <3>3, <3>4
    <3>6. QED  BY <3>3, <3>5
  <2>3. \A k \in 0..n : k \in Good
    <3>1. Good \in SUBSET Nat  OBVIOUS
    <3> HIDE DEF Good
    <3>2. QED  BY <2>1, <2>2, <3>1, Inductive
  <2>4. ASSUME NEW i \in 0..n PROVE c[i].ok
    <3>1. n - i \in 0..n /\ n - (n - i) = i  BY SMT
    <3>2. n - i \in Good  BY <2>3, <3>1
    <3>3. QED  BY <3>1, <3>2
  <2>5. QED  BY <2>4
<1> DEFINE pick(i) == CHOOSE d \in Seq(Word) : Taken(i, d)
           ds == [i \in 1..n |-> pick(i)]
<1>11. \A i \in 1..n : ds[i] \in Seq(Word) /\ Taken(i, ds[i])
  <2> SUFFICES ASSUME NEW i \in 1..n PROVE ds[i] \in Seq(Word) /\ Taken(i, ds[i])  OBVIOUS
  <2>1. \E d \in Seq(Word) : Taken(i, d)  BY <1>7, <1>9, <1>10
  <2>2. ds[i] = CHOOSE d \in Seq(Word) : Taken(i, d)  OBVIOUS
  <2> HIDE DEF Taken, ds, pick
  <2>3. QED  BY <2>1, <2>2
<1>12. ds \in Seq(Seq(Word)) /\ Len(ds) = n
  <2>1. \A i \in 1..n : ds[i] \in Seq(Word)  BY <1>11
  <2> HIDE DEF pick
  <2>2. ds = [i \in 1..n |-> ds[i]]  OBVIOUS
  <2> HIDE DEF ds
  <2>3. QED  BY <2>1, <2>2
<1> HIDE DEF ds
<1>13. Tells(raw, size, ds)  BY <1>11, <1>12 DEF Tells
<1> DEFINE suf == [i \in 0..n |-> c[i].rest]
<1>14. suf \in [0..Len(ds) -> Seq(Word)]  BY <1>4, <1>12
<1>15. suf[0] = rest /\ suf[n] = c[n].rest
  <2>1. 0 \in 0..n /\ n \in 0..n  BY SMT
  <2>2. QED  BY <1>2, <2>1 DEF At
<1>16. \A i \in 1..n : suf[i - 1] = ds[i] \o suf[i]
  <2> SUFFICES ASSUME NEW i \in 1..n PROVE suf[i - 1] = ds[i] \o suf[i]  OBVIOUS
  <2>1. suf[i - 1] = c[i - 1].rest /\ suf[i] = c[i].rest  BY <1>7
  <2>2. c[i - 1].rest = ds[i] \o c[i].rest  BY <1>11
  <2>3. QED  BY <2>1, <2>2
<1> HIDE DEF suf
<1>17. PICK left \in Seq(Word) : left = c[n].rest
  <2>1. n \in 0..n  BY SMT
  <2>2. QED  BY <1>4, <2>1
<1>18. Rests(suf, ds, left)  BY <1>12, <1>15, <1>16, <1>17 DEF Rests
<1>19. rest = FlattenSeq(ds) \o left  BY <1>12, <1>14, <1>15, <1>18, FlattenRests
<1>20. Len(left) <= Len(rest)
  <2>1. n \in 0..n  BY SMT
  <2>2. QED  BY <1>8, <1>17, <2>1
<1>21. ReadElements(raw, size, v, FlattenSeq(ds) \o left, Len(ds)) = At(left, TreesOf(ds, v, Len(ds)))
  <2>1. Sized(raw, Len(ds), size)  BY <1>12
  <2>2. QED  BY <1>12, <1>13, <2>1, ReadsBack
<1>22. QED  BY <1>12, <1>13, <1>19, <1>20, <1>21

-----------------------------------------------------------------------------
(* A block in a file: what the decoder makes of it *)

(* Trees of one variant, each with a data field that a word can measure.   *)
Spans(els, v) ==
  \A i \in 1..Len(els) : \E d \in Seq(Word) : Len(d) < Limit /\ els[i] = Tree(v, <<d>>)

DataOf(els) == [i \in 1..Len(els) |-> els[i].data[1]]

(* The data taken out of trees, and the trees made of it again.            *)
LEMMA DataFacts ==
  ASSUME NEW els \in Seq(TreeType), NEW v, Spans(els, v)
  PROVE  /\ DataOf(els) \in Seq(Seq(Word)) /\ Len(DataOf(els)) = Len(els)
         /\ \A i \in 1..Len(els) : /\ DataOf(els)[i] \in Seq(Word) /\ Len(DataOf(els)[i]) < Limit
                                   /\ els[i] = Tree(v, <<DataOf(els)[i]>>)
         /\ els = TreesOf(DataOf(els), v, Len(els))
<1> DEFINE n == Len(els)
<1>1. n \in Nat  BY LenProperties
<1>2. \A i \in 1..n : /\ els[i].data[1] \in Seq(Word) /\ Len(els[i].data[1]) < Limit
                      /\ els[i] = Tree(v, <<els[i].data[1]>>)
  <2> SUFFICES ASSUME NEW i \in 1..n
               PROVE  /\ els[i].data[1] \in Seq(Word) /\ Len(els[i].data[1]) < Limit
                      /\ els[i] = Tree(v, <<els[i].data[1]>>)
    OBVIOUS
  <2>1. PICK d \in Seq(Word) : Len(d) < Limit /\ els[i] = Tree(v, <<d>>)  BY DEF Spans
  <2>2. Tree(v, <<d>>).data = <<d>>  BY DEF Tree
  <2>3. els[i].data[1] = d  BY <2>1, <2>2
  <2>4. QED  BY <2>1, <2>3
<1> DEFINE e(i) == els[i].data[1]
           ds == [i \in 1..n |-> e(i)]
<1>3. \A i \in 1..n : ds[i] = e(i)  OBVIOUS
<1>4. \A i \in 1..n : e(i) \in Seq(Word)  BY <1>2
<1>5. ds \in Seq(Seq(Word)) /\ Len(ds) = n
  <2> HIDE DEF e
  <2>1. QED  BY <1>1, <1>4
<1>6. DataOf(els) = ds  BY DEF DataOf
<1>7. els = [i \in 1..n |-> els[i]]  BY SeqDef
<1>8. [i \in 1..n |-> els[i]] = [i \in 1..n |-> Tree(v, <<ds[i]>>)]  BY <1>2, <1>3
<1>9. els = TreesOf(ds, v, n)  BY <1>7, <1>8 DEF TreesOf
<1> HIDE DEF ds
<1>10. QED  BY <1>2, <1>3, <1>5, <1>6, <1>9

(* The trees made of data, and the data taken out again.                   *)
LEMMA TreesFacts ==
  ASSUME NEW ds \in Seq(Seq(Word)), NEW v \in Variant, \A i \in 1..Len(ds) : Len(ds[i]) < Limit
  PROVE  /\ TreesOf(ds, v, Len(ds)) \in Seq(TreeType) /\ Len(TreesOf(ds, v, Len(ds))) = Len(ds)
         /\ Spans(TreesOf(ds, v, Len(ds)), v)
         /\ DataOf(TreesOf(ds, v, Len(ds))) = ds
<1> DEFINE n == Len(ds)
           ts == TreesOf(ds, v, n)
<1>1. n \in Nat /\ \A i \in 1..n : ds[i] \in Seq(Word)  BY LenProperties, ElementOfSeq
<1>2. \A i \in 1..n : ts[i] = Tree(v, <<ds[i]>>)  BY DEF TreesOf
<1>3. \A i \in 1..n : Tree(v, <<ds[i]>>) \in TreeType
  <2> SUFFICES ASSUME NEW i \in 1..n PROVE Tree(v, <<ds[i]>>) \in TreeType  OBVIOUS
  <2>1. PICK d \in Seq(Word) : d = ds[i]  BY <1>1
  <2>2. <<d>> \in Seq(Seq(Word))  OBVIOUS
  <2>3. QED  BY <2>1, <2>2 DEF Tree, TreeType
<1> DEFINE t(i) == Tree(v, <<ds[i]>>)
<1>4. ts = [i \in 1..n |-> t(i)]  BY DEF TreesOf
<1>5. ts \in Seq(TreeType) /\ Len(ts) = n
  <2> HIDE DEF ts, t, n
  <2>1. \A i \in 1..n : t(i) \in TreeType  BY <1>3 DEF t
  <2>2. QED  BY <1>1, <1>4, <2>1
<1>6. Spans(ts, v)
  <2> SUFFICES ASSUME NEW i \in 1..n
               PROVE  \E d \in Seq(Word) : Len(d) < Limit /\ ts[i] = Tree(v, <<d>>)
    BY <1>5 DEF Spans
  <2>1. QED  BY <1>1, <1>2
<1> HIDE DEF ts
<1>7. DataOf(ts) \in Seq(Seq(Word)) /\ Len(DataOf(ts)) = n
      /\ \A i \in 1..n : ts[i] = Tree(v, <<DataOf(ts)[i]>>)
  BY <1>5, <1>6, DataFacts
<1>8. ASSUME NEW i \in 1..n PROVE DataOf(ts)[i] = ds[i]
  <2>1. PICK d : d = DataOf(ts)[i]  OBVIOUS
  <2>2. Tree(v, <<d>>) = Tree(v, <<ds[i]>>)  BY <1>2, <1>7, <2>1
  <2>3. <<d>> = <<ds[i]>>  BY <2>2 DEF Tree
  <2>4. QED  BY <2>1, <2>3
<1>9. DataOf(ts) = ds  BY <1>7, <1>8, SeqEqual
<1>10. QED  BY <1>5, <1>6, <1>9 DEF ts

(* A block's words in the file.                                            *)
Chunk(x) == Cat(x.header, Cat(x.raw, FlattenSeq(DataOf(x.elements))))

(* A block of n elements of a width: the product stays in range.           *)
LEMMA ExtentFacts ==
  ASSUME NEW n \in Nat \ {0}, NEW size \in Nat \ {0}
  PROVE  n * size \in Nat /\ n <= n * size /\ size <= n * size
<1>1. n \in Nat /\ size \in Nat /\ 1 <= n /\ 1 <= size /\ 1 \in Nat  BY SMT
<1>2. 1 * size <= n * size  BY <1>1, ProductGrows
<1>3. 1 * n <= size * n  BY <1>1, ProductGrows
<1>4. 1 * size = size /\ 1 * n = n /\ size * n = n * size /\ n * size \in Nat  BY SMT
<1>5. QED  BY <1>2, <1>3, <1>4

(* What a header can count, and the widths of elements with a data field.  *)
Few  == 1..(Limit - 1)
Wide == 2..(Limit - 1)

(* A few elements are more than none and far from the range of a word.     *)
LEMMA Counted ==
  ASSUME NEW n \in Few
  PROVE  n \in Nat \ {0} /\ n \in Nat /\ n < Limit /\ n < HalfRange
<1>1. Limit = 32768  BY Limits
<1>2. n \in 1..32767  BY <1>1, SMT DEF Few
<1>3. n \in Nat \ {0} /\ n < 32768 /\ n < 65536  BY <1>2, SMT
<1>4. QED  BY <1>3, Limits

(* A width that the decoder tells from a count is at least two.            *)
LEMMA Widened ==
  ASSUME NEW n \in Wide
  PROVE  n \in Few /\ n >= 2
<1>1. Limit = 32768  BY Limits
<1>2. n \in 2..32767  BY <1>1, SMT DEF Wide
<1>a. n \in Int /\ 2 <= n /\ n <= 32767  BY <1>2, SMT
<1>3. n \in 1..32767 /\ n >= 2  BY <1>a, SMT
<1>4. QED  BY <1>1, <1>3, SMT DEF Few

(* What the decoder makes of a block.                                      *)
ReadBlock(raw, els, h) == BlockData(raw, els, h, FALSE)
Got(rest, x) == [ok |-> TRUE, rest |-> rest, block |-> x]

(* Fixed words and data that tell of each other are read as they stand.    *)
LEMMA ElementsBack ==
  ASSUME NEW n \in Few, NEW size \in Wide, NEW v \in Variant,
         NEW ds \in Seq(Seq(Word)), Len(ds) = n, NEW raw, Sized(raw, n, size), Tells(raw, size, ds),
         NEW h, NEW rest \in Seq(Word)
  PROVE  DecodeElements(h, U32(n), U32(size), v, Cat(raw, Cat(FlattenSeq(ds), rest)))
           = Got(rest, ReadBlock(raw, TreesOf(ds, v, n), h))
<1>1. n \in Nat \ {0} /\ n \in Nat /\ n < HalfRange /\ size \in Nat \ {0} /\ size \in Nat
      /\ size < HalfRange /\ size >= 2
  BY Counted, Widened
<1>2. PICK d \in Seq(Word) : d = Cat(FlattenSeq(ds), rest)
  <2>1. FlattenSeq(ds) \in Seq(Word)  BY FlattenType
  <2>2. QED  BY <2>1, CatFacts
<1>3. PICK w \in Seq(Word) : w = Cat(raw, d)
  <2>1. raw \in Seq(Word)  BY DEF Sized
  <2>2. QED  BY <2>1, CatFacts
<1>4. /\ raw \in Seq(Word) /\ Len(raw) = n * size /\ n * size \in Nat
      /\ Len(w) = Len(raw) + Len(d) /\ Len(d) \in Nat /\ Len(w) \in Nat
      /\ SubSeq(w, 1, Len(raw)) = raw /\ Drop(w, Len(raw)) = d
  <2>1. raw \in Seq(Word) /\ Len(raw) = n * size  BY DEF Sized
  <2>2. w = raw \o d  BY <1>3 DEF Cat
  <2>3. QED  BY <1>1, <2>1, <2>2, JoinedAt, LenProperties, ExtentFacts
<1>5. n <= Len(w) /\ size <= Len(w) /\ n * size <= Len(w)
  <2>1. n <= n * size /\ size <= n * size /\ n * size \in Nat  BY <1>1, ExtentFacts
  <2>2. PICK y : y = n * size  OBVIOUS
  <2>3. PICK u, t : u = Len(w) /\ t = Len(d)  OBVIOUS
  <2>4. u = y + t /\ t \in Nat /\ y \in Nat /\ n <= y /\ size <= y  BY <1>4, <2>1, <2>2, <2>3
  <2>5. n <= u /\ size <= u /\ y <= u  BY <1>1, <2>4, SMT
  <2>6. QED  BY <2>2, <2>3, <2>5
<1>6. PICK c : c = U32(n)  OBVIOUS
<1>7. PICK z : z = U32(size)  OBVIOUS
<1>8. c[1] = n /\ z[1] = size /\ Fits(c, Len(w)) /\ Fits(z, Len(w))
  BY <1>1, <1>4, <1>5, <1>6, <1>7, SmallNumber, SmallFits
<1>9. z # Zero
  <2>1. z = <<size, 0>>  BY <1>1, <1>7, SmallNumber
  <2>2. QED  BY <1>1, <2>1 DEF Zero
<1>10. CheckedBlockExtent(c, z, w)  BY <1>5, <1>8, <1>9 DEF CheckedBlockExtent
<1>11. PICK e : e = ReadElements(raw, size, v, d, n)  OBVIOUS
<1>12. e = At(rest, TreesOf(ds, v, n))
  <2>1. FlattenSeq(ds) \o rest = d  BY <1>2 DEF Cat
  <2>2. ReadElements(raw, size, v, FlattenSeq(ds) \o rest, Len(ds)) = At(rest, TreesOf(ds, v, Len(ds)))
    BY <1>1, ReadsBack
  <2>3. QED  BY <1>11, <2>1, <2>2
<1>13. SubSeq(w, 1, c[1] * z[1]) = raw  BY <1>4, <1>8
<1>14. DecodeElements(h, c, z, v, w)
         = [ok |-> e.ok, rest |-> e.rest, block |-> BlockData(raw, e.elements, h, FALSE)]
  BY <1>4, <1>8, <1>10, <1>11, <1>13 DEF DecodeElements
<1>15. e.ok = TRUE /\ e.rest = rest /\ e.elements = TreesOf(ds, v, n)  BY <1>12 DEF At
<1>16. Cat(raw, Cat(FlattenSeq(ds), rest)) = w  BY <1>2, <1>3
<1>17. QED  BY <1>6, <1>7, <1>14, <1>15, <1>16 DEF Got, ReadBlock

-----------------------------------------------------------------------------
(* What a block that was read was like in the file *)

(* Which numbers are few, and which are widths.                            *)
LEMMA Counting ==
  ASSUME NEW n \in Nat \ {0}, n < Limit
  PROVE  n \in Few /\ (n # 1 => n \in Wide /\ n >= 2)
<1>1. Limit = 32768  BY Limits
<1>2. n < 32768 /\ n \in Nat /\ n # 0  BY <1>1
<1>3. 1 <= n /\ n <= 32767 /\ (n # 1 => 2 <= n)  BY <1>2, SMT
<1>4. Limit - 1 = 32767  BY <1>1, SMT
<1>5. n <= Limit - 1 /\ Limit - 1 \in Int  BY <1>3, <1>4, SMT
<1>6. n \in 1..(Limit - 1)  BY <1>2, <1>3, <1>5, SMT
<1>7. ASSUME n # 1 PROVE n \in 2..(Limit - 1) /\ n >= 2  BY <1>2, <1>3, <1>5, <1>7, SMT
<1>8. QED  BY <1>6, <1>7 DEF Few, Wide

(* With no elements, nothing is read.                                      *)
LEMMA ReadsNone ==
  ASSUME NEW raw, NEW size, NEW v, NEW rest
  PROVE  ReadElements(raw, size, v, rest, 0) = At(rest, <<>>)
<1> DEFINE c == [i \in 0..0 |-> At(rest, <<>>)]
<1>1. c[0] = At(rest, <<>>) /\ DOMAIN c = 0..0 /\ c = [i \in 0..0 |-> c[i]]  BY SMT
<1>2. \A i \in 1..0 : FALSE  BY SMT
<1> HIDE DEF c
<1>3. Reads(c, raw, size, v, rest, 0)  BY <1>1, <1>2 DEF Reads
<1>4. QED  BY <1>1, <1>3, ReadIs

(* Elements of one word have no data, and there are as many as counted.    *)
LEMMA ReadCounts ==
  ASSUME NEW n \in Nat, NEW raw, Sized(raw, n, 1), NEW v \in Variant, NEW rest \in Seq(Word)
  PROVE  Len(ReadElements(raw, 1, v, rest, n).elements) = n
<1>0. 1 \in Nat  BY SMT
<1>a. \A i \in 1..n : Len(Slice(raw, 1, i)) = 1
  <2>1. PICK w : w = 1  OBVIOUS
  <2>2. w \in Nat /\ Sized(raw, n, w)  BY <1>0, <2>1
  <2>3. \A i \in 1..n : Len(Slice(raw, w, i)) = w  BY <2>2, SliceFacts
  <2>4. QED  BY <2>1, <2>3
<1>1. PICK c \in [0..n -> Cursor] : Reads(c, raw, 1, v, rest, n)  BY <1>0, ReadsExist
<1>2. c[0] = At(rest, <<>>)
      /\ \A i \in 1..n : c[i] = DecodeElement(c[i - 1], Slice(raw, 1, i), v)
  BY <1>1 DEF Reads
<1> DEFINE Good == {i \in Nat : i \in 0..n => Len(c[i].elements) = i}
<1>3. 0 \in Good
  <2>1. c[0].elements = <<>>  BY <1>2 DEF At
  <2>2. QED  BY <2>1
<1>4. \A i \in 1..n : i - 1 \in Good => i \in Good
  <2>1. \A i \in 1..n : i \in Nat  BY SMT
  <2> SUFFICES ASSUME NEW i \in 1..n, i - 1 \in Good PROVE Len(c[i].elements) = i  BY <2>1
  <2>2. i - 1 \in 0..n /\ i - 1 \in Nat /\ (i - 1) + 1 = i  BY SMT
  <2>3. PICK b \in Cursor : b = c[i - 1]  BY <2>2
  <2>4. b.elements \in Seq(TreeType) /\ Len(b.elements) = i - 1
        /\ b = [ok |-> b.ok, rest |-> b.rest, elements |-> b.elements]
    BY <2>2, <2>3 DEF Cursor
  <2>5. PICK r : r = Slice(raw, 1, i)  OBVIOUS
  <2>6. Len(r) = 1  BY <1>a, <2>5
  <2>7. Len(r) < 2  BY <2>6, SMT
  <2>8. PICK e : e = Append(b.elements, Tree(v, <<>>))  OBVIOUS
  <2>9. Len(e) = i
    <3>1. Tree(v, <<>>) \in TreeType  BY DEF Tree, TreeType
    <3>2. Len(e) = Len(b.elements) + 1  BY <2>4, <2>8, <3>1, AppendProperties
    <3>3. QED  BY <2>2, <2>4, <3>2
  <2>10. c[i] = [b EXCEPT !.elements = e]  BY <1>2, <2>3, <2>5, <2>7, <2>8 DEF DecodeElement
  <2>11. [b EXCEPT !.elements = e].elements = e  BY <2>4
  <2>12. QED  BY <2>9, <2>10, <2>11
<1>5. \A i \in 0..n : i \in Good
  <2>1. Good \in SUBSET Nat  OBVIOUS
  <2> HIDE DEF Good
  <2>2. QED  BY <1>3, <1>4, <2>1, Inductive
<1>6. n \in 0..n  BY SMT
<1>7. Len(c[n].elements) = n  BY <1>5, <1>6
<1>8. QED  BY <1>1, <1>7, ReadIs

(* n elements of a width w that were read from rest.                       *)
WereThere(d, h, v, rest, n, w, ds, raw, left) ==
  /\ Len(ds) = n /\ Sized(raw, n, w) /\ Tells(raw, w, ds)
  /\ rest = Cat(raw, Cat(FlattenSeq(ds), left)) /\ Len(left) <= Len(rest)
  /\ d = Got(left, ReadBlock(raw, TreesOf(ds, v, n), h))

(* What was in the file, when the elements of a block were decoded.        *)
LEMMA ElementsWere ==
  ASSUME NEW h, NEW count \in Word, NEW size \in Word, NEW v \in Variant,
         NEW rest \in Seq(Word), Len(rest) < Limit,
         DecodeElements(h, count, size, v, rest).ok
  PROVE  \/ DecodeElements(h, count, size, v, rest).block.elements = <<>>
         \/ WidthOf(DecodeElements(h, count, size, v, rest).block) = 1
         \/ \E n \in Few, w \in Wide, ds \in Seq(Seq(Word)),
               raw \in Seq(Word), left \in Seq(Word) :
              /\ count = U32(n) /\ size = U32(w)
              /\ WereThere(DecodeElements(h, count, size, v, rest), h, v, rest, n, w, ds, raw, left)
<1>1. PICK d : d = DecodeElements(h, count, size, v, rest)  OBVIOUS
<1>2. Len(rest) \in Nat /\ Len(rest) < HalfRange
  <2>1. Len(rest) \in Nat  BY LenProperties
  <2>2. QED  BY <2>1, Limits, SMT
<1>3. CheckedBlockExtent(count, size, rest)
  <2>1. CASE ~CheckedBlockExtent(count, size, rest)
    <3>1. d = Failed(rest)  BY <1>1, <2>1 DEF DecodeElements
    <3>2. QED  BY <1>1, <3>1 DEF Failed
  <2>2. QED  BY <2>1
<1>4. PICK n : n = count[1]  OBVIOUS
<1>5. PICK w : w = size[1]  OBVIOUS
<1>6. n \in Nat /\ w \in Nat  BY <1>4, <1>5 DEF Word
<1>7. PICK raw : raw = SubSeq(rest, 1, n * w)  OBVIOUS
<1>8. PICK t : t = Drop(rest, Len(raw))  OBVIOUS
<1>9. PICK e : e = ReadElements(raw, w, v, t, n)  OBVIOUS
<1>10. d = [ok |-> e.ok, rest |-> e.rest, block |-> BlockData(raw, e.elements, h, FALSE)]
  BY <1>1, <1>3, <1>4, <1>5, <1>7, <1>8, <1>9 DEF DecodeElements
<1>11. /\ d.ok = e.ok /\ d.block.elements = e.elements /\ d.block.raw = raw
       /\ e.ok
  BY <1>1, <1>10 DEF BlockData
<1>12. CASE count = Zero
  <2>1. n = 0  BY <1>4, <1>12 DEF Zero
  <2>2. e = At(t, <<>>)  BY <1>9, <2>1, ReadsNone
  <2>3. d.block.elements = <<>>  BY <1>11, <2>2 DEF At
  <2>4. QED  BY <1>1, <2>3
<1>13. CASE count # Zero
  <2>1. /\ size # Zero /\ Fits(count, Len(rest)) /\ Fits(size, Len(rest))
        /\ n * w <= Len(rest)
    BY <1>3, <1>4, <1>5, <1>13 DEF CheckedBlockExtent
  <2>2. n <= Len(rest) /\ count = U32(n) /\ w <= Len(rest) /\ size = U32(w)
    BY <1>2, <1>4, <1>5, <2>1, FittingWord
  <2>3. n # 0 /\ w # 0
    <3>1. U32(0) = Zero
      <4>1. 0 \in Nat /\ 0 < HalfRange  BY Limits, SMT
      <4>2. QED  BY <4>1, SmallNumber DEF Zero
    <3>2. QED  BY <1>13, <2>1, <2>2, <3>1
  <2>4. n \in Few /\ w \in Few /\ n \in Nat \ {0} /\ w \in Nat \ {0}
    <3>1. n \in Nat \ {0} /\ w \in Nat \ {0}  BY <1>6, <2>3
    <3>2. n < Limit /\ w < Limit  BY <1>2, <1>6, <2>2, Limits, SMT
    <3>3. n \in Few /\ w \in Few  BY <3>1, <3>2, Counting
    <3>4. QED  BY <3>1, <3>3
  <2>5. PICK p : p = n * w  OBVIOUS
  <2>6. p \in 0..Len(rest)
    <3>1. p \in Nat  BY <1>6, <2>5, SMT
    <3>2. p <= Len(rest)  BY <2>1, <2>5
    <3>3. QED  BY <1>2, <3>1, <3>2, SMT
  <2>7. /\ raw \in Seq(Word) /\ Len(raw) = p
        /\ Drop(rest, p) \in Seq(Word) /\ Len(Drop(rest, p)) = Len(rest) - p
        /\ rest = raw \o Drop(rest, p)
    BY <1>7, <2>5, <2>6, SplitAt
  <2>8. Sized(raw, n, w)  BY <2>5, <2>7 DEF Sized
  <2>9. t = Drop(rest, p) /\ t \in Seq(Word) /\ rest = Cat(raw, t)  BY <1>8, <2>7 DEF Cat
  <2>10. Len(t) <= Len(rest) /\ Len(t) < Limit /\ Len(t) \in Nat
    <3>1. Len(t) = Len(rest) - p  BY <2>7, <2>9
    <3>2. Len(t) \in Nat /\ Limit \in Nat  BY <2>9, LenProperties, Limits
    <3>3. QED  BY <1>2, <2>6, <3>1, <3>2, SMT
  <2>11. CASE w = 1
    <3>1. Len(e.elements) = n  BY <1>6, <1>9, <2>8, <2>9, <2>11, ReadCounts
    <3>2. WidthOf(d.block) = (n * w) \div n  BY <1>11, <2>5, <2>7, <3>1 DEF WidthOf
    <3>3. WidthOf(d.block) = w  BY <1>6, <2>4, <3>2, QuotientOf
    <3>4. QED  BY <1>1, <2>11, <3>3
  <2>12. CASE w # 1
    <3>1. w \in Wide /\ w >= 2
      <4>1. w < Limit  BY <2>4, Counted
      <4>2. QED  BY <2>4, <2>12, <4>1, Counting
    <3>2. ReadElements(raw, w, v, t, n).ok  BY <1>9, <1>11
    <3>3. PICK ds \in Seq(Seq(Word)), left \in Seq(Word) :
             /\ Len(ds) = n /\ Tells(raw, w, ds)
             /\ t = FlattenSeq(ds) \o left /\ Len(left) <= Len(t)
             /\ ReadElements(raw, w, v, t, n) = At(left, TreesOf(ds, v, n))
      BY <1>6, <2>8, <2>9, <2>10, <3>1, <3>2, ReadsWhole
    <3>4. e = At(left, TreesOf(ds, v, n))  BY <1>9, <3>3
    <3>5. e.ok = TRUE /\ e.rest = left /\ e.elements = TreesOf(ds, v, n)  BY <3>4 DEF At
    <3>6. d = Got(left, ReadBlock(raw, TreesOf(ds, v, n), h))
      BY <1>10, <3>5 DEF Got, ReadBlock
    <3>7. rest = Cat(raw, Cat(FlattenSeq(ds), left))  BY <2>9, <3>3 DEF Cat
    <3>8. Len(left) <= Len(rest)
      <4>1. Len(left) \in Nat  BY LenProperties
      <4>2. QED  BY <1>2, <2>10, <3>3, <4>1, SMT
    <3>9. WereThere(d, h, v, rest, n, w, ds, raw, left)
      BY <2>8, <3>3, <3>6, <3>7, <3>8 DEF WereThere
    <3>10. QED  BY <1>1, <2>2, <2>4, <2>7, <3>1, <3>9
  <2>13. QED  BY <2>11, <2>12
<1>14. QED  BY <1>12, <1>13

-----------------------------------------------------------------------------
(* Blocks as the encoder writes them *)

BaseShape(lay) == Shape(lay.width[lay.base], lay.base)

Sound(eng, lay, S) ==
  /\ eng \in {"HaloCe", "Halo2V1", "Halo2V2"} /\ lay \in Layouts
  /\ S \subseteq [size : Widths, variant : Variant]
  /\ SoundShapes(eng, lay, S)
  /\ BaseShape(lay) \in S

(* A shape of a sound file: its width and variant, each told by the other. *)
LEMMA ShapeFacts ==
  ASSUME NEW eng, NEW lay, NEW S, Sound(eng, lay, S), NEW s \in S
  PROVE  /\ s \in [size : Widths, variant : Variant] /\ s = Shape(s.size, s.variant)
         /\ s.size \in Wide /\ s.size \in Few /\ s.size \in Widths
         /\ s.size \in Nat \ {0} /\ s.size \in Nat /\ s.size >= 2 /\ s.size < HalfRange
         /\ s.variant \in Variant
         /\ IF lay.versions = <<>> THEN s.variant = lay.base ELSE s.variant \in Range(lay.versions)
         /\ \A t \in S : s.size = t.size => s = t
         /\ eng # "Halo2V2" => s = BaseShape(lay) /\ lay.versions = <<>> /\ ~lay.h2
<1>1. s \in [size : Widths, variant : Variant]  BY DEF Sound
<1>2. s.size \in Widths /\ s.variant \in Variant /\ s = Shape(s.size, s.variant)  BY <1>1 DEF Shape
<1>3. /\ s.size \in Wide
      /\ IF lay.versions = <<>> THEN s.variant = lay.base ELSE s.variant \in Range(lay.versions)
      /\ \A t \in S : s.size = t.size => s = t
      /\ eng # "Halo2V2" => ~lay.h2 /\ s.size = lay.width[lay.base]
  BY DEF Sound, SoundShapes, Wide
<1>4. s.size \in Few /\ s.size \in Nat \ {0} /\ s.size \in Nat
      /\ s.size >= 2 /\ s.size < HalfRange
  BY <1>3, Counted, Widened
<1>5. ASSUME eng # "Halo2V2"
      PROVE  s = BaseShape(lay) /\ lay.versions = <<>> /\ ~lay.h2
  <2>1. BaseShape(lay) \in S /\ lay \in Layouts  BY DEF Sound
  <2>2. BaseShape(lay).size = s.size  BY <1>3, <1>5 DEF BaseShape, Shape
  <2>3. s = BaseShape(lay)  BY <1>3, <2>1, <2>2
  <2>4. lay.versions # <<>> => lay.h2  BY <2>1, BlockAssumption DEF Layout
  <2>5. QED  BY <1>3, <1>5, <2>3, <2>4
<1>6. QED  BY <1>1, <1>2, <1>3, <1>4, <1>5

(* A header that says of n elements what they are.                         *)
HeaderFits(eng, lay, h, n, s) ==
  IF ~IsHalo2(eng) THEN h = <<>>
  ELSE /\ Len(h) = HeaderWords(eng)
       /\ HeaderCount(eng, h) = U32(n) /\ HeaderSize(h) = U32(s.size)
       /\ ResolveVersion(lay, HeaderVersion(eng, h)) = s.variant

(* The words of a header.                                                  *)
LEMMA HeaderTypes ==
  ASSUME NEW eng, NEW h \in Seq(Word), Len(h) = HeaderWords(eng)
  PROVE  /\ HeaderCount(eng, h) \in Word /\ HeaderSize(h) \in Word /\ HeaderVersion(eng, h) \in Word
         /\ HeaderWords(eng) \in Nat /\ HeaderWords(eng) \in {3, 4}
<1>1. CASE LegacyHeader(eng)
  <2>1. HeaderWords(eng) = 3  BY <1>1 DEF HeaderWords
  <2>2. 2 \in 1..Len(h) /\ 3 \in 1..Len(h)  BY <2>1, SMT
  <2>3. h[2] \in Word /\ h[3] \in Word  BY <2>2, ElementOfSeq
  <2>4. PICK a \in Nat, b \in Nat : h[2] = <<a, b>>  BY <2>3 DEF Word
  <2>5. <<a, 0>> \in Word /\ <<b, 0>> \in Word  BY SMT DEF Word
  <2>6. HeaderCount(eng, h) = <<b, 0>> /\ HeaderVersion(eng, h) = <<a, 0>> /\ HeaderSize(h) = h[3]
    BY <1>1, <2>1, <2>4 DEF HeaderCount, HeaderVersion, HeaderSize
  <2>7. QED  BY <2>1, <2>3, <2>5, <2>6
<1>2. CASE ~LegacyHeader(eng)
  <2>1. HeaderWords(eng) = 4  BY <1>2 DEF HeaderWords
  <2>2. 2 \in 1..Len(h) /\ 3 \in 1..Len(h) /\ 4 \in 1..Len(h)  BY <2>1, SMT
  <2>3. h[2] \in Word /\ h[3] \in Word /\ h[4] \in Word  BY <2>2, ElementOfSeq
  <2>4. HeaderCount(eng, h) = h[3] /\ HeaderVersion(eng, h) = h[2] /\ HeaderSize(h) = h[4]
    BY <1>2, <2>1 DEF HeaderCount, HeaderVersion, HeaderSize
  <2>5. QED  BY <2>1, <2>3, <2>4
<1>3. QED  BY <1>1, <1>2

(* A block of n elements, synced with its header and its inline word.      *)
Filled(eng, lay, word, x, s, n, ds, raw, h) ==
  /\ word \in Word /\ word # Zero
  /\ Len(ds) = n /\ Sized(raw, n, s.size) /\ Tells(raw, s.size, ds)
  /\ x = ReadBlock(raw, TreesOf(ds, s.variant, n), h)
  /\ HeaderFits(eng, lay, h, n, s)
  /\ ~IsHalo2(eng) => word = U32(n)

Clean(eng, lay, S, word, x) ==
  \/ word = Zero /\ x = EmptyBlock
  \/ \E s \in S, n \in Few, ds \in Seq(Seq(Word)), raw \in Seq(Word), h \in Seq(Word) :
       Filled(eng, lay, word, x, s, n, ds, raw, h)

(* The parts of a clean block that has elements, and its words.            *)
LEMMA FilledFacts ==
  ASSUME NEW eng, NEW lay, NEW S, Sound(eng, lay, S), NEW word, NEW x,
         NEW s \in S, NEW n \in Few, NEW ds \in Seq(Seq(Word)), NEW raw \in Seq(Word),
         NEW h \in Seq(Word), Filled(eng, lay, word, x, s, n, ds, raw, h)
  PROVE  /\ x.raw = raw /\ x.header = h /\ x.elements = TreesOf(ds, s.variant, n) /\ ~x.dirty
         /\ x.elements \in Seq(TreeType) /\ Len(x.elements) = n /\ n \in Nat \ {0}
         /\ Spans(x.elements, s.variant) /\ DataOf(x.elements) = ds
         /\ FlattenSeq(ds) \in Seq(Word)
         /\ Chunk(x) = Cat(h, Cat(raw, FlattenSeq(ds))) /\ Chunk(x) \in Seq(Word)
         /\ x \in Block
<1>1. /\ Len(ds) = n /\ Tells(raw, s.size, ds)
      /\ x = ReadBlock(raw, TreesOf(ds, s.variant, n), h)
  BY DEF Filled
<1>2. x.raw = raw /\ x.header = h /\ x.elements = TreesOf(ds, s.variant, n) /\ ~x.dirty
  BY <1>1 DEF BlockData, ReadBlock
<1>3. s.variant \in Variant /\ n \in Nat \ {0}  BY ShapeFacts, Counted
<1>4. \A i \in 1..Len(ds) : Len(ds[i]) < Limit  BY <1>1 DEF Tells
<1>5. /\ x.elements \in Seq(TreeType) /\ Len(x.elements) = n
      /\ Spans(x.elements, s.variant) /\ DataOf(x.elements) = ds
  <2>1. PICK v \in Variant : v = s.variant  BY <1>3
  <2>2. PICK ts : ts = TreesOf(ds, v, Len(ds))  OBVIOUS
  <2>3. /\ ts \in Seq(TreeType) /\ Len(ts) = Len(ds)
        /\ Spans(ts, v) /\ DataOf(ts) = ds
    BY <1>4, <2>2, TreesFacts
  <2>4. x.elements = ts  BY <1>1, <1>2, <2>1, <2>2
  <2>5. QED  BY <1>1, <2>1, <2>3, <2>4
<1>6. FlattenSeq(ds) \in Seq(Word)  BY FlattenType
<1>7. Chunk(x) = Cat(h, Cat(raw, FlattenSeq(ds)))  BY <1>2, <1>5 DEF Chunk
<1>8. Chunk(x) \in Seq(Word)
  <2>1. Cat(raw, FlattenSeq(ds)) \in Seq(Word)  BY <1>6, CatFacts
  <2>2. QED  BY <1>7, <2>1, CatFacts
<1>9. x \in Block
  <2>1. x = ReadBlock(raw, x.elements, h)  BY <1>1, <1>2
  <2>2. ReadBlock(raw, x.elements, h) \in Block  BY <1>5 DEF BlockData, ReadBlock, Block
  <2>3. QED  BY <2>1, <2>2
<1>10. QED  BY <1>2, <1>3, <1>5, <1>6, <1>7, <1>8, <1>9

(* The parts of a clean block without elements, which has no words.        *)
LEMMA EmptyFacts ==
  /\ EmptyBlock.elements = <<>> /\ EmptyBlock.raw = <<>> /\ EmptyBlock.header = <<>>
  /\ ~EmptyBlock.dirty
  /\ Chunk(EmptyBlock) = <<>> /\ EmptyBlock \in Block
<1>1. /\ EmptyBlock.elements = <<>> /\ EmptyBlock.raw = <<>> /\ EmptyBlock.header = <<>>
      /\ ~EmptyBlock.dirty
  BY DEF EmptyBlock, BlockData
<1>2. EmptyBlock \in Block  BY DEF EmptyBlock, BlockData, Block
<1>3. DataOf(<<>>) = <<>>
  <2>1. Len(<<>>) = 0 /\ 1..0 = {}  BY SMT
  <2>2. QED  BY <2>1 DEF DataOf
<1>4. <<>> \in Seq(Word)  OBVIOUS
<1>5. Cat(<<>>, <<>>) = <<>>  BY <1>4, CatFacts
<1>6. Chunk(EmptyBlock) = <<>>  BY <1>1, <1>3, <1>5, FlattenNone DEF Chunk
<1>7. QED  BY <1>1, <1>2, <1>6

(* A clean block is read back as it is, whatever follows it.               *)
LEMMA CleanReads ==
  ASSUME NEW eng, NEW lay, NEW S, Sound(eng, lay, S), NEW word, NEW x, Clean(eng, lay, S, word, x),
         NEW rest \in Seq(Word)
  PROVE  /\ DecodeBlock(eng, lay, word, Cat(Chunk(x), rest)) = Got(rest, x)
         /\ Chunk(x) \in Seq(Word) /\ word \in Word
<1> DEFINE c == Cat(Chunk(x), rest)
<1>1. CASE word = Zero /\ x = EmptyBlock
  <2>1. Chunk(x) = <<>>  BY <1>1, EmptyFacts
  <2>2. c = rest  BY <2>1, CatFacts
  <2> HIDE DEF c
  <2>3. DecodeBlock(eng, lay, word, c) = [Failed(c) EXCEPT !.ok = TRUE]
    BY <1>1 DEF DecodeBlock
  <2>4. [Failed(c) EXCEPT !.ok = TRUE] = Got(rest, EmptyBlock)
    <3>1. PICK f : f = Failed(c)  OBVIOUS
    <3>2. PICK g : g = [f EXCEPT !.ok = TRUE]  OBVIOUS
    <3>3. f \in [ok : {TRUE, FALSE}, rest : {rest}, block : {EmptyBlock}]
      BY <2>2, <3>1 DEF Failed
    <3>4. g \in [ok : {TRUE, FALSE}, rest : {rest}, block : {EmptyBlock}] /\ g.ok = TRUE
      BY <3>2, <3>3
    <3>5. g = [ok |-> g.ok, rest |-> g.rest, block |-> g.block]  BY <3>4
    <3>6. g.rest = rest /\ g.block = EmptyBlock  BY <3>4
    <3>7. QED  BY <3>1, <3>2, <3>4, <3>5, <3>6 DEF Got
  <2>5. Zero \in Word /\ <<>> \in Seq(Word)  BY SMT DEF Zero, Word
  <2>6. QED  BY <1>1, <2>1, <2>3, <2>4, <2>5 DEF c
<1>2. CASE ~(word = Zero /\ x = EmptyBlock)
  <2>1. PICK s \in S, n \in Few, ds \in Seq(Seq(Word)), raw \in Seq(Word), h \in Seq(Word) :
          Filled(eng, lay, word, x, s, n, ds, raw, h)
    BY <1>2 DEF Clean
  <2>2. /\ word \in Word /\ word # Zero
        /\ Len(ds) = n /\ Sized(raw, n, s.size) /\ Tells(raw, s.size, ds)
        /\ x = ReadBlock(raw, TreesOf(ds, s.variant, n), h)
        /\ HeaderFits(eng, lay, h, n, s)
        /\ ~IsHalo2(eng) => word = U32(n)
    BY <2>1 DEF Filled
  <2>3. /\ FlattenSeq(ds) \in Seq(Word)
        /\ Chunk(x) = Cat(h, Cat(raw, FlattenSeq(ds))) /\ Chunk(x) \in Seq(Word)
    <3> HIDE DEF c
    <3>1. Filled(eng, lay, word, x, s, n, ds, raw, h)  BY <2>1
    <3>2. QED  BY <3>1, FilledFacts
  <2>4. s.size \in Wide /\ s.variant \in Variant  BY ShapeFacts
  <2>5. PICK b : b = Cat(raw, Cat(FlattenSeq(ds), rest))  OBVIOUS
  <2>6. b \in Seq(Word) /\ c = Cat(h, b)
    <3>1. PICK f \in Seq(Word) : f = FlattenSeq(ds)  BY <2>3
    <3>2. Cat(f, rest) \in Seq(Word) /\ Cat(raw, f) \in Seq(Word)  BY CatFacts
    <3>3. Cat(raw, Cat(f, rest)) \in Seq(Word)  BY <3>2, CatFacts
    <3>4. Cat(Cat(h, Cat(raw, f)), rest) = Cat(h, Cat(Cat(raw, f), rest))  BY <3>2, CatFacts
    <3>5. Cat(Cat(raw, f), rest) = Cat(raw, Cat(f, rest))  BY CatFacts
    <3>6. QED  BY <2>3, <2>5, <3>1, <3>3, <3>4, <3>5
  <2>7. DecodeElements(h, U32(n), U32(s.size), s.variant, b) = Got(rest, x)
    <3>1. PICK v \in Variant : v = s.variant  BY <2>4
    <3>2. PICK w \in Wide : w = s.size  BY <2>4
    <3>3. Len(ds) = n /\ Sized(raw, n, w) /\ Tells(raw, w, ds)  BY <2>2, <3>2
    <3>4. DecodeElements(h, U32(n), U32(w), v, Cat(raw, Cat(FlattenSeq(ds), rest)))
            = Got(rest, ReadBlock(raw, TreesOf(ds, v, n), h))
      BY <3>3, ElementsBack
    <3>5. QED  BY <2>2, <2>5, <3>1, <3>2, <3>4
  <2> HIDE DEF c
  <2>8. CASE ~IsHalo2(eng)
    <3>1. h = <<>> /\ word = U32(n)  BY <2>2, <2>8 DEF HeaderFits
    <3>2. c = b  BY <2>6, <3>1, CatFacts
    <3>3. s = BaseShape(lay)  BY <2>8, ShapeFacts DEF IsHalo2
    <3>4. s.size = lay.width[lay.base] /\ s.variant = lay.base  BY <3>3 DEF BaseShape, Shape
    <3>5. DecodeBlock(eng, lay, word, c)
            = DecodeElements(<<>>, word, U32(lay.width[lay.base]), lay.base, c)
      BY <2>2, <2>8 DEF DecodeBlock
    <3>6. DecodeBlock(eng, lay, word, c) = DecodeElements(h, U32(n), U32(s.size), s.variant, b)
      BY <3>1, <3>2, <3>4, <3>5
    <3>7. QED  BY <2>2, <2>3, <2>7, <3>6 DEF c
  <2>9. CASE IsHalo2(eng)
    <3>1. /\ Len(h) = HeaderWords(eng)
          /\ HeaderCount(eng, h) = U32(n) /\ HeaderSize(h) = U32(s.size)
          /\ ResolveVersion(lay, HeaderVersion(eng, h)) = s.variant
      BY <2>2, <2>9 DEF HeaderFits
    <3>2. PICK m : m = HeaderWords(eng)  OBVIOUS
    <3>3. c = h \o b  BY <2>6 DEF Cat
    <3>4. /\ c \in Seq(Word) /\ Len(c) = Len(h) + Len(b)
          /\ SubSeq(c, 1, Len(h)) = h /\ Drop(c, Len(h)) = b
      BY <2>6, <3>3, JoinedAt
    <3>5. Len(h) = m /\ m \in Nat /\ Len(b) \in Nat  BY <2>6, <3>1, <3>2, HeaderTypes, LenProperties
    <3>6. ~(Len(c) < m)  BY <3>4, <3>5, SMT
    <3>7. SubSeq(c, 1, m) = h /\ Drop(c, m) = b  BY <3>4, <3>5
    <3>8. DecodeBlock(eng, lay, word, c)
            = DecodeElements(h, HeaderCount(eng, h), HeaderSize(h),
                             ResolveVersion(lay, HeaderVersion(eng, h)), b)
      BY <2>2, <2>9, <3>2, <3>6, <3>7 DEF DecodeBlock
    <3>9. DecodeBlock(eng, lay, word, c) = DecodeElements(h, U32(n), U32(s.size), s.variant, b)
      BY <3>1, <3>8
    <3>10. QED  BY <2>2, <2>3, <2>7, <3>9 DEF c
  <2>10. QED  BY <2>8, <2>9
<1>3. QED  BY <1>1, <1>2

-----------------------------------------------------------------------------
(* Numbers become words.                                                   *)
LEMMA WordOf == ASSUME NEW n \in Nat PROVE U32(n) \in Word
<1>1. n % 65536 \in Nat /\ n \div 65536 \in Nat  BY SMT
<1>2. QED  BY <1>1 DEF U32, HalfRange, Word

(* A version resolves to a variant.                                        *)
LEMMA Resolves ==
  ASSUME NEW lay \in Layouts, NEW version \in Word
  PROVE  ResolveVersion(lay, version) \in Variant
<1>1. lay.versions \in Seq(DOMAIN lay.width)  BY BlockAssumption DEF Layout
<1>2. PICK a \in Nat, b \in Nat : version = <<a, b>>  BY DEF Word
<1>3. CASE Fits(version, Len(lay.versions) - 1)
  <2>1. a <= Len(lay.versions) - 1  BY <1>2, <1>3 DEF Fits
  <2>2. Len(lay.versions) \in Nat  BY <1>1, LenProperties
  <2>3. a + 1 \in 1..Len(lay.versions)  BY <2>1, <2>2, SMT
  <2>4. lay.versions[a + 1] \in DOMAIN lay.width  BY <1>1, <2>3, ElementOfSeq
  <2>5. ResolveVersion(lay, version) = lay.versions[a + 1]  BY <1>2, <1>3 DEF ResolveVersion
  <2>6. QED  BY <2>4, <2>5 DEF Variant
<1>4. CASE ~Fits(version, Len(lay.versions) - 1)
  <2>1. ResolveVersion(lay, version) = lay.base  BY <1>4 DEF ResolveVersion
  <2>2. QED  BY <2>1, BaseWidth
<1>5. QED  BY <1>3, <1>4

(* The shape of a block that was read.                                     *)
LEMMA ShapeWas ==
  ASSUME NEW d, NEW h, NEW v \in Variant, NEW rest, NEW n \in Few, NEW w \in Wide,
         NEW ds \in Seq(Seq(Word)), NEW raw \in Seq(Word), NEW left,
         WereThere(d, h, v, rest, n, w, ds, raw, left)
  PROVE  /\ d.rest = left /\ d.block = ReadBlock(raw, TreesOf(ds, v, n), h)
         /\ Shape(WidthOf(d.block), d.block.elements[1].variant) = Shape(w, v)
<1>1. Len(ds) = n /\ Sized(raw, n, w) /\ Tells(raw, w, ds)
      /\ d = Got(left, ReadBlock(raw, TreesOf(ds, v, n), h))
  BY DEF WereThere
<1>2. PICK ts : ts = TreesOf(ds, v, n)  OBVIOUS
<1>3. d.rest = left /\ d.block = ReadBlock(raw, ts, h)  BY <1>1, <1>2 DEF Got
<1>4. d.block.raw = raw /\ d.block.elements = ts  BY <1>3 DEF ReadBlock, BlockData
<1>5. n \in Nat \ {0} /\ w \in Nat /\ Len(raw) = n * w  BY <1>1, Counted, Widened DEF Sized
<1>6. \A i \in 1..Len(ds) : Len(ds[i]) < Limit  BY <1>1 DEF Tells
<1>7. Len(ts) = n  BY <1>1, <1>2, <1>6, TreesFacts
<1>8. ts[1].variant = v
  <2>1. 1 \in 1..n  BY <1>5, SMT
  <2>2. ts[1] = Tree(v, <<ds[1]>>)  BY <1>2, <2>1 DEF TreesOf
  <2>3. QED  BY <2>2 DEF Tree
<1>9. WidthOf(d.block) = w
  <2>1. WidthOf(d.block) = (n * w) \div n  BY <1>4, <1>5, <1>7 DEF WidthOf
  <2>2. QED  BY <1>5, <2>1, QuotientOf
<1>10. QED  BY <1>2, <1>3, <1>4, <1>8, <1>9

(* A block that was read, of a shape that is sound, is clean, and its      *)
(* words are those in the file.                                            *)
LEMMA CleanWas ==
  ASSUME NEW eng, NEW lay, NEW S, Sound(eng, lay, S), NEW word \in Word,
         NEW rest \in Seq(Word), Len(rest) < Limit,
         NEW d, d = DecodeBlock(eng, lay, word, rest), d.ok,
         d.block.elements # <<>> => Shape(WidthOf(d.block), d.block.elements[1].variant) \in S,
         d.block.elements = <<>> => word = Zero
  PROVE  /\ Clean(eng, lay, S, word, d.block)
         /\ rest = Cat(Chunk(d.block), d.rest)
         /\ d.rest \in Seq(Word) /\ Len(d.rest) <= Len(rest)
<1>1. Len(rest) \in Nat  BY LenProperties
<1>2. CASE word = Zero
  <2>1. d = [Failed(rest) EXCEPT !.ok = TRUE]  BY <1>2 DEF DecodeBlock
  <2>2. PICK f : f = Failed(rest)  OBVIOUS
  <2>3. f \in [ok : {TRUE, FALSE}, rest : {rest}, block : {EmptyBlock}]  BY <2>2 DEF Failed
  <2>4. d = [f EXCEPT !.ok = TRUE]  BY <2>1, <2>2
  <2>5. d.rest = rest /\ d.block = EmptyBlock  BY <2>3, <2>4
  <2>6. Chunk(d.block) = <<>>  BY <2>5, EmptyFacts
  <2>7. Cat(<<>>, rest) = rest  BY CatFacts
  <2>8. Len(d.rest) <= Len(rest)  BY <1>1, <2>5, SMT
  <2>9. Clean(eng, lay, S, word, d.block)  BY <1>2, <2>5 DEF Clean
  <2>10. QED  BY <2>5, <2>6, <2>7, <2>8, <2>9
<1>3. CASE word # Zero
  <2>1. d.block.elements # <<>>  BY <1>3
  <2>2. PICK s \in S : s = Shape(WidthOf(d.block), d.block.elements[1].variant)  BY <2>1
  <2>3. s.size = WidthOf(d.block) /\ s.size >= 2  BY <2>2, ShapeFacts DEF Shape
  <2>4. WidthOf(d.block) # 1  BY <2>3, SMT
  <2>5. CASE ~IsHalo2(eng)
    <3>1. lay \in Layouts  BY DEF Sound
    <3>2. lay.width[lay.base] \in Widths /\ lay.base \in Variant  BY <3>1, BaseWidth
    <3>3. PICK size \in Word : size = U32(lay.width[lay.base])
      <4>1. lay.width[lay.base] \in Nat  BY <3>2, BlockAssumption
      <4>2. QED  BY <4>1, WordOf
    <3>4. PICK v \in Variant : v = lay.base  BY <3>2
    <3>5. PICK h \in Seq(Word) : h = <<>>
      <4>1. <<>> \in Seq(Word)  OBVIOUS
      <4>2. QED  BY <4>1
    <3>6. d = DecodeElements(h, word, size, v, rest)
      BY <1>3, <2>5, <3>3, <3>4, <3>5 DEF DecodeBlock
    <3>7. PICK n \in Few, w \in Wide, ds \in Seq(Seq(Word)), raw \in Seq(Word), left \in Seq(Word) :
             /\ word = U32(n) /\ size = U32(w)
             /\ WereThere(d, h, v, rest, n, w, ds, raw, left)
      <4>1. DecodeElements(h, word, size, v, rest).ok  BY <3>6
      <4>2. QED  BY <2>1, <2>4, <3>6, <4>1, ElementsWere
    <3>8. /\ d.rest = left /\ d.block = ReadBlock(raw, TreesOf(ds, v, n), h)
          /\ s = Shape(w, v)
      BY <2>2, <3>7, ShapeWas
    <3>9. s.size = w /\ s.variant = v  BY <3>8 DEF Shape
    <3>10. Filled(eng, lay, word, d.block, s, n, ds, raw, h)
      BY <1>3, <2>5, <3>5, <3>7, <3>8, <3>9 DEF Filled, WereThere, HeaderFits
    <3>11. Clean(eng, lay, S, word, d.block)  BY <3>10 DEF Clean
    <3>12. rest = Cat(raw, Cat(FlattenSeq(ds), left)) /\ Len(left) <= Len(rest)
      BY <3>7 DEF WereThere
    <3>13. Chunk(d.block) = Cat(h, Cat(raw, FlattenSeq(ds))) /\ FlattenSeq(ds) \in Seq(Word)
      BY <3>10, FilledFacts
    <3>14. rest = Cat(Chunk(d.block), left)
      <4>1. PICK f \in Seq(Word) : f = FlattenSeq(ds)  BY <3>13
      <4>2. Cat(raw, f) \in Seq(Word)  BY CatFacts
      <4>3. Cat(h, Cat(raw, f)) = Cat(raw, f)  BY <3>5, <4>2, CatFacts
      <4>4. Cat(Cat(raw, f), left) = Cat(raw, Cat(f, left))  BY CatFacts
      <4>5. QED  BY <3>12, <3>13, <4>1, <4>3, <4>4
    <3>15. QED  BY <3>8, <3>11, <3>12, <3>14
  <2>6. CASE IsHalo2(eng)
    <3>1. PICK m : m = HeaderWords(eng)  OBVIOUS
    <3>2. PICK h : h = SubSeq(rest, 1, m)  OBVIOUS
    <3>3. PICK b : b = Drop(rest, m)  OBVIOUS
    <3>4. m \in Nat  BY <3>1, SMT DEF HeaderWords
    <3>5. ~(Len(rest) < m)
      <4>1. CASE Len(rest) < m
        <5>1. d = Failed(rest)  BY <1>3, <2>6, <3>1, <4>1 DEF DecodeBlock
        <5>2. QED  BY <5>1 DEF Failed
      <4>2. QED  BY <4>1
    <3>6. m \in 0..Len(rest)  BY <1>1, <3>4, <3>5, SMT
    <3>7. /\ h \in Seq(Word) /\ Len(h) = m /\ b \in Seq(Word) /\ Len(b) = Len(rest) - m
          /\ rest = h \o b
      BY <3>2, <3>3, <3>6, SplitAt
    <3>8. Len(b) \in Nat /\ Len(b) <= Len(rest) /\ Len(b) < Limit
      <4>1. Len(b) \in Nat /\ Limit \in Nat  BY <3>7, LenProperties, Limits
      <4>2. QED  BY <1>1, <3>4, <3>7, <4>1, SMT
    <3>9. PICK count \in Word : count = HeaderCount(eng, h)  BY <3>1, <3>7, HeaderTypes
    <3>10. PICK size \in Word : size = HeaderSize(h)  BY <3>1, <3>7, HeaderTypes
    <3>11. PICK v \in Variant : v = ResolveVersion(lay, HeaderVersion(eng, h))
      <4>1. HeaderVersion(eng, h) \in Word  BY <3>1, <3>7, HeaderTypes
      <4>2. QED  BY <4>1, Resolves DEF Sound
    <3>12. d = DecodeElements(h, count, size, v, b)
      BY <1>3, <2>6, <3>1, <3>2, <3>3, <3>5, <3>9, <3>10, <3>11 DEF DecodeBlock
    <3>13. PICK n \in Few, w \in Wide, ds \in Seq(Seq(Word)), raw \in Seq(Word), left \in Seq(Word) :
             /\ count = U32(n) /\ size = U32(w)
             /\ WereThere(d, h, v, b, n, w, ds, raw, left)
      <4>1. DecodeElements(h, count, size, v, b).ok  BY <3>12
      <4>2. QED  BY <2>1, <2>4, <3>7, <3>8, <3>12, <4>1, ElementsWere
    <3>14. /\ d.rest = left /\ d.block = ReadBlock(raw, TreesOf(ds, v, n), h)
           /\ s = Shape(w, v)
      BY <2>2, <3>7, <3>13, ShapeWas
    <3>15. s.size = w /\ s.variant = v  BY <3>14 DEF Shape
    <3>16. HeaderFits(eng, lay, h, n, s)
      BY <2>6, <3>1, <3>7, <3>9, <3>10, <3>11, <3>13, <3>15 DEF HeaderFits
    <3>17. Filled(eng, lay, word, d.block, s, n, ds, raw, h)
      BY <1>3, <2>6, <3>13, <3>14, <3>15, <3>16 DEF Filled, WereThere
    <3>18. Clean(eng, lay, S, word, d.block)  BY <3>7, <3>17 DEF Clean
    <3>19. b = Cat(raw, Cat(FlattenSeq(ds), left)) /\ Len(left) <= Len(b)
      BY <3>13 DEF WereThere
    <3>20. Chunk(d.block) = Cat(h, Cat(raw, FlattenSeq(ds))) /\ FlattenSeq(ds) \in Seq(Word)
      BY <3>7, <3>17, FilledFacts
    <3>21. rest = Cat(Chunk(d.block), left)
      <4>1. PICK f \in Seq(Word) : f = FlattenSeq(ds)  BY <3>20
      <4>2. PICK g \in Seq(Word) : g = Cat(raw, f)  BY CatFacts
      <4>3. Cat(Cat(h, g), left) = Cat(h, Cat(g, left))  BY <3>7, CatFacts
      <4>4. Cat(g, left) = Cat(raw, Cat(f, left))  BY <4>2, CatFacts
      <4>5. rest = Cat(h, b)  BY <3>7 DEF Cat
      <4>6. QED  BY <3>19, <3>20, <4>1, <4>2, <4>3, <4>4, <4>5
    <3>22. Len(left) <= Len(rest)
      <4>1. Len(left) \in Nat  BY LenProperties
      <4>2. QED  BY <1>1, <3>8, <3>19, <4>1, SMT
    <3>23. QED  BY <3>14, <3>18, <3>21, <3>22
  <2>7. QED  BY <2>5, <2>6
<1>4. QED  BY <1>2, <1>3

-----------------------------------------------------------------------------
(* Blocks as the editor leaves them *)

(* What the encoder writes for a block, out of the block and the tag's     *)
(* engine and layout alone.                                                *)
WordNow(eng, word, x) ==
  IF ~IsHalo2(eng) \/ x.dirty THEN U32(Len(x.elements)) ELSE word

HeaderNow(eng, lay, x) ==
  IF IsHalo2(eng) /\ Len(x.elements) = 0 THEN <<>>
  ELSE IF x.header = <<>>
  THEN IF IsHalo2(eng)
       THEN Header(eng, InferVersion(lay, x.elements[1].variant), Len(x.elements),
                   Len(x.raw) \div Len(x.elements))
       ELSE <<>>
  ELSE IF IsHalo2(eng) /\ x.dirty /\ Len(x.header) = 4
  THEN <<Signature, U32(InferVersion(lay, x.elements[1].variant)), U32(Len(x.elements)),
         U32(Len(x.raw) \div Len(x.elements))>>
  ELSE WithCount(x.header, Len(x.elements))

FixedNow(x, size) ==
  [i \in 1..Len(x.elements) |-> SyncFixedCounts(Slice(x.raw, size, i), x.elements[i])]
DataNow(x) == [i \in 1..Len(x.elements) |-> FlattenSeq(x.elements[i].data)]

Encoded(eng, lay, x) ==
  Cat(Cat(HeaderNow(eng, lay, x), FlattenSeq(FixedNow(x, SizeIn(x, lay)))), FlattenSeq(DataNow(x)))

(* EncodeBlock and SyncInline, as functions of one block.                  *)
LEMMA EncodesNow ==
  ASSUME NEW b \in BlockName
  PROVE  /\ EncodeBlock(b) = Encoded(engine, layout, blocks[b])
         /\ SyncInline(b) = WordNow(engine, inline[b], blocks[b])
<1>1. HeaderNow(engine, layout, blocks[b]) = CanonicalHeader(b)
  BY DEF HeaderNow, CanonicalHeader, Count
<1>2. SizeIn(blocks[b], layout) = ElementSize(b)  BY DEF SizeIn, ElementSize, Count
<1>3. EncodeBlock(b) = Encoded(engine, layout, blocks[b])
  BY <1>1, <1>2 DEF EncodeBlock, Encoded, FixedNow, DataNow, Count, Cat
<1>4. SyncInline(b) = WordNow(engine, inline[b], blocks[b])  BY DEF SyncInline, WordNow, Count
<1>5. QED  BY <1>3, <1>4

(* A version that was inferred resolves to the variant it came from.       *)
LEMMA InferFacts ==
  ASSUME NEW eng, NEW lay, NEW S, Sound(eng, lay, S), NEW s \in S
  PROVE  /\ InferVersion(lay, s.variant) \in Nat /\ InferVersion(lay, s.variant) < HalfRange
         /\ ResolveVersion(lay, U32(InferVersion(lay, s.variant))) = s.variant
<1>1. lay \in Layouts /\ lay.versions \in Seq(DOMAIN lay.width) /\ Len(lay.versions) < HalfRange
      /\ Len(lay.versions) \in Nat
  <2>1. lay \in Layouts /\ Len(lay.versions) < HalfRange  BY DEF Sound, SoundShapes
  <2>2. lay.versions \in Seq(DOMAIN lay.width)  BY <2>1, BlockAssumption DEF Layout
  <2>3. QED  BY <2>1, <2>2, LenProperties
<1> DEFINE vs == lay.versions
           v == s.variant
           at == {k \in DOMAIN vs : vs[k] = v}
<1>2. CASE vs = <<>>
  <2>1. at = {}
    <3>1. DOMAIN <<>> = {}  OBVIOUS
    <3>2. QED  BY <1>2, <3>1
  <2>2. InferVersion(lay, v) = 0  BY <2>1 DEF InferVersion
  <2>3. s.variant = lay.base  BY <1>2, ShapeFacts
  <2>4. U32(0) = <<0, 0>> /\ 0 \in Nat /\ 0 < HalfRange
    <3>1. 0 \in Nat /\ 0 < HalfRange  BY Limits, SMT
    <3>2. QED  BY <3>1, SmallNumber
  <2>5. ~Fits(<<0, 0>>, Len(vs) - 1)
    <3>1. Len(vs) = 0  BY <1>2
    <3>2. ~(0 <= Len(vs) - 1)  BY <3>1, SMT
    <3>3. QED  BY <3>2 DEF Fits
  <2>6. QED  BY <2>2, <2>3, <2>4, <2>5 DEF ResolveVersion
<1>3. CASE vs # <<>>
  <2>1. v \in Range(vs)  BY <1>3, ShapeFacts
  <2>2. PICK j \in DOMAIN vs : vs[j] = v  BY <2>1 DEF Range
  <2>3. DOMAIN vs = 1..Len(vs)  BY <1>1, LenProperties
  <2>4. at \in SUBSET Nat /\ at # {}
    <3>1. \A k \in 1..Len(vs) : k \in Nat  BY <1>1, SMT
    <3>2. j \in at  BY <2>2
    <3>3. QED  BY <2>3, <3>1, <3>2
  <2>5. PICK m \in at : \A k \in at : m <= k  BY <2>4, LeastNumber
  <2>6. PICK a : a = CHOOSE k \in at : \A i \in at : k <= i  OBVIOUS
  <2>7. a \in at  BY <2>5, <2>6
  <2>8. a \in 1..Len(vs) /\ vs[a] = v  BY <2>3, <2>7
  <2>9. InferVersion(lay, v) = a - 1  BY <2>4, <2>6 DEF InferVersion
  <2>10. a - 1 \in Nat /\ a - 1 < HalfRange /\ a - 1 <= Len(vs) - 1 /\ a - 1 + 1 = a
    <3>1. HalfRange = 65536  BY Limits
    <3>2. Len(vs) \in Nat /\ Len(vs) < 65536  BY <1>1, <3>1
    <3>3. a - 1 < 65536 /\ a - 1 \in Nat /\ a - 1 <= Len(vs) - 1 /\ a - 1 + 1 = a
      BY <2>8, <3>2, SMT
    <3>4. QED  BY <3>1, <3>3
  <2>11. PICK c \in Nat : c = a - 1  BY <2>10
  <2>12. U32(c) = <<c, 0>>  BY <2>10, <2>11, SmallNumber
  <2>13. Fits(<<c, 0>>, Len(vs) - 1)  BY <2>10, <2>11 DEF Fits
  <2>14. ResolveVersion(lay, <<c, 0>>) = vs[c + 1]  BY <2>13 DEF ResolveVersion
  <2>15. QED  BY <2>8, <2>9, <2>10, <2>11, <2>12, <2>14
<1>4. QED  BY <1>2, <1>3

-----------------------------------------------------------------------------
(* A sequence with a length is not empty.                                  *)
LEMMA NotNone == ASSUME NEW T, NEW h \in Seq(T), Len(h) # 0 PROVE h # <<>>
<1>1. Len(<<>>) = 0  OBVIOUS
<1>2. QED  BY <1>1

(* One place of a sequence replaced.                                       *)
PutAt(s, i, e) == [s EXCEPT ![i] = e]

(* One word put in place of another.                                       *)
LEMMA PutOne ==
  ASSUME NEW T, NEW s \in Seq(T), NEW i \in 1..Len(s), NEW e \in T
  PROVE  PutAt(s, i, e) \in Seq(T) /\ Len(PutAt(s, i, e)) = Len(s)
BY ExceptSeq DEF PutAt

(* A number that a header can count.                                       *)
LEMMA HalfOf == ASSUME NEW n \in Few PROVE n % HalfRange = n /\ U32(n) = <<n, 0>> /\ U32(n) # Zero
<1>1. n \in Nat \ {0} /\ n \in Nat /\ n < HalfRange  BY Counted
<1>2. HalfRange = 65536  BY Limits
<1>3. n < 65536  BY <1>1, <1>2
<1>4. n % 65536 = n  BY <1>1, <1>3, SMT
<1>5. U32(n) = <<n, 0>>  BY <1>1, SmallNumber
<1>6. n # 0  BY <1>1
<1>7. <<n, 0>> # <<0, 0>>  BY <1>6
<1>8. QED  BY <1>2, <1>4, <1>5, <1>7 DEF Zero

(* Without versions every version resolves to the latest variant.          *)
LEMMA NoVersions ==
  ASSUME NEW lay, lay.versions = <<>>, NEW a \in Nat
  PROVE  ResolveVersion(lay, <<a, 0>>) = lay.base
<1>1. Len(lay.versions) = 0  OBVIOUS
<1>2. ~(a <= Len(lay.versions) - 1)  BY <1>1, SMT
<1>3. ~Fits(<<a, 0>>, Len(lay.versions) - 1)  BY <1>2 DEF Fits
<1>4. QED  BY <1>3 DEF ResolveVersion

(* A header that is made says what the elements are.                       *)
LEMMA HeaderMade ==
  ASSUME NEW eng, NEW lay, NEW S, Sound(eng, lay, S), IsHalo2(eng), NEW s \in S, NEW n \in Few,
         NEW h, h = Header(eng, InferVersion(lay, s.variant), n, s.size)
  PROVE  h \in Seq(Word) /\ HeaderFits(eng, lay, h, n, s) /\ Len(h) \in {3, 4}
<1>1. PICK a \in Nat : a = InferVersion(lay, s.variant)  BY InferFacts
<1>2. a < HalfRange /\ ResolveVersion(lay, U32(a)) = s.variant /\ U32(a) = <<a, 0>>
  <2>1. a < HalfRange  BY <1>1, InferFacts
  <2>2. QED  BY <1>1, <2>1, InferFacts, SmallNumber
<1>3. n % HalfRange = n /\ U32(n) = <<n, 0>> /\ n \in Nat  BY HalfOf, Counted
<1>4. PICK z \in Word : z = U32(s.size)
  <2>1. s.size \in Nat  BY ShapeFacts
  <2>2. QED  BY <2>1, WordOf
<1>5. PICK c \in Word : c = U32(n)  BY <1>3, WordOf
<1>6. PICK e \in Word : e = U32(a)  BY <1>1, WordOf
<1>7. PICK g \in Word : g = Signature
  <2>1. Signature \in Word  BY DEF Signature, Word
  <2>2. QED  BY <2>1
<1>8. CASE LegacyHeader(eng)
  <2>1. PICK w \in Word : w = <<a, n>>  BY <1>3 DEF Word
  <2>2. h = <<g, w, z>>  BY <1>1, <1>3, <1>4, <1>7, <1>8, <2>1 DEF Header
  <2>3. h \in Seq(Word) /\ Len(h) = 3 /\ h[2] = w /\ h[3] = z  BY <2>2
  <2>4. HeaderWords(eng) = 3  BY <1>8 DEF HeaderWords
  <2>5. HeaderVersion(eng, h) = <<a, 0>> /\ HeaderCount(eng, h) = <<n, 0>> /\ HeaderSize(h) = z
    <3>1. h[2][1] = a /\ h[2][2] = n  BY <2>1, <2>3
    <3>2. QED  BY <1>8, <2>3, <3>1 DEF HeaderVersion, HeaderCount, HeaderSize
  <2>6. HeaderFits(eng, lay, h, n, s)  BY <1>2, <1>3, <1>4, <2>3, <2>4, <2>5 DEF HeaderFits
  <2>7. QED  BY <2>3, <2>6
<1>9. CASE ~LegacyHeader(eng)
  <2>2. h = <<g, e, c, z>>  BY <1>1, <1>4, <1>5, <1>6, <1>7, <1>9 DEF Header
  <2>3. h \in Seq(Word) /\ Len(h) = 4 /\ h[2] = e /\ h[3] = c /\ h[4] = z  BY <2>2
  <2>4. HeaderWords(eng) = 4  BY <1>9 DEF HeaderWords
  <2>5. HeaderVersion(eng, h) = e /\ HeaderCount(eng, h) = c /\ HeaderSize(h) = z
    BY <1>9, <2>3 DEF HeaderVersion, HeaderCount, HeaderSize
  <2>6. HeaderFits(eng, lay, h, n, s)  BY <1>2, <1>4, <1>5, <1>6, <2>3, <2>4, <2>5 DEF HeaderFits
  <2>7. QED  BY <2>3, <2>6
<1>10. QED  BY <1>8, <1>9

(* A legacy header with another count.                                     *)
LEMMA HeaderCounted ==
  ASSUME NEW eng, NEW lay, NEW S, Sound(eng, lay, S), IsHalo2(eng), LegacyHeader(eng), NEW s \in S,
         NEW n \in Few, NEW h \in Seq(Word), Len(h) = 3, HeaderSize(h) = U32(s.size)
  PROVE  /\ WithCount(h, n) \in Seq(Word) /\ Len(WithCount(h, n)) = 3
         /\ HeaderFits(eng, lay, WithCount(h, n), n, s)
<1>1. n % HalfRange = n /\ U32(n) = <<n, 0>> /\ n \in Nat  BY HalfOf, Counted
<1>2. h[1] \in Word /\ h[2] \in Word /\ h[3] \in Word /\ h = <<h[1], h[2], h[3]>>
  <2>1. 1 \in 1..3 /\ 2 \in 1..3 /\ 3 \in 1..3  BY SMT
  <2>2. \A k \in 1..3 : h[k] \in Word  BY ElementOfSeq
  <2>3. QED  BY <2>1, <2>2
<1>3. PICK a \in Nat : a = h[2][1]  BY <1>2 DEF Word
<1>4. PICK w \in Word : w = <<a, n>>  BY <1>1 DEF Word
<1>5. PICK k : k = WithCount(h, n)  OBVIOUS
<1>6. k = [h EXCEPT ![2] = w]  BY <1>1, <1>3, <1>4, <1>5 DEF WithCount
<1>7. k \in Seq(Word) /\ Len(k) = 3 /\ k[2] = w /\ k[3] = h[3]
  <2>1. DOMAIN h = 1..3  BY LenProperties
  <2>2. 2 \in 1..3 /\ 3 \in 1..3 /\ 3 # 2  BY SMT
  <2>3. k[2] = w /\ k[3] = h[3]  BY <1>6, <2>1, <2>2
  <2>4. k \in Seq(Word) /\ Len(k) = 3
    <3>1. PICK i \in 1..Len(h) : i = 2  BY <2>2
    <3>2. PutAt(h, i, w) \in Seq(Word) /\ Len(PutAt(h, i, w)) = Len(h)  BY PutOne
    <3>3. PutAt(h, i, w) = k  BY <1>6, <3>1 DEF PutAt
    <3>4. QED  BY <3>2, <3>3
  <2>5. QED  BY <2>3, <2>4
<1>8. HeaderWords(eng) = 3  BY DEF HeaderWords
<1>9. HeaderVersion(eng, k) = <<a, 0>> /\ HeaderCount(eng, k) = <<n, 0>> /\ HeaderSize(k) = U32(s.size)
  <2>1. k[2][1] = a /\ k[2][2] = n  BY <1>4, <1>7
  <2>2. HeaderSize(k) = h[3] /\ HeaderSize(h) = h[3]  BY <1>7 DEF HeaderSize
  <2>3. QED  BY <2>1, <2>2 DEF HeaderVersion, HeaderCount
<1>10. ResolveVersion(lay, <<a, 0>>) = s.variant
  <2>1. eng # "Halo2V2"  BY DEF LegacyHeader
  <2>2. s = BaseShape(lay) /\ lay.versions = <<>>  BY <2>1, ShapeFacts
  <2>3. s.variant = lay.base  BY <2>2 DEF BaseShape, Shape
  <2>4. QED  BY <2>2, <2>3, NoVersions
<1>11. QED  BY <1>1, <1>5, <1>7, <1>8, <1>9, <1>10 DEF HeaderFits

(* A header that fits has the count already.                               *)
LEMMA HeaderHolds ==
  ASSUME NEW eng, NEW lay, NEW s, NEW n \in Few, IsHalo2(eng),
         NEW h \in Seq(Word), HeaderFits(eng, lay, h, n, s)
  PROVE  WithCount(h, n) = h /\ h # <<>>
<1>1. n % HalfRange = n /\ U32(n) = <<n, 0>>  BY HalfOf
<1>2. Len(h) = HeaderWords(eng) /\ HeaderCount(eng, h) = <<n, 0>>  BY <1>1 DEF HeaderFits
<1>3. DOMAIN h = 1..Len(h)  BY LenProperties
<1>4. CASE LegacyHeader(eng)
  <2>1. Len(h) = 3 /\ h[2][2] = n
    BY <1>2, <1>4 DEF HeaderWords, HeaderCount
  <2>2. h[2] \in Word
    <3>1. 2 \in 1..3  BY SMT
    <3>2. QED  BY <2>1, <3>1, ElementOfSeq
  <2>3. h[2] = <<h[2][1], n>>  BY <2>1, <2>2 DEF Word
  <2>4. [h EXCEPT ![2] = h[2]] = h  BY <1>3
  <2>5. WithCount(h, n) = [h EXCEPT ![2] = <<h[2][1], n>>]  BY <1>1, <2>1 DEF WithCount
  <2>6. h # <<>>
    <3>1. Len(h) # 0  BY <2>1
    <3>2. QED  BY <3>1, NotNone
  <2>7. QED  BY <2>3, <2>4, <2>5, <2>6
<1>5. CASE ~LegacyHeader(eng)
  <2>1. Len(h) = 4 /\ h[3] = U32(n)  BY <1>1, <1>2, <1>5 DEF HeaderWords, HeaderCount
  <2>2. [h EXCEPT ![3] = h[3]] = h  BY <1>3
  <2>3. Len(h) # 3  BY <2>1
  <2>4. WithCount(h, n) = [h EXCEPT ![3] = U32(n)]  BY <2>3 DEF WithCount
  <2>5. h # <<>>
    <3>1. Len(h) # 0  BY <2>1
    <3>2. QED  BY <3>1, NotNone
  <2>6. QED  BY <2>1, <2>2, <2>4, <2>5
<1>6. QED  BY <1>4, <1>5

-----------------------------------------------------------------------------
(* An element whose length word is set for its data.                       *)
LEMMA SyncOne ==
  ASSUME NEW r \in Seq(Word), Len(r) \in Nat, Len(r) >= 2, NEW d \in Seq(Word), NEW v,
         NEW t, t = Tree(v, <<d>>), NEW q, q = SyncFixedCounts(r, t)
  PROVE  /\ q \in Seq(Word) /\ Len(q) = Len(r) /\ q[2] = U32(Len(d))
         /\ Reading(q, t) = Reading(r, t)
         /\ r[2] = U32(Len(d)) => q = r
<1>1. PICK w \in Word : w = U32(Len(d))
  <2>1. Len(d) \in Nat  BY LenProperties
  <2>2. QED  BY <2>1, WordOf
<1>2. t.data = <<d>>  BY DEF Tree
<1>3. t.data # <<>> /\ t.data[1] = d  BY <1>2
<1>4. ~(Len(r) < 2) /\ DOMAIN r = 1..Len(r)
  <2>1. ~(Len(r) < 2)  BY SMT
  <2>2. DOMAIN r = 1..Len(r)  BY LenProperties
  <2>3. QED  BY <2>1, <2>2
<1>5. PICK i \in 1..Len(r) : i = 2  BY SMT
<1>6. q = PutAt(r, i, w)
  <2>1. q = [r EXCEPT ![2] = U32(Len(t.data[1]))]  BY <1>3, <1>4 DEF SyncFixedCounts
  <2>2. QED  BY <1>1, <1>3, <1>5, <2>1 DEF PutAt
<1>7. PutAt(r, i, w) \in Seq(Word) /\ Len(PutAt(r, i, w)) = Len(r)  BY PutOne
<1>8. \A k \in 1..Len(r) : PutAt(r, i, w)[k] = IF k = i THEN w ELSE r[k]  BY <1>4 DEF PutAt
<1>9. q \in Seq(Word) /\ Len(q) = Len(r) /\ \A k \in 1..Len(r) : q[k] = IF k = i THEN w ELSE r[k]
  BY <1>6, <1>7, <1>8
<1>10. q[2] = w  BY <1>5, <1>9
<1>11. Reading(q, t) = Reading(r, t)
  <2>1. \A k \in 1..Len(r) : (IF k = 2 THEN Zero ELSE q[k]) = (IF k = 2 THEN Zero ELSE r[k])
    BY <1>5, <1>9
  <2>2. [k \in 1..Len(q) |-> IF k = 2 THEN Zero ELSE q[k]]
          = [k \in 1..Len(r) |-> IF k = 2 THEN Zero ELSE r[k]]
    BY <1>9, <2>1
  <2>3. QED  BY <2>2 DEF Reading
<1>12. ASSUME r[2] = U32(Len(d)) PROVE q = r
  <2>1. \A k \in 1..Len(r) : q[k] = r[k]  BY <1>1, <1>5, <1>9, <1>12
  <2>2. QED  BY <1>9, <2>1, SeqEqual
<1>13. QED  BY <1>1, <1>9, <1>10, <1>11, <1>12

(* Buffers of the same elements are the same.                              *)
LEMMA SameSlices ==
  ASSUME NEW n \in Nat, NEW size \in Nat \ {0}, NEW r, Sized(r, n, size), NEW q, Sized(q, n, size),
         \A k \in 1..n : Slice(r, size, k) = Slice(q, size, k)
  PROVE  r = q
<1>1. size \in Nat  BY SMT
<1>2. r \in Seq(Word) /\ q \in Seq(Word) /\ Len(r) = n * size /\ Len(q) = n * size  BY DEF Sized
<1>3. ASSUME NEW x \in 1..Len(r) PROVE r[x] = q[x]
  <2>1. x \in 1..(n * size)  BY <1>2
  <2>2. PICK k \in 1..n, m \in 1..size : x = Base(size, k) + m  BY <2>1, InSomeElement
  <2>3. Slice(r, size, k)[m] = r[Base(size, k) + m]  BY <1>1, SliceFacts
  <2>4. Slice(q, size, k)[m] = q[Base(size, k) + m]  BY <1>1, SliceFacts
  <2>5. QED  BY <2>2, <2>3, <2>4
<1>4. QED  BY <1>2, <1>3, SeqEqual

(* The buffer the encoder writes: it tells of the data, changes no field   *)
(* of an element, and is the block's own when that tells of the data.      *)
LEMMA FixedFacts ==
  ASSUME NEW x \in Block, NEW size \in Nat, size >= 2, Sized(x.raw, Len(x.elements), size), NEW v,
         Spans(x.elements, v), NEW f, f = FlattenSeq(FixedNow(x, size))
  PROVE  /\ Sized(f, Len(x.elements), size) /\ Tells(f, size, DataOf(x.elements))
         /\ DataNow(x) = DataOf(x.elements)
         /\ \A i \in 1..Len(x.elements) :
              Reading(Slice(f, size, i), x.elements[i]) = Reading(Slice(x.raw, size, i), x.elements[i])
         /\ Tells(x.raw, size, DataOf(x.elements)) => f = x.raw
<1> DEFINE n == Len(x.elements)
<1>1. x.elements \in Seq(TreeType) /\ n \in Nat
  <2>1. x.elements \in Seq(TreeType)  BY DEF Block
  <2>2. QED  BY <2>1, LenProperties
<1>2. PICK ds : ds = DataOf(x.elements)  OBVIOUS
<1>3. /\ ds \in Seq(Seq(Word)) /\ Len(ds) = n
      /\ \A i \in 1..n : ds[i] \in Seq(Word) /\ Len(ds[i]) < Limit /\ x.elements[i] = Tree(v, <<ds[i]>>)
  BY <1>1, <1>2, DataFacts
<1> DEFINE q(i) == SyncFixedCounts(Slice(x.raw, size, i), x.elements[i])
           ss == [i \in 1..n |-> q(i)]
<1>4. ASSUME NEW i \in 1..n
      PROVE  /\ q(i) \in Seq(Word) /\ Len(q(i)) = size /\ q(i)[2] = U32(Len(ds[i]))
             /\ Reading(q(i), x.elements[i]) = Reading(Slice(x.raw, size, i), x.elements[i])
             /\ Slice(x.raw, size, i)[2] = U32(Len(ds[i])) => q(i) = Slice(x.raw, size, i)
  <2>1. PICK r : r = Slice(x.raw, size, i)  OBVIOUS
  <2>2. r \in Seq(Word) /\ Len(r) = size  BY <1>1, <2>1, SliceFacts
  <2>3. PICK d \in Seq(Word) : d = ds[i]  BY <1>3
  <2>4. PICK t : t = x.elements[i]  OBVIOUS
  <2>5. t = Tree(v, <<d>>)  BY <1>3, <2>3, <2>4
  <2>6. PICK p : p = SyncFixedCounts(r, t)  OBVIOUS
  <2>7. /\ p \in Seq(Word) /\ Len(p) = Len(r) /\ p[2] = U32(Len(d))
        /\ Reading(p, t) = Reading(r, t)
        /\ r[2] = U32(Len(d)) => p = r
    BY <2>2, <2>5, <2>6, SyncOne
  <2>8. q(i) = p  BY <2>1, <2>4, <2>6
  <2> HIDE DEF q
  <2>9. QED  BY <2>1, <2>2, <2>3, <2>4, <2>7, <2>8
<1>5. \A i \in 1..n : ss[i] = q(i)  OBVIOUS
<1>6. ss \in Seq(Seq(Word)) /\ Len(ss) = n
  <2>1. \A i \in 1..n : q(i) \in Seq(Word)  BY <1>4
  <2> HIDE DEF q
  <2>2. ss \in [1..n -> Seq(Word)]  BY <2>1
  <2> HIDE DEF ss
  <2>3. ss \in Seq(Seq(Word))  BY <1>1, <2>2, SeqDef
  <2>4. DOMAIN ss = 1..n  BY <2>2
  <2>5. QED  BY <1>1, <2>3, <2>4, LenProperties
<1>7. f = FlattenSeq(ss)  BY DEF FixedNow
<1> HIDE DEF ss, q
<1>8. \A i \in 1..Len(ss) : Len(ss[i]) = size  BY <1>4, <1>5, <1>6
<1>9. Sized(f, n, size) /\ \A k \in 1..n : Slice(f, size, k) = ss[k]
  BY <1>6, <1>7, <1>8, FlattenSlices
<1>10. Tells(f, size, ds)  BY <1>3, <1>4, <1>5, <1>9 DEF Tells
<1>11. DataNow(x) = ds
  <2>1. ASSUME NEW i \in 1..n PROVE FlattenSeq(x.elements[i].data) = ds[i]
    <3>1. PICK d \in Seq(Word) : d = ds[i]  BY <1>3
    <3>2. x.elements[i].data = <<d>>
      <4>1. x.elements[i] = Tree(v, <<d>>)  BY <1>3, <3>1
      <4>2. QED  BY <4>1 DEF Tree
    <3>3. FlattenSeq(<<d>>) = d  BY FlattenOne
    <3>4. QED  BY <3>1, <3>2, <3>3
  <2>2. [i \in 1..n |-> FlattenSeq(x.elements[i].data)] = [i \in 1..n |-> ds[i]]  BY <2>1
  <2>3. ds = [i \in 1..n |-> ds[i]]  BY <1>3, SeqDef
  <2>4. QED  BY <2>2, <2>3 DEF DataNow
<1>12. \A i \in 1..n : Reading(Slice(f, size, i), x.elements[i]) = Reading(Slice(x.raw, size, i), x.elements[i])
  BY <1>4, <1>5, <1>9
<1>13. ASSUME Tells(x.raw, size, ds) PROVE f = x.raw
  <2>1. \A i \in 1..n : Slice(x.raw, size, i)[2] = U32(Len(ds[i]))  BY <1>3, <1>13 DEF Tells
  <2>2. \A i \in 1..n : Slice(f, size, i) = Slice(x.raw, size, i)  BY <1>4, <1>5, <1>9, <2>1
  <2>3. size \in Nat \ {0}  BY SMT
  <2>4. QED  BY <1>1, <1>9, <2>2, <2>3, SameSlices
<1>14. QED  BY <1>2, <1>9, <1>10, <1>11, <1>12, <1>13

-----------------------------------------------------------------------------
(* What a block may be like once it was edited: its elements have a sound  *)
(* shape, and a header that was not made by the editor is the reader's.    *)
HeaderMay(eng, lay, h) ==
  /\ ~IsHalo2(eng) => h = <<>>
  /\ eng = "Halo2V1" => h = <<>> \/ (Len(h) = 3 /\ HeaderSize(h) = U32(lay.width[lay.base]))
  /\ eng = "Halo2V2" => Len(h) \in {0, 4}

HoldsShape(eng, lay, word, x, s) ==
  /\ Sized(x.raw, Len(x.elements), s.size) /\ Spans(x.elements, s.variant)
  /\ x.dirty \/ (word # Zero /\ HeaderFits(eng, lay, x.header, Len(x.elements), s))

Live(eng, lay, S, word, x) ==
  /\ x \in Block /\ word \in Word
  /\ HeaderMay(eng, lay, x.header)
  /\ x.elements = <<>> => x.dirty \/ (x = EmptyBlock /\ word = Zero)
  /\ x.elements # <<>> => /\ Len(x.elements) \in Few
                          /\ \E s \in S : HoldsShape(eng, lay, word, x, s)

(* The header the encoder writes fits the elements.                        *)
LEMMA HeaderWritten ==
  ASSUME NEW eng, NEW lay, NEW S, Sound(eng, lay, S), IsHalo2(eng), NEW word, NEW x,
         Live(eng, lay, S, word, x), x.elements # <<>>,
         NEW s \in S, HoldsShape(eng, lay, word, x, s)
  PROVE  LET h == HeaderNow(eng, lay, x)
         IN  /\ h \in Seq(Word) /\ HeaderFits(eng, lay, h, Len(x.elements), s)
             /\ HeaderFits(eng, lay, x.header, Len(x.elements), s) /\ ~x.dirty => h = x.header
<1>1. PICK n \in Few : n = Len(x.elements)  BY DEF Live
<1>2. PICK h : h = HeaderNow(eng, lay, x)  OBVIOUS
<1>3. PICK z : z = x.header  OBVIOUS
<1>4. n \in Nat \ {0} /\ n # 0  BY Counted
<1>5. x.elements \in Seq(TreeType) /\ z \in Seq(Word) /\ HeaderMay(eng, lay, z)
  BY <1>3 DEF Live, Block
<1>6. /\ Sized(x.raw, n, s.size) /\ Spans(x.elements, s.variant)
      /\ x.dirty \/ HeaderFits(eng, lay, z, n, s)
  BY <1>1, <1>3 DEF HoldsShape
<1>7. Len(x.raw) \div n = s.size
  <2>1. s.size \in Nat  BY ShapeFacts
  <2>2. Len(x.raw) = n * s.size  BY <1>6 DEF Sized
  <2>3. QED  BY <1>4, <2>1, <2>2, QuotientOf
<1>8. x.elements[1].variant = s.variant
  <2>1. 1 \in 1..n  BY <1>4, SMT
  <2>2. PICK d \in Seq(Word) : x.elements[1] = Tree(s.variant, <<d>>)
    BY <1>1, <1>6, <2>1 DEF Spans
  <2>3. QED  BY <2>2 DEF Tree
<1>9. PICK m : m = Header(eng, InferVersion(lay, s.variant), n, s.size)  OBVIOUS
<1>10. m \in Seq(Word) /\ HeaderFits(eng, lay, m, n, s)  BY <1>9, HeaderMade
<1>11. h = IF z = <<>> THEN m
           ELSE IF x.dirty /\ Len(z) = 4
           THEN <<Signature, U32(InferVersion(lay, s.variant)), U32(n), U32(s.size)>>
           ELSE WithCount(z, n)
  BY <1>1, <1>2, <1>3, <1>4, <1>7, <1>8, <1>9 DEF HeaderNow
<1>12. CASE z = <<>>
  <2>1. h = m  BY <1>11, <1>12
  <2>2. ~HeaderFits(eng, lay, z, n, s)  BY <1>5, <1>12, HeaderHolds
  <2>3. QED  BY <1>1, <1>2, <1>3, <1>10, <2>1, <2>2
<1>13. CASE z # <<>> /\ x.dirty /\ Len(z) = 4
  <2>1. ~LegacyHeader(eng)
    <3>1. Len(z) # 3  BY <1>13
    <3>2. QED  BY <1>5, <1>13, <3>1 DEF LegacyHeader, HeaderMay
  <2>2. h = m  BY <1>9, <1>11, <1>13, <2>1 DEF Header
  <2>3. QED  BY <1>1, <1>2, <1>10, <1>13, <2>2
<1>14. CASE z # <<>> /\ ~(x.dirty /\ Len(z) = 4)
  <2>1. h = WithCount(z, n)  BY <1>11, <1>14
  <2>2. CASE HeaderFits(eng, lay, z, n, s)
    <3>1. WithCount(z, n) = z  BY <1>5, <2>2, HeaderHolds
    <3>2. QED  BY <1>1, <1>2, <1>3, <1>5, <2>1, <2>2, <3>1
  <2>3. CASE ~HeaderFits(eng, lay, z, n, s)
    <3>1. x.dirty /\ Len(z) # 4  BY <1>6, <1>14, <2>3
    <3>2. Len(z) # 0  BY <1>5, <1>14, EmptySeq
    <3>3. eng # "Halo2V2"  BY <1>5, <3>1, <3>2 DEF HeaderMay
    <3>4. LegacyHeader(eng)  BY <3>3 DEF Sound, IsHalo2, LegacyHeader
    <3>5. Len(z) = 3 /\ HeaderSize(z) = U32(lay.width[lay.base])
      BY <1>5, <1>14, <3>4 DEF HeaderMay, LegacyHeader
    <3>6. s = BaseShape(lay)  BY <3>3, ShapeFacts
    <3>7. HeaderSize(z) = U32(s.size)  BY <3>5, <3>6 DEF BaseShape, Shape
    <3>8. /\ WithCount(z, n) \in Seq(Word)
          /\ HeaderFits(eng, lay, WithCount(z, n), n, s)
      BY <1>5, <3>4, <3>5, <3>7, HeaderCounted
    <3>9. QED  BY <1>1, <1>2, <1>3, <2>1, <2>3, <3>8
  <2>4. QED  BY <2>2, <2>3
<1>15. QED  BY <1>12, <1>13, <1>14

ReadingsOf(x) ==
  [i \in 1..Len(x.elements) |->
     Reading(Slice(x.raw, Len(x.raw) \div Len(x.elements), i), x.elements[i])]

(* Nothing is written for a block without elements: in Halo CE it has no   *)
(* header either.                                                          *)
LEMMA NothingWritten ==
  ASSUME NEW eng, NEW lay, NEW x, x.elements = <<>>, HeaderMay(eng, lay, x.header)
  PROVE  Encoded(eng, lay, x) = <<>>
<1>1. Len(x.elements) = 0  OBVIOUS
<1>2. \A size : FixedNow(x, size) = <<>>  BY <1>1 DEF FixedNow
<1>3. DataNow(x) = <<>>  BY <1>1 DEF DataNow
<1>4. HeaderNow(eng, lay, x) = <<>>  BY <1>1 DEF HeaderNow, HeaderMay
<1>5. <<>> \in Seq(Word)  OBVIOUS
<1>6. Cat(<<>>, <<>>) = <<>>  BY <1>5, CatFacts
<1>7. FlattenSeq(FixedNow(x, SizeIn(x, lay))) = <<>>  BY <1>2, FlattenNone
<1>8. FlattenSeq(DataNow(x)) = <<>>  BY <1>3, FlattenNone
<1>9. QED  BY <1>4, <1>6, <1>7, <1>8 DEF Encoded

-----------------------------------------------------------------------------
(* A block with elements is written as the clean block of the same elements *)
(* would be.                                                               *)
Written(eng, lay, word, x, y, s, ds, raw, h) ==
  /\ Filled(eng, lay, WordNow(eng, word, x), y, s, Len(x.elements), ds, raw, h)
  /\ Encoded(eng, lay, x) = Chunk(y)
  /\ ReadingsOf(y) = ReadingsOf(x)
  /\ Tells(x.raw, s.size, DataOf(x.elements)) => raw = x.raw
  /\ h = HeaderNow(eng, lay, x) /\ y.elements = x.elements

(* A live block with elements is written as a clean block of its shape.    *)
LEMMA ElementsWritten ==
  ASSUME NEW eng, NEW lay, NEW S, Sound(eng, lay, S), NEW word, NEW x,
         Live(eng, lay, S, word, x), x.elements # <<>>,
         NEW s \in S, HoldsShape(eng, lay, word, x, s)
  PROVE  \E ds \in Seq(Seq(Word)), raw \in Seq(Word), h \in Seq(Word), y \in Block :
           Written(eng, lay, word, x, y, s, ds, raw, h)
<1>1. PICK n \in Few : n = Len(x.elements)  BY DEF Live
<1>2. n \in Nat \ {0} /\ n \in Nat  BY Counted
<1>3. x \in Block /\ x.elements \in Seq(TreeType) /\ word \in Word  BY DEF Live, Block
<1>4. PICK size \in Nat : size = s.size  BY ShapeFacts
<1>5. size >= 2 /\ size \in Nat \ {0}  BY <1>4, ShapeFacts
<1>6. PICK v \in Variant : v = s.variant  BY ShapeFacts
<1>7. Sized(x.raw, n, size) /\ Spans(x.elements, v)  BY <1>1, <1>4, <1>6 DEF HoldsShape
<1>8. SizeIn(x, lay) = size
  <2>1. Len(x.raw) = n * size  BY <1>7 DEF Sized
  <2>2. (n * size) \div n = size  BY <1>2, QuotientOf
  <2>3. x.raw # <<>>
    <3>1. n * size \in Nat /\ n <= n * size  BY <1>2, <1>5, ExtentFacts
    <3>2. n * size # 0  BY <1>2, <3>1, SMT
    <3>3. x.raw \in Seq(Word) /\ Len(x.raw) # 0  BY <1>7, <2>1, <3>2 DEF Sized
    <3>4. QED  BY <3>3, NotNone
  <2>4. QED  BY <1>1, <2>1, <2>2, <2>3 DEF SizeIn
<1>9. PICK f : f = FlattenSeq(FixedNow(x, size))  OBVIOUS
<1>10. PICK ds : ds = DataOf(x.elements)  OBVIOUS
<1>11. /\ Sized(f, n, size) /\ Tells(f, size, ds) /\ DataNow(x) = ds
       /\ \A i \in 1..n :
            Reading(Slice(f, size, i), x.elements[i]) = Reading(Slice(x.raw, size, i), x.elements[i])
       /\ Tells(x.raw, size, ds) => f = x.raw
  BY <1>1, <1>3, <1>5, <1>7, <1>9, <1>10, FixedFacts
<1>12. ds \in Seq(Seq(Word)) /\ Len(ds) = n /\ x.elements = TreesOf(ds, v, n)
  BY <1>1, <1>3, <1>7, <1>10, DataFacts
<1>13. PICK h : h = HeaderNow(eng, lay, x)  OBVIOUS
<1>14. h \in Seq(Word) /\ HeaderFits(eng, lay, h, n, s)
  <2>1. CASE ~IsHalo2(eng)
    <3>1. x.header = <<>>  BY <2>1 DEF Live, HeaderMay
    <3>2. h = <<>>  BY <1>13, <2>1, <3>1 DEF HeaderNow
    <3>3. QED  BY <2>1, <3>2 DEF HeaderFits
  <2>2. CASE IsHalo2(eng)  BY <1>1, <1>13, <2>2, HeaderWritten
  <2>3. QED  BY <2>1, <2>2
<1>15. PICK y : y = ReadBlock(f, x.elements, h)  OBVIOUS
<1>16. f \in Seq(Word)  BY <1>11 DEF Sized
<1>17. y.raw = f /\ y.elements = x.elements /\ y.header = h /\ y \in Block
  BY <1>3, <1>14, <1>15, <1>16 DEF ReadBlock, BlockData, Block
<1>18. WordNow(eng, word, x) \in Word /\ WordNow(eng, word, x) # Zero
  <2>1. U32(n) \in Word /\ U32(n) # Zero  BY <1>2, WordOf, HalfOf
  <2>2. x.dirty \/ word # Zero  BY DEF HoldsShape
  <2>3. QED  BY <1>1, <1>3, <2>1, <2>2 DEF WordNow
<1>19. ~IsHalo2(eng) => WordNow(eng, word, x) = U32(n)  BY <1>1 DEF WordNow
<1>20. Filled(eng, lay, WordNow(eng, word, x), y, s, n, ds, f, h)
  BY <1>4, <1>6, <1>11, <1>12, <1>14, <1>15, <1>18, <1>19 DEF Filled
<1>21. Encoded(eng, lay, x) = Chunk(y)
  <2>1. Encoded(eng, lay, x) = Cat(Cat(h, f), FlattenSeq(ds))
    BY <1>8, <1>9, <1>11, <1>13 DEF Encoded
  <2>2. Chunk(y) = Cat(h, Cat(f, FlattenSeq(ds)))  BY <1>10, <1>17 DEF Chunk
  <2>3. FlattenSeq(ds) \in Seq(Word)  BY <1>12, FlattenType
  <2>4. QED  BY <1>14, <1>16, <2>1, <2>2, <2>3, CatFacts
<1>22. ReadingsOf(y) = ReadingsOf(x)
  <2>1. (n * size) \div n = size  BY <1>2, QuotientOf
  <2>2. Len(x.raw) \div Len(x.elements) = size  BY <1>1, <1>7, <2>1 DEF Sized
  <2>3. Len(y.raw) \div Len(y.elements) = size  BY <1>1, <1>11, <1>17, <2>1 DEF Sized
  <2>4. ReadingsOf(x) = [i \in 1..n |-> Reading(Slice(x.raw, size, i), x.elements[i])]
    BY <1>1, <2>2 DEF ReadingsOf
  <2>5. ReadingsOf(y) = [i \in 1..n |-> Reading(Slice(f, size, i), x.elements[i])]
    BY <1>1, <1>17, <2>3 DEF ReadingsOf
  <2>6. QED  BY <1>11, <2>4, <2>5
<1>23. Written(eng, lay, word, x, y, s, ds, f, h)
  BY <1>1, <1>4, <1>10, <1>11, <1>13, <1>17, <1>20, <1>21, <1>22 DEF Written
<1>24. QED  BY <1>12, <1>14, <1>16, <1>17, <1>23

(* Every block is written as some clean block.                             *)
LEMMA LiveEncodes ==
  ASSUME NEW eng, NEW lay, NEW S, Sound(eng, lay, S), NEW word, NEW x, Live(eng, lay, S, word, x)
  PROVE  \E y \in Block : /\ Clean(eng, lay, S, WordNow(eng, word, x), y)
                          /\ Encoded(eng, lay, x) = Chunk(y)
                          /\ ReadingsOf(y) = ReadingsOf(x)
<1>1. CASE x.elements = <<>>
  <2>1. Len(x.elements) = 0  BY <1>1
  <2>2. U32(0) = Zero
    <3>1. 0 \in Nat /\ 0 < HalfRange  BY Limits, SMT
    <3>2. QED  BY <3>1, SmallNumber DEF Zero
  <2>3. WordNow(eng, word, x) = Zero  BY <1>1, <2>1, <2>2 DEF WordNow, Live
  <2>4. Clean(eng, lay, S, WordNow(eng, word, x), EmptyBlock)  BY <2>3 DEF Clean
  <2>5. Encoded(eng, lay, x) = Chunk(EmptyBlock)  BY <1>1, NothingWritten, EmptyFacts DEF Live
  <2>6. ReadingsOf(EmptyBlock) = ReadingsOf(x)
    <3>1. EmptyBlock.elements = <<>>  BY EmptyFacts
    <3>2. Len(EmptyBlock.elements) = 0  BY <3>1
    <3>3. QED  BY <2>1, <3>2 DEF ReadingsOf
  <2>7. QED  BY <2>4, <2>5, <2>6, EmptyFacts
<1>2. CASE x.elements # <<>>
  <2>1. PICK s \in S : HoldsShape(eng, lay, word, x, s)  BY <1>2 DEF Live
  <2>2. PICK ds \in Seq(Seq(Word)), raw \in Seq(Word), h \in Seq(Word), y \in Block :
          Written(eng, lay, word, x, y, s, ds, raw, h)
    BY <1>2, <2>1, ElementsWritten
  <2>3. Len(x.elements) \in Few  BY <1>2 DEF Live
  <2>4. Clean(eng, lay, S, WordNow(eng, word, x), y)  BY <2>2, <2>3 DEF Written, Clean
  <2>5. QED  BY <2>2, <2>4 DEF Written
<1>3. QED  BY <1>1, <1>2

(* A clean block is live, and written as it is.                            *)
LEMMA CleanIsLive ==
  ASSUME NEW eng, NEW lay, NEW S, Sound(eng, lay, S), NEW word, NEW x, Clean(eng, lay, S, word, x)
  PROVE  /\ Live(eng, lay, S, word, x) /\ ~x.dirty
         /\ x.elements # <<>> =>
              \E s \in S : /\ HoldsShape(eng, lay, word, x, s)
                           /\ Tells(x.raw, s.size, DataOf(x.elements))
                           /\ HeaderFits(eng, lay, x.header, Len(x.elements), s)
                           /\ ~IsHalo2(eng) => word = U32(Len(x.elements))
<1>1. CASE word = Zero /\ x = EmptyBlock
  <2>1. Zero \in Word  BY DEF Zero, Word
  <2>2. x.header = <<>> /\ x.elements = <<>> /\ ~x.dirty /\ x \in Block  BY <1>1, EmptyFacts
  <2>3. Len(x.header) = 0  BY <2>2
  <2>4. HeaderMay(eng, lay, x.header)  BY <2>2, <2>3 DEF HeaderMay
  <2>5. QED  BY <1>1, <2>1, <2>2, <2>4 DEF Live
<1>2. CASE ~(word = Zero /\ x = EmptyBlock)
  <2>1. PICK s \in S, n \in Few, ds \in Seq(Seq(Word)), raw \in Seq(Word), h \in Seq(Word) :
          Filled(eng, lay, word, x, s, n, ds, raw, h)
    BY <1>2 DEF Clean
  <2>2. /\ x.raw = raw /\ x.header = h /\ ~x.dirty
        /\ Len(x.elements) = n /\ n \in Nat \ {0} /\ Spans(x.elements, s.variant)
        /\ DataOf(x.elements) = ds /\ x \in Block
    BY <2>1, FilledFacts
  <2>3. /\ word \in Word /\ word # Zero /\ Sized(raw, n, s.size) /\ Tells(raw, s.size, ds)
        /\ HeaderFits(eng, lay, h, n, s) /\ (~IsHalo2(eng) => word = U32(n))
    BY <2>1 DEF Filled
  <2>4. HoldsShape(eng, lay, word, x, s)  BY <2>2, <2>3 DEF HoldsShape
  <2>5. x.elements # <<>>
    <3>1. Len(x.elements) # 0  BY <2>2
    <3>2. QED  BY <3>1
  <2>6. HeaderMay(eng, lay, h)
    <3>1. CASE ~IsHalo2(eng)
      <4>1. h = <<>>  BY <2>3, <3>1 DEF HeaderFits
      <4>2. Len(h) = 0  BY <4>1
      <4>3. QED  BY <4>1, <4>2 DEF HeaderMay
    <3>2. CASE eng = "Halo2V1"
      <4>1. IsHalo2(eng) /\ HeaderWords(eng) = 3 /\ eng # "Halo2V2"
        BY <3>2 DEF IsHalo2, HeaderWords, LegacyHeader
      <4>2. Len(h) = 3 /\ HeaderSize(h) = U32(s.size)  BY <2>3, <4>1 DEF HeaderFits
      <4>3. s = BaseShape(lay)  BY <4>1, ShapeFacts
      <4>4. s.size = lay.width[lay.base]  BY <4>3 DEF BaseShape, Shape
      <4>5. QED  BY <4>1, <4>2, <4>4 DEF HeaderMay
    <3>3. CASE eng = "Halo2V2"
      <4>1. IsHalo2(eng) /\ HeaderWords(eng) = 4 /\ eng # "Halo2V1"
        BY <3>3 DEF IsHalo2, HeaderWords, LegacyHeader
      <4>2. Len(h) = 4  BY <2>3, <4>1 DEF HeaderFits
      <4>3. QED  BY <4>1, <4>2 DEF HeaderMay
    <3>4. QED  BY <3>1, <3>2, <3>3 DEF Sound, IsHalo2
  <2>7. Live(eng, lay, S, word, x)  BY <2>2, <2>3, <2>4, <2>5, <2>6 DEF Live
  <2>8. QED  BY <2>2, <2>3, <2>4, <2>7
<1>3. QED  BY <1>1, <1>2

(* A clean block is written as its own words, under its own inline word.   *)
LEMMA CleanEncodes ==
  ASSUME NEW eng, NEW lay, NEW S, Sound(eng, lay, S), NEW word, NEW x, Clean(eng, lay, S, word, x)
  PROVE  Encoded(eng, lay, x) = Chunk(x) /\ WordNow(eng, word, x) = word
<1>1. Live(eng, lay, S, word, x) /\ ~x.dirty  BY CleanIsLive
<1>2. CASE x.elements = <<>>
  <2>1. x = EmptyBlock /\ word = Zero  BY <1>1, <1>2 DEF Live
  <2>2. Encoded(eng, lay, x) = Chunk(x)  BY <1>1, <1>2, <2>1, NothingWritten, EmptyFacts DEF Live
  <2>3. U32(0) = Zero
    <3>1. 0 \in Nat /\ 0 < HalfRange  BY Limits, SMT
    <3>2. QED  BY <3>1, SmallNumber DEF Zero
  <2>4. Len(x.elements) = 0  BY <1>2
  <2>5. QED  BY <2>1, <2>2, <2>3, <2>4 DEF WordNow
<1>3. CASE x.elements # <<>>
  <2>1. PICK s \in S : /\ HoldsShape(eng, lay, word, x, s)
                       /\ Tells(x.raw, s.size, DataOf(x.elements))
                       /\ HeaderFits(eng, lay, x.header, Len(x.elements), s)
                       /\ ~IsHalo2(eng) => word = U32(Len(x.elements))
    BY <1>3, CleanIsLive
  <2>2. PICK ds \in Seq(Seq(Word)), raw \in Seq(Word), h \in Seq(Word), y \in Block :
          Written(eng, lay, word, x, y, s, ds, raw, h)
    BY <1>1, <1>3, <2>1, ElementsWritten
  <2>3. y = ReadBlock(raw, y.elements, h)
    <3>1. y = ReadBlock(raw, TreesOf(ds, s.variant, Len(x.elements)), h)
      BY <2>2 DEF Written, Filled
    <3>2. QED  BY <3>1 DEF ReadBlock, BlockData
  <2>4. h = x.header
    <3>1. CASE ~IsHalo2(eng)  BY <2>1, <2>2, <3>1 DEF Written, HeaderNow, HeaderFits
    <3>2. CASE IsHalo2(eng)
      <4>1. HeaderNow(eng, lay, x) = x.header  BY <1>1, <1>3, <2>1, <3>2, HeaderWritten
      <4>2. QED  BY <2>2, <4>1 DEF Written
    <3>3. QED  BY <3>1, <3>2
  <2>5. raw = x.raw /\ y.elements = x.elements /\ Encoded(eng, lay, x) = Chunk(y)
    BY <2>1, <2>2 DEF Written
  <2>6. y.raw = x.raw /\ y.elements = x.elements /\ y.header = x.header
    BY <2>3, <2>4, <2>5 DEF ReadBlock, BlockData
  <2>7. Chunk(y) = Chunk(x)  BY <2>6 DEF Chunk
  <2>8. WordNow(eng, word, x) = word  BY <1>1, <2>1 DEF WordNow
  <2>9. QED  BY <2>5, <2>7, <2>8
<1>4. QED  BY <1>2, <1>3

-----------------------------------------------------------------------------
(* The body: the root's blocks one after the other *)

Blocks == 1..Len(BlockOrder)

(* Every block has its place in the order, and no two have the same.       *)
LEMMA Places ==
  /\ Len(BlockOrder) \in Nat
  /\ \A b \in BlockName : Place(b) \in Blocks /\ BlockOrder[Place(b)] = b
  /\ \A k \in Blocks : BlockOrder[k] \in BlockName /\ Place(BlockOrder[k]) = k
<1>1. /\ BlockOrder \in Seq(BlockName)
      /\ \A b \in BlockName : \E k \in DOMAIN BlockOrder : BlockOrder[k] = b
      /\ \A j, k \in DOMAIN BlockOrder : BlockOrder[j] = BlockOrder[k] => j = k
  BY BodyAssumption
<1>2. Len(BlockOrder) \in Nat /\ DOMAIN BlockOrder = Blocks  BY <1>1, LenProperties DEF Blocks
<1>3. ASSUME NEW b \in BlockName PROVE Place(b) \in Blocks /\ BlockOrder[Place(b)] = b
  <2>1. \E k \in DOMAIN BlockOrder : BlockOrder[k] = b  BY <1>1
  <2>2. QED  BY <1>2, <2>1 DEF Place
<1>4. ASSUME NEW k \in Blocks PROVE BlockOrder[k] \in BlockName /\ Place(BlockOrder[k]) = k
  <2>1. BlockOrder[k] \in BlockName  BY <1>1, <1>4, ElementOfSeq DEF Blocks
  <2>2. PICK b \in BlockName : b = BlockOrder[k]  BY <2>1
  <2>3. Place(b) \in Blocks /\ BlockOrder[Place(b)] = b  BY <1>3
  <2>4. Place(b) = k  BY <1>1, <1>2, <2>2, <2>3
  <2>5. QED  BY <2>1, <2>2, <2>4
<1>5. QED  BY <1>2, <1>3, <1>4

(* The decoder's cursor along the root's blocks.                           *)
RootAt(rest, bs) == [ok |-> TRUE, rest |-> rest, blocks |-> bs]
NoBlocks == [b \in BlockName |-> EmptyBlock]

RootStep(g, eng, lay, word, rest, k) ==
  IF k = 0 THEN RootAt(rest, NoBlocks) ELSE DecodeNext(eng, lay, word, g[k - 1], BlockOrder[k])

RootReads(c, eng, lay, word, rest) ==
  /\ c = [k \in 0..Len(BlockOrder) |-> c[k]]
  /\ c[0] = RootAt(rest, NoBlocks)
  /\ \A k \in Blocks : c[k] = DecodeNext(eng, lay, word, c[k - 1], BlockOrder[k])

(* ReadRoot is the end of the function it recurses by.                     *)
LEMMA RootChooses ==
  ASSUME NEW eng, NEW lay, NEW word, NEW rest
  PROVE  ReadRoot(eng, lay, word, rest)
           = (CHOOSE g : g = [k \in 0..Len(BlockOrder) |-> RootStep(g, eng, lay, word, rest, k)])
               [Len(BlockOrder)]
BY DEF ReadRoot, RootStep, RootAt, NoBlocks

(* There is one way only along the blocks.                                 *)
LEMMA RootIs ==
  ASSUME NEW eng, NEW lay, NEW word, NEW rest, NEW c, RootReads(c, eng, lay, word, rest)
  PROVE  ReadRoot(eng, lay, word, rest) = c[Len(BlockOrder)]
<1>1. PICK n \in Nat : n = Len(BlockOrder)  BY Places
<1>2. Blocks = 1..n  BY <1>1 DEF Blocks
<1> DEFINE g == CHOOSE h : h = [k \in 0..n |-> RootStep(h, eng, lay, word, rest, k)]
<1>3. c = [k \in 0..n |-> RootStep(c, eng, lay, word, rest, k)]
  <2>1. ASSUME NEW k \in 0..n PROVE c[k] = RootStep(c, eng, lay, word, rest, k)
    <3>1. k = 0 \/ k \in 1..n  BY SMT
    <3>2. QED  BY <1>2, <3>1 DEF RootReads, RootStep
  <2>2. c = [k \in 0..n |-> c[k]]  BY <1>1 DEF RootReads
  <2>3. [k \in 0..n |-> c[k]] = [k \in 0..n |-> RootStep(c, eng, lay, word, rest, k)]  BY <2>1
  <2>4. QED  BY <2>2, <2>3
<1>4. g = [k \in 0..n |-> RootStep(g, eng, lay, word, rest, k)]  BY <1>3
<1> HIDE DEF g
<1>5. \A k \in 0..n : g[k] = RootStep(g, eng, lay, word, rest, k)  BY <1>4
<1> DEFINE Good == {k \in Nat : k \in 0..n => g[k] = c[k]}
<1>6. 0 \in Good
  <2>1. 0 \in 0..n  BY SMT
  <2>2. g[0] = RootAt(rest, NoBlocks)  BY <1>5, <2>1 DEF RootStep
  <2>3. QED  BY <2>2 DEF RootReads
<1>7. \A k \in 1..n : k - 1 \in Good => k \in Good
  <2>0. \A k \in 1..n : k \in Nat  BY SMT
  <2> SUFFICES ASSUME NEW k \in 1..n, k - 1 \in Good PROVE g[k] = c[k]  BY <2>0
  <2>1. k \in 0..n /\ k - 1 \in 0..n /\ k # 0  BY SMT
  <2>2. g[k] = DecodeNext(eng, lay, word, g[k - 1], BlockOrder[k])  BY <1>5, <2>1 DEF RootStep
  <2>3. g[k - 1] = c[k - 1]  BY <2>1
  <2>4. QED  BY <1>2, <2>2, <2>3 DEF RootReads
<1>8. \A k \in 0..n : k \in Good
  <2>1. Good \in SUBSET Nat  OBVIOUS
  <2> HIDE DEF Good
  <2>2. QED  BY <1>6, <1>7, <2>1, Inductive
<1>9. n \in 0..n  BY SMT
<1>10. g[n] = c[n]  BY <1>8, <1>9
<1>11. QED  BY <1>1, <1>10, RootChooses DEF g

AllClean(eng, lay, S, inl, bs) ==
  /\ bs \in [BlockName -> Block] /\ inl \in [BlockName -> Word]
  /\ \A b \in BlockName : Clean(eng, lay, S, inl[b], bs[b])

Chunks(bs) == [k \in Blocks |-> Chunk(bs[BlockOrder[k]])]
InlineWords(inl) == [k \in Blocks |-> inl[BlockOrder[k]]]
BodyWords(bs, inl, trail) == Cat(InlineWords(inl), Cat(FlattenSeq(Chunks(bs)), trail))

(* The blocks up to the k-th.                                              *)
UpTo(bs, k) == [b \in BlockName |-> IF Place(b) <= k THEN bs[b] ELSE EmptyBlock]

(* The blocks of the root, one after the other, come to all of them.       *)
LEMMA UpToFacts ==
  ASSUME NEW T, NEW bs \in [BlockName -> T]
  PROVE  /\ UpTo(bs, 0) = NoBlocks /\ UpTo(bs, Len(BlockOrder)) = bs
         /\ \A k \in Blocks :
              [UpTo(bs, k - 1) EXCEPT ![BlockOrder[k]] = bs[BlockOrder[k]]] = UpTo(bs, k)
<1>1. PICK n \in Nat : n = Len(BlockOrder) /\ Blocks = 1..n  BY Places DEF Blocks
<1>2. \A b \in BlockName : Place(b) \in 1..n /\ BlockOrder[Place(b)] = b  BY <1>1, Places
<1>3. \A k \in 1..n : BlockOrder[k] \in BlockName /\ Place(BlockOrder[k]) = k  BY <1>1, Places
<1>4. \A p \in 1..n : ~(p <= 0) /\ p <= n  BY SMT
<1>5. UpTo(bs, 0) = NoBlocks  BY <1>2, <1>4 DEF UpTo, NoBlocks
<1>6. UpTo(bs, n) = bs
  <2>1. UpTo(bs, n) = [b \in BlockName |-> bs[b]]  BY <1>2, <1>4 DEF UpTo
  <2>2. QED  BY <2>1
<1>7. ASSUME NEW k \in 1..n
      PROVE  [UpTo(bs, k - 1) EXCEPT ![BlockOrder[k]] = bs[BlockOrder[k]]] = UpTo(bs, k)
  <2>1. PICK b \in BlockName : b = BlockOrder[k] /\ Place(b) = k  BY <1>3
  <2>2. ASSUME NEW c \in BlockName, c # b
        PROVE  (Place(c) <= k - 1) <=> (Place(c) <= k)
    <3>1. Place(c) \in 1..n /\ Place(c) # k  BY <1>2, <2>1, <2>2
    <3>2. QED  BY <1>1, <3>1, SMT
  <2>3. Place(b) <= k  BY <2>1, SMT
  <2> DEFINE u == UpTo(bs, k - 1)
             w == UpTo(bs, k)
  <2>4. \A c \in BlockName : /\ u[c] = IF Place(c) <= k - 1 THEN bs[c] ELSE EmptyBlock
                             /\ w[c] = IF Place(c) <= k THEN bs[c] ELSE EmptyBlock
    BY DEF UpTo
  <2>5. u = [c \in BlockName |-> u[c]] /\ w = [c \in BlockName |-> w[c]]  BY DEF UpTo
  <2> HIDE DEF u, w
  <2>6. \A c \in BlockName : w[c] = IF c = b THEN bs[b] ELSE u[c]  BY <2>2, <2>3, <2>4
  <2>7. [u EXCEPT ![b] = bs[b]] = [c \in BlockName |-> IF c = b THEN bs[b] ELSE u[c]]  BY <2>5
  <2>8. [u EXCEPT ![b] = bs[b]] = w  BY <2>5, <2>6, <2>7
  <2>9. QED  BY <2>1, <2>8 DEF u, w
<1>8. QED  BY <1>1, <1>5, <1>6, <1>7

-----------------------------------------------------------------------------
(* The words of a body of clean blocks.                                    *)
LEMMA BodyTyped ==
  ASSUME NEW eng, NEW lay, NEW S, Sound(eng, lay, S), NEW inl, NEW bs, AllClean(eng, lay, S, inl, bs),
         NEW trail \in Seq(Word)
  PROVE  /\ Chunks(bs) \in Seq(Seq(Word)) /\ Len(Chunks(bs)) = Len(BlockOrder)
         /\ FlattenSeq(Chunks(bs)) \in Seq(Word)
         /\ Cat(FlattenSeq(Chunks(bs)), trail) \in Seq(Word)
         /\ InlineWords(inl) \in Seq(Word) /\ Len(InlineWords(inl)) = Len(BlockOrder)
         /\ BodyWords(bs, inl, trail) \in Seq(Word)
<1>1. PICK n \in Nat : n = Len(BlockOrder) /\ Blocks = 1..n  BY Places DEF Blocks
<1>2. ASSUME NEW k \in 1..n
      PROVE  Chunk(bs[BlockOrder[k]]) \in Seq(Word) /\ inl[BlockOrder[k]] \in Word
  <2>1. PICK b \in BlockName : b = BlockOrder[k]  BY <1>1, Places
  <2>2. Clean(eng, lay, S, inl[b], bs[b]) /\ inl[b] \in Word  BY DEF AllClean
  <2>3. <<>> \in Seq(Word)  OBVIOUS
  <2>4. Chunk(bs[b]) \in Seq(Word)  BY <2>2, <2>3, CleanReads
  <2>5. QED  BY <2>1, <2>2, <2>4
<1> DEFINE cs == Chunks(bs)
           ws == InlineWords(inl)
<1>3. cs \in [1..n -> Seq(Word)]  BY <1>1, <1>2 DEF Chunks
<1>4. ws \in [1..n -> Word]  BY <1>1, <1>2 DEF InlineWords
<1> HIDE DEF cs, ws
<1>5. cs \in Seq(Seq(Word)) /\ Len(cs) = n
  <2>1. cs \in Seq(Seq(Word))  BY <1>3, SeqDef
  <2>2. DOMAIN cs = 1..n  BY <1>3
  <2>3. QED  BY <2>1, <2>2, LenProperties
<1>6. ws \in Seq(Word) /\ Len(ws) = n
  <2>1. ws \in Seq(Word)  BY <1>4, SeqDef
  <2>2. DOMAIN ws = 1..n  BY <1>4
  <2>3. QED  BY <2>1, <2>2, LenProperties
<1>7. PICK f \in Seq(Word) : f = FlattenSeq(cs)  BY <1>5, FlattenType
<1>8. Cat(f, trail) \in Seq(Word)  BY CatFacts
<1>9. Cat(ws, Cat(f, trail)) \in Seq(Word)  BY <1>6, <1>8, CatFacts
<1>10. QED  BY <1>1, <1>5, <1>6, <1>7, <1>8, <1>9 DEF cs, ws, BodyWords

(* The decoder's step over a clean block.                                  *)
LEMMA NextReads ==
  ASSUME NEW eng, NEW lay, NEW S, Sound(eng, lay, S), NEW inl, NEW bs, AllClean(eng, lay, S, inl, bs),
         NEW k \in Blocks, NEW rest \in Seq(Word)
  PROVE  DecodeNext(eng, lay, inl, RootAt(Cat(Chunk(bs[BlockOrder[k]]), rest), UpTo(bs, k - 1)),
                    BlockOrder[k])
           = RootAt(rest, UpTo(bs, k))
<1>1. PICK b \in BlockName : b = BlockOrder[k]  BY Places
<1>2. Clean(eng, lay, S, inl[b], bs[b])  BY DEF AllClean
<1>3. PICK x : x = bs[b]  OBVIOUS
<1>4. PICK w : w = Cat(Chunk(x), rest)  OBVIOUS
<1>5. DecodeBlock(eng, lay, inl[b], w) = Got(rest, x)  BY <1>2, <1>3, <1>4, CleanReads
<1>6. PICK u : u = UpTo(bs, k - 1)  OBVIOUS
<1>7. PICK c : c = RootAt(w, u)  OBVIOUS
<1>8. c.ok /\ c.rest = w /\ c.blocks = u  BY <1>7 DEF RootAt
<1>9. PICK d : d = DecodeBlock(eng, lay, inl[b], c.rest)  OBVIOUS
<1>10. d.ok /\ d.rest = rest /\ d.block = x
  <2>1. d = Got(rest, x)  BY <1>5, <1>8, <1>9
  <2>2. QED  BY <2>1 DEF Got
<1>11. [u EXCEPT ![b] = x] = UpTo(bs, k)
  <2>1. bs \in [BlockName -> Block]  BY DEF AllClean
  <2>2. [UpTo(bs, k - 1) EXCEPT ![BlockOrder[k]] = bs[BlockOrder[k]]] = UpTo(bs, k)
    BY <2>1, UpToFacts
  <2>3. QED  BY <1>1, <1>3, <1>6, <2>2
<1>12. DecodeNext(eng, lay, inl, c, b)
         = [ok |-> c.ok /\ d.ok, rest |-> d.rest, blocks |-> [c.blocks EXCEPT ![b] = d.block]]
  BY <1>9 DEF DecodeNext
<1>13. (c.ok /\ d.ok) = TRUE  BY <1>8, <1>10
<1>14. [c.blocks EXCEPT ![b] = d.block] = UpTo(bs, k)  BY <1>8, <1>10, <1>11
<1>15. DecodeNext(eng, lay, inl, c, b) = RootAt(rest, UpTo(bs, k))
  BY <1>10, <1>12, <1>13, <1>14 DEF RootAt
<1>16. QED  BY <1>1, <1>3, <1>4, <1>6, <1>7, <1>15

(* A body of clean blocks is read back as it is.                           *)
LEMMA RootReadsBack ==
  ASSUME NEW eng, NEW lay, NEW S, Sound(eng, lay, S), NEW inl, NEW bs, AllClean(eng, lay, S, inl, bs),
         NEW trail \in Seq(Word)
  PROVE  ReadRoot(eng, lay, inl, Cat(FlattenSeq(Chunks(bs)), trail)) = RootAt(trail, bs)
<1>1. PICK n \in Nat : n = Len(BlockOrder) /\ Blocks = 1..n  BY Places DEF Blocks
<1>2. PICK cs \in Seq(Seq(Word)) : cs = Chunks(bs) /\ Len(cs) = n
  <2>1. Chunks(bs) \in Seq(Seq(Word)) /\ Len(Chunks(bs)) = Len(BlockOrder)  BY BodyTyped
  <2>2. QED  BY <1>1, <2>1
<1>3. PICK suf \in [0..Len(cs) -> Seq(Word)] :
        Rests(suf, cs, trail) /\ suf[0] = FlattenSeq(cs) \o trail
  BY RestsExist
<1>4. suf[n] = trail /\ \A k \in 1..n : suf[k - 1] = Cat(cs[k], suf[k])
  BY <1>2, <1>3 DEF Rests, Cat
<1>5. \A k \in 1..n : cs[k] = Chunk(bs[BlockOrder[k]])  BY <1>1, <1>2 DEF Chunks
<1>6. PICK w : w = Cat(FlattenSeq(cs), trail)  OBVIOUS
<1>7. suf[0] = w  BY <1>3, <1>6 DEF Cat
<1> DEFINE c == [k \in 0..n |-> RootAt(suf[k], UpTo(bs, k))]
<1>8. c = [k \in 0..n |-> c[k]]  OBVIOUS
<1>9. \A k \in 0..n : c[k] = RootAt(suf[k], UpTo(bs, k))  OBVIOUS
<1> HIDE DEF c
<1>10. 0 \in 0..n /\ n \in 0..n  BY SMT
<1>11. bs \in [BlockName -> Block]  BY DEF AllClean
<1>12. c[0] = RootAt(w, NoBlocks)  BY <1>7, <1>9, <1>10, <1>11, UpToFacts
<1>13. ASSUME NEW k \in 1..n PROVE c[k] = DecodeNext(eng, lay, inl, c[k - 1], BlockOrder[k])
  <2>1. k \in 0..n /\ k - 1 \in 0..n /\ k \in Blocks  BY <1>1, SMT
  <2>2. PICK r \in Seq(Word) : r = suf[k]  BY <1>2, <1>3, <2>1
  <2>3. c[k - 1] = RootAt(Cat(Chunk(bs[BlockOrder[k]]), r), UpTo(bs, k - 1))
    BY <1>4, <1>5, <1>9, <2>1, <2>2
  <2>4. DecodeNext(eng, lay, inl, RootAt(Cat(Chunk(bs[BlockOrder[k]]), r), UpTo(bs, k - 1)),
                   BlockOrder[k]) = RootAt(r, UpTo(bs, k))
    BY <2>1, NextReads
  <2>5. QED  BY <1>9, <2>1, <2>2, <2>3, <2>4
<1>14. RootReads(c, eng, lay, inl, w)  BY <1>1, <1>8, <1>12, <1>13 DEF RootReads
<1>15. ReadRoot(eng, lay, inl, w) = c[n]  BY <1>1, <1>14, RootIs
<1>16. c[n] = RootAt(trail, bs)  BY <1>1, <1>4, <1>9, <1>10, <1>11, UpToFacts
<1>17. QED  BY <1>2, <1>6, <1>15, <1>16

(* What is left over is none of Halo CE's.                                 *)
MayTrail(eng, trail) == trail \in Seq(Word) /\ (~IsHalo2(eng) => trail = <<>>)

(* What the decoder makes of a body.                                       *)
LEMMA DecodeIs ==
  ASSUME NEW eng, NEW lay, NEW words, NEW word, word = [b \in BlockName |-> words[Place(b)]],
         NEW rest, rest = Drop(words, Len(BlockOrder)), NEW e, e = ReadRoot(eng, lay, word, rest),
         NEW d, d = Decode(eng, lay, words)
  PROVE  /\ d.ok = (e.ok /\ (IsHalo2(eng) \/ e.rest = <<>>))
         /\ d.blocks = e.blocks /\ d.inline = word /\ d.trailing = e.rest
BY DEF Decode

(* The words of clean blocks are decoded to those blocks.                  *)
LEMMA BodyReadsBack ==
  ASSUME NEW eng, NEW lay, NEW S, Sound(eng, lay, S), NEW inl, NEW bs, AllClean(eng, lay, S, inl, bs),
         NEW trail, MayTrail(eng, trail), NEW d, d = Decode(eng, lay, BodyWords(bs, inl, trail))
  PROVE  d.ok /\ d.blocks = bs /\ d.inline = inl /\ d.trailing = trail
<1>1. PICK n \in Nat : n = Len(BlockOrder) /\ Blocks = 1..n  BY Places DEF Blocks
<1>2. trail \in Seq(Word) /\ (~IsHalo2(eng) => trail = <<>>)  BY DEF MayTrail
<1>3. PICK r \in Seq(Word) : r = Cat(FlattenSeq(Chunks(bs)), trail)  BY <1>2, BodyTyped
<1>4. PICK ws \in Seq(Word) : ws = InlineWords(inl) /\ Len(ws) = n  BY <1>1, <1>2, BodyTyped
<1>5. PICK words : words = Cat(ws, r)  OBVIOUS
<1>6. BodyWords(bs, inl, trail) = words  BY <1>3, <1>4, <1>5 DEF BodyWords
<1>7. /\ words \in Seq(Word) /\ Len(words) = n + Len(r) /\ Len(r) \in Nat
      /\ \A k \in 1..n : words[k] = ws[k]
      /\ Drop(words, n) = r
  <2>1. words = ws \o r  BY <1>5 DEF Cat
  <2>2. Drop(ws \o r, Len(ws)) = r  BY JoinedAt
  <2>3. Len(r) \in Nat  BY LenProperties
  <2>4. /\ ws \o r \in Seq(Word) /\ Len(ws \o r) = Len(ws) + Len(r)
        /\ \A i \in 1..Len(ws) + Len(r) : (ws \o r)[i] = IF i <= Len(ws) THEN ws[i] ELSE r[i - Len(ws)]
    BY ConcatProperties
  <2>5. \A k \in 1..n : k \in 1..n + Len(r) /\ k <= n  BY <2>3, SMT
  <2>6. QED  BY <1>4, <2>1, <2>2, <2>3, <2>4, <2>5
<1>8. [b \in BlockName |-> words[Place(b)]] = inl
  <2>1. ASSUME NEW b \in BlockName PROVE words[Place(b)] = inl[b]
    <3>1. PICK k \in 1..n : k = Place(b) /\ BlockOrder[k] = b  BY <1>1, Places
    <3>2. ws[k] = inl[b]  BY <1>1, <1>4, <3>1 DEF InlineWords
    <3>3. QED  BY <1>7, <3>1, <3>2
  <2>2. inl \in [BlockName -> Word]  BY DEF AllClean
  <2>3. QED  BY <2>1, <2>2
<1>9. PICK e : e = ReadRoot(eng, lay, inl, r)  OBVIOUS
<1>10. e = RootAt(trail, bs)  BY <1>2, <1>3, <1>9, RootReadsBack
<1>11. e.ok /\ e.rest = trail /\ e.blocks = bs  BY <1>10 DEF RootAt
<1>12. Drop(words, Len(BlockOrder)) = r
  <2>1. Drop(words, n) = r  BY <1>7
  <2>2. n = Len(BlockOrder)  BY <1>1
  <2>3. QED  BY <2>1, <2>2
<1>13. /\ d.ok = (e.ok /\ (IsHalo2(eng) \/ e.rest = <<>>))
       /\ d.blocks = e.blocks /\ d.inline = inl /\ d.trailing = e.rest
  BY <1>6, <1>8, <1>9, <1>12, DecodeIs
<1>14. QED  BY <1>2, <1>11, <1>13

-----------------------------------------------------------------------------
(* Whatever the decoder reads, it leaves words.                            *)
LEMMA ElementsLeave ==
  ASSUME NEW h, NEW count \in Word, NEW size \in Word, NEW v \in Variant, NEW rest \in Seq(Word)
  PROVE  DecodeElements(h, count, size, v, rest).rest \in Seq(Word)
<1>1. CASE ~CheckedBlockExtent(count, size, rest)
  <2>1. DecodeElements(h, count, size, v, rest) = Failed(rest)  BY <1>1 DEF DecodeElements
  <2>2. QED  BY <2>1 DEF Failed
<1>2. CASE CheckedBlockExtent(count, size, rest)
  <2>1. PICK n \in Nat : n = count[1]  BY DEF Word
  <2>2. PICK w \in Nat : w = size[1]  BY DEF Word
  <2>3. PICK p \in Nat : p = n * w
    <3>1. n * w \in Nat  BY SMT
    <3>2. QED  BY <3>1
  <2>4. Len(rest) \in Nat  BY LenProperties
  <2>5. p <= Len(rest)
    <3>1. CASE count = Zero
      <4>1. n = 0  BY <2>1, <3>1 DEF Zero
      <4>2. 0 * w = 0  BY SMT
      <4>3. p = 0  BY <2>3, <4>1, <4>2
      <4>4. QED  BY <2>4, <4>3, SMT
    <3>2. CASE count # Zero  BY <1>2, <2>1, <2>2, <2>3, <3>2 DEF CheckedBlockExtent
    <3>3. QED  BY <3>1, <3>2
  <2>6. p \in 0..Len(rest)  BY <2>4, <2>5, SMT
  <2>7. PICK raw : raw = SubSeq(rest, 1, p)  OBVIOUS
  <2>8. raw \in Seq(Word) /\ Len(raw) = p /\ Drop(rest, p) \in Seq(Word)  BY <2>6, <2>7, SplitAt
  <2>9. Sized(raw, n, w)  BY <2>3, <2>8 DEF Sized
  <2>10. PICK t \in Seq(Word) : t = Drop(rest, p)  BY <2>8
  <2>11. PICK c \in [0..n -> Cursor] : Reads(c, raw, w, v, t, n)  BY <2>9, ReadsExist
  <2>12. PICK e : e = ReadElements(raw, w, v, t, n)  OBVIOUS
  <2>13. e = c[n]  BY <2>11, <2>12, ReadIs
  <2>14. e.rest \in Seq(Word)
    <3>1. n \in 0..n  BY SMT
    <3>2. e \in Cursor  BY <2>13, <3>1
    <3>3. QED  BY <3>2 DEF Cursor
  <2>15. DecodeElements(h, count, size, v, rest)
           = [ok |-> e.ok, rest |-> e.rest, block |-> BlockData(raw, e.elements, h, FALSE)]
    BY <1>2, <2>1, <2>2, <2>3, <2>7, <2>8, <2>10, <2>12 DEF DecodeElements
  <2>16. QED  BY <2>14, <2>15
<1>3. QED  BY <1>1, <1>2

(* Whatever stands in the file, a decoded block leaves words.              *)
LEMMA BlockLeaves ==
  ASSUME NEW eng, NEW lay \in Layouts, NEW word \in Word, NEW rest \in Seq(Word)
  PROVE  DecodeBlock(eng, lay, word, rest).rest \in Seq(Word)
<1> DEFINE d == DecodeBlock(eng, lay, word, rest)
<1>1. CASE word = Zero
  <2>1. d = [Failed(rest) EXCEPT !.ok = TRUE]  BY <1>1 DEF DecodeBlock
  <2>2. PICK f : f = Failed(rest)  OBVIOUS
  <2>3. f \in [ok : {TRUE, FALSE}, rest : {rest}, block : {EmptyBlock}]  BY <2>2 DEF Failed
  <2>4. d = [f EXCEPT !.ok = TRUE]  BY <2>1, <2>2
  <2>5. QED  BY <2>3, <2>4
<1>2. CASE word # Zero /\ ~IsHalo2(eng)
  <2>1. PICK v \in Variant : v = lay.base  BY BaseWidth
  <2>2. PICK size \in Word : size = U32(lay.width[lay.base])
    <3>1. lay.width[lay.base] \in Nat  BY BaseWidth, BlockAssumption
    <3>2. QED  BY <3>1, WordOf
  <2>3. d = DecodeElements(<<>>, word, size, v, rest)  BY <1>2, <2>1, <2>2 DEF DecodeBlock
  <2>4. QED  BY <2>3, ElementsLeave
<1>3. CASE word # Zero /\ IsHalo2(eng)
  <2>1. PICK m : m = HeaderWords(eng)  OBVIOUS
  <2>2. m \in Nat  BY <2>1 DEF HeaderWords
  <2>3. CASE Len(rest) < m
    <3>1. d = Failed(rest)  BY <1>3, <2>1, <2>3 DEF DecodeBlock
    <3>2. QED  BY <3>1 DEF Failed
  <2>4. CASE ~(Len(rest) < m)
    <3>1. Len(rest) \in Nat  BY LenProperties
    <3>2. m \in 0..Len(rest)  BY <2>2, <2>4, <3>1, SMT
    <3>3. PICK h : h = SubSeq(rest, 1, m)  OBVIOUS
    <3>4. PICK t : t = Drop(rest, m)  OBVIOUS
    <3>5. h \in Seq(Word) /\ Len(h) = m /\ t \in Seq(Word)  BY <3>2, <3>3, <3>4, SplitAt
    <3>6. PICK count \in Word : count = HeaderCount(eng, h)  BY <2>1, <3>5, HeaderTypes
    <3>7. PICK size \in Word : size = HeaderSize(h)  BY <2>1, <3>5, HeaderTypes
    <3>8. PICK u \in Word : u = HeaderVersion(eng, h)  BY <2>1, <3>5, HeaderTypes
    <3>9. PICK v \in Variant : v = ResolveVersion(lay, u)  BY Resolves
    <3>10. d = DecodeElements(h, count, size, v, t)
      BY <1>3, <2>1, <2>4, <3>3, <3>4, <3>6, <3>7, <3>8, <3>9 DEF DecodeBlock
    <3>11. QED  BY <3>5, <3>6, <3>7, <3>9, <3>10, ElementsLeave
  <2>5. QED  BY <2>3, <2>4
<1>4. QED  BY <1>1, <1>2, <1>3

-----------------------------------------------------------------------------
(* What is left before each of the root's blocks.                          *)
Leaves(r, eng, lay, word, rest) ==
  /\ r \in [0..Len(BlockOrder) -> Seq(Word)] /\ r[0] = rest
  /\ \A k \in Blocks : r[k] = DecodeBlock(eng, lay, word[BlockOrder[k]], r[k - 1]).rest

(* What is left after each block of the root exists.                       *)
LEMMA LeavesExist ==
  ASSUME NEW eng, NEW lay \in Layouts, NEW word \in [BlockName -> Word], NEW rest \in Seq(Word)
  PROVE  \E r : Leaves(r, eng, lay, word, rest)
<1>1. PICK n \in Nat : n = Len(BlockOrder) /\ Blocks = 1..n  BY Places DEF Blocks
<1> DEFINE R == Seq(Word)
           next(s, k) == DecodeBlock(eng, lay, word[BlockOrder[k]], s).rest
           step == [p \in R \X (1..n) |-> next(p[1], p[2])]
<1>2. ASSUME NEW s \in R, NEW k \in 1..n PROVE next(s, k) \in R
  <2>1. BlockOrder[k] \in BlockName  BY <1>1, Places
  <2>2. PICK w \in Word : w = word[BlockOrder[k]]  BY <2>1
  <2>3. DecodeBlock(eng, lay, w, s).rest \in Seq(Word)  BY BlockLeaves
  <2>4. QED  BY <2>2, <2>3
<1> HIDE DEF next
<1>3. step \in [R \X (1..n) -> R]  BY <1>2
<1>4. \A s \in R, k \in 1..n : step[<<s, k>>] = next(s, k)  OBVIOUS
<1>5. rest \in R  OBVIOUS
<1> HIDE DEF step, R
<1>6. PICK r \in [0..n -> R] : Runs(r, n, rest, step)  BY <1>3, <1>5, RunExists
<1>7. ASSUME NEW k \in 1..n PROVE r[k] = next(r[k - 1], k)
  <2>1. k - 1 \in 0..n  BY SMT
  <2>2. r[k - 1] \in R  BY <2>1
  <2>3. r[k] = step[<<r[k - 1], k>>]  BY <1>6 DEF Runs
  <2>4. QED  BY <1>4, <2>2, <2>3
<1>8. r[0] = rest  BY <1>6 DEF Runs
<1>9. Leaves(r, eng, lay, word, rest)  BY <1>1, <1>7, <1>8 DEF Leaves, next, R
<1>10. QED  BY <1>9

(* A cursor's fields.                                                      *)
RootNow(a, r, bs) == [ok |-> a, rest |-> r, blocks |-> bs]

(* The parts of what the root has read.                                    *)
LEMMA RootFields ==
  ASSUME NEW a, NEW r, NEW bs, NEW c, c = RootNow(a, r, bs)
  PROVE  c.ok = a /\ c.rest = r /\ c.blocks = bs
BY DEF RootNow

(* So the root was read block by block: all were read, or it was not.      *)
LEMMA RootWas ==
  ASSUME NEW eng, NEW lay, NEW word, NEW rest, NEW r, Leaves(r, eng, lay, word, rest),
         NEW e, e = ReadRoot(eng, lay, word, rest), e.ok
  PROVE  /\ e.rest = r[Len(BlockOrder)]
         /\ \A k \in Blocks :
              LET d == DecodeBlock(eng, lay, word[BlockOrder[k]], r[k - 1])
              IN  d.ok /\ e.blocks[BlockOrder[k]] = d.block
<1>1. PICK n \in Nat : n = Len(BlockOrder) /\ Blocks = 1..n  BY Places DEF Blocks
<1> DEFINE d(k) == DecodeBlock(eng, lay, word[BlockOrder[k]], r[k - 1])
<1>2. /\ \A k \in 1..n : r[k] = d(k).rest
      /\ r[0] = rest
  BY <1>1 DEF Leaves
<1>3. \A k \in 1..n : d(k) = DecodeBlock(eng, lay, word[BlockOrder[k]], r[k - 1])  OBVIOUS
<1> HIDE DEF d
<1> DEFINE bs == [b \in BlockName |-> d(Place(b)).block]
           fine == [k \in 0..n |-> \A j \in 1..k : d(j).ok]
           c == [k \in 0..n |-> RootNow(fine[k], r[k], UpTo(bs, k))]
<1>4. \A k \in 1..n : bs[BlockOrder[k]] = d(k).block  BY <1>1, Places
<1>5. PICK T : bs \in [BlockName -> T]
  <2>1. bs \in [BlockName -> {d(Place(b)).block : b \in BlockName}]  OBVIOUS
  <2>2. QED  BY <2>1
<1> HIDE DEF bs
<1>6. UpTo(bs, 0) = NoBlocks /\ UpTo(bs, n) = bs  BY <1>1, <1>5, UpToFacts
<1>7. ASSUME NEW k \in 1..n
      PROVE  [UpTo(bs, k - 1) EXCEPT ![BlockOrder[k]] = d(k).block] = UpTo(bs, k)
  <2>1. k \in Blocks  BY <1>1
  <2>2. [UpTo(bs, k - 1) EXCEPT ![BlockOrder[k]] = bs[BlockOrder[k]]] = UpTo(bs, k)
    BY <1>5, <2>1, UpToFacts
  <2>3. QED  BY <1>4, <2>2
<1>a. \A k \in 0..n : fine[k] = (\A j \in 1..k : d(j).ok)  OBVIOUS
<1> HIDE DEF fine
<1>8. fine[0] = TRUE
  <2>1. 1..0 = {} /\ 0 \in 0..n  BY SMT
  <2>2. QED  BY <1>a, <2>1
<1>9. ASSUME NEW k \in 1..n PROVE fine[k] = (fine[k - 1] /\ d(k).ok)
  <2>1. \A j : j \in 1..k <=> j \in 1..(k - 1) \/ j = k  BY SMT
  <2>2. k \in 0..n /\ k - 1 \in 0..n  BY SMT
  <2>3. (\A j \in 1..k : d(j).ok) <=> (\A j \in 1..(k - 1) : d(j).ok) /\ d(k).ok  BY <2>1
  <2>4. QED  BY <1>a, <2>2, <2>3
<1>10. c = [k \in 0..n |-> c[k]]  OBVIOUS
<1>11. \A k \in 0..n : c[k] = RootNow(fine[k], r[k], UpTo(bs, k))  OBVIOUS
<1> HIDE DEF c
<1>12. 0 \in 0..n /\ n \in 0..n  BY SMT
<1>13. c[0] = RootAt(rest, NoBlocks)  BY <1>2, <1>6, <1>8, <1>11, <1>12 DEF RootAt, RootNow
<1>14. ASSUME NEW k \in 1..n PROVE c[k] = DecodeNext(eng, lay, word, c[k - 1], BlockOrder[k])
  <2>1. k \in 0..n /\ k - 1 \in 0..n  BY SMT
  <2>2. PICK p : p = c[k - 1]  OBVIOUS
  <2>3. p.ok = fine[k - 1] /\ p.rest = r[k - 1] /\ p.blocks = UpTo(bs, k - 1)
    BY <1>11, <2>1, <2>2, RootFields
  <2>4. PICK x : x = DecodeBlock(eng, lay, word[BlockOrder[k]], p.rest)  OBVIOUS
  <2>5. x = d(k)  BY <1>3, <2>3, <2>4
  <2>6. DecodeNext(eng, lay, word, p, BlockOrder[k])
          = [ok |-> p.ok /\ x.ok, rest |-> x.rest, blocks |-> [p.blocks EXCEPT ![BlockOrder[k]] = x.block]]
    BY <2>4 DEF DecodeNext
  <2>7. (p.ok /\ x.ok) = fine[k]  BY <1>9, <2>3, <2>5
  <2>8. x.rest = r[k]  BY <1>2, <2>5
  <2>9. [p.blocks EXCEPT ![BlockOrder[k]] = x.block] = UpTo(bs, k)  BY <1>7, <2>3, <2>5
  <2>10. QED  BY <1>11, <2>1, <2>2, <2>6, <2>7, <2>8, <2>9 DEF RootNow
<1>15. RootReads(c, eng, lay, word, rest)  BY <1>1, <1>10, <1>13, <1>14 DEF RootReads
<1>16. e = c[n]  BY <1>1, <1>15, RootIs
<1>17. PICK q : q = c[n]  OBVIOUS
<1>18. q = RootNow(fine[n], r[n], bs)  BY <1>6, <1>11, <1>12, <1>17
<1>19. q.ok = fine[n] /\ q.rest = r[n] /\ q.blocks = bs  BY <1>18, RootFields
<1>20. e = q  BY <1>16, <1>17
<1>21. q.ok  BY <1>20
<1>22. \A k \in 1..n : d(k).ok  BY <1>a, <1>12, <1>19, <1>21
<1>23. e.rest = r[n] /\ e.blocks = bs  BY <1>19, <1>20
<1>24. QED  BY <1>1, <1>3, <1>4, <1>22, <1>23

SameBlocks(bs, cs) == \A b \in BlockName : bs[b] = cs[b]

(* The shapes of the blocks are known; one without elements is not there.  *)
KnownShapes(S, word, bs) ==
  \A b \in BlockName :
    IF bs[b].elements = <<>> THEN word[b] = Zero
    ELSE Shape(WidthOf(bs[b]), bs[b].elements[1].variant) \in S

(* A body that was read, of sound shapes, is one of clean blocks.          *)
LEMMA BodyWas ==
  ASSUME NEW eng, NEW lay, NEW S, Sound(eng, lay, S), NEW word \in [BlockName -> Word],
         NEW rest \in Seq(Word), Len(rest) < Limit,
         NEW e, e = ReadRoot(eng, lay, word, rest), e.ok,
         NEW bs, SameBlocks(bs, e.blocks), KnownShapes(S, word, bs)
  PROVE  /\ \A b \in BlockName : Clean(eng, lay, S, word[b], bs[b])
         /\ e.rest \in Seq(Word) /\ rest = Cat(FlattenSeq(Chunks(bs)), e.rest)
<1>1. PICK n \in Nat : n = Len(BlockOrder) /\ Blocks = 1..n  BY Places DEF Blocks
<1>2. lay \in Layouts  BY DEF Sound
<1>3. PICK r : Leaves(r, eng, lay, word, rest)  BY <1>2, LeavesExist
<1>4. r \in [0..n -> Seq(Word)] /\ r[0] = rest  BY <1>1, <1>3 DEF Leaves
<1> DEFINE d(k) == DecodeBlock(eng, lay, word[BlockOrder[k]], r[k - 1])
<1>5. \A k \in 1..n : r[k] = d(k).rest  BY <1>1, <1>3 DEF Leaves
<1>6. /\ e.rest = r[n]
      /\ \A k \in 1..n : d(k).ok /\ e.blocks[BlockOrder[k]] = d(k).block
  BY <1>1, <1>3, RootWas
<1> HIDE DEF d
<1>7. ASSUME NEW k \in 1..n, Len(r[k - 1]) <= Len(rest)
      PROVE  /\ Clean(eng, lay, S, word[BlockOrder[k]], bs[BlockOrder[k]])
             /\ r[k - 1] = Cat(Chunk(bs[BlockOrder[k]]), r[k])
             /\ Len(r[k]) <= Len(rest)
  <2>1. PICK b \in BlockName : b = BlockOrder[k]  BY <1>1, Places
  <2>2. PICK w \in Word : w = word[b]  OBVIOUS
  <2>3. k - 1 \in 0..n /\ k \in 0..n  BY SMT
  <2>4. PICK s \in Seq(Word) : s = r[k - 1]  BY <1>4, <2>3
  <2>5. Len(s) \in Nat /\ Len(rest) \in Nat /\ Len(s) <= Len(rest)  BY <1>7, <2>4, LenProperties
  <2>6. Len(s) < Limit  BY <2>5, Limits, SMT
  <2>7. PICK x : x = DecodeBlock(eng, lay, w, s)  OBVIOUS
  <2>8. x = d(k)  BY <2>1, <2>2, <2>4, <2>7 DEF d
  <2>9. x.ok /\ bs[b] = x.block /\ r[k] = x.rest  BY <1>5, <1>6, <2>1, <2>8 DEF SameBlocks
  <2>10. /\ x.block.elements # <<>> => Shape(WidthOf(x.block), x.block.elements[1].variant) \in S
         /\ x.block.elements = <<>> => w = Zero
    BY <2>2, <2>9 DEF KnownShapes
  <2>11. /\ Clean(eng, lay, S, w, x.block) /\ s = Cat(Chunk(x.block), x.rest)
         /\ x.rest \in Seq(Word) /\ Len(x.rest) <= Len(s)
    BY <2>6, <2>7, <2>9, <2>10, CleanWas
  <2>12. Len(r[k]) <= Len(rest)
    <3>1. Len(x.rest) \in Nat  BY <2>11, LenProperties
    <3>2. Len(x.rest) <= Len(rest)  BY <2>5, <2>11, <3>1, SMT
    <3>3. QED  BY <2>9, <3>2
  <2>13. QED  BY <2>1, <2>2, <2>4, <2>9, <2>11, <2>12
<1> DEFINE Good == {k \in Nat : k \in 0..n => Len(r[k]) <= Len(rest)}
<1>8. 0 \in Good
  <2>1. Len(rest) \in Nat  BY LenProperties
  <2>2. Len(rest) <= Len(rest)  BY <2>1, SMT
  <2>3. QED  BY <1>4, <2>2
<1>9. \A k \in 1..n : k - 1 \in Good => k \in Good
  <2>0. \A k \in 1..n : k \in Nat  BY SMT
  <2> SUFFICES ASSUME NEW k \in 1..n, k - 1 \in Good PROVE Len(r[k]) <= Len(rest)  BY <2>0
  <2>1. k - 1 \in 0..n  BY SMT
  <2>2. QED  BY <1>7, <2>1
<1>10. \A k \in 0..n : k \in Good
  <2>1. Good \in SUBSET Nat  OBVIOUS
  <2> HIDE DEF Good
  <2>2. QED  BY <1>8, <1>9, <2>1, Inductive
<1>11. ASSUME NEW k \in 1..n
       PROVE  /\ Clean(eng, lay, S, word[BlockOrder[k]], bs[BlockOrder[k]])
              /\ r[k - 1] = Cat(Chunk(bs[BlockOrder[k]]), r[k])
  <2>1. k - 1 \in 0..n  BY SMT
  <2>2. Len(r[k - 1]) <= Len(rest)  BY <1>10, <2>1
  <2>3. QED  BY <1>7, <2>2
<1>12. ASSUME NEW b \in BlockName PROVE Clean(eng, lay, S, word[b], bs[b])
  <2>1. PICK k \in 1..n : k = Place(b) /\ BlockOrder[k] = b  BY <1>1, Places
  <2>2. QED  BY <1>11, <2>1
<1>13. n \in 0..n  BY SMT
<1>14. PICK left \in Seq(Word) : left = r[n]  BY <1>4, <1>13
<1>15. Chunks(bs) \in Seq(Seq(Word)) /\ Len(Chunks(bs)) = n
  <2>1. ASSUME NEW k \in 1..n PROVE Chunk(bs[BlockOrder[k]]) \in Seq(Word)
    <3>1. PICK w : w = word[BlockOrder[k]]  OBVIOUS
    <3>2. PICK x : x = bs[BlockOrder[k]]  OBVIOUS
    <3>3. Clean(eng, lay, S, w, x)  BY <1>11, <3>1, <3>2
    <3>4. Chunk(x) \in Seq(Word)  BY <3>3, CleanReads
    <3>5. QED  BY <3>2, <3>4
  <2> DEFINE cs == Chunks(bs)
  <2>2. cs \in [1..n -> Seq(Word)]  BY <1>1, <2>1 DEF Chunks
  <2> HIDE DEF cs
  <2>3. cs \in Seq(Seq(Word))  BY <2>2, SeqDef
  <2>4. DOMAIN cs = 1..n  BY <2>2
  <2>5. Len(cs) = n  BY <2>3, <2>4, LenProperties
  <2>6. QED  BY <2>3, <2>5 DEF cs
<1>16. PICK cs \in Seq(Seq(Word)) : cs = Chunks(bs)  BY <1>15
<1>17. Len(cs) = n  BY <1>15, <1>16
<1>18. \A k \in 1..n : cs[k] = Chunk(bs[BlockOrder[k]])  BY <1>1, <1>16 DEF Chunks
<1>19. r \in [0..Len(cs) -> Seq(Word)]  BY <1>4, <1>17
<1>20. Rests(r, cs, left)  BY <1>11, <1>14, <1>17, <1>18 DEF Rests, Cat
<1>21. r[0] = FlattenSeq(cs) \o left  BY <1>19, <1>20, FlattenRests
<1>22. rest = Cat(FlattenSeq(Chunks(bs)), e.rest)  BY <1>4, <1>6, <1>14, <1>16, <1>21 DEF Cat
<1>23. QED  BY <1>6, <1>12, <1>14, <1>22

-----------------------------------------------------------------------------
(* The shapes of the blocks that were read.                                *)
LEMMA ShapesTyped ==
  ASSUME NEW lay \in Layouts, NEW bs \in [BlockName -> ReadBlocks]
  PROVE  Shapes(lay, bs) \subseteq [size : Widths, variant : Variant]
<1>1. Shape(lay.width[lay.base], lay.base) \in [size : Widths, variant : Variant]
  BY BaseWidth DEF Shape
<1>2. ASSUME NEW b \in BlockName, bs[b].elements # <<>>
      PROVE  Shape(WidthOf(bs[b]), bs[b].elements[1].variant) \in [size : Widths, variant : Variant]
  <2>1. PICK x \in ReadBlocks : x = bs[b]  OBVIOUS
  <2>2. x \in FilledBlocks  BY <1>2, <2>1 DEF FilledBlocks
  <2>3. WidthOf(x) \in Widths  BY <2>2, ReadWidth
  <2>4. x.elements \in Seq(TreeType)  BY BlockAssumption
  <2>5. x.elements[1].variant \in Variant
    <3>1. Len(x.elements) \in Nat \ {0}  BY <1>2, <2>1, <2>4, EmptySeq
    <3>2. 1 \in 1..Len(x.elements)  BY <3>1, SMT
    <3>3. x.elements[1] \in TreeType  BY <2>4, <3>2, ElementOfSeq
    <3>4. QED  BY <3>3 DEF TreeType
  <2>6. QED  BY <2>1, <2>3, <2>5 DEF Shape
<1>3. QED  BY <1>1, <1>2 DEF Shapes

(* A sound file that opens is a body of clean blocks.                      *)
LEMMA SoundFileReads ==
  ASSUME NEW f \in Files, SoundFile(f), NEW d, d = Decode(f.engine, f.layout, f.words), d.ok,
         d.blocks \in Image(f.layout)
  PROVE  \E S : /\ Sound(f.engine, f.layout, S)
                /\ AllClean(f.engine, f.layout, S, d.inline, d.blocks)
                /\ MayTrail(f.engine, d.trailing)
                /\ f.words = BodyWords(d.blocks, d.inline, d.trailing)
<1>1. PICK eng : eng = f.engine  OBVIOUS
<1>2. PICK lay \in Layouts : lay = f.layout  BY BodyAssumption
<1>3. PICK words \in Seq(Word) : words = f.words  BY BodyAssumption
<1>4. PICK n \in Nat : n = Len(BlockOrder) /\ Blocks = 1..n  BY Places DEF Blocks
<1>5. eng \in {"HaloCe", "Halo2V1", "Halo2V2"} /\ Len(words) >= n
  BY <1>1, <1>3, <1>4, BodyAssumption
<1>6. PICK bs : bs = d.blocks  OBVIOUS
<1>7. bs \in [BlockName -> ReadBlocks]  BY <1>2, <1>6, BlockAssumption
<1> DEFINE S == Shapes(lay, bs)
<1>8. /\ Len(words) < Limit /\ SoundShapes(eng, lay, S)
      /\ \A b \in BlockName : bs[b].elements = <<>> => d.inline[b] = Zero
  BY <1>1, <1>2, <1>3, <1>6 DEF SoundFile
<1>9. Sound(eng, lay, S)
  <2>1. S \subseteq [size : Widths, variant : Variant]  BY <1>7, ShapesTyped
  <2>2. BaseShape(lay) \in S  BY DEF Shapes, BaseShape
  <2>3. QED  BY <1>5, <1>8, <2>1, <2>2 DEF Sound
<1>10. \A b \in BlockName : bs[b].elements # <<>> => Shape(WidthOf(bs[b]), bs[b].elements[1].variant) \in S
  BY DEF Shapes
<1> HIDE DEF S
<1>11. PICK word : word = [b \in BlockName |-> words[Place(b)]]  OBVIOUS
<1>12. PICK rest : rest = Drop(words, n)  OBVIOUS
<1>13. Len(words) \in Nat /\ n \in 0..Len(words)
  <2>1. Len(words) \in Nat  BY LenProperties
  <2>2. QED  BY <1>5, <2>1, SMT
<1>14. /\ rest \in Seq(Word) /\ Len(rest) = Len(words) - n
       /\ SubSeq(words, 1, n) \in Seq(Word) /\ Len(SubSeq(words, 1, n)) = n
       /\ \A k \in 1..n : SubSeq(words, 1, n)[k] = words[k]
       /\ words = SubSeq(words, 1, n) \o rest
  <2>1. /\ SubSeq(words, 1, n) \in Seq(Word) /\ Len(SubSeq(words, 1, n)) = n
        /\ Drop(words, n) \in Seq(Word) /\ Len(Drop(words, n)) = Len(words) - n
        /\ \A k \in 1..n : SubSeq(words, 1, n)[k] = words[k]
        /\ words = SubSeq(words, 1, n) \o Drop(words, n)
    BY <1>13, SplitAt
  <2>2. QED  BY <1>12, <2>1
<1>15. Len(rest) < Limit  BY <1>8, <1>13, <1>14, Limits, SMT
<1>16. word \in [BlockName -> Word]
  <2>1. ASSUME NEW b \in BlockName PROVE words[Place(b)] \in Word
    <3>1. PICK k \in 1..n : k = Place(b)  BY <1>4, Places
    <3>2. k \in 1..Len(words)  BY <1>13, SMT
    <3>3. QED  BY <3>1, <3>2, ElementOfSeq
  <2>2. QED  BY <1>11, <2>1
<1>17. PICK e : e = ReadRoot(eng, lay, word, rest)  OBVIOUS
<1>18. /\ d.ok = (e.ok /\ (IsHalo2(eng) \/ e.rest = <<>>))
       /\ d.blocks = e.blocks /\ d.inline = word /\ d.trailing = e.rest
  <2>1. d = Decode(eng, lay, words)  BY <1>1, <1>2, <1>3
  <2>2. rest = Drop(words, Len(BlockOrder))  BY <1>4, <1>12
  <2>3. PICK g : g = Decode(eng, lay, words)  OBVIOUS
  <2>4. /\ g.ok = (e.ok /\ (IsHalo2(eng) \/ e.rest = <<>>))
        /\ g.blocks = e.blocks /\ g.inline = word /\ g.trailing = e.rest
    BY <1>11, <1>17, <2>2, <2>3, DecodeIs
  <2>5. g = d  BY <2>1, <2>3
  <2>6. QED  BY <2>4, <2>5
<1>19. e.ok /\ (IsHalo2(eng) \/ e.rest = <<>>)  BY <1>18
<1>20. SameBlocks(bs, e.blocks)  BY <1>6, <1>18 DEF SameBlocks
<1>21. KnownShapes(S, word, bs)  BY <1>8, <1>10, <1>18 DEF KnownShapes
<1>22. /\ \A b \in BlockName : Clean(eng, lay, S, word[b], bs[b])
       /\ e.rest \in Seq(Word) /\ rest = Cat(FlattenSeq(Chunks(bs)), e.rest)
  <2>1. PICK T : T = S  OBVIOUS
  <2>2. Sound(eng, lay, T) /\ KnownShapes(T, word, bs)  BY <1>9, <1>21, <2>1
  <2>3. e.ok /\ rest \in Seq(Word) /\ Len(rest) < Limit  BY <1>14, <1>15, <1>19
  <2>4. /\ \A b \in BlockName : Clean(eng, lay, T, word[b], bs[b])
        /\ e.rest \in Seq(Word) /\ rest = Cat(FlattenSeq(Chunks(bs)), e.rest)
    BY <1>16, <1>17, <1>20, <2>2, <2>3, BodyWas
  <2>5. QED  BY <2>1, <2>4
<1>23. bs \in [BlockName -> Block]
  <2>1. ASSUME NEW b \in BlockName PROVE bs[b] \in Block
    <3>1. Live(eng, lay, S, word[b], bs[b])  BY <1>9, <1>22, CleanIsLive
    <3>2. QED  BY <3>1 DEF Live
  <2>2. QED  BY <1>7, <2>1
<1>24. AllClean(eng, lay, S, word, bs)  BY <1>16, <1>22, <1>23 DEF AllClean
<1>25. MayTrail(eng, e.rest)  BY <1>19, <1>22 DEF MayTrail
<1>26. InlineWords(word) = SubSeq(words, 1, n)
  <2>1. ASSUME NEW k \in 1..n PROVE word[BlockOrder[k]] = SubSeq(words, 1, n)[k]
    <3>1. PICK b \in BlockName : b = BlockOrder[k] /\ Place(b) = k  BY <1>4, Places
    <3>2. word[b] = words[k]  BY <1>11, <3>1
    <3>3. QED  BY <1>14, <3>1, <3>2
  <2>2. PICK p : p = SubSeq(words, 1, n)  OBVIOUS
  <2>3. p \in Seq(Word) /\ Len(p) = n  BY <1>14, <2>2
  <2>4. p = [k \in 1..n |-> p[k]]  BY <2>3, SeqDef
  <2>5. [k \in 1..n |-> word[BlockOrder[k]]] = [k \in 1..n |-> p[k]]  BY <2>1, <2>2
  <2>6. QED  BY <1>4, <2>2, <2>4, <2>5 DEF InlineWords
<1>27. words = BodyWords(bs, word, e.rest)  BY <1>14, <1>22, <1>26 DEF BodyWords, Cat
<1>28. QED  BY <1>1, <1>2, <1>3, <1>6, <1>9, <1>18, <1>24, <1>25, <1>27

-----------------------------------------------------------------------------
(* What the encoder writes for the body.                                   *)
EncodedBody(eng, lay, inl, bs, trail) ==
  Cat(Cat([k \in Blocks |-> WordNow(eng, inl[BlockOrder[k]], bs[BlockOrder[k]])],
          FlattenSeq([k \in Blocks |-> Encoded(eng, lay, bs[BlockOrder[k]])])), trail)

(* Encode, as a function of the tag in memory.                             *)
LEMMA EncodeIs == Encode = EncodedBody(engine, layout, inline, blocks, trailing)
<1>1. \A k \in Blocks : BlockOrder[k] \in BlockName  BY Places
<1>2. ASSUME NEW k \in Blocks
      PROVE  /\ SyncInline(BlockOrder[k]) = WordNow(engine, inline[BlockOrder[k]], blocks[BlockOrder[k]])
             /\ EncodeBlock(BlockOrder[k]) = Encoded(engine, layout, blocks[BlockOrder[k]])
  <2>1. PICK b \in BlockName : b = BlockOrder[k]  BY <1>1
  <2>2. QED  BY <2>1, EncodesNow
<1>3. [k \in Blocks |-> SyncInline(BlockOrder[k])]
        = [k \in Blocks |-> WordNow(engine, inline[BlockOrder[k]], blocks[BlockOrder[k]])]
  BY <1>2
<1>4. [k \in Blocks |-> EncodeBlock(BlockOrder[k])]
        = [k \in Blocks |-> Encoded(engine, layout, blocks[BlockOrder[k]])]
  BY <1>2
<1>5. Encode = Cat(Cat([k \in Blocks |-> SyncInline(BlockOrder[k])],
                       FlattenSeq([k \in Blocks |-> EncodeBlock(BlockOrder[k])])), trailing)
  BY DEF Encode, Cat, Blocks
<1>6. QED  BY <1>3, <1>4, <1>5 DEF EncodedBody

(* And after a step.                                                       *)
EncodesIt == Encode = EncodedBody(engine, layout, inline, blocks, trailing)

(* The same after a step.                                                  *)
LEMMA EncodeWas == Encode' = EncodedBody(engine', layout', inline', blocks', trailing')
<1>1. EncodesIt  BY EncodeIs DEF EncodesIt
<1>2. EncodesIt'  BY <1>1, PTL
<1>3. QED  BY <1>2 DEF EncodesIt

AllLive(eng, lay, S, inl, bs) == \A b \in BlockName : Live(eng, lay, S, inl[b], bs[b])

(* If every block is written as a clean one, the body is the words of      *)
(* those.                                                                  *)
LEMMA BodyJoined ==
  ASSUME NEW eng, NEW lay, NEW S, Sound(eng, lay, S), NEW inl, NEW bs, NEW ws, NEW ys,
         AllClean(eng, lay, S, ws, ys), NEW trail \in Seq(Word),
         \A b \in BlockName : /\ WordNow(eng, inl[b], bs[b]) = ws[b]
                              /\ Encoded(eng, lay, bs[b]) = Chunk(ys[b])
  PROVE  EncodedBody(eng, lay, inl, bs, trail) = BodyWords(ys, ws, trail)
<1>1. \A k \in Blocks : BlockOrder[k] \in BlockName  BY Places
<1>2. [k \in Blocks |-> WordNow(eng, inl[BlockOrder[k]], bs[BlockOrder[k]])] = InlineWords(ws)
  BY <1>1 DEF InlineWords
<1>3. [k \in Blocks |-> Encoded(eng, lay, bs[BlockOrder[k]])] = Chunks(ys)  BY <1>1 DEF Chunks
<1>4. EncodedBody(eng, lay, inl, bs, trail) = Cat(Cat(InlineWords(ws), FlattenSeq(Chunks(ys))), trail)
  BY <1>2, <1>3 DEF EncodedBody
<1>5. InlineWords(ws) \in Seq(Word) /\ FlattenSeq(Chunks(ys)) \in Seq(Word)  BY BodyTyped
<1>6. QED  BY <1>4, <1>5, CatFacts DEF BodyWords

(* A body of clean blocks is written as it is.                             *)
LEMMA CleanBodyEncodes ==
  ASSUME NEW eng, NEW lay, NEW S, Sound(eng, lay, S), NEW inl, NEW bs, AllClean(eng, lay, S, inl, bs),
         NEW trail \in Seq(Word)
  PROVE  EncodedBody(eng, lay, inl, bs, trail) = BodyWords(bs, inl, trail)
<1>1. ASSUME NEW b \in BlockName
      PROVE  WordNow(eng, inl[b], bs[b]) = inl[b] /\ Encoded(eng, lay, bs[b]) = Chunk(bs[b])
  <2>1. Clean(eng, lay, S, inl[b], bs[b])  BY DEF AllClean
  <2>2. QED  BY <2>1, CleanEncodes
<1>2. QED  BY <1>1, BodyJoined

(* Every body is written as some body of clean blocks with its elements.   *)
LEMMA LiveBodyEncodes ==
  ASSUME NEW eng, NEW lay, NEW S, Sound(eng, lay, S), NEW inl, NEW bs, AllLive(eng, lay, S, inl, bs),
         NEW trail \in Seq(Word)
  PROVE  \E ys, ws : /\ AllClean(eng, lay, S, ws, ys)
                     /\ EncodedBody(eng, lay, inl, bs, trail) = BodyWords(ys, ws, trail)
                     /\ \A b \in BlockName : ReadingsOf(ys[b]) = ReadingsOf(bs[b])
<1> DEFINE Fit(b, y) == /\ Clean(eng, lay, S, WordNow(eng, inl[b], bs[b]), y)
                        /\ Encoded(eng, lay, bs[b]) = Chunk(y)
                        /\ ReadingsOf(y) = ReadingsOf(bs[b])
           pick(b) == CHOOSE y \in Block : Fit(b, y)
           ys == [b \in BlockName |-> pick(b)]
           ws == [b \in BlockName |-> WordNow(eng, inl[b], bs[b])]
<1>1. ASSUME NEW b \in BlockName PROVE \E y \in Block : Fit(b, y)
  <2>1. Live(eng, lay, S, inl[b], bs[b])  BY DEF AllLive
  <2>2. QED  BY <2>1, LiveEncodes
<1>2. ASSUME NEW b \in BlockName PROVE pick(b) \in Block /\ Fit(b, pick(b))
  <2> HIDE DEF Fit
  <2>1. QED  BY <1>1
<1> HIDE DEF pick
<1>3. ys \in [BlockName -> Block] /\ \A b \in BlockName : ys[b] = pick(b)  BY <1>2
<1>4. \A b \in BlockName : ws[b] = WordNow(eng, inl[b], bs[b])  OBVIOUS
<1>5. ws \in [BlockName -> Word]
  <2>1. ASSUME NEW b \in BlockName PROVE WordNow(eng, inl[b], bs[b]) \in Word
    <3>1. Clean(eng, lay, S, WordNow(eng, inl[b], bs[b]), pick(b))  BY <1>2
    <3>2. <<>> \in Seq(Word)  OBVIOUS
    <3>3. PICK w : w = WordNow(eng, inl[b], bs[b])  OBVIOUS
    <3>4. w \in Word  BY <3>1, <3>2, <3>3, CleanReads
    <3>5. QED  BY <3>3, <3>4
  <2>2. QED  BY <2>1
<1> HIDE DEF ys, ws
<1>6. AllClean(eng, lay, S, ws, ys)  BY <1>2, <1>3, <1>4, <1>5 DEF AllClean
<1>7. \A b \in BlockName : /\ WordNow(eng, inl[b], bs[b]) = ws[b]
                           /\ Encoded(eng, lay, bs[b]) = Chunk(ys[b])
                           /\ ReadingsOf(ys[b]) = ReadingsOf(bs[b])
  BY <1>2, <1>3, <1>4
<1>8. EncodedBody(eng, lay, inl, bs, trail) = BodyWords(ys, ws, trail)  BY <1>6, <1>7, BodyJoined
<1>9. QED  BY <1>6, <1>7, <1>8

-----------------------------------------------------------------------------
(* What the editor does to a block that is live.                           *)

(* An element's tree: of one variant, with its data field.                 *)
Fine(t, v) == \E d \in Seq(Word) : Len(d) < Limit /\ t = Tree(v, <<d>>)

(* A list of trees spans a variant when each tree does.                    *)
LEMMA SpansFine == \A els, v : Spans(els, v) <=> (\A i \in 1..Len(els) : Fine(els[i], v))
BY DEF Spans, Fine

(* A new element has an empty data field.                                  *)
LEMMA NewIsFine == \A v : Fine(NewDefault(v), v)
<1> TAKE v
<1>1. PICK d : d = <<>>  OBVIOUS
<1>2. d \in Seq(Word) /\ Len(d) = 0  BY <1>1
<1>3. Len(d) < Limit
  <2>1. Limit = 32768  BY Limits
  <2>2. 0 < 32768  BY SMT
  <2>3. QED  BY <1>2, <2>1, <2>2
<1>4. NewDefault(v) = Tree(v, <<d>>)  BY <1>1 DEF NewDefault
<1>5. QED  BY <1>2, <1>3, <1>4 DEF Fine

(* Elements of one variant stay so when one of it comes in,                *)
LEMMA SpansInsert ==
  ASSUME NEW els \in Seq(TreeType), NEW v, Spans(els, v), NEW i \in 1..(Len(els) + 1),
         NEW t \in TreeType, Fine(t, v)
  PROVE  Spans(InsertAt(els, i, t), v)
<1>1. PICK n \in Nat : n = Len(els)  BY LenProperties
<1>2. PICK q : q = InsertAt(els, i, t)  OBVIOUS
<1>3. /\ q \in Seq(TreeType) /\ Len(q) = n + 1
      /\ \A k \in 1..(n + 1) : q[k] = IF k < i THEN els[k] ELSE IF k = i THEN t ELSE els[k - 1]
  <2>1. /\ InsertAt(els, i, t) \in Seq(TreeType) /\ Len(InsertAt(els, i, t)) = Len(els) + 1
        /\ \A k \in 1..(Len(els) + 1) :
             InsertAt(els, i, t)[k] = IF k < i THEN els[k] ELSE IF k = i THEN t ELSE els[k - 1]
    BY InsertFacts
  <2>2. QED  BY <1>1, <1>2, <2>1
<1>4. \A k \in 1..n : Fine(els[k], v)  BY <1>1, SpansFine
<1>5. ASSUME NEW k \in 1..(n + 1) PROVE Fine(q[k], v)
  <2>1. CASE k < i
    <3>1. k \in 1..n  BY <1>1, <2>1, SMT
    <3>2. QED  BY <1>3, <1>4, <2>1, <3>1
  <2>2. CASE k = i
    <3>1. ~(k < i)  BY <1>1, <2>2, SMT
    <3>2. QED  BY <1>3, <2>2, <3>1
  <2>3. CASE ~(k < i) /\ k # i
    <3>1. k - 1 \in 1..n  BY <1>1, <2>3, SMT
    <3>2. q[k] = els[k - 1]  BY <1>3, <2>3
    <3>3. QED  BY <1>4, <3>1, <3>2
  <2>4. QED  BY <2>1, <2>2, <2>3
<1>6. QED  BY <1>2, <1>3, <1>5, SpansFine

(* when one goes,                                                          *)
LEMMA SpansRemove ==
  ASSUME NEW els \in Seq(TreeType), NEW v, Spans(els, v), NEW i \in 1..Len(els)
  PROVE  Spans(RemoveAt(els, i), v)
<1>1. PICK n \in Nat : n = Len(els)  BY LenProperties
<1>2. PICK q : q = RemoveAt(els, i)  OBVIOUS
<1>3. /\ q \in Seq(TreeType) /\ Len(q) = n - 1
      /\ \A k \in 1..(n - 1) : q[k] = IF k < i THEN els[k] ELSE els[k + 1]
  BY <1>1, <1>2, RemoveFacts
<1>4. \A k \in 1..n : Fine(els[k], v)  BY <1>1, SpansFine
<1>5. ASSUME NEW k \in 1..(n - 1) PROVE Fine(q[k], v)
  <2>1. k \in 1..n /\ k + 1 \in 1..n  BY <1>1, SMT
  <2>2. CASE k < i  BY <1>3, <1>4, <2>1, <2>2
  <2>3. CASE ~(k < i)
    <3>1. q[k] = els[k + 1]  BY <1>3, <2>3
    <3>2. QED  BY <1>4, <2>1, <3>1
  <2>4. QED  BY <2>2, <2>3
<1>6. QED  BY <1>2, <1>3, <1>5, SpansFine

(* and when two change places.                                             *)
LEMMA SpansSwap ==
  ASSUME NEW els \in Seq(TreeType), NEW v, Spans(els, v), NEW i \in 1..Len(els), NEW j \in 1..Len(els)
  PROVE  Spans(Swapped(els, i, j), v)
<1>1. PICK q : q = Swapped(els, i, j)  OBVIOUS
<1>2. /\ Len(q) = Len(els)
      /\ \A k \in 1..Len(els) : q[k] = els[IF k = i THEN j ELSE IF k = j THEN i ELSE k]
  <2>1. /\ Len(Swapped(els, i, j)) = Len(els)
        /\ \A k \in 1..Len(els) :
             Swapped(els, i, j)[k] = els[IF k = i THEN j ELSE IF k = j THEN i ELSE k]
    BY SwapFacts
  <2>2. QED  BY <1>1, <2>1
<1>3. \A k \in 1..Len(els) : Fine(els[k], v)  BY SpansFine
<1>4. \A k \in 1..Len(els) : Fine(q[k], v)  BY <1>2, <1>3
<1>5. QED  BY <1>1, <1>2, <1>4, SpansFine

(* A snapshot is an element of one of the shapes.                          *)
ClipMay(S, c) == c # <<>> => \E s \in S : Len(c[1].raw) = s.size /\ Fine(c[1].tree, s.variant)

(* A body that can be edited.                                              *)
Editable(S) ==
  /\ BlockInv /\ Sound(engine, layout, S)
  /\ AllLive(engine, layout, S, inline, blocks) /\ ClipMay(S, clip)

(* What the elements of a block that is edited are like.                   *)
Shaped(b, s) ==
  /\ ElementSize(b) = s.size /\ ElementStruct(b) = s.variant
  /\ Spans(blocks[b].elements, s.variant)

(* The shape, the header and the count of a block that can be edited.      *)
LEMMA ShapeNow ==
  ASSUME NEW S, Editable(S), NEW b \in BlockName
  PROVE  /\ \E s \in S : Shaped(b, s)
         /\ HeaderMay(engine, layout, blocks[b].header)
         /\ blocks[b].elements # <<>> => Count(b) \in Few
<1>1. /\ Sound(engine, layout, S) /\ Live(engine, layout, S, inline[b], blocks[b]) /\ BlockInv
  BY DEF Editable, AllLive
<1>2. HeaderMay(engine, layout, blocks[b].header)  BY <1>1 DEF Live
<1>3. CASE blocks[b].elements = <<>>
  <2>1. PICK s \in S : s = BaseShape(layout)  BY <1>1 DEF Sound
  <2>2. s.size = layout.width[layout.base] /\ s.variant = layout.base
    BY <2>1 DEF BaseShape, Shape
  <2>3. ElementSize(b) = s.size /\ ElementStruct(b) = s.variant
    BY <1>3, <2>2 DEF ElementSize, ElementStruct
  <2>4. Len(blocks[b].elements) = 0  BY <1>3
  <2>5. Spans(blocks[b].elements, s.variant)  BY <2>4 DEF Spans
  <2>6. QED  BY <1>2, <1>3, <2>3, <2>5 DEF Shaped
<1>4. CASE blocks[b].elements # <<>>
  <2>1. PICK s \in S : HoldsShape(engine, layout, inline[b], blocks[b], s)  BY <1>1, <1>4 DEF Live
  <2>2. Count(b) \in Few  BY <1>1, <1>4 DEF Live, Count
  <2>3. PICK n \in Nat \ {0} : n = Count(b)  BY <2>2, Counted
  <2>4. /\ Sized(blocks[b].raw, n, s.size) /\ Spans(blocks[b].elements, s.variant)
    BY <2>1, <2>3 DEF HoldsShape, Count
  <2>5. s.size \in Nat /\ s.size \in Nat \ {0}  BY <1>1, ShapeFacts
  <2>6. /\ Sized(blocks[b].raw, n, ElementSize(b)) /\ ElementSize(b) \in Nat
    BY <1>1, <2>3, BlockFacts
  <2>7. ElementSize(b) = s.size
    <3>1. PICK a \in Nat : a = ElementSize(b)  BY <2>6
    <3>2. PICK c \in Nat : c = s.size  BY <2>5
    <3>3. n * a = n * c  BY <2>4, <2>6, <3>1, <3>2 DEF Sized
    <3>4. (n * a) \div n = a /\ (n * c) \div n = c  BY <2>3, QuotientOf
    <3>5. QED  BY <3>1, <3>2, <3>3, <3>4
  <2>8. ElementStruct(b) = s.variant
    <3>1. 1 \in 1..Len(blocks[b].elements)  BY <2>3, SMT DEF Count
    <3>2. PICK d \in Seq(Word) : blocks[b].elements[1] = Tree(s.variant, <<d>>)
      BY <2>4, <3>1 DEF Spans
    <3>3. blocks[b].elements[1].variant = s.variant  BY <3>2 DEF Tree
    <3>4. QED  BY <1>4, <3>3 DEF ElementStruct
  <2>9. QED  BY <1>2, <2>2, <2>4, <2>7, <2>8 DEF Shaped
<1>5. QED  BY <1>3, <1>4

(* Only the block that is edited need be looked at.                        *)
OthersStay(b, x) ==
  /\ blocks' = [blocks EXCEPT ![b] = x]
  /\ UNCHANGED <<layout, clip>>

(* An edit that leaves one block live, and the others alone, keeps all     *)
(* live.                                                                   *)
LEMMA OneEdited ==
  ASSUME NEW S, Editable(S), NEW b \in BlockName, NEW x, OthersStay(b, x),
         Live(engine, layout, S, inline[b], x)
  PROVE  AllLive(engine, layout, S, inline, blocks') /\ ClipMay(S, clip')
<1>1. DOMAIN blocks = BlockName  BY DEF Editable, BlockInv
<1>2. blocks'[b] = x /\ \A c \in BlockName : c # b => blocks'[c] = blocks[c]
  BY <1>1 DEF OthersStay
<1>3. \A c \in BlockName : Live(engine, layout, S, inline[c], blocks[c])  BY DEF Editable, AllLive
<1>4. \A c \in BlockName : Live(engine, layout, S, inline[c], blocks'[c])  BY <1>2, <1>3
<1>5. clip' = clip  BY DEF OthersStay
<1>6. QED  BY <1>4, <1>5 DEF Editable, AllLive

(* A structural edit leaves elements of one shape, not too many.           *)
Sorted(S, raw, els) ==
  els # <<>> => /\ Len(els) \in Few
                /\ \E s \in S : Sized(raw, Len(els), s.size) /\ Spans(els, s.variant)

(* So does a block that becomes elements of its shape under a fair header. *)
LEMMA BecomeLive ==
  ASSUME NEW S, Editable(S), NEW b \in BlockName, NEW raw \in Seq(Word), NEW els \in Seq(TreeType),
         NEW h \in Seq(Word), HeaderMay(engine, layout, h), Sorted(S, raw, els), Become(b, raw, els, h)
  PROVE  AllLive(engine, layout, S, inline, blocks') /\ ClipMay(S, clip')
<1>1. PICK x : x = BlockData(raw, els, h, TRUE)  OBVIOUS
<1>2. x \in Block /\ x.raw = raw /\ x.elements = els /\ x.header = h /\ x.dirty
  BY <1>1 DEF BlockData, Block
<1>3. inline[b] \in Word
  <2>1. Live(engine, layout, S, inline[b], blocks[b])  BY DEF Editable, AllLive
  <2>2. QED  BY <2>1 DEF Live
<1>4. OthersStay(b, x)  BY <1>1 DEF Become, OthersStay
<1>5. els # <<>> => \E s \in S : HoldsShape(engine, layout, inline[b], x, s)
  BY <1>2 DEF Sorted, HoldsShape
<1>6. Live(engine, layout, S, inline[b], x)  BY <1>2, <1>3, <1>5 DEF Live, Sorted
<1>7. QED  BY <1>4, <1>6, OneEdited

-----------------------------------------------------------------------------
(* The edits, one by one.                                                  *)
KeptLive(S) == AllLive(engine, layout, S, inline, blocks') /\ ClipMay(S, clip')

(* What a header can count, in numbers.                                    *)
LEMMA FewIs == \A n : n \in Few <=> n \in Nat \ {0} /\ n < Limit
<1>1. PICK m \in Nat : m = Limit
  <2>1. 32768 \in Nat  BY SMT
  <2>2. QED  BY <2>1, Limits
<1>2. Few = 1..(m - 1)  BY <1>1 DEF Few
<1>3. \A n : n \in 1..(m - 1) <=> n \in Nat \ {0} /\ n < m  BY SMT
<1>4. QED  BY <1>1, <1>2, <1>3

(* One more than is allowed for can still be counted.                      *)
LEMMA OneMore ==
  ASSUME NEW n \in Nat, n < MaxElements
  PROVE  n + 1 \in Few
<1>1. PICK m \in Nat : m = Limit
  <2>1. 32768 \in Nat  BY SMT
  <2>2. QED  BY <2>1, Limits
<1>2. PICK p \in 0..(m - 1) : p = MaxElements  BY <1>1, BodyAssumption
<1>3. n < p  BY <1>2
<1>4. n + 1 \in Nat \ {0} /\ n + 1 < m  BY <1>3, SMT
<1>5. QED  BY <1>1, <1>4, FewIs

(* The header the editor gives an empty block is one the encoder can use.  *)
LEMMA EditorsHeader ==
  ASSUME NEW S, Editable(S), NEW b \in BlockName, NEW h, h = EnsureH2Header(b, ElementSize(b))
  PROVE  h \in Seq(Word) /\ HeaderMay(engine, layout, h)
<1>1. BlockInv /\ Sound(engine, layout, S) /\ HeaderMay(engine, layout, blocks[b].header)
  BY ShapeNow DEF Editable
<1>2. h \in Seq(Word)  BY <1>1, HeaderFacts
<1>3. CASE h = blocks[b].header  BY <1>1, <1>2, <1>3
<1>4. CASE h # blocks[b].header
  <2>1. layout.h2 /\ h = <<Signature, Zero, Zero, U32(ElementSize(b))>>
    BY <1>4 DEF EnsureH2Header
  <2>2. Len(h) = 4  BY <2>1
  <2>3. engine = "Halo2V2"
    <3>1. BaseShape(layout) \in S  BY <1>1 DEF Sound
    <3>2. PICK s \in S : s = BaseShape(layout)  BY <3>1
    <3>3. engine # "Halo2V2" => ~layout.h2  BY <1>1, ShapeFacts
    <3>4. QED  BY <2>1, <3>3
  <2>4. HeaderMay(engine, layout, h)  BY <2>2, <2>3 DEF HeaderMay, IsHalo2
  <2>5. QED  BY <1>2, <2>4
<1>5. QED  BY <1>3, <1>4

(* An element of the block's shape comes in.                               *)
LEMMA PutLive ==
  ASSUME NEW S, Editable(S), NEW b \in BlockName, Count(b) < MaxElements,
         NEW i \in 1..(Count(b) + 1), NEW words \in Seq(Word), Len(words) = ElementSize(b),
         NEW t \in TreeType, NEW s \in S, Shaped(b, s), Fine(t, s.variant),
         NEW h \in Seq(Word), HeaderMay(engine, layout, h),
         Become(b, Splice(blocks[b].raw, ElementSize(b), i, words),
                   InsertAt(blocks[b].elements, i, t), h)
  PROVE  KeptLive(S)
<1>1. BlockInv  BY DEF Editable
<1>2. PICK els \in Seq(TreeType) : els = blocks[b].elements  BY <1>1, BlockFacts
<1>3. PICK size \in Nat : size = ElementSize(b) /\ size = s.size  BY <1>1, BlockFacts DEF Shaped
<1>4. PICK n \in Nat : n = Len(els) /\ n = Count(b)  BY <1>1, <1>2, BlockFacts
<1>5. PICK raw : raw = blocks[b].raw  OBVIOUS
<1>6. Sized(raw, n, size)
  <2>1. Sized(blocks[b].raw, Len(blocks[b].elements), ElementSize(b))  BY <1>1, BlockFacts
  <2>2. QED  BY <1>2, <1>3, <1>4, <1>5, <2>1
<1>7. PICK c : c = Splice(raw, size, i, words)  OBVIOUS
<1>8. PICK ts : ts = InsertAt(els, i, t)  OBVIOUS
<1>9. i \in 1..(n + 1) /\ i \in 1..(Len(els) + 1)  BY <1>4
<1>10. ts \in Seq(TreeType) /\ Len(ts) = n + 1
  <2>1. InsertAt(els, i, t) \in Seq(TreeType) /\ Len(InsertAt(els, i, t)) = Len(els) + 1
    BY <1>9, InsertFacts
  <2>2. QED  BY <1>4, <1>8, <2>1
<1>11. Sized(c, n + 1, size)
  <2>1. Len(words) = size  BY <1>3
  <2>2. QED  BY <1>6, <1>7, <1>9, <2>1, SpliceFacts
<1>12. Spans(els, s.variant)  BY <1>2 DEF Shaped
<1>13. Spans(ts, s.variant)
  <2>1. PICK v : v = s.variant  OBVIOUS
  <2>2. Spans(els, v) /\ Fine(t, v)  BY <1>12, <2>1
  <2>3. Spans(InsertAt(els, i, t), v)  BY <1>9, <2>2, SpansInsert
  <2>4. QED  BY <1>8, <2>1, <2>3
<1>14. n + 1 \in Few  BY <1>4, OneMore
<1>15. Sorted(S, c, ts)  BY <1>3, <1>10, <1>11, <1>13, <1>14 DEF Sorted
<1>16. c \in Seq(Word) /\ Become(b, c, ts, h)
  BY <1>2, <1>3, <1>5, <1>7, <1>8, <1>11 DEF Sized
<1>17. QED  BY <1>10, <1>15, <1>16, BecomeLive DEF KeptLive

(* InsertElement: a blank element of the width and variant the block has.  *)
LEMMA InsertLive ==
  ASSUME NEW S, Editable(S), NEW b \in BlockName, Count(b) < MaxElements,
         NEW i \in 1..(Count(b) + 1), InsertElement(b, i)
  PROVE  KeptLive(S)
<1>1. BlockInv /\ Sound(engine, layout, S)  BY DEF Editable
<1>2. PICK s \in S : Shaped(b, s)  BY ShapeNow
<1>3. PICK size \in Nat : size = ElementSize(b)  BY <1>1, BlockFacts
<1>4. PICK v \in Variant : v = ElementStruct(b) /\ v = s.variant
  BY <1>1, <1>2, ShapeFacts DEF Shaped
<1>5. PICK words : words = [k \in 1..size |-> Zero]  OBVIOUS
<1>6. words \in Seq(Word) /\ Len(words) = size
  <2>1. Zero \in Word  BY DEF Zero, Word
  <2>2. words \in [1..size -> Word]  BY <1>5, <2>1
  <2>3. words \in Seq(Word)  BY <2>2, SeqDef
  <2>4. DOMAIN words = 1..size  BY <2>2
  <2>5. QED  BY <2>3, <2>4, LenProperties
<1>7. PICK t : t = NewDefault(v)  OBVIOUS
<1>8. t \in TreeType
  <2>1. PICK e : e = <<>>  OBVIOUS
  <2>2. e \in Seq(Word)  BY <2>1
  <2>3. <<e>> \in Seq(Seq(Word))  BY <2>2
  <2>4. t = Tree(v, <<e>>)  BY <1>7, <2>1 DEF NewDefault
  <2>5. QED  BY <2>3, <2>4 DEF Tree, TreeType
<1>9. Fine(t, s.variant)  BY <1>4, <1>7, NewIsFine
<1>10. PICK h : h = EnsureH2Header(b, ElementSize(b))  OBVIOUS
<1>11. h \in Seq(Word) /\ HeaderMay(engine, layout, h)  BY <1>10, EditorsHeader
<1>12. Become(b, Splice(blocks[b].raw, ElementSize(b), i, words),
                 InsertAt(blocks[b].elements, i, t), h)
  BY <1>3, <1>4, <1>5, <1>7, <1>10 DEF InsertElement
<1>13. Len(words) = ElementSize(b)  BY <1>3, <1>6
<1>14. QED  BY <1>2, <1>6, <1>8, <1>9, <1>11, <1>12, <1>13, PutLive

(* PasteElement: the clip has the width of a shape, so its variant too.    *)
LEMMA PasteLive ==
  ASSUME NEW S, Editable(S), NEW b \in BlockName, Count(b) < MaxElements,
         NEW i \in 1..(Count(b) + 1), PasteElement(b, i)
  PROVE  KeptLive(S)
<1>1. BlockInv /\ Sound(engine, layout, S) /\ ClipMay(S, clip)  BY DEF Editable
<1>2. PICK s \in S : Shaped(b, s)  BY ShapeNow
<1>3. PICK e \in Element : clip = <<e>>  BY <1>1 DEF BlockInv, PasteElement
<1>4. clip # <<>> /\ clip[1] = e  BY <1>3
<1>5. PICK words \in Seq(Word) : words = e.raw  BY DEF Element
<1>6. PICK t \in TreeType : t = e.tree  BY DEF Element
<1>7. PICK r \in S : Len(words) = r.size /\ Fine(t, r.variant)  BY <1>1, <1>4, <1>5, <1>6 DEF ClipMay
<1>8. Len(words) = ElementSize(b)  BY <1>4, <1>5 DEF PasteElement
<1>9. s = r
  <2>1. s.size = r.size  BY <1>2, <1>7, <1>8 DEF Shaped
  <2>2. QED  BY <1>1, <2>1, ShapeFacts
<1>10. PICK h : h = EnsureH2Header(b, ElementSize(b))  OBVIOUS
<1>11. h \in Seq(Word) /\ HeaderMay(engine, layout, h)  BY <1>10, EditorsHeader
<1>12. Become(b, Splice(blocks[b].raw, ElementSize(b), i, words),
                 InsertAt(blocks[b].elements, i, t), h)
  BY <1>4, <1>5, <1>6, <1>10 DEF PasteElement
<1>13. Fine(t, s.variant)  BY <1>7, <1>9
<1>14. QED  BY <1>2, <1>8, <1>11, <1>12, <1>13, PutLive

(* An element that stands in a block is of the block's shape.              *)
LEMMA ElementNow ==
  ASSUME NEW S, Editable(S), NEW b \in BlockName, NEW i \in 1..Count(b), NEW s \in S, Shaped(b, s)
  PROVE  /\ ElementRaw(b, i) \in Seq(Word) /\ Len(ElementRaw(b, i)) = s.size
         /\ Len(ElementRaw(b, i)) = ElementSize(b)
         /\ blocks[b].elements[i] \in TreeType /\ Fine(blocks[b].elements[i], s.variant)
         /\ blocks[b].elements # <<>> /\ Count(b) \in Few
<1>1. BlockInv  BY DEF Editable
<1>2. /\ ElementRaw(b, i) \in Seq(Word) /\ Len(ElementRaw(b, i)) = ElementSize(b)
      /\ blocks[b].elements[i] \in TreeType
  BY <1>1, ElementFacts
<1>3. ElementSize(b) = s.size /\ Spans(blocks[b].elements, s.variant)  BY DEF Shaped
<1>4. Fine(blocks[b].elements[i], s.variant)  BY <1>3, SpansFine DEF Count
<1>5. blocks[b].elements # <<>>
  <2>1. blocks[b].elements = <<>> => Len(blocks[b].elements) = 0  OBVIOUS
  <2>2. Count(b) = Len(blocks[b].elements) /\ Count(b) \in Nat  BY <1>1, BlockFacts
  <2>3. Count(b) # 0  BY <2>2, SMT
  <2>4. QED  BY <2>1, <2>2, <2>3
<1>6. Count(b) \in Few  BY <1>5, ShapeNow
<1>7. QED  BY <1>2, <1>3, <1>4, <1>5, <1>6

(* DuplicateElement: a copy of an element that is there.                   *)
LEMMA DuplicateLive ==
  ASSUME NEW S, Editable(S), NEW b \in BlockName, Count(b) < MaxElements,
         NEW i \in 1..Count(b), DuplicateElement(b, i)
  PROVE  KeptLive(S)
<1>1. BlockInv  BY DEF Editable
<1>2. PICK s \in S : Shaped(b, s)  BY ShapeNow
<1>3. PICK words \in Seq(Word) : words = ElementRaw(b, i)  BY <1>2, ElementNow
<1>4. PICK t \in TreeType : t = blocks[b].elements[i]  BY <1>2, ElementNow
<1>5. Len(words) = ElementSize(b) /\ Fine(t, s.variant)  BY <1>2, <1>3, <1>4, ElementNow
<1>6. PICK j \in 1..(Count(b) + 1) : j = i + 1
  <2>1. Count(b) \in Nat  BY <1>1, BlockFacts
  <2>2. i + 1 \in 1..(Count(b) + 1)  BY <2>1, SMT
  <2>3. QED  BY <2>2
<1>7. PICK h \in Seq(Word) : h = blocks[b].header  BY <1>1, BlockFacts
<1>8. HeaderMay(engine, layout, h)  BY <1>7, ShapeNow
<1>9. Become(b, Splice(blocks[b].raw, ElementSize(b), j, words),
                InsertAt(blocks[b].elements, j, t), h)
  BY <1>3, <1>4, <1>6, <1>7 DEF DuplicateElement
<1>10. QED  BY <1>2, <1>5, <1>8, <1>9, PutLive

(* The elements are rearranged, or fewer.                                  *)
LEMMA RearrangeLive ==
  ASSUME NEW S, Editable(S), NEW b \in BlockName, NEW s \in S, Shaped(b, s), NEW raw,
         NEW els \in Seq(TreeType), Sized(raw, Len(els), ElementSize(b)), Spans(els, s.variant),
         Len(els) <= Count(b), blocks[b].elements # <<>>, Become(b, raw, els, blocks[b].header)
  PROVE  KeptLive(S)
<1>1. BlockInv  BY DEF Editable
<1>2. PICK h \in Seq(Word) : h = blocks[b].header  BY <1>1, BlockFacts
<1>3. HeaderMay(engine, layout, h) /\ Count(b) \in Few  BY <1>2, ShapeNow
<1>4. Sized(raw, Len(els), s.size)  BY DEF Shaped
<1>5. els # <<>> => Len(els) \in Few
  <2> SUFFICES ASSUME els # <<>> PROVE Len(els) \in Few  OBVIOUS
  <2>1. Len(els) \in Nat \ {0}  BY EmptySeq, LenProperties
  <2>2. PICK m \in Nat : m = Limit  BY Limits, SMT
  <2>3. PICK c \in Nat \ {0} : c = Count(b) /\ c < m  BY <1>3, <2>2, FewIs
  <2>4. PICK n \in Nat \ {0} : n = Len(els)  BY <2>1
  <2>5. n <= c  BY <2>3, <2>4
  <2>6. n < m  BY <2>3, <2>5, SMT
  <2>7. QED  BY <2>2, <2>4, <2>6, FewIs
<1>6. Sorted(S, raw, els)  BY <1>4, <1>5 DEF Sorted
<1>7. raw \in Seq(Word) /\ Become(b, raw, els, h)  BY <1>2, <1>4 DEF Sized
<1>8. QED  BY <1>3, <1>6, <1>7, BecomeLive DEF KeptLive

-----------------------------------------------------------------------------
(* DeleteElement: one element fewer, or none.                              *)
LEMMA DeleteLive ==
  ASSUME NEW S, Editable(S), NEW b \in BlockName, NEW i \in 1..Count(b), DeleteElement(b, i)
  PROVE  KeptLive(S)
<1>1. BlockInv  BY DEF Editable
<1>2. PICK s \in S : Shaped(b, s)  BY ShapeNow
<1>3. PICK els \in Seq(TreeType) : els = blocks[b].elements  BY <1>1, BlockFacts
<1>4. PICK size \in Nat : size = ElementSize(b)  BY <1>1, BlockFacts
<1>5. PICK n \in Nat : n = Len(els) /\ n = Count(b)  BY <1>1, <1>3, BlockFacts
<1>6. PICK raw : raw = blocks[b].raw  OBVIOUS
<1>7. Sized(raw, n, size)
  <2>1. Sized(blocks[b].raw, Len(blocks[b].elements), ElementSize(b))  BY <1>1, BlockFacts
  <2>2. QED  BY <1>3, <1>4, <1>5, <1>6, <2>1
<1>8. PICK c : c = Drain(raw, size, i)  OBVIOUS
<1>9. PICK ts : ts = RemoveAt(els, i)  OBVIOUS
<1>10. i \in 1..n /\ i \in 1..Len(els)  BY <1>5
<1>11. ts \in Seq(TreeType) /\ Len(ts) = n - 1
  <2>1. RemoveAt(els, i) \in Seq(TreeType) /\ Len(RemoveAt(els, i)) = Len(els) - 1
    BY <1>10, RemoveFacts
  <2>2. QED  BY <1>5, <1>9, <2>1
<1>12. Sized(c, n - 1, size)  BY <1>7, <1>8, <1>10, DrainFacts
<1>13. Spans(ts, s.variant)
  <2>1. PICK v : v = s.variant  OBVIOUS
  <2>2. Spans(els, v)  BY <1>2, <1>3, <2>1 DEF Shaped
  <2>3. Spans(RemoveAt(els, i), v)  BY <1>10, <2>2, SpansRemove
  <2>4. QED  BY <1>9, <2>1, <2>3
<1>14. Len(ts) <= Count(b)
  <2>1. n - 1 <= n  BY SMT
  <2>2. QED  BY <1>5, <1>11, <2>1
<1>15. Sized(c, Len(ts), ElementSize(b)) /\ Become(b, c, ts, blocks[b].header)
  BY <1>3, <1>4, <1>6, <1>8, <1>9, <1>11, <1>12 DEF DeleteElement
<1>16. blocks[b].elements # <<>>  BY <1>2, ElementNow
<1>17. QED  BY <1>2, <1>11, <1>13, <1>14, <1>15, <1>16, RearrangeLive

(* SwapElements: the same elements.                                        *)
LEMMA SwapLive ==
  ASSUME NEW S, Editable(S), NEW b \in BlockName, NEW i \in 1..Count(b), NEW j \in 1..Count(b),
         SwapElements(b, i, j)
  PROVE  KeptLive(S)
<1>1. BlockInv  BY DEF Editable
<1>2. PICK s \in S : Shaped(b, s)  BY ShapeNow
<1>3. PICK els \in Seq(TreeType) : els = blocks[b].elements  BY <1>1, BlockFacts
<1>4. PICK size \in Nat \ {0} : size = ElementSize(b)  BY <1>1, BlockFacts
<1>5. PICK n \in Nat : n = Len(els) /\ n = Count(b)  BY <1>1, <1>3, BlockFacts
<1>6. PICK raw : raw = blocks[b].raw  OBVIOUS
<1>7. Sized(raw, n, size)
  <2>1. Sized(blocks[b].raw, Len(blocks[b].elements), ElementSize(b))  BY <1>1, BlockFacts
  <2>2. QED  BY <1>3, <1>4, <1>5, <1>6, <2>1
<1>8. PICK c : c = Exchange(raw, size, i, j)  OBVIOUS
<1>9. PICK ts : ts = Swapped(els, i, j)  OBVIOUS
<1>10. i \in 1..n /\ j \in 1..n /\ i \in 1..Len(els) /\ j \in 1..Len(els)  BY <1>5
<1>11. ts \in Seq(TreeType) /\ Len(ts) = n
  <2>1. Swapped(els, i, j) \in Seq(TreeType) /\ Len(Swapped(els, i, j)) = Len(els)
    BY <1>10, SwapFacts
  <2>2. QED  BY <1>5, <1>9, <2>1
<1>12. Sized(c, n, size)  BY <1>7, <1>8, <1>10, ExchangeFacts
<1>13. Spans(ts, s.variant)
  <2>1. PICK v : v = s.variant  OBVIOUS
  <2>2. Spans(els, v)  BY <1>2, <1>3, <2>1 DEF Shaped
  <2>3. Spans(Swapped(els, i, j), v)  BY <1>10, <2>2, SpansSwap
  <2>4. QED  BY <1>9, <2>1, <2>3
<1>14. Len(ts) <= Count(b)  BY <1>5, <1>11, SMT
<1>15. Become(b, c, ts, blocks[b].header)
  BY <1>3, <1>4, <1>6, <1>8, <1>9 DEF SwapElements, Swapped
<1>16. Sized(c, Len(ts), ElementSize(b))  BY <1>4, <1>11, <1>12
<1>17. blocks[b].elements # <<>>  BY <1>2, ElementNow
<1>18. QED  BY <1>2, <1>11, <1>13, <1>14, <1>15, <1>16, <1>17, RearrangeLive

(* MoveElement: the same elements.                                         *)
LEMMA MoveLive ==
  ASSUME NEW S, Editable(S), NEW b \in BlockName, NEW from \in 1..Count(b), NEW to \in 1..Count(b),
         MoveElement(b, from, to)
  PROVE  KeptLive(S)
<1>1. BlockInv  BY DEF Editable
<1>2. PICK s \in S : Shaped(b, s)  BY ShapeNow
<1>3. PICK els \in Seq(TreeType) : els = blocks[b].elements  BY <1>1, BlockFacts
<1>4. PICK size \in Nat : size = ElementSize(b)  BY <1>1, BlockFacts
<1>5. PICK n \in Nat : n = Len(els) /\ n = Count(b)  BY <1>1, <1>3, BlockFacts
<1>6. PICK raw : raw = blocks[b].raw  OBVIOUS
<1>7. Sized(raw, n, size)
  <2>1. Sized(blocks[b].raw, Len(blocks[b].elements), ElementSize(b))  BY <1>1, BlockFacts
  <2>2. QED  BY <1>3, <1>4, <1>5, <1>6, <2>1
<1>8. PICK words \in Seq(Word) : words = ElementRaw(b, from) /\ Len(words) = size
  BY <1>2, <1>4, ElementNow
<1>9. PICK t \in TreeType : t = els[from] /\ Fine(t, s.variant)  BY <1>2, <1>3, ElementNow
<1>10. /\ from \in 1..n /\ from \in 1..Len(els) /\ to \in 1..n
       /\ n - 1 \in Nat /\ (n - 1) + 1 = n
  <2>1. from \in 1..n  BY <1>5
  <2>2. n - 1 \in Nat /\ (n - 1) + 1 = n  BY <2>1, SMT
  <2>3. QED  BY <1>5, <2>1, <2>2
<1>11. PICK m \in Nat : m = n - 1 /\ m + 1 = n  BY <1>10
<1>12. PICK c : c = Drain(raw, size, from)  OBVIOUS
<1>13. PICK ts : ts = RemoveAt(els, from)  OBVIOUS
<1>14. ts \in Seq(TreeType) /\ Len(ts) = m
  <2>1. RemoveAt(els, from) \in Seq(TreeType) /\ Len(RemoveAt(els, from)) = Len(els) - 1
    BY <1>10, RemoveFacts
  <2>2. QED  BY <1>5, <1>11, <1>13, <2>1
<1>15. Sized(c, m, size)  BY <1>7, <1>10, <1>11, <1>12, DrainFacts
<1>16. PICK d : d = Splice(c, size, to, words)  OBVIOUS
<1>17. PICK us : us = InsertAt(ts, to, t)  OBVIOUS
<1>18. to \in 1..(m + 1) /\ to \in 1..(Len(ts) + 1)  BY <1>10, <1>11, <1>14
<1>19. us \in Seq(TreeType) /\ Len(us) = n
  <2>1. InsertAt(ts, to, t) \in Seq(TreeType) /\ Len(InsertAt(ts, to, t)) = Len(ts) + 1
    BY <1>14, <1>18, InsertFacts
  <2>2. QED  BY <1>11, <1>14, <1>17, <2>1
<1>20. Sized(d, m + 1, size)  BY <1>8, <1>15, <1>16, <1>18, SpliceFacts
<1>21. Spans(us, s.variant)
  <2>1. PICK v : v = s.variant  OBVIOUS
  <2>2. Spans(els, v) /\ Fine(t, v)  BY <1>2, <1>3, <1>9, <2>1 DEF Shaped
  <2>3. Spans(RemoveAt(els, from), v)  BY <1>10, <2>2, SpansRemove
  <2>4. Spans(ts, v)  BY <1>13, <2>3
  <2>5. Spans(InsertAt(ts, to, t), v)  BY <1>14, <1>18, <2>2, <2>4, SpansInsert
  <2>6. QED  BY <1>17, <2>1, <2>5
<1>22. Len(us) <= Count(b)  BY <1>5, <1>19, SMT
<1>23. Become(b, d, us, blocks[b].header)
  BY <1>3, <1>4, <1>6, <1>8, <1>9, <1>12, <1>13, <1>16, <1>17 DEF MoveElement
<1>24. Sized(d, Len(us), ElementSize(b))  BY <1>4, <1>11, <1>19, <1>20
<1>25. blocks[b].elements # <<>>  BY <1>2, ElementNow
<1>26. QED  BY <1>2, <1>19, <1>21, <1>22, <1>23, <1>24, <1>25, RearrangeLive

(* ClearBlock: no elements, and the header is kept.                        *)
LEMMA ClearLive ==
  ASSUME NEW S, Editable(S), NEW b \in BlockName, ClearBlock(b)
  PROVE  KeptLive(S)
<1>1. BlockInv  BY DEF Editable
<1>2. PICK h \in Seq(Word) : h = blocks[b].header  BY <1>1, BlockFacts
<1>3. HeaderMay(engine, layout, h)  BY <1>2, ShapeNow
<1>4. PICK none : none = <<>>  OBVIOUS
<1>5. none \in Seq(Word) /\ none \in Seq(TreeType)  BY <1>4
<1>6. Sorted(S, none, none)  BY <1>4 DEF Sorted
<1>7. Become(b, none, none, h)  BY <1>2, <1>4 DEF ClearBlock
<1>8. QED  BY <1>3, <1>5, <1>6, <1>7, BecomeLive DEF KeptLive

(* ElementSnapshot: the clip is an element of a shape.                     *)
LEMMA SnapshotLive ==
  ASSUME NEW S, Editable(S), NEW b \in BlockName, NEW i \in 1..Count(b), ElementSnapshot(b, i)
  PROVE  KeptLive(S)
<1>1. PICK s \in S : Shaped(b, s)  BY ShapeNow
<1>2. PICK r, t : r = ElementRaw(b, i) /\ t = blocks[b].elements[i]  OBVIOUS
<1>3. Len(r) = s.size /\ Fine(t, s.variant)  BY <1>1, <1>2, ElementNow
<1>4. PICK e : e = [raw |-> r, tree |-> t]  OBVIOUS
<1>5. clip' = <<e>> /\ blocks' = blocks  BY <1>2, <1>4 DEF ElementSnapshot
<1>6. clip'[1] = e /\ e.raw = r /\ e.tree = t  BY <1>4, <1>5
<1>7. ClipMay(S, clip')  BY <1>3, <1>6 DEF ClipMay
<1>8. AllLive(engine, layout, S, inline, blocks')  BY <1>5 DEF Editable, AllLive
<1>9. QED  BY <1>7, <1>8 DEF KeptLive

(* A field that is written changes neither header nor shape.               *)
LEMMA FieldLive ==
  ASSUME NEW S, Editable(S), NEW b \in BlockName, NEW i \in 1..Count(b), NEW s \in S, Shaped(b, s),
         NEW x \in Block, x.header = blocks[b].header, x.dirty = blocks[b].dirty,
         Len(x.elements) = Count(b), Sized(x.raw, Count(b), s.size), Spans(x.elements, s.variant),
         OthersStay(b, x)
  PROVE  KeptLive(S)
<1>1. BlockInv /\ Live(engine, layout, S, inline[b], blocks[b]) /\ Sound(engine, layout, S)
  BY DEF Editable, AllLive
<1>2. blocks[b].elements # <<>> /\ Count(b) \in Few /\ Count(b) = Len(blocks[b].elements)
  BY ElementNow DEF Count
<1>3. PICK r \in S : HoldsShape(engine, layout, inline[b], blocks[b], r)  BY <1>1, <1>2 DEF Live
<1>4. r = s
  <2>1. PICK n \in Nat \ {0} : n = Count(b)  BY <1>2, Counted
  <2>2. PICK a \in Nat : a = r.size  BY <1>1, ShapeFacts
  <2>3. PICK c \in Nat : c = s.size  BY <1>1, ShapeFacts
  <2>4. Sized(blocks[b].raw, n, a)  BY <1>2, <1>3, <2>1, <2>2 DEF HoldsShape
  <2>5. Sized(blocks[b].raw, n, c)
    <3>1. Sized(blocks[b].raw, Len(blocks[b].elements), ElementSize(b))  BY <1>1, BlockFacts
    <3>2. QED  BY <1>2, <2>1, <2>3, <3>1 DEF Shaped
  <2>6. n * a = n * c  BY <2>4, <2>5 DEF Sized
  <2>7. (n * a) \div n = a /\ (n * c) \div n = c  BY <2>1, QuotientOf
  <2>8. r.size = s.size  BY <2>2, <2>3, <2>6, <2>7
  <2>9. QED  BY <1>1, <2>8, ShapeFacts
<1>5. HoldsShape(engine, layout, inline[b], x, s)
  BY <1>2, <1>3, <1>4 DEF HoldsShape
<1>6. x.elements # <<>>
  <2>1. Count(b) # 0  BY <1>2, Counted
  <2>2. x.elements = <<>> => Len(x.elements) = 0  OBVIOUS
  <2>3. QED  BY <2>1, <2>2
<1>7. Live(engine, layout, S, inline[b], x)  BY <1>1, <1>2, <1>5, <1>6 DEF Live
<1>8. QED  BY <1>7, OneEdited DEF KeptLive

-----------------------------------------------------------------------------
(* WritePlain: a word of an element, and not the width.                    *)
LEMMA PlainLive ==
  ASSUME NEW S, Editable(S), NEW b \in BlockName, NEW i \in 1..Count(b), NEW d \in Datum,
         WritePlain(b, i, d)
  PROVE  KeptLive(S)
<1>1. BlockInv /\ Sound(engine, layout, S)  BY DEF Editable
<1>2. PICK s \in S : Shaped(b, s)  BY ShapeNow
<1>3. PICK size \in Nat \ {0} : size = ElementSize(b) /\ size = s.size
  BY <1>1, <1>2, BlockFacts DEF Shaped
<1>4. PICK n \in Nat : n = Count(b)  BY <1>1, BlockFacts
<1>5. PICK raw : raw = blocks[b].raw  OBVIOUS
<1>6. Sized(raw, n, size)
  <2>1. Sized(blocks[b].raw, Len(blocks[b].elements), ElementSize(b))  BY <1>1, BlockFacts
  <2>2. QED  BY <1>3, <1>4, <1>5, <2>1 DEF Count
<1>7. d \in Word /\ i \in 1..n  BY <1>4, BlockAssumption
<1>8. PICK c : c = WithWord(raw, size, i, d)  OBVIOUS
<1>9. Sized(c, n, size)  BY <1>6, <1>7, <1>8, PutWord
<1>10. PICK x : x = [blocks[b] EXCEPT !.raw = c]  OBVIOUS
<1>11. blocks[b] \in Block  BY <1>1 DEF BlockInv, Whole
<1>12. /\ x \in Block /\ x.raw = c /\ x.elements = blocks[b].elements
       /\ x.header = blocks[b].header /\ x.dirty = blocks[b].dirty
  BY <1>9, <1>10, <1>11 DEF Block, Sized
<1>13. OthersStay(b, x)
  BY <1>3, <1>5, <1>8, <1>10 DEF WritePlain, WithWord, OthersStay
<1>14. Len(x.elements) = Count(b) /\ Sized(x.raw, Count(b), s.size) /\ Spans(x.elements, s.variant)
  BY <1>2, <1>3, <1>4, <1>9, <1>12 DEF Shaped, Count
<1>15. QED  BY <1>2, <1>12, <1>13, <1>14, FieldLive

(* One element's data is another.                                          *)
WithData(els, i, d) == [els EXCEPT ![i].data = <<d>>]

(* Data written into one tree, which stays of its variant.                 *)
LEMMA PutData ==
  ASSUME NEW els \in Seq(TreeType), NEW v, Spans(els, v), NEW i \in 1..Len(els),
         NEW d \in Seq(Word), Len(d) < Limit
  PROVE  /\ WithData(els, i, d) \in Seq(TreeType) /\ Len(WithData(els, i, d)) = Len(els)
         /\ Spans(WithData(els, i, d), v)
<1>1. PICK n \in Nat : n = Len(els)  BY LenProperties
<1>2. els \in [1..n -> TreeType] /\ DOMAIN els = 1..n /\ i \in 1..n  BY <1>1, LenProperties
<1>3. Fine(els[i], v) /\ \A k \in 1..n : Fine(els[k], v)  BY <1>1, SpansFine
<1>4. PICK e : e = Tree(v, <<d>>)  OBVIOUS
<1>5. [els[i] EXCEPT !.data = <<d>>] = e
  <2>1. PICK c \in Seq(Word) : els[i] = Tree(v, <<c>>)  BY <1>3 DEF Fine
  <2>2. PICK t : t = els[i]  OBVIOUS
  <2>3. t = [variant |-> v, data |-> <<c>>]  BY <2>1, <2>2 DEF Tree
  <2>4. [t EXCEPT !.data = <<d>>] = [variant |-> v, data |-> <<d>>]  BY <2>3
  <2>5. QED  BY <1>4, <2>2, <2>4 DEF Tree
<1>6. PICK q : q = WithData(els, i, d)  OBVIOUS
<1>7. q = [els EXCEPT ![i] = e]  BY <1>2, <1>5, <1>6 DEF WithData
<1>8. e \in TreeType
  <2>1. els[i] \in TreeType  BY <1>2
  <2>2. PICK c \in Seq(Word) : els[i] = Tree(v, <<c>>)  BY <1>3 DEF Fine
  <2>3. v \in Variant  BY <2>1, <2>2 DEF Tree, TreeType
  <2>4. <<d>> \in Seq(Seq(Word))  OBVIOUS
  <2>5. QED  BY <1>4, <2>3, <2>4 DEF Tree, TreeType
<1>9. q \in [1..n -> TreeType]  BY <1>2, <1>7, <1>8
<1>10. q \in Seq(TreeType)  BY <1>9, SeqDef
<1>11. DOMAIN q = 1..n  BY <1>9
<1>12. Len(q) = n  BY <1>10, <1>11, LenProperties
<1>13. Fine(e, v)  BY <1>4 DEF Fine
<1>14. \A k \in 1..n : q[k] = IF k = i THEN e ELSE els[k]  BY <1>2, <1>7
<1>15. \A k \in 1..Len(q) : Fine(q[k], v)  BY <1>3, <1>12, <1>13, <1>14
<1>16. Spans(q, v)  BY <1>15, SpansFine
<1>17. QED  BY <1>1, <1>6, <1>10, <1>12, <1>16

(* WriteData: the data of one tree.                                        *)
LEMMA DataLive ==
  ASSUME NEW S, Editable(S), NEW b \in BlockName, NEW i \in 1..Count(b), NEW d \in Blob,
         WriteData(b, i, d)
  PROVE  KeptLive(S)
<1>1. BlockInv  BY DEF Editable
<1>2. PICK s \in S : Shaped(b, s)  BY ShapeNow
<1>3. PICK els \in Seq(TreeType) : els = blocks[b].elements /\ Len(els) = Count(b)
  BY <1>1, BlockFacts
<1>4. d \in Seq(Word) /\ Len(d) < Limit  BY BlockAssumption, BodyAssumption
<1>5. PICK ts : ts = WithData(els, i, d)  OBVIOUS
<1>6. ts \in Seq(TreeType) /\ Len(ts) = Len(els) /\ Spans(ts, s.variant)
  <2>1. PICK v : v = s.variant  OBVIOUS
  <2>2. Spans(els, v) /\ i \in 1..Len(els)  BY <1>2, <1>3, <2>1 DEF Shaped
  <2>3. QED  BY <1>4, <1>5, <2>1, <2>2, PutData
<1>7. PICK x : x = [blocks[b] EXCEPT !.elements = ts]  OBVIOUS
<1>8. blocks[b] \in Block  BY <1>1 DEF BlockInv, Whole
<1>9. /\ x \in Block /\ x.raw = blocks[b].raw /\ x.elements = ts
      /\ x.header = blocks[b].header /\ x.dirty = blocks[b].dirty
  BY <1>6, <1>7, <1>8 DEF Block
<1>10. OthersStay(b, x)  BY <1>3, <1>5, <1>7 DEF WriteData, WithData, OthersStay
<1>11. Sized(x.raw, Count(b), s.size)
  <2>1. Sized(blocks[b].raw, Len(blocks[b].elements), ElementSize(b))  BY <1>1, BlockFacts
  <2>2. QED  BY <1>2, <1>3, <1>9, <2>1 DEF Shaped
<1>12. QED  BY <1>2, <1>3, <1>6, <1>9, <1>10, <1>11, FieldLive

(* Whatever is edited, what a save needs to know of the blocks stays true. *)
LEMMA EditLive ==
  ASSUME NEW S, Editable(S), NEW b \in BlockName, EditBlock(b)
  PROVE  KeptLive(S)
<1>1. CASE Grow(b)
  <2>1. ASSUME NEW i \in 1..(Count(b) + 1), InsertElement(b, i) PROVE KeptLive(S)
    BY <1>1, <2>1, InsertLive DEF Grow
  <2>2. ASSUME NEW i \in 1..(Count(b) + 1), PasteElement(b, i) PROVE KeptLive(S)
    BY <1>1, <2>2, PasteLive DEF Grow
  <2>3. ASSUME NEW i \in 1..Count(b), DuplicateElement(b, i) PROVE KeptLive(S)
    BY <1>1, <2>3, DuplicateLive DEF Grow
  <2>4. QED  BY <1>1, <2>1, <2>2, <2>3 DEF Grow
<1>2. CASE Rearrange(b)
  <2>1. CASE ClearBlock(b)  BY <2>1, ClearLive
  <2>2. ASSUME NEW i \in 1..Count(b), DeleteElement(b, i) PROVE KeptLive(S)  BY <2>2, DeleteLive
  <2>3. ASSUME NEW i \in 1..Count(b), NEW j \in 1..Count(b), SwapElements(b, i, j)
        PROVE  KeptLive(S)
    BY <2>3, SwapLive
  <2>4. ASSUME NEW i \in 1..Count(b), NEW j \in 1..Count(b), MoveElement(b, i, j)
        PROVE  KeptLive(S)
    BY <2>4, MoveLive
  <2>5. QED  BY <1>2, <2>1, <2>2, <2>3, <2>4 DEF Rearrange
<1>3. CASE SetField(b)
  <2>1. ASSUME NEW i \in 1..Count(b), ElementSnapshot(b, i) PROVE KeptLive(S)
    BY <2>1, SnapshotLive
  <2>2. ASSUME NEW i \in 1..Count(b), NEW d \in Datum, WritePlain(b, i, d) PROVE KeptLive(S)
    BY <2>2, PlainLive
  <2>3. ASSUME NEW i \in 1..Count(b), NEW d \in Blob, WriteData(b, i, d) PROVE KeptLive(S)
    BY <2>3, DataLive
  <2>4. QED  BY <1>3, <2>1, <2>2, <2>3 DEF SetField
<1>4. QED  BY <1>1, <1>2, <1>3 DEF EditBlock

-----------------------------------------------------------------------------
(* The inductive invariant: for the shapes of the file that was opened,    *)
(* the blocks in memory can be edited on and saved, the file is the words  *)
(* of clean blocks, and what was not edited is written as it was read.     *)
OnDisk(eng, lay, S, words) ==
  \E bs, inl, trail : /\ AllClean(eng, lay, S, inl, bs) /\ MayTrail(eng, trail)
                      /\ words = BodyWords(bs, inl, trail)

BodyInv ==
  /\ inline \in [BlockName -> Word]
  /\ MayTrail(engine, trailing)
  /\ \E S : Editable(S) /\ OnDisk(engine, layout, S, disk)
  /\ ~edited => Encode = disk

(* Blocks that were read hold whole elements.                              *)
LEMMA CleanIsWhole ==
  ASSUME NEW eng, NEW lay, NEW S, Sound(eng, lay, S), NEW word, NEW x, Clean(eng, lay, S, word, x)
  PROVE  Whole(x, lay)
<1>1. lay \in Layouts /\ eng \in {"HaloCe", "Halo2V1", "Halo2V2"}  BY DEF Sound
<1>2. Live(eng, lay, S, word, x) /\ ~x.dirty  BY CleanIsLive
<1>3. x \in Block /\ HeaderMay(eng, lay, x.header)  BY <1>2 DEF Live
<1>4. Len(x.header) \in {0, 3, 4}
  <2>1. x.header = <<>> => Len(x.header) = 0  OBVIOUS
  <2>2. QED  BY <1>1, <1>3, <2>1 DEF HeaderMay, IsHalo2
<1>5. CASE x.elements = <<>>
  <2>1. x = EmptyBlock  BY <1>2, <1>5 DEF Live
  <2>2. x.raw = <<>>  BY <2>1 DEF EmptyBlock, BlockData
  <2>3. PICK size \in Widths : size = lay.width[lay.base]  BY <1>1, BaseWidth
  <2>4. size \in Nat  BY BlockAssumption
  <2>5. 0 * size = 0  BY <2>4, SMT
  <2>6. Len(x.raw) = 0 /\ Len(x.elements) = 0  BY <1>5, <2>2
  <2>7. x.raw \in Seq(Word)  BY <1>3 DEF Block
  <2>8. Sized(x.raw, Len(x.elements), size)  BY <2>5, <2>6, <2>7 DEF Sized
  <2>9. QED  BY <1>1, <1>3, <1>4, <2>8, MakeWhole
<1>6. CASE x.elements # <<>>
  <2>1. PICK s \in S : HoldsShape(eng, lay, word, x, s)  BY <1>2, <1>6 DEF Live
  <2>2. PICK size \in Widths : size = s.size  BY ShapeFacts
  <2>3. Sized(x.raw, Len(x.elements), size)  BY <2>1, <2>2 DEF HoldsShape
  <2>4. QED  BY <1>1, <1>3, <1>4, <2>3, MakeWhole
<1>7. QED  BY <1>5, <1>6

(* Blocks that were read can be edited, whatever is in hand.               *)
LEMMA CleanIsEditable ==
  ASSUME NEW eng, NEW lay, NEW S, Sound(eng, lay, S), NEW inl, NEW bs, AllClean(eng, lay, S, inl, bs)
  PROVE  /\ bs = [b \in BlockName |-> bs[b]] /\ DOMAIN bs = BlockName
         /\ \A b \in BlockName : Whole(bs[b], lay)
         /\ AllLive(eng, lay, S, inl, bs)
<1>1. ASSUME NEW b \in BlockName PROVE Whole(bs[b], lay) /\ Live(eng, lay, S, inl[b], bs[b])
  <2>1. Clean(eng, lay, S, inl[b], bs[b])  BY DEF AllClean
  <2>2. QED  BY <2>1, CleanIsWhole, CleanIsLive
<1>2. bs \in [BlockName -> Block]  BY DEF AllClean
<1>3. QED  BY <1>1, <1>2 DEF AllLive

(* The body of a file that was opened is written as it was read.           *)
LEMMA ReadIsWritten ==
  ASSUME NEW S, Sound(engine, layout, S), AllClean(engine, layout, S, inline, blocks),
         MayTrail(engine, trailing)
  PROVE  Encode = BodyWords(blocks, inline, trailing)
<1>1. PICK eng, lay : eng = engine /\ lay = layout  OBVIOUS
<1>2. PICK inl, bs, trail : inl = inline /\ bs = blocks /\ trail = trailing  OBVIOUS
<1>3. /\ Sound(eng, lay, S) /\ AllClean(eng, lay, S, inl, bs) /\ trail \in Seq(Word)
  BY <1>1, <1>2 DEF MayTrail
<1>4. EncodedBody(eng, lay, inl, bs, trail) = BodyWords(bs, inl, trail)  BY <1>3, CleanBodyEncodes
<1>5. QED  BY <1>1, <1>2, <1>4, EncodeIs

(* A body that can be edited is written as a file that can be read.        *)
LEMMA EditableIsWritten ==
  ASSUME NEW S, Editable(S), MayTrail(engine, trailing)
  PROVE  \E bs, inl : /\ AllClean(engine, layout, S, inl, bs)
                      /\ Encode = BodyWords(bs, inl, trailing)
                      /\ \A b \in BlockName : ReadingsOf(bs[b]) = ReadingsOf(blocks[b])
<1>1. PICK eng, lay : eng = engine /\ lay = layout  OBVIOUS
<1>2. PICK inl, bs, trail : inl = inline /\ bs = blocks /\ trail = trailing  OBVIOUS
<1>3. /\ Sound(eng, lay, S) /\ AllLive(eng, lay, S, inl, bs) /\ trail \in Seq(Word)
  BY <1>1, <1>2 DEF Editable, MayTrail
<1>4. PICK ys, ws : /\ AllClean(eng, lay, S, ws, ys)
                    /\ EncodedBody(eng, lay, inl, bs, trail) = BodyWords(ys, ws, trail)
                    /\ \A b \in BlockName : ReadingsOf(ys[b]) = ReadingsOf(bs[b])
  BY <1>3, LiveBodyEncodes
<1>5. Encode = BodyWords(ys, ws, trailing)  BY <1>1, <1>2, <1>4, EncodeIs
<1>6. QED  BY <1>1, <1>2, <1>4, <1>5

(* The file that is written opens, with the elements that are in memory.   *)
LEMMA ReadsBackInv == BodyInv => SavedEditsReadBack
<1> SUFFICES ASSUME BodyInv PROVE SavedEditsReadBack  OBVIOUS
<1>1. MayTrail(engine, trailing)  BY DEF BodyInv
<1>2. PICK S : Editable(S)  BY DEF BodyInv
<1>3. PICK bs, inl : /\ AllClean(engine, layout, S, inl, bs)
                     /\ Encode = BodyWords(bs, inl, trailing)
                     /\ \A b \in BlockName : ReadingsOf(bs[b]) = ReadingsOf(blocks[b])
  BY <1>1, <1>2, EditableIsWritten
<1>4. PICK d : d = Decode(engine, layout, Encode)  OBVIOUS
<1>5. PICK eng, lay, trail : eng = engine /\ lay = layout /\ trail = trailing  OBVIOUS
<1>6. d.ok /\ d.blocks = bs /\ d.trailing = trail
  <2>1. Sound(eng, lay, S) /\ AllClean(eng, lay, S, inl, bs) /\ MayTrail(eng, trail)
    BY <1>1, <1>2, <1>3, <1>5 DEF Editable
  <2>2. d = Decode(eng, lay, BodyWords(bs, inl, trail))  BY <1>3, <1>4, <1>5
  <2>3. QED  BY <2>1, <2>2, BodyReadsBack
<1>7. Readings(layout, bs) = Readings(layout, blocks)
  <2>1. Readings(layout, bs) = [b \in BlockName |-> ReadingsOf(bs[b])]
    BY DEF Readings, ReadingsOf
  <2>2. Readings(layout, blocks) = [b \in BlockName |-> ReadingsOf(blocks[b])]
    BY DEF Readings, ReadingsOf
  <2>3. QED  BY <1>3, <2>1, <2>2
<1>8. Readings(layout, d.blocks) = Readings(layout, blocks)  BY <1>6, <1>7
<1>9. QED  BY <1>4, <1>5, <1>6, <1>8 DEF SavedEditsReadBack

(* The invariant gives the types.                                          *)
LEMMA TypesInv == BodyInv => BodyTypeOK
<1> SUFFICES ASSUME BodyInv PROVE BodyTypeOK  OBVIOUS
<1>1. PICK S : Editable(S) /\ OnDisk(engine, layout, S, disk)  BY DEF BodyInv
<1>2. BlockTypeOK  BY <1>1, WholeIsTyped DEF Editable
<1>3. disk \in Seq(Word)
  <2>1. PICK eng, lay : eng = engine /\ lay = layout  OBVIOUS
  <2>2. PICK bs, inl, trail : /\ AllClean(eng, lay, S, inl, bs) /\ MayTrail(eng, trail)
                              /\ disk = BodyWords(bs, inl, trail)
    BY <1>1, <2>1 DEF OnDisk
  <2>3. Sound(eng, lay, S) /\ trail \in Seq(Word)  BY <1>1, <2>1, <2>2 DEF Editable, MayTrail
  <2>4. BodyWords(bs, inl, trail) \in Seq(Word)  BY <2>2, <2>3, BodyTyped
  <2>5. QED  BY <2>2, <2>4
<1>4. ASSUME ~IsHalo2(engine)
      PROVE  trailing = <<>> /\ \A b \in BlockName : blocks[b].header = <<>>
  <2>1. trailing = <<>>  BY <1>4 DEF BodyInv, MayTrail
  <2>2. ASSUME NEW b \in BlockName PROVE blocks[b].header = <<>>
    <3>1. HeaderMay(engine, layout, blocks[b].header)  BY <1>1, ShapeNow
    <3>2. QED  BY <1>4, <3>1 DEF HeaderMay
  <2>3. QED  BY <2>1, <2>2
<1>5. inline \in [BlockName -> Word]  BY DEF BodyInv
<1>6. QED  BY <1>2, <1>3, <1>4, <1>5 DEF BodyTypeOK

-----------------------------------------------------------------------------
(* The files a run starts from are sound.                                  *)
FilesAreSound == \A f \in Files : SoundFile(f)

(* A sound file that opens gives a body that can be edited and saved.      *)
LEMMA InitKeeps == ASSUME FilesAreSound, Init PROVE BodyInv
<1>1. BlockInv /\ clip = <<>> /\ blocks \in Image(layout) /\ ~edited
  <2>1. InitBlocks  BY DEF Init
  <2>2. QED  BY <2>1, InitWhole DEF InitBlocks, Init
<1>2. PICK f \in Files :
        LET d == Decode(f.engine, f.layout, f.words)
        IN  /\ d.ok
            /\ engine = f.engine /\ layout = f.layout /\ disk = f.words
            /\ blocks = d.blocks /\ inline = d.inline /\ trailing = d.trailing
  BY DEF Init
<1>3. PICK d : d = Decode(f.engine, f.layout, f.words)  OBVIOUS
<1>4. /\ d.ok /\ engine = f.engine /\ layout = f.layout /\ disk = f.words
      /\ blocks = d.blocks /\ inline = d.inline /\ trailing = d.trailing
  BY <1>2, <1>3
<1>5. SoundFile(f)  BY DEF FilesAreSound
<1>6. d.blocks \in Image(f.layout)  BY <1>1, <1>4
<1>7. PICK S : /\ Sound(f.engine, f.layout, S)
               /\ AllClean(f.engine, f.layout, S, d.inline, d.blocks)
               /\ MayTrail(f.engine, d.trailing)
               /\ f.words = BodyWords(d.blocks, d.inline, d.trailing)
  BY <1>4, <1>5, <1>6, <1>3, SoundFileReads
<1>8. /\ Sound(engine, layout, S) /\ AllClean(engine, layout, S, inline, blocks)
      /\ MayTrail(engine, trailing) /\ disk = BodyWords(blocks, inline, trailing)
  BY <1>4, <1>7
<1>9. AllLive(engine, layout, S, inline, blocks)
  <2>1. PICK eng, lay, inl, bs : eng = engine /\ lay = layout /\ inl = inline /\ bs = blocks  OBVIOUS
  <2>2. Sound(eng, lay, S) /\ AllClean(eng, lay, S, inl, bs)  BY <1>8, <2>1
  <2>3. AllLive(eng, lay, S, inl, bs)  BY <2>2, CleanIsEditable
  <2>4. QED  BY <2>1, <2>3
<1>10. Editable(S)  BY <1>1, <1>8, <1>9 DEF Editable, ClipMay
<1>11. OnDisk(engine, layout, S, disk)  BY <1>8 DEF OnDisk
<1>12. Encode = disk  BY <1>8, ReadIsWritten
<1>13. inline \in [BlockName -> Word]  BY <1>8 DEF AllClean
<1>14. QED  BY <1>8, <1>10, <1>11, <1>12, <1>13 DEF BodyInv

(* What is written depends on the tag in memory alone.                     *)
LEMMA SameEncode ==
  ASSUME UNCHANGED <<engine, layout, inline, blocks, trailing>>
  PROVE  Encode' = Encode
<1>1. /\ engine' = engine /\ layout' = layout /\ inline' = inline
      /\ blocks' = blocks /\ trailing' = trailing
  OBVIOUS
<1>2. EncodedBody(engine', layout', inline', blocks', trailing')
        = EncodedBody(engine, layout, inline, blocks, trailing)
  BY <1>1
<1>3. QED  BY <1>2, EncodeIs, EncodeWas

(* An edit leaves a body that can be edited and saved, and the file alone. *)
LEMMA EditKeeps == ASSUME BodyInv, EditTag PROVE BodyInv'
<1>1. PICK b \in Scripted : EditBlock(b)  BY DEF EditTag
<1>2. b \in BlockName  BY BodyAssumption
<1>3. /\ edited' = (edited \/ blocks' # blocks) /\ engine' = engine /\ inline' = inline
      /\ trailing' = trailing /\ disk' = disk
  BY DEF EditTag
<1>4. PICK S : Editable(S) /\ OnDisk(engine, layout, S, disk)  BY DEF BodyInv
<1>5. BlockInv'
  <2>1. NextEdit  BY <1>1, <1>2 DEF NextEdit
  <2>2. BlockInv  BY <1>4 DEF Editable
  <2>3. QED  BY <2>1, <2>2, EditStep
<1>6. AllLive(engine, layout, S, inline, blocks') /\ ClipMay(S, clip')
  BY <1>1, <1>2, <1>4, EditLive DEF KeptLive
<1>7. layout' = layout
  BY <1>1 DEF EditBlock, Grow, Rearrange, SetField, InsertElement, PasteElement,
     DuplicateElement, ClearBlock, DeleteElement, SwapElements, MoveElement, ElementSnapshot,
     WritePlain, WriteData, Become
<1>8. Sound(engine, layout, S)  BY <1>4 DEF Editable
<1>9. Editable(S)'  BY <1>3, <1>5, <1>6, <1>7, <1>8 DEF Editable
<1>10. OnDisk(engine', layout', S, disk')  BY <1>3, <1>4, <1>7
<1>11. ~edited' => Encode' = disk'
  <2> SUFFICES ASSUME ~edited' PROVE Encode' = disk'  OBVIOUS
  <2>1. ~edited /\ blocks' = blocks  BY <1>3
  <2>2. Encode' = Encode  BY <1>3, <1>7, <2>1, SameEncode
  <2>3. QED  BY <1>3, <2>1, <2>2 DEF BodyInv
<1>12. inline' \in [BlockName -> Word] /\ MayTrail(engine', trailing')  BY <1>3 DEF BodyInv
<1>13. QED  BY <1>9, <1>10, <1>11, <1>12 DEF BodyInv

(* A save writes the words of clean blocks and leaves the tag as it is.    *)
LEMMA SaveKeeps == ASSUME BodyInv, Save PROVE BodyInv'
<1>1. /\ disk' = Encode /\ ~edited' /\ engine' = engine /\ inline' = inline /\ trailing' = trailing
      /\ layout' = layout /\ blocks' = blocks /\ clip' = clip
  BY DEF Save, blockVars
<1>2. PICK S : Editable(S)  BY DEF BodyInv
<1>3. inline \in [BlockName -> Word] /\ MayTrail(engine, trailing)  BY DEF BodyInv
<1>4. BlockInv'
  <2>1. BlockInv /\ UNCHANGED blockVars  BY <1>1, <1>2 DEF Editable, blockVars
  <2>2. QED  BY <2>1, Stutters
<1>5. Editable(S)'  BY <1>1, <1>2, <1>4 DEF Editable
<1>6. OnDisk(engine, layout, S, Encode)
  <2>1. PICK bs, inl : /\ AllClean(engine, layout, S, inl, bs)
                       /\ Encode = BodyWords(bs, inl, trailing)
    BY <1>2, <1>3, EditableIsWritten
  <2>2. QED  BY <1>3, <2>1 DEF OnDisk
<1>7. OnDisk(engine', layout', S, disk')  BY <1>1, <1>6
<1>8. Encode' = disk'  BY <1>1, SameEncode
<1>9. inline' \in [BlockName -> Word] /\ MayTrail(engine', trailing')  BY <1>1, <1>3
<1>10. QED  BY <1>5, <1>7, <1>8, <1>9 DEF BodyInv

(* Opening the file again gives the blocks whose words it is.              *)
LEMMA OpenKeeps == ASSUME BodyInv, Open PROVE BodyInv'
<1>1. PICK eng, lay, words : eng = engine /\ lay = layout /\ words = disk  OBVIOUS
<1>2. PICK S : Editable(S) /\ OnDisk(eng, lay, S, words)  BY <1>1 DEF BodyInv
<1>3. Sound(eng, lay, S) /\ BlockInv /\ ClipMay(S, clip)  BY <1>1, <1>2 DEF Editable
<1>4. PICK bs, inl, trail : /\ AllClean(eng, lay, S, inl, bs) /\ MayTrail(eng, trail)
                            /\ words = BodyWords(bs, inl, trail)
  BY <1>2 DEF OnDisk
<1>5. PICK d : d = Decode(eng, lay, BodyWords(bs, inl, trail))  OBVIOUS
<1>6. d.ok /\ d.blocks = bs /\ d.inline = inl /\ d.trailing = trail
  BY <1>3, <1>4, <1>5, BodyReadsBack
<1>7. d = Decode(engine, layout, disk)  BY <1>1, <1>4, <1>5
<1>8. /\ blocks' = bs /\ inline' = inl /\ trailing' = trail /\ ~edited'
      /\ layout' = lay /\ clip' = clip /\ engine' = eng /\ disk' = words
  BY <1>1, <1>6, <1>7 DEF Open
<1>9. /\ bs = [b \in BlockName |-> bs[b]] /\ DOMAIN bs = BlockName
      /\ \A b \in BlockName : Whole(bs[b], lay)
      /\ AllLive(eng, lay, S, inl, bs)
  BY <1>3, <1>4, CleanIsEditable
<1>10. BlockInv'
  <2>1. lay \in Layouts  BY <1>3 DEF Sound
  <2>2. clip = <<>> \/ \E e \in Element : clip = <<e>>  BY <1>3 DEF BlockInv
  <2>3. QED  BY <1>8, <1>9, <2>1, <2>2 DEF BlockInv
<1>11. Editable(S)'  BY <1>3, <1>8, <1>9, <1>10 DEF Editable
<1>12. OnDisk(engine', layout', S, disk')  BY <1>1, <1>2, <1>8
<1>13. EncodedBody(eng, lay, inl, bs, trail) = BodyWords(bs, inl, trail)
  <2>1. trail \in Seq(Word)  BY <1>4 DEF MayTrail
  <2>2. QED  BY <1>3, <1>4, <2>1, CleanBodyEncodes
<1>14. Encode' = disk'  BY <1>4, <1>8, <1>13, EncodeWas
<1>15. inline' \in [BlockName -> Word] /\ MayTrail(engine', trailing')
  BY <1>4, <1>8 DEF AllClean
<1>16. QED  BY <1>11, <1>12, <1>14, <1>15 DEF BodyInv

(* Every step keeps the invariant.                                         *)
LEMMA StepKeeps == BodyInv /\ [Next]_bodyVars => BodyInv'
<1> SUFFICES ASSUME BodyInv, [Next]_bodyVars PROVE BodyInv'  OBVIOUS
<1>1. CASE EditTag  BY <1>1, EditKeeps
<1>2. CASE Save  BY <1>2, SaveKeeps
<1>3. CASE Open  BY <1>3, OpenKeeps
<1>4. CASE UNCHANGED bodyVars
  <2>1. /\ engine' = engine /\ inline' = inline /\ trailing' = trailing /\ disk' = disk
        /\ edited' = edited /\ layout' = layout /\ blocks' = blocks /\ clip' = clip
    BY <1>4 DEF bodyVars, blockVars
  <2>2. PICK S : Editable(S) /\ OnDisk(engine, layout, S, disk)  BY DEF BodyInv
  <2>3. BlockInv'
    <3>1. BlockInv /\ UNCHANGED blockVars  BY <2>1, <2>2 DEF Editable, blockVars
    <3>2. QED  BY <3>1, Stutters
  <2>4. Editable(S)' /\ OnDisk(engine', layout', S, disk')  BY <2>1, <2>2, <2>3 DEF Editable
  <2>5. Encode' = Encode  BY <2>1, SameEncode
  <2>6. QED  BY <2>1, <2>4, <2>5 DEF BodyInv
<1>5. QED  BY <1>1, <1>2, <1>3, <1>4 DEF Next

(* Opened from any sound file and edited at will, every block's buffer     *)
(* holds whole elements, the file is a sequence of words, and a Halo CE    *)
(* body has neither headers nor anything after it.                         *)
THEOREM BodyTypes == ASSUME FilesAreSound PROVE Spec => []BodyTypeOK
<1>1. Init => BodyInv  BY InitKeeps
<1>2. BodyInv /\ [Next]_bodyVars => BodyInv'  BY StepKeeps
<1>3. BodyInv => BodyTypeOK  BY TypesInv
<1>4. QED  BY <1>1, <1>2, <1>3, PTL DEF Spec

(* write_classic_body's "structural edits serialize correctly": the file   *)
(* that a save would write opens again, and every element reads back with  *)
(* the fields, the variant and the data that it has in memory.             *)
THEOREM EditsReadBack == ASSUME FilesAreSound PROVE Spec => []SavedEditsReadBack
<1>1. Init => BodyInv  BY InitKeeps
<1>2. BodyInv /\ [Next]_bodyVars => BodyInv'  BY StepKeeps
<1>3. BodyInv => SavedEditsReadBack  BY ReadsBackInv
<1>4. QED  BY <1>1, <1>2, <1>3, PTL DEF Spec

(* Its "read->write stays byte-exact": a tag that was not edited is        *)
(* written word for word as it was read.                                   *)
THEOREM UntouchedIsUnchanged == ASSUME FilesAreSound PROVE Spec => []UntouchedIsByteExact
<1>1. Init => BodyInv  BY InitKeeps
<1>2. BodyInv /\ [Next]_bodyVars => BodyInv'  BY StepKeeps
<1>3. BodyInv => UntouchedIsByteExact  BY DEF BodyInv, UntouchedIsByteExact
<1>4. QED  BY <1>1, <1>2, <1>3, PTL DEF Spec
=============================================================================
