------------------------ MODULE IoStoreInPlaceProofs ------------------------
(***************************************************************************)
(* What a caller of an in-place edit can rely on, for every container,     *)
(* every sequence of edits and every placing of failures and deaths.       *)
(*                                                                         *)
(* 1. Ladder: up to the replacement the file is the original, while it is  *)
(*    checked it is the new one, and both are whole tables.  From it: what *)
(*    the caller is told, that losing the table takes two faults, that     *)
(*    an edit nothing hits succeeds, and the perfect hash.                 *)
(* 2. Charts.  The chart of a table over a .ucas maps each id that is not  *)
(*    retired to its chunk.  Coherent is what a chart promises: wrappers   *)
(*    and bodies, the header's store, the redirects.  Each edit is first   *)
(*    shown to be an edit of charts.                                       *)
(* 3. Tables and plans.  Sound is a table whose slots are in order and     *)
(*    whose chart is coherent.  Each handler is then shown to plan a table *)
(*    that is sound once its blocks are written, and has the edited chart. *)
(* 4. Tables, the inductive invariant: the table on disk, the handle's and *)
(*    the original are sound, and the plan will be when what remains is    *)
(*    written.  An append takes one block off what remains.                *)
(* 5. The safety properties follow from it state by state, and the steps   *)
(*    of ContainerStore from what the plan says of the two charts.         *)
(***************************************************************************)
EXTENDS IoStoreInPlace, NaturalsInduction, WellFoundedInduction, SequenceTheorems, FiniteSetTheorems, TLAPS

Whole(t) == DOMAIN t = {"ids", "at", "indexed", "entries", "hashed", "overflow"}

Ladder ==
  /\ op = Idle \/ /\ op.phase \in {"append", "replace", "validate", "restore", "rollback", "rewriting"}
                  /\ op = [phase |-> op.phase, how |-> op.how, original |-> op.original, toc |-> op.toc,
                           items |-> op.items, done |-> op.done, gone |-> op.gone,
                           asked |-> op.asked, before |-> op.before]
                  /\ Whole(op.original) /\ Whole(op.toc)
  /\ op.phase \in {"append", "replace"} => utoc = op.original
  /\ op.phase = "validate" => utoc = op.toc
  /\ op.phase \notin {"idle", "rewriting"} => Whole(utoc)
  /\ op.phase = "rewriting" => utoc = Torn
  /\ Whole(utoc) \/ utoc = Torn

(* A torn table is not a whole one: it has no ids. *)
LEMMA TornIsNotWhole == ~Whole(Torn)
  BY DEF Whole, Torn

(* The plans are whole tables: an addition, retirement or overwrite never  *)
(* loses a section of the table it starts from.                            *)
LEMMA PlansAreWhole ==
  /\ \A t, additions, replacements, tombstones, entries :
       Whole(PlanTocAppend(t, additions, replacements, tombstones, entries))
  /\ \A t, items : Whole(t) => Whole(PlanOverwrite(t, items))
  BY DEF Whole, PlanTocAppend, PlanOverwrite

(* An edit that starts has the file as its original and a whole plan.      *)
LEMMA StartKeepsLadder ==
  ASSUME Ladder, Ready, NEW how, NEW toc, NEW items, NEW gone, NEW asked, Whole(toc),
         Start(how, toc, items, gone, asked)
  PROVE  Ladder'
  <1>1. Whole(utoc) /\ utoc' = utoc
    BY DEF Ladder, Ready, Start
  <1>2. op' = [phase |-> "append", how |-> how, original |-> utoc, toc |-> toc,
               items |-> items, done |-> 0, gone |-> gone, asked |-> asked, before |-> faults]
    BY DEF Start
  <1> QED
    BY <1>1, <1>2 DEF Ladder, Whole

(* Each of the five edits starts with a plan made of the file's own table. *)
LEMMA EditKeepsLadder == Ladder /\ Edit => Ladder'
  <1> SUFFICES ASSUME Ladder, Edit PROVE Ladder'
    OBVIOUS
  <1>1. ASSUME Ready, NEW how, NEW additions, NEW replacements, NEW tombstones, NEW entries, NEW asked,
               StartGuarded(how, additions, replacements, tombstones, entries, asked)
        PROVE  Ladder'
    BY <1>1, PlansAreWhole, StartKeepsLadder DEF StartGuarded
  <1>2. ASSUME Ready, NEW how, NEW items, Start(how, PlanOverwrite(utoc, items), items, {}, {})
        PROVE  Ladder'
    <2>1. Whole(utoc)
      BY <1>2 DEF Ladder, Ready
    <2> QED
      BY <1>2, <2>1, PlansAreWhole, StartKeepsLadder
  <1>3. ASSUME NEW p \in Path, NEW e \in Export, NEW b \in Body, DuplicateTag(p, e, b) PROVE Ladder'
    BY <1>1, <1>3 DEF DuplicateTag
  <1>4. ASSUME NEW p \in Path, DeleteTag(p) PROVE Ladder'
    BY <1>1, <1>4 DEF DeleteTag
  <1>5. ASSUME NEW p \in Path, NEW q \in Path, NEW b \in Body \cup {Absent}, NEW leave \in BOOLEAN,
               RenamePackage(p, q, b, leave)
        PROVE  Ladder'
    BY <1>1, <1>5 DEF RenamePackage
  <1>6. ASSUME NEW p \in Path, NEW b \in Body, OverwriteTag(p, b) PROVE Ladder'
    BY <1>2, <1>6 DEF OverwriteTag
  <1>7. ASSUME NEW p \in Path, NEW q \in Path, NEW e \in Export, OverwritePackages(p, q, e) PROVE Ladder'
    BY <1>2, <1>7 DEF OverwritePackages
  <1> QED
    BY <1>3, <1>4, <1>5, <1>6, <1>7 DEF Edit

(* The steps of an edit keep it: what is read back is the new table, what  *)
(* is put back is the old one.                                             *)
LEMMA StepKeepsLadder == Ladder /\ Step => Ladder'
  <1> SUFFICES ASSUME Ladder, Step PROVE Ladder'
    OBVIOUS
  <1>1. CASE AppendUcas
    <2>1. op # Idle /\ utoc' = utoc /\ utoc = op.original
      BY <1>1 DEF AppendUcas, Ladder, Idle
    <2>2. \/ op' = [op EXCEPT !.done = @ + 1, !.phase = "append"]
          \/ op' = [op EXCEPT !.done = @ + 1, !.phase = "replace"]
      BY <1>1 DEF AppendUcas
    <2>3. /\ op'.phase \in {"append", "replace"}
          /\ op'.original = op.original /\ op'.toc = op.toc
          /\ op' = [phase |-> op'.phase, how |-> op'.how, original |-> op'.original, toc |-> op'.toc,
                    items |-> op'.items, done |-> op'.done, gone |-> op'.gone,
                    asked |-> op'.asked, before |-> op'.before]
      BY <2>1, <2>2 DEF Ladder
    <2> QED
      BY <1>1, <2>1, <2>3 DEF AppendUcas, Ladder
  <1>2. CASE ReplaceToc
    BY <1>2 DEF ReplaceToc, Return, Go, Ladder, Idle, Whole
  <1>3. CASE Validate
    BY <1>3 DEF Validate, Undoing, Return, Go, Ladder, Idle, Whole
  <1>4. CASE Restore
    BY <1>4 DEF Restore, Return, Ladder, Idle, Whole
  <1>5. CASE Rollback
    BY <1>5 DEF Rollback, Go, Ladder, Idle, Whole
  <1>6. CASE Rewrite
    BY <1>6 DEF Rewrite, Return, Ladder, Idle, Whole
  <1> QED
    BY <1>1, <1>2, <1>3, <1>4, <1>5, <1>6 DEF Step

(* So do a failing call, a death and a reopened handle.                    *)
LEMMA FaultKeepsLadder == Ladder /\ (Fail \/ Crash \/ Open) => Ladder'
  <1> SUFFICES ASSUME Ladder, Fail \/ Crash \/ Open PROVE Ladder'
    OBVIOUS
  <1>1. CASE Fail
    <2>1. utoc' = utoc /\ op # Idle
      BY <1>1 DEF Fail, Fault
    <2>2. op' = Idle \/ op' = [op EXCEPT !.phase = "restore"] \/ op' = [op EXCEPT !.phase = "rollback"]
      <3>1. op.phase \in {"append", "replace", "validate", "restore", "rollback", "rewriting"}
        BY <2>1 DEF Ladder
      <3>2. op.phase \notin {"append", "replace", "validate"} => Return("error")
        BY <1>1, <3>1 DEF Fail
      <3>3. op.phase = "append" => Go("rollback") \/ Return("error")
        BY <1>1 DEF Fail
      <3>4. op.phase = "replace" => Go(Undoing) \/ Return("error")
        BY <1>1 DEF Fail
      <3>5. op.phase = "validate" => Go(Undoing)
        BY <1>1 DEF Fail
      <3> QED
        BY <3>2, <3>3, <3>4, <3>5 DEF Go, Return, Undoing
    <2>3. CASE op' = Idle
      BY <2>1, <2>3 DEF Ladder, Idle
    <2>4. CASE op' = [op EXCEPT !.phase = "restore"]
      <3>1. op.phase # "rewriting"
        BY <1>1, <2>4 DEF Fail, Go, Return, Undoing, Ladder, Idle
      <3> QED
        BY <2>1, <2>4, <3>1 DEF Ladder, Idle, Whole
    <2>5. CASE op' = [op EXCEPT !.phase = "rollback"]
      <3>1. op.phase # "rewriting"
        BY <1>1, <2>5 DEF Fail, Go, Return, Undoing, Ladder, Idle
      <3> QED
        BY <2>1, <2>5, <3>1 DEF Ladder, Idle, Whole
    <2> QED
      BY <2>2, <2>3, <2>4, <2>5
  <1>2. CASE Crash
    BY <1>2 DEF Crash, Fault, Return, Ladder, Idle
  <1>3. CASE Open
    BY <1>3 DEF Open, Ladder
  <1> QED
    BY <1>1, <1>2, <1>3

(* Ladder is an invariant of the editor. *)
THEOREM LadderHolds == Spec => []Ladder
  <1>1. Init => Ladder
    BY DEF Init, CookedToc, Ladder, Idle, Whole
  <1>2. Ladder /\ [Next]_vars => Ladder'
    <2>1. CASE UNCHANGED vars
      BY <2>1 DEF vars, Ladder
    <2> QED
      BY <2>1, EditKeepsLadder, StepKeepsLadder, FaultKeepsLadder DEF Next
  <1> QED
    BY <1>1, <1>2, PTL DEF Spec

-----------------------------------------------------------------------------
(* A perfect hash that a table still has was made for all of its slots.    *)
HashFits(t) == t.hashed # 0 => t.hashed = Len(t.ids)

Hashes ==
  /\ utoc # Torn => HashFits(utoc)
  /\ op # Idle => HashFits(op.original) /\ HashFits(op.toc)

(* A plan with new or retired slots has no hash; one without keeps both.   *)
LEMMA PlansFit ==
  /\ \A t, additions, replacements, tombstones, entries :
       HashFits(PlanTocAppend(t, additions, replacements, tombstones, entries))
  /\ \A t, items : Whole(t) /\ HashFits(t) => HashFits(PlanOverwrite(t, items))
  BY DEF HashFits, PlanTocAppend, HashAfter, PlanOverwrite, Whole

(* An edit starts from a table whose hash fits and plans one whose hash does. *)
LEMMA EditKeepsHashes == Ladder /\ Hashes /\ Edit => Hashes'
  <1> SUFFICES ASSUME Ladder, Hashes, Edit PROVE Hashes'
    OBVIOUS
  <1>1. ASSUME Ready, NEW how, NEW toc, NEW items, NEW gone, NEW asked, HashFits(toc),
               Start(how, toc, items, gone, asked)
        PROVE  Hashes'
    <2>1. op'.original = utoc /\ op'.toc = toc /\ utoc' = utoc /\ utoc # Torn
      BY <1>1 DEF Start, Ready
    <2> QED
      BY <1>1, <2>1 DEF Hashes, HashFits
  <1>2. ASSUME Ready, NEW how, NEW additions, NEW replacements, NEW tombstones, NEW entries, NEW asked,
               StartGuarded(how, additions, replacements, tombstones, entries, asked)
        PROVE  Hashes'
    BY <1>1, <1>2, PlansFit DEF StartGuarded
  <1>3. ASSUME Ready, NEW how, NEW items, Start(how, PlanOverwrite(utoc, items), items, {}, {})
        PROVE  Hashes'
    <2>1. Whole(utoc) /\ HashFits(utoc)
      BY <1>3 DEF Ladder, Hashes, Ready
    <2> QED
      BY <1>1, <1>3, <2>1, PlansFit
  <1>4. ASSUME NEW p \in Path, NEW e \in Export, NEW b \in Body, DuplicateTag(p, e, b) PROVE Hashes'
    BY <1>2, <1>4 DEF DuplicateTag
  <1>5. ASSUME NEW p \in Path, DeleteTag(p) PROVE Hashes'
    BY <1>2, <1>5 DEF DeleteTag
  <1>6. ASSUME NEW p \in Path, NEW q \in Path, NEW b \in Body \cup {Absent}, NEW leave \in BOOLEAN,
               RenamePackage(p, q, b, leave)
        PROVE  Hashes'
    BY <1>2, <1>6 DEF RenamePackage
  <1>7. ASSUME NEW p \in Path, NEW b \in Body, OverwriteTag(p, b) PROVE Hashes'
    BY <1>3, <1>7 DEF OverwriteTag
  <1>8. ASSUME NEW p \in Path, NEW q \in Path, NEW e \in Export, OverwritePackages(p, q, e) PROVE Hashes'
    BY <1>3, <1>8 DEF OverwritePackages
  <1> QED
    BY <1>4, <1>5, <1>6, <1>7, <1>8 DEF Edit

(* After its start an edit puts one of its two tables in place, or tears.  *)
LEMMA LadderMoves ==
  Ladder /\ (Step \/ Fail \/ Crash \/ Open) =>
    /\ utoc' = utoc \/ utoc' = Torn \/ (op # Idle /\ utoc' \in {op.toc, op.original})
    /\ op' = Idle \/ (op # Idle /\ op'.original = op.original /\ op'.toc = op.toc)
  <1> SUFFICES ASSUME Ladder, Step \/ Fail \/ Crash \/ Open
               PROVE  /\ utoc' = utoc \/ utoc' = Torn \/ (op # Idle /\ utoc' \in {op.toc, op.original})
                      /\ op' = Idle \/ (op # Idle /\ op'.original = op.original /\ op'.toc = op.toc)
    OBVIOUS
  <1>1. ASSUME op # Idle, NEW phase, op' = [op EXCEPT !.phase = phase]
        PROVE  op'.original = op.original /\ op'.toc = op.toc
    BY <1>1 DEF Ladder
  <1>2. CASE AppendUcas
    <2>1. op # Idle /\ utoc' = utoc
      BY <1>2 DEF AppendUcas, Idle
    <2>2. \/ op' = [op EXCEPT !.done = @ + 1, !.phase = "append"]
          \/ op' = [op EXCEPT !.done = @ + 1, !.phase = "replace"]
      BY <1>2 DEF AppendUcas
    <2> QED
      BY <2>1, <2>2 DEF Ladder
  <1>3. CASE ReplaceToc
    BY <1>1, <1>3 DEF ReplaceToc, Go, Return, Idle
  <1>4. CASE Validate
    BY <1>1, <1>4 DEF Validate, Go, Return, Idle
  <1>5. CASE Restore
    BY <1>5 DEF Restore, Return, Idle
  <1>6. CASE Rollback
    BY <1>1, <1>6 DEF Rollback, Go, Idle
  <1>7. CASE Rewrite
    BY <1>7 DEF Rewrite, Return, Idle
  <1>8. CASE Fail
    <2>1. op # Idle /\ utoc' = utoc
      BY <1>8 DEF Fail, Fault
    <2>2. op.phase \in {"append", "replace", "validate", "restore", "rollback", "rewriting"}
      BY <2>1 DEF Ladder
    <2>3. op' = Idle \/ \E phase : op' = [op EXCEPT !.phase = phase]
      <3>1. op.phase \notin {"append", "replace", "validate"} => Return("error")
        BY <1>8, <2>2 DEF Fail
      <3>2. op.phase = "append" => Go("rollback") \/ Return("error")
        BY <1>8 DEF Fail
      <3>3. op.phase = "replace" => Go(Undoing) \/ Return("error")
        BY <1>8 DEF Fail
      <3>4. op.phase = "validate" => Go(Undoing)
        BY <1>8 DEF Fail
      <3> QED
        BY <3>1, <3>2, <3>3, <3>4 DEF Go, Return
    <2> QED
      BY <1>1, <2>1, <2>3
  <1>9. CASE Crash
    BY <1>9 DEF Crash, Return
  <1>10. CASE Open
    BY <1>10 DEF Open
  <1> QED
    BY <1>2, <1>3, <1>4, <1>5, <1>6, <1>7, <1>8, <1>9, <1>10 DEF Step

(* Whatever is edited, taken back or torn, the game finds every chunk of   *)
(* the table: no edit that appends slots keeps a hash made for fewer.      *)
THEOREM RuntimeAlwaysFinds == Spec => []RuntimeFindsChunks
  <1>1. Init => Hashes
    <2> SUFFICES ASSUME Init PROVE Hashes
      OBVIOUS
    <2>1. PICK o \in Origins : utoc = CookedToc(o)
      BY DEF Init
    <2>2. utoc.hashed = (IF o.hashed THEN Len(Cooked(o)) ELSE 0)
      BY <2>1 DEF CookedToc
    <2>3. utoc.ids = [k \in DOMAIN Cooked(o) |-> Cooked(o)[k].id]
      BY <2>1 DEF CookedToc
    <2>4. Len(utoc.ids) = Len(Cooked(o))
      <3> DEFINE T == {o.chunks[k] : k \in DOMAIN o.chunks}
                 h == [id |-> HeaderId, block |-> Header(Packaged(o), <<>>)]
      <3>1. Cooked(o) = (IF o.store THEN <<h>> ELSE <<>>) \o o.chunks
        BY DEF Cooked
      <3>2. o.chunks \in Seq(T)
        BY StoreAssumption DEF Origin
      <3> HIDE DEF T, h
      <3>3. o.chunks \in Seq(T \cup {h}) /\ <<h>> \in Seq(T \cup {h}) /\ <<>> \in Seq(T \cup {h})
        BY <3>2
      <3>4. \A s, t \in Seq(T \cup {h}) : s \o t \in Seq(T \cup {h})
        OBVIOUS
      <3>5. Cooked(o) \in Seq(T \cup {h})
        BY <3>1, <3>3, <3>4
      <3>6. DOMAIN Cooked(o) = 1 .. Len(Cooked(o)) /\ Len(Cooked(o)) \in Nat
        BY <3>5
      <3> QED
        BY <2>3, <3>6
    <2> QED
      BY <2>2, <2>4 DEF Init, Hashes, HashFits
  <1>2. Ladder /\ Hashes /\ [Next]_vars => Hashes'
    <2> SUFFICES ASSUME Ladder, Hashes, [Next]_vars PROVE Hashes'
      OBVIOUS
    <2>1. CASE UNCHANGED vars
      BY <2>1 DEF vars, Hashes, HashFits
    <2>2. CASE Step \/ Fail \/ Crash \/ Open
      BY <2>2, LadderMoves DEF Hashes, HashFits
    <2> QED
      BY <2>1, <2>2, EditKeepsHashes DEF Next
  <1>3. Hashes => RuntimeFindsChunks
    BY DEF Hashes, HashFits, RuntimeFindsChunks, Slots
  <1> QED
    BY <1>1, <1>2, <1>3, LadderHolds, PTL DEF Spec

(* Slots *)
LEMMA LeastNumber ==
  ASSUME NEW T \in SUBSET Nat, T # {}
  PROVE  \E m \in T : \A k \in T : m <= k
  <1> DEFINE R == {ss \in Nat \X Nat : ss[1] < ss[2]}
  <1>1. IsWellFoundedOn(R, Nat)
    BY NatLessThanWellFounded, Zenon DEF OpToRel
  <1>2. \E x \in T : \A y \in T : ~(<<y, x>> \in R)
    <2> HIDE DEF R
    <2> QED
      BY <1>1, WFMin, Zenon
  <1>3. PICK x \in T : \A y \in T : ~(<<y, x>> \in R)
    BY <1>2
  <1>4. ASSUME NEW y \in T PROVE x <= y
    <2>1. ~(<<y, x>> \in R)
      BY <1>3
    <2>2. ~(y < x)
      BY <2>1, SMT
    <2> QED
      BY <2>2, SMT
  <1> QED
    BY <1>4

(* The least and the greatest of a set of numbers that has them. *)
LEMMA MinOf ==
  ASSUME NEW T \in SUBSET Nat, T # {}
  PROVE  Min(T) \in T /\ \A k \in T : Min(T) <= k
  <1>1. \E m \in T : \A k \in T : m <= k
    BY LeastNumber
  <1> QED
    BY <1>1 DEF Min

(* The greatest of a set of slots is one of them, and none is greater. *)
LEMMA MaxOf ==
  ASSUME NEW n \in Nat, NEW T \in SUBSET (1 .. n), T # {}
  PROVE  Max(T) \in T /\ \A k \in T : k <= Max(T)
  <1> DEFINE U == {n - k : k \in T}
  <1>1. U \in SUBSET Nat /\ U # {}
    <2>1. \A k \in T : n - k \in Nat
      BY SMT
    <2> QED
      BY <2>1
  <1>2. PICK m \in U : \A k \in U : m <= k
    BY <1>1, LeastNumber
  <1>3. PICK x \in T : m = n - x
    BY <1>2
  <1>4. ASSUME NEW k \in T PROVE x >= k
    <2>1. m <= n - k
      BY <1>2
    <2> QED
      BY <1>3, <2>1, SMT
  <1>5. Max(T) \in T /\ \A k \in T : Max(T) >= k
    BY <1>4 DEF Max
  <1> QED
    BY <1>5, SMT

-----------------------------------------------------------------------------
(* Charts *)
Redirect == [source : Path, target : Path]
BundleId(p) == ChunkId(p, "bundle")
BulkId(p) == ChunkId(p, "bulk")

IsBundle(p, block) ==
  block = Bundle(p, block.export, block.size) /\ block.export \in Export /\ block.size \in Nat
IsBulk(block) == block = Bulk(block.body) /\ block.body \in Body
IsHeader(block) ==
  /\ block = Header(block.store, block.redirects)
  /\ block.store \in SUBSET Path /\ block.redirects \in Seq(Redirect)

ChunkOK(id, block) ==
  \/ \E p \in Path : \/ id = BundleId(p) /\ IsBundle(p, block)
                     \/ id = BulkId(p) /\ IsBulk(block)
  \/ id = HeaderId /\ IsHeader(block)

Packs(g) == {p \in Path : BundleId(p) \in DOMAIN g}

Chunks(g) == g = [id \in DOMAIN g |-> g[id]] /\ \A id \in DOMAIN g : ChunkOK(id, g[id])
Wrapped(g) ==
  \A p \in Path : BundleId(p) \in DOMAIN g /\ BulkId(p) \in DOMAIN g =>
    g[BundleId(p)].size = Length[g[BulkId(p)].body]
Stored(g, W) ==
  IF HeaderId \in DOMAIN g
  THEN /\ g[HeaderId].store \subseteq Packs(g)
       /\ Packs(g) \subseteq g[HeaderId].store \cup W
       /\ \A k \in DOMAIN g[HeaderId].redirects : g[HeaderId].redirects[k].target \in Packs(g)
  ELSE Packs(g) \subseteq W
Coherent(g, W) == Chunks(g) /\ Wrapped(g) /\ Stored(g, W)

PackageOf(g, p) ==
  IF BundleId(p) \notin DOMAIN g THEN Absent
  ELSE [export |-> g[BundleId(p)].export,
        body |-> IF BulkId(p) \notin DOMAIN g THEN Absent ELSE g[BulkId(p)].body]
RedirectOf(g, p) ==
  IF HeaderId \notin DOMAIN g THEN Absent ELSE LookupRedirect(g[HeaderId].redirects, p)
PackagesOf(g) == [p \in Path |-> PackageOf(g, p)]
RedirectsOf(g) == [p \in Path |-> RedirectOf(g, p)]

(* Ids differ by package and by kind. *)
LEMMA IdsDiffer ==
  ASSUME NEW p, NEW q
  PROVE  /\ BundleId(p) # BulkId(q) /\ BundleId(p) # HeaderId /\ BulkId(p) # HeaderId
         /\ BundleId(p) = BundleId(q) => p = q
         /\ BulkId(p) = BulkId(q) => p = q
  BY DEF BundleId, BulkId, HeaderId, ChunkId

(* What a chart has under the id of a chunk is a chunk of that kind. *)
LEMMA ChunkAt ==
  ASSUME NEW g, Chunks(g)
  PROVE  /\ \A p \in Path : BundleId(p) \in DOMAIN g => IsBundle(p, g[BundleId(p)])
         /\ \A p \in Path : BulkId(p) \in DOMAIN g => IsBulk(g[BulkId(p)])
         /\ HeaderId \in DOMAIN g => IsHeader(g[HeaderId])
  BY IdsDiffer DEF Chunks, ChunkOK

(* Redirects *)
LEMMA LookupIs ==
  ASSUME NEW rs \in Seq(Redirect), NEW p
  PROVE  \/ LookupRedirect(rs, p) = Absent /\ \A k \in DOMAIN rs : rs[k].source # p
         \/ \E k \in DOMAIN rs : /\ rs[k].source = p /\ LookupRedirect(rs, p) = rs[k].target
                                 /\ \A j \in DOMAIN rs : rs[j].source = p => j <= k
  <1> DEFINE found == {k \in DOMAIN rs : rs[k].source = p}
  <1>1. DOMAIN rs = 1 .. Len(rs) /\ Len(rs) \in Nat
    BY LenProperties
  <1>2. CASE found = {}
    BY <1>2 DEF LookupRedirect
  <1>3. CASE found # {}
    <2>1. found \in SUBSET (1 .. Len(rs))
      BY <1>1
    <2>2. Max(found) \in found /\ \A k \in found : k <= Max(found)
      BY <1>1, <1>3, <2>1, MaxOf
    <2>3. LookupRedirect(rs, p) = rs[Max(found)].target
      BY <1>3 DEF LookupRedirect
    <2> QED
      BY <2>2, <2>3
  <1> QED
    BY <1>2, <1>3

(* The last redirect of a name is the one that is followed. *)
LEMMA LookupOne ==
  ASSUME NEW rs \in Seq(Redirect), NEW k \in DOMAIN rs, NEW p, rs[k].source = p,
         \A j \in DOMAIN rs : rs[j].source = p => j <= k
  PROVE  LookupRedirect(rs, p) = rs[k].target
  <1>1. DOMAIN rs = 1 .. Len(rs) /\ Len(rs) \in Nat
    BY LenProperties
  <1>2. rs[k].target \in Path
    <2>1. rs[k] \in Redirect
      BY <1>1, ElementOfSeq
    <2> QED
      BY <2>1 DEF Redirect
  <1>3. PICK j \in DOMAIN rs : /\ rs[j].source = p /\ LookupRedirect(rs, p) = rs[j].target
                              /\ \A i \in DOMAIN rs : rs[i].source = p => i <= j
    BY LookupIs
  <1>4. j = k
    <2>1. j <= k /\ k <= j
      BY <1>3
    <2> QED
      BY <1>1, <2>1, SMT
  <1> QED
    BY <1>3, <1>4

(* A lookup gives a path or nothing. *)
LEMMA LookupTyped ==
  ASSUME NEW rs \in Seq(Redirect), NEW p
  PROVE  LookupRedirect(rs, p) \in Path \cup {Absent}
  <1>1. \A k \in DOMAIN rs : rs[k].target \in Path
    <2>1. \A k \in DOMAIN rs : rs[k] \in Redirect
      BY LenProperties, ElementOfSeq
    <2> QED
      BY <2>1 DEF Redirect
  <1> QED
    BY <1>1, LookupIs

(* A new redirect overrides the ones there are. *)
LEMMA AddedRedirect ==
  ASSUME NEW rs \in Seq(Redirect), NEW p \in Path, NEW q \in Path
  PROVE  /\ AddRedirect(rs, p, q) \in Seq(Redirect)
         /\ \A r : LookupRedirect(AddRedirect(rs, p, q), r) = IF r = p THEN q ELSE LookupRedirect(rs, r)
         /\ \A k \in DOMAIN AddRedirect(rs, p, q) :
              AddRedirect(rs, p, q)[k].target = q \/ \E j \in DOMAIN rs : AddRedirect(rs, p, q)[k].target = rs[j].target
  <1> DEFINE new == [source |-> p, target |-> q]
             ts == AddRedirect(rs, p, q)
             n == Len(rs)
  <1>1. new \in Redirect /\ ts = Append(rs, new)
    BY DEF Redirect, AddRedirect
  <1>2. n \in Nat /\ DOMAIN rs = 1 .. n
    BY LenProperties
  <1> HIDE DEF new
  <1>3. ts \in Seq(Redirect) /\ Len(ts) = n + 1 /\ (\A k \in 1 .. n : ts[k] = rs[k]) /\ ts[n + 1] = new
    BY <1>1, AppendProperties
  <1> HIDE DEF ts, n
  <1>4. DOMAIN ts = 1 .. (n + 1)
    BY <1>3, LenProperties
  <1>5. ts[n + 1].source = p /\ ts[n + 1].target = q
    BY <1>3 DEF new
  <1>6. LookupRedirect(ts, p) = q
    <2>1. n + 1 \in DOMAIN ts /\ \A j \in DOMAIN ts : j <= n + 1
      BY <1>2, <1>4, SMT
    <2> QED
      BY <1>3, <1>5, <2>1, LookupOne
  <1>7. ASSUME NEW r, r # p PROVE LookupRedirect(ts, r) = LookupRedirect(rs, r)
    <2>1. \A k \in DOMAIN ts : ts[k].source = r => k \in DOMAIN rs /\ ts[k] = rs[k]
      <3> SUFFICES ASSUME NEW k \in DOMAIN ts, ts[k].source = r PROVE k \in DOMAIN rs /\ ts[k] = rs[k]
        OBVIOUS
      <3>1. k # n + 1
        BY <1>5, <1>7
      <3>2. k \in 1 .. n
        BY <1>2, <1>4, <3>1, SMT
      <3> QED
        BY <1>2, <1>3, <3>2
    <2>2. \A k \in DOMAIN rs : k \in DOMAIN ts /\ ts[k] = rs[k]
      BY <1>2, <1>3, <1>4, SMT
    <2>3. CASE \A k \in DOMAIN rs : rs[k].source # r
      <3>1. LookupRedirect(rs, r) = Absent /\ LookupRedirect(ts, r) = Absent
        BY <1>3, <2>1, <2>2, <2>3, LookupIs
      <3> QED
        BY <3>1
    <2>4. CASE \E k \in DOMAIN rs : rs[k].source = r
      <3>1. PICK k \in DOMAIN rs : /\ rs[k].source = r /\ LookupRedirect(rs, r) = rs[k].target
                                   /\ \A j \in DOMAIN rs : rs[j].source = r => j <= k
        BY <2>4, LookupIs
      <3>2. k \in DOMAIN ts /\ ts[k].source = r /\ \A j \in DOMAIN ts : ts[j].source = r => j <= k
        BY <2>1, <2>2, <3>1
      <3>3. LookupRedirect(ts, r) = ts[k].target
        BY <1>3, <3>2, LookupOne
      <3> QED
        BY <2>2, <3>1, <3>3
    <2> QED
      BY <2>3, <2>4
  <1>8. \A k \in DOMAIN ts : ts[k].target = q \/ \E j \in DOMAIN rs : ts[k].target = rs[j].target
    <2> SUFFICES ASSUME NEW k \in DOMAIN ts PROVE ts[k].target = q \/ \E j \in DOMAIN rs : ts[k].target = rs[j].target
      OBVIOUS
    <2>1. k = n + 1 \/ k \in 1 .. n
      BY <1>2, <1>4, SMT
    <2> QED
      BY <1>2, <1>3, <1>5, <2>1
  <1> QED
    BY <1>3, <1>6, <1>7, <1>8 DEF ts

(* Redirects to a package that is renamed follow it. *)
LEMMA RetargetedRedirects ==
  ASSUME NEW rs \in Seq(Redirect), NEW p \in Path, NEW q \in Path
  PROVE  /\ RetargetRedirects(rs, p, q) \in Seq(Redirect)
         /\ \A r : LookupRedirect(RetargetRedirects(rs, p, q), r)
                     = IF LookupRedirect(rs, r) = p THEN q ELSE LookupRedirect(rs, r)
         /\ DOMAIN RetargetRedirects(rs, p, q) = DOMAIN rs
         /\ \A k \in DOMAIN rs : RetargetRedirects(rs, p, q)[k].target
                                   = IF rs[k].target = p THEN q ELSE rs[k].target
  <1> DEFINE ts == RetargetRedirects(rs, p, q)
             n == Len(rs)
  <1>1. n \in Nat /\ DOMAIN rs = 1 .. n /\ \A k \in 1 .. n : rs[k] \in Redirect
    BY LenProperties, ElementOfSeq
  <1>2. DOMAIN ts = DOMAIN rs
    BY DEF RetargetRedirects
  <1>3. \A k \in 1 .. n : ts[k] \in Redirect
    BY <1>1 DEF RetargetRedirects, Redirect
  <1>4. \A k \in 1 .. n : /\ ts[k].source = rs[k].source
                          /\ ts[k].target = IF rs[k].target = p THEN q ELSE rs[k].target
    BY <1>1 DEF RetargetRedirects, Redirect
  <1>5. ts \in [1 .. n -> Redirect]
    BY <1>1, <1>3 DEF RetargetRedirects
  <1>6. ts \in Seq(Redirect)
    BY <1>1, <1>5, SeqDef
  <1> HIDE DEF ts, n
  <1>7. ASSUME NEW r
        PROVE  LookupRedirect(ts, r) = IF LookupRedirect(rs, r) = p THEN q ELSE LookupRedirect(rs, r)
    <2>1. CASE \A k \in DOMAIN rs : rs[k].source # r
      <3>1. LookupRedirect(rs, r) = Absent
        BY <2>1, LookupIs
      <3>2. \A k \in DOMAIN ts : ts[k].source # r
        BY <1>1, <1>2, <1>4, <2>1
      <3>3. LookupRedirect(ts, r) = Absent
        BY <1>6, <3>2, LookupIs
      <3>4. Absent # p
        BY StoreAssumption
      <3> QED
        BY <3>1, <3>3, <3>4
    <2>2. CASE \E k \in DOMAIN rs : rs[k].source = r
      <3>1. PICK k \in DOMAIN rs : /\ rs[k].source = r /\ LookupRedirect(rs, r) = rs[k].target
                                   /\ \A j \in DOMAIN rs : rs[j].source = r => j <= k
        BY <2>2, LookupIs
      <3>2. k \in DOMAIN ts /\ ts[k].source = r /\ \A j \in DOMAIN ts : ts[j].source = r => j <= k
        BY <1>1, <1>2, <1>4, <3>1
      <3>3. LookupRedirect(ts, r) = ts[k].target
        BY <1>6, <3>2, LookupOne
      <3> QED
        BY <1>1, <1>4, <3>1, <3>3
    <2> QED
      BY <2>1, <2>2
  <1>8. \A k \in DOMAIN rs : ts[k].target = IF rs[k].target = p THEN q ELSE rs[k].target
    BY <1>1, <1>4
  <1> QED
    BY <1>2, <1>6, <1>7, <1>8 DEF ts

-----------------------------------------------------------------------------
(* What the edits do to a chart *)

Duplicated(P, R, P2, R2) ==
  \E p \in Path, e \in Export, b \in Body :
    P[p] = Absent /\ P2 = [P EXCEPT ![p] = [export |-> e, body |-> b]] /\ R2 = R
Removed(P, R, P2, R2) ==
  \E p \in Path : P[p] # Absent /\ (\A r \in Path : R[r] # p) /\ P2 = [P EXCEPT ![p] = Absent] /\ R2 = R
Renamed(P, R, P2, R2) ==
  \E p, q \in Path, b \in Body \cup {Absent}, leave \in BOOLEAN :
    /\ P[p] # Absent /\ P[q] = Absent
    /\ P2 = [P EXCEPT ![q] = [P[p] EXCEPT !.body = b], ![p] = Absent]
    /\ R2 = [r \in Path |-> IF R[r] = p \/ (leave /\ r = p) THEN q ELSE R[r]]
Overwritten(P, R, P2, R2) == (\A p \in Path : P2[p] = Absent <=> P[p] = Absent) /\ R2 = R
Edited(g, f) ==
  \/ Duplicated(PackagesOf(g), RedirectsOf(g), PackagesOf(f), RedirectsOf(f))
  \/ Removed(PackagesOf(g), RedirectsOf(g), PackagesOf(f), RedirectsOf(f))
  \/ Renamed(PackagesOf(g), RedirectsOf(g), PackagesOf(f), RedirectsOf(f))
  \/ Overwritten(PackagesOf(g), RedirectsOf(g), PackagesOf(f), RedirectsOf(f))

(* A package's chunks are all that its content depends on. *)
LEMMA SamePackage ==
  ASSUME NEW g, NEW f, NEW p,
         \A id \in {BundleId(p), BulkId(p)} : (id \in DOMAIN f <=> id \in DOMAIN g) /\ (id \in DOMAIN g => f[id] = g[id])
  PROVE  PackageOf(f, p) = PackageOf(g, p)
  BY DEF PackageOf

(* The header is all that the redirects of a chart depend on. *)
LEMMA SameRedirects ==
  ASSUME NEW g, NEW f, HeaderId \in DOMAIN f <=> HeaderId \in DOMAIN g,
         HeaderId \in DOMAIN g => f[HeaderId].redirects = g[HeaderId].redirects
  PROVE  RedirectsOf(f) = RedirectsOf(g)
  BY DEF RedirectsOf, RedirectOf

(* A header keeps its redirects when its store changes. *)
LEMMA HeaderUpdated ==
  ASSUME NEW h, IsHeader(h), NEW S \in SUBSET Path
  PROVE  /\ IsHeader([h EXCEPT !.store = S])
         /\ [h EXCEPT !.store = S].store = S /\ [h EXCEPT !.store = S].redirects = h.redirects
  <1>1. PICK T, rs : h = [kind |-> "header", store |-> T, redirects |-> rs]
    BY DEF IsHeader, Header
  <1>2. [h EXCEPT !.store = S] = [kind |-> "header", store |-> S, redirects |-> rs] /\ h.redirects = rs
    BY <1>1
  <1>3. rs \in Seq(Redirect)
    BY <1>2 DEF IsHeader
  <1>4. [kind |-> "header", store |-> S, redirects |-> rs] = Header(S, rs)
    BY DEF Header
  <1>5. Header(S, rs).store = S /\ Header(S, rs).redirects = rs
    BY DEF Header
  <1>6. IsHeader(Header(S, rs))
    BY <1>3, <1>5 DEF IsHeader
  <1> QED
    BY <1>2, <1>4, <1>5, <1>6

(* A header that is new to the container redirects nothing. *)
LEMMA NoRedirects == <<>> \in Seq(Redirect) /\ DOMAIN <<>> = {} /\ \A r : LookupRedirect(<<>>, r) = Absent
  <1>1. <<>> \in Seq(Redirect) /\ DOMAIN <<>> = {}
    BY EmptySeq
  <1> QED
    BY <1>1 DEF LookupRedirect

(* A package is there exactly when its bundle is. *)
LEMMA PackageTyped ==
  ASSUME NEW g, Chunks(g), NEW p \in Path
  PROVE  /\ PackageOf(g, p) \in Package \cup {Absent}
         /\ PackageOf(g, p) = Absent <=> p \notin Packs(g)
  <1>1. CASE BundleId(p) \notin DOMAIN g
    BY <1>1 DEF PackageOf, Packs
  <1>2. CASE BundleId(p) \in DOMAIN g
    <2>1. g[BundleId(p)].export \in Export
      BY <1>2, ChunkAt DEF IsBundle
    <2>2. BulkId(p) \in DOMAIN g => g[BulkId(p)].body \in Body
      BY ChunkAt DEF IsBulk
    <2>3. PackageOf(g, p) \in Package
      BY <1>2, <2>1, <2>2 DEF PackageOf, Package
    <2>4. Absent \notin Package
      BY StoreAssumption
    <2> QED
      BY <1>2, <2>3, <2>4 DEF Packs
  <1> QED
    BY <1>1, <1>2

(* What a chart shows is packages and redirects of the abstract store. *)
LEMMA ContentTyped ==
  ASSUME NEW g, Chunks(g)
  PROVE  PackagesOf(g) \in Held /\ RedirectsOf(g) \in Redirected
  <1>1. PackagesOf(g) \in Held
    BY PackageTyped DEF PackagesOf, Held
  <1>2. \A p : RedirectOf(g, p) \in Path \cup {Absent}
    BY ChunkAt, LookupTyped DEF RedirectOf, IsHeader
  <1> QED
    BY <1>1, <1>2 DEF RedirectsOf, Redirected

(* In a coherent chart no redirect leads nowhere. *)
LEMMA CoherentLeads ==
  ASSUME NEW g, NEW W, Coherent(g, W), NEW p \in Path, RedirectOf(g, p) # Absent
  PROVE  RedirectOf(g, p) \in Packs(g)
  <1>1. HeaderId \in DOMAIN g
    BY DEF RedirectOf
  <1>2. IsHeader(g[HeaderId])
    BY <1>1, ChunkAt DEF Coherent
  <1>3. g[HeaderId].redirects \in Seq(Redirect)
    BY <1>2 DEF IsHeader
  <1>4. RedirectOf(g, p) = LookupRedirect(g[HeaderId].redirects, p)
    BY <1>1 DEF RedirectOf
  <1>5. \E k \in DOMAIN g[HeaderId].redirects :
          LookupRedirect(g[HeaderId].redirects, p) = g[HeaderId].redirects[k].target
    BY <1>3, <1>4, LookupIs
  <1> QED
    BY <1>1, <1>4, <1>5 DEF Coherent, Stored

StoreWith(g, p) ==
  IF HeaderId \in DOMAIN g THEN [g[HeaderId] EXCEPT !.store = @ \cup {p}] ELSE Header({p}, <<>>)

(* A clone is a package more, and its entry in the header's store. *)
LEMMA DuplicateChart ==
  ASSUME NEW g, NEW W, Coherent(g, W), NEW p \in Path, NEW e \in Export, NEW b \in Body,
         BundleId(p) \notin DOMAIN g, BulkId(p) \notin DOMAIN g,
         NEW f, f = [id \in DOMAIN f |-> f[id]],
         DOMAIN f = DOMAIN g \cup {BundleId(p), BulkId(p), HeaderId},
         f[BundleId(p)] = Bundle(p, e, Length[b]), f[BulkId(p)] = Bulk(b),
         f[HeaderId] = StoreWith(g, p),
         \A id \in DOMAIN g : id # HeaderId => f[id] = g[id]
  PROVE  Coherent(f, W) /\ Edited(g, f)
  <1>1. Chunks(g) /\ Wrapped(g) /\ Stored(g, W)
    BY DEF Coherent
  <1>17. f[HeaderId] = IF HeaderId \in DOMAIN g THEN [g[HeaderId] EXCEPT !.store = @ \cup {p}] ELSE Header({p}, <<>>)
    BY DEF StoreWith
  <1>2. Length[b] \in Nat
    BY StoreAssumption
  <1>3. IsBundle(p, f[BundleId(p)]) /\ IsBulk(f[BulkId(p)])
    BY <1>2 DEF IsBundle, IsBulk, Bundle, Bulk
  <1>4. IsHeader(f[HeaderId])
    <2>1. CASE HeaderId \in DOMAIN g
      <3>1. IsHeader(g[HeaderId])
        BY <1>1, <2>1, ChunkAt
      <3>2. g[HeaderId].store \cup {p} \in SUBSET Path
        BY <3>1 DEF IsHeader
      <3>3. f[HeaderId] = [g[HeaderId] EXCEPT !.store = g[HeaderId].store \cup {p}]
        BY <1>17, <2>1
      <3>4. IsHeader([g[HeaderId] EXCEPT !.store = g[HeaderId].store \cup {p}])
        BY <3>1, <3>2, HeaderUpdated
      <3> QED
        BY <3>3, <3>4
    <2>2. CASE HeaderId \notin DOMAIN g
      <3>1. <<>> \in Seq(Redirect)
        BY NoRedirects
      <3> QED
        BY <1>17, <2>2, <3>1 DEF IsHeader, Header
    <2> QED
      BY <2>1, <2>2
  <1>5. Chunks(f)
    <2>1. ASSUME NEW id \in DOMAIN f PROVE ChunkOK(id, f[id])
      <3>1. CASE id \in {BundleId(p), BulkId(p), HeaderId}
        BY <3>1, <1>3, <1>4 DEF ChunkOK
      <3>2. CASE id \in DOMAIN g /\ id # HeaderId
        BY <3>2, <1>1 DEF Chunks
      <3> QED
        BY <3>1, <3>2
    <2> QED
      BY <2>1 DEF Chunks
  <1>6. Packs(f) = Packs(g) \cup {p}
    BY IdsDiffer DEF Packs
  <1>7. \A q \in Path : q # p =>
          /\ BundleId(q) \in DOMAIN f <=> BundleId(q) \in DOMAIN g
          /\ BulkId(q) \in DOMAIN f <=> BulkId(q) \in DOMAIN g
          /\ BundleId(q) \in DOMAIN g => f[BundleId(q)] = g[BundleId(q)]
          /\ BulkId(q) \in DOMAIN g => f[BulkId(q)] = g[BulkId(q)]
    BY IdsDiffer
  <1>8. Wrapped(f)
    <2>1. f[BundleId(p)].size = Length[f[BulkId(p)].body]
      BY DEF Bundle, Bulk
    <2> QED
      BY <1>1, <1>7, <2>1 DEF Wrapped
  <1>9. Stored(f, W)
    <2>1. CASE HeaderId \in DOMAIN g
      <3>1. IsHeader(g[HeaderId])
        BY <1>1, <2>1, ChunkAt
      <3>2. f[HeaderId].store = g[HeaderId].store \cup {p} /\ f[HeaderId].redirects = g[HeaderId].redirects
        BY <1>17, <2>1, <3>1 DEF IsHeader, Header
      <3> QED
        BY <1>1, <1>6, <2>1, <3>2 DEF Stored
    <2>2. CASE HeaderId \notin DOMAIN g
      <3>1. f[HeaderId].store = {p} /\ f[HeaderId].redirects = <<>>
        BY <1>17, <2>2 DEF Header
      <3>2. DOMAIN f[HeaderId].redirects = {} /\ HeaderId \in DOMAIN f
        BY <3>1, NoRedirects
      <3>3. Packs(g) \subseteq W
        BY <1>1, <2>2 DEF Stored
      <3> QED
        BY <1>6, <3>1, <3>2, <3>3 DEF Stored
    <2> QED
      BY <2>1, <2>2
  <1>10. PackageOf(f, p) = [export |-> e, body |-> b]
    BY DEF PackageOf, Bundle, Bulk
  <1>11. PackageOf(g, p) = Absent
    BY DEF PackageOf
  <1>12. \A q \in Path : q # p => PackageOf(f, q) = PackageOf(g, q)
    BY <1>7, SamePackage
  <1>13. PackagesOf(f) = [PackagesOf(g) EXCEPT ![p] = [export |-> e, body |-> b]]
    BY <1>10, <1>12 DEF PackagesOf
  <1>14. RedirectsOf(f) = RedirectsOf(g)
    <2>1. CASE HeaderId \in DOMAIN g
      <3>1. IsHeader(g[HeaderId])
        BY <1>1, <2>1, ChunkAt
      <3>2. f[HeaderId].redirects = g[HeaderId].redirects
        BY <1>17, <2>1, <3>1 DEF IsHeader, Header
      <3> QED
        BY <2>1, <3>2, SameRedirects
    <2>2. CASE HeaderId \notin DOMAIN g
      <3>1. f[HeaderId].redirects = <<>>
        BY <1>17, <2>2 DEF Header
      <3>2. \A r : LookupRedirect(<<>>, r) = Absent
        BY NoRedirects
      <3> QED
        BY <2>2, <3>1, <3>2 DEF RedirectsOf, RedirectOf
    <2> QED
      BY <2>1, <2>2
  <1>15. PackagesOf(g)[p] = Absent
    BY <1>11 DEF PackagesOf
  <1>16. Edited(g, f)
    BY <1>13, <1>14, <1>15 DEF Edited, Duplicated
  <1> QED
    BY <1>5, <1>8, <1>9, <1>16 DEF Coherent

(* A deletion is a package and its store entry less; no redirect led to it. *)
LEMMA DeleteChart ==
  ASSUME NEW g, NEW W, Coherent(g, W), NEW p \in Path,
         BundleId(p) \in DOMAIN g, BulkId(p) \in DOMAIN g, HeaderId \in DOMAIN g,
         ~RedirectsTo(g[HeaderId].redirects, p),
         NEW f, f = [id \in DOMAIN f |-> f[id]],
         DOMAIN f = DOMAIN g \ {BundleId(p), BulkId(p)},
         f[HeaderId] = [g[HeaderId] EXCEPT !.store = @ \ {p}],
         \A id \in DOMAIN f : id # HeaderId => f[id] = g[id]
  PROVE  Coherent(f, W) /\ Edited(g, f)
  <1>1. Chunks(g) /\ Wrapped(g) /\ Stored(g, W) /\ HeaderId \in DOMAIN f
    BY IdsDiffer DEF Coherent
  <1>2. IsHeader(g[HeaderId])
    BY <1>1, ChunkAt
  <1>3. /\ f[HeaderId].store = g[HeaderId].store \ {p} /\ f[HeaderId].redirects = g[HeaderId].redirects
        /\ IsHeader(f[HeaderId])
    <2>1. g[HeaderId].store \ {p} \in SUBSET Path
      BY <1>2 DEF IsHeader
    <2>2. f[HeaderId] = [g[HeaderId] EXCEPT !.store = g[HeaderId].store \ {p}]
      OBVIOUS
    <2> QED
      BY <1>2, <2>1, <2>2, HeaderUpdated
  <1>4. Chunks(f)
    <2>1. ASSUME NEW id \in DOMAIN f PROVE ChunkOK(id, f[id])
      BY <1>1, <1>3 DEF Chunks, ChunkOK
    <2> QED
      BY <2>1 DEF Chunks
  <1>5. Packs(f) = Packs(g) \ {p}
    BY IdsDiffer DEF Packs
  <1>6. \A q \in Path : q # p =>
          /\ BundleId(q) \in DOMAIN f <=> BundleId(q) \in DOMAIN g
          /\ BulkId(q) \in DOMAIN f <=> BulkId(q) \in DOMAIN g
          /\ BundleId(q) \in DOMAIN g => f[BundleId(q)] = g[BundleId(q)]
          /\ BulkId(q) \in DOMAIN g => f[BulkId(q)] = g[BulkId(q)]
    BY IdsDiffer
  <1>7. Wrapped(f)
    BY <1>1, <1>6 DEF Wrapped
  <1>8. Stored(f, W)
    <2>1. \A k \in DOMAIN g[HeaderId].redirects : g[HeaderId].redirects[k].target # p
      BY DEF RedirectsTo
    <2> QED
      BY <1>1, <1>3, <1>5, <2>1 DEF Stored
  <1>9. PackageOf(f, p) = Absent
    BY DEF PackageOf
  <1>10. PackagesOf(g)[p] # Absent
    BY <1>1, PackageTyped DEF PackagesOf, Packs
  <1>11. \A q \in Path : q # p => PackageOf(f, q) = PackageOf(g, q)
    BY <1>6, SamePackage
  <1>12. PackagesOf(f) = [PackagesOf(g) EXCEPT ![p] = Absent]
    BY <1>9, <1>11 DEF PackagesOf
  <1>13. RedirectsOf(f) = RedirectsOf(g)
    BY <1>1, <1>3, SameRedirects
  <1>14. \A r \in Path : RedirectsOf(g)[r] # p
    <2> SUFFICES ASSUME NEW r \in Path PROVE RedirectOf(g, r) # p
      BY DEF RedirectsOf
    <2>1. g[HeaderId].redirects \in Seq(Redirect) /\ Absent # p
      BY <1>2, StoreAssumption DEF IsHeader
    <2> QED
      BY <2>1, LookupIs DEF RedirectOf, RedirectsTo
  <1>15. Edited(g, f)
    BY <1>10, <1>12, <1>13, <1>14 DEF Edited, Removed
  <1> QED
    BY <1>4, <1>7, <1>8, <1>15 DEF Coherent

(* What the packages and the redirects of a rename are, path by path. *)
LEMMA RenamedBy ==
  ASSUME NEW P, NEW R, NEW P2, NEW R2, NEW p \in Path, NEW q \in Path, NEW b \in Body \cup {Absent},
         NEW leave \in BOOLEAN, P[p] # Absent, P[q] = Absent,
         P2 = [P EXCEPT ![q] = [P[p] EXCEPT !.body = b], ![p] = Absent],
         R2 = [r \in Path |-> IF R[r] = p \/ (leave /\ r = p) THEN q ELSE R[r]]
  PROVE  Renamed(P, R, P2, R2)
  BY Zenon DEF Renamed

(* What a rename makes of a package's ids, wrapper and body, and of the    *)
(* header.                                                                 *)
MovedIds(ids, p, q) ==
  ((ids \ {BundleId(p), BulkId(p)}) \cup {BundleId(q)}) \cup (IF BulkId(p) \in ids THEN {BulkId(q)} ELSE {})
MovedBundle(block, q, b) ==
  IF b # Absent THEN [block EXCEPT !.name = q, !.size = Length[b]] ELSE [block EXCEPT !.name = q]
MovedBulk(block, b) == IF b # Absent THEN Bulk(b) ELSE block
MovedHeader(h, p, q, leave) ==
  Header((h.store \ {p}) \cup {q},
         IF leave THEN AddRedirect(RetargetRedirects(h.redirects, p, q), p, q) ELSE RetargetRedirects(h.redirects, p, q))

(* The chunks of a renamed package are at its new path, with the wrapper   *)
(* and the body the rename gives them; everyone else's are as they were.   *)
LEMMA RenameChart ==
  ASSUME NEW g, NEW W, Coherent(g, W), NEW p \in Path, NEW q \in Path, p # q,
         NEW b \in Body \cup {Absent}, NEW leave \in BOOLEAN,
         BundleId(p) \in DOMAIN g, HeaderId \in DOMAIN g,
         BundleId(q) \notin DOMAIN g, BulkId(q) \notin DOMAIN g,
         b # Absent => BulkId(p) \in DOMAIN g,
         NEW f, f = [id \in DOMAIN f |-> f[id]],
         DOMAIN f = MovedIds(DOMAIN g, p, q),
         f[BundleId(q)] = MovedBundle(g[BundleId(p)], q, b),
         BulkId(p) \in DOMAIN g => f[BulkId(q)] = MovedBulk(g[BulkId(p)], b),
         f[HeaderId] = MovedHeader(g[HeaderId], p, q, leave),
         \A id \in DOMAIN g : id \notin {BundleId(p), BulkId(p), HeaderId} => f[id] = g[id]
  PROVE  Coherent(f, W) /\ Edited(g, f)
  <1> DEFINE old == g[HeaderId].redirects
             kept == RetargetRedirects(old, p, q)
             new == IF leave THEN AddRedirect(kept, p, q) ELSE kept
  <1>1. Chunks(g) /\ Wrapped(g) /\ Stored(g, W) /\ HeaderId \in DOMAIN f
    <2>1. HeaderId \in DOMAIN f
      BY IdsDiffer DEF MovedIds
    <2> QED
      BY <2>1 DEF Coherent
  <1>2. IsHeader(g[HeaderId]) /\ old \in Seq(Redirect) /\ g[HeaderId].store \in SUBSET Path
    BY <1>1, ChunkAt DEF IsHeader
  <1>3. PICK e, size : g[BundleId(p)] = Bundle(p, e, size) /\ e \in Export /\ size \in Nat
    BY <1>1, ChunkAt DEF IsBundle
  <1>4. b # Absent => Length[b] \in Nat
    BY StoreAssumption
  <1>5. f[BundleId(q)] = Bundle(q, e, IF b # Absent THEN Length[b] ELSE size)
    <2>1. CASE b # Absent
      <3>1. f[BundleId(q)] = [[g[BundleId(p)] EXCEPT !.name = q] EXCEPT !.size = Length[b]]
        BY <1>3, <2>1 DEF Bundle, MovedBundle
      <3>2. [g[BundleId(p)] EXCEPT !.name = q] = Bundle(q, e, size)
        BY <1>3 DEF Bundle
      <3>3. [Bundle(q, e, size) EXCEPT !.size = Length[b]] = Bundle(q, e, Length[b])
        BY DEF Bundle
      <3> QED
        BY <2>1, <3>1, <3>2, <3>3
    <2>2. CASE b = Absent
      BY <1>3, <2>2 DEF Bundle, MovedBundle
    <2> QED
      BY <2>1, <2>2
  <1>6. IsBundle(q, f[BundleId(q)]) /\ f[BundleId(q)].export = e
        /\ f[BundleId(q)].size = IF b # Absent THEN Length[b] ELSE size
    BY <1>3, <1>4, <1>5 DEF IsBundle, Bundle
  <1>7. BulkId(p) \in DOMAIN g =>
          /\ IsBulk(f[BulkId(q)])
          /\ f[BulkId(q)].body = IF b # Absent THEN b ELSE g[BulkId(p)].body
    <2> SUFFICES ASSUME BulkId(p) \in DOMAIN g
                 PROVE  /\ IsBulk(f[BulkId(q)])
                        /\ f[BulkId(q)].body = IF b # Absent THEN b ELSE g[BulkId(p)].body
      OBVIOUS
    <2>1. IsBulk(g[BulkId(p)])
      BY <1>1, ChunkAt
    <2> QED
      BY <2>1 DEF IsBulk, Bulk, MovedBulk
  <1>8. /\ kept \in Seq(Redirect)
        /\ \A r : LookupRedirect(kept, r) = IF LookupRedirect(old, r) = p THEN q ELSE LookupRedirect(old, r)
        /\ DOMAIN kept = DOMAIN old
        /\ \A k \in DOMAIN old : kept[k].target = IF old[k].target = p THEN q ELSE old[k].target
    BY <1>2, RetargetedRedirects
  <1> HIDE DEF kept
  <1>9. /\ AddRedirect(kept, p, q) \in Seq(Redirect)
        /\ \A r : LookupRedirect(AddRedirect(kept, p, q), r) = IF r = p THEN q ELSE LookupRedirect(kept, r)
        /\ \A k \in DOMAIN AddRedirect(kept, p, q) :
             AddRedirect(kept, p, q)[k].target = q
               \/ \E j \in DOMAIN kept : AddRedirect(kept, p, q)[k].target = kept[j].target
    <2>1. kept \in Seq(Redirect)
      BY <1>8
    <2> QED
      BY <2>1, AddedRedirect, Zenon
  <1>10. new \in Seq(Redirect)
    BY <1>8, <1>9
  <1>11. \A r : LookupRedirect(new, r)
                  = IF LookupRedirect(old, r) = p \/ (leave /\ r = p) THEN q ELSE LookupRedirect(old, r)
    BY <1>8, <1>9
  <1>12. \A k \in DOMAIN new : new[k].target = q \/ \E j \in DOMAIN old : new[k].target = old[j].target /\ old[j].target # p
    BY <1>8, <1>9
  <1>13. f[HeaderId] = Header((g[HeaderId].store \ {p}) \cup {q}, new)
    BY DEF kept, MovedHeader
  <1> HIDE DEF new
  <1>14. /\ IsHeader(f[HeaderId]) /\ f[HeaderId].store = (g[HeaderId].store \ {p}) \cup {q}
         /\ f[HeaderId].redirects = new
    <2>1. (g[HeaderId].store \ {p}) \cup {q} \in SUBSET Path
      BY <1>2
    <2> QED
      BY <1>10, <1>13, <2>1 DEF IsHeader, Header
  <1>15. /\ BundleId(q) \in DOMAIN f /\ BundleId(p) \notin DOMAIN f /\ BulkId(p) \notin DOMAIN f
         /\ BulkId(q) \in DOMAIN f <=> BulkId(p) \in DOMAIN g
    BY IdsDiffer DEF MovedIds
  <1>16. \A r \in Path \ {p, q} :
          /\ BundleId(r) \in DOMAIN f <=> BundleId(r) \in DOMAIN g
          /\ BulkId(r) \in DOMAIN f <=> BulkId(r) \in DOMAIN g
          /\ BundleId(r) \in DOMAIN g => f[BundleId(r)] = g[BundleId(r)]
          /\ BulkId(r) \in DOMAIN g => f[BulkId(r)] = g[BulkId(r)]
    BY IdsDiffer DEF MovedIds
  <1>17. Chunks(f)
    <2>1. ASSUME NEW id \in DOMAIN f PROVE ChunkOK(id, f[id])
      <3>1. CASE id = HeaderId
        BY <3>1, <1>14 DEF ChunkOK
      <3>2. CASE id = BundleId(q)
        BY <3>2, <1>6 DEF ChunkOK
      <3>3. CASE id = BulkId(q)
        BY <3>3, <1>7, <1>15 DEF ChunkOK
      <3>4. CASE id \notin {HeaderId, BundleId(q), BulkId(q)}
        <4>1. id \in DOMAIN g /\ f[id] = g[id]
          BY <3>4 DEF MovedIds
        <4> QED
          BY <1>1, <4>1 DEF Chunks
      <3> QED
        BY <3>1, <3>2, <3>3, <3>4
    <2> QED
      BY <2>1 DEF Chunks
  <1>18. Packs(f) = (Packs(g) \ {p}) \cup {q} /\ p \in Packs(g) /\ q \notin Packs(g)
    BY <1>15, <1>16 DEF Packs
  <1>19. Wrapped(f)
    <2> SUFFICES ASSUME NEW r \in Path, BundleId(r) \in DOMAIN f, BulkId(r) \in DOMAIN f
                 PROVE  f[BundleId(r)].size = Length[f[BulkId(r)].body]
      BY DEF Wrapped
    <2>1. CASE r = q
      <3>1. BulkId(p) \in DOMAIN g
        BY <2>1, <1>15
      <3>2. size = Length[g[BulkId(p)].body]
        BY <1>1, <1>3, <3>1 DEF Wrapped, Bundle
      <3> QED
        BY <2>1, <1>6, <1>7, <3>1, <3>2
    <2>2. CASE r # q
      <3>1. r # p
        BY <1>15
      <3> QED
        BY <1>1, <1>16, <2>2, <3>1 DEF Wrapped
    <2> QED
      BY <2>1, <2>2
  <1>20. Stored(f, W)
    <2>1. g[HeaderId].store \subseteq Packs(g) /\ Packs(g) \subseteq g[HeaderId].store \cup W
          /\ \A k \in DOMAIN old : old[k].target \in Packs(g)
      BY <1>1 DEF Stored
    <2>2. \A k \in DOMAIN new : new[k].target \in Packs(f)
      BY <1>12, <1>18, <2>1
    <2> QED
      BY <1>1, <1>14, <1>18, <2>1, <2>2 DEF Stored
  <1> DEFINE body == IF BulkId(p) \notin DOMAIN g THEN Absent ELSE IF b # Absent THEN b ELSE g[BulkId(p)].body
  <1>21. body \in Body \cup {Absent}
    BY <1>1, ChunkAt DEF IsBulk
  <1>22. PackageOf(f, q) = [PackagesOf(g)[p] EXCEPT !.body = body]
    <2>1. PackageOf(f, q) = [export |-> e, body |-> body]
      BY <1>6, <1>7, <1>15 DEF PackageOf
    <2>2. PackagesOf(g)[p] = [export |-> e, body |-> IF BulkId(p) \notin DOMAIN g THEN Absent ELSE g[BulkId(p)].body]
      BY <1>3 DEF PackagesOf, PackageOf, Bundle
    <2> QED
      BY <2>1, <2>2
  <1> HIDE DEF body
  <1>23. PackageOf(f, p) = Absent /\ PackagesOf(g)[p] # Absent /\ PackagesOf(g)[q] = Absent
    BY <1>1, <1>15, <1>18, PackageTyped DEF PackageOf, PackagesOf
  <1>24. \A r \in Path \ {p, q} : PackageOf(f, r) = PackageOf(g, r)
    BY <1>16, SamePackage
  <1>25. PackagesOf(f) = [PackagesOf(g) EXCEPT ![q] = [PackagesOf(g)[p] EXCEPT !.body = body], ![p] = Absent]
    BY <1>22, <1>23, <1>24 DEF PackagesOf
  <1>26. RedirectsOf(f) = [r \in Path |-> IF RedirectsOf(g)[r] = p \/ (leave /\ r = p) THEN q ELSE RedirectsOf(g)[r]]
    <2>1. \A r \in Path : RedirectOf(f, r) = LookupRedirect(new, r) /\ RedirectOf(g, r) = LookupRedirect(old, r)
      BY <1>1, <1>14 DEF RedirectOf
    <2> QED
      BY <1>11, <2>1 DEF RedirectsOf
  <1>27. Edited(g, f)
    <2>1. Renamed(PackagesOf(g), RedirectsOf(g), PackagesOf(f), RedirectsOf(f))
      BY ONLY <1>21, <1>23, <1>25, <1>26, RenamedBy, p \in Path, q \in Path, leave \in BOOLEAN, Zenon
    <2> QED
      BY <2>1 DEF Edited
  <1> QED
    BY <1>17, <1>19, <1>20, <1>27 DEF Coherent

(* An overwrite gives packages other chunks, and keeps the header.         *)
LEMMA OverwriteChart ==
  ASSUME NEW g, NEW W, Coherent(g, W),
         NEW f, f = [id \in DOMAIN f |-> f[id]], DOMAIN f = DOMAIN g,
         \A p \in Path : BundleId(p) \in DOMAIN g => IsBundle(p, f[BundleId(p)]),
         \A p \in Path : BulkId(p) \in DOMAIN g => IsBulk(f[BulkId(p)]),
         HeaderId \in DOMAIN g => f[HeaderId] = g[HeaderId],
         Wrapped(f)
  PROVE  Coherent(f, W) /\ Edited(g, f)
  <1>1. Chunks(g) /\ Stored(g, W)
    BY DEF Coherent
  <1>2. Chunks(f)
    <2>1. ASSUME NEW id \in DOMAIN f PROVE ChunkOK(id, f[id])
      <3>1. ChunkOK(id, g[id])
        BY <1>1 DEF Chunks
      <3>2. id = HeaderId \/ \E p \in Path : id \in {BundleId(p), BulkId(p)}
        BY <3>1 DEF ChunkOK
      <3>3. CASE id = HeaderId
        BY <1>1, <3>3, ChunkAt DEF ChunkOK
      <3>4. CASE \E p \in Path : id \in {BundleId(p), BulkId(p)}
        BY <3>4 DEF ChunkOK
      <3> QED
        BY <3>2, <3>3, <3>4
    <2> QED
      BY <2>1 DEF Chunks
  <1>3. Packs(f) = Packs(g)
    BY DEF Packs
  <1>4. Stored(f, W)
    BY <1>1, <1>3 DEF Stored
  <1>5. RedirectsOf(f) = RedirectsOf(g)
    BY SameRedirects
  <1>6. \A p \in Path : PackagesOf(f)[p] = Absent <=> PackagesOf(g)[p] = Absent
    BY <1>1, <1>2, <1>3, PackageTyped DEF PackagesOf
  <1>7. Edited(g, f)
    BY <1>5, <1>6 DEF Edited, Overwritten
  <1> QED
    BY <1>2, <1>4, <1>7 DEF Coherent

(* Sequences, whatever they hold *)
Sequence(s) == s \in Seq({s[k] : k \in DOMAIN s})

(* The domain of a sequence. *)
LEMMA SequenceIs ==
  ASSUME NEW s, Sequence(s)
  PROVE  Len(s) \in Nat /\ DOMAIN s = 1 .. Len(s)
  BY LenProperties DEF Sequence

(* A function on 1 .. n is a sequence of length n. *)
LEMMA FunctionIsSequence ==
  ASSUME NEW n \in Nat, NEW s, s = [k \in 1 .. n |-> s[k]]
  PROVE  Sequence(s) /\ Len(s) = n
  <1> DEFINE T == {s[k] : k \in DOMAIN s}
  <1>1. DOMAIN s = 1 .. n
    OBVIOUS
  <1>2. \A k \in 1 .. n : s[k] \in T
    BY <1>1
  <1> HIDE DEF T
  <1>3. s \in [1 .. n -> T]
    BY <1>2
  <1>4. s \in Seq(T)
    BY <1>3, SeqDef
  <1>5. Len(s) \in Nat /\ DOMAIN s = 1 .. Len(s)
    BY <1>4, LenProperties
  <1>6. Len(s) = n
    BY <1>1, <1>5, SMT
  <1> QED
    BY <1>4, <1>6 DEF T, Sequence

(* What a concatenation has at each place. *)
LEMMA JoinIs ==
  ASSUME NEW s, NEW t, Sequence(s), Sequence(t)
  PROVE  /\ Sequence(s \o t) /\ Len(s \o t) = Len(s) + Len(t)
         /\ \A k \in 1 .. Len(s) : (s \o t)[k] = s[k]
         /\ \A k \in 1 .. Len(t) : (s \o t)[Len(s) + k] = t[k]
  <1> DEFINE T == {s[k] : k \in DOMAIN s} \cup {t[k] : k \in DOMAIN t}
  <1>1. s \in Seq(T) /\ t \in Seq(T)
    BY SeqMonotonic DEF Sequence
  <1> HIDE DEF T
  <1>2. /\ s \o t \in Seq(T) /\ Len(s \o t) = Len(s) + Len(t)
        /\ \A i \in 1 .. Len(s) + Len(t) : (s \o t)[i] = IF i <= Len(s) THEN s[i] ELSE t[i - Len(s)]
    BY <1>1, ConcatProperties
  <1>3. Len(s) \in Nat /\ Len(t) \in Nat
    BY SequenceIs
  <1>4. s \o t = [k \in 1 .. Len(s \o t) |-> (s \o t)[k]] /\ Len(s \o t) \in Nat
    BY <1>2, LenProperties
  <1>5. Sequence(s \o t)
    BY <1>4, FunctionIsSequence
  <1>6. \A k \in 1 .. Len(s) : (s \o t)[k] = s[k]
    BY <1>2, <1>3
  <1>7. \A k \in 1 .. Len(t) : (s \o t)[Len(s) + k] = t[k]
    BY <1>2, <1>3
  <1> QED
    BY <1>2, <1>5, <1>6, <1>7

(* What an append has at each place. *)
LEMMA AppendIs ==
  ASSUME NEW s, NEW x, Sequence(s)
  PROVE  /\ Sequence(Append(s, x)) /\ Len(Append(s, x)) = Len(s) + 1
         /\ \A k \in 1 .. Len(s) : Append(s, x)[k] = s[k]
         /\ Append(s, x)[Len(s) + 1] = x
  <1> DEFINE T == {s[k] : k \in DOMAIN s} \cup {x}
  <1>1. s \in Seq(T) /\ x \in T
    BY SeqMonotonic DEF Sequence
  <1> HIDE DEF T
  <1>2. /\ Append(s, x) \in Seq(T) /\ Len(Append(s, x)) = Len(s) + 1
        /\ \A i \in 1 .. Len(s) : Append(s, x)[i] = s[i]
        /\ Append(s, x)[Len(s) + 1] = x
    BY <1>1, AppendProperties
  <1>3. Append(s, x) = [k \in 1 .. Len(Append(s, x)) |-> Append(s, x)[k]] /\ Len(Append(s, x)) \in Nat
    BY <1>2, LenProperties
  <1>4. Sequence(Append(s, x))
    BY <1>3, FunctionIsSequence
  <1> QED
    BY <1>2, <1>4

(* The sequences of no and of one element. *)
LEMMA SingleIs ==
  ASSUME NEW x
  PROVE  /\ Sequence(<<>>) /\ Len(<<>>) = 0 /\ DOMAIN <<>> = {}
         /\ Sequence(<<x>>) /\ Len(<<x>>) = 1 /\ DOMAIN <<x>> = {1} /\ <<x>>[1] = x
  <1>1. <<>> \in Seq({x}) /\ Len(<<>>) = 0 /\ DOMAIN <<>> = {}
    BY EmptySeq
  <1>2. Sequence(<<>>)
    BY <1>1, EmptySeq DEF Sequence
  <1> QED
    BY <1>1, <1>2 DEF Sequence

(* The sequences of two elements. *)
LEMMA PairIs ==
  ASSUME NEW x, NEW y
  PROVE  Sequence(<<x, y>>) /\ Len(<<x, y>>) = 2 /\ DOMAIN <<x, y>> = {1, 2} /\ <<x, y>>[1] = x /\ <<x, y>>[2] = y
  BY DEF Sequence

-----------------------------------------------------------------------------
(* Tables *)
Live(t) == {i \in Slots(t) : t.ids[i].kind # "retired"}
LiveIds(t) == {t.ids[i] : i \in Live(t)}
SlotOf(t, id) == CHOOSE i \in Live(t) : t.ids[i] = id
Chart(u, t) == [id \in LiveIds(t) |-> u[t.at[SlotOf(t, id)]]]

Directory(ids) ==
  {[path |-> ids[i].pkg, kind |-> ids[i].kind, slot |-> i] : i \in {i \in DOMAIN ids : ids[i].kind \in {"bundle", "bulk"}}}

Table(t) ==
  /\ Whole(t)
  /\ t.ids \in Seq(Id) /\ t.at \in Seq(Nat) /\ Len(t.at) = Len(t.ids)
  /\ \A i \in Slots(t) : t.at[i] = 0 <=> t.ids[i].kind = "retired"
  /\ \A i, j \in Live(t) : t.ids[i] = t.ids[j] => i = j
  /\ t.indexed \in BOOLEAN /\ t.entries = IF t.indexed THEN Directory(t.ids) ELSE {}
Within(t, n) == \A i \in Slots(t) : t.at[i] \in 0 .. n
Sound(u, t, W) == Table(t) /\ Within(t, Len(u)) /\ Coherent(Chart(u, t), W)

(* The sections of a table cover the same slots. *)
LEMMA TableIs ==
  ASSUME NEW t, Table(t)
  PROVE  /\ Len(t.ids) \in Nat /\ DOMAIN t.ids = 1 .. Len(t.ids) /\ DOMAIN t.at = 1 .. Len(t.ids)
         /\ Slots(t) = 1 .. Len(t.ids)
         /\ \A i \in Slots(t) : t.ids[i] \in Id /\ t.at[i] \in Nat
         /\ \A i \in Slots(t) : t.at[i] # 0 <=> i \in Live(t)
         /\ Live(t) \in SUBSET (1 .. Len(t.ids))
  BY LenProperties, ElementOfSeq DEF Table, Slots, Live

(* The chart has the block of each live slot under its id. *)
LEMMA ChartAt ==
  ASSUME NEW t, Table(t), NEW u, NEW i \in Live(t)
  PROVE  t.ids[i] \in DOMAIN Chart(u, t) /\ Chart(u, t)[t.ids[i]] = u[t.at[i]]
  <1>1. t.ids[i] \in LiveIds(t)
    BY DEF LiveIds
  <1>2. SlotOf(t, t.ids[i]) = i
    BY DEF SlotOf, Table
  <1> QED
    BY <1>1, <1>2 DEF Chart

(* Every id of the chart is that of a live slot. *)
LEMMA ChartDomain ==
  ASSUME NEW t, NEW u, NEW id \in DOMAIN Chart(u, t)
  PROVE  \E i \in Live(t) : t.ids[i] = id
  BY DEF Chart, LiveIds

(* A chart is a function. *)
LEMMA ChartIsFunction ==
  \A u, t : Chart(u, t) = [id \in DOMAIN Chart(u, t) |-> Chart(u, t)[id]]
  BY DEF Chart

(* What the slots of a sound table hold. *)
LEMMA SlotHolds ==
  ASSUME NEW t, NEW u, NEW W, Sound(u, t, W), NEW i \in Live(t)
  PROVE  /\ t.at[i] \in 1 .. Len(u)
         /\ ChunkOK(t.ids[i], u[t.at[i]])
         /\ t.ids[i].kind \in {"bundle", "bulk", "header"}
         /\ t.ids[i].kind = "bundle" =>
              t.ids[i].pkg \in Path /\ t.ids[i] = BundleId(t.ids[i].pkg) /\ IsBundle(t.ids[i].pkg, u[t.at[i]])
         /\ t.ids[i].kind = "bulk" =>
              t.ids[i].pkg \in Path /\ t.ids[i] = BulkId(t.ids[i].pkg) /\ IsBulk(u[t.at[i]])
         /\ t.ids[i].kind = "header" => t.ids[i] = HeaderId /\ IsHeader(u[t.at[i]])
  <1>1. Table(t) /\ Within(t, Len(u)) /\ Coherent(Chart(u, t), W)
    BY DEF Sound
  <1>2. ChunkOK(t.ids[i], u[t.at[i]])
    BY <1>1, ChartAt DEF Coherent, Chunks
  <1>3. t.at[i] \in 1 .. Len(u)
    BY <1>1, TableIs DEF Within, Live
  <1>4. CASE \E p \in Path : t.ids[i] = BundleId(p) /\ IsBundle(p, u[t.at[i]])
    BY <1>2, <1>3, <1>4 DEF BundleId, ChunkId
  <1>5. CASE \E p \in Path : t.ids[i] = BulkId(p) /\ IsBulk(u[t.at[i]])
    BY <1>2, <1>3, <1>5 DEF BulkId, ChunkId
  <1>6. CASE t.ids[i] = HeaderId /\ IsHeader(u[t.at[i]])
    BY <1>2, <1>3, <1>6 DEF HeaderId, ChunkId
  <1> QED
    BY <1>2, <1>4, <1>5, <1>6 DEF ChunkOK

(* A chunk that is not retired is found in its one live slot, or not there. *)
LEMMA FindIs ==
  ASSUME NEW t, Table(t), NEW id, id.kind # "retired"
  PROVE  /\ FindChunk(t, id) = 0 => id \notin LiveIds(t)
         /\ FindChunk(t, id) # 0 => FindChunk(t, id) \in Live(t) /\ t.ids[FindChunk(t, id)] = id
         /\ \A i \in Live(t) : t.ids[i] = id => FindChunk(t, id) = i
  <1> DEFINE found == {i \in Slots(t) : t.ids[i] = id}
  <1>1. found \in SUBSET Nat /\ 0 \notin found /\ found = {i \in Live(t) : t.ids[i] = id}
    BY TableIs DEF Live
  <1>2. CASE found = {}
    BY <1>1, <1>2 DEF FindChunk, LiveIds
  <1>3. CASE found # {}
    <2>1. FindChunk(t, id) = Min(found) /\ Min(found) \in found
      BY <1>1, <1>3, MinOf DEF FindChunk
    <2>2. \A i \in Live(t) : t.ids[i] = id => i = Min(found)
      BY <1>1, <2>1 DEF Table
    <2> QED
      BY <1>1, <2>1, <2>2
  <1> QED
    BY <1>2, <1>3

(* There is one header slot, or the chart has no header. *)
LEMMA HeaderIs ==
  ASSUME NEW t, NEW u, NEW W, Sound(u, t, W)
  PROVE  /\ SlotsOf(t, "header") = {} <=> HeaderId \notin LiveIds(t)
         /\ SlotsOf(t, "header") # {} =>
              /\ HeaderSlot(t) \in Live(t) /\ t.ids[HeaderSlot(t)] = HeaderId
              /\ SlotsOf(t, "header") = {HeaderSlot(t)}
  <1>1. Table(t)
    BY DEF Sound
  <1> DEFINE H == SlotsOf(t, "header")
  <1>2. H \in SUBSET Nat /\ H = {i \in Live(t) : t.ids[i] = HeaderId}
    <2>1. HeaderId.kind = "header"
      BY DEF HeaderId, ChunkId
    <2>2. \A i \in Slots(t) : t.ids[i].kind = "header" <=> i \in Live(t) /\ t.ids[i] = HeaderId
      BY <2>1, SlotHolds DEF Live
    <2> QED
      BY <1>1, <2>2, TableIs DEF SlotsOf, Live
  <1>3. H = {} <=> HeaderId \notin LiveIds(t)
    BY <1>2 DEF LiveIds
  <1>4. CASE H # {}
    <2>1. HeaderSlot(t) \in H
      BY <1>2, <1>4, MinOf DEF HeaderSlot
    <2>2. \A i \in H : i = HeaderSlot(t)
      BY <1>1, <1>2, <2>1 DEF Table
    <2> QED
      BY <1>2, <1>3, <2>1, <2>2
  <1> QED
    BY <1>3, <1>4

(* A file that only grew holds what it held. *)
LEMMA GrowthKeeps ==
  ASSUME NEW t, NEW u, NEW v, NEW W, Sequence(u), Sequence(v), Len(u) <= Len(v),
         \A k \in 1 .. Len(u) : v[k] = u[k], Sound(u, t, W)
  PROVE  Sound(v, t, W) /\ Chart(v, t) = Chart(u, t)
  <1>1. Table(t)
    BY DEF Sound
  <1>2. ASSUME NEW id \in LiveIds(t) PROVE v[t.at[SlotOf(t, id)]] = u[t.at[SlotOf(t, id)]]
    <2>1. PICK i \in Live(t) : t.ids[i] = id
      BY DEF LiveIds
    <2>2. SlotOf(t, id) \in Live(t)
      BY <2>1 DEF SlotOf
    <2> QED
      BY <2>2, SlotHolds
  <1>3. Chart(v, t) = Chart(u, t)
    BY <1>2 DEF Chart
  <1>4. Within(t, Len(v))
    <2>1. Len(u) \in Nat /\ Len(v) \in Nat
      BY SequenceIs
    <2> QED
      BY <1>1, <2>1, TableIs DEF Sound, Within
  <1> QED
    BY <1>1, <1>3, <1>4 DEF Sound

(* Plans *)
DistinctSlots(items) == \A j, k \in DOMAIN items : items[j].slot = items[k].slot => j = k

(* u is the file with the blocks of the items after its own. *)
Written(u, file, items) ==
  /\ Sequence(u) /\ Len(u) = Len(file) + Len(items)
  /\ \A k \in 1 .. Len(file) : u[k] = file[k]
  /\ \A k \in DOMAIN items : u[Len(file) + k] = items[k].block

(* A slot that is written points at its new block behind the file. *)
LEMMA SlotBlockIs ==
  ASSUME NEW t, NEW items, NEW tombs, NEW i, Sequence(items), DistinctSlots(items)
  PROVE  /\ \A k \in DOMAIN items : items[k].slot = i => SlotBlock(t, items, tombs, i) = Len(ucas) + k
         /\ (\A k \in DOMAIN items : items[k].slot # i) =>
              SlotBlock(t, items, tombs, i) = IF i \in tombs THEN 0 ELSE t.at[i]
  <1> DEFINE new == {k \in DOMAIN items : items[k].slot = i}
  <1>1. ASSUME NEW k \in DOMAIN items, items[k].slot = i PROVE SlotBlock(t, items, tombs, i) = Len(ucas) + k
    <2>1. new = {k}
      BY <1>1 DEF DistinctSlots
    <2>2. Len(items) \in Nat /\ DOMAIN items = 1 .. Len(items)
      BY SequenceIs
    <2>3. Max(new) = k
      BY <2>1, <2>2, MaxOf
    <2> QED
      BY <2>1, <2>3 DEF SlotBlock
  <1>2. ASSUME \A k \in DOMAIN items : items[k].slot # i
        PROVE  SlotBlock(t, items, tombs, i) = IF i \in tombs THEN 0 ELSE t.at[i]
    <2>1. new = {}
      BY <1>2
    <2> QED
      BY <2>1 DEF SlotBlock
  <1> QED
    BY <1>1, <1>2

Laid(t, additions, replacements, items) ==
  /\ Sequence(items) /\ Len(items) = Len(additions) + Len(replacements) /\ DistinctSlots(items)
  /\ \A k \in DOMAIN additions :
       k \in DOMAIN items /\ items[k].slot = Len(t.ids) + k /\ items[k].block = additions[k].block
  /\ \A k \in DOMAIN replacements :
       Len(additions) + k \in DOMAIN items /\ items[Len(additions) + k] = replacements[k]
  /\ \A k \in DOMAIN items : k \in DOMAIN additions \/ \E j \in DOMAIN replacements : k = Len(additions) + j

(* The items of a plan: the additions in new slots, then the replacements. *)
LEMMA ItemsAre ==
  ASSUME NEW t, Table(t), NEW additions, Sequence(additions), NEW replacements, Sequence(replacements),
         \A k \in DOMAIN replacements : replacements[k].slot \in Slots(t), DistinctSlots(replacements),
         NEW items, items = Items(t, additions, replacements)
  PROVE  Laid(t, additions, replacements, items)
  <1> DEFINE first == [k \in DOMAIN additions |-> [slot |-> Len(t.ids) + k, block |-> additions[k].block]]
             n == Len(t.ids)
             m == Len(additions)
             r == Len(replacements)
  <1>1. m \in Nat /\ DOMAIN additions = 1 .. m /\ r \in Nat /\ DOMAIN replacements = 1 .. r
    BY SequenceIs
  <1>2. Sequence(first) /\ Len(first) = m
    BY <1>1, FunctionIsSequence
  <1>3. items = first \o replacements
    BY DEF Items
  <1>4. n \in Nat /\ Slots(t) = 1 .. n
    BY TableIs
  <1> HIDE DEF first, m, r, n
  <1>5. /\ Sequence(items) /\ Len(items) = m + r
        /\ \A k \in 1 .. m : items[k] = first[k]
        /\ \A k \in 1 .. r : items[m + k] = replacements[k]
    BY <1>2, <1>3, JoinIs DEF r
  <1>6. DOMAIN items = 1 .. (m + r)
    BY <1>5, SequenceIs
  <1>7. \A k \in 1 .. m : items[k].slot = n + k /\ items[k].block = additions[k].block
    <2> SUFFICES ASSUME NEW k \in 1 .. m PROVE items[k].slot = n + k /\ items[k].block = additions[k].block
      OBVIOUS
    <2>1. PICK slot : slot = n + k
      OBVIOUS
    <2>2. items[k] = [slot |-> slot, block |-> additions[k].block]
      BY <1>1, <1>5, <2>1 DEF first, n
    <2> QED
      BY <2>1, <2>2
  <1>8. \A k \in DOMAIN items : k \in 1 .. m \/ \E j \in 1 .. r : k = m + j
    <2> SUFFICES ASSUME NEW k \in DOMAIN items, k \notin 1 .. m PROVE \E j \in 1 .. r : k = m + j
      OBVIOUS
    <2>1. k - m \in 1 .. r /\ k = m + (k - m)
      BY <1>1, <1>6
    <2> QED
      BY <2>1
  <1>9. DistinctSlots(items)
    <2> SUFFICES ASSUME NEW j \in DOMAIN items, NEW k \in DOMAIN items, items[j].slot = items[k].slot PROVE j = k
      BY DEF DistinctSlots
    <2>1. CASE j \in 1 .. m /\ k \in 1 .. m
      <3>1. items[j].slot = n + j /\ items[k].slot = n + k
        BY <1>7, <2>1
      <3>2. n + j = n + k
        BY <3>1
      <3> QED
        BY <1>1, <1>4, <2>1, <3>2, SMT
    <2>2. ASSUME NEW x \in 1 .. m, NEW y \in 1 .. r PROVE items[x].slot # items[m + y].slot
      <3>1. items[x].slot = n + x
        BY <1>7
      <3>2. items[m + y].slot \in 1 .. n
        BY <1>1, <1>4, <1>5
      <3> QED
        BY <1>1, <1>4, <3>1, <3>2
    <2>3. CASE \E x, y \in 1 .. r : j = m + x /\ k = m + y
      <3>1. PICK x \in 1 .. r, y \in 1 .. r : j = m + x /\ k = m + y
        BY <2>3
      <3>2. items[j] = replacements[x] /\ items[k] = replacements[y]
        BY <1>5, <3>1
      <3>3. replacements[x].slot = replacements[y].slot
        BY <3>2
      <3>4. x = y
        BY <1>1, <3>3 DEF DistinctSlots
      <3> QED
        BY <3>1, <3>4
    <2> QED
      BY <1>8, <2>1, <2>2, <2>3
  <1>10. (\A k \in 1 .. m : k \in DOMAIN items) /\ \A k \in 1 .. r : m + k \in DOMAIN items
    BY <1>1, <1>6
  <1> QED
    BY <1>1, <1>5, <1>7, <1>8, <1>9, <1>10 DEF Laid, m, r, n

(* The additions of a guarded edit are new chunks of the directory, or the *)
(* header.                                                                 *)
Additions(t, additions) ==
  /\ Sequence(additions)
  /\ \A k \in DOMAIN additions :
       /\ additions[k].id \in Id /\ additions[k].id.kind # "retired" /\ additions[k].id \notin LiveIds(t)
       /\ IF additions[k].id.kind \in {"bundle", "bulk"}
          THEN additions[k].id.pkg \in Path /\ additions[k].path = additions[k].id.pkg
          ELSE additions[k].path = Absent
  /\ \A j, k \in DOMAIN additions : additions[j].id = additions[k].id => j = k
Replacements(t, replacements, tombs) ==
  /\ Sequence(replacements) /\ DistinctSlots(replacements)
  /\ \A k \in DOMAIN replacements : replacements[k].slot \in Live(t) \ tombs

(* What a plan does with each slot, size being that of the file. *)
SlotsPlanned(t, additions, replacements, tombs, t2, size) ==
  /\ DOMAIN t2.ids = 1 .. (Len(t.ids) + Len(additions)) /\ DOMAIN t2.at = DOMAIN t2.ids
  /\ t2.ids = [i \in DOMAIN t2.ids |-> t2.ids[i]] /\ t2.at = [i \in DOMAIN t2.at |-> t2.at[i]]
  /\ \A k \in DOMAIN additions :
       t2.ids[Len(t.ids) + k] = additions[k].id /\ t2.at[Len(t.ids) + k] = size + k
  /\ \A i \in tombs : t2.ids[i] = Retire(t.ids[i]) /\ t2.at[i] = 0
  /\ \A i \in Slots(t) \ tombs : t2.ids[i] = t.ids[i]
  /\ \A k \in DOMAIN replacements : t2.at[replacements[k].slot] = size + (Len(additions) + k)
  /\ \A i \in Slots(t) \ tombs : (\A k \in DOMAIN replacements : replacements[k].slot # i) => t2.at[i] = t.at[i]

(* The slots of the table a guarded edit plans: the old ones and the new. *)
LEMMA GuardedSlots ==
  ASSUME NEW t, Table(t), NEW additions, NEW replacements, NEW entries, NEW tombs \in SUBSET Live(t),
         Additions(t, additions), Replacements(t, replacements, tombs),
         NEW t2, t2 = PlanTocAppend(t, additions, replacements, tombs, entries)
  PROVE  SlotsPlanned(t, additions, replacements, tombs, t2, Len(ucas))
  <1> DEFINE n == Len(t.ids)
             m == Len(additions)
             items == Items(t, additions, replacements)
  <1>1. n \in Nat /\ Slots(t) = 1 .. n /\ DOMAIN t.ids = 1 .. n /\ Live(t) \subseteq 1 .. n
    BY TableIs
  <1>2. Sequence(additions) /\ m \in Nat /\ DOMAIN additions = 1 .. m
    BY SequenceIs DEF Additions
  <1>3. /\ Sequence(replacements) /\ DistinctSlots(replacements)
        /\ \A k \in DOMAIN replacements : replacements[k].slot \in Slots(t) /\ replacements[k].slot \in Live(t) \ tombs
    BY <1>1 DEF Replacements
  <1>4. /\ Sequence(items) /\ DistinctSlots(items)
        /\ \A k \in DOMAIN additions : k \in DOMAIN items /\ items[k].slot = n + k /\ items[k].block = additions[k].block
        /\ \A k \in DOMAIN replacements : m + k \in DOMAIN items /\ items[m + k] = replacements[k]
        /\ \A k \in DOMAIN items : k \in DOMAIN additions \/ \E j \in DOMAIN replacements : k = m + j
    <2>1. /\ \A k \in DOMAIN replacements : replacements[k].slot \in Slots(t)
          /\ Sequence(replacements) /\ DistinctSlots(replacements)
      BY <1>3
    <2> HIDE DEF items
    <2>2. items = Items(t, additions, replacements)
      BY DEF items
    <2>3. Table(t) /\ Sequence(additions)
      BY <1>2
    <2>4. Laid(t, additions, replacements, items)
      BY <2>1, <2>2, <2>3, ItemsAre
    <2> QED
      BY <2>4 DEF Laid
  <1>5. /\ t2.ids = [i \in 1 .. n + m |-> IF i > n THEN additions[i - n].id
                                          ELSE IF i \in tombs THEN Retire(t.ids[i]) ELSE t.ids[i]]
        /\ t2.at = [i \in 1 .. n + m |-> SlotBlock(t, items, tombs, i)]
    BY DEF PlanTocAppend
  <1> HIDE DEF items, n, m
  <1>6. \A i \in 1 .. n : i \in 1 .. n + m /\ ~(i > n)
    BY <1>1, <1>2
  <1>7. \A k \in 1 .. m : n + k \in 1 .. n + m /\ n + k > n /\ (n + k) - n = k
    BY <1>1, <1>2
  <1>8. ASSUME NEW k \in DOMAIN additions
        PROVE  t2.ids[n + k] = additions[k].id /\ t2.at[n + k] = Len(ucas) + k
    <2>1. items[k].slot = n + k
      BY <1>4
    <2>2. SlotBlock(t, items, tombs, n + k) = Len(ucas) + k
      BY <1>4, <2>1, SlotBlockIs
    <2> QED
      BY <1>2, <1>5, <1>7, <2>2
  <1>9. ASSUME NEW i \in 1 .. n, \A k \in DOMAIN replacements : replacements[k].slot # i
        PROVE  t2.at[i] = IF i \in tombs THEN 0 ELSE t.at[i]
    <2>1. \A k \in DOMAIN items : items[k].slot # i
      <3> SUFFICES ASSUME NEW k \in DOMAIN items PROVE items[k].slot # i
        OBVIOUS
      <3>1. CASE k \in DOMAIN additions
        <4>1. items[k].slot = n + k
          BY <1>4, <3>1
        <4> QED
          BY <1>1, <1>2, <3>1, <4>1
      <3>2. CASE \E j \in DOMAIN replacements : k = m + j
        BY <1>4, <1>9, <3>2
      <3> QED
        BY <1>4, <3>1, <3>2
    <2> QED
      BY <1>4, <1>5, <1>6, <2>1, SlotBlockIs
  <1>10. ASSUME NEW k \in DOMAIN replacements PROVE t2.at[replacements[k].slot] = Len(ucas) + (m + k)
    <2>1. m + k \in DOMAIN items /\ items[m + k].slot = replacements[k].slot
      BY <1>4
    <2>2. SlotBlock(t, items, tombs, replacements[k].slot) = Len(ucas) + (m + k)
      BY <1>4, <2>1, SlotBlockIs
    <2> QED
      BY <1>1, <1>3, <1>5, <1>6, <2>2
  <1>11. \A i \in tombs : t2.ids[i] = Retire(t.ids[i]) /\ t2.at[i] = 0
    <2> SUFFICES ASSUME NEW i \in tombs PROVE t2.ids[i] = Retire(t.ids[i]) /\ t2.at[i] = 0
      OBVIOUS
    <2>1. i \in 1 .. n /\ \A k \in DOMAIN replacements : replacements[k].slot # i
      BY <1>1, <1>3
    <2> QED
      BY <1>5, <1>6, <1>9, <2>1
  <1>12. \A i \in Slots(t) \ tombs : t2.ids[i] = t.ids[i]
    BY <1>1, <1>5, <1>6
  <1>13. \A i \in Slots(t) \ tombs : (\A k \in DOMAIN replacements : replacements[k].slot # i) => t2.at[i] = t.at[i]
    BY <1>1, <1>9
  <1>14. /\ DOMAIN t2.ids = 1 .. n + m /\ DOMAIN t2.at = 1 .. n + m
         /\ t2.ids = [i \in DOMAIN t2.ids |-> t2.ids[i]] /\ t2.at = [i \in DOMAIN t2.at |-> t2.at[i]]
    BY <1>5
  <1> QED
    BY <1>8, <1>10, <1>11, <1>12, <1>13, <1>14 DEF SlotsPlanned, n, m

(* A retired id says so, and is an id. *)
LEMMA RetiredId ==
  ASSUME NEW id \in Id
  PROVE  Retire(id) \in Id /\ Retire(id).kind = "retired"
  BY DEF Id, Retire, Kinds

(* What a guarded edit plans is a table. *)
LEMMA GuardedTable ==
  ASSUME NEW t, Table(t), NEW additions, NEW replacements, NEW entries, NEW tombs \in SUBSET Live(t),
         Additions(t, additions), Replacements(t, replacements, tombs),
         t.indexed => entries = {e \in Directory(t.ids) : e.slot \notin tombs},
         NEW t2, t2 = PlanTocAppend(t, additions, replacements, tombs, entries),
         Len(ucas) \in Nat
  PROVE  /\ Table(t2) /\ Slots(t2) = 1 .. (Len(t.ids) + Len(additions))
         /\ Live(t2) = (Live(t) \ tombs) \cup {Len(t.ids) + k : k \in DOMAIN additions}
  <1> DEFINE n == Len(t.ids)
             m == Len(additions)
  <1>1. n \in Nat /\ Slots(t) = 1 .. n /\ DOMAIN t.ids = 1 .. n /\ Live(t) \subseteq 1 .. n
    BY TableIs
  <1>2. /\ Sequence(additions) /\ m \in Nat /\ DOMAIN additions = 1 .. m
        /\ \A k \in DOMAIN additions : additions[k].id \in Id /\ additions[k].id.kind # "retired"
                                       /\ additions[k].id \notin LiveIds(t)
        /\ \A j, k \in DOMAIN additions : additions[j].id = additions[k].id => j = k
    BY SequenceIs DEF Additions
  <1>3. SlotsPlanned(t, additions, replacements, tombs, t2, Len(ucas))
    BY GuardedSlots
  <1>4. /\ DOMAIN t2.ids = 1 .. (n + m) /\ DOMAIN t2.at = 1 .. (n + m)
        /\ t2.ids = [i \in 1 .. (n + m) |-> t2.ids[i]] /\ t2.at = [i \in 1 .. (n + m) |-> t2.at[i]]
        /\ \A k \in 1 .. m : t2.ids[n + k] = additions[k].id /\ t2.at[n + k] = Len(ucas) + k
        /\ \A i \in tombs : t2.ids[i] = Retire(t.ids[i]) /\ t2.at[i] = 0
        /\ \A i \in 1 .. n : i \notin tombs => t2.ids[i] = t.ids[i]
    BY <1>1, <1>2, <1>3 DEF SlotsPlanned
  <1>5. \A k \in DOMAIN replacements :
          /\ replacements[k].slot \in Live(t) \ tombs /\ k \in Nat /\ k > 0
          /\ t2.at[replacements[k].slot] = Len(ucas) + (m + k)
    BY <1>3, SequenceIs DEF SlotsPlanned, Replacements
  <1>6. \A i \in 1 .. n : i \notin tombs /\ (\A k \in DOMAIN replacements : replacements[k].slot # i) => t2.at[i] = t.at[i]
    BY <1>1, <1>3 DEF SlotsPlanned
  <1> HIDE DEF n, m
  <1>7. \A i \in 1 .. (n + m) : i \in 1 .. n \/ \E k \in 1 .. m : i = n + k
    <2> SUFFICES ASSUME NEW i \in 1 .. (n + m), i \notin 1 .. n PROVE \E k \in 1 .. m : i = n + k
      OBVIOUS
    <2>1. i - n \in 1 .. m /\ i = n + (i - n)
      BY <1>1, <1>2
    <2> QED
      BY <2>1
  <1>8. \A i \in 1 .. n : i \in 1 .. (n + m)
    BY <1>1, <1>2
  <1>9. \A k \in 1 .. m : n + k \in 1 .. (n + m) /\ n + k \notin 1 .. n
    BY <1>1, <1>2
  <1>10. \A i \in 1 .. n : t.ids[i] \in Id /\ t.at[i] \in Nat /\ (t.at[i] # 0 <=> i \in Live(t))
    BY <1>1, TableIs
  <1>11. ASSUME NEW i \in 1 .. n
         PROVE  /\ t2.ids[i] \in Id /\ t2.at[i] \in Nat /\ (t2.at[i] = 0 <=> t2.ids[i].kind = "retired")
                /\ t2.ids[i].kind # "retired" <=> i \in Live(t) \ tombs
    <2>1. CASE i \in tombs
      <3>1. t2.ids[i] = Retire(t.ids[i]) /\ t2.at[i] = 0
        BY <1>4, <2>1
      <3>2. t.ids[i] \in Id
        BY <1>10
      <3>3. t2.ids[i] \in Id /\ t2.ids[i].kind = "retired"
        BY <3>1, <3>2, RetiredId
      <3> QED
        BY <2>1, <3>1, <3>3
    <2>2. CASE i \notin tombs /\ \E k \in DOMAIN replacements : replacements[k].slot = i
      <3>1. PICK k \in DOMAIN replacements : replacements[k].slot = i
        BY <2>2
      <3>2. t2.at[i] = Len(ucas) + (m + k) /\ k \in Nat /\ k > 0 /\ i \in Live(t) \ tombs
        BY <1>5, <3>1
      <3>3. t2.at[i] \in Nat /\ t2.at[i] # 0
        BY <1>2, <3>2
      <3>4. t2.ids[i] = t.ids[i] /\ t.ids[i].kind # "retired" /\ t.ids[i] \in Id
        BY <1>4, <1>10, <3>2 DEF Live
      <3> QED
        BY <3>2, <3>3, <3>4
    <2>3. CASE i \notin tombs /\ ~(\E k \in DOMAIN replacements : replacements[k].slot = i)
      <3>1. t2.at[i] = t.at[i] /\ t2.ids[i] = t.ids[i]
        BY <1>4, <1>6, <2>3
      <3>2. t.ids[i].kind # "retired" <=> i \in Live(t)
        BY <1>1 DEF Live
      <3> QED
        BY <1>10, <2>3, <3>1, <3>2
    <2> QED
      BY <2>1, <2>2, <2>3
  <1>12. ASSUME NEW k \in 1 .. m
         PROVE  /\ t2.ids[n + k] \in Id /\ t2.at[n + k] \in Nat /\ t2.at[n + k] # 0
                /\ t2.ids[n + k].kind # "retired"
    <2>1. t2.ids[n + k] = additions[k].id /\ t2.at[n + k] = Len(ucas) + k
      BY <1>4
    <2>2. additions[k].id \in Id /\ additions[k].id.kind # "retired"
      BY <1>2
    <2>3. Len(ucas) + k \in Nat /\ Len(ucas) + k # 0
      BY <1>2
    <2> QED
      BY <2>1, <2>2, <2>3
  <1>13. \A i \in 1 .. (n + m) : t2.ids[i] \in Id /\ t2.at[i] \in Nat /\ (t2.at[i] = 0 <=> t2.ids[i].kind = "retired")
    BY <1>7, <1>11, <1>12
  <1>14. n + m \in Nat
    BY <1>1, <1>2
  <1>15. t2.ids \in Seq(Id) /\ t2.at \in Seq(Nat)
    <2>1. t2.ids \in [1 .. (n + m) -> Id] /\ t2.at \in [1 .. (n + m) -> Nat]
      BY <1>4, <1>13
    <2> QED
      BY <1>14, <2>1, SeqDef
  <1>16. Len(t2.ids) = n + m /\ Len(t2.at) = n + m
    <2>1. DOMAIN t2.ids = 1 .. Len(t2.ids) /\ DOMAIN t2.at = 1 .. Len(t2.at) /\ Len(t2.ids) \in Nat /\ Len(t2.at) \in Nat
      BY <1>15, LenProperties
    <2> QED
      BY <1>4, <1>14, <2>1, SMT
  <1>17. Slots(t2) = 1 .. (n + m)
    BY <1>4 DEF Slots
  <1>18. Live(t2) = (Live(t) \ tombs) \cup {n + k : k \in 1 .. m}
    <2>1. ASSUME NEW i \in Live(t2) PROVE i \in (Live(t) \ tombs) \cup {n + k : k \in 1 .. m}
      BY <1>7, <1>11, <1>17, <2>1 DEF Live
    <2>2. ASSUME NEW i \in Live(t) \ tombs PROVE i \in Live(t2)
      <3>1. i \in 1 .. n
        BY <1>1
      <3>2. t2.ids[i].kind # "retired"
        BY <1>11, <3>1, <2>2
      <3> QED
        BY <1>8, <1>17, <3>1, <3>2 DEF Live
    <2>3. ASSUME NEW k \in 1 .. m PROVE n + k \in Live(t2)
      BY <1>9, <1>12, <1>17 DEF Live
    <2> QED
      BY <2>1, <2>2, <2>3
  <1>19. ASSUME NEW i \in Live(t2), NEW j \in Live(t2), t2.ids[i] = t2.ids[j] PROVE i = j
    <2>1. \A x \in Live(t) \ tombs : t2.ids[x] = t.ids[x] /\ t.ids[x] \in LiveIds(t)
      BY <1>1, <1>4 DEF LiveIds
    <2>2. \A k \in 1 .. m : t2.ids[n + k] = additions[k].id /\ additions[k].id \notin LiveIds(t)
      BY <1>2, <1>4
    <2>3. CASE i \in Live(t) \ tombs /\ j \in Live(t) \ tombs
      BY <1>19, <2>1, <2>3 DEF Table
    <2>4. CASE \E x, y \in 1 .. m : i = n + x /\ j = n + y
      <3>1. PICK x \in 1 .. m, y \in 1 .. m : i = n + x /\ j = n + y
        BY <2>4
      <3>2. x = y
        BY <1>2, <1>19, <2>2, <3>1
      <3> QED
        BY <3>1, <3>2
    <2>5. CASE (i \in Live(t) \ tombs /\ \E y \in 1 .. m : j = n + y) \/ (j \in Live(t) \ tombs /\ \E y \in 1 .. m : i = n + y)
      BY <1>19, <2>1, <2>2, <2>5
    <2> QED
      BY <1>18, <2>3, <2>4, <2>5
  <1>20. t2.indexed = t.indexed
    BY DEF PlanTocAppend
  <1>21. ASSUME t.indexed PROVE t2.entries = Directory(t2.ids)
    <2> DEFINE Entry(i) == [path |-> t2.ids[i].pkg, kind |-> t2.ids[i].kind, slot |-> i]
               Old == {Entry(i) : i \in {i \in (1 .. n) \ tombs : t2.ids[i].kind \in {"bundle", "bulk"}}}
               added == {k \in 1 .. m : additions[k].id.kind \in {"bundle", "bulk"}}
               New == {[path |-> additions[k].id.pkg, kind |-> additions[k].id.kind, slot |-> n + k] : k \in added}
    <2>1. entries = Old
      <3>1. entries = {e \in Directory(t.ids) : e.slot \notin tombs}
        BY <1>21
      <3>2. \A i \in 1 .. n : i \notin tombs => t2.ids[i] = t.ids[i]
        BY <1>4
      <3>3. ASSUME NEW e \in entries PROVE e \in Old
        <4>1. PICK i \in 1 .. n : t.ids[i].kind \in {"bundle", "bulk"} /\ e = [path |-> t.ids[i].pkg, kind |-> t.ids[i].kind, slot |-> i]
          BY <1>1, <3>1 DEF Directory
        <4>2. i \notin tombs
          BY <3>1, <4>1
        <4> QED
          BY <3>2, <4>1, <4>2
      <3>4. ASSUME NEW e \in Old PROVE e \in entries
        <4>1. PICK i \in (1 .. n) \ tombs : t2.ids[i].kind \in {"bundle", "bulk"} /\ e = Entry(i)
          OBVIOUS
        <4>2. e \in Directory(t.ids) /\ e.slot = i
          BY <1>1, <3>2, <4>1 DEF Directory
        <4> QED
          BY <3>1, <4>1, <4>2
      <3> QED
        BY <3>3, <3>4
    <2>2. t2.entries = entries \cup {[path |-> additions[k].path, kind |-> additions[k].id.kind, slot |-> n + k] :
                                      k \in {k \in DOMAIN additions : additions[k].path # Absent}}
      BY <1>21 DEF PlanTocAppend, n
    <2>3. \A k \in 1 .. m : /\ additions[k].path # Absent <=> additions[k].id.kind \in {"bundle", "bulk"}
                            /\ additions[k].path # Absent => additions[k].path = additions[k].id.pkg
      BY <1>2, StoreAssumption DEF Additions
    <2>4. {[path |-> additions[k].path, kind |-> additions[k].id.kind, slot |-> n + k] :
             k \in {k \in DOMAIN additions : additions[k].path # Absent}} = New
      <3>1. {k \in DOMAIN additions : additions[k].path # Absent} = added
        BY <1>2, <2>3
      <3>2. \A k \in added : additions[k].path = additions[k].id.pkg
        BY <2>3
      <3> QED
        BY <3>1, <3>2
    <2>5. ASSUME NEW d \in Directory(t2.ids) PROVE d \in Old \cup New
      <3>1. PICK i \in 1 .. (n + m) : t2.ids[i].kind \in {"bundle", "bulk"} /\ d = Entry(i)
        BY <1>4 DEF Directory
      <3>2. CASE i \in 1 .. n
        <4>1. i \notin tombs
          BY <1>11, <3>1, <3>2
        <4> QED
          BY <3>1, <3>2, <4>1
      <3>3. CASE \E k \in 1 .. m : i = n + k
        <4>1. PICK k \in 1 .. m : i = n + k
          BY <3>3
        <4>2. t2.ids[i] = additions[k].id
          BY <1>4, <4>1
        <4>3. k \in added /\ d = [path |-> additions[k].id.pkg, kind |-> additions[k].id.kind, slot |-> n + k]
          BY <3>1, <4>1, <4>2
        <4> QED
          BY <4>3
      <3> QED
        BY <1>7, <3>2, <3>3
    <2>6. ASSUME NEW d \in Old PROVE d \in Directory(t2.ids)
      <3>1. PICK i \in (1 .. n) \ tombs : t2.ids[i].kind \in {"bundle", "bulk"} /\ d = Entry(i)
        OBVIOUS
      <3> QED
        BY <1>4, <1>8, <3>1 DEF Directory
    <2>7. ASSUME NEW d \in New PROVE d \in Directory(t2.ids)
      <3>1. PICK k \in added : d = [path |-> additions[k].id.pkg, kind |-> additions[k].id.kind, slot |-> n + k]
        OBVIOUS
      <3>2. t2.ids[n + k] = additions[k].id /\ n + k \in 1 .. (n + m)
        BY <1>4, <1>9
      <3>3. d = Entry(n + k) /\ t2.ids[n + k].kind \in {"bundle", "bulk"}
        BY <3>1, <3>2
      <3> QED
        BY <1>4, <3>2, <3>3 DEF Directory
    <2> HIDE DEF Old, New
    <2> QED
      BY <2>1, <2>2, <2>4, <2>5, <2>6, <2>7
  <1>22. ~t.indexed => t2.entries = {}
    BY DEF PlanTocAppend
  <1>23. Whole(t2) /\ t.indexed \in BOOLEAN
    BY PlansAreWhole DEF Table
  <1>24. Table(t2)
    BY <1>13, <1>15, <1>16, <1>17, <1>19, <1>20, <1>21, <1>22, <1>23 DEF Table
  <1> QED
    BY <1>2, <1>17, <1>18, <1>24 DEF n, m

(* The chart of a planned table over the written file. *)
ChartPlanned(g, f, t, additions, replacements, tombs) ==
  /\ DOMAIN f = (DOMAIN g \ {t.ids[i] : i \in tombs}) \cup {additions[k].id : k \in DOMAIN additions}
  /\ \A k \in DOMAIN additions : f[additions[k].id] = additions[k].block
  /\ \A k \in DOMAIN replacements : f[t.ids[replacements[k].slot]] = replacements[k].block
  /\ \A id \in DOMAIN g : id \notin {t.ids[i] : i \in tombs}
                           /\ (\A k \in DOMAIN replacements : t.ids[replacements[k].slot] # id) => f[id] = g[id]

(* The chart of what a guarded edit plans, id by id. *)
LEMMA GuardedChart ==
  ASSUME Sequence(ucas), NEW t, NEW W, Sound(ucas, t, W), NEW additions, NEW replacements, NEW entries,
         NEW tombs \in SUBSET Live(t), Additions(t, additions), Replacements(t, replacements, tombs),
         t.indexed => entries = {e \in Directory(t.ids) : e.slot \notin tombs},
         NEW t2, t2 = PlanTocAppend(t, additions, replacements, tombs, entries),
         NEW u, Written(u, ucas, Items(t, additions, replacements))
  PROVE  /\ Table(t2) /\ Within(t2, Len(u))
         /\ ChartPlanned(Chart(ucas, t), Chart(u, t2), t, additions, replacements, tombs)
  <1> DEFINE n == Len(t.ids)
             m == Len(additions)
             size == Len(ucas)
             items == Items(t, additions, replacements)
             g == Chart(ucas, t)
             f == Chart(u, t2)
  <1>1. Table(t) /\ Within(t, size) /\ size \in Nat
    BY SequenceIs DEF Sound
  <1>2. n \in Nat /\ Slots(t) = 1 .. n /\ Live(t) \subseteq 1 .. n
    BY <1>1, TableIs
  <1>3. /\ Table(t2) /\ Slots(t2) = 1 .. (n + m)
        /\ Live(t2) = (Live(t) \ tombs) \cup {n + k : k \in DOMAIN additions}
    BY <1>1, GuardedTable
  <1>4. SlotsPlanned(t, additions, replacements, tombs, t2, size)
    BY <1>1, GuardedSlots
  <1>5. Laid(t, additions, replacements, items)
    <2>1. \A k \in DOMAIN replacements : replacements[k].slot \in Slots(t)
      BY DEF Replacements, Live
    <2>2. Sequence(additions) /\ Sequence(replacements) /\ DistinctSlots(replacements)
      BY DEF Additions, Replacements
    <2> HIDE DEF items
    <2>3. items = Items(t, additions, replacements)
      BY DEF items
    <2> QED
      BY <1>1, <2>1, <2>2, <2>3, ItemsAre
  <1>6. /\ Sequence(u) /\ Len(u) = size + Len(items) /\ Len(u) \in Nat
        /\ \A k \in 1 .. size : u[k] = ucas[k]
        /\ \A k \in DOMAIN items : u[size + k] = items[k].block /\ size + k \in 1 .. Len(u)
    <2>1. Sequence(items)
      BY <1>5 DEF Laid
    <2>2. DOMAIN items = 1 .. Len(items) /\ Len(items) \in Nat
      BY <2>1, SequenceIs
    <2> QED
      BY <1>1, <2>2, SequenceIs DEF Written
  <1> HIDE DEF items
  <1>7. /\ m \in Nat /\ DOMAIN additions = 1 .. m
        /\ DOMAIN replacements = 1 .. Len(replacements) /\ Len(replacements) \in Nat
        /\ \A k \in DOMAIN replacements : replacements[k].slot \in Live(t) \ tombs
    BY SequenceIs DEF Additions, Replacements
  <1>8. ASSUME NEW k \in DOMAIN additions
        PROVE  /\ n + k \in Live(t2) /\ t2.ids[n + k] = additions[k].id
               /\ t2.at[n + k] \in 1 .. Len(u) /\ u[t2.at[n + k]] = additions[k].block
    <2>1. k \in DOMAIN items /\ items[k].block = additions[k].block
      BY <1>5 DEF Laid
    <2>2. t2.at[n + k] = size + k /\ t2.ids[n + k] = additions[k].id
      BY <1>4 DEF SlotsPlanned
    <2> QED
      BY <1>3, <1>6, <2>1, <2>2
  <1>9. ASSUME NEW k \in DOMAIN replacements
        PROVE  LET i == replacements[k].slot IN
               /\ i \in Live(t2) /\ t2.ids[i] = t.ids[i]
               /\ t2.at[i] \in 1 .. Len(u) /\ u[t2.at[i]] = replacements[k].block
    <2> DEFINE i == replacements[k].slot
    <2>1. m + k \in DOMAIN items /\ items[m + k] = replacements[k]
      BY <1>5 DEF Laid
    <2>2. i \in Live(t) \ tombs /\ i \in Slots(t) \ tombs
      BY <1>7 DEF Live
    <2>3. t2.at[i] = size + (m + k) /\ t2.ids[i] = t.ids[i]
      BY <1>4, <2>2 DEF SlotsPlanned
    <2> QED
      BY <1>3, <1>6, <2>1, <2>2, <2>3
  <1>10. ASSUME NEW i \in Live(t) \ tombs, \A k \in DOMAIN replacements : replacements[k].slot # i
         PROVE  /\ i \in Live(t2) /\ t2.ids[i] = t.ids[i]
                /\ t2.at[i] \in 1 .. Len(u) /\ u[t2.at[i]] = ucas[t.at[i]]
    <2>1. i \in Slots(t) \ tombs
      BY DEF Live
    <2>2. t2.at[i] = t.at[i] /\ t2.ids[i] = t.ids[i]
      BY <1>4, <1>10, <2>1 DEF SlotsPlanned
    <2>3. t.at[i] \in 1 .. size
      BY SlotHolds
    <2>4. t.at[i] \in 1 .. Len(u)
      <3>1. size <= Len(u)
        <4>1. Len(items) \in Nat
          BY <1>5, SequenceIs DEF Laid
        <4> QED
          BY <1>1, <1>6, <4>1
      <3> QED
        BY <1>1, <1>6, <2>3, <3>1
    <2> QED
      BY <1>3, <1>6, <2>2, <2>3, <2>4
  <1>11. \A i \in Live(t2) : t2.at[i] \in 1 .. Len(u)
    BY <1>3, <1>8, <1>9, <1>10
  <1>12. Within(t2, Len(u))
    <2>1. \A i \in Slots(t2) : i \in Live(t2) \/ t2.at[i] = 0
      BY <1>3, TableIs
    <2> QED
      BY <1>6, <1>11, <2>1 DEF Within
  <1>13. \A i \in Live(t2) : t2.ids[i] \in DOMAIN f /\ f[t2.ids[i]] = u[t2.at[i]]
    BY <1>3, ChartAt
  <1>14. \A i \in Live(t) : t.ids[i] \in DOMAIN g /\ g[t.ids[i]] = ucas[t.at[i]]
    BY <1>1, ChartAt
  <1>15. \A id \in DOMAIN g : \E i \in Live(t) : t.ids[i] = id
    BY ChartDomain
  <1>16. \A id \in DOMAIN f : \E i \in Live(t2) : t2.ids[i] = id
    BY ChartDomain
  <1> HIDE DEF f, g
  <1>17. \A i \in Live(t) \ tombs : i \in Live(t2) /\ t2.ids[i] = t.ids[i]
    BY <1>9, <1>10
  <1>18. \A i, j \in Live(t) : t.ids[i] = t.ids[j] => i = j
    BY <1>1 DEF Table
  <1>19. DOMAIN f = (DOMAIN g \ {t.ids[i] : i \in tombs}) \cup {additions[k].id : k \in DOMAIN additions}
    <2>1. ASSUME NEW id \in DOMAIN f
          PROVE  id \in (DOMAIN g \ {t.ids[i] : i \in tombs}) \cup {additions[k].id : k \in DOMAIN additions}
      <3>1. PICK i \in Live(t2) : t2.ids[i] = id
        BY <1>16
      <3>2. CASE i \in Live(t) \ tombs
        BY <1>14, <1>17, <1>18, <3>1, <3>2
      <3>3. CASE \E k \in DOMAIN additions : i = n + k
        BY <1>8, <3>1, <3>3
      <3> QED
        BY <1>3, <3>2, <3>3
    <2>2. ASSUME NEW id \in DOMAIN g, id \notin {t.ids[i] : i \in tombs} PROVE id \in DOMAIN f
      BY <1>13, <1>15, <1>17, <2>2
    <2>3. ASSUME NEW k \in DOMAIN additions PROVE additions[k].id \in DOMAIN f
      BY <1>8, <1>13
    <2> QED
      BY <2>1, <2>2, <2>3
  <1>20. \A k \in DOMAIN additions : f[additions[k].id] = additions[k].block
    BY <1>8, <1>13
  <1>21. \A k \in DOMAIN replacements : f[t.ids[replacements[k].slot]] = replacements[k].block
    BY <1>9, <1>13
  <1>22. \A id \in DOMAIN g : id \notin {t.ids[i] : i \in tombs}
                           /\ (\A k \in DOMAIN replacements : t.ids[replacements[k].slot] # id) => f[id] = g[id]
    <2> SUFFICES ASSUME NEW id \in DOMAIN g, id \notin {t.ids[i] : i \in tombs},
                        \A k \in DOMAIN replacements : t.ids[replacements[k].slot] # id
                 PROVE  f[id] = g[id]
      OBVIOUS
    <2>1. PICK i \in Live(t) : t.ids[i] = id
      BY <1>15
    <2>2. i \in Live(t) \ tombs /\ \A k \in DOMAIN replacements : replacements[k].slot # i
      BY <2>1
    <2> QED
      BY <1>10, <1>13, <1>14, <2>1, <2>2
  <1> QED
    BY <1>3, <1>12, <1>19, <1>20, <1>21, <1>22 DEF ChartPlanned, f, g

-----------------------------------------------------------------------------
(* An overwrite moves slots to their new blocks, and nothing else. *)
LEMMA OverwritePlanned ==
  ASSUME Sequence(ucas), NEW t, NEW W, Sound(ucas, t, W), NEW items, Sequence(items), DistinctSlots(items),
         \A k \in DOMAIN items : items[k].slot \in Live(t),
         NEW t2, t2 = PlanOverwrite(t, items), NEW u, Written(u, ucas, items)
  PROVE  /\ Table(t2) /\ Within(t2, Len(u))
         /\ DOMAIN Chart(u, t2) = DOMAIN Chart(ucas, t)
         /\ \A k \in DOMAIN items : Chart(u, t2)[t.ids[items[k].slot]] = items[k].block
         /\ \A id \in DOMAIN Chart(ucas, t) :
              (\A k \in DOMAIN items : t.ids[items[k].slot] # id) => Chart(u, t2)[id] = Chart(ucas, t)[id]
  <1> DEFINE n == Len(t.ids)
             size == Len(ucas)
             g == Chart(ucas, t)
             f == Chart(u, t2)
  <1>1. Table(t) /\ Whole(t) /\ size \in Nat /\ Within(t, size)
    BY SequenceIs DEF Sound, Table
  <1>2. /\ n \in Nat /\ Slots(t) = 1 .. n /\ DOMAIN t.ids = 1 .. n /\ Live(t) \subseteq 1 .. n
        /\ \A i \in 1 .. n : t.at[i] \in Nat /\ (t.at[i] # 0 <=> i \in Live(t))
    BY <1>1, TableIs
  <1>3. /\ t2.ids = t.ids /\ t2.at = [i \in 1 .. n |-> SlotBlock(t, items, {}, i)]
        /\ t2.indexed = t.indexed /\ t2.entries = t.entries /\ Whole(t2)
    BY <1>1, <1>2 DEF PlanOverwrite, Whole
  <1>4. Len(items) \in Nat /\ DOMAIN items = 1 .. Len(items)
    BY SequenceIs
  <1>5. /\ Sequence(u) /\ Len(u) = size + Len(items) /\ Len(u) \in Nat
        /\ \A k \in 1 .. size : u[k] = ucas[k]
        /\ \A k \in DOMAIN items : u[size + k] = items[k].block /\ size + k \in 1 .. Len(u)
    BY <1>1, <1>4, SequenceIs DEF Written
  <1>6. ASSUME NEW k \in DOMAIN items
        PROVE  t2.at[items[k].slot] \in 1 .. Len(u) /\ u[t2.at[items[k].slot]] = items[k].block
    <2>1. items[k].slot \in 1 .. n
      BY <1>2
    <2>2. t2.at[items[k].slot] = size + k
      BY <1>3, <2>1, SlotBlockIs
    <2> QED
      BY <1>5, <2>2
  <1>7. ASSUME NEW i \in 1 .. n, \A k \in DOMAIN items : items[k].slot # i PROVE t2.at[i] = t.at[i]
    <2>1. SlotBlock(t, items, {}, i) = t.at[i]
      BY <1>7, SlotBlockIs
    <2> QED
      BY <1>3, <2>1
  <1>8. ASSUME NEW i \in Live(t), \A k \in DOMAIN items : items[k].slot # i
        PROVE  t2.at[i] \in 1 .. Len(u) /\ u[t2.at[i]] = ucas[t.at[i]]
    <2>1. t.at[i] \in 1 .. size /\ t2.at[i] = t.at[i]
      BY <1>2, <1>7, <1>8, SlotHolds
    <2>2. t.at[i] \in 1 .. Len(u)
      BY <1>1, <1>4, <1>5, <2>1
    <2> QED
      BY <1>5, <2>1, <2>2
  <1>9. \A i \in 1 .. n : i \notin Live(t) => t2.at[i] = 0
    BY <1>2, <1>7
  <1>10. \A i \in 1 .. n : t2.at[i] \in 0 .. Len(u) /\ (t2.at[i] # 0 <=> i \in Live(t))
    <2> SUFFICES ASSUME NEW i \in 1 .. n PROVE t2.at[i] \in 0 .. Len(u) /\ (t2.at[i] # 0 <=> i \in Live(t))
      OBVIOUS
    <2>1. CASE i \notin Live(t)
      BY <1>5, <1>9, <2>1
    <2>2. CASE i \in Live(t)
      <3>1. t2.at[i] \in 1 .. Len(u)
        BY <1>6, <1>8, <2>2
      <3> QED
        BY <1>5, <2>2, <3>1
    <2> QED
      BY <2>1, <2>2
  <1>11. t2.at \in Seq(Nat) /\ Len(t2.at) = n
    <2>1. t2.at \in [1 .. n -> Nat]
      <3>1. \A i \in 1 .. n : t2.at[i] \in Nat
        BY <1>5, <1>10
      <3>2. t2.at = [i \in 1 .. n |-> t2.at[i]]
        BY <1>3
      <3> QED
        BY <3>1, <3>2
    <2>2. t2.at \in Seq(Nat)
      BY <1>2, <2>1, SeqDef
    <2>3. DOMAIN t2.at = 1 .. Len(t2.at) /\ Len(t2.at) \in Nat
      BY <2>2, LenProperties
    <2> QED
      BY <1>2, <2>1, <2>2, <2>3, SMT
  <1>12. Slots(t2) = 1 .. n /\ Live(t2) = Live(t)
    BY <1>2, <1>3 DEF Slots, Live
  <1>13. Table(t2)
    <2>1. \A i \in 1 .. n : t2.at[i] = 0 <=> t2.ids[i].kind = "retired"
      BY <1>2, <1>3, <1>10 DEF Live
    <2>2. /\ t.ids \in Seq(Id) /\ \A i, j \in Live(t) : t.ids[i] = t.ids[j] => i = j
          /\ t.indexed \in BOOLEAN
      BY <1>1 DEF Table
    <2>3. t.entries = IF t.indexed THEN Directory(t.ids) ELSE {}
      BY <1>1 DEF Table
    <2> QED
      BY <1>3, <1>11, <1>12, <2>1, <2>2, <2>3 DEF Table
  <1>14. Within(t2, Len(u))
    BY <1>10, <1>12 DEF Within
  <1>15. \A i \in Live(t) : t.ids[i] \in DOMAIN f /\ f[t.ids[i]] = u[t2.at[i]]
    BY <1>3, <1>12, <1>13, ChartAt
  <1>16. \A i \in Live(t) : t.ids[i] \in DOMAIN g /\ g[t.ids[i]] = ucas[t.at[i]]
    BY <1>1, ChartAt
  <1>17. DOMAIN f = DOMAIN g
    BY <1>3, <1>12 DEF Chart, LiveIds
  <1>18. \A id \in DOMAIN g : \E i \in Live(t) : t.ids[i] = id
    BY ChartDomain
  <1> HIDE DEF f, g
  <1>19. \A k \in DOMAIN items : f[t.ids[items[k].slot]] = items[k].block
    BY <1>6, <1>15
  <1>20. \A id \in DOMAIN g : (\A k \in DOMAIN items : t.ids[items[k].slot] # id) => f[id] = g[id]
    BY <1>8, <1>15, <1>16, <1>18
  <1> QED
    BY <1>13, <1>14, <1>17, <1>19, <1>20 DEF f, g

(* The content of a table over a file *)
ReadIn(u, t, i) == IF i \in Slots(t) /\ t.at[i] # 0 THEN u[t.at[i]] ELSE Nothing
PackageIn(u, t, p) ==
  LET bundle == FindChunk(t, ChunkId(p, "bundle"))
      bulk == FindChunk(t, ChunkId(p, "bulk"))
  IN IF bundle = 0 THEN Absent
     ELSE [export |-> ReadIn(u, t, bundle).export,
           body |-> IF bulk = 0 THEN Absent ELSE ReadIn(u, t, bulk).body]
RedirectIn(u, t, p) ==
  IF SlotsOf(t, "header") = {} THEN Absent ELSE LookupRedirect(ReadIn(u, t, HeaderSlot(t)).redirects, p)
ContentIn(u, t) == <<[p \in Path |-> PackageIn(u, t, p)], [p \in Path |-> RedirectIn(u, t, p)]>>

(* Reading a live slot gives what the chart has under its id. *)
LEMMA ReadIs ==
  ASSUME NEW t, NEW u, NEW W, Sound(u, t, W), NEW i \in Live(t)
  PROVE  ReadIn(u, t, i) = u[t.at[i]] /\ ReadIn(u, t, i) = Chart(u, t)[t.ids[i]]
  <1>1. Table(t)
    BY DEF Sound
  <1>2. i \in Slots(t) /\ t.at[i] # 0
    BY <1>1, TableIs DEF Live
  <1> QED
    BY <1>1, <1>2, ChartAt DEF ReadIn

(* The ids of a chart are those of the live slots. *)
LEMMA ChartDomainIs == \A t, u : DOMAIN Chart(u, t) = LiveIds(t)
  BY DEF Chart

(* What is read through a sound table is what its chart shows. *)
LEMMA ContentIs ==
  ASSUME NEW t, NEW u, NEW W, Sound(u, t, W)
  PROVE  ContentIn(u, t) = <<PackagesOf(Chart(u, t)), RedirectsOf(Chart(u, t))>>
  <1> DEFINE g == Chart(u, t)
  <1>1. Table(t) /\ DOMAIN g = LiveIds(t)
    BY ChartDomainIs DEF Sound
  <1>2. \A p : BundleId(p).kind # "retired" /\ BulkId(p).kind # "retired"
    BY DEF BundleId, BulkId, ChunkId
  <1>3. \A i \in Live(t) : ReadIn(u, t, i) = g[t.ids[i]]
    BY ReadIs
  <1> HIDE DEF g
  <1>4. ASSUME NEW id, id.kind # "retired"
        PROVE  /\ FindChunk(t, id) = 0 <=> id \notin DOMAIN g
               /\ FindChunk(t, id) # 0 => ReadIn(u, t, FindChunk(t, id)) = g[id]
    <2>1. FindChunk(t, id) = 0 => id \notin DOMAIN g
      BY <1>1, <1>4, FindIs
    <2>2. FindChunk(t, id) # 0 => FindChunk(t, id) \in Live(t) /\ t.ids[FindChunk(t, id)] = id
      BY <1>1, <1>4, FindIs
    <2> QED
      BY <1>1, <1>3, <2>1, <2>2 DEF LiveIds
  <1>5. ASSUME NEW p PROVE PackageIn(u, t, p) = PackageOf(g, p)
    <2>1. /\ FindChunk(t, BundleId(p)) = 0 <=> BundleId(p) \notin DOMAIN g
          /\ FindChunk(t, BundleId(p)) # 0 => ReadIn(u, t, FindChunk(t, BundleId(p))) = g[BundleId(p)]
      BY <1>2, <1>4
    <2>2. /\ FindChunk(t, BulkId(p)) = 0 <=> BulkId(p) \notin DOMAIN g
          /\ FindChunk(t, BulkId(p)) # 0 => ReadIn(u, t, FindChunk(t, BulkId(p))) = g[BulkId(p)]
      BY <1>2, <1>4
    <2>3. PackageIn(u, t, p) =
            IF FindChunk(t, BundleId(p)) = 0 THEN Absent
            ELSE [export |-> ReadIn(u, t, FindChunk(t, BundleId(p))).export,
                  body |-> IF FindChunk(t, BulkId(p)) = 0 THEN Absent ELSE ReadIn(u, t, FindChunk(t, BulkId(p))).body]
      BY DEF PackageIn, BundleId, BulkId
    <2> QED
      BY <2>1, <2>2, <2>3 DEF PackageOf
  <1>6. ASSUME NEW p PROVE RedirectIn(u, t, p) = RedirectOf(g, p)
    <2>1. SlotsOf(t, "header") = {} <=> HeaderId \notin DOMAIN g
      BY <1>1, HeaderIs
    <2>2. SlotsOf(t, "header") # {} => ReadIn(u, t, HeaderSlot(t)) = g[HeaderId]
      BY <1>3, HeaderIs
    <2> QED
      BY <2>1, <2>2 DEF RedirectIn, RedirectOf
  <1> QED
    BY <1>5, <1>6 DEF ContentIn, PackagesOf, RedirectsOf, g

-----------------------------------------------------------------------------
(* What an edit has to plan: a table that is sound once the file is        *)
(* written, and that is an edit of the one there is.                       *)
PlannedEdit(file, t, W, toc, items) ==
  /\ Sequence(items) /\ Len(items) # 0
  /\ \A u : Written(u, file, items) =>
       Sound(u, toc, W) /\ Edited(Chart(file, t), Chart(u, toc))

(* The ids of chunks are ids. *)
LEMMA ChunkIdsAreIds ==
  ASSUME NEW p \in Path
  PROVE  /\ BundleId(p) \in Id /\ BulkId(p) \in Id /\ HeaderId \in Id
         /\ BundleId(p).kind = "bundle" /\ BulkId(p).kind = "bulk" /\ HeaderId.kind = "header"
         /\ BundleId(p).pkg = p /\ BulkId(p).pkg = p
  BY DEF BundleId, BulkId, HeaderId, ChunkId, Id, Kinds

(* The fields of a bundle. *)
LEMMA BundleFields ==
  ASSUME NEW p, NEW block, IsBundle(p, block)
  PROVE  block.kind = "bundle" /\ block.name = p /\ block.export \in Export /\ block.size \in Nat
  <1>1. PICK e, size : block = Bundle(p, e, size)
    BY DEF IsBundle
  <1>2. block.kind = "bundle" /\ block.name = p
    BY <1>1 DEF Bundle
  <1> QED
    BY <1>2 DEF IsBundle

(* The fields of bulk data. *)
LEMMA BulkFields ==
  ASSUME NEW block, IsBulk(block)
  PROVE  block.kind = "bulk" /\ block.body \in Body
  <1>1. PICK b : block = Bulk(b)
    BY DEF IsBulk
  <1>2. block.kind = "bulk"
    BY <1>1 DEF Bulk
  <1> QED
    BY <1>2 DEF IsBulk

(* The entries an edit goes by are those of the chunks in the table. *)
LEMMA EntryIs ==
  ASSUME NEW t, NEW W, Sound(ucas, t, W), NEW e \in Entries(t)
  PROVE  /\ e.slot \in Live(t) /\ e.path \in Path
         /\ e.kind = "bundle" => t.ids[e.slot] = BundleId(e.path)
         /\ e.kind = "bulk" => t.ids[e.slot] = BulkId(e.path)
  <1>1. Table(t)
    BY DEF Sound
  <1>2. CASE t.indexed
    <2>1. e \in Directory(t.ids)
      BY <1>1, <1>2 DEF Entries, Table
    <2>2. PICK i \in Slots(t) : t.ids[i].kind \in {"bundle", "bulk"} /\ e = [path |-> t.ids[i].pkg, kind |-> t.ids[i].kind, slot |-> i]
      BY <2>1 DEF Directory, Slots
    <2>3. i \in Live(t) /\ e.slot = i /\ e.path = t.ids[i].pkg /\ e.kind = t.ids[i].kind
      BY <2>2 DEF Live
    <2> QED
      BY <2>2, <2>3, SlotHolds
  <1>3. CASE ~t.indexed
    <2>1. e \in RecoverEntries(t)
      BY <1>3 DEF Entries
    <2>2. PICK i \in SlotsOf(t, "bundle") :
            \E j \in Slots(t) : /\ t.ids[j].pkg = t.ids[i].pkg /\ t.ids[j].kind \in {"bundle", "bulk"}
                                /\ e = [path |-> ReadChunk(t, i).name, kind |-> t.ids[j].kind, slot |-> j]
      BY <2>1 DEF RecoverEntries
    <2>3. PICK j \in Slots(t) : /\ t.ids[j].pkg = t.ids[i].pkg /\ t.ids[j].kind \in {"bundle", "bulk"}
                                /\ e = [path |-> ReadChunk(t, i).name, kind |-> t.ids[j].kind, slot |-> j]
      BY <2>2
    <2>4. i \in Live(t) /\ t.ids[i].kind = "bundle" /\ j \in Live(t)
      BY <2>3 DEF SlotsOf, Live
    <2>5. ReadChunk(t, i) = ucas[t.at[i]]
      BY <2>4, ReadIs DEF ReadChunk, ReadIn
    <2>6. ReadChunk(t, i).name = t.ids[i].pkg /\ t.ids[i].pkg \in Path
      BY <2>4, <2>5, SlotHolds, BundleFields
    <2>7. e.slot = j /\ e.kind = t.ids[j].kind /\ e.path = t.ids[j].pkg
      BY <2>3, <2>6
    <2> QED
      BY <2>3, <2>4, <2>6, <2>7, SlotHolds
  <1> QED
    BY <1>2, <1>3

(* The entries a guarded edit keeps come from the directory index. *)
LEMMA IndexedEntries ==
  ASSUME NEW t, Table(t), t.indexed, NEW S
  PROVE  {e \in Entries(t) : e.slot \notin S} = {e \in Directory(t.ids) : e.slot \notin S}
  BY DEF Entries, Table

-----------------------------------------------------------------------------
(* What an edit's checks find when its plan is in place, over the file u.  *)
FoundIn(toc, items, k) == FindChunk(toc, toc.ids[items[k].slot])

Rehashed(t, toc, gone) ==
  /\ toc.hashed = 0
  /\ t.hashed # 0 => toc.overflow = {}
  /\ t.hashed = 0 => (t.overflow \ gone) \cup (Slots(toc) \ Slots(t)) \subseteq toc.overflow

Retired(t, toc, gone) ==
  \A i \in gone : toc.ids[i] = Retire(t.ids[i]) /\ toc.at[i] = 0 /\ FindChunk(toc, t.ids[i]) = 0

Relisted(t, toc, gone) ==
  /\ \A e \in t.entries : e.slot \notin gone => e \in toc.entries
  /\ \A e \in toc.entries : e.slot \notin gone
  /\ \A i \in Slots(toc) \ Slots(t) : toc.ids[i] # HeaderId =>
       \E e \in toc.entries : e.slot = i /\ e.path = toc.ids[i].pkg

Verifies(u, how, t, toc, items, gone, asked) ==
  /\ how \in {"duplicate", "delete", "rename", "packages", "chunks"} /\ Len(items) \in DOMAIN items
  /\ how # "chunks" => \A k \in DOMAIN items : /\ FoundIn(toc, items, k) # 0
                                               /\ ReadIn(u, toc, FoundIn(toc, items, k)) = items[k].block
  /\ how \in {"duplicate", "delete", "rename"} =>
       /\ Rehashed(t, toc, gone) /\ Retired(t, toc, gone)
       /\ t.indexed => Relisted(t, toc, gone)
       /\ \A i \in Slots(t) \ (gone \cup {items[k].slot : k \in DOMAIN items}) :
            toc.ids[i] = t.ids[i] /\ toc.at[i] = t.at[i]
       /\ \A r \in asked : LookupRedirect(items[Len(items)].block.redirects, r.source) = r.target
  /\ how = "packages" =>
       \A k \in 1 .. Len(items) - 1 : toc.ids[items[k].slot].pkg \in items[Len(items)].block.store

Checkable(file, t, W, how, toc, items, gone, asked) ==
  \A u : Written(u, file, items) /\ Sound(u, toc, W) => Verifies(u, how, t, toc, items, gone, asked)

(* A slot that points at the block of an item is found and read back.      *)
LEMMA ItemIsRead ==
  ASSUME Sequence(ucas), NEW toc, Table(toc), NEW items, Sequence(items), NEW u, Written(u, ucas, items),
         NEW k \in DOMAIN items, items[k].slot \in Slots(toc), toc.at[items[k].slot] = Len(ucas) + k
  PROVE  FoundIn(toc, items, k) # 0 /\ ReadIn(u, toc, FoundIn(toc, items, k)) = items[k].block
  <1> DEFINE i == items[k].slot
  <1>1. Len(ucas) \in Nat /\ k \in Nat \ {0}
    BY SequenceIs
  <1>2. i \in Live(toc) /\ i # 0 /\ toc.at[i] # 0
    BY <1>1, TableIs
  <1>3. toc.ids[i].kind # "retired"
    BY <1>2 DEF Live
  <1>4. FoundIn(toc, items, k) = i
    BY <1>2, <1>3, FindIs DEF FoundIn
  <1>5. u[Len(ucas) + k] = items[k].block
    BY DEF Written
  <1> QED
    BY <1>2, <1>4, <1>5 DEF ReadIn

(* The chunks a guarded edit retires are not found any more.               *)
LEMMA GuardedRetires ==
  ASSUME NEW t, Table(t), NEW toc, Table(toc), NEW additions, NEW replacements, NEW tombs \in SUBSET Live(t), NEW size,
         Additions(t, additions), SlotsPlanned(t, additions, replacements, tombs, toc, size)
  PROVE  Retired(t, toc, tombs)
  <1> SUFFICES ASSUME NEW i \in tombs PROVE FindChunk(toc, t.ids[i]) = 0
    BY DEF Retired, SlotsPlanned
  <1> DEFINE n == Len(t.ids)
             m == Len(additions)
             j == FindChunk(toc, t.ids[i])
  <1>1. n \in Nat /\ Slots(t) = 1 .. n /\ m \in Nat /\ DOMAIN additions = 1 .. m
    BY TableIs, SequenceIs DEF Additions
  <1>2. t.ids[i].kind # "retired" /\ t.ids[i] \in LiveIds(t)
    BY DEF Live, LiveIds
  <1> SUFFICES ASSUME j # 0 PROVE FALSE
    OBVIOUS
  <1>3. j \in Live(toc) /\ toc.ids[j] = t.ids[i]
    BY <1>2, FindIs
  <1> HIDE DEF j
  <1>4. j \in 1 .. n + m
    BY <1>3 DEF SlotsPlanned, Live, Slots
  <1>5. CASE j \in 1 .. n
    <2>1. j \notin tombs
      <3>1. j \in tombs => toc.at[j] = 0
        BY DEF SlotsPlanned
      <3> QED
        BY <1>3, <3>1, TableIs DEF Live
    <2>2. t.ids[j] = t.ids[i]
      BY <1>1, <1>3, <1>5, <2>1 DEF SlotsPlanned
    <2>3. j \in Live(t)
      BY <1>1, <1>2, <1>5, <2>2 DEF Live
    <2> QED
      BY <2>1, <2>2, <2>3 DEF Table
  <1>6. CASE j \notin 1 .. n
    <2>1. j - n \in 1 .. m /\ n + (j - n) = j
      BY <1>1, <1>4, <1>6
    <2>2. toc.ids[n + (j - n)] = additions[j - n].id
      BY <1>1, <2>1 DEF SlotsPlanned
    <2> QED
      BY <1>1, <1>2, <1>3, <2>1, <2>2 DEF Additions
  <1> QED
    BY <1>5, <1>6

(* The entries that stay stay, and each new chunk of a package has one.    *)
LEMMA GuardedRelists ==
  ASSUME NEW t, Table(t), t.indexed, NEW u, NEW W, NEW toc, Sound(u, toc, W), toc.indexed,
         NEW additions, NEW replacements, NEW tombs \in SUBSET Live(t), NEW size \in Nat,
         SlotsPlanned(t, additions, replacements, tombs, toc, size), Sequence(additions)
  PROVE  Relisted(t, toc, tombs)
  <1>1. Table(toc) /\ t.entries = Directory(t.ids) /\ toc.entries = Directory(toc.ids)
    BY DEF Sound, Table
  <1>2. Slots(t) = 1 .. Len(t.ids) /\ Len(t.ids) \in Nat
    BY TableIs
  <1>3. ASSUME NEW e \in t.entries, e.slot \notin tombs PROVE e \in toc.entries
    <2>1. PICK i \in DOMAIN t.ids : /\ t.ids[i].kind \in {"bundle", "bulk"}
                                    /\ e = [path |-> t.ids[i].pkg, kind |-> t.ids[i].kind, slot |-> i]
      BY <1>1, <1>3 DEF Directory
    <2>2. e.slot = i
      BY <2>1
    <2>3. toc.ids[i] = t.ids[i] /\ i \in DOMAIN toc.ids
      BY <1>2, <1>3, <2>2 DEF SlotsPlanned, Slots
    <2> QED
      BY <1>1, <2>1, <2>3 DEF Directory
  <1>4. ASSUME NEW e \in toc.entries PROVE e.slot \notin tombs
    <2>1. PICK i \in DOMAIN toc.ids : /\ toc.ids[i].kind \in {"bundle", "bulk"}
                                      /\ e = [path |-> toc.ids[i].pkg, kind |-> toc.ids[i].kind, slot |-> i]
      BY <1>1, <1>4 DEF Directory
    <2>2. e.slot = i /\ i \in Slots(toc) /\ toc.ids[i].kind # "retired"
      BY <2>1 DEF Slots
    <2>3. toc.at[i] # 0
      BY <1>1, <2>2 DEF Table
    <2>4. i \notin tombs
      <3>1. i \in tombs => toc.at[i] = 0
        BY DEF SlotsPlanned
      <3> QED
        BY <2>3, <3>1
    <2> QED
      BY <2>2, <2>4
  <1>5. ASSUME NEW i \in Slots(toc) \ Slots(t), toc.ids[i] # HeaderId
        PROVE  \E e \in toc.entries : e.slot = i /\ e.path = toc.ids[i].pkg
    <2>1. i \in Live(toc)
      <3> DEFINE n == Len(t.ids)
                 k == i - n
      <3>1. i \in 1 .. (n + Len(additions)) /\ i \notin 1 .. n
        BY <1>2, <1>5 DEF SlotsPlanned, Slots
      <3>2. Len(additions) \in Nat /\ DOMAIN additions = 1 .. Len(additions)
        BY SequenceIs
      <3>3. k \in DOMAIN additions /\ n + k = i /\ k \in Nat \ {0}
        BY <1>2, <3>1, <3>2
      <3>4. toc.at[n + k] = size + k
        BY <3>3 DEF SlotsPlanned
      <3>5. toc.at[i] # 0
        BY <3>3, <3>4
      <3> QED
        BY <1>1, <1>5, <3>5, TableIs
    <2>2. toc.ids[i].kind \in {"bundle", "bulk"}
      BY <1>5, <2>1, SlotHolds
    <2> DEFINE e == [path |-> toc.ids[i].pkg, kind |-> toc.ids[i].kind, slot |-> i]
    <2>3. e \in toc.entries /\ e.slot = i /\ e.path = toc.ids[i].pkg
      BY <1>1, <2>2 DEF Directory, Slots
    <2> QED
      BY <2>3
  <1> QED
    BY <1>3, <1>4, <1>5 DEF Relisted

(* What a guarded edit asks of the container holds of what it planned.     *)
LEMMA GuardedCheckable ==
  ASSUME Sequence(ucas), NEW t, NEW W, Sound(ucas, t, W), NEW additions, NEW replacements, NEW entries,
         NEW tombs \in SUBSET Live(t), Additions(t, additions), Replacements(t, replacements, tombs),
         t.indexed => entries = {e \in Directory(t.ids) : e.slot \notin tombs},
         Len(additions) + Len(replacements) # 0,
         NEW how \in {"duplicate", "delete", "rename"}, NEW asked,
         asked = {} \/ ( /\ Len(replacements) = 1
                         /\ \A r \in asked : LookupRedirect(replacements[1].block.redirects, r.source) = r.target ),
         NEW toc, toc = PlanTocAppend(t, additions, replacements, tombs, entries)
  PROVE  Checkable(ucas, t, W, how, toc, Items(t, additions, replacements), tombs, asked)
  <1> DEFINE items == Items(t, additions, replacements)
  <1> SUFFICES ASSUME NEW u, Written(u, ucas, items), Sound(u, toc, W)
               PROVE  Verifies(u, how, t, toc, items, tombs, asked)
    BY DEF Checkable
  <1>1. Table(t) /\ Table(toc)
    BY DEF Sound
  <1>2. Laid(t, additions, replacements, items)
    BY <1>1, ItemsAre DEF Additions, Replacements, Live
  <1>3. SlotsPlanned(t, additions, replacements, tombs, toc, Len(ucas))
    BY <1>1, GuardedSlots
  <1> HIDE DEF items
  <1>4. /\ Sequence(items) /\ DOMAIN items = 1 .. Len(items) /\ Len(items) \in Nat
        /\ Len(additions) \in Nat /\ DOMAIN additions = 1 .. Len(additions)
        /\ Len(replacements) \in Nat /\ DOMAIN replacements = 1 .. Len(replacements)
        /\ Len(items) = Len(additions) + Len(replacements)
    BY <1>2, SequenceIs DEF Laid, Additions, Replacements
  <1>5. Len(items) \in DOMAIN items
    BY <1>4
  <1>6. /\ Len(t.ids) \in Nat /\ Slots(t) = 1 .. Len(t.ids)
        /\ DOMAIN toc.ids = 1 .. (Len(t.ids) + Len(additions)) /\ Slots(toc) = DOMAIN toc.ids
    BY <1>1, <1>3, TableIs DEF SlotsPlanned, Slots
  <1>7. ASSUME NEW k \in DOMAIN items
        PROVE  items[k].slot \in Slots(toc) /\ toc.at[items[k].slot] = Len(ucas) + k
    <2>1. CASE k \in DOMAIN additions
      <3>1. items[k].slot = Len(t.ids) + k /\ Len(t.ids) + k \in 1 .. (Len(t.ids) + Len(additions))
        BY <1>2, <1>4, <1>6, <2>1 DEF Laid
      <3> QED
        BY <1>3, <1>6, <2>1, <3>1 DEF SlotsPlanned
    <2>2. CASE k \notin DOMAIN additions
      <3>1. PICK j \in DOMAIN replacements : k = Len(additions) + j
        BY <1>2, <2>2 DEF Laid
      <3>2. items[k] = replacements[j] /\ replacements[j].slot \in Slots(t)
        BY <1>2, <3>1 DEF Laid, Replacements, Live
      <3>3. toc.at[replacements[j].slot] = Len(ucas) + k
        BY <1>3, <3>1 DEF SlotsPlanned
      <3>4. replacements[j].slot \in Slots(toc)
        BY <1>4, <1>6, <3>2
      <3> QED
        BY <3>2, <3>3, <3>4
    <2> QED
      BY <2>1, <2>2
  <1>8. \A k \in DOMAIN items : FoundIn(toc, items, k) # 0 /\ ReadIn(u, toc, FoundIn(toc, items, k)) = items[k].block
    BY <1>1, <1>4, <1>7, ItemIsRead
  <1>9. Rehashed(t, toc, tombs)
    <2>1. toc.hashed = 0 /\ (t.hashed # 0 => toc.overflow = {})
      BY DEF PlanTocAppend, HashAfter
    <2>2. t.hashed = 0 =>
            toc.overflow = (t.overflow \cup (Len(t.ids) + 1 .. Len(t.ids) + Len(additions))) \ tombs
      BY DEF PlanTocAppend
    <2>3. Slots(toc) \ Slots(t) \subseteq Len(t.ids) + 1 .. Len(t.ids) + Len(additions)
      BY <1>4, <1>6
    <2>4. tombs \subseteq Slots(t)
      BY DEF Live
    <2> QED
      BY <2>1, <2>2, <2>3, <2>4 DEF Rehashed
  <1>10. Retired(t, toc, tombs)
    BY <1>1, <1>3, GuardedRetires
  <1>11. t.indexed => Relisted(t, toc, tombs)
    <2>1. toc.indexed = t.indexed
      BY DEF PlanTocAppend
    <2> QED
      BY <1>1, <1>3, <1>4, <2>1, SequenceIs, GuardedRelists DEF Additions
  <1>12. ASSUME NEW i \in Slots(t) \ (tombs \cup {items[k].slot : k \in DOMAIN items})
         PROVE  toc.ids[i] = t.ids[i] /\ toc.at[i] = t.at[i]
    <2>1. ASSUME NEW k \in DOMAIN replacements PROVE replacements[k].slot # i
      BY <1>2, <1>12, <2>1 DEF Laid
    <2> QED
      BY <1>3, <1>12, <2>1 DEF SlotsPlanned
  <1>13. \A r \in asked : LookupRedirect(items[Len(items)].block.redirects, r.source) = r.target
    <2>1. Len(replacements) = 1 => items[Len(items)] = replacements[1]
      BY <1>2, <1>4 DEF Laid
    <2> QED
      BY <2>1
  <1> QED
    BY <1>5, <1>8, <1>9, <1>10, <1>11, <1>12, <1>13 DEF Verifies

-----------------------------------------------------------------------------
(* DeleteTag plans a sound table that is an edit of the one there is. *)
LEMMA DeletePlanned ==
  ASSUME Sequence(ucas), Sound(ucas, utoc, unlisted), NEW p \in Path, DeleteTag(p)
  PROVE  \E how, toc, items, gone, asked :
           /\ Start(how, toc, items, gone, asked) /\ PlannedEdit(ucas, utoc, unlisted, toc, items)
           /\ Checkable(ucas, utoc, unlisted, how, toc, items, gone, asked)
  <1> DEFINE t == utoc
             g == Chart(ucas, t)
             uasset == FindChunk(t, ChunkId(p, "bundle"))
             ubulk == FindChunk(t, ChunkId(p, "bulk"))
             header == HeaderSlot(t)
             old == ReadChunk(archive, header)
             new == [old EXCEPT !.store = @ \ {p}]
             replacements == <<[slot |-> header, block |-> new]>>
             tombs == {uasset, ubulk}
             entries == {e \in Entries(t) : e.slot \notin tombs}
             toc == PlanTocAppend(t, <<>>, replacements, tombs, entries)
             items == Items(t, <<>>, replacements)
  <1>1. /\ archive = utoc /\ uasset > MinimumAppended /\ ubulk > MinimumAppended
        /\ Cardinality(SlotsOf(t, "header")) = 1
        /\ ~RedirectsTo(old.redirects, p)
    BY DEF DeleteTag, Accepts
  <1>0. Start("delete", toc, items, tombs, {})
    BY DEF DeleteTag, Accepts, StartGuarded
  <1>2. Table(t) /\ DOMAIN g = LiveIds(t) /\ Coherent(g, unlisted)
    BY ChartDomainIs DEF Sound
  <1>3. /\ uasset \in Live(t) /\ t.ids[uasset] = BundleId(p)
        /\ ubulk \in Live(t) /\ t.ids[ubulk] = BulkId(p)
    <2>1. uasset # 0 /\ ubulk # 0
      BY <1>1, StoreAssumption, SMT
    <2>2. BundleId(p).kind # "retired" /\ BulkId(p).kind # "retired"
      BY ChunkIdsAreIds
    <2> QED
      BY <1>2, <2>1, <2>2, FindIs DEF BundleId, BulkId
  <1>4. header \in Live(t) /\ t.ids[header] = HeaderId
    <2>1. SlotsOf(t, "header") # {}
      <3>1. Cardinality({}) = 0
        BY FS_EmptySet
      <3> QED
        BY <1>1, <3>1
    <2> QED
      BY <2>1, HeaderIs
  <1>5. old = g[HeaderId]
    BY <1>1, <1>4, ReadIs DEF ReadChunk, ReadIn
  <1> HIDE DEF g, uasset, ubulk, header, old, new
  <1>6. header \notin tombs
    BY <1>3, <1>4, IdsDiffer
  <1>7. Sequence(replacements) /\ DOMAIN replacements = {1} /\ replacements[1].slot = header /\ replacements[1].block = new
    BY SingleIs
  <1>8. Sequence(<<>>) /\ DOMAIN <<>> = {} /\ Len(<<>>) = 0
    BY SingleIs
  <1> HIDE DEF replacements
  <1>9. Replacements(t, replacements, tombs)
    BY <1>4, <1>6, <1>7 DEF Replacements, DistinctSlots
  <1>10. Additions(t, <<>>)
    BY <1>8 DEF Additions
  <1>11. t.indexed => entries = {e \in Directory(t.ids) : e.slot \notin tombs}
    BY <1>2, IndexedEntries
  <1>12. tombs \in SUBSET Live(t)
    BY <1>3
  <1>13. Sequence(items) /\ Len(items) # 0
    <2>1. Laid(t, <<>>, replacements, items)
      BY <1>2, <1>4, <1>7, <1>8, <1>9, ItemsAre DEF Replacements, Live
    <2>2. DOMAIN items # {}
      BY <1>7, <2>1 DEF Laid
    <2>3. Sequence(items) /\ DOMAIN items = 1 .. Len(items)
      BY <2>1, SequenceIs DEF Laid
    <2> QED
      BY <2>2, <2>3
  <1>14. ASSUME NEW u, Written(u, ucas, items)
         PROVE  Sound(u, toc, unlisted) /\ Edited(g, Chart(u, toc))
    <2> DEFINE f == Chart(u, toc)
    <2> HIDE DEF entries
    <2>1. Table(toc) /\ Within(toc, Len(u)) /\ ChartPlanned(g, f, t, <<>>, replacements, tombs)
      BY <1>9, <1>10, <1>11, <1>12, <1>14, GuardedChart DEF g
    <2>2. f = [id \in DOMAIN f |-> f[id]]
      BY ChartIsFunction
    <2> HIDE DEF f, toc
    <2>3. {t.ids[i] : i \in tombs} = {BundleId(p), BulkId(p)}
      BY <1>3
    <2>4. DOMAIN f = DOMAIN g \ {BundleId(p), BulkId(p)}
      BY <1>8, <2>1, <2>3 DEF ChartPlanned
    <2>5. f[HeaderId] = [g[HeaderId] EXCEPT !.store = @ \ {p}]
      BY <1>4, <1>5, <1>7, <2>1 DEF ChartPlanned, new
    <2>6. \A id \in DOMAIN f : id # HeaderId => f[id] = g[id]
      BY <1>4, <1>7, <2>1, <2>3, <2>4 DEF ChartPlanned
    <2>7. BundleId(p) \in DOMAIN g /\ BulkId(p) \in DOMAIN g /\ HeaderId \in DOMAIN g
      BY <1>2, <1>3, <1>4 DEF LiveIds
    <2>8. ~RedirectsTo(g[HeaderId].redirects, p)
      BY <1>1, <1>5
    <2>9. Coherent(f, unlisted) /\ Edited(g, f)
      BY <1>2, <2>2, <2>4, <2>5, <2>6, <2>7, <2>8, DeleteChart
    <2> QED
      BY <2>1, <2>9 DEF Sound, f
  <1>15. PlannedEdit(ucas, utoc, unlisted, toc, items)
    BY <1>13, <1>14 DEF PlannedEdit, g
  <1>16. Checkable(ucas, utoc, unlisted, "delete", toc, items, tombs, {})
    <2>1. Len(<<>>) + Len(replacements) # 0
      <3>1. Len(replacements) \in Nat /\ DOMAIN replacements = 1 .. Len(replacements)
        BY <1>7, SequenceIs
      <3>2. 1 \in 1 .. Len(replacements)
        BY <1>7, <3>1
      <3> QED
        BY <1>8, <3>1, <3>2
    <2> HIDE DEF entries, tombs
    <2> QED
      BY <1>9, <1>10, <1>11, <1>12, <2>1, GuardedCheckable
  <1> QED
    BY <1>15, <1>16, <1>0

(* The new chunks of a duplicate are chunks the table does not have. *)
LEMMA DuplicateAdditions ==
  ASSUME NEW t, NEW p \in Path, BundleId(p) \notin LiveIds(t), BulkId(p) \notin LiveIds(t),
         NEW one, NEW two, NEW three,
         one.id = BundleId(p), one.path = p, two.id = BulkId(p), two.path = p,
         three.id = HeaderId, three.path = Absent
  PROVE  /\ Additions(t, <<one, two>>)
         /\ HeaderId \notin LiveIds(t) => Additions(t, Append(<<one, two>>, three))
  <1>1. /\ Sequence(<<one, two>>) /\ Len(<<one, two>>) = 2 /\ DOMAIN <<one, two>> = {1, 2}
        /\ <<one, two>>[1] = one /\ <<one, two>>[2] = two
    BY PairIs
  <1> DEFINE s == <<one, two>>
             l == Append(s, three)
  <1> HIDE DEF s
  <1>2. /\ Sequence(s) /\ Len(s) = 2 /\ DOMAIN s = {1, 2} /\ s[1] = one /\ s[2] = two
    BY <1>1 DEF s
  <1>3. Sequence(l) /\ Len(l) = 3 /\ l[1] = one /\ l[2] = two /\ l[3] = three
    BY <1>1, AppendIs DEF s
  <1>4. DOMAIN l = {1, 2, 3}
    BY <1>3, SequenceIs
  <1> HIDE DEF l
  <1>5. Additions(t, s)
    BY <1>2, ChunkIdsAreIds, IdsDiffer DEF Additions
  <1>6. HeaderId \notin LiveIds(t) => Additions(t, l)
    BY <1>3, <1>4, ChunkIdsAreIds, IdsDiffer DEF Additions
  <1> QED
    BY <1>5, <1>6 DEF s, l

(* So does DuplicateTag, with a header and without one. *)
LEMMA DuplicatePlanned ==
  ASSUME Sequence(ucas), Sound(ucas, utoc, unlisted), NEW p \in Path, NEW e \in Export, NEW b \in Body,
         DuplicateTag(p, e, b)
  PROVE  \E how, toc, items, gone, asked :
           /\ Start(how, toc, items, gone, asked) /\ PlannedEdit(ucas, utoc, unlisted, toc, items)
           /\ Checkable(ucas, utoc, unlisted, how, toc, items, gone, asked)
  <1> DEFINE t == utoc
             g == Chart(ucas, t)
             header == HeaderSlot(t)
             old == ReadChunk(archive, header)
             one == [id |-> ChunkId(p, "bundle"), block |-> Bundle(p, e, Length[b]), path |-> p]
             two == [id |-> ChunkId(p, "bulk"), block |-> Bulk(b), path |-> p]
             three == [id |-> HeaderId, block |-> Header({p}, <<>>), path |-> Absent]
             updated == <<[slot |-> header, block |-> [old EXCEPT !.store = @ \cup {p}]]>>
             entries == Entries(archive)
             Toc(additions, replacements) == PlanTocAppend(t, additions, replacements, {}, entries)
  <1>1. /\ archive = utoc /\ FindChunk(t, ChunkId(p, "bundle")) = 0 /\ FindChunk(t, ChunkId(p, "bulk")) = 0
    BY DEF DuplicateTag, Accepts
  <1>2. \/ /\ SlotsOf(t, "header") = {}
           /\ Start("duplicate", Toc(Append(<<one, two>>, three), <<>>), Items(t, Append(<<one, two>>, three), <<>>), {}, {})
        \/ /\ SlotsOf(t, "header") # {}
           /\ Start("duplicate", Toc(<<one, two>>, updated), Items(t, <<one, two>>, updated), {}, {})
    BY DEF DuplicateTag, StartGuarded
  <1>3. Table(t) /\ DOMAIN g = LiveIds(t) /\ Coherent(g, unlisted)
    BY ChartDomainIs DEF Sound
  <1>4. BundleId(p) \notin LiveIds(t) /\ BulkId(p) \notin LiveIds(t)
    <2>1. BundleId(p).kind # "retired" /\ BulkId(p).kind # "retired"
      BY ChunkIdsAreIds
    <2> QED
      BY <1>1, <1>3, <2>1, FindIs DEF BundleId, BulkId
  <1>5. /\ one.id = BundleId(p) /\ one.path = p /\ one.block = Bundle(p, e, Length[b])
        /\ two.id = BulkId(p) /\ two.path = p /\ two.block = Bulk(b)
        /\ three.id = HeaderId /\ three.path = Absent /\ three.block = Header({p}, <<>>)
    BY DEF BundleId, BulkId
  <1>6. t.indexed => entries = {x \in Directory(t.ids) : x.slot \notin {}}
    BY <1>1, <1>3, IndexedEntries DEF Entries, Table
  <1>7. SlotsOf(t, "header") # {} =>
          header \in Live(t) /\ t.ids[header] = HeaderId /\ old = g[HeaderId] /\ HeaderId \in DOMAIN g
    <2> SUFFICES ASSUME SlotsOf(t, "header") # {}
                 PROVE  header \in Live(t) /\ t.ids[header] = HeaderId /\ old = g[HeaderId] /\ HeaderId \in DOMAIN g
      OBVIOUS
    <2>1. header \in Live(t) /\ t.ids[header] = HeaderId
      BY HeaderIs
    <2> QED
      BY <1>1, <1>3, <2>1, ReadIs DEF ReadChunk, ReadIn, LiveIds
  <1>8. SlotsOf(t, "header") = {} => HeaderId \notin DOMAIN g
    BY <1>3, HeaderIs
  <1> HIDE DEF g, header, old, one, two, three, entries, Toc
  (* Both forms of the edit, by what they have in common. *)
  <1>9. ASSUME NEW additions, NEW replacements,
               Additions(t, additions), Replacements(t, replacements, {}),
               {1, 2} \subseteq DOMAIN additions, additions[1] = one, additions[2] = two,
               DOMAIN g \cup {additions[k].id : k \in DOMAIN additions}
                 = DOMAIN g \cup {BundleId(p), BulkId(p), HeaderId},
               \A k \in DOMAIN replacements : t.ids[replacements[k].slot] = HeaderId,
               \A f : ChartPlanned(g, f, t, additions, replacements, {}) =>
                 f[HeaderId] = StoreWith(g, p)
        PROVE  /\ PlannedEdit(ucas, t, unlisted, Toc(additions, replacements), Items(t, additions, replacements))
               /\ Checkable(ucas, t, unlisted, "duplicate", Toc(additions, replacements),
                            Items(t, additions, replacements), {}, {})
    <2> DEFINE items == Items(t, additions, replacements)
               toc == Toc(additions, replacements)
    <2>1. Sequence(items) /\ Len(items) # 0
      <3>1. Laid(t, additions, replacements, items)
        BY <1>3, <1>9, ItemsAre DEF Additions, Replacements, Live
      <3>2. 1 \in DOMAIN items
        BY <1>9, <3>1 DEF Laid
      <3>3. Sequence(items) /\ DOMAIN items = 1 .. Len(items)
        BY <3>1, SequenceIs DEF Laid
      <3> QED
        BY <3>2, <3>3
    <2>2. ASSUME NEW u, Written(u, ucas, items)
          PROVE  Sound(u, toc, unlisted) /\ Edited(g, Chart(u, toc))
      <3> DEFINE f == Chart(u, toc)
      <3>1. Table(toc) /\ Within(toc, Len(u)) /\ ChartPlanned(g, f, t, additions, replacements, {})
        <4>1. toc = PlanTocAppend(t, additions, replacements, {}, entries)
          BY DEF Toc
        <4> HIDE DEF toc
        <4>2. {} \in SUBSET Live(t)
          OBVIOUS
        <4> QED
          BY <1>6, <1>9, <2>2, <4>1, <4>2, GuardedChart DEF g
      <3>2. f = [id \in DOMAIN f |-> f[id]]
        BY ChartIsFunction
      <3> HIDE DEF f, toc, items
      <3>3. DOMAIN f = DOMAIN g \cup {BundleId(p), BulkId(p), HeaderId}
        BY <1>9, <3>1 DEF ChartPlanned
      <3>4. f[BundleId(p)] = Bundle(p, e, Length[b]) /\ f[BulkId(p)] = Bulk(b)
        BY <1>5, <1>9, <3>1 DEF ChartPlanned
      <3>5. f[HeaderId] = StoreWith(g, p)
        BY <1>9, <3>1
      <3>6. \A id \in DOMAIN g : id # HeaderId => f[id] = g[id]
        BY <1>9, <3>1 DEF ChartPlanned
      <3>7. Coherent(f, unlisted) /\ Edited(g, f)
        <4>1. BundleId(p) \notin DOMAIN g /\ BulkId(p) \notin DOMAIN g /\ Coherent(g, unlisted)
          BY <1>3, <1>4
        <4> QED
          BY <3>2, <3>3, <3>4, <3>5, <3>6, <4>1, DuplicateChart
      <3> QED
        BY <3>1, <3>7 DEF Sound, f
    <2>3. PlannedEdit(ucas, t, unlisted, toc, items)
      BY <2>1, <2>2 DEF PlannedEdit, g
    <2>4. Checkable(ucas, t, unlisted, "duplicate", toc, items, {}, {})
      <3>1. toc = PlanTocAppend(t, additions, replacements, {}, entries)
        BY DEF Toc
      <3>2. Len(additions) \in Nat /\ DOMAIN additions = 1 .. Len(additions) /\ Len(replacements) \in Nat
        BY <1>9, SequenceIs DEF Additions, Replacements
      <3>3. Len(additions) + Len(replacements) # 0
        BY <1>9, <3>2
      <3>4. {} \in SUBSET Live(t)
        OBVIOUS
      <3> HIDE DEF toc
      <3> QED
        BY <1>6, <1>9, <3>1, <3>3, <3>4, GuardedCheckable
    <2> QED
      BY <2>3, <2>4
  <1>10. CASE SlotsOf(t, "header") = {}
    <2> DEFINE additions == Append(<<one, two>>, three)
    <2>1. Additions(t, additions)
      BY <1>3, <1>4, <1>5, <1>8, <1>10, DuplicateAdditions
    <2>2. /\ Sequence(<<one, two>>) /\ Len(<<one, two>>) = 2 /\ <<one, two>>[1] = one /\ <<one, two>>[2] = two
      BY PairIs
    <2>3. Sequence(additions) /\ Len(additions) = 3 /\ additions[1] = one /\ additions[2] = two /\ additions[3] = three
      BY <2>2, AppendIs
    <2> HIDE DEF additions
    <2>4. DOMAIN additions = {1, 2, 3}
      BY <2>3, SequenceIs
    <2>5. Sequence(<<>>) /\ DOMAIN <<>> = {}
      BY SingleIs
    <2>6. Replacements(t, <<>>, {})
      BY <2>5 DEF Replacements, DistinctSlots
    <2>7. {additions[k].id : k \in DOMAIN additions} = {BundleId(p), BulkId(p), HeaderId}
      BY <1>5, <2>3, <2>4
    <2>8. ASSUME NEW f, ChartPlanned(g, f, t, additions, <<>>, {})
          PROVE  f[HeaderId] = StoreWith(g, p)
      <3>1. f[additions[3].id] = additions[3].block
        BY <2>4, <2>8 DEF ChartPlanned
      <3> QED
        BY <1>5, <1>8, <1>10, <2>3, <3>1 DEF StoreWith
    <2>9. /\ PlannedEdit(ucas, t, unlisted, Toc(additions, <<>>), Items(t, additions, <<>>))
          /\ Checkable(ucas, t, unlisted, "duplicate", Toc(additions, <<>>), Items(t, additions, <<>>), {}, {})
      BY <1>9, <2>1, <2>3, <2>4, <2>5, <2>6, <2>7, <2>8
    <2> QED
      BY <1>2, <1>10, <2>9 DEF additions
  <1>11. CASE SlotsOf(t, "header") # {}
    <2>1. Additions(t, <<one, two>>)
      BY <1>3, <1>4, <1>5, DuplicateAdditions
    <2>2. /\ Sequence(<<one, two>>) /\ DOMAIN <<one, two>> = {1, 2} /\ <<one, two>>[1] = one /\ <<one, two>>[2] = two
      BY PairIs
    <2>3. /\ Sequence(updated) /\ DOMAIN updated = {1} /\ updated[1].slot = header
          /\ updated[1].block = [old EXCEPT !.store = @ \cup {p}]
      BY SingleIs
    <2> HIDE DEF updated
    <2>4. Replacements(t, updated, {})
      BY <1>7, <1>11, <2>3 DEF Replacements, DistinctSlots
    <2> DEFINE additions == <<one, two>>
    <2> HIDE DEF additions
    <2>5. {additions[k].id : k \in DOMAIN additions} = {BundleId(p), BulkId(p)}
      BY <1>5, <2>2 DEF additions
    <2>6. \A k \in DOMAIN updated : t.ids[updated[k].slot] = HeaderId
      BY <1>7, <1>11, <2>3
    <2>7. ASSUME NEW f, ChartPlanned(g, f, t, additions, updated, {})
          PROVE  f[HeaderId] = StoreWith(g, p)
      <3>1. f[t.ids[updated[1].slot]] = updated[1].block
        BY <2>3, <2>7 DEF ChartPlanned
      <3> QED
        BY <1>7, <1>11, <2>3, <3>1 DEF StoreWith
    <2>8. {1, 2} \subseteq DOMAIN additions /\ additions[1] = one /\ additions[2] = two /\ Additions(t, additions)
      BY <2>1, <2>2 DEF additions
    <2>9. DOMAIN g \cup {additions[k].id : k \in DOMAIN additions} = DOMAIN g \cup {BundleId(p), BulkId(p), HeaderId}
      BY <1>7, <1>11, <2>5
    <2>10. /\ PlannedEdit(ucas, t, unlisted, Toc(additions, updated), Items(t, additions, updated))
           /\ Checkable(ucas, t, unlisted, "duplicate", Toc(additions, updated), Items(t, additions, updated), {}, {})
      BY <1>9, <2>4, <2>6, <2>7, <2>8, <2>9
    <2> QED
      BY <1>2, <1>11, <2>10 DEF additions, updated
  <1> QED
    BY <1>10, <1>11

(* A package has its bundle and, it may be, its bulk data; a rename goes   *)
(* through the two in the order of their slots.                            *)
LEMMA MembersAre ==
  ASSUME NEW t, NEW u, NEW W, Sound(u, t, W), NEW p \in Path
  PROVE  Members(t, p) = {i \in Live(t) : t.ids[i] \in {BundleId(p), BulkId(p)}}
  <1>1. ASSUME NEW i \in Slots(t), t.ids[i].pkg = p, t.ids[i].kind # "retired"
        PROVE  t.ids[i] \in {BundleId(p), BulkId(p)}
    <2>1. i \in Live(t)
      BY <1>1 DEF Live
    <2>2. t.ids[i] # HeaderId
      BY <1>1, StoreAssumption DEF HeaderId, ChunkId
    <2> QED
      BY <1>1, <2>1, <2>2, SlotHolds
  <1>2. \A i \in Slots(t) : t.ids[i] \in {BundleId(p), BulkId(p)} => t.ids[i].pkg = p /\ t.ids[i].kind # "retired"
    BY ChunkIdsAreIds
  <1> QED
    BY <1>1, <1>2 DEF Members, Live

Ordered(order, members) ==
  /\ Sequence(order) /\ {order[k] : k \in DOMAIN order} = members
  /\ \A j, k \in DOMAIN order : order[j] = order[k] => j = k

(* The order in which a rename appends: the members, each once. *)
LEMMA OrderIs ==
  ASSUME NEW members \in SUBSET Nat, NEW n \in Nat, members \subseteq 1 .. n,
         NEW x, NEW y, members = {x, y},
         NEW order, order = IF Cardinality(members) = 1 THEN <<Min(members)>> ELSE <<Min(members), Max(members)>>
  PROVE  Ordered(order, members)
  <1>1. CASE x = y
    <2>1. members = {x} /\ Cardinality({x}) = 1
      BY <1>1, FS_Singleton
    <2>2. Min(members) = x
      BY <2>1, MinOf
    <2>3. order = <<x>>
      BY <2>1, <2>2
    <2>4. Sequence(<<x>>) /\ DOMAIN <<x>> = {1} /\ <<x>>[1] = x
      BY SingleIs
    <2> QED
      BY <2>1, <2>3, <2>4 DEF Ordered
  <1>2. CASE x # y
    <2> DEFINE lo == Min(members)
               hi == Max(members)
    <2>1. Cardinality(members) # 1
      <3>1. IsFiniteSet({x}) /\ Cardinality({x}) = 1
        BY FS_Singleton
      <3>2. Cardinality({x} \cup {y}) = 1 + 1
        BY <1>2, <3>1, FS_AddElement
      <3>3. members = {x} \cup {y}
        OBVIOUS
      <3> QED
        BY <3>2, <3>3
    <2>2. lo \in members /\ hi \in members /\ \A k \in members : lo <= k /\ k <= hi
      BY MinOf, MaxOf
    <2> HIDE DEF lo, hi
    <2>3. lo # hi
      BY <1>2, <2>2
    <2>4. {lo, hi} = members
      BY <1>2, <2>2, <2>3
    <2>5. order = <<lo, hi>>
      BY <2>1 DEF lo, hi
    <2>6. Sequence(<<lo, hi>>) /\ DOMAIN <<lo, hi>> = {1, 2} /\ <<lo, hi>>[1] = lo /\ <<lo, hi>>[2] = hi
      BY PairIs
    <2> QED
      BY <2>3, <2>4, <2>5, <2>6 DEF Ordered
  <1> QED
    BY <1>1, <1>2

(* A retargeted id is that of the same kind of chunk at the new path. *)
LEMMA RetargetedIds ==
  ASSUME NEW p, NEW q
  PROVE  Retarget(BundleId(p), q) = BundleId(q) /\ Retarget(BulkId(p), q) = BulkId(q)
  BY DEF Retarget, BundleId, BulkId, ChunkId

(* The moved chunks are new ones. *)
LEMMA MovedAdditions ==
  ASSUME NEW t, NEW p \in Path, NEW q \in Path, NEW members, NEW order, Ordered(order, members),
         members \subseteq Live(t), \A i \in members : t.ids[i] \in {BundleId(p), BulkId(p)},
         \A i, j \in members : t.ids[i] = t.ids[j] => i = j,
         BundleId(q) \notin LiveIds(t), BulkId(q) \notin LiveIds(t),
         NEW additions, additions = [k \in DOMAIN order |-> additions[k]],
         \A k \in DOMAIN order : additions[k].id = Retarget(t.ids[order[k]], q) /\ additions[k].path = q
  PROVE  /\ Additions(t, additions) /\ DOMAIN additions = DOMAIN order
         /\ \A k \in DOMAIN order : /\ t.ids[order[k]] = BundleId(p) => additions[k].id = BundleId(q)
                                    /\ t.ids[order[k]] = BulkId(p) => additions[k].id = BulkId(q)
  <1>1. Sequence(order) /\ (\A k \in DOMAIN order : order[k] \in members)
        /\ \A j, k \in DOMAIN order : order[j] = order[k] => j = k
    BY DEF Ordered
  <1>2. Sequence(additions) /\ DOMAIN additions = DOMAIN order
    BY <1>1, SequenceIs, FunctionIsSequence
  <1>3. \A k \in DOMAIN order : /\ t.ids[order[k]] = BundleId(p) => additions[k].id = BundleId(q)
                                /\ t.ids[order[k]] = BulkId(p) => additions[k].id = BulkId(q)
                                /\ t.ids[order[k]] \in {BundleId(p), BulkId(p)}
    BY <1>1, RetargetedIds
  <1>4. ASSUME NEW j \in DOMAIN additions, NEW k \in DOMAIN additions, additions[j].id = additions[k].id PROVE j = k
    <2>1. t.ids[order[j]] = t.ids[order[k]]
      BY <1>2, <1>3, <1>4, IdsDiffer
    <2> QED
      BY <1>1, <1>2, <2>1
  <1>5. ASSUME NEW k \in DOMAIN additions
        PROVE  /\ additions[k].id \in Id /\ additions[k].id.kind # "retired" /\ additions[k].id \notin LiveIds(t)
               /\ additions[k].id.kind \in {"bundle", "bulk"} /\ additions[k].id.pkg = q /\ additions[k].path = q
    <2>1. additions[k].id \in {BundleId(q), BulkId(q)}
      BY <1>2, <1>3
    <2> QED
      BY <1>2, <2>1, ChunkIdsAreIds
  <1>6. Additions(t, additions)
    BY <1>2, <1>4, <1>5 DEF Additions
  <1> QED
    BY <1>2, <1>3, <1>6

(* The block of a moved chunk is one of its kind at the new path. *)
LEMMA MovedBlockIs ==
  ASSUME archive = utoc, Sound(ucas, utoc, unlisted), NEW i \in Live(utoc), NEW q, NEW b \in Body \cup {Absent}
  PROVE  /\ utoc.ids[i].kind = "bundle" => MovedBlock(i, q, b) = MovedBundle(Chart(ucas, utoc)[utoc.ids[i]], q, b)
         /\ utoc.ids[i].kind = "bulk" => MovedBlock(i, q, b) = MovedBulk(Chart(ucas, utoc)[utoc.ids[i]], b)
  <1> DEFINE old == ReadChunk(archive, i)
  <1>1. old = Chart(ucas, utoc)[utoc.ids[i]] /\ old = ucas[utoc.at[i]]
    BY ReadIs DEF ReadChunk, ReadIn
  <1> HIDE DEF old
  <1>2. utoc.ids[i].kind = "bundle" => old.kind = "bundle"
    BY <1>1, SlotHolds, BundleFields
  <1>3. utoc.ids[i].kind = "bulk" => old.kind = "bulk"
    BY <1>1, SlotHolds, BulkFields
  <1>4. MovedBlock(i, q, b) =
          CASE old.kind = "bundle" /\ b # Absent -> [old EXCEPT !.name = q, !.size = Length[b]]
            [] old.kind = "bundle" /\ b = Absent -> [old EXCEPT !.name = q]
            [] old.kind = "bulk" -> IF b # Absent THEN Bulk(b) ELSE old
    BY DEF MovedBlock, old
  <1>5. ASSUME utoc.ids[i].kind = "bundle" PROVE MovedBlock(i, q, b) = MovedBundle(old, q, b)
    <2>1. CASE b # Absent
      BY <1>2, <1>4, <1>5, <2>1 DEF MovedBundle
    <2>2. CASE b = Absent
      BY <1>2, <1>4, <1>5, <2>2 DEF MovedBundle
    <2> QED
      BY <2>1, <2>2
  <1>6. ASSUME utoc.ids[i].kind = "bulk" PROVE MovedBlock(i, q, b) = MovedBulk(old, b)
    <2>1. MovedBlock(i, q, b) = IF b # Absent THEN Bulk(b) ELSE old
      BY <1>3, <1>4, <1>6
    <2> QED
      BY <2>1 DEF MovedBulk
  <1> QED
    BY <1>1, <1>5, <1>6

(* RenamePackage plans a sound table that is an edit of the one there is. *)
LEMMA RenamePlanned ==
  ASSUME Sequence(ucas), Sound(ucas, utoc, unlisted), NEW p \in Path, NEW q \in Path,
         NEW b \in Body \cup {Absent}, NEW leave \in BOOLEAN, RenamePackage(p, q, b, leave)
  PROVE  \E how, toc, items, gone, asked :
           /\ Start(how, toc, items, gone, asked) /\ PlannedEdit(ucas, utoc, unlisted, toc, items)
           /\ Checkable(ucas, utoc, unlisted, how, toc, items, gone, asked)
  <1> DEFINE t == utoc
             g == Chart(ucas, t)
             members == Members(t, p)
             order == IF Cardinality(members) = 1 THEN <<Min(members)>> ELSE <<Min(members), Max(members)>>
             header == HeaderSlot(t)
             old == ReadChunk(archive, header)
             kept == RetargetRedirects(old.redirects, p, q)
             new == Header((old.store \ {p}) \cup {q}, IF leave THEN AddRedirect(kept, p, q) ELSE kept)
             additions == [k \in DOMAIN order |-> Moved(order[k], q, b)]
             replacements == <<[slot |-> header, block |-> new]>>
             entries == {e \in Entries(t) : e.slot \notin members}
             toc == PlanTocAppend(t, additions, replacements, members, entries)
             items == Items(t, additions, replacements)
             asked == IF leave THEN {[source |-> p, target |-> q]} ELSE {}
  <1>0. archive = utoc /\ Start("rename", toc, items, members, asked)
    BY DEF RenamePackage, Accepts, StartGuarded
  <1>1. /\ archive = utoc /\ p # q
        /\ Cardinality(members \cap SlotsOf(t, "bundle")) = 1
        /\ b # Absent => Cardinality(members \cap SlotsOf(t, "bulk")) = 1
        /\ Members(t, q) = {}
        /\ Cardinality(SlotsOf(t, "header")) = 1
    BY DEF RenamePackage, Accepts
  <1>2. Table(t) /\ DOMAIN g = LiveIds(t) /\ Coherent(g, unlisted)
    BY ChartDomainIs DEF Sound
  <1>3. Cardinality({}) = 0
    BY FS_EmptySet
  <1>4. header \in Live(t) /\ t.ids[header] = HeaderId
    <2>1. SlotsOf(t, "header") # {}
      BY <1>1, <1>3
    <2> QED
      BY <2>1, HeaderIs
  <1>5. old = g[HeaderId]
    BY <1>1, <1>4, ReadIs DEF ReadChunk, ReadIn
  <1>6. members = {i \in Live(t) : t.ids[i] \in {BundleId(p), BulkId(p)}}
    BY MembersAre
  <1>7. BundleId(q) \notin DOMAIN g /\ BulkId(q) \notin DOMAIN g
    <2>1. {i \in Live(t) : t.ids[i] \in {BundleId(q), BulkId(q)}} = {}
      BY <1>1, MembersAre
    <2> QED
      BY <1>2, <2>1 DEF LiveIds
  <1>8. \A i, j \in Live(t) : t.ids[i] = t.ids[j] => i = j
    BY <1>2 DEF Table
  <1>9. Len(t.ids) \in Nat /\ Live(t) \subseteq 1 .. Len(t.ids)
    BY <1>2, TableIs
  <1> HIDE DEF members
  <1>10. PICK x \in members : t.ids[x] = BundleId(p)
    <2>1. PICK x \in members : x \in SlotsOf(t, "bundle")
      BY <1>1, <1>3
    <2>2. t.ids[x].kind = "bundle" /\ t.ids[x] \in {BundleId(p), BulkId(p)}
      BY <1>6, <2>1 DEF SlotsOf
    <2> QED
      BY <2>2, ChunkIdsAreIds
  <1>11. b # Absent => \E y \in members : t.ids[y] = BulkId(p)
    <2> SUFFICES ASSUME b # Absent PROVE \E y \in members : t.ids[y] = BulkId(p)
      OBVIOUS
    <2>1. PICK y \in members : y \in SlotsOf(t, "bulk")
      BY <1>1, <1>3
    <2>2. t.ids[y].kind = "bulk" /\ t.ids[y] \in {BundleId(p), BulkId(p)}
      BY <1>6, <2>1 DEF SlotsOf
    <2> QED
      BY <2>2, ChunkIdsAreIds
  <1>12. PICK y \in members : IF \E i \in members : t.ids[i] = BulkId(p) THEN t.ids[y] = BulkId(p) ELSE y = x
    BY <1>10
  <1>13. members = {x, y}
    BY <1>6, <1>8, <1>10, <1>12
  <1>14. Ordered(order, members)
    <2>1. members \subseteq 1 .. Len(t.ids) /\ members \in SUBSET Nat
      BY <1>6, <1>9
    <2> HIDE DEF order
    <2>2. order = IF Cardinality(members) = 1 THEN <<Min(members)>> ELSE <<Min(members), Max(members)>>
      BY DEF order
    <2> QED
      BY <1>9, <1>13, <2>1, <2>2, OrderIs
  <1> HIDE DEF g, header, old, order
  <1>15. header \notin members
    BY <1>4, <1>6, IdsDiffer
  <1>16. Sequence(replacements) /\ DOMAIN replacements = {1} /\ replacements[1].slot = header /\ replacements[1].block = new
    BY SingleIs
  <1>25. \A r \in asked : LookupRedirect(new.redirects, r.source) = r.target
    <2>1. old.redirects \in Seq(Redirect)
      BY <1>2, <1>4, <1>5, ChunkAt DEF Coherent, Chunks, ChunkOK, IsHeader, LiveIds
    <2>2. kept \in Seq(Redirect)
      BY <2>1, RetargetedRedirects
    <2>3. new.redirects = IF leave THEN AddRedirect(kept, p, q) ELSE kept
      BY DEF Header
    <2> HIDE DEF kept, new
    <2>4. leave => LookupRedirect(new.redirects, p) = q
      BY <2>2, <2>3, AddedRedirect
    <2> QED
      BY <2>4
  <1> HIDE DEF replacements, new
  <1>17. Replacements(t, replacements, members)
    BY <1>4, <1>15, <1>16 DEF Replacements, DistinctSlots
  <1>18. /\ Additions(t, additions) /\ DOMAIN additions = DOMAIN order
         /\ \A k \in DOMAIN order : /\ t.ids[order[k]] = BundleId(p) => additions[k].id = BundleId(q)
                                    /\ t.ids[order[k]] = BulkId(p) => additions[k].id = BulkId(q)
    <2>1. \A k \in DOMAIN order : additions[k].id = Retarget(t.ids[order[k]], q) /\ additions[k].path = q
      BY DEF Moved
    <2>2. additions = [k \in DOMAIN order |-> additions[k]]
      OBVIOUS
    <2>3. /\ members \subseteq Live(t) /\ \A i \in members : t.ids[i] \in {BundleId(p), BulkId(p)}
          /\ \A i, j \in members : t.ids[i] = t.ids[j] => i = j
      BY <1>6, <1>8
    <2>4. BundleId(q) \notin LiveIds(t) /\ BulkId(q) \notin LiveIds(t)
      BY <1>2, <1>7
    <2> HIDE DEF additions
    <2> QED
      BY <1>14, <2>1, <2>2, <2>3, <2>4, MovedAdditions
  <1>19. \A k \in DOMAIN order : additions[k].block = MovedBlock(order[k], q, b)
    BY DEF Moved
  <1> HIDE DEF additions
  <1>20. t.indexed => entries = {e \in Directory(t.ids) : e.slot \notin members}
    BY <1>2, IndexedEntries
  <1>21. members \in SUBSET Live(t)
    BY <1>6
  <1> HIDE DEF entries
  <1>22. Sequence(items) /\ Len(items) # 0
    <2>1. Sequence(additions) /\ Sequence(replacements) /\ DistinctSlots(replacements)
          /\ \A k \in DOMAIN replacements : replacements[k].slot \in Slots(t)
      BY <1>17, <1>18 DEF Additions, Replacements, Live
    <2> HIDE DEF items
    <2>2. items = Items(t, additions, replacements)
      BY DEF items
    <2>3. Laid(t, additions, replacements, items)
      BY <1>2, <2>1, <2>2, ItemsAre
    <2>4. DOMAIN items # {}
      BY <1>16, <2>3 DEF Laid
    <2>5. Sequence(items) /\ DOMAIN items = 1 .. Len(items)
      BY <2>3, SequenceIs DEF Laid
    <2> QED
      BY <2>4, <2>5
  <1>23. ASSUME NEW u, Written(u, ucas, items)
         PROVE  Sound(u, toc, unlisted) /\ Edited(g, Chart(u, toc))
    <2> DEFINE f == Chart(u, toc)
    <2>1. Table(toc) /\ Within(toc, Len(u)) /\ ChartPlanned(g, f, t, additions, replacements, members)
      BY <1>17, <1>18, <1>20, <1>21, <1>23, GuardedChart DEF g
    <2>2. f = [id \in DOMAIN f |-> f[id]]
      BY ChartIsFunction
    <2> HIDE DEF f, toc
    <2>3. PICK kx \in DOMAIN order : order[kx] = x
      BY <1>14, <1>10 DEF Ordered
    <2>4. PICK ky \in DOMAIN order : order[ky] = y
      BY <1>14, <1>12 DEF Ordered
    <2>5. \A k \in DOMAIN order : order[k] \in {x, y}
      BY <1>13, <1>14 DEF Ordered
    <2>6. x \in Live(t) /\ y \in Live(t)
      BY <1>21
    <2>7. BulkId(p) \in DOMAIN g <=> t.ids[y] = BulkId(p)
      <3>1. BulkId(p) \in DOMAIN g => \E i \in members : t.ids[i] = BulkId(p)
        BY <1>2, <1>6 DEF LiveIds
      <3> QED
        BY <1>2, <1>12, <2>6, <3>1 DEF LiveIds
    <2>8. BundleId(p) \in DOMAIN g /\ HeaderId \in DOMAIN g
      BY <1>2, <1>4, <1>10, <2>6 DEF LiveIds
    <2>9. BulkId(p) \notin DOMAIN g => y = x
      BY <1>2, <1>6, <1>12 DEF LiveIds
    <2>10. {t.ids[i] : i \in members} = {BundleId(p)} \cup (IF BulkId(p) \in DOMAIN g THEN {BulkId(p)} ELSE {})
      BY <1>10, <1>13, <2>7, <2>9
    <2>11. additions[kx].id = BundleId(q) /\ (BulkId(p) \in DOMAIN g => additions[ky].id = BulkId(q))
      BY <1>10, <1>18, <2>3, <2>4, <2>7
    <2>12. {additions[k].id : k \in DOMAIN additions} = {BundleId(q)} \cup (IF BulkId(p) \in DOMAIN g THEN {BulkId(q)} ELSE {})
      <3>1. CASE BulkId(p) \notin DOMAIN g
        <4>1. \A k \in DOMAIN order : additions[k].id = BundleId(q)
          BY <1>10, <1>18, <2>5, <2>9, <3>1
        <4> QED
          BY <1>18, <2>3, <3>1, <4>1
      <3>2. CASE BulkId(p) \in DOMAIN g
        <4>1. \A k \in DOMAIN order : additions[k].id \in {BundleId(q), BulkId(q)}
          BY <1>10, <1>18, <2>5, <2>7, <3>2
        <4> QED
          BY <1>18, <2>3, <2>4, <2>11, <3>2, <4>1
      <3> QED
        BY <3>1, <3>2
    <2>13. DOMAIN f = MovedIds(DOMAIN g, p, q)
      <3>1. DOMAIN f = (DOMAIN g \ {t.ids[i] : i \in members}) \cup {additions[k].id : k \in DOMAIN additions}
        BY <2>1 DEF ChartPlanned
      <3> QED
        BY <2>10, <2>12, <3>1 DEF MovedIds
    <2>14. f[BundleId(q)] = MovedBundle(g[BundleId(p)], q, b)
      <3>1. f[BundleId(q)] = MovedBlock(x, q, b)
        BY <1>18, <1>19, <2>1, <2>3, <2>11 DEF ChartPlanned
      <3> QED
        BY <1>1, <1>10, <2>6, <3>1, MovedBlockIs, ChunkIdsAreIds DEF g
    <2>15. BulkId(p) \in DOMAIN g => f[BulkId(q)] = MovedBulk(g[BulkId(p)], b)
      <3> SUFFICES ASSUME BulkId(p) \in DOMAIN g PROVE f[BulkId(q)] = MovedBulk(g[BulkId(p)], b)
        OBVIOUS
      <3>1. f[BulkId(q)] = MovedBlock(y, q, b)
        BY <1>18, <1>19, <2>1, <2>4, <2>11 DEF ChartPlanned
      <3>2. utoc.ids[y] = BulkId(p)
        BY <2>7
      <3> QED
        BY <1>1, <2>6, <3>1, <3>2, MovedBlockIs, ChunkIdsAreIds DEF g
    <2>16. f[HeaderId] = MovedHeader(g[HeaderId], p, q, leave)
      <3>1. f[HeaderId] = new
        BY <1>4, <1>16, <2>1 DEF ChartPlanned
      <3> QED
        BY <1>5, <3>1 DEF new, MovedHeader
    <2>17. \A id \in DOMAIN g : id \notin {BundleId(p), BulkId(p), HeaderId} => f[id] = g[id]
      BY <1>4, <1>16, <2>1, <2>10 DEF ChartPlanned
    <2>18. b # Absent => BulkId(p) \in DOMAIN g
      BY <1>2, <1>11, <1>21 DEF LiveIds
    <2>19. Coherent(f, unlisted) /\ Edited(g, f)
      <3>1. Coherent(g, unlisted) /\ p # q
        BY <1>1, <1>2
      <3> QED
        BY <1>7, <2>2, <2>8, <2>13, <2>14, <2>15, <2>16, <2>17, <2>18, <3>1, RenameChart
    <2> QED
      BY <2>1, <2>19 DEF Sound, f
  <1>24. PlannedEdit(ucas, utoc, unlisted, toc, items)
    BY <1>22, <1>23 DEF PlannedEdit, g
  <1>26. Checkable(ucas, utoc, unlisted, "rename", toc, items, members, asked)
    <2>1. Len(replacements) = 1
      BY <1>16, SequenceIs
    <2>2. Len(additions) + Len(replacements) # 0
      BY <1>18, <2>1, SequenceIs DEF Additions
    <2> HIDE DEF entries, asked
    <2> QED
      BY <1>16, <1>17, <1>18, <1>20, <1>21, <1>25, <2>1, <2>2, GuardedCheckable
  <1> QED
    BY <1>0, <1>24, <1>26 DEF order, members, header, old, new, additions, replacements, entries

(* A bundle with another length is a bundle of the same package. *)
LEMMA BundleResized ==
  ASSUME NEW p, NEW block, IsBundle(p, block), NEW size \in Nat
  PROVE  IsBundle(p, [block EXCEPT !.size = size]) /\ [block EXCEPT !.size = size].size = size
  <1>1. IsBundle(p, [block EXCEPT !.size = size])
    BY DEF IsBundle, Bundle
  <1>2. [block EXCEPT !.size = size].size = size
    BY DEF IsBundle, Bundle
  <1> QED
    BY <1>1, <1>2

(* So is one with another export. *)
LEMMA BundleRebuilt ==
  ASSUME NEW p, NEW block, IsBundle(p, block), NEW e \in Export
  PROVE  IsBundle(p, [block EXCEPT !.export = e]) /\ [block EXCEPT !.export = e].size = block.size
  <1>1. IsBundle(p, [block EXCEPT !.export = e])
    BY DEF IsBundle, Bundle
  <1>2. [block EXCEPT !.export = e].size = block.size
    BY DEF IsBundle, Bundle
  <1> QED
    BY <1>1, <1>2

(* The store after a tag's bytes were replaced: of the other chunks only   *)
(* the wrapper may have changed, to the size the bytes have.               *)
TagReplaced(g, f, p, b) ==
  /\ f = [id \in DOMAIN f |-> f[id]] /\ DOMAIN f = DOMAIN g
  /\ f[BulkId(p)] = Bulk(b)
  /\ BundleId(p) \in DOMAIN g => IsBundle(p, f[BundleId(p)]) /\ f[BundleId(p)].size = Length[b]
  /\ \A id \in DOMAIN g : id \notin {BundleId(p), BulkId(p)} => f[id] = g[id]

(* A package's new body comes with a wrapper that has its length. *)
LEMMA OverwriteTagChart ==
  ASSUME NEW g, NEW W, Coherent(g, W), NEW p \in Path, NEW b \in Body, BulkId(p) \in DOMAIN g,
         NEW f, TagReplaced(g, f, p, b)
  PROVE  Coherent(f, W) /\ Edited(g, f)
  <1> USE DEF TagReplaced
  <1>1. Chunks(g) /\ Wrapped(g)
    BY DEF Coherent
  <1>2. \A r \in Path : BundleId(r) \in DOMAIN g => IsBundle(r, f[BundleId(r)])
    <2> SUFFICES ASSUME NEW r \in Path, BundleId(r) \in DOMAIN g PROVE IsBundle(r, f[BundleId(r)])
      OBVIOUS
    <2>1. r # p => f[BundleId(r)] = g[BundleId(r)]
      BY IdsDiffer
    <2> QED
      BY <1>1, <2>1, ChunkAt
  <1>3. \A r \in Path : BulkId(r) \in DOMAIN g => IsBulk(f[BulkId(r)])
    <2> SUFFICES ASSUME NEW r \in Path, BulkId(r) \in DOMAIN g PROVE IsBulk(f[BulkId(r)])
      OBVIOUS
    <2>1. r # p => f[BulkId(r)] = g[BulkId(r)]
      BY IdsDiffer
    <2>2. IsBulk(Bulk(b))
      BY DEF IsBulk, Bulk
    <2> QED
      BY <1>1, <2>1, <2>2, ChunkAt
  <1>4. HeaderId \in DOMAIN g => f[HeaderId] = g[HeaderId]
    BY IdsDiffer
  <1>5. Wrapped(f)
    <2> SUFFICES ASSUME NEW r \in Path, BundleId(r) \in DOMAIN f, BulkId(r) \in DOMAIN f
                 PROVE  f[BundleId(r)].size = Length[f[BulkId(r)].body]
      BY DEF Wrapped
    <2>1. CASE r = p
      BY <2>1 DEF Bulk
    <2>2. CASE r # p
      <3>1. f[BundleId(r)] = g[BundleId(r)] /\ f[BulkId(r)] = g[BulkId(r)]
        BY <2>2, IdsDiffer
      <3> QED
        BY <1>1, <3>1 DEF Wrapped
    <2> QED
      BY <2>1, <2>2
  <1> QED
    BY <1>2, <1>3, <1>4, <1>5, OverwriteChart

(* Rebuilt packages keep their paths, lengths and bulk data. *)
LEMMA OverwritePackagesChart ==
  ASSUME NEW g, NEW W, Coherent(g, W), NEW p \in Path, NEW q \in Path, NEW e \in Export,
         BundleId(p) \in DOMAIN g, BundleId(q) \in DOMAIN g,
         NEW f, f = [id \in DOMAIN f |-> f[id]], DOMAIN f = DOMAIN g,
         \A r \in {p, q} : f[BundleId(r)] = [g[BundleId(r)] EXCEPT !.export = e],
         \A id \in DOMAIN g : id \notin {BundleId(p), BundleId(q)} => f[id] = g[id]
  PROVE  Coherent(f, W) /\ Edited(g, f)
  <1>1. Chunks(g) /\ Wrapped(g)
    BY DEF Coherent
  <1>2. \A r \in Path : BundleId(r) \in DOMAIN g =>
          IsBundle(r, f[BundleId(r)]) /\ f[BundleId(r)].size = g[BundleId(r)].size
    <2> SUFFICES ASSUME NEW r \in Path, BundleId(r) \in DOMAIN g
                 PROVE  IsBundle(r, f[BundleId(r)]) /\ f[BundleId(r)].size = g[BundleId(r)].size
      OBVIOUS
    <2>1. IsBundle(r, g[BundleId(r)])
      BY <1>1, ChunkAt
    <2>2. CASE r \notin {p, q}
      <3>1. f[BundleId(r)] = g[BundleId(r)]
        BY <2>2, IdsDiffer
      <3> QED
        BY <2>1, <3>1
    <2>3. CASE r \in {p, q}
      <3>1. f[BundleId(r)] = [g[BundleId(r)] EXCEPT !.export = e]
        BY <2>3
      <3>2. /\ IsBundle(r, [g[BundleId(r)] EXCEPT !.export = e])
            /\ [g[BundleId(r)] EXCEPT !.export = e].size = g[BundleId(r)].size
        BY <2>1, BundleRebuilt
      <3> QED
        BY <3>1, <3>2
    <2> QED
      BY <2>2, <2>3
  <1>3. \A r \in Path : BulkId(r) \in DOMAIN g => f[BulkId(r)] = g[BulkId(r)] /\ IsBulk(f[BulkId(r)])
    BY <1>1, IdsDiffer, ChunkAt
  <1>4. HeaderId \in DOMAIN g => f[HeaderId] = g[HeaderId]
    BY IdsDiffer
  <1>5. Wrapped(f)
    BY <1>1, <1>2, <1>3 DEF Wrapped
  <1> QED
    BY <1>2, <1>3, <1>4, <1>5, OverwriteChart

-----------------------------------------------------------------------------
(* OverwriteTag plans a sound table that is an edit of the one there is. *)
LEMMA OverwriteTagPlanned ==
  ASSUME Sequence(ucas), Sound(ucas, utoc, unlisted), NEW p \in Path, NEW b \in Body, OverwriteTag(p, b)
  PROVE  \E how, toc, items, gone, asked :
           /\ Start(how, toc, items, gone, asked) /\ PlannedEdit(ucas, utoc, unlisted, toc, items)
           /\ Checkable(ucas, utoc, unlisted, how, toc, items, gone, asked)
  <1> DEFINE t == utoc
             g == Chart(ucas, t)
  <1>1. archive = utoc
    BY DEF OverwriteTag
  <1>2. PICK ubulk \in Listed(archive, p, "bulk") :
          LET old == Length[ReadChunk(archive, ubulk.slot).body]
              body == [slot |-> ubulk.slot, block |-> Bulk(b)]
          IN \/ /\ Length[b] = old
                /\ Start("chunks", PlanOverwrite(utoc, <<body>>), <<body>>, {}, {})
             \/ /\ Length[b] # old
                /\ \E uasset \in Listed(archive, p, "bundle") :
                     LET wrapper == ReadChunk(archive, uasset.slot)
                         items == <<body, [slot |-> uasset.slot, block |-> [wrapper EXCEPT !.size = Length[b]]]>>
                     IN /\ wrapper.size = old
                        /\ Start("chunks", PlanOverwrite(utoc, items), items, {}, {})
    BY DEF OverwriteTag
  <1> DEFINE old == Length[ReadChunk(archive, ubulk.slot).body]
             body == [slot |-> ubulk.slot, block |-> Bulk(b)]
  <1>3. ubulk.slot \in Live(t) /\ t.ids[ubulk.slot] = BulkId(p)
    BY <1>1, EntryIs DEF Listed
  <1>4. Table(t) /\ Coherent(g, unlisted) /\ DOMAIN g = LiveIds(t) /\ BulkId(p) \in DOMAIN g
    BY <1>3, ChartDomainIs DEF Sound, LiveIds
  <1>5. old = Length[g[BulkId(p)].body]
    BY <1>1, <1>3, ReadIs DEF ReadChunk, ReadIn
  <1>6. body.slot = ubulk.slot /\ body.block = Bulk(b)
    OBVIOUS
  <1>7. Length[b] \in Nat /\ Chunks(g) /\ Wrapped(g)
    BY <1>4, StoreAssumption DEF Coherent
  <1> HIDE DEF g
  <1>8. CASE Length[b] = old /\ Start("chunks", PlanOverwrite(utoc, <<body>>), <<body>>, {}, {})
    <2> DEFINE items == <<body>>
               toc == PlanOverwrite(t, items)
    <2>1. Sequence(items) /\ Len(items) = 1 /\ DOMAIN items = {1} /\ items[1] = body
      BY SingleIs
    <2> HIDE DEF items, body
    <2>2. DistinctSlots(items) /\ \A k \in DOMAIN items : items[k].slot \in Live(t)
      BY <1>3, <1>6, <2>1 DEF DistinctSlots
    <2>3. ASSUME NEW u, Written(u, ucas, items) PROVE Sound(u, toc, unlisted) /\ Edited(g, Chart(u, toc))
      <3> DEFINE f == Chart(u, toc)
      <3> HIDE DEF toc
      <3>1. toc = PlanOverwrite(t, items)
        BY DEF toc
      <3>2. /\ Table(toc) /\ Within(toc, Len(u)) /\ DOMAIN f = DOMAIN g
            /\ \A k \in DOMAIN items : f[t.ids[items[k].slot]] = items[k].block
            /\ \A id \in DOMAIN g : (\A k \in DOMAIN items : t.ids[items[k].slot] # id) => f[id] = g[id]
        BY <2>1, <2>2, <2>3, <3>1, OverwritePlanned DEF g
      <3>3. f = [id \in DOMAIN f |-> f[id]]
        BY ChartIsFunction
      <3> HIDE DEF f
      <3>4. f[BulkId(p)] = Bulk(b)
        BY <1>3, <1>6, <2>1, <3>2
      <3>5. \A id \in DOMAIN g : id \notin {BundleId(p), BulkId(p)} => f[id] = g[id]
        BY <1>3, <1>6, <2>1, <3>2
      <3>8. \A id \in DOMAIN g : id # BulkId(p) => f[id] = g[id]
        BY <1>3, <1>6, <2>1, <3>2
      <3>6. BundleId(p) \in DOMAIN g => IsBundle(p, f[BundleId(p)]) /\ f[BundleId(p)].size = Length[b]
        <4> SUFFICES ASSUME BundleId(p) \in DOMAIN g PROVE IsBundle(p, f[BundleId(p)]) /\ f[BundleId(p)].size = Length[b]
          OBVIOUS
        <4>1. f[BundleId(p)] = g[BundleId(p)]
          BY <3>8, IdsDiffer
        <4>2. g[BundleId(p)].size = Length[g[BulkId(p)].body] /\ IsBundle(p, g[BundleId(p)])
          BY <1>4, <1>7, ChunkAt DEF Wrapped
        <4> QED
          BY <1>5, <1>8, <4>1, <4>2
      <3>7. Coherent(f, unlisted) /\ Edited(g, f)
        <4>1. TagReplaced(g, f, p, b)
          BY <3>2, <3>3, <3>4, <3>5, <3>6 DEF TagReplaced
        <4> QED
          BY <1>4, <4>1, OverwriteTagChart
      <3> QED
        BY <3>2, <3>7 DEF Sound, f
    <2>4. PlannedEdit(ucas, utoc, unlisted, toc, items)
      BY <2>1, <2>3 DEF PlannedEdit, g
    <2>5. Checkable(ucas, utoc, unlisted, "chunks", toc, items, {}, {})
      BY <2>1 DEF Checkable, Verifies
    <2> QED
      BY <1>8, <2>4, <2>5 DEF items
  <1>9. CASE \E uasset \in Listed(archive, p, "bundle") :
               LET wrapper == ReadChunk(archive, uasset.slot)
                   items == <<body, [slot |-> uasset.slot, block |-> [wrapper EXCEPT !.size = Length[b]]]>>
               IN wrapper.size = old /\ Start("chunks", PlanOverwrite(utoc, items), items, {}, {})
    <2>1. PICK uasset \in Listed(archive, p, "bundle") :
               LET wrapper == ReadChunk(archive, uasset.slot)
                   items == <<body, [slot |-> uasset.slot, block |-> [wrapper EXCEPT !.size = Length[b]]]>>
               IN wrapper.size = old /\ Start("chunks", PlanOverwrite(utoc, items), items, {}, {})
      BY <1>9
    <2> DEFINE wrapper == ReadChunk(archive, uasset.slot)
               patched == [slot |-> uasset.slot, block |-> [wrapper EXCEPT !.size = Length[b]]]
               items == <<body, patched>>
               toc == PlanOverwrite(t, items)
    <2>2. Start("chunks", toc, items, {}, {})
      BY <2>1
    <2>3. uasset.slot \in Live(t) /\ t.ids[uasset.slot] = BundleId(p)
      BY <1>1, EntryIs DEF Listed
    <2>4. wrapper = g[BundleId(p)] /\ BundleId(p) \in DOMAIN g
      BY <1>1, <1>4, <2>3, ReadIs DEF ReadChunk, ReadIn, LiveIds, g
    <2>5. patched.slot = uasset.slot /\ patched.block = [g[BundleId(p)] EXCEPT !.size = Length[b]]
      BY <2>4
    <2>6. Sequence(items) /\ Len(items) = 2 /\ DOMAIN items = {1, 2} /\ items[1] = body /\ items[2] = patched
      BY PairIs
    <2> HIDE DEF items, body, patched, wrapper
    <2>7. DistinctSlots(items) /\ \A k \in DOMAIN items : items[k].slot \in Live(t)
      BY <1>3, <1>6, <2>3, <2>5, <2>6, IdsDiffer DEF DistinctSlots
    <2>8. ASSUME NEW u, Written(u, ucas, items) PROVE Sound(u, toc, unlisted) /\ Edited(g, Chart(u, toc))
      <3> DEFINE f == Chart(u, toc)
      <3> HIDE DEF toc
      <3>1. toc = PlanOverwrite(t, items)
        BY DEF toc
      <3>2. /\ Table(toc) /\ Within(toc, Len(u)) /\ DOMAIN f = DOMAIN g
            /\ \A k \in DOMAIN items : f[t.ids[items[k].slot]] = items[k].block
            /\ \A id \in DOMAIN g : (\A k \in DOMAIN items : t.ids[items[k].slot] # id) => f[id] = g[id]
        BY <2>6, <2>7, <2>8, <3>1, OverwritePlanned DEF g
      <3>3. f = [id \in DOMAIN f |-> f[id]]
        BY ChartIsFunction
      <3> HIDE DEF f
      <3>4. f[BulkId(p)] = Bulk(b) /\ f[BundleId(p)] = [g[BundleId(p)] EXCEPT !.size = Length[b]]
        BY <1>3, <1>6, <2>3, <2>5, <2>6, <3>2
      <3>5. \A id \in DOMAIN g : id \notin {BundleId(p), BulkId(p)} => f[id] = g[id]
        BY <1>3, <1>6, <2>3, <2>5, <2>6, <3>2
      <3>6. IsBundle(p, f[BundleId(p)]) /\ f[BundleId(p)].size = Length[b]
        <4>1. IsBundle(p, g[BundleId(p)])
          BY <1>7, <2>4, ChunkAt
        <4> QED
          BY <1>7, <3>4, <4>1, BundleResized
      <3>7. f[BulkId(p)] = Bulk(b) /\ DOMAIN f = DOMAIN g
        BY <3>2, <3>4
      <3>8. BundleId(p) \in DOMAIN g => IsBundle(p, f[BundleId(p)]) /\ f[BundleId(p)].size = Length[b]
        BY <3>6
      <3>9. Coherent(f, unlisted) /\ Edited(g, f)
        <4>1. TagReplaced(g, f, p, b)
          BY <3>3, <3>5, <3>7, <3>8 DEF TagReplaced
        <4> QED
          BY <1>4, <4>1, OverwriteTagChart
      <3> QED
        BY <3>2, <3>9 DEF Sound, f
    <2>9. PlannedEdit(ucas, utoc, unlisted, toc, items)
      BY <2>6, <2>8 DEF PlannedEdit, g
    <2>10. Checkable(ucas, utoc, unlisted, "chunks", toc, items, {}, {})
      BY <2>6 DEF Checkable, Verifies
    <2> QED
      BY <2>2, <2>9, <2>10
  <1> QED
    BY <1>2, <1>8, <1>9

(* So does OverwritePackages. *)
LEMMA OverwritePackagesPlanned ==
  ASSUME Sequence(ucas), Sound(ucas, utoc, unlisted), NEW p \in Path, NEW q \in Path, NEW e \in Export,
         OverwritePackages(p, q, e)
  PROVE  \E how, toc, items, gone, asked :
           /\ Start(how, toc, items, gone, asked) /\ PlannedEdit(ucas, utoc, unlisted, toc, items)
           /\ Checkable(ucas, utoc, unlisted, how, toc, items, gone, asked)
  <1> DEFINE t == utoc
             g == Chart(ucas, t)
             header == HeaderSlot(archive)
             Rebuilt(uasset) == [slot |-> uasset.slot, block |-> [ReadChunk(archive, uasset.slot) EXCEPT !.export = e]]
             same == [slot |-> header, block |-> ReadChunk(archive, header)]
  <1>1. archive = utoc /\ SlotsOf(archive, "header") # {}
    BY DEF OverwritePackages
  <1>21. {p, q} \subseteq ReadChunk(archive, header).store
    BY ZenonT(60) DEF OverwritePackages
  <1>2. \E first \in Listed(archive, p, "bundle"), last \in Listed(archive, q, "bundle") :
          LET packages == IF p = q THEN <<Rebuilt(first)>> ELSE <<Rebuilt(first), Rebuilt(last)>>
              items == Append(packages, same)
          IN Start("packages", PlanOverwrite(utoc, items), items, {}, {})
    BY ZenonT(60) DEF OverwritePackages
  <1>20. PICK first \in Listed(archive, p, "bundle"), last \in Listed(archive, q, "bundle") :
          LET packages == IF p = q THEN <<Rebuilt(first)>> ELSE <<Rebuilt(first), Rebuilt(last)>>
              items == Append(packages, same)
          IN Start("packages", PlanOverwrite(utoc, items), items, {}, {})
    BY <1>2
  <1> DEFINE packages == IF p = q THEN <<Rebuilt(first)>> ELSE <<Rebuilt(first), Rebuilt(last)>>
             items == Append(packages, same)
             toc == PlanOverwrite(t, items)
  <1>3. Start("packages", toc, items, {}, {})
    BY <1>20
  <1>4. /\ first.slot \in Live(t) /\ t.ids[first.slot] = BundleId(p)
        /\ last.slot \in Live(t) /\ t.ids[last.slot] = BundleId(q)
    BY <1>1, EntryIs DEF Listed
  <1>5. header \in Live(t) /\ t.ids[header] = HeaderId
    BY <1>1, HeaderIs
  <1>6. Table(t) /\ Coherent(g, unlisted) /\ Chunks(g) /\ DOMAIN g = LiveIds(t)
    BY ChartDomainIs DEF Sound, Coherent
  <1>7. BundleId(p) \in DOMAIN g /\ BundleId(q) \in DOMAIN g
    BY <1>4, <1>6 DEF LiveIds
  <1>8. /\ Rebuilt(first).slot = first.slot /\ Rebuilt(first).block = [g[BundleId(p)] EXCEPT !.export = e]
        /\ Rebuilt(last).slot = last.slot /\ Rebuilt(last).block = [g[BundleId(q)] EXCEPT !.export = e]
        /\ same.slot = header /\ same.block = g[HeaderId]
    BY <1>1, <1>4, <1>5, ReadIs DEF ReadChunk, ReadIn
  <1>22. {p, q} \subseteq same.block.store
    BY <1>21
  <1> HIDE DEF g, header, Rebuilt, same
  <1>9. /\ Sequence(items) /\ Len(items) # 0
        /\ \A k \in DOMAIN items : items[k] \in {Rebuilt(first), Rebuilt(last), same}
        /\ p = q => \A k \in DOMAIN items : items[k] \in {Rebuilt(first), same}
        /\ \E k \in DOMAIN items : items[k] = Rebuilt(first)
        /\ p # q => \E k \in DOMAIN items : items[k] = Rebuilt(last)
        /\ \E k \in DOMAIN items : items[k] = same
        /\ items[Len(items)] = same
        /\ \A j, k \in DOMAIN items : items[j] = items[k] =>
             j = k \/ Rebuilt(first) = same \/ Rebuilt(last) = same \/ (p # q /\ Rebuilt(first) = Rebuilt(last))
    <2>1. CASE p = q
      <3>1. Sequence(<<Rebuilt(first)>>) /\ Len(<<Rebuilt(first)>>) = 1 /\ <<Rebuilt(first)>>[1] = Rebuilt(first)
        BY SingleIs
      <3>2. items = Append(<<Rebuilt(first)>>, same)
        BY <2>1
      <3>3. Sequence(items) /\ Len(items) = 2 /\ items[1] = Rebuilt(first) /\ items[2] = same
        BY <3>1, <3>2, AppendIs
      <3> HIDE DEF items
      <3>4. DOMAIN items = {1, 2}
        BY <3>3, SequenceIs
      <3> QED
        BY <2>1, <3>3, <3>4
    <2>2. CASE p # q
      <3>1. /\ Sequence(<<Rebuilt(first), Rebuilt(last)>>) /\ Len(<<Rebuilt(first), Rebuilt(last)>>) = 2
            /\ <<Rebuilt(first), Rebuilt(last)>>[1] = Rebuilt(first) /\ <<Rebuilt(first), Rebuilt(last)>>[2] = Rebuilt(last)
        BY PairIs
      <3>2. items = Append(<<Rebuilt(first), Rebuilt(last)>>, same)
        BY <2>2
      <3>3. Sequence(items) /\ Len(items) = 3 /\ items[1] = Rebuilt(first) /\ items[2] = Rebuilt(last) /\ items[3] = same
        BY <3>1, <3>2, AppendIs
      <3> HIDE DEF items
      <3>4. DOMAIN items = {1, 2, 3}
        BY <3>3, SequenceIs
      <3> QED
        BY <2>2, <3>3, <3>4
    <2> QED
      BY <2>1, <2>2
  <1> HIDE DEF items
  <1>10. \A j, k \in DOMAIN items : t.ids[items[j].slot] = t.ids[items[k].slot] => items[j] = items[k]
    <2>1. CASE p = q
      BY <1>4, <1>5, <1>8, <1>9, <2>1, IdsDiffer
    <2>2. CASE p # q
      BY <1>4, <1>5, <1>8, <1>9, <2>2, IdsDiffer
    <2> QED
      BY <2>1, <2>2
  <1>11. Rebuilt(first) # same /\ Rebuilt(last) # same /\ (p # q => Rebuilt(first) # Rebuilt(last))
    BY <1>4, <1>5, <1>8, IdsDiffer
  <1>12. DistinctSlots(items) /\ \A k \in DOMAIN items : items[k].slot \in Live(t)
    BY <1>4, <1>5, <1>8, <1>9, <1>10, <1>11 DEF DistinctSlots
  <1>13. ASSUME NEW u, Written(u, ucas, items) PROVE Sound(u, toc, unlisted) /\ Edited(g, Chart(u, toc))
    <2> DEFINE f == Chart(u, toc)
    <2> HIDE DEF toc
    <2>1. toc = PlanOverwrite(t, items)
      BY DEF toc
    <2>2. /\ Table(toc) /\ Within(toc, Len(u)) /\ DOMAIN f = DOMAIN g
          /\ \A k \in DOMAIN items : f[t.ids[items[k].slot]] = items[k].block
          /\ \A id \in DOMAIN g : (\A k \in DOMAIN items : t.ids[items[k].slot] # id) => f[id] = g[id]
      BY <1>9, <1>12, <1>13, <2>1, OverwritePlanned DEF g
    <2>3. f = [id \in DOMAIN f |-> f[id]]
      BY ChartIsFunction
    <2> HIDE DEF f
    <2>4. f[BundleId(p)] = [g[BundleId(p)] EXCEPT !.export = e]
      BY <1>4, <1>8, <1>9, <2>2
    <2>5. f[BundleId(q)] = [g[BundleId(q)] EXCEPT !.export = e]
      <3>1. CASE p = q
        BY <2>4, <3>1
      <3>2. CASE p # q
        BY <1>4, <1>8, <1>9, <2>2, <3>2
      <3> QED
        BY <3>1, <3>2
    <2>6. f[HeaderId] = g[HeaderId]
      BY <1>5, <1>8, <1>9, <2>2
    <2>7. \A id \in DOMAIN g : id \notin {BundleId(p), BundleId(q)} => f[id] = g[id]
      BY <1>4, <1>5, <1>8, <1>9, <2>2, <2>6
    <2>8. \A r \in {p, q} : f[BundleId(r)] = [g[BundleId(r)] EXCEPT !.export = e]
      BY <2>4, <2>5
    <2>9. Coherent(f, unlisted) /\ Edited(g, f)
      BY <1>6, <1>7, <2>2, <2>3, <2>7, <2>8, OverwritePackagesChart
    <2> QED
      BY <2>2, <2>9 DEF Sound, f
  <1>14. PlannedEdit(ucas, utoc, unlisted, toc, items)
    BY <1>9, <1>13 DEF PlannedEdit, g
  <1>15. Checkable(ucas, utoc, unlisted, "packages", toc, items, {}, {})
    <2> SUFFICES ASSUME NEW u, Written(u, ucas, items), Sound(u, toc, unlisted)
                 PROVE  Verifies(u, "packages", t, toc, items, {}, {})
      BY DEF Checkable
    <2>1. Len(items) \in Nat /\ DOMAIN items = 1 .. Len(items)
      BY <1>9, SequenceIs
    <2>2. toc.ids = t.ids /\ toc.at = [i \in Slots(t) |-> SlotBlock(t, items, {}, i)]
      BY <1>6 DEF PlanOverwrite, Table, Whole
    <2>3. Table(toc) /\ Slots(toc) = Slots(t)
      BY <2>2 DEF Sound, Slots
    <2> HIDE DEF toc
    <2>4. \A k \in DOMAIN items : items[k].slot \in Slots(toc) /\ toc.at[items[k].slot] = Len(ucas) + k
      BY <1>9, <1>12, <2>2, <2>3, SlotBlockIs DEF Live
    <2>5. \A k \in DOMAIN items : FoundIn(toc, items, k) # 0 /\ ReadIn(u, toc, FoundIn(toc, items, k)) = items[k].block
      BY <1>9, <2>3, <2>4, ItemIsRead
    <2>6. ASSUME NEW k \in 1 .. Len(items) - 1
          PROVE  toc.ids[items[k].slot].pkg \in items[Len(items)].block.store
      <3>1. k \in DOMAIN items /\ Len(items) \in DOMAIN items /\ k # Len(items)
        <4> DEFINE n == Len(items)
        <4>1. n \in Nat /\ DOMAIN items = 1 .. n /\ k \in 1 .. n - 1
          BY <2>1, <2>6
        <4> HIDE DEF n
        <4>2. k \in 1 .. n /\ n \in 1 .. n /\ k # n
          BY <4>1
        <4>3. k \in DOMAIN items /\ n \in DOMAIN items
          BY <4>1, <4>2
        <4> QED
          BY <4>2, <4>3 DEF n
      <3>2. items[k] \in {Rebuilt(first), Rebuilt(last)}
        BY <1>9, <1>11, <3>1
      <3>3. t.ids[items[k].slot].pkg \in {p, q}
        BY <1>4, <1>8, <3>2, ChunkIdsAreIds
      <3> QED
        BY <1>9, <1>22, <2>2, <3>3
    <2>7. Len(items) \in DOMAIN items
      BY <1>9, <2>1
    <2> QED
      BY <2>5, <2>6, <2>7 DEF Verifies
  <1> QED
    BY <1>3, <1>14, <1>15

(* Whatever edit starts, its plan is a sound table and an edit of the file's. *)
LEMMA EditPlanned ==
  ASSUME Sequence(ucas), Sound(ucas, utoc, unlisted), Edit
  PROVE  \E how, toc, items, gone, asked :
           /\ Start(how, toc, items, gone, asked) /\ PlannedEdit(ucas, utoc, unlisted, toc, items)
           /\ Checkable(ucas, utoc, unlisted, how, toc, items, gone, asked)
  BY DuplicatePlanned, DeletePlanned, RenamePlanned, OverwriteTagPlanned, OverwritePackagesPlanned DEF Edit

-----------------------------------------------------------------------------
(* u is the file with the blocks that are still to be written after it.    *)
Remaining(u, file, items, done) ==
  /\ Sequence(u) /\ Len(u) = Len(file) + (Len(items) - done)
  /\ \A k \in 1 .. Len(file) : u[k] = file[k]
  /\ \A k \in 1 .. Len(items) : k > done => u[Len(file) + (k - done)] = items[k].block

(* The edit under way can go back to its original table, and, while its    *)
(* blocks are being written, to a sound table that is an edit of it and    *)
(* that its checks accept.                                                 *)
Planned(file, o, W) ==
  \A u : Remaining(u, file, o.items, o.done) =>
    /\ Sound(u, o.toc, W) /\ Edited(Chart(file, o.original), Chart(u, o.toc))
    /\ Verifies(u, o.how, o.original, o.toc, o.items, o.gone, o.asked)
Climbing(file, o, W) ==
  /\ Sequence(o.items) /\ o.done \in 0 .. Len(o.items)
  /\ Sound(file, o.original, W) /\ TocOK(o.toc)
  /\ o.phase = "append" => o.done < Len(o.items)
  /\ o.phase = "replace" => o.done = Len(o.items)
  /\ o.phase \in {"append", "replace"} => Planned(file, o, W)
  /\ o.phase = "validate" =>
       o.how # "chunks" /\ Verifies(file, o.how, o.original, o.toc, o.items, o.gone, o.asked)

Tables ==
  /\ Sequence(ucas)
  /\ utoc # Torn => Sound(ucas, utoc, unlisted)
  /\ TocOK(archive)
  /\ unlisted \subseteq Path
  /\ op # Idle => Climbing(ucas, op, unlisted)
Counts == edits \in 0 .. MaxEdits /\ faults \in Nat
Results == outcome \in {"none", "ok", "error"}

(* The file with the blocks of the items after it is one.                  *)
LEMMA FileWritten ==
  ASSUME NEW file, NEW items, Sequence(file), Sequence(items)
  PROVE  \E u : Written(u, file, items)
  <1> DEFINE new == [k \in 1 .. Len(items) |-> items[k].block]
             u == file \o new
  <1>1. Len(items) \in Nat /\ DOMAIN items = 1 .. Len(items)
    BY SequenceIs
  <1>2. Sequence(new) /\ Len(new) = Len(items)
    BY <1>1, FunctionIsSequence
  <1>3. \A k \in DOMAIN items : new[k] = items[k].block
    BY <1>1
  <1> HIDE DEF new
  <1>4. /\ Sequence(u) /\ Len(u) = Len(file) + Len(new)
        /\ \A k \in 1 .. Len(file) : u[k] = file[k]
        /\ \A k \in 1 .. Len(new) : u[Len(file) + k] = new[k]
    BY <1>2, JoinIs
  <1> HIDE DEF u
  <1>5. Written(u, file, items)
    BY <1>1, <1>2, <1>3, <1>4 DEF Written
  <1> QED
    BY <1>5

(* What is left to write at the start is all of it, at the end nothing.    *)
LEMMA RemainingAtStart ==
  ASSUME NEW u, NEW file, NEW items, Sequence(file), Sequence(items), Remaining(u, file, items, 0)
  PROVE  Written(u, file, items)
  <1>1. Len(items) \in Nat /\ DOMAIN items = 1 .. Len(items) /\ Len(file) \in Nat
    BY SequenceIs
  <1>2. Len(u) = Len(file) + Len(items)
    BY <1>1 DEF Remaining
  <1>3. \A k \in DOMAIN items : u[Len(file) + k] = items[k].block
    <2> SUFFICES ASSUME NEW k \in DOMAIN items PROVE u[Len(file) + k] = items[k].block
      OBVIOUS
    <2>1. k > 0 /\ k - 0 = k /\ k \in 1 .. Len(items)
      BY <1>1
    <2> QED
      BY <2>1 DEF Remaining
  <1> QED
    BY <1>2, <1>3 DEF Written, Remaining

(* When everything is written the file is what it was to become. *)
LEMMA NothingRemains ==
  ASSUME NEW file, NEW items, Sequence(file), Sequence(items)
  PROVE  Remaining(file, file, items, Len(items))
  <1>1. Len(items) \in Nat /\ Len(file) \in Nat
    BY SequenceIs
  <1> QED
    BY <1>1 DEF Remaining

(* An append writes the first block of what is left.                       *)
LEMMA AppendRemains ==
  ASSUME NEW file, NEW items, NEW done, Sequence(file), Sequence(items), done \in 0 .. Len(items), done < Len(items),
         NEW u, Remaining(u, Append(file, items[done + 1].block), items, done + 1)
  PROVE  Remaining(u, file, items, done)
  <1> DEFINE block == items[done + 1].block
             longer == Append(file, block)
  <1>1. Len(items) \in Nat /\ Len(file) \in Nat /\ done \in Nat
    BY SequenceIs
  <1>2. /\ Len(longer) = Len(file) + 1
        /\ \A k \in 1 .. Len(file) : longer[k] = file[k]
        /\ longer[Len(file) + 1] = block
    BY AppendIs
  <1>3. /\ Sequence(u) /\ Len(u) = Len(longer) + (Len(items) - (done + 1))
        /\ \A k \in 1 .. Len(longer) : u[k] = longer[k]
        /\ \A k \in 1 .. Len(items) : k > done + 1 => u[Len(longer) + (k - (done + 1))] = items[k].block
    BY DEF Remaining
  <1> HIDE DEF longer
  <1>4. Len(u) = Len(file) + (Len(items) - done)
    BY <1>1, <1>2, <1>3
  <1>5. \A k \in 1 .. Len(file) : u[k] = file[k]
    BY <1>1, <1>2, <1>3
  <1>6. ASSUME NEW k \in 1 .. Len(items), k > done PROVE u[Len(file) + (k - done)] = items[k].block
    <2>1. CASE k = done + 1
      <3>1. Len(file) + (k - done) = Len(file) + 1 /\ Len(file) + 1 \in 1 .. Len(longer)
        BY <1>1, <1>2, <2>1
      <3> QED
        BY <1>2, <1>3, <2>1, <3>1
    <2>2. CASE k > done + 1
      <3>1. Len(file) + (k - done) = Len(longer) + (k - (done + 1))
        BY <1>1, <1>2
      <3> QED
        BY <1>3, <2>2, <3>1
    <2> QED
      BY <1>1, <1>6, <2>1, <2>2
  <1> QED
    BY <1>3, <1>4, <1>5, <1>6 DEF Remaining

(* The slots of a sound table are in order.                                *)
LEMMA SoundIsOK ==
  ASSUME NEW u, NEW t, NEW W, Sequence(u), Sound(u, t, W)
  PROVE  TocOK(t) /\ \A i \in Slots(t) : t.at[i] <= Len(u)
  <1>1. Table(t) /\ Within(t, Len(u))
    BY DEF Sound
  <1>2. DOMAIN t.ids = DOMAIN t.at
    BY <1>1, TableIs
  <1>3. \A i \in Slots(t) : t.ids[i] \in Id /\ (t.at[i] = 0 <=> t.ids[i].kind = "retired")
    BY <1>1, TableIs DEF Table
  <1>4. ASSUME NEW e \in t.entries PROVE e.slot \in Slots(t) /\ e.path \in Path
    <2>1. e \in Directory(t.ids)
      BY <1>1 DEF Table
    <2>2. PICK i \in DOMAIN t.ids : /\ t.ids[i].kind \in {"bundle", "bulk"}
                                    /\ e = [path |-> t.ids[i].pkg, kind |-> t.ids[i].kind, slot |-> i]
      BY <2>1 DEF Directory
    <2>3. e.path = t.ids[i].pkg /\ e.slot = i
      BY <2>2
    <2>4. i \in Live(t)
      BY <2>2 DEF Live, Slots
    <2>5. t.ids[i].pkg \in Path
      BY <2>2, <2>4, SlotHolds
    <2> QED
      BY <2>2, <2>3, <2>5 DEF Slots
  <1>5. \A i \in Slots(t) : t.at[i] <= Len(u)
    BY <1>1, SequenceIs DEF Within
  <1> QED
    BY <1>2, <1>3, <1>4, <1>5 DEF TocOK

(* A table that is sound stays so, and shows the same, over a longer file. *)
LEMMA AppendKeeps ==
  ASSUME NEW t, NEW file, NEW block, NEW W, Sequence(file), Sound(file, t, W)
  PROVE  Sound(Append(file, block), t, W) /\ Chart(Append(file, block), t) = Chart(file, t)
  <1>1. /\ Sequence(Append(file, block)) /\ Len(Append(file, block)) = Len(file) + 1
        /\ \A k \in 1 .. Len(file) : Append(file, block)[k] = file[k]
    BY AppendIs
  <1>2. Len(file) \in Nat
    BY SequenceIs
  <1>3. Len(file) <= Len(Append(file, block))
    BY <1>1, <1>2
  <1> QED
    BY <1>1, <1>3, GrowthKeeps

(* An edit under way that changes phase and nothing else.                  *)
LEMMA PhaseChanges ==
  ASSUME Ladder, op # Idle, NEW phase, op' = [op EXCEPT !.phase = phase]
  PROVE  /\ op'.phase = phase /\ op'.how = op.how /\ op'.original = op.original /\ op'.toc = op.toc
         /\ op'.items = op.items /\ op'.done = op.done /\ op'.gone = op.gone /\ op'.asked = op.asked
         /\ op'.before = op.before
  BY DEF Ladder

(* After the writing, an edit keeps what it needs over a file that grows.  *)
LEMMA UndoingKeeps ==
  ASSUME NEW file, NEW W, Climbing(file, op, W), Ladder, op # Idle, Sequence(file),
         NEW longer, longer = file \/ \E block : longer = Append(file, block),
         NEW phase \in {"restore", "rollback", "rewriting"}, op' = [op EXCEPT !.phase = phase]
  PROVE  Climbing(longer, op', W)
  <1>1. /\ op'.phase = phase /\ op'.original = op.original /\ op'.toc = op.toc
        /\ op'.items = op.items /\ op'.done = op.done
    BY PhaseChanges
  <1>2. Sound(longer, op.original, W)
    BY AppendKeeps DEF Climbing
  <1> QED
    BY <1>1, <1>2 DEF Climbing

(* An edit starts from a table that is there, through a handle on it.      *)
LEMMA EditIsReady == Edit => Ready /\ archive = utoc
  <1>1. ASSUME NEW p \in Path, NEW e \in Export, NEW b \in Body, DuplicateTag(p, e, b) PROVE Ready /\ archive = utoc
    BY <1>1 DEF DuplicateTag, Accepts
  <1>2. ASSUME NEW p \in Path, DeleteTag(p) PROVE Ready /\ archive = utoc
    BY <1>2 DEF DeleteTag, Accepts
  <1>3. ASSUME NEW p \in Path, NEW q \in Path, NEW b \in Body \cup {Absent}, NEW leave \in BOOLEAN,
               RenamePackage(p, q, b, leave)
        PROVE  Ready /\ archive = utoc
    BY <1>3 DEF RenamePackage, Accepts
  <1>4. ASSUME NEW p \in Path, NEW b \in Body, OverwriteTag(p, b) PROVE Ready /\ archive = utoc
    BY <1>4 DEF OverwriteTag
  <1>5. ASSUME NEW p \in Path, NEW q \in Path, NEW e \in Export, OverwritePackages(p, q, e)
        PROVE  Ready /\ archive = utoc
    BY <1>5 DEF OverwritePackages
  <1> QED
    BY <1>1, <1>2, <1>3, <1>4, <1>5 DEF Edit

(* The start of an edit keeps the tables sound. *)
LEMMA EditKeepsTables == Tables /\ Edit => Tables'
  <1> SUFFICES ASSUME Tables, Edit PROVE Tables'
    OBVIOUS
  <1>1. archive = utoc /\ utoc # Torn
    BY EditIsReady DEF Ready
  <1>2. Sequence(ucas) /\ Sound(ucas, utoc, unlisted)
    BY <1>1 DEF Tables
  <1>3. PICK how, toc, items, gone, asked :
          /\ Start(how, toc, items, gone, asked) /\ PlannedEdit(ucas, utoc, unlisted, toc, items)
          /\ Checkable(ucas, utoc, unlisted, how, toc, items, gone, asked)
    BY <1>2, EditPlanned
  <1>4. /\ op' = [phase |-> "append", how |-> how, original |-> utoc, toc |-> toc,
                  items |-> items, done |-> 0, gone |-> gone, asked |-> asked, before |-> faults]
        /\ UNCHANGED <<ucas, utoc, archive, unlisted>>
    BY <1>3 DEF Start
  <1>5. /\ op'.phase = "append" /\ op'.original = utoc /\ op'.toc = toc /\ op'.items = items /\ op'.done = 0
        /\ op'.how = how /\ op'.gone = gone /\ op'.asked = asked
    BY <1>4
  <1>6. /\ Sequence(items) /\ Len(items) # 0
        /\ \A u : Written(u, ucas, items) => Sound(u, toc, unlisted) /\ Edited(Chart(ucas, utoc), Chart(u, toc))
    BY <1>3 DEF PlannedEdit
  <1>7. TocOK(toc)
    <2>1. PICK u : Written(u, ucas, items)
      BY <1>2, <1>6, FileWritten
    <2>2. Sequence(u) /\ Sound(u, toc, unlisted)
      BY <1>6, <2>1 DEF Written
    <2> QED
      BY <2>2, SoundIsOK
  <1>8. Len(items) \in Nat
    BY <1>6, SequenceIs
  <1>9. Planned(ucas, op', unlisted)
    <2> SUFFICES ASSUME NEW u, Remaining(u, ucas, items, 0)
                 PROVE  /\ Sound(u, toc, unlisted) /\ Edited(Chart(ucas, utoc), Chart(u, toc))
                        /\ Verifies(u, how, utoc, toc, items, gone, asked)
      BY <1>5 DEF Planned
    <2>1. Written(u, ucas, items)
      BY <1>2, <1>6, RemainingAtStart
    <2> QED
      BY <1>3, <1>6, <2>1 DEF Checkable
  <1>10. Climbing(ucas, op', unlisted)
    BY <1>2, <1>5, <1>6, <1>7, <1>8, <1>9 DEF Climbing
  <1> QED
    BY <1>4, <1>10 DEF Tables

(* An append keeps them: what is left to write is one block less. *)
LEMMA AppendKeepsTables == Ladder /\ Tables /\ AppendUcas => Tables'
  <1> SUFFICES ASSUME Ladder, Tables, AppendUcas PROVE Tables'
    OBVIOUS
  <1>1. op # Idle /\ op.phase = "append"
    BY DEF AppendUcas, Idle
  <1>2. Climbing(ucas, op, unlisted) /\ Sequence(ucas)
    BY <1>1 DEF Tables
  <1> DEFINE items == op.items
             done == op.done
             block == items[done + 1].block
             longer == Append(ucas, block)
             next == IF done + 1 = Len(items) THEN "replace" ELSE "append"
  <1>3. ucas' = longer /\ UNCHANGED <<utoc, archive, unlisted>>
    BY DEF AppendUcas
  <1>4. op' = [op EXCEPT !.done = done + 1, !.phase = next]
    BY DEF AppendUcas
  <1>5. /\ op'.phase = next /\ op'.original = op.original /\ op'.toc = op.toc /\ op'.items = items /\ op'.done = done + 1
        /\ op'.how = op.how /\ op'.gone = op.gone /\ op'.asked = op.asked
    BY <1>1, <1>4 DEF Ladder
  <1>6. Sequence(items) /\ done \in 0 .. Len(items) /\ done < Len(items) /\ Planned(ucas, op, unlisted)
    BY <1>1, <1>2 DEF Climbing
  <1>7. Len(items) \in Nat
    BY <1>6, SequenceIs
  <1>8. /\ Sequence(longer) /\ Sound(longer, op.original, unlisted) /\ Chart(longer, op.original) = Chart(ucas, op.original)
        /\ utoc # Torn => Sound(longer, utoc, unlisted)
    BY <1>2, AppendIs, AppendKeeps DEF Climbing, Tables
  <1>9. Planned(longer, op', unlisted)
    <2> SUFFICES ASSUME NEW u, Remaining(u, longer, items, done + 1)
                 PROVE  /\ Sound(u, op.toc, unlisted) /\ Edited(Chart(longer, op.original), Chart(u, op.toc))
                        /\ Verifies(u, op.how, op.original, op.toc, op.items, op.gone, op.asked)
      BY <1>5 DEF Planned
    <2>1. Remaining(u, ucas, items, done)
      BY <1>2, <1>6, AppendRemains
    <2> QED
      BY <1>6, <1>8, <2>1 DEF Planned
  <1> HIDE DEF longer
  <1>10. Climbing(longer, op', unlisted)
    <2>1. done + 1 \in 0 .. Len(items) /\ (next = "append" => done + 1 < Len(items)) /\ (next = "replace" => done + 1 = Len(items))
      BY <1>6, <1>7
    <2> QED
      BY <1>2, <1>5, <1>6, <1>8, <1>9, <2>1 DEF Climbing
  <1> QED
    BY <1>3, <1>8, <1>10 DEF Tables

(* The table that is put in place is an edit of the one that was, and what *)
(* the edit asks of the container holds of it.                             *)
LEMMA ReplacedToc ==
  ASSUME Ladder, Tables, ReplaceToc
  PROVE  /\ op # Idle /\ utoc = op.original /\ utoc' = op.toc
         /\ Sound(ucas, op.original, unlisted) /\ Sound(ucas, op.toc, unlisted)
         /\ Edited(Chart(ucas, op.original), Chart(ucas, op.toc))
         /\ Verifies(ucas, op.how, op.original, op.toc, op.items, op.gone, op.asked)
  <1>1. op # Idle /\ op.phase = "replace" /\ utoc = op.original /\ utoc' = op.toc
    BY DEF ReplaceToc, Idle, Ladder
  <1>2. Climbing(ucas, op, unlisted) /\ Sequence(ucas)
    BY <1>1 DEF Tables
  <1>3. Remaining(ucas, ucas, op.items, op.done)
    BY <1>1, <1>2, NothingRemains DEF Climbing
  <1> QED
    BY <1>1, <1>2, <1>3 DEF Climbing, Planned

(* So does every other step of the ladder. *)
LEMMA StepKeepsTables == Ladder /\ Tables /\ Step => Tables'
  <1> SUFFICES ASSUME Ladder, Tables, Step PROVE Tables'
    OBVIOUS
  <1>1. ASSUME op # Idle, NEW phase \in {"restore", "rollback", "rewriting"},
               op' = [op EXCEPT !.phase = phase], ucas' = ucas, unlisted' = unlisted
        PROVE  Climbing(ucas', op', unlisted')
    BY <1>1, UndoingKeeps DEF Tables
  <1>2. CASE AppendUcas
    BY <1>2, AppendKeepsTables
  <1>3. CASE ReplaceToc
    <2>1. /\ op # Idle /\ utoc' = op.toc /\ Sound(ucas, op.toc, unlisted)
          /\ Verifies(ucas, op.how, op.original, op.toc, op.items, op.gone, op.asked)
      BY <1>3, ReplacedToc
    <2>2. op' = Idle \/ (op' = [op EXCEPT !.phase = "validate"] /\ op.how # "chunks")
      BY <1>3 DEF ReplaceToc, Return, Go
    <2>3. UNCHANGED <<ucas, archive, unlisted>>
      BY <1>3 DEF ReplaceToc
    <2>4. op' = Idle \/ Climbing(ucas, op', unlisted)
      <3> SUFFICES ASSUME op' # Idle PROVE Climbing(ucas, op', unlisted)
        OBVIOUS
      <3>1. /\ op'.phase = "validate" /\ op'.how = op.how /\ op'.original = op.original /\ op'.toc = op.toc
            /\ op'.items = op.items /\ op'.done = op.done /\ op'.gone = op.gone /\ op'.asked = op.asked
        BY <2>1, <2>2, PhaseChanges
      <3>2. Climbing(ucas, op, unlisted)
        BY <2>1 DEF Tables
      <3> QED
        BY <2>1, <2>2, <3>1, <3>2 DEF Climbing
    <2> QED
      BY <2>1, <2>3, <2>4 DEF Tables
  <1>4. CASE Validate
    <2>1. op # Idle /\ (op' = Idle \/ op' = [op EXCEPT !.phase = "restore"] \/ op' = [op EXCEPT !.phase = "rollback"])
      BY <1>4 DEF Validate, Return, Go, Idle, Undoing
    <2>2. UNCHANGED <<ucas, utoc, archive, unlisted>>
      BY <1>4 DEF Validate
    <2> QED
      BY <1>1, <2>1, <2>2 DEF Tables
  <1>5. CASE Restore \/ Rewrite
    <2>1. op # Idle /\ op' = Idle /\ utoc' = op.original /\ UNCHANGED <<ucas, archive, unlisted>>
      BY <1>5 DEF Restore, Rewrite, Return, Idle
    <2> QED
      BY <2>1 DEF Tables, Climbing
  <1>6. CASE Rollback
    <2>1. op # Idle /\ op' = [op EXCEPT !.phase = "rewriting"] /\ utoc' = Torn /\ UNCHANGED <<ucas, archive, unlisted>>
      BY <1>6 DEF Rollback, Go, Idle
    <2> QED
      BY <1>1, <2>1 DEF Tables
  <1> QED
    BY <1>2, <1>3, <1>4, <1>5, <1>6 DEF Step

(* What a failing call returns from: it either ends the edit or undoes it. *)
LEMMA FailMoves ==
  ASSUME Ladder, Fail
  PROVE  /\ op # Idle /\ UNCHANGED <<utoc, archive, unlisted>>
         /\ ucas' = ucas \/ ucas' = Append(ucas, Torn)
         /\ op' = Idle \/ op' = [op EXCEPT !.phase = "restore"] \/ op' = [op EXCEPT !.phase = "rollback"]
         /\ op.phase = "rewriting" => op' = Idle
  <1>1. op # Idle /\ UNCHANGED <<utoc, archive, unlisted>>
    BY DEF Fail, Fault
  <1>2. ucas' = ucas \/ ucas' = Append(ucas, Torn)
    BY DEF Fail, Fault
  <1>3. op.phase \in {"append", "replace", "validate", "restore", "rollback", "rewriting"}
    BY <1>1 DEF Ladder
  <1>4. op.phase \notin {"append", "replace", "validate"} => Return("error")
    BY <1>3 DEF Fail
  <1>5. op.phase = "append" => Go("rollback") \/ Return("error")
    BY DEF Fail
  <1>6. op.phase = "replace" => Go(Undoing) \/ Return("error")
    BY DEF Fail
  <1>7. op.phase = "validate" => Go(Undoing)
    BY DEF Fail
  <1>8. op.phase = "rewriting" => op' = Idle
    BY <1>4 DEF Return
  <1> QED
    BY <1>1, <1>2, <1>4, <1>5, <1>6, <1>7, <1>8 DEF Go, Return, Undoing

(* So do a failing call, a death and a reopened handle. *)
LEMMA FaultKeepsTables == Ladder /\ Tables /\ (Fail \/ Crash \/ Open) => Tables'
  <1> SUFFICES ASSUME Ladder, Tables, Fail \/ Crash \/ Open PROVE Tables'
    OBVIOUS
  <1>1. ASSUME ucas' = ucas \/ ucas' = Append(ucas, Torn)
        PROVE  Sequence(ucas') /\ \A t, W : Sound(ucas, t, W) => Sound(ucas', t, W)
    BY <1>1, AppendIs, AppendKeeps DEF Tables
  <1>2. CASE Fail
    <2>1. /\ op # Idle /\ UNCHANGED <<utoc, archive, unlisted>>
          /\ ucas' = ucas \/ ucas' = Append(ucas, Torn)
          /\ op' = Idle \/ op' = [op EXCEPT !.phase = "restore"] \/ op' = [op EXCEPT !.phase = "rollback"]
      BY <1>2, FailMoves
    <2>2. Sequence(ucas') /\ (utoc # Torn => Sound(ucas', utoc, unlisted))
      BY <1>1, <2>1 DEF Tables
    <2>3. op' = Idle \/ Climbing(ucas', op', unlisted)
      BY <2>1, UndoingKeeps DEF Tables
    <2> QED
      BY <2>1, <2>2, <2>3 DEF Tables
  <1>3. CASE Crash
    <2>1. /\ op' = Idle /\ UNCHANGED <<utoc, unlisted>>
          /\ ucas' = ucas \/ ucas' = Append(ucas, Torn)
          /\ archive' = IF utoc = Torn THEN archive ELSE utoc
      BY <1>3 DEF Crash, Fault, Return
    <2>2. Sequence(ucas') /\ (utoc # Torn => Sound(ucas', utoc, unlisted))
      BY <1>1, <2>1 DEF Tables
    <2>3. TocOK(archive')
      BY <2>1, SoundIsOK DEF Tables
    <2> QED
      BY <2>1, <2>2, <2>3 DEF Tables
  <1>4. CASE Open
    <2>1. UNCHANGED <<ucas, utoc, op, unlisted>> /\ archive' = utoc /\ utoc # Torn
      BY <1>4 DEF Open
    <2>2. TocOK(archive')
      BY <2>1, SoundIsOK DEF Tables
    <2> QED
      BY <2>1, <2>2 DEF Tables
  <1> QED
    BY <1>2, <1>3, <1>4

(* A chunk of a cooked container is a package's bundle or bulk data.       *)
LEMMA CookedChunk ==
  ASSUME NEW o \in Origins, NEW k \in DOMAIN o.chunks
  PROVE  \E p \in Path :
           /\ o.chunks[k].id.pkg = p /\ \E j \in DOMAIN o.chunks : o.chunks[j].id = BundleId(p)
           /\ \/ o.chunks[k].id = BundleId(p) /\ IsBundle(p, o.chunks[k].block)
              \/ o.chunks[k].id = BulkId(p) /\ IsBulk(o.chunks[k].block)
  <1>1. Origin(o)
    BY StoreAssumption
  <1>2. PICK p \in Path :
          \/ BundleOf(p, o.chunks[k])
          \/ BulkOf(p, o.chunks[k]) /\ \E j \in DOMAIN o.chunks : BundleOf(p, o.chunks[j])
    BY <1>1 DEF Origin
  <1>3. o.chunks[k].id = BundleId(p) \/ o.chunks[k].id = BulkId(p)
    BY <1>2 DEF BundleOf, BulkOf, BundleId, BulkId
  <1>4. o.chunks[k].id.pkg = p
    BY <1>3 DEF BundleId, BulkId, ChunkId
  <1>5. \E j \in DOMAIN o.chunks : o.chunks[j].id = BundleId(p)
    BY <1>2 DEF BundleOf, BundleId
  <1>6. \/ o.chunks[k].id = BundleId(p) /\ IsBundle(p, o.chunks[k].block)
        \/ o.chunks[k].id = BulkId(p) /\ IsBulk(o.chunks[k].block)
    BY <1>2 DEF BundleOf, BulkOf, BundleId, BulkId, IsBundle, IsBulk
  <1> QED
    BY <1>4, <1>5, <1>6

TopOf(o) == [id |-> HeaderId, block |-> Header(Packaged(o), <<>>)]

(* A cooked container is its header, if it has one, and its chunks, in     *)
(* slots of their own.                                                     *)
LEMMA CookedIs ==
  ASSUME NEW o \in Origins
  PROVE  /\ Sequence(Cooked(o)) /\ DOMAIN Cooked(o) = 1 .. Len(Cooked(o)) /\ Len(Cooked(o)) \in Nat
         /\ \A k \in DOMAIN Cooked(o) :
              (o.store /\ Cooked(o)[k] = TopOf(o)) \/ \E j \in DOMAIN o.chunks : Cooked(o)[k] = o.chunks[j]
         /\ \A j \in DOMAIN o.chunks : \E k \in DOMAIN Cooked(o) : Cooked(o)[k] = o.chunks[j]
         /\ o.store => \E k \in DOMAIN Cooked(o) : Cooked(o)[k] = TopOf(o)
         /\ \A j, k \in DOMAIN Cooked(o) : Cooked(o)[j].id = Cooked(o)[k].id => j = k
  <1> DEFINE chunks == o.chunks
             n == Len(chunks)
             top == IF o.store THEN <<TopOf(o)>> ELSE <<>>
             all == Cooked(o)
  <1>1. Sequence(chunks) /\ o.store \in BOOLEAN
        /\ \A j, k \in DOMAIN chunks : chunks[j].id = chunks[k].id => j = k
    BY StoreAssumption DEF Origin, Sequence
  <1>2. n \in Nat /\ DOMAIN chunks = 1 .. n
    BY <1>1, SequenceIs
  <1>3. all = top \o chunks
    BY DEF Cooked, TopOf
  <1>4. \A j \in DOMAIN chunks : chunks[j].id # HeaderId
    BY CookedChunk, IdsDiffer
  <1>5. TopOf(o).id = HeaderId
    BY DEF TopOf
  <1>6. CASE o.store
    <2>1. Sequence(top) /\ Len(top) = 1 /\ top[1] = TopOf(o)
      BY <1>6, SingleIs
    <2> HIDE DEF top, all
    <2>20. /\ Sequence(top \o chunks) /\ Len(top \o chunks) = Len(top) + n
           /\ \A k \in 1 .. Len(top) : (top \o chunks)[k] = top[k]
           /\ \A k \in 1 .. n : (top \o chunks)[Len(top) + k] = chunks[k]
      <3>1. Sequence(top) /\ Sequence(chunks)
        BY <1>1, <2>1
      <3> HIDE DEF chunks
      <3> QED
        BY <3>1, JoinIs
    <2>2. /\ Sequence(all) /\ Len(all) = 1 + n
          /\ \A k \in 1 .. 1 : all[k] = top[k]
          /\ \A k \in 1 .. n : all[1 + k] = chunks[k]
      BY <1>3, <2>1, <2>20
    <2>3. DOMAIN all = 1 .. 1 + n
      BY <2>2, SequenceIs
    <2>4. all[1] = TopOf(o)
      BY <2>1, <2>2
    <2>5. \A k \in DOMAIN all : k = 1 \/ (k - 1 \in 1 .. n /\ all[k] = chunks[k - 1])
      <3> SUFFICES ASSUME NEW k \in DOMAIN all, k # 1 PROVE k - 1 \in 1 .. n /\ all[k] = chunks[k - 1]
        OBVIOUS
      <3>1. k - 1 \in 1 .. n /\ 1 + (k - 1) = k
        BY <1>2, <2>3
      <3> QED
        BY <2>2, <3>1
    <2>6. \A j, k \in DOMAIN all : all[j].id = all[k].id => j = k
      <3> SUFFICES ASSUME NEW j \in DOMAIN all, NEW k \in DOMAIN all, all[j].id = all[k].id PROVE j = k
        OBVIOUS
      <3>1. CASE j = 1 \/ k = 1
        BY <1>2, <1>4, <1>5, <2>4, <2>5, <3>1
      <3>2. CASE j # 1 /\ k # 1
        <4>1. j - 1 = k - 1
          BY <1>1, <1>2, <2>5, <3>2
        <4>2. j \in Int /\ k \in Int
          BY <1>2, <2>3
        <4> QED
          BY <4>1, <4>2
      <3> QED
        BY <3>1, <3>2
    <2>7. \A j \in DOMAIN chunks : \E k \in DOMAIN all : all[k] = chunks[j]
      <3> SUFFICES ASSUME NEW j \in DOMAIN chunks PROVE \E k \in DOMAIN all : all[k] = chunks[j]
        OBVIOUS
      <3>1. 1 + j \in DOMAIN all
        BY <1>2, <2>3
      <3> QED
        BY <1>2, <2>2, <3>1
    <2>8. 1 \in DOMAIN all /\ 1 + n \in Nat
      BY <1>2, <2>3
    <2> QED
      BY <1>2, <1>6, <2>2, <2>3, <2>4, <2>5, <2>6, <2>7, <2>8 DEF all
  <1>7. CASE ~o.store
    <2>1. Sequence(top) /\ Len(top) = 0
      BY <1>7, SingleIs
    <2> HIDE DEF top, all
    <2>20. /\ Sequence(top \o chunks) /\ Len(top \o chunks) = Len(top) + n
           /\ \A k \in 1 .. n : (top \o chunks)[Len(top) + k] = chunks[k]
      BY <1>1, <2>1, JoinIs
    <2>2. /\ Sequence(all) /\ Len(all) = 0 + n
          /\ \A k \in 1 .. n : all[0 + k] = chunks[k]
      BY <1>3, <2>1, <2>20
    <2>3. DOMAIN all = 1 .. n /\ Len(all) = n
      BY <1>2, <2>2, SequenceIs
    <2>4. \A k \in 1 .. n : all[k] = chunks[k]
      <3> SUFFICES ASSUME NEW k \in 1 .. n PROVE all[k] = chunks[k]
        OBVIOUS
      <3>1. 0 + k = k
        BY <1>2
      <3> QED
        BY <2>2, <3>1
    <2> QED
      BY <1>1, <1>2, <1>7, <2>2, <2>3, <2>4 DEF all
  <1> QED
    BY <1>1, <1>6, <1>7

BlocksOf(o) == [k \in DOMAIN Cooked(o) |-> Cooked(o)[k].block]
UnlistedOf(o) == IF o.store THEN {} ELSE Packaged(o)

(* The table of a cooked container.                                        *)
LEMMA CookedTable ==
  ASSUME NEW o \in Origins
  PROVE  /\ Table(CookedToc(o)) /\ Slots(CookedToc(o)) = DOMAIN Cooked(o) /\ Live(CookedToc(o)) = DOMAIN Cooked(o)
         /\ \A k \in DOMAIN Cooked(o) : CookedToc(o).ids[k] = Cooked(o)[k].id /\ CookedToc(o).at[k] = k
  <1> DEFINE all == Cooked(o)
             t == CookedToc(o)
  <1>1. /\ Sequence(all) /\ DOMAIN all = 1 .. Len(all) /\ Len(all) \in Nat
        /\ \A k \in DOMAIN all : (o.store /\ all[k] = TopOf(o)) \/ \E j \in DOMAIN o.chunks : all[k] = o.chunks[j]
        /\ \A j, k \in DOMAIN all : all[j].id = all[k].id => j = k
    BY CookedIs
  <1>2. \A k \in DOMAIN all :
          /\ all[k].id \in Id /\ all[k].id.kind \in {"bundle", "bulk", "header"}
          /\ all[k].id # HeaderId <=> all[k].id.kind \in {"bundle", "bulk"}
    <2> SUFFICES ASSUME NEW k \in DOMAIN all
                 PROVE  /\ all[k].id \in Id /\ all[k].id.kind \in {"bundle", "bulk", "header"}
                        /\ all[k].id # HeaderId <=> all[k].id.kind \in {"bundle", "bulk"}
      OBVIOUS
    <2>1. CASE all[k] = TopOf(o)
      <3>1. all[k].id = HeaderId
        BY <2>1 DEF TopOf
      <3> QED
        BY <3>1 DEF HeaderId, ChunkId, Id, Kinds
    <2>2. CASE \E j \in DOMAIN o.chunks : all[k] = o.chunks[j]
      <3>1. PICK p \in Path : all[k].id = BundleId(p) \/ all[k].id = BulkId(p)
        BY <2>2, CookedChunk
      <3>2. BundleId(p) # HeaderId /\ BulkId(p) # HeaderId
        BY IdsDiffer
      <3> QED
        BY <3>1, <3>2, ChunkIdsAreIds
    <2> QED
      BY <1>1, <2>1, <2>2
  <1>3. o.indexed \in BOOLEAN
    BY StoreAssumption DEF Origin
  <1>4. /\ Whole(t)
        /\ t.ids = [k \in DOMAIN all |-> all[k].id] /\ t.at = [k \in DOMAIN all |-> k] /\ t.indexed = o.indexed
        /\ t.entries = IF ~o.indexed THEN {}
                       ELSE {[path |-> all[k].id.pkg, kind |-> all[k].id.kind, slot |-> k] :
                               k \in {k \in DOMAIN all : all[k].id # HeaderId}}
    BY DEF CookedToc, Whole
  <1> HIDE DEF all, t
  <1>5. t.ids \in Seq(Id) /\ t.at \in Seq(Nat) /\ Len(t.at) = Len(t.ids)
    <2>1. t.ids \in [1 .. Len(all) -> Id]
      BY <1>1, <1>2, <1>4
    <2>2. t.at \in [1 .. Len(all) -> Nat]
      BY <1>1, <1>4
    <2>3. t.ids \in Seq(Id) /\ t.at \in Seq(Nat)
      BY <1>1, <2>1, <2>2, SeqDef
    <2>4. Len(t.ids) \in Nat /\ DOMAIN t.ids = 1 .. Len(t.ids) /\ Len(t.at) \in Nat /\ DOMAIN t.at = 1 .. Len(t.at)
      BY <2>3, LenProperties
    <2>5. Len(t.ids) = Len(all) /\ Len(t.at) = Len(all)
      BY <1>1, <1>4, <2>4
    <2> QED
      BY <2>3, <2>5
  <1>6. Slots(t) = DOMAIN all /\ Live(t) = DOMAIN all
    BY <1>2, <1>4 DEF Slots, Live
  <1>7. \A k \in DOMAIN all : t.ids[k] = all[k].id /\ t.at[k] = k /\ t.at[k] # 0
    BY <1>1, <1>4
  <1>8. t.entries = IF t.indexed THEN Directory(t.ids) ELSE {}
    <2>1. {k \in DOMAIN all : all[k].id # HeaderId} = {k \in DOMAIN t.ids : t.ids[k].kind \in {"bundle", "bulk"}}
      BY <1>2, <1>4
    <2>2. Directory(t.ids) = {[path |-> all[k].id.pkg, kind |-> all[k].id.kind, slot |-> k] :
                               k \in {k \in DOMAIN all : all[k].id # HeaderId}}
      BY <1>7, <2>1 DEF Directory
    <2> QED
      BY <1>3, <1>4, <2>2
  <1>9. \A i \in Slots(t) : t.at[i] = 0 <=> t.ids[i].kind = "retired"
    BY <1>2, <1>6, <1>7
  <1>10. Table(t)
    BY <1>1, <1>3, <1>4, <1>5, <1>6, <1>7, <1>8, <1>9 DEF Table
  <1> QED
    BY <1>6, <1>7, <1>10 DEF all, t

(* What it holds: the packages, under their paths, and no redirect.        *)
LEMMA CookedSound ==
  ASSUME NEW o \in Origins
  PROVE  /\ Sound(BlocksOf(o), CookedToc(o), UnlistedOf(o))
         /\ RedirectsOf(Chart(BlocksOf(o), CookedToc(o))) = [p \in Path |-> Absent]
         /\ Sequence(BlocksOf(o)) /\ Packaged(o) \subseteq Path
  <1> DEFINE all == Cooked(o)
             t == CookedToc(o)
             u == BlocksOf(o)
             g == Chart(u, t)
  <1>1. /\ DOMAIN all = 1 .. Len(all) /\ Len(all) \in Nat
        /\ \A k \in DOMAIN all : (o.store /\ all[k] = TopOf(o)) \/ \E j \in DOMAIN o.chunks : all[k] = o.chunks[j]
        /\ \A j \in DOMAIN o.chunks : \E k \in DOMAIN all : all[k] = o.chunks[j]
        /\ o.store => \E k \in DOMAIN all : all[k] = TopOf(o)
    BY CookedIs
  <1>2. /\ Table(t) /\ Slots(t) = DOMAIN all /\ Live(t) = DOMAIN all
        /\ \A k \in DOMAIN all : t.ids[k] = all[k].id /\ t.at[k] = k
    BY CookedTable
  <1>3. u = [k \in 1 .. Len(all) |-> u[k]] /\ \A k \in DOMAIN all : u[k] = all[k].block
    BY <1>1 DEF BlocksOf
  <1>4. Sequence(u) /\ Len(u) = Len(all)
    BY <1>1, <1>3, FunctionIsSequence
  <1>5. g = [id \in DOMAIN g |-> g[id]] /\ DOMAIN g = LiveIds(t)
    BY ChartIsFunction, ChartDomainIs
  <1>6. \A k \in DOMAIN all : all[k].id \in DOMAIN g /\ g[all[k].id] = all[k].block
    <2> SUFFICES ASSUME NEW k \in DOMAIN all
                 PROVE  all[k].id \in DOMAIN g /\ g[all[k].id] = all[k].block
      OBVIOUS
    <2>1. k \in Live(t) /\ t.ids[k] = all[k].id /\ t.at[k] = k
      BY <1>2
    <2>2. t.ids[k] \in DOMAIN g /\ g[t.ids[k]] = u[t.at[k]]
      BY <1>2, <2>1, ChartAt
    <2> QED
      BY <1>3, <2>1, <2>2
  <1>7. \A id \in DOMAIN g : \E k \in DOMAIN all : all[k].id = id
    BY <1>2, <1>5 DEF LiveIds
  <1> HIDE DEF all, t, u, g
  <1>8. TopOf(o).id = HeaderId /\ TopOf(o).block = Header(Packaged(o), <<>>)
    BY DEF TopOf
  <1>9. \A p \in Path : BundleId(p) \in DOMAIN g \/ BulkId(p) \in DOMAIN g => p \in Packaged(o) /\ BundleId(p) \in DOMAIN g
    <2> SUFFICES ASSUME NEW p \in Path, BundleId(p) \in DOMAIN g \/ BulkId(p) \in DOMAIN g
                 PROVE  p \in Packaged(o) /\ BundleId(p) \in DOMAIN g
      OBVIOUS
    <2>1. PICK k \in DOMAIN all : all[k].id \in {BundleId(p), BulkId(p)}
      BY <1>7
    <2>2. all[k] # TopOf(o)
      BY <1>8, <2>1, IdsDiffer
    <2>3. PICK j \in DOMAIN o.chunks : all[k] = o.chunks[j]
      BY <1>1, <2>2
    <2>4. o.chunks[j].id.pkg = p
      BY <2>1, <2>3, ChunkIdsAreIds
    <2>5. PICK i \in DOMAIN o.chunks : o.chunks[i].id = BundleId(p)
      BY <2>4, CookedChunk
    <2>6. BundleId(p) \in DOMAIN g
      BY <1>1, <1>6, <2>5
    <2>7. p \in Packaged(o)
      BY <2>4 DEF Packaged
    <2> QED
      BY <2>6, <2>7
  <1>10. Packaged(o) \subseteq Path /\ Packs(g) = Packaged(o)
    <2>1. ASSUME NEW p \in Packaged(o) PROVE p \in Path /\ BundleId(p) \in DOMAIN g
      <3>1. PICK k \in DOMAIN o.chunks : o.chunks[k].id.pkg = p
        BY DEF Packaged
      <3>2. p \in Path /\ \E j \in DOMAIN o.chunks : o.chunks[j].id = BundleId(p)
        BY <3>1, CookedChunk
      <3> QED
        BY <1>1, <1>6, <3>2
    <2> QED
      BY <1>9, <2>1 DEF Packs
  <1>11. HeaderId \in DOMAIN g <=> o.store
    <2>1. o.store => HeaderId \in DOMAIN g
      BY <1>1, <1>6, <1>8
    <2>2. ASSUME HeaderId \in DOMAIN g PROVE o.store
      <3>1. PICK k \in DOMAIN all : all[k].id = HeaderId
        BY <1>7, <2>2
      <3>2. \A j \in DOMAIN o.chunks : o.chunks[j].id # HeaderId
        BY CookedChunk, IdsDiffer
      <3> QED
        BY <1>1, <3>1, <3>2
    <2> QED
      BY <2>1, <2>2
  <1>12. HeaderId \in DOMAIN g => g[HeaderId] = Header(Packaged(o), <<>>)
    BY <1>1, <1>6, <1>8, <1>11
  <1>13. /\ IsHeader(Header(Packaged(o), <<>>))
         /\ Header(Packaged(o), <<>>).store = Packaged(o) /\ Header(Packaged(o), <<>>).redirects = <<>>
    <2>1. <<>> \in Seq(Redirect)
      BY EmptySeq
    <2> QED
      BY <1>10, <2>1 DEF IsHeader, Header
  <1>14. Chunks(g)
    <2> SUFFICES ASSUME NEW id \in DOMAIN g PROVE ChunkOK(id, g[id])
      BY <1>5 DEF Chunks
    <2>1. PICK k \in DOMAIN all : all[k].id = id
      BY <1>7
    <2>2. g[id] = all[k].block
      BY <1>6, <2>1
    <2>3. CASE all[k] = TopOf(o)
      BY <1>8, <1>13, <2>1, <2>2, <2>3 DEF ChunkOK
    <2>4. CASE \E j \in DOMAIN o.chunks : all[k] = o.chunks[j]
      BY <2>1, <2>2, <2>4, CookedChunk DEF ChunkOK
    <2> QED
      BY <1>1, <2>3, <2>4
  <1>15. Wrapped(g)
    <2> SUFFICES ASSUME NEW p \in Path, BundleId(p) \in DOMAIN g, BulkId(p) \in DOMAIN g
                 PROVE  g[BundleId(p)].size = Length[g[BulkId(p)].body]
      BY DEF Wrapped
    <2>1. PICK k \in DOMAIN all, m \in DOMAIN all : all[k].id = BundleId(p) /\ all[m].id = BulkId(p)
      BY <1>7
    <2>2. all[k] # TopOf(o) /\ all[m] # TopOf(o)
      BY <1>8, <2>1, IdsDiffer
    <2>3. PICK i \in DOMAIN o.chunks, j \in DOMAIN o.chunks : all[k] = o.chunks[i] /\ all[m] = o.chunks[j]
      BY <1>1, <2>2
    <2>4. Origin(o)
      BY StoreAssumption
    <2>5. BundleOf(p, o.chunks[i])
      <3>1. PICK q \in Path : BundleOf(q, o.chunks[i]) \/ BulkOf(q, o.chunks[i])
        BY <2>4 DEF Origin
      <3> QED
        BY <2>1, <2>3, <3>1, IdsDiffer DEF BundleOf, BulkOf, BundleId, BulkId
    <2>6. BulkOf(p, o.chunks[j])
      <3>1. PICK q \in Path : BundleOf(q, o.chunks[j]) \/ BulkOf(q, o.chunks[j])
        BY <2>4 DEF Origin
      <3> QED
        BY <2>1, <2>3, <3>1, IdsDiffer DEF BundleOf, BulkOf, BundleId, BulkId
    <2>7. o.chunks[i].block.size = Length[o.chunks[j].block.body]
      BY <2>4, <2>5, <2>6 DEF Origin
    <2> QED
      BY <1>6, <2>1, <2>3, <2>7
  <1>16. Stored(g, UnlistedOf(o))
    <2>1. DOMAIN Header(Packaged(o), <<>>).redirects = {}
      BY <1>13, EmptySeq
    <2> QED
      BY <1>10, <1>11, <1>12, <1>13, <2>1 DEF Stored, UnlistedOf
  <1>17. Sound(u, t, UnlistedOf(o))
    <2>1. Within(t, Len(u))
      BY <1>1, <1>2, <1>4 DEF Within
    <2> QED
      BY <1>2, <1>14, <1>15, <1>16, <2>1 DEF Sound, Coherent, g
  <1>18. \A p \in Path : RedirectOf(g, p) = Absent
    <2>1. <<>> \in Seq(Redirect) /\ DOMAIN <<>> = {}
      BY EmptySeq
    <2>2. \A p : LookupRedirect(<<>>, p) = Absent
      BY <2>1 DEF LookupRedirect
    <2> QED
      BY <1>12, <1>13, <2>2 DEF RedirectOf
  <1>19. RedirectsOf(g) = [p \in Path |-> Absent]
    BY <1>18 DEF RedirectsOf
  <1> QED
    BY <1>4, <1>10, <1>17, <1>19 DEF g, t, u

(* A cooked container has a sound table. *)
LEMMA InitTables == Init => Tables
  <1> SUFFICES ASSUME Init PROVE Tables
    OBVIOUS
  <1>1. PICK o \in Origins : /\ ucas = BlocksOf(o) /\ utoc = CookedToc(o) /\ archive = utoc /\ op = Idle
                             /\ unlisted = UnlistedOf(o)
    BY DEF Init, BlocksOf, UnlistedOf
  <1>2. Sound(ucas, utoc, unlisted) /\ Sequence(ucas) /\ unlisted \subseteq Path
    BY <1>1, CookedSound DEF UnlistedOf
  <1> QED
    BY <1>1, <1>2, SoundIsOK DEF Tables

Sounds == Ladder /\ Tables

(* The tables in play are sound in every state. *)
LEMMA TablesHold == Spec => []Sounds
  <1>1. Init => Tables
    BY InitTables
  <1>2. Ladder /\ Tables /\ [Next]_vars => Tables'
    <2> SUFFICES ASSUME Ladder, Tables, [Next]_vars PROVE Tables'
      OBVIOUS
    <2>1. CASE UNCHANGED vars
      BY <2>1 DEF vars, Tables
    <2> QED
      BY <2>1, EditKeepsTables, StepKeepsTables, FaultKeepsTables DEF Next
  <1> QED
    BY <1>1, <1>2, LadderHolds, PTL DEF Spec, Sounds

(* The counters and what an edit returns. *)
LEMMA CountsHold == Spec => [](Counts /\ Results)
  <1>0. MaxEdits \in Nat /\ MaxFaults \in Nat
    BY StoreAssumption
  <1>1. Init => Counts /\ Results
    <2>1. Init => Counts
      BY <1>0 DEF Init, Counts
    <2>2. Init => Results
      BY DEF Init, Results
    <2> QED
      BY <2>1, <2>2
  <1>2. Sounds /\ Counts /\ Results /\ [Next]_vars => Counts' /\ Results'
    <2> SUFFICES ASSUME Sounds, Counts, Results, [Next]_vars PROVE Counts' /\ Results'
      OBVIOUS
    <2>0. edits \in Nat /\ edits <= MaxEdits /\ faults \in Nat
      BY <1>0 DEF Counts
    <2>7. ASSUME edits' \in Nat /\ edits' <= MaxEdits /\ faults' \in Nat
          PROVE  Counts'
      BY <1>0, <2>7 DEF Counts
    <2>1. CASE UNCHANGED vars
      BY <2>1 DEF vars, Counts, Results
    <2>2. CASE Edit
      <3>1. edits < MaxEdits /\ utoc # Torn
        BY <2>2, EditIsReady DEF Ready
      <3>2. \E how, toc, items, gone, asked : Start(how, toc, items, gone, asked)
        BY <2>2, <3>1, EditPlanned DEF Sounds, Tables
      <3>3. edits' = edits + 1 /\ outcome' = "none" /\ faults' = faults
        BY <3>2 DEF Start
      <3>4. Counts'
        BY <1>0, <2>0, <2>7, <3>1, <3>3
      <3> QED
        BY <3>3, <3>4 DEF Results
    <2>3. CASE Step
      <3>1. UNCHANGED <<edits, faults>> /\ (UNCHANGED outcome \/ outcome' = "ok" \/ outcome' = "error")
        BY <2>3 DEF Step, AppendUcas, ReplaceToc, Validate, Restore, Rollback, Rewrite, Go, Return
      <3> QED
        BY <3>1 DEF Counts, Results
    <2>4. CASE Fail
      <3>1. faults' = faults + 1 /\ edits' = edits
        BY <2>4 DEF Fail, Fault
      <3>2. op.phase \in {"append", "replace", "validate", "restore", "rollback", "rewriting"}
        BY <2>4 DEF Fail, Fault, Sounds, Ladder
      <3>3. UNCHANGED outcome \/ outcome' = "error"
        BY <2>4, <3>2 DEF Fail, Go, Return
      <3>4. Counts'
        BY <1>0, <2>0, <2>7, <3>1
      <3> QED
        BY <3>3, <3>4 DEF Results
    <2>5. CASE Crash
      <3>1. faults' = faults + 1 /\ edits' = edits /\ outcome' = "none"
        BY <2>5 DEF Crash, Fault, Return
      <3>2. Counts'
        BY <1>0, <2>0, <2>7, <3>1
      <3> QED
        BY <3>1, <3>2 DEF Results
    <2>6. CASE Open
      BY <2>6 DEF Open, Counts, Results
    <2> QED
      BY <2>1, <2>2, <2>3, <2>4, <2>5, <2>6 DEF Next
  <1> QED
    BY <1>1, <1>2, TablesHold, PTL DEF Spec

-----------------------------------------------------------------------------
(* What an edit is told.  Everything it asks of the container holds of its *)
(* own table, so that it is undone only after a fault.                     *)
LEMMA ChecksPass ==
  ASSUME Ladder, Tables, op.phase = "validate"
  PROVE  Verified
  <1>1. op # Idle /\ utoc = op.toc
    BY DEF Ladder, Idle
  <1>2. op.how # "chunks" /\ Verifies(ucas, op.how, op.original, op.toc, op.items, op.gone, op.asked)
    BY <1>1 DEF Tables, Climbing
  <1>3. \A k : FoundAt(k) = FoundIn(op.toc, op.items, k)
    BY <1>1 DEF FoundAt, FoundIn
  <1>4. \A i : ReadChunk(utoc, i) = ReadIn(ucas, op.toc, i)
    BY <1>1 DEF ReadChunk, ReadIn
  <1>5. Sequence(op.items)
    BY <1>1 DEF Tables, Climbing
  <1>6. \A k \in DOMAIN op.items : FoundAt(k) # 0 /\ ReadsBack(k)
    BY <1>2, <1>3, <1>4 DEF Verifies, ReadsBack
  <1>7. Len(op.items) \in DOMAIN op.items /\ SavedHeader = op.items[Len(op.items)].block
    BY <1>2, <1>6 DEF Verifies, SavedHeader, ReadsBack
  <1>8. CASE op.how \in {"duplicate", "delete", "rename"}
    <2>1. /\ Rehashed(op.original, op.toc, op.gone) /\ Retired(op.original, op.toc, op.gone)
          /\ op.original.indexed => Relisted(op.original, op.toc, op.gone)
          /\ \A i \in Slots(op.original) \ (op.gone \cup {op.items[k].slot : k \in DOMAIN op.items}) :
               op.toc.ids[i] = op.original.ids[i] /\ op.toc.at[i] = op.original.at[i]
          /\ \A r \in op.asked : LookupRedirect(op.items[Len(op.items)].block.redirects, r.source) = r.target
      BY <1>2, <1>8 DEF Verifies
    <2>2. HashAsPlanned
      BY <1>1, <2>1 DEF HashAsPlanned, Rehashed
    <2>3. op.toc.hashed = op.original.hashed => Added \subseteq utoc.overflow
      BY <1>1, <2>1 DEF Rehashed, Added
    <2>4. Untouched
      BY <1>1, <2>1 DEF Untouched, Rewritten
    <2>5. GoneAsPlanned
      BY <1>1, <2>1 DEF GoneAsPlanned, Retired
    <2>6. PathsAsPlanned
      BY <1>1, <2>1 DEF PathsAsPlanned, ListedAsPlanned, Relisted, Added
    <2>7. \A r \in op.asked : LookupRedirect(SavedHeader.redirects, r.source) = r.target
      BY <1>7, <2>1
    <2>8. SavedHeader.store = op.items[Len(op.items)].block.store
      BY <1>7
    <2>9. CASE op.how = "duplicate"
      BY <1>6, <2>2, <2>3, <2>4, <2>6, <2>9 DEF Verified
    <2>10. CASE op.how \in {"delete", "rename"}
      BY <1>6, <2>2, <2>4, <2>5, <2>6, <2>7, <2>8, <2>10 DEF Verified
    <2> QED
      BY <1>8, <2>9, <2>10
  <1>9. CASE op.how = "packages"
    <2>1. DOMAIN op.items = 1 .. Len(op.items) /\ Len(op.items) \in Nat
      BY <1>5, SequenceIs
    <2>2. ASSUME NEW k \in 1 .. Len(op.items) - 1
          PROVE  ReadsBack(k) /\ op.toc.ids[op.items[k].slot].pkg \in SavedHeader.store
      <3>1. k \in DOMAIN op.items
        BY <2>1
      <3>2. op.toc.ids[op.items[k].slot].pkg \in op.items[Len(op.items)].block.store
        BY <1>2, <1>9 DEF Verifies
      <3> QED
        BY <1>6, <1>7, <3>1, <3>2
    <2> QED
      BY <1>6, <1>9, <2>2 DEF Verified
  <1> QED
    BY <1>2, <1>8, <1>9 DEF Verifies

(* The faults that have hit the edit under way: none before it began, and  *)
(* one at least when it is being undone.                                   *)
Tallies ==
  /\ faults \in Nat
  /\ op # Idle => /\ op.before \in Nat /\ op.before <= faults
                  /\ op.phase \in {"restore", "rollback", "rewriting"} => op.before < faults

(* Undoing starts with a fault: a check of an unhit edit passes.           *)
LEMMA StepKeepsTallies == Ladder /\ Tables /\ Tallies /\ Step => Tallies'
  <1> SUFFICES ASSUME Ladder, Tables, Tallies, Step PROVE Tallies'
    OBVIOUS
  <1>0. faults' = faults
    BY DEF Step, AppendUcas, ReplaceToc, Validate, Restore, Rollback, Rewrite
  <1>1. CASE AppendUcas
    <2>1. op # Idle
      BY <1>1 DEF AppendUcas, Idle
    <2>2. \/ op' = [op EXCEPT !.done = @ + 1, !.phase = "append"]
          \/ op' = [op EXCEPT !.done = @ + 1, !.phase = "replace"]
      BY <1>1 DEF AppendUcas
    <2>3. op'.before = op.before /\ op'.phase \in {"append", "replace"}
      BY <2>1, <2>2 DEF Ladder
    <2> QED
      BY <1>0, <2>1, <2>3 DEF Tallies
  <1>2. CASE ReplaceToc
    <2>1. op # Idle /\ (op' = Idle \/ op' = [op EXCEPT !.phase = "validate"])
      BY <1>2 DEF ReplaceToc, Return, Go, Idle
    <2>2. op' = Idle \/ (op'.before = op.before /\ op'.phase = "validate")
      BY <2>1, PhaseChanges
    <2> QED
      BY <1>0, <2>1, <2>2 DEF Tallies
  <1>3. CASE Validate
    <2>1. op' = Idle
      BY <1>3, ChecksPass DEF Validate, Return
    <2> QED
      BY <1>0, <2>1 DEF Tallies
  <1>4. CASE Restore \/ Rewrite
    <2>1. op' = Idle
      BY <1>4 DEF Restore, Rewrite, Return
    <2> QED
      BY <1>0, <2>1 DEF Tallies
  <1>5. CASE Rollback
    <2>1. op # Idle /\ op.phase = "rollback" /\ op' = [op EXCEPT !.phase = "rewriting"]
      BY <1>5 DEF Rollback, Go, Idle
    <2>2. op'.before = op.before /\ op'.phase = "rewriting"
      BY <2>1, PhaseChanges
    <2> QED
      BY <1>0, <2>1, <2>2 DEF Tallies
  <1> QED
    BY <1>1, <1>2, <1>3, <1>4, <1>5 DEF Step

(* The counts are right in every state.                                    *)
LEMMA TalliesHold == Spec => []Tallies
  <1>1. Init => Tallies
    BY DEF Init, Tallies
  <1>2. Sounds /\ Tallies /\ [Next]_vars => Tallies'
    <2> SUFFICES ASSUME Sounds, Tallies, [Next]_vars PROVE Tallies'
      OBVIOUS
    <2>1. CASE UNCHANGED vars
      BY <2>1 DEF vars, Tallies
    <2>2. CASE Edit
      <3>1. \E how, toc, items, gone, asked : Start(how, toc, items, gone, asked)
        <4>1. utoc # Torn
          BY <2>2, EditIsReady DEF Ready
        <4> QED
          BY <2>2, <4>1, EditPlanned DEF Sounds, Tables
      <3>2. faults' = faults /\ op'.before = faults /\ op'.phase = "append"
        BY <3>1 DEF Start
      <3> QED
        BY <3>2 DEF Tallies
    <2>3. CASE Step
      BY <2>3, StepKeepsTallies DEF Sounds
    <2>4. CASE Fail
      <3>1. op # Idle /\ (op' = Idle \/ op' = [op EXCEPT !.phase = "restore"] \/ op' = [op EXCEPT !.phase = "rollback"])
        BY <2>4, FailMoves DEF Sounds
      <3>2. op' = Idle \/ op'.before = op.before
        BY <3>1, PhaseChanges DEF Sounds
      <3>3. faults' = faults + 1
        BY <2>4 DEF Fail, Fault
      <3> QED
        BY <3>1, <3>2, <3>3 DEF Tallies
    <2>5. CASE Crash
      BY <2>5 DEF Crash, Fault, Return, Tallies
    <2>6. CASE Open
      BY <2>6 DEF Open, Tallies
    <2> QED
      BY <2>1, <2>2, <2>3, <2>4, <2>5, <2>6 DEF Next
  <1> QED
    BY <1>1, <1>2, TablesHold, PTL DEF Spec

(* How an edit ends: with success and its table, after a fault with the    *)
(* original, or after two with whatever the second left.                   *)
LEMMA EditEnds ==
  ASSUME Sounds, Tallies, Next, op # Idle, op' = Idle
  PROVE  \/ outcome' = "ok" /\ utoc' = op.toc /\ faults' = faults
         \/ /\ outcome' # "ok" /\ faults' > op.before
            /\ outcome' = "error" => utoc' = op.original \/ faults' >= op.before + 2
            /\ utoc' = Torn => faults' >= op.before + 2
  <1>0. op.before \in Nat /\ faults \in Nat /\ op.before <= faults /\ Ladder
    BY DEF Tallies, Sounds
  <1>1. op'.phase = "idle" /\ Whole(op.original) /\ Whole(op.toc) /\ op.original # Torn /\ op.toc # Torn
    BY <1>0, TornIsNotWhole DEF Idle, Ladder
  <1>2. CASE Edit
    BY <1>2, EditIsReady DEF Ready
  <1>3. CASE Step
    <2>1. CASE AppendUcas
      <3>1. \/ op' = [op EXCEPT !.done = @ + 1, !.phase = "append"]
            \/ op' = [op EXCEPT !.done = @ + 1, !.phase = "replace"]
        BY <2>1 DEF AppendUcas
      <3>2. op'.phase \in {"append", "replace"}
        BY <1>0, <3>1 DEF Ladder
      <3> QED
        BY <1>1, <3>2
    <2>2. CASE ReplaceToc
      <3>1. op' # [op EXCEPT !.phase = "validate"]
        BY <1>0, <1>1, PhaseChanges
      <3> QED
        BY <2>2, <3>1 DEF ReplaceToc, Go, Return
    <2>3. CASE Validate
      <3>1. Verified
        BY <1>0, <2>3, ChecksPass DEF Validate, Sounds
      <3> QED
        BY <1>0, <2>3, <3>1 DEF Validate, Return, Ladder
    <2>4. CASE Restore \/ Rewrite
      <3>1. utoc' = op.original /\ outcome' = "error" /\ faults' = faults /\ op.phase \in {"restore", "rewriting"}
        BY <2>4 DEF Restore, Rewrite, Return
      <3>2. op.before < faults
        BY <3>1 DEF Tallies
      <3> QED
        BY <1>0, <1>1, <3>1, <3>2
    <2>5. CASE Rollback
      <3>1. op' = [op EXCEPT !.phase = "rewriting"]
        BY <2>5 DEF Rollback, Go
      <3> QED
        BY <1>0, <1>1, <3>1, PhaseChanges
    <2> QED
      BY <1>3, <2>1, <2>2, <2>3, <2>4, <2>5 DEF Step
  <1>4. ASSUME faults' = faults + 1, utoc' = utoc, outcome' # "ok",
               op.phase \in {"append", "replace"} => outcome' \in {"error", "none"},
               op.phase = "validate" => outcome' = "none"
        PROVE  /\ outcome' # "ok" /\ faults' > op.before
               /\ outcome' = "error" => utoc' = op.original \/ faults' >= op.before + 2
               /\ utoc' = Torn => faults' >= op.before + 2
    <2>1. CASE op.phase \in {"restore", "rollback", "rewriting"}
      <3>1. op.before < faults
        BY <2>1 DEF Tallies
      <3> QED
        BY <1>0, <1>4, <3>1
    <2>2. CASE op.phase \in {"append", "replace"}
      BY <1>0, <1>1, <1>4, <2>2 DEF Ladder
    <2>3. CASE op.phase = "validate"
      BY <1>0, <1>1, <1>4, <2>3 DEF Ladder
    <2> QED
      BY <1>0, <2>1, <2>2, <2>3 DEF Ladder
  <1>5. CASE Fail
    <2>1. faults' = faults + 1 /\ utoc' = utoc
      BY <1>5 DEF Fail, Fault
    <2>2. ASSUME NEW phase, Go(phase) PROVE phase = "idle"
      BY <1>0, <1>1, <2>2, PhaseChanges DEF Go
    <2>3. op.phase # "validate" /\ outcome' = "error"
      <3>1. op.phase \in {"append", "replace", "validate", "restore", "rollback", "rewriting"}
        BY <1>0 DEF Ladder
      <3>2. ~Go("rollback") /\ ~Go(Undoing)
        BY <2>2 DEF Undoing
      <3>3. op.phase \notin {"append", "replace", "validate"} => Return("error")
        BY <1>5, <3>1 DEF Fail
      <3>4. op.phase = "append" => Go("rollback") \/ Return("error")
        BY <1>5 DEF Fail
      <3>5. op.phase = "replace" => Go(Undoing) \/ Return("error")
        BY <1>5 DEF Fail
      <3>6. op.phase = "validate" => Go(Undoing)
        BY <1>5 DEF Fail
      <3> QED
        BY <3>1, <3>2, <3>3, <3>4, <3>5, <3>6 DEF Return
    <2> QED
      BY <1>4, <2>1, <2>3
  <1>6. CASE Crash
    <2>1. faults' = faults + 1 /\ utoc' = utoc /\ outcome' = "none"
      BY <1>6 DEF Crash, Fault, Return
    <2> QED
      BY <1>4, <2>1
  <1>7. CASE Open
    BY <1>7 DEF Open
  <1> QED
    BY <1>2, <1>3, <1>5, <1>6, <1>7 DEF Next

(* An edit that returns success has put its table in place, checked; one   *)
(* that returns an error has left, or put back, the original, unless a     *)
(* second fault hit it while it was being undone.                          *)
THEOREM OutcomesAreTrue == Spec => OutcomeIsTrue
  <1> DEFINE Told == op # Idle /\ op' = Idle =>
                       /\ outcome' = "ok" => utoc' = op.toc
                       /\ outcome' = "error" => utoc' = op.original \/ faults' >= op.before + 2
  <1>1. Sounds /\ Tallies /\ [Next]_vars => [Told]_vars
    BY EditEnds
  <1> QED
    BY <1>1, TablesHold, TalliesHold, PTL DEF Spec, OutcomeIsTrue

(* An edit that no call fails succeeds: the checks of duplicate, delete,   *)
(* rename and overwrite_packages never take back what the edit itself      *)
(* planned, in any container, after any edits.                             *)
THEOREM UnhitEditsAlwaysSucceed == Spec => UnhitEditsSucceed
  <1> DEFINE Succeeds == op # Idle /\ op' = Idle /\ faults' = op.before => outcome' = "ok"
  <1>1. Sounds /\ Tallies /\ [Next]_vars => [Succeeds]_vars
    <2> SUFFICES ASSUME Sounds, Tallies, Next, op # Idle, op' = Idle, faults' = op.before
                 PROVE  outcome' = "ok"
      OBVIOUS
    <2>1. op.before \in Nat
      BY DEF Tallies
    <2> QED
      BY <2>1, EditEnds
  <1> QED
    BY <1>1, TablesHold, TalliesHold, PTL DEF Spec, UnhitEditsSucceed

(* The table of contents is lost only when two faults hit one edit: the    *)
(* table is written over only to take an edit back, which takes a fault.   *)
THEOREM TocSurvivesOneFault == Spec => LossTakesTwoFaults
  <1> DEFINE Survives == op # Idle /\ op' = Idle /\ utoc' = Torn => faults' >= op.before + 2
  <1>1. Sounds /\ Tallies /\ [Next]_vars => [Survives]_vars
    <2> SUFFICES ASSUME Sounds, Tallies, Next, op # Idle, op' = Idle, utoc' = Torn
                 PROVE  faults' >= op.before + 2
      OBVIOUS
    <2>1. op.toc # Torn
      BY TornIsNotWhole DEF Sounds, Ladder
    <2> QED
      BY <2>1, EditEnds
  <1> QED
    BY <1>1, TablesHold, TalliesHold, PTL DEF Spec, LossTakesTwoFaults

-----------------------------------------------------------------------------
(* Every table in play has an id and a block for each slot it uses. *)
THEOREM InPlaceTypes == Spec => []InPlaceTypeOK
  <1>1. Sounds /\ Counts /\ Results => InPlaceTypeOK
    <2> SUFFICES ASSUME Sounds, Counts, Results PROVE InPlaceTypeOK
      OBVIOUS
    <2>1. utoc # Torn => TocOK(utoc) /\ \A i \in Slots(utoc) : utoc.at[i] <= Len(ucas)
      BY SoundIsOK DEF Sounds, Tables
    <2>2. op # Idle => TocOK(op.toc) /\ TocOK(op.original) /\ op.done \in 0 .. Len(op.items)
      BY SoundIsOK DEF Sounds, Tables, Climbing
    <2> QED
      BY <2>1, <2>2 DEF Sounds, Tables, Counts, Results, InPlaceTypeOK
  <1> QED
    BY <1>1, TablesHold, CountsHold, PTL

(* The content of a table is what is read through it. *)
LEMMA ContentIsIn ==
  \A t : Content(t) = ContentIn(ucas, t)
  BY DEF Content, ContentIn, PackageAt, PackageIn, RedirectAt, RedirectIn, ReadChunk, ReadIn

(* The table that can be seen is a sound one. *)
LEMMA VisibleIsSound ==
  ASSUME Sounds
  PROVE  Visible # Torn => Sound(ucas, Visible, unlisted)
  <1>1. CASE op.phase = "rewriting"
    <2>1. op # Idle
      BY <1>1 DEF Idle
    <2> QED
      BY <1>1, <2>1 DEF Visible, Sounds, Tables, Climbing
  <1>2. CASE op.phase # "rewriting"
    BY <1>2 DEF Visible, Sounds, Tables
  <1> QED
    BY <1>1, <1>2

(* Redirects lead to packages. *)
THEOREM RedirectsAlwaysResolve == Spec => []RedirectsResolve
  <1>1. Sounds => RedirectsResolve
    <2> SUFFICES ASSUME Sounds, Visible # Torn, NEW p \in Path, Content(Visible)[2][p] # Absent
                 PROVE  Content(Visible)[1][Content(Visible)[2][p]] # Absent /\ Content(Visible)[2][p] \in Path
      BY DEF RedirectsResolve, Store!RedirectsLead, Store!Held, Shown
    <2> DEFINE g == Chart(ucas, Visible)
    <2>1. Sound(ucas, Visible, unlisted)
      BY VisibleIsSound
    <2>2. Content(Visible) = <<PackagesOf(g), RedirectsOf(g)>>
      BY <2>1, ContentIs, ContentIsIn
    <2>3. Coherent(g, unlisted)
      BY <2>1 DEF Sound
    <2> HIDE DEF g
    <2>4. Content(Visible)[2][p] = RedirectOf(g, p)
      BY <2>2 DEF RedirectsOf
    <2>5. RedirectOf(g, p) \in Packs(g)
      BY <2>3, <2>4, CoherentLeads
    <2>6. RedirectOf(g, p) \in Path
      BY <2>5 DEF Packs
    <2>7. PackageOf(g, RedirectOf(g, p)) # Absent
      BY <2>3, <2>5, <2>6, PackageTyped DEF Coherent
    <2>8. Content(Visible)[1][RedirectOf(g, p)] = PackageOf(g, RedirectOf(g, p))
      BY <2>2, <2>6 DEF PackagesOf
    <2> QED
      BY <2>4, <2>6, <2>7, <2>8
  <1> QED
    BY <1>1, TablesHold, PTL

(* What the header and the bundles say of each other. *)
THEOREM StoreAlwaysMatches == Spec => []StoreMatchesChunks
  <1>1. Sounds => StoreMatchesChunks
    <2> SUFFICES ASSUME Sounds, utoc # Torn, SlotsOf(utoc, "header") # {}
                 PROVE  LET held == {utoc.ids[i].pkg : i \in SlotsOf(utoc, "bundle")}
                        IN /\ Cardinality(SlotsOf(utoc, "header")) = 1
                           /\ ReadChunk(utoc, HeaderSlot(utoc)).store \subseteq held
                           /\ held \subseteq ReadChunk(utoc, HeaderSlot(utoc)).store \cup unlisted
      BY DEF StoreMatchesChunks
    <2> DEFINE g == Chart(ucas, utoc)
               held == {utoc.ids[i].pkg : i \in SlotsOf(utoc, "bundle")}
               header == HeaderSlot(utoc)
    <2>1. Sound(ucas, utoc, unlisted)
      BY DEF Sounds, Tables
    <2>2. header \in Live(utoc) /\ utoc.ids[header] = HeaderId /\ SlotsOf(utoc, "header") = {header}
      BY <2>1, HeaderIs
    <2>3. Cardinality(SlotsOf(utoc, "header")) = 1
      BY <2>2, FS_Singleton
    <2>4. DOMAIN g = LiveIds(utoc) /\ Coherent(g, unlisted)
      BY <2>1, ChartDomainIs DEF Sound
    <2>5. HeaderId \in DOMAIN g /\ ReadChunk(utoc, header) = g[HeaderId]
      BY <2>1, <2>2, <2>4, ReadIs DEF ReadChunk, ReadIn, LiveIds
    <2>6. held = Packs(g)
      <3>1. ASSUME NEW i \in SlotsOf(utoc, "bundle") PROVE utoc.ids[i].pkg \in Packs(g)
        <4>1. i \in Live(utoc) /\ utoc.ids[i].kind = "bundle"
          BY DEF SlotsOf, Live
        <4>2. utoc.ids[i].pkg \in Path /\ utoc.ids[i] = BundleId(utoc.ids[i].pkg)
          BY <2>1, <4>1, SlotHolds
        <4> QED
          BY <2>4, <4>1, <4>2 DEF Packs, LiveIds
      <3>2. ASSUME NEW p \in Packs(g) PROVE \E i \in SlotsOf(utoc, "bundle") : utoc.ids[i].pkg = p
        <4>1. p \in Path /\ BundleId(p) \in LiveIds(utoc)
          BY <2>4 DEF Packs
        <4>2. PICK i \in Live(utoc) : utoc.ids[i] = BundleId(p)
          BY <4>1 DEF LiveIds
        <4> QED
          BY <4>1, <4>2, ChunkIdsAreIds DEF SlotsOf, Live
      <3> QED
        BY <3>1, <3>2
    <2> HIDE DEF g, header, held
    <2>7. g[HeaderId].store \subseteq Packs(g) /\ Packs(g) \subseteq g[HeaderId].store \cup unlisted
      BY <2>4, <2>5 DEF Coherent, Stored
    <2> QED
      BY <2>3, <2>5, <2>6, <2>7 DEF header, held
  <1> QED
    BY <1>1, TablesHold, PTL

(* Wrapper and body agree. *)
THEOREM WrappersAlwaysMatch == Spec => []WrapperMatchesBody
  <1>1. Sounds => WrapperMatchesBody
    <2> SUFFICES ASSUME Sounds, utoc # Torn, NEW i \in SlotsOf(utoc, "bundle")
                 PROVE  LET bulk == FindChunk(utoc, ChunkId(utoc.ids[i].pkg, "bulk"))
                            bundle == ReadChunk(utoc, i)
                        IN /\ bundle.name = utoc.ids[i].pkg
                           /\ bulk # 0 => bundle.size = Length[ReadChunk(utoc, bulk).body]
      BY DEF WrapperMatchesBody
    <2> DEFINE g == Chart(ucas, utoc)
               p == utoc.ids[i].pkg
               bulk == FindChunk(utoc, BulkId(p))
    <2>1. Sound(ucas, utoc, unlisted)
      BY DEF Sounds, Tables
    <2>2. i \in Live(utoc) /\ utoc.ids[i].kind = "bundle"
      BY DEF SlotsOf, Live
    <2>3. p \in Path /\ utoc.ids[i] = BundleId(p) /\ IsBundle(p, ucas[utoc.at[i]])
      BY <2>1, <2>2, SlotHolds
    <2>4. Table(utoc) /\ DOMAIN g = LiveIds(utoc) /\ Wrapped(g)
      BY <2>1, ChartDomainIs DEF Sound, Coherent
    <2>5. ReadChunk(utoc, i) = ucas[utoc.at[i]] /\ ReadChunk(utoc, i) = g[BundleId(p)] /\ BundleId(p) \in DOMAIN g
      BY <2>1, <2>2, <2>3, <2>4, ReadIs DEF ReadChunk, ReadIn, LiveIds
    <2>6. ReadChunk(utoc, i).name = p
      BY <2>3, <2>5, BundleFields
    <2>7. ASSUME bulk # 0 PROVE BulkId(p) \in DOMAIN g /\ ReadChunk(utoc, bulk) = g[BulkId(p)]
      <3>1. BulkId(p).kind # "retired"
        BY DEF BulkId, ChunkId
      <3>2. bulk \in Live(utoc) /\ utoc.ids[bulk] = BulkId(p)
        BY <2>4, <2>7, <3>1, FindIs
      <3> HIDE DEF bulk
      <3> QED
        BY <2>1, <2>4, <3>2, ReadIs DEF ReadChunk, ReadIn, LiveIds
    <2> HIDE DEF g, p
    <2>8. bulk # 0 => ReadChunk(utoc, i).size = Length[ReadChunk(utoc, bulk).body]
      BY <2>3, <2>4, <2>5, <2>7 DEF Wrapped
    <2> QED
      BY <2>6, <2>8 DEF p, BulkId
  <1> QED
    BY <1>1, TablesHold, PTL

(* The directory lists the chunks. *)
THEOREM DirectoryIsAlwaysExact == Spec => []DirectoryIsExact
  <1>1. Sounds => DirectoryIsExact
    <2> SUFFICES ASSUME Sounds, utoc # Torn, utoc.indexed
                 PROVE  utoc.entries = {[path |-> utoc.ids[i].pkg, kind |-> utoc.ids[i].kind, slot |-> i] :
                                          i \in SlotsOf(utoc, "bundle") \cup SlotsOf(utoc, "bulk")}
      BY DEF DirectoryIsExact
    <2>1. Sound(ucas, utoc, unlisted)
      BY DEF Sounds, Tables
    <2>2. utoc.entries = Directory(utoc.ids)
      BY <2>1 DEF Sound, Table
    <2>3. SlotsOf(utoc, "bundle") \cup SlotsOf(utoc, "bulk") = {i \in DOMAIN utoc.ids : utoc.ids[i].kind \in {"bundle", "bulk"}}
      BY DEF SlotsOf, Slots
    <2> QED
      BY <2>2, <2>3 DEF Directory
  <1> QED
    BY <1>1, TablesHold, PTL

-----------------------------------------------------------------------------
(* What the container showed before the edit under way.                    *)
Former == Content(op.original)

(* What is shown is read from the file through the visible table.          *)
LEMMA ShownIs ==
  /\ Shown = IF Visible = Torn THEN Emptied ELSE ContentIn(ucas, Visible)
  /\ Former = ContentIn(ucas, op.original)
  BY ContentIsIn DEF Shown, Former

(* The same of the next state. *)
LEMMA ShownNext ==
  /\ Shown' = IF Visible' = Torn THEN Emptied ELSE ContentIn(ucas', Visible')
  /\ Former' = ContentIn(ucas', op'.original)
  <1>1. Content(Visible)' = ContentIn(ucas', Visible')
    BY DEF Content, ContentIn, PackageAt, PackageIn, RedirectAt, RedirectIn, ReadChunk, ReadIn
  <1>2. Content(op.original)' = ContentIn(ucas', op'.original)
    BY DEF Content, ContentIn, PackageAt, PackageIn, RedirectAt, RedirectIn, ReadChunk, ReadIn
  <1>3. Emptied' = Emptied
    BY DEF Emptied
  <1>4. Shown' = IF (Visible = Torn)' THEN Emptied' ELSE Content(Visible)'
    BY DEF Shown
  <1> QED
    BY <1>1, <1>2, <1>3, <1>4 DEF Former, Torn

(* What can be taken back, now and in the next state.                      *)
LEMMA UndoIs ==
  /\ Undo = IF op # Idle /\ (op.phase = "rewriting" \/ (utoc # op.original /\ Shown # Former))
            THEN Former ELSE Absent
  /\ Undo' = IF op' # Idle /\ (op'.phase = "rewriting" \/ (utoc' # op'.original /\ Shown' # Former'))
             THEN Former' ELSE Absent
  BY DEF Undo, Former, Idle

(* A file that grows shows the same through a sound table.                 *)
LEMMA GrowthShows ==
  ASSUME NEW file, NEW longer, longer = file \/ \E block : longer = Append(file, block),
         NEW t, NEW W, Sequence(file), Sound(file, t, W)
  PROVE  ContentIn(longer, t) = ContentIn(file, t)
  <1>1. CASE \E block : longer = Append(file, block)
    <2>1. Sound(longer, t, W) /\ Chart(longer, t) = Chart(file, t)
      BY <1>1, AppendKeeps
    <2> QED
      BY <2>1, ContentIs
  <1> QED
    BY <1>1

(* What is shown is packages and redirects.                                *)
LEMMA ContentIsHeld ==
  ASSUME NEW file, NEW t, NEW W, Sound(file, t, W)
  PROVE  /\ ContentIn(file, t) = <<ContentIn(file, t)[1], ContentIn(file, t)[2]>>
         /\ ContentIn(file, t)[1] \in Held /\ ContentIn(file, t) # Absent
  <1> DEFINE g == Chart(file, t)
  <1>1. ContentIn(file, t) = <<PackagesOf(g), RedirectsOf(g)>>
    BY ContentIs
  <1>2. PackagesOf(g) \in Held /\ RedirectsOf(g) \in Redirected
    BY ContentTyped DEF Sound, Coherent
  <1> HIDE DEF g
  <1>3. ContentIn(file, t) \in Held \X Redirected
    BY <1>1, <1>2
  <1>4. Absent \notin Held \X Redirected
    BY StoreAssumption
  <1> QED
    BY <1>1, <1>2, <1>3, <1>4

(* While an edit is under way something can be seen.                       *)
LEMMA SomethingVisible ==
  ASSUME Sounds
  PROVE  /\ Sequence(ucas) /\ (Visible # Torn => Sound(ucas, Visible, unlisted))
         /\ op # Idle => /\ Visible # Torn /\ op.original # Torn
                         /\ Sound(ucas, op.original, unlisted)
         /\ op.phase # "rewriting" => Visible = utoc
         /\ op.phase = "rewriting" => Visible = op.original
  <1>1. op # Idle => Sound(ucas, op.original, unlisted) /\ op.original # Torn
    BY TornIsNotWhole DEF Sounds, Tables, Climbing, Ladder
  <1>2. op # Idle => Visible # Torn
    BY TornIsNotWhole DEF Visible, Sounds, Ladder
  <1> QED
    BY <1>1, <1>2, VisibleIsSound DEF Visible, Sounds, Tables

(* With nothing to take back, an edit shows what it began with.            *)
LEMMA NothingToUndo ==
  ASSUME Sounds, op # Idle
  PROVE  /\ Former # Absent
         /\ Undo = Former \/ (Undo = Absent /\ Shown = Former)
         /\ op.phase = "rewriting" => Undo = Former
  <1>1. Former # Absent
    BY SomethingVisible, ContentIsHeld, ShownIs
  <1>2. utoc = op.original /\ op.phase # "rewriting" => Shown = Former
    BY SomethingVisible, ShownIs
  <1>3. \/ Undo = Former
        \/ Undo = Absent /\ op.phase # "rewriting" /\ (utoc = op.original \/ Shown = Former)
    BY UndoIs
  <1>4. op.phase = "rewriting" => Undo = Former
    BY UndoIs
  <1> QED
    BY <1>1, <1>2, <1>3, <1>4

(* A step that leaves the visible table and the original where they are.   *)
LEMMA StaysShown ==
  ASSUME Sounds, Visible' = Visible, op # Idle, op.phase # "rewriting",
         op' = Idle \/ (op'.original = op.original /\ op'.phase # "rewriting"),
         ucas' = ucas \/ \E block : ucas' = Append(ucas, block)
  PROVE  Shown' = Shown /\ Undo' \in {Absent, Undo}
  <1>1. Shown' = ContentIn(ucas', Visible) /\ Shown = ContentIn(ucas, Visible)
    BY SomethingVisible, ShownIs, ShownNext
  <1>2. Former' = ContentIn(ucas', op'.original) /\ Former = ContentIn(ucas, op.original)
    BY ShownIs, ShownNext
  <1>3. ContentIn(ucas', Visible) = ContentIn(ucas, Visible) /\ ContentIn(ucas', op.original) = ContentIn(ucas, op.original)
    BY SomethingVisible, GrowthShows
  <1>4. Visible = utoc /\ (op' = Idle \/ Visible' = utoc')
    BY DEF Visible, Idle
  <1> QED
    BY <1>1, <1>2, <1>3, <1>4, UndoIs

(* A step that shows the original table.                                   *)
LEMMA ShowsFormer ==
  ASSUME Sounds, op # Idle, Visible' = op.original, ucas' = ucas
  PROVE  /\ Shown' = Former
         /\ op' = Idle => Undo' = Absent
         /\ op' # Idle /\ op'.phase = "rewriting" /\ op'.original = op.original => Undo' = Former
  <1>1. Shown' = ContentIn(ucas, op.original) /\ Former = ContentIn(ucas, op.original)
    BY SomethingVisible, ShownIs, ShownNext
  <1>2. op'.original = op.original => Former' = ContentIn(ucas, op.original)
    BY ShownNext
  <1> QED
    BY <1>1, <1>2, UndoIs

(* All a step does to what is shown, but for the replacement of the table: *)
(* it shows the same, or what the edit began with, for good or while that  *)
(* is being written, or nothing any more.                                  *)
Quiet ==
  \/ Shown' = Shown /\ Undo' \in {Absent, Undo}
  \/ op # Idle /\ Shown' = Former /\ Undo' \in {Absent, Former}
  \/ op # Idle /\ op.phase = "rewriting" /\ Shown' = Emptied /\ Undo' = Absent

(* When no edit is under way the table on disk is shown, for good. *)
LEMMA IdleVisible ==
  ASSUME op' = Idle
  PROVE  Visible' = utoc' /\ Undo' = Absent
  BY UndoIs DEF Visible, Idle

(* The start of an edit shows nothing new. *)
LEMMA EditIsQuiet == Sounds /\ Edit => Quiet
  <1> SUFFICES ASSUME Sounds, Edit PROVE Quiet
    OBVIOUS
  <1>1. utoc # Torn /\ op = Idle
    BY EditIsReady DEF Ready
  <1>2. PICK how, toc, items, gone, asked : Start(how, toc, items, gone, asked)
    BY <1>1, EditPlanned DEF Sounds, Tables
  <1>3. op'.phase = "append" /\ op'.original = utoc /\ ucas' = ucas /\ utoc' = utoc
    BY <1>2 DEF Start
  <1>4. Visible = utoc /\ Visible' = utoc
    BY <1>1, <1>3 DEF Visible, Idle
  <1>5. Shown = ContentIn(ucas, utoc) /\ Shown' = ContentIn(ucas, utoc) /\ Former' = ContentIn(ucas, utoc)
    BY <1>1, <1>3, <1>4, ShownIs, ShownNext
  <1> QED
    BY <1>3, <1>5, UndoIs DEF Quiet

(* The steps but the replacement show the same, or the original again. *)
LEMMA StepIsQuiet == Sounds /\ Step /\ ~ReplaceToc => Quiet
  <1> SUFFICES ASSUME Sounds, Step, ~ReplaceToc PROVE Quiet
    OBVIOUS
  <1>1. CASE AppendUcas
    <2>1. op # Idle /\ op.phase = "append"
      BY <1>1 DEF AppendUcas, Idle
    <2>2. \/ op' = [op EXCEPT !.done = @ + 1, !.phase = "append"]
          \/ op' = [op EXCEPT !.done = @ + 1, !.phase = "replace"]
      BY <1>1 DEF AppendUcas
    <2>3. op'.original = op.original /\ op'.phase \in {"append", "replace"}
      BY <2>1, <2>2 DEF Ladder, Sounds
    <2>4. utoc' = utoc /\ \E block : ucas' = Append(ucas, block)
      BY <1>1 DEF AppendUcas
    <2>5. Visible' = Visible
      BY <2>1, <2>3, <2>4 DEF Visible
    <2> QED
      BY <2>1, <2>3, <2>4, <2>5, StaysShown DEF Quiet
  <1>2. CASE Validate
    <2>1. op # Idle /\ op.phase = "validate" /\ ucas' = ucas /\ utoc' = utoc
      BY <1>2 DEF Validate, Idle
    <2>2. op' = Idle \/ op' = [op EXCEPT !.phase = "restore"] \/ op' = [op EXCEPT !.phase = "rollback"]
      BY <1>2 DEF Validate, Go, Return, Undoing
    <2>3. op' = Idle \/ (op'.original = op.original /\ op'.phase # "rewriting")
      BY <2>1, <2>2, PhaseChanges DEF Sounds
    <2>4. Visible' = Visible
      BY <2>1, <2>3 DEF Visible, Idle
    <2> QED
      BY <2>1, <2>3, <2>4, StaysShown DEF Quiet
  <1>3. CASE Restore \/ Rewrite
    <2>1. op # Idle /\ op' = Idle /\ ucas' = ucas /\ utoc' = op.original
      BY <1>3 DEF Restore, Rewrite, Return, Idle
    <2> QED
      BY <2>1, IdleVisible, ShowsFormer DEF Quiet
  <1>4. CASE Rollback
    <2>1. op # Idle /\ op' = [op EXCEPT !.phase = "rewriting"] /\ ucas' = ucas
      BY <1>4 DEF Rollback, Go, Idle
    <2>2. op'.phase = "rewriting" /\ op'.original = op.original /\ op' # Idle
      BY <2>1, PhaseChanges DEF Sounds, Idle
    <2>3. Visible' = op.original
      BY <2>2 DEF Visible
    <2> QED
      BY <2>1, <2>2, <2>3, ShowsFormer DEF Quiet
  <1> QED
    BY <1>1, <1>2, <1>3, <1>4 DEF Step

(* A failing call or a death shows the same, but in the middle of writing  *)
(* over the table, when it leaves nothing; a reopened handle the same.     *)
LEMMA FaultIsQuiet == Sounds /\ (Fail \/ Crash \/ Open) => Quiet
  <1> SUFFICES ASSUME Sounds, Fail \/ Crash \/ Open PROVE Quiet
    OBVIOUS
  <1>0. Ladder
    BY DEF Sounds
  <1>1. ASSUME op # Idle, op.phase = "rewriting", op' = Idle, utoc' = utoc PROVE Quiet
    <2>1. Visible' = Torn /\ Undo' = Absent
      BY <1>0, <1>1, IdleVisible DEF Ladder
    <2> QED
      BY <1>1, <2>1, ShownNext DEF Quiet
  <1>2. CASE Fail
    <2>1. /\ op # Idle /\ utoc' = utoc /\ (ucas' = ucas \/ ucas' = Append(ucas, Torn))
          /\ op' = Idle \/ op' = [op EXCEPT !.phase = "restore"] \/ op' = [op EXCEPT !.phase = "rollback"]
      BY <1>0, <1>2, FailMoves
    <2>2. op' = Idle \/ (op'.original = op.original /\ op'.phase # "rewriting")
      <3>1. CASE op' = [op EXCEPT !.phase = "restore"]
        <4>1. op'.phase = "restore" /\ op'.original = op.original
          BY <1>0, <2>1, <3>1, PhaseChanges
        <4> QED
          BY <4>1
      <3>2. CASE op' = [op EXCEPT !.phase = "rollback"]
        <4>1. op'.phase = "rollback" /\ op'.original = op.original
          BY <1>0, <2>1, <3>2, PhaseChanges
        <4> QED
          BY <4>1
      <3> QED
        BY <2>1, <3>1, <3>2
    <2>3. CASE op.phase = "rewriting"
      <3>1. op' = Idle
        BY <1>0, <1>2, <2>3, FailMoves
      <3> QED
        BY <1>1, <2>1, <2>3, <3>1
    <2>4. CASE op.phase # "rewriting"
      <3>1. Visible' = Visible
        BY <2>1, <2>2, <2>4 DEF Visible, Idle
      <3> QED
        BY <2>1, <2>2, <2>4, <3>1, StaysShown DEF Quiet
    <2> QED
      BY <2>3, <2>4
  <1>3. CASE Crash
    <2>1. op # Idle /\ op' = Idle /\ utoc' = utoc /\ (ucas' = ucas \/ ucas' = Append(ucas, Torn))
      BY <1>3 DEF Crash, Fault, Return
    <2>2. CASE op.phase # "rewriting"
      <3>1. Visible' = Visible
        BY <2>1, <2>2 DEF Visible, Idle
      <3> QED
        BY <2>1, <2>2, <3>1, StaysShown DEF Quiet
    <2> QED
      BY <1>1, <2>1, <2>2
  <1>4. CASE Open
    <2>1. op = Idle /\ UNCHANGED <<ucas, utoc, op>>
      BY <1>4 DEF Open
    <2>2. Visible' = Visible
      BY <2>1 DEF Visible
    <2> QED
      BY <2>1, <2>2, ShownIs, ShownNext, UndoIs DEF Quiet
  <1> QED
    BY <1>2, <1>3, <1>4

(* The replacement of the table commits an edit, if it changes anything.   *)
LEMMA ReplacementCommits ==
  ASSUME Sounds, ReplaceToc
  PROVE  /\ Undo = Absent /\ Undo' \in {Absent, Shown}
         /\ Shown' = Shown => Undo' = Undo
         /\ Shown = <<Shown[1], Shown[2]>> /\ Shown' = <<Shown'[1], Shown'[2]>> /\ Shown'[1] \in Held
         /\ \/ Duplicated(Shown[1], Shown[2], Shown'[1], Shown'[2])
            \/ Removed(Shown[1], Shown[2], Shown'[1], Shown'[2])
            \/ Renamed(Shown[1], Shown[2], Shown'[1], Shown'[2])
            \/ Overwritten(Shown[1], Shown[2], Shown'[1], Shown'[2])
  <1>1. /\ op # Idle /\ utoc = op.original /\ utoc' = op.toc
        /\ Sound(ucas, op.original, unlisted) /\ Sound(ucas, op.toc, unlisted)
        /\ Edited(Chart(ucas, op.original), Chart(ucas, op.toc))
    BY ReplacedToc DEF Sounds
  <1>2. op.phase = "replace" /\ ucas' = ucas
    BY DEF ReplaceToc
  <1>3. op' = Idle \/ op' = [op EXCEPT !.phase = "validate"]
    BY DEF ReplaceToc, Go, Return
  <1>4. op' = Idle \/ (op'.original = op.original /\ op'.phase = "validate")
    BY <1>1, <1>3, PhaseChanges DEF Sounds
  <1>5. Visible = op.original /\ Visible' = op.toc /\ op.original # Torn /\ op.toc # Torn
    BY <1>1, <1>2, <1>4, TornIsNotWhole DEF Visible, Idle, Sounds, Ladder
  <1> DEFINE before == ContentIn(ucas, op.original)
             after == ContentIn(ucas, op.toc)
  <1>6. Shown = before /\ Former = before /\ Shown' = after /\ (op' = Idle \/ Former' = before)
    BY <1>2, <1>4, <1>5, ShownIs, ShownNext
  <1>10. op.phase # "rewriting" /\ (op' = Idle \/ op'.phase # "rewriting")
    BY <1>2, <1>4
  <1>7. /\ before = <<before[1], before[2]>> /\ after = <<after[1], after[2]>> /\ after[1] \in Held
        /\ before = <<PackagesOf(Chart(ucas, op.original)), RedirectsOf(Chart(ucas, op.original))>>
        /\ after = <<PackagesOf(Chart(ucas, op.toc)), RedirectsOf(Chart(ucas, op.toc))>>
    BY <1>1, ContentIs, ContentIsHeld
  <1>8. /\ before[1] = PackagesOf(Chart(ucas, op.original)) /\ before[2] = RedirectsOf(Chart(ucas, op.original))
        /\ after[1] = PackagesOf(Chart(ucas, op.toc)) /\ after[2] = RedirectsOf(Chart(ucas, op.toc))
    BY <1>7
  <1> HIDE DEF before, after
  <1>9. \/ Duplicated(before[1], before[2], after[1], after[2]) \/ Removed(before[1], before[2], after[1], after[2])
        \/ Renamed(before[1], before[2], after[1], after[2]) \/ Overwritten(before[1], before[2], after[1], after[2])
    BY <1>1, <1>8 DEF Edited
  <1> QED
    BY <1>6, <1>7, <1>9, <1>10, UndoIs

(* What the abstract store may do, said of what is shown.                  *)
LEMMA QuietImplements ==
  ASSUME Sounds, Quiet
  PROVE  Store!Next \/ UNCHANGED Store!vars
  <1>1. Shown = <<Shown[1], Shown[2]>>
    BY SomethingVisible, ContentIsHeld, ShownIs DEF Emptied
  <1>2. op # Idle => Former = <<Former[1], Former[2]>> /\ Former # Absent
    BY SomethingVisible, ContentIsHeld, ShownIs
  <1>3. CASE Shown' = Shown /\ Undo' = Undo
    BY <1>3 DEF Store!vars
  <1>4. CASE Shown' = Shown /\ Undo # Absent /\ Undo' = Absent
    BY <1>4 DEF Store!Next, Store!Settle
  <1>5. CASE op # Idle /\ Shown' = Former /\ Undo' = Absent
    <2>1. CASE Undo = Absent
      BY <1>2, <1>3, <1>5, <2>1, NothingToUndo
    <2>2. CASE Undo # Absent
      <3>1. <<Shown'[1], Shown'[2]>> = Undo
        BY <1>2, <1>5, <2>2, NothingToUndo
      <3> QED
        BY <1>5, <2>2, <3>1 DEF Store!Next, Store!TakeBack
    <2> QED
      BY <2>1, <2>2
  <1>6. CASE op # Idle /\ Shown' = Former /\ Undo' = Former
    <2>1. Undo' = (IF Undo = Absent THEN <<Shown[1], Shown[2]>> ELSE Undo)
      BY <1>1, <1>2, <1>6, NothingToUndo
    <2>2. <<Shown'[1], Shown'[2]>> = Undo'
      BY <1>2, <1>6
    <2> QED
      BY <2>1, <2>2 DEF Store!Next, Store!StartTakingBack
  <1>7. CASE op # Idle /\ op.phase = "rewriting" /\ Shown' = Emptied /\ Undo' = Absent
    <2>1. Undo # Absent
      BY <1>2, <1>7, NothingToUndo
    <2>2. Shown'[1] = [p \in Path |-> Absent] /\ Shown'[2] = [p \in Path |-> Absent]
      BY <1>7 DEF Emptied
    <2> QED
      BY <1>7, <2>1, <2>2 DEF Store!Next, Store!Lose
  <1> QED
    BY <1>3, <1>4, <1>5, <1>6, <1>7 DEF Quiet

(* The replacement of the table is a commit of the abstract store. *)
LEMMA CommitImplements ==
  ASSUME Sounds, ReplaceToc
  PROVE  Store!Next \/ UNCHANGED Store!vars
  <1>2. /\ Undo = Absent /\ Undo' \in {Absent, Shown}
        /\ Shown' = Shown => Undo' = Undo
        /\ Shown = <<Shown[1], Shown[2]>> /\ Shown' = <<Shown'[1], Shown'[2]>> /\ Shown'[1] \in Held
        /\ \/ Duplicated(Shown[1], Shown[2], Shown'[1], Shown'[2])
           \/ Removed(Shown[1], Shown[2], Shown'[1], Shown'[2])
           \/ Renamed(Shown[1], Shown[2], Shown'[1], Shown'[2])
           \/ Overwritten(Shown[1], Shown[2], Shown'[1], Shown'[2])
    BY ReplacementCommits
  <1>3. CASE Shown' = Shown
    BY <1>2, <1>3 DEF Store!vars
  <1>4. CASE Shown' # Shown
    <2>1. <<Shown'[1], Shown'[2]>> # <<Shown[1], Shown[2]>> /\ Undo' \in {Absent, <<Shown[1], Shown[2]>>}
      BY <1>2, <1>4
    <2>2. Duplicated(Shown[1], Shown[2], Shown'[1], Shown'[2]) =>
            \E p \in Path, e \in Export, b \in Body : Store!Duplicate(p, e, b)
      BY DEF Duplicated, Store!Duplicate, Store!Held
    <2>3. Removed(Shown[1], Shown[2], Shown'[1], Shown'[2]) => \E p \in Path : Store!Delete(p)
      BY DEF Removed, Store!Delete, Store!Held
    <2>4. Renamed(Shown[1], Shown[2], Shown'[1], Shown'[2]) =>
            \E p, q \in Path, b \in Body \cup {Absent}, leave \in BOOLEAN : Store!Rename(p, q, b, leave)
      <3> SUFFICES ASSUME Renamed(Shown[1], Shown[2], Shown'[1], Shown'[2])
                   PROVE  \E p, q \in Path, b \in Body \cup {Absent}, leave \in BOOLEAN : Store!Rename(p, q, b, leave)
        OBVIOUS
      <3>2. PICK p \in Path, q \in Path, b \in Body \cup {Absent}, leave \in BOOLEAN :
              /\ Shown[1][p] # Absent /\ Shown[1][q] = Absent
              /\ Shown'[1] = [Shown[1] EXCEPT ![q] = [Shown[1][p] EXCEPT !.body = b], ![p] = Absent]
              /\ Shown'[2] = [r \in Path |-> IF Shown[2][r] = p \/ (leave /\ r = p) THEN q
                                                       ELSE Shown[2][r]]
        BY Zenon DEF Renamed
      <3>3. Store!Rename(p, q, b, leave)
        BY <3>2, Zenon DEF Store!Rename, Store!Held
      <3> QED
        BY <3>3
    <2>5. Overwritten(Shown[1], Shown[2], Shown'[1], Shown'[2]) => Store!Overwrite
      <3>1. Shown'[1] \in Store!Packages
        BY <1>2 DEF Held, Package, Store!Packages, Store!Package
      <3> QED
        BY <3>1 DEF Overwritten, Store!Overwrite
    <2>6. Store!Commit
      BY <1>2, <2>1, <2>2, <2>3, <2>4, <2>5 DEF Store!Commit
    <2> QED
      BY <2>6 DEF Store!Next
  <1> QED
    BY <1>3, <1>4

(* A cooked container shows a state the abstract store can start in. *)
LEMMA InitImplements == Init => Store!Init
  <1> SUFFICES ASSUME Init PROVE Store!Init
    OBVIOUS
  <1>1. PICK o \in Origins : ucas = BlocksOf(o) /\ utoc = CookedToc(o) /\ op = Idle
    BY DEF Init, BlocksOf
  <1>2. Visible = utoc /\ utoc # Torn
    <2>1. Whole(utoc)
      BY <1>1 DEF CookedToc, Whole
    <2> QED
      BY <1>1, <2>1, TornIsNotWhole DEF Visible, Idle
  <1>8. Shown = Content(Visible) /\ Undo = Absent
    BY <1>1, <1>2, UndoIs DEF Shown
  <1>3. Sound(ucas, utoc, UnlistedOf(o)) /\ RedirectsOf(Chart(ucas, utoc)) = [p \in Path |-> Absent]
    BY <1>1, CookedSound
  <1>4. Content(Visible) = <<PackagesOf(Chart(ucas, utoc)), RedirectsOf(Chart(ucas, utoc))>>
    BY <1>2, <1>3, ContentIs, ContentIsIn
  <1>5. Content(Visible)[1] = PackagesOf(Chart(ucas, utoc)) /\ Content(Visible)[2] = [p \in Path |-> Absent]
    BY <1>3, <1>4
  <1>6. Content(Visible)[1] \in Held
    BY <1>3, <1>5, ContentTyped DEF Sound, Coherent
  <1>7. Content(Visible)[1] \in Store!Packages
    BY <1>6 DEF Held, Package, Store!Packages, Store!Package
  <1> QED
    BY <1>5, <1>7, <1>8 DEF Store!Init

(* Whatever fails and whenever the process dies, an edit happens whole, is *)
(* taken back whole, or does nothing; and only the taking back, of a batch *)
(* of packages, can lose what the container holds, all of it.              *)
THEOREM InPlaceImplements == Spec => ImplementsContainerStore
  <1>1. Init => Store!Init
    BY InitImplements
  <1>2. Sounds /\ [Next]_vars => [Store!Next]_(Store!vars)
    <2> SUFFICES ASSUME Sounds, [Next]_vars PROVE Store!Next \/ UNCHANGED Store!vars
      OBVIOUS
    <2>1. CASE UNCHANGED vars
      <3>1. Shown' = Shown /\ Undo' = Undo
        <4>1. ucas' = ucas /\ utoc' = utoc /\ op' = op /\ Visible' = Visible
          BY <2>1 DEF vars, Visible
        <4> QED
          BY <4>1, ShownIs, ShownNext, UndoIs
      <3> QED
        BY <3>1, QuietImplements DEF Quiet
    <2>2. CASE ReplaceToc
      BY <2>2, CommitImplements
    <2>3. CASE Next /\ ~ReplaceToc
      <3>1. Quiet
        BY <2>3, EditIsQuiet, StepIsQuiet, FaultIsQuiet DEF Next
      <3> QED
        BY <3>1, QuietImplements
    <2> QED
      BY <2>1, <2>2, <2>3
  <1> QED
    BY <1>1, <1>2, TablesHold, PTL DEF Spec, ImplementsContainerStore, Store!Spec
=============================================================================
