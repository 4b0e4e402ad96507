--------------------------- MODULE IoStoreInPlace ---------------------------
(***************************************************************************)
(* The in-place editor of an IoStore container (iostore/container/         *)
(* writer.rs).  The .ucas is only ever appended to; the .utoc, which says  *)
(* where each chunk is, is replaced as the last step, checked after it,    *)
(* and put back when the check fails.  Any step can fail, and the process  *)
(* can die before any of them.  An append is one block of the .ucas; a     *)
(* chunk is one block.                                                     *)
(***************************************************************************)
EXTENDS Naturals, Sequences, FiniteSets, FiniteSetsExt

CONSTANTS
  Path, Export, Body, Absent,  \* as in ContainerStore
  ContainerId,     \* the id of the container, in place of a package id
  Length,          \* the length of a body in bytes
  Origins,         \* the containers an editing session starts from
  MinimumAppended, \* minimum_appended_index of the requests, 0 for None
  MaxEdits,        \* bound: edits begun
  MaxFaults        \* bound: faults after which no later edit is hit

VARIABLES
  ucas,     \* the blocks of the .ucas
  utoc,     \* the table of contents on disk, or Torn
  archive,  \* the table of contents of the handle the caller passes
  op,       \* the edit under way, or Idle
  outcome,  \* what the last edit returned, or none
  unlisted, \* history: packages whose store entry is in another container
  edits, faults

vars == <<ucas, utoc, archive, op, outcome, unlisted, edits, faults>>

-----------------------------------------------------------------------------
(* Chunk ids and chunks *)

Kinds == {"bundle", "bulk", "header", "retired"}
Torn == [kind |-> "torn"]
Nothing == [kind |-> "nothing"]

ChunkId(p, kind) == [pkg |-> p, kind |-> kind, was |-> "none"]
HeaderId == ChunkId(ContainerId, "header")
Retire(id) == [id EXCEPT !.kind = "retired", !.was = id.kind]
Retarget(id, p) == [id EXCEPT !.pkg = p]

Bundle(p, e, size) == [kind |-> "bundle", name |-> p, export |-> e, size |-> size]
Bulk(b) == [kind |-> "bulk", body |-> b]
Header(store, redirects) == [kind |-> "header", store |-> store, redirects |-> redirects]

Package == [export : Export, body : Body \cup {Absent}]
Held == [Path -> Package \cup {Absent}]
Redirected == [Path -> Path \cup {Absent}]

(* What a cooked container is made of: packages of one bundle and, it may  *)
(* be, bulk data, under their paths and with the length in the wrapper.    *)
BundleOf(p, chunk) ==
  /\ chunk.id = ChunkId(p, "bundle") /\ chunk.block = Bundle(p, chunk.block.export, chunk.block.size)
  /\ chunk.block.export \in Export /\ chunk.block.size \in Nat
BulkOf(p, chunk) ==
  /\ chunk.id = ChunkId(p, "bulk") /\ chunk.block = Bulk(chunk.block.body) /\ chunk.block.body \in Body
Origin(o) ==
  /\ o.chunks \in Seq({o.chunks[k] : k \in DOMAIN o.chunks})
  /\ {o.store, o.indexed, o.hashed} \subseteq BOOLEAN
  /\ \A k \in DOMAIN o.chunks : \E p \in Path :
       BundleOf(p, o.chunks[k]) \/ (BulkOf(p, o.chunks[k]) /\ \E j \in DOMAIN o.chunks : BundleOf(p, o.chunks[j]))
  /\ \A j, k \in DOMAIN o.chunks : o.chunks[j].id = o.chunks[k].id => j = k
  /\ \A j, k \in DOMAIN o.chunks : \A p \in Path :
       BundleOf(p, o.chunks[j]) /\ BulkOf(p, o.chunks[k]) =>
         o.chunks[j].block.size = Length[o.chunks[k].block.body]

ASSUME StoreAssumption ==
  /\ Absent \notin Path \cup Package \cup (Held \X Redirected) /\ ContainerId \notin Path
  /\ Length \in [Body -> Nat \ {0}]
  /\ \A o \in Origins : Origin(o)
  /\ MinimumAppended \in Nat /\ MaxEdits \in Nat /\ MaxFaults \in Nat

(***************************************************************************)
(* A table of contents: the id and the block of each slot, the entries of  *)
(* the directory index if it has one, the number of slots its perfect hash *)
(* was made for (0: no hash), the slots kept out of that hash.             *)
(***************************************************************************)
Slots(t) == DOMAIN t.ids
FindChunk(t, id) ==
  LET found == {i \in Slots(t) : t.ids[i] = id} IN IF found = {} THEN 0 ELSE Min(found)
ReadChunk(t, i) == IF i \in Slots(t) /\ t.at[i] # 0 THEN ucas[t.at[i]] ELSE Nothing
SlotsOf(t, kind) == {i \in Slots(t) : t.ids[i].kind = kind}
HeaderSlot(t) == Min(SlotsOf(t, "header"))

(* The paths of an indexless container come from its bundles. *)
RecoverEntries(t) ==
  UNION {{[path |-> ReadChunk(t, i).name, kind |-> t.ids[j].kind, slot |-> j] :
            j \in {j \in Slots(t) : t.ids[j].pkg = t.ids[i].pkg /\ t.ids[j].kind \in {"bundle", "bulk"}}} :
         i \in SlotsOf(t, "bundle")}
Entries(t) == IF t.indexed THEN t.entries ELSE RecoverEntries(t)
Listed(t, p, kind) == {e \in Entries(t) : e.path = p /\ e.kind = kind}

-----------------------------------------------------------------------------
(* What the container holds *)

(* Mutant: a redirect takes the place of the ones there are.               *)
AddOnlyRedirect(rs, p, q) == <<[source |-> p, target |-> q]>>

AddRedirect(rs, p, q) == Append(rs, [source |-> p, target |-> q])
RetargetRedirects(rs, p, q) ==
  [k \in DOMAIN rs |-> IF rs[k].target = p THEN [rs[k] EXCEPT !.target = q] ELSE rs[k]]

(* Mutant: the redirects from a path are asked for, not those to it.       *)
RedirectsFrom(rs, p) == \E k \in DOMAIN rs : rs[k].source = p

RedirectsTo(rs, p) == \E k \in DOMAIN rs : rs[k].target = p
LookupRedirect(rs, p) ==
  LET found == {k \in DOMAIN rs : rs[k].source = p}
  IN IF found = {} THEN Absent ELSE rs[Max(found)].target

PackageAt(t, p) ==
  LET bundle == FindChunk(t, ChunkId(p, "bundle"))
      bulk == FindChunk(t, ChunkId(p, "bulk"))
  IN IF bundle = 0 THEN Absent
     ELSE [export |-> ReadChunk(t, bundle).export,
           body |-> IF bulk = 0 THEN Absent ELSE ReadChunk(t, bulk).body]
RedirectAt(t, p) ==
  IF SlotsOf(t, "header") = {} THEN Absent
  ELSE LookupRedirect(ReadChunk(t, HeaderSlot(t)).redirects, p)
Emptied == <<[p \in Path |-> Absent], [p \in Path |-> Absent]>>
Content(t) == <<[p \in Path |-> PackageAt(t, p)], [p \in Path |-> RedirectAt(t, p)]>>

-----------------------------------------------------------------------------
(***************************************************************************)
(* plan_toc_append.  additions: [id, block, path]; replacements: [slot,    *)
(* block]; tombstones: slots.  New slots go to the end, replaced slots     *)
(* point at their new block, tombstones keep nothing but a retired id.     *)
(***************************************************************************)
Items(t, additions, replacements) ==
  [k \in DOMAIN additions |-> [slot |-> Len(t.ids) + k, block |-> additions[k].block]] \o replacements

(* Mutants: a tombstone keeps its block; a replaced slot keeps its block.  *)
SlotBlockOfTombstone(t, items, tombstones, i) ==
  LET new == {k \in DOMAIN items : items[k].slot = i}
  IN IF new # {} THEN Len(ucas) + Max(new) ELSE t.at[i]
SlotBlockBefore(t, items, tombstones, i) ==
  CASE i \in tombstones -> 0
    [] i \in Slots(t) \ tombstones -> t.at[i]
    [] OTHER -> Len(ucas) + Max({k \in DOMAIN items : items[k].slot = i})

SlotBlock(t, items, tombstones, i) ==
  LET new == {k \in DOMAIN items : items[k].slot = i}
  IN IF new # {} THEN Len(ucas) + Max(new)
     ELSE IF i \in tombstones THEN 0 ELSE t.at[i]

(* Mutant: the perfect hash stays when slots are appended.                 *)
HashKept(t) == t.hashed

(* The hash takes ids modulo the number of slots: an edit drops it.        *)
HashAfter(t) == 0

PlanTocAppend(t, additions, replacements, tombstones, entries) ==
  LET n == Len(t.ids)
      added == Len(additions)
      items == Items(t, additions, replacements)
  IN [ids |-> [i \in 1 .. n + added |->
                 IF i > n THEN additions[i - n].id
                 ELSE IF i \in tombstones THEN Retire(t.ids[i]) ELSE t.ids[i]],
      at |-> [i \in 1 .. n + added |-> SlotBlock(t, items, tombstones, i)],
      indexed |-> t.indexed,
      entries |-> IF ~t.indexed THEN {}
                  ELSE entries \cup {[path |-> additions[k].path, kind |-> additions[k].id.kind, slot |-> n + k] :
                                      k \in {k \in DOMAIN additions : additions[k].path # Absent}},
      hashed |-> HashAfter(t),
      overflow |-> IF t.hashed # 0 THEN {}
                   ELSE (t.overflow \cup (n + 1 .. n + added)) \ tombstones]

(* overwrite_chunks_in_place: only where the chunks are changes. *)
PlanOverwrite(t, items) == [t EXCEPT !.at = [i \in Slots(t) |-> SlotBlock(t, items, {}, i)]]

-----------------------------------------------------------------------------
Idle == [phase |-> "idle"]

Ready == op = Idle /\ utoc # Torn /\ edits < MaxEdits

(* The common prologue of the guarded edits. *)
Distinct(t) == \A i, j \in Slots(t) : t.ids[i] = t.ids[j] => i = j

Accepts == archive = utoc /\ Distinct(utoc)

(* gone: the slots it retires; asked: the redirects it was asked for;  *)
(* before: the faults there were when it began.                        *)
Start(how, toc, items, gone, asked) ==
  /\ op' = [phase |-> "append", how |-> how, original |-> utoc, toc |-> toc,
            items |-> items, done |-> 0, gone |-> gone, asked |-> asked, before |-> faults]
  /\ edits' = edits + 1 /\ outcome' = "none"
  /\ UNCHANGED <<ucas, utoc, archive, unlisted, faults>>

StartGuarded(how, additions, replacements, tombstones, entries, asked) ==
  Start(how, PlanTocAppend(utoc, additions, replacements, tombstones, entries),
        Items(utoc, additions, replacements), tombstones, asked)

(***************************************************************************)
(* A tag is cloned to a path the container does not have, from a wrapper   *)
(* and a body the caller provides.                                         *)
(***************************************************************************)
DuplicateTag(p, e, b) ==
  /\ Ready /\ Accepts
  /\ FindChunk(utoc, ChunkId(p, "bundle")) = 0
  /\ FindChunk(utoc, ChunkId(p, "bulk")) = 0
  /\ Listed(archive, p, "bundle") \cup Listed(archive, p, "bulk") = {}
  /\ Cardinality(SlotsOf(utoc, "header")) <= 1
  /\ LET chunks == <<[id |-> ChunkId(p, "bundle"), block |-> Bundle(p, e, Length[b]), path |-> p],
                     [id |-> ChunkId(p, "bulk"), block |-> Bulk(b), path |-> p]>>
     IN \/ /\ SlotsOf(utoc, "header") = {}
           /\ StartGuarded("duplicate", Append(chunks, [id |-> HeaderId, block |-> Header({p}, <<>>), path |-> Absent]),
                           <<>>, {}, Entries(archive), {})
        \/ /\ SlotsOf(utoc, "header") # {}
           /\ LET old == ReadChunk(archive, HeaderSlot(utoc))
              IN /\ p \notin old.store
                 /\ StartGuarded("duplicate", chunks,
                      <<[slot |-> HeaderSlot(utoc), block |-> [old EXCEPT !.store = @ \cup {p}]]>>,
                      {}, Entries(archive), {})

(***************************************************************************)
(* A tag's two chunks are retired.  Refused when a chunk besides the two   *)
(* has the package's id, a retired one included.                           *)
(***************************************************************************)
DeleteTag(p) ==
  LET uasset == FindChunk(utoc, ChunkId(p, "bundle"))
      ubulk == FindChunk(utoc, ChunkId(p, "bulk"))
  IN /\ Ready /\ Accepts
     /\ uasset > MinimumAppended /\ ubulk > MinimumAppended
     /\ ReadChunk(archive, uasset).name = p
     /\ \A i \in Slots(utoc) : utoc.ids[i].pkg = p => i \in {uasset, ubulk}
     /\ Cardinality(SlotsOf(utoc, "header")) = 1
     /\ LET old == ReadChunk(archive, HeaderSlot(utoc))
        IN /\ ~RedirectsTo(old.redirects, p)
           /\ p \in old.store
           /\ StartGuarded("delete", <<>>,
                <<[slot |-> HeaderSlot(utoc), block |-> [old EXCEPT !.store = @ \ {p}]]>>,
                {uasset, ubulk},
                {e \in Entries(archive) : e.slot \notin {uasset, ubulk}}, {})

(* The chunks of a package: retired ones have its id and are not its own. *)
Members(t, p) == {i \in Slots(t) : t.ids[i].pkg = p /\ t.ids[i].kind # "retired"}

(* Mutant: the wrapper keeps the length of the body it had.                *)
MovedUnpatched(i, q, b) ==
  LET old == ReadChunk(archive, i)
  IN CASE old.kind = "bundle" -> [old EXCEPT !.name = q]
       [] old.kind = "bulk" -> IF b # Absent THEN Bulk(b) ELSE old

MovedBlock(i, q, b) ==
  LET old == ReadChunk(archive, i)
  IN CASE old.kind = "bundle" /\ b # Absent -> [old EXCEPT !.name = q, !.size = Length[b]]
       [] old.kind = "bundle" /\ b = Absent -> [old EXCEPT !.name = q]
       [] old.kind = "bulk" -> IF b # Absent THEN Bulk(b) ELSE old

(* Mutant: a moved chunk stays at its old path in the directory index.     *)
MovedOffPath(i, q, b) ==
  [id |-> Retarget(utoc.ids[i], q), block |-> MovedBlock(i, q, b), path |-> utoc.ids[i].pkg]

Moved(i, q, b) == [id |-> Retarget(utoc.ids[i], q), block |-> MovedBlock(i, q, b), path |-> q]

(***************************************************************************)
(* Every chunk of a package is appended again under the new id and the old *)
(* slots are retired.  b replaces the body unless Absent; leave asks for a *)
(* redirect from the old path.                                             *)
(***************************************************************************)
RenamePackage(p, q, b, leave) ==
  LET members == Members(utoc, p)
      first == Min(members)
      order == IF Cardinality(members) = 1 THEN <<first>> ELSE <<first, Max(members)>>
  IN /\ Ready /\ Accepts
     /\ p # q
     /\ members # {} /\ \A i \in members : i > MinimumAppended
     /\ Cardinality(members \cap SlotsOf(utoc, "bundle")) = 1
     /\ \A i \in members : utoc.ids[i].kind \in {"bundle", "bulk"}
     /\ \A i \in members \cap SlotsOf(utoc, "bundle") : ReadChunk(archive, i).name = p
     /\ b # Absent => Cardinality(members \cap SlotsOf(utoc, "bulk")) = 1
     /\ Members(utoc, q) = {}
     /\ utoc.indexed => \A i \in members : \E e \in Entries(archive) : e.slot = i
     /\ utoc.indexed => \A e \in Entries(archive) : e.path = q => e.slot \in members
     /\ Cardinality(SlotsOf(utoc, "header")) = 1
     /\ LET old == ReadChunk(archive, HeaderSlot(utoc))
            kept == RetargetRedirects(old.redirects, p, q)
        IN /\ q \notin old.store /\ p \in old.store
           /\ StartGuarded("rename", [k \in DOMAIN order |-> Moved(order[k], q, b)],
                <<[slot |-> HeaderSlot(utoc),
                   block |-> Header((old.store \ {p}) \cup {q},
                                    IF leave THEN AddRedirect(kept, p, q) ELSE kept)]>>,
                members,
                {e \in Entries(archive) : e.slot \notin members},
                IF leave THEN {[source |-> p, target |-> q]} ELSE {})

(***************************************************************************)
(* A tag's body is overwritten; its wrapper is patched with it when the    *)
(* length changed.  Neither this edit nor the next asks whether the handle *)
(* is stale: the caller passes one on the file as it is.                   *)
(***************************************************************************)
OverwriteTag(p, b) ==
  /\ Ready /\ archive = utoc
  /\ \E ubulk \in Listed(archive, p, "bulk") :
       LET old == Length[ReadChunk(archive, ubulk.slot).body]
           body == [slot |-> ubulk.slot, block |-> Bulk(b)]
       IN \/ /\ Length[b] = old
             /\ Start("chunks", PlanOverwrite(utoc, <<body>>), <<body>>, {}, {})
          \/ /\ Length[b] # old
             /\ \E uasset \in Listed(archive, p, "bundle") :
                  LET wrapper == ReadChunk(archive, uasset.slot)
                      items == <<body, [slot |-> uasset.slot, block |-> [wrapper EXCEPT !.size = Length[b]]]>>
                  IN /\ wrapper.size = old
                     /\ Start("chunks", PlanOverwrite(utoc, items), items, {}, {})

(* Rebuilt packages, one or two of them, with the header. *)
OverwritePackages(p, q, e) ==
  /\ Ready /\ archive = utoc
  /\ SlotsOf(archive, "header") # {}
  /\ \E first \in Listed(archive, p, "bundle"), last \in Listed(archive, q, "bundle") :
       LET header == HeaderSlot(archive)
           Rebuilt(uasset) == [slot |-> uasset.slot,
                               block |-> [ReadChunk(archive, uasset.slot) EXCEPT !.export = e]]
           packages == IF p = q THEN <<Rebuilt(first)>> ELSE <<Rebuilt(first), Rebuilt(last)>>
           items == Append(packages, [slot |-> header, block |-> ReadChunk(archive, header)])
       IN /\ {p, q} \subseteq ReadChunk(archive, header).store
          /\ Start("packages", PlanOverwrite(utoc, items), items, {}, {})

-----------------------------------------------------------------------------
(* The ladder every edit climbs. *)

Go(phase) == op' = [op EXCEPT !.phase = phase] /\ UNCHANGED outcome
Return(result) == op' = Idle /\ outcome' = result

AppendUcas ==
  /\ op.phase = "append"
  /\ ucas' = Append(ucas, op.items[op.done + 1].block)
  /\ op' = [op EXCEPT !.done = @ + 1,
                      !.phase = IF op.done + 1 = Len(op.items) THEN "replace" ELSE "append"]
  /\ UNCHANGED <<utoc, archive, outcome, unlisted, edits, faults>>

ReplaceToc ==
  /\ op.phase = "replace"
  /\ utoc' = op.toc
  /\ IF op.how = "chunks" THEN Return("ok") ELSE Go("validate")
  /\ UNCHANGED <<ucas, archive, unlisted, edits, faults>>

(***************************************************************************)
(* What an edit asks of the container when it opens it again.  The chunk   *)
(* written last is the header.                                             *)
(***************************************************************************)
Rewritten == {op.items[k].slot : k \in DOMAIN op.items}
Added == Slots(op.toc) \ Slots(op.original)

FoundAt(k) == FindChunk(utoc, op.toc.ids[op.items[k].slot])
ReadsBack(k) == ReadChunk(utoc, FoundAt(k)) = op.items[k].block
SavedHeader == ReadChunk(utoc, FoundAt(Len(op.items)))

HashAsPlanned ==
  IF op.toc.hashed # op.original.hashed THEN utoc.hashed = 0 /\ utoc.overflow = {}
  ELSE utoc.hashed = op.original.hashed /\ op.original.overflow \ op.gone \subseteq utoc.overflow

Untouched ==
  \A i \in Slots(op.original) \ (op.gone \cup Rewritten) :
    utoc.ids[i] = op.original.ids[i] /\ utoc.at[i] = op.original.at[i]

GoneAsPlanned ==
  \A i \in op.gone : /\ utoc.ids[i] = Retire(op.original.ids[i]) /\ utoc.at[i] = 0
                     /\ FindChunk(utoc, op.original.ids[i]) = 0

ListedAsPlanned ==
  /\ \A e \in op.original.entries : e.slot \notin op.gone => e \in utoc.entries
  /\ op.how = "delete" => \A e \in utoc.entries : e.slot \notin op.gone
  /\ \A i \in Added : op.toc.ids[i] # HeaderId =>
       \E e \in utoc.entries : e.slot = i /\ e.path = op.toc.ids[i].pkg

(* Mutant: paths are looked for in containers without an index as well.    *)
PathsLookedFor == ListedAsPlanned

(* The paths of an indexless container are recovered ones: not compared.   *)
PathsAsPlanned == op.original.indexed => ListedAsPlanned

Verified ==
  /\ \A k \in DOMAIN op.items : FoundAt(k) # 0
  /\ CASE op.how = "duplicate" ->
            /\ HashAsPlanned /\ Untouched /\ PathsAsPlanned
            /\ op.toc.hashed = op.original.hashed => Added \subseteq utoc.overflow
            /\ \A k \in DOMAIN op.items : ReadsBack(k)
       [] op.how \in {"delete", "rename"} ->
            /\ HashAsPlanned /\ GoneAsPlanned /\ PathsAsPlanned
            /\ op.how = "delete" => Untouched
            /\ SavedHeader.store = op.items[Len(op.items)].block.store
            /\ \A r \in op.asked : LookupRedirect(SavedHeader.redirects, r.source) = r.target
       [] op.how = "packages" ->
            \A k \in 1 .. Len(op.items) - 1 :
              ReadsBack(k) /\ op.toc.ids[op.items[k].slot].pkg \in SavedHeader.store

Undoing == IF op.how = "packages" THEN "rollback" ELSE "restore"

Validate ==
  /\ op.phase = "validate"
  /\ IF Verified THEN Return("ok") ELSE Go(Undoing)
  /\ UNCHANGED <<ucas, utoc, archive, unlisted, edits, faults>>

(* Mutant: the failed edit returns without putting the table back.         *)
RestoreSkipped ==
  /\ op.phase = "restore"
  /\ Return("error")
  /\ UNCHANGED <<ucas, utoc, archive, unlisted, edits, faults>>

(* restore_original_toc: again a new file renamed over the old one. *)
Restore ==
  /\ op.phase = "restore"
  /\ utoc' = op.original
  /\ Return("error")
  /\ UNCHANGED <<ucas, archive, unlisted, edits, faults>>

(* overwrite_packages_in_place_with truncates the .utoc and writes it. *)
Rollback ==
  /\ op.phase = "rollback"
  /\ utoc' = Torn
  /\ Go("rewriting")
  /\ UNCHANGED <<ucas, archive, unlisted, edits, faults>>

Rewrite ==
  /\ op.phase = "rewriting"
  /\ utoc' = op.original
  /\ Return("error")
  /\ UNCHANGED <<ucas, archive, unlisted, edits, faults>>

Step == AppendUcas \/ ReplaceToc \/ Validate \/ Restore \/ Rollback \/ Rewrite

(* A call fails.  A failed append can leave part of a block behind. *)
Fault ==
  /\ op # Idle /\ op.before < MaxFaults
  /\ faults' = faults + 1
  /\ ucas' \in {ucas} \cup (IF op.phase = "append" THEN {Append(ucas, Torn)} ELSE {})

Fail ==
  /\ Fault
  /\ CASE op.phase = "append" -> IF op.how = "packages" THEN Go("rollback") ELSE Return("error")
       [] op.phase = "replace" -> IF op.how = "chunks" THEN Return("error") ELSE Go(Undoing)
       [] op.phase = "validate" -> Go(Undoing)
       [] op.phase \in {"restore", "rollback", "rewriting"} -> Return("error")
  /\ UNCHANGED <<utoc, archive, unlisted, edits>>

(* The process dies, and another opens the container. *)
Crash ==
  /\ Fault
  /\ Return("none")
  /\ archive' = IF utoc = Torn THEN archive ELSE utoc
  /\ UNCHANGED <<utoc, unlisted, edits>>

(* The caller opens the container again; until it does, its handle is stale. *)
Open ==
  /\ op = Idle /\ utoc # Torn /\ archive # utoc
  /\ archive' = utoc
  /\ UNCHANGED <<ucas, utoc, op, outcome, unlisted, edits, faults>>

-----------------------------------------------------------------------------
(***************************************************************************)
(* A cooked container: the chunks of its packages, behind a header if it   *)
(* has a store of them, with a directory index and a perfect hash or not.  *)
(***************************************************************************)
Packaged(o) == {o.chunks[k].id.pkg : k \in DOMAIN o.chunks}
Cooked(o) == (IF o.store THEN <<[id |-> HeaderId, block |-> Header(Packaged(o), <<>>)]>> ELSE <<>>) \o o.chunks
CookedToc(o) ==
  LET all == Cooked(o)
  IN [ids |-> [k \in DOMAIN all |-> all[k].id],
      at |-> [k \in DOMAIN all |-> k],
      indexed |-> o.indexed,
      entries |-> IF ~o.indexed THEN {}
                  ELSE {[path |-> all[k].id.pkg, kind |-> all[k].id.kind, slot |-> k] :
                          k \in {k \in DOMAIN all : all[k].id # HeaderId}},
      hashed |-> IF o.hashed THEN Len(all) ELSE 0,
      overflow |-> {}]

Init ==
  \E o \in Origins :
    /\ ucas = [k \in DOMAIN Cooked(o) |-> Cooked(o)[k].block]
    /\ utoc = CookedToc(o)
    /\ archive = utoc
    /\ op = Idle
    /\ outcome = "none"
    /\ unlisted = IF o.store THEN {} ELSE Packaged(o)
    /\ edits = 0 /\ faults = 0

Edit ==
  \/ \E p \in Path, e \in Export, b \in Body : DuplicateTag(p, e, b)
  \/ \E p \in Path : DeleteTag(p)
  \/ \E p, q \in Path, b \in Body \cup {Absent}, leave \in BOOLEAN : RenamePackage(p, q, b, leave)
  \/ \E p \in Path, b \in Body : OverwriteTag(p, b)
  \/ \E p, q \in Path, e \in Export : OverwritePackages(p, q, e)

Next == Edit \/ Step \/ Fail \/ Crash \/ Open

Spec == Init /\ [][Next]_vars

-----------------------------------------------------------------------------
(* Properties *)

(* While the .utoc is being written over, its content counts as the one it *)
(* is being given; when that was not written, there is none.               *)
Visible == IF op.phase = "rewriting" THEN op.original ELSE utoc
Shown == IF Visible = Torn THEN Emptied ELSE Content(Visible)

(* There is something to take back when the edit has replaced the table by *)
(* one that shows something else, and while that is being undone.          *)
Undo ==
  IF op # Idle /\ (op.phase = "rewriting" \/ (utoc # op.original /\ Shown # Content(op.original)))
  THEN Content(op.original) ELSE Absent

Store == INSTANCE ContainerStore WITH
  packages <- Shown[1],
  redirects <- Shown[2],
  undo <- Undo

(***************************************************************************)
(* Type invariant: every slot of a table has an id, and points at a block  *)
(* of the .ucas or is retired; no slot of the handle's table outruns them. *)
(***************************************************************************)
Id == [pkg : Path \cup {ContainerId}, kind : Kinds, was : Kinds \cup {"none"}]
TocOK(t) ==
  /\ DOMAIN t.ids = DOMAIN t.at
  /\ \A i \in Slots(t) : t.ids[i] \in Id /\ (t.at[i] = 0 <=> t.ids[i].kind = "retired")
  /\ \A e \in t.entries : e.slot \in Slots(t) /\ e.path \in Path
InPlaceTypeOK ==
  /\ utoc # Torn => TocOK(utoc) /\ \A i \in Slots(utoc) : utoc.at[i] <= Len(ucas)
  /\ TocOK(archive)
  /\ op # Idle => TocOK(op.toc) /\ TocOK(op.original) /\ op.done \in 0 .. Len(op.items)
  /\ outcome \in {"none", "ok", "error"}
  /\ unlisted \subseteq Path
  /\ edits \in 0 .. MaxEdits /\ faults \in Nat

(* Whatever fails and whenever the process dies, each in-place edit takes  *)
(* place whole, is taken back whole or does nothing: the two chunks, the   *)
(* redirects and the batch of packages of an edit are never seen apart.    *)
(* All that can be lost is the whole table, by an edit that is taken back. *)
ImplementsContainerStore == Store!Spec

(* No redirect of the container leads to a package that is not there, over *)
(* chains of renames, renames back, deletions and faults between them.     *)
RedirectsResolve == Visible # Torn => Store!RedirectsLead

(* The package store and the chunks name the same packages, but for those  *)
(* an overlay replaces, whose entry is in the container below.             *)
StoreMatchesChunks ==
  utoc # Torn /\ SlotsOf(utoc, "header") # {} =>
    LET held == {utoc.ids[i].pkg : i \in SlotsOf(utoc, "bundle")}
    IN /\ Cardinality(SlotsOf(utoc, "header")) = 1
       /\ ReadChunk(utoc, HeaderSlot(utoc)).store \subseteq held
       /\ held \subseteq ReadChunk(utoc, HeaderSlot(utoc)).store \cup unlisted

(* The wrapper of a package gives its own path and the length of its body: *)
(* the two are written as separate chunks, by overwrites and renames alike.*)
WrapperMatchesBody ==
  utoc # Torn =>
    \A i \in SlotsOf(utoc, "bundle") :
      LET bulk == FindChunk(utoc, ChunkId(utoc.ids[i].pkg, "bulk"))
          bundle == ReadChunk(utoc, i)
      IN /\ bundle.name = utoc.ids[i].pkg
         /\ bulk # 0 => bundle.size = Length[ReadChunk(utoc, bulk).body]

(* The directory index lists exactly the chunks of packages, at the paths  *)
(* the packages have now, through appends, retirements and rollbacks.      *)
DirectoryIsExact ==
  utoc # Torn /\ utoc.indexed =>
    utoc.entries = {[path |-> utoc.ids[i].pkg, kind |-> utoc.ids[i].kind, slot |-> i] :
                      i \in SlotsOf(utoc, "bundle") \cup SlotsOf(utoc, "bulk")}

(* The game finds every chunk: a perfect hash still in the table was made  *)
(* for as many slots as there are, or the slot is in the overflow list.    *)
RuntimeFindsChunks ==
  utoc # Torn /\ utoc.hashed # 0 =>
    \A i \in Slots(utoc) : utoc.hashed = Len(utoc.ids) \/ i \in utoc.overflow

(* What the caller is told is what happened: "ok" says the new table is in *)
(* place and read back, an error that the old one is, unless two faults    *)
(* hit the edit: the error of a failed undoing looks like any other.       *)
OutcomeIsTrue ==
  [][op # Idle /\ op' = Idle =>
       /\ outcome' = "ok" => utoc' = op.toc
       /\ outcome' = "error" => utoc' = op.original \/ faults' >= op.before + 2]_vars

(* An edit that no call fails succeeds: what it asks of the container when *)
(* it opens it again never takes a correct edit back, whatever edits there *)
(* were before and in containers without an index, a hash or a header.     *)
UnhitEditsSucceed ==
  [][op # Idle /\ op' = Idle /\ faults' = op.before => outcome' = "ok"]_vars

(* Retired chunk ids are never equal, so that the container goes on being  *)
(* edited (every edit refuses a table with two equal ids).                 *)
IdsStayDistinct == utoc # Torn => Distinct(utoc)

(* One fault never loses the table of contents: overwrite_packages writes  *)
(* over it only to take an edit back, which takes a fault, and it is gone  *)
(* only when another fault hits the writing.                               *)
LossTakesTwoFaults ==
  [][op # Idle /\ op' = Idle /\ utoc' = Torn => faults' >= op.before + 2]_vars

(* A batch of packages that fails leaves the table it found, as the docs   *)
(* of overwrite_packages have it ("restored", "transactional").            *)
FailedBatchesAreUndone ==
  [][op # Idle /\ op' = Idle /\ op.how = "packages" /\ outcome' = "error" => utoc' = op.original]_vars
=============================================================================
