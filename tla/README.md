# blam-tags: specifications and proofs

TLA+ models of the parts of blam-tags that keep state, the TLC runs that check
them on small instances, and TLAPS proofs of what matters most for all of them.
`PROJECT.json` lists the components, the runs, the mutants, the hazards, the
findings and the theorems, and maps each definition to the lines it stands for.

## 1. The system

blam-tags reads, edits, converts and writes the tag files of the Halo games.  A
tag is a tree: a root struct whose fields are plain values in a byte buffer, or
sub-chunks (blocks of elements, data, references, resources) beside it.  Most of
the repository is functions of bytes: parsers, serializers, geometry, bitmap and
sound codecs, format conversion.  What keeps state between calls is this.

| component | code | state | operations | with whom |
|---|---|---|---|---|
| Python handles | `blam-tags-py/src/manual/handles.rs`, `field_path.rs`, `path.rs` | the edit log of the file; in each handle an anchor, a path and a generation | root, field, as_block, `[]`, descend, field_path, the block edits, attach/remove of streams | resolves paths in the tag, edits it through the block facade |
| Tag blocks | `data.rs`, `api.rs` | per block a flat buffer, a list of element trees, a classic header, a dirty flag; a snapshot | add, insert, duplicate, delete, swap, move, clear, copy, paste, set | edited by the handles, read and written by the codecs |
| Classic body codec | `classic.rs` | the tree between two saves, inline words, trailing bytes | read body, write body | decodes into blocks, encodes them |
| Tag file and save path | `file.rs` | target and temporary files, the optional streams | write, write_atomic, add_/remove_ streams | encodes with the codec, verifies with the reader |
| IoStore in-place writer | `iostore/container/writer.rs`, `header.rs` | a `.ucas`/`.utoc` pair on disk, the archive handle of the caller | duplicate_tag, delete_tag, rename_package, overwrite_tag, overwrite_packages | reads through the archive; appends, replaces the TOC, validates, rolls back |
| Layout cache | `schema.rs` | a process-wide map from definition path to stamp and layout | from_json_with_meta | shared by threads, beside files that change |
| Tag function editor | `tag_function/editor.rs`, `curve.rs` | a function: master type, one or two graphs, curves as segments and as pieces | set_master_type, set_ranged, set_typed_graph, the edits of a curve's points, segments and joins | a field of a tag; evaluated by `tag_function/mod.rs` |
| Tag shell | `blam-tag-shell/src/repl.rs`, `context.rs`, `commands/` | the loaded tag, its path and dirty flag, the navigation | open, close, revert, exit, save, the editing commands, edit-block, back, exit-to | saves with `TagFile::write` |
| Monolithic cache | `monolithic/cache.rs` | open partition files behind a mutex | read | one lock is held over seek and read |
| Readers, package serializers, conversion, extractors, importers, bindings generator | the rest | none between calls | | |

What is hard in them, and what makes each correct:

* **Handles.**  A handle borrows nothing: it keeps a path and walks it again.  A
  path holds indices, edits move elements, so a script can hold a handle to
  element 5, delete element 2, and address another element without noticing.
  Correct: a handle that is not refused addresses what it was made for, and an
  edit does not refuse the block handle it was made through.
* **Blocks.**  An element is stored in two places, its width is worked out from
  the buffer, and snapshots outlive both.  Correct: every edit moves whole
  elements.
* **Classic bodies.**  There are no lengths: presence, count and size of a block
  are said by an inline word, a header, or both, by engine.  One word too many
  puts everything after it out of step, and the reader may not notice.  Correct:
  what is saved reads back as what was in memory, and an untouched tag is
  rewritten byte for byte.
* **Save path.**  Any system call can fail, any process can die, several saves
  run at once.  Correct: a bad encode never reaches the tag, a failed save leaves
  the original, temporary files are not shared and not left.
* **IoStore writer.**  A crash or a failed validation between append and TOC
  replacement; a failing rollback.  Correct: the container is the old or the new
  one, what the caller is told is what happened, and old entries always read.
* **Layout cache.**  A stamp that is taken before the files are read, and does not
  cover everything the layout was built from; concurrent misses.  Correct: a
  layout is not older than the call that returns it, and no two tags get one guid.
* **Function editor.**  A join is stored in two segments, a curve in two forms, a
  ranged function in two graphs; settling moves neighbours.  Correct: after any
  edits the curve is continuous, what is evaluated is what the editor shows, and
  the other graph is left alone.
* **Shell.**  Every edit saves at once and any save can fail half way.  Correct: a
  tag that is not marked dirty is in a file, and paths are relative to a place in
  the tag that is loaded.

## 2. Modules

| module | models | uses |
|---|---|---|
| `PyHandles` | handles, paths, edit log, guard, all edits, streams | |
| `MCPyHandles` | a tag of two seats, one with a nested block | `PyHandles` |
| `PyHandlesProofs` | theorems about `PyHandles` | `PyHandles` |
| `ElementSeq` | abstract: a block is a sequence of whole elements | |
| `TagBlock` | buffer, trees, header, dirty flag; implements `ElementSeq` | instance of `ElementSeq` |
| `MCTagBlock` | an unversioned and a versioned block | `TagBlock` |
| `ClassicBody` | decoder and encoder around the block editor | extends `TagBlock` |
| `MCClassicBody` | small files of each engine | `ClassicBody` |
| `ClassicBodyProofs` | theorems about `TagBlock` (invariant, refinement) and `ClassicBody` (types, reading back, byte-exactness) | `ClassicBody` |
| `TagFileSave` | write and write_atomic | |
| `MCTagFileSave` | two saves of one process | `TagFileSave` |
| `TagFileSaveProofs` | theorems about `TagFileSave` | `TagFileSave` |
| `ContainerStore` | abstract: packages and redirects, edits that happen or are taken back whole | |
| `ContainerStoreProofs` | a theorem about `ContainerStore` | `ContainerStore` |
| `IoStoreInPlace` | the five in-place edits, faults, crashes; implements `ContainerStore` | instance of `ContainerStore` |
| `MCIoStoreInPlace` | a game container, one with two packages, an overlay | `IoStoreInPlace` |
| `IoStoreInPlaceProofs` | theorems about `IoStoreInPlace` | `IoStoreInPlace` |
| `LayoutCache` | the layout cache under threads and changing files | |
| `LayoutCacheProofs` | theorems about `LayoutCache` | `LayoutCache` |
| `FunctionEditor` | the function editor | |
| `FunctionEditorProofs` | theorems about `FunctionEditor` | `FunctionEditor` |
| `ShellSession` | the shell's session | |
| `ShellSessionProofs` | theorems about `ShellSession` | `ShellSession` |
| `MCTools` | the block editor and the three above side by side, a behaviour of one at a time | `MCTagBlock` and all three |

### PyHandles

`kids[n][f]` is block `f` of struct `n`; nodes are element identities, which the
code does not have and which give "the same element" a meaning.  `log` is
`PyTagFile.1`.  A handle is a record of kind, anchor, path, generation and
`route`, a history variable: the structs the path led through when it was made.
A path segment has a field, `pinned` (it carries an ordinal, as every segment
made by navigation does and no typed one here) and an index, 0 for none.
`Accepted` is `check_generation`; `Walk` is the lookup of `path.rs`, where a
descent without a subscript takes element 0.  Each edit is one action with its
validation, its change of the block and its entry in the log.  `Copy` is the deep
copy of paste and duplicate.  A stream is attached and removed without an entry.

`NavigateSpec` has scripts that navigate and edit; `Spec` adds paths the script
types (`descend`, `field_path`), which keep no ordinals and hand on the
generation of the handle they were called on.

### ElementSeq, TagBlock, ClassicBody

`TagBlock` keeps the two copies of an element apart, as the code does: a buffer
of words and a list of trees, each edit changing both with the code's own offset
arithmetic, and `ElementSize` by division.  `ElementSeq` is what an editor is
promised; the refinement mapping pairs the i-th region with the i-th tree.
Words are pairs of halves, because the 12-byte header packs two numbers in one.
An element's first word is a plain field, its second the length of a data field
whose bytes are in the tree.  `BlockAssumption` says what layouts and readers give
the editor: a struct of at least one word, and buffers of whole elements.  TLC
evaluates it on the blocks that `ClassicBody`'s decoder makes of its files.

`ClassicBody` adds the file.  `Decode` and `Encode` follow `classic.rs` block by
block: the empty block on a zero inline word, headers of 12 and 16 bytes, a header
in hand of another engine's body, the version that picks the variant, the extent check, elements shorter than the
layout, data after the fixed bytes, what is left over (kept for Halo 2, an error
for Halo CE).  The actions are an edit, a save and an open.  The two loops of the
decoder, over elements and over the root's blocks, are recursive functions
(`ReadElements`, `ReadRoot`), so that the provers can unfold them.

`SoundFile` says which files the theorems speak of; `MCClassicBody` asserts it of
the files of the passing run, and its negation of the two kinds of files that
violate the property.  Of a file that is decoded at all it asks for

* fewer than 32768 words;
* elements of the layout's width, and no struct variants, unless the body is a
  Halo 2 one with 16-byte headers;
* a width that tells the variant: paste compares the block's struct and the width
  of an element, not its variant;
* no header with count 0 under a nonzero inline word.

### TagFileSave

One `pc` per call, one step per system call: the temporary name, each part
written, verification, the truncation and each part of the copy, the removal.
`Fail` is a failing call at any of them and `Die` the death of a process with all
its calls; files stay as they are.  Writes go to the offset of the call's own
descriptor, so that two copies over one target mix.  Tag paths are saved with
write_atomic here, as the comment of `TagFile::write` asks; the shell does
otherwise, and `ShellSession` models what it does.  Files are sequences of
parts; whether a tag's encoding parses is a constant of the tag, and so is
whether it is a big-endian MCC tag.

### ContainerStore, IoStoreInPlace

`IoStoreInPlace` has the disk (`ucas`, a sequence of blocks; `utoc`, or `Torn`
while it is being written over), the handle the caller passes (`archive`) and the
edit under way (`op`).  Each of the five edits is one action up to the point where
it starts writing: its guards are the refusals of the code in `plan`, `resolve`
and `validate` functions, and its result the table it will put in place and the
blocks it will append.  `AppendUcas`, `ReplaceToc`, `Validate` and the undoing are
one action each and shared, as in the code.  They differ by `how`: guarded edits
put the old table back by a new file and a rename (`Restore`),
overwrite_packages_in_place_with truncates and rewrites it (`Rollback`,
`Rewrite`), and overwrite_chunks_in_place does not validate.  `Verified` is what
each edit asks of the container it has opened again, which differs: a duplicate
reads back every chunk it wrote; a deletion and a rename look for ids, tombstones,
hash and, where there is an index, paths, and read back the header's store and
redirects; a batch of packages reads back the packages and the store.  `Fail` is a
failing call at any step, the undoing included, and returns an error that does not
say at which; `Crash` is the death of the process, after which another opens the
container.  A table of contents is a list of ids and blocks, the directory index,
the number of slots the perfect hash was made for, and the slots outside it.
Chunk ids are records of package, kind, and, for a retired chunk, nothing but
what `retire_chunk_id` leaves: the package and the kind it had.

`ContainerStore` is what an editor is promised: `packages` and `redirects` change
by whole edits, and until the edit has been acknowledged it can be taken back
(`undo`), in one step (`TakeBack`) or in several (`StartTakingBack`), during which a
fault can lose everything (`Lose`).  The refinement mapping reads packages and
redirects out of the table and the blocks it points at; while the table is written
over it shows what is being written, and when that fails, nothing.

### LayoutCache

One key, that is one definition.  A call takes a stamp (size and modification
time) of the definition, then of `_meta.json`, looks up, and on a miss reads
definition, `_meta.json` and parents one after another and inserts, with a change
of any file possible between any two steps.  Versions count the changes of each
file.  The mutex is held over the look-up and over the insert, not between them.

### FunctionEditor

`graphs[s]` is a curve (`editor`, the segments; `compact`, the pieces that are
evaluated) or the parameters of another type.  Each setter of editor.rs is an
action; a curve edit goes through `Apply`, which settles and compiles every graph
again as apply_curve_graphs does.  Of points only x is kept, in ticks of 0.001, so
that the bump of postprocess_to_compact is one tick; control points are numbered
as in the code, with an index shared by the two segments that meet at it.

### ShellSession

`disk` says which edit of which tag each file holds, or that it holds half a file.
`Save` has three outcomes: saved; failed, with the target as it was or truncated;
and lost, when only the last, buffered bytes fail and nobody is told.  An editing
command changes the tag, marks it and saves, in this order.  A segment of `nav` is
the number of the load it was entered in, which is all that `NavIsOfThisTag` asks.
`open`, `close` and `exit` ask before a dirty tag goes (`MayDiscard`); `revert`,
`exit --force` and the end of the input do not.
Commands that are refused before they change anything are not steps.

### MCTools

The four components share no state, so one run explores a behaviour of each:
`component` is chosen at first and the others stay as they begin.  The state
spaces add up and do not multiply.

## 3. Runs

| run | shows | bounds |
|---|---|---|
| `handles_navigate` | `NeverMisaddressed`, `SurvivesItsEdit`, `TypeOK` for scripts that navigate | two edits, two handles, two spare nodes, two streams |
| `handles_typed` | `SpelledAlikeIsSafe` and the proof's invariant for all scripts | one edit, two handles, one spare node |
| `handles_descend` | violates `NeverMisaddressed`: typed paths escape the guard | as above |
| `classic` | `SavedEditsReadBack`, `UntouchedIsByteExact`, `BodyTypeOK` | seven files, two blocks, up to two elements |
| `classic_legacy` | violates `SavedEditsReadBack`: 16-byte header in a 12-byte file | two files |
| `save` | `SaveInv`, `TempsAreApart`, `BadEncodeNeverLands`, `LeftoversNeedFaults`, `SaveReturns` | two saves, two faults, two names, files of two parts |
| `save_copy` | violates `FailureLeavesATag` | one save, one fault |
| `iostore` | `ImplementsContainerStore`, `OutcomeIsTrue`, `UnhitEditsSucceed`, `LossTakesTwoFaults`, `RedirectsResolve`, `StoreMatchesChunks`, `WrapperMatchesBody`, `DirectoryIsExact`, `RuntimeFindsChunks`, `InPlaceTypeOK` | three edits, one fault and as many more as hit the same edit, two paths, two bodies of different length, three containers |
| `iostore_rollback` | violates `FailedBatchesAreUndone`: a fault while the table is rolled back | one edit, two faults |
| `iostore_retired_ids` | violates `IdsStayDistinct`: renaming away, back and away | three edits, no fault |
| `tools` | `ImplementsElementSeq`, `BlockTypeOK`; `LayoutIsOfTheCall`, `GuidsDiffer`; `FunctionTypeOK`, `CurvesAreContinuous`, `InputsFindTheirSegment`, `EditsSpareTheOther`; `CleanIsOnDisk`, `NavIsOfThisTag` | one block of up to three elements; two threads, three calls, one change of each file; three segments, x = 1 two ticks away; two files, two edits, three loads, navigation of two |
| `function_ranged` | violates `RangingKeepsPrimary` | two segments |

Why the bounds are enough.  Two handles are what a misaddressing takes: the one
edited through and the one that goes wrong; two edits give a handle made between
them, and a chain of edits through one handle.  The first seat has a nested block
and the second has none, so edits above, on, beside and below a handle all
happen.  Three elements tell a move from a swap.  A versioned struct whose old
variant is wider makes the width change on clearing and refilling while a
snapshot keeps the old one.  Only the first block is edited and the second holds
data, so that a body that gets out of step is seen in the second.  Two parts are
enough for half a file, two names and a left-over file for running out of names.
`Datum` is empty in the classic runs because the plain word is carried along
unchanged (`tools` writes it).  Deadlock is not checked: a run may use up its
bound on edits, elements or faults, and a script may stop at any time.

Three in-place edits are a rename, a rename back and a third edit that meets the
slots, the redirects and the retired ids both have left; the fault falls into any
of them.  Two paths are a package and the place it moves to.  The three containers
differ in index, hash, header and in a package without bulk data.
`MaxFaults` bounds the faults after which a later edit is hit; an edit that began
before can be hit again, in its undoing, by an error or a death.
Two threads and three calls are a miss that is overtaken by another and a hit on
what is left; one change per file between them tells old from new.  Three segments
have a middle one, with both neighbours to bump.  Ticks are few so that points
collide, and `Xs` has a place left of the curve, one in it and one right of it.
Two files are the tag's own and one it is saved to instead.

**Fairness.**  `SaveReturns` assumes weak fairness of each call's own steps: a
running call goes on until it returns, as a thread does whose system calls
return.  Calls, failures and deaths are not fair.  The other modules have no
liveness: a handle, a block and a codec do what the script asks when it asks.

Every property of a passing run has a mutant in `PROJECT.json`: a definition
changed as a plausible bug would change it, under which TLC finds the property
violated.

## 4. Proofs

`PyHandlesProofs`, for every tag, script and bound that satisfies
`HandleAssumption`:

* `InvHolds`: `Spec => []Inv`.  `NeverMisaddressed` is not inductive: an accepted
  handle that resolves nowhere today might resolve elsewhere after the next edit.
  `Inv` says more: blocks hold nodes that stand at the block's position, the
  structs of a handle's route stand at the positions its path spells (`OnPath`),
  and each step of a protected handle's path selects what it selected when the
  handle was made, or nothing (`Intact`).  An edit changes one block; a
  protected handle that stepped through that block would have the edit's path as
  an ancestor (`ProtectedAvoidsBlock`) and be refused.
* `SpelledAlikeHolds`: a handle whose path is spelled like the later edits' is
  refused, unresolvable or right, whatever the script types.
* `NavigationIsSafe`: navigating scripts never hold a handle that goes wrong
  (from `Inv` and an invariant that all their paths are pinned).
* `EditsSpareTheirBlock`: an edit leaves its own block handle, and those above it,
  accepted.
* `TypeCorrect`.

Where induction over the length of a path is needed the proofs argue by the least
counterexample (`LeastNumber`).

`TagFileSaveProofs`, for any number of calls, processes, tags, parts and faults
that satisfies `SaveAssumption`:

* `SaveInvHolds`: `Spec => []SaveInv`.  `BadEncodeNeverLands` alone is not
  inductive, for a copy could start from a bad temporary file.  `SaveInv` adds
  that a call's temporary file exists and is no other call's (`Owned`,
  `TempsAreApart`; `create_new` is what establishes it), hence that what was
  verified is still there when it is copied (`Verified`), and that only
  write_atomic works on tag paths (`PathsOK`).  One lemma per action; steps that
  leave temporary files alone share `MoveInv`.
* `BadEncodesStayOut`, `TempsStayApart`: what follows from it.
* `LeftoversArePaidFor`: each temporary file that no running call owns is charged to
  a fault of its own.  Only a failure or a death takes the owner away from its
  file, and both raise the count.

`ClassicBodyProofs`, first for any layouts, blocks and bounds that satisfy
`BlockAssumption`:

* `BlocksStayWhole`: `BlockSpec => []BlockTypeOK`.  The invariant `BlockInv` says that
  every block is a whole number of elements of one width, as many as there are
  trees, and that the width is one that a layout or a reader gave: an emptied block
  falls back on the layout's.
* `BlocksAreSequences`: `BlockSpec => ImplementsElementSeq`.  Lemmas on the buffer say
  what splicing in, draining and exchanging at element boundaries do to the k-th
  region (`SpliceFacts`, `DrainFacts`, `ExchangeFacts`); `Pairs` makes a sequence of
  regions and trees, and one lemma per edit shows that it changes that sequence as
  `ElementSeq` says, the other blocks and the snapshot staying as they are.

Then for any root, any number of blocks and elements and any files that satisfy
`BodyAssumption` (the root has a word for each block, and what a script adds can be
counted in a header) and `SoundFile`; `FilesAreSound` is the hypothesis that the
theorems name.

* `BodyTypes`, `EditsReadBack`, `UntouchedIsUnchanged`: each of the three invariants
  of `ClassicBody`, as `Spec => []...`.

`EditsReadBack` is not inductive, and no statement about the encoder's result alone
is: the next edit starts from the blocks in memory.  `BodyInv` says of them, for a
set of shapes (width and variant) that the file fixes:

* each block is `Live`: it has no elements, or whole elements of one shape under a
  header that the encoder can make true, or under none, and the snapshot is an
  element of one of the shapes (`Editable`);
* the file is the words of `Clean` blocks (`OnDisk`), those that the decoder makes
  of their own words;
* what was not edited is written as what the file holds.

The argument has four parts.  A decoder cannot be followed by induction over the
file, so each loop is a run of steps with a remainder after each (`FlattenRests`,
`ReadsBack`, `NextReads`), and what holds at the start of a run and is kept by each
step holds at its end (`RunExists`, `Inductive`, by a least counterexample).

1. `BodyReadsBack`: clean blocks are decoded from the words they are written as.
2. `SoundFileReads`: a sound file is decoded to clean blocks, and is their words.
   This is the converse, and where it matters that the extent check refuses counts
   and sizes that run past the end.
3. `LiveEncodes`: a live block is written as the words of a clean block with the
   same readings, whatever header the edits left on it: its count is made true, its
   size and version are rebuilt if it is dirty, and the length words are rewritten
   from the trees.  `CleanEncodes`: a clean block is written as it is.
4. `EditLive`: each edit keeps blocks live.  One lemma per edit, on top of what it
   does to the buffer.

`ContainerStoreProofs`, for any sets of paths and bodies: `RedirectsAlwaysLead`, no
redirect leads to a package that is not there.  The invariant has to say the same
of the state to go back to; that which is lost has no redirects.

`IoStoreInPlaceProofs`, for any containers, paths, bodies, edits and faults that
satisfy `StoreAssumption`.  The assumption says what a cooked container is made of:
each chunk is a package's bundle or the bulk data of a package that has a bundle, no
id occurs twice, and a wrapper gives the length of the body beside it.  Two layers:

* `LadderHolds`: what the table on disk is in each phase of an edit: the old one
  until it is replaced, the new one until it is put back, torn while it is
  rewritten, and whole or torn, as that ended, after the edit.  It speaks of no guard of any edit, so it holds for all five.
* `OutcomesAreTrue`: an edit that returns success has its table in place, and one
  that returns an error has the old table in place, unless two faults hit it.
* `TocSurvivesOneFault`: an edit leaves no table only when two faults hit it.
* `UnhitEditsAlwaysSucceed`: an edit that nothing hits succeeds.  This is where the
  second layer is needed: each plan has to pass its own edit's check in any file
  that holds its blocks (`Verifies`, `ChecksPass`), in containers without an index,
  a hash or a header too.  For the two above as well: an edit is undone only
  after a fault or a failed check (`Tallies` counts the faults since it began), and
  a check never fails by itself.
* `RuntimeAlwaysFinds`: the perfect hash, or its overflow list, leads to every slot.
  The invariant says it of the table on disk and of the two tables of an edit under
  way; a plan that appends or retires slots drops the hash, one that does not keeps
  hash and slots.

The second layer is about what the tables hold.  The chart of a table over a `.ucas`
maps each id that is not retired to its block.  A table is `Sound` if ids, offsets
and directory cover the same slots, no live id occurs twice and its chart is
`Coherent`: every wrapper has its own path and its body's length, the package
store and the packages agree, every redirect leads to a package.  None of the run's
invariants is inductive, for while blocks are appended the new table points past
the end of the file.  `Tables` says of an edit under way that its table will be sound
*in every file that has the remaining blocks appended* (`Planned`).  An append takes
one block off what remains; the replacement comes when nothing remains.  One lemma
per handler shows that its plan is such a one (`PlannedEdit`), first on charts and then
on tables.  From `Tables` and `Ladder`:

* `InPlaceTypes`, `RedirectsAlwaysResolve`, `StoreAlwaysMatches`,
  `WrappersAlwaysMatch`, `DirectoryIsAlwaysExact`: what a table on disk promises,
  with any fault or death between any two steps; a torn table promises nothing.
* `InPlaceImplements`: `Spec => ImplementsContainerStore`.
  A replacement is the edit of `ContainerStore` that the two charts are apart by
  (`Edited`), restoring is its `TakeBack`, truncating the table in a rollback its
  `StartTakingBack`, a fault before the table is written again its `Lose`, and all
  other steps are stutters: an append writes past every live slot, other failures
  and deaths leave the files.

`FunctionEditorProofs`, for any limit on segments, resolution and set of places that
satisfy `FunctionAssumption`.  `FunctionInv` says that there are as many graphs as
type and range ask for, and that each curve is `Drawn`: its segments are well formed
and joined, settling it changes nothing, and its pieces were compiled from it.

* `SettlesOnce`: settling joined segments twice is settling them once.  That the
  ends only rise, and that those of a settled curve stay, are inductions along the
  curve, made by the least counterexample.  Each edit keeps segments joined
  (`MovingKeepsJoined`, `KindKeepsJoined`, `JoinKeepsJoined`, `InsertingKeepsJoined`,
  `DeletingKeepsJoined`): this is where it matters that a moved point moves in both
  its segments and that a join has two sides.
* `CurvesStayContinuous`, `InputsAlwaysFindTheirSegment`, `FunctionTypes`: from
  `FunctionInv`.
* `EditsAlwaysSpareTheOther`: the graph that was not edited is read back, settled and
  compiled too, and is what it was because it was settled before.

`LayoutCacheProofs`, for any threads, calls and changes: `CacheInvHolds`, by which
`LayoutsAreOfTheCall` and `GuidsNeverRepeat`.  The invariant relates stamp and
reads: what a build reads after its stamp is at least as new as the stamp, and so
is what an entry with that stamp was built from; a hit has equal stamps, and the
caller's was taken after its call began.

`ShellSessionProofs`, for any files, edits, loads and depth: `SessionInvHolds`, by
which `CleanTagsAreOnDisk` and `NavStaysOfThisTag`.  No segment is of a later load than the present, and of a loaded tag all are of the
present one.

Every invariant and action property of the passing runs is stated by a theorem
but `SaveReturns`, which is liveness.  Out of the provers' reach: liveness under
fairness and ENABLED.  The library's induction theorems take an operator, which the
provers cannot instantiate; where a statement is about all elements, blocks, segments
or path lengths, a least counterexample takes their place.  `EditsReadBack` and
`UntouchedIsUnchanged` do not speak of files that are not sound: of those the runs
`classic_legacy` and the notes below tell what happens.

## 5. What the code does otherwise than it says

* Handles made from typed paths (`descend`, `field_path`) are not protected
  against edits made through navigated handles: ordinals are compared and typed
  segments have none (`handles_descend`).
* The guard is less precise than GUIDE.md says: an edit of one element's nested
  block refuses handles into another element's, for indices are not compared.
  That is safe, and no property is about it.  The doc
  comment of `mutate`, which says that an edit invalidates its own handle too, is
  wrong the other way: `EditsSpareTheirBlock` proves that it does not.
* An element added to an empty block of a tag with 12-byte block headers is saved
  under a 16-byte header (`classic_legacy`).
* Data set on an element added to a block of truncated elements is written with no
  length word.  No run shows it; with `Files <- TruncatedFiles` in `Classic.cfg`
  TLC finds `SavedEditsReadBack` violated.
* A Halo 2 block with a nonzero inline word whose header says that it has no
  elements is read as an empty block with a header.  On saving, the header is left
  out and the inline word is kept, so that the next reader takes what follows for the
  header.  No run has such a file; `SoundFile` leaves it out (classic.rs: the encoder's
  "Empty H2 blocks carry no trailing header/data", and the inline word of a block
  that is not marked dirty).
* `write_atomic` commits by copying over the tag and then removes the copy, so
  that a failure half way loses both (`save_copy`).
* The comment of `TagFile::write` says "never write to the source tag path" (file.rs);
  `LoadedTag::save` of the shell, its caller, writes to the tag's own path with it
  by default, so that a failed save leaves half a tag there.  `ShellSession` has
  that outcome, and `CleanIsOnDisk` holds with it because such a tag stays dirty.
* `write_atomic` writes big-endian MCC tags that `write_to_bytes` refuses: the
  check is on one of two ways to the same writer.
* A retired chunk id keeps the package id, so that a package renamed away from a
  path, back, and away again leaves two equal ids, and every guarded edit refuses
  the container from then on (`iostore_retired_ids`).  For the same reason a
  package at a path that was once renamed away from cannot be deleted: the
  tombstone counts as a third chunk of the package.  The model has this refusal,
  which no text speaks about.
* `overwrite_packages_in_place_with` rolls back with a write that truncates the
  `.utoc` first.  A second fault there loses the table, where its doc says that
  "the original UTOC is restored if any package fails validation" and that of its
  wrapper calls the path "transactional" (`iostore_rollback`).
  `restore_original_toc`, which the other edits use, renames a new file over it.
  When an undoing fails, in either way, the caller gets an error like any other (of
  `restore_original_toc` the second one alone) and cannot tell from it whether the
  container is as it was; this is why `OutcomeIsTrue` has to except two faults.
* Making a function ranged, or not ranged, gives it default graphs, where the doc
  says that the primary graph is duplicated, or kept (`function_ranged`).
* `rebuild_dependency_list` can fail after it has added or emptied the stream; the
  shell has not marked the tag dirty then, and a later `exit` asks nothing.
  `unmarked` keeps such tags apart, as it does tags after a lost save.
* The comment of confirm_discard_dirty (repl.rs) says that piped input proceeds
  without a question; the code reads the next line of the input as the answer.
  The model leaves the answer open.  At the end of the input a dirty tag is warned
  of and dropped, and `revert` drops its edits, both without a question.  That those
  commands which do ask lose nothing by themselves is their guard and no property.
* A comment in curve.rs calls the ends of segments strictly increasing; equal ones
  pass the comparison, and `CurvesAreContinuous` says no more than that none runs
  backwards.  Another, and the doc of `postprocess_to_compact`, speak of clamping the
  ends of the graph to x = 0 and x = 1.  The last end is set to 1 before the monotonic
  bump, which then pushes it past 1 when a join lies right of 1.
  `CurvesAreContinuous` therefore asks only that the last end is at least 1.

## 6. Not modelled, and why

Inline structs, arrays and resources in paths: a path step through them is moved
by no recorded edit (TagArray.swap and replace are listed as a hazard).  The MCC
chunk format, string ids, references and the 64-byte header: they carry their own
lengths.  The counts of the 12-byte header past 32767, power failures, and
failures to create directories.

Of the containers: the writers of new override and mod containers, which make
files from nothing; compression blocks and alignment within the `.ucas`; two
editors of one container at once, and handles that are older than the file where
the code does not ask (overwrite_tag, overwrite_packages).  Of layouts: the
builder, a translation of JSON.  Of functions: the y of points, spline
coefficients, colours, clamps, Halo 2 functions, and what is evaluated inside a
piece, all of it arithmetic of floats.  Of the shell: command parsing, and
commands that print, import or extract, which leave the session alone.

Readers, serializers, tag conversion, geometry, bitmap, audio and animation
codecs, and the bindings generator keep no state between calls: see the notes in
`PROJECT.json`.  By lines they are most of the repository (`convert/mod.rs`, the
package object serializers, `jms.rs`, `render_model.rs`, the importers): tables of
names and formats, and numeric functions of one input.  A model of them would
repeat the code line by line and have no two steps to put in another order; they
are what unit tests on real tags are for.

## 7. Plan

Done: handles, blocks, classic bodies, the save path, in-place container edits,
the layout cache, the function editor and the shell's session, with proofs for
all of them.  What is left:

1. MCC streams: `rebuild_dependency_list`, and the tree reader and writer of
   `data.rs` as operators with read after write as the property.
2. `ClassicBody` with inline structs, references and string ids; a run with a block
   header with count 0 under a nonzero inline word.
3. Arrays in `PyHandles`, with swap and replace.
