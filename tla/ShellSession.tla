---------------------------- MODULE ShellSession ----------------------------
(***************************************************************************)
(* A session of the interactive shell (blam-tag-shell: repl.rs and         *)
(* context.rs): one tag loaded from a file, its dirty flag, and the        *)
(* navigation that paths are relative to.  A command that edits saves at   *)
(* once, to the tag's file or to the one it names; a save truncates its    *)
(* target first, so that one which fails can leave half a file.            *)
(*                                                                         *)
(* Commands that are refused before they change anything, dry runs and     *)
(* "no" at the prompt change nothing and are not steps; nor are new and    *)
(* import, which write files of their own and leave the session alone.     *)
(***************************************************************************)
EXTENDS Naturals, Sequences

CONSTANTS
  Path,
  MaxEdits,  \* bound: edits
  MaxLoads,  \* bound: loads
  MaxDepth   \* bound: segments of the navigation

VARIABLES
  disk,      \* what each file holds
  loaded,    \* the loaded tag, the path it is from and its dirty flag
  nav,       \* the navigation; a segment is the number of the load it was entered in
  running,
  edits, loads,
  unmarked   \* history: a failure set the clean tag apart from the files

sessionVars == <<disk, loaded, nav, running, edits, loads, unmarked>>

None == [path |-> "none", dirty |-> FALSE]
Torn == [of |-> "none", edit |-> 0]
TagOf(p, n) == [of |-> p, edit |-> n]
Loaded(p, tag, dirty) == [path |-> p, tag |-> tag, dirty |-> dirty]

SessionInit ==
  /\ disk = [p \in Path |-> TagOf(p, 0)]
  /\ loaded = None /\ nav = <<>> /\ running = TRUE
  /\ edits = 0 /\ loads = 0 /\ unmarked = FALSE

-----------------------------------------------------------------------------
(* Loading and leaving *)

(* Mutant: the navigation of the tag before stays.                         *)
NavKept == nav

NavOfLoad == <<>>

(* CliContext::load, of a file that reads.                                 *)
Load(p) ==
  /\ loads < MaxLoads /\ loads' = loads + 1
  /\ disk[p] # Torn
  /\ loaded' = Loaded(p, disk[p], FALSE)
  /\ nav' = NavOfLoad
  /\ unmarked' = FALSE
  /\ UNCHANGED <<disk, running, edits>>

(* confirm_discard_dirty: a dirty tag goes when the user says yes.         *)
MayDiscard(yes) == ~loaded.dirty \/ yes

Open(p, yes) == MayDiscard(yes) /\ Load(p)

(* The navigation of a closed tag stays, until the next load.              *)
Close(yes) ==
  /\ loaded # None /\ MayDiscard(yes)
  /\ loaded' = None
  /\ UNCHANGED <<disk, nav, running, edits, loads, unmarked>>

(* revert: the tag is loaded again without a question.                     *)
Revert == loaded # None /\ Load(loaded.path)

(* The session ends, and the loaded tag with it. *)
End ==
  /\ running' = FALSE /\ loaded' = None
  /\ UNCHANGED <<disk, nav, edits, loads, unmarked>>

(* exit asks as open and close do, exit --force does not.                  *)
Exit(yes, force) == (force \/ MayDiscard(yes)) /\ End

(* At the end of the input a dirty tag is warned of and nobody is asked.   *)
EndOfInput == End

-----------------------------------------------------------------------------
(* Editing and saving *)

(* Mutant: a save clears the flag whatever becomes of it.                  *)
DirtyCleared(dirty, outcome) == FALSE

DirtyAfter(dirty, outcome) == dirty /\ outcome = "failed"

(* LoadedTag::save.  A save fails with the target as it was or truncated;  *)
(* it is lost when the last bytes fail as the writer is dropped: nobody is *)
(* told.                                                                   *)
Outcomes == {"saved", "failed", "lost"}

Save(dest, tag, dirty, outcome) ==
  /\ \/ outcome = "saved" /\ disk' = [disk EXCEPT ![dest] = tag]
     \/ outcome # "saved" /\ disk' = [disk EXCEPT ![dest] = Torn]
     \/ outcome = "failed" /\ disk' = disk
  /\ loaded' = Loaded(loaded.path, tag, DirtyAfter(dirty, outcome))
  /\ UNCHANGED <<nav, running, loads>>

SaveTo(dest, outcome) ==
  /\ loaded # None
  /\ Save(dest, loaded.tag, loaded.dirty, outcome)
  /\ unmarked' = (outcome = "lost" \/ (outcome = "failed" /\ ~loaded.dirty))
  /\ UNCHANGED edits

Edited == TagOf(loaded.path, edits + 1)

(* set, flag, block and the streams: change, mark, commit.                 *)
Edit(dest, outcome) ==
  /\ loaded # None /\ edits < MaxEdits /\ edits' = edits + 1
  /\ Save(dest, Edited, TRUE, outcome)
  /\ unmarked' = (outcome = "lost")

(* rebuild_dependency_list of a tag whose stream is not as expected fails  *)
(* with the stream added or emptied, before the tag is marked.             *)
RebuildFails ==
  /\ loaded # None /\ edits < MaxEdits /\ edits' = edits + 1
  /\ loaded' = [loaded EXCEPT !.tag = Edited]
  /\ unmarked' = ~loaded.dirty
  /\ UNCHANGED <<disk, nav, running, loads>>

-----------------------------------------------------------------------------
(* Navigation *)

NavTo(new) ==
  /\ nav' = new
  /\ UNCHANGED <<disk, loaded, running, edits, loads, unmarked>>

(* edit-block: below where one is, or from the root.                       *)
EnterBlock(absolute) ==
  /\ loaded # None /\ Len(nav) < MaxDepth
  /\ NavTo(IF absolute THEN <<loads>> ELSE Append(nav, loads))

Back == nav # <<>> /\ NavTo(SubSeq(nav, 1, Len(nav) - 1))

(* exit-to: up to a segment, or to the root; with no tag loaded too.       *)
ExitTo == \E k \in 0 .. Len(nav) : NavTo(SubSeq(nav, 1, k))

SessionNext ==
  /\ running
  /\ \/ \E p \in Path, yes \in BOOLEAN : Open(p, yes)
     \/ \E yes \in BOOLEAN : Close(yes)
     \/ \E yes, force \in BOOLEAN : Exit(yes, force)
     \/ \E p \in Path, outcome \in Outcomes : SaveTo(p, outcome) \/ Edit(p, outcome)
     \/ \E absolute \in BOOLEAN : EnterBlock(absolute)
     \/ Revert \/ EndOfInput \/ RebuildFails \/ Back \/ ExitTo

SessionSpec == SessionInit /\ [][SessionNext]_sessionVars

-----------------------------------------------------------------------------
(* Properties *)

OnDisk(tag) == \E p \in Path : disk[p] = tag

(* A tag that is not marked dirty is in a file: saves fail half way, to    *)
(* the tag's own file or to another, and are tried again elsewhere.  (Not  *)
(* after a lost save, a failed save of a clean tag or a failed rebuild.)   *)
CleanIsOnDisk ==
  loaded # None /\ ~loaded.dirty /\ ~unmarked => OnDisk(loaded.tag)

(* Paths are relative to a place in this tag: the navigation was entered   *)
(* since it was loaded, though closing a tag keeps it.                     *)
NavIsOfThisTag ==
  loaded # None => \A i \in DOMAIN nav : nav[i] = loads
=============================================================================
