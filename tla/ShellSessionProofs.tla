------------------------- MODULE ShellSessionProofs -------------------------
(***************************************************************************)
(* What a session of the shell keeps, for every number of files, edits,    *)
(* loads and levels of navigation.                                         *)
(*                                                                         *)
(* Every step that parts the tag from the files leaves it dirty or is one  *)
(* of the three that `unmarked' records.                                   *)
(***************************************************************************)
EXTENDS ShellSession, TLAPS

DiskTyped == disk \in [Path -> [of : Path \cup {"none"}, edit : Nat]]

SessionTyped ==
  /\ DiskTyped
  /\ loaded # None =>
       /\ loaded.path \in Path
       /\ loaded.tag \in [of : Path \cup {"none"}, edit : Nat]
       /\ loaded.dirty \in BOOLEAN
  /\ edits \in Nat
  /\ nav \in Seq(Nat) /\ loads \in Nat

SessionInv == SessionTyped /\ CleanIsOnDisk /\ NavIsOfThisTag

Contents == [of : Path \cup {"none"}, edit : Nat]

LEMMA InitSessionInv == SessionInit => SessionInv
  BY DEF SessionInit, SessionInv, SessionTyped, DiskTyped, CleanIsOnDisk, NavIsOfThisTag, TagOf

(* A loaded tag is clean, in its file, and at its root. *)
LEMMA LoadKeeps ==
  ASSUME SessionInv, NEW p \in Path, Load(p)
  PROVE  SessionInv'
  <1>1. disk' = disk /\ edits' = edits /\ loads' = loads + 1 /\ nav' = <<>>
    BY DEF Load, NavOfLoad
  <1>2. loaded' = [path |-> p, tag |-> disk[p], dirty |-> FALSE] /\ disk[p] \in Contents
    BY DEF Load, Loaded, SessionInv, SessionTyped, DiskTyped, Contents
  <1>3. SessionTyped'
    BY <1>1, <1>2 DEF SessionInv, SessionTyped, DiskTyped, Contents
  <1>4. CleanIsOnDisk'
    BY <1>1, <1>2 DEF CleanIsOnDisk, OnDisk
  <1>5. NavIsOfThisTag'
    BY <1>1 DEF NavIsOfThisTag
  <1> QED
    BY <1>3, <1>4, <1>5 DEF SessionInv

(* With no tag loaded there is nothing to keep. *)
LEMMA LeaveKeeps ==
  ASSUME SessionInv, loaded' = None, UNCHANGED <<disk, nav, edits, loads>>
  PROVE  SessionInv'
  BY DEF SessionInv, SessionTyped, DiskTyped, CleanIsOnDisk, NavIsOfThisTag

(* A save that does not land leaves the tag dirty, or is recorded. *)
LEMMA SaveKeeps ==
  ASSUME SessionInv, NEW dest \in Path, NEW outcome \in Outcomes,
         NEW tag \in Contents, NEW dirty \in BOOLEAN,
         loaded # None, Save(dest, tag, dirty, outcome), edits' \in Nat,
         outcome = "saved" \/ (outcome = "failed" /\ dirty) \/ unmarked'
  PROVE  SessionInv'
  <1>1. /\ nav' = nav /\ loads' = loads /\ loaded.path \in Path
        /\ loaded' = [path |-> loaded.path, tag |-> tag, dirty |-> DirtyAfter(dirty, outcome)]
    BY DEF Save, Loaded, SessionInv, SessionTyped
  <1>2. DirtyAfter(dirty, outcome) \in BOOLEAN /\ (outcome = "failed" /\ dirty => DirtyAfter(dirty, outcome))
    BY DEF DirtyAfter
  <1>3. DiskTyped'
    <2>1. Torn \in Contents /\ DiskTyped
      BY DEF Torn, Contents, SessionInv, SessionTyped
    <2> QED
      BY <2>1 DEF Save, DiskTyped, Contents
  <1>4. SessionTyped'
    BY <1>1, <1>2, <1>3 DEF SessionInv, SessionTyped, Contents
  <1>5. CleanIsOnDisk'
    <2>1. CASE outcome = "saved"
      <3>1. disk'[dest] = tag
        BY <2>1 DEF Save, SessionInv, SessionTyped, DiskTyped
      <3> QED
        BY <1>1, <3>1 DEF CleanIsOnDisk, OnDisk
    <2>2. CASE outcome # "saved"
      BY <1>1, <1>2, <2>2 DEF CleanIsOnDisk
    <2> QED
      BY <2>1, <2>2
  <1>6. NavIsOfThisTag'
    BY <1>1 DEF SessionInv, NavIsOfThisTag
  <1> QED
    BY <1>4, <1>5, <1>6 DEF SessionInv

(* A place below or above one in this tag is in this tag. *)
LEMMA NavKeeps ==
  ASSUME SessionInv, NEW new \in Seq(Nat), NavTo(new),
         loaded # None => \A i \in DOMAIN new : new[i] = loads
  PROVE  SessionInv'
  BY DEF NavTo, SessionInv, SessionTyped, DiskTyped, CleanIsOnDisk, OnDisk, NavIsOfThisTag

LEMMA Prefixes ==
  ASSUME SessionInv, NEW k \in 0 .. Len(nav)
  PROVE  /\ SubSeq(nav, 1, k) \in Seq(Nat)
         /\ loaded # None => \A i \in DOMAIN SubSeq(nav, 1, k) : SubSeq(nav, 1, k)[i] = loads
  BY DEF SessionInv, SessionTyped, NavIsOfThisTag

LEMMA NextSessionInv == SessionInv /\ [SessionNext]_sessionVars => SessionInv'
  <1> SUFFICES ASSUME SessionInv, [SessionNext]_sessionVars PROVE SessionInv'
    OBVIOUS
  <1>1. ASSUME NEW p \in Path, NEW yes \in BOOLEAN, Open(p, yes) PROVE SessionInv'
    BY <1>1, LoadKeeps DEF Open
  <1>2. ASSUME NEW yes \in BOOLEAN, Close(yes) PROVE SessionInv'
    BY <1>2, LeaveKeeps DEF Close
  <1>11. ASSUME NEW yes \in BOOLEAN, NEW force \in BOOLEAN, Exit(yes, force) \/ EndOfInput PROVE SessionInv'
    BY <1>11, LeaveKeeps DEF Exit, EndOfInput, End
  <1>3. ASSUME NEW p \in Path, NEW outcome \in Outcomes, SaveTo(p, outcome) PROVE SessionInv'
    <2>1. loaded # None /\ loaded.tag \in Contents /\ loaded.dirty \in BOOLEAN /\ edits' \in Nat
      BY <1>3 DEF SaveTo, SessionInv, SessionTyped, Contents
    <2>2. /\ Save(p, loaded.tag, loaded.dirty, outcome)
          /\ outcome = "saved" \/ (outcome = "failed" /\ loaded.dirty) \/ unmarked'
      BY <1>3, <2>1 DEF SaveTo, Outcomes
    <2> QED
      BY <2>1, <2>2, SaveKeeps
  <1>4. ASSUME NEW p \in Path, NEW outcome \in Outcomes, Edit(p, outcome) PROVE SessionInv'
    <2>1. loaded # None /\ Edited \in Contents /\ edits' \in Nat
      BY <1>4 DEF Edit, Edited, TagOf, SessionInv, SessionTyped, Contents
    <2>2. /\ Save(p, Edited, TRUE, outcome)
          /\ outcome = "saved" \/ outcome = "failed" \/ unmarked'
      BY <1>4 DEF Edit, Outcomes
    <2> QED
      BY <2>1, <2>2, SaveKeeps
  <1>5. CASE RebuildFails
    <2>1. /\ loaded # None /\ loaded.path \in Path /\ loaded.dirty \in BOOLEAN /\ edits' \in Nat
          /\ Edited \in Contents
      BY <1>5 DEF RebuildFails, Edited, TagOf, SessionInv, SessionTyped, Contents
    <2>2. /\ UNCHANGED <<disk, nav, loads>> /\ unmarked' = ~loaded.dirty
          /\ loaded'.path = loaded.path /\ loaded'.dirty = loaded.dirty
      BY <1>5 DEF RebuildFails
    <2>3. loaded' # None => loaded'.tag = Edited
      BY <1>5 DEF RebuildFails
    <2>4. SessionTyped'
      BY <2>1, <2>2, <2>3 DEF SessionInv, SessionTyped, DiskTyped, Contents
    <2>5. CleanIsOnDisk'
      BY <2>1, <2>2 DEF CleanIsOnDisk
    <2>6. NavIsOfThisTag'
      BY <2>1, <2>2 DEF SessionInv, NavIsOfThisTag
    <2> QED
      BY <2>4, <2>5, <2>6 DEF SessionInv
  <1>6. ASSUME NEW absolute \in BOOLEAN, EnterBlock(absolute) PROVE SessionInv'
    <2> DEFINE new == IF absolute THEN <<loads>> ELSE Append(nav, loads)
    <2>1. nav \in Seq(Nat) /\ loads \in Nat /\ \A i \in DOMAIN nav : nav[i] = loads
      BY <1>6 DEF EnterBlock, SessionInv, SessionTyped, NavIsOfThisTag
    <2>2. new \in Seq(Nat) /\ \A i \in DOMAIN new : new[i] = loads
      BY <2>1
    <2> QED
      BY <1>6, <2>2, NavKeeps DEF EnterBlock
  <1>7. CASE Back
    <2>1. nav \in Seq(Nat) /\ nav # <<>>
      BY <1>7 DEF Back, SessionInv, SessionTyped
    <2>2. Len(nav) - 1 \in 0 .. Len(nav)
      BY <2>1
    <2> QED
      BY <1>7, <2>2, NavKeeps, Prefixes DEF Back
  <1>8. CASE ExitTo
    BY <1>8, NavKeeps, Prefixes DEF ExitTo
  <1>9. CASE Revert
    BY <1>9, LoadKeeps DEF Revert, SessionInv, SessionTyped
  <1>10. CASE UNCHANGED sessionVars
    BY <1>10 DEF sessionVars, SessionInv, SessionTyped, DiskTyped, CleanIsOnDisk, OnDisk, NavIsOfThisTag
  <1> QED
    BY <1>1, <1>2, <1>3, <1>4, <1>5, <1>6, <1>7, <1>8, <1>9, <1>10, <1>11 DEF SessionNext

THEOREM SessionInvHolds == SessionSpec => []SessionInv
  <1> QED
    BY InitSessionInv, NextSessionInv, PTL DEF SessionSpec

(* A tag that is not marked dirty is in a file, whatever saves failed. *)
THEOREM CleanTagsAreOnDisk == SessionSpec => []CleanIsOnDisk
  <1>1. SessionInv => CleanIsOnDisk
    BY DEF SessionInv
  <1> QED
    BY <1>1, SessionInvHolds, PTL

(* Paths are relative to a place in the tag that is loaded. *)
THEOREM NavStaysOfThisTag == SessionSpec => []NavIsOfThisTag
  <1>1. SessionInv => NavIsOfThisTag
    BY DEF SessionInv
  <1> QED
    BY <1>1, SessionInvHolds, PTL
=============================================================================
