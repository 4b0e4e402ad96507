--------------------------- MODULE ContainerStore ---------------------------
(***************************************************************************)
(* What an editor of an IoStore container is promised by the in-place      *)
(* operations: the container holds packages by path, and redirects from    *)
(* names packages used to have.  An edit happens whole.  Until the editor  *)
(* has been told that it did, it can be taken back, and then whole too.    *)
(* Taking back is the one thing that can lose what the container holds.    *)
(***************************************************************************)
CONSTANTS
  Path,     \* the package paths
  Export,   \* what the export bundle of a package can hold
  Body,     \* what its bulk data can hold
  Absent    \* no package, no body, no redirect

VARIABLES
  packages,   \* the package at each path
  redirects,  \* where each name is redirected to
  undo        \* the packages and redirects to go back to, or Absent

vars == <<packages, redirects, undo>>

Package == [export : Export, body : Body \cup {Absent}]
Packages == [Path -> Package \cup {Absent}]
Redirects == [Path -> Path \cup {Absent}]

Init ==
  /\ packages \in Packages
  /\ redirects = [p \in Path |-> Absent]
  /\ undo = Absent

Held == {p \in Path : packages[p] # Absent}

Duplicate(p, e, b) ==
  /\ p \notin Held
  /\ packages' = [packages EXCEPT ![p] = [export |-> e, body |-> b]]
  /\ redirects' = redirects

(* A package that a redirect leads to stays. *)
Delete(p) ==
  /\ p \in Held
  /\ \A r \in Path : redirects[r] # p
  /\ packages' = [packages EXCEPT ![p] = Absent]
  /\ redirects' = redirects

(* Redirects follow the package; the old name may become one more. *)
Rename(p, q, b, leave) ==
  /\ p \in Held /\ q \notin Held
  /\ packages' = [packages EXCEPT ![q] = [packages[p] EXCEPT !.body = b], ![p] = Absent]
  /\ redirects' = [r \in Path |-> IF redirects[r] = p \/ (leave /\ r = p) THEN q ELSE redirects[r]]

(* Packages are overwritten, any number of them in one edit. *)
Overwrite ==
  /\ packages' \in Packages
  /\ \A p \in Path : packages'[p] = Absent <=> packages[p] = Absent
  /\ redirects' = redirects

(* An edit commits, for good or with a way back until it is settled. *)
Commit ==
  /\ <<packages, redirects>>' # <<packages, redirects>>
  /\ undo = Absent
  /\ undo' \in {Absent, <<packages, redirects>>}
  /\ \/ \E p \in Path, e \in Export, b \in Body : Duplicate(p, e, b)
     \/ \E p \in Path : Delete(p)
     \/ \E p, q \in Path, b \in Body \cup {Absent}, leave \in BOOLEAN : Rename(p, q, b, leave)
     \/ Overwrite

Settle ==
  /\ undo # Absent
  /\ undo' = Absent
  /\ UNCHANGED <<packages, redirects>>

TakeBack ==
  /\ undo # Absent
  /\ <<packages, redirects>>' = undo
  /\ undo' = Absent

(* An edit, committed or not, is taken back in more than one step: until   *)
(* the last of them what there was can still be lost.                      *)
StartTakingBack ==
  /\ undo' = (IF undo = Absent THEN <<packages, redirects>> ELSE undo)
  /\ <<packages, redirects>>' = undo'

Lose ==
  /\ undo # Absent
  /\ undo' = Absent
  /\ packages' = [p \in Path |-> Absent]
  /\ redirects' = [p \in Path |-> Absent]

Next == Commit \/ Settle \/ TakeBack \/ StartTakingBack \/ Lose

Spec == Init /\ [][Next]_vars

(* No name leads nowhere: a redirect's target is a package of the container,*)
(* however packages were renamed, deleted and made again since.            *)
RedirectsLead == \A p \in Path : redirects[p] # Absent => redirects[p] \in Held
=============================================================================
