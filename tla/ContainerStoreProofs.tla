------------------------ MODULE ContainerStoreProofs ------------------------
(***************************************************************************)
(* No redirect of a container leads nowhere, for all paths and contents.   *)
(* The state an edit can be taken back to has to satisfy it as well, since *)
(* taking back brings it back, at once or in steps; that is what the       *)
(* invariant adds.  A container that lost everything has no redirects.     *)
(***************************************************************************)
EXTENDS ContainerStore, TLAPS

Leads(P, R) == \A p \in Path : R[p] # Absent => /\ R[p] \in Path
                                                /\ P[R[p]] # Absent

StoreInv ==
  /\ packages \in Packages /\ redirects \in Redirects
  /\ Leads(packages, redirects)
  /\ undo # Absent => /\ undo \in Packages \X Redirects
                      /\ Leads(undo[1], undo[2])

(* The invariant holds of an unedited container: it has no redirects.      *)
LEMMA InitStoreInv == Init => StoreInv
  <1> SUFFICES ASSUME Init PROVE StoreInv
    OBVIOUS
  <1>1. redirects \in Redirects
    BY DEF Init, Redirects
  <1>2. Leads(packages, redirects) /\ packages \in Packages /\ undo = Absent
    BY DEF Init, Leads
  <1> QED
    BY <1>1, <1>2 DEF StoreInv

(* Each edit keeps redirects leading to packages: duplication only adds    *)
(* packages, deletion spares targets, renaming takes its redirects along,  *)
(* overwriting keeps the set of packages.                                  *)
LEMMA EditsKeepLeads ==
  ASSUME StoreInv, Absent \notin Path, Absent \notin Package,
         \/ \E p \in Path, e \in Export, b \in Body : Duplicate(p, e, b)
         \/ \E p \in Path : Delete(p)
         \/ \E p, q \in Path, b \in Body \cup {Absent}, leave \in BOOLEAN : Rename(p, q, b, leave)
         \/ Overwrite
  PROVE  packages' \in Packages /\ redirects' \in Redirects /\ Leads(packages', redirects')
  <1> USE DEF StoreInv, Packages, Redirects, Leads
  <1>1. ASSUME NEW p \in Path, NEW e \in Export, NEW b \in Body, Duplicate(p, e, b)
        PROVE  packages' \in Packages /\ redirects' \in Redirects /\ Leads(packages', redirects')
    <2>1. [export |-> e, body |-> b] \in Package
      BY DEF Package
    <2> QED
      BY <1>1, <2>1 DEF Duplicate
  <1>2. ASSUME NEW p \in Path, Delete(p)
        PROVE  packages' \in Packages /\ redirects' \in Redirects /\ Leads(packages', redirects')
    BY <1>2 DEF Delete
  <1>3. ASSUME NEW p \in Path, NEW q \in Path, NEW b \in Body \cup {Absent}, NEW leave \in BOOLEAN,
               Rename(p, q, b, leave)
        PROVE  packages' \in Packages /\ redirects' \in Redirects /\ Leads(packages', redirects')
    <2>1. packages[p] \in Package /\ packages[q] = Absent /\ p # q
      BY <1>3 DEF Rename, Held
    <2>2. [packages[p] EXCEPT !.body = b] \in Package
      BY <2>1 DEF Package
    <2> DEFINE moved == [packages[p] EXCEPT !.body = b]
    <2> HIDE DEF moved
    <2>3. packages' = [packages EXCEPT ![q] = moved, ![p] = Absent]
      BY <1>3 DEF Rename, moved
    <2>4. packages' \in Packages /\ packages'[q] # Absent
      BY <2>1, <2>2, <2>3 DEF moved
    <2>5. redirects' = [r \in Path |-> IF redirects[r] = p \/ (leave /\ r = p) THEN q ELSE redirects[r]]
      BY <1>3 DEF Rename
    <2>6. redirects' \in Redirects
      BY <2>5
    <2>7. ASSUME NEW r \in Path, redirects'[r] # Absent
          PROVE  redirects'[r] \in Path /\ packages'[redirects'[r]] # Absent
      <3>1. CASE redirects'[r] = q
        BY <3>1, <2>4
      <3>2. CASE redirects'[r] # q
        <4>1. redirects'[r] = redirects[r] /\ redirects[r] # p
          BY <3>2, <2>5
        <4>2. packages'[redirects[r]] = packages[redirects[r]]
          BY <2>3, <2>7, <3>2, <4>1
        <4> QED
          BY <2>7, <4>1, <4>2
      <3> QED
        BY <3>1, <3>2
    <2> QED
      BY <2>4, <2>6, <2>7
  <1>4. ASSUME Overwrite
        PROVE  packages' \in Packages /\ redirects' \in Redirects /\ Leads(packages', redirects')
    BY <1>4 DEF Overwrite
  <1> HIDE DEF StoreInv, Packages, Redirects, Leads
  <1> QED
    BY <1>1, <1>2, <1>3, <1>4

(* Every step keeps the invariant; taking an edit back brings back a state *)
(* in which it held.                                                       *)
LEMMA NextStoreInv ==
  ASSUME StoreInv, [Next]_vars, Absent \notin Path, Absent \notin Package
  PROVE  StoreInv'
  <1>1. CASE Commit
    <2>1. packages' \in Packages /\ redirects' \in Redirects /\ Leads(packages', redirects')
      BY <1>1, EditsKeepLeads DEF Commit
    <2>2. undo' # Absent => undo' = <<packages, redirects>>
      BY <1>1 DEF Commit
    <2> QED
      BY <2>1, <2>2 DEF StoreInv
  <1>2. CASE Settle
    BY <1>2 DEF Settle, StoreInv, Leads
  <1>3. CASE TakeBack
    <2>1. undo \in Packages \X Redirects /\ Leads(undo[1], undo[2])
      BY <1>3 DEF TakeBack, StoreInv
    <2>2. packages' = undo[1] /\ redirects' = undo[2] /\ undo' = Absent
      BY <1>3 DEF TakeBack
    <2> QED
      BY <2>1, <2>2 DEF StoreInv
  <1>4. CASE StartTakingBack
    <2>1. CASE undo = Absent
      BY <1>4, <2>1 DEF StartTakingBack, StoreInv, Leads
    <2>2. CASE undo # Absent
      <3>1. undo \in Packages \X Redirects /\ Leads(undo[1], undo[2])
        BY <2>2 DEF StoreInv
      <3>2. undo' = undo /\ packages' = undo[1] /\ redirects' = undo[2]
        BY <1>4, <2>2, <3>1 DEF StartTakingBack
      <3> QED
        BY <3>1, <3>2 DEF StoreInv
    <2> QED
      BY <2>1, <2>2
  <1>5. CASE Lose
    BY <1>5 DEF Lose, StoreInv, Leads, Packages, Redirects
  <1>6. CASE UNCHANGED vars
    BY <1>6 DEF vars, StoreInv, Leads
  <1> QED
    BY <1>1, <1>2, <1>3, <1>4, <1>5, <1>6 DEF Next

(* However an editor duplicates, deletes, renames, overwrites and takes    *)
(* edits back, a redirect of the container leads to a package it holds.    *)
THEOREM RedirectsAlwaysLead ==
  ASSUME Absent \notin Path, Absent \notin Package
  PROVE  Spec => []RedirectsLead
  <1>1. Init => StoreInv
    BY InitStoreInv
  <1>2. StoreInv /\ [Next]_vars => StoreInv'
    BY NextStoreInv
  <1>3. StoreInv => RedirectsLead
    BY DEF StoreInv, Leads, RedirectsLead, Held
  <1> QED
    BY <1>1, <1>2, <1>3, PTL DEF Spec
=============================================================================
