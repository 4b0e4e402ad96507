------------------------- MODULE LayoutCacheProofs --------------------------
(***************************************************************************)
(* What a call of the layout cache returns, for every number of threads,   *)
(* calls and changes of the files.                                         *)
(*                                                                         *)
(* Versions only grow.  A layout is built after its stamp was taken, so    *)
(* the entry is never older than its own stamp (EntryIsNoOlder).  A hit    *)
(* has that stamp too, taken since its call began: what it returns is no   *)
(* older than the call.                                                    *)
(***************************************************************************)
EXTENDS LayoutCache, TLAPS

AfterStamp(place, f) ==
  \/ place \in {"look up", "read definition", "read meta", "read parents", "insert"}
  \/ place = "stamp meta" /\ f = "definition"
AfterRead(place, f) ==
  \/ place \in {"read parents", "insert"}
  \/ place = "read meta" /\ f = "definition"

Between(low, x, high) == low <= x /\ x <= high

EntryIsNoOlder ==
  cache # NoEntry => \A f \in Stamped : Between(cache.stamp[f], cache.built[f], now[f])

(* A call at a place, the versions when it began, in its stamp, in its     *)
(* layout and in the file.                                                 *)
Aged(place, f, b, s, l, n) ==
  /\ place # "idle" => b <= n
  /\ AfterStamp(place, f) => Between(b, s, n)
  /\ AfterRead(place, f) => Between(s, l, n)
  /\ place = "done" => Between(b, l, n)

CallIsNoOlder(t, f) == Aged(at[t], f, began[t][f], stamp[t][f], built[t][f], now[f])

CallsAreNoOlder == \A t \in Thread, f \in Stamped : CallIsNoOlder(t, f)

GuidsAreMade ==
  /\ \A i \in DOMAIN handed : handed[i] <= guids
  /\ GuidsDiffer

CacheInv == CacheTypeOK /\ EntryIsNoOlder /\ CallsAreNoOlder /\ GuidsAreMade

LEMMA InitCacheInv == CacheInit => CacheInv
  <1> SUFFICES ASSUME CacheInit PROVE CacheInv
    OBVIOUS
  <1> QED
    BY DEF CacheInit, CacheInv, CacheTypeOK, EntryIsNoOlder, CallsAreNoOlder, CallIsNoOlder, Aged, GuidsAreMade,
           GuidsDiffer, NoEntry, Unread, Places, Versions, File, Stamped, AfterStamp, AfterRead

LEMMA Files == Stamped \subseteq File /\ "definition" \in File /\ "meta" \in File /\ "parents" \in File
  BY DEF File, Stamped

LEMMA VersionsAreNat ==
  ASSUME CacheTypeOK, NEW t \in Thread, NEW f \in File
  PROVE  now[f] \in Nat /\ stamp[t][f] \in Nat /\ built[t][f] \in Nat /\ began[t][f] \in Nat
  BY DEF CacheTypeOK, Versions

(* What each step of a call does to its ages. *)
Ages(f, b, s, l, n) ==
  /\ \A x, y, z : Aged("idle", f, x, y, z, n)
  /\ \A x, y : Aged("stamp definition", f, n, x, y, n)
  /\ Aged("stamp definition", f, b, s, l, n)
       => \A x : (f = "definition" => x = n) => Aged("stamp meta", f, b, x, l, n)
  /\ Aged("stamp meta", f, b, s, l, n)
       => \A x : (x = IF f = "meta" THEN n ELSE s) => Aged("look up", f, b, x, l, n)
  /\ Aged("look up", f, b, s, l, n)
       => \A x \in Nat : Between(s, x, n) => Aged("done", f, b, s, x, n)
  /\ Aged("look up", f, b, s, l, n) => Aged("read definition", f, b, s, l, n)
  /\ Aged("read definition", f, b, s, l, n)
       => \A x : (f = "definition" => x = n) => Aged("read meta", f, b, s, x, n)
  /\ Aged("read meta", f, b, s, l, n)
       => \A x : (x = IF f = "meta" THEN n ELSE l) => Aged("read parents", f, b, s, x, n)
  /\ Aged("read parents", f, b, s, l, n) => Aged("insert", f, b, s, l, n)
  /\ Aged("insert", f, b, s, l, n) => Aged("done", f, b, s, l, n)

LEMMA Ageing ==
  ASSUME NEW f \in Stamped, NEW b \in Nat, NEW s \in Nat, NEW l \in Nat, NEW n \in Nat
  PROVE  Ages(f, b, s, l, n)
  <1>1. f = "definition" \/ f = "meta"
    BY DEF Stamped
  <1> QED
    BY <1>1 DEF Ages, Aged, AfterStamp, AfterRead, Between

(* One version of one call is written, the rest stay. *)
LEMMA StampWritten ==
  ASSUME CacheTypeOK, NEW t \in Thread, NEW f \in File, Stamp(t, f)
  PROVE  /\ stamp' \in [Thread -> Versions]
         /\ \A g \in File : stamp'[t][g] = IF g = f THEN now[f] ELSE stamp[t][g]
         /\ \A u \in Thread \ {t} : stamp'[u] = stamp[u]
  <1>1. stamp[t] \in [File -> Nat] /\ now[f] \in Nat
    BY DEF CacheTypeOK, Versions
  <1>2. stamp' = [stamp EXCEPT ![t] = [stamp[t] EXCEPT ![f] = now[f]]]
    BY DEF Stamp
  <1> DEFINE row == [stamp[t] EXCEPT ![f] = now[f]]
  <1>3. row \in Versions /\ \A g \in File : row[g] = IF g = f THEN now[f] ELSE stamp[t][g]
    BY <1>1 DEF Versions
  <1>4. stamp' = [stamp EXCEPT ![t] = row]
    BY <1>2
  <1> HIDE DEF row
  <1> QED
    BY <1>3, <1>4 DEF CacheTypeOK

LEMMA ReadWritten ==
  ASSUME CacheTypeOK, NEW t \in Thread, NEW f \in File, Read(t, f)
  PROVE  /\ built' \in [Thread -> Versions]
         /\ \A g \in File : built'[t][g] = IF g = f THEN now[f] ELSE built[t][g]
         /\ \A u \in Thread \ {t} : built'[u] = built[u]
  <1>1. built[t] \in [File -> Nat] /\ now[f] \in Nat
    BY DEF CacheTypeOK, Versions
  <1>2. built' = [built EXCEPT ![t] = [built[t] EXCEPT ![f] = now[f]]]
    BY DEF Read
  <1> DEFINE row == [built[t] EXCEPT ![f] = now[f]]
  <1>3. row \in Versions /\ \A g \in File : row[g] = IF g = f THEN now[f] ELSE built[t][g]
    BY <1>1 DEF Versions
  <1>4. built' = [built EXCEPT ![t] = row]
    BY <1>2
  <1> HIDE DEF row
  <1> QED
    BY <1>3, <1>4 DEF CacheTypeOK

LEMMA EntryIsTyped ==
  ASSUME CacheTypeOK, cache # NoEntry
  PROVE  cache.stamp \in Versions /\ cache.built \in Versions /\ cache.guid \in Nat
  BY DEF CacheTypeOK

(* Every step keeps the types. *)
LEMMA NextTypeOK == CacheTypeOK /\ CacheNext => CacheTypeOK'
  <1> SUFFICES ASSUME CacheTypeOK, CacheNext PROVE CacheTypeOK'
    OBVIOUS
  <1>1. ASSUME NEW t \in Thread, Call(t) PROVE CacheTypeOK'
    <2>1. Unread \in Versions
      BY DEF Unread, Versions
    <2> QED
      BY <1>1, <2>1 DEF Call, CacheTypeOK, Places
  <1>4. ASSUME NEW t \in Thread, StampDefinition(t) \/ StampMeta(t) PROVE CacheTypeOK'
    <2>1. stamp' \in [Thread -> Versions]
      BY <1>4, Files, StampWritten DEF StampDefinition, StampMeta
    <2> QED
      BY <1>4, <2>1 DEF StampDefinition, StampMeta, Goes, CacheTypeOK, Places
  <1>5. ASSUME NEW t \in Thread, ReadDefinition(t) \/ ReadMeta(t) \/ ReadParents(t) PROVE CacheTypeOK'
    <2>1. built' \in [Thread -> Versions]
      BY <1>5, Files, ReadWritten DEF ReadDefinition, ReadMeta, ReadParents
    <2> QED
      BY <1>5, <2>1 DEF ReadDefinition, ReadMeta, ReadParents, Read, Goes, CacheTypeOK, Places
  <1>6. ASSUME NEW t \in Thread, LookUpHit(t) PROVE CacheTypeOK'
    <2>1. cache.built \in Versions
      BY <1>6, EntryIsTyped DEF LookUpHit, Hit
    <2>2. guids' \in Nat /\ handed' \in Seq(Nat)
      <3>1. guids \in Nat /\ handed \in Seq(Nat)
        BY DEF CacheTypeOK
      <3>2. guids' = guids + 1 /\ handed' = Append(handed, guids + 1)
        BY <1>6 DEF LookUpHit, GuidOfHit
      <3> QED
        BY <3>1, <3>2
    <2>3. at' \in [Thread -> Places] /\ built' \in [Thread -> Versions]
      BY <1>6, <2>1 DEF LookUpHit, Goes, CacheTypeOK, Places
    <2> QED
      BY <1>6, <2>2, <2>3 DEF LookUpHit, CacheTypeOK
  <1>7. ASSUME NEW t \in Thread, LookUpMiss(t) \/ BuildFails(t) PROVE CacheTypeOK'
    BY <1>7 DEF LookUpMiss, BuildFails, Goes, CacheTypeOK, Places
  <1>8. ASSUME NEW t \in Thread, Insert(t) PROVE CacheTypeOK'
    <2>1. guids' \in Nat /\ handed' \in Seq(Nat)
      BY <1>8 DEF Insert, CacheTypeOK
    <2>2. at' \in [Thread -> Places]
      BY <1>8 DEF Insert, Goes, CacheTypeOK, Places
    <2>3. cache' \in [stamp : Versions, built : Versions, guid : Nat]
      BY <1>8 DEF Insert, StampOfEntry, CacheTypeOK
    <2> QED
      BY <1>8, <2>1, <2>2, <2>3 DEF Insert, CacheTypeOK
  <1>9. ASSUME NEW f \in File, Change(f) PROVE CacheTypeOK'
    BY <1>9 DEF Change, CacheTypeOK, Versions
  <1> QED
    BY <1>1, <1>4, <1>5, <1>6, <1>7, <1>8, <1>9 DEF CacheNext, Step

(* A step of a call changes that call alone; files and the entry stay.     *)
LEMMA StepKeepsOthers ==
  ASSUME CacheTypeOK, NEW u \in Thread, Call(u) \/ Step(u) \/ BuildFails(u), NEW t \in Thread \ {u}
  PROVE  at'[t] = at[t] /\ stamp'[t] = stamp[t] /\ built'[t] = built[t] /\ began'[t] = began[t]
  <1>3. CASE StampDefinition(u) \/ StampMeta(u)
    BY <1>3, Files, StampWritten DEF StampDefinition, StampMeta, Goes, CacheTypeOK
  <1>4. CASE ReadDefinition(u) \/ ReadMeta(u) \/ ReadParents(u)
    BY <1>4, Files, ReadWritten DEF ReadDefinition, ReadMeta, ReadParents, Read, Goes, CacheTypeOK
  <1>5. CASE Call(u) \/ LookUpHit(u) \/ LookUpMiss(u) \/ Insert(u) \/ BuildFails(u)
    BY <1>5 DEF Call, LookUpHit, LookUpMiss, Insert, BuildFails, Goes, CacheTypeOK
  <1> QED
    BY <1>3, <1>4, <1>5 DEF Step

LEMMA StepKeepsFiles ==
  ASSUME NEW t \in Thread, Call(t) \/ Step(t) \/ BuildFails(t)
  PROVE  now' = now
  BY DEF Call, Step, BuildFails, StampDefinition, StampMeta, LookUpHit, LookUpMiss,
         ReadDefinition, ReadMeta, ReadParents, Read, Insert

LEMMA StepKeepsCalls ==
  ASSUME CacheTypeOK, EntryIsNoOlder, CallsAreNoOlder, NEW u \in Thread,
         Call(u) \/ Step(u) \/ BuildFails(u), NEW t \in Thread, NEW f \in Stamped
  PROVE  CallIsNoOlder(t, f)'
  <1>1. now' = now /\ f \in File
    BY StepKeepsFiles, Files
  <1>2. CallIsNoOlder(t, f)
    BY DEF CallsAreNoOlder
  <1>3. now[f] \in Nat /\ stamp[t][f] \in Nat /\ built[t][f] \in Nat /\ began[t][f] \in Nat
    BY <1>1, VersionsAreNat
  <1>4. CASE t # u
    BY <1>1, <1>2, <1>4, StepKeepsOthers DEF CallIsNoOlder, Between
  <1>5. CASE t = u
    <2>a. Ages(f, began[t][f], stamp[t][f], built[t][f], now[f])
      BY <1>3, Ageing
    <2>b. CallIsNoOlder(t, f)' <=> Aged(at'[t], f, began'[t][f], stamp'[t][f], built'[t][f], now[f])
      BY <1>1 DEF CallIsNoOlder
    <2>c. Aged(at[t], f, began[t][f], stamp[t][f], built[t][f], now[f])
      BY <1>2 DEF CallIsNoOlder
    <2> USE <2>a, <2>b, <2>c DEF Ages
    <2>1. CASE Call(t)
      <3>1. at'[t] = "stamp definition" /\ began'[t] = now
        BY <2>1 DEF Call, CacheTypeOK
      <3> QED
        BY <3>1
    <2>3. CASE StampDefinition(t)
      <3>1. at[t] = "stamp definition" /\ at'[t] = "stamp meta" /\ began' = began /\ built' = built
        BY <2>3 DEF StampDefinition, Goes, CacheTypeOK
      <3>2. f = "definition" => stamp'[t][f] = now[f]
        BY <2>3, Files, StampWritten DEF StampDefinition
      <3> QED
        BY <3>1, <3>2
    <2>4. CASE StampMeta(t)
      <3>1. at[t] = "stamp meta" /\ at'[t] = "look up" /\ began' = began /\ built' = built
        BY <2>4 DEF StampMeta, Goes, CacheTypeOK
      <3>2. stamp'[t][f] = IF f = "meta" THEN now[f] ELSE stamp[t][f]
        BY <2>4, Files, StampWritten DEF StampMeta
      <3>3. f \in {"definition", "meta"}
        BY DEF Stamped
      <3> QED
        BY <3>1, <3>2, <3>3
    <2>5. CASE LookUpHit(t)
      <3>1. cache # NoEntry /\ cache.stamp = stamp[t] /\ at[t] = "look up"
        BY <2>5 DEF LookUpHit, Hit, Goes
      <3>2. cache.built \in [File -> Nat] /\ f \in File
        BY <1>1, <3>1, EntryIsTyped DEF Versions
      <3>3. cache.built[f] \in Nat /\ Between(stamp[t][f], cache.built[f], now[f])
        BY <3>1, <3>2 DEF EntryIsNoOlder
      <3>4. at'[t] = "done" /\ began' = began /\ stamp' = stamp /\ built'[t] = cache.built
        BY <2>5 DEF LookUpHit, Goes, CacheTypeOK
      <3> QED
        BY <3>1, <3>3, <3>4
    <2>6. CASE LookUpMiss(t)
      <3>1. at[t] = "look up" /\ at'[t] = "read definition" /\ UNCHANGED <<stamp, built, began>>
        BY <2>6 DEF LookUpMiss, Goes, CacheTypeOK
      <3> QED
        BY <3>1
    <2>8. CASE ReadDefinition(t)
      <3>1. at[t] = "read definition" /\ at'[t] = "read meta" /\ UNCHANGED <<stamp, began>>
        BY <2>8 DEF ReadDefinition, Read, Goes, CacheTypeOK
      <3>2. f = "definition" => built'[t][f] = now[f]
        BY <2>8, Files, ReadWritten DEF ReadDefinition
      <3> QED
        BY <3>1, <3>2
    <2>9. CASE ReadMeta(t)
      <3>1. at[t] = "read meta" /\ at'[t] = "read parents" /\ UNCHANGED <<stamp, began>>
        BY <2>9 DEF ReadMeta, Read, Goes, CacheTypeOK
      <3>2. built'[t][f] = IF f = "meta" THEN now[f] ELSE built[t][f]
        BY <2>9, Files, ReadWritten DEF ReadMeta
      <3>3. f \in {"definition", "meta"}
        BY DEF Stamped
      <3> QED
        BY <3>1, <3>2, <3>3
    <2>10. CASE ReadParents(t)
      <3>1. at[t] = "read parents" /\ at'[t] = "insert" /\ UNCHANGED <<stamp, began>>
        BY <2>10 DEF ReadParents, Read, Goes, CacheTypeOK
      <3>2. built'[t][f] = built[t][f]
        BY <2>10, Files, ReadWritten DEF ReadParents, Stamped
      <3> QED
        BY <3>1, <3>2
    <2>11. CASE Insert(t)
      <3>1. at[t] = "insert" /\ at'[t] = "done" /\ UNCHANGED <<stamp, built, began>>
        BY <2>11 DEF Insert, Goes, CacheTypeOK
      <3> QED
        BY <3>1
    <2>12. CASE BuildFails(t)
      <3>1. at'[t] = "idle"
        BY <2>12 DEF BuildFails, Goes, CacheTypeOK
      <3> QED
        BY <3>1
    <2> QED
      BY <1>5, <2>1, <2>3, <2>4, <2>5, <2>6, <2>8, <2>9, <2>10, <2>11, <2>12 DEF Step
  <1> QED
    BY <1>4, <1>5

(* Only an insert makes an entry, of a layout read since it was stamped.   *)
LEMMA StepKeepsEntry ==
  ASSUME CacheTypeOK, EntryIsNoOlder, CallsAreNoOlder, NEW t \in Thread,
         Call(t) \/ Step(t) \/ BuildFails(t)
  PROVE  EntryIsNoOlder'
  <1>1. CASE Insert(t)
    <2>1. \A f \in Stamped : Between(stamp[t][f], built[t][f], now[f])
      BY <1>1 DEF CallsAreNoOlder, CallIsNoOlder, Aged, AfterRead, Insert, Goes
    <2> QED
      BY <1>1, <2>1 DEF Insert, StampOfEntry, EntryIsNoOlder
  <1>2. CASE ~Insert(t)
    <2>1. cache' = cache /\ now' = now
      BY <1>2 DEF Call, Step, BuildFails, StampDefinition, StampMeta, LookUpHit, LookUpMiss,
                  ReadDefinition, ReadMeta, ReadParents, Read
    <2> QED
      BY <2>1 DEF EntryIsNoOlder
  <1> QED
    BY <1>1, <1>2

(* A version a file has had is no younger than the file after a change.    *)
LEMMA ChangeKeepsAge ==
  ASSUME CacheTypeOK, EntryIsNoOlder, CallsAreNoOlder, NEW g \in File, Change(g)
  PROVE  EntryIsNoOlder' /\ CallsAreNoOlder'
  <1>1. \A f \in Stamped : now[f] \in Nat /\ now'[f] \in Nat /\ now[f] <= now'[f]
    BY DEF CacheTypeOK, Versions, Change, File, Stamped
  <1>2. cache # NoEntry => \A f \in Stamped : cache.built[f] \in Nat
    BY DEF CacheTypeOK, Versions, File
  <1>3. \A t \in Thread, f \in Stamped :
          stamp[t][f] \in Nat /\ built[t][f] \in Nat /\ began[t][f] \in Nat
    BY DEF CacheTypeOK, Versions, File
  <1>4. EntryIsNoOlder'
    BY <1>1, <1>2 DEF EntryIsNoOlder, Between, Change
  <1>5. CallsAreNoOlder'
    BY <1>1, <1>3 DEF CallsAreNoOlder, CallIsNoOlder, Aged, Between, Change
  <1> QED
    BY <1>4, <1>5

(* A guid is handed out as it is made, by a hit and by an insert.          *)
LEMMA NextKeepsGuids == CacheTypeOK /\ GuidsAreMade /\ CacheNext => GuidsAreMade'
  <1> SUFFICES ASSUME CacheTypeOK, GuidsAreMade, CacheNext PROVE GuidsAreMade'
    OBVIOUS
  <1>1. CASE guids' = guids /\ handed' = handed
    BY <1>1 DEF GuidsAreMade, GuidsDiffer
  <1>2. CASE guids' = guids + 1 /\ handed' = Append(handed, guids + 1)
    <2>1. handed \in Seq(Nat) /\ guids \in Nat
      BY DEF CacheTypeOK
    <2>2. /\ DOMAIN handed' = 1 .. Len(handed) + 1
          /\ handed'[Len(handed) + 1] = guids + 1
          /\ \A i \in DOMAIN handed : handed'[i] = handed[i] /\ handed[i] \in Nat /\ handed[i] <= guids
          /\ DOMAIN handed = 1 .. Len(handed) /\ Len(handed) \in Nat
      BY <1>2, <2>1 DEF GuidsAreMade
    <2> QED
      BY <1>2, <2>1, <2>2 DEF GuidsAreMade, GuidsDiffer
  <1> QED
    BY <1>1, <1>2 DEF CacheNext, Step, Call, BuildFails, StampDefinition, StampMeta, LookUpHit, GuidOfHit,
      LookUpMiss, ReadDefinition, ReadMeta, ReadParents, Read, Insert, Change

LEMMA NextCacheInv == CacheInv /\ [CacheNext]_cacheVars => CacheInv'
  <1> SUFFICES ASSUME CacheInv, [CacheNext]_cacheVars PROVE CacheInv'
    OBVIOUS
  <1> USE DEF CacheInv
  <1>1. CASE CacheNext
    <2>1. CacheTypeOK' /\ GuidsAreMade'
      BY <1>1, NextTypeOK, NextKeepsGuids
    <2>2. CASE \E t \in Thread : Call(t) \/ Step(t) \/ BuildFails(t)
      BY <2>1, <2>2, StepKeepsCalls, StepKeepsEntry DEF CallsAreNoOlder
    <2>3. CASE \E f \in File : Change(f)
      BY <2>1, <2>3, ChangeKeepsAge
    <2> QED
      BY <1>1, <2>2, <2>3 DEF CacheNext
  <1>2. CASE UNCHANGED cacheVars
    BY <1>2 DEF cacheVars, CacheTypeOK, EntryIsNoOlder, CallsAreNoOlder, CallIsNoOlder, GuidsAreMade, GuidsDiffer
  <1> QED
    BY <1>1, <1>2

THEOREM CacheInvHolds == CacheSpec => []CacheInv
  <1> QED
    BY InitCacheInv, NextCacheInv, PTL DEF CacheSpec

(* Whoever built it and whatever changed meanwhile, the layout a call      *)
(* returns is of a definition and a _meta.json no older than the call.     *)
THEOREM LayoutsAreOfTheCall == CacheSpec => []LayoutIsOfTheCall
  <1>1. CacheInv => LayoutIsOfTheCall
    BY DEF CacheInv, CallsAreNoOlder, CallIsNoOlder, Aged, Between, LayoutIsOfTheCall
  <1> QED
    BY <1>1, CacheInvHolds, PTL

(* No guid is handed out twice. *)
THEOREM GuidsNeverRepeat == CacheSpec => []GuidsDiffer
  <1>1. CacheInv => GuidsDiffer
    BY DEF CacheInv, GuidsAreMade
  <1> QED
    BY <1>1, CacheInvHolds, PTL
=============================================================================
