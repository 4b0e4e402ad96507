---------------------------- MODULE LayoutCache -----------------------------
(***************************************************************************)
(* The process-wide cache of layouts (schema.rs; convert/mod.rs keeps its  *)
(* alias tables by the same scheme), at the key of one definition.  The    *)
(* definition, the _meta.json beside it and the definitions it inherits    *)
(* from change while threads ask for the layout; a build reads them one    *)
(* after another, and only the first two are in the stamp.                 *)
(***************************************************************************)
EXTENDS Naturals, Sequences

CONSTANTS
  Thread,
  MaxCalls,   \* bound: calls begun
  MaxChanges  \* bound: changes of each file

Stamped == {"definition", "meta"}
File == Stamped \cup {"parents"}

VARIABLES
  now,     \* the version of each file
  cache,   \* the cached stamp, versions built from and guid, or NoEntry
  at,      \* where each thread's call is
  stamp,   \* the versions in the stamp it took
  built,   \* the versions its layout was built from
  began,   \* history: the versions there were when the call began
  guids,   \* guids made
  handed   \* history: the guids of the layouts that calls returned

cacheVars == <<now, cache, at, stamp, built, began, guids, handed>>

NoEntry == [guid |-> 0]
Unread == [f \in File |-> 0]

CacheInit ==
  /\ now = [f \in File |-> 1]
  /\ cache = NoEntry
  /\ at = [t \in Thread |-> "idle"]
  /\ stamp = [t \in Thread |-> Unread]
  /\ built = [t \in Thread |-> Unread]
  /\ began = [t \in Thread |-> Unread]
  /\ guids = 0 /\ handed = <<>>

-----------------------------------------------------------------------------
(* A call of from_json_with_meta *)

Goes(t, from, to) == at[t] = from /\ at' = [at EXCEPT ![t] = to]

Call(t) ==
  /\ at[t] \in {"idle", "done"} /\ Len(handed) < MaxCalls
  /\ at' = [at EXCEPT ![t] = "stamp definition"]
  /\ began' = [began EXCEPT ![t] = now]
  /\ stamp' = [stamp EXCEPT ![t] = Unread]
  /\ built' = [built EXCEPT ![t] = Unread]
  /\ UNCHANGED <<now, cache, guids, handed>>

(* definition_stamp: size and modification time, one file at a time.       *)
Stamp(t, f) == stamp' = [stamp EXCEPT ![t][f] = now[f]]

StampDefinition(t) ==
  /\ Goes(t, "stamp definition", "stamp meta")
  /\ Stamp(t, "definition")
  /\ UNCHANGED <<now, cache, built, began, guids, handed>>

StampMeta(t) ==
  /\ Goes(t, "stamp meta", "look up")
  /\ Stamp(t, "meta")
  /\ UNCHANGED <<now, cache, built, began, guids, handed>>

(* Mutants: an entry is used whatever its stamp; it keeps its guid.        *)
HitAny(t) == cache # NoEntry
GuidKept == cache.guid

Hit(t) == cache # NoEntry /\ cache.stamp = stamp[t]
GuidOfHit == guids + 1

(* A hit is a copy of the entry with a guid of its own.                    *)
LookUpHit(t) ==
  /\ Goes(t, "look up", "done")
  /\ Hit(t)
  /\ built' = [built EXCEPT ![t] = cache.built]
  /\ guids' = guids + 1 /\ handed' = Append(handed, GuidOfHit)
  /\ UNCHANGED <<now, cache, stamp, began>>

LookUpMiss(t) ==
  /\ Goes(t, "look up", "read definition")
  /\ ~Hit(t)
  /\ UNCHANGED <<now, cache, stamp, built, began, guids, handed>>

(* The build reads the definition, then _meta.json, then its parents.      *)
Read(t, f) ==
  /\ built' = [built EXCEPT ![t][f] = now[f]]
  /\ UNCHANGED <<now, cache, stamp, began, guids, handed>>

ReadDefinition(t) == Goes(t, "read definition", "read meta") /\ Read(t, "definition")
ReadMeta(t) == Goes(t, "read meta", "read parents") /\ Read(t, "meta")
ReadParents(t) == Goes(t, "read parents", "insert") /\ Read(t, "parents")

(* Mutant: the entry is stamped when it is made.                           *)
StampAtInsert(t) == [f \in File |-> IF f \in Stamped THEN now[f] ELSE 0]

StampOfEntry(t) == stamp[t]

Insert(t) ==
  /\ Goes(t, "insert", "done")
  /\ cache' = [stamp |-> StampOfEntry(t), built |-> built[t], guid |-> guids + 1]
  /\ guids' = guids + 1 /\ handed' = Append(handed, guids + 1)
  /\ UNCHANGED <<now, stamp, built, began>>

(* A definition that is not there or does not parse: nothing is cached.    *)
BuildFails(t) ==
  /\ Goes(t, "read definition", "idle")
  /\ UNCHANGED <<now, cache, stamp, built, began, guids, handed>>

(* Someone writes a file; its size or its modification time changes.       *)
Change(f) ==
  /\ now[f] <= MaxChanges
  /\ now' = [now EXCEPT ![f] = @ + 1]
  /\ UNCHANGED <<cache, at, stamp, built, began, guids, handed>>

Step(t) ==
  \/ StampDefinition(t) \/ StampMeta(t) \/ LookUpHit(t) \/ LookUpMiss(t)
  \/ ReadDefinition(t) \/ ReadMeta(t) \/ ReadParents(t) \/ Insert(t)

CacheNext ==
  \/ \E t \in Thread : Call(t) \/ Step(t) \/ BuildFails(t)
  \/ \E f \in File : Change(f)

CacheSpec == CacheInit /\ [][CacheNext]_cacheVars

-----------------------------------------------------------------------------
(* Properties *)

Places == {"idle", "stamp definition", "stamp meta", "look up", "read definition",
           "read meta", "read parents", "insert", "done"}
Versions == [File -> Nat]

CacheTypeOK ==
  /\ now \in Versions
  /\ cache = NoEntry \/ cache \in [stamp : Versions, built : Versions, guid : Nat]
  /\ at \in [Thread -> Places]
  /\ stamp \in [Thread -> Versions]
  /\ built \in [Thread -> Versions]
  /\ began \in [Thread -> Versions]
  /\ guids \in Nat
  /\ handed \in Seq(Nat)

(* The layout a call returns was built from a definition and a _meta.json  *)
(* no older than the call, whoever built it: files change between a stamp  *)
(* and the reads after it, calls overtake each other, and the entry of the *)
(* one that inserts last stays.  (Parents can be older: they have no stamp.)*)
LayoutIsOfTheCall ==
  \A t \in Thread : at[t] = "done" =>
    \A f \in Stamped : began[t][f] <= built[t][f] /\ built[t][f] <= now[f]

(* No two calls return layouts with one guid, though hits copy an entry    *)
(* whose own guid its builder has already returned.                        *)
GuidsDiffer == \A i, j \in DOMAIN handed : handed[i] = handed[j] => i = j
=============================================================================
