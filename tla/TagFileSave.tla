---------------------------- MODULE TagFileSave ----------------------------
(***************************************************************************)
(* Saving a tag file (file.rs TagFile::write and write_atomic).            *)
(*                                                                         *)
(* write truncates the target and writes what the tag encodes to.          *)
(* write_atomic writes it to a fresh temporary file beside the target,     *)
(* parses that file again, and only then copies it over the target.  The   *)
(* doc comment of write forbids it on the tag's own path, so here scratch  *)
(* paths are written with write and the others with write_atomic.  (The    *)
(* shell saves with write all the same: ShellSession models that.)         *)
(*                                                                         *)
(* A file is a sequence of parts.  Any number of calls may run at once, in *)
(* one process or in several; any system call may fail and any process may *)
(* die between two of them.                                                *)
(***************************************************************************)
EXTENDS Naturals, FiniteSets, Sequences

CONSTANTS
  Saver,       \* the calls that can run at once
  Process,     \* process ids
  ProcessOf,   \* the process each call runs in; ids may be reused
  Source,      \* tag paths, saved with write_atomic
  Scratch,     \* other paths, saved with write
  Tag,         \* the tags in memory
  BigEndian,   \* those that are MCC tags of big-endian field bytes
  Unreadable,  \* those whose encoding does not parse
  Parts,       \* the parts a file is written in
  Attempts,    \* the temporary names a save tries; 1000 in the code
  MaxFaults    \* bound on failed system calls and dead processes

ASSUME SaveAssumption ==
  /\ IsFiniteSet(Saver) /\ ProcessOf \in [Saver -> Process]
  /\ Source \cap Scratch = {}
  /\ Tag # {} /\ "none" \notin Tag
  /\ BigEndian \subseteq Tag /\ Unreadable \subseteq Tag
  /\ Parts \in Nat \ {0} /\ Attempts \in Nat \ {0} /\ MaxFaults \in Nat

VARIABLES
  target,  \* target[p]: the bytes at path p
  taken,   \* the temporary names that exist
  temp,    \* temp[n]: the bytes of temporary file n
  pc,      \* where each call stands
  job,     \* each call's path, tag, attempt and number of parts copied
  faults

vars == <<target, taken, temp, pc, job, faults>>

Path == Source \cup Scratch
Resting == {"idle", "err"}

(* The states in which a call has a temporary file of its own.             *)
Holding == {"fill", "verify", "commit", "copy", "remove", "clean"}

Part(t, n) == [tag |-> t, part |-> n]
Hole == [tag |-> "none", part |-> 0]
Bytes == Seq([tag : Tag, part : 1..Parts] \cup {Hole})

(* What a tag encodes to, and the files a reader parses.                   *)
Whole(t) == [n \in 1..Parts |-> Part(t, n)]
Parses(bytes) == \E t \in Tag \ Unreadable : bytes = Whole(t)

(* A write at offset k, past the end if the file was truncated meanwhile.  *)
WriteAt(bytes, k, x) ==
  [i \in 1..(IF k < Len(bytes) THEN Len(bytes) ELSE k + 1) |->
     IF i = k + 1 THEN x ELSE IF i <= Len(bytes) THEN bytes[i] ELSE Hole]

TempName == [path : Source, process : Process, attempt : 0..(Attempts - 1)]
Name(s) ==
  [path |-> job[s].path, process |-> ProcessOf[s], attempt |-> job[s].attempt]

Goto(s, where) == pc' = [pc EXCEPT ![s] = where]

(* A call that returned has no locals; only its path is remembered.        *)
AnyTag == CHOOSE t \in Tag : TRUE
Rest(j) == [path |-> j.path, tag |-> AnyTag, attempt |-> 0, done |-> 0]
Return(s, where) == Goto(s, where) /\ job' = [job EXCEPT ![s] = Rest(@)]
-----------------------------------------------------------------------------
Call(s) ==
  /\ pc[s] \in Resting
  /\ \E p \in Path, t \in Tag :
       /\ job' = [job EXCEPT ![s] = [path |-> p, tag |-> t, attempt |-> 0, done |-> 0]]
       /\ Goto(s, IF p \in Source THEN "open" ELSE "create")
  /\ UNCHANGED <<target, taken, temp, faults>>

(***************************************************************************)
(* write: the target is truncated before the tag is encoded, and only      *)
(* write_to_bytes refuses a big-endian tag.                                *)
(***************************************************************************)
Create(s) ==
  /\ pc[s] = "create"
  /\ target' = [target EXCEPT ![job[s].path] = <<>>]
  /\ \/ job[s].tag \in BigEndian /\ Return(s, "err")
     \/ job[s].tag \notin BigEndian /\ Goto(s, "put") /\ UNCHANGED job
  /\ UNCHANGED <<taken, temp, faults>>

Put(s) ==
  /\ pc[s] = "put"
  /\ LET p == job[s].path
         k == job[s].done
     IN  IF k < Parts
         THEN /\ target' = [target EXCEPT ![p] = WriteAt(@, k, Part(job[s].tag, k + 1))]
              /\ job' = [job EXCEPT ![s].done = k + 1]
              /\ UNCHANGED pc
         ELSE Return(s, "idle") /\ UNCHANGED target
  /\ UNCHANGED <<taken, temp, faults>>
-----------------------------------------------------------------------------
(***************************************************************************)
(* create_save_temp_file: create_new fails on a name that exists, and the  *)
(* next number is tried.                                                   *)
(***************************************************************************)
OpenTempTruncating(s) ==   \* mutant: open with create, not create_new
  /\ pc[s] = "open"
  /\ taken' = taken \cup {Name(s)}
  /\ temp' = [temp EXCEPT ![Name(s)] = <<>>]
  /\ Goto(s, "fill")
  /\ UNCHANGED <<target, job, faults>>

OpenTempSameName(s) ==     \* mutant: the same name is tried again
  /\ pc[s] = "open"
  /\ IF Name(s) \in taken
     THEN UNCHANGED <<taken, temp, pc>>
     ELSE /\ taken' = taken \cup {Name(s)}
          /\ temp' = [temp EXCEPT ![Name(s)] = <<>>]
          /\ Goto(s, "fill")
  /\ UNCHANGED <<target, job, faults>>

OpenTemp(s) ==
  /\ pc[s] = "open"
  /\ \/ /\ Name(s) \notin taken
        /\ taken' = taken \cup {Name(s)}
        /\ temp' = [temp EXCEPT ![Name(s)] = <<>>]
        /\ Goto(s, "fill")
        /\ UNCHANGED job
     \/ /\ Name(s) \in taken
        /\ job[s].attempt + 1 < Attempts
        /\ job' = [job EXCEPT ![s].attempt = @ + 1]
        /\ UNCHANGED <<taken, temp, pc>>
     \/ /\ Name(s) \in taken
        /\ job[s].attempt + 1 = Attempts
        /\ Return(s, "err")
        /\ UNCHANGED <<taken, temp>>
  /\ UNCHANGED <<target, faults>>

(* write_atomic_bytes, written through a buffer, flushed and synced.       *)
Fill(s) ==
  /\ pc[s] = "fill"
  /\ LET n == Name(s)
     IN  IF Len(temp[n]) < Parts
         THEN /\ temp' = [temp EXCEPT ![n] = Append(@, Part(job[s].tag, Len(@) + 1))]
              /\ UNCHANGED pc
         ELSE Goto(s, "verify") /\ UNCHANGED temp
  /\ UNCHANGED <<target, taken, job, faults>>

VerifySkipped(s) ==        \* mutant: the temporary file is not parsed
  /\ pc[s] = "verify"
  /\ Goto(s, "commit")
  /\ UNCHANGED <<target, taken, temp, job, faults>>

Verify(s) ==
  /\ pc[s] = "verify"
  /\ Goto(s, IF Parses(temp[Name(s)]) THEN "commit" ELSE "clean")
  /\ UNCHANGED <<target, taken, temp, job, faults>>

(***************************************************************************)
(* commit_temp_file: fs::copy truncates the target and fills it part by    *)
(* part, then the temporary file is removed.                               *)
(***************************************************************************)
CommitOpen(s) ==
  /\ pc[s] = "commit"
  /\ target' = [target EXCEPT ![job[s].path] = <<>>]
  /\ Goto(s, "copy")
  /\ UNCHANGED <<taken, temp, job, faults>>

CopyPart(s) ==
  /\ pc[s] = "copy"
  /\ LET p == job[s].path
         k == job[s].done
         n == Name(s)
     IN  IF k < Len(temp[n])
         THEN /\ target' = [target EXCEPT ![p] = WriteAt(@, k, temp[n][k + 1])]
              /\ job' = [job EXCEPT ![s].done = k + 1]
              /\ UNCHANGED pc
         ELSE Goto(s, "remove") /\ UNCHANGED <<target, job>>
  /\ UNCHANGED <<taken, temp, faults>>

CleanKept(s) ==            \* mutant: a failed save keeps its temporary file
  /\ pc[s] \in {"remove", "clean"}
  /\ taken' = IF pc[s] = "remove" THEN taken \ {Name(s)} ELSE taken
  /\ Return(s, IF pc[s] = "remove" THEN "idle" ELSE "err")
  /\ UNCHANGED <<target, temp, faults>>

(* The temporary file is removed after the copy or after any failure.      *)
Clean(s) ==
  /\ pc[s] \in {"remove", "clean"}
  /\ taken' = taken \ {Name(s)}
  /\ temp' = [temp EXCEPT ![Name(s)] = <<>>]
  /\ Return(s, IF pc[s] = "remove" THEN "idle" ELSE "err")
  /\ UNCHANGED <<target, faults>>
-----------------------------------------------------------------------------
(***************************************************************************)
(* A system call fails.  The failure of a removal is ignored, and so is    *)
(* that of write's last flush, which happens as its buffer is dropped.     *)
(***************************************************************************)
Fail(s) ==
  /\ faults < MaxFaults /\ faults' = faults + 1
  /\ \/ pc[s] \in {"fill", "verify", "commit", "copy"} /\ Goto(s, "clean") /\ UNCHANGED job
     \/ pc[s] \in {"put", "remove"} /\ Return(s, "idle")
     \/ pc[s] \in {"create", "put", "open", "clean"} /\ Return(s, "err")
  /\ UNCHANGED <<target, taken, temp>>

(* A process dies with all its calls; its files stay.                      *)
Die(x) ==
  LET dead == {s \in Saver : ProcessOf[s] = x /\ pc[s] \notin Resting}
  IN  /\ dead # {}
      /\ faults + Cardinality(dead) <= MaxFaults
      /\ faults' = faults + Cardinality(dead)
      /\ pc' = [s \in Saver |-> IF s \in dead THEN "idle" ELSE pc[s]]
      /\ job' = [s \in Saver |-> IF s \in dead THEN Rest(job[s]) ELSE job[s]]
      /\ UNCHANGED <<target, taken, temp>>

Init ==
  /\ target \in [Path -> {Whole(t) : t \in Tag \ (Unreadable \cup BigEndian)}]
  /\ taken = {}
  /\ temp = [n \in TempName |-> <<>>]
  /\ pc = [s \in Saver |-> "idle"]
  /\ \E p \in Path : job = [s \in Saver |-> Rest([path |-> p])]
  /\ faults = 0

Step(s) ==
  \/ Create(s) \/ Put(s)
  \/ OpenTemp(s) \/ Fill(s) \/ Verify(s) \/ CommitOpen(s) \/ CopyPart(s) \/ Clean(s)

Next ==
  \/ \E s \in Saver : Call(s) \/ Step(s) \/ Fail(s)
  \/ \E x \in Process : Die(x)

Spec == Init /\ [][Next]_vars

(* A call that runs goes on until it returns, unless its process dies.     *)
FairSpec == Spec /\ \A s \in Saver : WF_vars(Step(s))
-----------------------------------------------------------------------------
TypeOK ==
  /\ target \in [Path -> Bytes]
  /\ taken \subseteq TempName
  /\ temp \in [TempName -> Bytes]
  /\ pc \in [Saver -> Resting \cup Holding \cup {"create", "put", "open"}]
  /\ job \in [Saver -> [path : Path, tag : Tag, attempt : 0..(Attempts - 1), done : 0..Parts]]
  /\ faults \in 0..MaxFaults

(***************************************************************************)
(* create_save_temp_file: a "unique temp save path".  Two calls that run   *)
(* at once never write to one temporary file, whatever earlier calls left  *)
(* behind.                                                                 *)
(***************************************************************************)
TempsAreApart ==
  \A s, u \in Saver :
    s # u /\ pc[s] \in Holding /\ pc[u] \in Holding => Name(s) # Name(u)

(***************************************************************************)
(* write_atomic's comment: "a bad encode never clobbers the tag already on *)
(* disk".  Not a part of an encoding that does not parse ever reaches a    *)
(* tag path, whatever runs beside it, fails or dies.                       *)
(***************************************************************************)
BadEncodeNeverLands ==
  \A p \in Source : \A i \in DOMAIN target[p] : target[p][i].tag \notin Unreadable

(* The invariant of the proof: a call's temporary file exists and nobody   *)
(* else writes it, so that what was verified is what is copied.            *)
PathsOK ==
  \A s \in Saver :
    /\ pc[s] \in Holding \cup {"open"} => job[s].path \in Source
    /\ pc[s] \in {"create", "put"} => job[s].path \in Scratch

Owned == \A s \in Saver : pc[s] \in Holding => Name(s) \in taken

Verified ==
  \A s \in Saver : pc[s] \in {"commit", "copy", "remove"} => Parses(temp[Name(s)])

SaveInv ==
  /\ TypeOK /\ PathsOK
  /\ Owned /\ TempsAreApart
  /\ Verified /\ BadEncodeNeverLands

(***************************************************************************)
(* write_atomic removes its temporary file however it returns: files that  *)
(* no running call owns are no more than there were faults.                *)
(***************************************************************************)
LeftoversNeedFaults ==
  Cardinality({n \in taken : \A s \in Saver : pc[s] \in Holding => Name(s) # n}) <= faults

(* Every call returns or its process dies, however many names are taken.   *)
SaveReturns == \A s \in Saver : pc[s] \notin Resting ~> pc[s] \in Resting

(***************************************************************************)
(* write_atomic's comment: "Leaves the original untouched on any failure". *)
(* A save that failed leaves a whole tag at its path (the code copies over *)
(* the target, and a copy can fail half way).                              *)
(***************************************************************************)
FailureLeavesATag ==
  \A s \in Saver :
    pc[s] = "err" /\ job[s].path \in Source => \E t \in Tag : target[job[s].path] = Whole(t)
=============================================================================
