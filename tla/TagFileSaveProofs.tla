------------------------- MODULE TagFileSaveProofs -------------------------
(***************************************************************************)
(* The save path, for any number of calls, processes, tags and faults: the *)
(* invariant SaveInv, and what follows from it.                            *)
(***************************************************************************)
EXTENDS TagFileSave, FiniteSetTheorems, TLAPS

(* A write at an offset keeps the parts that were there, adds x and may    *)
(* leave holes.                                                            *)
LEMMA WriteAtParts ==
  ASSUME NEW T, Hole \in T, NEW bytes \in Seq(T), NEW k \in Nat, NEW x \in T
  PROVE  WriteAt(bytes, k, x) \in Seq(T)
<1> DEFINE n == IF k < Len(bytes) THEN Len(bytes) ELSE k + 1
<1>1. n \in Nat  BY SMT
<1>2. \A i \in 1..n :
        (IF i = k + 1 THEN x ELSE IF i <= Len(bytes) THEN bytes[i] ELSE Hole) \in T
  BY SMT
<1>3. QED  BY <1>1, <1>2, SMT DEF WriteAt

(* A file of readable parts.                                               *)
Readable == Seq([tag : Tag \ Unreadable, part : 1..Parts] \cup {Hole})

LEMMA ReadableIsBytes == ASSUME NEW b \in Readable PROVE b \in Bytes
BY SMT DEF Readable, Bytes

LEMMA ReadableParts ==
  ASSUME NEW b \in Bytes
  PROVE  b \in Readable <=> \A i \in DOMAIN b : b[i].tag \notin Unreadable
<1>1. Hole.tag \notin Unreadable  BY SaveAssumption DEF Hole
<1>2. ASSUME b \in Readable, NEW i \in DOMAIN b PROVE b[i].tag \notin Unreadable
  <2>1. b[i] \in [tag : Tag \ Unreadable, part : 1..Parts] \cup {Hole}
    BY <1>2, SMT DEF Readable
  <2>2. QED  BY <1>1, <2>1
<1>3. ASSUME \A i \in DOMAIN b : b[i].tag \notin Unreadable PROVE b \in Readable
  <2>1. ASSUME NEW i \in DOMAIN b
        PROVE  b[i] \in [tag : Tag \ Unreadable, part : 1..Parts] \cup {Hole}
    <3>1. b[i] \in [tag : Tag, part : 1..Parts] \cup {Hole}  BY SMT DEF Bytes
    <3>2. b[i].tag \notin Unreadable  BY <1>3
    <3>3. QED  BY <3>1, <3>2, SMT
  <2>2. QED  BY <2>1, SMT DEF Readable, Bytes
<1>4. QED  BY <1>2, <1>3

(* A file that parses is whole and has readable parts only.                *)
LEMMA ParsesParts ==
  ASSUME NEW b, Parses(b)
  PROVE  b \in Readable /\ Len(b) = Parts
<1>1. PICK t \in Tag \ Unreadable : b = Whole(t)  BY DEF Parses
<1>2. \A n \in 1..Parts : Part(t, n) \in [tag : Tag \ Unreadable, part : 1..Parts]
  BY SMT DEF Part
<1>3. QED  BY <1>1, <1>2, SaveAssumption, SMT DEF Whole, Readable
-----------------------------------------------------------------------------
Job == [path : Path, tag : Tag, attempt : 0..(Attempts - 1), done : 0..Parts]
Where == Resting \cup Holding \cup {"create", "put", "open"}

LEMMA AnyTagType == AnyTag \in Tag
BY SaveAssumption DEF AnyTag

LEMMA RestType == ASSUME NEW j, j.path \in Path PROVE Rest(j) \in Job
BY AnyTagType, SaveAssumption, SMT DEF Rest, Job

LEMMA NameType ==
  ASSUME SaveInv, NEW s \in Saver, pc[s] \in Holding \cup {"open"}
  PROVE  Name(s) \in TempName
<1>1. job[s] \in Job  BY DEF SaveInv, TypeOK, Job
<1>2. job[s].path \in Source  BY DEF SaveInv, PathsOK
<1>3. job[s].attempt \in 0..(Attempts - 1)  BY <1>1 DEF Job
<1>4. QED  BY <1>2, <1>3, SaveAssumption DEF Name, TempName

(* A step of one call that leaves the temporary files alone: it writes     *)
(* readable parts to tag paths only, keeps its name while it holds a file, *)
(* and goes on to copy only what parses.                                   *)
LEMMA MoveInv ==
  ASSUME SaveInv, NEW s \in Saver, NEW w \in Where, NEW j \in Job,
         pc' = [pc EXCEPT ![s] = w],
         job' = [job EXCEPT ![s] = j],
         taken' = taken, temp' = temp, faults' \in 0..MaxFaults,
         target' \in [Path -> Bytes],
         \A p \in Source : \A i \in DOMAIN target'[p] : target'[p][i].tag \notin Unreadable,
         w \in Holding \cup {"open"} => j.path \in Source,
         w \in {"create", "put"} => j.path \in Scratch,
         w \in Holding =>
           pc[s] \in Holding /\ j.path = job[s].path /\ j.attempt = job[s].attempt,
         w \in {"commit", "copy", "remove"} => Parses(temp[Name(s)])
  PROVE  SaveInv'
<1>1. /\ pc \in [Saver -> Where] /\ job \in [Saver -> Job]
      /\ temp \in [TempName -> Bytes] /\ taken \subseteq TempName
  BY DEF SaveInv, TypeOK, Where, Job
<1>2. pc' \in [Saver -> Where] /\ job' \in [Saver -> Job]  BY <1>1
<1>3. TypeOK'  BY <1>1, <1>2 DEF TypeOK, Where, Job
<1>4. \A u \in Saver : u # s => pc'[u] = pc[u] /\ job'[u] = job[u] /\ Name(u)' = Name(u)
  BY <1>1 DEF Name
<1>5. pc'[s] = w /\ job'[s] = j  BY <1>1
<1>6. w \in Holding => Name(s)' = Name(s)  BY <1>5 DEF Name
<1>7. PathsOK'  BY <1>4, <1>5 DEF SaveInv, PathsOK
<1>8. Owned'
  <2>1. ASSUME NEW u \in Saver, pc'[u] \in Holding PROVE Name(u)' \in taken
    BY <1>4, <1>5, <1>6, <2>1 DEF SaveInv, Owned
  <2>2. QED  BY <2>1 DEF Owned
<1>9. TempsAreApart'
  <2>1. ASSUME NEW u \in Saver, NEW v \in Saver, u # v,
               pc'[u] \in Holding, pc'[v] \in Holding
        PROVE  Name(u)' # Name(v)'
    <3>1. pc[u] \in Holding /\ pc[v] \in Holding  BY <1>4, <1>5, <2>1
    <3>2. Name(u)' = Name(u) /\ Name(v)' = Name(v)  BY <1>4, <1>5, <1>6, <2>1
    <3>3. QED  BY <2>1, <3>1, <3>2 DEF SaveInv, TempsAreApart
  <2>2. QED  BY <2>1 DEF TempsAreApart
<1>10. Verified'
  <2>1. ASSUME NEW u \in Saver, pc'[u] \in {"commit", "copy", "remove"}
        PROVE  Parses(temp[Name(u)'])
    <3>1. CASE u = s  BY <1>5, <1>6, <2>1, <3>1 DEF Holding
    <3>2. CASE u # s  BY <1>4, <2>1, <3>2 DEF SaveInv, Verified
    <3>3. QED  BY <3>1, <3>2
  <2>2. QED  BY <2>1 DEF Verified, Parses
<1>11. BadEncodeNeverLands'  BY DEF BadEncodeNeverLands
<1>12. QED  BY <1>3, <1>7, <1>8, <1>9, <1>10, <1>11 DEF SaveInv
-----------------------------------------------------------------------------
(* What a step of one call finds.                                          *)
LEMMA StepFacts ==
  ASSUME SaveInv, NEW s \in Saver
  PROVE  /\ target \in [Path -> Bytes] /\ temp \in [TempName -> Bytes]
         /\ pc \in [Saver -> Where] /\ job \in [Saver -> Job]
         /\ job[s].path \in Path /\ job[s].tag \in Tag
         /\ faults \in 0..MaxFaults
         /\ Rest(job[s]) \in Job /\ Rest(job[s]).path = job[s].path
         /\ job = [job EXCEPT ![s] = job[s]]
         /\ \A p \in Source : \A i \in DOMAIN target[p] : target[p][i].tag \notin Unreadable
<1>1. /\ target \in [Path -> Bytes] /\ temp \in [TempName -> Bytes]
      /\ pc \in [Saver -> Where] /\ job \in [Saver -> Job] /\ faults \in 0..MaxFaults
  BY DEF SaveInv, TypeOK, Where, Job
<1>2. job[s].path \in Path /\ job[s].tag \in Tag  BY <1>1 DEF Job
<1>3. Rest(job[s]) \in Job /\ Rest(job[s]).path = job[s].path  BY <1>2, RestType DEF Rest
<1>4. job = [job EXCEPT ![s] = job[s]]  BY <1>1
<1>5. QED  BY <1>1, <1>2, <1>3, <1>4 DEF SaveInv, BadEncodeNeverLands

(* Putting a file at a path; a readable one at a tag path.                 *)
LEMMA PutFile ==
  ASSUME SaveInv, NEW p \in Path, NEW b \in Bytes, p \in Source => b \in Readable,
         target' = [target EXCEPT ![p] = b]
  PROVE  /\ target' \in [Path -> Bytes]
         /\ \A q \in Source : \A i \in DOMAIN target'[q] : target'[q][i].tag \notin Unreadable
<1>1. target \in [Path -> Bytes]  BY DEF SaveInv, TypeOK
<1>2. target' \in [Path -> Bytes]  BY <1>1
<1>3. ASSUME NEW q \in Source, NEW i \in DOMAIN target'[q]
      PROVE  target'[q][i].tag \notin Unreadable
  <2>1. q \in Path  BY DEF Path
  <2>2. CASE q = p
    <3>1. target'[q] = b  BY <1>1, <2>2
    <3>2. QED  BY <1>3, <2>2, <3>1, ReadableParts
  <2>3. CASE q # p
    <3>1. target'[q] = target[q]  BY <1>1, <2>1, <2>3
    <3>2. QED  BY <1>3, <3>1 DEF SaveInv, BadEncodeNeverLands
  <2>4. QED  BY <2>2, <2>3
<1>4. QED  BY <1>2, <1>3

LEMMA EmptyFile == <<>> \in Readable /\ <<>> \in Bytes
BY SMT DEF Readable, Bytes

(* The same of the whole state.                                            *)
LEMMA TypeFacts ==
  ASSUME SaveInv
  PROVE  faults \in 0..MaxFaults /\ job \in [Saver -> Job]
BY DEF SaveInv, TypeOK, Job

LEMMA CallStep == ASSUME SaveInv, NEW s \in Saver, Call(s) PROVE SaveInv'
<1>1. PICK p \in Path, t \in Tag :
        /\ job' = [job EXCEPT ![s] = [path |-> p, tag |-> t, attempt |-> 0, done |-> 0]]
        /\ Goto(s, IF p \in Source THEN "open" ELSE "create")
  BY DEF Call
<1> DEFINE w == IF p \in Source THEN "open" ELSE "create"
           j == [path |-> p, tag |-> t, attempt |-> 0, done |-> 0]
<1>2. j \in Job  BY SaveAssumption, SMT DEF Job
<1>3. w \in Where /\ w \notin Holding  BY DEF Where, Holding
<1>4. w \in Holding \cup {"open"} => j.path \in Source  BY DEF Holding
<1>5. w \in {"create", "put"} => j.path \in Scratch  BY DEF Path
<1>6. pc' = [pc EXCEPT ![s] = w] /\ job' = [job EXCEPT ![s] = j]  BY <1>1 DEF Goto
<1>7. target' = target /\ taken' = taken /\ temp' = temp /\ faults' = faults  BY DEF Call
<1> HIDE DEF w, j
<1>8. w \notin {"commit", "copy", "remove"}  BY <1>3 DEF Holding
<1>9. QED  BY <1>2, <1>3, <1>4, <1>5, <1>6, <1>7, <1>8, StepFacts, MoveInv

(* A return: the call rests, its path remembered.                          *)
LEMMA ReturnInv ==
  ASSUME SaveInv, NEW s \in Saver, NEW w \in Resting, Return(s, w),
         taken' = taken, temp' = temp, faults' \in 0..MaxFaults,
         target' \in [Path -> Bytes],
         \A p \in Source : \A i \in DOMAIN target'[p] : target'[p][i].tag \notin Unreadable
  PROVE  SaveInv'
<1>1. /\ pc' = [pc EXCEPT ![s] = w]
      /\ job' = [job EXCEPT ![s] = Rest(job[s])]
  BY StepFacts DEF Return, Goto
<1>2. w \in Where /\ w \notin Holding /\ w \notin {"open", "create", "put"}
  BY DEF Where, Resting, Holding
<1>3. w \notin {"commit", "copy", "remove"}  BY <1>2 DEF Holding
<1>4. QED  BY <1>1, <1>2, <1>3, StepFacts, MoveInv
-----------------------------------------------------------------------------
LEMMA WriteSteps ==
  ASSUME SaveInv, NEW s \in Saver, Create(s) \/ Put(s) PROVE SaveInv'
<1> DEFINE p == job[s].path
<1>1. p \in Scratch /\ p \in Path /\ p \notin Source
  BY SaveAssumption DEF Create, Put, SaveInv, PathsOK, Path
<1>2. CASE Create(s)
  <2>1. /\ target' \in [Path -> Bytes]
        /\ \A q \in Source : \A i \in DOMAIN target'[q] : target'[q][i].tag \notin Unreadable
    BY <1>1, <1>2, EmptyFile, PutFile DEF Create
  <2>2. taken' = taken /\ temp' = temp /\ faults' = faults  BY <1>2 DEF Create
  <2>3. CASE Return(s, "err")
    BY <2>1, <2>2, <2>3, StepFacts, ReturnInv DEF Resting
  <2>4. CASE Goto(s, "put") /\ UNCHANGED job
    <3>1. pc' = [pc EXCEPT ![s] = "put"] /\ job' = [job EXCEPT ![s] = job[s]]
      BY <2>4, StepFacts DEF Goto
    <3>2. "put" \in Where /\ "put" \notin Holding \cup {"open", "commit", "copy", "remove"}
      BY DEF Where, Holding
    <3>3. job[s] \in Job  BY StepFacts
    <3>4. QED  BY <1>1, <2>1, <2>2, <3>1, <3>2, <3>3, StepFacts, MoveInv
  <2>5. QED  BY <1>2, <2>3, <2>4 DEF Create
<1>3. CASE Put(s)
  <2>1. taken' = taken /\ temp' = temp /\ faults' = faults  BY <1>3 DEF Put
  <2>2. CASE job[s].done < Parts
    <3> DEFINE k == job[s].done
               j == [job[s] EXCEPT !.done = k + 1]
               b == WriteAt(target[p], k, Part(job[s].tag, k + 1))
    <3>1. target' = [target EXCEPT ![p] = b] /\ job' = [job EXCEPT ![s] = j] /\ pc' = pc
      BY <1>3, <2>2, StepFacts, SMT DEF Put
    <3>2. k \in Nat /\ k + 1 \in 1..Parts
      BY <2>2, StepFacts, SaveAssumption, SMT DEF Job
    <3>3. Part(job[s].tag, k + 1) \in [tag : Tag, part : 1..Parts]
      BY <3>2, StepFacts DEF Part
    <3>4. b \in Bytes  BY <1>1, <3>2, <3>3, StepFacts, WriteAtParts DEF Bytes
    <3>5. j \in Job /\ j.path = p
      BY <3>2, StepFacts, SaveAssumption, SMT DEF Job
    <3>6. pc[s] = "put" /\ pc' = [pc EXCEPT ![s] = "put"]
      BY <1>3, <3>1, StepFacts DEF Put
    <3>7. "put" \in Where /\ "put" \notin Holding \cup {"open", "commit", "copy", "remove"}
      BY DEF Where, Holding
    <3> HIDE DEF k, j, b
    <3>8. /\ target' \in [Path -> Bytes]
          /\ \A q \in Source : \A i \in DOMAIN target'[q] : target'[q][i].tag \notin Unreadable
      BY <1>1, <3>1, <3>4, PutFile
    <3>9. QED  BY <1>1, <2>1, <3>1, <3>5, <3>6, <3>7, <3>8, StepFacts, MoveInv
  <2>3. CASE ~(job[s].done < Parts)
    <3>1. Return(s, "idle") /\ target' = target  BY <1>3, <2>3 DEF Put
    <3>2. QED  BY <2>1, <3>1, StepFacts, ReturnInv DEF Resting
  <2>4. QED  BY <2>2, <2>3
<1>4. QED  BY <1>2, <1>3
-----------------------------------------------------------------------------
(* A temporary file that no other call owns changes.                       *)
LEMMA TempInv ==
  ASSUME SaveInv, NEW s \in Saver, pc[s] \in Holding \cup {"open"},
         NEW b \in Bytes, temp' = [temp EXCEPT ![Name(s)] = b],
         pc' = [pc EXCEPT ![s] = "fill"], job' = job,
         taken' = taken \cup {Name(s)},
         pc[s] = "open" => Name(s) \notin taken,
         target' = target, faults' = faults
  PROVE  SaveInv'
<1>1. Name(s) \in TempName /\ "fill" \in Where /\ "fill" \in Holding
  BY NameType DEF Where, Holding
<1>2. /\ \A u \in Saver : Name(u)' = Name(u)
      /\ \A u \in Saver : u # s => pc'[u] = pc[u]
      /\ pc'[s] = "fill"
  BY StepFacts DEF Name
<1>3. TypeOK'
  BY <1>1, StepFacts DEF SaveInv, TypeOK, Where
<1>4. PathsOK'
  <2>1. job[s].path \in Source  BY DEF SaveInv, PathsOK
  <2>2. QED  BY <1>2, <2>1 DEF SaveInv, PathsOK
<1>5. \A u \in Saver : u # s /\ pc[u] \in Holding => Name(u) # Name(s)
  BY DEF SaveInv, Owned, TempsAreApart
<1>6. Owned'  BY <1>2 DEF SaveInv, Owned
<1>7. TempsAreApart'  BY <1>2, <1>5 DEF SaveInv, TempsAreApart
<1>8. Verified'
  <2>1. ASSUME NEW u \in Saver, pc'[u] \in {"commit", "copy", "remove"}
        PROVE  Parses(temp'[Name(u)'])
    <3>1. u # s /\ pc[u] = pc'[u]  BY <1>2, <2>1
    <3>2. pc[u] \in Holding /\ Name(u) # Name(s)  BY <1>5, <2>1, <3>1 DEF Holding
    <3>3. Name(u) \in TempName  BY <3>2, NameType
    <3>4. temp'[Name(u)] = temp[Name(u)]  BY <3>2, <3>3, StepFacts
    <3>5. QED  BY <1>2, <2>1, <3>1, <3>4 DEF SaveInv, Verified
  <2>2. QED  BY <2>1 DEF Verified, Parses
<1>9. BadEncodeNeverLands'  BY DEF SaveInv, BadEncodeNeverLands
<1>10. QED  BY <1>3, <1>4, <1>6, <1>7, <1>8, <1>9 DEF SaveInv

LEMMA OpenStep == ASSUME SaveInv, NEW s \in Saver, OpenTemp(s) PROVE SaveInv'
<1>1. pc[s] = "open" /\ target' = target /\ faults' = faults  BY DEF OpenTemp
<1>2. job[s].path \in Source  BY <1>1 DEF SaveInv, PathsOK
<1>3. CASE /\ Name(s) \notin taken
           /\ taken' = taken \cup {Name(s)}
           /\ temp' = [temp EXCEPT ![Name(s)] = <<>>]
           /\ Goto(s, "fill")
           /\ UNCHANGED job
  BY <1>1, <1>3, EmptyFile, TempInv DEF Goto
<1>4. CASE /\ Name(s) \in taken
           /\ job[s].attempt + 1 < Attempts
           /\ job' = [job EXCEPT ![s].attempt = @ + 1]
           /\ UNCHANGED <<taken, temp, pc>>
  <2> DEFINE j == [job[s] EXCEPT !.attempt = job[s].attempt + 1]
  <2>1. job' = [job EXCEPT ![s] = j]  BY <1>4, StepFacts
  <2>2. j \in Job /\ j.path = job[s].path
    BY <1>4, StepFacts, SaveAssumption, SMT DEF Job
  <2>3. pc' = [pc EXCEPT ![s] = "open"]  BY <1>1, <1>4, StepFacts
  <2>4. "open" \in Where /\ "open" \notin Holding \cup {"create", "put", "commit", "copy", "remove"}
    BY DEF Where, Holding
  <2> HIDE DEF j
  <2>5. taken' = taken /\ temp' = temp /\ j.path \in Source  BY <1>2, <1>4, <2>2
  <2>6. "open" \notin Holding /\ "open" \notin {"create", "put"}
        /\ "open" \notin {"commit", "copy", "remove"}
    BY <2>4
  <2>7. /\ target' \in [Path -> Bytes] /\ faults' \in 0..MaxFaults
        /\ \A p \in Source : \A i \in DOMAIN target'[p] : target'[p][i].tag \notin Unreadable
    BY <1>1, StepFacts
  <2>8. QED  BY <2>1, <2>2, <2>3, <2>4, <2>5, <2>6, <2>7, MoveInv
<1>5. CASE Return(s, "err") /\ UNCHANGED <<taken, temp>>
  BY <1>1, <1>5, StepFacts, ReturnInv DEF Resting
<1>6. QED  BY <1>3, <1>4, <1>5 DEF OpenTemp
-----------------------------------------------------------------------------
(* A step between two states in which the call holds its file.             *)
LEMMA HoldInv ==
  ASSUME SaveInv, NEW s \in Saver, pc[s] \in Holding, NEW w \in Holding, Goto(s, w),
         job' = job, taken' = taken, temp' = temp, target' = target,
         faults' \in 0..MaxFaults,
         w \in {"commit", "copy", "remove"} => Parses(temp[Name(s)])
  PROVE  SaveInv'
<1>1. job[s].path \in Source  BY DEF SaveInv, PathsOK
<1>2. pc' = [pc EXCEPT ![s] = w] /\ job' = [job EXCEPT ![s] = job[s]]
  BY StepFacts DEF Goto
<1>3. w \in Where /\ w \notin {"create", "put"} /\ job[s] \in Job
  BY StepFacts DEF Where, Holding
<1>4. QED  BY <1>1, <1>2, <1>3, StepFacts, MoveInv

LEMMA FillStep == ASSUME SaveInv, NEW s \in Saver, Fill(s) PROVE SaveInv'
<1> DEFINE n == Name(s)
<1>1. /\ pc[s] = "fill" /\ pc[s] \in Holding /\ pc[s] # "open"
      /\ target' = target /\ taken' = taken /\ job' = job /\ faults' = faults
  BY DEF Fill, Holding
<1>2. n \in TempName /\ n \in taken  BY <1>1, NameType DEF SaveInv, Owned
<1>3. CASE Len(temp[n]) < Parts
  <2> DEFINE b == Append(temp[n], Part(job[s].tag, Len(temp[n]) + 1))
  <2>1. temp[n] \in Bytes  BY <1>2, StepFacts
  <2>2. Len(temp[n]) + 1 \in 1..Parts  BY <1>3, <2>1, SaveAssumption, SMT DEF Bytes
  <2>3. Part(job[s].tag, Len(temp[n]) + 1) \in [tag : Tag, part : 1..Parts]
    BY <2>2, StepFacts DEF Part
  <2>4. b \in Bytes  BY <2>1, <2>3, SMT DEF Bytes
  <2>5. temp' = [temp EXCEPT ![n] = b] /\ pc' = pc  BY <1>2, <1>3, StepFacts DEF Fill
  <2>6. pc' = [pc EXCEPT ![s] = "fill"]  BY <1>1, <2>5, StepFacts
  <2>7. taken' = taken \cup {n}  BY <1>1, <1>2
  <2> HIDE DEF b
  <2>8. QED  BY <1>1, <2>4, <2>5, <2>6, <2>7, TempInv
<1>4. CASE ~(Len(temp[n]) < Parts)
  <2>1. Goto(s, "verify") /\ temp' = temp  BY <1>4 DEF Fill
  <2>2. "verify" \in Holding /\ "verify" \notin {"commit", "copy", "remove"}  BY DEF Holding
  <2>3. QED  BY <1>1, <2>1, <2>2, StepFacts, HoldInv
<1>5. QED  BY <1>3, <1>4

LEMMA VerifyStep == ASSUME SaveInv, NEW s \in Saver, Verify(s) PROVE SaveInv'
<1>1. /\ pc[s] \in Holding
      /\ target' = target /\ taken' = taken /\ job' = job /\ faults' = faults /\ temp' = temp
  BY DEF Verify, Holding
<1>2. "commit" \in Holding /\ "clean" \in Holding /\ "clean" \notin {"commit", "copy", "remove"}
  BY DEF Holding
<1>3. CASE Parses(temp[Name(s)])
  <2>1. Goto(s, "commit")  BY <1>3 DEF Verify
  <2>2. QED  BY <1>1, <1>2, <1>3, <2>1, StepFacts, HoldInv
<1>4. CASE ~Parses(temp[Name(s)])
  <2>1. Goto(s, "clean")  BY <1>4 DEF Verify
  <2>2. QED  BY <1>1, <1>2, <2>1, StepFacts, HoldInv
<1>5. QED  BY <1>3, <1>4

(* What was verified is what is copied.                                    *)
LEMMA CopySteps ==
  ASSUME SaveInv, NEW s \in Saver, CommitOpen(s) \/ CopyPart(s) PROVE SaveInv'
<1> DEFINE p == job[s].path
           n == Name(s)
<1>1. /\ pc[s] \in {"commit", "copy"} /\ pc[s] \in Holding
      /\ taken' = taken /\ temp' = temp /\ faults' = faults
  BY DEF CommitOpen, CopyPart, Holding
<1>2. p \in Source /\ p \in Path /\ p \notin Scratch
  BY <1>1, SaveAssumption DEF SaveInv, PathsOK, Path
<1>3. Parses(temp[n])  BY <1>1 DEF SaveInv, Verified
<1>4. temp[n] \in Readable /\ Len(temp[n]) = Parts  BY <1>3, ParsesParts
<1>5. \A w \in {"copy", "remove"} : w \in Where /\ w \in Holding /\ w \notin {"create", "put"}
  BY DEF Where, Holding
<1>6. ASSUME NEW w \in {"copy", "remove"}, NEW j \in Job, j.path = p, j.attempt = job[s].attempt,
             pc' = [pc EXCEPT ![s] = w], job' = [job EXCEPT ![s] = j],
             NEW b \in Readable, target' = [target EXCEPT ![p] = b]
      PROVE  SaveInv'
  <2>1. b \in Bytes  BY ReadableIsBytes
  <2>2. /\ target' \in [Path -> Bytes]
        /\ \A q \in Source : \A i \in DOMAIN target'[q] : target'[q][i].tag \notin Unreadable
    BY <1>2, <1>6, <2>1, PutFile
  <2>3. QED  BY <1>1, <1>2, <1>3, <1>5, <1>6, <2>2, StepFacts, MoveInv
<1>7. CASE CommitOpen(s)
  <2>1. /\ pc' = [pc EXCEPT ![s] = "copy"] /\ job' = [job EXCEPT ![s] = job[s]]
        /\ target' = [target EXCEPT ![p] = <<>>] /\ job[s] \in Job
    BY <1>7, StepFacts DEF CommitOpen, Goto
  <2>2. QED  BY <1>6, <2>1, EmptyFile
<1>8. CASE CopyPart(s) /\ job[s].done < Len(temp[n])
  <2> DEFINE k == job[s].done
             j == [job[s] EXCEPT !.done = k + 1]
             b == WriteAt(target[p], k, temp[n][k + 1])
  <2>1. target' = [target EXCEPT ![p] = b] /\ job' = [job EXCEPT ![s] = j] /\ pc' = pc
    BY <1>2, <1>8, StepFacts DEF CopyPart
  <2>2. pc' = [pc EXCEPT ![s] = "copy"]  BY <1>8, <2>1, StepFacts DEF CopyPart
  <2>3. k \in Nat /\ k + 1 \in 1..Parts
    BY <1>4, <1>8, StepFacts, SaveAssumption, SMT DEF Job
  <2>4. temp[n][k + 1] \in [tag : Tag \ Unreadable, part : 1..Parts] \cup {Hole}
    BY <1>4, <2>3, SMT DEF Readable
  <2>5. target[p] \in Bytes /\ \A i \in DOMAIN target[p] : target[p][i].tag \notin Unreadable
    BY <1>2, StepFacts
  <2>6. target[p] \in Readable  BY <2>5, ReadableParts
  <2>7. b \in Readable  BY <2>3, <2>4, <2>6, WriteAtParts DEF Readable
  <2>8. j \in Job /\ j.path = p /\ j.attempt = job[s].attempt
    BY <2>3, StepFacts, SaveAssumption, SMT DEF Job
  <2> HIDE DEF k, j, b
  <2>9. QED  BY <1>6, <2>1, <2>2, <2>7, <2>8
<1>9. CASE CopyPart(s) /\ ~(job[s].done < Len(temp[n]))
  <2>1. /\ Goto(s, "remove") /\ target' = target /\ job' = job  BY <1>9 DEF CopyPart
  <2>2. QED  BY <1>1, <1>3, <1>5, <2>1, StepFacts, HoldInv
<1>10. QED  BY <1>7, <1>8, <1>9
-----------------------------------------------------------------------------
LEMMA CleanStep == ASSUME SaveInv, NEW s \in Saver, Clean(s) PROVE SaveInv'
<1> DEFINE n == Name(s)
           w == IF pc[s] = "remove" THEN "idle" ELSE "err"
<1>1. /\ pc[s] \in Holding /\ target' = target /\ faults' = faults
      /\ taken' = taken \ {n} /\ temp' = [temp EXCEPT ![n] = <<>>]
      /\ pc' = [pc EXCEPT ![s] = w] /\ job' = [job EXCEPT ![s] = Rest(job[s])]
  BY StepFacts DEF Clean, Return, Goto, Holding
<1>2. w \in Where /\ w \notin Holding /\ w \notin {"open", "create", "put"}
  BY DEF Where, Resting, Holding
<1> HIDE DEF w
<1>3. n \in TempName  BY <1>1, NameType
<1>4. pc'[s] = w /\ \A u \in Saver : u # s => pc'[u] = pc[u] /\ Name(u)' = Name(u)
  BY <1>1, StepFacts DEF Name
<1>5. \A u \in Saver : pc'[u] \in Holding =>
        u # s /\ pc[u] \in Holding /\ Name(u)' = Name(u) /\ Name(u) # n
  BY <1>1, <1>2, <1>4 DEF SaveInv, TempsAreApart
<1>6. TypeOK'
  BY <1>1, <1>2, <1>3, EmptyFile, StepFacts DEF SaveInv, TypeOK, Where, Job
<1>7. PathsOK'
  <2>1. ASSUME NEW u \in Saver
        PROVE  /\ pc'[u] \in Holding \cup {"open"} => job'[u].path \in Source
               /\ pc'[u] \in {"create", "put"} => job'[u].path \in Scratch
    <3>1. CASE u = s  BY <1>2, <1>4, <3>1
    <3>2. CASE u # s
      <4>1. pc'[u] = pc[u] /\ job'[u] = job[u]  BY <1>1, <1>4, <3>2, StepFacts
      <4>2. QED  BY <4>1 DEF SaveInv, PathsOK
    <3>3. QED  BY <3>1, <3>2
  <2>2. QED  BY <2>1 DEF PathsOK
<1>8. Owned'
  <2>1. ASSUME NEW u \in Saver, pc'[u] \in Holding PROVE Name(u)' \in taken'
    BY <1>1, <1>5, <2>1 DEF SaveInv, Owned
  <2>2. QED  BY <2>1 DEF Owned
<1>9. TempsAreApart'
  <2>1. ASSUME NEW u \in Saver, NEW v \in Saver, u # v,
               pc'[u] \in Holding, pc'[v] \in Holding
        PROVE  Name(u)' # Name(v)'
    BY <1>5, <2>1 DEF SaveInv, TempsAreApart
  <2>2. QED  BY <2>1 DEF TempsAreApart
<1>10. Verified'
  <2>1. ASSUME NEW u \in Saver, pc'[u] \in {"commit", "copy", "remove"}
        PROVE  Parses(temp'[Name(u)'])
    <3>1. pc'[u] \in Holding  BY <2>1 DEF Holding
    <3>2. u # s /\ pc[u] \in Holding /\ Name(u)' = Name(u) /\ Name(u) # n  BY <1>5, <3>1
    <3>3. temp'[Name(u)] = temp[Name(u)]  BY <1>1, <3>2, NameType, StepFacts
    <3>4. pc[u] \in {"commit", "copy", "remove"}  BY <1>4, <2>1, <3>2
    <3>5. QED  BY <3>2, <3>3, <3>4 DEF SaveInv, Verified
  <2>2. QED  BY <2>1 DEF Verified, Parses
<1>11. BadEncodeNeverLands'  BY <1>1 DEF SaveInv, BadEncodeNeverLands
<1>12. QED  BY <1>6, <1>7, <1>8, <1>9, <1>10, <1>11 DEF SaveInv

LEMMA FailStep == ASSUME SaveInv, NEW s \in Saver, Fail(s) PROVE SaveInv'
<1>1. target' = target /\ taken' = taken /\ temp' = temp  BY DEF Fail
<1>2. faults' \in 0..MaxFaults  BY StepFacts, SaveAssumption, SMT DEF Fail
<1>3. CASE /\ pc[s] \in {"fill", "verify", "commit", "copy"}
           /\ Goto(s, "clean") /\ UNCHANGED job
  <2>1. /\ pc[s] \in Holding /\ "clean" \in Holding
        /\ "clean" \notin {"commit", "copy", "remove"}
    BY <1>3 DEF Holding
  <2>2. QED  BY <1>1, <1>2, <1>3, <2>1, HoldInv
<1>4. CASE Return(s, "idle")
  BY <1>1, <1>2, <1>4, StepFacts, ReturnInv DEF Resting
<1>5. CASE Return(s, "err")
  BY <1>1, <1>2, <1>5, StepFacts, ReturnInv DEF Resting
<1>6. QED  BY <1>3, <1>4, <1>5 DEF Fail

LEMMA DieStep == ASSUME SaveInv, NEW x \in Process, Die(x) PROVE SaveInv'
<1> DEFINE dead == {s \in Saver : ProcessOf[s] = x /\ pc[s] \notin Resting}
<1>1. /\ target' = target /\ taken' = taken /\ temp' = temp
      /\ faults' = faults + Cardinality(dead) /\ faults + Cardinality(dead) <= MaxFaults
      /\ pc' = [s \in Saver |-> IF s \in dead THEN "idle" ELSE pc[s]]
      /\ job' = [s \in Saver |-> IF s \in dead THEN Rest(job[s]) ELSE job[s]]
  BY DEF Die
<1>2. faults' \in 0..MaxFaults
  <2>1. IsFiniteSet(dead)  BY FS_Subset, SaveAssumption
  <2>2. Cardinality(dead) \in Nat  BY <2>1, FS_CardinalityType
  <2>3. QED  BY <1>1, <2>2, TypeFacts, SaveAssumption, SMT
<1> HIDE DEF dead
<1>3. \A u \in Saver :
        IF u \in dead THEN pc'[u] = "idle" /\ job'[u] = Rest(job[u])
        ELSE pc'[u] = pc[u] /\ job'[u] = job[u]
  BY <1>1
<1>4. "idle" \in Where /\ "idle" \notin Holding /\ "idle" \notin {"open", "create", "put"}
      /\ "idle" \notin {"commit", "copy", "remove"}
  BY DEF Where, Resting, Holding
<1>5. \A u \in Saver : pc'[u] \in Holding => u \notin dead /\ pc[u] \in Holding /\ Name(u)' = Name(u)
  BY <1>3, <1>4 DEF Name
<1>6. TypeOK'
  <2>0. pc \in [Saver -> Where]  BY DEF SaveInv, TypeOK, Where
  <2>1. \A u \in Saver : Rest(job[u]) \in Job /\ job[u] \in Job  BY StepFacts, TypeFacts
  <2>2. pc' \in [Saver -> Where]  BY <1>1, <1>4, <2>0
  <2>3. job' \in [Saver -> Job]  BY <1>1, <2>1
  <2>4. QED  BY <1>1, <1>2, <2>2, <2>3 DEF SaveInv, TypeOK, Where, Job
<1>7. PathsOK'
  <2>1. ASSUME NEW u \in Saver
        PROVE  /\ pc'[u] \in Holding \cup {"open"} => job'[u].path \in Source
               /\ pc'[u] \in {"create", "put"} => job'[u].path \in Scratch
    <3>1. CASE u \in dead  BY <1>3, <1>4, <3>1
    <3>2. CASE u \notin dead
      <4>1. pc'[u] = pc[u] /\ job'[u] = job[u]  BY <1>3, <3>2
      <4>2. QED  BY <4>1 DEF SaveInv, PathsOK
    <3>3. QED  BY <3>1, <3>2
  <2>2. QED  BY <2>1 DEF PathsOK
<1>8. Owned'
  <2>1. ASSUME NEW u \in Saver, pc'[u] \in Holding PROVE Name(u)' \in taken'
    BY <1>1, <1>5, <2>1 DEF SaveInv, Owned
  <2>2. QED  BY <2>1 DEF Owned
<1>9. TempsAreApart'
  <2>1. ASSUME NEW u \in Saver, NEW v \in Saver, u # v,
               pc'[u] \in Holding, pc'[v] \in Holding
        PROVE  Name(u)' # Name(v)'
    BY <1>5, <2>1 DEF SaveInv, TempsAreApart
  <2>2. QED  BY <2>1 DEF TempsAreApart
<1>10. Verified'
  <2>1. ASSUME NEW u \in Saver, pc'[u] \in {"commit", "copy", "remove"}
        PROVE  Parses(temp'[Name(u)'])
    <3>1. pc'[u] \in Holding  BY <2>1 DEF Holding
    <3>2. u \notin dead /\ Name(u)' = Name(u)  BY <1>5, <3>1
    <3>3. pc[u] \in {"commit", "copy", "remove"}  BY <1>3, <2>1, <3>2
    <3>4. QED  BY <1>1, <3>2, <3>3 DEF SaveInv, Verified
  <2>2. QED  BY <2>1 DEF Verified, Parses
<1>11. BadEncodeNeverLands'  BY <1>1 DEF SaveInv, BadEncodeNeverLands
<1>12. QED  BY <1>6, <1>7, <1>8, <1>9, <1>10, <1>11 DEF SaveInv
-----------------------------------------------------------------------------
LEMMA SaveInit == Init => SaveInv
<1>1. SUFFICES ASSUME Init PROVE SaveInv  OBVIOUS
<1>2. pc = [s \in Saver |-> "idle"]  BY <1>1 DEF Init
<1>3. /\ \A s \in Saver : pc[s] = "idle"
      /\ "idle" \notin Holding \cup {"open", "create", "put"}
      /\ "idle" \notin {"commit", "copy", "remove"}
  BY <1>2 DEF Holding
<1>4. PathsOK /\ Owned /\ TempsAreApart /\ Verified
  BY <1>3 DEF PathsOK, Owned, TempsAreApart, Verified
<1>5. \A t \in Tag : t \notin Unreadable => Whole(t) \in Readable
  BY ParsesParts DEF Parses
<1>6. \A p \in Path : target[p] \in Readable  BY <1>1, <1>5 DEF Init
<1>7. target \in [Path -> Bytes]  BY <1>1, <1>6, ReadableIsBytes DEF Init
<1>8. BadEncodeNeverLands
  BY <1>6, <1>7, ReadableParts DEF BadEncodeNeverLands, Path
<1>9. PICK p \in Path : job = [s \in Saver |-> Rest([path |-> p])]  BY <1>1 DEF Init
<1>10. Rest([path |-> p]) \in Job  BY <1>9, RestType
<1>11. job \in [Saver -> Job]  BY <1>9, <1>10
<1>12. TypeOK
  <2>1. temp \in [TempName -> Bytes]  BY <1>1, EmptyFile DEF Init
  <2>2. pc \in [Saver -> Where]  BY <1>2 DEF Where, Resting
  <2>3. taken \subseteq TempName /\ faults \in 0..MaxFaults
    BY <1>1, SaveAssumption, SMT DEF Init
  <2>4. QED  BY <1>7, <1>11, <2>1, <2>2, <2>3 DEF TypeOK, Where, Job
<1>13. QED  BY <1>4, <1>8, <1>12 DEF SaveInv

(* The invariant holds throughout: a call's temporary file is its own, and *)
(* what it copies over a tag is what it verified.                          *)
THEOREM SaveInvHolds == Spec => []SaveInv
<1>1. Init => SaveInv  BY SaveInit
<1>2. SaveInv /\ [Next]_vars => SaveInv'
  <2>1. SUFFICES ASSUME SaveInv, [Next]_vars PROVE SaveInv'  OBVIOUS
  <2>2. CASE UNCHANGED vars
    BY <2>1, <2>2 DEF vars, SaveInv, TypeOK, PathsOK, Owned, TempsAreApart, Verified,
                      BadEncodeNeverLands, Name, Parses
  <2>3. CASE \E s \in Saver : Call(s) \/ Step(s) \/ Fail(s)
    BY <2>1, <2>3, CallStep, WriteSteps, OpenStep, FillStep, VerifyStep, CopySteps,
       CleanStep, FailStep DEF Step
  <2>4. CASE \E x \in Process : Die(x)  BY <2>1, <2>4, DieStep
  <2>5. QED  BY <2>1, <2>2, <2>3, <2>4 DEF Next
<1>3. QED  BY <1>1, <1>2, PTL DEF Spec

(* write_atomic's "a bad encode never clobbers the tag already on disk".   *)
THEOREM BadEncodesStayOut == Spec => []BadEncodeNeverLands
<1>1. SaveInv => BadEncodeNeverLands  BY DEF SaveInv
<1>2. QED  BY <1>1, SaveInvHolds, PTL

(* Calls that run at once have temporary files of their own, also beside   *)
(* files that dead processes left and under reused process ids.            *)
THEOREM TempsStayApart == Spec => []TempsAreApart
<1>1. SaveInv => TempsAreApart  BY DEF SaveInv
<1>2. QED  BY <1>1, SaveInvHolds, PTL
-----------------------------------------------------------------------------
(* Temporary files that no running call owns.                              *)
Leftover == {n \in taken : \A s \in Saver : pc[s] \in Holding => Name(s) # n}
LeftoverInv == IsFiniteSet(taken) /\ Cardinality(Leftover) <= faults

(* A step that leaves the files X behind pays for each with a fault.       *)
LEMMA LeftoversPaid ==
  ASSUME LeftoverInv, SaveInv, NEW X, IsFiniteSet(X), IsFiniteSet(taken'),
         Leftover' \subseteq Leftover \cup X,
         faults' \in Nat, faults + Cardinality(X) <= faults'
  PROVE  LeftoverInv'
<1>1. IsFiniteSet(Leftover) /\ IsFiniteSet(Leftover')
  BY FS_Subset DEF LeftoverInv, Leftover
<1>2. IsFiniteSet(Leftover \cap X) /\ IsFiniteSet(Leftover \cup X)
  BY <1>1, FS_Intersection, FS_Union
<1>3. Cardinality(Leftover \cup X)
        = Cardinality(Leftover) + Cardinality(X) - Cardinality(Leftover \cap X)
  BY <1>1, FS_Union
<1>4. Cardinality(Leftover') <= Cardinality(Leftover \cup X)
  BY <1>2, FS_Subset
<1>5. /\ Cardinality(Leftover) \in Nat /\ Cardinality(Leftover') \in Nat
      /\ Cardinality(X) \in Nat /\ Cardinality(Leftover \cap X) \in Nat
  BY <1>1, <1>2, FS_CardinalityType
<1>6. faults \in Nat  BY TypeFacts, SaveAssumption, SMT
<1>7. Cardinality(Leftover) <= faults  BY DEF LeftoverInv
<1>8. Cardinality(Leftover') <= faults'
  BY <1>3, <1>4, <1>5, <1>6, <1>7, SMT
<1>9. QED  BY <1>8 DEF LeftoverInv

(* Nothing is left behind by a step in which every file that was owned     *)
(* stays owned or is removed, and every new one is owned.                  *)
LEMMA NothingLeft ==
  ASSUME LeftoverInv, SaveInv, faults' = faults,
         taken' \subseteq taken \/ \E v \in Saver : pc'[v] \in Holding /\ taken' = taken \cup {Name(v)'},
         \A u \in Saver : pc[u] \in Holding =>
           Name(u) \notin taken' \/ (pc'[u] \in Holding /\ Name(u)' = Name(u))
  PROVE  LeftoverInv'
<1>1. Leftover' \subseteq Leftover
  BY DEF Leftover
<1>2. IsFiniteSet(taken')
  BY FS_Subset, FS_AddElement DEF LeftoverInv
<1>3. IsFiniteSet({}) /\ Cardinality({}) = 0  BY FS_EmptySet
<1>4. faults \in Nat  BY TypeFacts, SaveAssumption, SMT
<1>5. faults + Cardinality({}) <= faults'  BY <1>3, <1>4, SMT
<1>6. QED  BY <1>1, <1>2, <1>3, <1>4, <1>5, LeftoversPaid

(* The other calls keep their files in a step of one call.                 *)
LEMMA OthersKeep ==
  ASSUME SaveInv, NEW s \in Saver, NEW w, NEW j,
         pc' = [pc EXCEPT ![s] = w], job' = [job EXCEPT ![s] = j]
  PROVE  /\ \A u \in Saver : u # s => pc'[u] = pc[u] /\ Name(u)' = Name(u)
         /\ pc'[s] = w /\ job'[s] = j
BY StepFacts DEF Name

LEMMA CallLeavesNothing ==
  ASSUME LeftoverInv, SaveInv, NEW s \in Saver, Call(s) \/ Step(s) PROVE LeftoverInv'
<1>1. CASE Call(s)
  <2>1. PICK p \in Path, t \in Tag :
          /\ job' = [job EXCEPT ![s] = [path |-> p, tag |-> t, attempt |-> 0, done |-> 0]]
          /\ Goto(s, IF p \in Source THEN "open" ELSE "create")
    BY <1>1 DEF Call
  <2>2. pc[s] \notin Holding /\ taken' = taken /\ faults' = faults
    BY <1>1 DEF Call, Resting, Holding
  <2>3. \A u \in Saver : u # s => pc'[u] = pc[u] /\ Name(u)' = Name(u)
    BY <2>1, OthersKeep DEF Goto
  <2>4. QED  BY <2>2, <2>3, NothingLeft
<1>2. CASE Create(s) \/ Put(s)
  <2>1. pc[s] \notin Holding /\ taken' = taken /\ faults' = faults
    BY <1>2 DEF Create, Put, Holding
  <2>2. \E w, j : pc' = [pc EXCEPT ![s] = w] /\ job' = [job EXCEPT ![s] = j]
    <3>1. pc = [pc EXCEPT ![s] = pc[s]] /\ job = [job EXCEPT ![s] = job[s]]
      BY StepFacts
    <3>2. CASE Create(s)  BY <3>1, <3>2 DEF Create, Return, Goto
    <3>3. CASE Put(s)  BY <3>1, <3>3 DEF Put, Return, Goto
    <3>4. QED  BY <1>2, <3>2, <3>3
  <2>3. QED  BY <2>1, <2>2, OthersKeep, NothingLeft
<1>3. CASE OpenTemp(s)
  <2>1. pc[s] \notin Holding /\ faults' = faults  BY <1>3 DEF OpenTemp, Holding
  <2>2. CASE taken' = taken \cup {Name(s)} /\ Goto(s, "fill") /\ UNCHANGED job
    <3>0. pc' = [pc EXCEPT ![s] = "fill"] /\ job' = [job EXCEPT ![s] = job[s]]
      BY <2>2, StepFacts DEF Goto
    <3>1. \A u \in Saver : u # s => pc'[u] = pc[u] /\ Name(u)' = Name(u)
      BY <3>0, OthersKeep
    <3>2. Name(s)' = Name(s) /\ pc'[s] \in Holding
      <4>1. pc'[s] = "fill" /\ job'[s] = job[s]  BY <3>0, OthersKeep
      <4>2. QED  BY <4>1 DEF Name, Holding
    <3>3. QED  BY <2>1, <2>2, <3>1, <3>2, NothingLeft
  <2>3. CASE UNCHANGED taken
    <3>0. \/ Goto(s, "fill") /\ UNCHANGED job
          \/ job' = [job EXCEPT ![s].attempt = @ + 1] /\ UNCHANGED pc
          \/ Return(s, "err")
      BY <1>3 DEF OpenTemp
    <3>1. \E w, j : pc' = [pc EXCEPT ![s] = w] /\ job' = [job EXCEPT ![s] = j]
      <4>1. pc = [pc EXCEPT ![s] = pc[s]] /\ job = [job EXCEPT ![s] = job[s]]
        BY StepFacts
      <4>2. QED  BY <3>0, <4>1 DEF Return, Goto
    <3>2. QED  BY <2>1, <2>3, <3>1, OthersKeep, NothingLeft
  <2>4. QED  BY <1>3, <2>2, <2>3 DEF OpenTemp
<1>4. CASE Fill(s) \/ Verify(s) \/ CommitOpen(s) \/ CopyPart(s)
  <2>1. taken' = taken /\ faults' = faults
    BY <1>4 DEF Fill, Verify, CommitOpen, CopyPart
  <2>2. PICK w, j :
          /\ w \in Holding
          /\ pc' = [pc EXCEPT ![s] = w] /\ job' = [job EXCEPT ![s] = j]
          /\ j.path = job[s].path /\ j.attempt = job[s].attempt
    <3>1. CASE Fill(s) \/ Verify(s) \/ CommitOpen(s)
      <4>1. job' = [job EXCEPT ![s] = job[s]]
        BY <3>1, StepFacts DEF Fill, Verify, CommitOpen
      <4>2. \E w \in Holding : pc' = [pc EXCEPT ![s] = w]
        BY <3>1, StepFacts DEF Fill, Verify, CommitOpen, Goto, Holding
      <4>3. PICK w : w \in Holding /\ pc' = [pc EXCEPT ![s] = w]  BY <4>2
      <4>4. PICK j : j = job[s]  OBVIOUS
      <4>5. j.path = job[s].path /\ j.attempt = job[s].attempt  BY <4>4
      <4>6. QED  BY <4>1, <4>3, <4>4, <4>5
    <3>2. CASE CopyPart(s)
      <4>1. \E w \in Holding : pc' = [pc EXCEPT ![s] = w]
        BY <3>2, StepFacts DEF CopyPart, Goto, Holding
      <4>2. job' = [job EXCEPT ![s] = job[s]]
            \/ job' = [job EXCEPT ![s] = [job[s] EXCEPT !.done = job[s].done + 1]]
        BY <3>2, StepFacts DEF CopyPart
      <4>3. job[s] \in Job  BY StepFacts
      <4>4. PICK w : w \in Holding /\ pc' = [pc EXCEPT ![s] = w]  BY <4>1
      <4>5. PICK j : /\ job' = [job EXCEPT ![s] = j]
                     /\ j.path = job[s].path /\ j.attempt = job[s].attempt
        BY <4>2, <4>3 DEF Job
      <4>6. QED  BY <4>4, <4>5
    <3>3. QED  BY <1>4, <3>1, <3>2
  <2>3. pc'[s] \in Holding /\ Name(s)' = Name(s)
    <3>1. pc'[s] = w /\ job'[s] = j  BY <2>2, OthersKeep
    <3>2. QED  BY <2>2, <3>1 DEF Name
  <2>4. QED  BY <2>1, <2>2, <2>3, OthersKeep, NothingLeft
<1>5. CASE Clean(s)
  <2>1. taken' = taken \ {Name(s)} /\ faults' = faults  BY <1>5 DEF Clean
  <2>2. \E w, j : pc' = [pc EXCEPT ![s] = w] /\ job' = [job EXCEPT ![s] = j]
    BY <1>5, StepFacts DEF Clean, Return, Goto
  <2>3. QED  BY <2>1, <2>2, OthersKeep, NothingLeft
<1>6. QED  BY <1>1, <1>2, <1>3, <1>4, <1>5 DEF Step

(* A failing call leaves one file at most, its own.                        *)
LEMMA FailLeavesOne ==
  ASSUME LeftoverInv, SaveInv, NEW s \in Saver, Fail(s) PROVE LeftoverInv'
<1>1. taken' = taken /\ faults' = faults + 1  BY DEF Fail
<1>2. \E w, j : pc' = [pc EXCEPT ![s] = w] /\ job' = [job EXCEPT ![s] = j]
  BY StepFacts DEF Fail, Return, Goto
<1>3. \A u \in Saver : u # s => pc'[u] = pc[u] /\ Name(u)' = Name(u)
  BY <1>2, OthersKeep
<1>4. Leftover' \subseteq Leftover \cup {Name(s)}  BY <1>1, <1>3 DEF Leftover
<1>5. IsFiniteSet({Name(s)}) /\ Cardinality({Name(s)}) = 1  BY FS_Singleton
<1>6. faults \in Nat  BY TypeFacts, SaveAssumption, SMT
<1>7. faults' \in Nat /\ faults + Cardinality({Name(s)}) <= faults'
  BY <1>1, <1>5, <1>6, SMT
<1>8. IsFiniteSet(taken')  BY <1>1 DEF LeftoverInv
<1>9. QED  BY <1>4, <1>5, <1>7, <1>8, LeftoversPaid

(* A dying process leaves one file for each of its calls at most.          *)
LEMMA DeathLeavesItsOwn ==
  ASSUME LeftoverInv, SaveInv, NEW x \in Process, Die(x) PROVE LeftoverInv'
<1> DEFINE dead == {s \in Saver : ProcessOf[s] = x /\ pc[s] \notin Resting}
           name == [s \in dead |-> Name(s)]
           X == {name[s] : s \in dead}
<1>1. /\ taken' = taken /\ faults' = faults + Cardinality(dead)
      /\ pc' = [s \in Saver |-> IF s \in dead THEN "idle" ELSE pc[s]]
      /\ job' = [s \in Saver |-> IF s \in dead THEN Rest(job[s]) ELSE job[s]]
  BY DEF Die
<1>2. IsFiniteSet(dead) /\ Cardinality(dead) \in Nat
  BY FS_Subset, FS_CardinalityType, SaveAssumption
<1>3. IsFiniteSet(X) /\ Cardinality(X) <= Cardinality(dead)
  <2>1. name \in Surjection(dead, X)  BY DEF Surjection
  <2>2. QED  BY <1>2, <2>1, FS_Surjection
<1>4. \A u \in Saver : u \notin dead => pc'[u] = pc[u] /\ Name(u)' = Name(u)
  BY <1>1 DEF Name
<1>5. \A u \in dead : Name(u) \in X  OBVIOUS
<1> HIDE DEF dead, X
<1>6. Leftover' \subseteq Leftover \cup X
  <2>1. ASSUME NEW n \in Leftover', n \notin X PROVE n \in Leftover
    <3>1. n \in taken  BY <1>1, <2>1 DEF Leftover
    <3>2. ASSUME NEW u \in Saver, pc[u] \in Holding PROVE Name(u) # n
      <4>1. CASE u \in dead  BY <1>5, <2>1, <4>1
      <4>2. CASE u \notin dead  BY <1>4, <2>1, <3>2, <4>2 DEF Leftover
      <4>3. QED  BY <4>1, <4>2
    <3>3. QED  BY <3>1, <3>2 DEF Leftover
  <2>2. QED  BY <2>1
<1>7. faults \in Nat  BY TypeFacts, SaveAssumption, SMT
<1>8. Cardinality(X) \in Nat  BY <1>3, FS_CardinalityType
<1>9. faults' \in Nat /\ faults + Cardinality(X) <= faults'
  BY <1>1, <1>2, <1>3, <1>7, <1>8, SMT
<1>10. IsFiniteSet(taken')  BY <1>1 DEF LeftoverInv
<1>11. QED  BY <1>3, <1>6, <1>9, <1>10, LeftoversPaid

(* write_atomic removes its temporary file however it returns: what no     *)
(* running call owns was left by a fault, and by one of its own.           *)
THEOREM LeftoversArePaidFor == Spec => []LeftoversNeedFaults
<1>1. Init => LeftoverInv
  <2>1. SUFFICES ASSUME Init PROVE LeftoverInv  OBVIOUS
  <2>2. taken = {} /\ faults = 0 /\ Leftover = {}  BY <2>1 DEF Init, Leftover
  <2>3. QED  BY <2>2, FS_EmptySet, SMT DEF LeftoverInv
<1>2. SaveInv /\ LeftoverInv /\ [Next]_vars => LeftoverInv'
  <2>1. SUFFICES ASSUME SaveInv, LeftoverInv, [Next]_vars PROVE LeftoverInv'  OBVIOUS
  <2>2. CASE UNCHANGED vars
    BY <2>1, <2>2 DEF vars, LeftoverInv, Leftover, Name
  <2>3. CASE \E s \in Saver : Call(s) \/ Step(s) \/ Fail(s)
    BY <2>1, <2>3, CallLeavesNothing, FailLeavesOne
  <2>4. CASE \E x \in Process : Die(x)  BY <2>1, <2>4, DeathLeavesItsOwn
  <2>5. QED  BY <2>1, <2>2, <2>3, <2>4 DEF Next
<1>3. LeftoverInv => LeftoversNeedFaults  BY DEF LeftoverInv, Leftover, LeftoversNeedFaults
<1>4. QED  BY <1>1, <1>2, <1>3, SaveInvHolds, PTL DEF Spec
=============================================================================
