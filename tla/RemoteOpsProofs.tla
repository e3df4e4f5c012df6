--------------------------- MODULE RemoteOpsProofs ---------------------------
(***************************************************************************)
(* Proofs about what a remote caller does with the machine, for any        *)
(* served directory, any number of requests, any sizes of pipes and bodies *)
(* and any number of connections and host keys: the file API, /exec, the   *)
(* connection to the local sshd, and the three side by side.               *)
(***************************************************************************)
EXTENDS MCRemoteOps, TLAPS

-----------------------------------------------------------------------------
(* The file API.  Everything a name shows or a reader has open is a file   *)
(* nobody writes any more: of the start, or of a write that was answered.  *)
(* A write's own file is under no name before that, which is why another   *)
(* request can come between any two of its steps.                          *)

\* Where a request may stand.
FileSteps == {"new", "open", "create", "remove", "rename", "chmod", "mkdir", "stream", "read",
              "body", "discard", "carry", "place", "rmdir", "unlink", "answered", "dropped"}

\* The table of files, and what a name may be.
Modes == {"old", "new", "umask"}
FileTable == [Ino -> [data : Seq(Ino), mode : Modes]]

Item == [kind : {"file", "link", "dir", "none"}, of : Ino \cup {Outside}]

\* The type invariant, one variable at a time.
FilesTyped ==
  /\ dir \in [Name -> Item]
  /\ inode \in FileTable
  /\ part \subseteq Call
  /\ step \in [Call -> FileSteps]
  /\ target \in [Call -> (Name \cup {NoPath}) \X (Name \cup {NoPath})]
  /\ body \in [Call -> 0..ChunkLimit + 1]
  /\ offset \in [Call -> 0..Longest]
  /\ holds \in [Call -> Ino \cup {Outside}]
  /\ got \in [Call -> Seq(Ino)]

\* All that a write was to send, and nothing else.
Complete(r) == Uniform(inode[r].data, r) /\ Len(inode[r].data) = body[r]

\* A file nobody writes any more.
Settled(i) == i \in Name \/ (i \in Call /\ step[i] = "answered" /\ Complete(i))

\* What a name shows.
Entry(n) ==
  /\ dir[n].kind = "file" => Settled(dir[n].of)
  /\ dir[n].kind = "link" => dir[n].of \in Name \cup {Outside}

\* No request writes into a file of the start.
OldFile(i) == inode[i].data = <<i, i>>

\* A write fills its own file, within its body and the limit.
Writes(r) ==
  /\ step[r] = "body" => holds[r] = r /\ Uniform(inode[r].data, r) /\ Len(inode[r].data) <= body[r]
  /\ step[r] \in {"carry", "place"} => Complete(r)
  /\ Len(inode[r].data) <= ChunkLimit

\* What a download that has a file open is to have of it.
Wanted(r, i) == Rest(Len(inode[i].data), offset[r])

\* A download has chunks of the file it opened, and no more than it asked for.
Reads(r) ==
  /\ got[r] = <<>> \/ (/\ holds[r] \in Ino /\ Uniform(got[r], holds[r])
                       /\ step[r] \in {"stream", "read", "dropped"})
  /\ step[r] \in {"stream", "read"} => Settled(holds[r]) /\ Len(got[r]) <= Wanted(r, holds[r])
  /\ step[r] = "read" => Len(got[r]) = Wanted(r, holds[r])

\* A request that goes on has resolved its paths.
Aims(r) == step[r] \notin {"new", "answered", "dropped"} => target[r] \in Name \X Name

FilesInv ==
  /\ FilesTyped
  /\ \A n \in Name : Entry(n) /\ OldFile(n)
  /\ \A r \in Call : Writes(r) /\ Reads(r) /\ Aims(r)

\* Types of single values, as the steps use them.
LEMMA TypedParts ==
  ASSUME FilesTyped
  PROVE  /\ \A n \in Name : /\ dir[n].kind \in {"file", "link", "dir", "none"}
                            /\ dir[n].of \in Ino \cup {Outside}
                            /\ dir[n] = [kind |-> dir[n].kind, of |-> dir[n].of]
         /\ \A i \in Ino : /\ inode[i].data \in Seq(Ino)
                           /\ inode[i].mode \in {"old", "new", "umask"}
                           /\ inode[i] = [data |-> inode[i].data, mode |-> inode[i].mode]
         /\ \A r \in Call : /\ step[r] \in FileSteps
                            /\ body[r] \in Nat
                            /\ offset[r] \in Nat
                            /\ holds[r] \in Ino \cup {Outside}
                            /\ got[r] \in Seq(Ino)
                            /\ r \in Ino
         /\ ChunkLimit \in Nat
<1>1. ChunkLimit \in Nat /\ Longest \in Nat
  BY FilesAssumption DEF Longest, OldLength
<1> QED
  BY <1>1 DEF FilesTyped, FileTable, Item, Modes, Ino

\* The rest of a file from an offset on.
LEMMA RestOf ==
  ASSUME NEW whole \in Nat, NEW skip \in Nat
  PROVE  /\ Rest(whole, skip) \in Nat
         /\ \A n \in Nat : n <= Rest(whole, skip) =>
              /\ skip + n + 1 <= whole => n + 1 <= Rest(whole, skip)
              /\ ~(skip + n + 1 <= whole) => n = Rest(whole, skip)
  BY DEF Rest

\* The items of a concatenation.
LEMMA Items ==
  /\ \A i \in Ino : File(i) \in Item
  /\ \A n \in Name \cup {Outside} : Link(n) \in Item
  /\ Folder \in Item /\ Nothing \in Item
  /\ Folder.kind = "dir" /\ Nothing.kind = "none"
  /\ \A i : File(i).kind = "file" /\ File(i).of = i /\ Link(i).kind = "link" /\ Link(i).of = i
  BY DEF Item, File, Link, Folder, Nothing, Ino

\* A version of two chunks.
LEMMA TwoChunks ==
  ASSUME NEW x
  PROVE  Len(<<x, x>>) = 2 /\ \A k \in 1..2 : <<x, x>>[k] = x
  OBVIOUS

\* One file's bytes, or its mode, and nothing else.
LEMMA DataWritten ==
  ASSUME inode \in FileTable, NEW i \in Ino, NEW d \in Seq(Ino),
         inode' = [inode EXCEPT ![i].data = d]
  PROVE  /\ inode' \in FileTable
         /\ inode'[i].data = d
         /\ \A j \in Ino \ {i} : inode'[j] = inode[j]
<1>1. inode[i] \in [data : Seq(Ino), mode : Modes]
  BY DEF FileTable
<1>2. [inode[i] EXCEPT !.data = d] \in [data : Seq(Ino), mode : Modes]
  BY <1>1
<1>3. [inode[i] EXCEPT !.data = d].data = d
  BY <1>1
<1>4. inode' = [inode EXCEPT ![i] = [inode[i] EXCEPT !.data = d]]
  OBVIOUS
<1> HIDE DEF Modes
<1> QED
  BY <1>2, <1>3, <1>4 DEF FileTable

\* A file whose mode has changed holds what it held.
LEMMA ModeChanged ==
  ASSUME inode \in FileTable, NEW i \in Ino, NEW m \in Modes, inode' = [inode EXCEPT ![i].mode = m]
  PROVE  /\ inode' \in FileTable
         /\ \A j \in Ino : inode'[j].data = inode[j].data
<1>1. inode[i] \in [data : Seq(Ino), mode : Modes]
  BY DEF FileTable
<1>2. [inode[i] EXCEPT !.mode = m] \in [data : Seq(Ino), mode : Modes]
  BY <1>1
<1>3. [inode[i] EXCEPT !.mode = m].data = inode[i].data
  BY <1>1
<1>4. inode' = [inode EXCEPT ![i] = [inode[i] EXCEPT !.mode = m]]
  OBVIOUS
<1> QED
  BY <1>2, <1>3, <1>4 DEF FileTable

\* A step of one request that leaves the other files' bytes alone, and puts
\* nothing under a name but what was under one and its own complete file.
LEMMA StepOfOneRequest ==
  ASSUME FilesInv, NEW r \in Call, FilesTyped', step[r] # "answered",
         \A q \in Call \ {r} : /\ step'[q] = step[q] /\ target'[q] = target[q]
                               /\ body'[q] = body[q] /\ offset'[q] = offset[q]
                               /\ holds'[q] = holds[q]
                               /\ got'[q] = got[q] /\ inode'[q].data = inode[q].data,
         \A n \in Name : inode'[n].data = inode[n].data,
         part' \ {r} \subseteq part,
         \A n \in Name : \/ \E m \in Name : dir'[n] = dir[m]
                         \/ dir'[n].kind \in {"dir", "none"}
                         \/ dir'[n] = File(r) /\ step'[r] = "answered" /\ Complete(r)',
         Writes(r)',
         got'[r] = <<>> \/ (/\ holds'[r] \in Ino /\ Uniform(got'[r], holds'[r])
                            /\ step'[r] \in {"stream", "read", "dropped"}),
         step'[r] \in {"stream", "read"} =>
           Settled(holds'[r]) /\ Len(got'[r]) <= Rest(Len(inode[holds'[r]].data), offset'[r]),
         step'[r] = "read" => Len(got'[r]) = Rest(Len(inode[holds'[r]].data), offset'[r]),
         Aims(r)'
  PROVE  FilesInv'
<1>1. ASSUME NEW i, Settled(i)
      PROVE  inode'[i].data = inode[i].data /\ Settled(i)'
  BY <1>1 DEF Settled, Complete, Uniform
<1>2. ASSUME NEW n \in Name
      PROVE  Entry(n)' /\ OldFile(n)'
  <2>1. CASE \E m \in Name : dir'[n] = dir[m]
    BY <1>1, <2>1 DEF FilesInv, Entry, OldFile
  <2>2. CASE dir'[n].kind \in {"dir", "none"}
    BY <2>2 DEF FilesInv, Entry, OldFile
  <2>3. CASE dir'[n] = File(r) /\ step'[r] = "answered" /\ Complete(r)'
    <3>1. dir'[n].kind = "file" /\ dir'[n].of = r
      BY <2>3 DEF File
    <3> QED
      BY <2>3, <3>1 DEF FilesInv, Entry, OldFile, Settled
  <2> QED
    BY <2>1, <2>2, <2>3
<1>3. ASSUME NEW q \in Call
      PROVE  Writes(q)' /\ Reads(q)' /\ Aims(q)'
  <2>1. CASE q = r
    BY <1>1, <2>1 DEF Reads, Wanted
  <2>2. CASE q # r
    <3>1. Writes(q) /\ Reads(q) /\ Aims(q)
      BY DEF FilesInv
    <3>2. Writes(q)'
      BY <2>2, <3>1 DEF Writes, Complete, Uniform
    <3>3. Reads(q)'
      BY <1>1, <2>2, <3>1 DEF Reads, Wanted, Uniform
    <3>4. Aims(q)'
      BY <2>2, <3>1 DEF Aims
    <3> QED
      BY <3>2, <3>3, <3>4
  <2> QED
    BY <2>1, <2>2
<1> QED
  BY <1>2, <1>3 DEF FilesInv

\* What a path resolves to is a name here or nothing.
LEMMA ResolvesHere ==
  ASSUME FilesInv, NEW op, NEW n \in Name, NEW m \in Name
  PROVE  Resolved(op, n, m) \in (Name \cup {NoPath}) \X (Name \cup {NoPath})
<1>1. ASSUME NEW x \in Name
      PROVE  resolve_existing(x) \in Name \cup {NoPath} /\ resolve_new(x) \in Name \cup {NoPath}
  BY DEF FilesInv, Entry, resolve_existing, resolve_new, Exists
<1> QED
  BY <1>1 DEF Resolved

\* Admission.
LEMMA AskStep ==
  ASSUME FilesInv, NEW r \in Call, NEW op \in Op, NEW n \in Name, NEW m \in Name,
         NEW chunks \in 0..ChunkLimit + 1, NEW skip \in 0..Longest,
         Ask(r, op, n, m, chunks, skip)
  PROVE  FilesInv'
<1>0. FilesTyped /\ Writes(r) /\ Reads(r)
  BY DEF FilesInv
<1> DEFINE way == Resolved(op, n, m)
           next == IF NoPath \in {way[1], way[2]} THEN "answered" ELSE First(op)
<1>1. way \in (Name \cup {NoPath}) \X (Name \cup {NoPath})
  BY ResolvesHere
<1>2. First(op) \in {"open", "create", "remove", "rename", "chmod", "mkdir"}
  BY DEF Op, First
<1>3. /\ step[r] = "new" /\ target' = [target EXCEPT ![r] = way]
      /\ body' = [body EXCEPT ![r] = chunks] /\ offset' = [offset EXCEPT ![r] = skip]
      /\ step' = [step EXCEPT ![r] = next]
      /\ UNCHANGED <<dir, inode, part, holds, got>>
  BY DEF Ask
<1>4. next \in {"answered", "open", "create", "remove", "rename", "chmod", "mkdir"}
  BY <1>2
<1> HIDE DEF next, way
<1>5. FilesTyped'
  BY <1>0, <1>1, <1>3, <1>4 DEF FilesTyped, FileSteps
<1>6. target'[r] = way /\ step'[r] = next /\ way = <<way[1], way[2]>>
  BY <1>0, <1>1, <1>3 DEF FilesTyped
<1>7. Aims(r)'
  BY <1>1, <1>6 DEF Aims, next
<1>8. Writes(r)'
  BY <1>0, <1>3, <1>4, <1>6 DEF Writes, Complete
<1>9. got[r] = <<>>
  BY <1>0, <1>3 DEF Reads
<1> QED
  BY <1>0, <1>3, <1>4, <1>5, <1>6, <1>7, <1>8, <1>9, StepOfOneRequest DEF FilesTyped

\* open and the stream.
LEMMA ReadStep == ASSUME FilesInv, NEW r \in Call, Reading(r) PROVE FilesInv'
<1>0. FilesTyped /\ Writes(r) /\ Reads(r) /\ Aims(r)
  BY DEF FilesInv
<1>1. CASE Open(r)
  <2>0. Path(r) \in Name /\ got[r] = <<>> /\ Len(got[r]) = 0
    BY <1>0, <1>1 DEF Open, Aims, Reads, Path
  <2>1. CASE At(r).kind = "file"
    <3>1. /\ holds' = [holds EXCEPT ![r] = At(r).of] /\ step' = [step EXCEPT ![r] = "stream"]
          /\ UNCHANGED <<dir, inode, part, target, body, offset, got>>
      BY <1>1, <2>1 DEF Open, To
    <3>2. Settled(At(r).of) /\ At(r).of \in Ino
      BY <2>0, <2>1 DEF FilesInv, Entry, At, Settled, Ino
    <3>3. FilesTyped'
      BY <1>0, <3>1, <3>2 DEF FilesTyped, FileSteps
    <3>4. holds'[r] = At(r).of /\ step'[r] = "stream"
      BY <1>0, <3>1 DEF FilesTyped
    <3>5. Rest(Len(inode[holds'[r]].data), offset'[r]) \in Nat
      <4>1. inode[holds'[r]].data \in Seq(Ino) /\ offset'[r] \in Nat
        BY <1>0, <3>1, <3>2, <3>4, TypedParts
      <4>2. Len(inode[holds'[r]].data) \in Nat
        BY <4>1
      <4> QED
        BY <4>1, <4>2 DEF Rest
    <3>6. Writes(r)' /\ Aims(r)'
      BY <1>0, <1>1, <3>1, <3>4 DEF Writes, Aims, Complete, Open
    <3>7. \A q \in Call \ {r} : holds'[q] = holds[q] /\ step'[q] = step[q]
      BY <1>0, <3>1 DEF FilesTyped
    <3>8. /\ Settled(holds'[r]) /\ step[r] # "answered"
          /\ Len(got'[r]) <= Rest(Len(inode[holds'[r]].data), offset'[r])
      BY <1>1, <2>0, <3>1, <3>2, <3>4, <3>5 DEF Open
    <3> QED
      BY <2>0, <3>1, <3>3, <3>4, <3>6, <3>7, <3>8, StepOfOneRequest
  <2>2. CASE At(r).kind # "file"
    <3>1. /\ step' = [step EXCEPT ![r] = "answered"]
          /\ UNCHANGED <<dir, inode, part, target, body, offset, holds, got>>
      BY <1>1, <2>2 DEF Open, To
    <3>2. FilesTyped' /\ step'[r] = "answered"
      BY <1>0, <3>1 DEF FilesTyped, FileSteps
    <3>3. Writes(r)' /\ Aims(r)'
      BY <1>0, <1>1, <3>1, <3>2 DEF Writes, Aims, Open
    <3> QED
      BY <1>0, <1>1, <2>0, <3>1, <3>2, <3>3, StepOfOneRequest DEF Open, FilesTyped
  <2> QED
    BY <2>1, <2>2
<1>2. CASE Stream(r)
  <2> DEFINE data == inode[holds[r]].data
             next == offset[r] + Len(got[r]) + 1
             want == Rest(Len(data), offset[r])
  <2>0. /\ step[r] = "stream" /\ Settled(holds[r]) /\ holds[r] \in Ino
        /\ data \in Seq(Ino) /\ got[r] \in Seq(Ino) /\ Uniform(data, holds[r])
        /\ Len(got[r]) \in Nat /\ Len(data) \in Nat /\ Len(got[r]) <= want
        /\ offset[r] \in Nat
    <3>1. step[r] = "stream" /\ Settled(holds[r]) /\ Len(got[r]) <= want
      BY <1>0, <1>2 DEF Stream, Reads, Wanted
    <3>2. holds[r] \in Ino
      BY <3>1 DEF Settled, Ino
    <3>3. Uniform(data, holds[r])
      BY <3>1 DEF FilesInv, Settled, Complete, Uniform, OldFile
    <3>4. data \in Seq(Ino) /\ got[r] \in Seq(Ino)
      BY <1>0, <3>2, TypedParts
    <3>5. Len(got[r]) \in Nat /\ Len(data) \in Nat /\ offset[r] \in Nat
      BY <1>0, <3>4, TypedParts
    <3> QED
      BY <3>1, <3>2, <3>3, <3>4, <3>5
  <2>1. got[r] = <<>> \/ Uniform(got[r], holds[r])
    BY <1>0 DEF Reads
  <2>2. CASE next <= Len(data)
    <3>1. /\ got' = [got EXCEPT ![r] = Append(got[r], data[next])]
          /\ UNCHANGED <<step, dir, inode, part, target, body, offset, holds>>
      BY <1>2, <2>2 DEF Stream, Position
    <3>2. data[next] = holds[r] /\ data[next] \in Ino
      BY <2>0, <2>2 DEF Uniform
    <3>3. FilesTyped'
      BY <1>0, <2>0, <3>1, <3>2 DEF FilesTyped
    <3>4. /\ got'[r] \in Seq(Ino) /\ Len(got'[r]) = Len(got[r]) + 1
          /\ got'[r][Len(got[r]) + 1] = holds[r]
          /\ \A k \in 1..Len(got[r]) : got'[r][k] = got[r][k]
      BY <1>0, <2>0, <3>1, <3>2 DEF FilesTyped
    <3>5. Uniform(got'[r], holds[r])
      BY <2>0, <2>1, <3>4 DEF Uniform
    <3>6. Writes(r)' /\ Aims(r)'
      BY <1>0, <3>1 DEF Writes, Aims, Complete, Uniform
    <3>7. Len(got'[r]) <= want
      <4> HIDE DEF data
      <4>1. \A k \in Nat : k <= want => (offset[r] + k + 1 <= Len(data) => k + 1 <= want)
        BY <2>0, RestOf
      <4> QED
        BY <2>0, <2>2, <3>4, <4>1
    <3> QED
      BY <1>0, <2>0, <2>2, <3>1, <3>3, <3>4, <3>5, <3>6, <3>7, StepOfOneRequest DEF FilesTyped
  <2>3. CASE ~(next <= Len(data))
    <3>1. /\ step' = [step EXCEPT ![r] = "read"]
          /\ UNCHANGED <<got, dir, inode, part, target, body, offset, holds>>
      BY <1>2, <2>3 DEF Stream, To, Position
    <3>2. FilesTyped' /\ step'[r] = "read"
      BY <1>0, <3>1 DEF FilesTyped, FileSteps
    <3>3. Len(got[r]) = want /\ want \in Nat
      BY <2>0, <2>3, RestOf
    <3>4. Writes(r)' /\ Aims(r)'
      BY <1>0, <2>0, <3>1, <3>2 DEF Writes, Aims, Complete, Uniform
    <3> QED
      BY <1>0, <2>0, <2>1, <3>1, <3>2, <3>3, <3>4, StepOfOneRequest DEF FilesTyped
  <2> QED
    BY <2>2, <2>3
<1> QED
  BY <1>1, <1>2 DEF Reading

\* A step that only moves the request on, to a step with nothing to show.
LEMMA MoveStep ==
  ASSUME FilesInv, NEW r \in Call,
         NEW next \in {"carry", "place", "discard", "answered", "dropped", "rmdir", "unlink"},
         step[r] \notin {"new", "answered", "read", "dropped"},
         To(r, next),
         next \in {"carry", "place"} => Complete(r),
         part' \in {part, part \ {r}},
         next # "dropped" => got[r] = <<>>,
         UNCHANGED <<dir, inode, target, body, offset, holds, got>>
  PROVE  FilesInv'
<1>0. FilesTyped /\ Writes(r) /\ Reads(r) /\ Aims(r)
  BY DEF FilesInv
<1>1. step' = [step EXCEPT ![r] = next]
  BY DEF To
<1>2. FilesTyped' /\ step'[r] = next /\ \A q \in Call \ {r} : step'[q] = step[q]
  BY <1>0, <1>1 DEF FilesTyped, FileSteps
<1>3. Writes(r)' /\ Aims(r)'
  BY <1>0, <1>2 DEF Writes, Aims, Complete, Uniform
<1>4. part' \ {r} \subseteq part
  OBVIOUS
<1> QED
  BY <1>0, <1>2, <1>3, <1>4, StepOfOneRequest DEF Reads

\* A file no entry and no reader has yet may be filled, the mode of any file
\* may change.
LEMMA WriteStep == ASSUME FilesInv, NEW r \in Call, Writing(r) PROVE FilesInv'
<1>0. FilesTyped /\ Writes(r) /\ Reads(r) /\ Aims(r)
  BY DEF FilesInv
<1>t. /\ r \in Ino /\ body[r] \in Nat /\ ChunkLimit \in Nat
      /\ \A i \in Ino : /\ inode[i].data \in Seq(Ino)
                        /\ inode[i].mode \in {"old", "new", "umask"}
                        /\ inode[i] = [data |-> inode[i].data, mode |-> inode[i].mode]
      /\ \A n \in Name : n \in Ino /\ n # r
  BY <1>0, TypedParts, FilesAssumption DEF Ino
<1>g. got[r] = <<>> /\ step[r] \in {"open", "create", "body", "discard", "carry", "place"}
  BY <1>0 DEF Reads, Writing, OpenFails, Create, Chunk, BodyFails, Flush, Discard, Carry, PutInPlace
<1>f. CASE OpenFails(r)
  BY <1>f, <1>g, MoveStep DEF OpenFails
<1>1. CASE Create(r)
  <2>1. /\ part' = part \cup {r} /\ holds' = [holds EXCEPT ![r] = r]
        /\ inode' = [inode EXCEPT ![r] = [data |-> <<>>, mode |-> "umask"]]
        /\ step' = [step EXCEPT ![r] = "body"]
        /\ step[r] = "create"
        /\ UNCHANGED <<dir, target, body, offset, got>>
    BY <1>1 DEF Create, To
  <2>2. FilesTyped'
    BY <1>0, <1>t, <2>1 DEF FilesTyped, FileTable, Modes, FileSteps
  <2>3. /\ holds'[r] = r /\ inode'[r].data = <<>> /\ step'[r] = "body"
        /\ \A i \in Ino \ {r} : inode'[i] = inode[i]
        /\ \A q \in Call \ {r} : holds'[q] = holds[q] /\ step'[q] = step[q]
    BY <1>0, <1>t, <2>1 DEF FilesTyped, FileTable
  <2>4. Writes(r)' /\ Aims(r)'
    BY <1>0, <1>t, <2>1, <2>3 DEF Writes, Aims, Uniform
  <2>5. \A q \in Call \ {r} : q \in Ino \ {r}
    BY DEF Ino
  <2> QED
    BY <1>t, <1>g, <2>1, <2>2, <2>3, <2>4, <2>5, StepOfOneRequest
<1>2. CASE Chunk(r)
  <2>0. /\ step[r] = "body" /\ holds[r] = r /\ Uniform(inode[r].data, r)
        /\ Len(inode[r].data) < body[r] /\ Len(inode[r].data) \in Nat
    <3>1. step[r] = "body" /\ holds[r] = r /\ Uniform(inode[r].data, r)
      BY <1>0, <1>2 DEF Chunk, Writes
    <3>2. Sent(r) = Len(inode[r].data)
      BY <3>1, FilesAssumption DEF Sent
    <3> QED
      BY <1>2, <1>t, <3>1, <3>2 DEF Chunk
  <2>1. CASE OverLimit(r)
    BY <1>2, <1>g, <2>1, MoveStep DEF Chunk
  <2>2. CASE ~OverLimit(r)
    <3>1. /\ inode' = [inode EXCEPT ![r].data = Append(inode[r].data, r)]
          /\ UNCHANGED <<dir, part, target, body, offset, holds, got, step>>
      BY <1>2, <2>0, <2>2 DEF Chunk
    <3>2. Len(inode[r].data) + 1 <= ChunkLimit
      BY <1>t, <2>0, <2>2, FilesAssumption DEF OverLimit, Sent
    <3>3. inode[r].data \in Seq(Ino) /\ inode \in FileTable
      BY <1>0, <1>t DEF FilesTyped
    <3>4. Append(inode[r].data, r) \in Seq(Ino)
      BY <1>t, <3>3
    <3>6. /\ inode' \in FileTable
          /\ inode'[r].data = Append(inode[r].data, r)
          /\ \A i \in Ino \ {r} : inode'[i] = inode[i]
      BY <1>t, <3>1, <3>3, <3>4, DataWritten
    <3>5. FilesTyped'
      BY <1>0, <3>1, <3>6 DEF FilesTyped
    <3>7. Uniform(inode'[r].data, r) /\ Len(inode'[r].data) = Len(inode[r].data) + 1
      BY <1>t, <2>0, <3>6 DEF Uniform
    <3>8. Writes(r)' /\ Aims(r)'
      BY <1>0, <1>t, <2>0, <3>1, <3>2, <3>7 DEF Writes, Aims
    <3>9. \A q \in Call \ {r} : q \in Ino \ {r}
      BY DEF Ino
    <3> QED
      BY <1>t, <1>g, <2>0, <3>1, <3>5, <3>6, <3>8, <3>9, StepOfOneRequest
  <2> QED
    BY <2>1, <2>2
<1>3. CASE BodyFails(r)
  BY <1>3, <1>g, MoveStep DEF BodyFails
<1>4. CASE Flush(r)
  <2>1. Complete(r)
    BY <1>0, <1>4, FilesAssumption DEF Flush, Writes, Complete, Sent
  <2> QED
    BY <1>4, <1>g, <2>1, MoveStep DEF Flush
<1>5. CASE Discard(r)
  BY <1>5, <1>g, MoveStep DEF Discard
<1>6. CASE Carry(r)
  <2>0. Complete(r) /\ step[r] = "carry"
    BY <1>0, <1>6 DEF Carry, Writes
  <2>1. CASE UNCHANGED inode
    BY <1>6, <1>g, <2>0, <2>1, MoveStep DEF Carry
  <2>2. CASE At(r).kind = "file" /\ inode' = [inode EXCEPT ![r].mode = inode[At(r).of].mode]
    <3>1. /\ inode' = [inode EXCEPT ![r].mode = inode[At(r).of].mode]
          /\ step' = [step EXCEPT ![r] = "place"]
          /\ UNCHANGED <<dir, part, target, body, offset, holds, got>>
      BY <1>6, <2>2 DEF Carry, To
    <3>2. Path(r) \in Name
      BY <1>0, <2>0 DEF Aims, Path
    <3>3. Settled(At(r).of)
      BY <2>2, <3>2 DEF FilesInv, Entry, At
    <3>4. At(r).of \in Ino
      BY <3>3 DEF Settled, Ino
    <3>5. inode' \in FileTable /\ \A i \in Ino : inode'[i].data = inode[i].data
      BY <1>0, <1>t, <3>1, <3>4, ModeChanged DEF FilesTyped, Modes
    <3>6. FilesTyped'
      BY <1>0, <3>1, <3>5 DEF FilesTyped, FileSteps
    <3>7. step'[r] = "place" /\ \A q \in Call \ {r} : step'[q] = step[q]
      BY <1>0, <3>1 DEF FilesTyped
    <3>8. Writes(r)' /\ Aims(r)'
      BY <1>0, <1>t, <2>0, <3>1, <3>7 DEF Writes, Aims, Complete, Uniform
    <3>9. \A q \in Call \ {r} : q \in Ino
      BY DEF Ino
    <3> QED
      BY <1>t, <1>g, <2>0, <3>1, <3>5, <3>6, <3>7, <3>8, <3>9, StepOfOneRequest
  <2> QED
    BY <1>6, <2>1, <2>2 DEF Carry
<1>7. CASE PutInPlace(r)
  <2>0. Complete(r) /\ step[r] = "place" /\ Path(r) \in Name
    BY <1>0, <1>7 DEF PutInPlace, Writes, Aims, Path
  <2>1. CASE To(r, "discard") /\ UNCHANGED <<dir, part>>
    BY <1>7, <1>g, <2>0, <2>1, MoveStep DEF PutInPlace
  <2>2. CASE dir' = [dir EXCEPT ![Path(r)] = File(r)] /\ part' = part \ {r} /\ To(r, "answered")
    <3>1. /\ dir' = [dir EXCEPT ![Path(r)] = File(r)] /\ part' = part \ {r}
          /\ step' = [step EXCEPT ![r] = "answered"]
          /\ UNCHANGED <<inode, target, body, offset, holds, got>>
      BY <1>7, <2>2 DEF PutInPlace, To
    <3>2. FilesTyped'
      BY <1>0, <1>t, <2>0, <3>1, Items DEF FilesTyped, FileSteps
    <3>3. /\ step'[r] = "answered" /\ \A q \in Call \ {r} : step'[q] = step[q]
          /\ \A n \in Name : dir'[n] = IF n = Path(r) THEN File(r) ELSE dir[n]
      BY <1>0, <3>1 DEF FilesTyped
    <3>4. Complete(r)' /\ Writes(r)' /\ Aims(r)'
      BY <1>0, <2>0, <3>1, <3>3 DEF Writes, Aims, Complete, Uniform
    <3> QED
      BY <1>t, <1>g, <2>0, <3>1, <3>2, <3>3, <3>4, StepOfOneRequest
  <2> QED
    BY <1>7, <2>1, <2>2 DEF PutInPlace
<1> QED
  BY <1>f, <1>1, <1>2, <1>3, <1>4, <1>5, <1>6, <1>7 DEF Writing

\* The operations that change one entry take or move one that is there.
LEMMA EditStep == ASSUME FilesInv, NEW r \in Call, Editing(r) PROVE FilesInv'
<1>0. FilesTyped /\ Writes(r) /\ Reads(r) /\ Aims(r)
  BY DEF FilesInv
<1>1. /\ step[r] \in {"remove", "rmdir", "unlink", "rename", "chmod", "mkdir"}
      /\ target[r] \in Name \X Name /\ Path(r) \in Name /\ target[r][2] \in Name
  BY <1>0 DEF Aims, Path, Editing, Look, Remove, Rename, Chmod, Mkdir
<1>2. got[r] = <<>>
  BY <1>0, <1>1 DEF Reads
<1>3. CASE Look(r)
  <2> DEFINE next == CASE At(r).kind = "dir" -> "rmdir" [] At(r).kind = "none" -> "answered"
                       [] OTHER -> "unlink"
  <2>1. next \in {"answered", "rmdir", "unlink"}
    OBVIOUS
  <2>2. To(r, next) /\ UNCHANGED <<dir, inode, part, target, body, offset, holds, got>>
    BY <1>3 DEF Look
  <2> QED
    BY <1>1, <1>2, <2>1, <2>2, MoveStep
\* The dir that is left has only entries it had, folders and gaps.
<1>4. ASSUME dir' \in [Name -> Item],
             \A n \in Name : (\E m \in Name : dir'[n] = dir[m]) \/ dir'[n].kind \in {"dir", "none"},
             To(r, "answered"),
             UNCHANGED <<inode, part, target, body, offset, holds, got>>
      PROVE  FilesInv'
  <2>1. step' = [step EXCEPT ![r] = "answered"]
    BY <1>4 DEF To
  <2>2. FilesTyped' /\ step'[r] = "answered" /\ \A q \in Call \ {r} : step'[q] = step[q]
    BY <1>0, <1>4, <2>1 DEF FilesTyped, FileSteps
  <2>3. Writes(r)' /\ Aims(r)'
    BY <1>0, <1>2, <1>4, <2>2 DEF Writes, Aims
  <2> QED
    BY <1>1, <1>2, <1>4, <2>2, <2>3, StepOfOneRequest
<1>5. CASE Remove(r)
  <2>1. /\ dir' = [dir EXCEPT ![Path(r)] = Nothing] \/ dir' = dir
        /\ To(r, "answered") /\ UNCHANGED <<inode, part, target, body, offset, holds, got>>
    BY <1>5 DEF Remove
  <2>2. dir' \in [Name -> Item]
    BY <1>0, <1>1, <2>1, Items DEF FilesTyped
  <2>3. \A n \in Name : dir'[n] = dir[n] \/ dir'[n].kind = "none"
    BY <1>0, <2>1, Items DEF FilesTyped
  <2> QED
    BY <1>4, <2>1, <2>2, <2>3
<1>6. CASE Rename(r)
  <2> DEFINE to == target[r][2]
  <2>1. /\ dir' = [dir EXCEPT ![Path(r)] = Nothing, ![to] = At(r)] \/ dir' = dir
        /\ To(r, "answered") /\ UNCHANGED <<inode, part, target, body, offset, holds, got>>
    BY <1>6 DEF Rename
  <2>2. dir' \in [Name -> Item]
    BY <1>0, <1>1, <2>1, Items DEF FilesTyped, At
  <2>3. \A n \in Name : dir'[n] \in {dir[n], dir[Path(r)]} \/ dir'[n].kind = "none"
    BY <1>0, <1>1, <2>1, Items DEF FilesTyped, At
  <2> QED
    BY <1>1, <1>4, <2>1, <2>2, <2>3
<1>7. CASE Mkdir(r)
  <2>1. /\ dir' = [dir EXCEPT ![Path(r)] = Folder] \/ dir' = dir
        /\ To(r, "answered") /\ UNCHANGED <<inode, part, target, body, offset, holds, got>>
    BY <1>7 DEF Mkdir
  <2>2. dir' \in [Name -> Item]
    BY <1>0, <1>1, <2>1, Items DEF FilesTyped
  <2>3. \A n \in Name : dir'[n] = dir[n] \/ dir'[n].kind = "dir"
    BY <1>0, <2>1, Items DEF FilesTyped
  <2> QED
    BY <1>4, <2>1, <2>2, <2>3
<1>8. CASE Chmod(r)
  <2>1. CASE At(r).kind # "file"
    <3>1. inode' = inode /\ To(r, "answered") /\ UNCHANGED <<dir, part, target, body, offset, holds, got>>
      BY <1>8, <2>1 DEF Chmod
    <3> QED
      BY <1>1, <1>2, <3>1, MoveStep
  <2>2. CASE At(r).kind = "file"
    <3>1. /\ inode' = [inode EXCEPT ![At(r).of].mode = "new"]
          /\ step' = [step EXCEPT ![r] = "answered"]
          /\ UNCHANGED <<dir, part, target, body, offset, holds, got>>
      BY <1>8, <2>2 DEF Chmod, To
    <3>2. At(r).of \in Ino
      BY <1>1, <2>2 DEF FilesInv, Entry, Settled, Ino, At
    <3>3. inode' \in FileTable /\ \A i \in Ino : inode'[i].data = inode[i].data
      BY <1>0, <3>1, <3>2, ModeChanged DEF FilesTyped, Modes
    <3>4. FilesTyped' /\ step'[r] = "answered" /\ \A q \in Call \ {r} : step'[q] = step[q]
      BY <1>0, <3>1, <3>3 DEF FilesTyped, FileSteps
    <3>5. \A i \in Name \cup Call : i \in Ino
      BY DEF Ino
    <3>6. Writes(r)' /\ Aims(r)'
      BY <1>0, <1>2, <3>1, <3>3, <3>4, <3>5 DEF Writes, Aims
    <3> QED
      BY <1>1, <1>2, <3>1, <3>3, <3>4, <3>5, <3>6, StepOfOneRequest
  <2> QED
    BY <2>1, <2>2
<1> QED
  BY <1>3, <1>5, <1>6, <1>7, <1>8 DEF Editing

\* The handler is dropped.
LEMMA DropStep == ASSUME FilesInv, NEW r \in Call, Drop(r) PROVE FilesInv'
  BY MoveStep DEF Drop

\* The invariant of the files holds in the beginning.
LEMMA FilesInvInit == FilesInit => FilesInv
<1> SUFFICES ASSUME FilesInit PROVE FilesInv
  OBVIOUS
<1>1. /\ \A i \in Name : i \in Ino /\ <<i, i>> \in Seq(Ino)
      /\ <<>> \in Seq(Ino)
  BY DEF Ino
<1>2. dir \in [Name -> Item]
  BY <1>1, Items DEF FilesInit
<1>3. /\ inode \in FileTable
      /\ \A i \in Name : inode[i].data = <<i, i>>
      /\ \A r \in Call : inode[r].data = <<>>
  <2> DEFINE bytes(i) == IF i \in Name THEN <<i, i>> ELSE <<>>
  <2>1. \A i \in Ino : bytes(i) \in Seq(Ino)
    BY <1>1
  <2>2. inode = [i \in Ino |-> [data |-> bytes(i), mode |-> "old"]]
    BY DEF FilesInit
  <2> HIDE DEF bytes
  <2>3. inode \in FileTable /\ \A i \in Ino : inode[i].data = bytes(i)
    BY <2>1, <2>2 DEF FileTable, Modes
  <2> QED
    BY <2>3, FilesAssumption DEF bytes, Ino
<1>4. FilesTyped
  <2>1. Longest \in Nat
    BY FilesAssumption DEF Longest, OldLength
  <2> QED
    BY <1>2, <1>3, <2>1, FilesAssumption DEF FilesInit, FilesTyped, FileSteps
<1>5. ASSUME NEW n \in Name
      PROVE  Entry(n) /\ OldFile(n)
  <2>1. CASE n \in DOMAIN Links
    <3>1. dir[n] = Link(Links[n]) /\ Links[n] \in Name \cup {Outside}
      BY <2>1, FilesAssumption DEF FilesInit
    <3>2. dir[n].kind = "link" /\ dir[n].of \in Name \cup {Outside}
      BY <3>1, Items
    <3> QED
      BY <1>3, <3>2 DEF Entry, OldFile
  <2>2. CASE n \notin DOMAIN Links
    <3>1. dir[n] \in {File(n), Folder, Nothing}
      BY <2>2 DEF FilesInit
    <3> QED
      BY <1>3, <3>1, Items DEF Entry, OldFile, Settled
  <2> QED
    BY <2>1, <2>2
<1>6. \A r \in Call : Writes(r) /\ Reads(r) /\ Aims(r)
  BY <1>3, FilesAssumption DEF FilesInit, Writes, Reads, Aims
<1> QED
  BY <1>4, <1>5, <1>6 DEF FilesInv

\* A step on the files keeps it.
LEMMA FilesInvStep == FilesInv /\ [FilesNext]_filesVars => FilesInv'
<1>1. FilesInv /\ UNCHANGED filesVars => FilesInv'
  BY DEF filesVars, FilesInv, FilesTyped, Entry, OldFile, Writes, Reads, Wanted,
         Aims, Settled, Complete, Uniform
<1> QED
  BY <1>1, AskStep, ReadStep, WriteStep, EditStep, DropStep DEF FilesNext, Asking

\* What is said of the files follows from it.
LEMMA FilesFollow == FilesInv => FilesTypeOK /\ FilesWhole /\ ReadIsOneVersion
<1> SUFFICES ASSUME FilesInv PROVE FilesTypeOK /\ FilesWhole /\ ReadIsOneVersion
  OBVIOUS
<1>1. /\ FilesTyped
      /\ \A n \in Name : Entry(n) /\ OldFile(n) /\ n \in Ino /\ n \notin Call
      /\ \A r \in Call : Writes(r) /\ Reads(r) /\ Aims(r) /\ r \in Ino /\ r \notin Name
  BY FilesAssumption DEF FilesInv, Ino
<1>2. ASSUME NEW i, Settled(i)
      PROVE  i \in Ino /\ Uniform(inode[i].data, i) /\ Len(inode[i].data) = Whole(i)
  <2>1. CASE i \in Name
    <3>1. inode[i].data = <<i, i>>
      BY <1>1, <2>1 DEF OldFile
    <3> QED
      BY <1>1, <2>1, <3>1, TwoChunks DEF Uniform, Whole, OldLength
  <2>2. CASE i \notin Name
    BY <1>1, <1>2, <2>2 DEF Settled, Complete, Whole
  <2> QED
    BY <2>1, <2>2
<1>3. FilesWhole
  BY <1>1, <1>2 DEF FilesWhole, Entry
<1>4. ASSUME NEW r \in Call
      PROVE  \E i \in Ino : Uniform(got[r], i) /\ (step[r] = "read" => Len(got[r]) = Rest(Whole(i), offset[r]))
  <2>1. CASE step[r] = "read"
    <3>1. /\ Settled(holds[r]) /\ holds[r] \in Ino
          /\ Len(got[r]) = Rest(Whole(holds[r]), offset[r])
      BY <1>1, <1>2, <2>1 DEF Reads, Wanted
    <3>2. Uniform(got[r], holds[r])
      BY <1>1 DEF Reads, Uniform
    <3> QED
      BY <3>1, <3>2
  <2>2. CASE step[r] # "read"
    <3>1. CASE got[r] = <<>>
      BY <1>1, <2>2, <3>1 DEF Uniform
    <3>2. CASE got[r] # <<>>
      BY <1>1, <2>2, <3>2 DEF Reads
    <3> QED
      BY <3>1, <3>2
  <2> QED
    BY <2>1, <2>2
<1>5. ASSUME NEW i \in Ino
      PROVE  Len(inode[i].data) <= Longest
  <2>1. Longest \in Nat /\ ChunkLimit \in Nat /\ ChunkLimit <= Longest /\ 2 <= Longest
    BY FilesAssumption DEF Longest, OldLength
  <2>2. CASE i \in Name
    BY <1>1, <2>1, <2>2, TwoChunks DEF OldFile
  <2>3. CASE i \in Call
    <3>1. Len(inode[i].data) \in Nat
      BY <1>1, TypedParts
    <3> QED
      BY <1>1, <2>1, <2>3, <3>1 DEF Writes
  <2> QED
    BY <2>2, <2>3 DEF Ino
<1>6. FilesTypeOK
  <2>1. \A n \in Name : dir[n].kind = "file" => dir[n].of \in Ino
    BY <1>1, <1>2 DEF Entry
  <2> QED
    BY <1>1, <1>5, <2>1, TypedParts DEF FilesTypeOK, FilesTyped
<1> QED
  BY <1>3, <1>4, <1>6 DEF ReadIsOneVersion

\* Under every name there is a whole file, and every finished download is one
\* version from the offset it asked for to the end, however many requests
\* write, rename, remove, fail and are dropped between each other's steps.
THEOREM FilesTheorem == FilesSpec => [](FilesWhole /\ ReadIsOneVersion)
  BY FilesFollow, FilesInvInit, FilesInvStep, PTL DEF FilesSpec

-----------------------------------------------------------------------------
(* /exec.  What was printed is in the pipe or was read, and the handler    *)
(* answers only when the pipe is empty and nobody can print any more.      *)

\* Nothing is lost on the way in or out.
Counts ==
  /\ unsent \in Nat /\ inPipe \in Nat /\ readAll \in Nat
  /\ printed \in Nat /\ outPipe \in Nat /\ output \in Nat
  /\ inPipe <= PipeSize /\ outPipe <= PipeSize /\ printed <= OutputBound
  /\ StdinLen = unsent + inPipe + readAll
  /\ printed = outPipe + output

\* Our end of stdin is open while the handler feeds; the shell is killed only by
\* a handler that gave up.
Flags ==
  /\ phase \in {"feed", "collect", "answered", "expired", "failed"}
  /\ command \in {"running", "exited", "killed"}
  /\ inOpen \in BOOLEAN /\ child \in BOOLEAN /\ elapsed \in BOOLEAN
  /\ command = "killed" => phase \in {"expired", "failed"}
  /\ inOpen <=> phase = "feed"
  /\ phase \in {"answered", "expired", "failed"} => command # "running"

\* After an answer nothing is printed any more.
AnswerWhole == phase = "answered" => reply = cap(printed) /\ command = "exited" /\ ~child

ExecInv == Counts /\ Flags /\ AnswerWhole

\* The sizes.
LEMMA ExecBounds == /\ StdinLen \in Nat /\ PipeSize \in Nat
                    /\ MaxOutput \in Nat /\ OutputBound \in Nat
                    /\ PipeSize > 0
  BY ExecAssumption

\* The invariant of an exec holds in the beginning.
LEMMA ExecInvInit == ExecInit => ExecInv
<1> SUFFICES ASSUME ExecInit PROVE ExecInv
  OBVIOUS
<1>1. Counts
  BY ExecBounds DEF ExecInit, Counts
<1>2. Flags /\ AnswerWhole
  BY Zenon DEF ExecInit, Flags, AnswerWhole
<1> QED
  BY <1>1, <1>2 DEF ExecInv

\* A step keeps the counts.
LEMMA CountsStep == Counts /\ [ExecNext]_execVars => Counts'
<1> SUFFICES ASSUME Counts, [ExecNext]_execVars PROVE Counts'
  OBVIOUS
<1>1. CASE Feed
  BY <1>1, ExecBounds DEF Feed, Counts
<1>3. CASE Collect
  BY <1>3, ExecBounds DEF Collect, Counts
<1>7. CASE ReadsInput
  BY <1>7, ExecBounds DEF ReadsInput, Counts
<1>8. CASE Prints
  BY <1>8, ExecBounds DEF Prints, Counts
<1>9. CASE UNCHANGED <<unsent, inPipe, readAll, printed, outPipe, output>>
  BY <1>9 DEF Counts
<1>10. CASE \/ Fed \/ Answer \/ Timeout \/ ClientGone \/ TimePasses
            \/ Forks \/ Exits \/ ChildExits \/ UNCHANGED execVars
  BY Zenon, <1>9, <1>10
     DEF Fed, Answer, Timeout, ClientGone, Abandon, TimePasses, Forks, Exits, ChildExits,
         execVars
<1> QED
  BY <1>1, <1>3, <1>7, <1>8, <1>9, <1>10
     DEF ExecNext, Handler, Command

\* A step keeps the flags.
LEMMA FlagsStep == Flags /\ [ExecNext]_execVars => Flags'
<1> SUFFICES ASSUME Flags, [ExecNext]_execVars PROVE Flags'
  OBVIOUS
<1> USE DEF Flags
<1>1. CASE Feed
  BY <1>1, Zenon DEF Feed
<1>2. CASE Fed
  BY <1>2, Zenon DEF Fed
<1>4. CASE Answer
  BY <1>4, Zenon DEF Answer, AtEnd
<1>5. CASE Timeout \/ ClientGone
  BY <1>5, Zenon DEF Timeout, ClientGone, Abandon
<1>6. CASE TimePasses
  BY <1>6, Zenon DEF TimePasses
<1>7. CASE Collect \/ ReadsInput \/ Prints
  <2>1. UNCHANGED <<phase, command, inOpen, child, elapsed>>
    BY <1>7, Zenon DEF Collect, ReadsInput, Prints
  <2> QED
    BY <2>1, Zenon
<1>8. CASE Forks
  <2>1. UNCHANGED <<phase, command, inOpen, elapsed>> /\ child' \in BOOLEAN
    BY <1>8, Zenon DEF Forks
  <2> QED
    BY <2>1, Zenon
<1>9. CASE Exits \/ ChildExits
  <2>1. /\ UNCHANGED <<phase, inOpen, elapsed>>
        /\ command' \in {command, "exited"} /\ child' \in {child, FALSE}
    BY <1>9, Zenon DEF Exits, ChildExits
  <2> QED
    BY <2>1, Zenon
<1>10. CASE UNCHANGED execVars
  BY <1>10, Zenon DEF execVars
<1> QED
  BY <1>1, <1>2, <1>4, <1>5, <1>6, <1>7, <1>8, <1>9, <1>10
     DEF ExecNext, Handler, Command

\* A step keeps an answer whole.
LEMMA WholeStep == ExecInv /\ [ExecNext]_execVars => AnswerWhole'
<1> SUFFICES ASSUME ExecInv, [ExecNext]_execVars PROVE AnswerWhole'
  OBVIOUS
<1>4. CASE Answer
  <2>1. outPipe = 0 /\ printed = output
    BY <1>4 DEF Answer, AtEnd, ExecInv, Counts
  <2>2. phase # "answered" /\ phase = "collect" /\ command # "killed" 
    BY <1>4, Zenon DEF Answer, ExecInv, Flags
  <2>3. /\ reply' = cap(output) /\ printed' = printed /\ command' = command /\ command # "running"
        /\ child' = child /\ ~child
    BY <1>4, Zenon DEF Answer, AtEnd
  <2>4. reply' = cap(printed)'
    BY <2>1, <2>3, Zenon DEF cap
  <2> QED
    BY <2>2, <2>3, <2>4, Zenon DEF ExecInv, Flags, AnswerWhole
<1>5. CASE phase' # "answered"
  BY <1>5 DEF AnswerWhole
<1>6. CASE phase = "answered" /\ UNCHANGED <<phase, reply, printed, command, child>>
  BY <1>6, Zenon DEF AnswerWhole, ExecInv, cap
<1>7. CASE UNCHANGED execVars
  BY <1>5, <1>6, <1>7, Zenon DEF execVars
<1>8. CASE Feed \/ Fed \/ Collect \/ Timeout \/ ClientGone
  BY <1>5, <1>8, Zenon DEF Feed, Fed, Collect, Timeout, ClientGone
<1>9. CASE TimePasses \/ ReadsInput \/ Prints \/ Forks \/ Exits \/ ChildExits
  BY <1>5, <1>6, <1>9, Zenon
     DEF TimePasses, ReadsInput, Prints, Forks, Exits, ChildExits, ExecInv, Flags, AnswerWhole
<1> QED
  BY <1>4, <1>7, <1>8, <1>9, Zenon
     DEF ExecNext, Handler, Command

\* A step of an exec keeps its invariant.
LEMMA ExecInvStep == ExecInv /\ [ExecNext]_execVars => ExecInv'
  BY CountsStep, FlagsStep, WholeStep DEF ExecInv

\* What is said of an exec follows from it.
LEMMA ExecFollow == ExecInv => ExecAnswerIsWhole /\ ExecTypeOK
<1> SUFFICES ASSUME ExecInv PROVE ExecAnswerIsWhole /\ ExecTypeOK
  OBVIOUS
<1>1. /\ unsent \in 0..StdinLen /\ inPipe \in 0..PipeSize /\ readAll \in 0..StdinLen
      /\ printed \in 0..OutputBound /\ outPipe \in 0..PipeSize /\ output \in 0..OutputBound
      /\ StdinLen = unsent + inPipe + readAll
  BY ExecBounds DEF ExecInv, Counts
<1>2. {inOpen, child, elapsed} \subseteq BOOLEAN
  BY Zenon DEF ExecInv, Flags
<1> QED
  BY <1>1, <1>2, Zenon DEF ExecInv, Flags, AnswerWhole, ExecTypeOK, ExecAnswerIsWhole

\* Every answer has all that was printed, up to the cap, and leaves no shell
\* running and no end of its stdin open, whatever the command does.
THEOREM ExecTheorem == ExecSpec => []ExecAnswerIsWhole
<1>1. ExecInv => ExecAnswerIsWhole
  BY ExecFollow
<1> QED
  BY <1>1, ExecInvInit, ExecInvStep, PTL DEF ExecSpec

-----------------------------------------------------------------------------
(* The connection to sshd.                                                 *)
-----------------------------------------------------------------------------
(* The invariant.  A connection that has not compared yet has found        *)
(* nothing and was shown a key; a mismatch is stashed until it is told;    *)
(* and whoever went on in the present era did so with the present record,  *)
(* which is why HostKeyStands compares connections and not the record.     *)

Unsettled == {"new", "select", "insert"}

NothingFound ==
  \A d \in Dial : /\ stage[d] \in Unsettled => found[d] = NoKey
                  /\ stage[d] \in {"select", "insert"} => key[d] \in HostKey

MismatchStashed ==
  \A d \in Dial : stage[d] = "rejected" /\ found[d] \notin {NoKey, key[d]}
                    => rejection[d] = "host_key_mismatch"

RecordPinned ==
  \A d \in Dial : stage[d] \in Trusted =>
    /\ pinned[d][1] # NoKey
    /\ pinned[d][2] <= era
    /\ pinned[d][2] = era => pinned[d][1] = record

HostInv == HostTypeOK /\ NothingFound /\ MismatchStashed /\ RecordPinned /\ HostKeyStands

HostReasons == {"none", "connect_failed", "host_key_mismatch", "auth_failed", "bad_key",
            "protocol_error"}

HostStages == {"new", "select", "insert", "rejected", "connected", "asking", "authenticated",
           "shell", "failed"}

\* The type invariant, one variable at a time.
HostTyped ==
  /\ record \in HostKey \cup {NoKey} /\ serving \in HostKey
  /\ stage \in [Dial -> HostStages]
  /\ key \in [Dial -> HostKey \cup {NoKey}] /\ found \in [Dial -> HostKey \cup {NoKey}]
  /\ era \in 0..EraBound
  /\ pinned \in [Dial -> (HostKey \cup {NoKey}) \X (0..EraBound)]
  /\ moved \in [Dial -> BOOLEAN]
  /\ rejection \in [Dial -> HostReasons] /\ reason \in [Dial -> HostReasons]

\* The types conjunct by conjunct are the types.
LEMMA HostTypedIsType == HostTyped <=> HostTypeOK
  BY DEF HostTyped, HostTypeOK, HostStages, HostReasons

\* So they are after a step.
LEMMA HostTypedIsTypeNext == HostTyped' <=> HostTypeOK'
  BY DEF HostTyped, HostTypeOK, HostStages, HostReasons

-----------------------------------------------------------------------------
(* One lemma for each kind of step.                                        *)

\* A step of one connection that ends in no trusted stage keeps what the
\* others have; the facts it must show are about that connection alone.
LEMMA StepOfOneDial ==
  ASSUME HostInv, NEW d \in Dial, HostTyped',
         era' = era,
         record # NoKey => record' = record,
         \A e \in Dial \ {d} : /\ stage'[e] = stage[e] /\ key'[e] = key[e]
                               /\ found'[e] = found[e] /\ pinned'[e] = pinned[e]
                               /\ rejection'[e] = rejection[e] /\ reason'[e] = reason[e]
                               /\ moved'[e] = moved[e],
         stage'[d] \in Unsettled => found'[d] = NoKey,
         stage'[d] \in {"select", "insert"} => key'[d] \in HostKey,
         stage'[d] \in Trusted =>
           /\ key'[d] = pinned'[d][1] \/ (found'[d] = NoKey /\ moved'[d])
           /\ \/ pinned'[d] = <<record', era>> /\ record' # NoKey
              \/ stage[d] \in Trusted /\ pinned'[d] = pinned[d],
         found'[d] \notin {NoKey, key'[d]} => stage'[d] \in {"rejected", "failed"},
         stage'[d] = "failed" /\ found'[d] \notin {NoKey, key'[d]}
           => reason'[d] = "host_key_mismatch",
         stage'[d] = "rejected" /\ found'[d] \notin {NoKey, key'[d]}
           => rejection'[d] = "host_key_mismatch"
  PROVE  HostInv'
<1>1. HostTyped
  BY HostTypedIsType DEF HostInv
<1>2. /\ era \in Nat
      /\ \A e \in Dial : /\ pinned[e] \in (HostKey \cup {NoKey}) \X (0..EraBound)
                         /\ pinned'[e] \in (HostKey \cup {NoKey}) \X (0..EraBound)
                         /\ pinned[e] = <<pinned[e][1], pinned[e][2]>>
                         /\ pinned'[e] = <<pinned'[e][1], pinned'[e][2]>>
  BY <1>1 DEF HostTyped
<1>3. NothingFound' /\ MismatchStashed'
  BY DEF HostInv, NothingFound, MismatchStashed
<1>4. ASSUME NEW e \in Dial, stage'[e] \in Trusted
      PROVE  /\ pinned'[e][1] # NoKey
             /\ pinned'[e][2] <= era
             /\ pinned'[e][2] = era => pinned'[e][1] = record'
             /\ \/ stage[e] \in Trusted /\ pinned'[e] = pinned[e]
                \/ pinned'[e] = <<record', era>>
  <2>1. CASE stage[e] \in Trusted /\ pinned'[e] = pinned[e]
    BY <1>2, <2>1 DEF HostInv, RecordPinned
  <2>2. CASE ~(stage[e] \in Trusted /\ pinned'[e] = pinned[e])
    <3>1. pinned'[e] = <<record', era>> /\ record' # NoKey
      BY <1>4, <2>2
    <3> QED
      BY <1>2, <3>1
  <2> QED
    BY <2>1, <2>2
<1>5. RecordPinned'
  BY <1>4 DEF RecordPinned
<1>6. ASSUME NEW e \in Dial, NEW f \in Dial, stage'[e] \in Trusted, stage'[f] \in Trusted,
             pinned'[e][2] = pinned'[f][2]
      PROVE  pinned'[e] = pinned'[f]
  <2>1. CASE pinned'[e][2] = era
    <3>1. /\ pinned'[e][1] = record' /\ pinned'[e][2] = era
          /\ pinned'[f][1] = record' /\ pinned'[f][2] = era
      BY <1>4, <1>6, <2>1
    <3>2. pinned'[e] = <<record', era>> /\ pinned'[f] = <<record', era>>
      BY <1>2, <3>1, Zenon
    <3> QED
      BY <3>2
  <2>2. CASE pinned'[e][2] # era
    <3>1. /\ stage[e] \in Trusted /\ pinned'[e] = pinned[e]
          /\ stage[f] \in Trusted /\ pinned'[f] = pinned[f]
      BY <1>2, <1>4, <1>6, <2>2
    <3> QED
      BY <1>6, <3>1 DEF HostInv, HostKeyStands
  <2> QED
    BY <2>1, <2>2
<1>7. ASSUME NEW e \in Dial
      PROVE  /\ stage'[e] \in Trusted =>
                  key'[e] = pinned'[e][1] \/ (found'[e] = NoKey /\ moved'[e])
             /\ found'[e] \notin {NoKey, key'[e]} => stage'[e] \in {"rejected", "failed"}
             /\ stage'[e] = "failed" /\ found'[e] \notin {NoKey, key'[e]}
                  => reason'[e] = "host_key_mismatch"
  <2>1. CASE e = d
    BY <2>1
  <2>2. CASE e # d
    BY <2>2 DEF HostInv, HostKeyStands
  <2> QED
    BY <2>1, <2>2
<1>8. HostKeyStands'
  BY <1>6, <1>7 DEF HostKeyStands
<1> QED
  BY <1>3, <1>5, <1>8, HostTypedIsTypeNext DEF HostInv

\* The steps of the handshake, up to the accepted or refused key.
LEMMA DialStep == ASSUME HostInv, NEW d \in Dial, Dials(d) PROVE HostInv'
<1>0. HostTyped
  BY HostTypedIsType DEF HostInv
<1>1. CASE Connect(d)
  <2>1. HostTyped'
    BY <1>0, <1>1 DEF Connect, Goes, HostTyped, HostStages, HostReasons
  <2>2. found[d] = NoKey
    BY <1>1 DEF Connect, HostInv, NothingFound, Unsettled
  <2> QED
    BY <1>0, <1>1, <2>1, <2>2, StepOfOneDial DEF Connect, Goes, HostTyped, Unsettled, Trusted
<1>2. CASE Select(d)
  <2>0. /\ stage[d] = "select" /\ found[d] = NoKey /\ key[d] \in HostKey
        /\ UNCHANGED <<record, era, serving, key, reason, moved>>
    BY <1>2 DEF Select, HostInv, NothingFound, Unsettled
  <2>1. CASE Reject(d, "connect_failed") /\ UNCHANGED <<pinned, found>>
    <3>1. HostTyped'
      BY <1>0, <2>0, <2>1 DEF Reject, Goes, HostTyped, HostStages, HostReasons
    <3> QED
      BY <1>0, <2>0, <2>1, <3>1, StepOfOneDial DEF Reject, Goes, HostTyped, Unsettled, Trusted
  <2>2. CASE found' = [found EXCEPT ![d] = record] /\ record = key[d] /\ Accept(d)
             /\ UNCHANGED rejection
    <3>1. pinned' = [pinned EXCEPT ![d] = <<record, era>>]
          /\ stage' = [stage EXCEPT ![d] = "connected"]
      BY <2>0, <2>2 DEF Accept, Goes
    <3>2. HostTyped'
      BY <1>0, <2>0, <2>2, <3>1 DEF HostTyped, HostStages, HostReasons
    <3> QED
      BY <1>0, <2>0, <2>2, <3>1, <3>2, HostAssumption, StepOfOneDial
         DEF HostTyped, Unsettled, Trusted
  <2>3. CASE found' = [found EXCEPT ![d] = record] /\ record \notin {key[d], NoKey}
             /\ Reject(d, "host_key_mismatch") /\ UNCHANGED pinned
    <3>1. HostTyped'
      BY <1>0, <2>0, <2>3 DEF Reject, Goes, HostTyped, HostStages, HostReasons
    <3> QED
      BY <1>0, <2>0, <2>3, <3>1, StepOfOneDial DEF Reject, Goes, HostTyped, Unsettled, Trusted
  <2>4. CASE found' = [found EXCEPT ![d] = record] /\ record = NoKey /\ Goes(d, "insert")
             /\ UNCHANGED <<pinned, rejection>>
    <3>1. HostTyped'
      BY <1>0, <2>0, <2>4 DEF Goes, HostTyped, HostStages, HostReasons
    <3> QED
      BY <1>0, <2>0, <2>4, <3>1, StepOfOneDial DEF Goes, HostTyped, Unsettled, Trusted
  <2> QED
    BY <1>2, <2>1, <2>2, <2>3, <2>4 DEF Select, Compare
<1>3. CASE Insert(d)
  <2>0. /\ stage[d] = "insert" /\ found[d] = NoKey /\ key[d] \in HostKey
        /\ UNCHANGED <<era, serving, key, found, reason>>
    BY <1>3 DEF Insert, HostInv, NothingFound, Unsettled
  <2>1. CASE record' = Inserted(d) /\ moved' = [moved EXCEPT ![d] = record # NoKey]
             /\ Accept(d) /\ UNCHANGED rejection
    <3>1. /\ pinned' = [pinned EXCEPT ![d] = <<record', era>>]
          /\ stage' = [stage EXCEPT ![d] = "connected"]
          /\ record' = IF record = NoKey THEN key[d] ELSE record
      BY <2>0, <2>1 DEF Accept, Goes, Inserted
    <3>2. record' # NoKey /\ record' \in HostKey \cup {NoKey} /\ moved'[d] = (record # NoKey)
      BY <1>0, <2>0, <2>1, <3>1, HostAssumption DEF HostTyped
    <3>3. HostTyped'
      BY <1>0, <2>0, <2>1, <3>1, <3>2 DEF HostTyped, HostStages, HostReasons
    <3>4. pinned'[d] = <<record', era>> /\ pinned'[d][1] = record'
      BY <1>0, <3>1 DEF HostTyped
    <3>5. key'[d] = pinned'[d][1] \/ (found'[d] = NoKey /\ moved'[d])
      BY <2>0, <3>1, <3>2, <3>4
    <3>6. \A e \in Dial \ {d} : /\ stage'[e] = stage[e] /\ key'[e] = key[e]
                                /\ found'[e] = found[e] /\ pinned'[e] = pinned[e]
                                /\ rejection'[e] = rejection[e] /\ reason'[e] = reason[e]
                                /\ moved'[e] = moved[e]
      BY <1>0, <2>0, <2>1, <3>1 DEF HostTyped
    <3>7. stage'[d] = "connected" /\ (record # NoKey => record' = record)
      BY <1>0, <3>1 DEF HostTyped
    <3> QED
      BY <2>0, <3>2, <3>3, <3>4, <3>5, <3>6, <3>7, StepOfOneDial DEF Unsettled, Trusted
  <2>2. CASE Reject(d, "connect_failed") /\ UNCHANGED <<record, moved, pinned>>
    <3>1. HostTyped'
      BY <1>0, <2>0, <2>2 DEF Reject, Goes, HostTyped, HostStages, HostReasons
    <3> QED
      BY <1>0, <2>0, <2>2, <3>1, StepOfOneDial DEF Reject, Goes, HostTyped, Unsettled, Trusted
  <2> QED
    BY <1>3, <2>1, <2>2 DEF Insert
<1>4. CASE Rejected(d)
  <2>1. HostTyped'
    BY <1>0, <1>4 DEF Rejected, Goes, Told, HostTyped, HostStages, HostReasons
  <2>2. found[d] \notin {NoKey, key[d]} => rejection[d] = "host_key_mismatch"
    BY <1>4 DEF Rejected, HostInv, MismatchStashed
  <2> QED
    BY <1>0, <1>4, <2>1, <2>2, StepOfOneDial DEF Rejected, Goes, Told, HostTyped, Unsettled, Trusted
<1> QED
  BY <1>1, <1>2, <1>3, <1>4 DEF Dials

\* The steps after the key: none of them touches a key or a record.
LEMMA LogInStep == ASSUME HostInv, NEW d \in Dial, LogsIn(d) PROVE HostInv'
<1>0. HostTyped
  BY HostTypedIsType DEF HostInv
<1>1. ASSUME NEW next \in {"authenticated", "asking", "shell", "failed"}, NEW why \in HostReasons,
             stage[d] \in Trusted, Outcome(d, next, why)
      PROVE  HostInv'
  <2>1. /\ found[d] \in {NoKey, key[d]}
        /\ key[d] = pinned[d][1] \/ (found[d] = NoKey /\ moved[d])
    BY <1>1 DEF HostInv, HostKeyStands, Trusted
  <2>2. HostTyped'
    BY <1>0, <1>1 DEF Outcome, Goes, HostTyped, HostStages, HostReasons
  <2>3. stage'[d] = next /\ next \notin Unsettled \cup {"rejected"}
    BY <1>0, <1>1 DEF Outcome, Goes, HostTyped, Unsettled
  <2> QED
    BY <1>0, <1>1, <2>1, <2>2, <2>3, StepOfOneDial DEF Outcome, Goes, HostTyped
<1>2. CASE Forget(d)
  <2>1. HostTyped'
    BY <1>0, <1>2, HostAssumption DEF Forget, Goes, HostTyped, HostStages, HostReasons
  <2> QED
    BY <1>0, <1>2, <2>1, StepOfOneDial DEF Forget, Goes, HostTyped, Unsettled, Trusted
<1>3. CASE Authenticate(d)
  BY <1>1, <1>3 DEF Authenticate, Trusted, HostReasons
<1>4. CASE answer_prompts(d)
  BY <1>1, <1>4 DEF answer_prompts, Trusted, HostReasons
<1>5. CASE open_shell(d)
  BY <1>1, <1>5 DEF open_shell, Trusted, HostReasons
<1> QED
  BY <1>2, <1>3, <1>4, <1>5 DEF LogsIn

\* The world outside: sshd's key, and the operator who deletes the record.
LEMMA WorldStep == ASSUME HostInv, SshdChanges \/ OperatorDeletes PROVE HostInv'
<1>0. HostTyped /\ era \in Nat
  BY HostTypedIsType DEF HostInv, HostTyped
<1>1. CASE SshdChanges
  <2>1. HostTyped'
    BY <1>0, <1>1 DEF SshdChanges, HostTyped
  <2> QED
    BY <1>1, <2>1, HostTypedIsTypeNext
       DEF SshdChanges, HostInv, NothingFound, MismatchStashed, RecordPinned, HostKeyStands
<1>2. CASE OperatorDeletes
  <2>1. HostTyped'
    BY <1>0, <1>2, HostAssumption DEF OperatorDeletes, HostTyped
  <2>2. NothingFound' /\ MismatchStashed' /\ HostKeyStands'
    BY <1>2 DEF OperatorDeletes, HostInv, NothingFound, MismatchStashed, HostKeyStands
  <2>3. ASSUME NEW d \in Dial, stage[d] \in Trusted
        PROVE  /\ pinned[d][1] # NoKey
               /\ pinned[d][2] <= era + 1
               /\ pinned[d][2] # era + 1
    <3>1. pinned[d][2] \in 0..EraBound /\ pinned[d][2] <= era /\ pinned[d][1] # NoKey
      BY <1>0, <2>3 DEF HostInv, RecordPinned, HostTyped
    <3> QED
      BY <1>0, <3>1, HostAssumption
  <2>4. RecordPinned'
    BY <1>2, <2>3 DEF OperatorDeletes, RecordPinned
  <2> QED
    BY <2>1, <2>2, <2>4, HostTypedIsTypeNext DEF HostInv
<1> QED
  BY <1>1, <1>2

-----------------------------------------------------------------------------
(* The theorem.                                                            *)

\* The invariant of the known hosts holds in the beginning.
LEMMA HostInvInit == HostInit => HostInv
<1> SUFFICES ASSUME HostInit PROVE HostInv
  OBVIOUS
<1>1. HostTyped
  BY HostAssumption DEF HostInit, HostTyped, HostStages, HostReasons
<1> QED
  BY <1>1, HostTypedIsType
     DEF HostInit, HostInv, NothingFound, MismatchStashed, RecordPinned, HostKeyStands,
         Trusted, Unsettled

\* A step of the SSH client keeps it.
LEMMA HostInvStep == HostInv /\ [HostNext]_hostVars => HostInv'
<1>1. HostInv /\ UNCHANGED hostVars => HostInv'
  BY DEF hostVars, HostInv, HostTypeOK, NothingFound, MismatchStashed, RecordPinned,
         HostKeyStands
<1> QED
  BY <1>1, DialStep, LogInStep, WorldStep DEF HostNext

\* No race of first connections re-pins the record, no connection goes on with
\* a key that differs from the one on record when it asked, and every such
\* refusal is told as a host key mismatch, for every instance.
THEOREM HostKeyTheorem == HostSpec => []HostKeyStands
<1>1. HostInv => HostKeyStands
  BY DEF HostInv
<1> QED
  BY <1>1, HostInvInit, HostInvStep, PTL DEF HostSpec

\* Every variable of the connections has its type.
THEOREM HostTypes == HostSpec => []HostTypeOK
<1>1. HostInv => HostTypeOK
  BY DEF HostInv
<1> QED
  BY <1>1, HostInvInit, HostInvStep, PTL DEF HostSpec

-----------------------------------------------------------------------------
(* The three side by side.                                                 *)

\* A step of the whole is a step of one and none of the others.
LEMMA OpsInits == Init => FilesInit /\ ExecInit /\ HostInit
  BY DEF Init

\* A step of them all is a step of each, or leaves it alone.
LEMMA OpsSteps ==
  [Next]_vars => [FilesNext]_filesVars /\ [ExecNext]_execVars /\ [HostNext]_hostVars
  BY Zenon DEF Next, vars, Files_, Exec_, Host_

\* Every variable of the three has its type.
THEOREM RemoteOpsTypes == Spec => []TypeOK
<1>1. FilesInv => FilesTypeOK
  BY FilesFollow
<1>2. ExecInv => ExecTypeOK
  BY ExecFollow
<1>3. HostInv => HostTypeOK
  BY DEF HostInv
<1>4. FilesTypeOK /\ ExecTypeOK /\ HostTypeOK => TypeOK
  BY DEF TypeOK
<1> QED
  BY <1>1, <1>2, <1>3, <1>4, OpsInits, OpsSteps, FilesInvInit, FilesInvStep, ExecInvInit,
     ExecInvStep, HostInvInit, HostInvStep, PTL DEF Spec

\* The promises of the three hold side by side.
THEOREM RemoteOpsStand == Spec => [](FilesStand /\ ExecAnswerIsWhole /\ HostKeyStands)
<1>1. FilesInv => FilesStand
  BY FilesFollow DEF FilesStand
<1>2. ExecInv => ExecAnswerIsWhole
  BY ExecFollow
<1>3. HostInv => HostKeyStands
  BY DEF HostInv
<1> QED
  BY <1>1, <1>2, <1>3, OpsInits, OpsSteps, FilesInvInit, FilesInvStep, ExecInvInit,
     ExecInvStep, HostInvInit, HostInvStep, PTL DEF Spec
=============================================================================
