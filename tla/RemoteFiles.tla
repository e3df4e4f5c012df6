----------------------------- MODULE RemoteFiles -----------------------------
(***************************************************************************)
(* /api/v1/fs of the agent (src/monitor/src/api/fs.rs) and the resolution  *)
(* of its paths (src/monitor/src/core/fs_roots.rs): requests that read,    *)
(* write, remove, rename, chmod and make directories in one served         *)
(* directory at the same time.                                             *)
(*                                                                         *)
(* Grain.  Every tokio::fs call is an await: the others may step between   *)
(* any two, and a request can be cancelled there, with the agent or        *)
(* without it.  A path is resolved once, before the first of them.         *)
(*                                                                         *)
(* Abstracted: a file's bytes to a sequence of chunks, each tagged with    *)
(* the file or the request it comes from; directories to empty ones;       *)
(* listing, stat and the root list, which change nothing and whose answer  *)
(* no property is about; authentication and the audit row before them.     *)
(***************************************************************************)
EXTENDS Naturals, Sequences, FiniteSets

CONSTANTS
  Name,        \* names in the served directory
  Links,       \* those that are symbolic links at first, and where they lead
  Outside,     \* where a link leads that leaves the roots
  Call,        \* requests
  ChunkLimit   \* max_write_bytes, in chunks; bodies are at most one longer

ASSUME FilesAssumption ==
  /\ Name \cap Call = {} /\ Outside \notin Name \cup Call
  /\ DOMAIN Links \subseteq Name
  /\ \A n \in DOMAIN Links : Links[n] \in (Name \ DOMAIN Links) \cup {Outside}
  /\ ChunkLimit \in Nat

VARIABLES
  dir,      \* what each name is
  inode,    \* contents and mode; a file at the start has its name's, a written
            \* one its request's
  part,     \* requests whose staging file exists
  step,     \* where a request stands
  asked,    \* the name a remove was given
  target,   \* what its path resolved to, and the other path of a rename
  body,     \* chunks the client will send of a write
  offset,   \* the chunks a read is to skip
  holds,    \* read: the open inode; write: unused
  got       \* read: the chunks sent to the client

filesVars == <<dir, inode, part, step, asked, target, body, offset, holds, got>>

Ino == Name \cup Call
File(i) == [kind |-> "file", of |-> i]
Link(n) == [kind |-> "link", of |-> n]
Folder  == [kind |-> "dir", of |-> Outside]
Nothing == [kind |-> "none", of |-> Outside]

Op == {"read", "write", "remove", "rename", "chmod", "mkdir"}
NoPath == "denied"
OldLength == 2   \* chunks of a file at the start
Longest == IF ChunkLimit > OldLength THEN ChunkLimit ELSE OldLength

FilesInit ==
  /\ dir \in [Name -> {File(n) : n \in Name} \cup {Link(n) : n \in Name \cup {Outside}}
                        \cup {Folder, Nothing}]
  /\ \A n \in Name : IF n \in DOMAIN Links THEN dir[n] = Link(Links[n])
                     ELSE dir[n] \in {File(n), Folder, Nothing}
  /\ inode = [i \in Ino |-> [data |-> IF i \in Name THEN <<i, i>> ELSE <<>>, mode |-> "old"]]
  /\ part = {}
  /\ step = [r \in Call |-> "new"]
  /\ asked = [r \in Call |-> Outside]
  /\ target = [r \in Call |-> <<NoPath, NoPath>>]
  /\ body = [r \in Call |-> 0]
  /\ offset = [r \in Call |-> 0]
  /\ holds = [r \in Call |-> Outside]
  /\ got = [r \in Call |-> <<>>]

-----------------------------------------------------------------------------
\* Paths.

Exists(n) == n # Outside /\ dir[n].kind \in {"file", "dir"}

\* canonicalize and check_within.  A link whose end is missing has no
\* canonical path.
resolve_existing(n) ==
  IF dir[n].kind = "link" THEN (IF Exists(dir[n].of) THEN dir[n].of ELSE NoPath)
  ELSE IF dir[n].kind = "none" THEN NoPath ELSE n

\* What has no canonical path yet is resolved by its parent, the root.
resolve_new(n) ==
  IF dir[n].kind = "link" /\ dir[n].of = Outside THEN NoPath
  ELSE IF resolve_existing(n) = NoPath THEN n ELSE resolve_existing(n)

Resolved(op, n, m) ==
  CASE op \in {"write", "mkdir"} -> <<resolve_new(n), resolve_new(n)>>
    [] op = "rename" -> <<resolve_existing(n), resolve_new(m)>>
    [] OTHER -> <<resolve_existing(n), resolve_existing(n)>>

First(op) == CASE op = "read" -> "open" [] op = "write" -> "create" [] OTHER -> op

\* The request is admitted and its path resolved.
Ask(r, op, n, m, chunks, skip) ==
  /\ step[r] = "new"
  /\ op # "rename" => m = n
  /\ op # "write" => chunks = 0
  /\ op # "read" => skip = 0
  /\ asked' = [asked EXCEPT ![r] = IF op = "remove" THEN n ELSE Outside]
  /\ target' = [target EXCEPT ![r] = Resolved(op, n, m)]
  /\ body' = [body EXCEPT ![r] = chunks]
  /\ offset' = [offset EXCEPT ![r] = skip]
  /\ step' = [step EXCEPT ![r] = IF NoPath \in {Resolved(op, n, m)[1], Resolved(op, n, m)[2]}
                                 THEN "answered" ELSE First(op)]
  /\ UNCHANGED <<dir, inode, part, holds, got>>

To(r, next) == step' = [step EXCEPT ![r] = next]

Path(r) == target[r][1]
At(r) == dir[Path(r)]

-----------------------------------------------------------------------------
\* read: the file is opened once and streamed from what was opened, from the
\* offset the client gave: past the end there is nothing to stream.

\* MUTANT: a client that asks for the rest is given the whole.
IgnoreOffset(r) == Len(got[r])

\* Where the open file is read: seek, and what was read since.
Position(r) == offset[r] + Len(got[r])

Open(r) ==
  /\ step[r] = "open"
  /\ IF At(r).kind = "file"
     THEN holds' = [holds EXCEPT ![r] = At(r).of] /\ To(r, "stream")
     ELSE To(r, "answered") /\ UNCHANGED holds
  /\ UNCHANGED <<dir, inode, part, asked, target, body, offset, got>>

Stream(r) ==
  /\ step[r] = "stream"
  /\ LET data == inode[holds[r]].data
         next == Position(r) + 1
     IN  IF next <= Len(data)
         THEN got' = [got EXCEPT ![r] = Append(@, data[next])] /\ UNCHANGED step
         ELSE To(r, "read") /\ UNCHANGED got
  /\ UNCHANGED <<dir, inode, part, asked, target, body, offset, holds>>

-----------------------------------------------------------------------------
\* write: a staging file beside the destination, then a rename.

Sent(r) == IF holds[r] = Outside THEN 0 ELSE Len(inode[holds[r]].data)

\* MUTANT: the destination itself is created, which truncates it.
CreateInPlace(r) ==
  /\ step[r] = "create"
  /\ At(r).kind # "dir"
  /\ holds' = [holds EXCEPT ![r] = IF At(r).kind = "file" THEN At(r).of ELSE r]
  /\ inode' = [inode EXCEPT ![holds'[r]].data = <<>>]
  /\ To(r, "body")
  /\ UNCHANGED <<dir, part, asked, target, body, offset, got>>

\* The file is not opened or not sought, the staging file not created.
OpenFails(r) ==
  /\ step[r] \in {"open", "create"}
  /\ To(r, "answered")
  /\ UNCHANGED <<dir, inode, part, asked, target, body, offset, holds, got>>

Create(r) ==
  /\ step[r] = "create"
  /\ part' = part \cup {r}
  /\ holds' = [holds EXCEPT ![r] = r]
  /\ inode' = [inode EXCEPT ![r] = [data |-> <<>>, mode |-> "umask"]]
  /\ To(r, "body")
  /\ UNCHANGED <<dir, asked, target, body, offset, got>>

\* MUTANT: the limit is looked at before the chunk is counted.
LateLimit(r) == Sent(r) > ChunkLimit

\* written > limit, the chunk included.
OverLimit(r) == Sent(r) + 1 > ChunkLimit

\* A chunk over the limit is not written.
Chunk(r) ==
  /\ step[r] = "body"
  /\ Sent(r) < body[r]
  /\ IF OverLimit(r)
     THEN To(r, "discard") /\ UNCHANGED inode
     ELSE inode' = [inode EXCEPT ![holds[r]].data = Append(@, r)] /\ UNCHANGED step
  /\ UNCHANGED <<dir, part, asked, target, body, offset, holds, got>>

\* The body breaks off, a write or the flush fails.
BodyFails(r) ==
  /\ step[r] = "body"
  /\ To(r, "discard")
  /\ UNCHANGED <<dir, inode, part, asked, target, body, offset, holds, got>>

\* MUTANT: the end of the connection is taken for the end of the body.
FlushShort(r) ==
  /\ step[r] = "body"
  /\ To(r, "carry")
  /\ UNCHANGED <<dir, inode, part, asked, target, body, offset, holds, got>>

Flush(r) ==
  /\ step[r] = "body"
  /\ Sent(r) = body[r]
  /\ To(r, "carry")
  /\ UNCHANGED <<dir, inode, part, asked, target, body, offset, holds, got>>

\* The staging file of a failed write is removed, if the removal succeeds:
\* nobody looks.
Discard(r) ==
  /\ step[r] = "discard"
  /\ part' \in {part, part \ {r}}
  /\ To(r, "answered")
  /\ UNCHANGED <<dir, inode, asked, target, body, offset, holds, got>>

\* metadata and set_permissions: the old file's mode goes onto the new one; a
\* failure is only warned about.
Carry(r) ==
  /\ step[r] = "carry"
  /\ \/ At(r).kind = "file" /\ inode' = [inode EXCEPT ![r].mode = inode[At(r).of].mode]
     \/ UNCHANGED inode
  /\ To(r, "place")
  /\ UNCHANGED <<dir, part, asked, target, body, offset, holds, got>>

\* rename: a file does not replace a directory, and it may fail otherwise.
PutInPlace(r) ==
  /\ step[r] = "place"
  /\ \/ To(r, "discard") /\ UNCHANGED <<dir, part>>
     \/ /\ At(r).kind # "dir"
        /\ dir' = [dir EXCEPT ![Path(r)] = File(r)]
        /\ part' = part \ {r}
        /\ To(r, "answered")
  /\ UNCHANGED <<inode, asked, target, body, offset, holds, got>>

-----------------------------------------------------------------------------
\* The rest change one entry, or fail.

\* What kind of thing it is is asked first, and how to remove it follows from
\* the answer.
Look(r) ==
  /\ step[r] = "remove"
  /\ To(r, CASE At(r).kind = "dir" -> "rmdir" [] At(r).kind = "none" -> "answered"
             [] OTHER -> "unlink")
  /\ UNCHANGED <<dir, inode, part, asked, target, body, offset, holds, got>>

Removable(r) == IF step[r] = "rmdir" THEN {"dir"} ELSE {"file", "link"}

Remove(r) ==
  /\ step[r] \in {"rmdir", "unlink"}
  /\ dir' = IF At(r).kind \in Removable(r) THEN [dir EXCEPT ![Path(r)] = Nothing] ELSE dir
  /\ To(r, "answered")
  /\ UNCHANGED <<inode, part, asked, target, body, offset, holds, got>>

Rename(r) ==
  /\ step[r] = "rename"
  /\ LET from == At(r)
         to == dir[target[r][2]]
         allowed == /\ from.kind # "none" /\ Path(r) # target[r][2]
                    /\ from.kind = "dir" => to.kind \in {"dir", "none"}
                    /\ from.kind # "dir" => to.kind # "dir"
     IN  dir' = IF allowed THEN [dir EXCEPT ![Path(r)] = Nothing, ![target[r][2]] = from]
                ELSE dir
  /\ To(r, "answered")
  /\ UNCHANGED <<inode, part, asked, target, body, offset, holds, got>>

Chmod(r) ==
  /\ step[r] = "chmod"
  /\ inode' = IF At(r).kind = "file" THEN [inode EXCEPT ![At(r).of].mode = "new"] ELSE inode
  /\ To(r, "answered")
  /\ UNCHANGED <<dir, part, asked, target, body, offset, holds, got>>

Mkdir(r) ==
  /\ step[r] = "mkdir"
  /\ dir' = IF At(r).kind = "none" THEN [dir EXCEPT ![Path(r)] = Folder] ELSE dir
  /\ To(r, "answered")
  /\ UNCHANGED <<inode, part, asked, target, body, offset, holds, got>>

\* The handler is dropped, by its client or with the agent: nothing it would
\* have done after this await is done, the removal of its staging file
\* included.
Drop(r) ==
  /\ step[r] \notin {"new", "answered", "read", "dropped"}
  /\ To(r, "dropped")
  /\ UNCHANGED <<dir, inode, part, asked, target, body, offset, holds, got>>

Asking(r) ==
  \E op \in Op, n \in Name, m \in Name, chunks \in 0..ChunkLimit + 1, skip \in 0..Longest :
    Ask(r, op, n, m, chunks, skip)

Reading(r) == Open(r) \/ Stream(r)
Writing(r) == OpenFails(r) \/ Create(r) \/ Chunk(r) \/ BodyFails(r) \/ Flush(r) \/ Discard(r) \/ Carry(r) \/ PutInPlace(r)
Editing(r) == Look(r) \/ Remove(r) \/ Rename(r) \/ Chmod(r) \/ Mkdir(r)

FilesNext == \E r \in Call : Asking(r) \/ Reading(r) \/ Writing(r) \/ Editing(r) \/ Drop(r)

FilesSpec == FilesInit /\ [][FilesNext]_filesVars

-----------------------------------------------------------------------------
FilesTypeOK ==
  /\ \A n \in Name : /\ dir[n].kind \in {"file", "link", "dir", "none"}
                     /\ dir[n].of \in Ino \cup {Outside}
                     /\ dir[n].kind = "file" => dir[n].of \in Ino
  /\ \A i \in Ino : inode[i].data \in Seq(Ino) /\ Len(inode[i].data) <= Longest
                    /\ inode[i].mode \in {"old", "new", "umask"}
  /\ part \subseteq Call
  /\ body \in [Call -> 0..ChunkLimit + 1]
  /\ offset \in [Call -> 0..Longest]
  /\ holds \in [Call -> Ino \cup {Outside}]
  /\ got \in [Call -> Seq(Ino)]

\* The chunks a whole file from here has.
Whole(i) == IF i \in Name THEN OldLength ELSE body[i]
Uniform(data, i) == \A k \in 1..Len(data) : data[k] = i

\* Under every name there is a whole file, of one request or of the start:
\* writes to one name at once, a body that breaks off, a failed rename, a
\* handler or an agent that dies halfway leave no half-file and no mixture
\* ("a write that dies halfway leaves no half-file under the name something
\* else is about to open").
FilesWhole ==
  \A n \in Name : dir[n].kind = "file" =>
    \E i \in Ino : /\ Uniform(inode[dir[n].of].data, i)
                   /\ Len(inode[dir[n].of].data) = Whole(i)

\* What a read from an offset on has of a file of so many chunks.
Rest(whole, skip) == IF skip < whole THEN whole - skip ELSE 0

\* A download that ends is one version of the file from the offset it was
\* asked from to the end, whatever was written, renamed or removed under its
\* name meanwhile.  Two downloads of which a client joins the second to what
\* it has of the first may be of two versions: nothing in an answer tells.
ReadIsOneVersion ==
  \A r \in Call : \E i \in Ino :
    Uniform(got[r], i) /\ (step[r] = "read" => Len(got[r]) = Rest(Whole(i), offset[r]))

\* What a remove takes away is what it was asked for ("A link is deleted,
\* never followed: removing what it points at is not what anyone means by
\* deleting a shortcut").
RemovesWhatWasAsked ==
  [][\A r \in Call : step[r] \in {"rmdir", "unlink"} /\ dir' # dir /\ step'[r] = "answered"
       => dir'[asked[r]] = Nothing]_filesVars
=============================================================================
