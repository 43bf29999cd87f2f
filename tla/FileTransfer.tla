----------------------------- MODULE FileTransfer -----------------------------
(***************************************************************************)
(* pack_file() and unpack_file() (filetransfer/packer.py, unpacker.py) as   *)
(* processes over one file system.  A call is a sequence of system calls,  *)
(* one action each; between two of them the source may be edited, another   *)
(* call may do its steps, and the process may be killed (the desktop       *)
(* plugin kills a call that takes too long).                               *)
(*                                                                         *)
(* Names are directory entries that refer to inodes, as in POSIX: an open  *)
(* file goes on being read or written under whatever name it has by then,  *)
(* or under none.  Both ends of an artifact are buffered: what a packer    *)
(* writes reaches the file some time later, and what an unpacker reads may *)
(* have been taken from the file some time before.                         *)
(***************************************************************************)
EXTENDS ArtifactFormat, FiniteSets

CONSTANTS
  Packers, Unpackers,  \* the calls of pack_file() and unpack_file()
  Overlapping,         \* the calls that may overlap one of their own kind
  Secret,              \* the master key and suite of each call
  PackChunkSize,       \* the chunk_size of each pack_file()
  Bytes, Zero,         \* byte values; a gap in a file reads as zero
  FirstSource, Edits,  \* the source file, and what an edit may make of it
  Outputs,             \* bound: how often an output name is numbered
  MaxEvents,           \* bound: edits, arrivals, full disks and kills
  Inodes,              \* bound: the files there can be at a time
  NoFile, NoHeader

ASSUME FilesOK ==
  /\ Overlapping \subseteq Packers \cup Unpackers
  /\ FirstSource \in Seq(Bytes) /\ Edits \subseteq Seq(Bytes)
  /\ \A p \in Packers : ChunkSizeValid(PackChunkSize[p])
  /\ Outputs \in Nat \ {0} /\ MaxEvents \in Nat
  /\ NoFile \notin Inodes

\* One inode for each name and each open file, and one to spare: the bound on
\* inodes is never what stops a call.  A full disk is an action.
ASSUME InodesSuffice ==
  /\ IsFiniteSet(Inodes) /\ IsFiniteSet(Packers) /\ IsFiniteSet(Unpackers)
  /\ Cardinality(Inodes) > 3 + 2 * Outputs + Cardinality(Packers)
                                           + 2 * Cardinality(Unpackers)

VARIABLES
  source,     \* the content of the input file
  dir,        \* the inode under each name, or NoFile
  data,       \* the content of each inode
  packer,     \* the locals of each pack_file()
  unpacker,   \* the locals of each unpack_file()
  sealed,     \* history: the contents packed as far as their header says
  events      \* how often the environment has interfered

vars == <<source, dir, data, packer, unpacker, sealed, events>>

Artifact == <<"artifact", 0>>            \* artifact_path of the packers
Packing  == <<"sipft-packing", 0>>       \* and its temporary file
Received == <<"received", 0>>            \* an artifact that came from outside
Output(n) == <<"output", n>>             \* the output name, then " (2)", ...
Unpacking(n) == <<"sipft-unpacking", n>> \* and their temporary files
Names == {Artifact, Packing, Received}
           \cup {Output(n) : n \in 1..Outputs}
           \cup {Unpacking(n) : n \in 1..Outputs}

\* A call that has not begun, or has ended, has no locals and no open files.
NotPacking(pc) == [pc |-> pc, header |-> NoHeader, read |-> <<>>, written |-> 0,
                   dst |-> NoFile, buffer |-> <<>>]
NotUnpacking(pc) == [pc |-> pc, header |-> NoHeader, src |-> NoFile, read |-> <<>>,
                     dst |-> NoFile, out |-> 0, index |-> 0, written |-> 0]

Init ==
  /\ source = FirstSource
  /\ dir = [n \in Names |-> NoFile]
  /\ data = [i \in Inodes |-> <<>>]
  /\ packer = [p \in Packers |-> NotPacking("idle")]
  /\ unpacker = [u \in Unpackers |-> NotUnpacking("idle")]
  /\ sealed = {}
  /\ events = 0

-----------------------------------------------------------------------------
(* Files *)

Ended == {"idle", "done", "failed", "killed", "stranded"}
Active(proc) == proc.pc \notin Ended

Open == {packer[p].dst : p \in Packers}
          \cup {unpacker[u].src : u \in Unpackers}
          \cup {unpacker[u].dst : u \in Unpackers}
Named == {dir[n] : n \in Names}

\* An inode that no name and no open file refers to any more is gone.
Store(content) ==
  \E used \in {Named' \cup Open'} :
    data' = [i \in Inodes |-> IF i \in used THEN content[i] ELSE <<>>]

\* Mutant of Created: a mode of open() that makes no file.
Created_Existing(name) == dir[name]

\* The inode that open(name, "wb") writes: what is there is truncated.
Created(name) ==
  IF dir[name] # NoFile THEN dir[name]
  ELSE CHOOSE i \in Inodes : i \notin Named \cup Open

\* A write at an offset; what was never written before it is a gap.
WriteAt(content, offset, piece, gap) ==
  [k \in 1..(IF Len(content) > offset + Len(piece) THEN Len(content)
                                                   ELSE offset + Len(piece)) |->
     IF k \in (offset + 1)..(offset + Len(piece)) THEN piece[k - offset]
     ELSE IF k <= Len(content) THEN content[k] ELSE gap]

\* os.replace(); os.unlink() of a file that may be gone already.
Renamed(from, to) == [dir EXCEPT ![to] = dir[from], ![from] = NoFile]
Unlinked(name) == [dir EXCEPT ![name] = NoFile]

\* What comes from outside comes at most MaxEvents times.
Interferes == events < MaxEvents /\ events' = events + 1

\* A call may begin unless it would overlap one it must not overlap.
MayBegin(q, kind, proc) ==
  \A r \in kind \ {q} : Active(proc[r]) => {q, r} \subseteq Overlapping

-----------------------------------------------------------------------------
(* pack_file() *)

PackStops(p, pc) == packer' = [packer EXCEPT ![p] = NotPacking(pc)]

\* os.path.getsize() and the header, from the size at this moment.
BeginPack(p) ==
  /\ packer[p].pc = "idle"
  /\ MayBegin(p, Packers, packer)
  /\ IF Len(source) > MaxFileSize THEN PackStops(p, "failed")
     ELSE packer' = [packer EXCEPT ![p].pc = "opening",
                       ![p].header = Header(p, Len(source), PackChunkSize[p])]
  /\ UNCHANGED <<source, dir, data, unpacker, sealed, events>>

\* The content p is sealing is complete once it is as long as the header says.
Sealing(h, content) ==
  sealed' = IF Len(content) >= h.totalSize
            THEN sealed \cup {SubSeq(content, 1, h.totalSize)} ELSE sealed

\* open() of both files in _write_artifact(): the one that is written is empty,
\* and prefix and sealed header are in its buffer.
OpenPacking(p) ==
  /\ packer[p].pc = "opening"
  /\ UNCHANGED <<source, unpacker, events>>
  /\ Sealing(packer[p].header, <<>>)
  /\ LET i == Created(Packing)
     IN  /\ dir' = [dir EXCEPT ![Packing] = i]
         /\ packer' = [packer EXCEPT
                         ![p].pc = "writing", ![p].dst = i,
                         ![p].buffer = <<HeaderFrame(Secret[p], packer[p].header)>>]
         /\ Store([data EXCEPT ![i] = <<>>])

\* src.read(chunk_size) at the offset reached so far.
NextPiece(p) ==
  LET from == Len(packer[p].read)
      size == packer[p].header.chunkSize
  IN  SubSeq(source, from + 1,
             IF from + size < Len(source) THEN from + size ELSE Len(source))

\* One turn of the loop: read, seal, write a frame into the buffer.
PackChunk(p) ==
  /\ packer[p].pc = "writing"
  /\ NextPiece(p) # <<>>
  /\ LET h == packer[p].header
         n == packer[p].written
         prev == IF n = 0 THEN HeaderTag(p) ELSE ChunkTag(p, n - 1)
         frame == ChunkFrame(Secret[p], h, n, prev, NextPiece(p))
     IN  packer' = [packer EXCEPT ![p].written = n + 1, ![p].read = @ \o NextPiece(p),
                                  ![p].buffer = Append(@, frame)]
  /\ Sealing(packer[p].header, packer[p].read \o NextPiece(p))
  /\ UNCHANGED <<source, dir, data, unpacker, events>>

\* How many frames have left the buffer.
Flushed(r) == r.written + 1 - Len(r.buffer)

\* What has gathered in the buffer is written, as far as the call likes: when a
\* write() finds the buffer full, and when the file is closed.
FlushPacking(p) ==
  /\ packer[p].pc \in {"writing", "closing"}
  /\ \E k \in 1..Len(packer[p].buffer) :
       /\ packer' = [packer EXCEPT ![p].buffer = SubSeq(@, k + 1, Len(@))]
       /\ data' = [data EXCEPT ![packer[p].dst] =
                     WriteAt(@, Flushed(packer[p]),
                             SubSeq(packer[p].buffer, 1, k), Damaged)]
  /\ UNCHANGED <<source, dir, unpacker, sealed, events>>

\* The source is at its end: the loop is left.
EndOfSource(p) ==
  /\ packer[p].pc = "writing"
  /\ NextPiece(p) = <<>>
  /\ packer' = [packer EXCEPT ![p].pc = "closing"]
  /\ UNCHANGED <<source, dir, data, unpacker, sealed, events>>

\* written_chunks != total_chunks is how an edit of the source is noticed.
CountMatches(p) == packer[p].written = packer[p].header.totalChunks

\* All is written: both files are closed and the chunks counted.
ClosePacking(p) ==
  /\ packer[p].pc = "closing"
  /\ packer[p].buffer = <<>>
  /\ IF CountMatches(p)
     THEN /\ packer' = [packer EXCEPT ![p].pc = "replacing", ![p].dst = NoFile]
          /\ UNCHANGED dir
     ELSE PackStops(p, "failed") /\ dir' = Unlinked(Packing)
  /\ UNCHANGED <<source, unpacker, sealed, events>>
  /\ Store(data)

\* Mutant of ReplaceArtifact: a file that is gone is waited for.
ReplaceArtifact_Waits(p) ==
  /\ packer[p].pc = "replacing"
  /\ dir[Packing] # NoFile
  /\ PackStops(p, "done")
  /\ dir' = Renamed(Packing, Artifact)
  /\ UNCHANGED <<source, unpacker, sealed, events>>
  /\ Store(data)

\* os.replace(tmp, artifact), which fails if somebody took the file away.
ReplaceArtifact(p) ==
  /\ packer[p].pc = "replacing"
  /\ IF dir[Packing] # NoFile
     THEN PackStops(p, "done") /\ dir' = Renamed(Packing, Artifact)
     ELSE PackStops(p, "failed") /\ UNCHANGED dir
  /\ UNCHANGED <<source, unpacker, sealed, events>>
  /\ Store(data)

\* OSError in _write_artifact(), already at open(): what is under the temporary
\* name is removed, whoever made it.
PackIOError(p) ==
  /\ Interferes
  /\ packer[p].pc \in {"opening", "writing", "closing"}
  /\ PackStops(p, "failed")
  /\ dir' = Unlinked(Packing)
  /\ UNCHANGED <<source, unpacker, sealed>>
  /\ Store(data)

\* An error that nothing cleans up after: os.replace() or os.unlink() raises, or
\* what is raised in _write_artifact() is no OSError.
PackStrands(p) ==
  /\ Interferes
  /\ Active(packer[p])
  /\ PackStops(p, "stranded")
  /\ UNCHANGED dir
  /\ UNCHANGED <<source, unpacker, sealed>>
  /\ Store(data)

KillPack(p) ==
  /\ Interferes
  /\ Active(packer[p])
  /\ PackStops(p, "killed")
  /\ UNCHANGED dir
  /\ UNCHANGED <<source, unpacker, sealed>>
  /\ Store(data)

-----------------------------------------------------------------------------
(* unpack_file() *)

UnpackStops(u, pc) == unpacker' = [unpacker EXCEPT ![u] = NotUnpacking(pc)]

\* Mutant of Fails: the temporary file is not removed.
Fails_Leaves(u) == UnpackStops(u, "failed") /\ UNCHANGED dir

\* An exception after the temporary file was opened: it is removed by name.
Fails(u) ==
  UnpackStops(u, "failed") /\ dir' = Unlinked(Unpacking(unpacker[u].out))

\* The artifact i is open and its header authentic; the reader has taken the
\* first k frames into its buffer.
HeaderRead(u, i, k) ==
  unpacker' = [unpacker EXCEPT
                 ![u].pc = "resolving", ![u].src = i,
                 ![u].read = SubSeq(data[i], 1, k),
                 ![u].header = data[i][1].plain[1]]

\* Open the artifact, read and authenticate its header; the reader may have
\* taken more than that.
BeginUnpack(u) ==
  /\ unpacker[u].pc = "idle"
  /\ MayBegin(u, Unpackers, unpacker)
  /\ \E name \in {Artifact, Received} :
       /\ dir[name] # NoFile
       /\ IF HeaderOpens(data[dir[name]], Secret[u])
          THEN \E k \in 1..Len(data[dir[name]]) : HeaderRead(u, dir[name], k)
          ELSE UnpackStops(u, "failed")
  /\ UNCHANGED <<source, dir, data, packer, sealed, events>>

\* _resolve_output_path(): the first of name, name (2), ... with no file.
FreeOutput(n) ==
  /\ dir[Output(n)] = NoFile
  /\ \A k \in 1..(n - 1) : dir[Output(k)] # NoFile

ResolveOutput(u) ==
  /\ unpacker[u].pc = "resolving"
  /\ \E n \in 1..Outputs :
       /\ FreeOutput(n)
       /\ unpacker' = [unpacker EXCEPT ![u].pc = "opening", ![u].out = n]
  /\ UNCHANGED <<source, dir, data, packer, sealed, events>>

OpenUnpacking(u) ==
  /\ unpacker[u].pc = "opening"
  /\ UNCHANGED <<source, packer, sealed, events>>
  /\ LET name == Unpacking(unpacker[u].out)
         i == Created(name)
     IN  /\ dir' = [dir EXCEPT ![name] = i]
         /\ unpacker' = [unpacker EXCEPT ![u].pc = "verifying", ![u].dst = i]
         /\ Store([data EXCEPT ![i] = <<>>])

\* The file has nothing behind what was read.
AtEnd(u) == Len(data[unpacker[u].src]) <= Len(unpacker[u].read)

\* The reader has no frame left that is not verified: it takes some more.
ReadFrames(u) ==
  /\ unpacker[u].pc = "verifying"
  /\ Len(unpacker[u].read) = unpacker[u].index + 1
  /\ \E k \in (Len(unpacker[u].read) + 1)..Len(data[unpacker[u].src]) :
       unpacker' = [unpacker EXCEPT ![u].read =
                      @ \o SubSeq(data[unpacker[u].src], Len(@) + 1, k)]
  /\ UNCHANGED <<source, dir, data, packer, sealed, events>>

\* One turn of the loop of _verify_chunks(): prev_tag is the tag of the frame
\* read before.
ChunkVerified(u) ==
  LET n == unpacker[u].index
      read == unpacker[u].read
  IN  ChunkOpens(read, Secret[u], unpacker[u].header, n,
                 IF n = 0 THEN HeaderTag(unpacker[u].header.fileId)
                 ELSE read[n + 1].tag)

VerifyChunk(u) ==
  LET n == unpacker[u].index
      plain == unpacker[u].read[n + 2].plain
  IN  /\ unpacker[u].pc = "verifying"
      /\ n < unpacker[u].header.totalChunks
      /\ ChunkVerified(u)
      /\ unpacker' = [unpacker EXCEPT ![u].index = n + 1,
                                      ![u].written = @ + Len(plain)]
      /\ data' = [data EXCEPT ![unpacker[u].dst] =
                    WriteAt(@, unpacker[u].written, plain, Zero)]
      /\ UNCHANGED <<source, dir, packer, sealed, events>>

RejectChunk(u) ==
  /\ unpacker[u].pc = "verifying"
  /\ unpacker[u].index < unpacker[u].header.totalChunks
  /\ Len(unpacker[u].read) > unpacker[u].index + 1 \/ AtEnd(u)
  /\ ~ChunkVerified(u)
  /\ Fails(u)
  /\ UNCHANGED <<source, packer, sealed, events>>
  /\ Store(data)

\* The number of bytes, and _ensure_eof().
EndsExactly(u) ==
  /\ unpacker[u].written = unpacker[u].header.totalSize
  /\ Len(unpacker[u].read) = unpacker[u].header.totalChunks + 1
  /\ AtEnd(u)

EndOfChunks(u) ==
  /\ unpacker[u].pc = "verifying"
  /\ unpacker[u].index = unpacker[u].header.totalChunks
  /\ IF EndsExactly(u)
     THEN /\ unpacker' = [unpacker EXCEPT ![u].pc = "replacing",
                                          ![u].src = NoFile, ![u].dst = NoFile]
          /\ UNCHANGED dir
     ELSE Fails(u)
  /\ UNCHANGED <<source, packer, sealed, events>>
  /\ Store(data)

\* os.replace(tmp, target); target may exist by now.
ReplaceOutput(u) ==
  LET n == unpacker[u].out
  IN  /\ unpacker[u].pc = "replacing"
      /\ IF dir[Unpacking(n)] # NoFile
         THEN UnpackStops(u, "done") /\ dir' = Renamed(Unpacking(n), Output(n))
         ELSE Fails(u)
      /\ UNCHANGED <<source, packer, sealed, events>>
      /\ Store(data)

\* Any other exception in unpack_file(): what is under the temporary name is
\* removed, also when open() fails and it is somebody else's.
UnpackIOError(u) ==
  /\ Interferes
  /\ unpacker[u].pc \in {"opening", "verifying", "replacing"}
  /\ Fails(u)
  /\ UNCHANGED <<source, packer, sealed>>
  /\ Store(data)

\* An error that nothing cleans up after: os.unlink() raises, or what is raised
\* is no Exception.
UnpackStrands(u) ==
  /\ Interferes
  /\ Active(unpacker[u])
  /\ UnpackStops(u, "stranded")
  /\ UNCHANGED dir
  /\ UNCHANGED <<source, packer, sealed>>
  /\ Store(data)

KillUnpack(u) ==
  /\ Interferes
  /\ Active(unpacker[u])
  /\ UnpackStops(u, "killed")
  /\ UNCHANGED dir
  /\ UNCHANGED <<source, packer, sealed>>
  /\ Store(data)

-----------------------------------------------------------------------------
(* The environment *)

\* The source is edited in place.
EditSource ==
  /\ Interferes
  /\ source' \in Edits \ {source}
  /\ UNCHANGED <<dir, data, packer, unpacker, sealed>>

\* What may become of an artifact on its way: it arrives whole, is cut off, has
\* a piece altered or two chunks exchanged, or has pieces of another file in
\* the place of its own or behind them.
OnTheWay(new, other) ==
  {new} \cup {SubSeq(new, 1, k) : k \in 0..(Len(new) - 1)}
        \cup {[new EXCEPT ![k] = Damaged] : k \in 1..Len(new)}
        \cup {[new EXCEPT ![k] = new[j], ![j] = new[k]] : j, k \in 2..Len(new)}
        \cup {SubSeq(new, 1, k) \o SubSeq(other, k + 1, Len(other)) :
                k \in 1..Len(new)}
        \cup {Append(new, other[k]) : k \in 1..Len(other)}

\* A transport puts a file under the received name.
Arrive ==
  /\ Interferes
  /\ dir[Artifact] # NoFile
  /\ UNCHANGED <<source, packer, unpacker, sealed>>
  /\ LET i == CHOOSE i \in Inodes : i \notin Named \cup Open
         others == {data[dir[n]] : n \in {m \in {Artifact, Packing, Received} :
                                           dir[m] # NoFile}}
     IN  \E other \in others :
         \E content \in OnTheWay(data[dir[Artifact]], other) :
           /\ dir' = [dir EXCEPT ![Received] = i]
           /\ Store([data EXCEPT ![i] = content])

PackStep(p) ==
  \/ BeginPack(p) \/ OpenPacking(p) \/ PackChunk(p) \/ FlushPacking(p)
  \/ EndOfSource(p) \/ ClosePacking(p) \/ ReplaceArtifact(p)
PackFails(p) == PackIOError(p) \/ PackStrands(p) \/ KillPack(p)
UnpackStep(u) ==
  \/ BeginUnpack(u) \/ ResolveOutput(u) \/ OpenUnpacking(u) \/ ReadFrames(u)
  \/ VerifyChunk(u) \/ RejectChunk(u) \/ EndOfChunks(u) \/ ReplaceOutput(u)
UnpackFails(u) == UnpackIOError(u) \/ UnpackStrands(u) \/ KillUnpack(u)

Next ==
  \/ \E p \in Packers : PackStep(p) \/ PackFails(p)
  \/ \E u \in Unpackers : UnpackStep(u) \/ UnpackFails(u)
  \/ EditSource \/ Arrive

Spec == Init /\ [][Next]_vars

-----------------------------------------------------------------------------
(* Properties *)

Headers == [fileId : Packers, totalSize : Nat, chunkSize : Nat, totalChunks : Nat]
Files == Inodes \cup {NoFile}

\* Every variable has the type of what it models, buffers by their length; an
\* open file is an inode, and a buffer holds no more than was put into it.
TypeOK ==
  /\ source \in Seq(Bytes)
  /\ dir \in [Names -> Files]
  /\ DOMAIN data = Inodes
  /\ DOMAIN packer = Packers /\ DOMAIN unpacker = Unpackers
  /\ \A p \in Packers :
       /\ [packer[p] EXCEPT !.buffer = Len(@)] \in
            [pc : Ended \cup {"opening", "writing", "closing", "replacing"},
             header : Headers \cup {NoHeader}, read : Seq(Bytes), written : Nat,
             dst : Files, buffer : 0..(packer[p].written + 1)]
       /\ packer[p].pc \in {"writing", "closing"} => packer[p].dst \in Inodes
  /\ \A u \in Unpackers :
       /\ [unpacker[u] EXCEPT !.read = Len(@)] \in
            [pc : Ended \cup {"resolving", "opening", "verifying", "replacing"},
             header : Headers \cup {NoHeader}, src : Files, read : Nat, dst : Files,
             out : 0..Outputs, index : Nat, written : Nat]
       /\ unpacker[u].pc = "verifying" =>
            {unpacker[u].src, unpacker[u].dst} \subseteq Inodes
  /\ sealed \subseteq Seq(Bytes)
  /\ events \in 0..MaxEvents

\* The artifact passes every check of unpack_file().
OpensFully(artifact, secret) ==
  /\ HeaderOpens(artifact, secret)
  /\ LET h == artifact[1].plain[1]
     IN  /\ \A n \in 0..(h.totalChunks - 1) :
              ChunkOpens(artifact, secret, h, n, artifact[n + 1].tag)
         /\ Len(artifact) = h.totalChunks + 1

\* What pack_file() put under the artifact name is an artifact that
\* unpack_file() with the same secret accepts: a source that was changed while
\* it was packed makes pack_file() fail instead (packer.py, Raises).
ArtifactsUnpack ==
  dir[Artifact] # NoFile =>
    \E p \in Packers : OpensFully(data[dir[Artifact]], Secret[p])

\* The source is the one p began with, p has read a part of it, and all of it
\* before it closes; the temporary file is still the one it opened; and what it
\* has written, together with what is in the buffer, is that part of the artifact
\* of the whole.
Undisturbed(p) ==
  LET whole == ArtifactOf(Secret[p], p, source, PackChunkSize[p])
  IN  /\ packer[p].header.totalSize = Len(source)
      /\ Len(packer[p].read) <= Len(source)
      /\ packer[p].read = SubSeq(source, 1, Len(packer[p].read))
      /\ packer[p].pc = "closing" => packer[p].read = source
      /\ packer[p].pc # "opening" =>
           /\ packer[p].written < Len(whole)
           /\ data[dir[Packing]] \o packer[p].buffer =
                SubSeq(whole, 1, packer[p].written + 1)
      /\ packer[p].pc \in {"writing", "closing"} => packer[p].dst = dir[Packing]

\* A pack_file() that nobody disturbs goes on to put exactly the artifact of
\* its source in place, in the format that unpack_file() expects; only a full
\* disk or its death stops it.
UndisturbedPackSucceeds ==
  [][\A p \in Packers :
       (/\ Active(packer[p]) /\ (packer[p].pc # "opening" => dir[Packing] # NoFile)
        /\ Undisturbed(p)
        /\ PackStep(p)) =>
         IF packer'[p].pc = "done"
         THEN data'[dir'[Artifact]] =
                ArtifactOf(Secret[p], p, source, PackChunkSize[p])
         ELSE packer'[p].pc # "failed" /\ Undisturbed(p)']_vars

\* unpack_file() accepts every artifact that is, as a whole, the artifact of a
\* content packed under its secret, whatever the length of the content, when
\* what it has read of the file so far is what the file begins with.
WholeArtifactUnpacks ==
  [][\A u \in Unpackers :
       (/\ unpacker[u].src # NoFile
        /\ \E p \in Packers, c \in sealed :
             data[unpacker[u].src] = ArtifactOf(Secret[u], p, c, PackChunkSize[p])
        /\ \E k \in 1..Len(data[unpacker[u].src]) :
             unpacker[u].read = SubSeq(data[unpacker[u].src], 1, k)
        /\ UnpackStep(u)) => unpacker'[u].pc # "failed"]_vars

\* A call that ends, also by failing, leaves no temporary file: one is there
\* only while a call is running, or because one was killed or met an error that
\* nothing cleans up after (os.replace() of pack_file() is such a place).
NoLeftovers ==
  /\ dir[Packing] # NoFile =>
       \E p \in Packers : Active(packer[p]) \/ packer[p].pc \in {"killed", "stranded"}
  /\ \A n \in 1..Outputs : dir[Unpacking(n)] # NoFile =>
       \E u \in Unpackers :
         Active(unpacker[u]) \/ unpacker[u].pc \in {"killed", "stranded"}

\* Every call runs on unless something ends it: it is scheduled, and system calls
\* return.
FairSpec ==
  /\ Spec
  /\ \A p \in Packers : WF_vars(packer[p].pc # "idle" /\ PackStep(p))
  /\ \A u \in Unpackers : WF_vars(unpacker[u].pc # "idle" /\ UnpackStep(u))

\* Every call ends, whatever others do to its files: each begins at most once,
\* and in the end none is running.
CallsEnd ==
  <>[](/\ \A p \in Packers : ~Active(packer[p])
       /\ \A u \in Unpackers : ~Active(unpacker[u]))
=============================================================================
